--------------------------- MODULE LicenceProofs ---------------------------
(***************************************************************************)
(* The canaries come first, for every fleet: CanaryFirst, and that the     *)
(* fleet implements RolloutLicence.  Then, when the books balance.         *)
(*                                                                         *)
(* The first two do not hold by induction alone.  What has to be carried   *)
(* along is, for everything that is under way, why it is allowed: a status *)
(* about to be written has the canary that earned it, and every install,   *)
(* wherever it stands between the scheduler's query and the slot of the    *)
(* box, is of a canary or of a rollout that is released.  Handlers act on  *)
(* what they read before an await; the argument is that nothing they rely  *)
(* on is ever taken back (Steady).                                         *)
(***************************************************************************)
EXTENDS CapProofs

Exists(r) == rollout[r].status # "ABSENT"
Issued == {j \in Jobs : Exists(RolloutOf[j])}
Earned(r) == \E j \in CanariesOf(r) : j \in installed

\* The jobs a box may be told to install.
Touchable == {j \in Issued : job[j].canary \/ RolloutOf[j] \in Released}

\* What a handler has in hand was issued, and what it will write is deserved.
Founded ==
  {f \in GoodFrame :
    /\ f.rollout \in Rollouts => Exists(f.rollout)
    /\ f.at # "reconcile" /\ f.job \in Jobs => f.job \in Issued
    /\ f.todo \subseteq Issued
    /\ f.at = "rewrite"
         => \/ f.status \in {"PAUSED", "COMPLETED"} /\ ~f.passes
            \/ f.status \in {"SOAKING", "RUNNING", "COMPLETED"} /\ f.passes /\ Earned(f.rollout)
    /\ f.at = "resume" => f.passes \/ f.rollout \in Released}

Allowed == {m \in ToBox : m.kind = "install" => m.job \in Touchable}

JobsLicensed == \A j \in Jobs : job[j].state # "ABSENT" => j \in Issued

RowsLicensed ==
  \A r \in Rollouts :
    /\ rollout[r].status \in {"SOAKING", "RUNNING"} => r \in Released
    /\ rollout[r].passed # "never" => Exists(r) /\ (CanariesOf(r) = {} \/ IsProven(r))

FramesLicensed == frame \in [Threads -> Founded]

PassLicensed ==
  /\ pass.todo \subseteq Issued
  /\ pass.soaked \subseteq Released
  /\ Dispatching \/ Sending => pass.todo \subseteq Touchable
  /\ Sending => frame[Tick].job \in Touchable

LinkLicensed ==
  /\ outbox \in [Sockets -> Seq(Allowed)]
  /\ \A d \in Devices : agent[d].job \in Touchable \cup {None}
  /\ started \subseteq Issued
  /\ installed \subseteq Issued

Licensed ==
  JobsLicensed /\ RowsLicensed /\ FramesLicensed /\ PassLicensed /\ LinkLicensed

-----------------------------------------------------------------------------
(* Nothing that a handler relies on is taken back.                         *)

Steady ==
  /\ \A r \in Rollouts :
       Exists(r) => /\ Exists(r)'
                    /\ rollout[r].passed # "never" => rollout'[r].passed # "never"
  /\ \A j \in Issued : job'[j].canary = job[j].canary
  /\ installed \subseteq installed'
  /\ resumed \subseteq resumed'

LEMMA Foreign == \A j \in Jobs : RolloutOf[j] \in Rollouts /\ DeviceOf[j] \in Devices
  BY JobStoreAssumption DEF JobStoreAssumption

LEMMA SteadyGrows ==
  ASSUME Steady
  PROVE  /\ Issued \subseteq Issued'
         /\ \A r \in Rollouts : Exists(r) => CanariesOf(r)' = CanariesOf(r)
         /\ \A r \in Rollouts : Exists(r) /\ Earned(r) => Earned(r)'
         /\ \A r \in Rollouts : Exists(r) /\ IsProven(r) => IsProven(r)'
         /\ Released \subseteq Released'
         /\ Touchable \subseteq Touchable'
         /\ Founded \subseteq Founded'
         /\ Allowed \subseteq Allowed'
<1>1. Issued \subseteq Issued'
  BY Foreign DEF Steady, Issued
<1>2. ASSUME NEW r \in Rollouts, Exists(r) PROVE CanariesOf(r)' = CanariesOf(r)
  <2>1. \A j \in JobsOf(r) : j \in Issued
    BY <1>2 DEF JobsOf, Issued
  <2>2. \A j \in JobsOf(r) : job'[j].canary = job[j].canary
    BY <2>1 DEF Steady
  <2> QED BY <2>2 DEF CanariesOf, JobsOf
<1>3. ASSUME NEW r \in Rollouts, Exists(r)
      PROVE  (Earned(r) => Earned(r)') /\ (IsProven(r) => IsProven(r)')
  BY <1>2, <1>3 DEF Steady, Earned, IsProven
<1>4. Released \subseteq Released'
  <2> SUFFICES ASSUME NEW r \in Released PROVE r \in Released'
    OBVIOUS
  <2>1. r \in Rollouts /\ Exists(r) /\ (rollout[r].passed # "never" \/ CanariesOf(r) = {})
    BY DEF Released, Exists
  <2>2. Exists(r)' /\ (rollout'[r].passed # "never" \/ CanariesOf(r)' = {})
    BY <1>2, <2>1 DEF Steady
  <2> QED BY <2>1, <2>2 DEF Released, Exists
<1>5. Touchable \subseteq Touchable'
  BY <1>1, <1>4 DEF Touchable, Steady
<1>6. Founded \subseteq Founded'
  <2> SUFFICES ASSUME NEW f \in Founded PROVE f \in Founded'
    OBVIOUS
  <2>1. f.rollout \in Rollouts => Exists(f.rollout)'
    BY DEF Founded, Steady
  <2>2. f.at # "reconcile" /\ f.job \in Jobs => f.job \in Issued'
    BY <1>1 DEF Founded
  <2>3. f.todo \subseteq Issued'
    BY <1>1 DEF Founded
  <2>4. f.at = "rewrite" => f.rollout \in Rollouts
    BY DEF Founded, GoodFrame
  <2>5. f.at = "rewrite" /\ Earned(f.rollout) => Earned(f.rollout)'
    BY <1>3, <2>4 DEF Founded
  <2>6. f.rollout \in Released => f.rollout \in Released'
    BY <1>4
  <2> QED BY <2>1, <2>2, <2>3, <2>5, <2>6 DEF Founded
<1>7. Allowed \subseteq Allowed'
  BY <1>5 DEF Allowed
<1> QED BY <1>1, <1>2, <1>3, <1>4, <1>5, <1>6, <1>7

-----------------------------------------------------------------------------
(* The parts of Licensed that a step leaves alone.                         *)

LEMMA RowsStay ==
  ASSUME RowsLicensed, Steady, UNCHANGED rollout
  PROVE  RowsLicensed'
<1> SUFFICES ASSUME NEW r \in Rollouts
             PROVE  /\ rollout[r].status \in {"SOAKING", "RUNNING"} => r \in Released'
                    /\ rollout[r].passed # "never"
                         => Exists(r)' /\ (CanariesOf(r)' = {} \/ IsProven(r)')
  BY DEF RowsLicensed
<1> QED BY SteadyGrows DEF RowsLicensed, Steady

LEMMA PassStays ==
  ASSUME PassLicensed, Steady, UNCHANGED pass, frame'[Tick] = frame[Tick]
  PROVE  PassLicensed'
<1>1. Dispatching' = Dispatching /\ Sending' = Sending
  BY DEF Dispatching, Sending, tickAt
<1> QED BY <1>1, SteadyGrows DEF PassLicensed

LEMMA LinkStays ==
  ASSUME LinkLicensed, Steady, UNCHANGED <<outbox, agent, started>>, installed' = installed
  PROVE  LinkLicensed'
<1>1. Seq(Allowed) \subseteq Seq(Allowed')
  BY SteadyGrows, SeqMonotonic
<1>2. outbox' \in [Sockets -> Seq(Allowed')]
  BY <1>1 DEF LinkLicensed
<1> QED BY <1>2, SteadyGrows DEF LinkLicensed

\* One handler goes on.
LEMMA FrameGoesOn ==
  ASSUME FramesLicensed, Steady, NEW t \in Threads, NEW f \in Founded',
         frame' = [frame EXCEPT ![t] = f]
  PROVE  FramesLicensed'
  BY SteadyGrows DEF FramesLicensed

-----------------------------------------------------------------------------
(* What handlers put into frames.                                          *)

LEMMA FoundedIdle == Idle \in Founded
  BY IdleFrame, JobStoreAssumption DEF Founded, Idle, JobStoreAssumption

LEMMA FoundedAt ==
  ASSUME NEW l \in {"idle", "setup", "promote", "requeue", "candidates", "dispatch"}
  PROVE  At(l) \in Founded
  BY AtFrame, JobStoreAssumption DEF Founded, At, Idle, JobStoreAssumption

LEMMA FoundedAtJob ==
  ASSUME NEW j \in Issued,
         NEW l \in {"progress", "result", "retry", "cancel", "tellAgent", "send", "unsend"}
  PROVE  AtJob(l, j) \in Founded
<1>1. AtJob(l, j) \in GoodFrame
  BY AtJobFrame DEF Issued, Labels
<1> QED BY <1>1, JobStoreAssumption DEF Founded, AtJob, Idle, JobStoreAssumption

LEMMA FoundedRecomputing ==
  ASSUME NEW j \in Issued, NEW i \in {None, j},
         NEW back \in {"idle", "requeue", "dispatch", "tellAgent"},
         back = "tellAgent" => i \in Jobs
  PROVE  Recomputing(RolloutOf[j], back, i) \in Founded
<1>1. RolloutOf[j] \in Rollouts /\ Exists(RolloutOf[j]) /\ j \in Jobs
  BY Foreign DEF Issued
<1>2. Recomputing(RolloutOf[j], back, i) \in GoodFrame
  BY <1>1, RecomputingFrame
<1>3. i \in Jobs => i \in Issued
  BY JobStoreAssumption DEF JobStoreAssumption
<1> QED BY <1>1, <1>2, <1>3 DEF Founded, Recomputing, Idle

LEMMA FoundedReturned ==
  ASSUME NEW f \in Founded, f.at \in {"recompute", "rewrite"}
  PROVE  Returned(f) \in Founded
<1>1. f \in GoodFrame /\ (f.job \in Jobs => f.job \in Issued)
  BY DEF Founded
<1>2. Returned(f) \in GoodFrame /\ f.back \in {"idle", "requeue", "dispatch", "tellAgent"}
  BY <1>1, ReturnedFrame DEF GoodFrame
<1> QED BY <1>1, <1>2, JobStoreAssumption DEF Founded, Returned, AtJob, Idle, JobStoreAssumption

-----------------------------------------------------------------------------
(* Steps that write jobs, or no row at all.                                *)

\* Only jobs that were issued are written, and whether one is a canary is never
\* written again.
JobsOnly ==
  /\ UNCHANGED <<rollout, installed, resumed>>
  /\ \A j \in Jobs : /\ job'[j].canary = job[j].canary
                     /\ job'[j].state = job[j].state \/ j \in Issued

LEMMA JobsOnlyIsSteady ==
  ASSUME JobsOnly, JobsLicensed, RowsLicensed
  PROVE  Steady /\ JobsLicensed' /\ RowsLicensed'
<1>1. Steady
  BY DEF JobsOnly, Steady, Exists, Issued
<1>2. JobsLicensed'
  BY <1>1, SteadyGrows DEF JobsOnly, JobsLicensed
<1> QED BY <1>1, <1>2, RowsStay DEF JobsOnly

LEMMA FailureKeepsCanary ==
  ASSUME NEW row \in JobRow, NEW n \in Nat
  PROVE  AfterFailure(row, n).canary = row.canary
  BY DEF AfterFailure, JobRow

\* What a handler does leaves the tick where it was, or in its loop.
LEMMA PassStaysInLoop ==
  ASSUME PassLicensed, Steady, UNCHANGED pass, ~Sending', Dispatching' => Dispatching
  PROVE  PassLicensed'
  BY SteadyGrows DEF PassLicensed

LEMMA StoreStepKeepsPass ==
  ASSUME StoreOK, PassLicensed, Steady, NEW t \in Threads, StoreStep(t), UNCHANGED pass
  PROVE  PassLicensed'
<1>1. CASE frame'[Tick] = frame[Tick]
  BY <1>1, PassStays
<1>2. CASE frame'[Tick] # frame[Tick]
  BY <1>2, StoreStepKeepsLoop, PassStaysInLoop
<1> QED BY <1>1, <1>2

\* The status recomputed from the rows a handler has read is deserved: RUNNING or
\* SOAKING only because a canary succeeded, and a success is real.
LEMMA VerdictIsEarned ==
  ASSUME StoreOK, SuccessIsReal, NEW r \in Rollouts, Exists(r), Verdict(r) # rollout[r].status
  PROVE  \/ Verdict(r) \in {"PAUSED", "COMPLETED"} /\ ~CanaryPasses(r)
         \/ Verdict(r) \in {"SOAKING", "RUNNING", "COMPLETED"} /\ CanaryPasses(r) /\ Earned(r)
<1>1. CASE rollout[r].status # "CANARY"
  BY <1>1 DEF Verdict, CanaryPasses, CanaryVerdict
<1>2. CASE rollout[r].status = "CANARY" /\ CanaryVerdict(r) \in {"SOAKING", "RUNNING"}
  <2>1. PICK j \in CanariesOf(r) : job[j].state = "SUCCESS"
    BY <1>2 DEF CanaryVerdict
  <2>2. Earned(r)
    BY <2>1 DEF Earned, SuccessIsReal, CanariesOf, JobsOf
  <2> QED BY <1>2, <2>2 DEF Verdict, CanaryPasses
<1>3. CASE rollout[r].status = "CANARY" /\ CanaryVerdict(r) \notin {"SOAKING", "RUNNING"}
  <2>1. CanaryVerdict(r) \in {"CANARY", "PAUSED"}
    BY <1>3 DEF CanaryVerdict
  <2> QED BY <1>3, <2>1 DEF Verdict, CanaryPasses
<1> QED BY <1>1, <1>2, <1>3

LEMMA StoreStepKeepsLicence ==
  ASSUME StoreOK, SuccessIsReal, Licensed, NEW t \in Threads, StoreStep(t),
         UNCHANGED <<linkVars, pass, requestVars>>
  PROVE  Licensed'
<1> DEFINE f == frame[t]
<1>f. f \in Founded /\ f \in GoodFrame
  BY DEF StoreOK, Licensed, FramesLicensed
<1>u. /\ UNCHANGED <<outbox, agent, started, installed, pass, resumed>>
      /\ JobsLicensed /\ RowsLicensed /\ FramesLicensed /\ PassLicensed /\ LinkLicensed
  BY DEF linkVars, requestVars, Licensed
<1>q. ASSUME Steady, JobsLicensed', RowsLicensed', FramesLicensed' PROVE Licensed'
  BY <1>u, <1>q, StoreStepKeepsPass, LinkStays DEF Licensed
<1>j. ASSUME JobsOnly, NEW g \in Founded, frame' = [frame EXCEPT ![t] = g] PROVE Licensed'
  <2>1. Steady /\ JobsLicensed' /\ RowsLicensed'
    BY <1>u, <1>j, JobsOnlyIsSteady
  <2>2. FramesLicensed'
    BY <1>u, <1>j, <2>1, SteadyGrows, FrameGoesOn
  <2> QED BY <1>q, <2>1, <2>2
<1>1. CASE ProgressWrite(t)
  <2>1. f.job \in Issued
    BY <1>1, <1>f DEF ProgressWrite, Founded, GoodFrame
  <2>2. JobsOnly
    BY <1>1, <1>u, <2>1 DEF ProgressWrite, JobsOnly, StoreOK, JobRow
  <2> QED BY <1>1, <1>j, <2>2, FoundedIdle DEF ProgressWrite
<1>2. CASE ResultWrite(t)
  <2>1. f.job \in Issued /\ f.job \in Jobs /\ f.attempt \in Nat
    BY <1>2, <1>f DEF ResultWrite, Founded, GoodFrame, Frame
  <2>2. /\ job[f.job] \in JobRow
        /\ AfterFailure(job[f.job], f.attempt).canary = job[f.job].canary
        /\ [job[f.job] EXCEPT !.state = "SUCCESS"].canary = job[f.job].canary
    BY <2>1, FailureKeepsCanary DEF StoreOK, JobRow
  <2>3. JobsOnly
    BY <1>2, <1>u, <2>1, <2>2 DEF ResultWrite, JobsOnly, StoreOK
  <2>4. Recomputing(RolloutOf[f.job], "idle", None) \in Founded
    BY <2>1, FoundedRecomputing
  <2> QED BY <1>2, <1>j, <2>3, <2>4 DEF ResultWrite
<1>3. CASE RetryWrite(t)
  <2>1. f.job \in Issued
    BY <1>3, <1>f DEF RetryWrite, Founded, GoodFrame
  <2>2. JobsOnly
    BY <1>3, <1>u, <2>1 DEF RetryWrite, JobsOnly, StoreOK, JobRow
  <2>3. Recomputing(RolloutOf[f.job], "idle", None) \in Founded
    BY <2>1, FoundedRecomputing
  <2> QED BY <1>3, <1>j, <2>2, <2>3 DEF RetryWrite
<1>4. CASE CancelWrite(t)
  <2>1. f.job \in Issued /\ f.job \in Jobs
    BY <1>4, <1>f DEF CancelWrite, Founded, GoodFrame
  <2>2. JobsOnly
    BY <1>4, <1>u, <2>1 DEF CancelWrite, JobsOnly, StoreOK, JobRow
  <2>3. Recomputing(RolloutOf[f.job], "tellAgent", f.job) \in Founded
    BY <2>1, FoundedRecomputing
  <2> QED BY <1>4, <1>j, <2>2, <2>3 DEF CancelWrite
<1>5. CASE Recompute(t)
  <2> DEFINE r == f.rollout
             g == [f EXCEPT !.at = "rewrite", !.status = Verdict(r), !.passes = CanaryPasses(r)]
  <2>1. f.at = "recompute" /\ r \in Rollouts /\ Exists(r)
    BY <1>5, <1>f DEF Recompute, Founded, GoodFrame
  <2>2. JobsOnly
    BY <1>5, <1>u DEF Recompute, JobsOnly
  <2>3. Returned(f) \in Founded
    BY <1>f, <2>1, FoundedReturned
  <2>4. CASE rollout[r].status \in {"COMPLETED", "CANCELLED"} \/ Verdict(r) = rollout[r].status
    <3>1. frame' = [frame EXCEPT ![t] = Returned(f)]
      BY <1>5, <2>4 DEF Recompute
    <3> QED BY <1>j, <2>2, <2>3, <3>1
  <2>5. CASE ~(rollout[r].status \in {"COMPLETED", "CANCELLED"} \/ Verdict(r) = rollout[r].status)
    <3>1. frame' = [frame EXCEPT ![t] = g]
      BY <1>5, <2>5 DEF Recompute
    <3>2. Verdict(r) \in RolloutStates /\ CanaryPasses(r) \in BOOLEAN
      BY <2>1 DEF Verdict, CanaryVerdict, CanaryPasses, StoreOK, RolloutRow, RolloutStates
    <3>3. g \in GoodFrame
      BY <1>f, <2>1, <3>2 DEF GoodFrame, Frame, Labels
    <3>4. /\ g.at = "rewrite" /\ g.rollout = r /\ g.job = f.job /\ g.todo = f.todo
          /\ g.status = Verdict(r) /\ g.passes = CanaryPasses(r)
      BY <1>f DEF GoodFrame, Frame
    <3>5. \/ g.status \in {"PAUSED", "COMPLETED"} /\ ~g.passes
          \/ g.status \in {"SOAKING", "RUNNING", "COMPLETED"} /\ g.passes /\ Earned(r)
      BY <2>1, <2>5, <3>4, VerdictIsEarned
    <3> HIDE DEF g
    <3>6. g \in Founded
      BY <1>f, <2>1, <3>3, <3>4, <3>5 DEF Founded
    <3> QED BY <1>j, <2>2, <3>1, <3>6
  <2> QED BY <2>4, <2>5
<1>6. CASE RolloutWrite(t)
  <2>0. PICK r \in Rollouts : r = f.rollout
    BY <1>6, <1>f DEF RolloutWrite, GoodFrame
  <2>1. /\ f.at = "rewrite" /\ Exists(r)
        /\ \/ f.status \in {"PAUSED", "COMPLETED"} /\ ~f.passes
           \/ f.status \in {"SOAKING", "RUNNING", "COMPLETED"} /\ f.passes /\ Earned(r)
    BY <1>6, <1>f, <2>0 DEF RolloutWrite, Founded
  <2>2. /\ UNCHANGED <<job, installed, resumed>>
        /\ rollout'[r].status = f.status
        /\ rollout'[r].passed = IF f.passes THEN "fresh" ELSE rollout[r].passed
        /\ \A i \in Rollouts \ {r} : rollout'[i] = rollout[i]
    BY <1>6, <1>u, <2>0 DEF RolloutWrite, StoreOK, RolloutRow
  <2>3. Steady
    BY <2>1, <2>2 DEF Steady, Exists
  <2>4. JobsLicensed'
    BY <1>u, <2>2, <2>3, SteadyGrows DEF JobsLicensed
  <2>5. RowsLicensed'
    <3>1. ASSUME NEW i \in Rollouts, i # r
          PROVE  /\ rollout'[i].status \in {"SOAKING", "RUNNING"} => i \in Released'
                 /\ rollout'[i].passed # "never"
                      => Exists(i)' /\ (CanariesOf(i)' = {} \/ IsProven(i)')
      BY <1>u, <2>2, <2>3, <3>1, SteadyGrows DEF RowsLicensed, Steady
    <3>2. rollout'[r].status \in {"SOAKING", "RUNNING"} => r \in Released'
      BY <2>1, <2>2 DEF Released
    <3>3. rollout'[r].passed # "never"
            => Exists(r)' /\ (CanariesOf(r)' = {} \/ IsProven(r)')
      <4>1. Exists(r)' /\ (Earned(r) => Earned(r)') /\ (IsProven(r) => IsProven(r)')
        BY <2>1, <2>3, SteadyGrows DEF Steady
      <4>2. CanariesOf(r)' = CanariesOf(r)
        BY <2>1, <2>3, SteadyGrows
      <4>3. CASE f.passes
        BY <2>1, <4>1, <4>3 DEF Earned, IsProven
      <4>4. CASE ~f.passes
        BY <1>u, <2>1, <2>2, <4>1, <4>2, <4>4 DEF RowsLicensed
      <4> QED BY <4>3, <4>4
    <3> QED BY <3>1, <3>2, <3>3 DEF RowsLicensed
  <2>6. Returned(f) \in Founded
    BY <1>f, <2>1, FoundedReturned
  <2>7. FramesLicensed'
    BY <1>6, <1>u, <2>3, <2>6, SteadyGrows, FrameGoesOn DEF RolloutWrite
  <2> QED BY <1>q, <2>3, <2>4, <2>5, <2>7
<1> QED BY <1>1, <1>2, <1>3, <1>4, <1>5, <1>6 DEF StoreStep

-----------------------------------------------------------------------------
(* The link.                                                               *)

\* A step that leaves the tick alone and writes at most jobs keeps what is
\* licensed, if the frames it makes and the messages it sends are.
LEMMA QuietStepKeepsLicence ==
  ASSUME Licensed, JobsOnly, UNCHANGED pass, frame'[Tick] = frame[Tick],
         FramesLicensed', LinkLicensed'
  PROVE  Licensed'
  BY JobsOnlyIsSteady, PassStays DEF Licensed

\* The same with no row written.
LEMMA RowsLeftAlone ==
  ASSUME UNCHANGED <<job, rollout, installed, resumed>>
  PROVE  JobsOnly /\ Issued' = Issued /\ Touchable' = Touchable /\ Allowed' = Allowed
         /\ Founded' = Founded
<1>1. Issued' = Issued /\ \A r : CanariesOf(r)' = CanariesOf(r)
  BY DEF Issued, Exists, CanariesOf, JobsOf
<1>2. Released' = Released /\ \A r : Earned(r)' = Earned(r)
  BY <1>1 DEF Released, Earned
<1>3. Touchable' = Touchable
  BY <1>1, <1>2 DEF Touchable
<1>4. Founded' = Founded
  BY <1>1, <1>2 DEF Founded, Exists
<1> QED BY <1>1, <1>3, <1>4 DEF JobsOnly, Allowed

LEMMA CancelAllowed ==
  ASSUME NEW j \in Jobs
  PROVE  [kind |-> "cancel", job |-> j] \in Allowed
  BY DEF Allowed, ToBox

LEMMA SentAllowed ==
  ASSUME LinkLicensed, NEW s \in Sockets, NEW msg \in Allowed
  PROVE  Sent(s, msg) \in [Sockets -> Seq(Allowed)]
<1>1. Append(outbox[s], msg) \in Seq(Allowed)
  BY DEF LinkLicensed
<1> QED BY <1>1 DEF LinkLicensed, Sent

LEMMA SentToAllowed ==
  ASSUME LinkOK, LinkLicensed, NEW d \in Devices, IsOnline(d), NEW msg \in Allowed
  PROVE  SentTo(d, msg) \in [Sockets -> Seq(Allowed)]
<1>1. registry[d] \in Sockets
  BY DEF LinkOK, IsOnline
<1> QED BY <1>1, SentAllowed DEF SentTo

LEMMA ReconcileKeepsLicence ==
  ASSUME StoreOK, LinkLicensed, FramesLicensed, NEW s \in Sockets, NEW f \in Founded,
         f.at = "reconcile", ReconcileOn(s, f)
  PROVE  /\ frame' \in [Threads -> Founded]
         /\ outbox' \in [Sockets -> Seq(Allowed)]
<1>s. s \in Threads
  BY DEF Threads
<1>1. CASE f.todo # {}
  BY <1>s, <1>1 DEF ReconcileOn, FramesLicensed, LinkLicensed
<1>2. CASE f.todo = {} /\ f.ok
  BY <1>s, <1>2, FoundedIdle DEF ReconcileOn, FramesLicensed, LinkLicensed
<1>3. CASE f.todo = {} /\ ~f.ok
  <2>1. f.job \in Jobs
    BY <1>3 DEF Founded, GoodFrame
  <2>2. outbox' \in [Sockets -> Seq(Allowed)]
    BY <1>3, <2>1, CancelAllowed, SentAllowed DEF ReconcileOn
  <2> QED BY <1>s, <1>3, <2>2, FoundedIdle DEF ReconcileOn, FramesLicensed
<1> QED BY <1>1, <1>2, <1>3

LEMMA SocketStepKeepsLicence ==
  ASSUME StoreOK, LinkOK, Licensed, NEW s \in Sockets, Socket(s)
  PROVE  Licensed'
<1>s. /\ s \in Threads /\ frame[s] \in Founded /\ frame[s] \in GoodFrame
      /\ JobsLicensed /\ RowsLicensed /\ FramesLicensed /\ LinkLicensed
  BY DEF Threads, StoreOK, Licensed, FramesLicensed
<1>p. frame'[Tick] = frame[Tick] /\ UNCHANGED <<pass, resumed>>
  BY OtherStepIsCalm DEF Socket, requestVars
<1>1. CASE SetupDone(s)
  <2>1. UNCHANGED <<job, rollout, installed, resumed, outbox, agent, started>>
    BY <1>1, <1>p DEF SetupDone, linkVars
  <2>2. FramesLicensed' /\ LinkLicensed'
    BY <1>1, <1>s, <2>1, RowsLeftAlone, FoundedIdle DEF SetupDone, FramesLicensed, LinkLicensed
  <2> QED BY <1>p, <2>1, <2>2, RowsLeftAlone, QuietStepKeepsLicence
<1>2. CASE SocketCloses(s)
  <2>1. UNCHANGED <<job, rollout, installed, resumed, outbox, agent, started, frame>>
    BY <1>2, <1>p DEF SocketCloses, storeVars
  <2>2. FramesLicensed' /\ LinkLicensed'
    BY <1>s, <2>1, RowsLeftAlone DEF FramesLicensed, LinkLicensed
  <2> QED BY <1>p, <2>1, <2>2, RowsLeftAlone, QuietStepKeepsLicence
<1>3. CASE Receive(s)
  <2> DEFINE msg == Head(inbox[s])
  <2>1. UNCHANGED <<job, rollout, installed, resumed, agent, started>>
    BY <1>3, <1>p DEF Receive
  <2>2. msg \in GoodToHub
    BY <1>3, HeadTailProperties DEF Receive, LinkOK
  <2>3. \A j \in Jobs : job[j].state # "ABSENT" => j \in Issued
    BY <1>s DEF JobsLicensed
  <2>4. /\ frame' \in [Threads -> Founded]
        /\ outbox' \in [Sockets -> Seq(Allowed)]
    <3>1. CASE msg.kind = "hello" /\ ReconcileOn(s, ReconcileRead(s, msg.job))
      <4> DEFINE active == {j \in Active : DeviceOf[j] = OwnerOf[s]}
                 ours == msg.job \in active \cup {None}
                 g == [AtJob("reconcile", msg.job) EXCEPT !.todo = active \ {msg.job}, !.ok = ours]
      <4>1. msg.job \in Jobs \cup {None}
        BY <2>2 DEF GoodToHub, ToHub
      <4>2. active \ {msg.job} \in SUBSET Jobs /\ active \ {msg.job} \subseteq Issued
        BY <2>3 DEF Active, IsActive, ActiveStates
      <4>3. (~ours => msg.job \in Jobs) /\ ours \in BOOLEAN
        BY <4>1
      <4>4. ASSUME NEW T \in SUBSET Jobs, T \subseteq Issued, NEW b \in BOOLEAN,
                   ~b => msg.job \in Jobs
            PROVE  [AtJob("reconcile", msg.job) EXCEPT !.todo = T, !.ok = b] \in Founded
        <5>1. [AtJob("reconcile", msg.job) EXCEPT !.todo = T, !.ok = b] \in GoodFrame
          BY <4>1, <4>4 DEF AtJob, Idle, GoodFrame, Frame, Labels, RolloutStates
        <5> QED BY <4>4, <5>1, JobStoreAssumption DEF Founded, AtJob, Idle, JobStoreAssumption
      <4> HIDE DEF active, ours
      <4>5. g \in Founded
        BY <4>2, <4>3, <4>4
      <4>6. g.at = "reconcile"
        BY DEF AtJob, Idle
      <4>7. ReconcileOn(s, g)
        BY <3>1 DEF ReconcileRead, active, ours
      <4> HIDE DEF g
      <4> QED BY <1>s, <4>5, <4>6, <4>7, ReconcileKeepsLicence
    <3>2. CASE /\ msg.kind = "progress"
               /\ frame' = [frame EXCEPT ![s] = ProgressRead(msg.job)]
               /\ UNCHANGED outbox
      <4>1. msg.job \in Jobs
        BY <2>2, <3>2 DEF GoodToHub
      <4>2. ProgressRead(msg.job) \in Founded
        BY <2>3, <4>1, FoundedIdle, FoundedAtJob DEF ProgressRead
      <4> QED BY <1>s, <3>2, <4>2 DEF FramesLicensed, LinkLicensed
    <3>3. CASE /\ msg.kind = "result"
               /\ frame' = [frame EXCEPT ![s] = ResultRead(msg.job, msg.ok)]
               /\ UNCHANGED outbox
      <4>1. msg.job \in Jobs /\ msg.ok \in BOOLEAN
        BY <2>2, <3>3 DEF GoodToHub, ToHub
      <4>2. ResultRead(msg.job, msg.ok) \in Founded
        <5>1. CASE job[msg.job].state = "ABSENT" \/ IsTerminal(msg.job)
          BY <5>1, FoundedIdle DEF ResultRead
        <5>2. CASE ~(job[msg.job].state = "ABSENT" \/ IsTerminal(msg.job))
          <6>1. msg.job \in Issued
            BY <2>3, <4>1, <5>2
          <6>2. ResultRead(msg.job, msg.ok) \in GoodFrame
            BY <4>1, ReadFrames
          <6>3. ResultRead(msg.job, msg.ok)
                  = [AtJob("result", msg.job) EXCEPT !.ok = msg.ok,
                                                     !.attempt = job[msg.job].attempt]
            BY <5>2 DEF ResultRead
          <6>4. /\ ResultRead(msg.job, msg.ok).at = "result"
                /\ ResultRead(msg.job, msg.ok).job = msg.job
                /\ ResultRead(msg.job, msg.ok).todo = {}
                /\ ResultRead(msg.job, msg.ok).rollout = None
            BY <6>3 DEF AtJob, Idle
          <6> QED BY <6>1, <6>2, <6>4, JobStoreAssumption DEF Founded, JobStoreAssumption
        <5> QED BY <5>1, <5>2
      <4> QED BY <1>s, <3>3, <4>2 DEF FramesLicensed, LinkLicensed
    <3> QED BY <1>3, <3>1, <3>2, <3>3 DEF Receive
  <2>5. FramesLicensed' /\ LinkLicensed'
    BY <1>s, <2>1, <2>4, RowsLeftAlone DEF FramesLicensed, LinkLicensed
  <2> QED BY <1>p, <2>1, <2>5, RowsLeftAlone, QuietStepKeepsLicence
<1>4. CASE ReconcileWrite(s)
  <2> DEFINE g(j) == [frame[s] EXCEPT !.todo = @ \ {j}]
  <2>1. PICK j \in frame[s].todo :
          /\ job' = [job EXCEPT ![j].state = "QUEUED", ![j].held = FALSE, ![j].stale = FALSE]
          /\ ReconcileOn(s, g(j))
    BY <1>4 DEF ReconcileWrite
  <2>2. j \in Issued /\ frame[s].at = "reconcile"
    BY <1>4, <1>s DEF ReconcileWrite, Founded
  <2>3. g(j) \in Founded /\ g(j).at = "reconcile"
    <3>1. g(j) \in GoodFrame
      BY <1>s DEF GoodFrame, Frame
    <3>2. /\ g(j).at = frame[s].at /\ g(j).rollout = frame[s].rollout
          /\ g(j).todo = frame[s].todo \ {j}
      BY <1>s DEF GoodFrame, Frame
    <3> QED BY <1>s, <2>2, <3>1, <3>2 DEF Founded
  <2>4. UNCHANGED <<rollout, installed, resumed, agent, started>>
    BY <1>4, <1>p DEF ReconcileWrite
  <2>5. JobsOnly
    BY <2>1, <2>2, <2>4 DEF JobsOnly, StoreOK, JobRow
  <2>6. Steady
    BY <1>s, <2>5, JobsOnlyIsSteady
  <2>7. frame' \in [Threads -> Founded] /\ outbox' \in [Sockets -> Seq(Allowed)]
    <3> HIDE DEF g
    <3> QED BY <1>s, <2>1, <2>3, ReconcileKeepsLicence
  <2>8. FramesLicensed'
    BY <2>6, <2>7, SteadyGrows DEF FramesLicensed
  <2>9. LinkLicensed'
    <3>1. Seq(Allowed) \subseteq Seq(Allowed')
      BY <2>6, SteadyGrows, SeqMonotonic
    <3> QED BY <1>s, <2>4, <2>6, <2>7, <3>1, SteadyGrows DEF LinkLicensed
  <2> QED BY <1>p, <2>5, <2>8, <2>9, QuietStepKeepsLicence
<1> QED BY <1>1, <1>2, <1>3, <1>4 DEF Socket, SocketStep

\* Of what a box does, only Handle touches it, and only with an install that is
\* licensed; only Finish installs, what was touched.
LEMMA BoxKeepsLicence ==
  ASSUME StoreOK, LinkOK, Licensed, NEW d \in Devices,
         Dials(d) \/ Box(d) \/ Fault(d) \/ Reports(d)
  PROVE  Licensed'
<1>s. JobsLicensed /\ RowsLicensed /\ FramesLicensed /\ LinkLicensed /\ PassLicensed
  BY DEF Licensed
<1>p. frame'[Tick] = frame[Tick] /\ UNCHANGED <<pass, resumed>>
  BY OtherStepIsCalm DEF Dials, Box, Fault, Reports, requestVars
<1>a. agent[d] \in GoodSlot /\ agent[d].job \in Touchable \cup {None}
  BY <1>s DEF LinkOK, LinkLicensed
<1>n. None \notin Jobs /\ Touchable \subseteq Issued /\ Issued \subseteq Jobs
  BY JobStoreAssumption DEF JobStoreAssumption, Touchable, Issued
<1>q. ASSUME UNCHANGED <<job, rollout, installed, resumed, frame>>, LinkLicensed' PROVE Licensed'
  BY <1>s, <1>p, <1>q, RowsLeftAlone, QuietStepKeepsLicence DEF FramesLicensed
<1>1. CASE Hello(d) \/ FreesSlot(d) \/ Progress(d)
  <2>1. UNCHANGED <<job, rollout, installed, resumed, frame, outbox, started>>
    BY <1>1, <1>p DEF Hello, FreesSlot, Progress, storeVars
  <2>2. \A e \in Devices : agent'[e].job \in {agent[e].job, None}
    <3>1. CASE Hello(d)
      BY <3>1 DEF Hello
    <3>2. CASE FreesSlot(d)
      BY <3>2 DEF FreesSlot, FreeSlot, LinkOK
    <3>3. CASE Progress(d)
      <4>1. \A n : [agent[d] EXCEPT !.reports = n].job = agent[d].job
        BY <1>a DEF GoodSlot, Slot
      <4>2. PICK n : agent' = [agent EXCEPT ![d].reports = n]
        BY <3>3 DEF Progress
      <4> QED BY <4>1, <4>2 DEF LinkOK
    <3> QED BY <1>1, <3>1, <3>2, <3>3
  <2>3. LinkLicensed'
    BY <1>s, <2>1, <2>2, RowsLeftAlone DEF LinkLicensed
  <2> QED BY <1>q, <2>1, <2>3
<1>2. CASE Handle(d)
  <2> DEFINE s == session[d]
             msg == Head(outbox[s])
  <2>1. UNCHANGED <<job, rollout, installed, resumed, frame>>
    BY <1>2, <1>p DEF Handle, storeVars
  <2>2. s \in Sockets /\ outbox[s] \in Seq(Allowed) /\ outbox[s] # <<>>
    BY <1>2, <1>s DEF Handle, LinkOK, LinkLicensed
  <2>3. msg \in Allowed /\ Tail(outbox[s]) \in Seq(Allowed)
    BY <2>2, HeadTailProperties
  <2>4. outbox' \in [Sockets -> Seq(Allowed)]
    BY <1>2, <1>s, <2>3 DEF Handle, LinkLicensed
  <2>5. CASE msg.kind = "install" /\ StartJob(d, msg.job)
    <3>1. msg.job \in Touchable
      BY <2>3, <2>5 DEF Allowed
    <3>2. /\ \A e \in Devices : agent'[e].job \in {agent[e].job, msg.job}
          /\ started' \subseteq started \cup {msg.job}
      <4>1. CASE agent[d].job = None
        <5>1. agent' = [agent EXCEPT ![d] = [job |-> msg.job, phase |-> "working", reports |-> 0]]
          BY <2>5, <4>1 DEF StartJob
        <5> QED BY <2>5, <4>1, <5>1 DEF StartJob, LinkOK
      <4>2. CASE agent[d].job # None
        BY <2>5, <4>2 DEF StartJob
      <4> QED BY <4>1, <4>2
    <3>3. LinkLicensed'
      BY <1>s, <1>n, <2>1, <2>4, <3>1, <3>2, RowsLeftAlone DEF LinkLicensed
    <3> QED BY <1>q, <2>1, <3>3
  <2>6. CASE msg.kind = "cancel" /\ StopJob(d, msg.job)
    <3>1. UNCHANGED started /\ \A e \in Devices : agent'[e].job = agent[e].job
      BY <2>6 DEF StopJob, LinkOK, GoodSlot, Slot
    <3>2. LinkLicensed'
      BY <1>s, <2>1, <2>4, <3>1, RowsLeftAlone DEF LinkLicensed
    <3> QED BY <1>q, <2>1, <3>2
  <2> QED BY <1>2, <2>5, <2>6 DEF Handle
<1>3. ASSUME NEW ok \in BOOLEAN, Finish(d, ok) PROVE Licensed'
  <2>1. UNCHANGED <<job, rollout, revived, frame, resumed, outbox, started>>
    BY <1>3, <1>p DEF Finish, storeVars
  <2>2. agent[d].job \in Issued /\ installed' \subseteq installed \cup {agent[d].job}
        /\ installed \subseteq installed'
    BY <1>3, <1>a, <1>n DEF Finish, GoodSlot
  <2>3. \A e \in Devices : agent'[e].job = agent[e].job
    BY <1>3 DEF Finish, LinkOK, GoodSlot, Slot
  <2>4. Steady
    BY <2>1, <2>2 DEF Steady, Exists
  <2>5. JobsLicensed' /\ RowsLicensed'
    BY <1>s, <2>1, <2>4, SteadyGrows, RowsStay DEF JobsLicensed
  <2>6. FramesLicensed'
    BY <1>s, <2>1, <2>4, SteadyGrows DEF FramesLicensed
  <2>7. LinkLicensed'
    <3>1. Seq(Allowed) \subseteq Seq(Allowed')
      BY <2>4, SteadyGrows, SeqMonotonic
    <3> QED BY <1>s, <2>1, <2>2, <2>3, <2>4, <3>1, SteadyGrows DEF LinkLicensed
  <2> QED BY <1>s, <1>p, <2>4, <2>5, <2>6, <2>7, PassStays DEF Licensed
<1>4. CASE SessionDrops(d) \/ BoxRestarts(d)
  <2>1. UNCHANGED <<job, rollout, installed, resumed, frame, started>> /\ SessionEnds(d)
    BY <1>4, <1>p DEF SessionDrops, BoxRestarts, storeVars
  <2>2. \A e \in Devices : agent'[e].job \in {agent[e].job, None}
    BY <1>4 DEF SessionDrops, BoxRestarts, FreeSlot, LinkOK
  <2>3. outbox' \in [Sockets -> Seq(Allowed)]
    BY <1>s, <2>1, EmptySeq DEF SessionEnds, LinkLicensed
  <2>4. LinkLicensed'
    BY <1>s, <2>1, <2>2, <2>3, RowsLeftAlone DEF LinkLicensed
  <2> QED BY <1>q, <2>1, <2>4
<1>5. CASE Connect(d)
  <2>1. UNCHANGED <<job, rollout, installed, resumed, outbox, agent, started>>
    BY <1>5, <1>p DEF Connect
  <2>2. PICK s \in Sockets : frame' = [frame EXCEPT ![s] = At("setup")]
    BY <1>5 DEF Connect, Unused
  <2>3. s \in Threads /\ At("setup") \in Founded
    BY FoundedAt DEF Threads
  <2>4. FramesLicensed' /\ LinkLicensed'
    BY <1>s, <2>1, <2>2, <2>3, RowsLeftAlone DEF FramesLicensed, LinkLicensed
  <2> QED BY <1>p, <2>1, <2>4, RowsLeftAlone, QuietStepKeepsLicence
<1> QED BY <1>1, <1>2, <1>3, <1>4, <1>5
        DEF Dials, Box, BoxStep, Fault, BoxFault, Reports

LEMMA TimeKeepsLicence ==
  ASSUME StoreOK, Licensed,
         \/ \E d \in Devices : Beats(d)
         \/ \E j \in Jobs : Ages(j) \/ BackoffEnds(j)
         \/ \E r \in Rollouts : SoakEnds(r)
  PROVE  Licensed'
<1>s. JobsLicensed /\ RowsLicensed /\ FramesLicensed /\ LinkLicensed /\ PassLicensed
  BY DEF Licensed
<1>u. UNCHANGED <<frame, pass, outbox, agent, started, installed, resumed>>
  BY DEF Beats, Heartbeat, Ages, HeartbeatAges, BackoffEnds, BackoffElapses, SoakEnds,
         SoakElapses, linkVars, requestVars
<1>q. ASSUME Steady, JobsLicensed', RowsLicensed' PROVE Licensed'
  <2>1. FramesLicensed'
    BY <1>s, <1>u, <1>q, SteadyGrows DEF FramesLicensed
  <2> QED BY <1>s, <1>u, <1>q, <2>1, PassStays, LinkStays DEF Licensed
<1>1. CASE \/ \E d \in Devices : Beats(d)
           \/ \E j \in Jobs : Ages(j) \/ BackoffEnds(j)
  <2>1. UNCHANGED rollout /\ \E j \in Jobs \cup {None} :
          \/ job' = [job EXCEPT ![j].stale = FALSE]
          \/ job' = [job EXCEPT ![j].stale = TRUE]
          \/ job' = [job EXCEPT ![j].held = FALSE]
    <3>1. ASSUME NEW d \in Devices, Beats(d)
          PROVE  UNCHANGED rollout /\ job' = [job EXCEPT ![agent[d].job].stale = FALSE]
                 /\ agent[d].job \in Jobs \cup {None}
      <4>1. agent[d].job \in Jobs \cup {None}
        BY <1>s DEF LinkLicensed, Touchable, Issued
      <4> QED BY <3>1, <4>1 DEF Beats, Heartbeat
    <3>2. ASSUME NEW j \in Jobs, Ages(j) \/ BackoffEnds(j)
          PROVE  UNCHANGED rollout /\ \/ job' = [job EXCEPT ![j].stale = TRUE]
                                      \/ job' = [job EXCEPT ![j].held = FALSE]
      BY <3>2 DEF Ages, HeartbeatAges, BackoffEnds, BackoffElapses
    <3> QED BY <1>1, <3>1, <3>2
  <2>2. JobsOnly
    BY <1>u, <2>1 DEF JobsOnly, StoreOK, JobRow
  <2> QED BY <1>s, <1>q, <2>2, JobsOnlyIsSteady
<1>2. ASSUME NEW r \in Rollouts, SoakEnds(r) PROVE Licensed'
  <2>1. /\ UNCHANGED job
        /\ rollout'[r].status = "SOAKING" /\ rollout[r].status = "SOAKING"
        /\ rollout[r].passed = "fresh" /\ rollout'[r].passed = "ripe"
        /\ \A i \in Rollouts \ {r} : rollout'[i] = rollout[i]
    BY <1>2 DEF SoakEnds, SoakElapses, StoreOK, RolloutRow
  <2>2. Steady
    BY <1>u, <2>1 DEF Steady, Exists
  <2>3. JobsLicensed'
    BY <1>s, <2>1, <2>2, SteadyGrows DEF JobsLicensed
  <2>4. RowsLicensed'
    <3>1. ASSUME NEW i \in Rollouts
          PROVE  /\ rollout'[i].status \in {"SOAKING", "RUNNING"} => i \in Released'
                 /\ rollout'[i].passed # "never"
                      => Exists(i)' /\ (CanariesOf(i)' = {} \/ IsProven(i)')
      <4>1. /\ rollout'[i].status = rollout[i].status
            /\ rollout'[i].passed # "never" => rollout[i].passed # "never"
        BY <2>1
      <4> QED BY <1>s, <2>2, <4>1, SteadyGrows DEF RowsLicensed, Steady
    <3> QED BY <3>1 DEF RowsLicensed
  <2> QED BY <1>q, <2>2, <2>3, <2>4
<1> QED BY <1>1, <1>2

-----------------------------------------------------------------------------
(* The tick.                                                               *)

\* A candidate is a canary of a rollout in CANARY, or any job of one in RUNNING,
\* which is released.
LEMMA CandidatesTouchable ==
  ASSUME Licensed
  PROVE  Candidates \subseteq Touchable
<1> SUFFICES ASSUME NEW j \in Candidates PROVE j \in Touchable
  OBVIOUS
<1>1. /\ j \in Jobs /\ job[j].state = "QUEUED" /\ RolloutOf[j] \in Rollouts
      /\ \/ rollout[RolloutOf[j]].status = "CANARY" /\ job[j].canary
         \/ rollout[RolloutOf[j]].status = "RUNNING"
  BY Foreign DEF Candidates
<1>2. j \in Issued
  BY <1>1 DEF Licensed, JobsLicensed
<1> QED BY <1>1, <1>2 DEF Licensed, RowsLicensed, Touchable

\* The steps of a tick that write no row, and do not send.
LEMMA ReadingTickKeepsLicence ==
  ASSUME StoreOK, PassTypeOK, Licensed, UNCHANGED requestVars,
         \/ TickStarts \/ StalledRead \/ CountActive \/ CandidatesRead
         \/ Skip \/ SendFails \/ TickEnds
  PROVE  Licensed'
<1>s. /\ JobsLicensed /\ RowsLicensed /\ FramesLicensed /\ LinkLicensed /\ PassLicensed
      /\ Tick \in Threads /\ frame[Tick] \in Founded /\ frame[Tick] \in GoodFrame
  BY DEF Licensed, FramesLicensed, Threads, StoreOK
<1>u. UNCHANGED <<job, rollout, installed, resumed, outbox, agent, started>>
  BY DEF TickStarts, StalledRead, CountActive, CandidatesRead, Skip, SendFails, TickEnds,
         storeVars, linkVars, requestVars
<1>p. PassTypeOK /\ NoPass.todo = {} /\ NoPass.soaked = {}
  BY DEF NoPass
<1>e. /\ JobsOnly /\ Issued' = Issued /\ Touchable' = Touchable /\ Founded' = Founded
      /\ Released' = Released /\ LinkLicensed'
  <2>1. JobsOnly /\ Issued' = Issued /\ Touchable' = Touchable /\ Founded' = Founded
    BY <1>u, RowsLeftAlone
  <2>2. Released' = Released
    BY <1>u DEF Released, CanariesOf, JobsOf
  <2>3. LinkLicensed'
    BY <1>s, <1>u, <2>1, JobsOnlyIsSteady, LinkStays
  <2> QED BY <2>1, <2>2, <2>3
<1>q. ASSUME FramesLicensed', PassLicensed' PROVE Licensed'
  BY <1>s, <1>e, <1>q, JobsOnlyIsSteady DEF Licensed
<1>g. ASSUME NEW l \in {"idle", "promote", "requeue", "candidates", "dispatch"}, TickGoes(l)
      PROVE  /\ FramesLicensed' /\ ~Sending' /\ (Dispatching' => l = "dispatch")
  <2>1. FramesLicensed'
    BY <1>s, <1>e, <1>g, FoundedAt DEF TickGoes, FramesLicensed
  <2>2. frame'[Tick].at = l
    BY <1>g, TickWent
  <2> QED BY <2>1, <2>2 DEF Sending, Dispatching, tickAt
<1>1. CASE TickStarts
  <2>1. Ripe \subseteq Released
    BY <1>s DEF Ripe, RowsLicensed
  <2>2. pass'.todo = pass.todo /\ pass'.soaked = Ripe
    BY <1>1 DEF TickStarts, PassTypeOK, Pass
  <2>3. FramesLicensed' /\ ~Sending' /\ ~Dispatching'
    BY <1>1, <1>g DEF TickStarts
  <2>4. PassLicensed'
    BY <1>s, <1>e, <2>1, <2>2, <2>3 DEF PassLicensed
  <2> QED BY <1>q, <2>3, <2>4
<1>2. CASE StalledRead
  <2>1. Stalled \subseteq Issued
    BY <1>s DEF Stalled, Active, IsActive, ActiveStates, JobsLicensed
  <2>2. pass'.todo = Stalled /\ pass'.soaked = pass.soaked
    BY <1>2 DEF StalledRead, Reading, PassTypeOK, Pass
  <2>3. FramesLicensed' /\ ~Sending' /\ ~Dispatching'
    BY <1>2, <1>g DEF StalledRead
  <2>4. PassLicensed'
    BY <1>s, <1>e, <2>1, <2>2, <2>3 DEF PassLicensed
  <2> QED BY <1>q, <2>3, <2>4
<1>3. CASE CountActive \/ TickEnds
  <2>1. /\ FramesLicensed' /\ ~Sending' /\ ~Dispatching'
        /\ pass' = NoPass \/ \E n : pass' = [pass EXCEPT !.room = n]
    BY <1>3, <1>g DEF CountActive, TickEnds
  <2>2. pass'.todo \subseteq pass.todo /\ pass'.soaked \subseteq pass.soaked
    BY <1>p, <2>1 DEF PassTypeOK, Pass
  <2>3. PassLicensed'
    BY <1>s, <1>e, <2>1, <2>2 DEF PassLicensed
  <2> QED BY <1>q, <2>1, <2>3
<1>4. CASE CandidatesRead
  <2>1. Candidates \subseteq Touchable /\ Touchable \subseteq Issued
    BY CandidatesTouchable DEF Touchable
  <2>2. FramesLicensed' /\ ~Sending'
    BY <1>4, <1>g DEF CandidatesRead
  <2>3. \/ pass' = NoPass
        \/ \E n : pass' = [Reading(Candidates) EXCEPT !.site = n]
    BY <1>4 DEF CandidatesRead
  <2>4. pass'.todo \subseteq Candidates /\ pass'.soaked \subseteq pass.soaked
    <3>1. \A n : /\ [Reading(Candidates) EXCEPT !.site = n].todo = Candidates
                 /\ [Reading(Candidates) EXCEPT !.site = n].soaked = pass.soaked
      BY DEF Reading, PassTypeOK, Pass
    <3> QED BY <1>p, <2>3, <3>1
  <2>5. PassLicensed'
    BY <1>s, <1>e, <2>1, <2>2, <2>4 DEF PassLicensed
  <2> QED BY <1>q, <2>2, <2>5
<1>5. CASE Skip
  <2>1. UNCHANGED frame /\ \E j \in Jobs : pass' = Visited(j)
    BY <1>5 DEF Skip, storeVars
  <2>2. pass'.todo \subseteq pass.todo /\ pass'.soaked = pass.soaked
    BY <2>1 DEF Visited, PassTypeOK, Pass
  <2>3. Dispatching' = Dispatching /\ Sending' = Sending /\ FramesLicensed'
    BY <1>s, <1>e, <2>1 DEF Dispatching, Sending, tickAt, FramesLicensed
  <2>4. PassLicensed'
    BY <1>s, <1>e, <2>1, <2>2, <2>3 DEF PassLicensed
  <2> QED BY <1>q, <2>3, <2>4
<1>6. CASE SendFails
  <2> DEFINE g == [frame[Tick] EXCEPT !.at = "unsend"]
  <2>1. frame' = [frame EXCEPT ![Tick] = g] /\ tickAt = "send" /\ UNCHANGED pass
    BY <1>6 DEF SendFails
  <2>2. /\ g.at = "unsend" /\ g.job = frame[Tick].job /\ g.rollout = frame[Tick].rollout
        /\ g.todo = frame[Tick].todo
    BY <1>s DEF GoodFrame, Frame
  <2>3. g \in GoodFrame
    BY <1>s, <2>1 DEF tickAt, GoodFrame, Frame, Labels
  <2>4. g \in Founded
    <3> HIDE DEF g
    <3> QED BY <1>s, <2>1, <2>2, <2>3 DEF tickAt, Founded
  <2>5. frame'[Tick] = g
    BY <1>s, <2>1 DEF StoreOK
  <2>6. FramesLicensed'
    BY <1>s, <1>e, <2>1, <2>4 DEF FramesLicensed
  <2>7. Sending /\ ~Dispatching' /\ frame'[Tick].job = frame[Tick].job
    BY <2>1, <2>2, <2>5 DEF Sending, Dispatching, tickAt
  <2>8. PassLicensed'
    BY <1>s, <1>e, <2>1, <2>7 DEF PassLicensed
  <2> QED BY <1>q, <2>6, <2>8
<1> QED BY <1>1, <1>2, <1>3, <1>4, <1>5, <1>6

\* The steps of a tick that write rows or send.
LEMMA WritingTickKeepsLicence ==
  ASSUME StoreOK, LinkOK, PassTypeOK, Licensed, UNCHANGED requestVars,
         Promote \/ Requeue \/ Mark \/ Send \/ PutBack
  PROVE  Licensed'
<1>s. /\ JobsLicensed /\ RowsLicensed /\ FramesLicensed /\ LinkLicensed /\ PassLicensed
      /\ Tick \in Threads /\ frame[Tick] \in Founded /\ frame[Tick] \in GoodFrame
  BY DEF Licensed, FramesLicensed, Threads, StoreOK
<1>n. Touchable \subseteq Issued /\ Issued \subseteq Jobs
  BY DEF Touchable, Issued
<1>q. ASSUME JobsOnly, UNCHANGED <<outbox, agent, started>>,
             NEW g \in Founded, frame' = [frame EXCEPT ![Tick] = g], PassLicensed'
      PROVE  Licensed'
  <2>1. Steady /\ JobsLicensed' /\ RowsLicensed'
    BY <1>s, <1>q, JobsOnlyIsSteady
  <2>2. FramesLicensed'
    BY <1>s, <1>q, <2>1, SteadyGrows, FrameGoesOn
  <2> QED BY <1>s, <1>q, <2>1, <2>2, LinkStays DEF Licensed, JobsOnly
<1>v. \A j \in Jobs : Visited(j).todo \subseteq pass.todo /\ Visited(j).soaked = pass.soaked
  BY DEF Visited, PassTypeOK, Pass
<1>1. CASE Promote
  <2>1. PICK r \in pass.soaked :
          /\ rollout' = [rollout EXCEPT ![r].status = "RUNNING"]
          /\ pass' = [pass EXCEPT !.soaked = @ \ {r}]
    BY <1>1 DEF Promote
  <2>2. r \in Released /\ r \in Rollouts /\ Exists(r)
    BY <1>s DEF PassLicensed, Released, Exists
  <2>3. /\ UNCHANGED <<job, frame, outbox, agent, started, installed, resumed>>
        /\ rollout'[r].status = "RUNNING"
        /\ \A i \in Rollouts : /\ rollout'[i].passed = rollout[i].passed
                               /\ i # r => rollout'[i] = rollout[i]
    BY <1>1, <2>1, <2>2 DEF Promote, linkVars, requestVars, StoreOK, RolloutRow
  <2>4. Steady
    BY <2>2, <2>3 DEF Steady, Exists
  <2>5. JobsLicensed' /\ FramesLicensed'
    BY <1>s, <2>3, <2>4, SteadyGrows DEF JobsLicensed, FramesLicensed
  <2>6. RowsLicensed'
    BY <1>s, <2>2, <2>3, <2>4, SteadyGrows DEF RowsLicensed, Steady
  <2>7. pass'.todo = pass.todo /\ pass'.soaked \subseteq pass.soaked
    BY <2>1 DEF PassTypeOK, Pass
  <2>8. PassLicensed'
    <3>1. Dispatching' = Dispatching /\ Sending' = Sending
      BY <2>3 DEF Dispatching, Sending, tickAt
    <3> QED BY <1>s, <2>3, <2>4, <2>7, <3>1, SteadyGrows DEF PassLicensed
  <2> QED BY <1>s, <2>3, <2>4, <2>5, <2>6, <2>8, LinkStays DEF Licensed
<1>2. CASE Requeue
  <2>1. PICK j \in pass.todo :
          /\ job' = [job EXCEPT ![j] = AfterFailure(@, pass.seen[j])]
          /\ pass' = Visited(j)
          /\ frame' = [frame EXCEPT ![Tick] = Recomputing(RolloutOf[j], "requeue", None)]
    BY <1>2 DEF Requeue
  <2>2. /\ UNCHANGED <<rollout, installed, resumed, outbox, agent, started>>
        /\ j \in Issued /\ j \in Jobs
    BY <1>2, <1>s, <1>n DEF Requeue, linkVars, requestVars, PassLicensed
  <2>3. job[j] \in JobRow /\ pass.seen[j] \in Nat
    BY <2>2 DEF StoreOK, PassTypeOK, Pass
  <2>4. JobsOnly
    BY <2>1, <2>2, <2>3, FailureKeepsCanary DEF JobsOnly, StoreOK
  <2>5. Recomputing(RolloutOf[j], "requeue", None) \in Founded
    BY <2>2, FoundedRecomputing
  <2>6. ~Sending' /\ ~Dispatching'
    <3>1. frame'[Tick] = Recomputing(RolloutOf[j], "requeue", None)
      BY <1>s, <2>1 DEF StoreOK
    <3> QED BY <3>1, FrameFields DEF Sending, Dispatching, tickAt
  <2>7. PassLicensed'
    <3>1. Steady
      BY <1>s, <2>4, JobsOnlyIsSteady
    <3> QED BY <1>s, <1>v, <2>1, <2>2, <2>6, <3>1, SteadyGrows DEF PassLicensed
  <2> QED BY <1>q, <2>1, <2>2, <2>4, <2>5, <2>7
<1>3. CASE Mark
  <2>1. PICK j \in Jobs :
          /\ IsNext(j)
          /\ job' = [job EXCEPT ![j].state = "DISPATCHED",
                                ![j].attempt = pass.seen[j] + 1, ![j].stale = FALSE]
          /\ frame' = [frame EXCEPT ![Tick] = [AtJob("send", j) EXCEPT !.attempt = pass.seen[j]]]
          /\ pass' = Visited(j)
    BY <1>3 DEF Mark
  <2>2. UNCHANGED <<rollout, installed, resumed, outbox, agent, started>>
    BY <1>3 DEF Mark, linkVars, requestVars
  <2>3. Dispatching /\ j \in pass.todo
    BY <1>3, <2>1 DEF Mark, Dispatching, IsNext
  <2>4. j \in Touchable /\ j \in Issued
    BY <1>s, <1>n, <2>3 DEF PassLicensed
  <2>5. JobsOnly
    <3>1. \A n : [job[j] EXCEPT !.state = "DISPATCHED", !.attempt = n,
                                !.stale = FALSE].canary = job[j].canary
      BY DEF StoreOK, JobRow
    <3> QED BY <2>1, <2>2, <2>4, <3>1 DEF JobsOnly, StoreOK
  <2>6. Steady
    BY <1>s, <2>5, JobsOnlyIsSteady
  <2> DEFINE g == [AtJob("send", j) EXCEPT !.attempt = pass.seen[j]]
  <2>7. g.at = "send" /\ g.job = j /\ g.todo = {} /\ g.rollout = None
    BY DEF AtJob, Idle
  <2>8. g \in Founded
    <3>1. pass.seen[j] \in Nat
      BY DEF PassTypeOK, Pass
    <3>2. g \in GoodFrame
      BY <3>1 DEF AtJob, Idle, GoodFrame, Frame, Labels, RolloutStates
    <3> HIDE DEF g
    <3> QED BY <2>4, <2>7, <3>2, JobStoreAssumption DEF Founded, JobStoreAssumption
  <2>9. frame'[Tick] = g
    BY <1>s, <2>1 DEF StoreOK
  <2>10. PassLicensed'
    <3>1. ~Dispatching' /\ frame'[Tick].job = j
      BY <2>7, <2>9 DEF Dispatching, tickAt
    <3> QED BY <1>s, <1>v, <2>1, <2>3, <2>4, <2>6, <3>1, SteadyGrows DEF PassLicensed
  <2> HIDE DEF g
  <2> QED BY <1>q, <2>1, <2>2, <2>5, <2>8, <2>10 DEF g
<1>4. CASE Send
  <2> DEFINE j == frame[Tick].job
             msg == [kind |-> "install", job |-> j]
  <2>1. j \in Touchable /\ j \in Issued /\ j \in Jobs /\ Sending
    BY <1>4, <1>s, <1>n DEF Send, Sending, tickAt, PassLicensed
  <2>2. UNCHANGED <<job, rollout, installed, resumed, agent, started>>
    BY <1>4 DEF Send, requestVars
  <2>3. msg \in Allowed
    BY <2>1 DEF Allowed, ToBox
  <2>4. outbox' \in [Sockets -> Seq(Allowed)]
    BY <1>4, <1>s, <2>1, <2>3, Foreign, SentToAllowed DEF Send
  <2>5. Recomputing(RolloutOf[j], "dispatch", None) \in Founded
    BY <2>1, FoundedRecomputing
  <2>6. frame' = [frame EXCEPT ![Tick] = Recomputing(RolloutOf[j], "dispatch", None)]
    BY <1>4 DEF Send
  <2>7. /\ JobsOnly /\ Issued' = Issued /\ Touchable' = Touchable /\ Founded' = Founded
        /\ Allowed' = Allowed /\ Released' = Released
    <3>1. Released' = Released
      BY <2>2 DEF Released, CanariesOf, JobsOf
    <3> QED BY <2>2, <3>1, RowsLeftAlone
  <2>8. JobsLicensed' /\ RowsLicensed'
    BY <1>s, <2>7, JobsOnlyIsSteady
  <2>9. FramesLicensed' /\ LinkLicensed'
    BY <1>s, <2>2, <2>4, <2>5, <2>6, <2>7 DEF FramesLicensed, LinkLicensed
  <2>10. pass'.todo = pass.todo /\ pass'.soaked = pass.soaked
    BY <1>4 DEF Send, PassTypeOK, Pass
  <2>11. ~Sending'
    <3>1. frame'[Tick].at = "recompute"
      BY <1>s, <2>6, FrameFields DEF StoreOK
    <3> QED BY <3>1 DEF Sending, tickAt
  <2>12. PassLicensed'
    BY <1>s, <2>1, <2>7, <2>10, <2>11 DEF PassLicensed
  <2> QED BY <2>8, <2>9, <2>12 DEF Licensed
<1>5. CASE PutBack
  <2> DEFINE j == frame[Tick].job
  <2>1. j \in Touchable /\ j \in Issued /\ j \in Jobs /\ Sending
    BY <1>5, <1>s, <1>n DEF PutBack, Sending, tickAt, PassLicensed
  <2>2. UNCHANGED <<rollout, installed, resumed, outbox, agent, started, pass>>
    BY <1>5 DEF PutBack, linkVars, requestVars
  <2>3. JobsOnly
    <3>1. \A n : [job[j] EXCEPT !.state = "QUEUED", !.attempt = n,
                                !.stale = FALSE].canary = job[j].canary
      BY <2>1 DEF StoreOK, JobRow
    <3>2. job' = [job EXCEPT ![j].state = "QUEUED", ![j].attempt = frame[Tick].attempt,
                             ![j].stale = FALSE]
      BY <1>5 DEF PutBack
    <3> QED BY <2>1, <2>2, <3>1, <3>2 DEF JobsOnly, StoreOK
  <2>4. frame' = [frame EXCEPT ![Tick] = At("dispatch")] /\ At("dispatch") \in Founded
    BY <1>5, FoundedAt DEF PutBack, TickGoes
  <2>5. PassLicensed'
    <3>1. Steady
      BY <1>s, <2>3, JobsOnlyIsSteady
    <3>2. ~Sending'
      BY <1>5, TickWent DEF PutBack, Sending, tickAt
    <3> QED BY <1>s, <2>1, <2>2, <3>1, <3>2, SteadyGrows DEF PassLicensed
  <2> QED BY <1>q, <2>2, <2>3, <2>4, <2>5
<1> QED BY <1>1, <1>2, <1>3, <1>4, <1>5

-----------------------------------------------------------------------------
(* Requests.                                                               *)

LEMMA AskKeepsLicence ==
  ASSUME StoreOK, Licensed, NEW q \in Requests, Ask(q)
  PROVE  Licensed'
<1>s. /\ JobsLicensed /\ RowsLicensed /\ FramesLicensed /\ LinkLicensed /\ PassLicensed
      /\ q \in Threads
  BY DEF Licensed, Threads
<1>u. UNCHANGED <<job, rollout, installed, resumed, outbox, agent, started, pass>>
  BY DEF Ask, AskRetryJob, AskCancelJob, AskCancelRollout, AskResume, linkVars
<1>t. frame'[Tick] = frame[Tick]
  BY OtherStepIsCalm
<1>q. ASSUME NEW g \in Founded, frame' = [frame EXCEPT ![q] = g] PROVE Licensed'
  <2>1. JobsOnly /\ Founded' = Founded
    BY <1>u, RowsLeftAlone
  <2>2. FramesLicensed'
    BY <1>s, <1>q, <2>1 DEF FramesLicensed
  <2>3. LinkLicensed'
    BY <1>s, <1>u, <2>1, JobsOnlyIsSteady, LinkStays
  <2> QED BY <1>u, <1>t, <2>1, <2>2, <2>3, QuietStepKeepsLicence
<1>1. ASSUME NEW j \in Jobs, AskRetryJob(q, j) \/ AskCancelJob(q, j) PROVE Licensed'
  <2>1. j \in Issued
    BY <1>s, <1>1 DEF AskRetryJob, AskCancelJob, JobsLicensed
  <2>2. RetryRead(j) \in Founded /\ CancelRead(j) \in Founded
    BY <2>1, FoundedIdle, FoundedAtJob DEF RetryRead, CancelRead
  <2> QED BY <1>q, <1>1, <2>2 DEF AskRetryJob, AskCancelJob
<1>2. ASSUME NEW r \in Rollouts, AskCancelRollout(q, r) PROVE Licensed'
  <2> DEFINE T == {j \in JobsOf(r) : ~IsTerminal(j)}
             g == [At("cancelRollout") EXCEPT !.rollout = r, !.todo = T]
  <2>1. Exists(r) /\ frame' = [frame EXCEPT ![q] = g]
    BY <1>2 DEF AskCancelRollout, Exists
  <2>2. T \in SUBSET Jobs /\ T \subseteq Issued
    BY <2>1 DEF JobsOf, Issued
  <2>3. g.at = "cancelRollout" /\ g.rollout = r /\ g.todo = T /\ g.job = None
    BY DEF At, Idle
  <2>4. g \in GoodFrame
    <3> HIDE DEF T
    <3> QED BY <2>2 DEF At, Idle, GoodFrame, Frame, Labels, RolloutStates
  <2>5. g \in Founded
    <3> HIDE DEF g, T
    <3> QED BY <2>1, <2>2, <2>3, <2>4, JobStoreAssumption DEF Founded, JobStoreAssumption
  <2> QED BY <1>q, <2>1, <2>5
<1>3. ASSUME NEW r \in Rollouts, AskResume(q, r) PROVE Licensed'
  <2> DEFINE b == rollout[r].passed = "never"
             g == [At("resume") EXCEPT !.rollout = r, !.passes = b]
  <2>1. Exists(r) /\ frame' = [frame EXCEPT ![q] = g]
    BY <1>3 DEF AskResume, Exists
  <2>2. b \/ r \in Released
    BY <2>1 DEF Released, Exists
  <2>3. /\ g.at = "resume" /\ g.rollout = r /\ g.todo = {} /\ g.job = None /\ g.passes = b
        /\ b \in BOOLEAN
    BY DEF At, Idle
  <2>4. g \in GoodFrame
    <3> HIDE DEF b
    <3> QED BY <2>3 DEF At, Idle, GoodFrame, Frame, Labels, RolloutStates
  <2>5. g \in Founded
    <3> HIDE DEF g, b
    <3> QED BY <2>1, <2>2, <2>3, <2>4, JobStoreAssumption DEF Founded, JobStoreAssumption
  <2> QED BY <1>q, <2>1, <2>5
<1> QED BY <1>1, <1>2, <1>3 DEF Ask

LEMMA RequestStepKeepsLicence ==
  ASSUME StoreOK, LinkOK, Licensed, NEW q \in Requests, Request(q)
  PROVE  Licensed'
<1> DEFINE f == frame[q]
<1>s. /\ JobsLicensed /\ RowsLicensed /\ FramesLicensed /\ LinkLicensed /\ PassLicensed
      /\ q \in Threads /\ f \in Founded /\ f \in GoodFrame
  BY DEF Licensed, Threads, FramesLicensed, StoreOK
<1>t. frame'[Tick] = frame[Tick] /\ UNCHANGED pass
  BY OtherStepIsCalm
<1>1. CASE TellAgent(q)
  <2>1. UNCHANGED <<job, rollout, installed, resumed, agent, started>>
    BY <1>1 DEF TellAgent, requestVars
  <2>2. f.job \in Jobs
    BY <1>1, <1>s DEF TellAgent, GoodFrame
  <2>3. [kind |-> "cancel", job |-> f.job] \in Allowed /\ DeviceOf[f.job] \in Devices
    BY <2>2, CancelAllowed, Foreign
  <2>4. outbox' \in [Sockets -> Seq(Allowed)]
    BY <1>1, <1>s, <2>3, SentToAllowed DEF TellAgent, LinkLicensed
  <2>5. frame' = [frame EXCEPT ![q] = Idle]
    BY <1>1 DEF TellAgent
  <2>6. FramesLicensed' /\ LinkLicensed'
    BY <1>s, <2>1, <2>4, <2>5, FoundedIdle, RowsLeftAlone DEF FramesLicensed, LinkLicensed
  <2> QED BY <1>t, <2>1, <2>6, RowsLeftAlone, QuietStepKeepsLicence
<1>2. CASE CancelJobsOf(q)
  <2> DEFINE g == [f EXCEPT !.at = "closeRollout", !.todo = {}]
  <2>1. /\ UNCHANGED <<rollout, installed, resumed, agent, started, outbox>>
        /\ f.at = "cancelRollout" /\ f.todo \subseteq Issued
    BY <1>2, <1>s DEF CancelJobsOf, linkVars, requestVars, Founded
  <2>2. JobsOnly
    <3>1. \A i \in Jobs : \/ job'[i] = job[i]
                          \/ i \in f.todo /\ job'[i] = [job[i] EXCEPT !.state = "CANCELLED"]
      BY <1>2 DEF CancelJobsOf
    <3>2. \A i \in Jobs : [job[i] EXCEPT !.state = "CANCELLED"].canary = job[i].canary
      BY DEF StoreOK, JobRow
    <3> QED BY <2>1, <3>1, <3>2 DEF JobsOnly
  <2>3. Steady
    BY <1>s, <2>2, JobsOnlyIsSteady
  <2>4. frame' = [frame EXCEPT ![q] = g]
    BY <1>2, <1>s DEF CancelJobsOf, StoreOK
  <2>5. /\ g.at = "closeRollout" /\ g.todo = {} /\ g.rollout = f.rollout /\ g.job = f.job
    BY <1>s DEF GoodFrame, Frame
  <2>6. g \in Founded
    <3>1. g \in GoodFrame
      BY <1>s, <2>1 DEF GoodFrame, Frame, Labels
    <3> HIDE DEF g
    <3> QED BY <1>s, <2>1, <2>5, <3>1 DEF Founded
  <2>7. FramesLicensed'
    BY <1>s, <2>3, <2>4, <2>6, SteadyGrows, FrameGoesOn
  <2>8. LinkLicensed'
    BY <1>s, <2>1, <2>3, LinkStays
  <2> QED BY <1>t, <2>2, <2>7, <2>8, QuietStepKeepsLicence
<1>3. CASE CloseRollout(q) \/ ResumeWrite(q)
  <2>0. PICK r \in Rollouts : r = f.rollout
    BY <1>3, <1>s DEF CloseRollout, ResumeWrite, GoodFrame
  <2>1. Exists(r) /\ (f.at = "resume" => f.passes \/ r \in Released)
    BY <1>s, <2>0 DEF Founded
  <2>2. UNCHANGED <<job, installed, agent, started, outbox>> /\ frame' = [frame EXCEPT ![q] = Idle]
    BY <1>3 DEF CloseRollout, ResumeWrite, linkVars
  <2>3. /\ \A i \in Rollouts \ {r} : rollout'[i] = rollout[i]
        /\ \/ /\ rollout'[r].status = "CANCELLED"
              /\ rollout'[r].passed = rollout[r].passed /\ resumed' = resumed
           \/ /\ rollout'[r].status = "RUNNING"
              /\ \/ rollout'[r].passed = "fresh"
                 \/ rollout'[r].passed = rollout[r].passed /\ r \in Released
              /\ resumed' = resumed \cup {r}
    <3>1. CASE CloseRollout(q)
      BY <2>0, <3>1 DEF CloseRollout, Request, requestVars, StoreOK, RolloutRow
    <3>2. CASE ResumeWrite(q)
      <4>1. /\ rollout' = [rollout EXCEPT ![r].status = "RUNNING",
                                          ![r].passed = IF f.passes THEN "fresh" ELSE @]
            /\ resumed' = resumed \cup {r}
            /\ f.passes \/ r \in Released
        BY <2>0, <2>1, <3>2 DEF ResumeWrite
      <4>2. /\ \A i \in Rollouts \ {r} : rollout'[i] = rollout[i]
            /\ rollout'[r].status = "RUNNING"
            /\ rollout'[r].passed = IF f.passes THEN "fresh" ELSE rollout[r].passed
        BY <4>1 DEF StoreOK, RolloutRow
      <4> QED BY <4>1, <4>2
    <3> QED BY <1>3, <3>1, <3>2
  <2>4. Steady
    BY <2>1, <2>2, <2>3 DEF Steady, Exists
  <2>5. JobsLicensed' /\ FramesLicensed' /\ LinkLicensed'
    BY <1>s, <2>2, <2>4, SteadyGrows, FrameGoesOn, FoundedIdle, LinkStays DEF JobsLicensed
  <2>6. RowsLicensed'
    <3>1. \A i \in Rollouts : i # r =>
            /\ rollout'[i].status \in {"SOAKING", "RUNNING"} => i \in Released'
            /\ rollout'[i].passed # "never"
                 => Exists(i)' /\ (CanariesOf(i)' = {} \/ IsProven(i)')
      BY <1>s, <2>3, <2>4, SteadyGrows DEF RowsLicensed, Steady
    <3>2. rollout'[r].status \in {"SOAKING", "RUNNING"} => r \in Released'
      <4>1. CASE rollout'[r].passed = "fresh"
        BY <2>3, <4>1 DEF Released
      <4>2. CASE rollout'[r].passed # "fresh"
        BY <2>3, <2>4, <4>2, SteadyGrows
      <4> QED BY <4>1, <4>2
    <3>3. rollout'[r].passed # "never" => Exists(r)' /\ (CanariesOf(r)' = {} \/ IsProven(r)')
      <4>1. Exists(r)' /\ CanariesOf(r)' = CanariesOf(r) /\ (IsProven(r) => IsProven(r)')
        BY <2>1, <2>4, SteadyGrows DEF Steady
      <4>2. r \in resumed' => IsProven(r)'
        BY DEF IsProven
      <4> QED BY <1>s, <2>3, <4>1, <4>2 DEF RowsLicensed
    <3> QED BY <3>1, <3>2, <3>3 DEF RowsLicensed
  <2> QED BY <1>s, <1>t, <2>4, <2>5, <2>6, PassStays DEF Licensed
<1> QED BY <1>1, <1>2, <1>3 DEF Request, RequestStep

\* What CreateRollout writes, apart from the choice it makes.
LEMMA Created ==
  ASSUME StoreOK, NEW q \in Requests, NEW r \in Rollouts, CreateRollout(q, r)
  PROVE  /\ ~Exists(r) /\ Exists(r)'
         /\ \A i \in Rollouts \ {r} : rollout'[i] = rollout[i]
         /\ rollout'[r].passed = rollout[r].passed
         /\ \A j \in Jobs : j \notin JobsOf(r) => job'[j] = job[j]
         /\ \/ rollout'[r].status = "CANARY" /\ CanariesOf(r)' # {}
            \/ rollout'[r].status = "RUNNING" /\ CanariesOf(r)' = {}
<1>1. PICK skipped \in SUBSET JobsOf(r) :
        \E canaries \in SUBSET (JobsOf(r) \ skipped) :
          /\ rollout' = [rollout EXCEPT ![r].status =
                           IF canaries # {} THEN "CANARY" ELSE "RUNNING"]
          /\ job' = [j \in Jobs |->
               IF j \notin JobsOf(r) THEN job[j]
               ELSE [NoJob EXCEPT
                       !.state = IF j \in skipped THEN "SKIPPED" ELSE "QUEUED",
                       !.canary = j \in canaries]]
  BY DEF CreateRollout
<1>2. PICK canaries \in SUBSET (JobsOf(r) \ skipped) :
        /\ rollout' = [rollout EXCEPT ![r].status =
                         IF canaries # {} THEN "CANARY" ELSE "RUNNING"]
        /\ job' = [j \in Jobs |->
             IF j \notin JobsOf(r) THEN job[j]
             ELSE [NoJob EXCEPT
                     !.state = IF j \in skipped THEN "SKIPPED" ELSE "QUEUED",
                     !.canary = j \in canaries]]
  BY <1>1
<1>3. CanariesOf(r)' = canaries
  <2>1. \A x, b : [NoJob EXCEPT !.state = IF x THEN "SKIPPED" ELSE "QUEUED",
                                !.canary = b].canary = b
    BY DEF NoJob
  <2>2. \A j \in JobsOf(r) : job'[j] = [NoJob EXCEPT
            !.state = IF j \in skipped THEN "SKIPPED" ELSE "QUEUED", !.canary = j \in canaries]
    BY <1>2 DEF JobsOf
  <2>3. \A j \in JobsOf(r) : job'[j].canary = (j \in canaries)
    BY <2>1, <2>2
  <2>4. CanariesOf(r)' = {j \in JobsOf(r) : job'[j].canary}
    BY DEF CanariesOf, JobsOf
  <2> QED BY <2>3, <2>4
<1>4. /\ \A i \in Rollouts \ {r} : rollout'[i] = rollout[i]
      /\ rollout'[r].passed = rollout[r].passed
      /\ rollout'[r].status = IF canaries # {} THEN "CANARY" ELSE "RUNNING"
  BY <1>2 DEF StoreOK, RolloutRow
<1>5. \A j \in Jobs : j \notin JobsOf(r) => job'[j] = job[j]
  BY <1>2
<1>6. ~Exists(r)
  BY DEF CreateRollout, Exists
<1> QED BY <1>3, <1>4, <1>5, <1>6 DEF Exists

LEMMA CreateKeepsLicence ==
  ASSUME StoreOK, Licensed, NEW q \in Requests, NEW r \in Rollouts, Creates(q, r)
  PROVE  Licensed'
<1>s. /\ JobsLicensed /\ RowsLicensed /\ FramesLicensed /\ LinkLicensed /\ PassLicensed
      /\ q \in Threads
  BY DEF Licensed, Threads
<1>t. frame'[Tick] = frame[Tick] /\ UNCHANGED pass
  BY OtherStepIsCalm
<1>u. UNCHANGED <<installed, resumed, agent, started, outbox>> /\ CreateRollout(q, r)
  BY DEF Creates, CreateRollout, linkVars, requestVars
<1>1. /\ ~Exists(r) /\ Exists(r)'
      /\ \A i \in Rollouts \ {r} : rollout'[i] = rollout[i]
      /\ rollout'[r].passed = rollout[r].passed
      /\ \A j \in Jobs : j \notin JobsOf(r) => job'[j] = job[j]
      /\ \/ rollout'[r].status = "CANARY" /\ CanariesOf(r)' # {}
         \/ rollout'[r].status = "RUNNING" /\ CanariesOf(r)' = {}
  BY <1>u, Created
<1>2. \A j \in Issued : j \notin JobsOf(r)
  BY <1>1 DEF Issued, JobsOf
<1>3. Steady
  BY <1>u, <1>1, <1>2 DEF Steady, Exists, Issued
<1>4. JobsLicensed'
  <2> SUFFICES ASSUME NEW j \in Jobs, job'[j].state # "ABSENT" PROVE j \in Issued'
    BY DEF JobsLicensed
  <2>1. CASE j \in JobsOf(r)
    BY <1>1, <2>1 DEF JobsOf, Issued
  <2>2. CASE j \notin JobsOf(r)
    BY <1>s, <1>1, <1>3, <2>2, SteadyGrows DEF JobsLicensed
  <2> QED BY <2>1, <2>2
<1>5. RowsLicensed'
  <2>1. \A i \in Rollouts : i # r =>
          /\ rollout'[i].status \in {"SOAKING", "RUNNING"} => i \in Released'
          /\ rollout'[i].passed # "never"
               => Exists(i)' /\ (CanariesOf(i)' = {} \/ IsProven(i)')
    BY <1>s, <1>1, <1>3, SteadyGrows DEF RowsLicensed, Steady
  <2>2. rollout'[r].status \in {"SOAKING", "RUNNING"} => r \in Released'
    BY <1>1 DEF Released, Exists
  <2>3. rollout'[r].passed = "never"
    BY <1>s, <1>1 DEF RowsLicensed
  <2> QED BY <2>1, <2>2, <2>3 DEF RowsLicensed
<1>6. Recomputing(r, "idle", None) \in Founded'
  <2>1. Recomputing(r, "idle", None) \in GoodFrame
    BY RecomputingFrame
  <2> QED BY <1>1, <2>1, JobStoreAssumption DEF Founded, Recomputing, Idle, JobStoreAssumption
<1>7. FramesLicensed'
  BY <1>s, <1>u, <1>3, <1>6, FrameGoesOn DEF CreateRollout
<1> QED BY <1>s, <1>t, <1>u, <1>3, <1>4, <1>5, <1>7, PassStays, LinkStays DEF Licensed

-----------------------------------------------------------------------------
(* The theorems.                                                           *)

LEMMA LicensedInitially == Init => Licensed
<1> SUFFICES ASSUME Init PROVE Licensed
  OBVIOUS
<1>1. Tick \in Threads /\ \A t \in Threads : frame[t].at = "idle"
  BY LabelsOfFrames DEF Threads, Init, StoreInit
<1>2. JobsLicensed /\ RowsLicensed
  BY DEF Init, StoreInit, NoJob, JobsLicensed, RowsLicensed
<1>3. FramesLicensed
  BY FoundedIdle DEF Init, StoreInit, FramesLicensed
<1>4. PassLicensed
  BY <1>1 DEF Init, PassInit, NoPass, PassLicensed, Dispatching, Sending, tickAt
<1>5. LinkLicensed
  BY EmptySeq DEF Init, LinkInit, FreeSlot, LinkLicensed
<1> QED BY <1>2, <1>3, <1>4, <1>5 DEF Licensed

LEMMA CrashKeepsLicence ==
  ASSUME Licensed, HubCrash
  PROVE  Licensed'
<1>s. JobsLicensed /\ RowsLicensed /\ LinkLicensed
  BY DEF Licensed
<1>1. /\ UNCHANGED <<job, rollout, installed, resumed, agent, started>>
      /\ pass' = NoPass
      /\ frame' = [t \in Threads |-> Idle]
      /\ outbox' = [s \in Sockets |-> <<>>]
  BY DEF HubCrash, requestVars
<1>2. /\ JobsOnly /\ Issued' = Issued /\ Touchable' = Touchable /\ Allowed' = Allowed
      /\ Founded' = Founded
  BY <1>1, RowsLeftAlone
<1>3. JobsLicensed' /\ RowsLicensed'
  BY <1>s, <1>2, JobsOnlyIsSteady
<1>4. FramesLicensed' /\ LinkLicensed'
  BY <1>s, <1>1, <1>2, FoundedIdle, EmptySeq DEF FramesLicensed, LinkLicensed
<1>5. PassLicensed'
  <2>1. frame'[Tick].at = "idle"
    BY <1>1, LabelsOfFrames DEF Threads
  <2> QED BY <1>1, <2>1 DEF NoPass, PassLicensed, Dispatching, Sending, tickAt
<1> QED BY <1>3, <1>4, <1>5 DEF Licensed

LEMMA IdleKeepsLicence ==
  ASSUME Licensed, UNCHANGED vars
  PROVE  Licensed'
<1>1. UNCHANGED <<job, rollout, frame, pass, outbox, agent, started, installed, resumed>>
  BY DEF vars, storeVars, linkVars, requestVars
<1>2. JobsOnly /\ Founded' = Founded
  BY <1>1, RowsLeftAlone
<1>3. FramesLicensed'
  BY <1>1, <1>2 DEF Licensed, FramesLicensed
<1>4. LinkLicensed'
  BY <1>1, <1>2, JobsOnlyIsSteady, LinkStays DEF Licensed
<1> QED BY <1>1, <1>2, <1>3, <1>4, QuietStepKeepsLicence

LEMMA StepKeepsLicence == WellTyped /\ SuccessIsReal /\ Licensed /\ [Next]_vars => Licensed'
<1> SUFFICES ASSUME WellTyped, SuccessIsReal, Licensed, [Next]_vars PROVE Licensed'
  OBVIOUS
<1> USE DEF WellTyped
<1>1. ASSUME NEW t \in Threads, Store(t) PROVE Licensed'
  BY <1>1, StoreStepKeepsLicence DEF Store
<1>2. CASE TickRuns
  BY <1>2, ReadingTickKeepsLicence, WritingTickKeepsLicence DEF TickRuns, TickStep
<1>3. CASE \E q \in Requests : Ask(q)
  BY <1>3, AskKeepsLicence
<1> QED BY <1>1, <1>2, <1>3, SocketStepKeepsLicence, BoxKeepsLicence, TimeKeepsLicence,
        RequestStepKeepsLicence, CreateKeepsLicence, CrashKeepsLicence, IdleKeepsLicence
        DEF Next

LEMMA AlwaysLicensed == Spec => []Licensed
BY LicensedInitially, StepKeepsLicence, AlwaysWellTyped, SuccessesAreReal, PTL DEF Spec

LEMMA LicensedIsCanaryFirst ==
  ASSUME Licensed
  PROVE  CanaryFirst
<1> SUFFICES ASSUME NEW j \in Jobs, HandedOut(j), CanariesOf(RolloutOf[j]) # {}, ~job[j].canary
             PROVE  IsProven(RolloutOf[j])
  BY DEF CanaryFirst
<1>1. j \in Touchable
  <2>1. CASE agent[DeviceOf[j]].job = j
    BY <2>1, Foreign, JobStoreAssumption DEF Licensed, LinkLicensed, JobStoreAssumption
  <2>2. ASSUME NEW s \in Sockets, NEW i \in DOMAIN outbox[s],
               outbox[s][i] = [kind |-> "install", job |-> j]
        PROVE  j \in Touchable
    <3>1. outbox[s] \in Seq(Allowed)
      BY DEF Licensed, LinkLicensed
    <3>2. outbox[s][i] \in Allowed
      BY <3>1, ElementOfSeq
    <3> QED BY <2>2, <3>2 DEF Allowed
  <2> QED BY <2>1, <2>2 DEF HandedOut
<1>2. RolloutOf[j] \in Released
  BY <1>1 DEF Touchable
<1> QED BY <1>2, Foreign DEF Released, Licensed, RowsLicensed

\* No box that is not a canary is told to install, or holds an install, before a
\* canary has really installed the version or an operator has resumed the rollout,
\* however many devices, rollouts, requests and crashes there are and whatever a
\* tick has read before a handler wrote.
THEOREM CanariesComeFirst == Spec => []CanaryFirst
BY AlwaysLicensed, LicensedIsCanaryFirst, PTL

-----------------------------------------------------------------------------
(* The refinement.  What a fleet shows of RolloutLicence is four values;    *)
(* most steps change none of them.                                         *)

StatusOf == [r \in Rollouts |-> rollout[r].status]
Proven == {r \in Rollouts : \E j \in CanariesOf(r) : j \in installed}
Touched == {r \in Rollouts : \E j \in JobsOf(r) : j \in started /\ ~job[j].canary}

LicenceStep == [Licence!Next]_(Licence!licenceVars)

Silent == UNCHANGED <<StatusOf, Proven, Released, Touched>>

LEMMA SilentIsLicensed == Silent => LicenceStep
  BY DEF Silent, LicenceStep, Licence!licenceVars, StatusOf, Proven, Touched

\* Whether a job is a canary is written when the rollout is created, and never again.
CanariesStay == \A j \in Jobs : job'[j].canary = job[j].canary

LEMMA SameCanaries ==
  ASSUME CanariesStay
  PROVE  \A r : CanariesOf(r)' = CanariesOf(r) /\ JobsOf(r)' = JobsOf(r)
  BY DEF CanariesStay, CanariesOf, JobsOf

LEMMA CanariesFixed ==
  ASSUME StoreOK, LinkOK, PassTypeOK, [Next]_vars
  PROVE  CanariesStay \/ \E q \in Requests, r \in Rollouts : Creates(q, r)
<1>0. job' = job => CanariesStay
  BY DEF CanariesStay
<1>1. ASSUME NEW t \in Threads, Store(t) PROVE CanariesStay
  <2>1. CASE ResultWrite(t)
    <3> DEFINE f == frame[t]
    <3>1. f.job \in Jobs /\ f.attempt \in Nat
      BY <2>1 DEF ResultWrite, StoreOK, GoodFrame, Frame
    <3>2. /\ job[f.job] \in JobRow
          /\ AfterFailure(job[f.job], f.attempt).canary = job[f.job].canary
          /\ [job[f.job] EXCEPT !.state = "SUCCESS"].canary = job[f.job].canary
      BY <3>1, FailureKeepsCanary DEF StoreOK, JobRow
    <3> QED BY <2>1, <3>1, <3>2 DEF ResultWrite, CanariesStay, StoreOK
  <2>2. CASE ProgressWrite(t) \/ RetryWrite(t) \/ CancelWrite(t)
    BY <2>2 DEF ProgressWrite, RetryWrite, CancelWrite, CanariesStay, StoreOK, JobRow
  <2>3. CASE Recompute(t) \/ RolloutWrite(t)
    BY <2>3 DEF Recompute, RolloutWrite, CanariesStay
  <2> QED BY <1>1, <2>1, <2>2, <2>3 DEF Store, StoreStep
<1>2. ASSUME NEW s \in Sockets, Socket(s) PROVE CanariesStay
  <2>1. CASE ReconcileWrite(s)
    BY <2>1 DEF ReconcileWrite, CanariesStay, StoreOK, JobRow
  <2>2. CASE ~ReconcileWrite(s)
    <3>1. job' = job
      BY <1>2, <2>2 DEF Socket, SocketStep, SetupDone, SocketCloses, Receive, storeVars
    <3> QED BY <1>0, <3>1
  <2> QED BY <2>1, <2>2
<1>3. ASSUME NEW d \in Devices, Dials(d) \/ Box(d) \/ Fault(d) \/ Reports(d) PROVE CanariesStay
  <2>1. job' = job
    BY <1>3
    DEF Dials, Connect, Box, BoxStep, Hello, Handle, Finish, FreesSlot, Fault, BoxFault,
        SessionDrops, BoxRestarts, Reports, Progress, storeVars
  <2> QED BY <1>0, <2>1
<1>4. ASSUME NEW d \in Devices, Beats(d) PROVE CanariesStay
  BY <1>4 DEF Beats, Heartbeat, CanariesStay, StoreOK, JobRow
<1>5. ASSUME NEW j \in Jobs, Ages(j) \/ BackoffEnds(j) PROVE CanariesStay
  BY <1>5 DEF Ages, HeartbeatAges, BackoffEnds, BackoffElapses, CanariesStay, StoreOK, JobRow
<1>6. CASE TickRuns
  <2>1. CASE Requeue
    <3>1. PICK j \in pass.todo : job' = [job EXCEPT ![j] = AfterFailure(@, pass.seen[j])]
      BY <2>1 DEF Requeue
    <3>2. job[j] \in JobRow /\ pass.seen[j] \in Nat
      BY DEF StoreOK, PassTypeOK, Pass
    <3> QED BY <3>1, <3>2, FailureKeepsCanary DEF CanariesStay, StoreOK
  <2>2. CASE Mark
    <3>1. PICK j \in Jobs :
            job' = [job EXCEPT ![j].state = "DISPATCHED", ![j].attempt = pass.seen[j] + 1,
                               ![j].stale = FALSE]
      BY <2>2 DEF Mark
    <3>2. \A n : [job[j] EXCEPT !.state = "DISPATCHED", !.attempt = n,
                                !.stale = FALSE].canary = job[j].canary
      BY DEF StoreOK, JobRow
    <3> QED BY <3>1, <3>2 DEF CanariesStay, StoreOK
  <2>3. CASE PutBack
    BY <2>3 DEF PutBack, CanariesStay, StoreOK, JobRow
  <2>4. CASE UNCHANGED job
    BY <1>0, <2>4
  <2> QED BY <1>6, <2>1, <2>2, <2>3, <2>4
          DEF TickRuns, TickStep, TickStarts, Promote, StalledRead, CountActive, CandidatesRead,
              Skip, Send, SendFails, TickEnds, storeVars
<1>7. ASSUME NEW q \in Requests, Request(q) PROVE CanariesStay
  <2>1. CASE CancelJobsOf(q)
    <3>1. \A i \in Jobs : job'[i] = job[i] \/ job'[i] = [job[i] EXCEPT !.state = "CANCELLED"]
      BY <2>1 DEF CancelJobsOf
    <3>2. \A i \in Jobs : [job[i] EXCEPT !.state = "CANCELLED"].canary = job[i].canary
      BY DEF StoreOK, JobRow
    <3> QED BY <3>1, <3>2 DEF CanariesStay
  <2>2. CASE ~CancelJobsOf(q)
    <3>1. job' = job
      BY <1>7, <2>2 DEF Request, RequestStep, TellAgent, CloseRollout, ResumeWrite
    <3> QED BY <1>0, <3>1
  <2> QED BY <2>1, <2>2
<1>8. ASSUME NEW q \in Requests, Ask(q) PROVE CanariesStay
  <2>1. job' = job
    BY <1>8 DEF Ask, AskRetryJob, AskCancelJob, AskCancelRollout, AskResume
  <2> QED BY <1>0, <2>1
<1>9. ASSUME NEW r \in Rollouts, SoakEnds(r) PROVE CanariesStay
  <2>1. job' = job
    BY <1>9 DEF SoakEnds, SoakElapses
  <2> QED BY <1>0, <2>1
<1>10. CASE HubCrash
  BY <1>0, <1>10 DEF HubCrash
<1>11. CASE UNCHANGED vars
  BY <1>0, <1>11 DEF vars, storeVars
<1> QED BY <1>1, <1>2, <1>3, <1>4, <1>5, <1>6, <1>7, <1>8, <1>9, <1>10, <1>11 DEF Next

\* The steps that write a status or the licence, begin an install or end one.
Loud ==
  \/ \E t \in Threads : Store(t) /\ RolloutWrite(t)
  \/ Promote
  \/ \E q \in Requests : CloseRollout(q) \/ ResumeWrite(q)
  \/ \E q \in Requests, r \in Rollouts : Creates(q, r)
  \/ \E d \in Devices : Handle(d)
  \/ \E d \in Devices, ok \in BOOLEAN : Finish(d, ok)

LEMMA OthersAreSilent ==
  ASSUME StoreOK, LinkOK, PassTypeOK, [Next]_vars, ~Loud
  PROVE  Silent
<1>c. CanariesStay
  BY CanariesFixed DEF Loud
<1>1. ASSUME UNCHANGED <<started, installed>>, StatusOf' = StatusOf,
             \A r \in Rollouts : rollout'[r].status = rollout[r].status
                                 /\ (rollout'[r].passed # "never") = (rollout[r].passed # "never")
      PROVE  Silent
  <2>1. Proven' = Proven
    BY <1>c, <1>1, SameCanaries DEF Proven
  <2>2. Touched' = Touched
    BY <1>c, <1>1 DEF Touched, CanariesStay, JobsOf
  <2>3. Released' = Released
    BY <1>c, <1>1, SameCanaries DEF Released
  <2> QED BY <1>1, <2>1, <2>2, <2>3 DEF Silent
<1>2. ASSUME UNCHANGED <<rollout, started, installed>> PROVE Silent
  BY <1>1, <1>2 DEF StatusOf
<1>3. ASSUME NEW r \in Rollouts, SoakEnds(r) PROVE Silent
  <2>1. /\ UNCHANGED <<started, installed>>
        /\ rollout' = [rollout EXCEPT ![r].passed = "ripe"] /\ rollout[r].passed = "fresh"
    BY <1>3 DEF SoakEnds, SoakElapses, linkVars
  <2>2. \A i \in Rollouts : /\ rollout'[i].status = rollout[i].status
                            /\ (rollout'[i].passed # "never") = (rollout[i].passed # "never")
    BY <2>1 DEF StoreOK, RolloutRow
  <2> QED BY <1>1, <2>1, <2>2 DEF StatusOf
<1>4. ASSUME NEW t \in Threads, Store(t) PROVE Silent
  BY <1>2, <1>4 DEF Loud, Store, StoreStep, ProgressWrite, ResultWrite, RetryWrite, CancelWrite,
                    Recompute, linkVars
<1>5. ASSUME NEW s \in Sockets, Socket(s) PROVE Silent
  BY <1>2, <1>5 DEF Socket, SocketStep, SetupDone, SocketCloses, Receive, ReconcileWrite,
                    storeVars, linkVars
<1>6. ASSUME NEW d \in Devices, Dials(d) \/ Box(d) \/ Fault(d) \/ Reports(d) \/ Beats(d)
      PROVE  Silent
  BY <1>2, <1>6
  DEF Loud, Dials, Connect, Box, BoxStep, Hello, FreesSlot, Fault, BoxFault, SessionDrops,
      BoxRestarts, Reports, Progress, Beats, Heartbeat, storeVars, linkVars
<1>7. ASSUME NEW j \in Jobs, Ages(j) \/ BackoffEnds(j) PROVE Silent
  BY <1>2, <1>7 DEF Ages, HeartbeatAges, BackoffEnds, BackoffElapses, linkVars
<1>8. CASE TickRuns
  BY <1>2, <1>8
  DEF Loud, TickRuns, TickStep, TickStarts, StalledRead, Requeue, CountActive, CandidatesRead,
      Skip, Mark, Send, SendFails, PutBack, TickEnds, storeVars, linkVars
<1>9. ASSUME NEW q \in Requests, Request(q) \/ Ask(q) PROVE Silent
  BY <1>2, <1>9
  DEF Loud, Request, RequestStep, TellAgent, CancelJobsOf, Ask, AskRetryJob, AskCancelJob,
      AskCancelRollout, AskResume, linkVars
<1>10. CASE HubCrash \/ UNCHANGED vars
  BY <1>2, <1>10 DEF HubCrash, vars, storeVars, linkVars
<1> QED BY <1>3, <1>4, <1>5, <1>6, <1>7, <1>8, <1>9, <1>10 DEF Next, Loud


-----------------------------------------------------------------------------
(* The loud steps, one by one.                                             *)

\* One row is written, and no install begins or ends.
LEMMA RowWritten ==
  ASSUME StoreOK, UNCHANGED <<job, started, installed>>, NEW r \in Rollouts,
         NEW to \in RolloutStates \ {"ABSENT"}, NEW p \in {"never", "fresh", "ripe"},
         rollout' = [rollout EXCEPT ![r].status = to, ![r].passed = p]
  PROVE  /\ StatusOf' = [StatusOf EXCEPT ![r] = to]
         /\ Proven' = Proven /\ Touched' = Touched
         /\ p # "never" => Released' = Released \cup {r}
         /\ Exists(r) /\ p = rollout[r].passed => Released' = Released
<1>1. \A i : CanariesOf(i)' = CanariesOf(i) /\ JobsOf(i)' = JobsOf(i)
  BY DEF CanariesOf, JobsOf
<1>2. Proven' = Proven /\ Touched' = Touched
  BY <1>1 DEF Proven, Touched
<1>3. /\ rollout'[r].status = to /\ rollout'[r].passed = p
      /\ \A i \in Rollouts \ {r} : rollout'[i] = rollout[i]
  BY DEF StoreOK, RolloutRow
<1>4. StatusOf' = [StatusOf EXCEPT ![r] = to]
  <2>1. ASSUME NEW i \in Rollouts
        PROVE  rollout'[i].status = IF i = r THEN to ELSE rollout[i].status
    <3>1. CASE i = r
      BY <1>3, <3>1
    <3>2. CASE i # r
      <4>1. rollout'[i] = rollout[i]
        BY <1>3, <3>2
      <4> QED BY <3>2, <4>1
    <3> QED BY <3>1, <3>2
  <2> QED BY <2>1 DEF StatusOf
<1>5. p # "never" => Released' = Released \cup {r}
  BY <1>1, <1>3 DEF Released
<1>6. Exists(r) /\ p = rollout[r].passed => Released' = Released
  BY <1>1, <1>3 DEF Released, Exists
<1> QED BY <1>2, <1>4, <1>5, <1>6

LEMMA RolloutWriteIsLicensed ==
  ASSUME StoreOK, Licensed, NEW t \in Threads, RolloutWrite(t), UNCHANGED <<started, installed>>
  PROVE  LicenceStep
<1>f. frame[t] \in Founded /\ frame[t] \in GoodFrame
  BY DEF StoreOK, Licensed, FramesLicensed
<1>1. PICK r \in Rollouts : r = frame[t].rollout
  BY <1>f DEF RolloutWrite, GoodFrame
<1>2. PICK to \in RolloutStates : to = frame[t].status
  BY <1>f DEF GoodFrame, Frame
<1>3. /\ Exists(r) /\ frame[t].at = "rewrite"
      /\ job' = job /\ rollout[r] \in RolloutRow
  BY <1>f, <1>1 DEF RolloutWrite, Founded, StoreOK
<1>4. CASE frame[t].passes
  <2>1. to \in {"SOAKING", "RUNNING", "COMPLETED"} /\ r \in Proven
    BY <1>f, <1>1, <1>2, <1>3, <1>4 DEF Founded, Earned, Proven
  <2>2. rollout' = [rollout EXCEPT ![r].status = to, ![r].passed = "fresh"]
    BY <1>1, <1>2, <1>4 DEF RolloutWrite
  <2>3. /\ StatusOf' = [StatusOf EXCEPT ![r] = to] /\ Released' = Released \cup {r}
        /\ Proven' = Proven /\ Touched' = Touched
    BY <1>3, <2>1, <2>2, RowWritten
  <2>4. Licence!Release(r)
    BY <2>1, <2>3 DEF Licence!Release, Licence!Becomes, StatusOf, Proven, Touched
  <2> QED BY <2>4 DEF LicenceStep, Licence!Next
<1>5. CASE ~frame[t].passes
  <2>1. to \in {"PAUSED", "COMPLETED"}
    BY <1>f, <1>2, <1>3, <1>5 DEF Founded
  <2>2. rollout' = [rollout EXCEPT ![r].status = to, ![r].passed = rollout[r].passed]
    BY <1>1, <1>2, <1>3, <1>5 DEF RolloutWrite, StoreOK, RolloutRow
  <2>3. /\ StatusOf' = [StatusOf EXCEPT ![r] = to] /\ Released' = Released
        /\ Proven' = Proven /\ Touched' = Touched
    BY <1>3, <2>1, <2>2, RowWritten DEF RolloutRow
  <2>4. Licence!Move(r)
    BY <1>3, <2>1, <2>3
    DEF Licence!Move, Licence!Exists, Licence!Becomes, Exists, StatusOf, Proven, Touched
  <2> QED BY <2>4 DEF LicenceStep, Licence!Next
<1> QED BY <1>4, <1>5

LEMMA PromoteIsLicensed ==
  ASSUME StoreOK, Licensed, Promote
  PROVE  LicenceStep
<1>1. PICK r \in pass.soaked : rollout' = [rollout EXCEPT ![r].status = "RUNNING"]
  BY DEF Promote
<1>2. /\ r \in Released /\ r \in Rollouts /\ Exists(r) /\ rollout[r] \in RolloutRow
      /\ UNCHANGED <<job, started, installed>>
  BY DEF Licensed, PassLicensed, Released, Exists, StoreOK, Promote, linkVars
<1>3. rollout' = [rollout EXCEPT ![r].status = "RUNNING", ![r].passed = rollout[r].passed]
  BY <1>1, <1>2 DEF StoreOK, RolloutRow
<1>4. /\ StatusOf' = [StatusOf EXCEPT ![r] = "RUNNING"] /\ Released' = Released
      /\ Proven' = Proven /\ Touched' = Touched
  BY <1>2, <1>3, RowWritten DEF RolloutRow, RolloutStates
<1>5. Licence!Move(r)
  BY <1>2, <1>4
  DEF Licence!Move, Licence!Exists, Licence!Becomes, Exists, StatusOf, Proven, Touched
<1> QED BY <1>2, <1>5 DEF LicenceStep, Licence!Next

LEMMA CloseIsLicensed ==
  ASSUME StoreOK, Licensed, NEW q \in Requests, CloseRollout(q)
  PROVE  LicenceStep
<1>f. q \in Threads /\ frame[q] \in Founded /\ frame[q] \in GoodFrame
  BY DEF StoreOK, Licensed, FramesLicensed, Threads
<1>1. PICK r \in Rollouts : r = frame[q].rollout
  BY <1>f DEF CloseRollout, GoodFrame
<1>2. /\ Exists(r) /\ rollout[r] \in RolloutRow
      /\ UNCHANGED <<job, started, installed>>
  BY <1>f, <1>1 DEF Founded, StoreOK, CloseRollout, linkVars
<1>3. rollout' = [rollout EXCEPT ![r].status = "CANCELLED", ![r].passed = rollout[r].passed]
  BY <1>1, <1>2 DEF CloseRollout, StoreOK, RolloutRow
<1>4. /\ StatusOf' = [StatusOf EXCEPT ![r] = "CANCELLED"] /\ Released' = Released
      /\ Proven' = Proven /\ Touched' = Touched
  BY <1>2, <1>3, RowWritten DEF RolloutRow, RolloutStates
<1>5. Licence!Move(r)
  BY <1>2, <1>4
  DEF Licence!Move, Licence!Exists, Licence!Becomes, Exists, StatusOf, Proven, Touched
<1> QED BY <1>5 DEF LicenceStep, Licence!Next

LEMMA ResumeIsLicensed ==
  ASSUME StoreOK, Licensed, NEW q \in Requests, ResumeWrite(q)
  PROVE  LicenceStep
<1>f. q \in Threads /\ frame[q] \in Founded /\ frame[q] \in GoodFrame
  BY DEF StoreOK, Licensed, FramesLicensed, Threads
<1>1. PICK r \in Rollouts : r = frame[q].rollout
  BY <1>f DEF ResumeWrite, GoodFrame
<1>2. /\ Exists(r) /\ rollout[r] \in RolloutRow
      /\ UNCHANGED <<job, started, installed>>
      /\ frame[q].passes \/ r \in Released
  BY <1>f, <1>1 DEF Founded, StoreOK, ResumeWrite, linkVars
<1>3. /\ StatusOf' = [StatusOf EXCEPT ![r] = "RUNNING"] /\ Released' = Released \cup {r}
      /\ Proven' = Proven /\ Touched' = Touched
  <2>1. CASE frame[q].passes
    <3>1. rollout' = [rollout EXCEPT ![r].status = "RUNNING", ![r].passed = "fresh"]
      BY <1>1, <2>1 DEF ResumeWrite
    <3> QED BY <1>2, <3>1, RowWritten DEF RolloutStates
  <2>2. CASE ~frame[q].passes
    <3>1. rollout' = [rollout EXCEPT ![r].status = "RUNNING", ![r].passed = rollout[r].passed]
      BY <1>1, <1>2, <2>2 DEF ResumeWrite, StoreOK, RolloutRow
    <3>2. /\ StatusOf' = [StatusOf EXCEPT ![r] = "RUNNING"] /\ Released' = Released
          /\ Proven' = Proven /\ Touched' = Touched
      BY <1>2, <3>1, RowWritten DEF RolloutRow, RolloutStates
    <3> QED BY <1>2, <2>2, <3>2
  <2> QED BY <2>1, <2>2
<1>4. Licence!Resume(r)
  BY <1>2, <1>3
  DEF Licence!Resume, Licence!Exists, Licence!Becomes, Exists, StatusOf, Proven, Touched
<1> QED BY <1>4 DEF LicenceStep, Licence!Next


LEMMA CreateIsLicensed ==
  ASSUME StoreOK, Licensed, NEW q \in Requests, NEW r \in Rollouts, Creates(q, r)
  PROVE  LicenceStep
<1>1. /\ ~Exists(r) /\ Exists(r)'
      /\ \A i \in Rollouts \ {r} : rollout'[i] = rollout[i]
      /\ rollout'[r].passed = rollout[r].passed
      /\ \A j \in Jobs : j \notin JobsOf(r) => job'[j] = job[j]
      /\ \/ rollout'[r].status = "CANARY" /\ CanariesOf(r)' # {}
         \/ rollout'[r].status = "RUNNING" /\ CanariesOf(r)' = {}
  BY Created DEF Creates
<1>2. UNCHANGED <<started, installed>>
  BY DEF Creates, CreateRollout, linkVars
<1>3. \A j \in JobsOf(r) : j \notin started /\ j \notin installed
  BY <1>1 DEF Licensed, LinkLicensed, Issued, JobsOf
<1>4. ASSUME NEW i \in Rollouts \ {r} PROVE CanariesOf(i)' = CanariesOf(i)
  <2>1. \A j \in JobsOf(i) : job'[j] = job[j]
    BY <1>1 DEF JobsOf
  <2> QED BY <2>1 DEF CanariesOf, JobsOf
<1>5. Proven' = Proven
  <2>1. r \notin Proven /\ r \notin Proven'
    BY <1>2, <1>3 DEF Proven, CanariesOf, JobsOf
  <2> QED BY <1>2, <1>4, <2>1 DEF Proven
<1>6. Touched' = Touched
  <2>1. r \notin Touched /\ r \notin Touched'
    BY <1>2, <1>3 DEF Touched, JobsOf
  <2>2. \A j \in Jobs : RolloutOf[j] # r => job'[j] = job[j]
    BY <1>1 DEF JobsOf
  <2> QED BY <1>2, <2>1, <2>2 DEF Touched, JobsOf
<1>7. /\ r \notin Released
      /\ r \in Released' <=> CanariesOf(r)' = {}
      /\ \A i \in Rollouts \ {r} : i \in Released' <=> i \in Released
  <2>1. rollout'[r].passed = "never"
    BY <1>1 DEF Licensed, RowsLicensed
  <2> QED BY <1>1, <1>4, <2>1 DEF Released, Exists
<1>8. /\ rollout'[r].status = "CANARY" => Released' = Released
      /\ rollout'[r].status = "RUNNING" => Released' = Released \cup {r}
  BY <1>1, <1>7 DEF Released
<1>9. StatusOf' = [StatusOf EXCEPT ![r] = rollout'[r].status]
  BY <1>1 DEF StatusOf
<1>10. Licence!Create(r)
  BY <1>1, <1>5, <1>6, <1>8, <1>9
  DEF Licence!Create, Licence!Exists, Licence!Becomes, Exists, StatusOf, Proven, Touched
<1> QED BY <1>10 DEF LicenceStep, Licence!Next

LEMMA HandleIsLicensed ==
  ASSUME LinkOK, Licensed, NEW d \in Devices, Handle(d)
  PROVE  LicenceStep
<1> DEFINE s == session[d]
           msg == Head(outbox[s])
<1>1. /\ UNCHANGED <<job, rollout, installed>>
      /\ s \in Sockets /\ outbox[s] # <<>>
  BY DEF Handle, storeVars, LinkOK
<1>2. outbox[s] \in Seq(Allowed)
  BY <1>1 DEF Licensed, LinkLicensed
<1>3. msg \in Allowed
  BY <1>1, <1>2, HeadTailProperties
<1>4. /\ StatusOf' = StatusOf /\ Proven' = Proven /\ Released' = Released
      /\ \A i : CanariesOf(i)' = CanariesOf(i) /\ JobsOf(i)' = JobsOf(i)
  BY <1>1 DEF StatusOf, Proven, Released, CanariesOf, JobsOf
<1>5. CASE started' = started
  BY <1>1, <1>4, <1>5, SilentIsLicensed DEF Silent, Touched
<1>6. CASE started' # started
  <2>1. msg.kind = "install" /\ started' = started \cup {msg.job}
    BY <1>6 DEF Handle, StartJob, StopJob
  <2>2. PICK j \in Touchable : j = msg.job
    BY <1>3, <2>1 DEF Allowed
  <2>3. j \in Jobs /\ started' = started \cup {j}
    BY <2>1, <2>2 DEF Touchable, Issued
  <2>4. CASE job[j].canary
    <3>1. Touched' = Touched
      BY <1>1, <2>3, <2>4 DEF Touched, JobsOf
    <3> QED BY <1>4, <3>1, SilentIsLicensed DEF Silent
  <2>5. CASE ~job[j].canary
    <3>1. PICK r \in Rollouts : r = RolloutOf[j]
      BY <2>3, Foreign
    <3>2. r \in Released
      BY <2>2, <2>5, <3>1 DEF Touchable
    <3>3. Touched' = Touched \cup {r}
      BY <1>1, <2>3, <2>5, <3>1 DEF Touched, JobsOf
    <3>4. Licence!Touch(r)
      BY <1>4, <3>2, <3>3 DEF Licence!Touch, StatusOf, Proven, Touched
    <3> QED BY <3>4 DEF LicenceStep, Licence!Next
  <2> QED BY <2>4, <2>5
<1> QED BY <1>5, <1>6

LEMMA FinishIsLicensed ==
  ASSUME LinkOK, Licensed, NEW d \in Devices, NEW ok \in BOOLEAN, Finish(d, ok)
  PROVE  LicenceStep
<1>1. /\ UNCHANGED <<job, rollout, started>>
      /\ agent[d].phase \in {"working", "stopping"}
      /\ installed' = IF ok THEN installed \cup {agent[d].job} ELSE installed
  BY DEF Finish, storeVars
<1>2. agent[d] \in GoodSlot /\ agent[d].job \in Touchable \cup {None}
  BY DEF LinkOK, Licensed, LinkLicensed
<1>3. PICK j \in Jobs : j = agent[d].job
  BY <1>1, <1>2 DEF GoodSlot
<1>4. j \in Touchable
  BY <1>2, <1>3, JobStoreAssumption DEF JobStoreAssumption
<1>5. /\ StatusOf' = StatusOf /\ Touched' = Touched /\ Released' = Released
      /\ \A i : CanariesOf(i)' = CanariesOf(i) /\ JobsOf(i)' = JobsOf(i)
  BY <1>1 DEF StatusOf, Touched, Released, CanariesOf, JobsOf
<1>6. CASE ok /\ job[j].canary
  <2>1. PICK r \in Rollouts : r = RolloutOf[j]
    BY Foreign
  <2>2. Exists(r)
    BY <1>4, <2>1 DEF Touchable, Issued
  <2>3. Proven' = Proven \cup {r}
    BY <1>1, <1>3, <1>5, <1>6, <2>1 DEF Proven, CanariesOf, JobsOf
  <2>4. Licence!Prove(r)
    BY <1>5, <2>2, <2>3 DEF Licence!Prove, Licence!Exists, Exists, StatusOf, Proven, Touched
  <2> QED BY <2>4 DEF LicenceStep, Licence!Next
<1>7. CASE ~(ok /\ job[j].canary)
  <2>1. Proven' = Proven
    BY <1>1, <1>3, <1>5, <1>7 DEF Proven, CanariesOf, JobsOf
  <2> QED BY <1>5, <2>1, SilentIsLicensed DEF Silent
<1> QED BY <1>6, <1>7

\* The initial states show the initial state of the licence.
LEMMA LicenceInitially == Init => Licence!Init
<1> SUFFICES ASSUME Init PROVE Licence!Init
  OBVIOUS
<1>1. /\ StatusOf = [r \in Rollouts |-> "ABSENT"]
      /\ Proven = {} /\ Touched = {} /\ Released = {}
  BY DEF Init, StoreInit, LinkInit, StatusOf, Proven, Touched, Released
<1> QED BY <1>1 DEF Licence!Init, StatusOf, Proven, Touched

LEMMA StepIsLicensed == WellTyped /\ SuccessIsReal /\ Licensed /\ [Next]_vars => LicenceStep
<1> SUFFICES ASSUME WellTyped, SuccessIsReal, Licensed, [Next]_vars PROVE LicenceStep
  OBVIOUS
<1>t. StoreOK /\ LinkOK /\ PassTypeOK
  BY DEF WellTyped
<1>1. CASE ~Loud
  BY <1>1, <1>t, OthersAreSilent, SilentIsLicensed
<1>2. ASSUME NEW t \in Threads, Store(t), RolloutWrite(t) PROVE LicenceStep
  BY <1>2, <1>t, RolloutWriteIsLicensed DEF Store, linkVars
<1> QED BY <1>1, <1>2, <1>t, PromoteIsLicensed, CloseIsLicensed, ResumeIsLicensed,
        CreateIsLicensed, HandleIsLicensed, FinishIsLicensed DEF Loud

\* A fleet of any size implements the licence: canaryPassedAt is only ever set
\* after a canary has installed or by the operator, is never taken back, and is set
\* before any other box begins, whatever handlers and ticks have read before each
\* other's writes.
THEOREM ImplementsLicence == Spec => LicenceHolds
<1>1. LicenceStep <=> [Licence!Next]_(Licence!licenceVars)
  BY DEF LicenceStep
<1> QED BY <1>1, LicenceInitially, StepIsLicensed, AlwaysWellTyped, SuccessesAreReal, AlwaysLicensed,
        PTL DEF Spec, LicenceHolds, Licence!Spec

-----------------------------------------------------------------------------
(* The books of a rollout.  They balance unless some handler still owes    *)
(* the rollout a recompute, or the write of one; a status that is written  *)
(* too late, and a crash, are what this does not survive.                  *)

IsOpen(r) == rollout[r].status \in {"CANARY", "SOAKING", "RUNNING"}
Balanced(r) == IsOpen(r) => Verdict(r) = rollout[r].status
SomeLeft(r) == \E j \in JobsOf(r) : ~IsTerminal(j)

OwingLabels == {"recompute", "rewrite", "closeRollout"}

\* What f is about to do closes r, or leaves it a status its jobs call for.
Owes(f, r) ==
  /\ f.at \in OwingLabels
  /\ f.rollout = r
  /\ f.at = "rewrite" => f.status \in {"PAUSED", "COMPLETED"} \/ SomeLeft(r)

Owed(r) == \E t \in Threads : Owes(frame[t], r)

\* A request that cancels a rollout has read jobs of that rollout only.
Tidy(f) == f.at = "cancelRollout" => f.todo \subseteq JobsOf(f.rollout)

\* Nothing has happened on a socket that no box has opened.
Unopened(s) ==
  sock[s] = "new" => /\ frame[s] = Idle /\ inbox[s] = <<>>
                     /\ \A d \in Devices : session[d] # s

BooksKept == \A r \in Rollouts : Balanced(r) \/ Owed(r)
FramesTidy == \A t \in Threads : Tidy(frame[t])
SocketsFresh == \A s \in Sockets : Unopened(s)
Books == BooksKept /\ FramesTidy /\ SocketsFresh

\* A rollout that was paused, completed or cancelled is opened again when none of
\* its jobs is left: a status computed before is written, a soak that was over when
\* it was read is promoted, or an operator resumes it.
Reopens ==
  \E r \in Rollouts :
    /\ rollout[r].status \in {"PAUSED", "COMPLETED", "CANCELLED"}
    /\ IsOpen(r)'
    /\ ~SomeLeft(r)

\* The process dies between the write of a job and the recompute of its rollout.
Interrupts == HubCrash /\ \E r \in Rollouts : ~Balanced(r)

Disturbs == Reopens \/ Interrupts

-----------------------------------------------------------------------------
(* What a step may do to the books.                                        *)

LEMMA OpenBooks ==
  ASSUME NEW r \in Rollouts, IsOpen(r)
  PROVE  /\ ~SomeLeft(r) => ~Balanced(r)
         /\ SomeLeft(r) /\ rollout[r].status # "CANARY" => Balanced(r)
  BY DEF IsOpen, Balanced, SomeLeft, Verdict, CanaryVerdict

\* No job of r ends, and its status stays.
NothingEnds(r) ==
  /\ rollout'[r].status = rollout[r].status
  /\ \A j \in JobsOf(r) :
       /\ job'[j].canary = job[j].canary
       /\ job'[j].state \in TerminalStates => job'[j].state = job[j].state

LEMMA BalanceStays ==
  ASSUME NEW r \in Rollouts, NothingEnds(r)
  PROVE  /\ SomeLeft(r) => SomeLeft(r)'
         /\ Balanced(r) => Balanced(r)'
<1>1. JobsOf(r)' = JobsOf(r) /\ JobsOf(r) \subseteq Jobs
  BY DEF JobsOf
<1>2. CanariesOf(r)' = CanariesOf(r) /\ CanariesOf(r) \subseteq JobsOf(r)
  BY <1>1 DEF CanariesOf, NothingEnds
<1>3. \A j \in JobsOf(r) : ~IsTerminal(j) => ~IsTerminal(j)'
  BY DEF NothingEnds, IsTerminal
<1>4. SomeLeft(r) => SomeLeft(r)'
  BY <1>1, <1>3 DEF SomeLeft
<1>5. ASSUME Balanced(r), IsOpen(r)' PROVE Verdict(r)' = rollout'[r].status
  <2>1. IsOpen(r) /\ rollout'[r].status = rollout[r].status
    BY <1>5 DEF IsOpen, NothingEnds
  <2>2. SomeLeft(r)'
    BY <1>4, <1>5, <2>1, OpenBooks
  <2>3. PICK i \in JobsOf(r) : ~IsTerminal(i)'
    BY <1>1, <2>2 DEF SomeLeft
  <2>4. CASE rollout[r].status # "CANARY"
    <3>1. CanaryVerdict(r)' = rollout'[r].status
      BY <2>1, <2>4 DEF CanaryVerdict
    <3> QED BY <1>1, <2>3, <3>1 DEF Verdict
  <2>5. CASE rollout[r].status = "CANARY"
    <3>1. CanaryVerdict(r) = "CANARY"
      BY <1>5, <2>1, <2>5 DEF Balanced, Verdict
    <3>2. \/ CanariesOf(r) = {}
          \/ \E j \in CanariesOf(r) : ~IsTerminal(j)
          \/ \A j \in CanariesOf(r) : job[j].state # "FAILED" /\ job[j].state # "SUCCESS"
      BY <2>5, <3>1 DEF CanaryVerdict
    <3>3. \/ CanariesOf(r)' = {}
          \/ \E j \in CanariesOf(r)' : ~IsTerminal(j)'
          \/ \A j \in CanariesOf(r)' : job'[j].state # "FAILED" /\ job'[j].state # "SUCCESS"
      <4>1. CASE \E j \in CanariesOf(r) : ~IsTerminal(j)
        BY <1>2, <1>3, <4>1
      <4>2. CASE \A j \in CanariesOf(r) : job[j].state # "FAILED" /\ job[j].state # "SUCCESS"
        BY <1>2, <4>2 DEF NothingEnds, IsTerminal, TerminalStates
      <4> QED BY <1>2, <3>2, <4>1, <4>2
    <3>4. CanaryVerdict(r)' = "CANARY"
      BY <2>1, <2>5, <3>3 DEF CanaryVerdict
    <3> QED BY <1>1, <2>1, <2>3, <2>5, <3>4 DEF Verdict
  <2> QED BY <2>4, <2>5
<1> QED BY <1>4, <1>5 DEF Balanced

\* Nothing ends anywhere, and what was owed is still owed.
Plain ==
  /\ \A r \in Rollouts : NothingEnds(r)
  /\ \A t \in Threads : frame'[t] = frame[t] \/ frame[t].at \notin OwingLabels

LEMMA PlainKeepsBooks ==
  ASSUME BooksKept, Plain
  PROVE  BooksKept'
<1> SUFFICES ASSUME NEW r \in Rollouts PROVE Balanced(r)' \/ Owed(r)'
  BY DEF BooksKept
<1>1. /\ SomeLeft(r) => SomeLeft(r)'
      /\ Balanced(r) => Balanced(r)'
  BY BalanceStays DEF Plain
<1>2. ASSUME NEW t \in Threads, Owes(frame[t], r) PROVE Owes(frame[t], r)'
  <2>1. frame'[t] = frame[t]
    BY <1>2 DEF Plain, Owes
  <2> QED BY <1>1, <1>2, <2>1 DEF Owes
<1> QED BY <1>1, <1>2 DEF BooksKept, Owed

\* Whatever a handler does to r and its jobs, it is about to recompute or close r.
RolledUp(t, r) ==
  /\ \A i \in Rollouts \ {r} : rollout'[i] = rollout[i]
  /\ \A j \in Jobs \ JobsOf(r) : job'[j] = job[j]
  /\ \A u \in Threads \ {t} : frame'[u] = frame[u]
  /\ frame[t].at \notin OwingLabels
  /\ frame'[t].at \in {"recompute", "closeRollout"}
  /\ frame'[t].rollout = r

LEMMA RolledUpKeepsBooks ==
  ASSUME BooksKept, NEW t \in Threads, NEW r \in Rollouts, RolledUp(t, r)
  PROVE  BooksKept'
<1> SUFFICES ASSUME NEW i \in Rollouts PROVE Balanced(i)' \/ Owed(i)'
  BY DEF BooksKept
<1>1. CASE i = r
  <2>1. Owes(frame[t], r)'
    BY DEF RolledUp, Owes, OwingLabels
  <2> QED BY <1>1, <2>1 DEF Owed
<1>2. CASE i # r
  <2>1. \A j \in JobsOf(i) : job'[j] = job[j]
    BY <1>2 DEF RolledUp, JobsOf
  <2>2. NothingEnds(i)
    BY <1>2, <2>1 DEF RolledUp, NothingEnds
  <2>3. /\ SomeLeft(i) => SomeLeft(i)'
        /\ Balanced(i) => Balanced(i)'
    BY <2>2, BalanceStays
  <2>4. ASSUME NEW u \in Threads, Owes(frame[u], i) PROVE Owes(frame[u], i)'
    <3>1. frame'[u] = frame[u]
      BY <2>4 DEF RolledUp, Owes
    <3> QED BY <2>3, <2>4, <3>1 DEF Owes
  <2> QED BY <2>3, <2>4 DEF BooksKept, Owed
<1> QED BY <1>1, <1>2

\* The status of r is written and no job: a handler that closes r, or opens it while
\* it has a job left to wait for.
StatusWritten(t, r) ==
  /\ job' = job
  /\ \A i \in Rollouts \ {r} : rollout'[i] = rollout[i]
  /\ \A u \in Threads \ {t} : frame'[u] = frame[u]
  /\ \A i \in Rollouts : Owes(frame[t], i) => i = r
  /\ IsOpen(r)' => /\ rollout'[r].status # "CANARY"
                   /\ Exists(r)
                   /\ Owes(frame[t], r) => SomeLeft(r)

LEMMA StatusWrittenKeepsBooks ==
  ASSUME StoreOK, BooksKept, ~Reopens, NEW t \in Threads, NEW r \in Rollouts,
         StatusWritten(t, r)
  PROVE  BooksKept'
<1> SUFFICES ASSUME NEW i \in Rollouts PROVE Balanced(i)' \/ Owed(i)'
  BY DEF BooksKept
<1>1. ASSUME NEW u \in Threads \ {t}, Owes(frame[u], i) PROVE Owed(i)'
  <2>1. frame'[u] = frame[u] /\ SomeLeft(i)' = SomeLeft(i)
    BY DEF StatusWritten, SomeLeft, JobsOf, IsTerminal
  <2>2. Owes(frame[u], i)'
    BY <1>1, <2>1 DEF Owes
  <2> QED BY <2>2 DEF Owed
<1>2. CASE i # r
  <2>1. NothingEnds(i)
    BY <1>2 DEF StatusWritten, NothingEnds
  <2>2. Balanced(i) => Balanced(i)'
    BY <2>1, BalanceStays
  <2>3. ~Owes(frame[t], i)
    BY <1>2 DEF StatusWritten
  <2> QED BY <1>1, <2>2, <2>3 DEF BooksKept, Owed
<1>3. CASE i = r /\ IsOpen(r)'
  <2>1. CASE SomeLeft(r)
    <3>1. PICK j \in JobsOf(r)' : ~IsTerminal(j)'
      BY <2>1 DEF StatusWritten, SomeLeft, JobsOf, IsTerminal
    <3>2. CanaryVerdict(r)' = rollout'[r].status
      BY <1>3 DEF StatusWritten, CanaryVerdict
    <3>3. Verdict(r)' = rollout'[r].status
      BY <3>1, <3>2 DEF Verdict
    <3> QED BY <1>3, <3>3 DEF Balanced
  <2>2. CASE ~SomeLeft(r)
    <3>1. IsOpen(r)
      BY <1>3, <2>2 DEF Reopens, StatusWritten, Exists, IsOpen, StoreOK, RolloutRow, RolloutStates
    <3>2. Owed(r) /\ ~Owes(frame[t], r)
      BY <1>3, <2>2, <3>1, OpenBooks DEF BooksKept, StatusWritten
    <3> QED BY <1>1, <1>3, <3>2 DEF Owed
  <2> QED BY <2>1, <2>2
<1>4. CASE i = r /\ ~IsOpen(r)'
  BY <1>4 DEF Balanced
<1> QED BY <1>2, <1>3, <1>4

-----------------------------------------------------------------------------
(* Frames and sockets.                                                     *)

LEMMA TidyFrames ==
  /\ Tidy(Idle)
  /\ \A l : l # "cancelRollout" => Tidy(At(l)) /\ \A j : Tidy(AtJob(l, j))
  /\ \A r, back, j : Tidy(Recomputing(r, back, j))
  /\ \A f : f.back # "cancelRollout" => Tidy(Returned(f))
  BY DEF Tidy, Idle, At, AtJob, Recomputing, Returned

LEMMA TidyReads ==
  ASSUME NEW j, NEW ok
  PROVE  /\ Tidy(ProgressRead(j)) /\ Tidy(ResultRead(j, ok))
         /\ Tidy(RetryRead(j)) /\ Tidy(CancelRead(j))
<1>1. Tidy([AtJob("result", j) EXCEPT !.ok = ok, !.attempt = job[j].attempt])
  BY DEF Tidy, AtJob, Idle
<1> QED BY <1>1, TidyFrames DEF ProgressRead, ResultRead, RetryRead, CancelRead

LEMMA Actors ==
  /\ Tick \in Threads /\ Tick \notin Sockets
  /\ \A s \in Sockets : s \in Threads
  /\ \A q \in Requests : q \in Threads /\ q \notin Sockets
  BY JobStoreAssumption DEF JobStoreAssumption, Threads

\* One handler goes on, and no socket, session or queue changes.
LEMMA OneGoesOn ==
  ASSUME StoreOK, FramesTidy, SocketsFresh, NEW t \in Threads, NEW f, Tidy(f),
         frame' = [frame EXCEPT ![t] = f], frame[t].at # "idle" \/ t \notin Sockets,
         UNCHANGED <<sock, session, inbox>>
  PROVE  /\ FramesTidy' /\ SocketsFresh'
         /\ frame'[t] = f /\ \A u \in Threads \ {t} : frame'[u] = frame[u]
<1>1. frame'[t] = f /\ \A u \in Threads \ {t} : frame'[u] = frame[u]
  BY DEF StoreOK
<1>2. FramesTidy'
  BY <1>1 DEF FramesTidy, Tidy, JobsOf
<1>3. SocketsFresh'
  <2> SUFFICES ASSUME NEW s \in Sockets, sock[s] = "new" PROVE frame'[s] = frame[s]
    BY DEF SocketsFresh, Unopened
  <2>1. s # t
    BY LabelsOfFrames DEF SocketsFresh, Unopened
  <2> QED BY <1>1, <2>1, Actors
<1> QED BY <1>1, <1>2, <1>3

\* No handler goes on, no socket is new that was not, and none that is new is used.
LEMMA NoneGoesOn ==
  ASSUME FramesTidy, SocketsFresh, UNCHANGED frame,
         \A s \in Sockets :
           sock'[s] = "new" => /\ sock[s] = "new"
                               /\ (\A d \in Devices : session[d] # s) => inbox'[s] = inbox[s],
         \A d \in Devices : session'[d] \in {session[d], None}
  PROVE  FramesTidy' /\ SocketsFresh'
<1>1. FramesTidy'
  BY DEF FramesTidy, Tidy, JobsOf
<1>2. SocketsFresh'
  BY JobStoreAssumption DEF SocketsFresh, Unopened, JobStoreAssumption
<1> QED BY <1>1, <1>2
-----------------------------------------------------------------------------
(* The steps.                                                              *)

LEMMA StoreStepKeepsBooks ==
  ASSUME StoreOK, Licensed, Books, ~Reopens, NEW t \in Threads, Store(t)
  PROVE  Books'
<1> DEFINE f == frame[t]
<1>f. /\ f \in GoodFrame /\ f \in Founded
      /\ BooksKept /\ FramesTidy /\ SocketsFresh
  BY DEF StoreOK, Licensed, FramesLicensed, Books
<1>u. UNCHANGED <<sock, session, inbox>>
  BY DEF Store, linkVars
<1>g. ASSUME NEW g, Tidy(g), frame' = [frame EXCEPT ![t] = g], f.at # "idle"
      PROVE  /\ FramesTidy' /\ SocketsFresh'
             /\ frame'[t] = g /\ \A i \in Threads \ {t} : frame'[i] = frame[i]
  BY <1>f, <1>u, <1>g, OneGoesOn
<1>1. CASE ProgressWrite(t)
  <2>1. /\ f.at = "progress" /\ f.job \in Jobs /\ frame' = [frame EXCEPT ![t] = Idle]
        /\ rollout' = rollout
    BY <1>1, <1>f DEF ProgressWrite, GoodFrame
  <2>2. \A j \in Jobs : /\ job'[j].canary = job[j].canary
                        /\ job'[j].state = job[j].state \/ job'[j].state = "WORKING"
    BY <1>1, <2>1 DEF ProgressWrite, StoreOK, JobRow
  <2>3. \A r \in Rollouts : NothingEnds(r)
    BY <2>1, <2>2 DEF NothingEnds, JobsOf, TerminalStates
  <2>4. /\ FramesTidy' /\ SocketsFresh'
        /\ \A i \in Threads \ {t} : frame'[i] = frame[i]
    BY <1>g, <2>1, TidyFrames
  <2>5. Plain
    BY <2>1, <2>3, <2>4 DEF Plain, OwingLabels
  <2> QED BY <1>f, <2>4, <2>5, PlainKeepsBooks DEF Books
<1>2. CASE RetryWrite(t)
  <2>1. /\ f.at = "retry" /\ f.job \in Jobs /\ rollout' = rollout
        /\ frame' = [frame EXCEPT ![t] = Recomputing(RolloutOf[f.job], "idle", None)]
    BY <1>2, <1>f DEF RetryWrite, GoodFrame
  <2>2. \A j \in Jobs : /\ job'[j].canary = job[j].canary
                        /\ job'[j].state = job[j].state \/ job'[j].state = "QUEUED"
    BY <1>2, <2>1 DEF RetryWrite, StoreOK, JobRow
  <2>3. \A r \in Rollouts : NothingEnds(r)
    BY <2>1, <2>2 DEF NothingEnds, JobsOf, TerminalStates
  <2>4. /\ FramesTidy' /\ SocketsFresh'
        /\ \A i \in Threads \ {t} : frame'[i] = frame[i]
    BY <1>g, <2>1, TidyFrames
  <2>5. Plain
    BY <2>1, <2>3, <2>4 DEF Plain, OwingLabels
  <2> QED BY <1>f, <2>4, <2>5, PlainKeepsBooks DEF Books
<1>3. CASE ResultWrite(t) \/ CancelWrite(t)
  <2>1. /\ f.at \in {"result", "cancel"} /\ f.job \in Jobs
        /\ rollout' = rollout /\ \A j \in Jobs \ {f.job} : job'[j] = job[j]
    BY <1>3, <1>f DEF ResultWrite, CancelWrite, GoodFrame, StoreOK
  <2>2. PICK r \in Rollouts : r = RolloutOf[f.job]
    BY <2>1, Foreign
  <2>3. PICK back, j : frame' = [frame EXCEPT ![t] = Recomputing(r, back, j)]
    BY <1>3, <2>2 DEF ResultWrite, CancelWrite
  <2>4. /\ FramesTidy' /\ SocketsFresh'
        /\ frame'[t] = Recomputing(r, back, j)
        /\ \A i \in Threads \ {t} : frame'[i] = frame[i]
    BY <1>g, <2>1, <2>3, TidyFrames
  <2>5. Recomputing(r, back, j).at = "recompute" /\ Recomputing(r, back, j).rollout = r
    BY DEF Recomputing, Idle
  <2>6. RolledUp(t, r)
    BY <2>1, <2>2, <2>4, <2>5 DEF RolledUp, OwingLabels, JobsOf
  <2> QED BY <1>f, <2>4, <2>6, RolledUpKeepsBooks DEF Books
<1>4. CASE Recompute(t)
  <2>r. PICK r \in Rollouts : r = f.rollout
    BY <1>4, <1>f DEF Recompute, GoodFrame
  <2> DEFINE g == [f EXCEPT !.at = "rewrite", !.status = Verdict(r), !.passes = CanaryPasses(r)]
  <2>1. f.at = "recompute" /\ UNCHANGED <<job, rollout>>
    BY <1>4 DEF Recompute
  <2>2. Tidy(Returned(f)) /\ Tidy(g)
    <3>1. f.back # "cancelRollout"
      BY <1>f, <2>1 DEF GoodFrame
    <3>2. g.at = "rewrite"
      BY <1>f DEF GoodFrame, Frame
    <3> QED BY <3>1, <3>2, TidyFrames DEF Tidy
  <2>3. \A i \in Rollouts : /\ SomeLeft(i)' = SomeLeft(i)
                            /\ Balanced(i)' = Balanced(i)
    BY <2>1 DEF SomeLeft, Balanced, IsOpen, IsTerminal, JobsOf, Verdict, CanaryVerdict, CanariesOf
  <2>4. ASSUME NEW i \in Rollouts, NEW u \in Threads \ {t}, frame'[u] = frame[u],
               Owes(frame[u], i)
        PROVE  Owed(i)'
    <3>1. Owes(frame[u], i)'
      BY <2>3, <2>4 DEF Owes
    <3> QED BY <3>1 DEF Owed
  <2>5. CASE /\ frame' = [frame EXCEPT ![t] = Returned(f)]
             /\ rollout[r].status \in {"COMPLETED", "CANCELLED"} \/ Verdict(r) = rollout[r].status
    <3>1. /\ FramesTidy' /\ SocketsFresh'
          /\ \A i \in Threads \ {t} : frame'[i] = frame[i]
      BY <1>g, <2>1, <2>2, <2>5
    <3>2. Balanced(r)
      BY <2>5 DEF Balanced, IsOpen
    <3>3. ASSUME NEW i \in Rollouts PROVE Balanced(i)' \/ Owed(i)'
      <4>1. CASE i = r
        BY <2>3, <3>2, <4>1
      <4>2. CASE i # r
        <5>1. ~Owes(frame[t], i)
          BY <2>r, <4>2 DEF Owes
        <5> QED BY <1>f, <2>3, <2>4, <3>1, <5>1 DEF BooksKept, Owed
      <4> QED BY <4>1, <4>2
    <3> QED BY <3>1, <3>3 DEF Books, BooksKept
  <2>6. CASE /\ frame' = [frame EXCEPT ![t] = g]
             /\ Verdict(r) # rollout[r].status
    <3>1. /\ FramesTidy' /\ SocketsFresh' /\ frame'[t] = g
          /\ \A i \in Threads \ {t} : frame'[i] = frame[i]
      <4> HIDE DEF g
      <4> QED BY <1>g, <2>1, <2>2, <2>6
    <3>2. g.at = "rewrite" /\ g.rollout = r /\ g.status = Verdict(r)
      BY <1>f, <2>r DEF GoodFrame, Frame
    <3>3. Verdict(r) \in {"PAUSED", "COMPLETED"} \/ SomeLeft(r)
      BY DEF Verdict, SomeLeft
    <3>4. Owes(frame[t], r)'
      <4> HIDE DEF g
      <4> QED BY <2>1, <2>3, <3>1, <3>2, <3>3 DEF Owes, OwingLabels
    <3>5. ASSUME NEW i \in Rollouts PROVE Balanced(i)' \/ Owed(i)'
      <4>1. CASE i = r
        BY <3>4, <4>1 DEF Owed
      <4>2. CASE i # r
        <5>1. ~Owes(frame[t], i)
          BY <2>r, <4>2 DEF Owes
        <5> QED BY <1>f, <2>3, <2>4, <3>1, <5>1 DEF BooksKept, Owed
      <4> QED BY <4>1, <4>2
    <3> QED BY <3>1, <3>5 DEF Books, BooksKept
  <2> QED BY <1>4, <2>r, <2>5, <2>6 DEF Recompute
<1>5. CASE RolloutWrite(t)
  <2>r. PICK r \in Rollouts : r = f.rollout
    BY <1>5, <1>f DEF RolloutWrite, GoodFrame
  <2>1. /\ f.at = "rewrite" /\ job' = job
        /\ f.back # "cancelRollout" /\ frame' = [frame EXCEPT ![t] = Returned(f)]
    BY <1>5, <1>f DEF RolloutWrite, GoodFrame
  <2>2. /\ FramesTidy' /\ SocketsFresh'
        /\ \A i \in Threads \ {t} : frame'[i] = frame[i]
    BY <1>g, <2>1, TidyFrames
  <2>3. /\ rollout'[r].status = f.status
        /\ \A i \in Rollouts \ {r} : rollout'[i] = rollout[i]
    BY <1>5, <2>r DEF RolloutWrite, StoreOK, RolloutRow
  <2>4. f.status \in {"PAUSED", "COMPLETED", "SOAKING", "RUNNING"} /\ Exists(r)
    BY <1>f, <2>r, <2>1 DEF Founded
  <2>5. StatusWritten(t, r)
    BY <2>r, <2>1, <2>2, <2>3, <2>4 DEF StatusWritten, Owes, IsOpen
  <2> QED BY <1>f, <2>2, <2>5, StatusWrittenKeepsBooks DEF Books
<1> QED BY <1>1, <1>2, <1>3, <1>4, <1>5 DEF Store, StoreStep

LEMMA SocketStepKeepsBooks ==
  ASSUME StoreOK, LinkOK, Books, NEW s \in Sockets, Socket(s)
  PROVE  Books'
<1>s. /\ s \in Threads /\ frame[s] \in GoodFrame
      /\ BooksKept /\ FramesTidy /\ SocketsFresh
  BY Actors DEF StoreOK, Books
<1>q. ASSUME UNCHANGED <<job, rollout>>, frame[s].at \notin OwingLabels,
             \A t \in Threads \ {s} : frame'[t] = frame[t]
      PROVE  BooksKept'
  <2>1. Plain
    BY <1>q DEF Plain, NothingEnds
  <2> QED BY <1>s, <2>1, PlainKeepsBooks
<1>1. CASE SetupDone(s)
  <2>1. /\ frame[s].at = "setup" /\ frame' = [frame EXCEPT ![s] = Idle]
        /\ UNCHANGED <<job, rollout, sock, session, inbox>>
    BY <1>1 DEF SetupDone, linkVars
  <2>2. FramesTidy' /\ SocketsFresh' /\ \A t \in Threads \ {s} : frame'[t] = frame[t]
    BY <1>s, <2>1, OneGoesOn, TidyFrames
  <2> QED BY <1>q, <2>1, <2>2 DEF Books, OwingLabels
<1>2. CASE SocketCloses(s)
  <2>1. /\ UNCHANGED <<job, rollout, frame, session, inbox>>
        /\ sock' = [sock EXCEPT ![s] = "closed"]
    BY <1>2 DEF SocketCloses, storeVars
  <2>2. \A i \in Sockets : sock'[i] = "new" => sock[i] = "new" /\ inbox'[i] = inbox[i]
    BY <2>1 DEF LinkOK
  <2>3. FramesTidy' /\ SocketsFresh'
    BY <1>s, <2>1, <2>2, NoneGoesOn
  <2>4. Plain
    BY <2>1 DEF Plain, NothingEnds
  <2> QED BY <1>s, <2>3, <2>4, PlainKeepsBooks DEF Books
<1>3. CASE Receive(s)
  <2> DEFINE msg == Head(inbox[s])
  <2>1. /\ frame[s] = Idle /\ inbox[s] # <<>> /\ inbox' = [inbox EXCEPT ![s] = Tail(@)]
        /\ UNCHANGED <<job, rollout, sock, session>>
    BY <1>3 DEF Receive
  <2>2. PICK g : Tidy(g) /\ frame' = [frame EXCEPT ![s] = g]
    <3>1. CASE msg.kind = "hello" /\ ReconcileOn(s, ReconcileRead(s, msg.job))
      <4>1. Tidy(ReconcileRead(s, msg.job))
        BY DEF Tidy, ReconcileRead, AtJob, Idle
      <4> QED BY <3>1, <4>1, TidyFrames DEF ReconcileOn
    <3>2. CASE \/ frame' = [frame EXCEPT ![s] = ProgressRead(msg.job)]
               \/ frame' = [frame EXCEPT ![s] = ResultRead(msg.job, msg.ok)]
      BY <3>2, TidyReads
    <3> QED BY <1>3, <3>1, <3>2 DEF Receive
  <2>3. frame'[s] = g /\ \A t \in Threads \ {s} : frame'[t] = frame[t]
    BY <1>s, <2>2 DEF StoreOK
  <2>4. FramesTidy'
    BY <1>s, <2>2, <2>3 DEF FramesTidy, Tidy, JobsOf
  <2>5. SocketsFresh'
    <3> SUFFICES ASSUME NEW i \in Sockets, sock[i] = "new"
                 PROVE  frame'[i] = frame[i] /\ inbox'[i] = inbox[i]
      BY <1>s, <2>1 DEF SocketsFresh, Unopened
    <3>1. i # s
      BY <1>s, <2>1 DEF SocketsFresh, Unopened
    <3> QED BY <2>1, <2>3, <3>1, Actors DEF LinkOK
  <2>6. frame[s].at \notin OwingLabels
    BY <2>1, LabelsOfFrames DEF OwingLabels
  <2> QED BY <1>q, <2>1, <2>3, <2>4, <2>5, <2>6 DEF Books
<1>4. CASE ReconcileWrite(s)
  <2> DEFINE g(j) == [frame[s] EXCEPT !.todo = @ \ {j}]
  <2>1. PICK j \in frame[s].todo :
          /\ job' = [job EXCEPT ![j].state = "QUEUED", ![j].held = FALSE, ![j].stale = FALSE]
          /\ ReconcileOn(s, g(j))
    BY <1>4 DEF ReconcileWrite
  <2>2. /\ frame[s].at = "reconcile" /\ j \in Jobs
        /\ UNCHANGED <<rollout, sock, session, inbox>>
    BY <1>4, <1>s, <2>1 DEF ReconcileWrite, GoodFrame, Frame
  <2>3. Tidy(g(j))
    <3>1. g(j).at = "reconcile"
      BY <1>s, <2>2 DEF GoodFrame, Frame
    <3> QED BY <3>1 DEF Tidy
  <2>4. PICK h : Tidy(h) /\ frame' = [frame EXCEPT ![s] = h]
    BY <2>1, <2>3, TidyFrames DEF ReconcileOn
  <2>5. FramesTidy' /\ SocketsFresh' /\ \A t \in Threads \ {s} : frame'[t] = frame[t]
    BY <1>s, <2>2, <2>4, OneGoesOn
  <2>6. \A i \in Jobs : /\ job'[i].canary = job[i].canary
                        /\ job'[i].state = job[i].state \/ job'[i].state = "QUEUED"
    BY <2>1, <2>2 DEF StoreOK, JobRow
  <2>7. Plain
    BY <2>2, <2>5, <2>6 DEF Plain, NothingEnds, JobsOf, OwingLabels, TerminalStates
  <2> QED BY <1>s, <2>5, <2>7, PlainKeepsBooks DEF Books
<1> QED BY <1>1, <1>2, <1>3, <1>4 DEF Socket, SocketStep

LEMMA BoxKeepsBooks ==
  ASSUME StoreOK, LinkOK, Books, NEW d \in Devices,
         Dials(d) \/ Box(d) \/ Fault(d) \/ Reports(d) \/ Beats(d)
  PROVE  Books'
<1>s. BooksKept /\ FramesTidy /\ SocketsFresh
  BY DEF Books
<1>1. CASE Dials(d)
  <2> DEFINE s == CHOOSE s \in Unused(d) : TRUE
  <2>1. /\ s \in Unused(d)
        /\ sock' = [sock EXCEPT ![s] = "open"] /\ session' = [session EXCEPT ![d] = s]
        /\ frame' = [frame EXCEPT ![s] = At("setup")]
        /\ UNCHANGED <<job, rollout, inbox>>
    BY <1>1 DEF Dials, Connect
  <2> HIDE DEF s
  <2>2. s \in Sockets /\ s \in Threads /\ sock[s] = "new" /\ frame[s] = Idle
    BY <1>s, <2>1, Actors DEF Unused, SocketsFresh, Unopened
  <2>3. /\ frame'[s] = At("setup") /\ \A t \in Threads \ {s} : frame'[t] = frame[t]
        /\ sock'[s] = "open" /\ \A i \in Sockets \ {s} : sock'[i] = sock[i]
        /\ \A e \in Devices : session'[e] = IF e = d THEN s ELSE session[e]
    BY <2>1, <2>2 DEF StoreOK, LinkOK
  <2>4. FramesTidy'
    BY <1>s, <2>3, TidyFrames DEF FramesTidy, Tidy, JobsOf
  <2>5. SocketsFresh'
    <3> SUFFICES ASSUME NEW i \in Sockets, sock'[i] = "new"
                 PROVE  frame'[i] = Idle /\ inbox'[i] = <<>> /\ \A e \in Devices : session'[e] # i
      BY DEF SocketsFresh, Unopened
    <3>1. i # s
      BY <2>3
    <3> QED BY <1>s, <2>1, <2>3, <3>1, Actors DEF SocketsFresh, Unopened
  <2>6. Plain
    BY <2>1, <2>2, <2>3, LabelsOfFrames DEF Plain, NothingEnds, OwingLabels
  <2> QED BY <1>s, <2>4, <2>5, <2>6, PlainKeepsBooks DEF Books
<1>2. CASE ~Dials(d)
  <2>1. UNCHANGED <<rollout, frame, sock>>
    BY <1>2 DEF Box, BoxStep, Hello, Handle, Finish, FreesSlot, Fault, BoxFault, SessionDrops,
                BoxRestarts, SessionEnds, Reports, Progress, Beats, Heartbeat, storeVars, linkVars
  <2>2. \A j \in Jobs : job'[j].canary = job[j].canary /\ job'[j].state = job[j].state
    <3>1. CASE Beats(d)
      BY <3>1 DEF Beats, Heartbeat, StoreOK, JobRow
    <3>2. CASE ~Beats(d)
      BY <1>2, <3>2
      DEF Box, BoxStep, Hello, Handle, Finish, FreesSlot, Fault, BoxFault, SessionDrops,
          BoxRestarts, SessionEnds, Reports, Progress, storeVars
    <3> QED BY <3>1, <3>2
  <2>3. /\ \A e \in Devices : session'[e] \in {session[e], None}
        /\ \A i \in Sockets : session[d] # i => inbox'[i] = inbox[i]
    <3>1. CASE Fault(d)
      <4>1. /\ session' = [session EXCEPT ![d] = None]
            /\ \E n \in 0..Len(inbox[session[d]]) :
                 inbox' = [inbox EXCEPT ![session[d]] = SubSeq(@, 1, n)]
        BY <3>1 DEF Fault, BoxFault, SessionDrops, BoxRestarts, SessionEnds
      <4> QED BY <4>1 DEF LinkOK
    <3>2. CASE ~Fault(d)
      <4>1. UNCHANGED session
        BY <1>2, <3>2 DEF Box, BoxStep, Hello, Handle, Finish, FreesSlot, Reports, Progress,
                          Beats, Heartbeat, linkVars
      <4>2. inbox' = inbox \/ \E msg : inbox' = SentToHub(d, msg)
        BY <1>2, <3>2 DEF Box, BoxStep, Hello, Handle, StartJob, StopJob, Finish, FreesSlot,
                          Reports, Progress, Beats, Heartbeat, linkVars
      <4> QED BY <4>1, <4>2 DEF SentToHub, LinkOK
    <3> QED BY <3>1, <3>2
  <2>4. FramesTidy' /\ SocketsFresh'
    BY <1>s, <2>1, <2>3, NoneGoesOn
  <2>5. Plain
    BY <2>1, <2>2 DEF Plain, NothingEnds, JobsOf
  <2> QED BY <1>s, <2>4, <2>5, PlainKeepsBooks DEF Books
<1> QED BY <1>1, <1>2

LEMMA TimeKeepsBooks ==
  ASSUME StoreOK, LinkOK, Books,
         \/ \E j \in Jobs : Ages(j) \/ BackoffEnds(j)
         \/ \E r \in Rollouts : SoakEnds(r)
         \/ UNCHANGED vars
  PROVE  Books'
<1>s. BooksKept /\ FramesTidy /\ SocketsFresh
  BY DEF Books
<1>1. UNCHANGED <<frame, sock, session, inbox>>
  BY DEF Ages, HeartbeatAges, BackoffEnds, BackoffElapses, SoakEnds, SoakElapses, linkVars,
         vars, storeVars
<1>2. \A j \in Jobs : job'[j].canary = job[j].canary /\ job'[j].state = job[j].state
  BY DEF Ages, HeartbeatAges, BackoffEnds, BackoffElapses, SoakEnds, SoakElapses, vars, storeVars,
         StoreOK, JobRow
<1>3. \A r \in Rollouts : rollout'[r].status = rollout[r].status
  BY DEF Ages, HeartbeatAges, BackoffEnds, BackoffElapses, SoakEnds, SoakElapses, vars, storeVars,
         StoreOK, RolloutRow
<1>4. FramesTidy' /\ SocketsFresh'
  BY <1>s, <1>1, NoneGoesOn
<1>5. Plain
  BY <1>1, <1>2, <1>3 DEF Plain, NothingEnds, JobsOf
<1> QED BY <1>s, <1>4, <1>5, PlainKeepsBooks DEF Books

LEMMA TickKeepsBooks ==
  ASSUME StoreOK, LinkOK, PassTypeOK, Licensed, Books, ~Reopens, TickRuns
  PROVE  Books'
<1>s. /\ BooksKept /\ FramesTidy /\ SocketsFresh
      /\ Tick \in Threads /\ Tick \notin Sockets
  BY Actors DEF Books
<1>u. UNCHANGED <<sock, session, inbox>>
  BY DEF TickRuns, TickStep, TickStarts, Promote, StalledRead, Requeue, CountActive,
         CandidatesRead, Skip, Mark, Send, SendFails, PutBack, TickEnds, linkVars
<1>g. ASSUME NEW g, Tidy(g), frame' = [frame EXCEPT ![Tick] = g]
      PROVE  /\ FramesTidy' /\ SocketsFresh'
             /\ frame'[Tick] = g /\ \A i \in Threads \ {Tick} : frame'[i] = frame[i]
  BY <1>s, <1>u, <1>g, OneGoesOn
<1>q. ASSUME rollout' = rollout, tickAt \notin OwingLabels,
             NEW g, Tidy(g), frame' = [frame EXCEPT ![Tick] = g],
             \A j \in Jobs : /\ job'[j].canary = job[j].canary
                             /\ job'[j].state = job[j].state \/ job'[j].state \notin TerminalStates
      PROVE  Books'
  <2>1. /\ FramesTidy' /\ SocketsFresh'
        /\ \A i \in Threads \ {Tick} : frame'[i] = frame[i]
    BY <1>g, <1>q
  <2>2. Plain
    BY <1>q, <2>1 DEF Plain, NothingEnds, JobsOf, tickAt
  <2> QED BY <1>s, <2>1, <2>2, PlainKeepsBooks DEF Books
<1>n. ASSUME UNCHANGED <<job, rollout, frame>> PROVE Books'
  <2>1. FramesTidy' /\ SocketsFresh'
    BY <1>s, <1>u, <1>n, NoneGoesOn
  <2>2. Plain
    BY <1>n DEF Plain, NothingEnds
  <2> QED BY <1>s, <2>1, <2>2, PlainKeepsBooks DEF Books
<1>1. CASE TickStarts \/ StalledRead \/ CountActive \/ CandidatesRead \/ TickEnds
  <2>1. /\ UNCHANGED <<job, rollout>> /\ tickAt \notin OwingLabels
        /\ \E l \in {"idle", "promote", "requeue", "candidates", "dispatch"} : TickGoes(l)
    BY <1>1 DEF TickStarts, StalledRead, CountActive, CandidatesRead, TickEnds, OwingLabels
  <2>2. PICK l \in {"idle", "promote", "requeue", "candidates", "dispatch"} : TickGoes(l)
    BY <2>1
  <2>3. Tidy(At(l)) /\ frame' = [frame EXCEPT ![Tick] = At(l)]
    BY <2>2, TidyFrames DEF TickGoes
  <2> QED BY <1>q, <2>1, <2>3
<1>2. CASE Skip
  BY <1>n, <1>2 DEF Skip, storeVars
<1>3. CASE Promote
  <2>1. PICK r \in pass.soaked : rollout' = [rollout EXCEPT ![r].status = "RUNNING"]
    BY <1>3 DEF Promote
  <2>2. /\ r \in Rollouts /\ Exists(r) /\ tickAt = "promote" /\ UNCHANGED <<job, frame>>
    BY <1>3 DEF Promote, Licensed, PassLicensed, Released, Exists
  <2>3. /\ rollout'[r].status = "RUNNING"
        /\ \A i \in Rollouts \ {r} : rollout'[i] = rollout[i]
    BY <2>1, <2>2 DEF StoreOK, RolloutRow
  <2>4. StatusWritten(Tick, r)
    BY <2>2, <2>3 DEF StatusWritten, Owes, OwingLabels, tickAt
  <2>5. FramesTidy' /\ SocketsFresh'
    BY <1>s, <1>u, <2>2, NoneGoesOn
  <2> QED BY <1>s, <2>2, <2>4, <2>5, StatusWrittenKeepsBooks DEF Books
<1>4. CASE Requeue
  <2>1. PICK j \in pass.todo :
          /\ job' = [job EXCEPT ![j] = AfterFailure(@, pass.seen[j])]
          /\ frame' = [frame EXCEPT ![Tick] = Recomputing(RolloutOf[j], "requeue", None)]
    BY <1>4 DEF Requeue
  <2> DEFINE r == RolloutOf[j]
             g == Recomputing(r, "requeue", None)
  <2>2. /\ tickAt = "requeue" /\ rollout' = rollout /\ j \in Jobs /\ r \in Rollouts
    BY <1>4, Foreign DEF Requeue, PassTypeOK, Pass
  <2>3. /\ FramesTidy' /\ SocketsFresh' /\ frame'[Tick] = g
        /\ \A i \in Threads \ {Tick} : frame'[i] = frame[i]
    BY <1>g, <2>1, TidyFrames
  <2>4. g.at = "recompute" /\ g.rollout = r
    BY DEF Recomputing, Idle
  <2>5. \A i \in Jobs \ {j} : job'[i] = job[i]
    BY <2>1 DEF StoreOK
  <2>6. RolledUp(Tick, r)
    BY <2>2, <2>3, <2>4, <2>5 DEF RolledUp, OwingLabels, JobsOf, tickAt
  <2> QED BY <1>s, <2>2, <2>3, <2>6, RolledUpKeepsBooks DEF Books
<1>5. CASE Mark
  <2>1. PICK j \in Jobs :
          /\ job' = [job EXCEPT ![j].state = "DISPATCHED", ![j].attempt = pass.seen[j] + 1,
                                ![j].stale = FALSE]
          /\ frame' = [frame EXCEPT ![Tick] = [AtJob("send", j) EXCEPT !.attempt = pass.seen[j]]]
    BY <1>5 DEF Mark
  <2>2. rollout' = rollout /\ tickAt = "dispatch"
    BY <1>5 DEF Mark
  <2>3. \A n : /\ [job[j] EXCEPT !.state = "DISPATCHED", !.attempt = n,
                                 !.stale = FALSE].canary = job[j].canary
               /\ [job[j] EXCEPT !.state = "DISPATCHED", !.attempt = n,
                                 !.stale = FALSE].state = "DISPATCHED"
    BY DEF StoreOK, JobRow
  <2>4. \A i \in Jobs : /\ job'[i].canary = job[i].canary
                        /\ job'[i].state = job[i].state \/ job'[i].state \notin TerminalStates
    BY <2>1, <2>3 DEF StoreOK, TerminalStates
  <2>5. Tidy([AtJob("send", j) EXCEPT !.attempt = pass.seen[j]])
    BY DEF Tidy, AtJob, Idle
  <2> QED BY <1>q, <2>1, <2>2, <2>4, <2>5 DEF OwingLabels
<1>6. CASE Send
  <2>1. /\ UNCHANGED <<job, rollout>> /\ tickAt = "send"
        /\ frame' = [frame EXCEPT ![Tick] =
                       Recomputing(RolloutOf[frame[Tick].job], "dispatch", None)]
    BY <1>6 DEF Send, tickAt
  <2> QED BY <1>q, <2>1, TidyFrames DEF OwingLabels
<1>7. CASE SendFails
  <2>1. /\ UNCHANGED <<job, rollout>> /\ tickAt = "send"
        /\ frame' = [frame EXCEPT ![Tick] = [@ EXCEPT !.at = "unsend"]]
    BY <1>7 DEF SendFails
  <2>2. frame' = [frame EXCEPT ![Tick] = [frame[Tick] EXCEPT !.at = "unsend"]]
    BY <2>1
  <2>3. Tidy([frame[Tick] EXCEPT !.at = "unsend"])
    <3>1. [frame[Tick] EXCEPT !.at = "unsend"].at = "unsend"
      BY <1>s DEF StoreOK, GoodFrame, Frame
    <3> QED BY <3>1 DEF Tidy
  <2> QED BY <1>q, <2>1, <2>2, <2>3 DEF OwingLabels
<1>8. CASE PutBack
  <2>1. /\ tickAt = "unsend" /\ rollout' = rollout
        /\ frame' = [frame EXCEPT ![Tick] = At("dispatch")] /\ Tidy(At("dispatch"))
    BY <1>8, TidyFrames DEF PutBack, TickGoes, tickAt
  <2>2. \A i \in Jobs : /\ job'[i].canary = job[i].canary
                        /\ job'[i].state = job[i].state \/ job'[i].state \notin TerminalStates
    BY <1>8 DEF PutBack, StoreOK, JobRow, TerminalStates
  <2> QED BY <1>q, <2>1, <2>2 DEF OwingLabels
<1> QED BY <1>1, <1>2, <1>3, <1>4, <1>5, <1>6, <1>7, <1>8 DEF TickRuns, TickStep

LEMMA RequestKeepsBooks ==
  ASSUME StoreOK, LinkOK, Licensed, Books, ~Reopens, NEW q \in Requests, Request(q) \/ Ask(q)
  PROVE  Books'
<1>s. /\ BooksKept /\ FramesTidy /\ SocketsFresh
      /\ q \in Threads /\ q \notin Sockets
      /\ frame[q] \in GoodFrame /\ frame[q] \in Founded
  BY Actors DEF Books, StoreOK, Licensed, FramesLicensed
<1>u. UNCHANGED <<sock, session, inbox>>
  BY DEF Request, RequestStep, TellAgent, CancelJobsOf, CloseRollout, ResumeWrite,
         Ask, AskRetryJob, AskCancelJob, AskCancelRollout, AskResume, linkVars
<1>g. ASSUME NEW g, Tidy(g), frame' = [frame EXCEPT ![q] = g]
      PROVE  /\ FramesTidy' /\ SocketsFresh'
             /\ frame'[q] = g /\ \A i \in Threads \ {q} : frame'[i] = frame[i]
  BY <1>s, <1>u, <1>g, OneGoesOn
<1>q. ASSUME UNCHANGED <<job, rollout>>, frame[q].at \notin OwingLabels,
             NEW g, Tidy(g), frame' = [frame EXCEPT ![q] = g]
      PROVE  Books'
  <2>1. /\ FramesTidy' /\ SocketsFresh'
        /\ \A i \in Threads \ {q} : frame'[i] = frame[i]
    BY <1>g, <1>q
  <2>2. Plain
    BY <1>q, <2>1 DEF Plain, NothingEnds
  <2> QED BY <1>s, <2>1, <2>2, PlainKeepsBooks DEF Books
<1>1. CASE TellAgent(q)
  BY <1>q, <1>1, TidyFrames DEF TellAgent, OwingLabels
<1>2. CASE CancelJobsOf(q)
  <2> DEFINE f == frame[q]  g == [f EXCEPT !.at = "closeRollout", !.todo = {}]
  <2>r. PICK r \in Rollouts : r = f.rollout
    BY <1>2, <1>s DEF CancelJobsOf, GoodFrame
  <2>1. /\ f.at = "cancelRollout" /\ f.todo \subseteq JobsOf(r)
        /\ rollout' = rollout /\ frame' = [frame EXCEPT ![q] = g]
    BY <1>2, <1>s, <2>r DEF CancelJobsOf, FramesTidy, Tidy
  <2>2. g.at = "closeRollout" /\ g.rollout = r /\ Tidy(g)
    <3>1. g.at = "closeRollout" /\ g.rollout = r
      BY <1>s, <2>r DEF GoodFrame, Frame
    <3> QED BY <3>1 DEF Tidy
  <2>3. /\ FramesTidy' /\ SocketsFresh' /\ frame'[q] = g
        /\ \A i \in Threads \ {q} : frame'[i] = frame[i]
    <3> HIDE DEF g
    <3> QED BY <1>g, <2>1, <2>2
  <2>4. \A j \in Jobs \ JobsOf(r) : job'[j] = job[j]
    BY <1>2, <2>1 DEF CancelJobsOf
  <2>5. RolledUp(q, r)
    <3> HIDE DEF g
    <3> QED BY <2>1, <2>2, <2>3, <2>4 DEF RolledUp, OwingLabels
  <2> QED BY <1>s, <2>3, <2>5, RolledUpKeepsBooks DEF Books
<1>3. CASE CloseRollout(q) \/ ResumeWrite(q)
  <2>r. PICK r \in Rollouts : r = frame[q].rollout
    BY <1>3, <1>s DEF CloseRollout, ResumeWrite, GoodFrame
  <2>1. Exists(r) /\ job' = job /\ frame' = [frame EXCEPT ![q] = Idle]
    BY <1>3, <1>s, <2>r DEF CloseRollout, ResumeWrite, Founded
  <2>2. /\ FramesTidy' /\ SocketsFresh'
        /\ \A i \in Threads \ {q} : frame'[i] = frame[i]
    BY <1>g, <2>1, TidyFrames
  <2>3. /\ \A i \in Rollouts \ {r} : rollout'[i] = rollout[i]
        /\ \/ rollout'[r].status = "CANCELLED"
           \/ rollout'[r].status = "RUNNING" /\ frame[q].at = "resume"
    BY <1>3, <2>r DEF CloseRollout, ResumeWrite, StoreOK, RolloutRow
  <2>4. StatusWritten(q, r)
    BY <2>r, <2>1, <2>2, <2>3 DEF StatusWritten, Owes, OwingLabels, IsOpen
  <2> QED BY <1>s, <2>2, <2>4, StatusWrittenKeepsBooks DEF Books
<1>4. CASE Ask(q)
  <2>1. frame[q].at \notin OwingLabels /\ UNCHANGED <<job, rollout>>
    BY <1>4, LabelsOfFrames
    DEF Ask, AskRetryJob, AskCancelJob, AskCancelRollout, AskResume, Asks, OwingLabels
  <2>2. PICK g : Tidy(g) /\ frame' = [frame EXCEPT ![q] = g]
    <3>1. ASSUME NEW j \in Jobs, AskRetryJob(q, j) \/ AskCancelJob(q, j)
          PROVE  \E g : Tidy(g) /\ frame' = [frame EXCEPT ![q] = g]
      BY <3>1, TidyReads DEF AskRetryJob, AskCancelJob
    <3>2. ASSUME NEW r \in Rollouts, AskCancelRollout(q, r)
          PROVE  \E g : Tidy(g) /\ frame' = [frame EXCEPT ![q] = g]
      <4> DEFINE open == {j \in JobsOf(r) : ~IsTerminal(j)}
                 g == [At("cancelRollout") EXCEPT !.rollout = r, !.todo = open]
      <4>1. g.todo = open /\ g.rollout = r
        BY DEF At, Idle
      <4>2. Tidy(g)
        BY <4>1 DEF Tidy
      <4> QED BY <3>2, <4>2 DEF AskCancelRollout
    <3>3. ASSUME NEW r \in Rollouts, AskResume(q, r)
          PROVE  \E g : Tidy(g) /\ frame' = [frame EXCEPT ![q] = g]
      <4> DEFINE g == [At("resume") EXCEPT !.rollout = r, !.passes = rollout[r].passed = "never"]
      <4>1. Tidy(g)
        BY DEF At, Idle, Tidy
      <4> QED BY <3>3, <4>1 DEF AskResume
    <3> QED BY <1>4, <3>1, <3>2, <3>3 DEF Ask
  <2> QED BY <1>q, <2>1, <2>2
<1> QED BY <1>1, <1>2, <1>3, <1>4 DEF Request, RequestStep

LEMMA CreateKeepsBooks ==
  ASSUME StoreOK, Books, NEW q \in Requests, NEW r \in Rollouts, Creates(q, r)
  PROVE  Books'
<1>s. /\ BooksKept /\ FramesTidy /\ SocketsFresh
      /\ q \in Threads /\ q \notin Sockets
  BY Actors DEF Books
<1> DEFINE g == Recomputing(r, "idle", None)
<1>1. /\ CreateRollout(q, r) /\ frame[q] = Idle /\ frame' = [frame EXCEPT ![q] = g]
      /\ UNCHANGED <<sock, session, inbox>>
  BY DEF Creates, CreateRollout, linkVars
<1>2. /\ g.at = "recompute" /\ g.rollout = r /\ Tidy(g)
  BY TidyFrames DEF Recomputing, Idle
<1>3. /\ FramesTidy' /\ SocketsFresh' /\ frame'[q] = g
      /\ \A i \in Threads \ {q} : frame'[i] = frame[i]
  <2> HIDE DEF g
  <2> QED BY <1>s, <1>1, <1>2, OneGoesOn
<1>4. RolledUp(q, r)
  <2> HIDE DEF g
  <2> QED BY <1>1, <1>2, <1>3, Created, LabelsOfFrames DEF RolledUp, OwingLabels
<1> QED BY <1>s, <1>3, <1>4, RolledUpKeepsBooks DEF Books

LEMMA CrashKeepsBooks ==
  ASSUME LinkOK, Books, HubCrash, ~Interrupts
  PROVE  Books'
<1>1. /\ UNCHANGED <<job, rollout>>
      /\ frame' = [t \in Threads |-> Idle]
      /\ session' = [d \in Devices |-> None]
      /\ inbox' = [s \in Sockets |-> <<>>]
  BY DEF HubCrash
<1>2. BooksKept'
  <2> SUFFICES ASSUME NEW r \in Rollouts PROVE Balanced(r)'
    BY DEF BooksKept
  <2>1. Balanced(r) /\ NothingEnds(r)
    BY <1>1 DEF Interrupts, NothingEnds
  <2> QED BY <2>1, BalanceStays
<1>3. FramesTidy'
  BY <1>1, TidyFrames DEF FramesTidy, Tidy, Idle
<1>4. SocketsFresh'
  BY <1>1, Actors, JobStoreAssumption DEF SocketsFresh, Unopened, JobStoreAssumption
<1> QED BY <1>2, <1>3, <1>4 DEF Books

LEMMA BooksInitially == Init => Books
<1> SUFFICES ASSUME Init PROVE Books
  OBVIOUS
<1>1. BooksKept
  BY DEF Init, StoreInit, BooksKept, Balanced, IsOpen
<1>2. FramesTidy
  BY TidyFrames DEF Init, StoreInit, FramesTidy
<1>3. SocketsFresh
  BY Actors, JobStoreAssumption
  DEF Init, StoreInit, LinkInit, SocketsFresh, Unopened, JobStoreAssumption
<1> QED BY <1>1, <1>2, <1>3 DEF Books

LEMMA StepKeepsBooks ==
  WellTyped /\ Licensed /\ Books /\ [Next]_vars /\ [~Disturbs]_vars => Books'
<1> SUFFICES ASSUME WellTyped, Licensed, Books, [Next]_vars, [~Disturbs]_vars PROVE Books'
  OBVIOUS
<1>t. StoreOK /\ LinkOK /\ PassTypeOK
  BY DEF WellTyped
<1>1. CASE UNCHANGED vars
  BY <1>1, <1>t, TimeKeepsBooks
<1>2. CASE Next /\ ~Reopens /\ ~Interrupts
  <2>1. CASE \E t \in Threads : Store(t)
    BY <1>2, <1>t, <2>1, StoreStepKeepsBooks
  <2>2. CASE \E s \in Sockets : Socket(s)
    BY <1>t, <2>2, SocketStepKeepsBooks
  <2>3. CASE \E d \in Devices : Dials(d) \/ Box(d) \/ Fault(d) \/ Reports(d) \/ Beats(d)
    BY <1>t, <2>3, BoxKeepsBooks
  <2>4. CASE \/ \E j \in Jobs : Ages(j) \/ BackoffEnds(j)
             \/ \E r \in Rollouts : SoakEnds(r)
    BY <1>t, <2>4, TimeKeepsBooks
  <2>5. CASE TickRuns
    BY <1>2, <1>t, <2>5, TickKeepsBooks
  <2>6. CASE \E q \in Requests : Request(q) \/ Ask(q)
    BY <1>2, <1>t, <2>6, RequestKeepsBooks
  <2>7. CASE \E q \in Requests, r \in Rollouts : Creates(q, r)
    BY <1>t, <2>7, CreateKeepsBooks
  <2>8. CASE HubCrash
    BY <1>2, <1>t, <2>8, CrashKeepsBooks
  <2> QED BY <1>2, <2>1, <2>2, <2>3, <2>4, <2>5, <2>6, <2>7, <2>8 DEF Next
<1> QED BY <1>1, <1>2 DEF Disturbs

LEMMA KeptBooksBalance == Books => BooksBalance
<1> SUFFICES ASSUME Books, \A t \in Threads : frame[t] = Idle, NEW r \in Rollouts, IsOpen(r)
             PROVE  Verdict(r) = rollout[r].status
  BY DEF BooksBalance, IsOpen
<1>1. ~Owed(r)
  BY LabelsOfFrames DEF Owed, Owes, OwingLabels
<1> QED BY <1>1 DEF Books, BooksKept, Balanced

\* The books balance whenever no handler is under way, in a fleet of any size and
\* however ticks, sockets and requests interleave, unless a status is written over
\* one that closed the rollout and no job is left to correct it, or the process dies
\* before a job that ended is rolled up: nothing else can unbalance them.
THEOREM BooksAreKept == Spec /\ [][~Disturbs]_vars => []BooksBalance
<1>1. Spec /\ [][~Disturbs]_vars => []Books
  BY BooksInitially, StepKeepsBooks, AlwaysWellTyped, AlwaysLicensed, PTL DEF Spec
<1> QED BY <1>1, KeptBooksBalance, PTL
=============================================================================
