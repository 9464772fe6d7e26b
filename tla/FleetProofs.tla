---------------------------- MODULE FleetProofs ----------------------------
(***************************************************************************)
(* Theorems about the fleet, for every set of devices, rollouts, sockets   *)
(* and requests, and every value of the limits.                            *)
(***************************************************************************)
EXTENDS FleetProperties, FiniteSetTheorems, SequenceTheorems, TLAPS

-----------------------------------------------------------------------------
(* Types that say more than TypeOK: a handler that stands at a statement   *)
(* about a job or a rollout has one in hand, and only hello names no job.  *)

GoodFrame ==
  {f \in Frame :
    /\ f.at \in {"progress", "result", "retry", "cancel", "tellAgent", "send", "unsend"}
         => f.job \in Jobs
    /\ f.at \in {"recompute", "rewrite", "cancelRollout", "closeRollout", "resume"}
         => f.rollout \in Rollouts
    /\ f.at \in {"recompute", "rewrite"}
         => /\ f.back \in {"idle", "requeue", "dispatch", "tellAgent"}
            /\ f.back = "tellAgent" => f.job \in Jobs
    /\ f.at = "reconcile" /\ ~f.ok => f.job \in Jobs}

GoodToHub == {m \in ToHub : m.kind # "hello" => m.job \in Jobs}
GoodSlot == {a \in Slot : a.phase # "idle" => a.job \in Jobs}

StoreOK ==
  /\ job \in [Jobs -> JobRow]
  /\ rollout \in [Rollouts -> RolloutRow]
  /\ frame \in [Threads -> GoodFrame]
  /\ revived \subseteq Jobs

LinkOK ==
  /\ sock \in [Sockets -> {"new", "open", "closed"}]
  /\ registry \in [Devices -> Sockets \cup {None}]
  /\ session \in [Devices -> Sockets \cup {None}]
  /\ greeted \in [Devices -> BOOLEAN]
  /\ inbox \in [Sockets -> Seq(GoodToHub)]
  /\ outbox \in [Sockets -> Seq(ToBox)]
  /\ agent \in [Devices -> GoodSlot]
  /\ started \subseteq Jobs
  /\ installed \subseteq Jobs

WellTyped ==
  /\ StoreOK
  /\ LinkOK
  /\ PassTypeOK
  /\ RequestTypeOK
  /\ crashes \in Nat

\* WellTyped is stronger than TypeOK.
LEMMA WellTypedIsTypeOK == WellTyped => TypeOK
<1> SUFFICES ASSUME WellTyped PROVE TypeOK
  OBVIOUS
<1>1. StoreTypeOK
  BY DEF WellTyped, StoreOK, StoreTypeOK, GoodFrame
<1>2. inbox \in [Sockets -> Seq(ToHub)]
  <2>1. ASSUME NEW s \in Sockets PROVE inbox[s] \in Seq(ToHub)
    <3>1. inbox[s] \in Seq(GoodToHub) /\ GoodToHub \subseteq ToHub
      BY DEF WellTyped, LinkOK, GoodToHub
    <3> QED BY <3>1, SeqMonotonic
  <2> QED BY <2>1 DEF WellTyped, LinkOK
<1>3. LinkTypeOK
  BY <1>2 DEF WellTyped, LinkOK, LinkTypeOK, GoodSlot
<1> QED BY <1>1, <1>3 DEF WellTyped, TypeOK

-----------------------------------------------------------------------------
(* What handlers put into frames.                                          *)

LEMMA IdleFrame == Idle \in GoodFrame /\ Idle.at = "idle"
  BY DEF Idle, GoodFrame, Frame, Labels, RolloutStates

LEMMA AtFrame ==
  ASSUME NEW l \in {"idle", "setup", "promote", "requeue", "candidates", "dispatch"}
  PROVE  At(l) \in GoodFrame
  BY DEF At, Idle, GoodFrame, Frame, Labels, RolloutStates

LEMMA AtJobFrame ==
  ASSUME NEW l \in Labels \ {"reconcile", "recompute", "rewrite", "cancelRollout",
                             "closeRollout", "resume"},
         NEW j \in Jobs
  PROVE  AtJob(l, j) \in GoodFrame
  BY DEF AtJob, Idle, GoodFrame, Frame, Labels, RolloutStates

LEMMA RecomputingFrame ==
  ASSUME NEW r \in Rollouts, NEW j \in Jobs \cup {None},
         NEW back \in {"idle", "requeue", "dispatch", "tellAgent"},
         back = "tellAgent" => j \in Jobs
  PROVE  Recomputing(r, back, j) \in GoodFrame
  BY DEF Recomputing, Idle, GoodFrame, Frame, Labels, RolloutStates

LEMMA ReturnedFrame ==
  ASSUME NEW f \in GoodFrame, f.at \in {"recompute", "rewrite"}
  PROVE  Returned(f) \in GoodFrame
  BY ZenonT(40) DEF Returned, AtJob, Idle, GoodFrame, Frame, Labels, RolloutStates

LEMMA ReadFrames ==
  ASSUME StoreOK, NEW j \in Jobs, NEW ok \in BOOLEAN
  PROVE  /\ ProgressRead(j) \in GoodFrame
         /\ ResultRead(j, ok) \in GoodFrame
         /\ RetryRead(j) \in GoodFrame
         /\ CancelRead(j) \in GoodFrame
<1>1. job[j].attempt \in Nat
  BY DEF StoreOK, JobRow
<1>2. [AtJob("result", j) EXCEPT !.ok = ok, !.attempt = job[j].attempt] \in GoodFrame
  BY <1>1 DEF AtJob, Idle, GoodFrame, Frame, Labels, RolloutStates
<1>3. \A l \in {"progress", "retry", "cancel", "tellAgent"} : AtJob(l, j) \in GoodFrame
  BY AtJobFrame DEF Labels
<1> QED BY <1>2, <1>3, IdleFrame DEF ProgressRead, ResultRead, RetryRead, CancelRead

-----------------------------------------------------------------------------
(* The steps of a handler, and of time, keep the rows and frames in type.  *)

LEMMA FailureRow ==
  ASSUME NEW row \in JobRow, NEW n \in Nat
  PROVE  AfterFailure(row, n) \in JobRow
  BY JobStoreAssumption
  DEF AfterFailure, JobRow, JobStates, TerminalStates, JobStoreAssumption

LEMMA StoreStepKeepsTypes ==
  ASSUME StoreOK, NEW t \in Threads, StoreStep(t)
  PROVE  StoreOK'
<1> DEFINE f == frame[t]
<1>f. f \in GoodFrame
  BY DEF StoreOK
<1>r. \A j \in Jobs : RolloutOf[j] \in Rollouts
  BY JobStoreAssumption DEF JobStoreAssumption
<1>n. None \in Jobs \cup {None}
  OBVIOUS
<1>1. CASE ProgressWrite(t)
  <2>1. f.job \in Jobs
    BY <1>1, <1>f DEF ProgressWrite, GoodFrame
  <2>2. job' \in [Jobs -> JobRow]
    BY <1>1, <2>1 DEF StoreOK, ProgressWrite, JobRow, JobStates, ActiveStates
  <2> QED BY <1>1, <2>1, <2>2, IdleFrame DEF StoreOK, ProgressWrite
<1>2. CASE ResultWrite(t)
  <2>1. f.job \in Jobs /\ f.attempt \in Nat
    BY <1>2, <1>f DEF ResultWrite, GoodFrame, Frame
  <2>2. AfterFailure(job[f.job], f.attempt) \in JobRow
    BY <2>1, FailureRow DEF StoreOK
  <2>3. [job[f.job] EXCEPT !.state = "SUCCESS"] \in JobRow
    BY <2>1 DEF StoreOK, JobRow, JobStates, TerminalStates
  <2>4. job' \in [Jobs -> JobRow]
    BY <1>2, <2>1, <2>2, <2>3 DEF StoreOK, ResultWrite
  <2>5. Recomputing(RolloutOf[f.job], "idle", None) \in GoodFrame
    BY <2>1, <1>r, <1>n, RecomputingFrame
  <2> QED BY <1>2, <2>4, <2>5 DEF StoreOK, ResultWrite
<1>3. CASE RetryWrite(t)
  <2>1. f.job \in Jobs
    BY <1>3, <1>f DEF RetryWrite, GoodFrame
  <2>2. job' \in [Jobs -> JobRow]
    BY <1>3, <2>1, SMTT(30) DEF StoreOK, RetryWrite, JobRow, JobStates
  <2>3. Recomputing(RolloutOf[f.job], "idle", None) \in GoodFrame
    BY <2>1, <1>r, <1>n, RecomputingFrame
  <2> QED BY <1>3, <2>2, <2>3 DEF StoreOK, RetryWrite
<1>4. CASE CancelWrite(t)
  <2>1. f.job \in Jobs
    BY <1>4, <1>f DEF CancelWrite, GoodFrame
  <2>2. job' \in [Jobs -> JobRow]
    BY <1>4, <2>1 DEF StoreOK, CancelWrite, JobRow, JobStates, TerminalStates
  <2>3. Recomputing(RolloutOf[f.job], "tellAgent", f.job) \in GoodFrame
    BY <2>1, <1>r, RecomputingFrame
  <2> QED BY <1>4, <2>2, <2>3 DEF StoreOK, CancelWrite
<1>5. CASE Recompute(t)
  <2>1. f.at = "recompute" /\ f.rollout \in Rollouts
    BY <1>5, <1>f DEF Recompute, GoodFrame
  <2>2. Returned(f) \in GoodFrame
    BY <2>1, <1>f, ReturnedFrame
  <2>3. Verdict(f.rollout) \in RolloutStates
    BY <2>1 DEF Verdict, CanaryVerdict, StoreOK, RolloutRow, RolloutStates
  <2>4. CanaryPasses(f.rollout) \in BOOLEAN
    BY DEF CanaryPasses
  <2>5. [f EXCEPT !.at = "rewrite", !.status = Verdict(f.rollout),
                  !.passes = CanaryPasses(f.rollout)] \in GoodFrame
    BY <1>f, <2>1, <2>3, <2>4 DEF GoodFrame, Frame, Labels
  <2>6. frame' \in [Threads -> GoodFrame]
    BY <1>5, <2>2, <2>5 DEF StoreOK, Recompute
  <2> QED BY <1>5, <2>6 DEF StoreOK, Recompute
<1>6. CASE RolloutWrite(t)
  <2>1. f.at = "rewrite" /\ f.rollout \in Rollouts /\ f.status \in RolloutStates
    BY <1>6, <1>f DEF RolloutWrite, GoodFrame, Frame
  <2>2. Returned(f) \in GoodFrame
    BY <2>1, <1>f, ReturnedFrame
  <2>3. rollout' \in [Rollouts -> RolloutRow]
    BY <1>6, <2>1 DEF StoreOK, RolloutWrite, RolloutRow
  <2> QED BY <1>6, <2>2, <2>3 DEF StoreOK, RolloutWrite
<1> QED BY <1>1, <1>2, <1>3, <1>4, <1>5, <1>6 DEF StoreStep

LEMMA TimeKeepsTypes ==
  ASSUME StoreOK
  PROVE  /\ \A j \in Jobs : BackoffElapses(j) => StoreOK'
         /\ \A j \in Jobs : HeartbeatAges(j) => StoreOK'
         /\ \A d \in Devices : Heartbeat(d) => StoreOK'
         /\ \A r \in Rollouts : SoakElapses(r) => StoreOK'
<1>1. ASSUME NEW j \in Jobs, BackoffElapses(j) PROVE StoreOK'
  BY <1>1 DEF StoreOK, BackoffElapses, JobRow
<1>2. ASSUME NEW j \in Jobs, HeartbeatAges(j) PROVE StoreOK'
  BY <1>2 DEF StoreOK, HeartbeatAges, JobRow
<1>3. ASSUME NEW d \in Devices, Heartbeat(d) PROVE StoreOK'
  BY <1>3 DEF StoreOK, Heartbeat, JobRow
<1>4. ASSUME NEW r \in Rollouts, SoakElapses(r) PROVE StoreOK'
  BY <1>4 DEF StoreOK, SoakElapses, RolloutRow
<1> QED BY <1>1, <1>2, <1>3, <1>4

-----------------------------------------------------------------------------
(* The link.                                                               *)

LEMMA SentType ==
  ASSUME LinkOK, NEW s \in Sockets, NEW msg \in ToBox
  PROVE  Sent(s, msg) \in [Sockets -> Seq(ToBox)]
<1>1. Append(outbox[s], msg) \in Seq(ToBox)
  BY DEF LinkOK
<1> QED BY <1>1 DEF LinkOK, Sent

LEMMA SentToType ==
  ASSUME LinkOK, NEW d \in Devices, IsOnline(d), NEW msg \in ToBox
  PROVE  SentTo(d, msg) \in [Sockets -> Seq(ToBox)]
<1>1. registry[d] \in Sockets
  BY DEF LinkOK, IsOnline
<1> QED BY <1>1, SentType DEF SentTo

LEMMA SentToHubType ==
  ASSUME LinkOK, NEW d \in Devices, NEW msg \in GoodToHub
  PROVE  SentToHub(d, msg) \in [Sockets -> Seq(GoodToHub)]
<1>1. CASE session[d] = None
  BY <1>1 DEF LinkOK, SentToHub
<1>2. CASE session[d] # None
  <2>1. session[d] \in Sockets
    BY <1>2 DEF LinkOK
  <2>2. Append(inbox[session[d]], msg) \in Seq(GoodToHub)
    BY <2>1 DEF LinkOK
  <2> QED BY <1>2, <2>1, <2>2 DEF LinkOK, SentToHub
<1> QED BY <1>1, <1>2

LEMMA ReconcileType ==
  ASSUME StoreOK, LinkOK, NEW s \in Sockets, NEW f \in GoodFrame,
         f.at = "reconcile", ReconcileOn(s, f)
  PROVE  /\ frame' \in [Threads -> GoodFrame]
         /\ outbox' \in [Sockets -> Seq(ToBox)]
<1>1. CASE f.todo # {}
  BY <1>1 DEF ReconcileOn, StoreOK, LinkOK
<1>2. CASE f.todo = {} /\ f.ok
  BY <1>2, IdleFrame DEF ReconcileOn, StoreOK, LinkOK
<1>3. CASE f.todo = {} /\ ~f.ok
  <2>1. f.job \in Jobs
    BY <1>3 DEF GoodFrame
  <2>2. [kind |-> "cancel", job |-> f.job] \in ToBox
    BY <2>1 DEF ToBox
  <2>3. outbox' \in [Sockets -> Seq(ToBox)]
    BY <1>3, <2>2, SentType DEF ReconcileOn
  <2> QED BY <1>3, <2>3, IdleFrame DEF ReconcileOn, StoreOK
<1> QED BY <1>1, <1>2, <1>3

LEMMA SessionEndsType ==
  ASSUME LinkOK, NEW d \in Devices, SessionEnds(d)
  PROVE  /\ session' \in [Devices -> Sockets \cup {None}]
         /\ greeted' \in [Devices -> BOOLEAN]
         /\ inbox' \in [Sockets -> Seq(GoodToHub)]
         /\ outbox' \in [Sockets -> Seq(ToBox)]
<1> DEFINE s == session[d]
<1>1. s \in Sockets
  BY DEF SessionEnds, LinkOK
<1>2. PICK n \in 0..Len(inbox[s]) : inbox' = [inbox EXCEPT ![s] = SubSeq(@, 1, n)]
  BY DEF SessionEnds
<1>3. inbox[s] \in Seq(GoodToHub)
  BY <1>1 DEF LinkOK
<1>4. \A i \in 1..n : inbox[s][i] \in GoodToHub
  BY <1>3, ElementOfSeq
<1>5. SubSeq(inbox[s], 1, n) \in Seq(GoodToHub)
  BY <1>3, <1>4, SubSeqProperties
<1>6. <<>> \in Seq(ToBox)
  BY EmptySeq
<1> QED BY <1>1, <1>2, <1>5, <1>6 DEF SessionEnds, LinkOK

LEMMA SocketStepKeepsTypes ==
  ASSUME StoreOK, LinkOK, NEW s \in Sockets, SocketStep(s)
  PROVE  StoreOK' /\ LinkOK'
<1>s. s \in Threads
  BY DEF Threads
<1>f. frame[s] \in GoodFrame
  BY <1>s DEF StoreOK
<1>1. CASE SetupDone(s)
  BY <1>1, IdleFrame DEF SetupDone, StoreOK, LinkOK, linkVars
<1>2. CASE SocketCloses(s)
  BY <1>2, DeviceLinkAssumption
  DEF SocketCloses, StoreOK, LinkOK, storeVars, DeviceLinkAssumption
<1>3. CASE Receive(s)
  <2> DEFINE msg == Head(inbox[s])
  <2>1. msg \in GoodToHub /\ Tail(inbox[s]) \in Seq(GoodToHub)
    BY <1>3, HeadTailProperties DEF Receive, LinkOK
  <2>2. inbox' \in [Sockets -> Seq(GoodToHub)]
    BY <1>3, <2>1 DEF Receive, LinkOK
  <2>3. CASE msg.kind = "hello" /\ ReconcileOn(s, ReconcileRead(s, msg.job))
    <3>1. msg.job \in Jobs \cup {None}
      BY <2>1 DEF GoodToHub, ToHub
    <3>2. ReconcileRead(s, msg.job) \in GoodFrame
      <4> DEFINE active == {j \in Active : DeviceOf[j] = OwnerOf[s]}
                 ours == msg.job \in active \cup {None}
      <4>1. active \ {msg.job} \in SUBSET Jobs /\ ours \in BOOLEAN
        BY DEF Active
      <4>2. ~ours => msg.job \in Jobs
        BY <3>1
      <4>3. ASSUME NEW T \in SUBSET Jobs, NEW b \in BOOLEAN, ~b => msg.job \in Jobs
            PROVE  [AtJob("reconcile", msg.job) EXCEPT !.todo = T, !.ok = b] \in GoodFrame
        BY <3>1, <4>3 DEF AtJob, Idle, GoodFrame, Frame, Labels, RolloutStates
      <4> HIDE DEF active, ours
      <4>4. [AtJob("reconcile", msg.job) EXCEPT !.todo = active \ {msg.job}, !.ok = ours]
              \in GoodFrame
        BY <4>1, <4>2, <4>3
      <4> QED BY <4>4 DEF ReconcileRead, active, ours
    <3>3. ReconcileRead(s, msg.job).at = "reconcile"
      BY DEF ReconcileRead, AtJob, Idle
    <3> QED BY <1>3, <2>2, <2>3, <3>2, <3>3, ReconcileType DEF Receive, StoreOK, LinkOK
  <2>4. CASE msg.kind = "progress" /\ frame' = [frame EXCEPT ![s] = ProgressRead(msg.job)]
    <3>1. msg.job \in Jobs
      BY <2>1, <2>4 DEF GoodToHub
    <3> QED BY <1>3, <2>2, <2>4, <3>1, ReadFrames DEF Receive, StoreOK, LinkOK
  <2>5. CASE msg.kind = "result" /\ frame' = [frame EXCEPT ![s] = ResultRead(msg.job, msg.ok)]
    <3>1. msg.job \in Jobs /\ msg.ok \in BOOLEAN
      BY <2>1, <2>5 DEF GoodToHub, ToHub
    <3> QED BY <1>3, <2>2, <2>5, <3>1, ReadFrames DEF Receive, StoreOK, LinkOK
  <2> QED BY <1>3, <2>3, <2>4, <2>5 DEF Receive
<1>4. CASE ReconcileWrite(s)
  <2>1. PICK j \in frame[s].todo :
          /\ job' = [job EXCEPT ![j].state = "QUEUED", ![j].held = FALSE, ![j].stale = FALSE]
          /\ ReconcileOn(s, [frame[s] EXCEPT !.todo = @ \ {j}])
    BY <1>4 DEF ReconcileWrite
  <2>2. j \in Jobs /\ [frame[s] EXCEPT !.todo = @ \ {j}] \in GoodFrame
    BY <1>f DEF GoodFrame, Frame
  <2>3. [frame[s] EXCEPT !.todo = @ \ {j}].at = "reconcile"
    BY <1>4, <1>f DEF ReconcileWrite, GoodFrame, Frame
  <2>4. job' \in [Jobs -> JobRow]
    BY <2>1, <2>2 DEF StoreOK, JobRow, JobStates
  <2> QED BY <1>4, <2>1, <2>2, <2>3, <2>4, ReconcileType DEF ReconcileWrite, StoreOK, LinkOK
<1> QED BY <1>1, <1>2, <1>3, <1>4 DEF SocketStep

LEMMA BoxKeepsTypes ==
  ASSUME StoreOK, LinkOK, NEW d \in Devices,
         BoxStep(d) \/ BoxFault(d) \/ Progress(d) \/ Connect(d)
  PROVE  StoreOK' /\ LinkOK'
<1>f. FreeSlot \in GoodSlot
  BY DEF FreeSlot, GoodSlot, Slot
<1>a. agent[d] \in GoodSlot
  BY DEF LinkOK
<1>1. CASE Hello(d)
  <2>1. [kind |-> "hello", job |-> agent[d].job, ok |-> FALSE] \in GoodToHub
    BY <1>a DEF GoodSlot, Slot, GoodToHub, ToHub
  <2> QED BY <1>1, <2>1, SentToHubType DEF Hello, StoreOK, LinkOK, storeVars
<1>2. CASE Handle(d)
  <2> DEFINE msg == Head(outbox[session[d]])
  <2>1. session[d] \in Sockets
    BY <1>2 DEF Handle, LinkOK
  <2>2. msg \in ToBox /\ Tail(outbox[session[d]]) \in Seq(ToBox)
    BY <1>2, <2>1, HeadTailProperties DEF Handle, LinkOK
  <2>3. outbox' \in [Sockets -> Seq(ToBox)]
    BY <1>2, <2>1, <2>2 DEF Handle, LinkOK
  <2>4. msg.job \in Jobs
    BY <2>2 DEF ToBox
  <2>5. ASSUME StartJob(d, msg.job)
        PROVE  /\ agent' \in [Devices -> GoodSlot]
               /\ started' \subseteq Jobs
               /\ inbox' \in [Sockets -> Seq(GoodToHub)]
    <3>1. [job |-> msg.job, phase |-> "working", reports |-> 0] \in GoodSlot
      BY <2>4 DEF GoodSlot, Slot
    <3>2. [kind |-> "result", job |-> msg.job, ok |-> FALSE] \in GoodToHub
      BY <2>4 DEF GoodToHub, ToHub
    <3> QED BY <2>4, <2>5, <3>1, <3>2, SentToHubType DEF StartJob, LinkOK
  <2>6. ASSUME StopJob(d, msg.job)
        PROVE  agent' \in [Devices -> GoodSlot]
    BY <2>6, <1>a DEF StopJob, LinkOK, GoodSlot, Slot
  <2> QED BY <1>2, <2>3, <2>5, <2>6 DEF Handle, StopJob, StoreOK, LinkOK, storeVars
<1>3. ASSUME NEW ok \in BOOLEAN, Finish(d, ok) PROVE StoreOK' /\ LinkOK'
  <2>1. agent[d].job \in Jobs
    BY <1>3, <1>a DEF Finish, GoodSlot
  <2>2. [kind |-> "result", job |-> agent[d].job, ok |-> ok] \in GoodToHub
    BY <2>1 DEF GoodToHub, ToHub
  <2>3. agent' \in [Devices -> GoodSlot]
    BY <1>3, <1>a, <2>1 DEF Finish, LinkOK, GoodSlot, Slot
  <2> QED BY <1>3, <2>1, <2>2, <2>3, SentToHubType DEF Finish, StoreOK, LinkOK, storeVars
<1>4. CASE FreesSlot(d)
  BY <1>4, <1>f DEF FreesSlot, StoreOK, LinkOK, storeVars
<1>5. CASE SessionDrops(d)
  BY <1>5, SessionEndsType DEF SessionDrops, StoreOK, LinkOK, storeVars
<1>6. CASE BoxRestarts(d)
  BY <1>6, <1>f, SessionEndsType DEF BoxRestarts, StoreOK, LinkOK, storeVars
<1>7. CASE Progress(d)
  <2>1. agent[d].job \in Jobs
    BY <1>7, <1>a DEF Progress, GoodSlot
  <2>2. [kind |-> "progress", job |-> agent[d].job, ok |-> FALSE] \in GoodToHub
    BY <2>1 DEF GoodToHub, ToHub
  <2>3. agent' \in [Devices -> GoodSlot]
    <3>1. agent[d].reports + 1 \in Nat
      BY <1>a DEF GoodSlot, Slot
    <3>2. \A n \in Nat : [agent[d] EXCEPT !.reports = n] \in GoodSlot
      BY <1>a DEF GoodSlot, Slot
    <3> QED BY <1>7, <3>1, <3>2 DEF Progress, LinkOK
  <2> QED BY <1>7, <2>2, <2>3, SentToHubType DEF Progress, StoreOK, LinkOK, storeVars
<1>8. CASE Connect(d)
  <2> DEFINE s == CHOOSE s \in Unused(d) : TRUE
  <2>1. s \in Sockets
    BY <1>8 DEF Connect, Unused
  <2>2. s \in Threads /\ At("setup") \in GoodFrame
    BY <2>1, AtFrame DEF Threads
  <2> QED BY <1>8, <2>1, <2>2 DEF Connect, StoreOK, LinkOK
<1> QED BY <1>1, <1>2, <1>3, <1>4, <1>5, <1>6, <1>7, <1>8 DEF BoxStep, BoxFault

-----------------------------------------------------------------------------
(* The tick.                                                               *)

LEMMA ActiveIsFinite == IsFiniteSet(Active) /\ Cardinality(Active) \in Nat
<1>1. IsFiniteSet(Jobs) /\ Active \subseteq Jobs
  BY JobStoreAssumption DEF JobStoreAssumption, Active
<1> QED BY <1>1, FS_Subset, FS_CardinalityType

LEMMA PassParts ==
  ASSUME StoreOK, PassTypeOK
  PROVE  /\ NoPass \in Pass
         /\ \A rows \in SUBSET Jobs : Reading(rows) \in Pass
         /\ \A j \in Jobs : Visited(j) \in Pass
<1>1. NoPass \in Pass
  BY DEF NoPass, Pass
<1>2. ASSUME NEW rows \in SUBSET Jobs PROVE Reading(rows) \in Pass
  BY DEF Reading, Pass, PassTypeOK, StoreOK, JobRow
<1>3. ASSUME NEW j \in Jobs PROVE Visited(j) \in Pass
  BY DEF Visited, Pass, PassTypeOK
<1> QED BY <1>1, <1>2, <1>3

LEMMA TickStepKeepsTypes ==
  ASSUME StoreOK, LinkOK, PassTypeOK, TickStep
  PROVE  StoreOK' /\ LinkOK' /\ PassTypeOK'
<1>t. Tick \in Threads /\ frame[Tick] \in GoodFrame
  BY DEF Threads, StoreOK
<1>g. \A l \in {"idle", "promote", "requeue", "candidates", "dispatch"} :
        TickGoes(l) => frame' \in [Threads -> GoodFrame]
  BY <1>t, AtFrame DEF TickGoes, StoreOK
<1>r. \A j \in Jobs : RolloutOf[j] \in Rollouts /\ DeviceOf[j] \in Devices
  BY JobStoreAssumption DEF JobStoreAssumption
<1>1. CASE TickStarts
  BY <1>1, <1>g DEF TickStarts, StoreOK, LinkOK, PassTypeOK, Pass, Ripe, linkVars
<1>2. CASE Promote
  <2>1. PICK r \in pass.soaked :
          /\ rollout' = [rollout EXCEPT ![r].status = "RUNNING"]
          /\ pass' = [pass EXCEPT !.soaked = @ \ {r}]
    BY <1>2 DEF Promote
  <2>2. rollout' \in [Rollouts -> RolloutRow]
    BY <2>1 DEF StoreOK, RolloutRow, RolloutStates
  <2>3. pass' \in Pass
    BY <2>1 DEF PassTypeOK, Pass
  <2> QED BY <1>2, <2>2, <2>3 DEF Promote, StoreOK, LinkOK, PassTypeOK, linkVars
<1>3. CASE StalledRead
  <2>1. Stalled \in SUBSET Jobs
    BY DEF Stalled, Active
  <2> QED BY <1>3, <1>g, <2>1, PassParts DEF StalledRead, StoreOK, LinkOK, PassTypeOK, linkVars
<1>4. CASE Requeue
  <2>1. PICK j \in pass.todo :
          /\ job' = [job EXCEPT ![j] = AfterFailure(@, pass.seen[j])]
          /\ pass' = Visited(j)
          /\ frame' = [frame EXCEPT ![Tick] = Recomputing(RolloutOf[j], "requeue", None)]
    BY <1>4 DEF Requeue
  <2>2. j \in Jobs /\ pass.seen[j] \in Nat
    BY DEF PassTypeOK, Pass
  <2>3. AfterFailure(job[j], pass.seen[j]) \in JobRow
    BY <2>2, FailureRow DEF StoreOK
  <2>4. Recomputing(RolloutOf[j], "requeue", None) \in GoodFrame
    BY <2>2, <1>r, RecomputingFrame
  <2> QED BY <1>4, <1>t, <2>1, <2>2, <2>3, <2>4, PassParts
          DEF Requeue, StoreOK, LinkOK, PassTypeOK, linkVars
<1>5. CASE CountActive
  <2>1. MaxConcurrentJobs - Cardinality(Active) \in Int
    BY ActiveIsFinite, SchedulerAssumption DEF SchedulerAssumption
  <2>2. \A n \in Int : [pass EXCEPT !.room = n] \in Pass
    BY DEF PassTypeOK, Pass
  <2>3. pass' \in Pass
    BY <1>5, <2>1, <2>2, PassParts DEF CountActive
  <2> QED BY <1>5, <1>g, <2>3 DEF CountActive, StoreOK, LinkOK, PassTypeOK, linkVars
<1>6. CASE CandidatesRead
  <2>1. Cardinality({j \in Active : AtSite(j)}) \in Nat
    BY ActiveIsFinite, FS_Subset, FS_CardinalityType
  <2>2. Candidates \in SUBSET Jobs
    BY DEF Candidates
  <2>3. \A p \in Pass, n \in Nat : [p EXCEPT !.site = n] \in Pass
    BY DEF Pass
  <2>4. pass' \in Pass
    BY <1>6, <2>1, <2>2, <2>3, PassParts DEF CandidatesRead
  <2> QED BY <1>6, <1>g, <2>4 DEF CandidatesRead, StoreOK, LinkOK, PassTypeOK, linkVars
<1>7. CASE Skip
  BY <1>7, PassParts DEF Skip, StoreOK, LinkOK, PassTypeOK, storeVars, linkVars
<1>8. CASE Mark
  <2>1. PICK j \in Jobs :
          /\ job' = [job EXCEPT ![j].state = "DISPATCHED",
                                ![j].attempt = pass.seen[j] + 1, ![j].stale = FALSE]
          /\ frame' = [frame EXCEPT ![Tick] = [AtJob("send", j) EXCEPT !.attempt = pass.seen[j]]]
          /\ pass' = Visited(j)
          /\ revived' = revived \ {j}
    BY <1>8 DEF Mark
  <2>2. pass.seen[j] \in Nat /\ pass.seen[j] + 1 \in Nat
    BY DEF PassTypeOK, Pass
  <2>3. job' \in [Jobs -> JobRow]
    <3>1. \A n \in Nat : [job[j] EXCEPT !.state = "DISPATCHED", !.attempt = n,
                                        !.stale = FALSE] \in JobRow
      BY DEF StoreOK, JobRow, JobStates, ActiveStates
    <3> QED BY <2>1, <2>2, <3>1 DEF StoreOK
  <2>4. [AtJob("send", j) EXCEPT !.attempt = pass.seen[j]] \in GoodFrame
    BY <2>2 DEF AtJob, Idle, GoodFrame, Frame, Labels, RolloutStates
  <2> QED BY <1>8, <1>t, <2>1, <2>3, <2>4, PassParts
          DEF Mark, StoreOK, LinkOK, PassTypeOK, linkVars
<1>9. CASE Send
  <2> DEFINE j == frame[Tick].job
  <2>1. j \in Jobs
    BY <1>9, <1>t DEF Send, GoodFrame
  <2>2. [kind |-> "install", job |-> j] \in ToBox
    BY <2>1 DEF ToBox
  <2>3. outbox' \in [Sockets -> Seq(ToBox)]
    BY <1>9, <1>r, <2>1, <2>2, SentToType DEF Send
  <2>4. Recomputing(RolloutOf[j], "dispatch", None) \in GoodFrame
    BY <2>1, <1>r, RecomputingFrame
  <2>5. pass' \in Pass
    <3>1. /\ pass.room - 1 \in Int
          /\ (IF AtSite(j) THEN pass.site + 1 ELSE pass.site) \in Nat
          /\ pass.used[RolloutOf[j]] + 1 \in Nat
      BY <1>r, <2>1 DEF PassTypeOK, Pass
    <3>2. \A i \in Int, n \in Nat, m \in Nat :
            [pass EXCEPT !.room = i, !.site = n, !.used[RolloutOf[j]] = m] \in Pass
      BY <1>r, <2>1 DEF PassTypeOK, Pass
    <3> QED BY <1>9, <3>1, <3>2 DEF Send
  <2> QED BY <1>9, <1>t, <2>3, <2>4, <2>5 DEF Send, StoreOK, LinkOK, PassTypeOK
<1>10. CASE SendFails
  <2>1. [frame[Tick] EXCEPT !.at = "unsend"] \in GoodFrame
    BY <1>10, <1>t DEF SendFails, tickAt, GoodFrame, Frame, Labels
  <2> QED BY <1>10, <1>t, <2>1 DEF SendFails, StoreOK, LinkOK, PassTypeOK, linkVars
<1>11. CASE PutBack
  <2> DEFINE f == frame[Tick]
  <2>1. f.job \in Jobs /\ f.attempt \in Nat
    BY <1>11, <1>t DEF PutBack, GoodFrame, Frame
  <2>2. job' \in [Jobs -> JobRow]
    BY <1>11, <2>1 DEF PutBack, StoreOK, JobRow, JobStates
  <2> QED BY <1>11, <1>g, <2>2 DEF PutBack, StoreOK, LinkOK, PassTypeOK, linkVars
<1>12. CASE TickEnds
  BY <1>12, <1>g, PassParts DEF TickEnds, StoreOK, LinkOK, PassTypeOK, linkVars
<1> QED BY <1>1, <1>2, <1>3, <1>4, <1>5, <1>6, <1>7, <1>8, <1>9, <1>10, <1>11, <1>12
        DEF TickStep

-----------------------------------------------------------------------------
(* Requests and crashes.                                                   *)

LEMMA CreateKeepsTypes ==
  ASSUME StoreOK, NEW q \in Requests, NEW r \in Rollouts, CreateRollout(q, r)
  PROVE  StoreOK'
<1>1. PICK skipped \in SUBSET JobsOf(r) :
        \E canaries \in SUBSET (JobsOf(r) \ skipped) :
          /\ rollout' = [rollout EXCEPT ![r].status =
                           IF canaries # {} THEN "CANARY" ELSE "RUNNING"]
          /\ job' = [j \in Jobs |->
               IF j \notin JobsOf(r) THEN job[j]
               ELSE [NoJob EXCEPT
                       !.state = IF j \in skipped THEN "SKIPPED" ELSE "QUEUED",
                       !.canary = j \in canaries]]
  BY DEF CreateRollout
<1>2. PICK canaries \in SUBSET (JobsOf(r) \ skipped) :
        /\ rollout' = [rollout EXCEPT ![r].status =
                         IF canaries # {} THEN "CANARY" ELSE "RUNNING"]
        /\ job' = [j \in Jobs |->
             IF j \notin JobsOf(r) THEN job[j]
             ELSE [NoJob EXCEPT
                     !.state = IF j \in skipped THEN "SKIPPED" ELSE "QUEUED",
                     !.canary = j \in canaries]]
  BY <1>1
<1>3. rollout' \in [Rollouts -> RolloutRow]
  BY <1>2 DEF StoreOK, RolloutRow, RolloutStates
<1>4. ASSUME NEW st \in {"SKIPPED", "QUEUED"}, NEW b \in BOOLEAN
      PROVE  [NoJob EXCEPT !.state = st, !.canary = b] \in JobRow
  BY DEF NoJob, JobRow, JobStates, TerminalStates
<1>5. \A j \in Jobs : job'[j] \in JobRow
  <2> SUFFICES ASSUME NEW j \in Jobs, j \in JobsOf(r) PROVE job'[j] \in JobRow
    BY <1>2 DEF StoreOK
  <2>1. job'[j] = [NoJob EXCEPT !.state = IF j \in skipped THEN "SKIPPED" ELSE "QUEUED",
                                !.canary = j \in canaries]
    BY <1>2
  <2>2. (j \in canaries) \in BOOLEAN
    OBVIOUS
  <2> QED BY <1>4, <2>1, <2>2
<1>6. job' \in [Jobs -> JobRow]
  BY <1>2, <1>5
<1>7. Recomputing(r, "idle", None) \in GoodFrame /\ q \in Threads
  BY RecomputingFrame DEF Threads
<1>8. frame' \in [Threads -> GoodFrame]
  BY <1>7 DEF CreateRollout, StoreOK
<1> QED BY <1>3, <1>6, <1>8 DEF CreateRollout, StoreOK

LEMMA AskKeepsTypes ==
  ASSUME StoreOK, RequestTypeOK, NEW q \in Requests, Ask(q)
  PROVE  StoreOK' /\ RequestTypeOK'
<1>q. q \in Threads
  BY DEF Threads
<1>a. \A request : Asks(q, request) => asked' \in Nat
  BY DEF Asks, RequestTypeOK
<1>1. ASSUME NEW j \in Jobs, AskRetryJob(q, j) PROVE StoreOK' /\ RequestTypeOK'
  BY <1>1, <1>q, <1>a, ReadFrames DEF AskRetryJob, StoreOK, RequestTypeOK
<1>2. ASSUME NEW j \in Jobs, AskCancelJob(q, j) PROVE StoreOK' /\ RequestTypeOK'
  BY <1>2, <1>q, <1>a, ReadFrames DEF AskCancelJob, StoreOK, RequestTypeOK
<1>3. ASSUME NEW r \in Rollouts, AskCancelRollout(q, r) PROVE StoreOK' /\ RequestTypeOK'
  <2>1. \A T \in SUBSET Jobs :
          [At("cancelRollout") EXCEPT !.rollout = r, !.todo = T] \in GoodFrame
    BY DEF At, Idle, GoodFrame, Frame, Labels, RolloutStates
  <2>2. {j \in JobsOf(r) : ~IsTerminal(j)} \in SUBSET Jobs
    BY DEF JobsOf
  <2>3. frame' \in [Threads -> GoodFrame]
    BY <1>3, <1>q, <2>1, <2>2 DEF AskCancelRollout, StoreOK
  <2> QED BY <1>3, <1>a, <2>3 DEF AskCancelRollout, StoreOK, RequestTypeOK
<1>4. ASSUME NEW r \in Rollouts, AskResume(q, r) PROVE StoreOK' /\ RequestTypeOK'
  <2>1. \A b \in BOOLEAN : [At("resume") EXCEPT !.rollout = r, !.passes = b] \in GoodFrame
    BY DEF At, Idle, GoodFrame, Frame, Labels, RolloutStates
  <2>2. (rollout[r].passed = "never") \in BOOLEAN
    OBVIOUS
  <2>3. frame' \in [Threads -> GoodFrame]
    BY <1>4, <1>q, <2>1, <2>2 DEF AskResume, StoreOK
  <2> QED BY <1>4, <1>a, <2>3 DEF AskResume, StoreOK, RequestTypeOK
<1> QED BY <1>1, <1>2, <1>3, <1>4 DEF Ask

LEMMA RequestStepKeepsTypes ==
  ASSUME StoreOK, LinkOK, RequestTypeOK, NEW q \in Requests, RequestStep(q)
  PROVE  StoreOK' /\ LinkOK' /\ RequestTypeOK'
<1> DEFINE f == frame[q]
<1>q. q \in Threads /\ f \in GoodFrame
  BY DEF Threads, StoreOK
<1>1. CASE TellAgent(q)
  <2>1. f.job \in Jobs
    BY <1>1, <1>q DEF TellAgent, GoodFrame
  <2>2. DeviceOf[f.job] \in Devices /\ [kind |-> "cancel", job |-> f.job] \in ToBox
    BY <2>1, JobStoreAssumption DEF JobStoreAssumption, ToBox
  <2>3. outbox' \in [Sockets -> Seq(ToBox)]
    BY <1>1, <2>2, SentToType DEF TellAgent, LinkOK
  <2> QED BY <1>1, <2>3, IdleFrame DEF TellAgent, StoreOK, LinkOK, RequestTypeOK, requestVars
<1>2. CASE CancelJobsOf(q)
  <2>1. job' \in [Jobs -> JobRow]
    BY <1>2 DEF CancelJobsOf, StoreOK, JobRow, JobStates, TerminalStates
  <2>2. [f EXCEPT !.at = "closeRollout", !.todo = {}] \in GoodFrame
    BY <1>2, <1>q DEF CancelJobsOf, GoodFrame, Frame, Labels
  <2>3. frame' \in [Threads -> GoodFrame]
    BY <1>2, <1>q, <2>2 DEF CancelJobsOf, StoreOK
  <2> QED BY <1>2, <2>1, <2>3
          DEF CancelJobsOf, StoreOK, LinkOK, RequestTypeOK, linkVars, requestVars
<1>3. CASE CloseRollout(q)
  BY <1>3, IdleFrame
  DEF CloseRollout, StoreOK, LinkOK, RequestTypeOK, RolloutRow, RolloutStates, linkVars, requestVars
<1>4. CASE ResumeWrite(q)
  <2>1. f.rollout \in Rollouts
    BY <1>4, <1>q DEF ResumeWrite, GoodFrame
  <2>2. rollout' \in [Rollouts -> RolloutRow]
    BY <1>4, <2>1 DEF ResumeWrite, StoreOK, RolloutRow, RolloutStates
  <2> QED BY <1>4, <2>1, <2>2, IdleFrame
          DEF ResumeWrite, StoreOK, LinkOK, RequestTypeOK, linkVars
<1> QED BY <1>1, <1>2, <1>3, <1>4 DEF RequestStep

LEMMA CrashKeepsTypes ==
  ASSUME WellTyped, HubCrash
  PROVE  WellTyped'
<1>1. <<>> \in Seq(GoodToHub) /\ <<>> \in Seq(ToBox)
  BY EmptySeq
<1>2. StoreOK'
  BY IdleFrame DEF HubCrash, WellTyped, StoreOK
<1>3. LinkOK'
  BY <1>1 DEF HubCrash, WellTyped, LinkOK
<1>4. pass' \in Pass
  BY DEF HubCrash, NoPass, Pass
<1> QED BY <1>2, <1>3, <1>4 DEF HubCrash, WellTyped, PassTypeOK, RequestTypeOK, requestVars

-----------------------------------------------------------------------------
LEMMA WellTypedInitially == Init => WellTyped
<1> SUFFICES ASSUME Init PROVE WellTyped
  OBVIOUS
<1>1. StoreOK
  BY IdleFrame DEF Init, StoreInit, StoreOK, NoJob, JobRow, JobStates, RolloutRow, RolloutStates
<1>2. <<>> \in Seq(GoodToHub) /\ <<>> \in Seq(ToBox) /\ FreeSlot \in GoodSlot
  BY EmptySeq DEF FreeSlot, GoodSlot, Slot
<1>3. LinkOK
  BY <1>2 DEF Init, LinkInit, LinkOK
<1>4. PassTypeOK
  BY DEF Init, PassInit, PassTypeOK, NoPass, Pass
<1> QED BY <1>1, <1>3, <1>4 DEF Init, WellTyped, RequestInit, RequestTypeOK

LEMMA StepKeepsTypes == WellTyped /\ [Next]_vars => WellTyped'
<1> SUFFICES ASSUME WellTyped, [Next]_vars PROVE WellTyped'
  OBVIOUS
<1> USE DEF WellTyped
<1>1. ASSUME NEW t \in Threads, Store(t) PROVE WellTyped'
  <2>1. StoreOK'
    BY <1>1, StoreStepKeepsTypes DEF Store
  <2> QED BY <1>1, <2>1 DEF Store, LinkOK, PassTypeOK, RequestTypeOK, linkVars, requestVars
<1>2. ASSUME NEW s \in Sockets, Socket(s) PROVE WellTyped'
  BY <1>2, SocketStepKeepsTypes DEF Socket, PassTypeOK, RequestTypeOK, requestVars
<1>3. ASSUME NEW d \in Devices, Dials(d) \/ Box(d) \/ Fault(d) \/ Reports(d)
      PROVE  WellTyped'
  BY <1>3, BoxKeepsTypes
  DEF Dials, Box, Fault, Reports, PassTypeOK, RequestTypeOK, requestVars
<1>4. ASSUME NEW d \in Devices, Beats(d) PROVE WellTyped'
  BY <1>4, TimeKeepsTypes
  DEF Beats, Heartbeat, LinkOK, PassTypeOK, RequestTypeOK, linkVars, requestVars
<1>5. ASSUME NEW j \in Jobs, Ages(j) PROVE WellTyped'
  BY <1>5, TimeKeepsTypes
  DEF Ages, HeartbeatAges, LinkOK, PassTypeOK, RequestTypeOK, linkVars, requestVars
<1>6. ASSUME NEW j \in Jobs, BackoffEnds(j) PROVE WellTyped'
  BY <1>6, TimeKeepsTypes
  DEF BackoffEnds, LinkOK, PassTypeOK, RequestTypeOK, linkVars, requestVars
<1>7. ASSUME NEW r \in Rollouts, SoakEnds(r) PROVE WellTyped'
  BY <1>7, TimeKeepsTypes
  DEF SoakEnds, LinkOK, PassTypeOK, RequestTypeOK, linkVars, requestVars
<1>8. CASE TickRuns
  BY <1>8, TickStepKeepsTypes DEF TickRuns, RequestTypeOK, requestVars
<1>9. ASSUME NEW q \in Requests, Request(q) PROVE WellTyped'
  <2>1. UNCHANGED pass
    BY <1>9 DEF Request, RequestStep, TellAgent, CancelJobsOf, CloseRollout, ResumeWrite
  <2> QED BY <1>9, <2>1, RequestStepKeepsTypes DEF Request, PassTypeOK
<1>10. ASSUME NEW q \in Requests, Ask(q) /\ UNCHANGED crashes PROVE WellTyped'
  <2>1. UNCHANGED <<linkVars, pass>>
    BY <1>10 DEF Ask, AskRetryJob, AskCancelJob, AskCancelRollout, AskResume
  <2> QED BY <1>10, <2>1, AskKeepsTypes DEF LinkOK, PassTypeOK, linkVars
<1>11. ASSUME NEW q \in Requests, NEW r \in Rollouts, Creates(q, r) PROVE WellTyped'
  <2>1. StoreOK'
    BY <1>11, CreateKeepsTypes DEF Creates
  <2> QED BY <1>11, <2>1
          DEF Creates, CreateRollout, LinkOK, PassTypeOK, RequestTypeOK, linkVars, requestVars
<1>12. CASE HubCrash
  BY <1>12, CrashKeepsTypes
<1>13. CASE UNCHANGED vars
  BY <1>13 DEF vars, storeVars, linkVars, requestVars, StoreOK, LinkOK, PassTypeOK, RequestTypeOK
<1> QED BY <1>1, <1>2, <1>3, <1>4, <1>5, <1>6, <1>7, <1>8, <1>9, <1>10, <1>11, <1>12, <1>13
        DEF Next

LEMMA AlwaysWellTyped == Spec => []WellTyped
BY WellTypedInitially, StepKeepsTypes, PTL DEF Spec

\* No handler, message or request ever drives a row, a frame of a handler, a
\* queue or the snapshot of a tick out of the values the code's types allow,
\* whatever boxes and requests there are.
THEOREM TypesAreKept == Spec => []TypeOK
BY AlwaysWellTyped, WellTypedIsTypeOK, PTL

-----------------------------------------------------------------------------
(* SuccessIsReal.  What has to be carried along is the evidence: a result   *)
(* that says ok, on its way or in the hands of its handler, is about a job  *)
(* that some box has installed.                                            *)

Truthful == {m \in GoodToHub : m.kind = "result" /\ m.ok => m.job \in installed}

MessagesTruthful == \A s \in Sockets : inbox[s] \in Seq(Truthful)

FramesTruthful ==
  \A t \in Threads :
    frame[t].at = "result" /\ frame[t].ok => frame[t].job \in installed

Evidence == MessagesTruthful /\ FramesTruthful /\ SuccessIsReal

\* A step that takes no result in hand and writes no SUCCESS.
Quiet ==
  /\ \A t \in Threads : frame'[t] = frame[t] \/ frame'[t].at # "result"
  /\ \A j \in Jobs : job'[j].state = job[j].state \/ job'[j].state # "SUCCESS"

LEMMA QuietKeepsRows ==
  ASSUME Evidence, Quiet, installed \subseteq installed'
  PROVE  FramesTruthful' /\ SuccessIsReal'
  BY DEF Evidence, Quiet, FramesTruthful, SuccessIsReal

LEMMA MessagesStayTruthful ==
  ASSUME MessagesTruthful, installed \subseteq installed', UNCHANGED inbox
  PROVE  MessagesTruthful'
<1>1. Truthful \subseteq Truthful'
  BY DEF Truthful
<1>2. \A s \in Sockets : inbox[s] \in Seq(Truthful')
  BY <1>1, SeqMonotonic DEF MessagesTruthful
<1> QED BY <1>2 DEF MessagesTruthful

LEMMA QuietKeepsEvidence ==
  ASSUME Evidence, Quiet, UNCHANGED <<inbox, installed>>
  PROVE  Evidence'
  BY QuietKeepsRows, MessagesStayTruthful DEF Evidence

LEMMA LabelsOfFrames ==
  /\ Idle.at = "idle"
  /\ \A l : At(l).at = l
  /\ \A l, j : AtJob(l, j).at = l
  /\ \A r, back, j : Recomputing(r, back, j).at = "recompute"
  /\ \A f \in GoodFrame : f.at \in {"recompute", "rewrite"} => Returned(f).at # "result"
<1>1. \A f \in GoodFrame : f.at \in {"recompute", "rewrite"} => Returned(f).at = f.back
  BY DEF Returned, AtJob, Idle
<1> QED BY <1>1 DEF Idle, At, AtJob, Recomputing, GoodFrame

LEMMA FailureIsNoSuccess ==
  ASSUME NEW row \in JobRow, NEW n \in Nat
  PROVE  AfterFailure(row, n).state # "SUCCESS"
  BY DEF AfterFailure, JobRow

LEMMA StoreStepKeepsEvidence ==
  ASSUME StoreOK, Evidence, NEW t \in Threads, StoreStep(t), UNCHANGED <<inbox, installed>>
  PROVE  Evidence'
<1> DEFINE f == frame[t]
<1>f. f \in GoodFrame
  BY DEF StoreOK
<1>1. CASE ProgressWrite(t)
  BY <1>1, LabelsOfFrames, QuietKeepsEvidence DEF ProgressWrite, Quiet, StoreOK, JobRow
<1>2. CASE ResultWrite(t)
  <2>1. f.job \in Jobs /\ f.attempt \in Nat /\ f.at = "result"
    BY <1>2, <1>f DEF ResultWrite, GoodFrame, Frame
  <2>2. f.ok => f.job \in installed
    BY <2>1 DEF Evidence, FramesTruthful
  <2>3. ~f.ok => job'[f.job].state # "SUCCESS"
    BY <1>2, <2>1, FailureIsNoSuccess DEF ResultWrite, StoreOK
  <2>4. SuccessIsReal'
    BY <1>2, <2>1, <2>2, <2>3 DEF ResultWrite, Evidence, SuccessIsReal, StoreOK
  <2>5. FramesTruthful'
    BY <1>2, LabelsOfFrames DEF ResultWrite, Evidence, FramesTruthful, StoreOK
  <2> QED BY <2>4, <2>5, MessagesStayTruthful DEF Evidence
<1>3. CASE RetryWrite(t)
  BY <1>3, LabelsOfFrames, QuietKeepsEvidence DEF RetryWrite, Quiet, StoreOK, JobRow
<1>4. CASE CancelWrite(t)
  BY <1>4, LabelsOfFrames, QuietKeepsEvidence DEF CancelWrite, Quiet, StoreOK, JobRow
<1>5. CASE Recompute(t)
  <2>1. Returned(f).at # "result"
    BY <1>5, <1>f, LabelsOfFrames DEF Recompute
  <2>2. frame'[t].at # "result"
    BY <1>5, <2>1, <1>f DEF Recompute, StoreOK, GoodFrame, Frame
  <2> QED BY <1>5, <2>2, QuietKeepsEvidence DEF Recompute, Quiet, StoreOK
<1>6. CASE RolloutWrite(t)
  <2>1. Returned(f).at # "result"
    BY <1>6, <1>f, LabelsOfFrames DEF RolloutWrite
  <2> QED BY <1>6, <2>1, QuietKeepsEvidence DEF RolloutWrite, Quiet, StoreOK
<1> QED BY <1>1, <1>2, <1>3, <1>4, <1>5, <1>6 DEF StoreStep

LEMMA SocketStepKeepsEvidence ==
  ASSUME StoreOK, LinkOK, Evidence, NEW s \in Sockets, SocketStep(s)
  PROVE  Evidence'
<1>s. s \in Threads /\ frame[s] \in GoodFrame
  BY DEF Threads, StoreOK
<1>1. CASE SetupDone(s)
  BY <1>1, LabelsOfFrames, QuietKeepsEvidence DEF SetupDone, Quiet, StoreOK, linkVars
<1>2. CASE SocketCloses(s)
  BY <1>2, QuietKeepsEvidence DEF SocketCloses, Quiet, storeVars
<1>3. CASE Receive(s)
  <2> DEFINE msg == Head(inbox[s])
  <2>1. inbox[s] \in Seq(Truthful) /\ inbox[s] # <<>>
    BY <1>3 DEF Receive, Evidence, MessagesTruthful
  <2>2. msg \in Truthful /\ Tail(inbox[s]) \in Seq(Truthful)
    BY <2>1, HeadTailProperties
  <2>3. MessagesTruthful'
    <3>1. Truthful' = Truthful
      BY <1>3 DEF Receive, Truthful
    <3> QED BY <1>3, <2>2, <3>1 DEF Receive, Evidence, MessagesTruthful, LinkOK
  <2>4. SuccessIsReal'
    BY <1>3 DEF Receive, Evidence, SuccessIsReal
  <2>5. FramesTruthful'
    <3>1. frame'[s].at = "result" /\ frame'[s].ok => frame'[s].job \in installed
      <4>1. CASE msg.kind = "hello" /\ ReconcileOn(s, ReconcileRead(s, msg.job))
        <5>1. ReconcileRead(s, msg.job).at = "reconcile"
          BY DEF ReconcileRead, AtJob, Idle
        <5> QED BY <1>s, <4>1, <5>1, LabelsOfFrames DEF ReconcileOn, StoreOK
      <4>2. CASE msg.kind = "progress" /\ frame' = [frame EXCEPT ![s] = ProgressRead(msg.job)]
        BY <1>s, <4>2, LabelsOfFrames DEF ProgressRead, StoreOK
      <4>3. CASE msg.kind = "result" /\ frame' = [frame EXCEPT ![s] = ResultRead(msg.job, msg.ok)]
        <5>1. msg.ok => msg.job \in installed
          BY <2>2, <4>3 DEF Truthful
        <5>2. frame'[s] = ResultRead(msg.job, msg.ok)
          BY <1>s, <4>3 DEF StoreOK
        <5>3. \/ ResultRead(msg.job, msg.ok) = Idle
              \/ /\ ResultRead(msg.job, msg.ok).ok = msg.ok
                 /\ ResultRead(msg.job, msg.ok).job = msg.job
          BY DEF ResultRead, AtJob, Idle
        <5> QED BY <5>1, <5>2, <5>3, LabelsOfFrames
      <4> QED BY <1>3, <4>1, <4>2, <4>3 DEF Receive
    <3>2. \A t \in Threads \ {s} : frame'[t] = frame[t]
      BY <1>3 DEF Receive, ReconcileOn, StoreOK
    <3> QED BY <1>3, <3>1, <3>2 DEF Receive, Evidence, FramesTruthful
  <2> QED BY <2>3, <2>4, <2>5 DEF Evidence
<1>4. CASE ReconcileWrite(s)
  <2>1. PICK j \in frame[s].todo :
          /\ job' = [job EXCEPT ![j].state = "QUEUED", ![j].held = FALSE, ![j].stale = FALSE]
          /\ ReconcileOn(s, [frame[s] EXCEPT !.todo = @ \ {j}])
    BY <1>4 DEF ReconcileWrite
  <2>2. [frame[s] EXCEPT !.todo = @ \ {j}].at = "reconcile"
    BY <1>4, <1>s DEF ReconcileWrite, GoodFrame, Frame
  <2>3. \A t \in Threads : frame'[t] = frame[t] \/ frame'[t].at # "result"
    BY <1>s, <2>1, <2>2, LabelsOfFrames DEF ReconcileOn, StoreOK
  <2>4. \A i \in Jobs : job'[i].state = job[i].state \/ job'[i].state # "SUCCESS"
    BY <2>1 DEF StoreOK, JobRow
  <2> QED BY <1>4, <2>3, <2>4, QuietKeepsEvidence DEF ReconcileWrite, Quiet
<1> QED BY <1>1, <1>2, <1>3, <1>4 DEF SocketStep

LEMMA SentTruthful ==
  ASSUME LinkOK, MessagesTruthful, installed \subseteq installed',
         NEW d \in Devices, NEW msg \in GoodToHub, inbox' = SentToHub(d, msg),
         msg.kind = "result" /\ msg.ok => msg.job \in installed'
  PROVE  MessagesTruthful'
<1>1. Truthful \subseteq Truthful' /\ msg \in Truthful'
  BY DEF Truthful
<1>2. ASSUME NEW s \in Sockets PROVE inbox'[s] \in Seq(Truthful')
  <2>1. inbox[s] \in Seq(Truthful')
    BY <1>1, SeqMonotonic DEF MessagesTruthful
  <2>2. Append(inbox[s], msg) \in Seq(Truthful')
    BY <1>1, <2>1
  <2> QED BY <2>1, <2>2 DEF SentToHub, LinkOK
<1> QED BY <1>2 DEF MessagesTruthful

LEMMA BoxKeepsEvidence ==
  ASSUME LinkOK, StoreOK, Evidence, NEW d \in Devices,
         BoxStep(d) \/ BoxFault(d) \/ Progress(d) \/ Connect(d)
  PROVE  Evidence'
<1>a. agent[d] \in GoodSlot
  BY DEF LinkOK
<1>q. ASSUME UNCHANGED storeVars, installed \subseteq installed'
      PROVE  FramesTruthful' /\ SuccessIsReal'
  BY <1>q, QuietKeepsRows DEF Quiet, storeVars
<1>1. CASE Hello(d)
  <2>1. [kind |-> "hello", job |-> agent[d].job, ok |-> FALSE] \in GoodToHub
    BY <1>a DEF GoodSlot, Slot, GoodToHub, ToHub
  <2> QED BY <1>1, <1>q, <2>1, SentTruthful DEF Hello, Evidence
<1>2. CASE Handle(d)
  <2> DEFINE msg == Head(outbox[session[d]])
  <2>1. msg \in ToBox
    BY <1>2, HeadTailProperties DEF Handle, LinkOK
  <2>2. [kind |-> "result", job |-> msg.job, ok |-> FALSE] \in GoodToHub
    BY <2>1 DEF ToBox, GoodToHub, ToHub
  <2>3. UNCHANGED inbox \/ inbox' = SentToHub(d, [kind |-> "result", job |-> msg.job, ok |-> FALSE])
    BY <1>2 DEF Handle, StartJob, StopJob
  <2>4. MessagesTruthful'
    BY <1>2, <2>2, <2>3, SentTruthful, MessagesStayTruthful DEF Handle, Evidence
  <2> QED BY <1>2, <1>q, <2>4 DEF Handle, Evidence
<1>3. ASSUME NEW ok \in BOOLEAN, Finish(d, ok) PROVE Evidence'
  <2>1. agent[d].job \in Jobs
    BY <1>3, <1>a DEF Finish, GoodSlot
  <2>2. [kind |-> "result", job |-> agent[d].job, ok |-> ok] \in GoodToHub
    BY <2>1 DEF GoodToHub, ToHub
  <2>3. installed \subseteq installed' /\ (ok => agent[d].job \in installed')
    BY <1>3 DEF Finish
  <2> QED BY <1>3, <1>q, <2>2, <2>3, SentTruthful DEF Finish, Evidence
<1>4. CASE FreesSlot(d)
  BY <1>4, <1>q, MessagesStayTruthful DEF FreesSlot, Evidence
<1>5. CASE SessionDrops(d) \/ BoxRestarts(d)
  <2> DEFINE s == session[d]
  <2>1. s \in Sockets /\ SessionEnds(d)
    BY <1>5 DEF SessionDrops, BoxRestarts, SessionEnds, LinkOK
  <2>2. PICK n \in 0..Len(inbox[s]) : inbox' = [inbox EXCEPT ![s] = SubSeq(@, 1, n)]
    BY <2>1 DEF SessionEnds
  <2>3. inbox[s] \in Seq(Truthful)
    BY <2>1 DEF Evidence, MessagesTruthful
  <2>4. \A i \in 1..n : inbox[s][i] \in Truthful
    BY <2>3, ElementOfSeq
  <2>5. SubSeq(inbox[s], 1, n) \in Seq(Truthful)
    BY <2>3, <2>4, SubSeqProperties
  <2>6. UNCHANGED installed /\ Truthful' = Truthful
    BY <1>5 DEF SessionDrops, BoxRestarts, Truthful
  <2>7. MessagesTruthful'
    BY <2>1, <2>2, <2>5, <2>6 DEF Evidence, MessagesTruthful, LinkOK
  <2> QED BY <1>5, <1>q, <2>6, <2>7 DEF SessionDrops, BoxRestarts, Evidence
<1>6. CASE Progress(d)
  <2>1. agent[d].job \in Jobs
    BY <1>6, <1>a DEF Progress, GoodSlot
  <2>2. [kind |-> "progress", job |-> agent[d].job, ok |-> FALSE] \in GoodToHub
    BY <2>1 DEF GoodToHub, ToHub
  <2> QED BY <1>6, <1>q, <2>2, SentTruthful DEF Progress, Evidence
<1>7. CASE Connect(d)
  <2>1. At("setup").at # "result"
    BY LabelsOfFrames
  <2> QED BY <1>7, <2>1, QuietKeepsEvidence DEF Connect, Quiet, StoreOK
<1> QED BY <1>1, <1>2, <1>3, <1>4, <1>5, <1>6, <1>7 DEF BoxStep, BoxFault

LEMMA TickStepKeepsEvidence ==
  ASSUME StoreOK, PassTypeOK, Evidence, TickStep
  PROVE  Evidence'
<1>t. Tick \in Threads /\ frame[Tick] \in GoodFrame
  BY DEF Threads, StoreOK
<1>1. UNCHANGED <<inbox, installed>>
  BY DEF TickStep, TickStarts, Promote, StalledRead, Requeue, CountActive, CandidatesRead,
         Skip, Mark, Send, SendFails, PutBack, TickEnds, linkVars
<1>2. \A t \in Threads : frame'[t] = frame[t] \/ frame'[t].at # "result"
  <2>1. \A l \in {"idle", "promote", "requeue", "candidates", "dispatch"} :
          TickGoes(l) => \A t \in Threads : frame'[t] = frame[t] \/ frame'[t].at # "result"
    BY <1>t, LabelsOfFrames DEF TickGoes, StoreOK
  <2>2. CASE TickStarts \/ StalledRead \/ CountActive \/ CandidatesRead \/ PutBack \/ TickEnds
    BY <2>1, <2>2 DEF TickStarts, StalledRead, CountActive, CandidatesRead, PutBack, TickEnds
  <2>3. CASE Promote \/ Skip
    BY <2>3 DEF Promote, Skip, storeVars
  <2>4. CASE Requeue \/ Send
    BY <1>t, <2>4, LabelsOfFrames DEF Requeue, Send, StoreOK
  <2>5. CASE Mark
    <3>1. PICK j \in Jobs :
            frame' = [frame EXCEPT ![Tick] = [AtJob("send", j) EXCEPT !.attempt = pass.seen[j]]]
      BY <2>5 DEF Mark
    <3>2. [AtJob("send", j) EXCEPT !.attempt = pass.seen[j]].at = "send"
      BY DEF AtJob, Idle
    <3> QED BY <1>t, <3>1, <3>2 DEF StoreOK
  <2>6. CASE SendFails
    <3>1. [frame[Tick] EXCEPT !.at = "unsend"].at = "unsend"
      BY <1>t DEF GoodFrame, Frame
    <3> QED BY <1>t, <2>6, <3>1 DEF SendFails, StoreOK
  <2> QED BY <2>2, <2>3, <2>4, <2>5, <2>6 DEF TickStep
<1>3. \A j \in Jobs : job'[j].state = job[j].state \/ job'[j].state # "SUCCESS"
  <2>1. CASE UNCHANGED job
    BY <2>1
  <2>2. CASE Requeue
    <3>1. PICK j \in pass.todo : job' = [job EXCEPT ![j] = AfterFailure(@, pass.seen[j])]
      BY <2>2 DEF Requeue
    <3>2. job[j] \in JobRow /\ pass.seen[j] \in Nat
      BY DEF StoreOK, PassTypeOK, Pass
    <3> QED BY <3>1, <3>2, FailureIsNoSuccess DEF StoreOK
  <2>3. CASE Mark
    BY <2>3 DEF Mark, StoreOK, JobRow
  <2>4. CASE PutBack
    BY <2>4 DEF PutBack, StoreOK, JobRow
  <2> QED BY <2>1, <2>2, <2>3, <2>4
          DEF TickStep, TickStarts, Promote, StalledRead, CountActive, CandidatesRead,
              Skip, Send, SendFails, TickEnds, storeVars
<1> QED BY <1>1, <1>2, <1>3, QuietKeepsEvidence DEF Quiet

LEMMA RequestKeepsEvidence ==
  ASSUME StoreOK, Evidence, NEW q \in Requests,
         \/ RequestStep(q)
         \/ Ask(q)
         \/ \E r \in Rollouts : CreateRollout(q, r)
  PROVE  Evidence'
<1>q. q \in Threads /\ frame[q] \in GoodFrame
  BY DEF Threads, StoreOK
<1>1. CASE TellAgent(q) \/ CloseRollout(q) \/ ResumeWrite(q)
  BY <1>1, <1>q, LabelsOfFrames, QuietKeepsEvidence
  DEF TellAgent, CloseRollout, ResumeWrite, Quiet, StoreOK, linkVars
<1>2. CASE CancelJobsOf(q)
  <2>1. frame'[q].at = "closeRollout"
    BY <1>2, <1>q DEF CancelJobsOf, StoreOK, GoodFrame, Frame
  <2>2. \A j \in Jobs : job'[j].state = job[j].state \/ job'[j].state # "SUCCESS"
    BY <1>2 DEF CancelJobsOf, StoreOK, JobRow
  <2> QED BY <1>2, <2>1, <2>2, QuietKeepsEvidence DEF CancelJobsOf, Quiet, StoreOK, linkVars
<1>3. CASE Ask(q)
  <2>1. \A j \in Jobs : RetryRead(j).at # "result" /\ CancelRead(j).at # "result"
    BY LabelsOfFrames DEF RetryRead, CancelRead
  <2>2. \A r : [At("cancelRollout") EXCEPT
                  !.rollout = r, !.todo = {j \in JobsOf(r) : ~IsTerminal(j)}].at = "cancelRollout"
    BY DEF At, Idle
  <2>3. \A r : [At("resume") EXCEPT
                  !.rollout = r, !.passes = rollout[r].passed = "never"].at = "resume"
    BY DEF At, Idle
  <2>4. UNCHANGED <<job, inbox, installed>> /\ \A t \in Threads \ {q} : frame'[t] = frame[t]
    BY <1>3 DEF Ask, AskRetryJob, AskCancelJob, AskCancelRollout, AskResume, linkVars, StoreOK
  <2>5. frame'[q].at # "result"
    <3>1. \A x : frame' = [frame EXCEPT ![q] = x] => frame'[q] = x
      BY <1>q DEF StoreOK
    <3> QED BY <1>3, <2>1, <2>2, <2>3, <3>1
            DEF Ask, AskRetryJob, AskCancelJob, AskCancelRollout, AskResume
  <2> QED BY <2>4, <2>5, QuietKeepsEvidence DEF Quiet
<1>4. ASSUME NEW r \in Rollouts, CreateRollout(q, r) PROVE Evidence'
  <2>1. \A j \in Jobs : job'[j].state = job[j].state \/ job'[j].state # "SUCCESS"
    <3>1. \A j \in Jobs : \A x, b :
            [NoJob EXCEPT !.state = IF x THEN "SKIPPED" ELSE "QUEUED",
                          !.canary = b].state # "SUCCESS"
      BY DEF NoJob
    <3>2. ASSUME NEW j \in Jobs
          PROVE  \/ job'[j] = job[j]
                 \/ \E x, b : job'[j] = [NoJob EXCEPT
                       !.state = IF x THEN "SKIPPED" ELSE "QUEUED", !.canary = b]
      <4>1. PICK skipped \in SUBSET JobsOf(r) :
              \E canaries \in SUBSET (JobsOf(r) \ skipped) : job' = [i \in Jobs |->
                 IF i \notin JobsOf(r) THEN job[i]
                 ELSE [NoJob EXCEPT
                         !.state = IF i \in skipped THEN "SKIPPED" ELSE "QUEUED",
                         !.canary = i \in canaries]]
        BY <1>4 DEF CreateRollout
      <4>2. PICK canaries \in SUBSET (JobsOf(r) \ skipped) : job' = [i \in Jobs |->
                 IF i \notin JobsOf(r) THEN job[i]
                 ELSE [NoJob EXCEPT
                         !.state = IF i \in skipped THEN "SKIPPED" ELSE "QUEUED",
                         !.canary = i \in canaries]]
        BY <4>1
      <4>3. \/ job'[j] = job[j]
            \/ job'[j] = [NoJob EXCEPT
                  !.state = IF j \in skipped THEN "SKIPPED" ELSE "QUEUED",
                  !.canary = j \in canaries]
        BY <4>2
      <4> QED BY <4>3
    <3> QED BY <3>1, <3>2
  <2> QED BY <1>4, <1>q, <2>1, LabelsOfFrames, QuietKeepsEvidence
          DEF CreateRollout, Quiet, StoreOK, linkVars
<1> QED BY <1>1, <1>2, <1>3, <1>4 DEF RequestStep

LEMMA EvidenceInitially == Init => Evidence
<1> SUFFICES ASSUME Init PROVE Evidence
  OBVIOUS
<1>1. \A s \in Sockets : inbox[s] = <<>>
  BY DEF Init, LinkInit
<1>2. MessagesTruthful
  BY <1>1, EmptySeq DEF MessagesTruthful
<1> QED BY <1>2, LabelsOfFrames
        DEF Init, StoreInit, Evidence, FramesTruthful, SuccessIsReal, NoJob

LEMMA StepKeepsEvidence == WellTyped /\ Evidence /\ [Next]_vars => Evidence'
<1> SUFFICES ASSUME WellTyped, Evidence, [Next]_vars PROVE Evidence'
  OBVIOUS
<1> USE DEF WellTyped
<1>1. ASSUME NEW t \in Threads, Store(t) PROVE Evidence'
  BY <1>1, StoreStepKeepsEvidence DEF Store, linkVars
<1>2. ASSUME NEW s \in Sockets, Socket(s) PROVE Evidence'
  BY <1>2, SocketStepKeepsEvidence DEF Socket
<1>3. ASSUME NEW d \in Devices, Dials(d) \/ Box(d) \/ Fault(d) \/ Reports(d) PROVE Evidence'
  BY <1>3, BoxKeepsEvidence DEF Dials, Box, Fault, Reports
<1>4. CASE \/ \E d \in Devices : Beats(d)
           \/ \E j \in Jobs : Ages(j) \/ BackoffEnds(j)
           \/ \E r \in Rollouts : SoakEnds(r)
  <2>1. UNCHANGED <<frame, inbox, installed>>
    BY <1>4 DEF Beats, Ages, BackoffEnds, SoakEnds, Heartbeat, HeartbeatAges, BackoffElapses,
                SoakElapses, linkVars
  <2>2. \A i \in Jobs : job'[i].state = job[i].state
    <3>1. ASSUME NEW d \in Devices, Beats(d) PROVE \A i \in Jobs : job'[i].state = job[i].state
      BY <3>1 DEF Beats, Heartbeat, StoreOK, JobRow
    <3>2. ASSUME NEW j \in Jobs, Ages(j) \/ BackoffEnds(j)
          PROVE  \A i \in Jobs : job'[i].state = job[i].state
      BY <3>2 DEF Ages, BackoffEnds, HeartbeatAges, BackoffElapses, StoreOK, JobRow
    <3>3. ASSUME NEW r \in Rollouts, SoakEnds(r) PROVE UNCHANGED job
      BY <3>3 DEF SoakEnds, SoakElapses
    <3> QED BY <1>4, <3>1, <3>2, <3>3
  <2> QED BY <2>1, <2>2, QuietKeepsEvidence DEF Quiet
<1>5. CASE TickRuns
  BY <1>5, TickStepKeepsEvidence DEF TickRuns
<1>6. ASSUME NEW q \in Requests,
             Request(q) \/ Ask(q) \/ \E r \in Rollouts : Creates(q, r)
      PROVE  Evidence'
  BY <1>6, RequestKeepsEvidence DEF Request, Creates
<1>7. CASE HubCrash
  <2>1. MessagesTruthful'
    BY <1>7, EmptySeq DEF HubCrash, MessagesTruthful
  <2> QED BY <1>7, <2>1, LabelsOfFrames, QuietKeepsRows DEF HubCrash, Evidence, Quiet
<1>8. CASE UNCHANGED vars
  BY <1>8, QuietKeepsEvidence DEF vars, storeVars, linkVars, Quiet
<1> QED BY <1>1, <1>2, <1>3, <1>4, <1>5, <1>6, <1>7, <1>8 DEF Next

LEMMA AlwaysEvidence == Spec => []Evidence
BY EvidenceInitially, StepKeepsEvidence, AlwaysWellTyped, PTL DEF Spec

\* A job is a SUCCESS only if some box has completely installed its version,
\* however frames are lost, delayed or repeated by reconnects, and whatever the
\* handlers of the hub have read before each other's writes.
THEOREM SuccessesAreReal == Spec => []SuccessIsReal
<1>1. Evidence => SuccessIsReal
  BY DEF Evidence
<1> QED BY <1>1, AlwaysEvidence, PTL
=============================================================================
