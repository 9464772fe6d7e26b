----------------------------- MODULE CapProofs -----------------------------
(***************************************************************************)
(* The limits of concurrency, for every fleet: what a tick dispatches fits *)
(* into maxConcurrentJobs and into the limit of the site.                  *)
(*                                                                         *)
(* The tick counts once and then works from `pass.room` and `pass.site`,   *)
(* while other handlers go on writing rows.  The invariant is that its     *)
(* idea of the room is never larger than the room there is: every other    *)
(* handler only takes jobs out of the count, or adds one to `revived`.     *)
(***************************************************************************)
EXTENDS FleetProofs

Counted == Active \ revived
CountedAtSite == {j \in Counted : AtSite(j)}

\* The tick is in its loop, with no job in hand.
Dispatching ==
  \/ tickAt = "dispatch"
  \/ tickAt \in {"recompute", "rewrite"} /\ frame[Tick].back = "dispatch"

\* The tick has marked a job and not yet counted it, or will put it back.
Sending == tickAt \in {"send", "unsend"}

RoomKept ==
  /\ Cardinality(Counted) <= MaxConcurrentJobs
  /\ tickAt = "candidates" \/ Dispatching
       => Cardinality(Counted) + pass.room <= MaxConcurrentJobs
  /\ Sending => /\ pass.room > 0
                /\ Cardinality(Counted \ {frame[Tick].job}) + pass.room <= MaxConcurrentJobs

SiteKept ==
  /\ Cardinality(CountedAtSite) <= SiteLimit
  /\ Dispatching => Cardinality(CountedAtSite) <= pass.site
  /\ Sending => /\ AtSite(frame[Tick].job) => pass.site < SiteLimit
                /\ Cardinality(CountedAtSite \ {frame[Tick].job}) <= pass.site

CountKept == RoomKept /\ SiteKept

-----------------------------------------------------------------------------
(* Counting.                                                               *)

LEMMA FewerJobs ==
  ASSUME NEW T \in SUBSET Jobs, NEW S \in SUBSET T
  PROVE  /\ Cardinality(S) \in Nat
         /\ Cardinality(T) \in Nat
         /\ Cardinality(S) <= Cardinality(T)
<1>1. IsFiniteSet(T)
  BY JobStoreAssumption, FS_Subset DEF JobStoreAssumption
<1> QED BY <1>1, FS_Subset, FS_CardinalityType

LEMMA OneMoreJob ==
  ASSUME NEW S \in SUBSET Jobs, NEW j
  PROVE  /\ Cardinality(S \ {j}) \in Nat
         /\ Cardinality(S) \in Nat
         /\ Cardinality(S) <= Cardinality(S \ {j}) + 1
<1>1. IsFiniteSet(S) /\ IsFiniteSet(S \ {j})
  BY JobStoreAssumption, FS_Subset DEF JobStoreAssumption
<1>2. Cardinality(S) \in Nat /\ Cardinality(S \ {j}) \in Nat
  BY <1>1, FS_CardinalityType
<1>3. Cardinality(S \ {j}) = IF j \in S THEN Cardinality(S) - 1 ELSE Cardinality(S)
  BY <1>1, FS_RemoveElement
<1> QED BY <1>2, <1>3

LEMMA CountedAreJobs ==
  /\ Counted \in SUBSET Jobs
  /\ CountedAtSite \in SUBSET Jobs
  /\ CountedAtSite \subseteq Counted
  BY DEF Counted, CountedAtSite, Active

\* A step that makes no job active, or only behind the scheduler's back.
Calm ==
  /\ revived \subseteq revived'
  /\ \A j \in Jobs : job'[j].state \in ActiveStates
                       => job[j].state \in ActiveStates \/ j \in revived'

LEMMA CalmCounts ==
  ASSUME Calm
  PROVE  Counted' \in SUBSET Counted /\ CountedAtSite' \in SUBSET CountedAtSite
  BY DEF Calm, Counted, CountedAtSite, Active, IsActive, AtSite

\* The limits as numbers.
LEMMA Limits ==
  MaxConcurrentJobs \in Nat /\ SiteLimit \in Nat
  BY SchedulerAssumption DEF SchedulerAssumption

\* A calm step elsewhere leaves what the tick believes true.
LEMMA CalmKeepsCount ==
  ASSUME PassTypeOK, CountKept, Calm, frame'[Tick] = frame[Tick], pass' = pass
  PROVE  CountKept'
<1> DEFINE j == frame[Tick].job
<1>1. /\ Counted' \in SUBSET Counted
      /\ Counted' \ {j} \in SUBSET (Counted \ {j})
      /\ CountedAtSite' \in SUBSET CountedAtSite
      /\ CountedAtSite' \ {j} \in SUBSET (CountedAtSite \ {j})
  BY CalmCounts
<1>2. /\ Cardinality(Counted') \in Nat /\ Cardinality(Counted) \in Nat
      /\ Cardinality(Counted') <= Cardinality(Counted)
      /\ Cardinality(CountedAtSite') \in Nat /\ Cardinality(CountedAtSite) \in Nat
      /\ Cardinality(CountedAtSite') <= Cardinality(CountedAtSite)
  BY <1>1, CountedAreJobs, FewerJobs
<1>3. /\ Cardinality(Counted' \ {j}) \in Nat /\ Cardinality(Counted \ {j}) \in Nat
      /\ Cardinality(Counted' \ {j}) <= Cardinality(Counted \ {j})
      /\ Cardinality(CountedAtSite' \ {j}) \in Nat /\ Cardinality(CountedAtSite \ {j}) \in Nat
      /\ Cardinality(CountedAtSite' \ {j}) <= Cardinality(CountedAtSite \ {j})
  <2>1. Counted \ {j} \in SUBSET Jobs /\ CountedAtSite \ {j} \in SUBSET Jobs
    BY CountedAreJobs
  <2> QED BY <1>1, <2>1, FewerJobs
<1>4. pass.room \in Int /\ pass.site \in Nat
  BY DEF PassTypeOK, Pass
<1>5. /\ tickAt' = tickAt
      /\ Dispatching' = Dispatching
      /\ Sending' = Sending
      /\ AtSite(frame[Tick].job)' = AtSite(frame[Tick].job)
  BY DEF tickAt, Dispatching, Sending, AtSite
<1>6. RoomKept'
  BY <1>2, <1>3, <1>4, <1>5, Limits DEF CountKept, RoomKept
<1>7. SiteKept'
  BY <1>2, <1>3, <1>4, <1>5, Limits DEF CountKept, SiteKept
<1> QED BY <1>6, <1>7 DEF CountKept

\* A calm step of the tick that takes no job in hand and believes no more than
\* before.
LEMMA CalmGoesOn ==
  ASSUME PassTypeOK, CountKept, Calm, ~Sending',
         tickAt' = "candidates" \/ Dispatching'
           => (tickAt = "candidates" \/ Dispatching) /\ pass'.room = pass.room,
         Dispatching' => Dispatching /\ pass'.site = pass.site
  PROVE  CountKept'
<1>1. /\ Counted' \in SUBSET Counted
      /\ CountedAtSite' \in SUBSET CountedAtSite
  BY CalmCounts
<1>2. /\ Cardinality(Counted') \in Nat /\ Cardinality(Counted) \in Nat
      /\ Cardinality(Counted') <= Cardinality(Counted)
      /\ Cardinality(CountedAtSite') \in Nat /\ Cardinality(CountedAtSite) \in Nat
      /\ Cardinality(CountedAtSite') <= Cardinality(CountedAtSite)
  BY <1>1, CountedAreJobs, FewerJobs
<1>3. pass.room \in Int /\ pass.site \in Nat
  BY DEF PassTypeOK, Pass
<1>4. RoomKept'
  BY <1>2, <1>3, Limits DEF CountKept, RoomKept
<1>5. SiteKept'
  BY <1>2, <1>3, Limits DEF CountKept, SiteKept
<1> QED BY <1>4, <1>5 DEF CountKept

-----------------------------------------------------------------------------
(* Handlers.                                                               *)

LEMMA FailureIsInactive ==
  ASSUME NEW row \in JobRow, NEW n \in Nat
  PROVE  AfterFailure(row, n).state \notin ActiveStates
  BY DEF AfterFailure, JobRow, ActiveStates

LEMMA FrameFields ==
  /\ Idle.at = "idle"
  /\ \A l : At(l).at = l
  /\ \A l, j : AtJob(l, j).at = l /\ AtJob(l, j).job = j
  /\ \A r, back, j : /\ Recomputing(r, back, j).at = "recompute"
                     /\ Recomputing(r, back, j).back = back
  /\ \A f : Returned(f).at = f.back
  BY DEF Idle, At, AtJob, Recomputing, Returned

LEMMA StoreStepIsCalm ==
  ASSUME StoreOK, NEW t \in Threads, StoreStep(t)
  PROVE  Calm
<1> DEFINE f == frame[t]
<1>f. f \in GoodFrame
  BY DEF StoreOK
<1>1. CASE ProgressWrite(t)
  BY <1>1, <1>f DEF ProgressWrite, Calm, StoreOK, JobRow, IsActive, GoodFrame
<1>2. CASE ResultWrite(t)
  <2>1. f.job \in Jobs /\ f.attempt \in Nat
    BY <1>2, <1>f DEF ResultWrite, GoodFrame, Frame
  <2>2. job[f.job] \in JobRow
    BY <2>1 DEF StoreOK
  <2>3. /\ AfterFailure(job[f.job], f.attempt).state \notin ActiveStates
        /\ [job[f.job] EXCEPT !.state = "SUCCESS"].state \notin ActiveStates
    BY <2>1, <2>2, FailureIsInactive DEF JobRow, ActiveStates
  <2>4. \A i \in Jobs : job'[i] = job[i] \/ job'[i].state \notin ActiveStates
    BY <1>2, <2>3 DEF ResultWrite, StoreOK
  <2> QED BY <1>2, <2>4 DEF ResultWrite, Calm
<1>3. CASE RetryWrite(t)
  BY <1>3 DEF RetryWrite, Calm, StoreOK, JobRow, ActiveStates
<1>4. CASE CancelWrite(t)
  BY <1>4 DEF CancelWrite, Calm, StoreOK, JobRow, ActiveStates
<1>5. CASE Recompute(t) \/ RolloutWrite(t)
  BY <1>5 DEF Recompute, RolloutWrite, Calm
<1> QED BY <1>1, <1>2, <1>3, <1>4, <1>5 DEF StoreStep

\* A handler that runs as the tick is the recompute of a loop, and returns to it.
LEMMA StoreStepKeepsLoop ==
  ASSUME StoreOK, NEW t \in Threads, StoreStep(t), frame'[Tick] # frame[Tick]
  PROVE  /\ ~Sending' /\ tickAt' # "candidates"
         /\ Dispatching' => Dispatching
<1>t. Tick \in Threads /\ frame[Tick] \in GoodFrame
  BY DEF Threads, StoreOK
<1>0. t = Tick
  BY <1>t DEF StoreStep, ProgressWrite, ResultWrite, RetryWrite, CancelWrite,
              Recompute, RolloutWrite, StoreOK
<1>1. CASE ProgressWrite(t) \/ ResultWrite(t) \/ RetryWrite(t) \/ CancelWrite(t)
  <2>1. \/ frame'[Tick].at = "idle"
        \/ frame'[Tick].at = "recompute" /\ frame'[Tick].back \in {"idle", "tellAgent"}
    BY <1>0, <1>t, <1>1, FrameFields
    DEF ProgressWrite, ResultWrite, RetryWrite, CancelWrite, StoreOK
  <2> QED BY <2>1 DEF Sending, Dispatching, tickAt
<1>2. CASE Recompute(t) \/ RolloutWrite(t)
  <2>1. frame[Tick].at \in {"recompute", "rewrite"}
    BY <1>0, <1>2 DEF Recompute, RolloutWrite
  <2>2. frame[Tick].back \in {"idle", "requeue", "dispatch", "tellAgent"}
    BY <1>t, <2>1 DEF GoodFrame
  <2>3. \/ frame'[Tick].at = frame[Tick].back
        \/ frame'[Tick].at = "rewrite" /\ frame'[Tick].back = frame[Tick].back
    <3>1. CASE RolloutWrite(t)
      <4>1. frame'[Tick] = Returned(frame[Tick])
        BY <1>0, <1>t, <3>1 DEF RolloutWrite, StoreOK
      <4> QED BY <4>1, FrameFields
    <3>2. CASE Recompute(t)
      <4> DEFINE f == frame[t]
                 g == [f EXCEPT !.at = "rewrite", !.status = Verdict(f.rollout),
                                !.passes = CanaryPasses(f.rollout)]
      <4>1. frame' = [frame EXCEPT ![t] = Returned(f)] \/ frame' = [frame EXCEPT ![t] = g]
        BY <3>2 DEF Recompute
      <4>2. frame'[Tick] = Returned(f) \/ frame'[Tick] = g
        BY <1>0, <1>t, <4>1 DEF StoreOK
      <4>3. g.at = "rewrite" /\ g.back = f.back
        BY <1>0, <1>t DEF GoodFrame, Frame
      <4> QED BY <1>0, <4>2, <4>3, FrameFields, ZenonT(40)
    <3> QED BY <1>2, <3>1, <3>2
  <2> QED BY <2>1, <2>2, <2>3 DEF Sending, Dispatching, tickAt
<1> QED BY <1>1, <1>2 DEF StoreStep

LEMMA StoreStepKeepsCount ==
  ASSUME StoreOK, PassTypeOK, CountKept, NEW t \in Threads, StoreStep(t), pass' = pass
  PROVE  CountKept'
<1>1. Calm
  BY StoreStepIsCalm
<1>2. CASE frame'[Tick] = frame[Tick]
  BY <1>1, <1>2, CalmKeepsCount
<1>3. CASE frame'[Tick] # frame[Tick]
  BY <1>1, <1>3, StoreStepKeepsLoop, CalmGoesOn
<1> QED BY <1>2, <1>3

-----------------------------------------------------------------------------
(* The tick.                                                               *)

LEMMA TickWent ==
  ASSUME StoreOK, NEW l, TickGoes(l)
  PROVE  frame'[Tick].at = l
<1>1. Tick \in Threads
  BY DEF Threads
<1> QED BY <1>1, FrameFields DEF TickGoes, StoreOK

\* The steps that take nothing in hand.
LEMMA LoopStepKeepsCount ==
  ASSUME StoreOK, PassTypeOK, CountKept,
         TickStarts \/ Promote \/ StalledRead \/ Requeue \/ Skip \/ TickEnds
  PROVE  CountKept'
<1>t. Tick \in Threads
  BY DEF Threads
<1>1. CASE TickStarts \/ StalledRead \/ TickEnds
  <2>1. Calm
    BY <1>1 DEF TickStarts, StalledRead, TickEnds, Calm
  <2>2. frame'[Tick].at \in {"promote", "requeue", "idle"}
    BY <1>1, TickWent DEF TickStarts, StalledRead, TickEnds
  <2>3. ~Sending' /\ ~Dispatching' /\ tickAt' # "candidates"
    BY <2>2 DEF Sending, Dispatching, tickAt
  <2> QED BY <2>1, <2>3, CalmGoesOn
<1>2. CASE Promote
  <2>1. Calm /\ tickAt' = "promote"
    BY <1>2 DEF Promote, Calm, tickAt
  <2>2. ~Sending' /\ ~Dispatching' /\ tickAt' # "candidates"
    BY <2>1 DEF Sending, Dispatching, tickAt
  <2> QED BY <2>1, <2>2, CalmGoesOn
<1>3. CASE Requeue
  <2>1. PICK j \in pass.todo :
          /\ job' = [job EXCEPT ![j] = AfterFailure(@, pass.seen[j])]
          /\ frame' = [frame EXCEPT ![Tick] = Recomputing(RolloutOf[j], "requeue", None)]
    BY <1>3 DEF Requeue
  <2>2. j \in Jobs /\ pass.seen[j] \in Nat /\ job[j] \in JobRow
    BY DEF PassTypeOK, Pass, StoreOK
  <2>3. AfterFailure(job[j], pass.seen[j]).state \notin ActiveStates
    BY <2>2, FailureIsInactive
  <2>4. Calm
    BY <1>3, <2>1, <2>3 DEF Requeue, Calm, StoreOK
  <2>5. frame'[Tick].at = "recompute" /\ frame'[Tick].back = "requeue"
    BY <1>t, <2>1, FrameFields DEF StoreOK
  <2>6. ~Sending' /\ ~Dispatching' /\ tickAt' # "candidates"
    BY <2>5 DEF Sending, Dispatching, tickAt
  <2> QED BY <2>4, <2>6, CalmGoesOn
<1>4. CASE Skip
  <2>1. /\ UNCHANGED <<job, frame, revived>>
        /\ tickAt = "dispatch"
        /\ \E j \in Jobs : pass' = Visited(j)
    BY <1>4 DEF Skip, storeVars
  <2>2. pass'.room = pass.room /\ pass'.site = pass.site
    BY <2>1 DEF Visited, PassTypeOK, Pass
  <2>3. Calm /\ ~Sending' /\ Dispatching /\ tickAt' = tickAt
    BY <2>1 DEF Calm, Sending, Dispatching, tickAt
  <2> QED BY <2>1, <2>2, <2>3, CalmGoesOn
<1> QED BY <1>1, <1>2, <1>3, <1>4

\* The room is what is left beside every active job, counted or not.
LEMMA CountActiveKeepsCount ==
  ASSUME StoreOK, PassTypeOK, CountKept, CountActive
  PROVE  CountKept'
<1>1. Counted' = Counted /\ CountedAtSite' = CountedAtSite
  BY DEF CountActive, Counted, CountedAtSite, Active, IsActive
<1>2. frame'[Tick].at \in {"idle", "candidates"}
  BY TickWent DEF CountActive
<1>3. ~Sending' /\ ~Dispatching'
  BY <1>2 DEF Sending, Dispatching, tickAt
<1>4. /\ Cardinality(Counted) \in Nat /\ Cardinality(Active) \in Nat
      /\ Cardinality(Counted) <= Cardinality(Active)
  <2>1. Active \in SUBSET Jobs /\ Counted \in SUBSET Active
    BY DEF Counted, Active
  <2> QED BY <2>1, FewerJobs
<1>5. tickAt' = "candidates" => pass'.room = MaxConcurrentJobs - Cardinality(Active)
  <2>1. TickGoes("idle") => tickAt' = "idle"
    BY TickWent DEF tickAt
  <2>2. \A n : [pass EXCEPT !.room = n].room = n
    BY DEF PassTypeOK, Pass
  <2> QED BY <2>1, <2>2 DEF CountActive
<1>6. RoomKept'
  BY <1>1, <1>3, <1>4, <1>5, Limits DEF CountKept, RoomKept
<1> QED BY <1>1, <1>3, <1>6 DEF CountKept, SiteKept

\* What runs at the site is counted before the loop.
LEMMA CandidatesReadKeepsCount ==
  ASSUME StoreOK, PassTypeOK, CountKept, CandidatesRead
  PROVE  CountKept'
<1>1. Counted' = Counted /\ CountedAtSite' = CountedAtSite
  BY DEF CandidatesRead, Counted, CountedAtSite, Active, IsActive
<1>2. \/ frame'[Tick].at = "idle"
      \/ /\ frame'[Tick].at = "dispatch"
         /\ pass' = [Reading(Candidates) EXCEPT
                       !.site = Cardinality({j \in Active : AtSite(j)})]
  BY TickWent DEF CandidatesRead
<1>3. ~Sending' /\ tickAt' # "candidates"
  BY <1>2 DEF Sending, tickAt
<1>4. Dispatching' => /\ pass'.room = pass.room
                      /\ pass'.site = Cardinality({j \in Active : AtSite(j)})
  <2>1. /\ [Reading(Candidates) EXCEPT
              !.site = Cardinality({j \in Active : AtSite(j)})].room = pass.room
        /\ [Reading(Candidates) EXCEPT
              !.site = Cardinality({j \in Active : AtSite(j)})].site
             = Cardinality({j \in Active : AtSite(j)})
    BY DEF Reading, PassTypeOK, Pass
  <2> QED BY <1>2, <2>1 DEF Dispatching, tickAt
<1>5. /\ Cardinality(CountedAtSite) \in Nat
      /\ Cardinality({j \in Active : AtSite(j)}) \in Nat
      /\ Cardinality(CountedAtSite) <= Cardinality({j \in Active : AtSite(j)})
  <2>1. /\ {j \in Active : AtSite(j)} \in SUBSET Jobs
        /\ CountedAtSite \in SUBSET {j \in Active : AtSite(j)}
    BY DEF CountedAtSite, Counted, Active
  <2> QED BY <2>1, FewerJobs
<1>6. tickAt = "candidates"
  BY DEF CandidatesRead
<1>7. RoomKept'
  BY <1>1, <1>3, <1>4, <1>6 DEF CountKept, RoomKept
<1>8. SiteKept'
  BY <1>1, <1>3, <1>4, <1>5 DEF CountKept, SiteKept
<1> QED BY <1>7, <1>8 DEF CountKept

\* Marking a job adds at most that one.
LEMMA MarkKeepsCount ==
  ASSUME StoreOK, PassTypeOK, CountKept, Mark
  PROVE  CountKept'
<1>t. Tick \in Threads
  BY DEF Threads
<1>1. PICK j \in Jobs :
        /\ ~IsHeldBack(j)
        /\ job' = [job EXCEPT ![j].state = "DISPATCHED",
                              ![j].attempt = pass.seen[j] + 1, ![j].stale = FALSE]
        /\ frame' = [frame EXCEPT ![Tick] = [AtJob("send", j) EXCEPT !.attempt = pass.seen[j]]]
        /\ pass' = Visited(j)
        /\ revived' = revived \ {j}
  BY DEF Mark
<1>2. tickAt = "dispatch" /\ pass.room > 0
  BY DEF Mark
<1>3. frame'[Tick].at = "send" /\ frame'[Tick].job = j
  <2>1. /\ [AtJob("send", j) EXCEPT !.attempt = pass.seen[j]].at = "send"
        /\ [AtJob("send", j) EXCEPT !.attempt = pass.seen[j]].job = j
    BY DEF AtJob, Idle
  <2> QED BY <1>t, <1>1, <2>1 DEF StoreOK
<1>4. pass'.room = pass.room /\ pass'.site = pass.site
  BY <1>1 DEF Visited, PassTypeOK, Pass
<1>5. pass.room \in Int /\ pass.site \in Nat
  BY DEF PassTypeOK, Pass
<1>6. Counted' \in SUBSET Jobs /\ CountedAtSite' \in SUBSET Jobs
  BY DEF Counted, CountedAtSite, Active
<1>7. /\ Counted' \ {j} \in SUBSET Counted
      /\ CountedAtSite' \ {j} \in SUBSET CountedAtSite
      /\ ~AtSite(j) => CountedAtSite' \in SUBSET CountedAtSite
  <2>1. \A i \in Jobs \ {j} : job'[i] = job[i]
    BY <1>1 DEF StoreOK
  <2>2. \A i \in Counted' : i # j => i \in Counted
    BY <1>1, <2>1 DEF Counted, Active, IsActive
  <2> QED BY <2>2 DEF CountedAtSite, AtSite
<1>8. /\ Cardinality(Counted') \in Nat /\ Cardinality(Counted' \ {j}) \in Nat
      /\ Cardinality(Counted) \in Nat
      /\ Cardinality(Counted') <= Cardinality(Counted' \ {j}) + 1
      /\ Cardinality(Counted' \ {j}) <= Cardinality(Counted)
  BY <1>6, <1>7, CountedAreJobs, FewerJobs, OneMoreJob
<1>9. /\ Cardinality(CountedAtSite') \in Nat /\ Cardinality(CountedAtSite' \ {j}) \in Nat
      /\ Cardinality(CountedAtSite) \in Nat
      /\ Cardinality(CountedAtSite') <= Cardinality(CountedAtSite' \ {j}) + 1
      /\ Cardinality(CountedAtSite' \ {j}) <= Cardinality(CountedAtSite)
      /\ ~AtSite(j) => Cardinality(CountedAtSite') <= Cardinality(CountedAtSite)
  BY <1>6, <1>7, CountedAreJobs, FewerJobs, OneMoreJob
<1>10. Dispatching /\ ~Dispatching' /\ tickAt' # "candidates"
  BY <1>2, <1>3 DEF Dispatching, tickAt
<1>11. AtSite(j) => pass.site < SiteLimit
  BY <1>1, <1>5, Limits DEF IsHeldBack
<1>12. RoomKept'
  BY <1>2, <1>3, <1>4, <1>5, <1>8, <1>10, Limits DEF CountKept, RoomKept
<1>13. SiteKept'
  <2>1. Cardinality(CountedAtSite') <= SiteLimit
    BY <1>5, <1>9, <1>10, <1>11, Limits DEF CountKept, SiteKept
  <2>2. Cardinality(CountedAtSite' \ {j}) <= pass'.site
    BY <1>4, <1>5, <1>9, <1>10 DEF CountKept, SiteKept
  <2>3. AtSite(frame[Tick].job)' => pass'.site < SiteLimit
    BY <1>3, <1>4, <1>11 DEF AtSite
  <2> QED BY <1>3, <1>10, <2>1, <2>2, <2>3 DEF SiteKept
<1> QED BY <1>12, <1>13 DEF CountKept

\* Sending counts it, failing to send puts it back.
LEMMA SendKeepsCount ==
  ASSUME StoreOK, PassTypeOK, CountKept, Send \/ SendFails \/ PutBack
  PROVE  CountKept'
<1> DEFINE j == frame[Tick].job
<1>t. Tick \in Threads /\ frame[Tick] \in GoodFrame
  BY DEF Threads, StoreOK
<1>j. Sending /\ j \in Jobs
  BY <1>t DEF Send, SendFails, PutBack, Sending, tickAt, GoodFrame
<1>p. pass.room \in Int /\ pass.site \in Nat
  BY DEF PassTypeOK, Pass
<1>n. /\ Cardinality(Counted) \in Nat /\ Cardinality(Counted \ {j}) \in Nat
      /\ Cardinality(Counted) <= Cardinality(Counted \ {j}) + 1
      /\ Cardinality(CountedAtSite) \in Nat /\ Cardinality(CountedAtSite \ {j}) \in Nat
      /\ Cardinality(CountedAtSite) <= Cardinality(CountedAtSite \ {j}) + 1
  BY CountedAreJobs, OneMoreJob
<1>1. CASE Send
  <2>1. Counted' = Counted /\ CountedAtSite' = CountedAtSite
    BY <1>1 DEF Send, Counted, CountedAtSite, Active, IsActive
  <2>2. frame'[Tick].at = "recompute"
    BY <1>1, <1>t, FrameFields DEF Send, StoreOK
  <2>3. /\ pass'.room = pass.room - 1
        /\ pass'.site = IF AtSite(j) THEN pass.site + 1 ELSE pass.site
    BY <1>1 DEF Send, PassTypeOK, Pass
  <2>4. ~Sending' /\ tickAt' # "candidates"
    BY <2>2 DEF Sending, tickAt
  <2>5. RoomKept'
    BY <1>j, <1>p, <1>n, <2>1, <2>3, <2>4, Limits DEF CountKept, RoomKept
  <2>6. ~AtSite(j) => CountedAtSite \ {j} = CountedAtSite
    BY DEF CountedAtSite
  <2>7. Cardinality(CountedAtSite \ {j}) <= pass.site /\ Cardinality(CountedAtSite) <= SiteLimit
    BY <1>j DEF CountKept, SiteKept
  <2>8. Cardinality(CountedAtSite') <= pass'.site
    <3>1. CASE AtSite(j)
      BY <1>p, <1>n, <2>1, <2>3, <2>7, <3>1
    <3>2. CASE ~AtSite(j)
      BY <1>p, <1>n, <2>1, <2>3, <2>6, <2>7, <3>2
    <3> QED BY <3>1, <3>2
  <2>9. SiteKept'
    BY <2>1, <2>4, <2>7, <2>8 DEF SiteKept
  <2> QED BY <2>5, <2>9 DEF CountKept
<1>2. CASE SendFails
  <2>1. /\ UNCHANGED <<job, revived, pass>>
        /\ frame'[Tick].at = "unsend" /\ frame'[Tick].job = j
    BY <1>2, <1>t DEF SendFails, StoreOK, GoodFrame, Frame
  <2>2. Counted' = Counted /\ CountedAtSite' = CountedAtSite
    BY <2>1 DEF Counted, CountedAtSite, Active, IsActive
  <2>3. ~Dispatching' /\ tickAt' # "candidates"
    BY <2>1 DEF Dispatching, tickAt
  <2>4. AtSite(frame[Tick].job)' = AtSite(j)
    BY <2>1 DEF AtSite
  <2> QED BY <1>j, <2>1, <2>2, <2>3, <2>4 DEF CountKept, RoomKept, SiteKept
<1>3. CASE PutBack
  <2>1. /\ job' = [job EXCEPT ![j].state = "QUEUED", ![j].attempt = frame[Tick].attempt,
                              ![j].stale = FALSE]
        /\ UNCHANGED <<revived, pass>>
    BY <1>3 DEF PutBack
  <2>2. frame'[Tick].at = "dispatch"
    BY <1>3, TickWent DEF PutBack
  <2>3. /\ Counted' \in SUBSET (Counted \ {j})
        /\ CountedAtSite' \in SUBSET (CountedAtSite \ {j})
    <3>1. \A i \in Jobs : i # j => job'[i] = job[i]
      BY <2>1 DEF StoreOK
    <3>2. job'[j].state = "QUEUED"
      BY <1>j, <2>1 DEF StoreOK, JobRow
    <3>3. Counted' \in SUBSET (Counted \ {j})
      BY <2>1, <3>1, <3>2 DEF Counted, Active, IsActive, ActiveStates
    <3> QED BY <3>3 DEF CountedAtSite, AtSite
  <2>4. /\ Cardinality(Counted') \in Nat
        /\ Cardinality(Counted') <= Cardinality(Counted \ {j})
        /\ Cardinality(CountedAtSite') \in Nat
        /\ Cardinality(CountedAtSite') <= Cardinality(CountedAtSite \ {j})
    <3>1. Counted \ {j} \in SUBSET Jobs /\ CountedAtSite \ {j} \in SUBSET Jobs
      BY CountedAreJobs
    <3> QED BY <2>3, <3>1, FewerJobs
  <2>5. ~Sending'
    BY <2>2 DEF Sending, tickAt
  <2>6. RoomKept'
    BY <1>j, <1>p, <1>n, <2>1, <2>4, <2>5, Limits DEF CountKept, RoomKept
  <2>7. Cardinality(CountedAtSite \ {j}) <= SiteLimit
    <3>1. CountedAtSite \ {j} \in SUBSET CountedAtSite
      OBVIOUS
    <3>2. Cardinality(CountedAtSite \ {j}) <= Cardinality(CountedAtSite)
      BY <3>1, CountedAreJobs, FewerJobs
    <3> QED BY <1>n, <3>2, Limits DEF CountKept, SiteKept
  <2>8. SiteKept'
    BY <1>j, <1>p, <1>n, <2>1, <2>4, <2>5, <2>7, Limits DEF CountKept, SiteKept
  <2> QED BY <2>6, <2>8 DEF CountKept
<1> QED BY <1>1, <1>2, <1>3

-----------------------------------------------------------------------------
(* The theorems.                                                           *)

\* No step of a socket, a box or a request, and no passing of time, makes a job
\* active or moves the tick.
LEMMA OtherStepIsCalm ==
  ASSUME StoreOK,
         \/ \E s \in Sockets : Socket(s)
         \/ \E d \in Devices : Dials(d) \/ Box(d) \/ Fault(d) \/ Reports(d) \/ Beats(d)
         \/ \E j \in Jobs : Ages(j) \/ BackoffEnds(j)
         \/ \E r \in Rollouts : SoakEnds(r)
         \/ \E q \in Requests : Request(q) \/ Ask(q)
         \/ \E q \in Requests, r \in Rollouts : Creates(q, r)
  PROVE  Calm /\ frame'[Tick] = frame[Tick] /\ pass' = pass
<1>t. /\ Tick \in Threads /\ Tick \notin Sockets /\ Tick \notin Requests
      /\ OwnerOf \in [Sockets -> Devices]
  BY JobStoreAssumption, DeviceLinkAssumption
  DEF Threads, JobStoreAssumption, DeviceLinkAssumption
<1>1. ASSUME NEW s \in Sockets, Socket(s)
      PROVE  Calm /\ frame'[Tick] = frame[Tick] /\ pass' = pass
  <2>1. CASE SetupDone(s)
    BY <1>t, <1>1, <2>1 DEF Socket, SetupDone, Calm, StoreOK, storeVars
  <2>2. CASE SocketCloses(s)
    BY <1>t, <1>1, <2>2 DEF Socket, SocketCloses, Calm, StoreOK, storeVars
  <2>3. CASE Receive(s)
    <3>1. \E f : frame' = [frame EXCEPT ![s] = f]
      BY <2>3 DEF Receive, ReconcileOn
    <3>2. UNCHANGED <<job, revived, pass>>
      BY <1>1, <2>3 DEF Socket, Receive
    <3> QED BY <1>t, <3>1, <3>2 DEF Calm, StoreOK
  <2>4. CASE ReconcileWrite(s)
    BY <1>t, <1>1, <2>4
    DEF Socket, ReconcileWrite, ReconcileOn, Calm, StoreOK, JobRow, ActiveStates
  <2> QED BY <1>1, <2>1, <2>2, <2>3, <2>4 DEF Socket, SocketStep
<1>2. ASSUME NEW d \in Devices, Dials(d) \/ Box(d) \/ Fault(d) \/ Reports(d) \/ Beats(d)
      PROVE  Calm /\ frame'[Tick] = frame[Tick] /\ pass' = pass
  <2>1. CASE Dials(d)
    <3>1. Connect(d) /\ pass' = pass
      BY <2>1 DEF Dials
    <3>2. Unused(d) # {} /\ UNCHANGED <<job, revived>>
      BY <3>1 DEF Connect
    <3>3. \E s \in Unused(d) : frame' = [frame EXCEPT ![s] = At("setup")]
      BY <3>1, <3>2 DEF Connect
    <3> QED BY <1>t, <3>1, <3>2, <3>3 DEF Unused, Calm, StoreOK
  <2>2. CASE Box(d) \/ Fault(d) \/ Reports(d)
    BY <2>2 DEF Box, BoxStep, Hello, Handle, Finish, FreesSlot, Fault, BoxFault, SessionDrops,
                BoxRestarts, Reports, Progress, Calm, storeVars
  <2>3. CASE Beats(d)
    BY <2>3 DEF Beats, Heartbeat, Calm, StoreOK, JobRow
  <2> QED BY <1>2, <2>1, <2>2, <2>3
<1>3. ASSUME NEW j \in Jobs, Ages(j) \/ BackoffEnds(j)
      PROVE  Calm /\ frame'[Tick] = frame[Tick] /\ pass' = pass
  BY <1>3 DEF Ages, HeartbeatAges, BackoffEnds, BackoffElapses, Calm, StoreOK, JobRow
<1>4. ASSUME NEW r \in Rollouts, SoakEnds(r)
      PROVE  Calm /\ frame'[Tick] = frame[Tick] /\ pass' = pass
  BY <1>4 DEF SoakEnds, SoakElapses, Calm
<1>5. ASSUME NEW q \in Requests, Request(q) \/ Ask(q)
      PROVE  Calm /\ frame'[Tick] = frame[Tick] /\ pass' = pass
  <2>1. CASE Ask(q)
    BY <1>t, <2>1 DEF Ask, AskRetryJob, AskCancelJob, AskCancelRollout, AskResume, Calm, StoreOK
  <2>2. CASE TellAgent(q)
    BY <1>t, <2>2 DEF TellAgent, Calm, StoreOK
  <2>3. CASE CancelJobsOf(q)
    <3>1. \A i \in Jobs : \/ job'[i] = job[i]
                          \/ job'[i] = [job[i] EXCEPT !.state = "CANCELLED"]
      BY <2>3 DEF CancelJobsOf
    <3>2. \A i \in Jobs : job'[i] = job[i] \/ job'[i].state \notin ActiveStates
      BY <3>1 DEF StoreOK, JobRow, ActiveStates
    <3>3. /\ frame' = [frame EXCEPT ![q].at = "closeRollout", ![q].todo = {}]
          /\ UNCHANGED <<pass, revived>>
      BY <2>3 DEF CancelJobsOf
    <3>4. frame'[Tick] = frame[Tick]
      BY <1>t, <3>3 DEF StoreOK
    <3> QED BY <3>2, <3>3, <3>4 DEF Calm
  <2>4. CASE CloseRollout(q)
    BY <1>t, <2>4 DEF CloseRollout, Calm, StoreOK
  <2>5. CASE ResumeWrite(q)
    BY <1>t, <2>5 DEF ResumeWrite, Calm, StoreOK
  <2> QED BY <1>5, <2>1, <2>2, <2>3, <2>4, <2>5 DEF Request, RequestStep
<1>6. ASSUME NEW q \in Requests, NEW r \in Rollouts, Creates(q, r)
      PROVE  Calm /\ frame'[Tick] = frame[Tick] /\ pass' = pass
  <2>1. CreateRollout(q, r)
    BY <1>6 DEF Creates
  <2>2. PICK skipped \in SUBSET JobsOf(r) :
          \E canaries \in SUBSET (JobsOf(r) \ skipped) : job' = [i \in Jobs |->
             IF i \notin JobsOf(r) THEN job[i]
             ELSE [NoJob EXCEPT
                     !.state = IF i \in skipped THEN "SKIPPED" ELSE "QUEUED",
                     !.canary = i \in canaries]]
    BY <2>1 DEF CreateRollout
  <2>3. PICK canaries \in SUBSET (JobsOf(r) \ skipped) : job' = [i \in Jobs |->
             IF i \notin JobsOf(r) THEN job[i]
             ELSE [NoJob EXCEPT
                     !.state = IF i \in skipped THEN "SKIPPED" ELSE "QUEUED",
                     !.canary = i \in canaries]]
    BY <2>2
  <2>4. \A x, b : [NoJob EXCEPT !.state = IF x THEN "SKIPPED" ELSE "QUEUED",
                                !.canary = b].state \notin ActiveStates
    BY DEF NoJob, ActiveStates
  <2>5. \A i \in Jobs : \/ job'[i] = job[i]
                        \/ job'[i] = [NoJob EXCEPT
                             !.state = IF i \in skipped THEN "SKIPPED" ELSE "QUEUED",
                             !.canary = i \in canaries]
    BY <2>3
  <2>6. \A i \in Jobs : job'[i] = job[i] \/ job'[i].state \notin ActiveStates
    BY <2>4, <2>5
  <2> QED BY <1>t, <2>1, <2>6 DEF CreateRollout, Calm, StoreOK
<1> QED BY <1>1, <1>2, <1>3, <1>4, <1>5, <1>6

LEMMA CountKeptInitially == Init => CountKept
<1> SUFFICES ASSUME Init PROVE CountKept
  OBVIOUS
<1>1. Tick \in Threads
  BY DEF Threads
<1>2. frame[Tick].at = "idle"
  BY <1>1, FrameFields DEF Init, StoreInit
<1>3. Counted = {} /\ CountedAtSite = {}
  BY DEF Init, StoreInit, NoJob, Counted, CountedAtSite, Active, IsActive, ActiveStates
<1> QED BY <1>2, <1>3, FS_EmptySet, Limits
        DEF CountKept, RoomKept, SiteKept, Sending, Dispatching, tickAt

LEMMA StepKeepsCount == WellTyped /\ CountKept /\ [Next]_vars => CountKept'
<1> SUFFICES ASSUME WellTyped, CountKept, [Next]_vars PROVE CountKept'
  OBVIOUS
<1> USE DEF WellTyped
<1>1. ASSUME NEW t \in Threads, Store(t) PROVE CountKept'
  BY <1>1, StoreStepKeepsCount DEF Store
<1>2. CASE TickRuns
  BY <1>2, LoopStepKeepsCount, CountActiveKeepsCount, CandidatesReadKeepsCount,
     MarkKeepsCount, SendKeepsCount DEF TickRuns, TickStep
<1>3. CASE HubCrash
  <2>1. frame'[Tick].at = "idle"
    BY <1>3, FrameFields DEF HubCrash, Threads
  <2>2. Calm /\ ~Sending' /\ ~Dispatching' /\ tickAt' # "candidates"
    BY <1>3, <2>1 DEF HubCrash, Calm, Sending, Dispatching, tickAt
  <2> QED BY <2>2, CalmGoesOn
<1>4. CASE UNCHANGED vars
  BY <1>4, CalmKeepsCount DEF vars, storeVars, Calm
<1> QED BY <1>1, <1>2, <1>3, <1>4, OtherStepIsCalm, CalmKeepsCount DEF Next

LEMMA AlwaysCountKept == Spec => []CountKept
BY CountKeptInitially, StepKeepsCount, AlwaysWellTyped, PTL DEF Spec

\* A tick never dispatches into room that is not there, however long its loop
\* takes and whatever is answered, cancelled, retried or reconciled meanwhile.
THEOREM TheCapHolds == Spec => []CapHolds
<1>1. CountKept => CapHolds
  BY DEF CountKept, RoomKept, CapHolds, Counted
<1> QED BY <1>1, AlwaysCountKept, PTL

\* Nor does it exceed the limit of a site.
THEOREM TheSiteCapHolds == Spec => []SiteCapHolds
<1>1. CountKept => SiteCapHolds
  BY DEF CountKept, SiteKept, SiteCapHolds, Counted, CountedAtSite
<1> QED BY <1>1, AlwaysCountKept, PTL
=============================================================================
