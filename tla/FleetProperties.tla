-------------------------- MODULE FleetProperties --------------------------
(***************************************************************************)
(* What a fleet promises, and what its documentation and comments say it   *)
(* promises.                                                               *)
(***************************************************************************)
EXTENDS Fleet

\* Every variable keeps its type: rows, frames, queues and what a tick has
\* read never leave the values the code's types allow.
TypeOK ==
  /\ StoreTypeOK
  /\ LinkTypeOK
  /\ PassTypeOK
  /\ RequestTypeOK
  /\ crashes \in Nat

-----------------------------------------------------------------------------
(* What a box is told to do.                                               *)

\* The install of j is with its box, or on its way there.
HandedOut(j) ==
  LET d == DeviceOf[j] IN
  \/ agent[d].job = j
  \/ \E s \in Sockets : \E i \in DOMAIN outbox[s] :
       outbox[s][i] = [kind |-> "install", job |-> j]

\* A canary of r was completely installed on some box, or the operator took
\* the decision instead.
IsProven(r) == r \in resumed \/ \E i \in CanariesOf(r) : i \in installed

\* A rollout with canaries reaches no other box before a canary has really
\* installed the version or an operator has resumed the rollout, whatever
\* ticks, sockets and requests have read before each other's writes.
CanaryFirst ==
  \A j \in Jobs :
    LET r == RolloutOf[j] IN
    HandedOut(j) /\ CanariesOf(r) # {} /\ ~job[j].canary => IsProven(r)

\* A job is a SUCCESS only if its box has completely installed the version:
\* no lost, late or repeated frame, and no race, makes one up.
SuccessIsReal == \A j \in Jobs : job[j].state = "SUCCESS" => j \in installed

-----------------------------------------------------------------------------
(* Concurrency.                                                            *)

\* However ticks, results and reconnects interleave, a tick dispatches into
\* room that is there: maxConcurrentJobs is only ever exceeded by jobs that a
\* progress frame made active behind the scheduler's back.
CapHolds == Cardinality(Active \ revived) <= MaxConcurrentJobs

\* The same for the limit of a group, which counts only its own boxes.
SiteCapHolds ==
  Cardinality({j \in Active \ revived : AtSite(j)}) <= SiteLimit

-----------------------------------------------------------------------------
(* The books of a rollout.                                                 *)

\* Once no handler is under way, an open rollout has the status its jobs call
\* for: every change of a job was followed by a recompute, and none that read
\* old rows wrote last.
BooksBalance ==
  (\A t \in Threads : frame[t] = Idle) =>
    \A r \in Rollouts :
      rollout[r].status \in {"CANARY", "SOAKING", "RUNNING"} => Verdict(r) = rollout[r].status

-----------------------------------------------------------------------------
(* Progress.                                                               *)

\* A job that a tick may dispatch does not wait for ever: it is dispatched, or
\* its rollout stops dispatching.
NoJobStarves ==
  \A j \in Jobs :
    LET MayGo == /\ job[j].state = "QUEUED"
                 /\ \/ rollout[RolloutOf[j]].status = "RUNNING"
                    \/ rollout[RolloutOf[j]].status = "CANARY" /\ job[j].canary
    IN  MayGo ~> ~MayGo

\* No job stays DISPATCHED or WORKING for ever: its box answers, or the stall
\* timeout takes it back, even from a box that never returns.
ActiveDrains == \A j \in Jobs : IsActive(j) ~> ~IsActive(j)

\* A rollout that was created ends: COMPLETED, CANCELLED, or PAUSED for an
\* operator to look at.
RolloutEnds ==
  \A r \in Rollouts :
    rollout[r].status # "ABSENT"
      ~> rollout[r].status \in {"COMPLETED", "CANCELLED", "PAUSED"}

-----------------------------------------------------------------------------
(* The licence to touch boxes that are not canaries.                       *)

\* canaryPassedAt is set, or there were no canaries to wait for.
Released ==
  {r \in Rollouts : /\ rollout[r].status # "ABSENT"
                    /\ rollout[r].passed # "never" \/ CanariesOf(r) = {}}

Licence == INSTANCE RolloutLicence
  WITH status <- [r \in Rollouts |-> rollout[r].status],
       proven <- {r \in Rollouts : \E j \in CanariesOf(r) : j \in installed},
       released <- Released,
       touched <- {r \in Rollouts : \E j \in JobsOf(r) : j \in started /\ ~job[j].canary}

\* The fleet implements the licence of RolloutLicence: whatever order ticks,
\* answers and requests write in, canaryPassedAt is only ever set after a canary
\* has installed or by the operator, and is set before any other box begins.
LicenceHolds == Licence!Spec
=============================================================================
