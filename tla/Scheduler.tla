----------------------------- MODULE Scheduler -----------------------------
(***************************************************************************)
(* services/scheduler.ts: one tick at a time (`running`), as the thread    *)
(* Tick.  A tick promotes soaked rollouts, re-queues stalled jobs, then    *)
(* reads the room left, the candidates and the load of each group, and     *)
(* dispatches from that snapshot.  `pass` is what the tick has read.       *)
(*                                                                         *)
(* Abstracted: `rerun` and nudge(), which only bring the next tick         *)
(* forward; the maintenance window, approval and the artifact cache, which *)
(* are taken as open; the order of candidates, except canaries first;      *)
(* metrics and monitoring, which a tick runs between the two halves.       *)
(***************************************************************************)
EXTENDS DeviceLink, Integers

CONSTANTS MaxConcurrentJobs,   \* HubSettings.maxConcurrentJobs
          Site,                \* the devices of one group with a limit
          SiteLimit,           \* DeviceGroup.maxConcurrency of that group
          RolloutLimit         \* Rollout.maxConcurrency

ASSUME SchedulerAssumption ==
  /\ MaxConcurrentJobs \in Nat
  /\ Site \subseteq Devices
  /\ SiteLimit \in Nat
  /\ RolloutLimit \in Nat

VARIABLE pass

Pass == [soaked : SUBSET Rollouts,         \* promoteSoakingRollouts
         todo : SUBSET Jobs,               \* requeueStalled, then candidates
         seen : [Jobs -> Nat],             \* the attempt of each, as read
         room : Int,                       \* capacity
         site : Nat,                       \* groupActive of the limited group
         used : [Rollouts -> Nat]]         \* rolloutActive

NoPass == [soaked |-> {}, todo |-> {}, seen |-> [j \in Jobs |-> 0], room |-> 0,
           site |-> 0, used |-> [r \in Rollouts |-> 0]]

PassInit == pass = NoPass
PassTypeOK == pass \in Pass

tickAt == frame[Tick].at
TickGoes(label) == frame' = [frame EXCEPT ![Tick] = At(label)]

\* The rows of a query, with the attempt count each was read with.
Reading(rows) ==
  [pass EXCEPT !.todo = rows,
               !.seen = [j \in Jobs |-> IF j \in rows THEN job[j].attempt ELSE 0]]

Visited(j) ==
  [pass EXCEPT !.todo = @ \ {j}, !.seen[j] = 0]

Ripe == {r \in Rollouts : rollout[r].status = "SOAKING" /\ rollout[r].passed = "ripe"}
\* Mutant: a job its box never began is not stalled.
StalledAtWork == {j \in Jobs : job[j].state = "WORKING" /\ job[j].stale}

Stalled == {j \in Active : job[j].stale}
\* Mutant: the canary rule is left out of the loop.
CandidatesOfAnyKind ==
  {j \in Jobs : /\ job[j].state = "QUEUED"
                /\ rollout[RolloutOf[j]].status \in {"CANARY", "RUNNING"}
                /\ ~job[j].held}

Candidates ==
  {j \in Jobs : /\ job[j].state = "QUEUED"
                /\ rollout[RolloutOf[j]].status \in {"CANARY", "RUNNING"}
                /\ ~job[j].held
                \* skipped in the loop, from the same snapshot
                /\ rollout[RolloutOf[j]].status = "CANARY" => job[j].canary}

\* Bound: a tick whose queries all come back empty is not started.  It would
\* change nothing, and whatever gives the next one work also nudges it.
HasWork ==
  \/ Ripe # {}
  \/ Stalled # {}
  \/ /\ Cardinality(Active) < MaxConcurrentJobs
     /\ \E j \in Candidates : IsOnline(DeviceOf[j])

-----------------------------------------------------------------------------
(* promoteSoakingRollouts: one query, then an unconditional update for     *)
(* each rollout whose soak was over.  Bound: with Prompt, a status write    *)
(* that is under way lands before a tick starts.                           *)
TickStarts ==
  /\ tickAt = "idle"
  /\ HasWork
  /\ Prompt => \A t \in Threads : frame[t].at # "rewrite"
  /\ pass' = [pass EXCEPT !.soaked = Ripe]
  /\ TickGoes("promote")
  /\ UNCHANGED <<job, rollout, revived, linkVars>>

Promote ==
  /\ tickAt = "promote"
  /\ \E r \in pass.soaked :
       /\ rollout' = [rollout EXCEPT ![r].status = "RUNNING"]
       /\ pass' = [pass EXCEPT !.soaked = @ \ {r}]
  /\ UNCHANGED <<job, revived, frame, linkVars>>

(* requeueStalled: one query, then an update from the snapshot and a       *)
(* recomputeRollout for each row.                                          *)
StalledRead ==
  /\ tickAt = "promote"
  /\ pass.soaked = {}
  /\ pass' = Reading(Stalled)
  /\ TickGoes("requeue")
  /\ UNCHANGED <<job, rollout, revived, linkVars>>

Requeue ==
  /\ tickAt = "requeue"
  /\ \E j \in pass.todo :
       /\ job' = [job EXCEPT ![j] = AfterFailure(@, pass.seen[j])]
       /\ pass' = Visited(j)
       /\ frame' = [frame EXCEPT ![Tick] = Recomputing(RolloutOf[j], "requeue", None)]
  /\ UNCHANGED <<rollout, revived, linkVars>>

-----------------------------------------------------------------------------
(* dispatchQueued.                                                         *)
AtSite(j) == DeviceOf[j] \in Site

CountActive ==
  LET room == MaxConcurrentJobs - Cardinality(Active) IN
  /\ tickAt = "requeue"
  /\ pass.todo = {}
  /\ IF room <= 0 THEN pass' = NoPass /\ TickGoes("idle")
     ELSE pass' = [pass EXCEPT !.room = room] /\ TickGoes("candidates")
  /\ UNCHANGED <<job, rollout, revived, linkVars>>

\* The candidates and, in the next query, what is running at the limited site:
\* one step here.
CandidatesRead ==
  /\ tickAt = "candidates"
  /\ IF Candidates = {} THEN pass' = NoPass /\ TickGoes("idle")
     ELSE /\ pass' = [Reading(Candidates) EXCEPT
                        !.site = Cardinality({j \in Active : AtSite(j)})]
          /\ TickGoes("dispatch")
  /\ UNCHANGED <<job, rollout, revived, linkVars>>

\* j is the next candidate of the snapshot: canaries go first.
IsNext(j) ==
  /\ j \in pass.todo
  /\ (\E i \in pass.todo : job[i].canary) => job[j].canary

\* The `continue`s of the loop.
IsHeldBack(j) ==
  \/ ~IsOnline(DeviceOf[j])
  \/ AtSite(j) /\ pass.site >= SiteLimit
  \/ pass.used[RolloutOf[j]] >= RolloutLimit

Skip ==
  /\ tickAt = "dispatch"
  /\ pass.room > 0
  /\ \E j \in Jobs : IsNext(j) /\ IsHeldBack(j) /\ pass' = Visited(j)
  /\ UNCHANGED <<storeVars, linkVars>>

\* The row is marked before the frame is sent, whatever it has become since the
\* candidates were read.
Mark ==
  /\ tickAt = "dispatch"
  /\ pass.room > 0
  /\ \E j \in Jobs :
       /\ IsNext(j)
       /\ ~IsHeldBack(j)
       /\ job' = [job EXCEPT ![j].state = "DISPATCHED",
                             ![j].attempt = pass.seen[j] + 1,
                             ![j].stale = FALSE]
       /\ frame' = [frame EXCEPT ![Tick] =
                      [AtJob("send", j) EXCEPT !.attempt = pass.seen[j]]]
       /\ pass' = Visited(j)
       /\ revived' = revived \ {j}
  /\ UNCHANGED <<rollout, linkVars>>

\* Mutant: what this pass dispatches is counted neither fleet-wide nor at the site.
SendUncounted ==
  LET f == frame[Tick]
      d == DeviceOf[f.job]
  IN
  /\ f.at = "send"
  /\ IsOnline(d)
  /\ outbox' = SentTo(d, [kind |-> "install", job |-> f.job])
  /\ frame' = [frame EXCEPT ![Tick] = Recomputing(RolloutOf[f.job], "dispatch", None)]
  /\ UNCHANGED <<job, rollout, revived, sock, registry, session, greeted, inbox, agent,
                 started, installed, pass>>

Send ==
  LET f == frame[Tick]
      d == DeviceOf[f.job]
  IN
  /\ f.at = "send"
  /\ IsOnline(d)
  /\ outbox' = SentTo(d, [kind |-> "install", job |-> f.job])
  /\ pass' = [pass EXCEPT !.room = @ - 1,
                          !.site = IF AtSite(f.job) THEN @ + 1 ELSE @,
                          !.used[RolloutOf[f.job]] = @ + 1]
  /\ frame' = [frame EXCEPT ![Tick] = Recomputing(RolloutOf[f.job], "dispatch", None)]
  /\ UNCHANGED <<job, rollout, revived, sock, registry, session, greeted, inbox, agent,
                 started, installed>>

\* The socket died between the online check and the write.
SendFails ==
  /\ tickAt = "send"
  /\ ~IsOnline(DeviceOf[frame[Tick].job])
  /\ frame' = [frame EXCEPT ![Tick].at = "unsend"]
  /\ UNCHANGED <<job, rollout, revived, linkVars, pass>>

PutBack ==
  LET f == frame[Tick] IN
  /\ f.at = "unsend"
  /\ job' = [job EXCEPT ![f.job].state = "QUEUED",
                        ![f.job].attempt = f.attempt,
                        ![f.job].stale = FALSE]
  /\ TickGoes("dispatch")
  /\ UNCHANGED <<rollout, revived, linkVars, pass>>

\* Mutant: the jobs counted per rollout outlive the tick.
TickEndsCounting ==
  /\ tickAt = "dispatch"
  /\ pass.room <= 0 \/ pass.todo = {}
  /\ pass' = [NoPass EXCEPT !.used = pass.used]
  /\ TickGoes("idle")
  /\ UNCHANGED <<job, rollout, revived, linkVars>>

TickEnds ==
  /\ tickAt = "dispatch"
  /\ pass.room <= 0 \/ pass.todo = {}
  /\ pass' = NoPass
  /\ TickGoes("idle")
  /\ UNCHANGED <<job, rollout, revived, linkVars>>

TickStep ==
  \/ TickStarts
  \/ Promote
  \/ StalledRead
  \/ Requeue
  \/ CountActive
  \/ CandidatesRead
  \/ Skip
  \/ Mark
  \/ Send
  \/ SendFails
  \/ PutBack
  \/ TickEnds
=============================================================================
