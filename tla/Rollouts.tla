------------------------------ MODULE Rollouts ------------------------------
(***************************************************************************)
(* What an operator asks of rollouts and jobs: services/rollouts.ts, and   *)
(* the /internal routes of the hub that call it and services/jobs.ts.      *)
(* Every request runs as one of the threads in Requests, so requests       *)
(* interleave with each other as well as with sockets and ticks.           *)
(*                                                                         *)
(* retryFailedJobs is retryJob for each failed job and has no action of    *)
(* its own.  Bound: at most MaxAsked requests in a behaviour.              *)
(***************************************************************************)
EXTENDS Scheduler

CONSTANTS CanaryCount, \* CreateRolloutInput.canaryCount
          MaySkip,     \* skipUpToDate, and some box may be up to date
          MayAsk,      \* bound: the requests made after the rollouts exist
          MaxAsked     \* bound: how many of them

ASSUME RolloutsAssumption ==
  /\ CanaryCount \in Nat
  /\ MaySkip \in BOOLEAN
  /\ MayAsk \subseteq {"cancelJob", "retryJob", "cancelRollout", "resume"}
  /\ MaxAsked \in Nat

VARIABLES
  asked,     \* requests made so far
  resumed,   \* history: rollouts an operator has resumed
  retried    \* history: failed jobs an operator has retried

requestVars == <<asked, resumed, retried>>

RequestInit == asked = 0 /\ resumed = {} /\ retried = {}

RequestTypeOK ==
  /\ asked \in Nat
  /\ resumed \subseteq Rollouts
  /\ retried \subseteq Jobs

Smaller(m, n) == IF m < n THEN m ELSE n

\* The first canaryCount of the eligible jobs, boxes that are online first.
IsCanaryChoice(canaries, eligible) ==
  /\ canaries \subseteq eligible
  /\ Cardinality(canaries) = Smaller(CanaryCount, Cardinality(eligible))
  /\ \A i \in canaries, j \in eligible \ canaries :
       IsOnline(DeviceOf[j]) => IsOnline(DeviceOf[i])

\* createRollout: the rollout and its jobs are one statement.  Boxes on the
\* target version get a SKIPPED job and are never canaries.
CreateRollout(q, r) ==
  /\ frame[q] = Idle
  /\ rollout[r].status = "ABSENT"
  /\ \E skipped \in SUBSET JobsOf(r) :
       /\ ~MaySkip => skipped = {}
       /\ \E canaries \in SUBSET (JobsOf(r) \ skipped) :
            /\ IsCanaryChoice(canaries, JobsOf(r) \ skipped)
            /\ rollout' = [rollout EXCEPT ![r].status =
                             IF canaries # {} THEN "CANARY" ELSE "RUNNING"]
            /\ job' = [j \in Jobs |->
                 IF j \notin JobsOf(r) THEN job[j]
                 ELSE [NoJob EXCEPT
                         !.state = IF j \in skipped THEN "SKIPPED" ELSE "QUEUED",
                         !.canary = j \in canaries]]
  /\ frame' = [frame EXCEPT ![q] = Recomputing(r, "idle", None)]
  /\ UNCHANGED <<revived, linkVars, pass, requestVars>>

-----------------------------------------------------------------------------
\* A request that is not about creating a rollout comes in.
Asks(q, request) ==
  /\ frame[q] = Idle
  /\ request \in MayAsk
  /\ asked < MaxAsked
  /\ asked' = asked + 1

AskRetryJob(q, j) ==
  /\ Asks(q, "retryJob")
  /\ job[j].state # "ABSENT"
  /\ frame' = [frame EXCEPT ![q] = RetryRead(j)]
  /\ retried' = IF job[j].state = "FAILED" THEN retried \cup {j} ELSE retried
  /\ UNCHANGED <<job, rollout, revived, linkVars, pass, resumed>>

AskCancelJob(q, j) ==
  /\ Asks(q, "cancelJob")
  /\ job[j].state # "ABSENT"
  /\ frame' = [frame EXCEPT ![q] = CancelRead(j)]
  /\ UNCHANGED <<job, rollout, revived, linkVars, pass, resumed, retried>>

\* sendTo(job.deviceId, cancel_job), once the row is written.
TellAgent(q) ==
  LET d == DeviceOf[frame[q].job] IN
  /\ frame[q].at = "tellAgent"
  /\ outbox' = IF IsOnline(d)
               THEN SentTo(d, [kind |-> "cancel", job |-> frame[q].job])
               ELSE outbox
  /\ frame' = [frame EXCEPT ![q] = Idle]
  /\ UNCHANGED <<job, rollout, revived, sock, registry, session, greeted, inbox, agent,
                 started, installed, pass, requestVars>>

\* cancelRollout: the open jobs are read, all written, then the rollout.
AskCancelRollout(q, r) ==
  /\ Asks(q, "cancelRollout")
  /\ rollout[r].status # "ABSENT"
  /\ frame' = [frame EXCEPT ![q] =
       [At("cancelRollout") EXCEPT
          !.rollout = r, !.todo = {j \in JobsOf(r) : ~IsTerminal(j)}]]
  /\ UNCHANGED <<job, rollout, revived, linkVars, pass, resumed, retried>>

CancelJobsOf(q) ==
  LET f == frame[q] IN
  /\ f.at = "cancelRollout"
  /\ job' = [j \in Jobs |-> IF j \in f.todo
                            THEN [job[j] EXCEPT !.state = "CANCELLED"] ELSE job[j]]
  /\ frame' = [frame EXCEPT ![q].at = "closeRollout", ![q].todo = {}]
  /\ UNCHANGED <<rollout, revived, linkVars, pass, requestVars>>

CloseRollout(q) ==
  /\ frame[q].at = "closeRollout"
  /\ rollout' = [rollout EXCEPT ![frame[q].rollout].status = "CANCELLED"]
  /\ frame' = [frame EXCEPT ![q] = Idle]
  /\ UNCHANGED <<job, revived, linkVars, pass, requestVars>>

\* resumeRollout: refused unless the rollout was PAUSED or SOAKING when read.
AskResume(q, r) ==
  /\ Asks(q, "resume")
  /\ rollout[r].status \in {"PAUSED", "SOAKING"}
  /\ frame' = [frame EXCEPT ![q] =
       [At("resume") EXCEPT !.rollout = r,
                            !.passes = rollout[r].passed = "never"]]
  /\ UNCHANGED <<job, rollout, revived, linkVars, pass, resumed, retried>>

ResumeWrite(q) ==
  LET f == frame[q] IN
  /\ f.at = "resume"
  /\ rollout' = [rollout EXCEPT
       ![f.rollout].status = "RUNNING",
       ![f.rollout].passed = IF f.passes THEN "fresh" ELSE @]
  /\ resumed' = resumed \cup {f.rollout}
  /\ frame' = [frame EXCEPT ![q] = Idle]
  /\ UNCHANGED <<job, revived, linkVars, pass, asked, retried>>

-----------------------------------------------------------------------------
Ask(q) ==
  \/ \E j \in Jobs : AskRetryJob(q, j) \/ AskCancelJob(q, j)
  \/ \E r \in Rollouts : AskCancelRollout(q, r) \/ AskResume(q, r)

RequestStep(q) ==
  \/ TellAgent(q)
  \/ CancelJobsOf(q)
  \/ CloseRollout(q)
  \/ ResumeWrite(q)
=============================================================================
