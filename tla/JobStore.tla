------------------------------ MODULE JobStore ------------------------------
(***************************************************************************)
(* The job and rollout rows of the hub's database, and the functions of    *)
(* services/jobs.ts that move them.                                        *)
(*                                                                         *)
(* The hub is one Node process: between two awaits nothing else runs, but  *)
(* at every database call any other handler may.  A handler is therefore a *)
(* thread whose `frame` keeps what it has read and what it will write, and *)
(* each database statement is one step.  Threads are the message queue of  *)
(* every device socket, every request of the dashboard, and the scheduler  *)
(* tick.                                                                   *)
(*                                                                         *)
(* Abstracted: the four states an agent reports (DOWNLOADING, EXTRACTING,  *)
(* INSTALLING, VERIFYING) are one, "WORKING"; time stamps are the verdicts *)
(* the code takes from them (a backoff not yet over, a heartbeat older     *)
(* than the cutoff, a soak that is over); job events and the bus are left  *)
(* out.                                                                    *)
(***************************************************************************)
EXTENDS Naturals, FiniteSets

CONSTANTS
  Devices, Rollouts, Jobs,  \* identities of the rows
  DeviceOf, RolloutOf,      \* the foreign keys of a job
  Sockets,                  \* every device socket that can ever be opened
  Requests,                 \* concurrent requests of the dashboard
  Tick,                     \* the scheduler's thread
  MaxAttempts,              \* Rollout.maxAttempts
  Backoff,                  \* Rollout.retryBackoffSeconds > 0
  Soaking,                  \* the rollouts with soakMinutes > 0
  Prompt,                   \* bound: see Settled
  None

ASSUME JobStoreAssumption ==
  /\ IsFiniteSet(Jobs)
  /\ DeviceOf \in [Jobs -> Devices]
  /\ RolloutOf \in [Jobs -> Rollouts]
  /\ MaxAttempts \in Nat \ {0}
  /\ Backoff \in BOOLEAN
  /\ Soaking \subseteq Rollouts
  /\ Prompt \in BOOLEAN
  /\ Sockets \cap Requests = {}
  /\ Tick \notin Sockets \cup Requests
  /\ None \notin Jobs \cup Rollouts \cup Devices \cup Sockets

Threads == Sockets \cup Requests \cup {Tick}

ActiveStates == {"DISPATCHED", "WORKING"}
TerminalStates == {"SUCCESS", "FAILED", "CANCELLED", "SKIPPED"}
JobStates == {"ABSENT", "QUEUED"} \cup ActiveStates \cup TerminalStates
RolloutStates ==
  {"ABSENT", "CANARY", "SOAKING", "RUNNING", "PAUSED", "COMPLETED", "CANCELLED"}

VARIABLES
  job,      \* the Job rows
  rollout,  \* the Rollout rows
  frame,    \* where each thread stands between two awaits
  revived   \* history: jobs a progress frame made active, not yet dispatched anew

storeVars == <<job, rollout, frame, revived>>

JobRow == [state : JobStates, canary : BOOLEAN, attempt : Nat,
           held : BOOLEAN,   \* nextAttemptAt is in the future
           stale : BOOLEAN]  \* heartbeatAt is older than the stall cutoff

\* `passed` is canaryPassedAt: null, set, or set long enough ago for the soak.
RolloutRow == [status : RolloutStates, passed : {"never", "fresh", "ripe"}]

Labels ==
  {"idle", "setup", "reconcile",                               \* a socket
   "progress", "result", "retry", "cancel",                    \* jobs.ts
   "recompute", "rewrite",                                     \* recomputeRollout
   "tellAgent", "cancelRollout", "closeRollout", "resume",     \* a request
   "promote", "stalled", "requeue", "candidates",              \* a tick
   "dispatch", "send", "unsend"}

\* What a handler holds in its local variables while it awaits.
Frame == [at : Labels, back : Labels,
          job : Jobs \cup {None}, rollout : Rollouts \cup {None},
          attempt : Nat,                \* job.attempt as it was read
          ok : BOOLEAN,                 \* outcome.ok
          todo : SUBSET Jobs,           \* rows still to visit
          status : RolloutStates,       \* the status about to be written
          passes : BOOLEAN]             \* canaryPassedAt is about to be written

Idle == [at |-> "idle", back |-> "idle", job |-> None, rollout |-> None,
         attempt |-> 0, ok |-> FALSE, todo |-> {}, status |-> "ABSENT",
         passes |-> FALSE]

NoJob == [state |-> "ABSENT", canary |-> FALSE, attempt |-> 0,
          held |-> FALSE, stale |-> FALSE]

StoreInit ==
  /\ job = [j \in Jobs |-> NoJob]
  /\ rollout = [r \in Rollouts |-> [status |-> "ABSENT", passed |-> "never"]]
  /\ frame = [t \in Threads |-> Idle]
  /\ revived = {}

StoreTypeOK ==
  /\ job \in [Jobs -> JobRow]
  /\ rollout \in [Rollouts -> RolloutRow]
  /\ frame \in [Threads -> Frame]
  /\ revived \subseteq Jobs

-----------------------------------------------------------------------------
IsTerminal(j) == job[j].state \in TerminalStates
IsActive(j) == job[j].state \in ActiveStates
JobsOf(r) == {j \in Jobs : RolloutOf[j] = r}
CanariesOf(r) == {j \in JobsOf(r) : job[j].canary}
Active == {j \in Jobs : IsActive(j)}

\* `at` with nothing in hand, `at` with one job in hand.
At(label) == [Idle EXCEPT !.at = label]
AtJob(label, j) == [Idle EXCEPT !.at = label, !.job = j]

\* `await recomputeRollout(r)`, after which the caller stands at `back`
\* with j (or nothing) still in hand.
Recomputing(r, back, j) ==
  [Idle EXCEPT !.at = "recompute", !.rollout = r, !.back = back, !.job = j]

Returned(f) == AtJob(f.back, f.job)

-----------------------------------------------------------------------------
(* applyProgress: the row is read, and dropped if terminal; the write that *)
(* follows the await sets the reported state whatever the row is by then.  *)
ProgressRead(j) ==
  IF job[j].state = "ABSENT" \/ IsTerminal(j) THEN Idle ELSE AtJob("progress", j)

ProgressWrite(t) ==
  /\ frame[t].at = "progress"
  /\ job' = [job EXCEPT ![frame[t].job].state = "WORKING",
                        ![frame[t].job].stale = FALSE]
  /\ frame' = [frame EXCEPT ![t] = Idle]
  /\ revived' = IF IsActive(frame[t].job) THEN revived
                ELSE revived \cup {frame[t].job}
  /\ UNCHANGED rollout

\* What a failed attempt makes of a row, given the attempt count that was read.
\* completeJob and requeueStalled write the same fields.
AfterFailure(row, attempt) ==
  LET canRetry == attempt < MaxAttempts
  IN  [row EXCEPT !.state = IF canRetry THEN "QUEUED" ELSE "FAILED",
                  !.held = canRetry /\ Backoff]

\* Mutant: the outcome of the result is taken for a success.
ResultReadAsSuccess(j, ok) ==
  IF job[j].state = "ABSENT" \/ IsTerminal(j) THEN Idle
  ELSE [AtJob("result", j) EXCEPT !.ok = TRUE, !.attempt = job[j].attempt]

(* completeJob: read, then write the outcome, then recomputeRollout.       *)
ResultRead(j, ok) ==
  IF job[j].state = "ABSENT" \/ IsTerminal(j) THEN Idle
  ELSE [AtJob("result", j) EXCEPT !.ok = ok, !.attempt = job[j].attempt]

\* Mutant: only a success is rolled up.
ResultWriteRollsUpSuccess(t) ==
  LET f == frame[t] IN
  /\ f.at = "result"
  /\ job' = [job EXCEPT ![f.job] =
               IF f.ok THEN [@ EXCEPT !.state = "SUCCESS"]
                       ELSE AfterFailure(@, f.attempt)]
  /\ frame' = [frame EXCEPT ![t] =
               IF f.ok THEN Recomputing(RolloutOf[f.job], "idle", None) ELSE Idle]
  /\ UNCHANGED <<rollout, revived>>

ResultWrite(t) ==
  LET f == frame[t] IN
  /\ f.at = "result"
  /\ job' = [job EXCEPT ![f.job] =
               IF f.ok THEN [@ EXCEPT !.state = "SUCCESS"]
                       ELSE AfterFailure(@, f.attempt)]
  /\ frame' = [frame EXCEPT ![t] = Recomputing(RolloutOf[f.job], "idle", None)]
  /\ UNCHANGED <<rollout, revived>>

(* retryJob: only a terminal or queued row, which starts over.             *)
RetryRead(j) ==
  IF IsTerminal(j) \/ job[j].state = "QUEUED" THEN AtJob("retry", j) ELSE Idle

RetryWrite(t) ==
  LET j == frame[t].job IN
  /\ frame[t].at = "retry"
  /\ job' = [job EXCEPT ![j].state = "QUEUED", ![j].attempt = 0,
                        ![j].held = FALSE, ![j].stale = FALSE]
  /\ frame' = [frame EXCEPT ![t] = Recomputing(RolloutOf[j], "idle", None)]
  /\ UNCHANGED <<rollout, revived>>

(* cancelJob, and the route that tells the agent even when the row was     *)
(* already terminal.                                                       *)
CancelRead(j) == AtJob(IF IsTerminal(j) THEN "tellAgent" ELSE "cancel", j)

\* Mutant: a cancelled job is not rolled up.
CancelWriteAlone(t) ==
  LET j == frame[t].job IN
  /\ frame[t].at = "cancel"
  /\ job' = [job EXCEPT ![j].state = "CANCELLED"]
  /\ frame' = [frame EXCEPT ![t] = AtJob("tellAgent", j)]
  /\ UNCHANGED <<rollout, revived>>

CancelWrite(t) ==
  LET j == frame[t].job IN
  /\ frame[t].at = "cancel"
  /\ job' = [job EXCEPT ![j].state = "CANCELLED"]
  /\ frame' = [frame EXCEPT ![t] = Recomputing(RolloutOf[j], "tellAgent", j)]
  /\ UNCHANGED <<rollout, revived>>

-----------------------------------------------------------------------------
(* recomputeRollout: one query reads the rollout with the states of its    *)
(* jobs; a second statement writes the status that follows from them.      *)
CanaryVerdict(r) ==
  LET canaries == CanariesOf(r) IN
  IF \/ rollout[r].status # "CANARY"
     \/ canaries = {}
     \/ \E j \in canaries : ~IsTerminal(j)
     THEN rollout[r].status
  ELSE IF \E j \in canaries : job[j].state = "FAILED" THEN "PAUSED"
  ELSE IF \A j \in canaries : job[j].state # "SUCCESS" THEN "CANARY"
  ELSE IF r \in Soaking THEN "SOAKING" ELSE "RUNNING"

\* data.canaryPassedAt is set: the canaries are what moves the rollout on.
CanaryPasses(r) ==
  /\ rollout[r].status = "CANARY"
  /\ CanaryVerdict(r) \in {"SOAKING", "RUNNING"}

Verdict(r) ==
  IF CanaryVerdict(r) # "PAUSED" /\ \A j \in JobsOf(r) : IsTerminal(j)
  THEN "COMPLETED" ELSE CanaryVerdict(r)

Recompute(t) ==
  LET f == frame[t]
      r == f.rollout
  IN
  /\ f.at = "recompute"
  /\ frame' = [frame EXCEPT ![t] =
       IF \/ rollout[r].status \in {"COMPLETED", "CANCELLED"}
          \/ Verdict(r) = rollout[r].status
       THEN Returned(f)
       ELSE [f EXCEPT !.at = "rewrite", !.status = Verdict(r),
                      !.passes = CanaryPasses(r)]]
  /\ UNCHANGED <<job, rollout, revived>>

\* Mutant: the status is written without canaryPassedAt.
RolloutWriteStatusOnly(t) ==
  LET f == frame[t] IN
  /\ f.at = "rewrite"
  /\ rollout' = [rollout EXCEPT ![f.rollout].status = f.status]
  /\ frame' = [frame EXCEPT ![t] = Returned(f)]
  /\ UNCHANGED <<job, revived>>

RolloutWrite(t) ==
  LET f == frame[t] IN
  /\ f.at = "rewrite"
  /\ rollout' = [rollout EXCEPT
       ![f.rollout].status = f.status,
       ![f.rollout].passed = IF f.passes THEN "fresh" ELSE @]
  /\ frame' = [frame EXCEPT ![t] = Returned(f)]
  /\ UNCHANGED <<job, revived>>

-----------------------------------------------------------------------------
(* Time.  Bound: with Prompt, a soak, a backoff, a stall or an install     *)
(* outlasts the handlers that are in flight; only the loops of a tick may  *)
(* take longer.  Without Prompt a handler may be slower than all of them.  *)
Settled ==
  Prompt => \A t \in Threads :
              \/ frame[t] = Idle
              \/ t = Tick /\ frame[t].at \notin {"recompute", "rewrite"}

BackoffElapses(j) ==
  /\ Settled
  /\ job[j].held
  /\ job' = [job EXCEPT ![j].held = FALSE]
  /\ UNCHANGED <<rollout, frame, revived>>

SoakElapses(r) ==
  /\ Settled
  /\ rollout[r].status = "SOAKING"
  /\ rollout[r].passed = "fresh"
  /\ rollout' = [rollout EXCEPT ![r].passed = "ripe"]
  /\ UNCHANGED <<job, frame, revived>>

StoreStep(t) ==
  \/ ProgressWrite(t)
  \/ ResultWrite(t)
  \/ RetryWrite(t)
  \/ CancelWrite(t)
  \/ Recompute(t)
  \/ RolloutWrite(t)
=============================================================================
