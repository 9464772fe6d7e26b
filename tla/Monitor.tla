------------------------------ MODULE Monitor ------------------------------
(***************************************************************************)
(* services/monitor.ts: the ladder that acts on a box that stopped         *)
(* working, its circuit breakers, and the alerts of services/notify.ts.    *)
(*                                                                         *)
(* A pass is one call of evaluate.  The scheduler's tick awaits one before *)
(* it dispatches, and an operator may ask for another; both work from what *)
(* they read when they began.  Every await of a pass is a step.            *)
(*                                                                         *)
(* Abstracted: a signal reads good, bad or unknown; a command is answered  *)
(* or times out (RemoteCommands has the waiting).  Time is counted in      *)
(* heartbeats.                                                             *)
(***************************************************************************)
EXTENDS Integers, Sequences, FiniteSets

CONSTANTS
  Devices,
  Rules,          \* the enabled rules, each a record: see MonitorAssumption
  Agenda,         \* <<box, rule>> in the order of a pass: rules by position
  StartupGrace, RebootGrace, DedupeBeats, MinLevel,  \* MonitorSettings
  MaxActionsHour, MaxRebootsDay,                     \* its two ceilings
  Hour, Day,      \* how many heartbeats they last
  Callers,        \* who calls evaluate: "tick", and perhaps "manual"
  MaxNow,         \* bound: heartbeats in a behaviour
  MaxCrashes      \* bound: how often the hub dies

Actions == {"EXEC", "REBOOT", "ROTOM", "ROTOM_REBOOT", "NOTIFY_ONLY"}
HardActions == {"REBOOT", "ROTOM_REBOOT"}
NeedsSocket == {"EXEC", "REBOOT"}
Levels == 0..2    \* INFO, WARN, CRITICAL
Never == -1

ASSUME MonitorAssumption ==
  /\ IsFiniteSet(Devices)
  /\ Rules \subseteq
       [id : STRING, signal : STRING, threshold : Nat, cooldown : Nat, notify : BOOLEAN,
        level : Levels, from : Nat, to : Nat,
        steps : SUBSET [at : Nat \ {0}, action : Actions]]
  /\ \A r \in Rules :  \* a ladder has rungs, and any of them a highest
       /\ r.steps # {}
       /\ \A rungs \in (SUBSET r.steps) \ {{}} : \E top \in rungs : \A s \in rungs : s.at <= top.at
  /\ Agenda \in Seq(Devices \X Rules)
  /\ {StartupGrace, RebootGrace, DedupeBeats, MaxNow, MaxCrashes} \subseteq Nat
  /\ {MaxActionsHour, MaxRebootsDay} \subseteq Nat /\ MinLevel \in Levels
  /\ {Hour, Day} \subseteq Nat \ {0}
  /\ IsFiniteSet(Callers) /\ "tick" \in Callers

VARIABLES
  row,        \* MonitorState: failures, lastActionAt, lastStepFired (0 is null)
  events,     \* MonitorEvent: the log of each box, oldest first
  pass,       \* the locals of evaluate, per caller
  lastTick, startedAt,
  phase,      \* where the scheduler's tick is
  installing, \* the boxes with a job in ACTIVE_STATES
  now,
  ran,        \* history: what was really done to a box, oldest first
  alerts,     \* history: the faults Discord was told about
  episode,    \* history: how often a rule has recovered on a box
  overlapped, \* history: two passes were under way at once
  lost,       \* history: actions and alerts whose event was never written
  crashes

worldVars == <<installing, now>>
history == <<ran, alerts, episode, overlapped, lost, crashes>>
vars == <<row, events, pass, lastTick, startedAt, phase, worldVars, history>>

NoRow == [failures |-> 0, acted |-> Never, step |-> 0]
Idle == [at |-> "idle", begun |-> 0, busy |-> {},
         budget |-> [d \in Devices |-> [actions |-> 0, hard |-> 0]],
         todo |-> <<>>, seen |-> NoRow, step |-> 0, action |-> "NONE", took |-> FALSE,
         says |-> "fault", loud |-> FALSE, told |-> FALSE]

Device(p) == Head(pass[p].todo)[1]
Rule(p) == Head(pass[p].todo)[2]
Top(r) == CHOOSE s \in r.steps : \A t \in r.steps : t.at <= s.at

Init ==
  /\ row = [d \in Devices |-> [r \in Rules |-> NoRow]]
  /\ events = [d \in Devices |-> <<>>]
  /\ pass = [p \in Callers |-> Idle]
  /\ lastTick = Never /\ startedAt = 0 /\ phase = "start"
  /\ installing \in SUBSET Devices /\ now = 0
  /\ ran = [d \in Devices |-> <<>>] /\ alerts = [d \in Devices |-> <<>>]
  /\ episode = [d \in Devices |-> [r \in Rules |-> 0]]
  /\ overlapped = FALSE /\ lost = [d \in Devices |-> 0] /\ crashes = 0

-----------------------------------------------------------------------------
(* The tick: evaluate, then dispatch.                                      *)

\* Mutant: the tick does not wait for the pass.
PhaseUnawaited == "dispatch"

\* Where the tick is while its pass runs: evaluate is awaited before dispatch.
PhaseInPass == "evaluate"

\* evaluate: at most one pass per heartbeat, whoever calls.
IsDue == now - startedAt >= StartupGrace /\ (lastTick = Never \/ now - lastTick >= 1)

PassStarts(p) ==
  /\ pass[p].at = "idle" /\ IsDue
  /\ p = "tick" => phase = "start"
  /\ lastTick' = now
  /\ pass' = [pass EXCEPT ![p] = [Idle EXCEPT !.at = "busy", !.begun = now]]
  /\ phase' = IF p = "tick" THEN PhaseInPass ELSE phase
  /\ overlapped' = (overlapped \/ \E q \in Callers : pass[q].at # "idle")
  /\ UNCHANGED <<row, events, startedAt, worldVars, ran, alerts, episode, lost, crashes>>

PassSkipped ==
  /\ phase = "start" /\ pass["tick"].at = "idle" /\ ~IsDue
  /\ phase' = "dispatch"
  /\ UNCHANGED <<row, events, pass, lastTick, startedAt, worldVars, history>>

\* dispatchQueued, from outside: some jobs of connected boxes become active.
Dispatch ==
  /\ phase = "dispatch"
  /\ \E on \in SUBSET (Devices \ installing) : installing' = installing \cup on
  /\ phase' = "start"
  /\ UNCHANGED <<row, events, pass, lastTick, startedAt, now, history>>

-----------------------------------------------------------------------------
(* A pass: one action per await.                                           *)

\* Mutant: only an install makes a box busy.
RebootedNobody == {}

\* busyDeviceIds: boxes whose reboot was taken within the grace.
Rebooted ==
  {d \in Devices : \E i \in DOMAIN events[d] :
     /\ events[d][i].action \in HardActions /\ events[d][i].took
     /\ events[d][i].at >= now - RebootGrace}

\* installs under way: jobs in ACTIVE_STATES.
Installing == installing

BusyRead(p) ==
  /\ pass[p].at = "busy"
  /\ pass' = [pass EXCEPT ![p].at = "budgets", ![p].busy = Installing \cup Rebooted]
  /\ UNCHANGED <<row, events, lastTick, startedAt, phase, worldVars, history>>

\* spentBudgets: the events that name an action, since the given time.
Spent(d, kinds, since) ==
  Cardinality({i \in DOMAIN events[d] :
                 events[d][i].action \in kinds /\ events[d][i].at >= since})

BudgetsRead(p) ==
  /\ pass[p].at = "budgets"
  /\ pass' = [pass EXCEPT
       ![p].at = "look",
       ![p].todo = Agenda,
       ![p].budget = [d \in Devices |-> [actions |-> Spent(d, Actions, now - Hour),
                                         hard |-> Spent(d, HardActions, now - Day)]]]
  /\ UNCHANGED <<row, events, lastTick, startedAt, phase, worldVars, history>>

\* On to the next rule, or the next box.
MovedOn(p) == [pass EXCEPT ![p] =
                 [Idle EXCEPT !.at = "look", !.begun = pass[p].begun, !.busy = pass[p].busy,
                              !.budget = pass[p].budget, !.todo = Tail(pass[p].todo)]]

\* A busy box is left alone.
Skips(p) ==
  /\ pass[p].at = "look" /\ pass[p].todo # <<>> /\ Device(p) \in pass[p].busy
  /\ pass' = MovedOn(p)
  /\ UNCHANGED <<row, events, lastTick, startedAt, phase, worldVars, history>>

\* evaluateDevice: an unknown signal is skipped, else the row is read.
Look(p) ==
  /\ pass[p].at = "look" /\ pass[p].todo # <<>> /\ Device(p) \notin pass[p].busy
  /\ \E signal \in {"unknown", "good", "bad"} :
       LET seen == row[Device(p)][Rule(p)] IN
       pass' = IF signal = "unknown" \/ (signal = "good" /\ seen.failures = 0)
               THEN MovedOn(p)
               ELSE [pass EXCEPT ![p].seen = seen,
                       ![p].at = IF signal = "good" THEN "recover" ELSE "count"]
  /\ UNCHANGED <<row, events, lastTick, startedAt, phase, worldVars, history>>

\* Bound: failures are counted up to where neither threshold nor ladder asks
\* for more.
Counted(r, n) == LET most == IF Top(r).at > r.threshold THEN Top(r).at ELSE r.threshold
                 IN IF n > most THEN most ELSE n

Count(p) ==
  LET d == Device(p)
      r == Rule(p)
      n == Counted(r, pass[p].seen.failures + 1) IN
  /\ pass[p].at = "count"
  /\ row' = [row EXCEPT ![d][r].failures = n]
  /\ pass' = IF n < r.threshold THEN MovedOn(p)
             ELSE [pass EXCEPT ![p].at = "escalate", ![p].seen.failures = n]
  /\ UNCHANGED <<events, lastTick, startedAt, phase, worldVars, history>>

\* recover: the ladder is reset and the all-clear recorded.  Its post is left
\* out: an all-clear neither counts as an alert nor silences one.
Recover(p) ==
  LET d == Device(p)
      r == Rule(p) IN
  /\ pass[p].at = "recover"
  /\ row' = [row EXCEPT ![d][r].failures = 0, ![d][r].step = 0]
  /\ episode' = [episode EXCEPT ![d][r] = @ + 1]
  /\ pass' = [pass EXCEPT ![p].at = "record", ![p].says = "recovered"]
  /\ UNCHANGED <<events, lastTick, startedAt, phase, worldVars, ran, alerts, overlapped,
                 lost, crashes>>
-----------------------------------------------------------------------------
(* escalate: which rung, and whether anything keeps the pass from it.      *)

\* insideWindow: a window of the day, which may wrap midnight; equal ends
\* stand for the rule that has none.
InsideWindow(r) ==
  LET minute == now % Day IN
  CASE r.from = r.to -> TRUE
    [] r.from < r.to -> r.from <= minute /\ minute < r.to
    [] OTHER -> r.from <= minute \/ minute < r.to

\* The highest rung the failures have earned.
Earned(r, failures) == {s \in r.steps : s.at <= failures}
Rung(r, failures) ==
  CHOOSE s \in Earned(r, failures) : \A t \in Earned(r, failures) : t.at <= s.at

\* Mutant: a rung below the top may be spent again.
IsSpentNever(r, seen) == FALSE

\* A rung is spent once, except the top, which repeats.
IsSpent(r, seen) ==
  LET s == Rung(r, seen.failures) IN s.at <= seen.step /\ s # Top(r)

IsCooling(r, seen) == seen.acted # Never /\ now - seen.acted < r.cooldown

\* Mutant: the ceilings may be reached and one more.
TrippedAfter(budget, action) ==
  budget.actions > MaxActionsHour \/ (action \in HardActions /\ budget.hard > MaxRebootsDay)

Tripped(budget, action) ==
  \/ budget.actions >= MaxActionsHour
  \/ action \in HardActions /\ budget.hard >= MaxRebootsDay

MayAct(p) ==
  /\ pass[p].at = "escalate"
  /\ Earned(Rule(p), pass[p].seen.failures) # {}
  /\ ~IsCooling(Rule(p), pass[p].seen)
  /\ ~IsSpent(Rule(p), pass[p].seen)

Step(p) == Rung(Rule(p), pass[p].seen.failures)
Acting(p) == InsideWindow(Rule(p)) /\ Step(p).action # "NOTIFY_ONLY"
\* Whether the agent is connected is asked at that moment; nothing else keeps
\* the answer, so it is an input.
MayBeUnreachable(p) == Step(p).action \in NeedsSocket

StandsDown(p) ==
  /\ pass[p].at = "escalate"
  /\ ~MayAct(p) \/ (Acting(p) /\ MayBeUnreachable(p))
  /\ pass' = MovedOn(p)
  /\ UNCHANGED <<row, events, lastTick, startedAt, phase, worldVars, history>>

\* Outside the window, or a rung that only notifies: said, not done.
HoldsBack(p) ==
  /\ MayAct(p) /\ ~Acting(p)
  /\ pass' = [pass EXCEPT ![p].at = "stamp", ![p].loud = Rule(p).level >= MinLevel,
                ![p].action = IF Step(p).action = "NOTIFY_ONLY" THEN "NONE" ELSE Step(p).action]
  /\ UNCHANGED <<row, events, lastTick, startedAt, phase, worldVars, history>>

Trips(p) ==
  /\ MayAct(p) /\ Acting(p)
  /\ Tripped(pass[p].budget[Device(p)], Step(p).action)
  /\ pass' = [pass EXCEPT ![p].at = "stamp", ![p].says = "stopped", ![p].loud = TRUE]
  /\ UNCHANGED <<row, events, lastTick, startedAt, phase, worldVars, history>>

\* runAction, spend: a reboot is sent and forgotten, anything else is awaited.
\* Whether the box or Rotom takes it is settled here and learnt at the answer;
\* what is kept of actionOk is whether a reboot was taken.
Acts(p) ==
  LET d == Device(p)
      s == Step(p)
      hard == s.action \in HardActions IN
  /\ MayAct(p) /\ Acting(p)
  /\ ~Tripped(pass[p].budget[d], s.action)
  /\ \E ok \in BOOLEAN :
       /\ s.action = "REBOOT" => ok
       /\ pass' = [pass EXCEPT
            ![p].at = IF s.action = "REBOOT" THEN "stamp" ELSE "await",
            ![p].action = s.action, ![p].step = s.at, ![p].took = hard /\ ok,
            ![p].loud = ~ok \/ Rule(p).level >= MinLevel,
            ![p].budget[d] = [actions |-> pass[p].budget[d].actions + 1,
                              hard |-> pass[p].budget[d].hard + (IF hard THEN 1 ELSE 0)]]
       /\ ran' = [ran EXCEPT ![d] = Append(ran[d],
            [rule |-> Rule(p), at |-> now, step |-> s.at, hard |-> hard, took |-> hard /\ ok,
             begun |-> pass[p].begun, by |-> p, episode |-> episode[d][Rule(p)],
             installing |-> d \in installing])]
  /\ UNCHANGED <<row, events, lastTick, startedAt, phase, worldVars, alerts, episode,
                 overlapped, lost, crashes>>

\* Mutant: only a reboot is ever reported back.
AnsweredIfTaken(p) ==
  /\ pass[p].at = "await" /\ pass[p].took
  /\ pass' = [pass EXCEPT ![p].at = "stamp"]
  /\ UNCHANGED <<row, events, lastTick, startedAt, phase, worldVars, history>>

Answered(p) ==
  /\ pass[p].at = "await"
  /\ pass' = [pass EXCEPT ![p].at = "stamp"]
  /\ UNCHANGED <<row, events, lastTick, startedAt, phase, worldVars, history>>

-----------------------------------------------------------------------------
(* fire, record, notify.                                                   *)

Stamp(p) ==
  LET d == Device(p)
      r == Rule(p) IN
  /\ pass[p].at = "stamp"
  /\ row' = [row EXCEPT ![d][r].acted = now,
               ![d][r].step = IF pass[p].step = 0 THEN row[d][r].step ELSE pass[p].step]
  /\ pass' = [pass EXCEPT ![p].at = IF pass[p].step = 0 THEN "said" ELSE "notify"]
  /\ UNCHANGED <<events, lastTick, startedAt, phase, worldVars, history>>

\* alreadySaid: the latest event of this rule named no action and said the same.
Latest(d, r) ==
  LET own == {i \in DOMAIN events[d] : events[d][i].rule = r}
  IN IF own = {} THEN [action |-> "EXEC", says |-> "nothing"]
     ELSE events[d][CHOOSE i \in own : \A k \in own : k <= i]

AlreadySaid(p) ==
  LET last == Latest(Device(p), Rule(p)) IN
  /\ pass[p].at = "said"
  /\ pass' = IF last.action = "NONE" /\ last.says = pass[p].says THEN MovedOn(p)
             ELSE [pass EXCEPT ![p].at = "notify"]
  /\ UNCHANGED <<row, events, lastTick, startedAt, phase, worldVars, history>>

\* announcedRecently.
Announced(d, signal) ==
  DedupeBeats > 0 /\ \E i \in DOMAIN events[d] :
    /\ events[d][i].rule.signal = signal /\ events[d][i].told
    /\ events[d][i].says # "recovered"
    /\ events[d][i].at >= now - DedupeBeats

\* notify: below the level, deduped, refused, or posted.
Notify(p) ==
  LET d == Device(p)
      r == Rule(p) IN
  /\ pass[p].at = "notify"
  /\ \E posted \in BOOLEAN :
       /\ posted => r.notify /\ pass[p].loud /\ ~Announced(d, r.signal)
       /\ pass' = [pass EXCEPT ![p].at = "record", ![p].told = posted]
       /\ alerts' = IF posted THEN [alerts EXCEPT ![d] =
                                      Append(alerts[d], [signal |-> r.signal, at |-> now])]
                    ELSE alerts
  /\ UNCHANGED <<row, events, lastTick, startedAt, phase, worldVars, ran, episode,
                 overlapped, lost, crashes>>

Record(p) ==
  LET d == Device(p) IN
  /\ pass[p].at = "record"
  /\ events' = [events EXCEPT ![d] = Append(events[d],
       [rule |-> Rule(p), action |-> pass[p].action, took |-> pass[p].took, at |-> now,
        says |-> pass[p].says, told |-> pass[p].told])]
  /\ pass' = MovedOn(p)
  /\ UNCHANGED <<row, lastTick, startedAt, phase, worldVars, history>>

\* The end of evaluate.  pruneEvents only drops what no window reaches.
PassEnds(p) ==
  /\ pass[p].at = "look" /\ pass[p].todo = <<>>
  /\ pass' = [pass EXCEPT ![p] = Idle]
  /\ phase' = IF p = "tick" THEN "dispatch" ELSE phase
  /\ UNCHANGED <<row, events, lastTick, startedAt, worldVars, history>>

PassStep(p) ==
  \/ BusyRead(p) \/ BudgetsRead(p) \/ Skips(p) \/ Look(p) \/ Count(p) \/ Recover(p)
  \/ StandsDown(p) \/ HoldsBack(p) \/ Trips(p) \/ Acts(p) \/ Answered(p)
  \/ Stamp(p) \/ AlreadySaid(p) \/ Notify(p) \/ Record(p) \/ PassEnds(p)

-----------------------------------------------------------------------------
(* The world, and the death of the hub.                                    *)

\* Bound: queries are fast; only a command takes as long as a heartbeat or an
\* install.
Prompt == \A p \in Callers : pass[p].at \in {"idle", "await"}

InstallEnds(d) ==
  /\ Prompt /\ d \in installing
  /\ installing' = installing \ {d}
  /\ UNCHANGED <<row, events, pass, lastTick, startedAt, phase, now, history>>

TimePasses ==
  /\ Prompt /\ now < MaxNow
  /\ now' = now + 1
  /\ UNCHANGED <<row, events, pass, lastTick, startedAt, phase, installing, history>>

\* An action that was run, or an alert that was posted, is lost with its pass.
Unwritten(p) == pass[p].step # 0 \/ pass[p].told

HubCrash ==
  /\ crashes < MaxCrashes
  /\ crashes' = crashes + 1
  /\ lost' = [d \in Devices |-> lost[d] +
       Cardinality({p \in Callers : Unwritten(p) /\ Device(p) = d})]
  /\ pass' = [p \in Callers |-> Idle]
  /\ phase' = "start" /\ lastTick' = Never /\ startedAt' = now
  /\ UNCHANGED <<row, events, worldVars, ran, alerts, episode, overlapped>>

Next ==
  \/ \E p \in Callers : PassStarts(p) \/ PassStep(p)
  \/ PassSkipped \/ Dispatch
  \/ \E d \in Devices : InstallEnds(d)
  \/ TimePasses \/ HubCrash

Spec == Init /\ [][Next]_vars

\* The event loop runs a pass to its end; an awaited command is settled by its
\* answer or its timer (RemoteCommands).  Nothing in the world need happen.
FairSpec == Spec /\ \A p \in Callers : WF_vars(PassStep(p))
                 /\ WF_vars(PassStarts("tick") \/ PassSkipped)
                 /\ WF_vars(Dispatch)
=============================================================================
