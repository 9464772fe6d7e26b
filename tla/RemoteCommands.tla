--------------------------- MODULE RemoteCommands --------------------------
(***************************************************************************)
(* services/deviceCommands.ts and agent/exec.go: a command is sent to a box *)
(* and answered to the request that waits.                                  *)
(*                                                                          *)
(* The answer rides whatever session the box has when the shell ends; the   *)
(* hub may take a dead connection for a live one.                           *)
(***************************************************************************)
EXTENDS FiniteSets

CONSTANT Commands

VARIABLES
  calls,    \* what the caller of execOnDevice got
  waiting,  \* the map of waiters, each with its timer
  execs,    \* commands on their way to the box, in its shell, and answers
  wire      \* whether the hub sees the box, and whether the box has a session

commandVars == <<calls, waiting, execs, wire>>

NoExecs == [sent |-> {}, running |-> {}, answered |-> {}]

CommandInit ==
  /\ calls = [c \in Commands |-> "none"] /\ waiting = {}
  /\ execs = NoExecs /\ wire = [hub |-> TRUE, box |-> TRUE]

Resolved(c, how) ==
  /\ calls' = [calls EXCEPT ![c] = IF @ = "asked" THEN how ELSE @]
  /\ waiting' = waiting \ {c}

\* execOnDevice
Executes(c) ==
  /\ calls[c] = "none"
  /\ IF wire.hub
     THEN /\ calls' = [calls EXCEPT ![c] = "asked"] /\ waiting' = waiting \cup {c}
          /\ execs' = IF wire.box THEN [execs EXCEPT !.sent = @ \cup {c}] ELSE execs
     ELSE calls' = [calls EXCEPT ![c] = "failed"] /\ UNCHANGED <<waiting, execs>>
  /\ UNCHANGED wire

\* Mutant: the timer is cleared with the connection.
TimerRunsOnline(c) == c \in waiting /\ wire.hub
TimerRuns(c) == c \in waiting

\* The box's own deadline and the grace are over.
TimerFires(c) ==
  /\ TimerRuns(c)
  /\ Resolved(c, "failed")
  /\ UNCHANGED <<execs, wire>>

\* resolveExec, which knows no late answer.
AnswerComes(c, how) ==
  /\ c \in execs.answered
  /\ execs' = [execs EXCEPT !.answered = @ \ {c}]
  /\ IF c \in waiting THEN Resolved(c, how) ELSE UNCHANGED <<calls, waiting>>
  /\ UNCHANGED wire

\* execCommand: a goroutine for each command.
ShellStarts(c) ==
  /\ c \in execs.sent
  /\ execs' = [execs EXCEPT !.sent = @ \ {c}, !.running = @ \cup {c}]
  /\ UNCHANGED <<calls, waiting, wire>>

\* It ends, or is killed at its deadline; send fails without a session.
ShellEnds(c) ==
  /\ c \in execs.running
  /\ execs' = [execs EXCEPT !.running = @ \ {c},
                            !.answered = IF wire.box THEN @ \cup {c} ELSE @]
  /\ UNCHANGED <<calls, waiting, wire>>

\* What was on its way to the box is lost.
WireBreaks ==
  /\ wire.box
  /\ wire' = [wire EXCEPT !.box = FALSE] /\ execs' = [execs EXCEPT !.sent = {}]
  /\ UNCHANGED <<calls, waiting>>

CloseSeen ==
  /\ wire.hub /\ ~wire.box /\ wire' = [wire EXCEPT !.hub = FALSE]
  /\ UNCHANGED <<calls, waiting, execs>>

BoxReturns ==
  /\ ~wire.box /\ wire' = [hub |-> TRUE, box |-> TRUE]
  /\ UNCHANGED <<calls, waiting, execs>>

BoxReboots ==
  /\ wire' = [wire EXCEPT !.box = FALSE]
  /\ execs' = [execs EXCEPT !.sent = {}, !.running = {}]
  /\ UNCHANGED <<calls, waiting>>

\* The map and the requests go; answers to come find no waiter.
HubGone ==
  /\ waiting # {}
  /\ calls' = [c \in Commands |-> IF calls[c] = "asked" THEN "failed" ELSE calls[c]]
  /\ waiting' = {} /\ wire' = [hub |-> FALSE, box |-> FALSE]
  /\ execs' = [execs EXCEPT !.sent = {}, !.answered = {}]

CommandNext ==
  \/ \E c \in Commands :
       \/ Executes(c) \/ TimerFires(c) \/ ShellStarts(c) \/ ShellEnds(c)
       \/ \E how \in {"ok", "failed"} : AnswerComes(c, how)
  \/ WireBreaks \/ CloseSeen \/ BoxReturns \/ BoxReboots \/ HubGone

=============================================================================
