------------------------------- MODULE Fleet -------------------------------
(***************************************************************************)
(* A hub, its database and its boxes: JobStore, DeviceLink, Scheduler and  *)
(* Rollouts as one system, and what makes them correct together.           *)
(***************************************************************************)
EXTENDS Rollouts

CONSTANT MaxCrashes   \* bound: how often the hub process dies

ASSUME FleetAssumption == MaxCrashes \in Nat

VARIABLE crashes

vars == <<storeVars, linkVars, pass, requestVars, crashes>>

Init ==
  /\ StoreInit
  /\ LinkInit
  /\ PassInit
  /\ RequestInit
  /\ crashes = 0

\* The hub process dies and is started again: every handler, the registry and
\* the frames it had received are gone, the rows are not.  Bound: only while
\* every box that loses its session can reconnect.
HubCrash ==
  /\ crashes < MaxCrashes
  /\ \A d \in Devices : session[d] # None => Unused(d) # {}
  /\ crashes' = crashes + 1
  /\ frame' = [t \in Threads |-> Idle]
  /\ pass' = NoPass
  /\ sock' = [s \in Sockets |-> IF sock[s] = "open" THEN "closed" ELSE sock[s]]
  /\ registry' = [d \in Devices |-> None]
  /\ session' = [d \in Devices |-> None]
  /\ greeted' = [d \in Devices |-> FALSE]
  /\ inbox' = [s \in Sockets |-> <<>>]
  /\ outbox' = [s \in Sockets |-> <<>>]
  /\ UNCHANGED <<job, rollout, revived, agent, started, installed, requestVars>>

-----------------------------------------------------------------------------
Store(t) == StoreStep(t) /\ UNCHANGED <<linkVars, pass, requestVars, crashes>>
Socket(s) == SocketStep(s) /\ UNCHANGED <<pass, requestVars, crashes>>
Box(d) == BoxStep(d) /\ UNCHANGED <<pass, requestVars, crashes>>
TickRuns == TickStep /\ UNCHANGED <<requestVars, crashes>>
Request(q) == RequestStep(q) /\ UNCHANGED crashes
Creates(q, r) == CreateRollout(q, r) /\ UNCHANGED crashes

Dials(d) == Connect(d) /\ UNCHANGED <<pass, requestVars, crashes>>
Fault(d) == BoxFault(d) /\ UNCHANGED <<pass, requestVars, crashes>>
Reports(d) == Progress(d) /\ UNCHANGED <<pass, requestVars, crashes>>
Beats(d) == Heartbeat(d) /\ UNCHANGED <<pass, requestVars, crashes>>

Ages(j) == HeartbeatAges(j) /\ UNCHANGED <<pass, requestVars, crashes>>
BackoffEnds(j) == BackoffElapses(j) /\ UNCHANGED <<linkVars, pass, requestVars, crashes>>
SoakEnds(r) == SoakElapses(r) /\ UNCHANGED <<linkVars, pass, requestVars, crashes>>

Next ==
  \/ \E t \in Threads : Store(t)
  \/ \E s \in Sockets : Socket(s)
  \/ \E d \in Devices : Dials(d) \/ Box(d) \/ Fault(d) \/ Reports(d) \/ Beats(d)
  \/ \E j \in Jobs : Ages(j) \/ BackoffEnds(j)
  \/ \E r \in Rollouts : SoakEnds(r)
  \/ TickRuns
  \/ \E q \in Requests : Request(q) \/ (Ask(q) /\ UNCHANGED crashes)
  \/ \E q \in Requests, r \in Rollouts : Creates(q, r)
  \/ HubCrash

Spec == Init /\ [][Next]_vars

\* The event loop runs every handler to its end, the interval timer keeps
\* ticking, a box that runs finishes its install, time passes, and an operator
\* creates each rollout.  Nothing else need ever happen: no fault, no request,
\* and no box that has lost its session need return.
Fairness ==
  /\ \A t \in Threads : WF_vars(Store(t))
  /\ \A s \in Sockets : WF_vars(Socket(s))
  /\ \A d \in Devices : WF_vars(Box(d)) /\ WF_vars(Beats(d))
  /\ \A j \in Jobs : WF_vars(Ages(j)) /\ WF_vars(BackoffEnds(j))
  /\ \A r \in Rollouts : WF_vars(SoakEnds(r))
  /\ \A r \in Rollouts : WF_vars(\E q \in Requests : Creates(q, r))
  /\ WF_vars(TickRuns)
  /\ \A q \in Requests : WF_vars(Request(q))

DetachedSpec == Spec /\ Fairness

\* In addition every box without a session dials again, as the loop in Run does.
FairSpec == Spec /\ Fairness /\ \A d \in Devices : WF_vars(Dials(d))
=============================================================================
