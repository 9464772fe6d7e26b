----------------------------- MODULE DeviceLink -----------------------------
(***************************************************************************)
(* The WebSocket between a box and the hub: registry.ts and                *)
(* ws/deviceSocket.ts on the hub, the session and the job slot of          *)
(* internal/agent/client.go on the box.                                    *)
(*                                                                         *)
(* A socket is opened once and never reused.  A box sends on the socket of *)
(* its current session; the frames the hub has received wait in `inbox`,   *)
(* behind the setup and behind each other, even after the socket closed.   *)
(* The frames for the box wait in `outbox` and die with the session.  Hub  *)
(* and box notice the end of a socket at different times.                  *)
(*                                                                         *)
(* Abstracted: authentication, `welcome`, metrics, and every frame that is *)
(* not about jobs.  A heartbeat is sent and handled in one step.           *)
(***************************************************************************)
EXTENDS JobStore, Sequences

CONSTANTS OwnerOf,      \* the box that opens a socket
          MaxReports    \* bound: the progress frames a box sends per install

ASSUME DeviceLinkAssumption ==
  /\ OwnerOf \in [Sockets -> Devices]
  /\ MaxReports \in Nat

VARIABLES
  sock,      \* readyState of each socket as the hub's event loop has seen it
  registry,  \* the connections map: the socket registered for each device
  session,   \* the box's a.conn
  greeted,   \* the box has sent hello on that session
  inbox, outbox,
  agent,     \* the box's job slot: jobID and how far the install is
  started,   \* history: jobs some box has begun to install
  installed  \* history: jobs some box has completely installed

linkVars == <<sock, registry, session, greeted, inbox, outbox, agent,
              started, installed>>

ToHub == [kind : {"hello", "progress", "result"}, job : Jobs \cup {None},
          ok : BOOLEAN]
ToBox == [kind : {"install", "cancel"}, job : Jobs]
\* "stopping": jobStop has been called.  "reported": the result is sent, the
\* deferred function that frees the slot has not run yet.
Slot == [job : Jobs \cup {None},
         phase : {"idle", "working", "stopping", "reported"},
         reports : Nat]
FreeSlot == [job |-> None, phase |-> "idle", reports |-> 0]

LinkInit ==
  /\ sock = [s \in Sockets |-> "new"]
  /\ registry = [d \in Devices |-> None]
  /\ session = [d \in Devices |-> None]
  /\ greeted = [d \in Devices |-> FALSE]
  /\ inbox = [s \in Sockets |-> <<>>]
  /\ outbox = [s \in Sockets |-> <<>>]
  /\ agent = [d \in Devices |-> FreeSlot]
  /\ started = {}
  /\ installed = {}

LinkTypeOK ==
  /\ sock \in [Sockets -> {"new", "open", "closed"}]
  /\ registry \in [Devices -> Sockets \cup {None}]
  /\ session \in [Devices -> Sockets \cup {None}]
  /\ greeted \in [Devices -> BOOLEAN]
  /\ inbox \in [Sockets -> Seq(ToHub)]
  /\ outbox \in [Sockets -> Seq(ToBox)]
  /\ agent \in [Devices -> Slot]
  /\ started \subseteq Jobs
  /\ installed \subseteq Jobs

IsOnline(d) == registry[d] # None
Unused(d) == {s \in Sockets : OwnerOf[s] = d /\ sock[s] = "new"}

\* ws.send on a socket whose box has given up the session: the frame is lost,
\* and the call does not say so.
Sent(s, msg) ==
  IF session[OwnerOf[s]] = s THEN [outbox EXCEPT ![s] = Append(@, msg)] ELSE outbox

\* sendTo for a registered device.
SentTo(d, msg) == Sent(registry[d], msg)

\* a.send: without a session the frame is dropped.
SentToHub(d, msg) ==
  IF session[d] = None THEN inbox
  ELSE [inbox EXCEPT ![session[d]] = Append(@, msg)]

-----------------------------------------------------------------------------
(* The life of a socket.                                                   *)

\* The dial succeeds: onConnection registers the socket, newest wins, and
\* starts its setup; the box stores a.conn.
Connect(d) ==
  /\ session[d] = None
  /\ Unused(d) # {}
  /\ LET s == CHOOSE s \in Unused(d) : TRUE  \* a new one, whichever
     IN  /\ sock' = [sock EXCEPT ![s] = "open"]
         /\ registry' = [registry EXCEPT ![d] = s]
         /\ session' = [session EXCEPT ![d] = s]
         /\ frame' = [frame EXCEPT ![s] = At("setup")]
  /\ UNCHANGED <<job, rollout, revived, greeted, inbox, outbox, agent, started, installed>>

\* The setup is over: the queue is released and the close listener attached.
SetupDone(s) ==
  /\ frame[s].at = "setup"
  /\ frame' = [frame EXCEPT ![s] = Idle]
  /\ UNCHANGED <<job, rollout, revived, linkVars>>

\* The box gives the session up.  Of what it sent, the hub gets a prefix.
\* Bound: only a box that can still reconnect.
SessionEnds(d) ==
  LET s == session[d] IN
  /\ s # None
  /\ Unused(d) # {}
  /\ session' = [session EXCEPT ![d] = None]
  /\ greeted' = [greeted EXCEPT ![d] = FALSE]
  /\ outbox' = [outbox EXCEPT ![s] = <<>>]
  /\ \E n \in 0..Len(inbox[s]) :
       inbox' = [inbox EXCEPT ![s] = SubSeq(@, 1, n)]

SessionDrops(d) ==
  /\ SessionEnds(d)
  /\ UNCHANGED <<storeVars, sock, registry, agent, started, installed>>

\* The box loses power, or its agent is killed: the job slot is gone too.
BoxRestarts(d) ==
  /\ SessionEnds(d)
  /\ agent' = [agent EXCEPT ![d] = FreeSlot]
  /\ UNCHANGED <<storeVars, sock, registry, started, installed>>

\* The close event of a socket its box no longer uses.  Its listener is only
\* attached at the end of the setup: a socket that closes before that is never
\* unregistered.
SocketCloses(s) ==
  LET d == OwnerOf[s] IN
  /\ sock[s] = "open"
  /\ session[d] # s
  /\ sock' = [sock EXCEPT ![s] = "closed"]
  /\ registry' = IF frame[s].at # "setup" /\ registry[d] = s
                 THEN [registry EXCEPT ![d] = None] ELSE registry
  /\ UNCHANGED <<storeVars, session, greeted, inbox, outbox, agent,
                 started, installed>>

-----------------------------------------------------------------------------
(* The hub's side: handleMessage, one frame at a time per socket.          *)

\* Mutant: the null job id of an idle box is looked up like any other.
ReconcileReadWithNull(s, agentJob) ==
  LET active == {j \in Active : DeviceOf[j] = OwnerOf[s]} IN
  [AtJob("reconcile", agentJob) EXCEPT
     !.todo = (active \cup {agentJob}) \ {j \in active : j = agentJob},
     !.ok = agentJob \in active \cup {None}]

\* reconcileJobs: the active jobs of the device are read; those the box did not
\* name go back in the queue one by one, their attempt spent; then a job the box
\* named and the snapshot does not have is cancelled on this very socket.
ReconcileRead(s, agentJob) ==
  LET active == {j \in Active : DeviceOf[j] = OwnerOf[s]} IN
  [AtJob("reconcile", agentJob) EXCEPT
     !.todo = active \ {agentJob},
     !.ok = agentJob \in active \cup {None}]

ReconcileOn(s, f) ==
  IF f.todo # {} THEN /\ frame' = [frame EXCEPT ![s] = f]
                      /\ UNCHANGED outbox
  ELSE /\ frame' = [frame EXCEPT ![s] = Idle]
       /\ outbox' = IF f.ok THEN outbox
                    ELSE Sent(s, [kind |-> "cancel", job |-> f.job])

Receive(s) ==
  LET msg == Head(inbox[s]) IN
  /\ frame[s] = Idle
  /\ inbox[s] # <<>>
  /\ inbox' = [inbox EXCEPT ![s] = Tail(@)]
  /\ \/ /\ msg.kind = "hello"
        /\ ReconcileOn(s, ReconcileRead(s, msg.job))
     \/ /\ msg.kind = "progress"
        /\ frame' = [frame EXCEPT ![s] = ProgressRead(msg.job)]
        /\ UNCHANGED outbox
     \/ /\ msg.kind = "result"
        /\ frame' = [frame EXCEPT ![s] = ResultRead(msg.job, msg.ok)]
        /\ UNCHANGED outbox
  /\ UNCHANGED <<job, rollout, revived, sock, registry, session, greeted, agent,
                 started, installed>>

ReconcileWrite(s) ==
  /\ frame[s].at = "reconcile"
  /\ \E j \in frame[s].todo :
       /\ job' = [job EXCEPT ![j].state = "QUEUED", ![j].held = FALSE,
                             ![j].stale = FALSE]
       /\ ReconcileOn(s, [frame[s] EXCEPT !.todo = @ \ {j}])
  /\ UNCHANGED <<rollout, revived, sock, registry, session, greeted, inbox, agent,
                 started, installed>>

\* A heartbeat that names a running job refreshes it, if it is still active.
Heartbeat(d) ==
  LET j == agent[d].job
      s == session[d]
  IN
  /\ s # None
  /\ greeted[d]
  /\ frame[s] = Idle /\ inbox[s] = <<>>
  /\ j # None
  /\ IsActive(j) /\ job[j].stale
  /\ job' = [job EXCEPT ![j].stale = FALSE]
  /\ UNCHANGED <<rollout, revived, frame, linkVars>>

\* A frame about j is on its way.
InTransit(j) ==
  \/ frame[Tick].at = "send" /\ frame[Tick].job = j
  \/ \E s \in Sockets :
       \/ \E i \in DOMAIN inbox[s] : inbox[s][i].job = j
       \/ \E i \in DOMAIN outbox[s] : outbox[s][i].job = j

\* A job no box is beating for passes the stall cutoff.  The cutoff is minutes:
\* with Prompt, a frame on its way arrives before it.
HeartbeatAges(j) ==
  LET d == DeviceOf[j] IN
  /\ Settled
  /\ IsActive(j)
  /\ ~job[j].stale
  /\ ~(session[d] # None /\ agent[d].job = j)
  /\ Prompt => ~InTransit(j)
  /\ job' = [job EXCEPT ![j].stale = TRUE]
  /\ UNCHANGED <<rollout, revived, frame, linkVars>>

-----------------------------------------------------------------------------
(* The box's side.                                                         *)

\* hello names the job the slot holds, and is sent before any frame is read.
Hello(d) ==
  /\ session[d] # None
  /\ ~greeted[d]
  /\ greeted' = [greeted EXCEPT ![d] = TRUE]
  /\ inbox' = SentToHub(d, [kind |-> "hello", job |-> agent[d].job, ok |-> FALSE])
  /\ UNCHANGED <<storeVars, sock, registry, session, outbox, agent,
                 started, installed>>

\* startJob: a busy slot refuses, and reports the refusal as a failure.
StartJob(d, j) ==
  IF agent[d].job = None
  THEN /\ agent' = [agent EXCEPT ![d] =
                    [job |-> j, phase |-> "working", reports |-> 0]]
       /\ started' = started \cup {j}
       /\ UNCHANGED inbox
  ELSE /\ inbox' = SentToHub(d, [kind |-> "result", job |-> j, ok |-> FALSE])
       /\ UNCHANGED <<agent, started>>

\* cancelJob: only the job in the slot is stopped.
StopJob(d, j) ==
  /\ agent' = IF agent[d].job = j /\ agent[d].phase = "working"
              THEN [agent EXCEPT ![d].phase = "stopping"] ELSE agent
  /\ UNCHANGED <<inbox, started>>

Handle(d) ==
  LET s == session[d]
      msg == Head(outbox[s])
  IN
  /\ s # None
  /\ greeted[d]
  /\ outbox[s] # <<>>
  /\ outbox' = [outbox EXCEPT ![s] = Tail(@)]
  /\ \/ msg.kind = "install" /\ StartJob(d, msg.job)
     \/ msg.kind = "cancel" /\ StopJob(d, msg.job)
  /\ UNCHANGED <<storeVars, sock, registry, session, greeted, installed>>

Progress(d) ==
  LET j == agent[d].job IN
  /\ agent[d].phase = "working"
  /\ session[d] # None
  /\ agent[d].reports < MaxReports
  /\ agent' = [agent EXCEPT ![d].reports = @ + 1]
  /\ inbox' = SentToHub(d, [kind |-> "progress", job |-> j, ok |-> FALSE])
  /\ UNCHANGED <<storeVars, sock, registry, session, greeted, outbox,
                 started, installed>>

\* The installer returns and the result is sent, or lost without a session.  A
\* cancel that lands after the last command does not turn success into failure.
Finish(d, ok) ==
  LET j == agent[d].job IN
  /\ agent[d].phase \in {"working", "stopping"}
  /\ Settled
  /\ agent' = [agent EXCEPT ![d].phase = "reported", ![d].reports = 0]
  /\ installed' = IF ok THEN installed \cup {j} ELSE installed
  /\ inbox' = SentToHub(d, [kind |-> "result", job |-> j, ok |-> ok])
  /\ UNCHANGED <<storeVars, sock, registry, session, greeted, outbox, started>>

FreesSlot(d) ==
  /\ agent[d].phase = "reported"
  /\ agent' = [agent EXCEPT ![d] = FreeSlot]
  /\ UNCHANGED <<storeVars, sock, registry, session, greeted, inbox, outbox,
                 started, installed>>

-----------------------------------------------------------------------------
SocketStep(s) ==
  \/ SetupDone(s)
  \/ SocketCloses(s)
  \/ Receive(s)
  \/ ReconcileWrite(s)

BoxStep(d) ==
  \/ Hello(d)
  \/ Handle(d)
  \/ \E ok \in BOOLEAN : Finish(d, ok)
  \/ FreesSlot(d)

\* What a box may do, and need never do.
BoxFault(d) ==
  \/ SessionDrops(d)
  \/ BoxRestarts(d)
=============================================================================
