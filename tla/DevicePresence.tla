--------------------------- MODULE DevicePresence --------------------------
(***************************************************************************)
(* services/devices.ts with the sockets of ws/deviceSocket.ts: whether the  *)
(* row of a box says ONLINE, and what the monitor knows of it.              *)
(*                                                                          *)
(* A box has one session at a time; the hub may still hold sockets of       *)
(* earlier ones, each with its queue of frames and its close event.         *)
(***************************************************************************)
EXTENDS Integers, FiniteSets

CONSTANT MaxSockets   \* bound: connections of the box

ASSUME PresenceAssumption == MaxSockets \in Nat \ {0}

VARIABLES
  row,         \* Device: there, status, whether lastSeenAt is recent
  sockets,     \* what the hub does with each connection
  registered,  \* the one in the registry
  live,        \* the one that is the box's session
  beats,       \* those with a frame that waits
  reading,     \* latest holds a reading of the box
  sweep        \* the rows sweepOffline has found, before it writes

presenceVars == <<row, sockets, registered, live, beats, reading, sweep>>

Connections == 1..MaxSockets

PresenceInit ==
  /\ row = [there |-> TRUE, status |-> "OFFLINE", fresh |-> FALSE]
  /\ sockets = [n \in Connections |-> "none"]
  /\ registered = 0 /\ live = 0 /\ beats = {} /\ reading = FALSE /\ sweep = {}

Seen == row' = [row EXCEPT !.status = "ONLINE", !.fresh = TRUE]

-----------------------------------------------------------------------------
(* Sockets.  setup: the close listener is not on yet; closing: closed in      *)
(* setup; shut: the close event is due; marking: it has run up to its await.  *)

\* What the peer's end, or a close by the hub, does to a socket.
Ended(state) == CASE state = "setup" -> "closing" [] state = "open" -> "shut" [] OTHER -> state

\* onConnection: register closes the one there is.
Opens ==
  /\ live = 0 /\ row.there
  /\ \E n \in Connections :
       /\ sockets[n] = "none" /\ \A m \in 1..n - 1 : sockets[m] # "none"
       /\ sockets' = [m \in Connections |->
            IF m = n THEN "setup" ELSE IF m = registered THEN Ended(sockets[m]) ELSE sockets[m]]
       /\ live' = n /\ registered' = n
  /\ UNCHANGED <<row, beats, reading, sweep>>

\* The rest of onConnection.  A box that was deleted is turned away.
SetUp(n) ==
  /\ sockets[n] \in {"setup", "closing"}
  /\ IF row.there
     THEN Seen /\ sockets' = [sockets EXCEPT ![n] = IF @ = "setup" THEN "open" ELSE "shut"]
     ELSE UNCHANGED row /\ sockets' = [sockets EXCEPT ![n] = "missed"]
  /\ UNCHANGED <<registered, live, beats, reading, sweep>>

\* The close event of a socket that is still set up finds no listener.
CloseMissed(n) ==
  /\ sockets[n] = "closing"
  /\ sockets' = [sockets EXCEPT ![n] = "deaf"]
  /\ UNCHANGED <<row, registered, live, beats, reading, sweep>>

DeafSetUp(n) ==
  /\ sockets[n] = "deaf" /\ sockets' = [sockets EXCEPT ![n] = "missed"]
  /\ IF row.there THEN Seen ELSE UNCHANGED row
  /\ UNCHANGED <<registered, live, beats, reading, sweep>>

\* The session ends, with a close frame or without: the ping then finds out.
Ends ==
  /\ live # 0 /\ live' = 0
  /\ sockets' = [sockets EXCEPT ![live] = Ended(@)]
  /\ UNCHANGED <<row, registered, beats, reading, sweep>>

\* The close listener: unregister, dropStreams, and the start of markOffline.
Closes(n) ==
  /\ sockets[n] = "shut"
  /\ sockets' = [sockets EXCEPT ![n] = "marking"]
  /\ registered' = IF registered = n THEN 0 ELSE registered
  /\ UNCHANGED <<row, live, beats, reading, sweep>>

\* markOffline asks nobody whether the box is back.
MarksOffline(n) ==
  /\ sockets[n] = "marking" /\ sockets' = [sockets EXCEPT ![n] = "over"]
  /\ row' = [row EXCEPT !.status = "OFFLINE"] /\ reading' = FALSE
  /\ UNCHANGED <<registered, live, beats, sweep>>

-----------------------------------------------------------------------------
(* Frames, the sweep, the operator, the hub                                 *)

HeartBeats == /\ live # 0 /\ beats' = beats \cup {live}
         /\ UNCHANGED <<row, sockets, registered, live, reading, sweep>>

\* hello or heartbeat, in the queue of its socket behind the setup: markOnline
\* and applyMetrics.  A row that is gone makes the handler fail.
Applies(n) ==
  /\ n \in beats /\ sockets[n] \notin {"setup", "closing", "deaf"}
  /\ beats' = beats \ {n}
  /\ IF row.there THEN Seen /\ reading' = TRUE ELSE UNCHANGED <<row, reading>>
  /\ UNCHANGED <<sockets, registered, live, sweep>>

LastSeenAges ==
  /\ row.fresh /\ row' = [row EXCEPT !.fresh = FALSE]
  /\ UNCHANGED <<sockets, registered, live, beats, reading, sweep>>

\* Mutant: a box that has a connection is left to its close event.
IsStaleUnconnected == row.there /\ row.status = "ONLINE" /\ ~row.fresh /\ registered = 0
IsStale == row.there /\ row.status = "ONLINE" /\ ~row.fresh

\* sweepOffline: the rows are found, then written by id.
SweepFinds ==
  /\ IsStale /\ sweep = {} /\ sweep' = {"box"}
  /\ UNCHANGED <<row, sockets, registered, live, beats, reading>>

SweepWrites ==
  /\ sweep # {} /\ sweep' = {}
  /\ row' = [row EXCEPT !.status = "OFFLINE"]
  /\ UNCHANGED <<sockets, registered, live, beats, reading>>

\* deleteDevice: the token goes with the row, the socket stays.
Deletes ==
  /\ row.there /\ row' = [row EXCEPT !.there = FALSE, !.status = "OFFLINE"]
  /\ UNCHANGED <<sockets, registered, live, beats, reading, sweep>>

\* Nothing is written: rows stay ONLINE.
HubStarts ==
  /\ registered # 0 /\ registered' = 0 /\ live' = 0
  /\ sockets' = [n \in Connections |-> IF sockets[n] = "none" THEN "none" ELSE "over"]
  /\ beats' = {} /\ reading' = FALSE /\ sweep' = {}
  /\ UNCHANGED row

PresenceNext ==
  \/ Opens \/ Ends \/ HeartBeats \/ LastSeenAges \/ SweepFinds \/ SweepWrites
  \/ Deletes \/ HubStarts
  \/ \E n \in Connections :
       SetUp(n) \/ CloseMissed(n) \/ DeafSetUp(n) \/ Closes(n) \/ MarksOffline(n) \/ Applies(n)

-----------------------------------------------------------------------------
\* The row settles on the truth: a box that is gone for good is OFFLINE in the
\* end, also when its close event was missed or the hub restarted, and one that
\* has a session is shown ONLINE again and again, also after the late close of
\* a socket that was replaced.
PresenceSettles ==
  /\ <>[](live = 0) => <>[](row.status = "OFFLINE")
  /\ <>[](live # 0 /\ row.there) => []<>(row.status = "ONLINE")
=============================================================================
