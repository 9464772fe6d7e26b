---------------------------- MODULE SettingsPush ---------------------------
(***************************************************************************)
(* How a saved heartbeat interval reaches the scheduler of the hub and the  *)
(* ticker on a box: actions/settings.ts writes the row and rings            *)
(* /internal/settings, hubSettings.ts holds a copy, the hub pushes a        *)
(* welcome, client.go adopts it.                                            *)
(*                                                                          *)
(* Every await of the hub is a step.  The other knobs travel the same way,  *)
(* as far as the copy.                                                      *)
(***************************************************************************)
EXTENDS Naturals

CONSTANTS
  MaxSaves,   \* bound: saves from the dashboard
  MaxSessions \* bound: sockets the box opens

ASSUME SettingsAssumption == MaxSaves \in Nat /\ MaxSessions \in Nat

VARIABLES
  row,      \* the setting in the database
  copy,     \* hubSettings.ts: cache, or None
  reader,   \* what is in the middle of something in the hub
  pulse,    \* the agent: heartbeat, rebeat, its ticker and loops
  saves, dials,
  excuses   \* history: why a value may not have landed

settingsVars == <<row, copy, reader, pulse, saves, dials, excuses>>

None == 0
TooSlow == 3                 \* over maxHeartbeat: the form lets it through
Intervals == {1, 2, TooSlow}
Adopted(v) == v # TooSlow

\* The request of a save, one at a time (two at once can cross); the setup of
\* the box's socket; the scheduler.
Bells == {"save"}
Readers == Bells \cup {"setup", "tick"}
Still == [at |-> "idle", before |-> None, value |-> None]

SettingsInit ==
  /\ row = 1 /\ copy = None /\ reader = [r \in Readers |-> Still]
  /\ pulse = [online |-> FALSE, heartbeat |-> 1, rebeat |-> None, ticker |-> 1,
              lingers |-> FALSE]
  /\ saves = 0 /\ dials = 0 /\ excuses = {}

Moves(r, place) == reader' = [reader EXCEPT ![r] =
  IF place = "idle" THEN Still ELSE [@ EXCEPT !.at = place]]

\* Someone else holds a value it read, or waits for one.
Crossed(r) == \E o \in Readers \ {r} : reader[o].at \notin {"idle", "saved"}

-----------------------------------------------------------------------------
(* The dashboard and the bell                                               *)

Saves(r, v) ==
  /\ reader[r].at = "idle" /\ saves < MaxSaves
  /\ row' = v /\ saves' = saves + 1
  /\ Moves(r, "saved")
  /\ excuses' = IF \A o \in Readers : reader[o].at = "idle" THEN excuses
                ELSE excuses \cup {"crossed"}
  /\ UNCHANGED <<copy, pulse, dials>>

\* Mutant: the old value is looked for after the copy was dropped.
PeekedAfter == None
\* peekHeartbeatSeconds
Peeked == copy

\* /internal/settings up to its first await; or the hub is not reached.
BellRings(r) ==
  /\ reader[r].at = "saved"
  /\ copy' = None
  /\ reader' = [reader EXCEPT ![r] = [at |-> "query", before |-> Peeked, value |-> None]]
  /\ excuses' = IF Crossed(r) THEN (excuses \ {"untold"}) \cup {"crossed"}
                ELSE excuses \ {"untold"}
  /\ UNCHANGED <<row, pulse, saves, dials>>

BellIsNotHeard(r) ==
  /\ reader[r].at = "saved"
  /\ Moves(r, "idle") /\ excuses' = excuses \cup {"untold"}
  /\ UNCHANGED <<row, copy, pulse, saves, dials>>

\* getHubSettings, for a value to send: the copy if there is one, else the query.
Get(r) ==
  IF copy # None
  THEN reader' = [reader EXCEPT ![r].at = "send", ![r].value = copy]
  ELSE Moves(r, "sendQuery")

QueryPlaces == {"query", "sendQuery", "doneQuery"}
AfterQuery(place) == CASE place = "query" -> "compareStore" [] place = "sendQuery" -> "sendStore"
                       [] OTHER -> "doneStore"
AfterStore(place) == CASE place = "compareStore" -> "compare" [] place = "sendStore" -> "send"
                       [] OTHER -> "idle"

Queries(r) ==
  /\ reader[r].at \in QueryPlaces
  /\ reader' = [reader EXCEPT ![r].at = AfterQuery(@), ![r].value = row]
  /\ UNCHANGED <<row, copy, pulse, saves, dials, excuses>>

Stores(r) ==
  /\ reader[r].at \in {"compareStore", "sendStore", "doneStore"}
  /\ copy' = reader[r].value
  /\ Moves(r, AfterStore(reader[r].at))
  /\ UNCHANGED <<row, pulse, saves, dials, excuses>>

\* broadcastWelcome reads the settings again, if the save changed the value.
Compares(r) ==
  /\ reader[r].at = "compare"
  /\ IF reader[r].before # None /\ reader[r].before # reader[r].value
     THEN Get(r) ELSE Moves(r, "idle")
  /\ UNCHANGED <<row, copy, pulse, saves, dials, excuses>>

\* setHeartbeat: what is out of range is ignored; a full channel is passed over.
Heard(v) ==
  IF ~pulse.online \/ ~Adopted(v) \/ v = pulse.heartbeat THEN UNCHANGED <<pulse, excuses>>
  ELSE /\ pulse' = [pulse EXCEPT !.heartbeat = v, !.rebeat = IF @ = None THEN v ELSE @]
       /\ excuses' = IF pulse.rebeat # None THEN excuses \cup {"full"} ELSE excuses

\* The end of broadcastWelcome, or of the setup of the box's socket.  The wire
\* keeps the order; a frame that a lost socket takes along was sent too late.
Welcomes(r) ==
  /\ reader[r].at = "send"
  /\ Heard(reader[r].value)
  /\ Moves(r, "idle")
  /\ UNCHANGED <<row, copy, saves, dials>>

TickReads ==
  /\ reader["tick"].at = "idle" /\ copy = None
  /\ Moves("tick", "doneQuery")
  /\ UNCHANGED <<row, copy, pulse, saves, dials, excuses>>

-----------------------------------------------------------------------------
(* The box                                                                  *)

\* The loop of the session before may still be measuring.
Dials(leaves) ==
  /\ ~pulse.online /\ dials < MaxSessions /\ reader["setup"].at = "idle"
  /\ dials' = dials + 1
  /\ pulse' = [pulse EXCEPT !.online = TRUE, !.ticker = pulse.heartbeat, !.lingers = leaves]
  /\ Get("setup")
  /\ UNCHANGED <<row, copy, saves, excuses>>

\* The loop looks at rebeat between two measurements, which take up to 30 s.
LoopRetunes ==
  /\ pulse.online /\ pulse.rebeat # None
  /\ pulse' = [pulse EXCEPT !.ticker = pulse.rebeat, !.rebeat = None]
  /\ UNCHANGED <<row, copy, reader, saves, dials, excuses>>

\* The loop of a session that is over leaves, and may take what is in rebeat.
OldLoopLeaves(takes) ==
  /\ pulse.lingers /\ (takes => pulse.rebeat # None)
  /\ pulse' = [pulse EXCEPT !.lingers = FALSE, !.rebeat = IF takes THEN None ELSE @]
  /\ excuses' = IF takes THEN excuses \cup {"taken"} ELSE excuses
  /\ UNCHANGED <<row, copy, reader, saves, dials>>

SocketIsLost ==
  /\ pulse.online
  /\ pulse' = [pulse EXCEPT !.online = FALSE]
  /\ UNCHANGED <<row, copy, reader, saves, dials, excuses>>

HubStartsAgain ==
  /\ copy # None /\ dials < MaxSessions
  /\ copy' = None
  /\ reader' = [r \in Readers |-> IF reader[r].at = "saved" THEN reader[r] ELSE Still]
  /\ pulse' = [pulse EXCEPT !.online = FALSE]
  /\ excuses' = excuses \ {"crossed", "untold"}
  /\ UNCHANGED <<row, saves, dials>>

SettingsNext ==
  \/ \E r \in Bells : \/ \E v \in Intervals : Saves(r, v)
                      \/ BellRings(r) \/ BellIsNotHeard(r) \/ Compares(r)
  \/ \E r \in Readers : Queries(r) \/ Stores(r) \/ Welcomes(r)
  \/ TickReads \/ LoopRetunes
  \/ \E b \in BOOLEAN : Dials(b) \/ OldLoopLeaves(b)
  \/ SocketIsLost \/ HubStartsAgain

-----------------------------------------------------------------------------
Quiet == (\A r \in Readers : reader[r].at = "idle")

\* When everything is still, the hub's copy is the saved value and a connected
\* box has it, in its ticker too: unless the hub was not told, a save fell
\* between a read and its use, or the box's channel of one was full or emptied
\* by a loop that had to leave.  The next save that is heard, a new session or
\* a restart of the hub heals the first.
SettingsLand ==
  Quiet /\ excuses \cap {"crossed", "untold"} = {} =>
    /\ copy \in {None, row}
    /\ pulse.online /\ Adopted(row) =>
         /\ pulse.heartbeat = row
         /\ pulse.rebeat = None /\ excuses = {} => pulse.ticker = row
=============================================================================
