---------------------------- MODULE AgentUpdates ---------------------------
(***************************************************************************)
(* services/agentRelease.ts and agent/selfupdate.go: how a box gets the     *)
(* agent that the hub ships.                                                *)
(*                                                                          *)
(* The hub has one release and a limited number of boxes under way          *)
(* (inFlight).  On the box every agent_update is a goroutine that downloads *)
(* to <exe>.new, moves the binary to <exe>.old and the download in its      *)
(* place, and executes it.  A file is the parts written to it; a file that   *)
(* is open follows its renames.                                              *)
(***************************************************************************)
EXTENDS Integers, FiniteSets

CONSTANTS
  Holders,       \* boxes
  Batch,         \* agentUpdateConcurrency
  Parts,         \* of the new binary
  MaxTrouble     \* bound: crashes, lost sessions, failed downloads, jobs

ASSUME UpdateAssumption == Batch \in Nat \ {0} /\ MaxTrouble \in Nat /\ IsFiniteSet(Holders)

VARIABLES
  inFlight,   \* boxes told to update and not yet seen on the new version
  asking,     \* calls of maybeUpdateAgent that await getHubSettings, per box
  seen,       \* what the connection of a box says: its version and its job
  told,       \* agent_update frames on their way to a box
  openRows,   \* AgentUpdate rows of a box in SENT, and those being created
  disk,       \* the files exe, old and new of a box
  agent,      \* the process: what it runs, its session, its job slot
  swap,       \* its goroutines in selfUpdate
  overlap,    \* history: boxes on which two updates ran at once
  trouble     \* how much of MaxTrouble is used

updateVars == <<inFlight, asking, seen, told, openRows, disk, agent, swap, overlap, trouble>>
hubVars == <<inFlight, asking, seen, openRows>>

Goroutines == 1..2
Old == [v |-> "old", parts |-> Parts]
NoFile == [v |-> "none", parts |-> {}]
IsWhole(f) == f.v # "none" /\ f.parts = Parts
Asleep == [at |-> "idle", wrote |-> {}, fd |-> "none"]
Unseen == [version |-> "none", job |-> FALSE]

UpdateInit ==
  /\ inFlight = {} /\ asking = [b \in Holders |-> 0] /\ seen = [b \in Holders |-> Unseen]
  /\ told = [b \in Holders |-> 0] /\ openRows = [b \in Holders |-> 0]
  /\ disk = [b \in Holders |-> [exe |-> Old, old |-> NoFile, new |-> NoFile]]
  /\ agent = [b \in Holders |-> [runs |-> "old", online |-> FALSE, job |-> FALSE]]
  /\ swap = [b \in Holders |-> [g \in Goroutines |-> Asleep]]
  /\ overlap = {} /\ trouble = 0

Troubled == trouble < MaxTrouble /\ trouble' = trouble + 1

-----------------------------------------------------------------------------
(* The hub                                                                  *)

\* finishAgentUpdate: the newest open row is closed, if there is one.
RowClosed(b) == openRows' = [openRows EXCEPT ![b] = IF @ > 0 THEN @ - 1 ELSE 0]

\* maybeUpdateAgent up to its await, for what a box reports.
Considered(b, version, job) ==
  \/ version = "new" /\ inFlight' = inFlight \ {b} /\ RowClosed(b) /\ UNCHANGED asking
  \/ /\ version = "old" /\ ~job /\ b \notin inFlight
     /\ asking' = [asking EXCEPT ![b] = @ + 1] /\ UNCHANGED <<inFlight, openRows>>
  \/ /\ version # "new" /\ (version # "old" \/ job \/ b \in inFlight)
     /\ UNCHANGED <<inFlight, asking, openRows>>

\* A box dials in and says hello.
Greets(b) ==
  /\ agent[b].runs # "none" /\ ~agent[b].online
  /\ agent' = [agent EXCEPT ![b].online = TRUE]
  /\ seen' = [seen EXCEPT ![b] = [version |-> agent[b].runs, job |-> agent[b].job]]
  /\ Considered(b, agent[b].runs, agent[b].job)
  /\ UNCHANGED <<told, disk, swap, overlap, trouble>>

Beats(b) ==
  /\ agent[b].online /\ seen[b].job # agent[b].job
  /\ seen' = [seen EXCEPT ![b].job = agent[b].job]
  /\ UNCHANGED <<inFlight, asking, told, openRows, disk, agent, swap, overlap, trouble>>

\* startAgentUpdateSweep, for one connection.
Sweeps(b) ==
  /\ agent[b].online /\ asking[b] < 2 /\ Considered(b, seen[b].version, seen[b].job)
  /\ UNCHANGED <<seen, told, disk, agent, swap, overlap, trouble>>

\* Mutant: the room was looked at before the settings were awaited.
HasRoomThen == TRUE
HasRoom == Cardinality(inFlight) < Batch

\* The settings are here: the limit is checked and the slot taken in one step.
Decides(b) ==
  /\ asking[b] > 0
  /\ asking' = [asking EXCEPT ![b] = @ - 1]
  /\ IF HasRoom
     THEN /\ inFlight' = inFlight \cup {b}
          /\ told' = [told EXCEPT ![b] = IF agent[b].online /\ @ < 2 THEN @ + 1 ELSE @]
          /\ openRows' = [openRows EXCEPT ![b] = IF @ < 2 THEN @ + 1 ELSE @]
     ELSE UNCHANGED <<inFlight, told, openRows>>
  /\ UNCHANGED <<seen, disk, agent, swap, overlap, trouble>>

\* Mutant: a box that never answers keeps its slot.
MayExpireNever(b) == FALSE
\* IN_FLIGHT_TTL_MS have passed, as long as a download may take.
MayExpire(b) == \A g \in Goroutines : swap[b][g].at = "idle"

SlotExpires(b) ==
  /\ b \in inFlight /\ told[b] = 0 /\ MayExpire(b)
  /\ inFlight' = inFlight \ {b}
  /\ UNCHANGED <<asking, seen, told, openRows, disk, agent, swap, overlap, trouble>>

-----------------------------------------------------------------------------
(* selfUpdate on the box                                                    *)

\* The goroutines of a box after a file was renamed or removed.
Moved(b, from, to) == [g \in Goroutines |->
  CASE swap[b][g].fd = from -> [swap[b][g] EXCEPT !.fd = to]
    [] swap[b][g].fd = to -> [swap[b][g] EXCEPT !.fd = "none"]
    [] OTHER -> swap[b][g]]

\* updateFailed: the frame reaches recordAgentUpdateFailure, if there is a
\* session; then the goroutine ends.
Reported(b) ==
  IF agent[b].online THEN inFlight' = inFlight \ {b} /\ RowClosed(b)
                     ELSE UNCHANGED <<inFlight, openRows>>

GivesUp(b, g, files, goroutines) ==
  /\ Reported(b)
  /\ disk' = [disk EXCEPT ![b] = files]
  /\ swap' = [swap EXCEPT ![b] = [goroutines EXCEPT ![g] = Asleep]]

WithoutNew(b) == [disk[b] EXCEPT !.new = NoFile]

\* Nothing is done on the version already run, nor while a job runs.
UpdateArrives(b, g) ==
  /\ told[b] > 0 /\ swap[b][g].at = "idle" /\ \A h \in 1..g - 1 : swap[b][h].at # "idle"
  /\ told' = [told EXCEPT ![b] = @ - 1]
  /\ IF agent[b].runs = "new" \/ agent[b].job
     THEN UNCHANGED <<disk, swap, overlap>>
     ELSE /\ disk' = [disk EXCEPT ![b].new = [v |-> "new", parts |-> {}]]
          /\ swap' = [swap EXCEPT ![b][g] = [at |-> "copy", wrote |-> {}, fd |-> "new"]]
          /\ overlap' = IF \E h \in Goroutines : swap[b][h].at # "idle"
                        THEN overlap \cup {b} ELSE overlap
  /\ UNCHANGED <<hubVars, agent, trouble>>

Copies(b, g) ==
  /\ swap[b][g].at = "copy"
  /\ LET p == CHOOSE p \in Parts \ swap[b][g].wrote : TRUE
         fd == swap[b][g].fd IN
     /\ Parts \ swap[b][g].wrote # {}
     /\ swap' = [swap EXCEPT ![b][g].wrote = @ \cup {p}]
     /\ disk' = IF fd = "none" THEN disk ELSE [disk EXCEPT ![b][fd].parts = @ \cup {p}]
  /\ UNCHANGED <<hubVars, told, agent, overlap, trouble>>

DownloadBreaks(b, g) ==
  /\ swap[b][g].at = "copy" /\ Troubled
  /\ GivesUp(b, g, WithoutNew(b), Moved(b, "new", "none"))
  /\ UNCHANGED <<asking, seen, told, agent, overlap>>

\* The checksum is that of what was received.
Verified(b, g) ==
  /\ swap[b][g].at = "copy" /\ swap[b][g].wrote = Parts
  /\ swap' = [swap EXCEPT ![b][g] = [Asleep EXCEPT !.at = "swap"]]
  /\ UNCHANGED <<hubVars, told, disk, agent, overlap, trouble>>

\* Mutant: the old binary is removed, not moved.
KeptNot(files) == [files EXCEPT !.old = NoFile, !.exe = NoFile]
Kept(files) == [files EXCEPT !.old = files.exe, !.exe = NoFile]

\* chmod, remove <exe>.old, rename exe.
MovesOld(b, g) ==
  /\ swap[b][g].at = "swap"
  /\ IF disk[b].new.v = "none" \/ disk[b].exe.v = "none"
     THEN GivesUp(b, g, IF disk[b].new.v = "none" THEN disk[b]
                        ELSE [WithoutNew(b) EXCEPT !.old = NoFile], Moved(b, "new", "none"))
     ELSE /\ disk' = [disk EXCEPT ![b] = Kept(@)]
          /\ swap' = [swap EXCEPT ![b] = [Moved(b, "exe", "old") EXCEPT ![g].at = "put"]]
          /\ UNCHANGED <<inFlight, openRows>>
  /\ UNCHANGED <<asking, seen, told, agent, overlap, trouble>>

PutsNew(b, g) ==
  /\ swap[b][g].at = "put"
  /\ IF disk[b].new.v = "none"
     THEN GivesUp(b, g, IF disk[b].old.v = "none" THEN disk[b]
                        ELSE [disk[b] EXCEPT !.exe = disk[b].old, !.old = NoFile],
                  Moved(b, "old", "exe"))
     ELSE /\ disk' = [disk EXCEPT ![b].exe = disk[b].new, ![b].new = NoFile]
          /\ swap' = [swap EXCEPT ![b] = [Moved(b, "new", "exe") EXCEPT ![g].at = "exec"]]
          /\ UNCHANGED <<inFlight, openRows>>
  /\ UNCHANGED <<asking, seen, told, agent, overlap, trouble>>

\* service.sh: what starts, after the loop has put the old binary back where
\* there is none.
Restored(files) == IF files.exe.v = "none" THEN [files EXCEPT !.exe = files.old, !.old = NoFile]
                   ELSE files

Started(b) ==
  LET files == Restored(disk[b]) IN
  /\ disk' = [disk EXCEPT ![b] = files]
  /\ agent' = [agent EXCEPT ![b] = [runs |-> IF IsWhole(files.exe) THEN files.exe.v ELSE "none",
                                    online |-> FALSE, job |-> FALSE]]
  /\ swap' = [swap EXCEPT ![b] = [g \in Goroutines |-> Asleep]]
  /\ told' = [told EXCEPT ![b] = 0]

\* The process becomes what exe is: sockets, goroutines and a job end.
Execs(b, g) ==
  /\ swap[b][g].at = "exec"
  /\ Started(b)
  /\ UNCHANGED <<hubVars, overlap, trouble>>

-----------------------------------------------------------------------------
(* Jobs, faults                                                             *)

JobComes(b) ==
  /\ agent[b].online /\ ~agent[b].job /\ Troubled
  /\ agent' = [agent EXCEPT ![b].job = TRUE]
  /\ UNCHANGED <<hubVars, told, disk, swap, overlap>>

JobGoes(b) ==
  /\ agent[b].job
  /\ agent' = [agent EXCEPT ![b].job = FALSE]
  /\ UNCHANGED <<hubVars, told, disk, swap, overlap, trouble>>

\* The goroutines of selfUpdate do not notice.
SessionLost(b) ==
  /\ agent[b].online /\ Troubled
  /\ agent' = [agent EXCEPT ![b].online = FALSE]
  /\ told' = [told EXCEPT ![b] = 0]
  /\ UNCHANGED <<hubVars, disk, swap, overlap>>

PowerFails(b) ==
  /\ agent[b].runs # "none" /\ Troubled
  /\ Started(b)
  /\ UNCHANGED <<hubVars, overlap>>

HubRestarts ==
  /\ Troubled
  /\ inFlight' = {} /\ asking' = [b \in Holders |-> 0] /\ seen' = [b \in Holders |-> Unseen]
  /\ told' = [b \in Holders |-> 0]
  /\ agent' = [b \in Holders |-> [agent[b] EXCEPT !.online = FALSE]]
  /\ UNCHANGED <<openRows, disk, swap, overlap>>

BoxUpdates(b) == \E g \in Goroutines :
  \/ UpdateArrives(b, g) \/ Copies(b, g) \/ Verified(b, g)
  \/ MovesOld(b, g) \/ PutsNew(b, g) \/ Execs(b, g)

UpdateNext ==
  \/ \E b \in Holders :
       \/ Greets(b) \/ Beats(b) \/ Sweeps(b) \/ Decides(b) \/ SlotExpires(b)
       \/ BoxUpdates(b) \/ \E g \in Goroutines : DownloadBreaks(b, g)
       \/ JobComes(b) \/ JobGoes(b) \/ SessionLost(b) \/ PowerFails(b)
  \/ HubRestarts

-----------------------------------------------------------------------------
\* No more boxes are under way than the setting allows, although the check for
\* room comes after an await in which hellos and the sweep check for others.
BatchHolds == Cardinality(inFlight) <= Batch

\* Whatever is cut short, a box comes back on the old agent or on the new one:
\* "never a half-written file".
Startable(b) == IsWhole(Restored(disk[b]).exe)

\* It holds as long as the hub has not told the box twice at once.
StartableAlone == \A b \in Holders : Startable(b) \/ b \in overlap

\* Every box gets to the release, busy or over the limit at its hello as it may
\* have been, through a failed download, a lost session, a restart; unless two
\* updates ran at once somewhere, whose box may fail and hold up the others.
Converges == \A b \in Holders : <>(agent[b].runs = "new" \/ overlap # {})
=============================================================================
