----------------------------- MODULE FleetTable ----------------------------
(***************************************************************************)
(* components/fleet-table.tsx with change-group-dialog.tsx: picking boxes    *)
(* and what is done with those that are picked, by actions/rollouts.ts and   *)
(* actions/devices.ts.                                                      *)
(*                                                                          *)
(* The page shows the rows as it last got them, those of them that match a   *)
(* filter, a page of these at a time.  What is picked outlives all three.    *)
(* A dialog is given the picked boxes that match at the moment, also while   *)
(* it is open.  A box is the number it has in the order of the table.        *)
(***************************************************************************)
EXTENDS Integers, FiniteSets

CONSTANTS
  Shelf,      \* the boxes, numbers
  PerPage,    \* pageSize
  MaxTicks,   \* bound: what the operator does
  MaxTurmoil  \* bound: what happens to the boxes meanwhile

ASSUME TableAssumption ==
  /\ Shelf \subseteq Nat /\ PerPage \in Nat \ {0} /\ MaxTicks \in Nat /\ MaxTurmoil \in Nat

VARIABLES
  devices,  \* Device rows: online, approved, group
  view,     \* the state of FleetTable and its dialogs
  bulk,     \* the action under way: of what button, on which boxes
  outcome,  \* history: what the last one did
  ticks, turmoil

tableVars == <<devices, view, bulk, outcome, ticks, turmoil>>

Filters == {"all", "online", "offline", "pending"}
Groups == {"", "g"}
NoBulk == [by |-> "none", ids |-> {}, to |-> "", picked |-> {}, hidden |-> FALSE]
NothingDone == [by |-> "none", boxes |-> {}, picked |-> {}, hidden |-> FALSE]

TableInit ==
  /\ devices \in [Shelf -> [online : BOOLEAN, approved : {TRUE}, group : {""}]]
  /\ view = [rows |-> devices, filter |-> "all", page |-> 1, selected |-> {}, dialog |-> "none"]
  /\ bulk = NoBulk /\ outcome = NothingDone /\ ticks = 0 /\ turmoil = 0

-----------------------------------------------------------------------------
(* What is on screen                                                        *)

Matches(entry) ==
  CASE view.filter = "all" -> TRUE [] view.filter = "online" -> entry.online
    [] view.filter = "offline" -> ~entry.online [] view.filter = "pending" -> ~entry.approved

MatchingIn(rows) == {b \in DOMAIN rows : Matches(rows[b])}
Matching == MatchingIn(view.rows)

\* The page in state is clamped rather than trusted.
Clamped(page, rows) ==
  LET pages == (Cardinality(MatchingIn(rows)) + PerPage - 1) \div PerPage
      last == IF pages = 0 THEN 1 ELSE pages
  IN IF page < last THEN page ELSE last
Current == Clamped(view.page, view.rows)
Visible ==
  LET place(b) == Cardinality({c \in Matching : c < b})
  IN {b \in Matching : place(b) \div PerPage = Current - 1}
Selectable == {b \in Visible : view.rows[b].approved}

\* selectedInOrder: what the dialogs are given.
\* Mutant: all that match, if any of them is picked.
GivenTheFilter == IF view.selected \cap Matching = {} THEN {} ELSE Matching
Given == Matching \cap view.selected

\* The page comes again; the effect of the hook trims the page number.
Refreshed(rows) == [view EXCEPT !.rows = rows, !.page = Clamped(@, rows)]

-----------------------------------------------------------------------------
(* Picking                                                                  *)

Ticks == view.dialog = "none" /\ ticks < MaxTicks /\ ticks' = ticks + 1

SetsFilter(f) ==
  /\ Ticks /\ f # view.filter
  /\ view' = [view EXCEPT !.filter = f, !.page = 1]
  /\ UNCHANGED <<devices, bulk, outcome, turmoil>>

TurnsPage ==
  /\ Ticks
  /\ \E page \in {Clamped(Current + 1, view.rows), 1} \ {Current} :
       view' = [view EXCEPT !.page = page]
  /\ UNCHANGED <<devices, bulk, outcome, turmoil>>

TogglesOne(b) ==
  /\ Ticks /\ b \in Selectable
  /\ view' = [view EXCEPT !.selected = IF b \in @ THEN @ \ {b} ELSE @ \cup {b}]
  /\ UNCHANGED <<devices, bulk, outcome, turmoil>>

TogglesAll ==
  /\ Ticks /\ Selectable # {}
  /\ view' = [view EXCEPT !.selected = IF Selectable \subseteq @ THEN @ \ Selectable
                                       ELSE @ \cup Selectable]
  /\ UNCHANGED <<devices, bulk, outcome, turmoil>>

ClearsSelection ==
  /\ Ticks /\ view.selected # {}
  /\ view' = [view EXCEPT !.selected = {}]
  /\ UNCHANGED <<devices, bulk, outcome, turmoil>>

-----------------------------------------------------------------------------
(* Doing                                                                    *)

\* The bar is there while anything is picked; "Update all" always is.
OpensDialog(which) ==
  /\ Ticks /\ bulk = NoBulk
  /\ IF which = "all" THEN DOMAIN view.rows # {} ELSE view.selected # {}
  /\ view' = [view EXCEPT !.dialog = which]
  /\ UNCHANGED <<devices, bulk, outcome, turmoil>>

ClosesDialog ==
  /\ view.dialog # "none"
  /\ view' = [view EXCEPT !.dialog = "none"]
  /\ UNCHANGED <<devices, bulk, outcome, ticks, turmoil>>

Submits(by, ids, to) ==
  bulk' = [by |-> by, ids |-> ids, to |-> to, picked |-> view.selected, hidden |-> Given = {}]

SubmitsUpdate ==
  /\ view.dialog \in {"update", "all"} /\ bulk = NoBulk
  /\ Submits(view.dialog, IF view.dialog = "all" THEN {} ELSE Given, "")
  /\ UNCHANGED <<devices, view, outcome, ticks, turmoil>>

\* Disabled while nothing would move.
SubmitsGroup(g) ==
  /\ view.dialog = "group" /\ bulk = NoBulk
  /\ \E b \in Given : view.rows[b].group # g
  /\ Submits("group", Given, g)
  /\ UNCHANGED <<devices, view, outcome, ticks, turmoil>>

Did(boxes) ==
  outcome' = [by |-> bulk.by, boxes |-> boxes, picked |-> bulk.picked, hidden |-> bulk.hidden]

\* startRollout, createRollout: no boxes means every one that is approved.  The
\* page goes on to the rollout.
Starts ==
  LET boxes == {b \in DOMAIN devices : devices[b].approved /\ (bulk.ids # {} => b \in bulk.ids)} IN
  /\ bulk.by \in {"update", "all"} /\ bulk' = NoBulk
  /\ IF boxes = {} THEN UNCHANGED <<view, outcome>>
     ELSE /\ Did(boxes)
          /\ view' = [rows |-> devices, filter |-> "all", page |-> 1,
                       selected |-> {}, dialog |-> "none"]
  /\ UNCHANGED <<devices, ticks, turmoil>>

\* setDevicesGroup: all of them or none, and those that are not there yet.
MovesBoxes ==
  LET moved == {b \in bulk.ids : devices[b].group # bulk.to} IN
  /\ bulk.by = "group" /\ bulk.ids \subseteq DOMAIN devices /\ bulk' = NoBulk
  /\ Did(moved)
  /\ devices' = [b \in DOMAIN devices |-> IF b \in moved THEN [devices[b] EXCEPT !.group = bulk.to]
                                          ELSE devices[b]]
  /\ view' = [(IF moved = {} THEN view ELSE Refreshed(devices')) EXCEPT !.dialog = "none"]
  /\ UNCHANGED <<ticks, turmoil>>

Refuses ==
  /\ bulk.by = "group" /\ ~(bulk.ids \subseteq DOMAIN devices) /\ bulk' = NoBulk
  /\ UNCHANGED <<devices, view, outcome, ticks, turmoil>>

-----------------------------------------------------------------------------
(* The fleet, and the page that follows it                                  *)

Turmoil == turmoil < MaxTurmoil /\ turmoil' = turmoil + 1

BoxTurns(b) ==
  /\ Turmoil /\ devices' = [devices EXCEPT ![b].online = ~@]
  /\ UNCHANGED <<view, bulk, outcome, ticks>>

\* setDeviceApproval
SetsApproval(b) ==
  /\ Turmoil /\ devices' = [devices EXCEPT ![b].approved = ~@]
  /\ UNCHANGED <<view, bulk, outcome, ticks>>

\* deleteDevice
DeletesBox(b) ==
  /\ Turmoil /\ devices' = [c \in DOMAIN devices \ {b} |-> devices[c]]
  /\ UNCHANGED <<view, bulk, outcome, ticks>>

\* LiveRefresh
TableRefreshes ==
  /\ view.rows # devices
  /\ view' = Refreshed(devices)
  /\ UNCHANGED <<devices, bulk, outcome, ticks, turmoil>>

TableNext ==
  \/ \E f \in Filters : SetsFilter(f)
  \/ \E b \in Shelf : TogglesOne(b)
  \/ TurnsPage \/ TogglesAll \/ ClearsSelection
  \/ \E which \in {"update", "all", "group"} : OpensDialog(which)
  \/ ClosesDialog \/ SubmitsUpdate
  \/ \E g \in Groups : SubmitsGroup(g)
  \/ Starts \/ MovesBoxes \/ Refuses
  \/ \E b \in DOMAIN devices : BoxTurns(b) \/ SetsApproval(b) \/ DeletesBox(b)
  \/ TableRefreshes

TableSpec == TableInit /\ [][TableNext]_tableVars

-----------------------------------------------------------------------------
\* What is done in bulk is done to boxes that were picked, whatever turned,
\* moved or went while a dialog was open; but for an update when none of the
\* picked boxes was on screen.
BulkIsOfPicked ==
  outcome.by \in {"update", "group"} /\ ~outcome.hidden => outcome.boxes \subseteq outcome.picked

\* "An empty device list means every approved device, which is what the 'update
\* all' button sends", and that is "the one action that does not depend on a
\* selection": the Update of a selection is of boxes that were picked.
UpdateIsOfPicked == outcome.by = "update" => outcome.boxes \subseteq outcome.picked
=============================================================================
