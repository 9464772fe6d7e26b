----------------------------- MODULE WatchSpecs ----------------------------
(***************************************************************************)
(* What a box is told to watch, and how it gets to know: the rules of       *)
(* actions/monitoring.ts, the groups and app targets of                      *)
(* actions/settings.ts and devices.ts, rulesFor and specFor of monitor.ts,  *)
(* and the welcome of services/devices.ts and deviceSocket.ts.              *)
(*                                                                          *)
(* There is one group and one signal; rules for other signals do not touch  *)
(* these.  What a rule says is a version.                                   *)
(***************************************************************************)
EXTENDS Naturals, FiniteSets

CONSTANTS
  Rules,     \* numbers: their position
  MaxEdits   \* bound: changes from the dashboard

ASSUME WatchAssumption == Rules \subseteq Nat /\ IsFiniteSet(Rules) /\ MaxEdits \in Nat

VARIABLES
  rule,      \* MonitorRule rows
  master,    \* monitor.enabled
  site,      \* the group: is it there, is the box in it, its MITM package
  targets,   \* how many app targets were added
  teller,    \* requests to the hub, and the setup of the box's socket
  box,       \* the agent: its session, monitor and tracked
  edits,
  reasons    \* history: why the box may not know

watchVars == <<rule, master, site, targets, teller, box, edits, reasons>>

Gone == [there |-> FALSE, on |-> FALSE, scope |-> "all", says |-> 0]
Operators == {"o1", "o2"}
Tellers == Operators \cup {"setup"}
Silent == [at |-> "idle", rules |-> {}, packages |-> <<0, 0>>, inGroup |-> FALSE, clean |-> TRUE]
Nothing == {}

\* rulesFor: a rule of the box's group replaces those for the fleet; else the
\* first wins.
Chosen(loaded, inGroup) ==
  LET fits == {r \in loaded : r.scope = "all" \/ inGroup}
      own == {r \in fits : r.scope = "group"}
      field == IF own # {} THEN own ELSE fits IN
  {r \in field : \A o \in field : r.position <= o.position}

\* specFor
SpecFor(loaded, inGroup) == {<<r.position, r.says>> : r \in Chosen(loaded, inGroup)}

\* loadEnabledRules
Enabled == {[position |-> r, scope |-> rule[r].scope, says |-> rule[r].says] :
            r \in {r \in Rules : master /\ rule[r].there /\ rule[r].on}}

\* trackedPackages: the targets, and what the groups run.
Packages == <<targets, site.mitm>>

WatchInit ==
  /\ rule = [r \in Rules |-> Gone] /\ master \in BOOLEAN
  /\ site = [there |-> TRUE, member |-> FALSE, mitm |-> 0] /\ targets = 0
  /\ teller = [t \in Tellers |-> Silent]
  /\ box = [online |-> FALSE, spec |-> Nothing, tracked |-> <<0, 0>>]
  /\ edits = 0 /\ reasons = {}

-----------------------------------------------------------------------------
(* The dashboard                                                            *)

Midway(t) == teller[t].at \in {"group", "boxes"}

\* A row changes: who has read it is behind.  t is to tell the hub, or nobody
\* is and the reason is kept.
Edited(t, why) ==
  /\ edits < MaxEdits /\ edits' = edits + 1
  /\ teller[t].at = "idle"
  /\ teller' = [o \in Tellers |->
       IF o = t /\ why = "told" THEN [Silent EXCEPT !.at = "tell"]
       ELSE IF Midway(o) THEN [teller[o] EXCEPT !.clean = FALSE] ELSE teller[o]]
  /\ reasons' = IF why \in {"told", "nothing"} THEN reasons ELSE reasons \cup {why}

\* createMonitorRule tells the boxes about a rule that is enabled.
CreatesRule(t, r, on, scope) ==
  /\ ~rule[r].there /\ (scope = "group" => site.there)
  /\ rule' = [rule EXCEPT ![r] = [there |-> TRUE, on |-> on, scope |-> scope, says |-> 0]]
  /\ Edited(t, IF on THEN "told" ELSE "nothing")
  /\ UNCHANGED <<master, site, targets, box>>

UpdatesRule(t, r, on, scope) ==
  /\ rule[r].there /\ (scope = "group" => site.there)
  /\ rule' = [rule EXCEPT ![r] = [@ EXCEPT !.on = on, !.scope = scope, !.says = edits + 1]]
  /\ Edited(t, "told")
  /\ UNCHANGED <<master, site, targets, box>>

TogglesRule(t, r) ==
  /\ rule[r].there
  /\ rule' = [rule EXCEPT ![r].on = ~@]
  /\ Edited(t, "told")
  /\ UNCHANGED <<master, site, targets, box>>

\* Mutant: the boxes are not told.
AfterDeleteUntold == "nothing"
AfterDelete == "told"

DeletesRule(t, r) ==
  /\ rule[r].there
  /\ rule' = [rule EXCEPT ![r] = Gone]
  /\ Edited(t, AfterDelete)
  /\ UNCHANGED <<master, site, targets, box>>

\* setMonitorEnabled rings for the settings only.
FlipsMaster(t) ==
  /\ master' = ~master
  /\ Edited(t, "master")
  /\ UNCHANGED <<rule, site, targets, box>>

\* setDevicesGroup, deleteGroup: rules of the group go with it.
MovesBox(t) ==
  /\ site.there
  /\ site' = [site EXCEPT !.member = ~@]
  /\ Edited(t, "group")
  /\ UNCHANGED <<rule, master, targets, box>>

DeletesGroup(t) ==
  /\ site.there
  /\ site' = [there |-> FALSE, member |-> FALSE, mitm |-> 0]
  /\ rule' = [r \in Rules |-> IF rule[r].scope = "group" THEN Gone ELSE rule[r]]
  /\ Edited(t, "group")
  /\ UNCHANGED <<master, targets, box>>

\* updateGroup, with another MITM package.
UpdatesGroup(t) ==
  /\ site.there
  /\ site' = [site EXCEPT !.mitm = 1 - @]
  /\ Edited(t, "told")
  /\ UNCHANGED <<rule, master, targets, box>>

\* createAppTarget
CreatesTarget(t) ==
  /\ targets' = targets + 1
  /\ Edited(t, "target")
  /\ UNCHANGED <<rule, master, site, box>>

-----------------------------------------------------------------------------
(* The hub and the box                                                      *)

HubNotReached(t) ==
  /\ teller[t].at = "tell"
  /\ teller' = [teller EXCEPT ![t] = Silent] /\ reasons' = reasons \cup {"untold"}
  /\ UNCHANGED <<rule, master, site, targets, box, edits>>

\* broadcastWelcome reads packages and rules, then the boxes that are online;
\* the setup of a socket reads the box first.
ReadsRules(t) ==
  /\ teller[t].at \in {"tell", "group"}
  /\ teller' = [teller EXCEPT ![t] = [@ EXCEPT
       !.at = "boxes", !.rules = Enabled, !.packages = Packages]]
  /\ UNCHANGED <<rule, master, site, targets, box, edits, reasons>>

Delivered(t, inGroup) ==
  /\ box' = IF box.online
            THEN [box EXCEPT !.spec = SpecFor(teller[t].rules, inGroup),
                             !.tracked = teller[t].packages]
            ELSE box
  /\ teller' = [teller EXCEPT ![t] = Silent]
  /\ reasons' = IF ~box.online THEN reasons ELSE IF teller[t].clean THEN {}
                ELSE reasons \cup {"crossed"}
  /\ UNCHANGED <<rule, master, site, targets, edits>>

PushesWelcome(t) == t \in Operators /\ teller[t].at = "boxes" /\ Delivered(t, site.member)
SetupWelcomes == teller["setup"].at = "boxes" /\ Delivered("setup", teller["setup"].inGroup)

BoxConnects ==
  /\ ~box.online /\ teller["setup"].at = "idle"
  /\ box' = [box EXCEPT !.online = TRUE]
  /\ teller' = [teller EXCEPT !["setup"] = [Silent EXCEPT !.at = "group", !.inGroup = site.member]]
  /\ UNCHANGED <<rule, master, site, targets, edits, reasons>>

\* The agent keeps what it was told.
BoxDrops ==
  /\ box.online
  /\ box' = [box EXCEPT !.online = FALSE]
  /\ UNCHANGED <<rule, master, site, targets, teller, edits, reasons>>

WatchNext ==
  \/ \E t \in Operators :
       \/ \E r \in Rules : \/ TogglesRule(t, r) \/ DeletesRule(t, r)
                           \/ \E on \in BOOLEAN, s \in {"all", "group"} :
                                CreatesRule(t, r, on, s) \/ UpdatesRule(t, r, on, s)
       \/ FlipsMaster(t) \/ MovesBox(t) \/ DeletesGroup(t) \/ UpdatesGroup(t) \/ CreatesTarget(t)
       \/ HubNotReached(t) \/ PushesWelcome(t)
  \/ \E t \in Tellers : ReadsRules(t)
  \/ SetupWelcomes \/ BoxConnects \/ BoxDrops

-----------------------------------------------------------------------------
Untroubled(by) == box.online /\ (\A t \in Tellers : teller[t].at = "idle") /\ reasons \cap by = {}

\* A connected box watches what the rules say for its group, and reports the
\* packages the dashboard follows, once no request is under way: whatever rule
\* was made, edited, switched or deleted.  What it does not hear of is a flip
\* of the master switch, a move to another group or its deletion, a new app
\* target, a save the hub was not told of, and a row that changed between a
\* read and its welcome; the next welcome brings all of them.
BoxesWatchTheRules ==
  /\ Untroubled({"untold", "crossed", "master", "group"}) =>
       box.spec = SpecFor(Enabled, site.member)
  /\ Untroubled({"untold", "crossed", "group", "target"}) => box.tracked = Packages
=============================================================================
