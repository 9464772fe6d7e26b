------------------------------- MODULE Naming ------------------------------
(***************************************************************************)
(* lib/rename-pattern.ts, components/rename-devices-dialog.tsx and the       *)
(* actions behind them: naming many boxes at once.                          *)
(*                                                                          *)
(* A name is a stem and a number, in capitals or not; a pattern is one of a  *)
(* few that stand for the tokens.  The serial of a box is its number; the    *)
(* table shows the boxes in any order.  The dialog previews a plan over what *)
(* it has loaded; the action works the plan out again over the rows.          *)
(***************************************************************************)
EXTENDS Ranking

CONSTANTS
  Named,     \* the boxes, numbers
  MaxMeddle  \* bound: changes beside the dialog

ASSUME NamingAssumption == Named \subseteq Nat /\ IsFiniteSet(Named) /\ MaxMeddle \in Nat

VARIABLES
  named,    \* Device rows: name, group
  onBox,    \* the name in the config file on each box
  dialog,
  sending,  \* the request of the dialog under way
  touched,  \* history: boxes changed since the dialog loaded them
  applied,  \* history: the last rename: preview, rows written, names after it
  meddled

namingVars == <<named, onBox, dialog, sending, touched, applied, meddled>>

Blank == ""   \* no group, no pattern, no name
Name(stem, n, caps) == [stem |-> stem, n |-> n, caps |-> caps]
NoName == Name(Blank, 0, FALSE)
TooLong == Name("long", 0, FALSE)
Tv(caps) == Name("tv", 1, caps)
\* toLowerCase
Key(name) == <<name.stem, name.n>>

Patterns == {Blank, "{x}", "tv{n}", "{group}{n}", "{serial:1}", "{name}", "tv"}
Orders == {"table", "serial", "name", "created"}

NotOpen == [open |-> FALSE, source |-> <<>>, loaded |-> FALSE, batch |-> <<>>, fleet |-> <<>>,
            mode |-> "pattern", pattern |-> Blank, order |-> "table", step |-> 1, found |-> <<>>]
NoSend == [what |-> "none", ids |-> <<>>, preview |-> <<>>, form |-> NotOpen]
NotApplied == [preview |-> <<>>, written |-> <<>>, after |-> <<>>, clean |-> FALSE]

\* Two boxes may share a name from the start, one in capitals; box 2 may be in
\* no group.
NamingInit ==
  /\ \E taken \in {{}, {2}, {1, 3}} \cap SUBSET Named, alone \in SUBSET (Named \cap {2}) :
       named = [b \in Named |->
         [name |-> IF b \in taken THEN Tv(b = 3) ELSE Name("a", 10 - b, FALSE),
          group |-> IF b \in alone THEN Blank ELSE "g"]]
  /\ onBox = [b \in Named |-> CASE b = 1 -> Tv(FALSE) [] b = 2 -> NoName [] OTHER -> TooLong]
  /\ dialog = NotOpen /\ sending = NoSend /\ touched = {} /\ applied = NotApplied /\ meddled = 0

-----------------------------------------------------------------------------
(* The plan                                                                 *)

\* checkPattern
IsUsable(pattern) == pattern \notin {Blank, "{x}"}

\* renderName: a box without a group cannot be named after it.
Rendered(pattern, t, counter) ==
  CASE pattern = "tv{n}"      -> Name("tv", counter, FALSE)
    [] pattern = "{group}{n}" -> IF t.group = Blank THEN NoName ELSE Name(t.group, counter, FALSE)
    [] pattern = "{serial:1}" -> Name(Blank, 10 + (t.id % 2), FALSE)
    [] pattern = "{name}"     -> t.name
    [] pattern = "tv"         -> Name("tv", 0, FALSE)

\* compareText of the key of an order; boxes enrolled in reverse order.
Weight(order, t) ==
  CASE order = "serial" -> t.id [] order = "created" -> -t.id
    [] order = "name" ->
         t.name.n + (CASE t.name.stem = "tv" -> 100 [] t.name.stem = "g" -> 50 [] OTHER -> 0)

\* ordered: a stable sort, or what the table shows.
Ordered(batch, order) ==
  IF order = "table" THEN batch
  ELSE Sorted(batch, [i \in DOMAIN batch |-> Weight(order, batch[i])])

RowOf(t, name) ==
  [id |-> t.id, from |-> t.name, to |-> name, duplicate |-> FALSE,
   status |-> IF name \in {NoName, TooLong} THEN "skipped"
              ELSE IF name = t.name THEN "unchanged" ELSE "rename"]

\* Mutant: by every box, those of the batch under their old names too.
TimesTakenByAll(key, lines, fleet) ==
  Cardinality({b \in DOMAIN fleet : Key(fleet[b]) = key})
    + Cardinality({i \in DOMAIN lines : lines[i].status # "skipped" /\ Key(lines[i].to) = key})
\* finish: names are taken by the boxes outside the batch and by the rows that
\* have one.
TimesTaken(key, lines, fleet) ==
  Cardinality({b \in DOMAIN fleet : Key(fleet[b]) = key /\ \A i \in DOMAIN lines : lines[i].id # b})
    + Cardinality({i \in DOMAIN lines : lines[i].status # "skipped" /\ Key(lines[i].to) = key})

Finish(lines, fleet) ==
  [i \in DOMAIN lines |-> [lines[i] EXCEPT !.duplicate =
     lines[i].status # "skipped" /\ TimesTaken(Key(lines[i].to), lines, fleet) > 1]]

\* planRename: every row takes a number; a step of 0 is 1.
PlanRename(batch, fleet, form) ==
  LET step == IF form.step = 0 THEN 1 ELSE form.step
      inOrder == Ordered(batch, form.order)
  IN Finish([i \in DOMAIN inOrder |->
               RowOf(inOrder[i], Rendered(form.pattern, inOrder[i], 1 + (i - 1) * step))], fleet)

\* planFromNames
PlanFromNames(batch, fleet, found) ==
  Finish([i \in DOMAIN batch |->
            RowOf(batch[i], IF batch[i].id \in DOMAIN found THEN found[batch[i].id] ELSE NoName)],
         fleet)

HasPlan(form) ==
  form.loaded /\ IF form.mode = "boxes" THEN form.found # <<>> ELSE IsUsable(form.pattern)

PlanOf(form, batch, fleet) ==
  IF form.mode = "boxes" THEN PlanFromNames(batch, fleet, form.found)
  ELSE PlanRename(batch, fleet, form)

Renamed(lines) == {i \in DOMAIN lines : lines[i].status = "rename"}

-----------------------------------------------------------------------------
(* The dialog                                                               *)

TargetOf(b) == [id |-> b, name |-> named[b].name, group |-> named[b].group]
FleetNames == [b \in DOMAIN named |-> named[b].name]

\* The rows of a selection, in the order asked for.
TargetsInOrder(ids) ==
  LET there == Filtered(ids, DOMAIN named)
  IN [i \in DOMAIN there |-> TargetOf(there[i])]

\* The dialog opens on a selection, or the selection under it changes: what was
\* loaded goes, and so does an answer to the load before.
Opens(ids) ==
  /\ sending.what \in {"none", "load"} /\ applied = NotApplied   \* bound: one rename
  /\ IF dialog.open THEN ids # dialog.source /\ meddled < MaxMeddle /\ meddled' = meddled + 1
     ELSE meddled' = meddled
  /\ dialog' = [dialog EXCEPT !.open = TRUE, !.source = ids, !.loaded = FALSE, !.batch = <<>>,
                              !.fleet = <<>>, !.found = <<>>]
  /\ sending' = [NoSend EXCEPT !.what = "load"]
  /\ UNCHANGED <<named, onBox, touched, applied>>

\* loadRenameTargets
Loads ==
  /\ sending.what = "load" /\ sending' = NoSend
  /\ LET there == TargetsInOrder(dialog.source) IN
     dialog' = [dialog EXCEPT !.loaded = there # <<>>, !.batch = there, !.fleet = FleetNames]
  /\ touched' = {}
  /\ UNCHANGED <<named, onBox, applied, meddled>>

Fills(mode, pattern, order, step) ==
  /\ dialog.open /\ dialog.loaded /\ sending.what = "none" /\ dialog.pattern = Blank
  /\ mode = "boxes" => pattern = "{name}"
  /\ order # "table" \/ step # 0 => pattern \in {"tv{n}", "{group}{n}"}   \* bound: where it counts
  /\ dialog' = [dialog EXCEPT !.mode = mode, !.pattern = pattern, !.order = order, !.step = step]
  /\ UNCHANGED <<named, onBox, sending, touched, applied, meddled>>

\* readNamesFromBoxes: a box that is silent, in no group, or whose file says
\* nothing has no name.
Reads(silent) ==
  /\ dialog.open /\ dialog.loaded /\ dialog.mode = "boxes" /\ sending.what = "none"
  /\ dialog.found = <<>>
  /\ dialog' = [dialog EXCEPT !.found =
       [b \in {dialog.batch[i].id : i \in DOMAIN dialog.batch} \cap DOMAIN named |->
          IF b \in silent \/ named[b].group = Blank THEN NoName ELSE onBox[b]]]
  /\ UNCHANGED <<named, onBox, sending, touched, applied, meddled>>

\* canApply, apply
Applies ==
  /\ dialog.open /\ HasPlan(dialog) /\ sending.what = "none"
  /\ LET plan == PlanOf(dialog, dialog.batch, dialog.fleet) IN
     /\ Renamed(plan) # {}
     /\ sending' = [what |-> "rename", ids |-> [i \in DOMAIN dialog.batch |-> dialog.batch[i].id],
                    preview |-> plan, form |-> dialog]
  /\ UNCHANGED <<named, onBox, dialog, touched, applied, meddled>>

\* renameDevices: works the plan out again, and writes it in one transaction.
Renames ==
  /\ sending.what = "rename" /\ sending' = NoSend
  /\ LET batch == TargetsInOrder(sending.ids)
         plan == PlanOf(sending.form, batch, FleetNames)
         newName(b) == LET i == CHOOSE i \in DOMAIN plan : plan[i].id = b IN
                       IF i \in Renamed(plan) THEN plan[i].to ELSE named[b].name
         after == [b \in DOMAIN named |-> IF \E i \in DOMAIN plan : plan[i].id = b THEN newName(b)
                                          ELSE named[b].name]
     IN IF Len(batch) = Len(sending.ids) /\ Renamed(plan) # {}
        THEN /\ named' = [b \in DOMAIN named |-> [named[b] EXCEPT !.name = after[b]]]
             /\ applied' = [preview |-> sending.preview, written |-> plan, after |-> after,
                            clean |-> touched = {}]
             /\ dialog' = NotOpen
        ELSE UNCHANGED <<named, applied, dialog>>
  /\ UNCHANGED <<onBox, touched, meddled>>

Closes ==
  /\ dialog.open /\ dialog' = NotOpen
  /\ sending' = IF sending.what = "load" THEN NoSend ELSE sending
  /\ UNCHANGED <<named, onBox, touched, applied, meddled>>

\* renameDevice, setDevicesGroup and deleteDevice on some other page.
Meddles(b, entry) ==
  /\ dialog.open /\ meddled < MaxMeddle /\ meddled' = meddled + 1
  /\ b \in DOMAIN named /\ entry # named[b]
  /\ named' = IF entry = NoName THEN [c \in DOMAIN named \ {b} |-> named[c]]
              ELSE [named EXCEPT ![b] = entry]
  /\ touched' = touched \cup {b}
  /\ UNCHANGED <<onBox, dialog, sending, applied>>

Selections ==
  UNION {{s \in [1..n -> Named] : \A i, j \in 1..n : s[i] = s[j] => i = j} : n \in 1..2}

NamingNext ==
  \/ \E ids \in Selections : Opens(ids)
  \/ Loads \/ Applies \/ Renames \/ Closes
  \/ \E mode \in {"pattern", "boxes"}, pattern \in Patterns, order \in Orders, step \in {0, 2} :
       Fills(mode, pattern, order, step)
  \/ \E silent \in SUBSET Named : Reads(silent)
  \/ \E b \in Named, entry \in {NoName} \cup [name : {Tv(FALSE)}, group : {"g"}] : Meddles(b, entry)

NamingSpec == NamingInit /\ [][NamingNext]_namingVars

-----------------------------------------------------------------------------
\* "What the preview shows is what gets written": unless a box of the fleet was
\* changed in between, the rows written are those shown, and a row is marked as
\* a duplicate exactly if another box bears its name afterwards, however it is
\* written.  A box of the batch that could not be named keeps a name the marks do
\* not know of.
PreviewIsWritten ==
  LET skipped == {applied.written[i].id : i \in {j \in DOMAIN applied.written :
                                                   applied.written[j].status = "skipped"}} IN
  applied.clean =>
    /\ applied.written = applied.preview
    /\ \A i \in DOMAIN applied.written : LET entry == applied.written[i] IN
         entry.id \notin skipped =>
           (entry.duplicate <=> \E b \in DOMAIN applied.after \ (skipped \cup {entry.id}) :
                                Key(applied.after[b]) = Key(applied.after[entry.id]))
=============================================================================
