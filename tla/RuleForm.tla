------------------------------ MODULE RuleForm -----------------------------
(***************************************************************************)
(* monitor-rule-dialog.tsx and the actions behind it: how a monitoring rule  *)
(* is written.                                                              *)
(*                                                                          *)
(* The form holds the signal, the kind of probe and the ladder itself; the   *)
(* text fields are left to the page, which forgets one when it is no longer  *)
(* shown and sets all of them back when an action has answered.  What is not *)
(* on screen is not posted.  A text is one of a few; the numbers of a probe,  *)
(* the window and the dialog that stays open on a save the hub was not told  *)
(* of are left out.                                                         *)
(***************************************************************************)
EXTENDS SequencesExt, Ranking

CONSTANT MaxStrokes  \* bound: what the operator does to a form

ASSUME FormAssumption == MaxStrokes \in Nat

VARIABLES
  guard,    \* the MonitorRule row and its steps; v: how often it was written
  editor,     \* the dialog
  stored,    \* history: what the form showed when it was last saved, and the row
  strokes

formVars == <<guard, editor, stored, strokes>>

-----------------------------------------------------------------------------
(* The vocabulary                                                           *)

AppSignals == {"SERVICE_DOWN", "APP_NOT_FOREGROUND", "APP_ANR"}
ProbeSignals == {"HEALTH_CHECK_FAILED", "LOOP_STALLED"}
RotomSignals == {"ROTOM_DISCONNECTED", "ROTOM_NOT_SCANNING", "ROTOM_IDLE"}
Signals == AppSignals \cup ProbeSignals \cup RotomSignals \cup {"AGENT_OFFLINE"}

ProbeNeed(signal) ==
  IF signal \in ProbeSignals THEN "required"
  ELSE IF signal = "SERVICE_DOWN" THEN "optional" ELSE "none"

DefaultProbeKind(signal) == IF signal \in ProbeSignals THEN "logMatch" ELSE "shell"
Kinds == {"shell", "logMatch", "http"}
NeedsCommand(action) == action = "SHELL"
NoText == ""

Rung(at, action, command) == [at |-> at, action |-> action, command |-> command]
NoProbe == [kind |-> "none", target |-> NoText, expect |-> NoText]
NewRule == [there |-> FALSE, signal |-> "SERVICE_DOWN", pkg |-> FALSE, probe |-> NoProbe,
            rungs |-> <<Rung(1, "NOTIFY_ONLY", NoText)>>, notify |-> TRUE, recovery |-> FALSE,
            enabled |-> FALSE, v |-> 0]
Shut == [open |-> FALSE, of |-> NewRule, signal |-> "SERVICE_DOWN", kind |-> "none", pkg |-> FALSE,
         target |-> NoText, expect |-> NoText, rungs |-> <<>>, shows |-> FALSE, notify |-> TRUE,
         recovery |-> FALSE, enabled |-> FALSE]

Seed(signal, pkg, probe, rungs) ==
  [NewRule EXCEPT !.there = TRUE, !.signal = signal, !.pkg = pkg, !.probe = probe, !.rungs = rungs,
                  !.notify = signal # "APP_NOT_FOREGROUND"]
Seeds ==
  LET log == [kind |-> "logMatch", target |-> "old", expect |-> "e"]
      shell == [kind |-> "shell", target |-> "old", expect |-> NoText]
      says == Rung(1, "NOTIFY_ONLY", NoText)
  IN {Seed("SERVICE_DOWN", TRUE, shell,
           <<Rung(1, "RESTART_APP", NoText), Rung(2, "REBOOT", NoText)>>),
      Seed("APP_NOT_FOREGROUND", TRUE, NoProbe,
           <<Rung(1, "CLEAR_CACHE_RESTART", NoText), Rung(2, "REBOOT", NoText)>>),
      Seed("APP_ANR", TRUE, NoProbe, <<Rung(1, "SEND_KEYEVENT", NoText), Rung(2, "REBOOT", NoText)>>),
      Seed("HEALTH_CHECK_FAILED", TRUE, log, <<Rung(1, "KILL_APP", NoText)>>),
      Seed("LOOP_STALLED", TRUE, log, <<Rung(1, "RESTART_APP", NoText)>>),
      Seed("AGENT_OFFLINE", FALSE, NoProbe, <<says>>),
      Seed("ROTOM_DISCONNECTED", FALSE, NoProbe,
           <<says, Rung(3, "ROTOM_RESTART", NoText), Rung(6, "REBOOT", NoText)>>),
      Seed("ROTOM_NOT_SCANNING", FALSE, NoProbe,
           <<says, Rung(3, "ROTOM_RESTART", NoText), Rung(6, "ROTOM_REBOOT", NoText)>>),
      Seed("ROTOM_IDLE", FALSE, NoProbe,
           <<says, Rung(5, "ROTOM_DISCONNECT", NoText), Rung(8, "ROTOM_RESTART", NoText)>>)}
SwitchedOn(r) == [r EXCEPT !.enabled = TRUE]

\* No rule yet, one as it was seeded and switched on, or one that was edited.
FirstRules ==
  {NewRule,
   [Seed("SERVICE_DOWN", TRUE, NoProbe,
         <<Rung(1, "RESTART_APP", NoText), Rung(2, "SHELL", "c1"), Rung(3, "REBOOT", NoText)>>)
      EXCEPT !.enabled = TRUE]}
    \cup {[SwitchedOn(r) EXCEPT !.recovery = TRUE] : r \in {o \in Seeds : o.signal = "LOOP_STALLED"}}

FormInit ==
  /\ guard \in FirstRules /\ editor = Shut
  /\ stored = [posted |-> Shut, row |-> NewRule] /\ strokes = 0

-----------------------------------------------------------------------------
(* The form                                                                 *)

ShowsProbe(f) == ProbeNeed(f.signal) # "none"
ShowsTarget(f) == ShowsProbe(f) /\ f.kind # "none"
ShowsExpect(f) == ShowsTarget(f) /\ f.kind # "http"

\* A field that comes on screen starts from the row, and has no text while it
\* is not.
Field(now, was, text, first) == IF ~now THEN NoText ELSE IF was THEN text ELSE first
Remounted(f, g) ==
  [g EXCEPT !.target = Field(ShowsTarget(g), ShowsTarget(f), g.target, g.of.probe.target),
            !.expect = Field(ShowsExpect(g), ShowsExpect(f), g.expect, g.of.probe.expect),
            !.recovery = g.notify /\ (IF f.notify THEN g.recovery ELSE g.of.recovery)]

\* The dialog starts from what is stored.
Opened(r) ==
  LET bare == [Shut EXCEPT !.of = r, !.signal = r.signal, !.kind = r.probe.kind, !.open = TRUE,
                !.pkg = r.pkg, !.rungs = Sorted(r.rungs, [i \in DOMAIN r.rungs |-> r.rungs[i].at]),
                !.shows = \E i \in DOMAIN r.rungs : r.rungs[i].command # NoText,
                !.notify = r.notify, !.recovery = r.notify /\ r.recovery, !.enabled = r.enabled]
  IN Remounted([bare EXCEPT !.kind = "none"], bare)

OpensRule ==
  /\ ~editor.open /\ strokes < MaxStrokes /\ strokes' = strokes + 1
  /\ editor' = Opened(guard)
  /\ UNCHANGED <<guard, stored>>
CancelsRule == editor.open /\ editor' = Shut /\ UNCHANGED <<guard, stored, strokes>>

Stroke(f) ==
  /\ editor.open /\ strokes < MaxStrokes /\ strokes' = strokes + 1 /\ f # editor
  /\ editor' = Remounted(editor, f)
  /\ UNCHANGED <<guard, stored>>

\* pickSignal: a signal that only a probe answers does not leave the form on
\* "No probe".
PicksSignal(signal) ==
  Stroke([editor EXCEPT !.signal = signal,
            !.kind = IF ProbeNeed(signal) = "required" /\ @ = "none"
                     THEN DefaultProbeKind(signal) ELSE @])

PicksKind(kind) ==
  /\ ShowsProbe(editor) /\ (kind = "none" => ProbeNeed(editor.signal) = "optional")
  /\ Stroke([editor EXCEPT !.kind = kind])

TypesRule ==
  \/ ShowsTarget(editor) /\ Stroke([editor EXCEPT !.target = "new"])
  \/ ShowsExpect(editor) /\ Stroke([editor EXCEPT !.expect = IF @ = NoText THEN "e" ELSE NoText])
  \/ Stroke([editor EXCEPT !.pkg = ~@])
  \/ Stroke([editor EXCEPT !.notify = ~@])
  \/ editor.notify /\ Stroke([editor EXCEPT !.recovery = ~@])
  \/ Stroke([editor EXCEPT !.enabled = ~@])

-----------------------------------------------------------------------------
(* The ladder                                                               *)

HasCommandField(f, i) == f.shows \/ NeedsCommand(f.rungs[i].action)

AddsRung ==
  LET last == Max({0} \cup {editor.rungs[i].at : i \in DOMAIN editor.rungs})
  IN Stroke([editor EXCEPT !.rungs = Append(@, Rung(last + 1, "REBOOT", NoText))])
RemovesRung(i) == Len(editor.rungs) > 1 /\ Stroke([editor EXCEPT !.rungs = RemoveAt(@, i)])
ChangesRung(i) ==
  \/ \E at \in 0..2 : Stroke([editor EXCEPT !.rungs[i].at = at])
  \/ \E action \in {"RESTART_APP", "SHELL"} : Stroke([editor EXCEPT !.rungs[i].action = action])
  \/ HasCommandField(editor, i) /\ Stroke([editor EXCEPT !.rungs[i].command = "c2"])
FoldsCommands == Stroke([editor EXCEPT !.shows = ~@])

-----------------------------------------------------------------------------
(* The actions                                                              *)

\* Mutant: only the rows whose command is shown post one.
CommandsShown(f) ==
  LET ladder == [i \in DOMAIN f.rungs |-> [row |-> i, command |-> f.rungs[i].command]]
      posted == SelectSeq(ladder, LAMBDA x : HasCommandField(f, x.row))
  IN [i \in DOMAIN posted |-> posted[i].command]
\* The commands the form posts: one for every rung, shown or hidden.
Commands(f) == [i \in DOMAIN f.rungs |-> f.rungs[i].command]

\* parseSteps: three arrays side by side.
ParsedSteps(f) ==
  LET commands == Commands(f)
  IN [i \in DOMAIN f.rungs |->
        Rung(f.rungs[i].at, f.rungs[i].action,
             IF i \in DOMAIN commands THEN commands[i] ELSE NoText)]
StepsAreWrong(f) ==
  \/ \E i \in DOMAIN f.rungs : f.rungs[i].at < 1
  \/ \E i, j \in DOMAIN f.rungs : i # j /\ f.rungs[i].at = f.rungs[j].at

\* parseConfig
ParsedConfig(f) ==
  IF ~ShowsTarget(f) \/ f.target = NoText THEN NoProbe
  ELSE [kind |-> f.kind, target |-> f.target, expect |-> f.expect]

\* parseRule
IsRefused(f) == (f.signal \in AppSignals /\ ~f.pkg) \/ StepsAreWrong(f)
Parsed(f) ==
  [there |-> TRUE, signal |-> f.signal, pkg |-> f.pkg, probe |-> ParsedConfig(f),
   rungs |-> ParsedSteps(f), notify |-> f.notify, recovery |-> f.recovery, enabled |-> f.enabled,
   v |-> guard.v + 1]

\* createMonitorRule, updateMonitorRule: the dialog closes.  A rule that was
\* deleted in between cannot be written.
WritesRule ==
  /\ editor.open /\ ~IsRefused(editor) /\ (editor.of.there => guard.there)
  /\ guard' = Parsed(editor) /\ stored' = [posted |-> editor, row |-> guard'] /\ editor' = Shut
  /\ UNCHANGED strokes

\* An answer sets the text fields back to the row, also when it is a refusal.
SaveRefused ==
  /\ editor.open /\ IsRefused(editor) /\ strokes < MaxStrokes /\ strokes' = strokes + 1
  /\ editor' = [editor EXCEPT !.pkg = editor.of.pkg,
                          !.target = IF ShowsTarget(editor) THEN editor.of.probe.target ELSE NoText,
                          !.expect = IF ShowsExpect(editor) THEN editor.of.probe.expect ELSE NoText]
  /\ UNCHANGED <<guard, stored>>

\* setMonitorRuleEnabled, also beside an open dialog.
FlipsRule ==
  /\ guard.there /\ strokes < MaxStrokes /\ strokes' = strokes + 1
  /\ guard' = [guard EXCEPT !.enabled = ~@, !.v = @ + 1]
  /\ UNCHANGED <<editor, stored>>

\* deleteMonitorRule
RemovesRule ==
  /\ guard.there /\ strokes < MaxStrokes /\ strokes' = strokes + 1
  /\ guard' = [NewRule EXCEPT !.v = guard.v + 1]
  /\ UNCHANGED <<editor, stored>>

FormNext ==
  \/ OpensRule \/ CancelsRule \/ TypesRule \/ AddsRung \/ FoldsCommands
  \/ \E signal \in Signals : PicksSignal(signal)
  \/ \E kind \in Kinds \cup {"none"} : PicksKind(kind)
  \/ \E i \in DOMAIN editor.rungs : RemovesRung(i) \/ ChangesRung(i)
  \/ WritesRule \/ SaveRefused \/ FlipsRule \/ RemovesRule

FormSpec == FormInit /\ [][FormNext]_formVars

-----------------------------------------------------------------------------
\* A rule is stored as its form showed it, however the form was folded,
\* re-ordered and switched: every command on its own rung, no two rungs for one
\* failure, a probe exactly where a probe with a target was on screen, no text
\* of a field that was not; and a signal that only a probe answers has one
\* unless the target was left empty or the rule had none before.
FormIsSaved ==
  LET f == stored.posted  r == stored.row IN
  r.there =>
    /\ r.rungs = f.rungs /\ Cardinality({r.rungs[i].at : i \in DOMAIN r.rungs}) = Len(r.rungs)
    /\ r.probe.kind # "none" <=> ShowsTarget(f) /\ f.target # NoText
    /\ ~ShowsExpect(f) => r.probe.expect = NoText
    /\ ~r.notify => ~r.recovery
    /\ r.signal \in ProbeSignals /\ r.probe = NoProbe
         => f.target = NoText /\ (ShowsTarget(f) \/ f.of.signal = r.signal)
=============================================================================
