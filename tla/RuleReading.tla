----------------------------- MODULE RuleReading ---------------------------
(***************************************************************************)
(* How a rule is read: what the agent looks at on a heartbeat (monitor.go,   *)
(* applyMonitor), the reading the hub keeps of it and what readSignal of     *)
(* services/monitor.ts makes of it.                                         *)
(*                                                                          *)
(* The rule is written as RuleForm has it, in one step here, and the box is   *)
(* told what to watch when that is done or when it comes back (WatchSpecs).   *)
(* A pass reads in no time, so ReadSignal is what a pass of now would read.   *)
(* A probe finds out whether the app works: patterns, counts and ages of a    *)
(* log are that answer.                                                     *)
(***************************************************************************)
EXTENDS RuleForm

CONSTANTS
  MaxBeats,  \* bound: heartbeats
  MaxUpsets  \* bound: how often a rule, the box, its line or its scanner turns

ASSUME ReadingAssumption == MaxBeats \in Nat /\ MaxUpsets \in Nat

VARIABLES
  lookout,  \* what the box was told to watch
  body,     \* what is so on the box
  heart,    \* the heartbeat on its way
  sight,    \* the reading the hub has of the box
  boxRow,   \* the Device row: the line and the scanner
  beats

readingVars == <<lookout, body, heart, sight, boxRow, beats>>

Blind == [fg |-> FALSE, anr |-> FALSE, probe |-> NoProbe, v |-> 0]
Fit == [screen |-> "app", hung |-> FALSE, works |-> TRUE, runs |-> TRUE]
NoReading == [sent |-> FALSE, ran |-> FALSE, fg |-> "", anr |-> FALSE, check |-> "none",
              procs |-> {}, of |-> Fit, v |-> 0, hiccup |-> FALSE, cut |-> FALSE]

\* What Rotom says of the scanner; -1 is a number it did not give.
Scanning == [known |-> TRUE, enabled |-> TRUE, connected |-> TRUE, usable |-> TRUE, stale |-> FALSE,
             workers |-> 1, busy |-> 1, rate |-> 1]
Lost == [Scanning EXCEPT !.connected = FALSE, !.workers = 0, !.busy = 0, !.rate = -1]
Lines == {"online", "away", "gone"}

ReadingInit ==
  /\ lookout = Blind /\ body = Fit /\ heart = NoReading /\ sight = NoReading
  /\ boxRow \in [line : {"online"}, scanner : {Scanning, Lost}] /\ beats = 0

-----------------------------------------------------------------------------
(* The box                                                                  *)

\* specFor the one rule there is.
SpecOf(r) ==
  IF ~r.there \/ ~r.enabled THEN Blind
  ELSE LET spec == [fg |-> r.signal = "APP_NOT_FOREGROUND", anr |-> r.signal = "APP_ANR",
                    probe |-> r.probe, v |-> r.v]
       IN IF spec.fg \/ spec.anr \/ spec.probe # NoProbe THEN spec ELSE Blind

\* A welcome, of the save or of a new session.
BoxIsTold == lookout # SpecOf(guard) /\ lookout' = SpecOf(guard)
             /\ UNCHANGED <<editor, stored, guard, strokes, body, heart, sight, boxRow, beats>>

\* A command of one look fails or is cut off (hiccup); the budget of half a beat
\* is spent before the others (cut).
Foreground(hiccup) == IF lookout.fg /\ ~hiccup /\ body.screen = "app" THEN "app" ELSE ""
ANRs(hiccup, cut) == lookout.anr /\ ~cut /\ ~hiccup /\ body.hung

\* A command, its exit status and output; an answer of the app; a log, which
\* shows no fault when it is not told what one looks like.
RunShell(hiccup) == ~hiccup /\ body.works
RunHTTP(hiccup) == ~hiccup /\ body.works
RunLogMatch(hiccup) == ~hiccup /\ (lookout.probe.expect = NoText \/ body.works)
RunCheck(hiccup) ==
  LET ok == CASE lookout.probe.kind = "shell" -> RunShell(hiccup)
              [] lookout.probe.kind = "http" -> RunHTTP(hiccup)
              [] lookout.probe.kind = "logMatch" -> RunLogMatch(hiccup)
  IN IF ok THEN "ok" ELSE "failed"

\* Mutant: a probe that did not get to run reports a failure.
ChecksAll(hiccup, cut) ==
  IF lookout.probe = NoProbe THEN "none" ELSE IF cut THEN "failed" ELSE RunCheck(hiccup)
Checks(hiccup, cut) == IF lookout.probe = NoProbe \/ cut THEN "none" ELSE RunCheck(hiccup)

\* applyMetrics, applyMonitor, Collect: not while a job runs, nor with nothing
\* to watch.  An agent that lists processes may list others only.
AgentLooks(job, hiccup, cut, others) ==
  /\ beats < MaxBeats /\ beats' = beats + 1 /\ ~heart.sent
  /\ LET plain == [NoReading EXCEPT !.sent = TRUE, !.of = body,
                     !.procs = (IF body.runs THEN {"app"} ELSE {})
                                 \cup (IF others THEN {"other"} ELSE {})]
     IN heart' = IF job \/ lookout = Blind THEN plain
                 ELSE [plain EXCEPT !.ran = TRUE, !.fg = Foreground(hiccup),
                         !.anr = ANRs(hiccup, cut),
                         !.check = Checks(hiccup, cut), !.v = lookout.v,
                         !.hiccup = hiccup, !.cut = cut]
  /\ UNCHANGED <<editor, stored, guard, strokes, lookout, body, sight, boxRow>>

Upset == strokes < MaxUpsets /\ strokes' = strokes + 1

\* Bound: the box, its line and its scanner turn under a rule that reads them.
BodyTurns ==
  /\ Upset /\ guard.signal \in AppSignals \cup ProbeSignals
  /\ body' \in {[body EXCEPT !.screen = "other"], [body EXCEPT !.hung = TRUE],
                [body EXCEPT !.works = FALSE],
                [body EXCEPT !.runs = FALSE, !.works = FALSE, !.screen = "other"], Fit}
  /\ UNCHANGED <<editor, stored, guard, lookout, heart, sight, boxRow, beats>>

-----------------------------------------------------------------------------
(* The hub                                                                  *)

\* recordReading
TakesReading ==
  /\ heart.sent /\ sight' = heart /\ heart' = NoReading
  /\ UNCHANGED <<editor, stored, guard, strokes, lookout, body, boxRow, beats>>

\* forgetReading, or three minutes are over: nothing is evidence any more.
SightFades ==
  /\ sight.sent /\ sight' = NoReading
  /\ UNCHANGED <<editor, stored, guard, strokes, lookout, body, heart, boxRow, beats>>

\* The box goes quiet, and later longer than the offline timeout.
LineTurns ==
  /\ Upset /\ guard.signal = "AGENT_OFFLINE"
  /\ \E line \in Lines \ {boxRow.line} : boxRow' = [boxRow EXCEPT !.line = line]
  /\ UNCHANGED <<editor, stored, guard, lookout, body, heart, sight, beats>>

\* A pass of RotomSync, or time: Rotom says something else, or has not heard of
\* the scanner for the stale delay.
ScannerTurns ==
  LET s == boxRow.scanner
      counts(w, b, r) == [s EXCEPT !.workers = w, !.busy = b, !.rate = r]
  IN /\ Upset /\ guard.signal \in RotomSignals
     /\ \E t \in {[s EXCEPT !.known = ~@], [s EXCEPT !.enabled = ~@], [s EXCEPT !.connected = ~@],
                  [s EXCEPT !.usable = ~@], [s EXCEPT !.stale = ~@],
                  counts(-1, -1, -1), counts(0, 0, -1), counts(1, 0, -1), counts(1, 1, -1), counts(1, 1, 0)} :
          boxRow' = [boxRow EXCEPT !.scanner = t]
     /\ UNCHANGED <<editor, stored, guard, lookout, body, heart, sight, beats>>

Judged(bad) == IF bad THEN "bad" ELSE "good"

CheckResult(r, seen) ==
  IF ~seen.ran \/ seen.check = "none" THEN "unknown" ELSE Judged(seen.check = "failed")

\* Mutant: Rotom's word about the workers, whether it has the box or not.
RotomSaysAlways(signal, s) ==
  IF ~s.known \/ ~s.enabled THEN "unknown"
  ELSE IF signal = "ROTOM_DISCONNECTED" THEN Judged(~s.connected \/ ~s.usable \/ s.stale)
  ELSE IF s.workers = -1 THEN "unknown" ELSE IF s.workers = 0 THEN "bad"
  ELSE IF s.busy = -1 THEN "unknown" ELSE Judged(s.busy = 0)
RotomSays(signal, s) ==
  IF ~s.known \/ ~s.enabled THEN "unknown"
  ELSE IF signal = "ROTOM_DISCONNECTED" THEN Judged(~s.connected \/ ~s.usable \/ s.stale)
  ELSE IF ~s.connected THEN "unknown"
  ELSE IF signal = "ROTOM_NOT_SCANNING"
       THEN IF s.workers = -1 THEN "unknown" ELSE IF s.workers = 0 THEN "bad"
            ELSE IF s.busy = -1 THEN "unknown" ELSE Judged(s.busy = 0)
  ELSE IF s.busy \in {-1, 0} \/ s.rate = -1 THEN "unknown" ELSE Judged(s.rate = 0)

\* readSignal
LineSays == CASE boxRow.line = "online" -> "good" [] boxRow.line = "gone" -> "bad" [] OTHER -> "unknown"
ServiceSays(r, seen) ==
  IF ~r.pkg \/ seen.procs = {} THEN "unknown" ELSE Judged("app" \notin seen.procs)
ReadSignal(r, seen) ==
  IF r.signal = "AGENT_OFFLINE" THEN LineSays
  ELSE IF r.signal \in RotomSignals THEN RotomSays(r.signal, boxRow.scanner)
  ELSE IF r.signal \in ProbeSignals \/ (r.signal = "SERVICE_DOWN" /\ r.probe # NoProbe)
       THEN CheckResult(r, seen)
  ELSE IF r.signal = "SERVICE_DOWN" THEN ServiceSays(r, seen)
  ELSE IF ~seen.ran \/ ~r.pkg THEN "unknown"
  ELSE Judged(IF r.signal = "APP_NOT_FOREGROUND" THEN seen.fg # "app" ELSE seen.anr)

\* The rule is written anew, switched or deleted, or was so from the start.
WrittenRules ==
  LET probed(signal, kind) ==
        {[r EXCEPT !.probe = [kind |-> kind, target |-> "new", expect |-> NoText], !.enabled = TRUE] :
           r \in {o \in Seeds : o.signal = signal}}
  IN FirstRules \cup {SwitchedOn(r) : r \in Seeds} \cup {r \in Seeds : r.signal = "LOOP_STALLED"}
       \cup probed("HEALTH_CHECK_FAILED", "http") \cup probed("LOOP_STALLED", "logMatch")
RuleIsWritten ==
  /\ Upset
  /\ \E r \in WrittenRules : guard' = [r EXCEPT !.v = guard.v + 1]
  /\ UNCHANGED <<editor, stored, lookout, body, heart, sight, boxRow, beats>>

ReadingNext ==
  \/ RuleIsWritten \/ BoxIsTold \/ BodyTurns
  \/ TakesReading \/ SightFades \/ LineTurns \/ ScannerTurns
  \/ \E job, hiccup, cut, others \in BOOLEAN : AgentLooks(job, hiccup, cut, others)

-----------------------------------------------------------------------------
\* "Unknown never counts as a failure": a rule about the box is bad only of a
\* box where what it watches was wrong when the agent looked, whatever was cut
\* short, aged, asked anew or went on meanwhile.  Excepted are a command that
\* failed, and a look that was made for the rule as it was before.
Faulty(signal, probed, b) ==
  CASE signal = "SERVICE_DOWN" /\ ~probed -> ~b.runs
    [] signal = "APP_NOT_FOREGROUND" -> b.screen # "app"
    [] signal = "APP_ANR" -> b.hung
    [] OTHER -> ~b.works

SilenceIsNoEvidence ==
  guard.enabled /\ guard.signal \in AppSignals \cup ProbeSignals /\ ReadSignal(guard, sight) = "bad"
    => /\ sight.sent
       /\ ~sight.hiccup /\ (sight.ran => sight.v = guard.v)
            => Faulty(guard.signal, sight.check # "none", sight.of)

\* One fault, one ladder: of a box Rotom has and can use, no two of its three
\* signals are bad, and of one it has lost only the first.
OneFaultOneLadder ==
  LET s == boxRow.scanner
      bad == {signal \in RotomSignals : RotomSays(signal, s) = "bad"}
  IN (s.usable /\ ~s.stale) \/ ~s.connected => Cardinality(bad) <= 1
=============================================================================
