------------------------------ MODULE RotomSync ----------------------------
(***************************************************************************)
(* services/rotom.ts: what Rotom says about every box, kept on the device   *)
(* rows.                                                                    *)
(*                                                                          *)
(* A pass asks Rotom, reads the rows, writes the boxes that were listed one *)
(* by one, sweeps those that were not and keeps a history row.  Passes may  *)
(* overlap: the timer does not wait for one (the interval may be 5 s, the   *)
(* request takes up to 15 s), and the dashboard can ask for one.            *)
(***************************************************************************)
EXTENDS Naturals

CONSTANTS
  Fleet,        \* number of boxes
  MaxPasses     \* bound

ASSUME RotomAssumption == Fleet \in Nat /\ MaxPasses \in Nat

VARIABLES
  belief,   \* the Rotom half of a device row: unmatched, connected or off
  misses,   \* in memory: passes in a row without the box
  pass,     \* the passes that are under way
  passes,
  lacked,   \* history: answers in a row, as they came in, without the box
  clean,    \* history: the last pass ran alone, and to its end
  tangled,  \* history: passes overlapped since the last one that was clean
  lastPass, \* history: its answer
  sample    \* the last history row of a box, if the last pass kept one

rotomVars == <<belief, misses, pass, passes, lacked, clean, tangled, lastPass, sample>>

Slots == {"p", "q"}
Scanners == 1..Fleet    \* in the order of the rows
IsFirst(b, boxes) == b \in boxes /\ \A o \in boxes : b <= o
Away == [at |-> "none", answer |-> <<>>, ours |-> <<>>, todo |-> {}, left |-> {},
         flipped |-> {}, alone |-> TRUE]
NoSample == [b \in Scanners |-> "none"]

RotomInit ==
  /\ belief = [b \in Scanners |-> "unmatched"] /\ misses = [b \in Scanners |-> 0]
  /\ pass = [p \in Slots |-> Away] /\ passes = 0
  /\ lacked = [b \in Scanners |-> 0] /\ clean = FALSE /\ tangled = FALSE
  /\ lastPass = NoSample
  /\ sample = NoSample

Under(p) == pass[p].at # "none"
Listed(p) == {b \in Scanners : pass[p].answer[b] # "none"}

\* syncDevices, from the timer or the dashboard.
PassStarts(p) ==
  /\ ~Under(p) /\ passes < MaxPasses
  /\ p = "q" => Under("p")
  /\ passes' = passes + 1 /\ clean' = FALSE
  /\ tangled' = (tangled \/ \E r \in Slots : Under(r))
  /\ pass' = [o \in Slots |->
       IF o = p THEN [Away EXCEPT !.at = "ask", !.alone = \A r \in Slots : ~Under(r)]
       ELSE [pass[o] EXCEPT !.alone = FALSE]]
  /\ UNCHANGED <<belief, misses, lacked, lastPass, sample>>

Ends(p) == pass' = [pass EXCEPT ![p] = Away]

\* A failed poll, and a pass that an error ends.
PassFails(p) ==
  /\ pass[p].at = "ask"
  /\ Ends(p)
  /\ UNCHANGED <<belief, misses, passes, lacked, clean, tangled, lastPass, sample>>

\* Rotom answers with a state for the boxes it lists.
Answers(p, answer) ==
  /\ pass[p].at = "ask"
  /\ pass' = [pass EXCEPT ![p].at = "load", ![p].answer = answer]
  /\ lacked' = [b \in Scanners |-> IF answer[b] # "none" THEN 0
                                   ELSE IF lacked[b] < 2 THEN lacked[b] + 1 ELSE 2]
  /\ UNCHANGED <<belief, misses, passes, clean, tangled, lastPass, sample>>

\* No boxes at all, when some have been matched, is no answer.
IsSilence(listed) == listed = {} /\ \E b \in Scanners : belief[b] # "unmatched"

LoadsRows(p) ==
  /\ pass[p].at = "load"
  /\ IF IsSilence(Listed(p)) THEN Ends(p)
     ELSE pass' = [pass EXCEPT ![p].at = "apply", ![p].ours = belief,
                                 ![p].todo = Listed(p), ![p].left = Scanners]
  /\ UNCHANGED <<belief, misses, passes, lacked, clean, tangled, lastPass, sample>>

\* write: nothing is written that the rows, as they were read, have already.
WritesBox(p, b) ==
  /\ pass[p].at = "apply" /\ IsFirst(b, pass[p].todo)
  /\ belief' = IF pass[p].ours[b] = pass[p].answer[b] THEN belief
               ELSE [belief EXCEPT ![b] = pass[p].answer[b]]
  /\ pass' = [pass EXCEPT ![p].todo = @ \ {b}]
  /\ UNCHANGED <<misses, passes, lacked, clean, tangled, lastPass, sample>>

Cleared(b) == 0

\* Mutant: one poll is enough.
EnoughAtOnce(count) == count >= 1
\* MISSES_BEFORE_OFFLINE
Enough(count) == count >= 2

\* sweep, box by box: only one that was connected has something to lose.
Sweeps(p, b) ==
  LET lost == b \notin Listed(p) /\ pass[p].ours[b] = "connected"
      gone == lost /\ Enough(misses[b] + 1) IN
  /\ pass[p].at = "apply" /\ pass[p].todo = {} /\ IsFirst(b, pass[p].left)
  /\ misses' = [misses EXCEPT ![b] = IF lost /\ ~gone THEN @ + 1
                                      ELSE IF gone THEN 0 ELSE Cleared(b)]
  /\ belief' = IF gone THEN [belief EXCEPT ![b] = "off"] ELSE belief
  /\ pass' = [pass EXCEPT ![p].left = @ \ {b}, ![p].flipped = IF gone THEN @ \cup {b} ELSE @]
  /\ UNCHANGED <<passes, lacked, clean, tangled, lastPass, sample>>

\* record: what the rest of the hub believes, from what this pass read and
\* wrote; nothing in a slot that has its rows.
Believed(p, b) ==
  IF b \in pass[p].flipped THEN "off"
  ELSE IF b \in Listed(p) THEN pass[p].answer[b] ELSE pass[p].ours[b]

Records(p, fresh) ==
  /\ pass[p].at = "apply" /\ pass[p].todo = {} /\ pass[p].left = {}
  /\ sample' = IF fresh THEN [b \in Scanners |-> Believed(p, b)] ELSE NoSample
  /\ clean' = pass[p].alone /\ tangled' = (tangled /\ ~pass[p].alone)
  /\ lastPass' = pass[p].answer
  /\ Ends(p)
  /\ UNCHANGED <<belief, misses, passes, lacked>>

\* stopRotomSync, or the end of the hub.
HubForgets ==
  /\ \E b \in Scanners : misses[b] > 0
  /\ misses' = [b \in Scanners |-> 0] /\ pass' = [p \in Slots |-> Away]
  /\ clean' = FALSE
  /\ UNCHANGED <<belief, passes, lacked, tangled, lastPass, sample>>

RotomNext ==
  \/ \E p \in Slots :
       \/ PassStarts(p) \/ PassFails(p) \/ LoadsRows(p)
       \/ \E answer \in [Scanners -> {"none", "connected", "off"}] :
            /\ \A b \in Scanners \ {1} : answer[b] # "off"   \* bound: one box goes off
            /\ Answers(p, answer)
       \/ \E b \in Scanners : WritesBox(p, b) \/ Sweeps(p, b)
       \/ \E fresh \in BOOLEAN : Records(p, fresh)
  \/ HubForgets

-----------------------------------------------------------------------------
\* "one poll is one opinion": a box is called off for not being listed only
\* after two answers in a row without it, unless passes have overlapped and none
\* has run alone since.  A pass that ran alone puts right what passes that
\* overlapped, were applied out of order or broke off left behind: every row is
\* what Rotom said, a box that is not listed is off unless this was its first
\* miss, and the history row says what the device row says.
RotomIsBelieved ==
  /\ ~tangled => \A p \in Slots : \A b \in pass[p].flipped : lacked[b] = 2
  /\ clean => \A b \in Scanners :
       /\ lastPass[b] # "none" => belief[b] = lastPass[b] /\ misses[b] = 0
       /\ lastPass[b] = "none" /\ belief[b] = "connected" => misses[b] = 1
       /\ sample[b] # "none" => sample[b] = belief[b]
=============================================================================
