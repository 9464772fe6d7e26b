----------------------------- MODULE Enrollment ----------------------------
(***************************************************************************)
(* routes/enroll.ts and agent/enroll.go: a flashed box trades the           *)
(* enrollment token for a token of its own.                                 *)
(*                                                                          *)
(* Every await of the route is a step.  The box waits 30 s for an answer,   *)
(* exits when it gets none, and service.sh starts it again: the request it  *)
(* no longer waits for goes on in the hub.  A device token is the number of *)
(* the request that made it.                                                *)
(***************************************************************************)
EXTENDS Naturals, FiniteSets

CONSTANTS
  Newcomers,  \* serials
  MaxUses,    \* of the enrollment token
  MaxAsks,    \* bound: requests
  MaxWipes    \* bound: flashed again, or deleted by the operator

ASSUME EnrollAssumption ==
  IsFiniteSet(Newcomers) /\ MaxUses \in Nat /\ MaxAsks \in Nat /\ MaxWipes \in Nat

VARIABLES
  uses,      \* EnrollmentToken.uses and .revoked
  rows,      \* Device.tokenHash per serial, or NoKey
  request,   \* what each request of the hub is about to do
  saved,    \* config.json of a box: its deviceToken, or the enrollment token
  awaits,    \* the request a box waits for, or NoKey
  wipes,
  overtaken, \* history: boxes that asked again while an older request was open
  raced      \* history: a token was checked while another request had not counted

enrollVars == <<uses, rows, request, saved, awaits, wipes, overtaken, raced>>

NoKey == 0
Asks == 1..MaxAsks
Unused == [box |-> "none", at |-> "none", found |-> FALSE]

EnrollInit ==
  /\ uses = [count |-> 0, revoked |-> FALSE]
  /\ rows = [b \in Newcomers |-> NoKey] /\ saved = rows /\ awaits = rows
  /\ request = [a \in Asks |-> Unused]
  /\ wipes = 0 /\ overtaken = {} /\ raced = FALSE

Open(a) == request[a].at \notin {"none", "over"}
OpenFor(b) == {a \in Asks : Open(a) /\ request[a].box = b}
Step(a, place) == request' = [request EXCEPT ![a] =
  IF place = "over" THEN [Unused EXCEPT !.at = "over"] ELSE [@ EXCEPT !.at = place]]

-----------------------------------------------------------------------------
(* The box                                                                  *)

\* Enroll, for a config without a device token.
AsksToEnroll(b, a) ==
  /\ saved[b] = NoKey /\ awaits[b] = NoKey
  /\ request[a] = Unused /\ \A o \in 1..a - 1 : request[o] # Unused
  /\ request' = [request EXCEPT ![a] = [Unused EXCEPT !.box = b, !.at = "check"]]
  /\ awaits' = [awaits EXCEPT ![b] = a]
  /\ overtaken' = IF OpenFor(b) # {} THEN overtaken \cup {b} ELSE overtaken
  /\ UNCHANGED <<uses, rows, saved, wipes, raced>>

\* The timeout, a lost answer, an end of the agent before config.json is saved.
StopsWaiting(b) ==
  /\ awaits[b] # NoKey
  /\ awaits' = [awaits EXCEPT ![b] = NoKey]
  /\ UNCHANGED <<uses, rows, request, saved, wipes, overtaken, raced>>

\* The module is flashed again: a config with the enrollment token only.
FlashedAgain(b) ==
  /\ saved[b] # NoKey /\ wipes < MaxWipes
  /\ saved' = [saved EXCEPT ![b] = NoKey] /\ wipes' = wipes + 1
  /\ UNCHANGED <<uses, rows, request, awaits, overtaken, raced>>

-----------------------------------------------------------------------------
(* The route                                                                *)

\* Revoked, expired or exhausted tokens get 401.
Usable == ~uses.revoked /\ uses.count < MaxUses

ChecksToken(a) ==
  /\ request[a].at = "check"
  /\ Step(a, IF Usable THEN "find" ELSE "refuse")
  /\ raced' = (raced \/ \E o \in Asks \ {a} : request[o].at \in {"find", "write", "count"})
  /\ UNCHANGED <<uses, rows, saved, awaits, wipes, overtaken>>

FindsDevice(a) ==
  /\ request[a].at = "find"
  /\ request' = [request EXCEPT ![a].at = "write", ![a].found = rows[request[a].box] # NoKey]
  /\ UNCHANGED <<uses, rows, saved, awaits, wipes, overtaken, raced>>

\* Mutant: a box that is known keeps its row as it is.
RotatedNot(old, new) == IF old # NoKey THEN old ELSE new
Rotated(old, new) == new

\* update, or create: it fails on a row that went or came in between.
WritesDevice(a) ==
  LET b == request[a].box IN
  /\ request[a].at = "write"
  /\ IF request[a].found = (rows[b] # NoKey)
     THEN rows' = [rows EXCEPT ![b] = Rotated(@, a)] /\ Step(a, "count")
     ELSE UNCHANGED rows /\ Step(a, "refuse")
  /\ UNCHANGED <<uses, saved, awaits, wipes, overtaken, raced>>

CountsUse(a) ==
  /\ request[a].at = "count"
  /\ uses' = [uses EXCEPT !.count = @ + 1]
  /\ Step(a, "answer")
  /\ UNCHANGED <<rows, saved, awaits, wipes, overtaken, raced>>

\* The box writes config.json, or exits and asks again.
Replies(a) ==
  LET b == request[a].box IN
  /\ request[a].at \in {"answer", "refuse"}
  /\ saved' = IF request[a].at = "answer" /\ awaits[b] = a
               THEN [saved EXCEPT ![b] = a] ELSE saved
  /\ awaits' = IF awaits[b] = a THEN [awaits EXCEPT ![b] = NoKey] ELSE awaits
  /\ Step(a, "over")
  /\ UNCHANGED <<uses, rows, wipes, overtaken, raced>>

HubStops ==
  /\ \E a \in Asks : Open(a)
  /\ request' = [a \in Asks |-> IF Open(a) THEN [Unused EXCEPT !.at = "over"] ELSE request[a]]
  /\ awaits' = [b \in Newcomers |-> NoKey]
  /\ UNCHANGED <<uses, rows, saved, wipes, overtaken, raced>>

\* The dashboard: revokeEnrollmentToken, deleteDevice.
Revokes ==
  /\ ~uses.revoked /\ uses' = [uses EXCEPT !.revoked = TRUE]
  /\ UNCHANGED <<rows, request, saved, awaits, wipes, overtaken, raced>>

DeletesDevice(b) ==
  /\ rows[b] # NoKey /\ wipes < MaxWipes
  /\ rows' = [rows EXCEPT ![b] = NoKey] /\ wipes' = wipes + 1
  /\ UNCHANGED <<uses, request, saved, awaits, overtaken, raced>>

EnrollNext ==
  \/ \E b \in Newcomers : \/ \E a \in Asks : AsksToEnroll(b, a)
                          \/ StopsWaiting(b) \/ FlashedAgain(b) \/ DeletesDevice(b)
  \/ \E a \in Asks : ChecksToken(a) \/ FindsDevice(a) \/ WritesDevice(a) \/ CountsUse(a)
                     \/ Replies(a)
  \/ HubStops \/ Revokes

-----------------------------------------------------------------------------
\* The token a box has saved is the one its row knows, through lost answers,
\* restarts, a box that is flashed again and a row that is deleted and comes
\* back: only a request the box had given up on can still take the row away
\* from it, and then it has no enrollment token left to ask with.  maxUses holds
\* as long as no two requests are between the check and the count.
TokensFit ==
  /\ \A b \in Newcomers :
       saved[b] # NoKey /\ rows[b] # NoKey => rows[b] = saved[b] \/ b \in overtaken
  /\ uses.count > MaxUses => raced
=============================================================================
