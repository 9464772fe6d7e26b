----------------------------- MODULE OneAnswer -----------------------------
(***************************************************************************)
(* What a request that waits for a box is promised: one answer, of the box  *)
(* or of a timer, and never none.                                           *)
(***************************************************************************)
CONSTANT Requests
VARIABLE outcome

Outcomes == {"ok", "failed"}

OAInit == outcome = [r \in Requests |-> "none"]

Asked(r) == outcome[r] = "none" /\ outcome' = [outcome EXCEPT ![r] = "asked"]

\* Without a connection there is nothing to wait for.
Refused(r) == outcome[r] = "none" /\ outcome' = [outcome EXCEPT ![r] = "failed"]

Settled(r) ==
  /\ outcome[r] = "asked"
  /\ \E how \in Outcomes : outcome' = [outcome EXCEPT ![r] = how]

\* A hub that stops breaks every request that is open.
Broken == /\ \E r \in Requests : outcome[r] = "asked"
          /\ outcome' = [r \in Requests |-> IF outcome[r] = "asked" THEN "failed" ELSE outcome[r]]

OANext == Broken \/ \E r \in Requests : Asked(r) \/ Refused(r) \/ Settled(r)

\* No answer is taken back or changed.
OASafety == OAInit /\ [][OANext]_outcome

OASpec == OASafety /\ \A r \in Requests : WF_outcome(Settled(r))
=============================================================================
