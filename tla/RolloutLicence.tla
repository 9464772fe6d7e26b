--------------------------- MODULE RolloutLicence ---------------------------
(***************************************************************************)
(* What a staged rollout promises its operator, whatever the fleet does:   *)
(* the boxes that are not canaries are left alone until the rollout has    *)
(* the licence to touch them.  A canary that has really installed the      *)
(* version earns it, or the operator gives it; it is never taken back.     *)
(*                                                                         *)
(* Nothing is said here of which open status follows which: a status write *)
(* may land late (see Fleet), and only the licence survives that.          *)
(***************************************************************************)
CONSTANT Rollouts

VARIABLES
  status,
  proven,    \* a canary of the rollout has installed the version
  released,  \* the licence
  touched    \* a box that is not a canary has begun to install

licenceVars == <<status, proven, released, touched>>

Init ==
  /\ status = [r \in Rollouts |-> "ABSENT"]
  /\ proven = {}
  /\ released = {}
  /\ touched = {}

Exists(r) == status[r] # "ABSENT"
Becomes(r, to) == status' = [status EXCEPT ![r] = to]

\* Born with canaries, and without the licence; or without canaries, with it.
Create(r) ==
  /\ ~Exists(r)
  /\ \/ Becomes(r, "CANARY") /\ UNCHANGED released
     \/ Becomes(r, "RUNNING") /\ released' = released \cup {r}
  /\ UNCHANGED <<proven, touched>>

Prove(r) ==
  /\ Exists(r)
  /\ proven' = proven \cup {r}
  /\ UNCHANGED <<status, released, touched>>

\* The canaries earn the licence, together with the status that follows.
Release(r) ==
  /\ r \in proven
  /\ released' = released \cup {r}
  /\ \E to \in {"SOAKING", "RUNNING", "COMPLETED"} : Becomes(r, to)
  /\ UNCHANGED <<proven, touched>>

\* The operator gives it.
Resume(r) ==
  /\ Exists(r)
  /\ released' = released \cup {r}
  /\ Becomes(r, "RUNNING")
  /\ UNCHANGED <<proven, touched>>

\* Any other change of status: none of them starts the dispatch to everybody
\* without the licence, none makes it a canary rollout again.
Move(r) ==
  /\ Exists(r)
  /\ \/ \E to \in {"PAUSED", "COMPLETED", "CANCELLED"} : Becomes(r, to)
     \/ r \in released /\ \E to \in {"SOAKING", "RUNNING"} : Becomes(r, to)
  /\ UNCHANGED <<proven, released, touched>>

Touch(r) ==
  /\ r \in released
  /\ touched' = touched \cup {r}
  /\ UNCHANGED <<status, proven, released>>

Next ==
  \E r \in Rollouts :
    Create(r) \/ Prove(r) \/ Release(r) \/ Resume(r) \/ Move(r) \/ Touch(r)

Spec == Init /\ [][Next]_licenceVars
=============================================================================
