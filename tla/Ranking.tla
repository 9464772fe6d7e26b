------------------------------- MODULE Ranking ------------------------------
(***************************************************************************)
(* What Array.prototype.sort and filter return, by the place each entry     *)
(* takes: how many come before it.  An order is a set of pairs.              *)
(***************************************************************************)
EXTENDS Integers, Sequences, FiniteSets

\* The elements of a finite set, first to last.
Ranked(S, before) ==
  [p \in 1..Cardinality(S) |->
     CHOOSE x \in S : Cardinality({y \in S : <<y, x>> \in before}) = p - 1]

\* sort, which is stable: by the keys of the entries, then as they were.
Earlier(keys) ==
  {e \in (DOMAIN keys) \X (DOMAIN keys) :
     keys[e[1]] < keys[e[2]] \/ (keys[e[1]] = keys[e[2]] /\ e[1] < e[2])}
Sorted(s, keys) ==
  LET place == Ranked(DOMAIN s, Earlier(keys)) IN [p \in DOMAIN place |-> s[place[p]]]

\* filter: the entries that are in a set, in the order they were in.
Filtered(s, S) ==
  LET kept == {i \in DOMAIN s : s[i] \in S}
      place == Ranked(kept, Earlier([i \in kept |-> i]))
  IN [p \in DOMAIN place |-> s[place[p]]]
=============================================================================
