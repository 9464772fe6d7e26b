----------------------------- MODULE PageProofs -----------------------------
(***************************************************************************)
(* Theorems about what the dashboard writes and draws: the names of many     *)
(* boxes, for any number of them; a monitoring rule, for any length of its   *)
(* ladder; the config of a group and the card of an app target, for any      *)
(* paths, templates and texts; the charts, for any history.  And what sort   *)
(* and filter return, on which most of it rests, and what is defined by a    *)
(* step from each number to the next.                                        *)
(***************************************************************************)
EXTENDS Naming, RuleForm, Charts, SettingsForms,
        FiniteSetTheorems, SequenceTheorems, WellFoundedInduction, TLAPS

-----------------------------------------------------------------------------
(* Sorting.  No induction: an element has fewer before it than any that comes *)
(* after it, so the ranks of n elements are n numbers below n, and all of      *)
(* them are taken.                                                           *)

IsOrder(S, before) ==
  /\ \A x \in S : <<x, x>> \notin before
  /\ \A x, y, z \in S : <<x, y>> \in before /\ <<y, z>> \in before => <<x, z>> \in before
  /\ \A x, y \in S : x # y => <<x, y>> \in before \/ <<y, x>> \in before

\* Ranked lists a finite set: each element once, first to last.
LEMMA RankedListsAll ==
  ASSUME NEW S, IsFiniteSet(S), NEW before, IsOrder(S, before)
  PROVE  LET n == Cardinality(S)  r == Ranked(S, before) IN
         /\ n \in Nat /\ r \in [1..n -> S]
         /\ \A x \in S : \E p \in 1..n : r[p] = x
         /\ \A p, q \in 1..n : p < q => r[p] # r[q] /\ <<r[p], r[q]>> \in before
<1> DEFINE n == Cardinality(S)
           Below(x) == {y \in S : <<y, x>> \in before}
           rank == [x \in S |-> Cardinality(Below(x))]
           r == Ranked(S, before)
<1>1. n \in Nat
  BY FS_CardinalityType
<1>2. ASSUME NEW x \in S
      PROVE  IsFiniteSet(Below(x)) /\ rank[x] = Cardinality(Below(x)) /\ rank[x] \in Nat
  <2>1. Below(x) \in SUBSET S
    OBVIOUS
  <2> QED BY <2>1, FS_Subset, FS_CardinalityType
<1>3. ASSUME NEW x \in S, NEW y \in S, <<x, y>> \in before PROVE rank[x] < rank[y]
  <2>1. Below(x) \cup {x} \in SUBSET Below(y) /\ x \notin Below(x)
    BY <1>3 DEF IsOrder
  <2>2. Cardinality(Below(x) \cup {x}) = Cardinality(Below(x)) + 1
    BY <2>1, <1>2, FS_AddElement
  <2>3. Cardinality(Below(x) \cup {x}) <= Cardinality(Below(y))
    BY <2>1, <1>2, FS_Subset
  <2> QED BY <2>2, <2>3, <1>2
<1>4. ASSUME NEW x \in S PROVE rank[x] \in 0..(n - 1)
  <2>1. Below(x) \in SUBSET (S \ {x})
    BY DEF IsOrder
  <2>2. IsFiniteSet(S \ {x}) /\ Cardinality(S \ {x}) = n - 1
    BY FS_RemoveElement
  <2>3. Cardinality(Below(x)) <= Cardinality(S \ {x})
    BY <2>1, <2>2, FS_Subset
  <2> HIDE DEF Below, n, rank
  <2> QED BY <2>2, <2>3, <1>1, <1>2
<1> HIDE DEF rank, Below
<1>5. ASSUME NEW x \in S, NEW y \in S, rank[x] = rank[y] PROVE x = y
  <2>1. ~(rank[x] < rank[y]) /\ ~(rank[y] < rank[x])
    BY <1>2, <1>5
  <2>2. ~(<<x, y>> \in before) /\ ~(<<y, x>> \in before)
    BY <1>3, <2>1
  <2> QED BY <2>2 DEF IsOrder
<1>6. rank \in Injection(S, 0..(n - 1))
  BY <1>4, <1>5 DEF Injection, IsInjective, rank
<1>7. IsFiniteSet(0..(n - 1)) /\ Cardinality(0..(n - 1)) = n
  <2>1. 0 \in Int /\ n - 1 \in Int /\ ~(0 > n - 1 /\ n # 0) /\ n - 1 - 0 + 1 = n /\ (0 > n - 1 => n = 0)
    BY <1>1
  <2> HIDE DEF n
  <2>2. /\ IsFiniteSet(0..(n - 1))
        /\ Cardinality(0..(n - 1)) = IF 0 > n - 1 THEN 0 ELSE n - 1 - 0 + 1
    BY <2>1, FS_Interval
  <2> QED BY <2>1, <2>2
<1>8. rank \in Surjection(S, 0..(n - 1))
  BY <1>6, <1>7, FS_Injection
<1>9. ASSUME NEW p \in 1..n PROVE r[p] \in S /\ rank[r[p]] = p - 1
  <2>1. p - 1 \in 0..(n - 1)
    BY <1>1
  <2>2. PICK x \in S : rank[x] = p - 1
    BY <1>8, <2>1 DEF Surjection
  <2>3. r[p] = CHOOSE y \in S : rank[y] = p - 1
    BY <1>2 DEF Ranked, Below, rank
  <2> QED BY <2>2, <2>3
<1>10. r \in [1..n -> S]
  BY <1>9 DEF Ranked
<1>11. ASSUME NEW x \in S PROVE \E p \in 1..n : r[p] = x
  <2>1. rank[x] + 1 \in 1..n
    BY <1>4, <1>1
  <2>2. rank[r[rank[x] + 1]] = rank[x] /\ r[rank[x] + 1] \in S
    BY <2>1, <1>9, <1>4, <1>1
  <2> QED BY <2>1, <2>2, <1>5
<1>12. ASSUME NEW p \in 1..n, NEW q \in 1..n, p < q PROVE r[p] # r[q] /\ <<r[p], r[q]>> \in before
  <2>1. r[p] # r[q]
    BY <1>9, <1>12
  <2>2. ~(<<r[q], r[p]>> \in before)
    BY <1>9, <1>3, <1>12
  <2> QED BY <2>1, <2>2, <1>9 DEF IsOrder
<1> QED BY <1>1, <1>10, <1>11, <1>12

\* The entries of a sequence are ordered by a key, and two of one key by their place.
LEMMA EarlierOrders ==
  ASSUME NEW keys, DOMAIN keys \subseteq Int, \A i \in DOMAIN keys : keys[i] \in Int
  PROVE  IsOrder(DOMAIN keys, Earlier(keys))
<1>1. \A i, j : <<i, j>> \in Earlier(keys) <=>
        /\ i \in DOMAIN keys /\ j \in DOMAIN keys
        /\ keys[i] < keys[j] \/ (keys[i] = keys[j] /\ i < j)
  BY DEF Earlier
<1> HIDE DEF Earlier
<1> QED BY <1>1 DEF IsOrder

LEMMA IndicesAreFinite ==
  ASSUME NEW T, NEW s \in Seq(T)
  PROVE  /\ Len(s) \in Nat /\ DOMAIN s = 1..Len(s)
         /\ IsFiniteSet(1..Len(s)) /\ Cardinality(1..Len(s)) = Len(s)
<1> DEFINE n == Len(s)
<1>1. n \in Nat /\ DOMAIN s = 1..n
  OBVIOUS
<1> HIDE DEF n
<1>2. IsFiniteSet(1..n) /\ Cardinality(1..n) = IF 1 > n THEN 0 ELSE n - 1 + 1
  BY <1>1, FS_Interval
<1>3. Cardinality(1..n) = n
  BY <1>1, <1>2
<1> QED BY <1>1, <1>2, <1>3 DEF n

\* t has entries of s, none twice: the p-th is the one at place[p].
IsTaken(t, s, place) ==
  /\ place \in [DOMAIN t -> DOMAIN s]
  /\ \A p \in DOMAIN t : t[p] = s[place[p]]
  /\ \A p, q \in DOMAIN t : p # q => place[p] # place[q]

\* The places are all there are, by their keys.
IsSorting(place, keys) ==
  /\ \A i \in DOMAIN keys : \E p \in DOMAIN place : place[p] = i
  /\ \A p, q \in DOMAIN place : p < q => <<place[p], place[q]>> \in Earlier(keys)

\* sort: the same entries, each once, by their keys and then as they were.
LEMMA SortedIsAll ==
  ASSUME NEW T, NEW s \in Seq(T), NEW keys \in [DOMAIN s -> Int]
  PROVE  /\ Sorted(s, keys) \in Seq(T) /\ Len(Sorted(s, keys)) = Len(s)
         /\ \E place : IsTaken(Sorted(s, keys), s, place) /\ IsSorting(place, keys)
<1> DEFINE n == Len(s)  place == Ranked(DOMAIN s, Earlier(keys))
<1>1. n \in Nat /\ DOMAIN s = 1..n /\ IsFiniteSet(1..n) /\ Cardinality(1..n) = n
  BY IndicesAreFinite
<1>2. IsOrder(DOMAIN s, Earlier(keys))
  BY <1>1, EarlierOrders
<1>3. /\ place \in [1..n -> 1..n]
      /\ \A i \in 1..n : \E p \in 1..n : place[p] = i
      /\ \A p, q \in 1..n : p < q => place[p] # place[q] /\ <<place[p], place[q]>> \in Earlier(keys)
  <2> DEFINE m == Cardinality(DOMAIN s)
  <2>1. IsFiniteSet(DOMAIN s) /\ m = n
    BY <1>1
  <2>2. /\ place \in [1..m -> DOMAIN s]
        /\ \A i \in DOMAIN s : \E p \in 1..m : place[p] = i
        /\ \A p, q \in 1..m : p < q => place[p] # place[q] /\ <<place[p], place[q]>> \in Earlier(keys)
    <3> DEFINE S == DOMAIN s  before == Earlier(keys)
    <3>1. IsFiniteSet(S) /\ IsOrder(S, before)
      BY <1>2, <2>1
    <3> HIDE DEF S, before
    <3>2. LET k == Cardinality(S)  r == Ranked(S, before) IN
          /\ k \in Nat /\ r \in [1..k -> S]
          /\ \A x \in S : \E p \in 1..k : r[p] = x
          /\ \A p, q \in 1..k : p < q => r[p] # r[q] /\ <<r[p], r[q]>> \in before
      BY <3>1, RankedListsAll
    <3> QED BY <3>2 DEF S, before
  <2> QED BY <1>1, <2>1, <2>2
<1> HIDE DEF place
<1>4. Sorted(s, keys) = [p \in 1..n |-> s[place[p]]]
  BY <1>3 DEF Sorted, place
<1>5. Sorted(s, keys) \in Seq(T) /\ Len(Sorted(s, keys)) = n
  BY <1>1, <1>3, <1>4
<1>6. ASSUME NEW p \in 1..n, NEW q \in 1..n, p # q PROVE place[p] # place[q]
  <2>1. p < q \/ q < p
    BY <1>1, <1>6
  <2> QED BY <2>1, <1>3
<1>7. IsTaken(Sorted(s, keys), s, place)
  BY <1>1, <1>3, <1>4, <1>6 DEF IsTaken
<1>8. IsSorting(place, keys)
  BY <1>1, <1>3 DEF IsSorting
<1> QED BY <1>5, <1>7, <1>8

\* filter returns the entries that are in the set, each once, and fewer if it rejects some.
LEMMA FilteredIsSome ==
  ASSUME NEW T, NEW s \in Seq(T), NEW S
  PROVE  /\ Filtered(s, S) \in Seq(T) /\ Len(Filtered(s, S)) <= Len(s)
         /\ \A p \in DOMAIN Filtered(s, S) : Filtered(s, S)[p] \in S
         /\ \E place : IsTaken(Filtered(s, S), s, place)
         /\ \A i \in DOMAIN s : s[i] \in S => \E p \in DOMAIN Filtered(s, S) : Filtered(s, S)[p] = s[i]
         /\ Len(Filtered(s, S)) = Len(s) => \A i \in DOMAIN s : s[i] \in S
<1> DEFINE n == Len(s)
           kept == {i \in DOMAIN s : s[i] \in S}
           before == Earlier([i \in kept |-> i])
           m == Cardinality(kept)
           place == Ranked(kept, before)
<1>1. n \in Nat /\ DOMAIN s = 1..n /\ IsFiniteSet(1..n) /\ Cardinality(1..n) = n
  BY IndicesAreFinite
<1>2. kept \in SUBSET (1..n)
  BY <1>1
<1>3. IsFiniteSet(kept) /\ m <= n /\ (m = n => kept = 1..n)
  <2> HIDE DEF kept, n
  <2> QED BY <1>1, <1>2, FS_Subset
<1>4. IsOrder(kept, before)
  <2> HIDE DEF kept
  <2> DEFINE keys == [i \in kept |-> i]
  <2>1. DOMAIN keys = kept /\ DOMAIN keys \subseteq Int /\ \A i \in DOMAIN keys : keys[i] \in Int
    BY <1>1, <1>2
  <2> HIDE DEF keys
  <2>2. IsOrder(kept, Earlier(keys))
    BY <2>1, EarlierOrders
  <2> QED BY <2>2 DEF keys
<1>5. /\ m \in Nat /\ place \in [1..m -> kept]
      /\ \A i \in kept : \E p \in 1..m : place[p] = i
      /\ \A p, q \in 1..m : p < q => place[p] # place[q]
  <2> HIDE DEF kept, before
  <2>1. LET k == Cardinality(kept)  r == Ranked(kept, before) IN
        /\ k \in Nat /\ r \in [1..k -> kept]
        /\ \A x \in kept : \E p \in 1..k : r[p] = x
        /\ \A p, q \in 1..k : p < q => r[p] # r[q] /\ <<r[p], r[q]>> \in before
    BY <1>3, <1>4, RankedListsAll
  <2> QED BY <2>1
<1> HIDE DEF place, m, before
<1>6. Filtered(s, S) = [p \in 1..m |-> s[place[p]]]
  BY <1>5 DEF Filtered, place, m, before
<1>7. Filtered(s, S) \in Seq(T) /\ Len(Filtered(s, S)) = m /\ DOMAIN Filtered(s, S) = 1..m
  BY <1>1, <1>2, <1>5, <1>6
<1>8. \A p, q \in 1..m : p # q => place[p] # place[q]
  BY <1>5
<1>9. place \in [1..m -> DOMAIN s] /\ \A p \in 1..m : s[place[p]] \in S
  BY <1>5
<1>10. /\ \A p \in 1..m : Filtered(s, S)[p] = s[place[p]] /\ Filtered(s, S)[p] \in S
       /\ IsTaken(Filtered(s, S), s, place)
  BY <1>6, <1>7, <1>8, <1>9 DEF IsTaken
<1>11. m = n => \A i \in DOMAIN s : s[i] \in S
  BY <1>1, <1>3
<1>12. ASSUME NEW i \in DOMAIN s, s[i] \in S PROVE \E p \in 1..m : Filtered(s, S)[p] = s[i]
  <2>1. PICK p \in 1..m : place[p] = i
    BY <1>5, <1>12
  <2> QED BY <1>10, <2>1
<1> QED BY <1>3, <1>7, <1>10, <1>11, <1>12

\* filter that rejects nothing changes nothing.
LEMMA FilteredIsAll ==
  ASSUME NEW T, NEW s \in Seq(T), NEW S, \A i \in DOMAIN s : s[i] \in S
  PROVE  Filtered(s, S) = s
<1> DEFINE n == Len(s)
           before == Earlier([i \in 1..n |-> i])
<1>1. n \in Nat /\ DOMAIN s = 1..n /\ s = [i \in 1..n |-> s[i]]
  OBVIOUS
<1>2. {i \in DOMAIN s : s[i] \in S} = 1..n
  BY <1>1
<1>3. ASSUME NEW i \in 1..n PROVE Cardinality({j \in 1..n : <<j, i>> \in before}) = i - 1
  <2>1. {j \in 1..n : <<j, i>> \in before} = 1..(i - 1)
    BY <1>1 DEF Earlier
  <2>2. Cardinality(1..(i - 1)) = i - 1
    <3>1. i \in Int /\ i >= 1
      BY <1>1
    <3> HIDE DEF n
    <3> QED BY <3>1, FS_Interval
  <2> QED BY <2>1, <2>2
<1>4. Ranked(1..n, before) = [p \in 1..n |-> p]
  <2>1. Cardinality(1..n) = n
    BY IndicesAreFinite
  <2>2. ASSUME NEW p \in 1..n
        PROVE  p = CHOOSE i \in 1..n : Cardinality({j \in 1..n : <<j, i>> \in before}) = p - 1
    <3> HIDE DEF before
    <3> QED BY <1>3
  <2> HIDE DEF before
  <2> QED BY <2>1, <2>2 DEF Ranked
<1>5. Filtered(s, S) = [p \in 1..n |-> s[p]]
  BY <1>2, <1>4 DEF Filtered
<1> QED BY <1>1, <1>5

\* A finite set of numbers has a greatest one: the last of it.
LEMMA MaxIsGreatest ==
  ASSUME NEW S, IsFiniteSet(S), S # {}, S \subseteq Int
  PROVE  Max(S) \in S /\ \A x \in S : x <= Max(S)
<1> DEFINE keys == [x \in S |-> x]
           n == Cardinality(S)
           r == Ranked(S, Earlier(keys))
<1>1. IsOrder(S, Earlier(keys))
  <2>1. DOMAIN keys = S
    OBVIOUS
  <2> QED BY <2>1, EarlierOrders
<1>2. /\ n \in Nat /\ r \in [1..n -> S]
      /\ \A x \in S : \E p \in 1..n : r[p] = x
      /\ \A p, q \in 1..n : p < q => r[p] # r[q] /\ <<r[p], r[q]>> \in Earlier(keys)
  <2> DEFINE before == Earlier(keys)
  <2> HIDE DEF before, keys
  <2>1. LET k == Cardinality(S)  o == Ranked(S, before) IN
        /\ k \in Nat /\ o \in [1..k -> S]
        /\ \A x \in S : \E p \in 1..k : o[p] = x
        /\ \A p, q \in 1..k : p < q => o[p] # o[q] /\ <<o[p], o[q]>> \in before
    BY <1>1, RankedListsAll DEF before
  <2> QED BY <2>1 DEF before
<1>3. ASSUME NEW x \in S, NEW y \in S, <<x, y>> \in Earlier(keys) PROVE x <= y
  BY <1>3 DEF Earlier
<1> HIDE DEF keys, n, r
<1>4. n >= 1
  <2>1. PICK x \in S : TRUE
    OBVIOUS
  <2>2. PICK p \in 1..n : r[p] = x
    BY <1>2
  <2> QED BY <1>2
<1>5. ASSUME NEW x \in S PROVE r[n] \in S /\ x <= r[n]
  <2>1. n \in 1..n /\ r[n] \in S
    BY <1>2, <1>4
  <2>2. PICK p \in 1..n : r[p] = x
    BY <1>2
  <2>3. CASE p = n
    BY <2>1, <2>2, <2>3
  <2>4. CASE p < n
    BY <1>2, <1>3, <2>1, <2>2, <2>4
  <2> QED BY <1>2, <2>3, <2>4
<1> QED BY <1>5 DEF Max

-----------------------------------------------------------------------------
(* The rule form.  A row of the ladder is three values side by side, so a    *)
(* ladder is what it is posted as; a field that is off screen is empty; and   *)
(* a signal that only a probe answers is without one only where the rule the   *)
(* dialog was opened on had none.                                            *)

Acts == {"NOTIFY_ONLY", "SEND_KEYEVENT", "CLEAR_CACHE_RESTART", "KILL_APP", "RESTART_APP", "REBOOT",
         "SHELL", "ROTOM_RESTART", "ROTOM_REBOOT", "ROTOM_DISCONNECT"}
Texts == {NoText, "c1", "c2"}
Rungs == [at : Nat, action : Acts, command : Texts]

HiddenIsEmpty(f) ==
  /\ ~ShowsTarget(f) => f.target = NoText
  /\ ~ShowsExpect(f) => f.expect = NoText
  /\ ~f.notify => ~f.recovery

ProbeIsAsked(f) == f.signal \in ProbeSignals /\ f.kind = "none" => f.of.signal = f.signal

FormKept ==
  /\ DOMAIN guard = DOMAIN NewRule /\ guard.rungs \in Seq(Rungs)
  /\ DOMAIN editor = DOMAIN Shut /\ editor.rungs \in Seq(Rungs)
  /\ HiddenIsEmpty(editor) /\ ProbeIsAsked(editor)
  /\ FormIsSaved

LEMMA RungIsOne ==
  ASSUME NEW at \in Nat, NEW action \in Acts, NEW command \in Texts
  PROVE  Rung(at, action, command) \in Rungs
BY DEF Rung, Rungs

\* A field that leaves the screen is emptied, and nothing else of the form moves.
LEMMA RemountHides ==
  ASSUME NEW f, NEW g, DOMAIN g = DOMAIN Shut
  PROVE  LET h == Remounted(f, g) IN
         /\ DOMAIN h = DOMAIN Shut /\ HiddenIsEmpty(h)
         /\ h.rungs = g.rungs /\ h.signal = g.signal /\ h.kind = g.kind /\ h.of = g.of
<1> DEFINE h == Remounted(f, g)
<1>1. /\ DOMAIN h = DOMAIN Shut
      /\ h.rungs = g.rungs /\ h.signal = g.signal /\ h.kind = g.kind /\ h.of = g.of
      /\ h.notify = g.notify
  BY DEF Remounted, Shut
<1>2. /\ h.target = Field(ShowsTarget(g), ShowsTarget(f), g.target, g.of.probe.target)
      /\ h.expect = Field(ShowsExpect(g), ShowsExpect(f), g.expect, g.of.probe.expect)
      /\ h.recovery => g.notify
  BY DEF Remounted, Shut
<1> HIDE DEF h
<1>3. ShowsTarget(h) = ShowsTarget(g) /\ ShowsExpect(h) = ShowsExpect(g)
  BY <1>1 DEF ShowsTarget, ShowsExpect, ShowsProbe
<1>4. HiddenIsEmpty(h)
  BY <1>1, <1>2, <1>3 DEF HiddenIsEmpty, Field
<1> QED BY <1>1, <1>4 DEF h

LEMMA StrokeKeepsForm ==
  ASSUME FormKept, NEW f, Stroke(f), DOMAIN f = DOMAIN Shut, f.rungs \in Seq(Rungs), ProbeIsAsked(f)
  PROVE  FormKept'
<1>1. editor' = Remounted(editor, f) /\ UNCHANGED <<guard, stored>>
  BY DEF Stroke
<1>2. /\ DOMAIN editor' = DOMAIN Shut /\ HiddenIsEmpty(editor)'
      /\ editor'.rungs = f.rungs /\ editor'.signal = f.signal /\ editor'.kind = f.kind
      /\ editor'.of = f.of
  BY <1>1, RemountHides DEF HiddenIsEmpty, ShowsTarget, ShowsExpect, ShowsProbe
<1>3. ProbeIsAsked(editor)'
  BY <1>2 DEF ProbeIsAsked
<1> QED BY <1>1, <1>2, <1>3 DEF FormKept, FormIsSaved

LEMMA FieldsKeepForm ==
  ASSUME FormKept, TypesRule \/ FoldsCommands
  PROVE  FormKept'
<1>1. \A f : /\ DOMAIN f = DOMAIN editor
              /\ f.rungs = editor.rungs /\ f.signal = editor.signal /\ f.kind = editor.kind
              /\ f.of = editor.of /\ Stroke(f)
            => FormKept'
  BY StrokeKeepsForm DEF FormKept, ProbeIsAsked
<1>2. ASSUME NEW x PROVE
        LET same(f) == /\ DOMAIN f = DOMAIN editor
                       /\ f.rungs = editor.rungs /\ f.signal = editor.signal /\ f.kind = editor.kind
                       /\ f.of = editor.of
        IN /\ same([editor EXCEPT !.target = x]) /\ same([editor EXCEPT !.expect = x])
           /\ same([editor EXCEPT !.pkg = x]) /\ same([editor EXCEPT !.notify = x])
           /\ same([editor EXCEPT !.recovery = x]) /\ same([editor EXCEPT !.enabled = x])
           /\ same([editor EXCEPT !.shows = x])
  BY DEF FormKept, Shut
<1> QED BY <1>1, <1>2 DEF TypesRule, FoldsCommands

LEMMA PicksKeepForm ==
  ASSUME FormKept,
         \/ \E signal \in Signals : PicksSignal(signal)
         \/ \E kind \in Kinds \cup {"none"} : PicksKind(kind)
  PROVE  FormKept'
<1>1. ASSUME NEW signal, PicksSignal(signal) PROVE FormKept'
  <2> DEFINE kind == IF ProbeNeed(signal) = "required" /\ editor.kind = "none"
                     THEN DefaultProbeKind(signal) ELSE editor.kind
             f == [editor EXCEPT !.signal = signal, !.kind = kind]
  <2>1. Stroke(f)
    BY <1>1 DEF PicksSignal
  <2>2. /\ DOMAIN f = DOMAIN Shut /\ f.rungs = editor.rungs
        /\ f.signal = signal /\ f.kind = kind
    BY DEF FormKept, Shut
  <2>3. signal \in ProbeSignals => kind # "none"
    BY DEF ProbeNeed, DefaultProbeKind
  <2>4. ProbeIsAsked(f)
    BY <2>2, <2>3 DEF ProbeIsAsked
  <2> HIDE DEF f
  <2> QED BY <2>1, <2>2, <2>4, StrokeKeepsForm DEF FormKept
<1>2. ASSUME NEW kind, PicksKind(kind) PROVE FormKept'
  <2> DEFINE f == [editor EXCEPT !.kind = kind]
  <2>1. Stroke(f)
    BY <1>2 DEF PicksKind
  <2>2. /\ DOMAIN f = DOMAIN Shut /\ f.rungs = editor.rungs
        /\ f.signal = editor.signal /\ f.kind = kind
    BY DEF FormKept, Shut
  <2>3. editor.signal \in ProbeSignals => kind # "none"
    BY <1>2 DEF PicksKind, ProbeNeed
  <2>4. ProbeIsAsked(f)
    BY <2>2, <2>3 DEF ProbeIsAsked
  <2> HIDE DEF f
  <2> QED BY <2>1, <2>2, <2>4, StrokeKeepsForm DEF FormKept
<1> QED BY <1>1, <1>2

\* A ladder that grows, shrinks or changes is a ladder.
LEMMA LaddersKeepForm ==
  ASSUME FormKept, AddsRung \/ \E i \in DOMAIN editor.rungs : RemovesRung(i) \/ ChangesRung(i)
  PROVE  FormKept'
<1>1. ASSUME NEW rungs \in Seq(Rungs), Stroke([editor EXCEPT !.rungs = rungs]) PROVE FormKept'
  <2> DEFINE f == [editor EXCEPT !.rungs = rungs]
  <2>1. /\ DOMAIN f = DOMAIN Shut /\ f.rungs = rungs
        /\ f.signal = editor.signal /\ f.kind = editor.kind /\ f.of = editor.of
    BY DEF FormKept, Shut
  <2>2. ProbeIsAsked(f)
    BY <2>1 DEF ProbeIsAsked, FormKept
  <2> HIDE DEF f
  <2>3. Stroke(f)
    BY <1>1 DEF f
  <2> QED BY <2>1, <2>2, <2>3, StrokeKeepsForm
<1> DEFINE n == Len(editor.rungs)
<1>2. /\ editor.rungs \in Seq(Rungs) /\ n \in Nat /\ DOMAIN editor.rungs = 1..n
      /\ \A i \in 1..n : editor.rungs[i] \in Rungs
  BY DEF FormKept
<1>3. CASE AddsRung
  <2> DEFINE ats == {0} \cup {editor.rungs[i].at : i \in DOMAIN editor.rungs}
  <2>1. ats \subseteq Int /\ ats # {} /\ \A a \in ats : a \in Nat
    BY <1>2 DEF Rungs
  <2>2. IsFiniteSet(ats)
    <3> DEFINE at == [i \in 1..n |-> editor.rungs[i].at]
               some == {editor.rungs[i].at : i \in DOMAIN editor.rungs}
    <3>1. at \in Surjection(1..n, some)
      BY <1>2 DEF Surjection
    <3>2. IsFiniteSet(1..n)
      BY <1>2, IndicesAreFinite
    <3> HIDE DEF at, some, n
    <3>3. IsFiniteSet(some)
      BY <3>1, <3>2, FS_Surjection
    <3>4. IsFiniteSet(some \cup {0})
      BY <3>3, FS_AddElement
    <3>5. ats = some \cup {0}
      BY DEF some
    <3> QED BY <3>4, <3>5
  <2>3. Max(ats) \in Nat
    <3> HIDE DEF ats
    <3> QED BY <2>1, <2>2, MaxIsGreatest
  <2>4. Rung(Max(ats) + 1, "REBOOT", NoText) \in Rungs
    <3> DEFINE at == Max(ats) + 1
    <3>1. at \in Nat
      BY <2>3
    <3> HIDE DEF at
    <3>2. Rung(at, "REBOOT", NoText) \in Rungs
      BY <3>1, RungIsOne DEF Acts, Texts
    <3> QED BY <3>2 DEF at
  <2>5. Append(editor.rungs, Rung(Max(ats) + 1, "REBOOT", NoText)) \in Seq(Rungs)
    <3> HIDE DEF ats, n
    <3> QED BY <1>2, <2>4, AppendProperties
  <2> QED BY <1>1, <1>3, <2>5 DEF AddsRung
<1>4. ASSUME NEW i \in DOMAIN editor.rungs, RemovesRung(i) PROVE FormKept'
  <2>1. RemoveAt(editor.rungs, i) \in Seq(Rungs)
    BY <1>2 DEF RemoveAt
  <2> QED BY <1>1, <1>4, <2>1 DEF RemovesRung
<1>5. ASSUME NEW i \in DOMAIN editor.rungs, ChangesRung(i) PROVE FormKept'
  <2> DEFINE s == editor.rungs
  <2>1. s[i] \in Rungs
    BY <1>2
  <2>2. ASSUME NEW r \in Rungs PROVE [s EXCEPT ![i] = r] \in Seq(Rungs)
    BY <1>2
  <2>3. ASSUME NEW at \in 0..2, Stroke([editor EXCEPT !.rungs[i].at = at]) PROVE FormKept'
    <3>1. [s[i] EXCEPT !.at = at] \in Rungs
      BY <2>1 DEF Rungs
    <3> QED BY <1>1, <2>2, <2>3, <3>1
  <2>4. ASSUME NEW action \in Acts, Stroke([editor EXCEPT !.rungs[i].action = action]) PROVE FormKept'
    <3>1. [s[i] EXCEPT !.action = action] \in Rungs
      BY <2>1 DEF Rungs
    <3> QED BY <1>1, <2>2, <2>4, <3>1
  <2>5. ASSUME Stroke([editor EXCEPT !.rungs[i].command = "c2"]) PROVE FormKept'
    <3>1. [s[i] EXCEPT !.command = "c2"] \in Rungs
      BY <2>1 DEF Rungs, Texts
    <3> QED BY <1>1, <2>2, <2>5, <3>1
  <2>6. \A action \in {"RESTART_APP", "SHELL"} : action \in Acts
    BY DEF Acts
  <2> QED BY <1>5, <2>3, <2>4, <2>5, <2>6 DEF ChangesRung
<1> QED BY <1>3, <1>4, <1>5

\* What is written is what the form posts; with distinct failures, as many as rungs.
LEMMA WriteKeepsForm ==
  ASSUME FormKept, WritesRule
  PROVE  FormKept'
<1> DEFINE f == editor  r == Parsed(editor)
<1>1. /\ f.rungs \in Seq(Rungs) /\ DOMAIN f.rungs = 1..Len(f.rungs) /\ HiddenIsEmpty(f)
      /\ ProbeIsAsked(f) /\ ~IsRefused(f)
  BY DEF FormKept, WritesRule
<1>2. guard' = r /\ stored' = [posted |-> f, row |-> r] /\ editor' = Shut
  BY DEF WritesRule
<1>3. r.rungs = f.rungs
  <2>1. ASSUME NEW i \in DOMAIN f.rungs
        PROVE  Rung(f.rungs[i].at, f.rungs[i].action, f.rungs[i].command) = f.rungs[i]
    <3>1. f.rungs[i] \in Rungs
      BY <1>1
    <3> QED BY <3>1 DEF Rungs, Rung
  <2>2. ParsedSteps(f) = [i \in DOMAIN f.rungs |-> f.rungs[i]]
    BY <2>1 DEF ParsedSteps, Commands
  <2> QED BY <1>1, <2>2 DEF Parsed
<1>4. /\ DOMAIN r = DOMAIN NewRule /\ r.there /\ r.signal = f.signal /\ r.probe = ParsedConfig(f)
      /\ r.notify = f.notify /\ r.recovery = f.recovery
  BY DEF Parsed, NewRule
<1> HIDE DEF r
<1>5. Cardinality({r.rungs[i].at : i \in DOMAIN r.rungs}) = Len(r.rungs)
  <2> DEFINE at == [i \in 1..Len(f.rungs) |-> f.rungs[i].at]
             ats == {f.rungs[i].at : i \in DOMAIN f.rungs}
             D == 1..Len(f.rungs)
  <2>1. \A i, j \in DOMAIN f.rungs : i # j => f.rungs[i].at # f.rungs[j].at
    BY <1>1 DEF IsRefused, StepsAreWrong
  <2>2. at \in Injection(D, ats) /\ at \in Surjection(D, ats)
    BY <1>1, <2>1 DEF Injection, IsInjective, Surjection
  <2>3. IsFiniteSet(D) /\ Cardinality(D) = Len(f.rungs)
    BY <1>1, IndicesAreFinite
  <2> HIDE DEF at, ats, D
  <2>4. Cardinality(ats) = Len(f.rungs)
    BY <2>2, <2>3, FS_Surjection
  <2> QED BY <1>3, <2>4 DEF ats
<1>6. /\ r.probe.kind # "none" <=> ShowsTarget(f) /\ f.target # NoText
      /\ ~ShowsExpect(f) => r.probe.expect = NoText
  <2>1. CASE ~ShowsTarget(f) \/ f.target = NoText
    <3>1. r.probe = NoProbe
      BY <1>4, <2>1 DEF ParsedConfig
    <3>2. r.probe.kind = "none" /\ r.probe.expect = NoText
      BY <3>1 DEF NoProbe
    <3> QED BY <2>1, <3>2
  <2>2. CASE ShowsTarget(f) /\ f.target # NoText
    <3>1. r.probe = [kind |-> f.kind, target |-> f.target, expect |-> f.expect]
      BY <1>4, <2>2 DEF ParsedConfig
    <3>2. r.probe.kind = f.kind /\ r.probe.expect = f.expect /\ f.kind # "none"
      BY <2>2, <3>1 DEF ShowsTarget
    <3> QED BY <1>1, <2>2, <3>2 DEF HiddenIsEmpty
  <2> QED BY <2>1, <2>2
<1>8. ~r.notify => ~r.recovery
  BY <1>1, <1>4 DEF HiddenIsEmpty
<1>9. r.signal \in ProbeSignals /\ r.probe = NoProbe
        => f.target = NoText /\ (ShowsTarget(f) \/ f.of.signal = r.signal)
  <2> SUFFICES ASSUME r.signal \in ProbeSignals, r.probe = NoProbe
               PROVE  f.target = NoText /\ (ShowsTarget(f) \/ f.of.signal = r.signal)
    OBVIOUS
  <2>1. f.target = NoText
    <3>1. r.probe.kind = "none"
      BY DEF NoProbe
    <3> QED BY <1>1, <1>6, <3>1 DEF HiddenIsEmpty
  <2>2. ShowsTarget(f) \/ f.kind = "none"
    BY <1>4 DEF ShowsTarget, ShowsProbe, ProbeNeed
  <2> QED BY <1>1, <1>4, <2>1, <2>2 DEF ProbeIsAsked
<1>10. FormIsSaved'
  <2>1. stored'.posted = f /\ stored'.row = r
    BY <1>2
  <2> QED BY <2>1, <1>3, <1>5, <1>6, <1>8, <1>9 DEF FormIsSaved
<1>11. HiddenIsEmpty(Shut) /\ ProbeIsAsked(Shut) /\ Shut.rungs \in Seq(Rungs)
  BY DEF HiddenIsEmpty, ProbeIsAsked, Shut, ProbeSignals
<1> QED BY <1>1, <1>2, <1>3, <1>4, <1>10, <1>11 DEF FormKept, HiddenIsEmpty, ProbeIsAsked,
     ShowsTarget, ShowsExpect, ShowsProbe

LEMMA NewRuleIsARule == NewRule.rungs \in Seq(Rungs)
<1>1. Rung(1, "NOTIFY_ONLY", NoText) \in Rungs
  BY RungIsOne DEF Acts, Texts
<1> QED BY <1>1 DEF NewRule

\* The dialog starts from what is stored, in the order of the failures.
LEMMA DialogKeepsForm ==
  ASSUME FormKept, OpensRule \/ CancelsRule \/ SaveRefused
  PROVE  FormKept'
<1>1. CASE OpensRule
  <2> DEFINE keys == [i \in DOMAIN guard.rungs |-> guard.rungs[i].at]
             bare == [Shut EXCEPT !.of = guard, !.signal = guard.signal, !.kind = guard.probe.kind,
                       !.open = TRUE, !.pkg = guard.pkg, !.rungs = Sorted(guard.rungs, keys),
                       !.shows = \E i \in DOMAIN guard.rungs : guard.rungs[i].command # NoText,
                       !.notify = guard.notify, !.recovery = guard.notify /\ guard.recovery,
                       !.enabled = guard.enabled]
             f == [bare EXCEPT !.kind = "none"]
  <2>1. editor' = Remounted(f, bare) /\ UNCHANGED <<guard, stored>>
    BY <1>1 DEF OpensRule, Opened
  <2>2. /\ DOMAIN bare = DOMAIN Shut /\ bare.rungs = Sorted(guard.rungs, keys)
        /\ bare.signal = guard.signal /\ bare.of = guard
    BY DEF Shut
  <2>3. keys \in [DOMAIN guard.rungs -> Int] /\ guard.rungs \in Seq(Rungs)
    <3>1. guard.rungs \in Seq(Rungs)
      BY DEF FormKept
    <3>2. ASSUME NEW i \in DOMAIN guard.rungs PROVE guard.rungs[i].at \in Int
      <4>1. guard.rungs[i] \in Rungs
        BY <3>1
      <4> QED BY <4>1 DEF Rungs
    <3> QED BY <3>1, <3>2
  <2> HIDE DEF keys, bare, f
  <2>4. bare.rungs \in Seq(Rungs)
    BY <2>2, <2>3, SortedIsAll
  <2>5. /\ DOMAIN editor' = DOMAIN Shut /\ HiddenIsEmpty(Remounted(f, bare))
        /\ editor'.rungs = bare.rungs /\ editor'.signal = guard.signal /\ editor'.of = guard
    BY <2>1, <2>2, RemountHides
  <2> QED BY <2>1, <2>4, <2>5
       DEF FormKept, FormIsSaved, HiddenIsEmpty, ProbeIsAsked, ShowsTarget, ShowsExpect, ShowsProbe
<1>2. CASE CancelsRule
  <2>1. HiddenIsEmpty(Shut) /\ ProbeIsAsked(Shut) /\ Shut.rungs \in Seq(Rungs)
    BY DEF HiddenIsEmpty, ProbeIsAsked, Shut, ProbeSignals
  <2>2. editor' = Shut /\ UNCHANGED <<guard, stored>>
    BY <1>2 DEF CancelsRule
  <2> QED BY <2>1, <2>2 DEF FormKept, FormIsSaved, HiddenIsEmpty, ProbeIsAsked, ShowsTarget,
       ShowsExpect, ShowsProbe
<1>3. CASE SaveRefused
  <2>1. /\ UNCHANGED <<guard, stored>> /\ DOMAIN editor' = DOMAIN Shut
        /\ editor'.rungs = editor.rungs /\ editor'.signal = editor.signal
        /\ editor'.kind = editor.kind /\ editor'.of = editor.of
        /\ editor'.notify = editor.notify /\ editor'.recovery = editor.recovery
        /\ editor'.target = IF ShowsTarget(editor) THEN editor.of.probe.target ELSE NoText
        /\ editor'.expect = IF ShowsExpect(editor) THEN editor.of.probe.expect ELSE NoText
    BY <1>3 DEF SaveRefused, FormKept, Shut
  <2>2. HiddenIsEmpty(editor)' /\ ProbeIsAsked(editor)'
    BY <2>1 DEF FormKept, HiddenIsEmpty, ProbeIsAsked, ShowsTarget, ShowsExpect, ShowsProbe
  <2> QED BY <2>1, <2>2 DEF FormKept, FormIsSaved
<1> QED BY <1>1, <1>2, <1>3

LEMMA RowsKeepForm ==
  ASSUME FormKept, FlipsRule \/ RemovesRule
  PROVE  FormKept'
<1>1. UNCHANGED <<editor, stored>>
  BY DEF FlipsRule, RemovesRule
<1>2. DOMAIN guard' = DOMAIN NewRule /\ guard'.rungs \in {guard.rungs, NewRule.rungs}
  BY DEF FlipsRule, RemovesRule, FormKept, NewRule
<1> QED BY <1>1, <1>2, NewRuleIsARule
     DEF FormKept, FormIsSaved, HiddenIsEmpty, ProbeIsAsked, ShowsTarget, ShowsExpect, ShowsProbe

LoopLadder == <<Rung(1, "RESTART_APP", NoText)>>
IsLoopSeed(o) == DOMAIN o = DOMAIN NewRule /\ (o.signal = "LOOP_STALLED" => o.rungs = LoopLadder)

LEMMA SeedsOfSignals ==
  \A signal, pkg, probe, rungs :
    signal # "LOOP_STALLED" \/ rungs = LoopLadder => IsLoopSeed(Seed(signal, pkg, probe, rungs))
BY DEF IsLoopSeed, Seed, NewRule

LEMMA LoopSeed == \A o \in Seeds : IsLoopSeed(o)
BY SeedsOfSignals, ZenonT(60) DEF Seeds, LoopLadder

LEMMA FirstRulesAreRules ==
  ASSUME NEW r \in FirstRules
  PROVE  DOMAIN r = DOMAIN NewRule /\ r.rungs \in Seq(Rungs)
<1>1. \A a \in Acts, c \in Texts : /\ Rung(1, a, c) \in Rungs /\ Rung(2, a, c) \in Rungs
                                  /\ Rung(3, a, c) \in Rungs
  BY RungIsOne
<1>2. CASE r = NewRule
  BY <1>2, NewRuleIsARule
<1>3. CASE r = [Seed("SERVICE_DOWN", TRUE, NoProbe,
                     <<Rung(1, "RESTART_APP", NoText), Rung(2, "SHELL", "c1"), Rung(3, "REBOOT", NoText)>>)
                  EXCEPT !.enabled = TRUE]
  <2>1. r.rungs = <<Rung(1, "RESTART_APP", NoText), Rung(2, "SHELL", "c1"), Rung(3, "REBOOT", NoText)>>
    BY <1>3 DEF Seed, NewRule
  <2>2. /\ Rung(1, "RESTART_APP", NoText) \in Rungs /\ Rung(2, "SHELL", "c1") \in Rungs
        /\ Rung(3, "REBOOT", NoText) \in Rungs
    BY <1>1 DEF Acts, Texts
  <2>3. DOMAIN r = DOMAIN NewRule
    BY <1>3 DEF Seed, NewRule
  <2> DEFINE x == Rung(1, "RESTART_APP", NoText)  y == Rung(2, "SHELL", "c1")  z == Rung(3, "REBOOT", NoText)
  <2> HIDE DEF x, y, z
  <2>4. <<x, y, z>> \in Seq(Rungs)
    BY <2>2 DEF x, y, z
  <2> QED BY <2>1, <2>3, <2>4 DEF x, y, z
<1>4. ASSUME NEW o \in Seeds, o.signal = "LOOP_STALLED", r = [SwitchedOn(o) EXCEPT !.recovery = TRUE]
      PROVE  DOMAIN r = DOMAIN NewRule /\ r.rungs \in Seq(Rungs)
  <2>1. DOMAIN o = DOMAIN NewRule /\ o.rungs = <<Rung(1, "RESTART_APP", NoText)>>
    BY <1>4, LoopSeed DEF IsLoopSeed, LoopLadder
  <2>2. DOMAIN r = DOMAIN NewRule /\ r.rungs = o.rungs
    BY <1>4, <2>1 DEF SwitchedOn, NewRule
  <2>3. Rung(1, "RESTART_APP", NoText) \in Rungs
    BY <1>1 DEF Acts, Texts
  <2>4. <<Rung(1, "RESTART_APP", NoText)>> \in Seq(Rungs)
    BY <2>3
  <2> QED BY <2>1, <2>2, <2>4
<1> QED BY <1>2, <1>3, <1>4 DEF FirstRules

\* Whatever is typed, folded, added, removed and switched, and whatever becomes of the
\* rule beside the dialog: a rule is stored as the form showed it when it was saved.
THEOREM FormsAreSaved == FormSpec => []FormIsSaved
<1>1. FormInit => FormKept
  <2> SUFFICES ASSUME FormInit PROVE FormKept
    OBVIOUS
  <2>1. DOMAIN guard = DOMAIN NewRule /\ guard.rungs \in Seq(Rungs)
    BY FirstRulesAreRules DEF FormInit
  <2>2. editor = Shut /\ stored.row = NewRule /\ ~NewRule.there
    BY DEF FormInit, NewRule
  <2>3. HiddenIsEmpty(Shut) /\ ProbeIsAsked(Shut) /\ Shut.rungs \in Seq(Rungs)
    BY DEF HiddenIsEmpty, ProbeIsAsked, Shut, ProbeSignals
  <2> QED BY <2>1, <2>2, <2>3 DEF FormKept, FormIsSaved
<1>2. FormKept /\ [FormNext]_formVars => FormKept'
  <2>1. FormKept /\ UNCHANGED formVars => FormKept'
    BY DEF formVars, FormKept, FormIsSaved, HiddenIsEmpty, ProbeIsAsked, ShowsTarget, ShowsExpect,
       ShowsProbe
  <2> QED BY <2>1, DialogKeepsForm, FieldsKeepForm, PicksKeepForm, LaddersKeepForm, WriteKeepsForm,
       RowsKeepForm DEF FormNext
<1>3. FormKept => FormIsSaved
  BY DEF FormKept
<1> QED BY <1>1, <1>2, <1>3, PTL DEF FormSpec

-----------------------------------------------------------------------------
(* Naming.  A form that nothing was changed under holds the rows and the names *)
(* as they are, so the action works out the plan that was shown; and a plan     *)
(* names every box of the batch once, so its marks are the names two boxes      *)
(* bear afterwards.                                                          *)

Stems == {Blank, "tv", "a", "long", "g"}
Groups == {Blank, "g"}
Names == [stem : Stems, n : Int, caps : BOOLEAN]
Rows == [name : Names, group : Groups]
Targets == [id : Named, name : Names, group : Groups]

NoneTwice(s) == \A i, j \in DOMAIN s : s[i] = s[j] => i = j
IdsOf(batch) == [i \in DOMAIN batch |-> batch[i].id]
IsBatch(batch) == batch \in Seq(Targets) /\ NoneTwice(IdsOf(batch))
IsOfRows(batch) ==
  \A i \in DOMAIN batch : batch[i].id \in DOMAIN named /\ batch[i] = TargetOf(batch[i].id)

IsForm(f) ==
  /\ DOMAIN f = DOMAIN NotOpen
  /\ f.source \in Seq(Named) /\ NoneTwice(f.source) /\ IsBatch(f.batch)
  /\ f.order \in Orders /\ f.step \in Int /\ f.pattern \in Patterns
  /\ \A b \in DOMAIN f.found : f.found[b] \in Names

IsFresh(f) == f.loaded /\ touched = {} => f.fleet = FleetNames /\ IsOfRows(f.batch)

RowsAreRows == DOMAIN named \subseteq Named /\ named \in [DOMAIN named -> Rows]

\* What is on its way is what the form shows.
SendingFits ==
  sending.what = "rename" =>
    /\ IsForm(sending.form) /\ IsFresh(sending.form) /\ HasPlan(sending.form)
    /\ sending.ids = IdsOf(sending.form.batch)
    /\ sending.preview = PlanOf(sending.form, sending.form.batch, sending.form.fleet)

NamingKept ==
  /\ RowsAreRows /\ onBox \in [Named -> Names]
  /\ IsForm(dialog) /\ IsFresh(dialog)
  /\ DOMAIN sending = DOMAIN NoSend /\ SendingFits
  /\ PreviewIsWritten

LEMMA SomeNames ==
  /\ \A stem \in Stems, n \in Int, caps \in BOOLEAN : Name(stem, n, caps) \in Names
  /\ NoName \in Names /\ TooLong \in Names /\ Tv(TRUE) \in Names /\ Tv(FALSE) \in Names
<1>1. \A stem \in Stems, n \in Int, caps \in BOOLEAN : Name(stem, n, caps) \in Names
  BY DEF Name, Names
<1>2. Blank \in Stems /\ "long" \in Stems /\ "tv" \in Stems /\ 0 \in Int /\ 1 \in Int
  BY DEF Stems
<1> QED BY <1>1, <1>2 DEF NoName, TooLong, Tv

LEMMA TargetIsATarget ==
  ASSUME RowsAreRows, NEW b \in DOMAIN named
  PROVE  TargetOf(b) \in Targets /\ TargetOf(b).id = b /\ TargetOf(b).name = named[b].name
BY DEF RowsAreRows, Rows, Targets, TargetOf

\* The rows asked for: each once, as it is.
LEMMA TargetsAreRows ==
  ASSUME RowsAreRows, NEW ids \in Seq(Named), NoneTwice(ids)
  PROVE  IsBatch(TargetsInOrder(ids)) /\ IsOfRows(TargetsInOrder(ids))
<1> DEFINE there == Filtered(ids, DOMAIN named)  batch == TargetsInOrder(ids)
<1>1. /\ there \in Seq(Named) /\ \A p \in DOMAIN there : there[p] \in DOMAIN named
      /\ \E place : IsTaken(there, ids, place)
  <2> DEFINE S == DOMAIN named
  <2> HIDE DEF S
  <2>1. /\ Filtered(ids, S) \in Seq(Named)
        /\ \A p \in DOMAIN Filtered(ids, S) : Filtered(ids, S)[p] \in S
        /\ \E place : IsTaken(Filtered(ids, S), ids, place)
    BY FilteredIsSome
  <2> QED BY <2>1 DEF S
<1> HIDE DEF there
<1>2. \A p \in DOMAIN there : there[p] \in DOMAIN named
  BY <1>1
<1>3. NoneTwice(there)
  BY <1>1 DEF NoneTwice, IsTaken
<1>4. batch = [p \in DOMAIN there |-> TargetOf(there[p])]
  BY DEF TargetsInOrder, there
<1>5. \A p \in DOMAIN there : batch[p] \in Targets /\ batch[p].id = there[p]
  BY <1>2, <1>4, TargetIsATarget
<1>6. DOMAIN batch = DOMAIN there /\ batch \in Seq(Targets)
  <2>1. Len(there) \in Nat /\ DOMAIN there = 1..Len(there)
    BY <1>1
  <2> HIDE DEF batch
  <2> QED BY <1>4, <1>5, <2>1
<1> HIDE DEF batch
<1>7. NoneTwice(IdsOf(batch))
  BY <1>3, <1>5, <1>6 DEF NoneTwice, IdsOf
<1>8. IsOfRows(batch)
  BY <1>2, <1>4, <1>5, <1>6 DEF IsOfRows
<1> QED BY <1>6, <1>7, <1>8 DEF IsBatch, batch

\* What was loaded is loaded again, as long as the rows are as they were.
LEMMA TargetsAgain ==
  ASSUME NEW batch, IsBatch(batch), IsOfRows(batch)
  PROVE  TargetsInOrder(IdsOf(batch)) = batch
<1> DEFINE ids == IdsOf(batch)
<1>1. /\ Len(batch) \in Nat /\ DOMAIN batch = 1..Len(batch)
      /\ \A i \in DOMAIN batch : batch[i] \in Targets
      /\ batch = [i \in DOMAIN batch |-> batch[i]]
  BY DEF IsBatch
<1>2. /\ ids \in Seq(DOMAIN named) /\ DOMAIN ids = DOMAIN batch
      /\ \A i \in DOMAIN ids : ids[i] \in DOMAIN named /\ ids[i] = batch[i].id
  BY <1>1 DEF IdsOf, IsOfRows
<1> HIDE DEF ids
<1>3. Filtered(ids, DOMAIN named) = ids
  BY <1>2, FilteredIsAll
<1>4. TargetsInOrder(ids) = [i \in DOMAIN batch |-> TargetOf(batch[i].id)]
  BY <1>2, <1>3 DEF TargetsInOrder
<1> QED BY <1>1, <1>4 DEF IsOfRows, ids

LEMMA TargetHasNumbers ==
  ASSUME NEW t \in Targets
  PROVE  t.id \in Int /\ t.name.n \in Int
<1>1. t.id \in Named
  BY DEF Targets
<1>2. t.name \in Names
  BY DEF Targets
<1>3. Named \subseteq Int
  BY NamingAssumption
<1>4. t.id \in Int
  BY <1>1, <1>3, Zenon
<1>5. t.name.n \in Int
  BY <1>2, SMTT(30) DEF Names
<1> QED BY <1>4, <1>5

LEMMA WeightIsANumber ==
  ASSUME NEW order \in Orders \ {"table"}, NEW t \in Targets
  PROVE  Weight(order, t) \in Int
<1>1. t.id \in Int /\ t.name.n \in Int
  BY TargetHasNumbers
<1>2. CASE order = "name"
  <2> DEFINE k == CASE t.name.stem = "tv" -> 100 [] t.name.stem = "g" -> 50 [] OTHER -> 0
  <2>1. k \in Int
    OBVIOUS
  <2>2. Weight(order, t) = t.name.n + k
    BY <1>2 DEF Weight
  <2> QED BY <1>1, <2>1, <2>2
<1>3. CASE order = "serial"
  BY <1>1, <1>3 DEF Weight
<1>4. CASE order = "created"
  BY <1>1, <1>4 DEF Weight
<1> QED BY <1>2, <1>3, <1>4 DEF Orders

\* An order of the batch is the batch.
LEMMA OrderedIsTheBatch ==
  ASSUME NEW batch, IsBatch(batch), NEW order \in Orders
  PROVE  /\ IsBatch(Ordered(batch, order)) /\ Len(Ordered(batch, order)) = Len(batch)
         /\ \A i \in DOMAIN Ordered(batch, order) : \E j \in DOMAIN batch :
              Ordered(batch, order)[i] = batch[j]
<1>1. CASE order = "table"
  BY <1>1 DEF Ordered
<1>2. CASE order # "table"
  <2> DEFINE keys == [i \in DOMAIN batch |-> Weight(order, batch[i])]
             s == Sorted(batch, keys)
             n == Len(batch)
  <2>1. batch \in Seq(Targets) /\ DOMAIN batch = 1..n /\ n \in Nat /\ NoneTwice(IdsOf(batch))
    BY DEF IsBatch
  <2>2. keys \in [DOMAIN batch -> Int]
    BY <1>2, <2>1, WeightIsANumber
  <2>3. s = Ordered(batch, order)
    BY <1>2 DEF Ordered
  <2> HIDE DEF keys, s
  <2>4. s \in Seq(Targets) /\ Len(s) = n /\ \E place : IsTaken(s, batch, place)
    BY <2>1, <2>2, SortedIsAll DEF s
  <2>5. PICK place : IsTaken(s, batch, place)
    BY <2>4
  <2> HIDE DEF n
  <2>6. DOMAIN s = 1..n
    BY <2>4
  <2>7. NoneTwice(IdsOf(s))
    <3>1. /\ DOMAIN IdsOf(s) = DOMAIN s /\ DOMAIN IdsOf(batch) = DOMAIN batch
          /\ \A p \in DOMAIN s : place[p] \in DOMAIN batch /\ IdsOf(s)[p] = IdsOf(batch)[place[p]]
      BY <2>5 DEF IdsOf, IsTaken
    <3>2. \A p, q \in DOMAIN s : p # q => place[p] # place[q]
      BY <2>5 DEF IsTaken
    <3>3. \A i, j \in DOMAIN batch : IdsOf(batch)[i] = IdsOf(batch)[j] => i = j
      BY <2>1, <3>1 DEF NoneTwice
    <3> QED BY <3>1, <3>2, <3>3 DEF NoneTwice
  <2>8. \A i \in DOMAIN s : \E j \in DOMAIN batch : s[i] = batch[j]
    BY <2>1, <2>5, <2>6 DEF IsTaken
  <2> QED BY <2>3, <2>4, <2>7, <2>8 DEF IsBatch, n
<1> QED BY <1>1, <1>2

LEMMA RenderedIsAName ==
  ASSUME NEW t \in Targets, NEW pattern \in Patterns, IsUsable(pattern), NEW counter \in Int
  PROVE  Rendered(pattern, t, counter) \in Names
<1>1. t.name \in Names /\ t.group \in Groups /\ t.id \in Int
  BY TargetHasNumbers DEF Targets
<1>2. CASE pattern = "tv{n}"
  BY <1>2, SomeNames DEF Rendered, Stems
<1>3. CASE pattern = "{group}{n}"
  <2>1. Rendered(pattern, t, counter) = IF t.group = Blank THEN NoName ELSE Name(t.group, counter, FALSE)
    BY <1>3 DEF Rendered
  <2> QED BY <1>1, <2>1, SomeNames DEF Stems, Groups
<1>4. CASE pattern = "{serial:1}"
  <2>1. Rendered(pattern, t, counter) = Name(Blank, 10 + (t.id % 2), FALSE)
    BY <1>4 DEF Rendered
  <2>2. 10 + (t.id % 2) \in Int /\ Blank \in Stems
    BY <1>1 DEF Stems
  <2> QED BY <2>1, <2>2, SomeNames
<1>5. CASE pattern = "{name}"
  BY <1>1, <1>5 DEF Rendered
<1>6. CASE pattern = "tv"
  <2>1. "tv" \in Stems /\ 0 \in Int
    BY DEF Stems
  <2> QED BY <1>6, <2>1, SomeNames DEF Rendered
<1> QED BY <1>2, <1>3, <1>4, <1>5, <1>6 DEF Patterns, IsUsable

Lines == [id : Named, from : Names, to : Names, duplicate : BOOLEAN,
          status : {"skipped", "unchanged", "rename"}]

\* A plan names every box once, as it is called now, and marks the names that are taken.
PlanFits(plan, fleet) ==
  /\ \E n \in Nat : DOMAIN plan = 1..n
  /\ \A i \in DOMAIN plan :
       /\ plan[i] \in Lines /\ plan[i].id \in DOMAIN named
       /\ plan[i].status = "unchanged" => plan[i].to = named[plan[i].id].name
       /\ plan[i].duplicate <=>
            plan[i].status # "skipped" /\ TimesTaken(Key(plan[i].to), plan, fleet) > 1
  /\ \A i, j \in DOMAIN plan : plan[i].id = plan[j].id => i = j

LEMMA RowIsALine ==
  ASSUME NEW t \in Targets, NEW name \in Names
  PROVE  LET x == RowOf(t, name) IN
         x \in Lines /\ x.id = t.id /\ (x.status = "unchanged" => x.to = t.name)
<1> DEFINE status == IF name \in {NoName, TooLong} THEN "skipped"
                     ELSE IF name = t.name THEN "unchanged" ELSE "rename"
           x == RowOf(t, name)
<1>1. x = [id |-> t.id, from |-> t.name, to |-> name, duplicate |-> FALSE, status |-> status]
  BY DEF RowOf
<1>2. status \in {"skipped", "unchanged", "rename"} /\ (status = "unchanged" => name = t.name)
  OBVIOUS
<1> HIDE DEF status
<1>3. t.id \in Named /\ t.name \in Names
  BY DEF Targets
<1>4. x \in Lines
  BY <1>1, <1>2, <1>3 DEF Lines
<1>5. x.id = t.id /\ x.to = name /\ x.status = status
  BY <1>1
<1> QED BY <1>2, <1>4, <1>5

LEMMA FinishMarks ==
  ASSUME NEW lines, NEW fleet, \A i \in DOMAIN lines : lines[i] \in Lines
  PROVE  LET plan == Finish(lines, fleet) IN
         /\ DOMAIN plan = DOMAIN lines
         /\ \A i \in DOMAIN plan :
              /\ plan[i] \in Lines /\ plan[i].id = lines[i].id /\ plan[i].status = lines[i].status
              /\ plan[i].to = lines[i].to
              /\ plan[i].duplicate <=>
                   plan[i].status # "skipped" /\ TimesTaken(Key(plan[i].to), plan, fleet) > 1
<1> DEFINE plan == Finish(lines, fleet)
           mark(i) == lines[i].status # "skipped" /\ TimesTaken(Key(lines[i].to), lines, fleet) > 1
<1>1. plan = [i \in DOMAIN lines |-> [lines[i] EXCEPT !.duplicate = mark(i)]]
  BY DEF Finish
<1>2. \A i \in DOMAIN lines : mark(i) \in BOOLEAN
  OBVIOUS
<1> HIDE DEF mark, plan
<1>3. ASSUME NEW i \in DOMAIN lines
      PROVE  /\ plan[i] \in Lines /\ plan[i].id = lines[i].id /\ plan[i].status = lines[i].status
             /\ plan[i].to = lines[i].to /\ plan[i].duplicate = mark(i)
  BY <1>1, <1>2, <1>3 DEF Lines
<1>4. DOMAIN plan = DOMAIN lines
  BY <1>1
<1>5. ASSUME NEW key PROVE TimesTaken(key, plan, fleet) = TimesTaken(key, lines, fleet)
  <2>1. {b \in DOMAIN fleet : Key(fleet[b]) = key /\ \A i \in DOMAIN plan : plan[i].id # b}
         = {b \in DOMAIN fleet : Key(fleet[b]) = key /\ \A i \in DOMAIN lines : lines[i].id # b}
    BY <1>3, <1>4
  <2>2. {i \in DOMAIN plan : plan[i].status # "skipped" /\ Key(plan[i].to) = key}
         = {i \in DOMAIN lines : lines[i].status # "skipped" /\ Key(lines[i].to) = key}
    BY <1>3, <1>4
  <2> QED BY <2>1, <2>2 DEF TimesTaken
<1>6. ASSUME NEW i \in DOMAIN plan
      PROVE  plan[i].duplicate <=>
               plan[i].status # "skipped" /\ TimesTaken(Key(plan[i].to), plan, fleet) > 1
  <2>1. plan[i].duplicate = mark(i) /\ plan[i].status = lines[i].status /\ plan[i].to = lines[i].to
    BY <1>3, <1>4
  <2> QED BY <1>5, <2>1 DEF mark
<1> QED BY <1>3, <1>4, <1>6 DEF plan

LEMMA LinesMakeAPlan ==
  ASSUME RowsAreRows, NEW batch, IsBatch(batch), IsOfRows(batch), NEW fleet,
         NEW name, \A i \in DOMAIN batch : name[i] \in Names
  PROVE  PlanFits(Finish([i \in DOMAIN batch |-> RowOf(batch[i], name[i])], fleet), fleet)
<1> DEFINE lines == [i \in DOMAIN batch |-> RowOf(batch[i], name[i])]
           plan == Finish(lines, fleet)
<1>1. /\ Len(batch) \in Nat /\ DOMAIN batch = 1..Len(batch)
      /\ \A i \in DOMAIN batch : batch[i] \in Targets
  BY DEF IsBatch
<1>2. \A i \in DOMAIN batch : /\ lines[i] \in Lines /\ lines[i].id = batch[i].id
                              /\ lines[i].status = "unchanged" => lines[i].to = batch[i].name
  BY <1>1, RowIsALine
<1>3. DOMAIN lines = DOMAIN batch
  OBVIOUS
<1> HIDE DEF lines
<1>4. /\ DOMAIN plan = DOMAIN lines
      /\ \A i \in DOMAIN plan :
           /\ plan[i] \in Lines /\ plan[i].id = lines[i].id /\ plan[i].status = lines[i].status
           /\ plan[i].to = lines[i].to
           /\ plan[i].duplicate <=>
                plan[i].status # "skipped" /\ TimesTaken(Key(plan[i].to), plan, fleet) > 1
  BY <1>2, <1>3, FinishMarks
<1> HIDE DEF plan
<1>5. \A i \in DOMAIN batch : /\ batch[i].id \in DOMAIN named
                              /\ batch[i].name = named[batch[i].id].name
  BY TargetIsATarget DEF IsOfRows
<1>6. \A i, j \in DOMAIN batch : batch[i].id = batch[j].id => i = j
  BY DEF IsBatch, NoneTwice, IdsOf
<1>7. \E n \in Nat : DOMAIN plan = 1..n
  BY <1>1, <1>3, <1>4
<1>8. ASSUME NEW i \in DOMAIN plan
      PROVE  /\ plan[i] \in Lines /\ plan[i].id \in DOMAIN named
             /\ plan[i].status = "unchanged" => plan[i].to = named[plan[i].id].name
             /\ plan[i].duplicate <=>
                  plan[i].status # "skipped" /\ TimesTaken(Key(plan[i].to), plan, fleet) > 1
  BY <1>2, <1>3, <1>4, <1>5
<1>9. ASSUME NEW i \in DOMAIN plan, NEW j \in DOMAIN plan, plan[i].id = plan[j].id PROVE i = j
  BY <1>2, <1>3, <1>4, <1>6, <1>9
<1>10. PlanFits(plan, fleet)
  BY <1>7, <1>8, <1>9 DEF PlanFits
<1> QED BY <1>10 DEF plan, lines

\* What the action works out over the rows is a plan of them.
LEMMA PlansAreOfRows ==
  ASSUME RowsAreRows, NEW batch, IsBatch(batch), IsOfRows(batch), NEW fleet,
         NEW f, IsForm(f), HasPlan(f)
  PROVE  PlanFits(PlanOf(f, batch, fleet), fleet)
<1>1. CASE f.mode = "boxes"
  <2> DEFINE name == [i \in DOMAIN batch |->
                IF batch[i].id \in DOMAIN f.found THEN f.found[batch[i].id] ELSE NoName]
  <2>1. \A i \in DOMAIN batch : name[i] \in Names
    BY SomeNames DEF IsForm
  <2>2. PlanOf(f, batch, fleet) = Finish([i \in DOMAIN batch |-> RowOf(batch[i], name[i])], fleet)
    BY <1>1 DEF PlanOf, PlanFromNames
  <2> HIDE DEF name
  <2> QED BY <2>1, <2>2, LinesMakeAPlan
<1>2. CASE f.mode # "boxes"
  <2> DEFINE step == IF f.step = 0 THEN 1 ELSE f.step
             inOrder == Ordered(batch, f.order)
             name == [i \in DOMAIN inOrder |-> Rendered(f.pattern, inOrder[i], 1 + (i - 1) * step)]
  <2>1. IsUsable(f.pattern) /\ f.pattern \in Patterns /\ step \in Int /\ f.order \in Orders
    BY <1>2 DEF HasPlan, IsForm
  <2>2. /\ IsBatch(inOrder) /\ \A i \in DOMAIN inOrder : \E j \in DOMAIN batch : inOrder[i] = batch[j]
    BY <2>1, OrderedIsTheBatch
  <2>3. PlanOf(f, batch, fleet)
          = Finish([i \in DOMAIN inOrder |-> RowOf(inOrder[i], name[i])], fleet)
    BY <1>2 DEF PlanOf, PlanRename
  <2> HIDE DEF step, inOrder
  <2>4. IsOfRows(inOrder)
    BY <2>2 DEF IsOfRows
  <2>5. ASSUME NEW i \in DOMAIN inOrder PROVE name[i] \in Names
    <3>1. i \in Int /\ inOrder[i] \in Targets
      BY <2>2 DEF IsBatch
    <3>2. 1 + (i - 1) * step \in Int
      BY <2>1, <3>1
    <3> QED BY <2>1, <3>1, <3>2, RenderedIsAName
  <2> HIDE DEF name
  <2> QED BY <2>2, <2>3, <2>4, <2>5, LinesMakeAPlan
<1> QED BY <1>1, <1>2

-----------------------------------------------------------------------------
(* The marks.                                                               *)

NewName(plan, b) ==
  LET i == CHOOSE i \in DOMAIN plan : plan[i].id = b IN
  IF i \in Renamed(plan) THEN plan[i].to ELSE named[b].name
After(plan) ==
  [b \in DOMAIN named |-> IF \E i \in DOMAIN plan : plan[i].id = b THEN NewName(plan, b)
                          ELSE named[b].name]

LEMMA AfterIsAsPlanned ==
  ASSUME NEW plan, NEW fleet, PlanFits(plan, fleet), NEW i \in DOMAIN plan
  PROVE  After(plan)[plan[i].id] = IF plan[i].status = "rename" THEN plan[i].to
                                   ELSE named[plan[i].id].name
<1>1. (CHOOSE j \in DOMAIN plan : plan[j].id = plan[i].id) = i
  BY DEF PlanFits
<1>2. NewName(plan, plan[i].id) = IF plan[i].status = "rename" THEN plan[i].to
                                  ELSE named[plan[i].id].name
  BY <1>1 DEF NewName, Renamed
<1> QED BY <1>2 DEF After, PlanFits

\* A name is taken more than once exactly if another box bears it afterwards.
LEMMA MarksAreTrue ==
  ASSUME RowsAreRows, NEW plan, PlanFits(plan, FleetNames),
         NEW i \in DOMAIN plan,
         plan[i].id \notin {plan[j].id : j \in {k \in DOMAIN plan : plan[k].status = "skipped"}}
  PROVE  LET skipped == {plan[j].id : j \in {k \in DOMAIN plan : plan[k].status = "skipped"}} IN
         plan[i].duplicate <=> \E b \in DOMAIN After(plan) \ (skipped \cup {plan[i].id}) :
                                 Key(After(plan)[b]) = Key(After(plan)[plan[i].id])
<1> DEFINE skipped == {plan[j].id : j \in {k \in DOMAIN plan : plan[k].status = "skipped"}}
           key == Key(plan[i].to)
           outside == {b \in DOMAIN FleetNames :
                         Key(FleetNames[b]) = key /\ \A j \in DOMAIN plan : plan[j].id # b}
           inside == {j \in DOMAIN plan : plan[j].status # "skipped" /\ Key(plan[j].to) = key}
<1>1. plan[i].status # "skipped" /\ i \in inside
  OBVIOUS
<1>2. IsFiniteSet(outside) /\ Cardinality(outside) \in Nat /\ (Cardinality(outside) = 0 <=> outside = {})
  <2>1. outside \in SUBSET Named
    BY DEF FleetNames, RowsAreRows
  <2>2. IsFiniteSet(outside)
    BY <2>1, NamingAssumption, FS_Subset
  <2> HIDE DEF outside
  <2> QED BY <2>2, FS_CardinalityType, FS_EmptySet
<1>3. /\ IsFiniteSet(inside) /\ Cardinality(inside) \in Nat /\ Cardinality(inside) >= 1
      /\ Cardinality(inside) = 1 <=> inside = {i}
  <2>1. PICK n \in Nat : DOMAIN plan = 1..n
    BY DEF PlanFits
  <2>2. IsFiniteSet(1..n)
    BY <2>1, FS_Interval
  <2>3. inside \in SUBSET (1..n)
    BY <2>1
  <2>4. IsFiniteSet(inside)
    BY <2>2, <2>3, FS_Subset
  <2> HIDE DEF inside
  <2>5. Cardinality(inside) \in Nat /\ Cardinality(inside) # 0
    BY <1>1, <2>4, FS_CardinalityType, FS_EmptySet
  <2>6. Cardinality(inside) = 1 <=> \E x : inside = {x}
    BY <2>4, FS_Singleton
  <2> QED BY <1>1, <2>4, <2>5, <2>6
<1>4. plan[i].duplicate <=> Cardinality(outside) + Cardinality(inside) > 1
  BY <1>1 DEF PlanFits, TimesTaken
<1>5. plan[i].duplicate <=> outside # {} \/ inside # {i}
  <2> HIDE DEF outside, inside
  <2> QED BY <1>2, <1>3, <1>4
<1>6. \A j \in DOMAIN plan :
        /\ plan[j].id \in DOMAIN named
        /\ plan[j].status # "skipped" => After(plan)[plan[j].id] = plan[j].to
  <2> TAKE j \in DOMAIN plan
  <2>1. plan[j] \in Lines /\ plan[j].id \in DOMAIN named
    BY DEF PlanFits
  <2>2. plan[j].status \in {"skipped", "unchanged", "rename"}
    BY <2>1 DEF Lines
  <2>3. plan[j].status = "unchanged" => plan[j].to = named[plan[j].id].name
    BY DEF PlanFits
  <2>4. After(plan)[plan[j].id] = IF plan[j].status = "rename" THEN plan[j].to
                                  ELSE named[plan[j].id].name
    BY AfterIsAsPlanned
  <2> QED BY <2>1, <2>2, <2>3, <2>4
<1>7. \A b \in DOMAIN named : (\A j \in DOMAIN plan : plan[j].id # b) =>
                               After(plan)[b] = named[b].name /\ FleetNames[b] = named[b].name
  BY DEF After, FleetNames
<1>8. DOMAIN After(plan) = DOMAIN named /\ DOMAIN FleetNames = DOMAIN named
  BY DEF After, FleetNames
<1>9. Key(After(plan)[plan[i].id]) = key
  BY <1>1, <1>6
<1>10. ASSUME outside # {} \/ inside # {i}
       PROVE  \E b \in DOMAIN named \ (skipped \cup {plan[i].id}) : Key(After(plan)[b]) = key
  <2>1. CASE outside # {}
    <3>1. PICK b \in outside : TRUE
      BY <2>1
    <3>2. b \in DOMAIN named \ (skipped \cup {plan[i].id}) /\ Key(After(plan)[b]) = key
      BY <1>7, <1>8, <3>1
    <3> QED BY <3>2
  <2>2. CASE inside # {i}
    <3>1. PICK j \in inside : j # i
      BY <1>1, <2>2
    <3>2. plan[j].id # plan[i].id /\ plan[j].id \notin skipped
      BY <3>1 DEF PlanFits
    <3> QED BY <1>6, <3>1, <3>2
  <2> QED BY <1>10, <2>1, <2>2
<1>11. ASSUME NEW b \in DOMAIN named \ (skipped \cup {plan[i].id}), Key(After(plan)[b]) = key
       PROVE  outside # {} \/ inside # {i}
  <2>1. CASE \A j \in DOMAIN plan : plan[j].id # b
    BY <1>7, <1>8, <1>11, <2>1
  <2>2. ASSUME NEW j \in DOMAIN plan, plan[j].id = b PROVE j \in inside /\ j # i
    <3>1. plan[j].status # "skipped"
      BY <1>11, <2>2
    <3> QED BY <1>6, <1>11, <2>2, <3>1
  <2> QED BY <2>1, <2>2
<1> HIDE DEF outside, inside
<1> QED BY <1>5, <1>8, <1>9, <1>10, <1>11

-----------------------------------------------------------------------------
(* The steps of the dialog.                                                 *)

LEMMA SendingRests ==
  ASSUME NamingKept, UNCHANGED <<named, sending, touched>>
  PROVE  SendingFits' /\ DOMAIN sending' = DOMAIN NoSend
<1>1. SendingFits /\ DOMAIN sending = DOMAIN NoSend
  BY DEF NamingKept
<1>2. FleetNames' = FleetNames /\ (\A b : TargetOf(b)' = TargetOf(b))
  BY DEF FleetNames, TargetOf
<1>3. IsFresh(sending.form)' <=> IsFresh(sending.form)
  BY <1>2 DEF IsFresh, IsOfRows
<1> QED BY <1>1, <1>3 DEF SendingFits

LEMMA SendingOthers ==
  ASSUME sending'.what # "rename"
  PROVE  SendingFits'
BY DEF SendingFits

LEMMA NotOpenIsAForm == IsForm(NotOpen) /\ ~NotOpen.loaded
<1>1. /\ NotOpen.source = <<>> /\ NotOpen.batch = <<>> /\ NotOpen.found = <<>> /\ ~NotOpen.loaded
      /\ NotOpen.order = "table" /\ NotOpen.step = 1 /\ NotOpen.pattern = Blank
  BY DEF NotOpen
<1>2. IsBatch(<<>>) /\ DOMAIN <<>> = {} /\ <<>> \in Seq(Named) /\ NoneTwice(<<>>)
  BY DEF IsBatch, NoneTwice, IdsOf
<1>3. "table" \in Orders /\ Blank \in Patterns
  BY DEF Orders, Patterns
<1> QED BY <1>1, <1>2, <1>3 DEF IsForm

\* A step that leaves the rows alone leaves what is fresh fresh.
LEMMA DialogsAreOpened ==
  ASSUME NamingKept,
         (\E ids \in Selections : Opens(ids)) \/ Loads \/ Closes
  PROVE  NamingKept'
<1>1. CASE \E ids \in Selections : Opens(ids)
  <2>1. PICK ids \in Selections : Opens(ids)
    BY <1>1
  <2>2. ids \in Seq(Named) /\ NoneTwice(ids)
    <3>1. PICK n \in 1..2 : ids \in [1..n -> Named] /\ \A i, j \in 1..n : ids[i] = ids[j] => i = j
      BY DEF Selections
    <3> QED BY <3>1 DEF NoneTwice
  <2>3. /\ DOMAIN dialog' = DOMAIN NotOpen /\ dialog'.source = ids /\ ~dialog'.loaded
        /\ dialog'.batch = <<>> /\ dialog'.found = <<>>
        /\ dialog'.order = dialog.order /\ dialog'.step = dialog.step
        /\ dialog'.pattern = dialog.pattern
    BY <2>1 DEF Opens, NamingKept, IsForm, NotOpen
  <2>4. IsBatch(<<>>) /\ DOMAIN <<>> = {}
    BY DEF IsBatch, NoneTwice, IdsOf
  <2>5. IsForm(dialog)' /\ IsFresh(dialog)'
    BY <2>2, <2>3, <2>4 DEF NamingKept, IsForm, IsFresh
  <2>6. DOMAIN sending' = DOMAIN NoSend /\ sending'.what = "load"
    BY <2>1 DEF Opens, NoSend
  <2>7. UNCHANGED <<named, onBox, touched, applied>>
    BY <2>1 DEF Opens
  <2> QED BY <2>5, <2>6, <2>7, SendingOthers DEF NamingKept, RowsAreRows, PreviewIsWritten
<1>2. CASE Loads
  <2> DEFINE there == TargetsInOrder(dialog.source)
  <2>1. IsBatch(there) /\ IsOfRows(there)
    BY TargetsAreRows DEF NamingKept, IsForm
  <2> HIDE DEF there
  <2>2. /\ DOMAIN dialog' = DOMAIN NotOpen /\ dialog'.source = dialog.source
        /\ dialog'.batch = there /\ dialog'.fleet = FleetNames /\ dialog'.found = dialog.found
        /\ dialog'.order = dialog.order /\ dialog'.step = dialog.step
        /\ dialog'.pattern = dialog.pattern
    BY <1>2 DEF Loads, NamingKept, IsForm, NotOpen, there
  <2>3. UNCHANGED <<named, onBox, applied>>
    BY <1>2 DEF Loads
  <2>4. IsForm(dialog)' /\ IsFresh(dialog)'
    BY <2>1, <2>2, <2>3 DEF NamingKept, IsForm, IsFresh, IsOfRows, FleetNames, TargetOf
  <2>5. DOMAIN sending' = DOMAIN NoSend /\ sending'.what = "none"
    BY <1>2 DEF Loads, NoSend
  <2> QED BY <2>3, <2>4, <2>5, SendingOthers DEF NamingKept, RowsAreRows, PreviewIsWritten
<1>3. CASE Closes
  <2>1. dialog' = NotOpen /\ UNCHANGED <<named, onBox, touched, applied>>
    BY <1>3 DEF Closes
  <2>2. IsForm(NotOpen) /\ ~NotOpen.loaded
    BY NotOpenIsAForm
  <2>3. IsForm(dialog)' /\ IsFresh(dialog)'
    BY <2>1, <2>2 DEF IsFresh, IsForm
  <2>4. sending' = NoSend \/ sending' = sending
    BY <1>3 DEF Closes
  <2>5. DOMAIN NoSend = DOMAIN NoSend /\ NoSend.what = "none"
    BY DEF NoSend
  <2>6. SendingFits' /\ DOMAIN sending' = DOMAIN NoSend
    BY <2>1, <2>4, <2>5, SendingRests, SendingOthers
  <2> QED BY <2>1, <2>3, <2>6 DEF NamingKept, RowsAreRows, PreviewIsWritten
<1> QED BY <1>1, <1>2, <1>3

\* What is typed and read changes neither the batch nor the names of the fleet.
LEMMA DialogsAreFilled ==
  ASSUME NamingKept,
         \/ \E mode \in {"pattern", "boxes"}, pattern \in Patterns, order \in Orders, step \in {0, 2} :
              Fills(mode, pattern, order, step)
         \/ \E silent \in SUBSET Named : Reads(silent)
  PROVE  NamingKept'
<1> DEFINE same == /\ DOMAIN dialog' = DOMAIN NotOpen /\ dialog'.source = dialog.source
                   /\ dialog'.batch = dialog.batch /\ dialog'.fleet = dialog.fleet
                   /\ dialog'.loaded = dialog.loaded
                   /\ UNCHANGED <<named, onBox, sending, touched, applied>>
           types == /\ dialog'.order \in Orders /\ dialog'.step \in Int /\ dialog'.pattern \in Patterns
                    /\ \A b \in DOMAIN dialog'.found : dialog'.found[b] \in Names
<1>0. /\ DOMAIN dialog = DOMAIN NotOpen
      /\ dialog.order \in Orders /\ dialog.step \in Int /\ dialog.pattern \in Patterns
      /\ \A b \in DOMAIN dialog.found : dialog.found[b] \in Names
  BY DEF NamingKept, IsForm
<1>1. ASSUME NEW mode, NEW pattern \in Patterns, NEW order \in Orders, NEW step \in {0, 2},
             Fills(mode, pattern, order, step)
      PROVE  same /\ types
  <2>1. dialog' = [dialog EXCEPT !.mode = mode, !.pattern = pattern, !.order = order, !.step = step]
    BY <1>1 DEF Fills
  <2>2. UNCHANGED <<named, onBox, sending, touched, applied>>
    BY <1>1 DEF Fills
  <2>3. /\ dialog'.order = order /\ dialog'.step = step /\ dialog'.pattern = pattern
        /\ dialog'.found = dialog.found /\ same
    BY <1>0, <2>1, <2>2 DEF NotOpen
  <2> QED BY <1>0, <2>3
<1>2. ASSUME NEW silent \in SUBSET Named, Reads(silent) PROVE same /\ types
  <2> DEFINE D == {dialog.batch[i].id : i \in DOMAIN dialog.batch} \cap DOMAIN named
             found == [b \in D |-> IF b \in silent \/ named[b].group = Blank THEN NoName ELSE onBox[b]]
  <2>1. dialog' = [dialog EXCEPT !.found = found]
    BY <1>2 DEF Reads
  <2>2. UNCHANGED <<named, onBox, sending, touched, applied>>
    BY <1>2 DEF Reads
  <2>3. D \subseteq Named /\ onBox \in [Named -> Names]
    BY DEF NamingKept, RowsAreRows
  <2>4. \A b \in DOMAIN found : found[b] \in Names
    <3> HIDE DEF D
    <3> QED BY <2>3, SomeNames
  <2> HIDE DEF found
  <2>5. /\ dialog'.order = dialog.order /\ dialog'.step = dialog.step
        /\ dialog'.pattern = dialog.pattern /\ dialog'.found = found /\ same
    BY <1>0, <2>1, <2>2 DEF NotOpen
  <2> QED BY <1>0, <2>4, <2>5
<1>3. same /\ types
  BY <1>1, <1>2
<1>4. IsForm(dialog)'
  BY <1>3 DEF NamingKept, IsForm
<1>5. IsFresh(dialog)'
  BY <1>3 DEF NamingKept, IsFresh, IsOfRows, FleetNames, TargetOf
<1> QED BY <1>3, <1>4, <1>5, SendingRests DEF NamingKept, RowsAreRows, PreviewIsWritten

LEMMA AppliesKeepNaming ==
  ASSUME NamingKept, Applies
  PROVE  NamingKept'
<1> DEFINE plan == PlanOf(dialog, dialog.batch, dialog.fleet)
<1>1. /\ sending' = [what |-> "rename", ids |-> IdsOf(dialog.batch), preview |-> plan, form |-> dialog]
      /\ HasPlan(dialog) /\ UNCHANGED <<named, onBox, dialog, touched, applied>>
  BY DEF Applies, IdsOf
<1> HIDE DEF plan
<1>2. /\ sending'.form = dialog /\ sending'.ids = IdsOf(dialog.batch) /\ sending'.preview = plan
      /\ DOMAIN sending' = DOMAIN NoSend
  BY <1>1 DEF NoSend
<1>3. IsForm(dialog) /\ IsFresh(dialog) /\ IsFresh(dialog)'
  BY <1>1 DEF NamingKept, IsFresh, IsOfRows, FleetNames, TargetOf
<1>4. SendingFits'
  BY <1>1, <1>2, <1>3 DEF SendingFits, IsFresh, plan
<1> QED BY <1>1, <1>2, <1>3, <1>4 DEF NamingKept, RowsAreRows, PreviewIsWritten, IsForm

\* A box that is changed beside the dialog takes what was shown off what is promised.
LEMMA MeddlesKeepNaming ==
  ASSUME NamingKept, NEW b \in Named, NEW entry \in {NoName} \cup [name : {Tv(FALSE)}, group : {"g"}],
         Meddles(b, entry)
  PROVE  NamingKept'
<1>1. /\ named' = IF entry = NoName THEN [c \in DOMAIN named \ {b} |-> named[c]]
                  ELSE [named EXCEPT ![b] = entry]
      /\ touched' # {} /\ UNCHANGED <<onBox, dialog, sending, applied>>
  BY DEF Meddles
<1>2. RowsAreRows'
  <2>1. RowsAreRows
    BY DEF NamingKept
  <2>2. CASE entry = NoName
    BY <1>1, <2>1, <2>2 DEF RowsAreRows
  <2>3. CASE entry # NoName
    <3>1. entry \in Rows
      BY <2>3, SomeNames DEF Rows, Groups
    <3>2. named' = [named EXCEPT ![b] = entry]
      BY <1>1, <2>3
    <3> QED BY <2>1, <3>1, <3>2 DEF RowsAreRows
  <2> QED BY <2>2, <2>3
<1>3. IsForm(dialog)' /\ IsFresh(dialog)'
  BY <1>1 DEF NamingKept, IsFresh, IsForm
<1>4. SendingFits'
  BY <1>1 DEF NamingKept, SendingFits, IsFresh
<1> QED BY <1>1, <1>2, <1>3, <1>4 DEF NamingKept, PreviewIsWritten

\* The action works out the plan that was shown, and writes it.
LEMMA RenamesKeepNaming ==
  ASSUME NamingKept, Renames
  PROVE  NamingKept'
<1> DEFINE f == sending.form
           batch == TargetsInOrder(sending.ids)
           plan == PlanOf(f, batch, FleetNames)
           done == Len(batch) = Len(sending.ids) /\ Renamed(plan) # {}
<1>1. /\ RowsAreRows /\ IsForm(f) /\ IsFresh(f) /\ HasPlan(f) /\ sending.ids = IdsOf(f.batch)
      /\ sending.preview = PlanOf(f, f.batch, f.fleet)
  BY DEF NamingKept, SendingFits, Renames
<1>2. sending' = NoSend /\ NoSend.what = "none" /\ UNCHANGED <<onBox, touched>>
  BY DEF Renames, NoSend
<1>3. IsBatch(batch) /\ IsOfRows(batch)
  <2>1. sending.ids \in Seq(Named) /\ NoneTwice(sending.ids)
    <3>1. f.batch \in Seq(Targets) /\ NoneTwice(IdsOf(f.batch))
      BY <1>1 DEF IsForm, IsBatch
    <3>2. ASSUME NEW i \in DOMAIN f.batch PROVE f.batch[i].id \in Named
      <4>1. f.batch[i] \in Targets
        BY <3>1
      <4> QED BY <4>1 DEF Targets
    <3>3. Len(f.batch) \in Nat /\ DOMAIN f.batch = 1..Len(f.batch)
      BY <3>1
    <3>4. IdsOf(f.batch) \in Seq(Named)
      BY <3>2, <3>3 DEF IdsOf
    <3> QED BY <1>1, <3>1, <3>4
  <2> QED BY <1>1, <2>1, TargetsAreRows
<1>4. PlanFits(plan, FleetNames)
  BY <1>1, <1>3, PlansAreOfRows
<1>5. touched = {} => plan = sending.preview
  <2> SUFFICES ASSUME touched = {} PROVE plan = sending.preview
    OBVIOUS
  <2>1. f.fleet = FleetNames /\ IsOfRows(f.batch) /\ IsBatch(f.batch)
    BY <1>1 DEF IsFresh, HasPlan, IsForm
  <2>2. batch = f.batch
    BY <1>1, <2>1, TargetsAgain
  <2> QED BY <1>1, <2>1, <2>2
<1> HIDE DEF plan, batch
<1>6. CASE ~done
  <2>1. UNCHANGED <<named, applied, dialog>>
    BY <1>6 DEF Renames, plan, batch
  <2>2. IsFresh(dialog)'
    BY <1>2, <2>1 DEF NamingKept, IsFresh, IsOfRows, FleetNames, TargetOf
  <2>3. IsForm(dialog)'
    BY <2>1 DEF NamingKept, IsForm
  <2> QED BY <1>2, <2>1, <2>2, <2>3, SendingOthers DEF NamingKept, RowsAreRows, PreviewIsWritten
<1>7. CASE done
  <2>1. /\ named' = [b \in DOMAIN named |-> [named[b] EXCEPT !.name = After(plan)[b]]]
        /\ applied' = [preview |-> sending.preview, written |-> plan, after |-> After(plan),
                       clean |-> touched = {}]
        /\ dialog' = NotOpen
    BY <1>7 DEF Renames, plan, batch, After, NewName
  <2>2. \A b \in DOMAIN named : After(plan)[b] \in Names
    <3>1. ASSUME NEW b \in DOMAIN named PROVE named[b].name \in Names
      BY <1>1 DEF RowsAreRows, Rows
    <3>2. ASSUME NEW i \in DOMAIN plan PROVE plan[i].to \in Names /\ plan[i].id \in DOMAIN named
      BY <1>4 DEF PlanFits, Lines
    <3>3. ASSUME NEW i \in DOMAIN plan PROVE After(plan)[plan[i].id] \in Names
      BY <1>4, <3>1, <3>2, AfterIsAsPlanned
    <3> QED BY <3>1, <3>3 DEF After
  <2>3. RowsAreRows'
    <3>1. \A b \in DOMAIN named : [named[b] EXCEPT !.name = After(plan)[b]] \in Rows
      BY <1>1, <2>2 DEF RowsAreRows, Rows
    <3> QED BY <1>1, <2>1, <3>1 DEF RowsAreRows
  <2>4. IsForm(dialog)' /\ IsFresh(dialog)'
    BY <2>1, NotOpenIsAForm DEF IsForm, IsFresh
  <2>5. PreviewIsWritten'
    <3>1. /\ applied'.written = plan /\ applied'.preview = sending.preview
          /\ applied'.after = After(plan) /\ applied'.clean = (touched = {})
      BY <2>1
    <3> DEFINE skipped == {plan[j].id : j \in {k \in DOMAIN plan : plan[k].status = "skipped"}}
    <3>2. \A i \in DOMAIN plan : plan[i].id \notin skipped =>
            (plan[i].duplicate <=> \E b \in DOMAIN After(plan) \ (skipped \cup {plan[i].id}) :
                                     Key(After(plan)[b]) = Key(After(plan)[plan[i].id]))
      BY <1>1, <1>4, MarksAreTrue
    <3>3. ASSUME touched = {}
          PROVE  /\ applied'.written = applied'.preview
                 /\ \A i \in DOMAIN applied'.written : applied'.written[i].id \notin skipped =>
                      (applied'.written[i].duplicate <=>
                         \E b \in DOMAIN applied'.after \ (skipped \cup {applied'.written[i].id}) :
                           Key(applied'.after[b]) = Key(applied'.after[applied'.written[i].id]))
      BY <1>5, <3>1, <3>2, <3>3
    <3>4. skipped = {applied'.written[j].id : j \in {k \in DOMAIN applied'.written :
                                                      applied'.written[k].status = "skipped"}}
      BY <3>1
    <3> HIDE DEF skipped
    <3> QED BY <3>1, <3>3, <3>4 DEF PreviewIsWritten
  <2> QED BY <1>2, <2>3, <2>4, <2>5, SendingOthers DEF NamingKept
<1> QED BY <1>6, <1>7

\* Any number of boxes under any names, loaded, planned and renamed while others are
\* changed beside: what is written is what was shown, and what it marks is so.
THEOREM PreviewsAreWritten == NamingSpec => []PreviewIsWritten
<1>1. NamingInit => NamingKept
  <2> SUFFICES ASSUME NamingInit PROVE NamingKept
    OBVIOUS
  <2>1. \E taken \in {{}, {2}, {1, 3}} \cap SUBSET Named, alone \in SUBSET (Named \cap {2}) :
          named = [b \in Named |->
            [name |-> IF b \in taken THEN Tv(b = 3) ELSE Name("a", 10 - b, FALSE),
             group |-> IF b \in alone THEN Blank ELSE "g"]]
    BY Zenon DEF NamingInit
  <2>2. ASSUME NEW b \in Named PROVE named[b] \in Rows
    <3>1. b \in Int /\ 10 - b \in Int
      BY NamingAssumption
    <3>2. Name("a", 10 - b, FALSE) \in Names /\ Tv(b = 3) \in Names
      BY <3>1, SomeNames DEF Stems
    <3>3. PICK name \in Names, group \in Groups : named[b] = [name |-> name, group |-> group]
      BY <2>1, <3>2 DEF Groups
    <3> QED BY <3>3 DEF Rows
  <2>3. RowsAreRows
    BY <2>1, <2>2 DEF RowsAreRows
  <2>4. onBox \in [Named -> Names]
    BY SomeNames DEF NamingInit
  <2>5. dialog = NotOpen /\ sending = NoSend /\ ~applied.clean /\ NoSend.what = "none"
    BY DEF NamingInit, NotApplied, NoSend
  <2> QED BY <2>3, <2>4, <2>5, NotOpenIsAForm
       DEF NamingKept, SendingFits, PreviewIsWritten, IsFresh
<1>2. NamingKept /\ [NamingNext]_namingVars => NamingKept'
  <2>1. ASSUME NamingKept, UNCHANGED namingVars PROVE NamingKept'
    <3>1. UNCHANGED <<named, onBox, dialog, sending, touched, applied>>
      BY <2>1 DEF namingVars
    <3>2. IsForm(dialog)' /\ IsFresh(dialog)'
      BY <2>1, <3>1 DEF NamingKept, IsForm, IsFresh, IsOfRows, FleetNames, TargetOf
    <3> QED BY <2>1, <3>1, <3>2, SendingRests DEF NamingKept, RowsAreRows, PreviewIsWritten
  <2> QED BY <2>1, DialogsAreOpened, DialogsAreFilled, AppliesKeepNaming, MeddlesKeepNaming,
             RenamesKeepNaming DEF NamingNext
<1>3. NamingKept => PreviewIsWritten
  BY DEF NamingKept
<1> QED BY <1>1, <1>2, <1>3, PTL DEF NamingSpec

-----------------------------------------------------------------------------
(* What is defined by a step from each number to the next. *)

Below == {p \in Nat \X Nat : p[1] < p[2]}
LEMMA BelowIsWellFounded == IsWellFoundedOn(Below, Nat)
  BY NatLessThanWellFounded, Zenon DEF OpToRel, Below

\* A set of numbers has a least one.
LEMMA LeastOfMany ==
  ASSUME NEW T, T \subseteq Nat, T # {}
  PROVE  \E m \in T : \A n \in T : m <= n
<1>1. PICK x \in T : \A y \in T : ~(<<y, x>> \in Below)
  BY BelowIsWellFounded, WFMin
<1>2. x \in Nat /\ \A y \in T : y \in Nat
  OBVIOUS
<1>3. \A y \in T : <<y, x>> \in Nat \X Nat
  BY <1>2
<1>4. \A y \in T : ~(y < x)
  BY <1>1, <1>3 DEF Below
<1> QED BY <1>2, <1>4

\* What holds at the start and is passed on holds up to the end.
LEMMA Onward ==
  ASSUME NEW n \in Nat, NEW S, 0 \in S, \A i \in 1..n : i - 1 \in S => i \in S
  PROVE  \A i \in 0..n : i \in S
<1> DEFINE T == {i \in 0..n : i \notin S}
<1>1. SUFFICES ASSUME T # {} PROVE FALSE
  OBVIOUS
<1>2. PICK m \in T : \A i \in T : m <= i
  <2>1. T \subseteq Nat
    OBVIOUS
  <2> HIDE DEF T
  <2> QED BY <1>1, <2>1, LeastOfMany
<1>3. m \in 1..n /\ m - 1 \in 0..n /\ m - 1 \notin T
  BY <1>2
<1> QED BY <1>2, <1>3

IsBuilt(f, n, a, step) == f[0] = a /\ \A i \in 1..n : f[i] = step[i][f[i - 1]]

\* A function may be defined by a step from each number to the next.
LEMMA Recursion ==
  ASSUME NEW n \in Nat, NEW D, NEW a \in D, NEW step \in [1..n -> [D -> D]]
  PROVE  \E f \in [0..n -> D] : IsBuilt(f, n, a, step)
<1> DEFINE Begun(k, f) == f \in [0..k -> D] /\ f[0] = a /\ \A i \in 1..k : f[i] = step[i][f[i - 1]]
           S == {k \in 0..n : \E f : Begun(k, f)}
<1>1. 0 \in S
  <2>1. Begun(0, [i \in 0..0 |-> a])
    OBVIOUS
  <2> HIDE DEF Begun
  <2>2. \E f : Begun(0, f)
    BY <2>1
  <2> QED BY <2>2
<1>2. ASSUME NEW k \in 1..n, k - 1 \in S PROVE k \in S
  <2>1. PICK f : Begun(k - 1, f)
    BY <1>2
  <2> DEFINE g == [i \in 0..k |-> IF i < k THEN f[i] ELSE step[k][f[k - 1]]]
  <2>2. k - 1 \in 0..(k - 1) /\ f[k - 1] \in D /\ step[k] \in [D -> D]
    BY <2>1
  <2>3. step[k][f[k - 1]] \in D
    BY <2>2
  <2>4. \A i \in 0..k : i < k => i \in 0..(k - 1) /\ g[i] = f[i]
    OBVIOUS
  <2>5. g \in [0..k -> D]
    BY <2>1, <2>3
  <2>6. g[0] = a
    BY <2>1, <2>4
  <2>7. ASSUME NEW i \in 1..k PROVE g[i] = step[i][g[i - 1]]
    <3>1. i - 1 \in 0..k /\ i - 1 < k
      OBVIOUS
    <3>2. g[i - 1] = f[i - 1]
      BY <3>1, <2>4
    <3>3. CASE i < k
      BY <3>2, <3>3, <2>1, <2>4
    <3>4. CASE i = k
      <4>1. g[k] = step[k][f[k - 1]]
        OBVIOUS
      <4> HIDE DEF g
      <4> QED BY <3>2, <3>4, <4>1
    <3> QED BY <3>3, <3>4
  <2>8. Begun(k, g)
    BY <2>5, <2>6, <2>7
  <2> HIDE DEF Begun
  <2>9. \E h : Begun(k, h)
    BY <2>8
  <2> QED BY <2>9
<1>3. n \in S
  <2> HIDE DEF S
  <2>1. 0 \in S /\ \A i \in 1..n : i - 1 \in S => i \in S
    BY <1>1, <1>2
  <2>2. \A i \in 0..n : i \in S
    BY <2>1, Onward
  <2> QED BY <2>2
<1> QED BY <1>3 DEF IsBuilt

\* The sums of the first so many.
LEMMA SumsAreSteps ==
  ASSUME NEW v \in Seq(Int)
  PROVE  /\ Sums(v) \in [0..Len(v) -> Int] /\ Sums(v)[0] = 0
         /\ \A i \in 1..Len(v) : Sums(v)[i] = Sums(v)[i - 1] + v[i]
<1> DEFINE n == Len(v)
           step == [i \in 1..n |-> [x \in Int |-> x + v[i]]]
           f == Sums(v)
<1>1. n \in Nat /\ \A i \in 1..n : v[i] \in Int
  OBVIOUS
<1>2. step \in [1..n -> [Int -> Int]]
  BY <1>1
<1>3. PICK g \in [0..n -> Int] : g[0] = 0 /\ \A i \in 1..n : g[i] = step[i][g[i - 1]]
  <2> DEFINE D == Int  a == 0
  <2>1. n \in Nat /\ a \in D /\ step \in [1..n -> [D -> D]]
    BY <1>1, <1>2
  <2> HIDE DEF step, n, D, a
  <2>2. \E g \in [0..n -> D] : IsBuilt(g, n, a, step)
    BY <2>1, Recursion
  <2> QED BY <2>2 DEF IsBuilt, D, a
<1>4. ASSUME NEW i \in 1..n PROVE i - 1 \in 0..n /\ g[i] = g[i - 1] + v[i]
  <2>1. i - 1 \in 0..n /\ g[i - 1] \in Int
    <3> HIDE DEF n
    <3>1. i - 1 \in 0..n
      BY <1>1
    <3> QED BY <3>1, <1>3
  <2>2. step[i][g[i - 1]] = g[i - 1] + v[i]
    BY <2>1
  <2> HIDE DEF step
  <2> QED BY <1>3, <2>1, <2>2
<1>5. g = [i \in 0..n |-> IF i = 0 THEN 0 ELSE g[i - 1] + v[i]]
  <2> HIDE DEF step
  <2> QED BY <1>1, <1>3, <1>4
<1>6. f = [i \in 0..n |-> IF i = 0 THEN 0 ELSE f[i - 1] + v[i]]
  BY <1>5 DEF Sums
<1> HIDE DEF f, step
<1>7. /\ DOMAIN f = 0..n /\ f[0] = 0
      /\ \A i \in 1..n : i \in 0..n /\ i - 1 \in 0..n /\ f[i] = f[i - 1] + v[i]
  <2> HIDE DEF n
  <2>1. \A i \in 0..n : f[i] = IF i = 0 THEN 0 ELSE f[i - 1] + v[i]
    BY <1>6
  <2>2. 0 \in 0..n /\ \A i \in 1..n : i \in 0..n /\ i - 1 \in 0..n /\ i # 0
    BY <1>1
  <2> QED BY <1>6, <2>1, <2>2
<1>8. \A i \in 0..n : f[i] \in Int
  <2> DEFINE S == {j \in 0..n : f[j] \in Int}
  <2>1. 0 \in S /\ \A i \in 1..n : i - 1 \in S => i \in S
    BY <1>1, <1>7
  <2> HIDE DEF S, n
  <2>2. \A i \in 0..n : i \in S
    BY <1>1, <2>1, Onward
  <2> QED BY <2>2 DEF S
<1>9. f \in [0..n -> Int]
  BY <1>6, <1>8
<1> QED BY <1>7, <1>9 DEF f

-----------------------------------------------------------------------------
(* The grid of a chart, its points and the figures beside it. *)

LEMMA DivBounds ==
  ASSUME NEW a \in Int, NEW b \in Nat, b > 0
  PROVE  a \div b \in Int /\ b * (a \div b) <= a /\ a < b * (a \div b) + b
OBVIOUS

LEMMA LessByFactor ==
  ASSUME NEW a \in Int, NEW b \in Int, NEW c \in Nat, c > 0, c * a < c * b
  PROVE  a < b
OBVIOUS

\* A window is cut into buckets (metrics.ts:178, rotom-trend.ts:157): at most 220, none
\* narrower than the samples are apart, enough of them for the window; and every moment
\* of it falls into the bucket it belongs to, none being clamped.
THEOREM GridCoversTheWindow ==
  ASSUME NEW span \in Nat, span > 0, NEW every \in Nat, NEW from \in Int,
         NEW at \in Int, from <= at, at < from + span
  PROVE  LET w == Width(span, every)
             n == BucketCount(span, every)
             b == BucketOf(at, from, w, n)
         IN /\ w \in Nat /\ w >= every /\ w >= Second
            /\ n \in 1..TargetBuckets /\ span <= w * n
            /\ b \in 1..n /\ w * (b - 1) <= at - from /\ at - from < w * b
<1> DEFINE w == Width(span, every)
           n == BucketCount(span, every)
           q == (at - from) \div w
           m == RoundUp(span, w)
<1>1. w \in Nat /\ w >= every /\ w >= Second /\ w > 0 /\ span <= TargetBuckets * w
  BY DEF Width, Greater, RoundUp, Second, TargetBuckets
<1>2. n = Greater(1, m)
  BY DEF BucketCount
<1> HIDE DEF w, n
<1>3. m \in Int /\ w * m <= span + w - 1 /\ span + w - 1 < w * m + w
  BY <1>1, DivBounds DEF RoundUp
<1> HIDE DEF m
<1>4. m > 0
  <2>1. w * 0 < w * m
    BY <1>1, <1>3
  <2> QED BY <1>1, <1>3, <2>1, LessByFactor
<1>5. m < TargetBuckets + 1
  <2>1. w * m < w * (TargetBuckets + 1)
    BY <1>1, <1>3 DEF TargetBuckets
  <2> QED BY <1>1, <1>3, <2>1, LessByFactor DEF TargetBuckets
<1>6. n = m /\ n \in 1..TargetBuckets /\ span <= w * n
  BY <1>1, <1>2, <1>3, <1>4, <1>5 DEF Greater, TargetBuckets
<1>7. q \in Int /\ w * q <= at - from /\ at - from < w * q + w
  BY <1>1, DivBounds
<1> HIDE DEF q
<1>8. q >= 0
  <2>1. w * 0 < w * (q + 1)
    BY <1>1, <1>7
  <2>2. 0 < q + 1
    BY <1>1, <1>7, <2>1, LessByFactor
  <2> QED BY <1>7, <2>2
<1>9. q < n
  <2>1. w * q < w * n
    BY <1>1, <1>6, <1>7
  <2> QED BY <1>1, <1>6, <1>7, <2>1, LessByFactor
<1>10. BucketOf(at, from, w, n) = 1 + q
  BY <1>6, <1>7, <1>8, <1>9 DEF BucketOf, Greater, Lesser, q
<1>11. /\ 1 + q \in 1..n /\ 1 + q - 1 = q
       /\ w * (1 + q) = w * q + w
  BY <1>1, <1>6, <1>7, <1>8, <1>9
<1> DEFINE b == BucketOf(at, from, w, n)
<1>12. b \in 1..n /\ w * (b - 1) <= at - from /\ at - from < w * b
  <2>1. b = 1 + q
    BY <1>10
  <2> HIDE DEF b
  <2>2. b \in 1..n /\ b - 1 = q /\ w * b = w * q + w
    BY <2>1, <1>1, <1>6, <1>7, <1>11
  <2>3. w * (b - 1) = w * q
    BY <2>2
  <2> QED BY <2>2, <2>3, <1>7
<1>13. /\ w \in Nat /\ w >= every /\ w >= Second
       /\ n \in 1..TargetBuckets /\ span <= w * n
       /\ b \in 1..n /\ w * (b - 1) <= at - from /\ at - from < w * b
  BY <1>1, <1>6, <1>12
<1> QED BY <1>13, Zenon DEF w, n

\* The sum of so many numbers that are at least c; and of so many that are at most c.
LEMMA SumsAreBounded ==
  ASSUME NEW v \in Seq(Int), NEW c \in Int
  PROVE  /\ (\A i \in 1..Len(v) : v[i] >= c) => Total(v) >= Len(v) * c
         /\ (\A i \in 1..Len(v) : v[i] <= c) => Total(v) <= Len(v) * c
<1> DEFINE n == Len(v)  f == Sums(v)
<1>1. /\ n \in Nat /\ f \in [0..n -> Int] /\ f[0] = 0 /\ \A i \in 1..n : v[i] \in Int
      /\ \A i \in 1..n : f[i] = f[i - 1] + v[i]
  BY SumsAreSteps
<1>2. \A i \in 1..n : i - 1 \in 0..n /\ i \in 0..n /\ (i - 1) * c + c = i * c /\ i * c \in Int
                      /\ (i - 1) * c \in Int
  BY <1>1
<1>3. 0 * c = 0 /\ 0 \in 0..n
  BY <1>1
<1> HIDE DEF n, f
<1>4. ASSUME \A i \in 1..n : v[i] >= c PROVE f[n] >= n * c
  <2> DEFINE S == {i \in 0..n : f[i] >= i * c}
  <2>1. 0 \in S
    BY <1>1, <1>3
  <2>2. ASSUME NEW i \in 1..n, i - 1 \in S PROVE i \in S
    <3> DEFINE b == (i - 1) * c  d == i * c  e == f[i - 1]  g == f[i]
    <3>1. /\ b \in Int /\ d \in Int /\ e \in Int /\ v[i] \in Int /\ i \in 0..n
          /\ b + c = d /\ g = e + v[i] /\ v[i] >= c /\ e >= b
      BY <1>1, <1>2, <1>4, <2>2
    <3> HIDE DEF b, d, e, g
    <3>2. g >= d
      BY <3>1
    <3> QED BY <3>1, <3>2 DEF g, d
  <2>3. \A i \in 1..n : i - 1 \in S => i \in S
    BY <2>2
  <2> HIDE DEF S
  <2>4. \A i \in 0..n : i \in S
    BY <1>1, <2>1, <2>3, Onward
  <2> QED BY <1>1, <2>4 DEF S
<1>5. ASSUME \A i \in 1..n : v[i] <= c PROVE f[n] <= n * c
  <2> DEFINE S == {i \in 0..n : f[i] <= i * c}
  <2>1. 0 \in S
    BY <1>1, <1>3
  <2>2. ASSUME NEW i \in 1..n, i - 1 \in S PROVE i \in S
    <3> DEFINE b == (i - 1) * c  d == i * c  e == f[i - 1]  g == f[i]
    <3>1. /\ b \in Int /\ d \in Int /\ e \in Int /\ v[i] \in Int /\ i \in 0..n
          /\ b + c = d /\ g = e + v[i] /\ v[i] <= c /\ e <= b
      BY <1>1, <1>2, <1>5, <2>2
    <3> HIDE DEF b, d, e, g
    <3>2. g <= d
      BY <3>1
    <3> QED BY <3>1, <3>2 DEF g, d
  <2>3. \A i \in 1..n : i - 1 \in S => i \in S
    BY <2>2
  <2> HIDE DEF S
  <2>4. \A i \in 0..n : i \in S
    BY <1>1, <2>1, <2>3, Onward
  <2> QED BY <1>1, <2>4 DEF S
<1> QED BY <1>4, <1>5 DEF Total, n, f

\* The mean of some numbers is none of them perhaps, and between two of them.
LEMMA MeanIsBetween ==
  ASSUME NEW v \in Seq(Int), v # <<>>
  PROVE  /\ Total(v) \div Len(v) \in Int
         /\ \E i \in DOMAIN v : v[i] <= Total(v) \div Len(v)
         /\ \E i \in DOMAIN v : v[i] >= Total(v) \div Len(v)
<1> DEFINE n == Len(v)  t == Total(v)  q == t \div n
<1>1. n \in Nat /\ n > 0 /\ DOMAIN v = 1..n /\ \A i \in 1..n : v[i] \in Int
  OBVIOUS
<1>2. t \in Int
  BY <1>1, SumsAreSteps DEF Total
<1> HIDE DEF t
<1>3. q \in Int /\ n * q <= t /\ t < n * q + n
  BY <1>1, <1>2, DivBounds
<1> HIDE DEF q
<1> DEFINE c == q + 1  d == q - 1
<1>c. c \in Int /\ d \in Int
  BY <1>3
<1> HIDE DEF c, d
<1>4. (\A i \in 1..n : v[i] >= c) => t >= n * c
  BY <1>c, SumsAreBounded DEF t
<1>5. (\A i \in 1..n : v[i] <= d) => t <= n * d
  BY <1>c, SumsAreBounded DEF t
<1> HIDE DEF n
<1>6. n * c = n * q + n /\ n * d = n * q - n /\ n * q \in Int
  BY <1>1, <1>3 DEF c, d
<1>7. \E i \in 1..n : ~(v[i] >= c)
  BY <1>1, <1>2, <1>3, <1>4, <1>6
<1>8. \E i \in 1..n : ~(v[i] <= d)
  BY <1>1, <1>2, <1>3, <1>5, <1>6
<1>9. \A i \in 1..n : (~(v[i] >= c) => v[i] <= q) /\ (~(v[i] <= d) => v[i] >= q)
  BY <1>1, <1>3 DEF c, d
<1>10. q \in Int /\ (\E i \in DOMAIN v : v[i] <= q) /\ (\E i \in DOMAIN v : v[i] >= q)
  BY <1>1, <1>3, <1>7, <1>8, <1>9
<1> QED BY <1>10 DEF q, t, n

\* What was said in bucket b.
SaidIn(samples, b) ==
  {samples[i].value.value : i \in {j \in DOMAIN samples : samples[j].value.known /\ samples[j].bucket = b}}

\* A point is drawn where something was said, between two things that were said there; a
\* bucket in which the box was silent is a gap and not a zero (metrics.ts:64-96).
THEOREM PointsAreOfTheirBucket ==
  ASSUME NEW n \in Nat, NEW samples \in Seq([value : [known : BOOLEAN, value : Int], bucket : 1..n]),
         NEW b \in 1..n
  PROVE  LET p == Points(samples, n)[b] IN
         /\ p.known <=> SaidIn(samples, b) # {}
         /\ p.known => /\ p.value \in Int
                       /\ \E x \in SaidIn(samples, b) : x <= p.value
                       /\ \E x \in SaidIn(samples, b) : x >= p.value
<1> DEFINE T == [value : [known : BOOLEAN, value : Int], bucket : 1..n]
           mine == {j \in DOMAIN samples : samples[j].value.known /\ samples[j].bucket = b}
           S == {samples[i] : i \in mine}
           t == InBucket(samples, b)
           v == ValuesOf(t)
           p == Points(samples, n)[b]
           q == Total(v) \div Len(v)
<1>1. samples \in Seq(T)
  OBVIOUS
<1>2. t = Filtered(samples, S)
  BY DEF InBucket
<1>3. p = IF v = <<>> THEN Missing ELSE Known(q)
  BY DEF Points, Mean
<1> HIDE DEF t, p, q
<1>4. /\ t \in Seq(T) /\ \A k \in DOMAIN t : t[k] \in S
      /\ \A i \in DOMAIN samples : samples[i] \in S => \E k \in DOMAIN t : t[k] = samples[i]
  <2> HIDE DEF S, T
  <2> QED BY <1>1, <1>2, FilteredIsSome
<1>5. v \in Seq(Int) /\ DOMAIN v = DOMAIN t /\ \A k \in DOMAIN t : v[k] = t[k].value.value
  <2>1. ASSUME NEW k \in DOMAIN t PROVE t[k].value.value \in Int
    <3>1. t[k] \in T
      <4> HIDE DEF T
      <4> QED BY <1>4
    <3> QED BY <3>1
  <2>2. Len(t) \in Nat /\ DOMAIN t = 1..Len(t)
    BY <1>4
  <2> QED BY <2>1, <2>2 DEF ValuesOf
<1> HIDE DEF v, T
<1>6. ASSUME NEW k \in DOMAIN v PROVE v[k] \in SaidIn(samples, b)
  <2>1. PICK i \in mine : t[k] = samples[i]
    BY <1>4, <1>5
  <2> QED BY <1>5, <2>1 DEF SaidIn
<1>7. ASSUME NEW i \in mine PROVE v # <<>>
  <2>1. samples[i] \in S /\ i \in DOMAIN samples
    OBVIOUS
  <2>2. PICK k \in DOMAIN t : t[k] = samples[i]
    BY <1>4, <2>1
  <2>3. DOMAIN v # {}
    BY <1>5, <2>2
  <2> QED BY <2>3
<1>8. SaidIn(samples, b) # {} => v # <<>>
  BY <1>7 DEF SaidIn
<1>9. v # <<>> => /\ q \in Int
                  /\ \E k \in DOMAIN v : v[k] <= q
                  /\ \E k \in DOMAIN v : v[k] >= q
  BY <1>5, MeanIsBetween DEF q
<1>10. CASE v = <<>>
  <2>1. ~p.known
    BY <1>3, <1>10 DEF Missing
  <2> QED BY <1>8, <1>10, <2>1 DEF p
<1>11. CASE v # <<>>
  <2>1. p.known /\ p.value = q
    BY <1>3, <1>11 DEF Known
  <2>2. q \in Int /\ (\E x \in SaidIn(samples, b) : x <= q) /\ (\E x \in SaidIn(samples, b) : x >= q)
    BY <1>6, <1>9, <1>11
  <2> QED BY <2>1, <2>2 DEF p
<1> QED BY <1>10, <1>11

\* So many places, each another one, among so many.
LEMMA PlacesAreAtMost ==
  ASSUME NEW T, IsFiniteSet(T), NEW r \in Nat, NEW f \in [1..r -> T],
         \A i, j \in 1..r : i # j => f[i] # f[j]
  PROVE  r <= Cardinality(T)
<1>1. f \in Injection(1..r, T)
  BY DEF Injection, IsInjective
<1>2. Cardinality(1..r) <= Cardinality(T)
  BY <1>1, FS_Injection
<1>3. Cardinality(1..r) = r
  BY FS_Interval
<1> QED BY <1>2, <1>3

\* p95 is a number the box said: at least 95 of a hundred are no more than it, and fewer
\* than 95 of a hundred are less (metrics.ts:41-56, "cannot invent a value the box never
\* reported").  least, most and last are said too, nothing is below or above the first
\* two, and the average is between them.
THEOREM StatsAreSaid ==
  ASSUME NEW v \in Seq(Int), v # <<>>, NEW gaps
  PROVE  LET s == StatsFrom(v, gaps)  said == {v[i] : i \in DOMAIN v}
             upTo == {i \in DOMAIN v : v[i] <= s.p95}
             below == {i \in DOMAIN v : v[i] < s.p95}
         IN /\ s.p95 \in said /\ s.least \in said /\ s.most \in said /\ s.last \in said
            /\ \A x \in said : s.least <= x /\ x <= s.most
            /\ s.least <= s.avg /\ s.avg <= s.most
            /\ 100 * Cardinality(upTo) >= 95 * Len(v)
            /\ 100 * Cardinality(below) < 95 * Len(v)
<1> DEFINE n == Len(v)  t == Sorted(v, v)  r == RoundUp(95 * n, 100)
           s == StatsFrom(v, gaps)
<1>1. n \in Nat /\ n > 0 /\ DOMAIN v = 1..n /\ v \in [DOMAIN v -> Int]
      /\ \A i \in 1..n : v[i] \in Int
  OBVIOUS
<1>0. IsFiniteSet(1..n)
  BY IndicesAreFinite
<1>2. PICK place : IsTaken(t, v, place) /\ IsSorting(place, v)
  BY <1>1, SortedIsAll
<1>3. t \in Seq(Int) /\ Len(t) = n /\ DOMAIN t = 1..n
  BY <1>1, SortedIsAll
<1>4. r \in 1..n /\ 100 * r >= 95 * n /\ 100 * (r - 1) < 95 * n
  BY <1>1 DEF RoundUp
<1>5. s.p95 = t[r] /\ s.least = t[1] /\ s.most = t[n]
  <2>1. /\ s.p95 = t[1 + Greater(0, Lesser(Len(t), RoundUp(95 * Len(t), 100)) - 1)]
        /\ s.least = t[1] /\ s.most = t[n]
    BY DEF StatsFrom, P95
  <2>2. 1 + Greater(0, Lesser(n, r) - 1) = r
    BY <1>1, <1>4 DEF Greater, Lesser
  <2> QED BY <1>3, <2>1, <2>2
<1>17. s.avg = Total(v) \div Len(v) /\ s.last = v[n] /\ v[n] \in {v[i] : i \in DOMAIN v}
  BY <1>1 DEF StatsFrom
<1> HIDE DEF n, t, r, s
<1>6. /\ place \in [1..n -> 1..n] /\ \A p \in 1..n : t[p] = v[place[p]] /\ t[p] \in Int
      /\ \A p, q \in 1..n : p # q => place[p] # place[q]
      /\ \A i \in 1..n : \E p \in 1..n : place[p] = i
  BY <1>1, <1>2, <1>3 DEF IsTaken, IsSorting
<1>7. ASSUME NEW p \in 1..n, NEW q \in 1..n, p <= q PROVE t[p] <= t[q]
  <2>1. CASE p = q
    BY <1>6, <2>1
  <2>2. CASE p < q
    <3>1. <<place[p], place[q]>> \in Earlier(v)
      BY <1>3, <1>2, <1>6, <2>2 DEF IsTaken, IsSorting
    <3>2. v[place[p]] <= v[place[q]]
      <4>1. \A i, j : <<i, j>> \in Earlier(v) => v[i] < v[j] \/ v[i] = v[j]
        BY DEF Earlier
      <4>2. v[place[p]] \in Int /\ v[place[q]] \in Int
        BY <1>1, <1>6
      <4> QED BY <3>1, <4>1, <4>2
    <3> QED BY <1>6, <3>2
  <2> QED BY <1>1, <1>7, <2>1, <2>2
<1> DEFINE upTo == {i \in 1..n : v[i] <= t[r]}  below == {i \in 1..n : v[i] < t[r]}
<1>8. IsFiniteSet(upTo) /\ IsFiniteSet(below) /\ Cardinality(upTo) \in Nat /\ Cardinality(below) \in Nat
  <2>1. IsFiniteSet(1..n)
    BY <1>0
  <2>2. upTo \in SUBSET (1..n) /\ below \in SUBSET (1..n)
    OBVIOUS
  <2> QED BY <2>1, <2>2, FS_Subset, FS_CardinalityType
<1>9. r <= Cardinality(upTo)
  <2> DEFINE f == [p \in 1..r |-> place[p]]
  <2>1. \A p \in 1..r : p \in 1..n /\ p <= r
    BY <1>1, <1>4
  <2>2. ASSUME NEW p \in 1..r PROVE f[p] \in upTo
    <3>1. p \in 1..n /\ t[p] <= t[r] /\ place[p] \in 1..n /\ t[p] = v[place[p]]
      BY <1>4, <1>6, <1>7, <2>1
    <3> QED BY <3>1
  <2>3. r \in Nat /\ \A i, j \in 1..r : i # j => f[i] # f[j]
    BY <1>4, <1>6, <2>1
  <2> HIDE DEF upTo
  <2>4. f \in [1..r -> upTo]
    BY <2>2
  <2> HIDE DEF f
  <2> QED BY <1>8, <2>3, <2>4, PlacesAreAtMost
<1>10. Cardinality(below) <= r - 1
  <2> DEFINE k == Cardinality(below)
             at == [i \in 1..n |-> CHOOSE p \in 1..n : place[p] = i]
             g == [i \in below |-> at[i]]
  <2>1. \A i \in 1..n : at[i] \in 1..n /\ place[at[i]] = i
    BY <1>6
  <2> HIDE DEF at
  <2>2. ASSUME NEW i \in below PROVE at[i] \in 1..(r - 1)
    <3>1. at[i] \in 1..n /\ t[at[i]] = v[i] /\ v[i] < t[r] /\ v[i] \in Int /\ t[r] \in Int
      BY <1>1, <1>4, <1>6, <2>1
    <3>2. ~(r <= at[i])
      BY <1>4, <1>7, <3>1
    <3> QED BY <1>1, <1>4, <3>1, <3>2
  <2>3. g \in Injection(below, 1..(r - 1))
    <3>1. g \in [below -> 1..(r - 1)]
      BY <2>2
    <3>2. \A i, j \in below : g[i] = g[j] => i = j
      BY <2>1
    <3> QED BY <3>1, <3>2 DEF Injection, IsInjective
  <2> HIDE DEF g, below
  <2>4. IsFiniteSet(1..(r - 1)) /\ Cardinality(1..(r - 1)) = r - 1
    <3> DEFINE e == r - 1
    <3>1. e \in Nat
      BY <1>1, <1>4
    <3> HIDE DEF e
    <3>2. IsFiniteSet(1..e) /\ Cardinality(1..e) = e
      BY <3>1, FS_Interval
    <3> QED BY <3>2 DEF e
  <2> QED BY <2>3, <2>4, FS_Injection
<1>11. 100 * Cardinality(upTo) >= 95 * n /\ 100 * Cardinality(below) < 95 * n
  <2> DEFINE c == Cardinality(upTo)  d == Cardinality(below)
  <2>1. c \in Nat /\ d \in Nat /\ r <= c /\ d <= r - 1
    BY <1>8, <1>9, <1>10
  <2> HIDE DEF c, d
  <2>2. 100 * c >= 95 * n /\ 100 * d < 95 * n
    BY <1>1, <1>4, <2>1
  <2> QED BY <2>2 DEF c, d
<1> DEFINE said == {v[i] : i \in DOMAIN v}
<1>12. ASSUME NEW p \in 1..n PROVE t[p] \in said
  <2>1. place[p] \in DOMAIN v /\ t[p] = v[place[p]]
    BY <1>1, <1>6
  <2> QED BY <2>1
<1>13. ASSUME NEW x \in said PROVE t[1] <= x /\ x <= t[n]
  <2>1. PICK i \in 1..n : x = v[i]
    BY <1>1
  <2>2. PICK p \in 1..n : place[p] = i
    BY <1>6
  <2>3. x = t[p]
    BY <1>6, <2>1, <2>2
  <2> QED BY <1>1, <1>7, <2>3
<1>14. 1 \in 1..n /\ n \in 1..n
  BY <1>1
<1>15. /\ s.p95 \in said /\ s.least \in said /\ s.most \in said
       /\ \A x \in said : s.least <= x /\ x <= s.most
  BY <1>4, <1>5, <1>12, <1>13, <1>14
<1>16. {i \in DOMAIN v : v[i] <= s.p95} = upTo /\ {i \in DOMAIN v : v[i] < s.p95} = below
  BY <1>1, <1>5
<1>18. s.least <= s.avg /\ s.avg <= s.most
  <2> DEFINE q == Total(v) \div Len(v)
  <2>1. q \in Int /\ (\E i \in DOMAIN v : v[i] <= q) /\ (\E i \in DOMAIN v : v[i] >= q)
    BY MeanIsBetween
  <2> HIDE DEF q
  <2>2. s.avg = q /\ s.least \in Int /\ s.most \in Int /\ \A i \in DOMAIN v : v[i] \in said /\ v[i] \in Int
    BY <1>1, <1>5, <1>6, <1>14, <1>17 DEF q
  <2> HIDE DEF said
  <2> QED BY <1>15, <2>1, <2>2
<1> QED BY <1>11, <1>15, <1>16, <1>17, <1>18 DEF s, n

-----------------------------------------------------------------------------
(* The apps of a box and their colours. *)

AppRows == [name : Nat, value : [known : BOOLEAN, value : Int]]

\* Fractions are ordered by their crosswise products.
LEMMA FractionsAreOrdered ==
  ASSUME NEW a \in Int, NEW b \in Int, NEW c \in Int, NEW p \in Nat, NEW q \in Nat, NEW r \in Nat,
         p > 0, q > 0, r > 0, a * q >= b * p, b * r >= c * q
  PROVE  /\ a * r >= c * p
         /\ a * r = c * p => a * q = b * p /\ b * r = c * q
<1> DEFINE d == a * q - b * p  e == b * r - c * q  f == a * r - c * p
<1>1. d \in Int /\ e \in Int /\ f \in Int /\ d >= 0 /\ e >= 0
  OBVIOUS
<1>2. q * f = r * d + p * e
  OBVIOUS
<1>3. (f >= 0 => a * r >= c * p) /\ (a * r = c * p => f = 0) /\ (d = 0 => a * q = b * p)
      /\ (e = 0 => b * r = c * q)
  OBVIOUS
<1> HIDE DEF d, e, f
<1>4. r * d >= 0 /\ p * e >= 0 /\ (d # 0 => r * d > 0) /\ (e # 0 => p * e > 0)
  BY <1>1
<1>5. f >= 0
  BY <1>1, <1>2, <1>4
<1>6. f = 0 => d = 0 /\ e = 0
  BY <1>1, <1>2, <1>4
<1> QED BY <1>3, <1>5, <1>6

LEMMA UsageIsAFraction ==
  ASSUME NEW rows \in Seq(AppRows), NEW name
  PROVE  Usage(rows, name).sum \in Int /\ Usage(rows, name).count \in Nat /\ Usage(rows, name).count > 0
<1> DEFINE S == {rows[i] : i \in {j \in DOMAIN rows : rows[j].name = name /\ rows[j].value.known}}
           t == Filtered(rows, S)  v == ValuesOf(t)
<1>1. t \in Seq(AppRows)
  <2> HIDE DEF S
  <2> QED BY FilteredIsSome
<1>2. Usage(rows, name) = IF v = <<>> THEN [sum |-> 0, count |-> 1] ELSE [sum |-> Total(v), count |-> Len(v)]
  BY DEF Usage
<1> HIDE DEF t
<1>3. v \in Seq(Int)
  <2>1. ASSUME NEW k \in DOMAIN t PROVE t[k].value.value \in Int
    <3>1. t[k] \in AppRows
      BY <1>1
    <3> QED BY <3>1 DEF AppRows
  <2>2. Len(t) \in Nat /\ DOMAIN t = 1..Len(t)
    BY <1>1
  <2> QED BY <2>1, <2>2 DEF ValuesOf
<1> HIDE DEF v
<1>4. Total(v) \in Int /\ Len(v) \in Nat /\ (v # <<>> => Len(v) > 0)
  BY <1>3, SumsAreSteps DEF Total
<1>5. CASE v = <<>>
  BY <1>2, <1>5
<1>6. CASE v # <<>>
  BY <1>2, <1>4, <1>6
<1> QED BY <1>5, <1>6

NamesOf(rows) == {rows[i].name : i \in DOMAIN rows}
LEMMA NamesAreFinite ==
  ASSUME NEW rows \in Seq(AppRows)
  PROVE  IsFiniteSet(NamesOf(rows)) /\ NamesOf(rows) \subseteq Nat
<1> DEFINE f == [i \in 1..Len(rows) |-> rows[i].name]
<1>1. \A i \in 1..Len(rows) : rows[i].name \in Nat
  <2>1. \A i \in 1..Len(rows) : rows[i] \in AppRows
    OBVIOUS
  <2> QED BY <2>1 DEF AppRows
<1>2. IsFiniteSet(1..Len(rows)) /\ DOMAIN rows = 1..Len(rows)
  BY IndicesAreFinite
<1>3. f \in Surjection(1..Len(rows), NamesOf(rows))
  BY <1>2 DEF Surjection, NamesOf
<1> QED BY <1>1, <1>2, <1>3, FS_Surjection DEF NamesOf

\* The apps by name, each once; an app has a slot of its own.
LEMMA AppsHaveSlots ==
  ASSUME NEW rows \in Seq(AppRows)
  PROVE  LET packages == AppsOf(rows) IN
         /\ packages \in Seq(Nat) /\ {packages[i] : i \in DOMAIN packages} = NamesOf(rows)
         /\ \A i, j \in DOMAIN packages : i < j => packages[i] < packages[j]
         /\ \A name \in NamesOf(rows) :
              SlotOf(packages, name) \in DOMAIN packages /\ packages[SlotOf(packages, name)] = name
<1> DEFINE names == NamesOf(rows)  before == {e \in names \X names : e[1] < e[2]}
           n == Cardinality(names)  packages == AppsOf(rows)
<1>1. IsFiniteSet(names) /\ names \subseteq Nat
  BY NamesAreFinite
<1>2. packages = Ranked(names, before)
  BY DEF AppsOf, NamesOf
<1> HIDE DEF names, packages
<1>3. \A x, y : <<x, y>> \in before <=> x \in names /\ y \in names /\ x < y
  OBVIOUS
<1> HIDE DEF before
<1>4. IsOrder(names, before)
  BY <1>1, <1>3 DEF IsOrder
<1>5. /\ n \in Nat /\ packages \in [1..n -> names]
      /\ \A x \in names : \E p \in 1..n : packages[p] = x
      /\ \A p, q \in 1..n : p < q => <<packages[p], packages[q]>> \in before
  BY <1>1, <1>2, <1>4, RankedListsAll
<1> HIDE DEF n
<1>6. packages \in Seq(Nat) /\ DOMAIN packages = 1..n
  <2>1. packages \in Seq(names) /\ DOMAIN packages = 1..n
    BY <1>5
  <2>2. \A p \in 1..n : packages[p] \in Nat
    BY <1>1, <1>5
  <2>3. packages = [p \in 1..n |-> packages[p]]
    BY <1>5
  <2> QED BY <1>5, <2>1, <2>2, <2>3
<1>7. {packages[i] : i \in DOMAIN packages} = names
  BY <1>5, <1>6
<1>8. \A i, j \in DOMAIN packages : i < j => packages[i] < packages[j]
  BY <1>3, <1>5, <1>6
<1>9. \A name \in names : SlotOf(packages, name) \in DOMAIN packages /\ packages[SlotOf(packages, name)] = name
  BY <1>5, <1>6 DEF SlotOf
<1> QED BY <1>6, <1>7, <1>8, <1>9 DEF packages, names

\* The apps that are offered first are the busiest (metrics.ts:271-283): each app of the
\* box is in the list once, and none is after one that used less on the mean.
THEOREM BusiestComeFirst ==
  ASSUME NEW rows \in Seq(AppRows)
  PROVE  /\ Busiest(rows) \in Seq(NamesOf(rows))
         /\ \A name \in NamesOf(rows) : \E p \in DOMAIN Busiest(rows) : Busiest(rows)[p] = name
         /\ \A p, q \in DOMAIN Busiest(rows) : p < q =>
              LET u == Usage(rows, Busiest(rows)[p])  w == Usage(rows, Busiest(rows)[q])
              IN Busiest(rows)[p] # Busiest(rows)[q] /\ u.sum * w.count >= w.sum * u.count
<1> DEFINE names == NamesOf(rows)
           S(a) == Usage(rows, a).sum  C(a) == Usage(rows, a).count
           before == {e \in names \X names :
                        S(e[1]) * C(e[2]) - S(e[2]) * C(e[1]) > 0
                        \/ (S(e[1]) * C(e[2]) - S(e[2]) * C(e[1]) = 0 /\ e[1] < e[2])}
           n == Cardinality(names)  b == Busiest(rows)
<1>1. IsFiniteSet(names) /\ names \subseteq Nat
  BY NamesAreFinite
<1>2. b = Ranked(names, before)
  BY DEF Busiest, NamesOf
<1> HIDE DEF names, b
<1>3. \A x, y : <<x, y>> \in before <=>
        /\ x \in names /\ y \in names
        /\ \/ S(x) * C(y) - S(y) * C(x) > 0
           \/ S(x) * C(y) - S(y) * C(x) = 0 /\ x < y
  OBVIOUS
<1> HIDE DEF before
<1>4. \A x : S(x) \in Int /\ C(x) \in Nat /\ C(x) > 0
  BY UsageIsAFraction
<1> DEFINE P(x, y) == S(x) * C(y)
<1> HIDE DEF S, C
<1>5. \A x, y : P(x, y) \in Int
  BY <1>4
<1>6. \A x, y, z : P(x, y) >= P(y, x) /\ P(y, z) >= P(z, y)
                   => /\ P(x, z) >= P(z, x)
                      /\ P(x, z) = P(z, x) => P(x, y) = P(y, x) /\ P(y, z) = P(z, y)
  <2> SUFFICES ASSUME NEW x, NEW y, NEW z, P(x, y) >= P(y, x), P(y, z) >= P(z, y)
               PROVE  /\ P(x, z) >= P(z, x)
                      /\ P(x, z) = P(z, x) => P(x, y) = P(y, x) /\ P(y, z) = P(z, y)
    OBVIOUS
  <2> DEFINE a == S(x)  c == S(y)  d == S(z)  p == C(x)  q == C(y)  r == C(z)
  <2>1. /\ a \in Int /\ c \in Int /\ d \in Int /\ p \in Nat /\ q \in Nat /\ r \in Nat
        /\ p > 0 /\ q > 0 /\ r > 0 /\ a * q >= c * p /\ c * r >= d * q
    BY <1>4
  <2> HIDE DEF a, c, d, p, q, r
  <2>2. a * r >= d * p /\ (a * r = d * p => a * q = c * p /\ c * r = d * q)
    BY <2>1, FractionsAreOrdered
  <2> QED BY <2>2 DEF a, c, d, p, q, r
<1>7. \A x, y : <<x, y>> \in before <=>
        x \in names /\ y \in names /\ (P(x, y) > P(y, x) \/ (P(x, y) = P(y, x) /\ x < y))
  <2> SUFFICES ASSUME NEW x, NEW y
               PROVE  <<x, y>> \in before <=>
                        x \in names /\ y \in names /\ (P(x, y) > P(y, x) \/ (P(x, y) = P(y, x) /\ x < y))
    OBVIOUS
  <2> DEFINE a == P(x, y)  c == P(y, x)
  <2>1. a \in Int /\ c \in Int
    BY <1>5
  <2>2. <<x, y>> \in before <=> x \in names /\ y \in names /\ (a - c > 0 \/ (a - c = 0 /\ x < y))
    BY <1>3
  <2> HIDE DEF a, c
  <2>3. (a - c > 0 <=> a > c) /\ (a - c = 0 <=> a = c)
    BY <2>1
  <2>4. <<x, y>> \in before <=> x \in names /\ y \in names /\ (a > c \/ (a = c /\ x < y))
    BY <2>2, <2>3
  <2> QED BY <2>4 DEF a, c
<1> HIDE DEF P
<1>8. IsOrder(names, before)
  <2>1. \A x \in names : <<x, x>> \notin before
    BY <1>1, <1>5, <1>7
  <2>2. \A x, y \in names : x # y => <<x, y>> \in before \/ <<y, x>> \in before
    BY <1>1, <1>5, <1>7
  <2>3. ASSUME NEW x \in names, NEW y \in names, NEW z \in names,
               <<x, y>> \in before, <<y, z>> \in before
        PROVE  <<x, z>> \in before
    <3>1. x \in Nat /\ y \in Nat /\ z \in Nat
      BY <1>1
    <3>2. P(x, y) >= P(y, x) /\ P(y, z) >= P(z, y)
      BY <1>5, <1>7, <2>3
    <3>3. P(x, z) >= P(z, x) /\ (P(x, z) = P(z, x) => P(x, y) = P(y, x) /\ P(y, z) = P(z, y))
      BY <1>6, <3>2
    <3>4. CASE P(x, z) = P(z, x)
      <4>1. x < y /\ y < z
        BY <1>5, <1>7, <2>3, <3>3, <3>4
      <4> QED BY <1>7, <3>1, <3>4, <4>1
    <3>5. CASE P(x, z) # P(z, x)
      <4>1. P(x, z) > P(z, x)
        BY <1>5, <3>3, <3>5
      <4> QED BY <1>7, <4>1
    <3> QED BY <3>4, <3>5
  <2> QED BY <2>1, <2>2, <2>3 DEF IsOrder
<1>9. /\ n \in Nat /\ b \in [1..n -> names]
      /\ \A x \in names : \E p \in 1..n : b[p] = x
      /\ \A p, q \in 1..n : p < q => b[p] # b[q] /\ <<b[p], b[q]>> \in before
  BY <1>1, <1>2, <1>8, RankedListsAll
<1> HIDE DEF n
<1>10. b \in Seq(names) /\ DOMAIN b = 1..n
  BY <1>9
<1>11. \A x \in names : \E p \in DOMAIN b : b[p] = x
  BY <1>9, <1>10
<1>12. ASSUME NEW p \in DOMAIN b, NEW q \in DOMAIN b, p < q
       PROVE  b[p] # b[q] /\ P(b[p], b[q]) >= P(b[q], b[p])
  <2>1. <<b[p], b[q]>> \in before /\ b[p] # b[q]
    BY <1>9, <1>10, <1>12
  <2> DEFINE x == b[p]  y == b[q]
  <2>2. P(x, y) > P(y, x) \/ P(x, y) = P(y, x)
    BY <1>7, <2>1
  <2>3. P(x, y) >= P(y, x)
    BY <1>5, <2>2
  <2> QED BY <2>1, <2>3
<1> QED BY <1>10, <1>11, <1>12 DEF P, S, C, b, names

LEMMA FirstAreSome ==
  ASSUME NEW T, NEW s \in Seq(T), NEW n \in Nat
  PROVE  /\ First(s, n) \in Seq(T) /\ Len(First(s, n)) <= n
         /\ \A i \in DOMAIN First(s, n) : i \in DOMAIN s /\ First(s, n)[i] = s[i]
<1> DEFINE m == Lesser(n, Len(s))
<1>1. m \in Nat /\ m <= n /\ m <= Len(s) /\ Len(s) \in Nat /\ DOMAIN s = 1..Len(s)
      /\ \A i \in 1..Len(s) : s[i] \in T
  BY DEF Lesser
<1>2. First(s, n) = SubSeq(s, 1, m)
  BY DEF First
<1> HIDE DEF m
<1>3. \A i \in 1..m : i \in 1..Len(s)
  BY <1>1
<1>4. SubSeq(s, 1, m) = [i \in 1..m |-> s[i]]
  BY <1>1
<1> QED BY <1>1, <1>2, <1>3, <1>4

\* What is drawn of the apps: at most eight of those that are there, each in one of the
\* eight colours and no two in the same; what was asked for, if any of it is there, and
\* else some of the three busiest (metrics.ts:264-296).
THEOREM ColoursAreTheirOwn ==
  ASSUME NEW rows \in Seq(AppRows), NEW asked \in Seq(Nat)
  PROVE  LET shown == Selected(rows, asked)
             slot == [name \in NamesOf(rows) |-> SlotOf(AppsOf(rows), name)]
         IN /\ Len(shown) <= MaxSeries
            /\ \A i \in DOMAIN shown : shown[i] \in NamesOf(rows) /\ slot[shown[i]] \in 1..MaxSeries
            /\ \A a, b \in NamesOf(rows) : a # b => slot[a] # slot[b]
            /\ (\E i \in DOMAIN asked : asked[i] \in NamesOf(rows)) =>
                 \A i \in DOMAIN shown : \E k \in DOMAIN asked : shown[i] = asked[k]
            /\ (\A i \in DOMAIN asked : asked[i] \notin NamesOf(rows)) =>
                 \A i \in DOMAIN shown : \E p \in 1..3 : shown[i] = Busiest(rows)[p]
<1> DEFINE names == NamesOf(rows)  packages == AppsOf(rows)
           there == {packages[i] : i \in DOMAIN packages}
           requested == Filtered(asked, there)
           wanted == IF requested # <<>> THEN requested ELSE First(Busiest(rows), 3)
           slotted == {packages[i] : i \in {j \in DOMAIN packages : j <= MaxSeries}}
           kept == Filtered(wanted, slotted)
           shown == Selected(rows, asked)
<1>1. /\ packages \in Seq(Nat) /\ there = names
      /\ \A i, j \in DOMAIN packages : i < j => packages[i] < packages[j]
      /\ \A name \in names :
           SlotOf(packages, name) \in DOMAIN packages /\ packages[SlotOf(packages, name)] = name
  BY AppsHaveSlots
<1>2. shown = First(kept, MaxSeries)
  BY DEF Selected
<1>3. names \subseteq Nat
  BY NamesAreFinite
<1>4. /\ requested \in Seq(Nat) /\ \A p \in DOMAIN requested : requested[p] \in there
      /\ \E place : IsTaken(requested, asked, place)
      /\ \A i \in DOMAIN asked : asked[i] \in there => \E p \in DOMAIN requested : requested[p] = asked[i]
  <2> HIDE DEF there
  <2> QED BY FilteredIsSome
<1> HIDE DEF requested
<1>5. requested \in Seq(names)
  <2>1. requested = [p \in 1..Len(requested) |-> requested[p]] /\ DOMAIN requested = 1..Len(requested)
        /\ Len(requested) \in Nat
    BY <1>4
  <2>2. \A p \in 1..Len(requested) : requested[p] \in names
    BY <1>1, <1>4, <2>1
  <2> QED BY <2>1, <2>2
<1> DEFINE f == First(Busiest(rows), 3)
<1>6. /\ f \in Seq(names) /\ Len(f) <= 3
      /\ \A i \in DOMAIN f : f[i] = Busiest(rows)[i]
  <2> DEFINE b == Busiest(rows)  three == 3
  <2>1. b \in Seq(names) /\ three \in Nat
    BY BusiestComeFirst
  <2> HIDE DEF b, names, three
  <2>2. /\ First(b, three) \in Seq(names) /\ Len(First(b, three)) <= three
        /\ \A i \in DOMAIN First(b, three) : First(b, three)[i] = b[i]
    BY <2>1, FirstAreSome
  <2> QED BY <2>2 DEF b, three
<1> HIDE DEF f
<1>7. wanted \in Seq(names)
  BY <1>5, <1>6 DEF f
<1> HIDE DEF wanted, names, there
<1>8. /\ kept \in Seq(names) /\ \A p \in DOMAIN kept : kept[p] \in slotted
      /\ \E place : IsTaken(kept, wanted, place)
  <2> HIDE DEF slotted
  <2> QED BY <1>7, FilteredIsSome
<1> HIDE DEF kept
<1>9. /\ shown \in Seq(names) /\ Len(shown) <= MaxSeries
      /\ \A i \in DOMAIN shown : i \in DOMAIN kept /\ shown[i] = kept[i]
  <2>1. MaxSeries \in Nat
    BY DEF MaxSeries
  <2> HIDE DEF shown
  <2> QED BY <1>2, <1>8, <2>1, FirstAreSome
<1> HIDE DEF shown, packages
<1>10. ASSUME NEW i \in DOMAIN shown
       PROVE  shown[i] \in names /\ SlotOf(packages, shown[i]) \in 1..MaxSeries
  <2>1. shown[i] \in names /\ shown[i] \in slotted
    BY <1>8, <1>9
  <2>2. PICK j \in DOMAIN packages : j <= MaxSeries /\ packages[j] = shown[i]
    BY <2>1
  <2> DEFINE k == SlotOf(packages, shown[i])
  <2>3. k \in DOMAIN packages /\ packages[k] = packages[j]
    BY <1>1, <2>1, <2>2
  <2> HIDE DEF k
  <2>4. j \in Nat /\ k \in Nat /\ k >= 1 /\ packages[j] \in Nat /\ packages[k] \in Nat
    BY <1>1, <2>2, <2>3
  <2>5. k = j
    BY <1>1, <2>2, <2>3, <2>4
  <2>6. k \in 1..MaxSeries
    BY <2>2, <2>4, <2>5 DEF MaxSeries
  <2> QED BY <2>1, <2>6 DEF k
<1>11. ASSUME NEW a \in names, NEW b \in names, a # b PROVE SlotOf(packages, a) # SlotOf(packages, b)
  BY <1>1, <1>11
<1>12. ASSUME NEW c \in DOMAIN asked, asked[c] \in names, NEW i \in DOMAIN shown
       PROVE  \E k \in DOMAIN asked : shown[i] = asked[k]
  <2>1. requested # <<>>
    <3>1. PICK p \in DOMAIN requested : requested[p] = asked[c]
      BY <1>1, <1>4, <1>12
    <3>2. DOMAIN requested # {}
      BY <3>1
    <3> QED BY <3>2
  <2>2. wanted = requested
    BY <2>1 DEF wanted
  <2>3. i \in DOMAIN kept /\ shown[i] = kept[i]
    BY <1>9, <1>12
  <2>4. PICK place : IsTaken(kept, wanted, place)
    BY <1>8
  <2>5. place[i] \in DOMAIN requested /\ kept[i] = requested[place[i]]
    BY <2>2, <2>3, <2>4 DEF IsTaken
  <2>6. PICK from : IsTaken(requested, asked, from)
    BY <1>4
  <2>7. from[place[i]] \in DOMAIN asked /\ requested[place[i]] = asked[from[place[i]]]
    BY <2>5, <2>6 DEF IsTaken
  <2> QED BY <2>3, <2>5, <2>7
<1>14. ASSUME \A c \in DOMAIN asked : asked[c] \notin names, NEW i \in DOMAIN shown
       PROVE  \E p \in 1..3 : shown[i] = Busiest(rows)[p]
  <2>1. requested = <<>>
    <3> SUFFICES ASSUME requested # <<>> PROVE FALSE
      OBVIOUS
    <3>1. 1 \in DOMAIN requested
      BY <1>4
    <3>2. PICK from : IsTaken(requested, asked, from)
      BY <1>4
    <3>3. from[1] \in DOMAIN asked /\ requested[1] = asked[from[1]]
      BY <3>1, <3>2 DEF IsTaken
    <3>4. requested[1] \in names
      BY <1>1, <1>4, <3>1
    <3> QED BY <1>14, <3>3, <3>4
  <2>2. wanted = f
    BY <2>1 DEF wanted, f
  <2>3. i \in DOMAIN kept /\ shown[i] = kept[i]
    BY <1>9, <1>14
  <2>4. PICK place : IsTaken(kept, wanted, place)
    BY <1>8
  <2>5. place[i] \in DOMAIN f /\ kept[i] = f[place[i]]
    BY <2>2, <2>3, <2>4 DEF IsTaken
  <2>6. Len(f) \in Nat /\ DOMAIN f = 1..Len(f)
    BY <1>6
  <2>7. place[i] \in 1..3
    <3>1. Len(f) <= 3
      BY <1>6
    <3> DEFINE at == place[i]  n == Len(f)
    <3>2. at \in 1..n /\ n \in Nat
      BY <2>5, <2>6
    <3> HIDE DEF at, n
    <3>3. ASSUME n <= 3 PROVE at \in 1..3
      BY <3>2, <3>3
    <3> QED BY <3>1, <3>3 DEF at, n
  <2> QED BY <1>6, <2>3, <2>5, <2>7
<1> DEFINE slot == [name \in names |-> SlotOf(packages, name)]
<1>13. /\ Len(shown) <= MaxSeries
       /\ \A i \in DOMAIN shown : shown[i] \in names /\ slot[shown[i]] \in 1..MaxSeries
       /\ \A a, b \in names : a # b => slot[a] # slot[b]
       /\ (\E i \in DOMAIN asked : asked[i] \in names) =>
            \A i \in DOMAIN shown : \E k \in DOMAIN asked : shown[i] = asked[k]
       /\ (\A i \in DOMAIN asked : asked[i] \notin names) =>
            \A i \in DOMAIN shown : \E p \in 1..3 : shown[i] = Busiest(rows)[p]
  BY <1>9, <1>10, <1>11, <1>12, <1>14
<1> QED BY <1>13, Zenon DEF shown, names, packages

-----------------------------------------------------------------------------
(* What is drawn. *)

Readings == [known : BOOLEAN, value : Int]
\* The buckets from a to b, each with a reading, and none on either side.
Stretch(a, b) == [k \in 1..(b - a + 1) |-> a + k - 1]
IsOpen(points, a, b) ==
  /\ a \in 1..b /\ \A i \in a..b : points[i].known
  /\ a # 1 => ~points[a - 1].known
IsRun(points, a, b) ==
  /\ b \in DOMAIN points /\ IsOpen(points, a, b)
  /\ b # Len(points) => ~points[b + 1].known
AreRuns(points, lines) ==
  \A l \in DOMAIN lines : \E a, b \in DOMAIN points : lines[l] = Stretch(a, b) /\ IsRun(points, a, b)
IsDrawn(lines, j) == \E l \in DOMAIN lines : \E k \in DOMAIN lines[l] : lines[l][k] = j
Begun(points, i, w) ==
  /\ AreRuns(points, w.lines)
  /\ w.run = <<>> => i = 0 \/ ~points[i].known
  /\ w.run # <<>> => \E a \in 1..i : w.run = Stretch(a, i) /\ IsOpen(points, a, i)
  /\ \A j \in 1..i : points[j].known => IsDrawn(w.lines, j) \/ \E k \in DOMAIN w.run : w.run[k] = j

Walks == [lines : Seq(Seq(Nat)), run : Seq(Nat)]
OneOn(points, i, w) ==
  IF ~points[i].known THEN Flushed(w) ELSE [w EXCEPT !.run = Append(@, i)]

LEMMA FlushedIsAWalk ==
  ASSUME NEW w \in Walks
  PROVE  Flushed(w) \in Walks /\ Flushed(w).run = <<>>
BY DEF Walks, Flushed

\* What the walk along the points has, after each.
LEMMA WalkSteps ==
  ASSUME NEW points \in Seq(Readings)
  PROVE  LET f == Walk(points)  n == Len(points) IN
         /\ f[0] = [lines |-> <<>>, run |-> <<>>]
         /\ \A i \in 0..n : f[i] \in Walks
         /\ \A i \in 1..n : f[i] = OneOn(points, i, f[i - 1])
<1> DEFINE n == Len(points)  D == Walks  a == [lines |-> <<>>, run |-> <<>>]
           step == [i \in 1..n |-> [w \in D |-> OneOn(points, i, w)]]
           f == Walk(points)
<1>1. n \in Nat /\ \A i \in 1..n : points[i] \in Readings
  OBVIOUS
<1>2. a \in D
  BY DEF Walks
<1>3. ASSUME NEW i \in 1..n, NEW w \in D PROVE OneOn(points, i, w) \in D
  <2>1. [w EXCEPT !.run = Append(@, i)] \in Walks
    <3>1. w.run \in Seq(Nat) /\ i \in Nat
      BY <1>1 DEF Walks
    <3>2. Append(w.run, i) \in Seq(Nat)
      BY <3>1
    <3> QED BY <3>2 DEF Walks
  <2> QED BY <2>1, FlushedIsAWalk DEF OneOn
<1> HIDE DEF n, D, a
<1>4. step \in [1..n -> [D -> D]]
  BY <1>3
<1>5. PICK g \in [0..n -> D] : IsBuilt(g, n, a, step)
  <2> HIDE DEF step
  <2>1. \E g \in [0..n -> D] : IsBuilt(g, n, a, step)
    BY <1>1, <1>2, <1>4, Recursion
  <2> QED BY <2>1
<1>6. ASSUME NEW i \in 1..n
      PROVE  i \in 0..n /\ i - 1 \in 0..n /\ i # 0 /\ g[i] = OneOn(points, i, g[i - 1])
  <2>1. i \in 0..n /\ i - 1 \in 0..n /\ g[i - 1] \in D /\ i # 0
    BY <1>1
  <2>2. step[i][g[i - 1]] = OneOn(points, i, g[i - 1])
    BY <2>1
  <2> HIDE DEF step
  <2> QED BY <1>5, <2>1, <2>2 DEF IsBuilt
<1> HIDE DEF step
<1>7. g = [i \in 0..n |-> IF i = 0 THEN a ELSE OneOn(points, i, g[i - 1])]
  <2>1. ASSUME NEW i \in 0..n, i # 0 PROVE i \in 1..n
    BY <1>1, <2>1
  <2>2. g[0] = a
    BY <1>5 DEF IsBuilt
  <2>3. ASSUME NEW i \in 0..n PROVE g[i] = IF i = 0 THEN a ELSE OneOn(points, i, g[i - 1])
    BY <1>6, <2>1, <2>2
  <2> QED BY <2>3
<1>8. f = [i \in 0..n |-> IF i = 0 THEN a ELSE OneOn(points, i, f[i - 1])]
  BY <1>7 DEF Walk, OneOn, a, n
<1>9. f[0] = a /\ \A i \in 1..n : f[i] = OneOn(points, i, f[i - 1])
  <2>1. 0 \in 0..n /\ \A i \in 1..n : i \in 0..n /\ i # 0
    BY <1>1
  <2> HIDE DEF f
  <2> QED BY <1>8, <2>1
<1> HIDE DEF f
<1> DEFINE S == {i \in 0..n : f[i] \in D}
<1>10. 0 \in S /\ \A i \in 1..n : i - 1 \in S => i \in S
  BY <1>1, <1>2, <1>3, <1>9
<1> HIDE DEF S
<1>11. \A i \in 0..n : i \in S
  BY <1>1, <1>10, Onward
<1>12. \A i \in 0..n : f[i] \in D
  BY <1>11 DEF S
<1> QED BY <1>9, <1>12 DEF f, n, a, D

\* Lines with one more of them.
LEMMA FlushedIsRuns ==
  ASSUME NEW points \in Seq(Readings), NEW w \in Walks, NEW i \in 0..Len(points),
         Begun(points, i, w), i # Len(points) => ~points[i + 1].known
  PROVE  /\ AreRuns(points, Flushed(w).lines)
         /\ \A j \in 1..i : points[j].known => IsDrawn(Flushed(w).lines, j)
<1>1. CASE w.run = <<>>
  <2>1. Flushed(w) = w
    BY <1>1 DEF Flushed
  <2>2. \A j \in 1..i : points[j].known => IsDrawn(w.lines, j)
    BY <1>1 DEF Begun
  <2> QED BY <2>1, <2>2 DEF Begun
<1>2. CASE w.run # <<>>
  <2> DEFINE more == Append(w.lines, w.run)  m == Len(w.lines)
  <2>1. Flushed(w).lines = more
    BY <1>2 DEF Flushed
  <2>2. /\ w.lines \in Seq(Seq(Nat)) /\ w.run \in Seq(Nat) /\ m \in Nat
        /\ DOMAIN w.lines = 1..m /\ DOMAIN more = 1..(m + 1) /\ more[m + 1] = w.run
        /\ \A l \in 1..m : more[l] = w.lines[l]
    BY DEF Walks
  <2> HIDE DEF more, m
  <2>3. PICK a \in 1..i : w.run = Stretch(a, i) /\ IsOpen(points, a, i)
    BY <1>2 DEF Begun
  <2>4. i \in DOMAIN points /\ a \in DOMAIN points
    BY <2>3
  <2>5. IsRun(points, a, i)
    BY <2>3, <2>4 DEF IsRun
  <2>6. AreRuns(points, more)
    <3> SUFFICES ASSUME NEW l \in 1..(m + 1)
                 PROVE  \E c, d \in DOMAIN points : more[l] = Stretch(c, d) /\ IsRun(points, c, d)
      BY <2>2 DEF AreRuns
    <3>1. CASE l = m + 1
      BY <2>2, <2>3, <2>4, <2>5, <3>1
    <3>2. CASE l # m + 1
      <4>1. l \in 1..m
        BY <2>2, <3>2
      <4> QED BY <2>2, <4>1 DEF Begun, AreRuns
    <3> QED BY <3>1, <3>2
  <2>7. ASSUME NEW j \in 1..i, points[j].known PROVE IsDrawn(more, j)
    <3>1. m + 1 \in 1..(m + 1) /\ \A l \in 1..m : l \in 1..(m + 1)
      BY <2>2
    <3>2. CASE IsDrawn(w.lines, j)
      BY <2>2, <3>1, <3>2 DEF IsDrawn
    <3>3. CASE \E k \in DOMAIN w.run : w.run[k] = j
      BY <2>2, <3>1, <3>3 DEF IsDrawn
    <3> QED BY <2>7, <3>2, <3>3 DEF Begun
  <2> QED BY <2>1, <2>6, <2>7
<1> QED BY <1>1, <1>2

LEMMA StretchGrows ==
  ASSUME NEW a \in Nat, NEW i \in Nat, a <= i
  PROVE  /\ Append(Stretch(a, i), i + 1) = Stretch(a, i + 1)
         /\ Append(<<>>, i) = Stretch(i, i)
<1>1. Stretch(a, i) \in Seq(Nat) /\ Len(Stretch(a, i)) = i - a + 1
  BY DEF Stretch
<1> DEFINE s == Append(Stretch(a, i), i + 1)  t == Stretch(a, i + 1)
<1>2. s \in Seq(Nat) /\ Len(s) = i - a + 2 /\ s[i - a + 2] = i + 1
      /\ \A k \in 1..(i - a + 1) : s[k] = a + k - 1
  BY <1>1 DEF Stretch
<1>3. t \in Seq(Nat) /\ Len(t) = i - a + 2 /\ \A k \in 1..(i - a + 2) : t[k] = a + k - 1
  BY DEF Stretch
<1> HIDE DEF s, t
<1>4. ASSUME NEW k \in 1..(i - a + 2) PROVE s[k] = t[k]
  <2>1. k \in 1..(i - a + 1) \/ k = i - a + 2
    OBVIOUS
  <2>2. a + (i - a + 2) - 1 = i + 1 /\ i - a + 2 \in 1..(i - a + 2)
    OBVIOUS
  <2> QED BY <1>2, <1>3, <2>1, <2>2
<1>5. s = t
  BY <1>2, <1>3, <1>4, SeqEqual
<1>6. Append(<<>>, i) = Stretch(i, i)
  BY DEF Stretch
<1> QED BY <1>5, <1>6 DEF s, t

\* The walk, one point on.
LEMMA WalkGoesOn ==
  ASSUME NEW points \in Seq(Readings), NEW w \in Walks, NEW i \in 1..Len(points),
         Begun(points, i - 1, w)
  PROVE  Begun(points, i, OneOn(points, i, w))
<1> DEFINE u == OneOn(points, i, w)
<1>1. i \in Nat /\ i > 0 /\ i - 1 \in 0..Len(points) /\ i - 1 # Len(points) /\ i - 1 + 1 = i
  OBVIOUS
<1>2. \A j \in 1..i : j = i \/ j \in 1..(i - 1)
  BY <1>1
<1>3. CASE ~points[i].known
  <2>1. u = Flushed(w) /\ u.run = <<>>
    BY <1>3, FlushedIsAWalk DEF OneOn
  <2>2. AreRuns(points, u.lines) /\ \A j \in 1..(i - 1) : points[j].known => IsDrawn(u.lines, j)
    BY <1>1, <1>3, <2>1, FlushedIsRuns
  <2> HIDE DEF u
  <2>3. \A j \in 1..i : points[j].known => IsDrawn(u.lines, j)
    BY <1>2, <1>3, <2>2
  <2>4. Begun(points, i, u)
    BY <1>3, <2>1, <2>2, <2>3 DEF Begun
  <2> QED BY <2>4 DEF u
<1>4. CASE points[i].known
  <2>1. w.run \in Seq(Nat) /\ u.lines = w.lines /\ u.run = Append(w.run, i)
    BY <1>4 DEF OneOn, Walks
  <2> HIDE DEF u
  <2>2. /\ u.run # <<>> /\ Len(w.run) + 1 \in DOMAIN u.run /\ u.run[Len(w.run) + 1] = i
        /\ \A k \in DOMAIN w.run : k \in DOMAIN u.run /\ u.run[k] = w.run[k]
    <3> DEFINE s == w.run  r == u.run
    <3>1. s \in Seq(Nat) /\ i \in Nat /\ r = Append(s, i)
      BY <1>1, <2>1
    <3> HIDE DEF s, r
    <3>2. Len(s) + 1 \in DOMAIN r /\ r[Len(s) + 1] = i
      BY <3>1
    <3>3. \A k \in DOMAIN s : k \in DOMAIN r /\ r[k] = s[k]
      BY <3>1
    <3>4. r # <<>>
      BY <3>2
    <3> QED BY <3>2, <3>3, <3>4 DEF s, r
  <2>3. \E a \in 1..i : u.run = Stretch(a, i) /\ IsOpen(points, a, i)
    <3>1. CASE w.run = <<>>
      <4>1. i # 1 => ~points[i - 1].known
        BY <1>1, <3>1 DEF Begun
      <4>2. \A k \in i..i : k = i
        BY <1>1
      <4>3. IsOpen(points, i, i)
        BY <1>1, <1>4, <4>1, <4>2 DEF IsOpen
      <4>4. u.run = Stretch(i, i)
        BY <1>1, <2>1, <3>1, StretchGrows
      <4> QED BY <1>1, <4>3, <4>4
    <3>2. CASE w.run # <<>>
      <4>1. PICK a \in 1..(i - 1) : w.run = Stretch(a, i - 1) /\ IsOpen(points, a, i - 1)
        BY <3>2 DEF Begun
      <4>2. a \in 1..i /\ a \in Nat /\ i - 1 \in Nat /\ a <= i - 1
        BY <1>1
      <4>3. Append(Stretch(a, i - 1), i - 1 + 1) = Stretch(a, i - 1 + 1)
        <5> DEFINE e == i - 1
        <5>1. e \in Nat /\ a <= e
          BY <4>2
        <5> HIDE DEF e
        <5>2. Append(Stretch(a, e), e + 1) = Stretch(a, e + 1)
          BY <4>2, <5>1, StretchGrows
        <5> QED BY <5>2 DEF e
      <4>4. u.run = Stretch(a, i)
        BY <1>1, <2>1, <4>1, <4>3
      <4>5. \A k \in a..i : k = i \/ k \in a..(i - 1)
        BY <1>1, <4>2
      <4>6. IsOpen(points, a, i)
        BY <1>4, <4>1, <4>2, <4>5 DEF IsOpen
      <4> QED BY <4>2, <4>4, <4>6
    <3> QED BY <3>1, <3>2
  <2>4. ASSUME NEW j \in 1..i, points[j].known
        PROVE  IsDrawn(u.lines, j) \/ \E k \in DOMAIN u.run : u.run[k] = j
    <3>1. CASE j = i
      BY <2>2, <3>1
    <3>2. CASE j \in 1..(i - 1)
      BY <2>1, <2>2, <2>4, <3>2 DEF Begun
    <3> QED BY <1>2, <3>1, <3>2
  <2>5. AreRuns(points, u.lines)
    BY <2>1 DEF Begun
  <2>6. \A j \in 1..i : points[j].known =>
          IsDrawn(u.lines, j) \/ \E k \in DOMAIN u.run : u.run[k] = j
    BY <2>4
  <2>7. Begun(points, i, u)
    BY <2>2, <2>3, <2>5, <2>6 DEF Begun
  <2> QED BY <2>7 DEF u
<1> QED BY <1>3, <1>4

\* Each line is an unbroken run of readings, as long as it goes, so none is drawn across
\* a gap; and each reading is on a line (time-series-chart.tsx:173-217).
THEOREM RunsBridgeNoGap ==
  ASSUME NEW points \in Seq(Readings)
  PROVE  /\ AreRuns(points, Runs(points))
         /\ \A j \in DOMAIN points : points[j].known => IsDrawn(Runs(points), j)
<1> DEFINE n == Len(points)  f == Walk(points)  S == {i \in 0..n : Begun(points, i, f[i])}
<1>1. n \in Nat /\ DOMAIN points = 1..n
  OBVIOUS
<1>2. /\ f[0] = [lines |-> <<>>, run |-> <<>>]
      /\ \A i \in 0..n : f[i] \in Walks
      /\ \A i \in 1..n : f[i] = OneOn(points, i, f[i - 1])
  BY WalkSteps
<1> HIDE DEF f
<1>3. 0 \in S
  <2>1. f[0].lines = <<>> /\ f[0].run = <<>> /\ DOMAIN f[0].lines = {}
    BY <1>2
  <2>2. Begun(points, 0, f[0])
    BY <2>1 DEF Begun, AreRuns
  <2> QED BY <1>1, <2>2
<1>4. ASSUME NEW i \in 1..n, i - 1 \in S PROVE i \in S
  <2>1. i \in 0..n /\ i - 1 \in 0..n /\ f[i - 1] \in Walks /\ Begun(points, i - 1, f[i - 1])
    BY <1>1, <1>2, <1>4
  <2>2. Begun(points, i, OneOn(points, i, f[i - 1]))
    BY <2>1, WalkGoesOn
  <2> QED BY <1>2, <2>1, <2>2
<1>5. \A i \in 1..n : i - 1 \in S => i \in S
  BY <1>4
<1> HIDE DEF S
<1>6. \A i \in 0..n : i \in S
  BY <1>1, <1>3, <1>5, Onward
<1>7. n \in 0..n /\ f[n] \in Walks /\ Begun(points, n, f[n])
  BY <1>1, <1>2, <1>6 DEF S
<1>8. /\ AreRuns(points, Flushed(f[n]).lines)
      /\ \A j \in 1..n : points[j].known => IsDrawn(Flushed(f[n]).lines, j)
  BY <1>7, FlushedIsRuns
<1> QED BY <1>1, <1>8 DEF Runs, f

\* What is pushed down the page is so far below the one above it, and not above where
\* it was; the first stays.
LEMMA PushedIsApart ==
  ASSUME NEW h \in Seq(Int), h # <<>>
  PROVE  /\ Pushed(h) \in [DOMAIN h -> Int] /\ Pushed(h)[1] = h[1]
         /\ \A i \in DOMAIN h : Pushed(h)[i] >= h[i]
         /\ \A i, j \in DOMAIN h : i < j => Pushed(h)[i] + MinLabelGap <= Pushed(h)[j]
<1> DEFINE n == Len(h)  D == Int  a == 0
           Step(i, x) == IF i = 1 THEN h[1] ELSE Greater(h[i], x + MinLabelGap)
           step == [i \in 1..n |-> [x \in D |-> Step(i, x)]]
           y == Pushed(h)
<1>1. n \in Nat /\ n > 0 /\ DOMAIN h = 1..n /\ 1 \in 1..n /\ \A i \in 1..n : h[i] \in Int
  OBVIOUS
<1>2. ASSUME NEW i \in 1..n, NEW x \in Int PROVE Step(i, x) \in Int
  BY <1>1, <1>2 DEF Greater, MinLabelGap
<1>3. a \in D /\ step \in [1..n -> [D -> D]]
  <2> HIDE DEF Step
  <2> QED BY <1>2
<1>4. PICK g \in [0..n -> D] : IsBuilt(g, n, a, step)
  <2> HIDE DEF step, n, D, a
  <2>1. \E g \in [0..n -> D] : IsBuilt(g, n, a, step)
    BY <1>1, <1>3, Recursion
  <2> QED BY <2>1
<1>5. ASSUME NEW i \in 1..n PROVE i \in 0..n /\ i - 1 \in 0..n /\ g[i] = Step(i, g[i - 1])
  <2>1. i \in 0..n /\ i - 1 \in 0..n /\ g[i - 1] \in D
    <3> HIDE DEF n, D
    <3>1. i \in 0..n /\ i - 1 \in 0..n
      BY <1>1
    <3> QED BY <3>1, <1>4
  <2> HIDE DEF Step
  <2>2. step[i][g[i - 1]] = Step(i, g[i - 1])
    BY <2>1
  <2> HIDE DEF step
  <2> QED BY <1>4, <2>1, <2>2 DEF IsBuilt
<1>6. ASSUME NEW i \in 1..n, i # 1 PROVE i - 1 \in 1..n
  BY <1>1, <1>6
<1> DEFINE z == [i \in DOMAIN h |-> g[i]]
<1>7. z = [i \in DOMAIN h |-> IF i = 1 THEN h[1] ELSE Greater(h[i], z[i - 1] + MinLabelGap)]
  <2>1. ASSUME NEW i \in 1..n
        PROVE  g[i] = IF i = 1 THEN h[1] ELSE Greater(h[i], z[i - 1] + MinLabelGap)
    <3>1. CASE i = 1
      BY <1>5, <3>1
    <3>2. CASE i # 1
      <4>1. z[i - 1] = g[i - 1]
        BY <1>1, <1>6, <3>2
      <4> QED BY <1>5, <3>2, <4>1
    <3> QED BY <3>1, <3>2
  <2> QED BY <1>1, <2>1
<1>8. y = [i \in DOMAIN h |-> IF i = 1 THEN h[1] ELSE Greater(h[i], y[i - 1] + MinLabelGap)]
  BY <1>7 DEF Pushed
<1> HIDE DEF y, z, step
<1>9. DOMAIN y = 1..n /\ y[1] = h[1]
      /\ \A i \in 1..n : i # 1 => y[i] = Greater(h[i], y[i - 1] + MinLabelGap)
  BY <1>1, <1>8
<1> DEFINE S == {i \in 0..n : i = 0 \/ y[i] \in Int}
<1>10. ASSUME NEW i \in 1..n PROVE y[i] \in Int
  <2>1. \A k \in 1..n : k - 1 \in S => k \in S
    <3> SUFFICES ASSUME NEW k \in 1..n, k - 1 \in S PROVE y[k] \in Int
      BY <1>1
    <3>1. CASE k = 1
      BY <1>1, <1>9, <3>1
    <3>2. CASE k # 1
      <4>1. y[k - 1] \in Int /\ h[k] \in Int
        BY <1>1, <1>6, <3>2
      <4> QED BY <1>9, <3>2, <4>1 DEF Greater, MinLabelGap
    <3> QED BY <3>1, <3>2
  <2>2. 0 \in S
    BY <1>1
  <2> HIDE DEF S
  <2>3. \A k \in 0..n : k \in S
    BY <1>1, <2>1, <2>2, Onward
  <2> QED BY <1>1, <1>5, <2>3 DEF S
<1>11. ASSUME NEW i \in 1..n
       PROVE  y[i] >= h[i] /\ (i # 1 => y[i] >= y[i - 1] + MinLabelGap)
  <2>1. CASE i = 1
    BY <1>1, <1>9, <2>1
  <2>2. CASE i # 1
    <3>1. y[i - 1] \in Int /\ h[i] \in Int
      BY <1>1, <1>6, <1>10, <2>2
    <3> QED BY <1>9, <2>2, <3>1 DEF Greater, MinLabelGap
  <2> QED BY <2>1, <2>2
<1>12. ASSUME NEW i \in 1..n, NEW j \in 1..n, i < j PROVE y[i] + MinLabelGap <= y[j]
  <2> DEFINE R == {k \in 0..n : i < k => y[i] + MinLabelGap <= y[k]}
  <2>1. 0 \in R
    BY <1>1
  <2>2. ASSUME NEW k \in 1..n, k - 1 \in R PROVE k \in R
    <3> SUFFICES ASSUME i < k PROVE y[i] + MinLabelGap <= y[k]
      BY <1>1
    <3>1. k # 1 /\ k - 1 \in 1..n /\ y[k] \in Int /\ y[k - 1] \in Int /\ y[i] \in Int
      BY <1>1, <1>6, <1>10
    <3>2. y[k] >= y[k - 1] + MinLabelGap
      BY <1>11, <3>1
    <3>3. CASE k - 1 = i
      BY <3>1, <3>2, <3>3
    <3>4. CASE i < k - 1
      <4>1. y[i] + MinLabelGap <= y[k - 1]
        BY <2>2, <3>4
      <4> DEFINE u == y[i]  v == y[k - 1]  w == y[k]
      <4>2. u \in Int /\ v \in Int /\ w \in Int /\ u + MinLabelGap <= v /\ w >= v + MinLabelGap
        BY <3>1, <3>2, <4>1
      <4> HIDE DEF u, v, w
      <4>3. u + MinLabelGap <= w
        BY <4>2 DEF MinLabelGap
      <4> QED BY <4>3 DEF u, w
    <3> QED BY <3>1, <3>3, <3>4
  <2>3. \A k \in 1..n : k - 1 \in R => k \in R
    BY <2>2
  <2> HIDE DEF R
  <2>4. \A k \in 0..n : k \in R
    BY <1>1, <2>1, <2>3, Onward
  <2> QED BY <1>1, <1>5, <1>12, <2>4 DEF R
<1>13. /\ DOMAIN y = DOMAIN h /\ y = [i \in DOMAIN h |-> y[i]]
  BY <1>1, <1>8, <1>9
<1>14. y \in [DOMAIN h -> Int]
  BY <1>1, <1>10, <1>13
<1> QED BY <1>1, <1>9, <1>11, <1>12, <1>14 DEF y

\* The labels at the ends of converging lines do not overprint each other, and none is
\* below the plot (time-series-chart.tsx:240-268), however many and wherever the lines end.
THEOREM LabelsAreApart ==
  ASSUME NEW heights \in Seq(Int)
  PROVE  LET y == EndLabels(heights) IN
         /\ DOMAIN y = DOMAIN heights
         /\ \A i, j \in DOMAIN y : i < j => y[i] + MinLabelGap <= y[j]
         /\ \A i \in DOMAIN y : y[i] \in Int /\ y[i] <= Baseline
<1> DEFINE y == EndLabels(heights)  n == Len(heights)  s == Sorted(heights, heights)
           p == Pushed(s)  over == Greater(0, p[n] - Baseline)
<1>1. CASE heights = <<>>
  <2>1. y = <<>>
    BY <1>1 DEF EndLabels
  <2> QED BY <1>1, <2>1
<1>2. CASE heights # <<>>
  <2>1. n \in Nat /\ n > 0 /\ n \in 1..n /\ DOMAIN heights = 1..n /\ heights \in [DOMAIN heights -> Int]
    BY <1>2
  <2>2. s \in Seq(Int) /\ Len(s) = n
    BY <2>1, SortedIsAll
  <2> HIDE DEF s
  <2>3. s # <<>> /\ DOMAIN s = 1..n
    BY <2>1, <2>2
  <2>4. /\ p \in [1..n -> Int]
        /\ \A i, j \in 1..n : i < j => p[i] + MinLabelGap <= p[j]
    BY <2>2, <2>3, PushedIsApart
  <2>5. y = [i \in 1..n |-> p[i] - over]
    BY <1>2, <2>1 DEF EndLabels, s
  <2> HIDE DEF p
  <2>6. over \in Int /\ over >= p[n] - Baseline
    BY <2>1, <2>4 DEF Greater, Baseline, PlotTop, PlotHeight
  <2> HIDE DEF over, y
  <2>7. ASSUME NEW i \in 1..n PROVE p[i] \in Int /\ p[i] <= p[n] /\ y[i] = p[i] - over
    BY <2>1, <2>4, <2>5 DEF MinLabelGap
  <2>8. ASSUME NEW i \in 1..n PROVE y[i] \in Int /\ y[i] <= Baseline
    <3> DEFINE u == p[i]  v == p[n]
    <3>1. u \in Int /\ v \in Int /\ u <= v /\ y[i] = u - over /\ over >= v - Baseline /\ over \in Int
      BY <2>1, <2>6, <2>7
    <3> HIDE DEF u, v
    <3> QED BY <3>1 DEF Baseline, PlotTop, PlotHeight
  <2>9. ASSUME NEW i \in 1..n, NEW j \in 1..n, i < j PROVE y[i] + MinLabelGap <= y[j]
    BY <2>4, <2>6, <2>7, <2>9 DEF MinLabelGap
  <2>10. DOMAIN y = 1..n
    BY <2>5
  <2> QED BY <2>1, <2>8, <2>9, <2>10 DEF y
<1> QED BY <1>1, <1>2

-----------------------------------------------------------------------------
(* The config of a group. *)

\* What normalisePath leaves out of a path, and takes back.
Special == {Void, ".", ".."}

\* The stack of names grows by a plain one and loses its top by "..".
LEMMA StackSteps ==
  ASSUME NEW T, NEW s \in Seq(T)
  PROVE  /\ Stack(s) \in [0..Len(s) -> Seq(T \ Special)] /\ Stack(s)[0] = <<>>
         /\ \A i \in 1..Len(s) :
              Stack(s)[i] = IF s[i] \in {Void, "."} THEN Stack(s)[i - 1]
                            ELSE IF s[i] = ".." THEN SubSeq(Stack(s)[i - 1], 1, Len(Stack(s)[i - 1]) - 1)
                            ELSE Append(Stack(s)[i - 1], s[i])
<1> DEFINE n == Len(s)
           D == Seq(T \ Special)
           Next(x, name) == IF name \in {Void, "."} THEN x
                            ELSE IF name = ".." THEN SubSeq(x, 1, Len(x) - 1) ELSE Append(x, name)
           step == [i \in 1..n |-> [x \in D |-> Next(x, s[i])]]
           f == Stack(s)
<1>1. n \in Nat /\ \A i \in 1..n : s[i] \in T
  OBVIOUS
<1>2. <<>> \in D
  OBVIOUS
<1>3. ASSUME NEW x \in D, NEW name \in T PROVE Next(x, name) \in D
  <2>1. CASE name \in {Void, "."}
    BY <2>1
  <2>2. CASE name \notin {Void, "."} /\ name = ".."
    <3>1. SubSeq(x, 1, Len(x) - 1) \in D
      <4>1. Len(x) \in Nat /\ \A i \in 1..Len(x) : x[i] \in T \ Special
        OBVIOUS
      <4>2. \A i \in 1..(Len(x) - 1) : i \in 1..Len(x)
        OBVIOUS
      <4> QED BY <4>1, <4>2, SubSeqProperties
    <3> QED BY <2>2, <3>1
  <2>3. CASE name \notin Special
    <3>1. Append(x, name) \in D
      BY <2>3
    <3> QED BY <2>3, <3>1 DEF Special
  <2> QED BY <2>1, <2>2, <2>3 DEF Special
<1> HIDE DEF Next, D
<1>4. step \in [1..n -> [D -> D]]
  BY <1>1, <1>3
<1>5. PICK g \in [0..n -> D] : IsBuilt(g, n, <<>>, step)
  <2> HIDE DEF step, n
  <2> QED BY <1>1, <1>2, <1>4, Recursion
<1>6. ASSUME NEW i \in 1..n PROVE i \in 0..n /\ i - 1 \in 0..n /\ i # 0 /\ g[i] = Next(g[i - 1], s[i])
  <2>1. i - 1 \in 0..n /\ g[i - 1] \in D
    BY <1>1
  <2>2. step[i][g[i - 1]] = Next(g[i - 1], s[i])
    BY <2>1
  <2> HIDE DEF step
  <2> QED BY <1>5, <2>1, <2>2 DEF IsBuilt
<1>7. g = [i \in 0..n |-> IF i = 0 THEN <<>> ELSE Next(g[i - 1], s[i])]
  <2> HIDE DEF step, n
  <2> QED BY <1>1, <1>5, <1>6 DEF IsBuilt
<1>8. f = [i \in 0..n |-> IF i = 0 THEN <<>> ELSE Next(f[i - 1], s[i])]
  BY <1>7 DEF Stack, Next
<1> HIDE DEF f, step, n
<1>9. /\ DOMAIN f = 0..n /\ f[0] = <<>>
      /\ \A i \in 1..n : f[i] = Next(f[i - 1], s[i])
  <2>1. \A i \in 0..n : f[i] = IF i = 0 THEN <<>> ELSE Next(f[i - 1], s[i])
    BY <1>8
  <2>2. 0 \in 0..n
    BY <1>1
  <2> QED BY <1>6, <1>8, <2>1, <2>2
<1>10. \A i \in 0..n : f[i] \in D
  <2> DEFINE S == {j \in 0..n : f[j] \in D}
  <2>1. 0 \in S
    BY <1>1, <1>2, <1>9
  <2>2. \A i \in 1..n : i - 1 \in S => i \in S
    BY <1>1, <1>3, <1>6, <1>9
  <2> HIDE DEF S
  <2>3. \A i \in 0..n : i \in S
    BY <1>1, <2>1, <2>2, Onward
  <2> QED BY <2>3 DEF S
<1>11. f \in [0..n -> D]
  BY <1>8, <1>10
<1> QED BY <1>9, <1>11 DEF f, n, D, Next

\* A path is its own normal form exactly if it is the root or has none of these steps.
LEMMA NormalIsClean ==
  ASSUME NEW T, NEW s \in Seq(T), s # <<>>
  PROVE  s = Spelled(NormalisePath(s)) <=> IsClean(s)
<1> DEFINE n == Len(s)  f == Stack(s)
<1>1. n \in Nat /\ n # 0 /\ DOMAIN s = 1..n
  OBVIOUS
<1>2. /\ f \in [0..n -> Seq(T \ Special)] /\ f[0] = <<>>
      /\ \A i \in 1..n :
           f[i] = IF s[i] \in {Void, "."} THEN f[i - 1]
                  ELSE IF s[i] = ".." THEN SubSeq(f[i - 1], 1, Len(f[i - 1]) - 1)
                  ELSE Append(f[i - 1], s[i])
  BY StackSteps
<1>3. NormalisePath(s) = f[n] /\ f[n] \in Seq(T \ Special)
  BY <1>1, <1>2 DEF NormalisePath
<1> HIDE DEF f
<1>4. ASSUME s = <<Void>> PROVE s = Spelled(NormalisePath(s))
  <2>1. n = 1 /\ s[1] = Void
    BY <1>4
  <2>2. f[1] = f[0]
    BY <1>2, <2>1
  <2> QED BY <1>2, <1>3, <1>4, <2>1, <2>2 DEF Spelled
<1>5. ASSUME \A i \in DOMAIN s : s[i] \notin Special PROVE s = Spelled(NormalisePath(s))
  <2> DEFINE S == {i \in 0..n : Len(f[i]) = i /\ \A j \in 1..i : f[i][j] = s[j]}
  <2>1. 0 \in S
    BY <1>1, <1>2
  <2>2. ASSUME NEW i \in 1..n, i - 1 \in S PROVE i \in S
    <3>1. f[i] = Append(f[i - 1], s[i]) /\ f[i - 1] \in Seq(T \ Special)
      <4>1. i - 1 \in 0..n /\ i \in DOMAIN s
        BY <1>1
      <4>2. s[i] \notin {Void, "."} /\ s[i] # ".."
        BY <1>5, <4>1 DEF Special
      <4> QED BY <1>2, <4>1, <4>2
    <3>2. Len(f[i - 1]) = i - 1 /\ \A j \in 1..(i - 1) : f[i - 1][j] = s[j]
      BY <2>2
    <3>3. Len(f[i]) = i /\ \A j \in 1..(i - 1) : f[i][j] = f[i - 1][j]
      BY <3>1, <3>2
    <3>4. f[i][i] = s[i]
      BY <3>1, <3>2
    <3> QED BY <3>2, <3>3, <3>4
  <2>3. n \in S
    <3> HIDE DEF S, n
    <3>1. \A i \in 1..n : i - 1 \in S => i \in S
      BY <2>2
    <3>2. \A i \in 0..n : i \in S
      BY <1>1, <2>1, <3>1, Onward
    <3> QED BY <1>1, <3>2
  <2>4. f[n] = s
    BY <1>1, <1>3, <2>3
  <2> QED BY <1>3, <2>4 DEF Spelled
<1>6. ASSUME s = Spelled(NormalisePath(s)) PROVE IsClean(s)
  <2>1. CASE f[n] = <<>>
    BY <1>3, <1>6, <2>1 DEF Spelled, IsClean
  <2>2. CASE f[n] # <<>>
    <3>1. s = f[n]
      BY <1>3, <1>6, <2>2 DEF Spelled
    <3>2. \A i \in DOMAIN s : s[i] \in T \ Special
      BY <1>3, <3>1
    <3> QED BY <3>2 DEF IsClean, Special
  <2> QED BY <2>1, <2>2
<1> QED BY <1>4, <1>5, <1>6 DEF IsClean, Special

\* The dashboard and the box judge a path in two programs, one with a stack of names
\* and one with path.Clean (settings.ts:318, deviceconfig.go:81).  What the form saves
\* is what the box writes, but for the directory of the agent and its own config.
THEOREM PathsAreAgreed ==
  ASSUME NEW path, NEW own, path.segments \in Seq(STRING), path.segments # <<>>
  PROVE  CheckPath(path, own) <=>
           CheckConfigPath(path) /\ path.segments # OwnDirectory /\ path.segments # own
<1> DEFINE s == path.segments
<1>1. s = Spelled(NormalisePath(s)) <=> IsClean(s)
  BY NormalIsClean
<1>2. IsWithin(OwnDirectory, OwnDirectory)
  BY DEF IsWithin, OwnDirectory
<1>3. (\A root \in SystemRoots \cup {OwnDirectory} : ~IsWithin(s, root)) <=>
        (\A root \in SystemRoots : ~IsWithin(s, root)) /\ ~IsWithin(s, OwnDirectory)
  OBVIOUS
<1> HIDE DEF s
<1>4. ~IsWithin(s, OwnDirectory) <=>
        ~(IsWithin(s, OwnDirectory) /\ s # OwnDirectory) /\ s # OwnDirectory
  BY <1>2
<1> QED BY <1>1, <1>3, <1>4 DEF CheckPath, CheckConfigPath, s


Piece == [token : BOOLEAN, name : STRING, quoted : BOOLEAN]

LEMMA SubstitutedTokens ==
  ASSUME NEW pieces \in Seq(Piece),
         NEW device, \A name \in TokensOf(pieces) : name \in Placeholders /\ device[name] # Void
  PROVE  LET text == Substituted(pieces, device) IN
         /\ DOMAIN text = DOMAIN pieces
         /\ \A i \in DOMAIN pieces :
              /\ ~text[i].token /\ text[i].quoted = pieces[i].quoted
              /\ text[i].name = IF pieces[i].token THEN device[pieces[i].name] ELSE pieces[i].name
<1>0. \A i \in DOMAIN pieces : pieces[i] \in Piece
  OBVIOUS
<1> DEFINE text == Substituted(pieces, device)
<1>1. DOMAIN text = DOMAIN pieces
  BY DEF Substituted
<1>2. ASSUME NEW i \in DOMAIN pieces
      PROVE  /\ ~text[i].token /\ text[i].quoted = pieces[i].quoted
             /\ text[i].name = IF pieces[i].token THEN device[pieces[i].name] ELSE pieces[i].name
  <2>1. pieces[i] \in Piece
    BY <1>0
  <2>2. text[i] = IF pieces[i].token /\ pieces[i].name \in Placeholders /\ device[pieces[i].name] # Void
                  THEN [pieces[i] EXCEPT !.token = FALSE, !.name = device[pieces[i].name]]
                  ELSE pieces[i]
    BY DEF Substituted, IsSet
  <2>3. CASE pieces[i].token
    <3>1. pieces[i].name \in TokensOf(pieces)
      BY <2>3 DEF TokensOf
    <3>2. text[i] = [pieces[i] EXCEPT !.token = FALSE, !.name = device[pieces[i].name]]
      BY <2>2, <2>3, <3>1
    <3> HIDE DEF text
    <3> QED BY <2>1, <2>3, <3>2 DEF Piece
  <2>4. CASE ~pieces[i].token
    <3>1. text[i] = pieces[i]
      BY <2>2, <2>4
    <3> HIDE DEF text
    <3> QED BY <2>4, <3>1
  <2> QED BY <2>3, <2>4
<1> QED BY <1>1, <1>2

IsTemplate(template) ==
  /\ template.pieces \in Seq(Piece)
  /\ \A i \in DOMAIN template.pieces : template.pieces[i].token \/ template.pieces[i].quoted

\* What a group has been saved with reaches every box that says enough of itself
\* (deviceConfig.ts:126-209): the hub refuses it for an empty value alone, and else
\* sends a file of that path without a token in it, whose places hold the text of the
\* template or what this box says.
THEOREM SavedConfigsArrive ==
  ASSUME NEW form, NEW device, NEW plain, SavesGroup(form), form.hasPath,
         IsTemplate(form.template)
  PROVE  LET pieces == form.template.pieces
             config == RenderConfig(SavedGroup(form), device, plain)
             empty == {name \in TokensOf(pieces) : device[name] = Void}
         IN IF empty # {} THEN config = NotSent("empty", empty)
            ELSE /\ config.what = "file" /\ config.path = form.path
                 /\ TokensOf(config.text) = {} /\ DOMAIN config.text = DOMAIN pieces
                 /\ \A i \in DOMAIN pieces : config.text[i].name =
                      IF pieces[i].token THEN device[pieces[i].name] ELSE pieces[i].name
<1> DEFINE pieces == form.template.pieces
           group == SavedGroup(form)
           config == RenderConfig(group, device, plain)
           empty == {name \in TokensOf(pieces) : device[name] = Void}
           rendered == RenderTemplate(pieces, device)
<1>1. /\ TokensOf(pieces) \subseteq Placeholders /\ form.template.sound
      /\ \A i \in DOMAIN pieces : pieces[i].token => pieces[i].quoted
  BY DEF SavesGroup, CheckConfigTemplate
<1>2. /\ pieces \in Seq(Piece)
      /\ \A i \in DOMAIN pieces : pieces[i].quoted
  BY <1>1 DEF IsTemplate
<1>3. group.there /\ group.configured /\ group.path = form.path /\ group.template = form.template
  BY DEF SavesGroup, SavedGroup
<1>4. TokensOf(pieces) \ Placeholders = {}
      /\ {name \in TokensOf(pieces) \cap Placeholders : ~IsSet(device, name)} = empty
  BY <1>1 DEF IsSet
<1>5. rendered = [reason |-> IF empty # {} THEN "empty" ELSE "none", about |-> empty,
                  text |-> Substituted(pieces, device)]
  BY <1>4 DEF RenderTemplate
<1> HIDE DEF empty, rendered, group
<1>6. config = IF rendered.reason # "none" THEN NotSent(rendered.reason, rendered.about)
               ELSE IF ~IsJson(form.template, rendered.text, plain) THEN NotSent("json", {})
               ELSE [what |-> "file", path |-> form.path, text |-> rendered.text]
  BY <1>3 DEF RenderConfig, rendered
<1>7. ASSUME empty # {} PROVE config = NotSent("empty", empty)
  BY <1>5, <1>6, <1>7
<1>8. ASSUME empty = {}
      PROVE  /\ config.what = "file" /\ config.path = form.path
             /\ TokensOf(config.text) = {} /\ DOMAIN config.text = DOMAIN pieces
             /\ \A i \in DOMAIN pieces : config.text[i].name =
                  IF pieces[i].token THEN device[pieces[i].name] ELSE pieces[i].name
  <2> DEFINE text == Substituted(pieces, device)
  <2>1. rendered.reason = "none" /\ rendered.text = text
    BY <1>5, <1>8
  <2>2. \A name \in TokensOf(pieces) : name \in Placeholders /\ device[name] # Void
    BY <1>1, <1>8 DEF empty
  <2>3. /\ DOMAIN text = DOMAIN pieces
        /\ \A i \in DOMAIN pieces :
             /\ ~text[i].token /\ text[i].quoted = pieces[i].quoted
             /\ text[i].name = IF pieces[i].token THEN device[pieces[i].name] ELSE pieces[i].name
    BY <1>2, <2>2, SubstitutedTokens
  <2> HIDE DEF text, pieces
  <2>4. IsJson(form.template, text, plain)
    BY <1>1, <1>2, <2>3 DEF IsJson, pieces
  <2>5. config = [what |-> "file", path |-> form.path, text |-> text]
    BY <1>6, <2>1, <2>4
  <2>6. TokensOf(text) = {}
    BY <2>3 DEF TokensOf
  <2> HIDE DEF config
  <2> QED BY <2>3, <2>5, <2>6
<1> QED BY <1>7, <1>8 DEF config, group, empty


LEMMA TmpIsAllowed ==
  ASSUME NEW file \in {"aegis_config.json", "atlas_config.json", "config.json", "cosmog.json"}
  PROVE  CheckConfigPath(Path(TRUE, <<"data", "local", "tmp", file>>))
<1> DEFINE s == <<"data", "local", "tmp", file>>
<1>1. /\ s \in Seq({"data", "local", "tmp", file}) /\ s # <<>> /\ Len(s) = 4 /\ DOMAIN s = 1..4
      /\ s[1] = "data" /\ s[2] = "local" /\ s[3] = "tmp" /\ s[4] = file
  OBVIOUS
<1> HIDE DEF s
<1>2. IsClean(s)
  <2>1. \A i \in DOMAIN s : i = 1 \/ i = 2 \/ i = 3 \/ i = 4
    BY <1>1
  <2>2. \A i \in DOMAIN s : s[i] \notin {Void, ".", ".."}
    BY <1>1, <2>1 DEF Void
  <2> QED BY <2>2 DEF IsClean
<1>3. s = Spelled(NormalisePath(s))
  BY <1>1, <1>2, NormalIsClean
<1>4. ~IsWithin(s, OwnDirectory)
  <2>1. DOMAIN OwnDirectory = 1..3 /\ OwnDirectory[2] = "adb"
    BY DEF OwnDirectory
  <2> HIDE DEF OwnDirectory
  <2> QED BY <1>1, <2>1 DEF IsWithin
<1>5. ASSUME NEW root \in SystemRoots PROVE ~IsWithin(s, root)
  <2>1. DOMAIN root = 1..1 /\ root[1] # "data"
    BY DEF SystemRoots
  <2> QED BY <1>1, <2>1 DEF IsWithin
<1> QED BY <1>3, <1>4, <1>5 DEF CheckConfigPath, Path, s

\* Every preset the form can be filled with is one it saves (groups-section.tsx:50).
THEOREM PresetsAreSaved ==
  ASSUME NEW preset \in Presets, NEW form,
         DOMAIN form = {"package", "hasPath", "path", "hasTemplate", "template"},
         form = [field \in DOMAIN form |-> form[field]]
  PROVE  SavesGroup(ApplyPreset(form, preset))
<1> DEFINE after == ApplyPreset(form, preset)
<1>1. /\ preset.package # "wrong"
      /\ \E file \in {"aegis_config.json", "atlas_config.json", "config.json", "cosmog.json"} :
           preset.path = Path(TRUE, <<"data", "local", "tmp", file>>)
      /\ \E names \in {<<"device.name">>, <<"device.name", "device.publicIp">>} :
           preset.template = [sound |-> TRUE, pieces |-> [i \in DOMAIN names |-> Token(names[i], TRUE)]]
  <2> DEFINE In(file) == Path(TRUE, <<"data", "local", "tmp", file>>)
             Naming(names) == [sound |-> TRUE, pieces |-> [i \in DOMAIN names |-> Token(names[i], TRUE)]]
             Of(package, file, names) == [package |-> package, path |-> In(file), template |-> Naming(names)]
  <2>1. Presets = {Of("aegis", "aegis_config.json", <<"device.name">>),
                   Of("atlas", "atlas_config.json", <<"device.name">>),
                   Of("gocheats", "config.json", <<"device.name">>),
                   Of("cosmog", "cosmog.json", <<"device.name", "device.publicIp">>)}
    BY Zenon DEF Presets
  <2> HIDE DEF In, Naming
  <2>2. \E package \in {"aegis", "atlas", "gocheats", "cosmog"} :
        \E file \in {"aegis_config.json", "atlas_config.json", "config.json", "cosmog.json"} :
        \E names \in {<<"device.name">>, <<"device.name", "device.publicIp">>} :
          preset = Of(package, file, names)
    BY <2>1
  <2>3. /\ preset.package # "wrong"
        /\ \E file \in {"aegis_config.json", "atlas_config.json", "config.json", "cosmog.json"} :
             preset.path = In(file)
        /\ \E names \in {<<"device.name">>, <<"device.name", "device.publicIp">>} :
             preset.template = Naming(names)
    BY <2>2
  <2> QED BY <2>3, Zenon DEF In, Naming
<1>2. CheckConfigPath(preset.path)
  BY <1>1, TmpIsAllowed
<1>3. CheckConfigTemplate(preset.template)
  <2>1. PICK names \in {<<"device.name">>, <<"device.name", "device.publicIp">>} :
          preset.template = [sound |-> TRUE, pieces |-> [i \in DOMAIN names |-> Token(names[i], TRUE)]]
    BY <1>1
  <2>2. \A i \in DOMAIN names : names[i] \in Placeholders
    BY DEF Placeholders
  <2>3. \A i \in DOMAIN names : preset.template.pieces[i].token /\ preset.template.pieces[i].quoted
                                /\ preset.template.pieces[i].name = names[i]
    BY <2>1 DEF Token
  <2>4. DOMAIN preset.template.pieces = DOMAIN names /\ preset.template.sound
    BY <2>1
  <2> QED BY <2>2, <2>3, <2>4 DEF CheckConfigTemplate, TokensOf
<1>4. /\ after.package = preset.package /\ after.hasPath /\ after.hasTemplate
      /\ after.path = preset.path /\ after.template = preset.template
      /\ after.hasPath = after.hasTemplate
  BY DEF ApplyPreset
<1> QED BY <1>1, <1>2, <1>3, <1>4 DEF SavesGroup

-----------------------------------------------------------------------------
(* The card of an app target. *)

\* A row the scheduler can work with: attempts to make, and a window with both ends
\* or none.
Policies == [enabled : BOOLEAN, approve : BOOLEAN, sources : SUBSET STRING, package : STRING,
             numbers : [Numbers -> Nat], start : STRING, end : STRING]
IsSound(row) ==
  /\ row \in Policies /\ row.numbers["maxAttempts"] >= 1
  /\ row.sources # {} /\ row.package # "wrong"
  /\ WrongTime \notin {row.start, row.end} /\ (row.start = BlankTime <=> row.end = BlankTime)

\* A card as somebody may leave it.
Cards == [enabled : BOOLEAN, approve : BOOLEAN, sources : SUBSET STRING, package : STRING,
          named : BOOLEAN, numbers : [Numbers -> {Junk} \cup {Typed(n) : n \in Int}],
          start : STRING, end : STRING]

LEMMA ParsedIsANumber ==
  ASSUME NEW name \in Numbers, NEW field \in {Junk} \cup {Typed(n) : n \in Int}
  PROVE  /\ ParsedNumber(name, field) \in Nat
         /\ name = "maxAttempts" => ParsedNumber(name, field) >= 1
<1>1. field.value \in Int
  BY DEF Junk, Typed
<1>2. Default(name) \in Nat
  BY DEF Default, Numbers
<1> QED BY <1>1, <1>2 DEF ParsedNumber

\* Whatever is typed into the card of an app target, the row stays one the scheduler
\* can work with (settings.ts:499).
THEOREM SavedTargetsAreSound ==
  ASSUME NEW row, IsSound(row), NEW card \in Cards, NEW feeds, NEW taken
  PROVE  IsSound(Save(row, card, feeds, taken))
<1> DEFINE form == Posted(card)  after == Updated(row, form)
<1>1. CASE RefusesTarget(form, feeds, taken)
  BY <1>1 DEF Save
<1>2. CASE ~RefusesTarget(form, feeds, taken)
  <2>1. Save(row, card, feeds, taken) = after
    BY <1>2 DEF Save
  <2>2. row \in Policies /\ row.numbers["maxAttempts"] >= 1
    BY DEF IsSound
  <2>3. /\ form.enabled \in BOOLEAN /\ form.approve \in BOOLEAN /\ form.sources = card.sources
        /\ form.package = card.package
        /\ form.sources # {} /\ form.package # "wrong"
    BY <1>2 DEF RefusesTarget, RefusesApp, Posted, Cards
  <2>4. \A name \in Numbers : form.numbers[name] = IF card.enabled THEN card.numbers[name] ELSE Unsent
    BY DEF Posted
  <2>5. \A name \in Numbers : card.numbers[name] \in {Junk} \cup {Typed(n) : n \in Int}
    BY DEF Cards
  <2>6. \A name \in Numbers : card.numbers[name].sent
    BY <2>5 DEF Junk, Typed
  <2>7. /\ form.start = IF card.enabled THEN Time(card.start) ELSE NoTime
        /\ form.end = IF card.enabled THEN Time(card.end) ELSE NoTime
    BY DEF Posted
  <2> DEFINE numbers == [name \in Numbers |->
                           IF form.numbers[name].sent THEN ParsedNumber(name, form.numbers[name])
                           ELSE row.numbers[name]]
  <2>8. /\ numbers \in [Numbers -> Nat] /\ numbers["maxAttempts"] >= 1
    <3>1. ASSUME NEW name \in Numbers
          PROVE  numbers[name] \in Nat /\ (name = "maxAttempts" => numbers[name] >= 1)
      <4>1. CASE card.enabled
        <5>1. numbers[name] = ParsedNumber(name, card.numbers[name])
          BY <2>4, <2>6, <4>1
        <5> HIDE DEF numbers
        <5> QED BY <2>5, <5>1, ParsedIsANumber
      <4>2. CASE ~card.enabled
        <5>1. numbers[name] = row.numbers[name]
          BY <2>4, <4>2 DEF Unsent
        <5> HIDE DEF numbers
        <5> QED BY <2>2, <5>1 DEF Policies
      <4> QED BY <4>1, <4>2
    <3>2. "maxAttempts" \in Numbers
      BY DEF Numbers
    <3> QED BY <3>1, <3>2
  <2> DEFINE start == IF SendsWindow(form) THEN form.start.text ELSE row.start
             end == IF SendsWindow(form) THEN form.end.text ELSE row.end
  <2>9. /\ start \in STRING /\ end \in STRING
        /\ WrongTime \notin {start, end} /\ (start = BlankTime <=> end = BlankTime)
    <3>1. CASE card.enabled
      <4>1. /\ form.start.sent /\ form.start.text = card.start /\ form.end.text = card.end
            /\ card.start \in STRING /\ card.end \in STRING
        BY <2>7, <3>1 DEF Time, Cards
      <4>2. start = card.start /\ end = card.end
        BY <4>1 DEF SendsWindow
      <4>3. ~(WrongTime \in {card.start, card.end} \/ (card.start = BlankTime) # (card.end = BlankTime))
        BY <1>2, <4>1 DEF RefusesTarget, SendsWindow
      <4> HIDE DEF start, end
      <4> QED BY <4>1, <4>2, <4>3
    <3>2. CASE ~card.enabled
      <4>1. start = row.start /\ end = row.end
        BY <2>7, <3>2 DEF SendsWindow, NoTime
      <4> HIDE DEF start, end
      <4> QED BY <4>1, <2>2 DEF IsSound, Policies
    <3> QED BY <3>1, <3>2
  <2>10. /\ after \in Policies /\ after.numbers = numbers /\ after.start = start /\ after.end = end
         /\ after.sources = form.sources /\ after.package = form.package
    <3>1. after = [row EXCEPT !.enabled = form.enabled, !.approve = form.approve,
                              !.sources = form.sources, !.package = form.package,
                              !.numbers = numbers, !.start = start, !.end = end]
      BY DEF Updated
    <3>2. form.sources \in SUBSET STRING /\ form.package \in STRING
      BY <2>3 DEF Cards
    <3> HIDE DEF after, numbers, start, end, form
    <3> QED BY <2>2, <2>3, <2>8, <2>9, <3>1, <3>2 DEF Policies
  <2> HIDE DEF after, numbers, start, end, form
  <2> QED BY <2>1, <2>3, <2>8, <2>9, <2>10 DEF IsSound
<1> QED BY <1>1, <1>2

\* A card that was not changed saves what it was opened on; and a card saved with the
\* automatic rollouts off, whatever its locked fields hold, leaves the policy for the
\* day they are turned on again (settings.ts:530-569).
THEOREM PolicyOutlivesTheSwitch ==
  ASSUME NEW row, IsSound(row), NEW feeds, row.sources \subseteq feeds,
         NEW taken, row.package \notin taken,
         NEW card \in Cards, ~card.enabled
  PROVE  /\ Save(row, CardOf(row), feeds, taken) = row
         /\ LET off == Save(row, card, feeds, taken) IN
            off.numbers = row.numbers /\ off.start = row.start /\ off.end = row.end
<1> DEFINE form == Posted(CardOf(row))  locked == Posted(card)
<1>1. /\ row \in Policies /\ row = [field \in DOMAIN row |-> row[field]]
      /\ row.numbers \in [Numbers -> Nat] /\ row.numbers["maxAttempts"] >= 1
  BY DEF IsSound, Policies
<1>2. ASSUME NEW name \in Numbers
      PROVE  ParsedNumber(name, Typed(row.numbers[name])) = row.numbers[name]
  <2>1. row.numbers[name] \in Nat
    BY <1>1
  <2> QED BY <1>1, <2>1 DEF ParsedNumber, Typed
<1>3. /\ form.enabled = row.enabled /\ form.approve = row.approve /\ form.sources = row.sources
      /\ form.package = row.package /\ form.named
      /\ \A name \in Numbers :
           form.numbers[name] = IF row.enabled THEN Typed(row.numbers[name]) ELSE Unsent
      /\ form.start = IF row.enabled THEN Time(row.start) ELSE NoTime
      /\ form.end = IF row.enabled THEN Time(row.end) ELSE NoTime
  BY DEF Posted, CardOf
<1>4. /\ \A name \in Numbers : locked.numbers[name] = Unsent
      /\ locked.start = NoTime /\ locked.end = NoTime
  BY DEF Posted
<1> HIDE DEF form, locked
<1>5. ~RefusesTarget(form, feeds, taken)
  BY <1>3 DEF RefusesTarget, RefusesApp, SendsWindow, IsSound, Time, NoTime
<1>6. [name \in Numbers |-> IF form.numbers[name].sent THEN ParsedNumber(name, form.numbers[name])
                             ELSE row.numbers[name]] = row.numbers
  <2>1. ASSUME NEW name \in Numbers
        PROVE  (IF form.numbers[name].sent THEN ParsedNumber(name, form.numbers[name])
                ELSE row.numbers[name]) = row.numbers[name]
    <3>1. Typed(row.numbers[name]).sent /\ ~Unsent.sent
      BY DEF Typed, Unsent
    <3>2. form.numbers[name] = IF row.enabled THEN Typed(row.numbers[name]) ELSE Unsent
      BY <1>3
    <3> QED BY <1>2, <3>1, <3>2, Zenon
  <2> QED BY <1>1, <2>1
<1>7. /\ (IF SendsWindow(form) THEN form.start.text ELSE row.start) = row.start
      /\ (IF SendsWindow(form) THEN form.end.text ELSE row.end) = row.end
  BY <1>3 DEF SendsWindow, Time, NoTime
<1>8. Updated(row, form) = row
  <2>1. Updated(row, form) =
          [row EXCEPT !.enabled = row.enabled, !.approve = row.approve, !.sources = row.sources,
                      !.package = row.package, !.numbers = row.numbers,
                      !.start = row.start, !.end = row.end]
    BY <1>3, <1>6, <1>7 DEF Updated
  <2> QED BY <1>1, <2>1 DEF Policies
<1>9. Save(row, CardOf(row), feeds, taken) = row
  BY <1>5, <1>8 DEF Save, form
<1>10. ASSUME ~RefusesTarget(locked, feeds, taken)
       PROVE  LET off == Updated(row, locked) IN
              off.numbers = row.numbers /\ off.start = row.start /\ off.end = row.end
  <2>1. [name \in Numbers |-> IF locked.numbers[name].sent
                               THEN ParsedNumber(name, locked.numbers[name])
                               ELSE row.numbers[name]] = row.numbers
    BY <1>1, <1>4 DEF Unsent
  <2>2. ~SendsWindow(locked)
    BY <1>4 DEF SendsWindow, NoTime
  <2>3. Updated(row, locked) =
          [row EXCEPT !.enabled = locked.enabled, !.approve = locked.approve,
                      !.sources = locked.sources, !.package = locked.package,
                      !.numbers = row.numbers, !.start = row.start, !.end = row.end]
    BY <2>1, <2>2 DEF Updated
  <2> QED BY <1>1, <2>3 DEF Policies
<1>11. Save(row, card, feeds, taken) =
         IF RefusesTarget(locked, feeds, taken) THEN row ELSE Updated(row, locked)
  BY DEF Save, locked
<1> QED BY <1>9, <1>10, <1>11
=============================================================================
