---------------------------- MODULE HealthBoard ----------------------------
(***************************************************************************)
(* services/health.ts: one probe per integration, and an answer that is    *)
(* kept for a while.                                                       *)
(*                                                                         *)
(* The probes of one call run beside each other and beside those of other  *)
(* calls; the answer is put together when the last one is in.  A probe     *)
(* takes at most ProbeTime.  Time is counted in parts of CacheTime.        *)
(***************************************************************************)
EXTENDS Integers, FiniteSets

CONSTANTS
  Parts,                 \* the integrations that are looked at
  CacheTime, ProbeTime,
  MaxHealthTime, MaxTurns   \* bounds: the minute, changes of the world

AllParts == {"database", "artifacts", "feed", "rotom", "edge"}

ASSUME HealthAssumption ==
  /\ Parts \subseteq AllParts
  /\ CacheTime \in Nat /\ ProbeTime \in Nat /\ MaxHealthTime \in Nat /\ MaxTurns \in Nat

VARIABLES
  world,    \* what each integration is like
  past,     \* history: what it was like since one unit of time ago, two, ...
  minute,
  cachedAt, \* cached: when, -1 for never
  cachedOf, \*         and the checks
  call,     \* calls of collectHealth under way
  lastAnswer, \* history: the last answer
  turns

healthVars == <<world, past, minute, cachedAt, cachedOf, call, lastAnswer, turns>>

Conditions == [
  database  |-> {"fine", "slow", "dead"},
  artifacts |-> {"fine", "full", "unmeasured", "unreadable"},
  feed      |-> {"none", "disabled", "dead", "lists nothing", "some unusable", "poll failed", "fine"},
  rotom     |-> {"disabled", "dead", "no match", "fine"},
  edge      |-> {"fine", "refuses", "dead"}]

\* checkDatabase, checkArtifacts, checkFeeds and checkFeed, checkRotom, checkEdge:
\* what was never set up is OFF, which is not a failure.
CheckDatabase(c) == CASE c = "fine" -> "OK" [] c = "slow" -> "DEGRADED" [] c = "dead" -> "DOWN"
CheckArtifacts(c) ==
  CASE c \in {"fine", "unmeasured"} -> "OK" [] c = "full" -> "DEGRADED" [] c = "unreadable" -> "DOWN"
CheckFeed(c) ==
  CASE c \in {"none", "disabled"} -> "OFF" [] c = "dead" -> "DOWN" [] c = "fine" -> "OK"
    [] c \in {"lists nothing", "some unusable", "poll failed"} -> "DEGRADED"
CheckRotom(c) ==
  CASE c = "disabled" -> "OFF" [] c = "dead" -> "DOWN" [] c = "no match" -> "DEGRADED"
    [] c = "fine" -> "OK"
CheckEdge(c) == IF c = "fine" THEN "OK" ELSE "DOWN"

Check(p, c) ==
  CASE p = "database" -> CheckDatabase(c) [] p = "artifacts" -> CheckArtifacts(c)
    [] p = "feed" -> CheckFeed(c) [] p = "rotom" -> CheckRotom(c) [] p = "edge" -> CheckEdge(c)

\* overall: the worst; OFF ranks with OK.
Overall(checks) ==
  LET seen == {checks[p] : p \in Parts} IN
  IF "DOWN" \in seen THEN "DOWN" ELSE IF "DEGRADED" \in seen THEN "DEGRADED" ELSE "OK"

Viewers == {"v1", "v2"}
NoChecks == [p \in Parts |-> "none"]
NoCall == [on |-> FALSE, from |-> 0, todo |-> {}, checks |-> NoChecks]
NoAnswer == [checks |-> NoChecks, overall |-> "OK", from |-> 0]

HealthInit ==
  /\ world \in [Parts -> UNION {Conditions[p] : p \in Parts}]
  /\ \A p \in Parts : world[p] \in Conditions[p]
  /\ past = [t \in 0..MaxHealthTime |-> [p \in Parts |-> {}]]
  /\ minute = 0 /\ cachedAt = -1 /\ cachedOf = NoChecks
  /\ call = [v \in Viewers |-> NoCall] /\ lastAnswer = NoAnswer /\ turns = 0

\* Mutant: a fresh entry is one that was written, whenever.
IsFreshAlways(force) == ~force /\ cachedAt >= 0
IsFresh(force) == ~force /\ cachedAt >= 0 /\ minute - cachedAt < CacheTime

\* collectHealth: the cached answer, ...
AnswersFromCache(v) ==
  /\ ~call[v].on /\ IsFresh(FALSE)
  /\ lastAnswer' = [checks |-> cachedOf, overall |-> Overall(cachedOf),
                  from |-> minute - (CacheTime - 1 + ProbeTime)]
  /\ UNCHANGED <<world, past, minute, cachedAt, cachedOf, call, turns>>

\* ... or a round of probes, ...
AsksHealth(v, force) ==
  /\ ~call[v].on /\ ~IsFresh(force)
  /\ call' = [call EXCEPT ![v] = [on |-> TRUE, from |-> minute, todo |-> Parts, checks |-> NoChecks]]
  /\ UNCHANGED <<world, past, minute, cachedAt, cachedOf, lastAnswer, turns>>

ProbeAnswers(v, done) ==
  /\ call[v].on /\ done # {} /\ done \subseteq call[v].todo
  /\ call' = [call EXCEPT ![v].todo = @ \ done,
       ![v].checks = [p \in Parts |-> IF p \in done THEN Check(p, world[p]) ELSE @[p]]]
  /\ UNCHANGED <<world, past, minute, cachedAt, cachedOf, lastAnswer, turns>>

\* ... which is kept.
Collected(v) ==
  /\ call[v].on /\ call[v].todo = {}
  /\ cachedAt' = minute /\ cachedOf' = call[v].checks
  /\ lastAnswer' = [checks |-> call[v].checks, from |-> call[v].from,
                    overall |-> Overall(call[v].checks)]
  /\ call' = [call EXCEPT ![v] = NoCall]
  /\ UNCHANGED <<world, past, minute, turns>>

WorldTurns(p, c) ==
  /\ turns < MaxTurns /\ turns' = turns + 1
  /\ world[p] # c
  /\ past' = [past EXCEPT ![minute][p] = @ \cup {world[p]}]
  /\ world' = [world EXCEPT ![p] = c]
  /\ UNCHANGED <<minute, cachedAt, cachedOf, call, lastAnswer>>

\* AbortSignal.timeout: no probe outlives ProbeTime.
ClockTicks ==
  /\ minute < MaxHealthTime /\ minute' = minute + 1
  /\ \A v \in Viewers : call[v].on => minute - call[v].from < ProbeTime
  /\ past' = [past EXCEPT ![minute] = [p \in Parts |-> @[p] \cup {world[p]}]]
  /\ lastAnswer' = NoAnswer
  /\ UNCHANGED <<world, cachedAt, cachedOf, call, turns>>

HealthNext ==
  \/ \E v \in Viewers : \/ AnswersFromCache(v) \/ Collected(v)
                        \/ \E force \in BOOLEAN : AsksHealth(v, force)
                        \/ \E done \in SUBSET Parts : ProbeAnswers(v, done)
  \/ \E p \in Parts : \E c \in Conditions[p] : WorldTurns(p, c)
  \/ ClockTicks

-----------------------------------------------------------------------------
\* What the page shows was so a moment ago: each check of an answer was true at
\* some time since the call that asked for it, and of a cached one within the
\* time of the cache and of one round of probes; calls that overlap and end in
\* another order than they began included.
HealthIsRecent ==
  lastAnswer # NoAnswer => \A p \in Parts :
    \E t \in 0..minute : /\ t >= lastAnswer.from
                        /\ \E c \in past[t][p] \cup (IF t = minute THEN {world[p]} ELSE {}) :
                             lastAnswer.checks[p] = Check(p, c)
=============================================================================
