--------------------------- MODULE MetricSamples ---------------------------
(***************************************************************************)
(* services/metrics.ts: the history of a box, one sample per slot of the    *)
(* clock, and its prune in batches.                                         *)
(***************************************************************************)
EXTENDS Integers, FiniteSets

CONSTANTS
  SampleSeconds,     \* metricsSampleSeconds, here in ticks of the clock
  HeartbeatSeconds,  \* heartbeatSeconds
  Retention,         \* metricsRetentionDays, in ticks
  PruneBatch,        \* PRUNE_BATCH
  MaxClock           \* bound

ASSUME SampleAssumption ==
  /\ {SampleSeconds, HeartbeatSeconds, Retention, PruneBatch} \subseteq Nat \ {0}
  /\ MaxClock \in Nat

VARIABLES
  clock,      \* Date.now()
  claim,      \* lastSampleAt of the box, or none
  samples,    \* the rows: number and at
  inserting,  \* the insert under way: its at, or none
  arrivals,   \* history: when frames arrived that the hub is through with
  failures,   \* history: slots in which an insert failed or the hub restarted
  pruning     \* the sweep under way: its cutoff, the ids it has selected

sampleVars == <<clock, claim, samples, inserting, arrivals, failures, pruning>>

NoClaim == -1
Slot(t) == t \div SampleSeconds
NotPruning == [cutoff |-> NoClaim, ids |-> {}]

SampleInit ==
  /\ clock = 0 /\ claim = NoClaim /\ samples = {} /\ inserting = NoClaim
  /\ arrivals = {} /\ failures = {} /\ pruning = NotPruning

\* Mutant: the interval is measured from the last sample.
TakenInterval(t) == claim # NoClaim /\ t - claim < SampleSeconds
\* The slot of this beat has its sample.
Taken(t) == claim # NoClaim /\ Slot(t) = Slot(claim)

\* A beat arrives, early or late.  recordSample up to its insert.
BeatArrives(step) ==
  /\ clock + step <= MaxClock /\ inserting = NoClaim
  /\ clock' = clock + step
  /\ arrivals' = arrivals \cup {clock + step}
  /\ IF SampleSeconds > HeartbeatSeconds /\ Taken(clock + step)
     THEN UNCHANGED <<claim, inserting>>
     ELSE claim' = clock + step /\ inserting' = clock + step
  /\ UNCHANGED <<samples, failures, pruning>>

Inserted ==
  /\ inserting # NoClaim /\ inserting' = NoClaim
  /\ samples' = samples \cup {inserting}
  /\ UNCHANGED <<clock, claim, arrivals, failures, pruning>>

\* The claim goes, so that the next beat of the slot tries again.
InsertFails ==
  /\ inserting # NoClaim /\ inserting' = NoClaim /\ claim' = NoClaim
  /\ failures' = failures \cup {Slot(inserting)}
  /\ UNCHANGED <<clock, samples, arrivals, pruning>>

\* pruneMetrics: claims of an hour ago go; then the batches.
PruneStarts ==
  /\ pruning = NotPruning /\ clock >= Retention
  /\ pruning' = [pruning EXCEPT !.cutoff = clock - Retention]
  /\ claim' = IF claim # NoClaim /\ claim < clock - Retention THEN NoClaim ELSE claim
  /\ UNCHANGED <<clock, samples, inserting, arrivals, failures>>

Old(t) == {s \in samples : s < t}

PruneSelects ==
  /\ pruning.cutoff # NoClaim /\ pruning.ids = {} /\ Old(pruning.cutoff) # {}
  /\ \E ids \in SUBSET Old(pruning.cutoff) :
       /\ \/ Cardinality(ids) = PruneBatch
          \/ Cardinality(ids) < PruneBatch /\ ids = Old(pruning.cutoff)
       /\ pruning' = [pruning EXCEPT !.ids = ids]
  /\ UNCHANGED <<clock, claim, samples, inserting, arrivals, failures>>

\* A batch that was not full was the last.
PruneDeletes ==
  /\ pruning.ids # {} /\ samples' = samples \ pruning.ids
  /\ pruning' = IF Cardinality(pruning.ids) < PruneBatch THEN NotPruning
                ELSE [pruning EXCEPT !.ids = {}]
  /\ UNCHANGED <<clock, claim, inserting, arrivals, failures>>

PruneEnds ==
  /\ pruning.cutoff # NoClaim /\ pruning.ids = {} /\ Old(pruning.cutoff) = {}
  /\ pruning' = NotPruning
  /\ UNCHANGED <<clock, claim, samples, inserting, arrivals, failures>>

\* The map of claims is in memory.
SamplerRestarts ==
  /\ claim # NoClaim /\ claim' = NoClaim /\ inserting' = NoClaim /\ pruning' = NotPruning
  /\ failures' = failures \cup {Slot(clock)}
  /\ UNCHANGED <<clock, samples, arrivals>>

SampleNext ==
  \/ \E step \in 1..HeartbeatSeconds + 1 : BeatArrives(step)
  \/ Inserted \/ InsertFails \/ SamplerRestarts
  \/ PruneStarts \/ PruneSelects \/ PruneDeletes \/ PruneEnds

-----------------------------------------------------------------------------
\* The chart has no false gap and no double point: each slot of the retention
\* in which a beat arrived has exactly one sample, however early or late the
\* beats come; unless an insert failed or the hub restarted in it.
SlotsHaveOneSample ==
  SampleSeconds > HeartbeatSeconds =>
    \A t \in arrivals :
      LET mine == {s \in samples \cup ({inserting} \ {NoClaim}) : Slot(s) = Slot(t)} IN
      \/ Slot(t) \in failures \/ Slot(t) <= Slot(clock - Retention)
      \/ Cardinality(mine) = 1
=============================================================================
