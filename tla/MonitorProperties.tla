------------------------- MODULE MonitorProperties -------------------------
(***************************************************************************)
(* What the ladder promises.  A pass works from snapshots, so some of it   *)
(* holds of passes that did not overlap and of a hub that did not die with *)
(* an action unrecorded; the history variables say when that was so.       *)
(***************************************************************************)
EXTENDS Monitor

EventRow == [rule : Rules, action : Actions \cup {"NONE"}, took : BOOLEAN, at : Nat,
             says : {"fault", "stopped", "recovered"}, told : BOOLEAN]

\* Every variable keeps its type; a pass that stands at a rule has one, and a
\* pass of the tick is under way exactly while the tick waits for it.
TypeOK ==
  /\ row \in [Devices -> [Rules -> [failures : Nat, acted : Nat \cup {Never}, step : Nat]]]
  /\ \A d \in Devices : \A i \in DOMAIN events[d] : events[d][i] \in EventRow
  /\ installing \subseteq Devices
  /\ \A p \in Callers :
       pass[p].at \notin {"idle", "busy", "budgets", "look"} => pass[p].todo # <<>>
  /\ pass["tick"].at # "idle" <=> phase = "evaluate"

\* What was done to d since a time, in the eyes of the box.
Done(d, since, kinds) ==
  {i \in DOMAIN ran[d] : ran[d][i].at >= since /\ ran[d][i].hard \in kinds}

\* The circuit breakers (tripped): whatever rules, retries and command times,
\* no box has more done to it in an hour, or more reboots in a day, than the
\* ceilings.  Overlapping passes each spend their own snapshot; a hub that dies
\* before the event is written forgets that action.
CeilingsHold ==
  ~overlapped => \A d \in Devices :
    /\ Cardinality(Done(d, now - Hour, BOOLEAN)) <= MaxActionsHour + lost[d]
    /\ Cardinality(Done(d, now - Day, {TRUE})) <= MaxRebootsDay + lost[d]

\* What one action says of a later one on the same box.
Ordered(Rel(_, _)) ==
  \A d \in Devices : \A i, j \in DOMAIN ran[d] : i < j => Rel(ran[d][i], ran[d][j])

\* A box that was rebooted is left alone for the grace, and not rebooted for
\* looking unreachable: the next pass that touches it is that much later.  One
\* rule acts on one box at most once per cooldown, recoveries in between or not,
\* and whether the time went by in a command or between passes.  No two alerts
\* about one signal of one box come within the dedupe window, through restarts of
\* the hub as well, unless the first was never recorded.
KeepsItsDistance ==
  ~overlapped =>
    /\ (\A d \in Devices : lost[d] = 0) =>
         Ordered(LAMBDA x, y : /\ x.took /\ x.begun # y.begun => y.at - x.at > RebootGrace
                               /\ x.rule = y.rule => y.at - x.at >= x.rule.cooldown)
    /\ \A d \in Devices : DedupeBeats > 0 /\ lost[d] = 0 =>
         \A i, j \in DOMAIN alerts[d] :
           i < j /\ alerts[d][i].signal = alerts[d][j].signal
             => alerts[d][j].at - alerts[d][i].at > DedupeBeats

\* Within one episode of a fault the ladder is only climbed, and no rung but
\* the top is used twice, even after quiet hours, refusals and restarts.
LadderClimbs ==
  ~overlapped /\ (\A d \in Devices : lost[d] = 0) =>
    Ordered(LAMBDA x, y : x.rule = y.rule /\ x.episode = y.episode
                          => x.step < y.step \/ (x.step = y.step /\ x.step = Top(x.rule).at))

\* A pass of the tick never acts on a box with an install under way, although
\* it asked for them only once: nothing is dispatched before it has ended.
InstallsLeftAlone ==
  \A d \in Devices : \A i \in DOMAIN ran[d] : ran[d][i].by = "tick" => ~ran[d][i].installing

\* A tick that waits for its pass goes on to dispatch, however many boxes
\* leave a command unanswered.
TickGoesOn == phase = "evaluate" ~> phase = "dispatch"
=============================================================================
