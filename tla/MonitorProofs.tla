---------------------------- MODULE MonitorProofs ---------------------------
(***************************************************************************)
(* Theorems about the monitoring ladder, for any boxes, rules, ladders,    *)
(* limits and callers.                                                     *)
(*                                                                         *)
(* One inductive invariant, in layers: the locals of a pass fit the place  *)
(* it stands at; installs end but do not begin while the tick waits; and,  *)
(* while passes have not overlapped, what a row, the event log and the     *)
(* budgets say covers what was really done.                                *)
(***************************************************************************)
EXTENDS MonitorProperties, FiniteSetTheorems, SequenceTheorems, TLAPS

Places == {"idle", "busy", "budgets", "look", "count", "recover", "escalate", "await", "stamp",
           "said", "notify", "record"}

RowOf == [failures : Nat, acted : Nat \cup {Never}, step : Nat]

PassOf == [at : Places, begun : Nat, busy : SUBSET Devices,
           budget : [Devices -> [actions : Nat, hard : Nat]],
           todo : Seq(Devices \X Rules), seen : RowOf, step : Nat,
           action : Actions \cup {"NONE"}, took : BOOLEAN,
           says : {"fault", "stopped", "recovered"}, loud : BOOLEAN, told : BOOLEAN]

Deed == [rule : Rules, at : Nat, step : Nat, hard : BOOLEAN, took : BOOLEAN, begun : Nat,
         by : Callers, episode : Nat, installing : BOOLEAN]

Alert == [signal : STRING, at : Nat]

ClockTypes ==
  /\ lastTick \in Nat \cup {Never} /\ startedAt \in Nat /\ now \in Nat
  /\ phase \in {"start", "evaluate", "dispatch"}
  /\ installing \subseteq Devices /\ overlapped \in BOOLEAN

LogTypes ==
  /\ row \in [Devices -> [Rules -> RowOf]]
  /\ events \in [Devices -> Seq(EventRow)]
  /\ ran \in [Devices -> Seq(Deed)] /\ alerts \in [Devices -> Seq(Alert)]
  /\ episode \in [Devices -> [Rules -> Nat]] /\ lost \in [Devices -> Nat]

Working(p) == pass[p].at \notin {"idle", "busy", "budgets", "look"}

\* What the locals of a pass are where it stands.
PlaceOK(p) ==
  /\ Working(p) => pass[p].todo # <<>> /\ Device(p) \notin pass[p].busy
  /\ pass[p].step # 0 => /\ pass[p].at \in {"await", "stamp", "notify", "record"}
                         /\ pass[p].action \in Actions
  /\ pass[p].took => pass[p].step # 0 /\ pass[p].action \in HardActions
  /\ pass[p].told => pass[p].at = "record" /\ pass[p].says # "recovered"
  /\ pass[p].says = "recovered" => pass[p].at = "record"

PassOK == pass \in [Callers -> PassOf] /\ \A p \in Callers : PlaceOK(p)

Typed == ClockTypes /\ LogTypes /\ PassOK

-----------------------------------------------------------------------------
(* The locals of a pass.                                                   *)

LEMMA IdleIsTyped == Idle \in PassOf /\ NoRow \in RowOf
  BY EmptySeq DEF Idle, NoRow, PassOf, RowOf, Places, Never

\* Where a pass works, it has a box and a rule.
LEMMA WorkIsTyped ==
  ASSUME PassOK, NEW p \in Callers, pass[p].todo # <<>>
  PROVE  Device(p) \in Devices /\ Rule(p) \in Rules /\ Tail(pass[p].todo) \in Seq(Devices \X Rules)
<1>1. pass[p].todo \in Seq(Devices \X Rules)
  BY DEF PassOK, PassOf
<1>2. Head(pass[p].todo) \in Devices \X Rules /\ Tail(pass[p].todo) \in Seq(Devices \X Rules)
  BY <1>1, HeadTailProperties
<1> QED BY <1>2 DEF Device, Rule

LEMMA RulesAreTyped ==
  ASSUME NEW r \in Rules
  PROVE  /\ r.threshold \in Nat /\ r.cooldown \in Nat /\ r.signal \in STRING /\ r.level \in Levels
         /\ r.steps \subseteq [at : Nat \ {0}, action : Actions] /\ r.notify \in BOOLEAN
         /\ Top(r) \in r.steps /\ \A s \in r.steps : s.at <= Top(r).at
<1>1. /\ r.threshold \in Nat /\ r.cooldown \in Nat /\ r.signal \in STRING /\ r.level \in Levels
      /\ r.steps \in SUBSET [at : Nat \ {0}, action : Actions] /\ r.notify \in BOOLEAN
  BY MonitorAssumption DEF MonitorAssumption
<1>2. \E top \in r.steps : \A s \in r.steps : s.at <= top.at
  <2>1. r.steps \in (SUBSET r.steps) \ {{}}
    BY MonitorAssumption DEF MonitorAssumption
  <2> QED BY <2>1, MonitorAssumption DEF MonitorAssumption
<1> QED BY <1>1, <1>2 DEF Top

\* The rung the failures have earned is one of the ladder.
LEMMA RungIsEarned ==
  ASSUME NEW r \in Rules, NEW failures \in Nat, Earned(r, failures) # {}
  PROVE  Rung(r, failures) \in r.steps
<1>1. Earned(r, failures) \in (SUBSET r.steps) \ {{}}
  BY DEF Earned
<1>2. \E top \in Earned(r, failures) : \A s \in Earned(r, failures) : s.at <= top.at
  BY <1>1, MonitorAssumption DEF MonitorAssumption
<1> QED BY <1>2 DEF Rung, Earned


\* The limits are what the settings allow.
LEMMA LimitsAreTyped ==
  /\ RebootGrace \in Nat /\ DedupeBeats \in Nat
  /\ MaxActionsHour \in Nat /\ MaxRebootsDay \in Nat
  /\ Hour \in Nat /\ Day \in Nat
  BY MonitorAssumption DEF MonitorAssumption

\* What a step of one pass leaves of the others.
OthersStay(p) == \A q \in Callers : q # p => pass'[q] = pass[q]

LEMMA OnePassMoves ==
  ASSUME PassOK, NEW p \in Callers, NEW rec \in PassOf, pass' = [pass EXCEPT ![p] = rec],
         PlaceOK(p)'
  PROVE  PassOK' /\ OthersStay(p) /\ pass'[p] = rec
<1>1. pass' \in [Callers -> PassOf] /\ pass'[p] = rec /\ \A q \in Callers : q # p => pass'[q] = pass[q]
  BY DEF PassOK
<1>2. \A q \in Callers : q # p => PlaceOK(q)'
  BY <1>1 DEF PassOK, PlaceOK, Working, Device
<1> QED BY <1>1, <1>2 DEF PassOK, OthersStay

LEMMA MovedOnIsOK ==
  ASSUME PassOK, NEW p \in Callers, pass[p].todo # <<>>, pass' = MovedOn(p)
  PROVE  /\ PassOK' /\ OthersStay(p)
         /\ pass'[p].at = "look" /\ pass'[p].step = 0 /\ ~pass'[p].took /\ ~pass'[p].told
         /\ pass'[p].begun = pass[p].begun /\ pass'[p].busy = pass[p].busy
         /\ pass'[p].budget = pass[p].budget /\ pass'[p].todo = Tail(pass[p].todo)
<1> DEFINE rec == [Idle EXCEPT !.at = "look", !.begun = pass[p].begun, !.busy = pass[p].busy,
                               !.budget = pass[p].budget, !.todo = Tail(pass[p].todo)]
<1>1. pass[p] \in PassOf /\ Tail(pass[p].todo) \in Seq(Devices \X Rules)
  BY WorkIsTyped DEF PassOK
<1>2. /\ rec \in PassOf
      /\ rec.at = "look" /\ rec.step = 0 /\ ~rec.took /\ ~rec.told /\ rec.says = "fault"
      /\ rec.begun = pass[p].begun /\ rec.busy = pass[p].busy
      /\ rec.budget = pass[p].budget /\ rec.todo = Tail(pass[p].todo)
  BY <1>1, IdleIsTyped, ZenonT(40) DEF Idle, PassOf, Places
<1>3. pass' = [pass EXCEPT ![p] = rec]
  BY DEF MovedOn
<1>4. pass'[p] = rec
  BY <1>3 DEF PassOK
<1>5. PlaceOK(p)'
  BY <1>2, <1>4 DEF PlaceOK, Working
<1> HIDE DEF rec
<1> QED BY <1>2, <1>3, <1>5, OnePassMoves

\* A pass that stays with its rule.
Stays(p) ==
  /\ pass'[p].todo = pass[p].todo /\ pass'[p].busy = pass[p].busy /\ pass'[p].begun = pass[p].begun
  /\ Device(p)' = Device(p) /\ Rule(p)' = Rule(p)

LEMMA StaysIsOK ==
  ASSUME PassOK, NEW p \in Callers, NEW rec \in PassOf,
         pass' = [pass EXCEPT ![p] = rec],
         rec.todo = pass[p].todo, rec.busy = pass[p].busy, rec.begun = pass[p].begun,
         pass[p].todo # <<>>, Device(p) \notin pass[p].busy,
         rec.step # 0 => /\ rec.at \in {"await", "stamp", "notify", "record"}
                         /\ rec.action \in Actions,
         rec.took => rec.step # 0 /\ rec.action \in HardActions,
         rec.told => rec.at = "record" /\ rec.says # "recovered",
         rec.says = "recovered" => rec.at = "record"
  PROVE  PassOK' /\ OthersStay(p) /\ Stays(p) /\ pass'[p] = rec
<1>1. pass'[p] = rec
  BY DEF PassOK
<1>2. Stays(p)
  BY <1>1 DEF Stays, Device, Rule
<1>3. PlaceOK(p)'
  BY <1>1, <1>2 DEF PlaceOK, Working, Stays
<1> QED BY <1>1, <1>2, <1>3, OnePassMoves


-----------------------------------------------------------------------------
(* What each await of a pass does to its locals.                           *)

\* The locals that say what was done and announced start anew.
Clean(p) == pass'[p].step = 0 /\ ~pass'[p].took /\ ~pass'[p].told

Onward(p) ==
  /\ pass[p].todo # <<>> /\ pass'[p].at = "look" /\ Clean(p)
  /\ pass'[p].begun = pass[p].begun /\ pass'[p].busy = pass[p].busy
  /\ pass'[p].budget = pass[p].budget

LEMMA BusyMoves ==
  ASSUME Typed, NEW p \in Callers, BusyRead(p)
  PROVE  /\ PassOK' /\ OthersStay(p) /\ Clean(p)
         /\ pass'[p].at = "budgets" /\ pass'[p].begun = pass[p].begun
         /\ pass'[p].busy = Installing \cup Rebooted
<1> DEFINE rec == [pass[p] EXCEPT !.at = "budgets", !.busy = Installing \cup Rebooted]
<1>1. pass[p] \in PassOf /\ PlaceOK(p) /\ pass[p].at = "busy" /\ PassOK
  BY DEF Typed, PassOK, BusyRead
<1>2. Installing \cup Rebooted \in SUBSET Devices
  BY DEF Installing, Rebooted, Typed, ClockTypes
<1>3. /\ rec \in PassOf /\ rec.at = "budgets" /\ rec.step = 0 /\ ~rec.took /\ ~rec.told
      /\ rec.says # "recovered" /\ rec.begun = pass[p].begun /\ rec.busy = Installing \cup Rebooted
  BY <1>1, <1>2 DEF PassOf, Places, PlaceOK
<1>4. pass' = [pass EXCEPT ![p] = rec]
  BY <1>1 DEF BusyRead, PassOK
<1>5. pass'[p] = rec
  BY <1>1, <1>4 DEF PassOK
<1> HIDE DEF rec
<1>6. PlaceOK(p)'
  BY <1>3, <1>5 DEF PlaceOK, Working
<1> QED BY <1>1, <1>3, <1>4, <1>5, <1>6, OnePassMoves DEF Clean

LEMMA SpentIsCounted ==
  ASSUME LogTypes, NEW d \in Devices, NEW kinds, NEW since
  PROVE  Spent(d, kinds, since) \in Nat
<1>1. IsFiniteSet(DOMAIN events[d])
  <2>1. events[d] \in Seq(EventRow)
    BY DEF LogTypes
  <2>2. DOMAIN events[d] = 1..Len(events[d]) /\ Len(events[d]) \in Nat
    BY <2>1, LenProperties
  <2> QED BY <2>2, FS_Interval
<1> QED BY <1>1, FS_Subset, FS_CardinalityType DEF Spent

LEMMA BudgetsMove ==
  ASSUME Typed, NEW p \in Callers, BudgetsRead(p)
  PROVE  /\ PassOK' /\ OthersStay(p) /\ Clean(p)
         /\ pass'[p].at = "look" /\ pass'[p].begun = pass[p].begun /\ pass'[p].busy = pass[p].busy
         /\ \A d \in Devices :
              /\ pass'[p].budget[d].actions = Spent(d, Actions, now - Hour)
              /\ pass'[p].budget[d].hard = Spent(d, HardActions, now - Day)
<1> DEFINE budgets == [d \in Devices |-> [actions |-> Spent(d, Actions, now - Hour),
                                          hard |-> Spent(d, HardActions, now - Day)]]
           rec == [pass[p] EXCEPT !.at = "look", !.todo = Agenda, !.budget = budgets]
<1>1. pass[p] \in PassOf /\ PlaceOK(p) /\ pass[p].at = "budgets" /\ PassOK
  BY DEF Typed, PassOK, BudgetsRead
<1>2. /\ budgets \in [Devices -> [actions : Nat, hard : Nat]]
      /\ \A d \in Devices : /\ budgets[d].actions = Spent(d, Actions, now - Hour)
                            /\ budgets[d].hard = Spent(d, HardActions, now - Day)
  BY SpentIsCounted DEF Typed
<1>3. pass' = [pass EXCEPT ![p] = rec]
  BY <1>1 DEF BudgetsRead, PassOK
<1> HIDE DEF budgets
<1>4. /\ rec \in PassOf /\ rec.at = "look" /\ rec.step = 0 /\ ~rec.took /\ ~rec.told
      /\ rec.says # "recovered" /\ rec.begun = pass[p].begun /\ rec.busy = pass[p].busy
      /\ rec.budget = budgets
  BY <1>1, <1>2, MonitorAssumption DEF PassOf, Places, PlaceOK, MonitorAssumption
<1>5. pass'[p] = rec
  BY <1>1, <1>3 DEF PassOK
<1> HIDE DEF rec
<1>6. PlaceOK(p)'
  BY <1>4, <1>5 DEF PlaceOK, Working
<1> QED BY <1>1, <1>2, <1>3, <1>4, <1>5, <1>6, OnePassMoves DEF Clean

LEMMA MovedOnMoves ==
  ASSUME Typed, NEW p \in Callers, pass[p].todo # <<>>, pass' = MovedOn(p)
  PROVE  PassOK' /\ OthersStay(p) /\ Onward(p)
  BY MovedOnIsOK DEF Typed, Onward, Clean

LEMMA LookMoves ==
  ASSUME Typed, NEW p \in Callers, Look(p)
  PROVE  /\ PassOK' /\ OthersStay(p)
         /\ \/ Onward(p)
            \/ /\ Stays(p) /\ Clean(p) /\ pass'[p].budget = pass[p].budget
               /\ pass'[p].at \in {"count", "recover"} /\ pass'[p].seen = row[Device(p)][Rule(p)]
<1>1. /\ pass[p] \in PassOf /\ PlaceOK(p) /\ pass[p].at = "look" /\ PassOK
      /\ pass[p].todo # <<>> /\ Device(p) \notin pass[p].busy
  BY DEF Typed, PassOK, Look
<1> DEFINE seen == row[Device(p)][Rule(p)]
<1>2. seen \in RowOf
  BY <1>1, WorkIsTyped DEF Typed, LogTypes
<1>3. CASE pass' = MovedOn(p)
  BY <1>1, <1>3, MovedOnMoves
<1>4. ASSUME NEW at \in {"recover", "count"}, pass' = [pass EXCEPT ![p].seen = seen, ![p].at = at]
      PROVE  /\ PassOK' /\ OthersStay(p)
             /\ Stays(p) /\ Clean(p) /\ pass'[p].budget = pass[p].budget
             /\ pass'[p].at = at /\ pass'[p].seen = seen
  <2> DEFINE rec == [pass[p] EXCEPT !.seen = seen, !.at = at]
  <2> HIDE DEF seen
  <2>1. pass' = [pass EXCEPT ![p] = rec]
    BY <1>1, <1>4 DEF PassOK
  <2>2. /\ rec \in PassOf /\ rec.at = at /\ rec.step = 0 /\ ~rec.took /\ ~rec.told
        /\ rec.says # "recovered" /\ rec.begun = pass[p].begun /\ rec.busy = pass[p].busy
        /\ rec.budget = pass[p].budget /\ rec.todo = pass[p].todo /\ rec.seen = seen
    BY <1>1, <1>2 DEF PassOf, Places, PlaceOK
  <2> HIDE DEF rec
  <2> QED BY <1>1, <2>1, <2>2, StaysIsOK DEF Clean
<1>5. \/ pass' = MovedOn(p)
      \/ \E at \in {"recover", "count"} : pass' = [pass EXCEPT ![p].seen = seen, ![p].at = at]
  BY DEF Look
<1> QED BY <1>3, <1>4, <1>5

\* The places a pass goes through with one rule, locals kept.
LEMMA CountMoves ==
  ASSUME Typed, NEW p \in Callers, Count(p)
  PROVE  /\ PassOK' /\ OthersStay(p)
         /\ pass[p].todo # <<>>
         /\ \E n \in Nat : row' = [row EXCEPT ![Device(p)][Rule(p)].failures = n]
         /\ \/ Onward(p)
            \/ /\ Stays(p) /\ Clean(p) /\ pass'[p].budget = pass[p].budget
               /\ pass'[p].at = "escalate"
               /\ pass'[p].seen.acted = pass[p].seen.acted /\ pass'[p].seen.step = pass[p].seen.step
<1>1. /\ pass[p] \in PassOf /\ PlaceOK(p) /\ pass[p].at = "count" /\ PassOK
      /\ pass[p].todo # <<>> /\ Device(p) \notin pass[p].busy
  BY DEF Typed, PassOK, Count, PlaceOK, Working
<1> DEFINE n == Counted(Rule(p), pass[p].seen.failures + 1)
<1>2. n \in Nat
  <2>1. /\ Rule(p) \in Rules /\ Rule(p).threshold \in Nat /\ Top(Rule(p)).at \in Nat
        /\ pass[p].seen.failures \in Nat
    BY <1>1, WorkIsTyped, RulesAreTyped, SMTT(30) DEF PassOf, RowOf
  <2> QED BY <2>1 DEF Counted
<1>3. row' = [row EXCEPT ![Device(p)][Rule(p)].failures = n]
  BY DEF Count
<1>4. CASE pass' = MovedOn(p)
  BY <1>1, <1>2, <1>3, <1>4, MovedOnMoves
<1>5. CASE pass' = [pass EXCEPT ![p].at = "escalate", ![p].seen.failures = n]
  <2> DEFINE rec == [pass[p] EXCEPT !.at = "escalate", !.seen.failures = n]
  <2> HIDE DEF n
  <2>1. pass' = [pass EXCEPT ![p] = rec]
    BY <1>1, <1>5 DEF PassOK
  <2>2. /\ rec \in PassOf /\ rec.at = "escalate" /\ rec.step = 0 /\ ~rec.took /\ ~rec.told
        /\ rec.says # "recovered" /\ rec.begun = pass[p].begun /\ rec.busy = pass[p].busy
        /\ rec.budget = pass[p].budget /\ rec.todo = pass[p].todo
        /\ rec.seen.acted = pass[p].seen.acted /\ rec.seen.step = pass[p].seen.step
    BY <1>1, <1>2 DEF PassOf, Places, PlaceOK, RowOf
  <2> HIDE DEF rec
  <2> QED BY <1>1, <1>2, <1>3, <2>1, <2>2, StaysIsOK DEF Clean
<1> QED BY <1>4, <1>5 DEF Count


\* One shape for the rest: a record that stays with its rule.
LEMMA WorkMoves ==
  ASSUME Typed, NEW p \in Callers, Working(p), NEW rec \in PassOf,
         pass' = [pass EXCEPT ![p] = rec],
         rec.todo = pass[p].todo, rec.busy = pass[p].busy, rec.begun = pass[p].begun,
         rec.step # 0 => /\ rec.at \in {"await", "stamp", "notify", "record"}
                         /\ rec.action \in Actions,
         rec.took => rec.step # 0 /\ rec.action \in HardActions,
         rec.told => rec.at = "record" /\ rec.says # "recovered",
         rec.says = "recovered" => rec.at = "record"
  PROVE  PassOK' /\ OthersStay(p) /\ Stays(p) /\ pass'[p] = rec /\ pass[p].todo # <<>>
<1>1. PassOK /\ pass[p].todo # <<>> /\ Device(p) \notin pass[p].busy
  BY DEF Typed, PassOK, PlaceOK
<1> QED BY <1>1, StaysIsOK

LEMMA RecoverMoves ==
  ASSUME Typed, NEW p \in Callers, Recover(p)
  PROVE  /\ PassOK' /\ OthersStay(p) /\ Stays(p) /\ pass[p].todo # <<>>
         /\ Clean(p) /\ pass'[p].at = "record" /\ pass'[p].budget = pass[p].budget
<1> DEFINE rec == [pass[p] EXCEPT !.at = "record", !.says = "recovered"]
<1>1. pass[p] \in PassOf /\ PlaceOK(p) /\ pass[p].at = "recover" /\ Working(p)
  BY DEF Typed, PassOK, Recover, Working
<1>2. pass' = [pass EXCEPT ![p] = rec]
  BY <1>1 DEF Recover, Typed, PassOK
<1>3. /\ rec \in PassOf /\ rec.at = "record" /\ rec.step = 0 /\ ~rec.took /\ ~rec.told
      /\ rec.begun = pass[p].begun /\ rec.busy = pass[p].busy
      /\ rec.budget = pass[p].budget /\ rec.todo = pass[p].todo
  BY <1>1 DEF PassOf, Places, PlaceOK
<1> HIDE DEF rec
<1> QED BY <1>1, <1>2, <1>3, WorkMoves DEF Clean

\* Held back, or stopped by a ceiling: to be said, not done.
LEMMA HeldMoves ==
  ASSUME Typed, NEW p \in Callers, HoldsBack(p) \/ Trips(p)
  PROVE  /\ PassOK' /\ OthersStay(p) /\ Stays(p) /\ pass[p].todo # <<>>
         /\ Clean(p) /\ pass'[p].at = "stamp" /\ pass'[p].budget = pass[p].budget
<1>1. /\ pass[p] \in PassOf /\ PlaceOK(p) /\ pass[p].at = "escalate" /\ Working(p)
      /\ pass[p].todo # <<>>
      /\ PassOK
  BY DEF Typed, PassOK, HoldsBack, Trips, MayAct, Working, PlaceOK
<1>2. /\ Step(p) \in Rule(p).steps /\ Rule(p) \in Rules /\ Step(p).action \in Actions
  <2>1. Rule(p) \in Rules /\ pass[p].seen.failures \in Nat
    BY <1>1, WorkIsTyped DEF PassOf, RowOf
  <2>2. Earned(Rule(p), pass[p].seen.failures) # {}
    BY DEF HoldsBack, Trips, MayAct
  <2> QED BY <2>1, <2>2, RungIsEarned, RulesAreTyped DEF Step
<1>3. CASE HoldsBack(p)
  <2> DEFINE act == IF Step(p).action = "NOTIFY_ONLY" THEN "NONE" ELSE Step(p).action
             loud == Rule(p).level >= MinLevel
             rec == [pass[p] EXCEPT !.at = "stamp", !.loud = loud, !.action = act]
  <2>1. act \in Actions \cup {"NONE"} /\ loud \in BOOLEAN
    BY <1>2
  <2>2. pass' = [pass EXCEPT ![p] = rec]
    BY <1>1, <1>3 DEF HoldsBack, PassOK
  <2> HIDE DEF act, loud
  <2>3. /\ rec \in PassOf /\ rec.at = "stamp" /\ rec.step = 0 /\ ~rec.took /\ ~rec.told
        /\ rec.says # "recovered" /\ rec.begun = pass[p].begun /\ rec.busy = pass[p].busy
        /\ rec.budget = pass[p].budget /\ rec.todo = pass[p].todo
    BY <1>1, <1>2, <2>1 DEF PassOf, Places, PlaceOK
  <2> HIDE DEF rec
  <2> QED BY <1>1, <2>2, <2>3, WorkMoves DEF Clean
<1>4. CASE Trips(p)
  <2> DEFINE rec == [pass[p] EXCEPT !.at = "stamp", !.says = "stopped", !.loud = TRUE]
  <2>1. pass' = [pass EXCEPT ![p] = rec]
    BY <1>1, <1>4 DEF Trips, PassOK
  <2>2. /\ rec \in PassOf /\ rec.at = "stamp" /\ rec.step = 0 /\ ~rec.took /\ ~rec.told
        /\ rec.says # "recovered" /\ rec.begun = pass[p].begun /\ rec.busy = pass[p].busy
        /\ rec.budget = pass[p].budget /\ rec.todo = pass[p].todo
    BY <1>1 DEF PassOf, Places, PlaceOK
  <2> HIDE DEF rec
  <2> QED BY <1>1, <2>1, <2>2, WorkMoves DEF Clean
<1> QED BY <1>3, <1>4

\* What Acts appends to ran.
Deeds(p, ok) ==
  [rule |-> Rule(p), at |-> now, step |-> Step(p).at, hard |-> Step(p).action \in HardActions,
   took |-> Step(p).action \in HardActions /\ ok, begun |-> pass[p].begun, by |-> p,
   episode |-> episode[Device(p)][Rule(p)], installing |-> Device(p) \in installing]

LEMMA ActMoves ==
  ASSUME Typed, NEW p \in Callers, Acts(p)
  PROVE  \E ok \in BOOLEAN :
         /\ PassOK' /\ OthersStay(p) /\ Stays(p)
         /\ pass[p].todo # <<>> /\ Device(p) \notin pass[p].busy
         /\ Step(p) \in Rule(p).steps /\ Step(p).at \in Nat \ {0} /\ Step(p).action \in Actions
         /\ pass'[p].at \in {"await", "stamp"} /\ pass'[p].step = Step(p).at
         /\ pass'[p].action = Step(p).action /\ ~pass'[p].told
         /\ pass'[p].took = (Step(p).action \in HardActions /\ ok)
         /\ Deeds(p, ok) \in Deed
         /\ ran' = [ran EXCEPT ![Device(p)] = Append(ran[Device(p)], Deeds(p, ok))]
         /\ \A d \in Devices : d # Device(p) => pass'[p].budget[d] = pass[p].budget[d]
         /\ pass'[p].budget[Device(p)].actions = pass[p].budget[Device(p)].actions + 1
         /\ pass'[p].budget[Device(p)].hard =
              pass[p].budget[Device(p)].hard + (IF Step(p).action \in HardActions THEN 1 ELSE 0)
<1>1. /\ pass[p] \in PassOf /\ PlaceOK(p) /\ pass[p].at = "escalate" /\ Working(p)
      /\ pass[p].todo # <<>> /\ Device(p) \notin pass[p].busy
      /\ PassOK
  BY DEF Typed, PassOK, Acts, MayAct, Working, PlaceOK
<1>2. /\ Step(p) \in Rule(p).steps /\ Rule(p) \in Rules /\ Device(p) \in Devices
      /\ Step(p).action \in Actions /\ Step(p).at \in Nat \ {0}
  <2>1. Rule(p) \in Rules /\ Device(p) \in Devices /\ pass[p].seen.failures \in Nat
    BY <1>1, WorkIsTyped DEF PassOf, RowOf
  <2>2. Earned(Rule(p), pass[p].seen.failures) # {}
    BY DEF Acts, MayAct
  <2> QED BY <2>1, <2>2, RungIsEarned, RulesAreTyped DEF Step
<1> DEFINE d == Device(p)
           s == Step(p)
           hard == s.action \in HardActions
           spent == [actions |-> pass[p].budget[d].actions + 1,
                     hard |-> pass[p].budget[d].hard + (IF hard THEN 1 ELSE 0)]
<1>3. PICK ok \in BOOLEAN :
        /\ pass' = [pass EXCEPT
             ![p].at = IF s.action = "REBOOT" THEN "stamp" ELSE "await",
             ![p].action = s.action, ![p].step = s.at, ![p].took = hard /\ ok,
             ![p].loud = ~ok \/ Rule(p).level >= MinLevel,
             ![p].budget[d] = spent]
        /\ ran' = [ran EXCEPT ![d] = Append(ran[d], Deeds(p, ok))]
  BY DEF Acts, Deeds
<1>4. Deeds(p, ok) \in Deed
  <2>1. now \in Nat /\ episode[Device(p)][Rule(p)] \in Nat /\ pass[p].begun \in Nat
    BY <1>1, <1>2 DEF Typed, ClockTypes, LogTypes, PassOf
  <2> QED BY <1>2, <2>1 DEF Deeds, Deed
<1> DEFINE at == IF s.action = "REBOOT" THEN "stamp" ELSE "await"
           loud == ~ok \/ Rule(p).level >= MinLevel
           took == hard /\ ok
           budget == [pass[p].budget EXCEPT ![d] = spent]
           rec == [pass[p] EXCEPT !.at = at, !.action = s.action, !.step = s.at, !.took = took,
                                  !.loud = loud, !.budget = budget]
<1>5. /\ at \in {"await", "stamp"} /\ loud \in BOOLEAN /\ took \in BOOLEAN
      /\ took => s.action \in HardActions
      /\ pass[p].budget \in [Devices -> [actions : Nat, hard : Nat]]
  BY <1>1, <1>2 DEF PassOf
<1>6. spent \in [actions : Nat, hard : Nat]
  <2>1. pass[p].budget[d] \in [actions : Nat, hard : Nat]
    BY <1>2, <1>5
  <2> QED BY <2>1
<1>7. budget \in [Devices -> [actions : Nat, hard : Nat]]
  BY <1>2, <1>5, <1>6
<1>8. /\ \A e \in Devices : e # d => budget[e] = pass[p].budget[e]
      /\ budget[d] = spent
  BY <1>2, <1>5
<1>9. pass' = [pass EXCEPT ![p].at = at, ![p].action = s.action, ![p].step = s.at, ![p].took = took,
                           ![p].loud = loud, ![p].budget[d] = spent]
  BY <1>3
<1>t. took = (s.action \in HardActions /\ ok)
  OBVIOUS
<1>b. spent.actions = pass[p].budget[d].actions + 1
      /\ spent.hard = pass[p].budget[d].hard + (IF s.action \in HardActions THEN 1 ELSE 0)
  OBVIOUS
<1> HIDE DEF at, loud, took, s, d
<1>10. pass' = [pass EXCEPT ![p] = rec]
  <2> DEFINE half == [pass[p] EXCEPT !.at = at, !.action = s.action, !.step = s.at, !.took = took,
                                     !.loud = loud]
             mid == [pass EXCEPT ![p] = half]
  <2> HIDE DEF hard, spent
  <2>1. mid = [pass EXCEPT ![p].at = at, ![p].action = s.action, ![p].step = s.at, ![p].took = took,
                           ![p].loud = loud]
    BY <1>1 DEF PassOK
  <2>2. pass' = [mid EXCEPT ![p].budget[d] = spent]
    BY <1>9, <2>1, Zenon
  <2>3. mid[p] = half /\ half.budget = pass[p].budget
    BY <1>1 DEF PassOK, PassOf
  <2>4. rec = [half EXCEPT !.budget = budget]
    BY <1>1 DEF PassOf
  <2> HIDE DEF half, rec
  <2>5. pass' = [mid EXCEPT ![p] = [half EXCEPT !.budget = [half.budget EXCEPT ![d] = spent]]]
    BY <2>2, <2>3
  <2>6. pass' = [mid EXCEPT ![p] = rec]
    BY <2>3, <2>4, <2>5
  <2> QED BY <1>1, <2>6 DEF PassOK
<1> HIDE DEF spent, hard, budget
<1>11. /\ rec.at = at /\ rec.step = s.at /\ rec.action = s.action /\ rec.took = took
       /\ rec.told = pass[p].told /\ rec.says = pass[p].says
       /\ rec.begun = pass[p].begun /\ rec.busy = pass[p].busy /\ rec.todo = pass[p].todo
       /\ rec.budget = budget
  BY <1>1 DEF PassOf
<1>s. s.action \in Actions /\ s.at \in Nat
  BY <1>2 DEF s
<1>12. rec \in PassOf
  BY <1>1, <1>5, <1>7, <1>s DEF PassOf, Places
<1>13. ~pass[p].told /\ pass[p].says # "recovered"
  BY <1>1 DEF PlaceOK
<1> HIDE DEF rec
<1>14. PassOK' /\ OthersStay(p) /\ Stays(p) /\ pass'[p] = rec
  <2>1. rec.step # 0 => rec.at \in {"await", "stamp", "notify", "record"} /\ rec.action \in Actions
    BY <1>5, <1>11, <1>s
  <2>2. rec.took => rec.step # 0 /\ rec.action \in HardActions
    BY <1>2, <1>5, <1>11 DEF s
  <2>3. ~rec.told /\ rec.says # "recovered"
    BY <1>11, <1>13
  <2> QED BY <1>1, <1>10, <1>11, <1>12, <2>1, <2>2, <2>3, WorkMoves
<1>15. /\ pass'[p].at \in {"await", "stamp"} /\ pass'[p].step = Step(p).at
       /\ pass'[p].action = Step(p).action /\ ~pass'[p].told
       /\ pass'[p].took = (Step(p).action \in HardActions /\ ok)
  BY <1>5, <1>11, <1>13, <1>14, <1>t DEF s
<1>16. /\ \A e \in Devices : e # Device(p) => pass'[p].budget[e] = pass[p].budget[e]
       /\ pass'[p].budget[Device(p)].actions = pass[p].budget[Device(p)].actions + 1
       /\ pass'[p].budget[Device(p)].hard =
            pass[p].budget[Device(p)].hard + (IF Step(p).action \in HardActions THEN 1 ELSE 0)
  BY <1>8, <1>11, <1>14, <1>b DEF s, d
<1>17. ran' = [ran EXCEPT ![Device(p)] = Append(ran[Device(p)], Deeds(p, ok))]
  BY <1>3 DEF d
<1> QED BY <1>1, <1>2, <1>4, <1>14, <1>15, <1>16, <1>17


\* What was done and announced is kept on the way to the next place.
Carries(p) ==
  /\ Stays(p) /\ pass[p].todo # <<>> /\ pass'[p].budget = pass[p].budget
  /\ pass'[p].step = pass[p].step /\ pass'[p].action = pass[p].action
  /\ pass'[p].took = pass[p].took /\ pass'[p].says = pass[p].says

LEMMA OnToMoves ==
  ASSUME Typed, NEW p \in Callers, NEW at \in {"stamp", "said", "notify", "record"}, NEW told \in BOOLEAN,
         pass[p].at \in {"await", "stamp", "said", "notify"},
         at = "said" => pass[p].step = 0,
         told => at = "record",
         pass' = [pass EXCEPT ![p].at = at, ![p].told = told]
  PROVE  PassOK' /\ OthersStay(p) /\ Carries(p) /\ pass'[p].at = at /\ pass'[p].told = told
<1> DEFINE rec == [pass[p] EXCEPT !.at = at, !.told = told]
<1>1. pass[p] \in PassOf /\ PlaceOK(p) /\ Working(p) /\ PassOK
  BY DEF Typed, PassOK, Working
<1>2. pass' = [pass EXCEPT ![p] = rec]
  BY <1>1 DEF PassOK
<1>3. /\ rec \in PassOf /\ rec.at = at /\ rec.step = pass[p].step /\ rec.took = pass[p].took
      /\ rec.told = told /\ rec.says = pass[p].says /\ rec.action = pass[p].action
      /\ rec.begun = pass[p].begun /\ rec.busy = pass[p].busy
      /\ rec.budget = pass[p].budget /\ rec.todo = pass[p].todo
  BY <1>1 DEF PassOf, Places
<1>4. /\ rec.says # "recovered"
      /\ rec.step # 0 => rec.at \in {"await", "stamp", "notify", "record"} /\ rec.action \in Actions
      /\ rec.took => rec.step # 0 /\ rec.action \in HardActions
  BY <1>1, <1>3 DEF PlaceOK
<1> HIDE DEF rec
<1>5. PassOK' /\ OthersStay(p) /\ Stays(p) /\ pass'[p] = rec /\ pass[p].todo # <<>>
  BY <1>1, <1>2, <1>3, <1>4, WorkMoves
<1> QED BY <1>3, <1>5 DEF Carries

LEMMA AnswerMoves ==
  ASSUME Typed, NEW p \in Callers, Answered(p) \/ Stamp(p) \/ (AlreadySaid(p) /\ pass' # MovedOn(p))
  PROVE  /\ PassOK' /\ OthersStay(p) /\ Carries(p) /\ ~pass'[p].told /\ ~pass[p].told
         /\ Answered(p) => pass'[p].at = "stamp"
         /\ ~Answered(p) => pass'[p].at \in {"said", "notify"}
<1>1. PassOK /\ pass[p] \in PassOf /\ PlaceOK(p) /\ pass[p].at \in {"await", "stamp", "said"}
  BY DEF Typed, PassOK, Answered, Stamp, AlreadySaid
<1>2. ~pass[p].told /\ pass[p].told = FALSE
  BY <1>1 DEF PlaceOK, PassOf
<1>3. ASSUME NEW at \in {"stamp", "said", "notify"}, at = "said" => pass[p].step = 0,
             pass' = [pass EXCEPT ![p].at = at]
      PROVE  PassOK' /\ OthersStay(p) /\ Carries(p) /\ pass'[p].at = at /\ ~pass'[p].told
  <2>1. pass' = [pass EXCEPT ![p].at = at, ![p].told = FALSE]
    BY <1>1, <1>2, <1>3 DEF PassOK, PassOf
  <2> QED BY <1>1, <1>3, <2>1, OnToMoves
<1>4. CASE Answered(p)
  <2>1. pass[p].at = "await" /\ pass' = [pass EXCEPT ![p].at = "stamp"]
    BY <1>4 DEF Answered
  <2> QED BY <1>2, <1>3, <1>4, <2>1
<1>5. CASE Stamp(p)
  <2> DEFINE at == IF pass[p].step = 0 THEN "said" ELSE "notify"
  <2>1. pass[p].at = "stamp" /\ pass' = [pass EXCEPT ![p].at = at]
    BY <1>5 DEF Stamp
  <2>2. ~Answered(p)
    BY <2>1 DEF Answered
  <2> QED BY <1>2, <1>3, <2>1, <2>2
<1>6. CASE AlreadySaid(p) /\ pass' # MovedOn(p)
  <2>1. pass[p].at = "said" /\ pass' = [pass EXCEPT ![p].at = "notify"]
    BY <1>6 DEF AlreadySaid
  <2>2. ~Answered(p)
    BY <2>1 DEF Answered
  <2> QED BY <1>2, <1>3, <2>1, <2>2
<1> QED BY <1>4, <1>5, <1>6

LEMMA NotifyMoves ==
  ASSUME Typed, NEW p \in Callers, Notify(p)
  PROVE  /\ PassOK' /\ OthersStay(p) /\ Carries(p) /\ pass'[p].at = "record"
         /\ ~pass[p].told /\ pass[p].says # "recovered"
         /\ \/ ~pass'[p].told /\ alerts' = alerts
            \/ /\ pass'[p].told /\ ~Announced(Device(p), Rule(p).signal)
               /\ alerts' = [alerts EXCEPT ![Device(p)] =
                               Append(alerts[Device(p)], [signal |-> Rule(p).signal, at |-> now])]
<1>1. PassOK /\ pass[p] \in PassOf /\ PlaceOK(p) /\ pass[p].at = "notify"
  BY DEF Typed, PassOK, Notify
<1>2. PICK posted \in BOOLEAN :
        /\ posted => ~Announced(Device(p), Rule(p).signal)
        /\ pass' = [pass EXCEPT ![p].at = "record", ![p].told = posted]
        /\ alerts' = IF posted THEN [alerts EXCEPT ![Device(p)] =
                            Append(alerts[Device(p)], [signal |-> Rule(p).signal, at |-> now])]
                     ELSE alerts
  BY DEF Notify
<1>3. PassOK' /\ OthersStay(p) /\ Carries(p) /\ pass'[p].at = "record" /\ pass'[p].told = posted
  BY <1>1, <1>2, OnToMoves
<1>4. ~pass[p].told /\ pass[p].says # "recovered"
  BY <1>1 DEF PlaceOK
<1> QED BY <1>2, <1>3, <1>4

LEMMA RecordMoves ==
  ASSUME Typed, NEW p \in Callers, Record(p)
  PROVE  PassOK' /\ OthersStay(p) /\ Onward(p)
<1>1. pass[p].todo # <<>> /\ pass' = MovedOn(p)
  BY DEF Record, Typed, PassOK, PlaceOK, Working
<1> QED BY <1>1, MovedOnMoves

LEMMA StartOrEndMoves ==
  ASSUME Typed, NEW p \in Callers, PassEnds(p) \/ PassStarts(p)
  PROVE  /\ PassOK' /\ OthersStay(p) /\ Clean(p)
         /\ PassEnds(p) => pass'[p].at = "idle"
         /\ PassStarts(p) => pass'[p].at = "busy" /\ pass'[p].begun = now
<1> DEFINE started == [Idle EXCEPT !.at = "busy", !.begun = now]
<1>1. PassOK /\ now \in Nat /\ Idle \in PassOf
  BY IdleIsTyped DEF Typed, ClockTypes
<1>2. /\ started \in PassOf /\ started.at = "busy" /\ started.begun = now /\ started.step = 0
      /\ ~started.took /\ ~started.told /\ started.says = "fault"
      /\ Idle.at = "idle" /\ Idle.step = 0 /\ ~Idle.took /\ ~Idle.told /\ Idle.says = "fault"
  BY <1>1 DEF Idle, PassOf, Places
<1>3. \E rec \in {Idle, started} :
        /\ pass' = [pass EXCEPT ![p] = rec]
        /\ PassEnds(p) => rec = Idle
        /\ PassStarts(p) => rec = started
  BY DEF PassEnds, PassStarts
<1> HIDE DEF started
<1>4. PICK rec \in {Idle, started} :
        /\ pass' = [pass EXCEPT ![p] = rec]
        /\ PassEnds(p) => rec = Idle
        /\ PassStarts(p) => rec = started
  BY <1>3
<1>5. pass'[p] = rec
  BY <1>1, <1>4 DEF PassOK
<1>6. PlaceOK(p)'
  BY <1>2, <1>5 DEF PlaceOK, Working
<1> QED BY <1>1, <1>2, <1>4, <1>5, <1>6, OnePassMoves DEF Clean


-----------------------------------------------------------------------------
(* Every variable keeps its type.                                          *)

\* Writing one row.
LEMMA RowCounted ==
  ASSUME LogTypes, NEW d \in Devices, NEW r \in Rules, NEW f \in Nat,
         row' = [row EXCEPT ![d][r].failures = f]
  PROVE  /\ row' \in [Devices -> [Rules -> RowOf]]
         /\ row'[d][r].acted = row[d][r].acted /\ row'[d][r].step = row[d][r].step
         /\ \A e \in Devices : \A t \in Rules : <<e, t>> # <<d, r>> => row'[e][t] = row[e][t]
<1> DEFINE rec == [row[d][r] EXCEPT !.failures = f]
<1>1. row[d][r] \in RowOf /\ row \in [Devices -> [Rules -> RowOf]]
  BY DEF LogTypes
<1>2. rec \in RowOf /\ rec.acted = row[d][r].acted /\ rec.step = row[d][r].step
  BY <1>1 DEF RowOf
<1>3. row' = [row EXCEPT ![d][r] = rec]
  BY <1>1
<1> HIDE DEF rec
<1>4. /\ row' \in [Devices -> [Rules -> RowOf]]
      /\ row'[d][r] = rec
      /\ \A e \in Devices : \A t \in Rules : <<e, t>> # <<d, r>> => row'[e][t] = row[e][t]
  <2>1. row[d] \in [Rules -> RowOf] /\ [row[d] EXCEPT ![r] = rec] \in [Rules -> RowOf]
    BY <1>1, <1>2
  <2> DEFINE col == [row[d] EXCEPT ![r] = rec]
  <2>2. row' = [row EXCEPT ![d] = col]
    BY <1>3
  <2>3. col[r] = rec /\ \A t \in Rules : t # r => col[t] = row[d][t]
    BY <2>1
  <2> HIDE DEF col
  <2>4. row'[d] = col /\ \A e \in Devices : e # d => row'[e] = row[e]
    BY <1>1, <2>2
  <2>5. row' \in [Devices -> [Rules -> RowOf]]
    BY <1>1, <2>1, <2>2 DEF col
  <2> QED BY <2>3, <2>4, <2>5
<1> QED BY <1>2, <1>4

LEMMA RowReset ==
  ASSUME LogTypes, NEW d \in Devices, NEW r \in Rules, NEW f \in Nat, NEW s \in Nat,
         row' = [row EXCEPT ![d][r].failures = f, ![d][r].step = s]
  PROVE  /\ row' \in [Devices -> [Rules -> RowOf]]
         /\ row'[d][r].acted = row[d][r].acted /\ row'[d][r].step = s
         /\ \A e \in Devices : \A t \in Rules : <<e, t>> # <<d, r>> => row'[e][t] = row[e][t]
<1> DEFINE rec == [row[d][r] EXCEPT !.failures = f, !.step = s]
<1>1. row[d][r] \in RowOf /\ row \in [Devices -> [Rules -> RowOf]]
  BY DEF LogTypes
<1>2. rec \in RowOf /\ rec.acted = row[d][r].acted /\ rec.step = s
  BY <1>1 DEF RowOf
<1>3. row' = [row EXCEPT ![d][r] = rec]
  BY <1>1
<1> HIDE DEF rec
<1>4. /\ row' \in [Devices -> [Rules -> RowOf]]
      /\ row'[d][r] = rec
      /\ \A e \in Devices : \A t \in Rules : <<e, t>> # <<d, r>> => row'[e][t] = row[e][t]
  <2>1. row[d] \in [Rules -> RowOf] /\ [row[d] EXCEPT ![r] = rec] \in [Rules -> RowOf]
    BY <1>1, <1>2
  <2> DEFINE col == [row[d] EXCEPT ![r] = rec]
  <2>2. row' = [row EXCEPT ![d] = col]
    BY <1>3
  <2>3. col[r] = rec /\ \A t \in Rules : t # r => col[t] = row[d][t]
    BY <2>1
  <2> HIDE DEF col
  <2>4. row'[d] = col /\ \A e \in Devices : e # d => row'[e] = row[e]
    BY <1>1, <2>2
  <2>5. row' \in [Devices -> [Rules -> RowOf]]
    BY <1>1, <2>1, <2>2 DEF col
  <2> QED BY <2>3, <2>4, <2>5
<1> QED BY <1>2, <1>4

LEMMA RowStamped ==
  ASSUME LogTypes, NEW p \in Callers, Stamp(p), Device(p) \in Devices, Rule(p) \in Rules,
         now \in Nat, pass[p].step \in Nat
  PROVE  /\ row' \in [Devices -> [Rules -> RowOf]]
         /\ row'[Device(p)][Rule(p)].acted = now
         /\ row'[Device(p)][Rule(p)].step =
              IF pass[p].step = 0 THEN row[Device(p)][Rule(p)].step ELSE pass[p].step
         /\ \A e \in Devices : \A t \in Rules :
              <<e, t>> # <<Device(p), Rule(p)>> => row'[e][t] = row[e][t]
<1> DEFINE d == Device(p)
           r == Rule(p)
           a == now
           s == IF pass[p].step = 0 THEN row[d][r].step ELSE pass[p].step
<1> DEFINE rec == [row[d][r] EXCEPT !.acted = a, !.step = s]
<1>1. row[d][r] \in RowOf /\ row \in [Devices -> [Rules -> RowOf]]
  BY DEF LogTypes
<1>2. rec \in RowOf /\ rec.acted = a /\ rec.step = s
  <2>1. row[d][r].step \in Nat
    BY <1>1 DEF RowOf
  <2>2. s \in Nat
    BY <2>1
  <2> HIDE DEF s
  <2> QED BY <1>1, <2>2 DEF RowOf
<1>3. row' = [row EXCEPT ![d][r] = rec]
  <2>1. row' = [row EXCEPT ![d][r].acted = a, ![d][r].step = s]
    BY DEF Stamp
  <2> HIDE DEF s
  <2> QED BY <1>1, <2>1
<1> HIDE DEF rec
<1>4. /\ row' \in [Devices -> [Rules -> RowOf]]
      /\ row'[d][r] = rec
      /\ \A e \in Devices : \A t \in Rules : <<e, t>> # <<d, r>> => row'[e][t] = row[e][t]
  <2>1. row[d] \in [Rules -> RowOf] /\ [row[d] EXCEPT ![r] = rec] \in [Rules -> RowOf]
    BY <1>1, <1>2
  <2> DEFINE col == [row[d] EXCEPT ![r] = rec]
  <2>2. row' = [row EXCEPT ![d] = col]
    BY <1>3
  <2>3. col[r] = rec /\ \A t \in Rules : t # r => col[t] = row[d][t]
    BY <2>1
  <2> HIDE DEF col
  <2>4. row'[d] = col /\ \A e \in Devices : e # d => row'[e] = row[e]
    BY <1>1, <2>2
  <2>5. row' \in [Devices -> [Rules -> RowOf]]
    BY <1>1, <2>1, <2>2 DEF col
  <2> QED BY <2>3, <2>4, <2>5
<1> QED BY <1>2, <1>4

\* The rows, logs and counts after a step of a pass.
LEMMA PassKeepsLogs ==
  ASSUME Typed, NEW p \in Callers, PassStep(p)
  PROVE  LogTypes'
<1>1. LogTypes /\ PassOK /\ now \in Nat /\ pass[p] \in PassOf /\ PlaceOK(p)
  BY DEF Typed, ClockTypes, PassOK
<1>2. ASSUME pass[p].todo # <<>>
      PROVE  Device(p) \in Devices /\ Rule(p) \in Rules
  BY <1>1, <1>2, WorkIsTyped
<1>3. CASE BusyRead(p) \/ BudgetsRead(p) \/ Skips(p) \/ Look(p) \/ StandsDown(p) \/ HoldsBack(p)
           \/ Trips(p) \/ Answered(p) \/ AlreadySaid(p) \/ PassEnds(p)
  BY <1>1, <1>3
  DEF BusyRead, BudgetsRead, Skips, Look, StandsDown, HoldsBack, Trips, Answered, AlreadySaid,
      PassEnds, LogTypes, history
<1>4. CASE Count(p)
  <2>1. PICK n \in Nat : row' = [row EXCEPT ![Device(p)][Rule(p)].failures = n]
    BY <1>4, CountMoves
  <2>2. row' \in [Devices -> [Rules -> RowOf]]
    BY <1>1, <1>2, <1>4, <2>1, CountMoves, RowCounted
  <2> QED BY <1>1, <1>4, <2>2 DEF Count, LogTypes, history
<1>5. CASE Recover(p)
  <2>1. /\ row' = [row EXCEPT ![Device(p)][Rule(p)].failures = 0, ![Device(p)][Rule(p)].step = 0]
        /\ episode' = [episode EXCEPT ![Device(p)][Rule(p)] = @ + 1]
        /\ UNCHANGED <<events, ran, alerts, lost>>
    BY <1>5 DEF Recover
  <2>2. Device(p) \in Devices /\ Rule(p) \in Rules
    BY <1>2, <1>5, RecoverMoves
  <2>3. row' \in [Devices -> [Rules -> RowOf]]
    BY <1>1, <2>1, <2>2, RowReset
  <2>4. episode' \in [Devices -> [Rules -> Nat]]
    <3>1. episode[Device(p)] \in [Rules -> Nat]
      BY <1>1, <2>2 DEF LogTypes
    <3>2. [episode[Device(p)] EXCEPT ![Rule(p)] = @ + 1] \in [Rules -> Nat]
      BY <2>2, <3>1
    <3>3. episode' = [episode EXCEPT ![Device(p)] = [episode[Device(p)] EXCEPT ![Rule(p)] = @ + 1]]
      BY <2>1
    <3> QED BY <1>1, <3>2, <3>3 DEF LogTypes
  <2> QED BY <1>1, <2>1, <2>3, <2>4 DEF LogTypes
<1>6. CASE Acts(p)
  <2>1. PICK ok \in BOOLEAN :
          /\ pass[p].todo # <<>> /\ Deeds(p, ok) \in Deed
          /\ ran' = [ran EXCEPT ![Device(p)] = Append(ran[Device(p)], Deeds(p, ok))]
    BY <1>6, ActMoves
  <2>2. Append(ran[Device(p)], Deeds(p, ok)) \in Seq(Deed)
    BY <1>1, <1>2, <2>1, AppendProperties DEF LogTypes
  <2>3. ran' \in [Devices -> Seq(Deed)]
    BY <1>1, <2>1, <2>2 DEF LogTypes
  <2> QED BY <1>1, <1>6, <2>3 DEF Acts, LogTypes
<1>7. CASE Stamp(p)
  <2>1. Device(p) \in Devices /\ Rule(p) \in Rules /\ pass[p].step \in Nat
    BY <1>1, <1>2, <1>7 DEF Stamp, PlaceOK, Working, PassOf
  <2>2. row' \in [Devices -> [Rules -> RowOf]]
    BY <1>1, <1>7, <2>1, RowStamped
  <2> QED BY <1>1, <1>7, <2>2 DEF Stamp, LogTypes, history
<1>8. CASE Notify(p)
  <2>1. Device(p) \in Devices /\ Rule(p).signal \in STRING
    BY <1>1, <1>2, <1>8, RulesAreTyped DEF Notify, PlaceOK, Working
  <2> DEFINE a == [signal |-> Rule(p).signal, at |-> now]
  <2>2. Append(alerts[Device(p)], a) \in Seq(Alert)
    BY <1>1, <2>1, AppendProperties DEF LogTypes, Alert
  <2>3. alerts' = alerts \/ alerts' = [alerts EXCEPT ![Device(p)] = Append(alerts[Device(p)], a)]
    BY <1>8, NotifyMoves
  <2>4. alerts' \in [Devices -> Seq(Alert)]
    BY <1>1, <2>2, <2>3 DEF LogTypes
  <2> QED BY <1>1, <1>8, <2>4 DEF Notify, LogTypes
<1>9. CASE Record(p)
  <2>1. Device(p) \in Devices /\ Rule(p) \in Rules
    BY <1>1, <1>2, <1>9 DEF Record, PlaceOK, Working
  <2> DEFINE e == [rule |-> Rule(p), action |-> pass[p].action, took |-> pass[p].took, at |-> now,
                   says |-> pass[p].says, told |-> pass[p].told]
  <2>2. e \in EventRow
    BY <1>1, <2>1 DEF EventRow, PassOf
  <2>3. events' = [events EXCEPT ![Device(p)] = Append(events[Device(p)], e)]
    BY <1>9 DEF Record
  <2> HIDE DEF e
  <2>4. Append(events[Device(p)], e) \in Seq(EventRow)
    BY <1>1, <2>1, <2>2, AppendProperties DEF LogTypes
  <2>5. events' \in [Devices -> Seq(EventRow)]
    BY <1>1, <2>3, <2>4 DEF LogTypes
  <2> QED BY <1>1, <1>9, <2>5 DEF Record, LogTypes, history
<1> QED BY <1>3, <1>4, <1>5, <1>6, <1>7, <1>8, <1>9 DEF PassStep

LEMMA PassKeepsLocals ==
  ASSUME Typed, NEW p \in Callers, PassStarts(p) \/ PassStep(p)
  PROVE  PassOK' /\ OthersStay(p)
<1>1. CASE Skips(p) \/ StandsDown(p) \/ (AlreadySaid(p) /\ pass' = MovedOn(p))
  <2>1. pass' = MovedOn(p)
    BY <1>1 DEF Skips, StandsDown
  <2>2. pass[p].todo # <<>>
    BY <1>1 DEF Skips, StandsDown, AlreadySaid, MayAct, Typed, PassOK, PlaceOK, Working
  <2> QED BY <2>1, <2>2, MovedOnMoves
<1> QED BY <1>1, BusyMoves, BudgetsMove, LookMoves, CountMoves, RecoverMoves, HeldMoves, ActMoves,
        AnswerMoves, NotifyMoves, RecordMoves, StartOrEndMoves DEF PassStep

LEMMA PassKeepsClock ==
  ASSUME Typed, NEW p \in Callers, PassStep(p)
  PROVE  /\ ClockTypes'
         /\ UNCHANGED <<lastTick, startedAt, worldVars, overlapped, lost, crashes>>
         /\ PassEnds(p) \/ phase' = phase
<1>1. /\ UNCHANGED <<lastTick, startedAt, worldVars, overlapped, lost, crashes>>
      /\ PassEnds(p) \/ phase' = phase
      /\ phase' \in {phase, "dispatch"}
  BY DEF PassStep, BusyRead, BudgetsRead, Skips, Look, Count, Recover, StandsDown, HoldsBack,
         Trips, Acts, Answered, Stamp, AlreadySaid, Notify, Record, PassEnds, history
<1> QED BY <1>1 DEF Typed, ClockTypes, worldVars

LEMMA CrashKeepsTypes ==
  ASSUME Typed, HubCrash
  PROVE  Typed'
<1>1. /\ LogTypes /\ ClockTypes /\ PassOK
      /\ lost' = [d \in Devices |-> lost[d] +
           Cardinality({p \in Callers : Unwritten(p) /\ Device(p) = d})]
      /\ pass' = [p \in Callers |-> Idle]
      /\ UNCHANGED <<row, events, worldVars, ran, alerts, episode, overlapped>>
  BY DEF HubCrash, Typed
<1>2. ASSUME NEW d \in Devices
      PROVE  lost[d] + Cardinality({p \in Callers : Unwritten(p) /\ Device(p) = d}) \in Nat
  <2>1. IsFiniteSet({p \in Callers : Unwritten(p) /\ Device(p) = d})
    BY MonitorAssumption, FS_Subset DEF MonitorAssumption
  <2> QED BY <1>1, <2>1, FS_CardinalityType DEF LogTypes
<1>3. LogTypes'
  BY <1>1, <1>2 DEF LogTypes
<1>4. ClockTypes'
  BY <1>1 DEF HubCrash, ClockTypes, worldVars
<1>5. PassOK'
  <2>1. pass' \in [Callers -> PassOf] /\ \A p \in Callers : pass'[p] = Idle
    BY <1>1, IdleIsTyped
  <2>2. /\ Idle.at = "idle" /\ Idle.step = 0 /\ ~Idle.took /\ ~Idle.told /\ Idle.says = "fault"
    BY DEF Idle
  <2>3. \A p \in Callers : PlaceOK(p)'
    BY <2>1, <2>2 DEF PlaceOK, Working
  <2> QED BY <2>1, <2>3 DEF PassOK
<1> QED BY <1>3, <1>4, <1>5 DEF Typed

\* Steps that touch neither a pass nor a log.
LEMMA WorldKeepsTypes ==
  ASSUME Typed,
         \/ PassSkipped \/ Dispatch \/ TimePasses \/ \E d \in Devices : InstallEnds(d)
         \/ UNCHANGED vars
  PROVE  /\ Typed' /\ UNCHANGED <<pass, row, events, lastTick, startedAt, history>>
         /\ now' \in {now, now + 1}
<1>1. /\ UNCHANGED <<pass, row, events, lastTick, startedAt, history>>
      /\ now' \in {now, now + 1}
      /\ installing' \subseteq Devices /\ phase' \in {phase, "start", "dispatch"}
  BY DEF PassSkipped, Dispatch, TimePasses, InstallEnds, vars, worldVars, history, Typed, ClockTypes
<1>2. ClockTypes' /\ LogTypes'
  BY <1>1 DEF Typed, ClockTypes, LogTypes, history
<1>3. PassOK'
  BY <1>1 DEF Typed, PassOK, PlaceOK, Working, Device
<1> QED BY <1>1, <1>2, <1>3 DEF Typed

LEMMA StartKeepsTypes ==
  ASSUME Typed, NEW p \in Callers, PassStarts(p)
  PROVE  Typed'
<1>1. ClockTypes' /\ LogTypes'
  BY DEF PassStarts, PhaseInPass, Typed, ClockTypes, LogTypes, worldVars
<1> QED BY <1>1, PassKeepsLocals DEF Typed

LEMMA StepKeepsTypes == Typed /\ [Next]_vars => Typed'
<1> SUFFICES ASSUME Typed, [Next]_vars PROVE Typed'
  OBVIOUS
<1>1. ASSUME NEW p \in Callers, PassStep(p) PROVE Typed'
  BY <1>1, PassKeepsLogs, PassKeepsLocals, PassKeepsClock DEF Typed
<1> QED BY <1>1, StartKeepsTypes, CrashKeepsTypes, WorldKeepsTypes DEF Next

LEMMA InitIsTyped == Init => Typed
<1> SUFFICES ASSUME Init PROVE Typed
  OBVIOUS
<1>1. ClockTypes
  BY DEF Init, ClockTypes
<1>2. LogTypes
  BY IdleIsTyped, EmptySeq DEF Init, LogTypes
<1>3. PassOK
  <2>1. pass \in [Callers -> PassOf] /\ \A p \in Callers : pass[p] = Idle
    BY IdleIsTyped DEF Init
  <2>2. /\ Idle.at = "idle" /\ Idle.step = 0 /\ ~Idle.took /\ ~Idle.told /\ Idle.says = "fault"
    BY DEF Idle
  <2> QED BY <2>1, <2>2 DEF PassOK, PlaceOK, Working
<1> QED BY <1>1, <1>2, <1>3 DEF Typed


-----------------------------------------------------------------------------
(* Installs are left alone.                                                *)

LEMMA AppendRead ==
  ASSUME NEW S, NEW s \in Seq(S), NEW e \in S
  PROVE  /\ DOMAIN s = 1..Len(s) /\ Len(s) \in Nat
         /\ DOMAIN Append(s, e) = DOMAIN s \cup {Len(s) + 1} /\ Len(s) + 1 \notin DOMAIN s
         /\ Append(s, e)[Len(s) + 1] = e
         /\ \A i \in DOMAIN s : Append(s, e)[i] = s[i] /\ i < Len(s) + 1
<1>1. Append(s, e) \in Seq(S) /\ Len(Append(s, e)) = Len(s) + 1
  BY AppendProperties
<1>2. DOMAIN s = 1..Len(s) /\ Len(s) \in Nat /\ DOMAIN Append(s, e) = 1..(Len(s) + 1)
  BY <1>1, LenProperties
<1> QED BY <1>2, AppendProperties

\* The logs of a box hold what they are logs of.
LEMMA LogsRead ==
  ASSUME LogTypes, NEW d \in Devices
  PROVE  /\ ran[d] \in Seq(Deed) /\ events[d] \in Seq(EventRow) /\ alerts[d] \in Seq(Alert)
         /\ \A i \in DOMAIN ran[d] : ran[d][i] \in Deed
         /\ \A i \in DOMAIN events[d] : events[d][i] \in EventRow
         /\ \A i \in DOMAIN alerts[d] : alerts[d][i] \in Alert
<1>1. ran[d] \in Seq(Deed) /\ events[d] \in Seq(EventRow) /\ alerts[d] \in Seq(Alert)
  BY DEF LogTypes
<1>2. /\ DOMAIN ran[d] = 1..Len(ran[d]) /\ DOMAIN events[d] = 1..Len(events[d])
      /\ DOMAIN alerts[d] = 1..Len(alerts[d])
  BY <1>1, LenProperties
<1>3. \A i \in DOMAIN ran[d] : ran[d][i] \in Deed
  BY <1>1, <1>2, ElementOfSeq
<1>4. \A i \in DOMAIN events[d] : events[d][i] \in EventRow
  BY <1>1, <1>2, ElementOfSeq
<1>5. \A i \in DOMAIN alerts[d] : alerts[d][i] \in Alert
  BY <1>1, <1>2, ElementOfSeq
<1> QED BY <1>1, <1>3, <1>4, <1>5

\* From one await of a pass to the next.
LEMMA PassPlaces ==
  ASSUME Typed, NEW p \in Callers, PassStep(p)
  PROVE  /\ pass[p].at # "idle"
         /\ \/ PassEnds(p) /\ pass'[p].at = "idle"
            \/ BusyRead(p) /\ pass'[p].at = "budgets" /\ phase' = phase
            \/ /\ {pass[p].at, pass'[p].at} \cap {"idle", "busy"} = {}
               /\ pass'[p].busy = pass[p].busy /\ pass'[p].begun = pass[p].begun
               /\ phase' = phase
<1>1. CASE PassEnds(p)
  BY <1>1, StartOrEndMoves DEF PassEnds
<1>2. CASE BusyRead(p)
  BY <1>2, BusyMoves DEF BusyRead
<1>3. CASE BudgetsRead(p)
  BY <1>3, BudgetsMove DEF BudgetsRead
<1>4. CASE Skips(p) \/ StandsDown(p) \/ (AlreadySaid(p) /\ pass' = MovedOn(p)) \/ Record(p)
  <2>1. pass' = MovedOn(p) /\ UNCHANGED phase
    BY <1>4 DEF Skips, StandsDown, Record, AlreadySaid
  <2>2. pass[p].todo # <<>> /\ pass[p].at \notin {"idle", "busy"}
    BY <1>4 DEF Skips, StandsDown, AlreadySaid, Record, MayAct, Typed, PassOK, PlaceOK, Working
  <2> QED BY <2>1, <2>2, MovedOnMoves DEF Onward
<1>5. CASE Look(p) \/ Count(p)
  BY <1>5, LookMoves, CountMoves DEF Look, Count, Stays, Onward
<1>6. CASE Recover(p) \/ HoldsBack(p) \/ Trips(p) \/ Acts(p)
  BY <1>6, RecoverMoves, HeldMoves, ActMoves DEF Recover, HoldsBack, Trips, Acts, Stays, MayAct
<1>7. CASE Answered(p) \/ Stamp(p) \/ (AlreadySaid(p) /\ pass' # MovedOn(p)) \/ Notify(p)
  BY <1>7, AnswerMoves, NotifyMoves DEF Answered, Stamp, AlreadySaid, Notify, Stays, Carries
<1> QED BY <1>1, <1>2, <1>3, <1>4, <1>5, <1>6, <1>7 DEF PassStep

TickWaits ==
  /\ (phase = "evaluate") <=> (pass["tick"].at # "idle")
  /\ pass["tick"].at \notin {"idle", "busy"} => installing \subseteq pass["tick"].busy

InstallsKept == Typed /\ TickWaits /\ InstallsLeftAlone

\* What is done to a box is done by Acts.
LEMMA OnlyActsDo ==
  ASSUME NEW p \in Callers, PassStep(p)
  PROVE  Acts(p) \/ UNCHANGED ran
  BY DEF PassStep, BusyRead, BudgetsRead, Skips, Look, Count, Recover, StandsDown, HoldsBack,
         Trips, Answered, Stamp, AlreadySaid, Notify, Record, PassEnds, history

LEMMA StepKeepsInstalls == InstallsKept /\ [Next]_vars => InstallsKept'
<1> SUFFICES ASSUME InstallsKept, [Next]_vars PROVE InstallsKept'
  OBVIOUS
<1>t. Typed /\ Typed' /\ "tick" \in Callers /\ PassOK
  BY StepKeepsTypes, MonitorAssumption DEF InstallsKept, MonitorAssumption, Typed
<1>1. ASSUME NEW p \in Callers, PassStep(p) PROVE TickWaits' /\ InstallsLeftAlone'
  <2>1. UNCHANGED installing /\ OthersStay(p)
    BY <1>1, <1>t, PassKeepsClock, PassKeepsLocals DEF worldVars
  <2>2. TickWaits'
    <3>1. CASE p # "tick"
      <4>1. pass'["tick"] = pass["tick"]
        BY <1>t, <2>1, <3>1 DEF OthersStay
      <4>2. phase' = phase
        BY <1>1, <1>t, <3>1, PassKeepsClock DEF PassEnds
      <4> QED BY <2>1, <4>1, <4>2 DEF InstallsKept, TickWaits
    <3>2. CASE p = "tick"
      <4>1. CASE PassEnds(p) /\ pass'[p].at = "idle"
        <5>1. phase' = "dispatch"
          BY <3>2, <4>1 DEF PassEnds
        <5> QED BY <3>2, <4>1, <5>1 DEF TickWaits
      <4>2. CASE BusyRead(p) /\ pass'[p].at = "budgets" /\ phase' = phase
        <5>1. installing \subseteq pass'[p].busy
          BY <1>t, <4>2, BusyMoves DEF Installing
        <5> QED BY <1>1, <1>t, <2>1, <3>2, <4>2, <5>1, PassPlaces DEF InstallsKept, TickWaits
      <4> QED BY <1>1, <1>t, <2>1, <3>2, <4>1, <4>2, PassPlaces DEF InstallsKept, TickWaits
    <3> QED BY <3>1, <3>2
  <2>3. InstallsLeftAlone'
    <3>1. CASE UNCHANGED ran
      BY <3>1 DEF InstallsKept, InstallsLeftAlone
    <3>2. CASE Acts(p)
      <4>1. PICK ok \in BOOLEAN :
              /\ Device(p) \notin pass[p].busy /\ Deeds(p, ok) \in Deed
              /\ pass[p].todo # <<>>
              /\ ran' = [ran EXCEPT ![Device(p)] = Append(ran[Device(p)], Deeds(p, ok))]
        BY <1>t, <3>2, ActMoves
      <4>2. p = "tick" => Device(p) \notin installing
        BY <3>2, <4>1 DEF InstallsKept, TickWaits, Acts, MayAct
      <4> DEFINE x == Deeds(p, ok)
      <4>3. x.by = p /\ (x.installing <=> Device(p) \in installing)
        BY DEF Deeds
      <4> HIDE DEF x
      <4> SUFFICES ASSUME NEW d \in Devices, NEW i \in DOMAIN ran'[d], ran'[d][i].by = "tick"
                   PROVE  ~ran'[d][i].installing
        BY DEF InstallsLeftAlone
      <4>4. ran[d] \in Seq(Deed) /\ Device(p) \in Devices /\ ran \in [Devices -> Seq(Deed)]
        BY <1>t, <4>1, WorkIsTyped DEF Typed, LogTypes
      <4>5. CASE d # Device(p)
        BY <4>1, <4>4, <4>5 DEF InstallsKept, InstallsLeftAlone
      <4>6. CASE d = Device(p)
        <5>1. ran'[d] = Append(ran[d], x) /\ x \in Deed
          BY <4>1, <4>4, <4>6 DEF x
        <5>2. CASE i \in DOMAIN ran[d]
          <6>1. ran'[d][i] = ran[d][i]
            BY <4>4, <5>1, <5>2, AppendRead
          <6> QED BY <5>2, <6>1 DEF InstallsKept, InstallsLeftAlone
        <5>3. CASE i = Len(ran[d]) + 1
          <6>1. ran'[d][i] = x
            BY <4>4, <5>1, <5>3, AppendRead
          <6> QED BY <4>2, <4>3, <6>1
        <5> QED BY <4>4, <5>1, <5>2, <5>3, AppendRead
      <4> QED BY <4>5, <4>6
    <3> QED BY <1>1, <3>1, <3>2, OnlyActsDo
  <2> QED BY <2>2, <2>3
<1>2. ASSUME NEW p \in Callers, PassStarts(p) PROVE TickWaits' /\ InstallsLeftAlone'
  <2>1. /\ OthersStay(p) /\ pass'[p].at = "busy" /\ UNCHANGED <<installing, ran>>
        /\ phase' = IF p = "tick" THEN "evaluate" ELSE phase
    BY <1>2, <1>t, StartOrEndMoves DEF PassStarts, PhaseInPass, worldVars
  <2> QED BY <1>t, <2>1 DEF InstallsKept, TickWaits, InstallsLeftAlone, OthersStay
<1>3. CASE HubCrash
  <2>1. pass'["tick"].at = "idle" /\ phase' = "start" /\ UNCHANGED ran
    BY <1>3, <1>t DEF HubCrash, Idle
  <2> QED BY <1>t, <2>1 DEF InstallsKept, TickWaits, InstallsLeftAlone
<1>4. CASE \/ PassSkipped \/ Dispatch \/ TimePasses \/ \E d \in Devices : InstallEnds(d)
           \/ UNCHANGED vars
  <2>1. UNCHANGED <<pass, ran>>
    BY <1>4, <1>t, WorldKeepsTypes DEF history
  <2>2. /\ (phase' = "evaluate") = (phase = "evaluate")
        /\ phase = "evaluate" => installing' \subseteq installing
    BY <1>4 DEF PassSkipped, Dispatch, TimePasses, InstallEnds, vars, worldVars, InstallsKept,
                TickWaits
  <2> QED BY <1>t, <2>1, <2>2 DEF InstallsKept, TickWaits, InstallsLeftAlone
<1> QED BY <1>1, <1>2, <1>3, <1>4, <1>t DEF Next, InstallsKept

LEMMA InstallsBegin == Init => InstallsKept
<1> SUFFICES ASSUME Init PROVE InstallsKept
  OBVIOUS
<1>1. pass["tick"].at = "idle" /\ phase = "start" /\ ran = [d \in Devices |-> <<>>]
  BY MonitorAssumption DEF Init, Idle, MonitorAssumption
<1> QED BY <1>1, InitIsTyped DEF InstallsKept, TickWaits, InstallsLeftAlone

\* The tick never acts on a box with an install under way, although it asked only
\* once, whatever other passes, commands and crashes happen meanwhile: nothing is
\* dispatched before its pass has ended.
THEOREM InstallsAreSafe == Spec => []InstallsLeftAlone
<1>1. InstallsKept => InstallsLeftAlone
  BY DEF InstallsKept
<1> QED BY <1>1, InstallsBegin, StepKeepsInstalls, PTL DEF Spec

\* Every variable keeps its type, and a pass of the tick is under way exactly while
\* the tick waits for it.
THEOREM TheLadderIsTyped == Spec => []TypeOK
<1>1. InstallsKept => TypeOK
  <2> SUFFICES ASSUME InstallsKept PROVE TypeOK
    OBVIOUS
  <2>1. LogTypes /\ ClockTypes /\ PassOK /\ TickWaits
    BY DEF InstallsKept, Typed
  <2>2. row \in [Devices -> [Rules -> [failures : Nat, acted : Nat \cup {Never}, step : Nat]]]
    BY <2>1 DEF LogTypes, RowOf
  <2>3. \A d \in Devices : \A i \in DOMAIN events[d] : events[d][i] \in EventRow
    BY <2>1, LogsRead
  <2>4. \A p \in Callers : Working(p) => pass[p].todo # <<>>
    BY <2>1 DEF PassOK, PlaceOK
  <2>5. pass["tick"].at # "idle" <=> phase = "evaluate"
    BY <2>1 DEF TickWaits
  <2> QED BY <2>1, <2>2, <2>3, <2>4, <2>5 DEF TypeOK, ClockTypes, Working
<1> QED BY <1>1, InstallsBegin, StepKeepsInstalls, PTL DEF Spec


-----------------------------------------------------------------------------
(* Passes that have not overlapped: one pass at a time.                    *)

Alone == ~overlapped => \A p, q \in Callers : pass[p].at # "idle" /\ pass[q].at # "idle" => p = q

LEMMA StepKeepsAlone == Typed /\ Alone /\ [Next]_vars => Alone'
<1> SUFFICES ASSUME Typed, Alone, [Next]_vars PROVE Alone'
  OBVIOUS
<1>1. ASSUME NEW p \in Callers, PassStarts(p) PROVE Alone'
  <2>1. OthersStay(p) /\ overlapped' = (overlapped \/ \E q \in Callers : pass[q].at # "idle")
    BY <1>1, PassKeepsLocals DEF PassStarts
  <2> QED BY <2>1 DEF Alone, OthersStay
<1>2. ASSUME NEW p \in Callers, PassStep(p) PROVE Alone'
  <2>1. OthersStay(p) /\ overlapped' = overlapped /\ pass[p].at # "idle"
    BY <1>2, PassKeepsLocals, PassKeepsClock, PassPlaces
  <2> QED BY <2>1 DEF Alone, OthersStay
<1>3. CASE HubCrash
  BY <1>3 DEF HubCrash, Alone, Idle
<1>4. CASE \/ PassSkipped \/ Dispatch \/ TimePasses \/ \E d \in Devices : InstallEnds(d)
           \/ UNCHANGED vars
  BY <1>4, WorldKeepsTypes DEF Alone, history
<1> QED BY <1>1, <1>2, <1>3, <1>4 DEF Next

\* The other passes rest, and have nothing to say.
OthersRest(p) == \A q \in Callers : q # p =>
  pass[q].at = "idle" /\ pass[q].step = 0 /\ ~pass[q].took /\ ~pass[q].told

LEMMA OthersAreIdle ==
  ASSUME Typed, Alone, ~overlapped', NEW p \in Callers, PassStep(p) \/ PassStarts(p)
  PROVE  /\ ~overlapped /\ OthersRest(p) /\ OthersRest(p)'
         /\ PassStarts(p) => pass[p].step = 0 /\ ~pass[p].took /\ ~pass[p].told
<1>1. ~overlapped
  BY PassKeepsClock DEF PassStarts
<1>2. \A q \in Callers : q # p => pass[q].at = "idle"
  <2>1. CASE PassStep(p)
    BY <1>1, <2>1, PassPlaces DEF Alone
  <2>2. CASE PassStarts(p)
    BY <2>2 DEF PassStarts
  <2> QED BY <2>1, <2>2
<1>3. \A q \in Callers : pass[q].at = "idle" => pass[q].step = 0 /\ ~pass[q].took /\ ~pass[q].told
  BY DEF Typed, PassOK, PlaceOK
<1>4. \A q \in Callers : q # p => pass'[q] = pass[q]
  BY PassKeepsLocals DEF OthersStay
<1> QED BY <1>1, <1>2, <1>3, <1>4 DEF OthersRest, PassStarts

-----------------------------------------------------------------------------
(* The ladder and the cooldown.                                            *)

\* What was done lies in the past, on a rung of the ladder.
DeedsPast == \A d \in Devices : \A i \in DOMAIN ran[d] :
  /\ ran[d][i].at <= now /\ ran[d][i].step <= Top(ran[d][i].rule).at
  /\ ran[d][i].episode <= episode[d][ran[d][i].rule]

\* An action of this rule was run on this box and its row is not stamped yet.
Unstamped(p) == pass[p].at \in {"await", "stamp"} /\ pass[p].step # 0
Pending(d, r) == \E p \in Callers : Unstamped(p) /\ Device(p) = d /\ Rule(p) = r

\* The row knows of an action.
Stamped(d, x) ==
  /\ row[d][x.rule].acted >= x.at
  /\ x.episode = episode[d][x.rule] => x.step <= row[d][x.rule].step

Paced(d) == \A i \in DOMAIN ran[d] : Stamped(d, ran[d][i]) \/ Pending(d, ran[d][i].rule)

\* What is about to be stamped is the highest rung of the episode.
StampIsHigh(p) == Unstamped(p) /\ lost[Device(p)] = 0 =>
  \A i \in DOMAIN ran[Device(p)] : LET x == ran[Device(p)][i] IN
    x.rule = Rule(p) /\ x.episode = episode[Device(p)][Rule(p)] => x.step <= pass[p].step

\* The row a pass decides by is still the row.
Fresh(p) == pass[p].at \in {"count", "recover", "escalate"} =>
  /\ pass[p].seen.acted = row[Device(p)][Rule(p)].acted
  /\ pass[p].seen.step = row[Device(p)][Rule(p)].step

Climbs(d) == \A i, j \in DOMAIN ran[d] :
  LET x == ran[d][i]
      y == ran[d][j] IN
  i < j /\ x.rule = y.rule =>
    /\ y.at - x.at >= x.rule.cooldown
    /\ x.episode = y.episode => x.step < y.step \/ (x.step = y.step /\ x.step = Top(x.rule).at)

Ladders ==
  /\ \A d \in Devices : lost[d] = 0 => Paced(d) /\ Climbs(d)
  /\ \A p \in Callers : StampIsHigh(p) /\ Fresh(p)

LaddersKept == Typed /\ Alone /\ DeedsPast /\ (~overlapped => Ladders)

LEMMA StepKeepsPast == Typed /\ DeedsPast /\ [Next]_vars => DeedsPast'
<1> SUFFICES ASSUME Typed, DeedsPast, [Next]_vars PROVE DeedsPast'
  OBVIOUS
<1>0. LogTypes /\ now \in Nat /\ PassOK
  BY DEF Typed, ClockTypes
<1>1. ASSUME NEW p \in Callers, PassStep(p) PROVE DeedsPast'
  <2>0. now' = now
    BY <1>1, PassKeepsClock DEF worldVars
  <2>1. CASE UNCHANGED <<ran, episode>>
    BY <2>0, <2>1 DEF DeedsPast
  <2>2. CASE Recover(p)
    <3>1. ran' = ran /\ episode' = [episode EXCEPT ![Device(p)][Rule(p)] = @ + 1]
      BY <2>2 DEF Recover
    <3>2. \A d \in Devices : \A r \in Rules : episode'[d][r] >= episode[d][r] /\ episode[d][r] \in Nat
                                             /\ episode'[d][r] \in Nat
      BY <1>0, <3>1 DEF LogTypes
    <3>3. \A d \in Devices : \A i \in DOMAIN ran[d] : ran[d][i].rule \in Rules /\ ran[d][i].episode \in Nat
      BY <1>0, LogsRead DEF Deed
    <3> QED BY <2>0, <3>1, <3>2, <3>3 DEF DeedsPast
  <2>3. CASE Acts(p)
    <3>1. PICK ok \in BOOLEAN :
            /\ Deeds(p, ok) \in Deed /\ pass[p].todo # <<>> /\ Step(p) \in Rule(p).steps
            /\ ran' = [ran EXCEPT ![Device(p)] = Append(ran[Device(p)], Deeds(p, ok))]
      BY <2>3, ActMoves, <1>0
    <3>2. Device(p) \in Devices /\ Rule(p) \in Rules /\ episode' = episode
      BY <1>0, <2>3, <3>1, WorkIsTyped DEF Acts
    <3>3. /\ Deeds(p, ok).at = now /\ Deeds(p, ok).step <= Top(Rule(p)).at
          /\ Deeds(p, ok).rule = Rule(p) /\ Deeds(p, ok).episode = episode[Device(p)][Rule(p)]
      BY <3>1, <3>2, RulesAreTyped DEF Deeds
    <3>4. episode[Device(p)][Rule(p)] \in Nat
      BY <1>0, <3>2 DEF LogTypes
    <3> DEFINE x == Deeds(p, ok)
    <3> HIDE DEF x
    <3>5. ASSUME NEW d \in Devices, NEW i \in DOMAIN ran'[d]
          PROVE  \/ i \in DOMAIN ran[d] /\ ran'[d][i] = ran[d][i]
                 \/ d = Device(p) /\ ran'[d][i] = x
      <4>1. ran \in [Devices -> Seq(Deed)] /\ ran[d] \in Seq(Deed)
        BY <1>0 DEF LogTypes
      <4>2. CASE d # Device(p)
        BY <3>1, <4>1, <4>2, <3>5
      <4>3. CASE d = Device(p)
        <5>1. ran'[d] = Append(ran[d], x) /\ x \in Deed
          BY <3>1, <4>1, <4>3 DEF x
        <5> QED BY <3>5, <4>1, <4>3, <5>1, AppendRead
      <4> QED BY <4>2, <4>3
    <3> QED BY <1>0, <2>0, <3>2, <3>3, <3>4, <3>5 DEF DeedsPast, x
  <2> QED BY <1>1, <2>1, <2>2, <2>3
      DEF PassStep, BusyRead, BudgetsRead, Skips, Look, Count, StandsDown, HoldsBack,
          Trips, Answered, Stamp, AlreadySaid, Notify, Record, PassEnds, history
<1>2. ASSUME UNCHANGED <<ran, episode>>, now' \in {now, now + 1} PROVE DeedsPast'
  <2>1. \A d \in Devices : \A i \in DOMAIN ran[d] : ran[d][i].at \in Nat
    BY <1>0, LogsRead DEF Deed
  <2> QED BY <1>0, <1>2, <2>1 DEF DeedsPast
<1>3. ASSUME NEW p \in Callers, PassStarts(p) PROVE UNCHANGED <<ran, episode>> /\ now' = now
  BY <1>3 DEF PassStarts, worldVars
<1>4. CASE HubCrash
  BY <1>2, <1>4 DEF HubCrash, worldVars
<1>5. CASE \/ PassSkipped \/ Dispatch \/ TimePasses \/ \E d \in Devices : InstallEnds(d)
           \/ UNCHANGED vars
  BY <1>2, <1>5, WorldKeepsTypes DEF history
<1> QED BY <1>1, <1>2, <1>3, <1>4, <1>5 DEF Next


\* A step that leaves the rows, and what is still to be stamped, alone.
LEMMA LaddersStay ==
  ASSUME Typed, Ladders, NEW p \in Callers, OthersRest(p), OthersRest(p)', OthersStay(p),
         UNCHANGED <<row, ran, episode, lost>>,
         \/ ~Unstamped(p) /\ ~Unstamped(p)'
         \/ Unstamped(p) /\ Unstamped(p)' /\ Stays(p) /\ pass'[p].step = pass[p].step,
         Fresh(p)'
  PROVE  Ladders'
<1>1. \A q \in Callers : q # p => ~Unstamped(q) /\ ~Unstamped(q)' /\ Fresh(q)'
  BY DEF OthersRest, Unstamped, Fresh
<1>2. \A d, r : Pending(d, r)' = Pending(d, r)
  <2> SUFFICES ASSUME NEW d, NEW r PROVE Pending(d, r)' <=> Pending(d, r)
    OBVIOUS
  <2>1. Pending(d, r) <=> Unstamped(p) /\ Device(p) = d /\ Rule(p) = r
    BY <1>1 DEF Pending
  <2>2. Pending(d, r)' <=> Unstamped(p)' /\ Device(p)' = d /\ Rule(p)' = r
    BY <1>1 DEF Pending
  <2> QED BY <2>1, <2>2 DEF Stays
<1>3. \A d \in Devices : lost'[d] = 0 => Paced(d)' /\ Climbs(d)'
  BY <1>2 DEF Ladders, Paced, Climbs, Stamped
<1>4. StampIsHigh(p)'
  <2>1. CASE ~Unstamped(p)'
    BY <2>1 DEF StampIsHigh
  <2>2. CASE Unstamped(p) /\ Stays(p) /\ pass'[p].step = pass[p].step
    <3>1. StampIsHigh(p)
      BY DEF Ladders
    <3> QED BY <2>2, <3>1 DEF StampIsHigh, Stays
  <2> QED BY <2>1, <2>2
<1>5. \A q \in Callers : q # p => StampIsHigh(q)'
  BY <1>1 DEF StampIsHigh
<1> QED BY <1>1, <1>3, <1>4, <1>5 DEF Ladders

LEMMA QuietPassKeepsLadders ==
  ASSUME Typed, Ladders, NEW p \in Callers, OthersRest(p), OthersRest(p)', OthersStay(p),
         \/ PassStarts(p) \/ BusyRead(p) \/ BudgetsRead(p) \/ Skips(p) \/ Look(p) \/ StandsDown(p)
         \/ HoldsBack(p) \/ Trips(p) \/ Answered(p) \/ AlreadySaid(p) \/ Notify(p) \/ Record(p)
         \/ PassEnds(p)
  PROVE  Ladders'
<1>1. UNCHANGED <<row, ran, episode, lost>> /\ PlaceOK(p) /\ PassOK
  BY DEF PassStarts, BusyRead, BudgetsRead, Skips, Look, StandsDown, HoldsBack, Trips, Answered,
         AlreadySaid, Notify, Record, PassEnds, history, Typed, PassOK
<1>2. CASE Answered(p)
  <2>1. Stays(p) /\ pass'[p].at = "stamp" /\ pass'[p].step = pass[p].step /\ pass[p].at = "await"
    BY <1>2, AnswerMoves DEF Carries, Answered
  <2> QED BY <1>1, <2>1, LaddersStay DEF Unstamped, Fresh
<1>3. CASE Look(p) /\ ~Onward(p)
  <2>1. /\ Stays(p) /\ pass'[p].at \in {"count", "recover"}
        /\ pass'[p].seen = row[Device(p)][Rule(p)] /\ pass[p].at = "look"
    BY <1>3, LookMoves DEF Look
  <2>2. Fresh(p)'
    BY <1>1, <2>1 DEF Fresh, Stays
  <2> QED BY <1>1, <2>1, <2>2, LaddersStay DEF Unstamped
<1>4. CASE HoldsBack(p) \/ Trips(p)
  <2>1. pass[p].at = "escalate" /\ pass'[p].at = "stamp" /\ pass'[p].step = 0
    BY <1>4, HeldMoves DEF HoldsBack, Trips, MayAct, Clean
  <2> QED BY <1>1, <2>1, LaddersStay DEF Unstamped, Fresh
<1>5. CASE AlreadySaid(p) /\ pass' # MovedOn(p)
  <2>1. pass[p].at = "said" /\ pass'[p].at \in {"said", "notify"}
    BY <1>5, AnswerMoves DEF AlreadySaid, Answered
  <2> QED BY <1>1, <2>1, LaddersStay DEF Unstamped, Fresh
<1>6. CASE Skips(p) \/ StandsDown(p) \/ (AlreadySaid(p) /\ pass' = MovedOn(p)) \/ Record(p)
           \/ (Look(p) /\ Onward(p))
  <2>1. pass[p].at \in {"look", "escalate", "said", "record"}
    BY <1>6 DEF Skips, StandsDown, AlreadySaid, Record, Look
  <2>2. pass'[p].at = "look"
    <3>1. CASE Look(p) /\ Onward(p)
      BY <3>1 DEF Onward
    <3>2. CASE Skips(p) \/ StandsDown(p) \/ (AlreadySaid(p) /\ pass' = MovedOn(p)) \/ Record(p)
      <4>1. pass' = MovedOn(p)
        BY <3>2 DEF Skips, StandsDown, Record
      <4>2. pass[p].todo # <<>>
        BY <1>1, <3>2 DEF Skips, StandsDown, AlreadySaid, Record, MayAct, PlaceOK, Working
      <4> QED BY <4>1, <4>2, MovedOnMoves DEF Onward
    <3> QED BY <1>6, <3>1, <3>2
  <2> QED BY <1>1, <2>1, <2>2, LaddersStay DEF Unstamped, Fresh
<1>7. CASE PassStarts(p) \/ PassEnds(p) \/ BusyRead(p) \/ BudgetsRead(p) \/ Notify(p)
  <2>1. pass[p].at \in {"idle", "busy", "budgets", "look", "notify"}
    BY <1>7 DEF PassStarts, PassEnds, BusyRead, BudgetsRead, Notify
  <2>2. pass'[p].at \in {"idle", "busy", "budgets", "look", "record"}
    BY <1>7, StartOrEndMoves, BusyMoves, BudgetsMove, NotifyMoves
  <2> QED BY <1>1, <2>1, <2>2, LaddersStay DEF Unstamped, Fresh
<1> QED BY <1>2, <1>3, <1>4, <1>5, <1>6, <1>7

\* With nobody else at work, only p has anything to be stamped.
LEMMA PendingIsOurs ==
  ASSUME NEW p \in Callers, OthersRest(p)
  PROVE  \A d, r : Pending(d, r) <=> Unstamped(p) /\ Device(p) = d /\ Rule(p) = r
  BY DEF Pending, OthersRest, Unstamped

LEMMA OthersHaveNothing ==
  ASSUME NEW p \in Callers, OthersRest(p)
  PROVE  \A q \in Callers : q # p => StampIsHigh(q) /\ Fresh(q)
  BY DEF OthersRest, Unstamped, StampIsHigh, Fresh

LEMMA CountKeepsLadders ==
  ASSUME Typed, Ladders, NEW p \in Callers, OthersRest(p), OthersRest(p)', Count(p)
  PROVE  Ladders'
<1>1. /\ LogTypes /\ PassOK /\ pass[p].at = "count" /\ Device(p) \in Devices /\ Rule(p) \in Rules
      /\ UNCHANGED <<ran, episode, lost>>
  BY CountMoves, WorkIsTyped DEF Typed, Count, history
<1>2. PICK n \in Nat : row' = [row EXCEPT ![Device(p)][Rule(p)].failures = n]
  BY CountMoves
<1>3. \A d \in Devices : \A r \in Rules : row'[d][r].acted = row[d][r].acted
                                          /\ row'[d][r].step = row[d][r].step
  BY <1>1, <1>2, RowCounted
<1>4. ~Unstamped(p) /\ ~Unstamped(p)'
  BY <1>1, CountMoves DEF Unstamped, Onward
<1>5. \A d, r : ~Pending(d, r) /\ ~Pending(d, r)'
  BY <1>4, PendingIsOurs DEF Pending, OthersRest, Unstamped
<1>6. Fresh(p)'
  <2>1. Fresh(p)
    BY DEF Ladders
  <2> QED BY <1>1, <1>3, <2>1, CountMoves DEF Fresh, Onward, Stays
<1>7. \A d \in Devices : lost'[d] = 0 => Paced(d)' /\ Climbs(d)'
  <2> SUFFICES ASSUME NEW d \in Devices, lost[d] = 0 PROVE Paced(d)' /\ Climbs(d)'
    BY <1>1
  <2>1. \A i \in DOMAIN ran[d] : ran[d][i].rule \in Rules
    BY <1>1, LogsRead DEF Deed
  <2>2. Paced(d) /\ Climbs(d)
    BY DEF Ladders
  <2> QED BY <1>1, <1>3, <1>5, <2>1, <2>2 DEF Paced, Stamped, Climbs
<1> QED BY <1>4, <1>6, <1>7, OthersHaveNothing
    DEF Ladders, StampIsHigh, OthersRest, Unstamped, Fresh


\* A recovery begins an episode of which nothing has been done yet.
LEMMA RecoverKeepsLadders ==
  ASSUME Typed, DeedsPast, Ladders, NEW p \in Callers, OthersRest(p), OthersRest(p)', Recover(p)
  PROVE  Ladders'
<1> DEFINE d0 == Device(p)
           r0 == Rule(p)
<1>1. /\ LogTypes /\ PassOK /\ pass[p].at = "recover" /\ d0 \in Devices /\ r0 \in Rules
      /\ UNCHANGED <<ran, lost>>
      /\ row' = [row EXCEPT ![d0][r0].failures = 0, ![d0][r0].step = 0]
      /\ episode' = [episode EXCEPT ![d0][r0] = @ + 1]
  BY RecoverMoves, WorkIsTyped DEF Typed, Recover
<1>2. /\ row'[d0][r0].acted = row[d0][r0].acted
      /\ \A e \in Devices : \A t \in Rules : <<e, t>> # <<d0, r0>> => row'[e][t] = row[e][t]
  BY <1>1, RowReset
<1>3. /\ episode[d0][r0] \in Nat /\ episode'[d0][r0] = episode[d0][r0] + 1
      /\ \A e \in Devices : \A t \in Rules : <<e, t>> # <<d0, r0>> => episode'[e][t] = episode[e][t]
  <2>1. episode[d0] \in [Rules -> Nat] /\ episode \in [Devices -> [Rules -> Nat]]
    BY <1>1 DEF LogTypes
  <2> QED BY <1>1, <2>1
<1>4. ~Unstamped(p) /\ ~Unstamped(p)' /\ Fresh(p)'
  BY <1>1, RecoverMoves DEF Unstamped, Fresh
<1>5. \A d, r : ~Pending(d, r) /\ ~Pending(d, r)'
  BY <1>4, PendingIsOurs DEF Pending, OthersRest, Unstamped
<1>6. ASSUME NEW d \in Devices, lost[d] = 0 PROVE Paced(d)' /\ Climbs(d)'
  <2>1. Paced(d) /\ Climbs(d)
    BY <1>6 DEF Ladders
  <2> SUFFICES ASSUME NEW i \in DOMAIN ran[d] PROVE Stamped(d, ran[d][i])'
    BY <1>1, <2>1 DEF Paced, Climbs
  <2>2. /\ ran[d][i].rule \in Rules /\ ran[d][i].episode \in Nat
        /\ ran[d][i].episode <= episode[d][ran[d][i].rule] /\ Stamped(d, ran[d][i])
    BY <1>1, <1>5, <2>1, LogsRead DEF Deed, DeedsPast, Paced
  <2>3. CASE d = d0 /\ ran[d][i].rule = r0
    <3>1. ran[d][i].episode # episode'[d][ran[d][i].rule]
      BY <1>3, <2>2, <2>3
    <3> QED BY <1>1, <1>2, <2>2, <2>3, <3>1 DEF Stamped
  <2>4. CASE ~(d = d0 /\ ran[d][i].rule = r0)
    <3>1. row'[d][ran[d][i].rule] = row[d][ran[d][i].rule]
          /\ episode'[d][ran[d][i].rule] = episode[d][ran[d][i].rule]
      BY <1>2, <1>3, <2>2, <2>4
    <3> QED BY <1>1, <2>2, <3>1 DEF Stamped
  <2> QED BY <2>3, <2>4
<1> QED BY <1>1, <1>4, <1>6, OthersHaveNothing
    DEF Ladders, StampIsHigh, OthersRest, Unstamped, Fresh

LEMMA StampKeepsLadders ==
  ASSUME Typed, DeedsPast, Ladders, NEW p \in Callers, OthersRest(p), OthersRest(p)', Stamp(p)
  PROVE  Ladders'
<1> DEFINE d0 == Device(p)
           r0 == Rule(p)
           step == IF pass[p].step = 0 THEN row[d0][r0].step ELSE pass[p].step
<1>1. /\ LogTypes /\ PassOK /\ pass[p].at = "stamp" /\ d0 \in Devices /\ r0 \in Rules /\ now \in Nat
      /\ UNCHANGED <<ran, lost, episode>>
      /\ row' = [row EXCEPT ![d0][r0].acted = now, ![d0][r0].step = step]
  BY AnswerMoves, WorkIsTyped DEF Typed, ClockTypes, Stamp, history, Carries
<1>2. step \in Nat /\ pass[p].step \in Nat
  <2>1. row[d0][r0] \in RowOf /\ pass[p] \in PassOf
    BY <1>1 DEF LogTypes, PassOK
  <2>2. row[d0][r0].step \in Nat
    BY <2>1 DEF RowOf
  <2>3. pass[p].step \in Nat
    BY <2>1 DEF PassOf
  <2> QED BY <2>2, <2>3
<1>3. /\ row'[d0][r0].acted = now /\ row'[d0][r0].step = step
      /\ \A e \in Devices : \A t \in Rules : <<e, t>> # <<d0, r0>> => row'[e][t] = row[e][t]
  BY <1>1, <1>2, RowStamped
<1>4. pass'[p].at \in {"said", "notify"}
  BY <1>1, AnswerMoves DEF Answered
<1>5. ~Unstamped(p)' /\ Fresh(p)'
  BY <1>4 DEF Unstamped, Fresh
<1>6. ASSUME NEW d \in Devices, lost[d] = 0 PROVE Paced(d)' /\ Climbs(d)'
  <2>1. Paced(d) /\ Climbs(d)
    BY <1>6 DEF Ladders
  <2> SUFFICES ASSUME NEW i \in DOMAIN ran[d] PROVE Stamped(d, ran[d][i])'
    BY <1>1, <2>1 DEF Paced, Climbs
  <2>2. /\ ran[d][i].rule \in Rules /\ ran[d][i].at \in Nat /\ ran[d][i].step \in Nat
        /\ ran[d][i].at <= now
        /\ Stamped(d, ran[d][i]) \/ Pending(d, ran[d][i].rule)
    BY <1>1, <2>1, LogsRead DEF Deed, DeedsPast, Paced
  <2>3. CASE d = d0 /\ ran[d][i].rule = r0
    <3>1. ran[d][i].episode = episode[d0][r0] => ran[d][i].step <= step
      <4>1. CASE pass[p].step = 0
        <5>1. ~Pending(d, r0)
          BY <4>1, PendingIsOurs DEF Unstamped
        <5> QED BY <2>2, <2>3, <4>1, <5>1 DEF Stamped
      <4>2. CASE pass[p].step # 0
        <5>1. StampIsHigh(p) /\ Unstamped(p)
          BY <1>1, <4>2 DEF Ladders, Unstamped
        <5> QED BY <1>6, <2>3, <4>2, <5>1 DEF StampIsHigh
      <4> QED BY <4>1, <4>2
    <3> QED BY <1>1, <1>3, <2>2, <2>3, <3>1 DEF Stamped
  <2>4. CASE ~(d = d0 /\ ran[d][i].rule = r0)
    <3>1. row'[d][ran[d][i].rule] = row[d][ran[d][i].rule]
      BY <1>3, <2>2, <2>4
    <3>2. ~Pending(d, ran[d][i].rule)
      BY <2>4, PendingIsOurs
    <3> QED BY <1>1, <2>2, <3>1, <3>2 DEF Stamped
  <2> QED BY <2>3, <2>4
<1> QED BY <1>1, <1>5, <1>6, OthersHaveNothing
    DEF Ladders, StampIsHigh, OthersRest, Unstamped, Fresh

\* What Acts may do: the cooldown is over and the rung is above the ones spent.
LEMMA ActIsPaced ==
  ASSUME Typed, NEW p \in Callers, Acts(p), Fresh(p)
  PROVE  LET seen == row[Device(p)][Rule(p)] IN
         /\ seen.acted = Never \/ now - seen.acted >= Rule(p).cooldown
         /\ Step(p).at > seen.step \/ Step(p) = Top(Rule(p))
<1>1. /\ pass[p].at = "escalate" /\ ~IsCooling(Rule(p), pass[p].seen) /\ ~IsSpent(Rule(p), pass[p].seen)
      /\ Step(p).at \in Nat /\ Rule(p) \in Rules /\ Device(p) \in Devices
      /\ LogTypes /\ now \in Nat
  BY ActMoves, WorkIsTyped DEF Acts, MayAct, Typed, ClockTypes
<1>2. /\ pass[p].seen.acted = row[Device(p)][Rule(p)].acted
      /\ pass[p].seen.step = row[Device(p)][Rule(p)].step
      /\ row[Device(p)][Rule(p)] \in RowOf
  BY <1>1 DEF Fresh, LogTypes
<1>3. Rule(p).cooldown \in Nat
  BY <1>1, RulesAreTyped
<1> QED BY <1>1, <1>2, <1>3 DEF IsCooling, IsSpent, Step, RowOf, Never

LEMMA ActKeepsLadders ==
  ASSUME Typed, DeedsPast, Ladders, NEW p \in Callers, OthersRest(p), OthersRest(p)', Acts(p)
  PROVE  Ladders'
<1> DEFINE d0 == Device(p)
           r0 == Rule(p)
<1>1. PICK ok \in BOOLEAN :
        /\ Stays(p) /\ pass[p].todo # <<>> /\ Deeds(p, ok) \in Deed
        /\ pass'[p].at \in {"await", "stamp"} /\ pass'[p].step = Step(p).at
        /\ Step(p).at \in Nat \ {0}
        /\ ran' = [ran EXCEPT ![d0] = Append(ran[d0], Deeds(p, ok))]
  BY ActMoves
<1>2. /\ LogTypes /\ d0 \in Devices /\ r0 \in Rules /\ now \in Nat
      /\ UNCHANGED <<row, lost, episode>> /\ pass[p].at = "escalate"
  BY <1>1, WorkIsTyped DEF Typed, ClockTypes, Acts, MayAct
<1> DEFINE x == Deeds(p, ok)
<1>3. /\ x.rule = r0 /\ x.at = now /\ x.step = Step(p).at /\ x.episode = episode[d0][r0]
      /\ x \in Deed
  BY <1>1 DEF Deeds
<1> HIDE DEF x
<1>4. /\ ~Unstamped(p) /\ Unstamped(p)'
      /\ \A d, r : ~Pending(d, r)
  BY <1>1, <1>2, PendingIsOurs DEF Unstamped
<1>5. \A d, r : Pending(d, r)' <=> d = d0 /\ r = r0
  <2>1. \A q \in Callers : q # p => ~Unstamped(q)'
    BY DEF OthersRest, Unstamped
  <2>2. Device(p)' = d0 /\ Rule(p)' = r0
    BY <1>1 DEF Stays
  <2> QED BY <1>4, <2>1, <2>2 DEF Pending
<1>6. /\ ran'[d0] = Append(ran[d0], x) /\ ran[d0] \in Seq(Deed)
      /\ \A d \in Devices : d # d0 => ran'[d] = ran[d]
  BY <1>1, <1>2 DEF LogTypes, x
<1>7. /\ DOMAIN ran'[d0] = DOMAIN ran[d0] \cup {Len(ran[d0]) + 1} /\ Len(ran[d0]) \in Nat
      /\ DOMAIN ran[d0] = 1..Len(ran[d0])
      /\ ran'[d0][Len(ran[d0]) + 1] = x
      /\ \A i \in DOMAIN ran[d0] : ran'[d0][i] = ran[d0][i]
  BY <1>3, <1>6, AppendRead
<1>8. ASSUME lost[d0] = 0, NEW i \in DOMAIN ran[d0], ran[d0][i].rule = r0
      PROVE  /\ now - ran[d0][i].at >= r0.cooldown
             /\ ran[d0][i].episode = x.episode =>
                  ran[d0][i].step < x.step \/ (ran[d0][i].step = x.step /\ ran[d0][i].step = Top(r0).at)
  <2> DEFINE y == ran[d0][i]
  <2>1. /\ y.at \in Nat /\ y.step \in Nat /\ y.step <= Top(r0).at /\ y.at <= now
    BY <1>2, <1>8, LogsRead DEF Deed, DeedsPast
  <2>2. Stamped(d0, y)
    BY <1>2, <1>4, <1>8 DEF Ladders, Paced
  <2>3. /\ row[d0][r0].acted = Never \/ now - row[d0][r0].acted >= r0.cooldown
        /\ Step(p).at > row[d0][r0].step \/ Step(p) = Top(r0)
    BY ActIsPaced DEF Ladders
  <2>4. row[d0][r0] \in RowOf /\ r0.cooldown \in Nat
    BY <1>2, RulesAreTyped DEF LogTypes
  <2>5. now - y.at >= r0.cooldown
    BY <1>2, <1>8, <2>1, <2>2, <2>3, <2>4 DEF Stamped, RowOf, Never
  <2>6. y.episode = x.episode => y.step < x.step \/ (y.step = x.step /\ y.step = Top(r0).at)
    BY <1>1, <1>3, <1>8, <2>1, <2>2, <2>3, <2>4 DEF Stamped, RowOf
  <2> QED BY <2>5, <2>6
<1>9. ASSUME NEW d \in Devices, lost'[d] = 0 PROVE Paced(d)' /\ Climbs(d)'
  <2>1. Paced(d) /\ Climbs(d) /\ lost[d] = 0
    BY <1>2, <1>9 DEF Ladders
  <2>2. CASE d # d0
    <3>1. ran'[d] = ran[d]
      BY <1>6, <2>2
    <3> QED BY <1>2, <1>4, <2>1, <3>1 DEF Paced, Climbs, Stamped
  <2>3. CASE d = d0
    <3>1. Paced(d)'
      <4>1. ASSUME NEW i \in DOMAIN ran'[d], ran'[d][i].rule # r0
            PROVE  /\ i \in DOMAIN ran[d] /\ ran'[d][i] = ran[d][i] /\ Stamped(d, ran[d][i])
        BY <1>3, <1>4, <1>7, <2>1, <2>3, <4>1 DEF Paced
      <4> QED BY <1>2, <1>5, <2>3, <4>1 DEF Paced, Stamped
    <3>2. Climbs(d)'
      <4> SUFFICES ASSUME NEW i \in DOMAIN ran'[d], NEW j \in DOMAIN ran'[d], i < j,
                          ran'[d][i].rule = ran'[d][j].rule
                   PROVE  LET y == ran'[d][i]
                              z == ran'[d][j] IN
                          /\ z.at - y.at >= y.rule.cooldown
                          /\ y.episode = z.episode =>
                               y.step < z.step \/ (y.step = z.step /\ y.step = Top(y.rule).at)
        BY DEF Climbs
      <4>1. i \in DOMAIN ran[d] /\ ran'[d][i] = ran[d][i]
        BY <1>7, <2>3
      <4>2. CASE j \in DOMAIN ran[d]
        <5>1. ran'[d][j] = ran[d][j]
          BY <1>7, <2>3, <4>2
        <5> QED BY <2>1, <4>1, <4>2, <5>1 DEF Climbs
      <4>3. CASE j = Len(ran[d]) + 1
        <5>1. ran'[d][j] = x
          BY <1>7, <2>3, <4>3
        <5> QED BY <1>3, <1>8, <2>1, <2>3, <4>1, <5>1
      <4> QED BY <1>7, <2>3, <4>2, <4>3
    <3> QED BY <3>1, <3>2
  <2> QED BY <2>2, <2>3
<1>10. StampIsHigh(p)'
  <2> SUFFICES ASSUME lost'[d0] = 0, NEW i \in DOMAIN ran'[d0], ran'[d0][i].rule = r0,
                      ran'[d0][i].episode = episode[d0][r0]
               PROVE  ran'[d0][i].step <= Step(p).at
    BY <1>1, <1>2 DEF StampIsHigh, Stays
  <2>1. CASE i \in DOMAIN ran[d0]
    <3>1. ran'[d0][i] = ran[d0][i] /\ ran[d0][i].step \in Nat
      BY <1>2, <1>7, <2>1, LogsRead DEF Deed
    <3> QED BY <1>1, <1>2, <1>3, <1>8, <2>1, <3>1
  <2>2. CASE i = Len(ran[d0]) + 1
    BY <1>1, <1>3, <1>7, <2>2
  <2> QED BY <1>7, <2>1, <2>2
<1>11. Fresh(p)'
  BY <1>1 DEF Fresh
<1> QED BY <1>9, <1>10, <1>11, OthersHaveNothing
    DEF Ladders, StampIsHigh, OthersRest, Unstamped, Fresh


\* What the death of the hub forgets is counted.
LEMMA CrashLoses ==
  ASSUME Typed, HubCrash, NEW d \in Devices
  PROVE  /\ lost[d] \in Nat /\ lost'[d] \in Nat /\ lost'[d] >= lost[d]
         /\ (\E p \in Callers : Unwritten(p) /\ Device(p) = d) => lost'[d] >= lost[d] + 1
         /\ \A p \in Callers : pass'[p] = Idle
         /\ UNCHANGED <<row, events, worldVars, ran, alerts, episode, overlapped>>
<1> DEFINE forgotten == {p \in Callers : Unwritten(p) /\ Device(p) = d}
<1>1. lost'[d] = lost[d] + Cardinality(forgotten) /\ lost[d] \in Nat
  BY DEF HubCrash, Typed, LogTypes
<1>2. IsFiniteSet(forgotten)
  BY MonitorAssumption, FS_Subset DEF MonitorAssumption
<1>3. Cardinality(forgotten) \in Nat
  BY <1>2, FS_CardinalityType
<1>4. forgotten # {} => Cardinality(forgotten) # 0
  BY <1>2, FS_EmptySet
<1>5. (\E p \in Callers : Unwritten(p) /\ Device(p) = d) => forgotten # {}
  OBVIOUS
<1>6. /\ \A p \in Callers : pass'[p] = Idle
      /\ UNCHANGED <<row, events, worldVars, ran, alerts, episode, overlapped>>
  BY DEF HubCrash
<1> HIDE DEF forgotten
<1> QED BY <1>1, <1>3, <1>4, <1>5, <1>6

LEMMA CrashKeepsLadders ==
  ASSUME Typed, Ladders, HubCrash
  PROVE  Ladders'
<1>1. \A p \in Callers : pass'[p] = Idle
  BY DEF HubCrash
<1>2. Idle.at = "idle" /\ Idle.step = 0
  BY DEF Idle
<1>3. \A p \in Callers : StampIsHigh(p)' /\ Fresh(p)'
  BY <1>1, <1>2 DEF StampIsHigh, Fresh, Unstamped
<1>4. ASSUME NEW d \in Devices, lost'[d] = 0 PROVE Paced(d)' /\ Climbs(d)'
  <2>1. /\ lost[d] = 0 /\ ~(\E p \in Callers : Unwritten(p) /\ Device(p) = d)
        /\ UNCHANGED <<row, ran, episode>>
    BY <1>4, CrashLoses
  <2>2. \A r : ~Pending(d, r)
    BY <2>1 DEF Pending, Unstamped, Unwritten
  <2>3. Paced(d) /\ Climbs(d)
    BY <2>1 DEF Ladders
  <2> QED BY <2>1, <2>2, <2>3 DEF Paced, Climbs, Stamped
<1> QED BY <1>3, <1>4 DEF Ladders

LEMMA WorldKeepsLadders ==
  ASSUME Ladders, UNCHANGED <<pass, row, events, history>>
  PROVE  Ladders'
<1>1. UNCHANGED <<pass, row, ran, episode, lost>>
  BY DEF history
<1>2. /\ \A p : Unstamped(p)' = Unstamped(p) /\ Device(p)' = Device(p) /\ Rule(p)' = Rule(p)
      /\ \A d, r : Pending(d, r)' = Pending(d, r)
  BY <1>1 DEF Unstamped, Device, Rule, Pending
<1>3. \A d \in Devices : lost'[d] = 0 => Paced(d)' /\ Climbs(d)'
  BY <1>1, <1>2 DEF Ladders, Paced, Climbs, Stamped
<1>4. \A p \in Callers : StampIsHigh(p)' /\ Fresh(p)'
  BY <1>1, <1>2 DEF Ladders, StampIsHigh, Fresh
<1> QED BY <1>3, <1>4 DEF Ladders

LEMMA StepKeepsLadders == LaddersKept /\ [Next]_vars => LaddersKept'
<1> SUFFICES ASSUME LaddersKept, [Next]_vars PROVE LaddersKept'
  OBVIOUS
<1>1. Typed /\ Alone /\ DeedsPast /\ (~overlapped => Ladders)
  BY DEF LaddersKept
<1>2. Typed' /\ Alone' /\ DeedsPast'
  BY <1>1, StepKeepsTypes, StepKeepsAlone, StepKeepsPast
<1>3. ASSUME ~overlapped' PROVE Ladders'
  <2>1. ASSUME NEW p \in Callers, PassStarts(p) \/ PassStep(p) PROVE Ladders'
    <3>1. Ladders /\ OthersRest(p) /\ OthersRest(p)'
      BY <1>1, <1>3, <2>1, OthersAreIdle
    <3>2. OthersStay(p)
      BY <1>1, <2>1, PassKeepsLocals
    <3>3. CASE Count(p)
      BY <1>1, <3>1, <3>3, CountKeepsLadders
    <3>4. CASE Recover(p)
      BY <1>1, <3>1, <3>4, RecoverKeepsLadders
    <3>5. CASE Stamp(p)
      BY <1>1, <3>1, <3>5, StampKeepsLadders
    <3>6. CASE Acts(p)
      BY <1>1, <3>1, <3>6, ActKeepsLadders
    <3> QED BY <1>1, <2>1, <3>1, <3>2, <3>3, <3>4, <3>5, <3>6, QuietPassKeepsLadders DEF PassStep
  <2>2. CASE HubCrash
    <3>1. Ladders
      BY <1>1, <1>3, <2>2 DEF HubCrash
    <3> QED BY <1>1, <2>2, <3>1, CrashKeepsLadders
  <2>3. CASE \/ PassSkipped \/ Dispatch \/ TimePasses \/ \E d \in Devices : InstallEnds(d)
             \/ UNCHANGED vars
    <3>1. UNCHANGED <<pass, row, events, history>>
      BY <1>1, <2>3, WorldKeepsTypes
    <3>2. Ladders
      BY <1>1, <1>3, <3>1 DEF history
    <3> QED BY <3>1, <3>2, WorldKeepsLadders
  <2> QED BY <2>1, <2>2, <2>3 DEF Next
<1> QED BY <1>2, <1>3 DEF LaddersKept

LEMMA LaddersBegin == Init => LaddersKept
<1> SUFFICES ASSUME Init PROVE LaddersKept
  OBVIOUS
<1>1. /\ \A p \in Callers : pass[p] = Idle
      /\ \A d \in Devices : ran[d] = <<>> /\ DOMAIN ran[d] = {}
  BY EmptySeq DEF Init
<1>2. Idle.at = "idle" /\ Idle.step = 0
  BY DEF Idle
<1>3. Alone /\ DeedsPast
  BY <1>1, <1>2 DEF Alone, DeedsPast
<1>4. Ladders
  BY <1>1, <1>2 DEF Ladders, Paced, Climbs, StampIsHigh, Fresh, Unstamped
<1> QED BY <1>3, <1>4, InitIsTyped DEF LaddersKept

\* Within one episode of a fault the ladder is only climbed, through quiet hours,
\* refusals, snapshots gone stale during a command and restarts of the hub, as long
\* as passes did not overlap and no action was lost with the hub.
THEOREM LaddersAreClimbed == Spec => []LadderClimbs
<1>1. LaddersKept => LadderClimbs
  <2> SUFFICES ASSUME LaddersKept, ~overlapped, \A d \in Devices : lost[d] = 0
               PROVE  LadderClimbs
    BY DEF LadderClimbs
  <2>1. \A d \in Devices : Climbs(d)
    BY DEF LaddersKept, Ladders
  <2> QED BY <2>1 DEF LadderClimbs, Ordered, Climbs
<1> QED BY <1>1, LaddersBegin, StepKeepsLadders, PTL DEF Spec



-----------------------------------------------------------------------------
(* The grace after a reboot, and the dedupe window.                        *)

\* The hub knows of an entry of ran or alerts: from its log, or from the pass that
\* is still to record it.
RebootKnown(d, begun, at) ==
  \/ \E k \in DOMAIN events[d] :
       /\ events[d][k].action \in HardActions /\ events[d][k].took /\ events[d][k].at >= at
  \/ \E p \in Callers : pass[p].took /\ Device(p) = d /\ pass[p].begun = begun

AlertKnown(d, signal, at) ==
  \/ \E k \in DOMAIN events[d] :
       /\ events[d][k].told /\ events[d][k].says # "recovered"
       /\ events[d][k].rule.signal = signal /\ events[d][k].at >= at
  \/ \E p \in Callers : pass[p].told /\ Device(p) = d /\ Rule(p).signal = signal

Known(d) ==
  /\ \A i \in DOMAIN ran[d] :
       ran[d][i].took => RebootKnown(d, ran[d][i].begun, ran[d][i].at)
  /\ \A i \in DOMAIN alerts[d] : AlertKnown(d, alerts[d][i].signal, alerts[d][i].at)

\* A pass at work has left aside the boxes within the grace of an earlier pass.
Graced(p) == pass[p].at \notin {"idle", "busy"} =>
  \A d \in Devices : lost[d] = 0 /\ d \notin pass[p].busy =>
    \A i \in DOMAIN ran[d] : ran[d][i].took /\ ran[d][i].begun # pass[p].begun
                               => now - ran[d][i].at > RebootGrace

RebootsApart(d) == \A i, j \in DOMAIN ran[d] :
  i < j /\ ran[d][i].took /\ ran[d][i].begun # ran[d][j].begun
    => ran[d][j].at - ran[d][i].at > RebootGrace

AlertsApart(d) == DedupeBeats > 0 => \A i, j \in DOMAIN alerts[d] :
  i < j /\ alerts[d][i].signal = alerts[d][j].signal => alerts[d][j].at - alerts[d][i].at > DedupeBeats

AlertsPast == \A d \in Devices : \A i \in DOMAIN alerts[d] : alerts[d][i].at <= now

Distances ==
  /\ \A d \in Devices : lost[d] = 0 => Known(d) /\ RebootsApart(d) /\ AlertsApart(d)
  /\ \A p \in Callers : Graced(p)
  /\ AlertsPast

DistancesKept == LaddersKept /\ (~overlapped => Distances)

\* A step either carries what was done on to its record, or has done nothing.
LEMMA PassRemembers ==
  ASSUME Typed, NEW p \in Callers, PassStep(p), ~Acts(p), ~Record(p)
  PROVE  /\ UNCHANGED <<events, ran>> /\ ~pass[p].told
         /\ Carries(p) \/ (Clean(p) /\ pass[p].step = 0 /\ ~pass[p].took)
         /\ Notify(p) \/ (~pass'[p].told /\ UNCHANGED alerts)
<1>1. /\ UNCHANGED <<events, ran>>
      /\ Notify(p) \/ UNCHANGED alerts
      /\ pass[p].at # "record" /\ PlaceOK(p)
  BY DEF PassStep, BusyRead, BudgetsRead, Skips, Look, Count, Recover, StandsDown, HoldsBack,
         Trips, Answered, Stamp, AlreadySaid, Notify, PassEnds, MayAct, history, Typed, PassOK
<1>2. ~pass[p].told
  BY <1>1 DEF PlaceOK
<1>3. CASE Answered(p) \/ Stamp(p) \/ (AlreadySaid(p) /\ pass' # MovedOn(p))
  BY <1>1, <1>2, <1>3, AnswerMoves
<1>4. CASE Notify(p)
  BY <1>1, <1>2, <1>4, NotifyMoves
<1>5. CASE Skips(p) \/ StandsDown(p) \/ (AlreadySaid(p) /\ pass' = MovedOn(p))
  <2>1. pass' = MovedOn(p) /\ pass[p].at \in {"look", "escalate", "said"}
    BY <1>5 DEF Skips, StandsDown, AlreadySaid
  <2>2. pass[p].todo # <<>>
    BY <1>1, <1>5 DEF Skips, StandsDown, AlreadySaid, MayAct, PlaceOK, Working
  <2>3. Clean(p)
    BY <2>1, <2>2, MovedOnMoves DEF Onward
  <2> QED BY <1>1, <1>2, <2>1, <2>3 DEF PlaceOK, Clean, Notify
<1>6. CASE BusyRead(p) \/ BudgetsRead(p) \/ Look(p) \/ Count(p) \/ Recover(p) \/ HoldsBack(p)
           \/ Trips(p) \/ PassEnds(p)
  <2>1. Clean(p)
    BY <1>6, BusyMoves, BudgetsMove, LookMoves, CountMoves, RecoverMoves, HeldMoves, StartOrEndMoves
    DEF Onward
  <2>2. pass[p].at \in {"busy", "budgets", "look", "count", "recover", "escalate"}
    BY <1>6 DEF BusyRead, BudgetsRead, Look, Count, Recover, HoldsBack, Trips, PassEnds, MayAct
  <2> QED BY <1>1, <1>2, <2>1, <2>2 DEF PlaceOK, Clean, Notify
<1> QED BY <1>3, <1>4, <1>5, <1>6 DEF PassStep

\* What was known is still known, when the log is kept and the pass carries it on.
LEMMA StillKnown ==
  ASSUME NEW p \in Callers, OthersStay(p), UNCHANGED events, NEW d \in Devices,
         pass[p].took => /\ pass'[p].took /\ Device(p)' = Device(p)
                         /\ pass'[p].begun = pass[p].begun,
         ~pass[p].told
  PROVE  /\ \A begun, at : RebootKnown(d, begun, at) => RebootKnown(d, begun, at)'
         /\ \A signal, at : AlertKnown(d, signal, at) => AlertKnown(d, signal, at)'
<1>1. \A q \in Callers : q # p => /\ pass'[q] = pass[q] /\ Device(q)' = Device(q)
                                  /\ Rule(q)' = Rule(q)
  BY DEF OthersStay, Device, Rule
<1>2. ASSUME NEW begun, NEW q \in Callers, pass[q].took, Device(q) = d, pass[q].begun = begun
      PROVE  pass'[q].took /\ Device(q)' = d /\ pass'[q].begun = begun
  BY <1>1, <1>2
<1>3. ASSUME NEW signal, NEW q \in Callers, pass[q].told, Device(q) = d, Rule(q).signal = signal
      PROVE  pass'[q].told /\ Device(q)' = d /\ Rule(q)'.signal = signal
  BY <1>1, <1>3
<1>4. \A begun, at : RebootKnown(d, begun, at) => RebootKnown(d, begun, at)'
  BY <1>2 DEF RebootKnown
<1>5. \A signal, at : AlertKnown(d, signal, at) => AlertKnown(d, signal, at)'
  BY <1>3 DEF AlertKnown
<1> QED BY <1>4, <1>5


\* A pass that began before and goes on keeps its grace while time stands still.
LEMMA GraceGoesOn ==
  ASSUME NEW p \in Callers, Graced(p), OthersRest(p)', UNCHANGED <<ran, lost, now>>,
         \/ pass'[p].at \in {"idle", "busy"}
         \/ /\ pass[p].at \notin {"idle", "busy"}
            /\ pass'[p].busy = pass[p].busy /\ pass'[p].begun = pass[p].begun
  PROVE  \A q \in Callers : Graced(q)'
<1>1. Graced(p)'
  BY DEF Graced
<1>2. \A q \in Callers : q # p => Graced(q)'
  BY DEF OthersRest, Graced
<1> QED BY <1>1, <1>2

\* The boxes a pass leaves aside are the ones rebooted within the grace.
LEMMA BusyIsGraced ==
  ASSUME Typed, Distances, NEW p \in Callers, OthersRest(p), OthersRest(p)', BusyRead(p)
  PROVE  \A q \in Callers : Graced(q)'
<1>1. /\ pass[p].at = "busy" /\ PlaceOK(p) /\ LogTypes /\ now \in Nat
      /\ UNCHANGED <<ran, events, now, lost>>
  BY DEF BusyRead, Typed, PassOK, ClockTypes, history, worldVars
<1>2. \A q \in Callers : ~pass[q].took
  BY <1>1 DEF PlaceOK, OthersRest
<1>3. pass'[p].busy = Installing \cup Rebooted
  BY BusyMoves
<1>4. ASSUME NEW d \in Devices, lost[d] = 0, d \notin Rebooted, NEW i \in DOMAIN ran[d], ran[d][i].took
      PROVE  now - ran[d][i].at > RebootGrace
  <2>1. RebootKnown(d, ran[d][i].begun, ran[d][i].at)
    BY <1>4 DEF Distances, Known
  <2>2. PICK k \in DOMAIN events[d] : /\ events[d][k].action \in HardActions /\ events[d][k].took
                                      /\ events[d][k].at >= ran[d][i].at
    BY <1>2, <2>1 DEF RebootKnown
  <2>3. events[d][k].at \in Nat /\ ran[d][i].at \in Nat
    BY <1>1, <1>4, <2>2, LogsRead DEF EventRow, Deed
  <2>4. ~(events[d][k].at >= now - RebootGrace)
    BY <1>4, <2>2 DEF Rebooted
  <2> QED BY <1>1, <2>2, <2>3, <2>4, LimitsAreTyped
<1>5. Graced(p)'
  BY <1>1, <1>3, <1>4 DEF Graced
<1>6. \A q \in Callers : q # p => Graced(q)'
  BY DEF OthersRest, Graced
<1> QED BY <1>5, <1>6

LEMMA QuietKeepsDistances ==
  ASSUME Typed, Distances, NEW p \in Callers, OthersRest(p), OthersRest(p)', OthersStay(p),
         PassStarts(p) \/ (PassStep(p) /\ ~Acts(p) /\ ~Record(p) /\ ~Notify(p)),
         PassStarts(p) => pass[p].step = 0 /\ ~pass[p].took /\ ~pass[p].told
  PROVE  Distances'
<1>1. UNCHANGED <<events, ran, alerts, lost, now>>
  BY PassRemembers, PassKeepsClock DEF PassStarts, worldVars
<1>2. /\ ~pass[p].told
      /\ pass[p].took => /\ pass'[p].took /\ Device(p)' = Device(p)
                         /\ pass'[p].begun = pass[p].begun
  BY PassRemembers DEF Carries, Stays
<1>3. \A d \in Devices : Known(d) => Known(d)'
  <2> SUFFICES ASSUME NEW d \in Devices, Known(d) PROVE Known(d)'
    OBVIOUS
  <2>1. /\ \A begun, at : RebootKnown(d, begun, at) => RebootKnown(d, begun, at)'
        /\ \A signal, at : AlertKnown(d, signal, at) => AlertKnown(d, signal, at)'
    BY <1>1, <1>2, StillKnown
  <2> QED BY <1>1, <2>1 DEF Known
<1>4. \A q \in Callers : Graced(q)'
  <2>1. CASE BusyRead(p)
    BY <2>1, BusyIsGraced
  <2>2. CASE ~BusyRead(p)
    <3>1. \/ pass'[p].at \in {"idle", "busy"}
          \/ /\ pass[p].at \notin {"idle", "busy"}
             /\ pass'[p].busy = pass[p].busy /\ pass'[p].begun = pass[p].begun
      BY <2>2, PassPlaces, StartOrEndMoves
    <3> QED BY <1>1, <3>1, GraceGoesOn DEF Distances
  <2> QED BY <2>1, <2>2
<1>5. \A d \in Devices : lost'[d] = 0 => RebootsApart(d)' /\ AlertsApart(d)'
  BY <1>1 DEF Distances, RebootsApart, AlertsApart
<1>6. AlertsPast'
  BY <1>1 DEF Distances, AlertsPast
<1> QED BY <1>1, <1>3, <1>4, <1>5, <1>6 DEF Distances

\* An alert is posted when the log has none of its signal within the window.
LEMMA NotifyKeepsDistances ==
  ASSUME Typed, Distances, NEW p \in Callers, OthersRest(p), OthersRest(p)', OthersStay(p), Notify(p)
  PROVE  Distances'
<1> DEFINE d0 == Device(p)
           signal0 == Rule(p).signal
           a == [signal |-> signal0, at |-> now]
<1>1. /\ UNCHANGED <<events, ran, lost, now>> /\ LogTypes /\ now \in Nat
      /\ Carries(p) /\ ~pass[p].told
      /\ pass[p].at = "notify" /\ pass'[p].at = "record"
  BY NotifyMoves DEF Notify, worldVars, Typed, ClockTypes
<1>2. d0 \in Devices /\ signal0 \in STRING /\ Device(p)' = d0 /\ Rule(p)' = Rule(p)
  BY <1>1, WorkIsTyped, RulesAreTyped DEF Carries, Stays, Typed
<1>3. ASSUME NEW d \in Devices
      PROVE  /\ \A begun, at : RebootKnown(d, begun, at) => RebootKnown(d, begun, at)'
             /\ \A signal, at : AlertKnown(d, signal, at) => AlertKnown(d, signal, at)'
  BY <1>1, StillKnown DEF Carries, Stays
<1>4. \A q \in Callers : Graced(q)'
  BY <1>1, GraceGoesOn DEF Distances, Carries, Stays
<1>5. \A d \in Devices : lost'[d] = 0 => RebootsApart(d)'
  BY <1>1 DEF Distances, RebootsApart
<1>6. CASE alerts' = alerts
  <2>1. \A d \in Devices : lost[d] = 0 => AlertsApart(d)' /\ Known(d)'
    BY <1>1, <1>3, <1>6 DEF Distances, AlertsApart, Known
  <2>2. AlertsPast'
    BY <1>1, <1>6 DEF Distances, AlertsPast
  <2> QED BY <1>1, <1>4, <1>5, <2>1, <2>2 DEF Distances
<1>7. CASE /\ pass'[p].told /\ ~Announced(d0, signal0)
           /\ alerts' = [alerts EXCEPT ![d0] = Append(alerts[d0], a)]
  <2>1. a \in Alert /\ a.signal = signal0 /\ a.at = now
    BY <1>1, <1>2 DEF Alert
  <2> HIDE DEF a
  <2>2. /\ alerts'[d0] = Append(alerts[d0], a) /\ alerts[d0] \in Seq(Alert)
        /\ \A d \in Devices : d # d0 => alerts'[d] = alerts[d]
    BY <1>1, <1>2, <1>7 DEF LogTypes
  <2>3. /\ DOMAIN alerts'[d0] = DOMAIN alerts[d0] \cup {Len(alerts[d0]) + 1}
        /\ DOMAIN alerts[d0] = 1..Len(alerts[d0]) /\ Len(alerts[d0]) \in Nat
        /\ alerts'[d0][Len(alerts[d0]) + 1] = a
        /\ \A i \in DOMAIN alerts[d0] : alerts'[d0][i] = alerts[d0][i]
    BY <2>1, <2>2, AppendRead
  <2>4. ASSUME lost[d0] = 0, DedupeBeats > 0, NEW i \in DOMAIN alerts[d0], alerts[d0][i].signal = signal0
        PROVE  now - alerts[d0][i].at > DedupeBeats
    <3>1. AlertKnown(d0, signal0, alerts[d0][i].at)
      BY <1>2, <2>4 DEF Distances, Known
    <3>2. \A q \in Callers : ~pass[q].told
      BY <1>1 DEF OthersRest
    <3>3. PICK k \in DOMAIN events[d0] :
            /\ events[d0][k].told /\ events[d0][k].says # "recovered"
            /\ events[d0][k].rule.signal = signal0 /\ events[d0][k].at >= alerts[d0][i].at
      BY <3>1, <3>2 DEF AlertKnown
    <3>4. events[d0][k].at \in Nat /\ alerts[d0][i].at \in Nat
      BY <1>1, <1>2, <2>4, <3>3, LogsRead DEF EventRow, Alert
    <3>5. ~(events[d0][k].at >= now - DedupeBeats)
      BY <1>7, <2>4, <3>3 DEF Announced
    <3> QED BY <1>1, <3>3, <3>4, <3>5, LimitsAreTyped
  <2>5. ASSUME NEW d \in Devices, lost[d] = 0 PROVE AlertsApart(d)' /\ Known(d)'
    <3>1. AlertsApart(d) /\ Known(d)
      BY <2>5 DEF Distances
    <3>2. ASSUME NEW i \in DOMAIN ran[d], ran[d][i].took
          PROVE  RebootKnown(d, ran[d][i].begun, ran[d][i].at)'
      <4>1. RebootKnown(d, ran[d][i].begun, ran[d][i].at)
        BY <3>1, <3>2 DEF Known
      <4>2. PICK begun, at : begun = ran[d][i].begun /\ at = ran[d][i].at
        OBVIOUS
      <4>3. RebootKnown(d, begun, at)'
        BY <1>3, <4>1, <4>2
      <4>4. begun = ran'[d][i].begun /\ at = ran'[d][i].at
        BY <1>1, <4>2
      <4> QED BY <4>3, <4>4 DEF RebootKnown
    <3>3. CASE d # d0
      BY <1>1, <1>3, <2>2, <3>1, <3>3 DEF AlertsApart, Known
    <3>4. CASE d = d0
      <4>1. AlertsApart(d)'
        BY <2>1, <2>3, <2>4, <2>5, <3>1, <3>4 DEF AlertsApart
      <4>2. AlertKnown(d, signal0, now)'
        BY <1>1, <1>2, <1>7, <3>4 DEF AlertKnown
      <4>3. ASSUME NEW i \in DOMAIN alerts[d]
            PROVE  AlertKnown(d, alerts[d][i].signal, alerts[d][i].at)'
        <5>1. AlertKnown(d, alerts[d][i].signal, alerts[d][i].at)
          BY <3>1, <3>4, <4>3 DEF Known
        <5>2. PICK signal, at : signal = alerts[d][i].signal /\ at = alerts[d][i].at
          OBVIOUS
        <5>3. AlertKnown(d, signal, at)'
          BY <1>3, <5>1, <5>2
        <5>4. signal = alerts'[d][i].signal /\ at = alerts'[d][i].at
          BY <2>3, <3>4, <5>2
        <5> QED BY <5>3, <5>4 DEF AlertKnown
      <4>4. Known(d)'
        <5>1. \A i \in DOMAIN ran'[d] :
                ran'[d][i].took => RebootKnown(d, ran[d][i].begun, ran[d][i].at)'
          BY <1>1, <3>2
        <5>2. \A i \in DOMAIN alerts'[d] : AlertKnown(d, alerts[d][i].signal, alerts[d][i].at)'
          BY <1>1, <1>2, <2>1, <2>3, <3>4, <4>2, <4>3 DEF AlertKnown
        <5> QED BY <5>1, <5>2 DEF Known
      <4> QED BY <4>1, <4>4
    <3> QED BY <3>3, <3>4
  <2>6. AlertsPast'
    <3> SUFFICES ASSUME NEW d \in Devices, NEW i \in DOMAIN alerts'[d]
                 PROVE  alerts'[d][i].at <= now
      BY <1>1 DEF AlertsPast
    <3>1. AlertsPast
      BY DEF Distances
    <3>2. CASE d # d0
      BY <2>2, <3>1, <3>2 DEF AlertsPast
    <3>3. CASE d = d0
      BY <1>1, <1>2, <2>1, <2>3, <3>1, <3>3 DEF AlertsPast
    <3> QED BY <3>2, <3>3
  <2> QED BY <1>1, <1>4, <1>5, <2>5, <2>6 DEF Distances
<1> QED BY <1>6, <1>7, NotifyMoves


\* A log that only grows still knows what it knew; what a pass recorded it knows now.
LEMMA RecordIsKnown ==
  ASSUME Typed, DeedsPast, AlertsPast, NEW p \in Callers, OthersRest(p), Record(p), NEW d \in Devices
  PROVE  /\ \A i \in DOMAIN ran[d] : RebootKnown(d, ran[d][i].begun, ran[d][i].at) =>
              \E k \in DOMAIN events'[d] : /\ events'[d][k].action \in HardActions
                                           /\ events'[d][k].took
                                           /\ events'[d][k].at >= ran[d][i].at
         /\ \A i \in DOMAIN alerts[d] : AlertKnown(d, alerts[d][i].signal, alerts[d][i].at) =>
              \E k \in DOMAIN events'[d] : /\ events'[d][k].told
                                           /\ events'[d][k].says # "recovered"
                                           /\ events'[d][k].rule.signal = alerts[d][i].signal
                                           /\ events'[d][k].at >= alerts[d][i].at
<1> DEFINE d0 == Device(p)
           e == [rule |-> Rule(p), action |-> pass[p].action, took |-> pass[p].took, at |-> now,
                 says |-> pass[p].says, told |-> pass[p].told]
<1>1. /\ LogTypes /\ now \in Nat /\ PlaceOK(p) /\ pass[p] \in PassOf /\ pass[p].at = "record"
      /\ events' = [events EXCEPT ![d0] = Append(events[d0], e)]
  BY DEF Typed, ClockTypes, PassOK, Record
<1>2. d0 \in Devices /\ Rule(p) \in Rules
  BY <1>1, WorkIsTyped DEF PlaceOK, Working, Typed
<1>3. /\ e \in EventRow /\ e.rule = Rule(p) /\ e.action = pass[p].action /\ e.took = pass[p].took
      /\ e.at = now /\ e.says = pass[p].says /\ e.told = pass[p].told
  BY <1>1, <1>2 DEF EventRow, PassOf
<1> HIDE DEF e
<1>4. /\ events'[d0] = Append(events[d0], e) /\ events[d0] \in Seq(EventRow)
      /\ d # d0 => events'[d] = events[d]
  BY <1>1, <1>2 DEF LogTypes
<1>5. /\ DOMAIN events'[d0] = DOMAIN events[d0] \cup {Len(events[d0]) + 1}
      /\ events'[d0][Len(events[d0]) + 1] = e
      /\ \A k \in DOMAIN events[d0] : events'[d0][k] = events[d0][k]
  BY <1>3, <1>4, AppendRead
<1>6. \A k \in DOMAIN events[d] : k \in DOMAIN events'[d] /\ events'[d][k] = events[d][k]
  BY <1>4, <1>5
<1>7. d = d0 => \E k \in DOMAIN events'[d] : events'[d][k] = e
  BY <1>5
<1>8. ASSUME NEW i \in DOMAIN ran[d], RebootKnown(d, ran[d][i].begun, ran[d][i].at)
      PROVE  \E k \in DOMAIN events'[d] : /\ events'[d][k].action \in HardActions
                                          /\ events'[d][k].took
                                          /\ events'[d][k].at >= ran[d][i].at
  <2>1. CASE \E k \in DOMAIN events[d] :
               /\ events[d][k].action \in HardActions /\ events[d][k].took
               /\ events[d][k].at >= ran[d][i].at
    BY <1>6, <2>1
  <2>2. CASE pass[p].took /\ d0 = d
    <3>1. e.action \in HardActions /\ e.took /\ e.at >= ran[d][i].at
      <4>1. e.action \in HardActions /\ e.took
        BY <1>1, <1>3, <2>2 DEF PlaceOK
      <4>2. ran[d][i].at <= now /\ ran[d][i].at \in Nat
        BY <1>1, <1>8, LogsRead DEF DeedsPast, Deed
      <4> QED BY <1>1, <1>3, <4>1, <4>2
    <3> QED BY <1>7, <2>2, <3>1
  <2> QED BY <1>8, <2>1, <2>2 DEF RebootKnown, OthersRest
<1>9. ASSUME NEW i \in DOMAIN alerts[d], AlertKnown(d, alerts[d][i].signal, alerts[d][i].at)
      PROVE  \E k \in DOMAIN events'[d] : /\ events'[d][k].told
                                          /\ events'[d][k].says # "recovered"
                                          /\ events'[d][k].rule.signal = alerts[d][i].signal
                                          /\ events'[d][k].at >= alerts[d][i].at
  <2>1. CASE \E k \in DOMAIN events[d] :
               /\ events[d][k].told /\ events[d][k].says # "recovered"
               /\ events[d][k].rule.signal = alerts[d][i].signal
               /\ events[d][k].at >= alerts[d][i].at
    BY <1>6, <2>1
  <2>2. CASE pass[p].told /\ d0 = d /\ Rule(p).signal = alerts[d][i].signal
    <3>1. e.told /\ e.says # "recovered" /\ e.rule.signal = alerts[d][i].signal
      BY <1>1, <1>3, <2>2 DEF PlaceOK
    <3>2. alerts[d][i].at <= now /\ alerts[d][i].at \in Nat
      BY <1>1, <1>9, LogsRead DEF AlertsPast, Alert
    <3> QED BY <1>1, <1>3, <1>7, <2>2, <3>1, <3>2
  <2> QED BY <1>9, <2>1, <2>2 DEF AlertKnown, OthersRest
<1> QED BY <1>8, <1>9

LEMMA RecordKeepsDistances ==
  ASSUME Typed, DeedsPast, Distances, NEW p \in Callers, OthersRest(p), OthersRest(p)',
         OthersStay(p), Record(p)
  PROVE  Distances'
<1>1. UNCHANGED <<ran, alerts, lost, now>> /\ pass[p].at = "record"
  BY DEF Record, history, worldVars
<1>2. \A q \in Callers : Graced(q)'
  BY <1>1, RecordMoves, GraceGoesOn DEF Distances, Onward
<1>3. ASSUME NEW d \in Devices, lost[d] = 0 PROVE Known(d)'
  <2>1. Known(d) /\ AlertsPast
    BY <1>3 DEF Distances
  <2>2. ASSUME NEW i \in DOMAIN ran[d], ran[d][i].took
        PROVE  \E k \in DOMAIN events'[d] : /\ events'[d][k].action \in HardActions
                                            /\ events'[d][k].took
                                            /\ events'[d][k].at >= ran[d][i].at
    BY <2>1, <2>2, RecordIsKnown DEF Known
  <2>3. ASSUME NEW i \in DOMAIN alerts[d]
        PROVE  \E k \in DOMAIN events'[d] : /\ events'[d][k].told
                                            /\ events'[d][k].says # "recovered"
                                            /\ events'[d][k].rule.signal = alerts[d][i].signal
                                            /\ events'[d][k].at >= alerts[d][i].at
    BY <2>1, <2>3, RecordIsKnown DEF Known
  <2> QED BY <1>1, <2>2, <2>3 DEF Known, RebootKnown, AlertKnown
<1>4. \A d \in Devices : lost'[d] = 0 => RebootsApart(d)' /\ AlertsApart(d)'
  BY <1>1 DEF Distances, RebootsApart, AlertsApart
<1>5. AlertsPast'
  BY <1>1 DEF Distances, AlertsPast
<1> QED BY <1>1, <1>2, <1>3, <1>4, <1>5 DEF Distances

\* A pass acts on boxes it has not left aside.
LEMMA ActKeepsDistances ==
  ASSUME Typed, Distances, NEW p \in Callers, OthersRest(p), OthersRest(p)', Acts(p)
  PROVE  Distances'
<1> DEFINE d0 == Device(p)
<1>1. PICK ok \in BOOLEAN :
        /\ OthersStay(p) /\ Stays(p) /\ Deeds(p, ok) \in Deed
        /\ pass[p].todo # <<>> /\ d0 \notin pass[p].busy
        /\ pass'[p].at \in {"await", "stamp"} /\ pass'[p].took = Deeds(p, ok).took
        /\ ran' = [ran EXCEPT ![d0] = Append(ran[d0], Deeds(p, ok))]
  BY ActMoves DEF Deeds
<1>2. /\ LogTypes /\ d0 \in Devices /\ PlaceOK(p) /\ pass[p].at = "escalate"
      /\ UNCHANGED <<events, alerts, lost, now>>
  BY <1>1, WorkIsTyped DEF Typed, Acts, MayAct, worldVars, PassOK
<1> DEFINE x == Deeds(p, ok)
<1>3. x.at = now /\ x.begun = pass[p].begun /\ x \in Deed /\ pass'[p].took = x.took
  BY <1>1 DEF Deeds
<1> HIDE DEF x
<1>4. /\ ran'[d0] = Append(ran[d0], x) /\ ran[d0] \in Seq(Deed)
      /\ \A d \in Devices : d # d0 => ran'[d] = ran[d]
  BY <1>1, <1>2 DEF LogTypes, x
<1>5. /\ DOMAIN ran'[d0] = DOMAIN ran[d0] \cup {Len(ran[d0]) + 1} /\ Len(ran[d0]) \in Nat
      /\ DOMAIN ran[d0] = 1..Len(ran[d0])
      /\ ran'[d0][Len(ran[d0]) + 1] = x
      /\ \A i \in DOMAIN ran[d0] : ran'[d0][i] = ran[d0][i]
  BY <1>3, <1>4, AppendRead
<1>6. ~pass[p].took /\ ~pass[p].told
  BY <1>2 DEF PlaceOK
<1>7. ASSUME NEW d \in Devices
      PROVE  /\ \A begun, at : RebootKnown(d, begun, at) => RebootKnown(d, begun, at)'
             /\ \A signal, at : AlertKnown(d, signal, at) => AlertKnown(d, signal, at)'
  BY <1>1, <1>2, <1>6, StillKnown
<1>8. \A q \in Callers : Graced(q)'
  <2>1. ASSUME NEW d \in Devices, lost[d] = 0, d \notin pass[p].busy, NEW i \in DOMAIN ran'[d],
               ran'[d][i].took, ran'[d][i].begun # pass[p].begun
        PROVE  now - ran'[d][i].at > RebootGrace
    <3>1. Graced(p)
      BY DEF Distances
    <3>2. i \in DOMAIN ran[d] /\ ran'[d][i] = ran[d][i]
      BY <1>3, <1>4, <1>5, <2>1
    <3> QED BY <1>2, <2>1, <3>1, <3>2 DEF Graced
  <2>2. Graced(p)'
    BY <1>1, <1>2, <2>1 DEF Graced, Stays
  <2> QED BY <2>2 DEF OthersRest, Graced
<1>9. ASSUME NEW d \in Devices, lost[d] = 0 PROVE Known(d)' /\ RebootsApart(d)' /\ AlertsApart(d)'
  <2>1. Known(d) /\ RebootsApart(d) /\ AlertsApart(d)
    BY <1>9 DEF Distances
  <2>2. AlertsApart(d)'
    BY <1>2, <2>1 DEF AlertsApart
  <2>3. \A i \in DOMAIN alerts'[d] : AlertKnown(d, alerts[d][i].signal, alerts[d][i].at)'
    <3> SUFFICES ASSUME NEW i \in DOMAIN alerts[d]
                 PROVE  AlertKnown(d, alerts[d][i].signal, alerts[d][i].at)'
      BY <1>2
    <3>1. PICK signal, at : signal = alerts[d][i].signal /\ at = alerts[d][i].at
      OBVIOUS
    <3>2. AlertKnown(d, signal, at)'
      BY <1>7, <2>1, <3>1 DEF Known
    <3>3. signal = alerts'[d][i].signal /\ at = alerts'[d][i].at
      BY <1>2, <3>1
    <3> QED BY <3>2, <3>3 DEF AlertKnown
  <2>4. ASSUME NEW i \in DOMAIN ran[d], i \in DOMAIN ran'[d], ran'[d][i] = ran[d][i], ran[d][i].took
        PROVE  RebootKnown(d, ran[d][i].begun, ran[d][i].at)'
    <3>1. PICK begun, at : begun = ran[d][i].begun /\ at = ran[d][i].at
      OBVIOUS
    <3>2. RebootKnown(d, begun, at)'
      BY <1>7, <2>1, <2>4, <3>1 DEF Known
    <3>3. begun = ran'[d][i].begun /\ at = ran'[d][i].at
      BY <2>4, <3>1
    <3> QED BY <3>2, <3>3 DEF RebootKnown
  <2>5. CASE d # d0
    <3>1. RebootsApart(d)'
      BY <1>4, <2>1, <2>5 DEF RebootsApart
    <3>2. \A i \in DOMAIN ran'[d] :
            ran'[d][i].took => RebootKnown(d, ran[d][i].begun, ran[d][i].at)'
      BY <1>4, <2>4, <2>5
    <3> QED BY <2>2, <2>3, <3>1, <3>2 DEF Known
  <2>6. CASE d = d0
    <3>1. ASSUME NEW i \in DOMAIN ran[d], ran[d][i].took, ran[d][i].begun # pass[p].begun
          PROVE  now - ran[d][i].at > RebootGrace
      BY <1>1, <1>2, <1>9, <2>6, <3>1 DEF Distances, Graced
    <3>2. RebootsApart(d)'
      <4> SUFFICES ASSUME NEW i \in DOMAIN ran'[d], NEW j \in DOMAIN ran'[d], i < j,
                          ran'[d][i].took, ran'[d][i].begun # ran'[d][j].begun
                   PROVE  ran'[d][j].at - ran'[d][i].at > RebootGrace
        BY DEF RebootsApart
      <4>1. i \in DOMAIN ran[d] /\ ran'[d][i] = ran[d][i]
        BY <1>5, <2>6
      <4>2. CASE j \in DOMAIN ran[d]
        BY <1>5, <2>1, <2>6, <4>1, <4>2 DEF RebootsApart
      <4>3. CASE j = Len(ran[d]) + 1
        BY <1>3, <1>5, <2>6, <3>1, <4>1, <4>3
      <4> QED BY <1>5, <2>6, <4>2, <4>3
    <3>3. x.took => RebootKnown(d, pass[p].begun, now)'
      BY <1>1, <1>3, <2>6 DEF RebootKnown, Stays
    <3>4. \A i \in DOMAIN ran'[d] :
            ran'[d][i].took => RebootKnown(d, ran[d][i].begun, ran[d][i].at)'
      BY <1>1, <1>2, <1>3, <1>5, <2>4, <2>6, <3>3 DEF RebootKnown, Stays
    <3> QED BY <2>2, <2>3, <3>2, <3>4 DEF Known
  <2> QED BY <2>5, <2>6
<1>10. AlertsPast'
  BY <1>2 DEF Distances, AlertsPast
<1> QED BY <1>2, <1>8, <1>9, <1>10 DEF Distances


LEMMA CrashKeepsDistances ==
  ASSUME Typed, Distances, HubCrash
  PROVE  Distances'
<1>1. /\ \A p \in Callers : pass'[p] = Idle
      /\ UNCHANGED <<events, ran, alerts, now>>
  BY DEF HubCrash, worldVars
<1>2. \A p \in Callers : Graced(p)'
  BY <1>1 DEF Graced, Idle
<1>3. ASSUME NEW d \in Devices, lost'[d] = 0 PROVE Known(d)' /\ RebootsApart(d)' /\ AlertsApart(d)'
  <2>1. lost[d] = 0 /\ ~(\E p \in Callers : Unwritten(p) /\ Device(p) = d)
    BY <1>3, CrashLoses
  <2>2. Known(d) /\ RebootsApart(d) /\ AlertsApart(d)
    BY <2>1 DEF Distances
  <2>3. \A p \in Callers : Device(p) = d => ~pass[p].took /\ ~pass[p].told
    BY <2>1 DEF Unwritten, Typed, PassOK, PlaceOK
  <2>4. RebootsApart(d)' /\ AlertsApart(d)'
    BY <1>1, <2>2 DEF RebootsApart, AlertsApart
  <2>5. ASSUME NEW i \in DOMAIN ran[d], ran[d][i].took
        PROVE  \E k \in DOMAIN events[d] : /\ events[d][k].action \in HardActions
                                           /\ events[d][k].took /\ events[d][k].at >= ran[d][i].at
    BY <2>2, <2>3, <2>5 DEF Known, RebootKnown
  <2>6. ASSUME NEW i \in DOMAIN alerts[d]
        PROVE  \E k \in DOMAIN events[d] :
                 /\ events[d][k].told /\ events[d][k].says # "recovered"
                 /\ events[d][k].rule.signal = alerts[d][i].signal
                 /\ events[d][k].at >= alerts[d][i].at
    BY <2>2, <2>3, <2>6 DEF Known, AlertKnown
  <2>7. Known(d)'
    BY <1>1, <2>5, <2>6 DEF Known, RebootKnown, AlertKnown
  <2> QED BY <2>4, <2>7
<1>4. AlertsPast'
  BY <1>1 DEF Distances, AlertsPast
<1> QED BY <1>2, <1>3, <1>4 DEF Distances

LEMMA WorldKeepsDistances ==
  ASSUME Typed, Distances, UNCHANGED <<pass, row, events, history>>, now' \in {now, now + 1}
  PROVE  Distances'
<1>1. UNCHANGED <<pass, events, ran, alerts, lost>> /\ LogTypes /\ now \in Nat /\ now' >= now /\ now' \in Nat
  BY DEF history, Typed, ClockTypes
<1>2. \A p \in Callers : Device(p)' = Device(p) /\ Rule(p)' = Rule(p)
  BY <1>1 DEF Device, Rule
<1>3. \A d \in Devices : Known(d) => Known(d)'
  BY <1>1, <1>2 DEF Known, RebootKnown, AlertKnown
<1>4. \A d \in Devices : lost'[d] = 0 => RebootsApart(d)' /\ AlertsApart(d)'
  BY <1>1 DEF Distances, RebootsApart, AlertsApart
<1>5. ASSUME NEW p \in Callers PROVE Graced(p)'
  <2>1. Graced(p)
    BY DEF Distances
  <2>2. \A d \in Devices : \A i \in DOMAIN ran[d] :
          now - ran[d][i].at > RebootGrace => now' - ran[d][i].at > RebootGrace
    <3>1. \A d \in Devices : \A i \in DOMAIN ran[d] : ran[d][i].at \in Nat
      BY <1>1, LogsRead DEF Deed
    <3> QED BY <1>1, <3>1, LimitsAreTyped
  <2> QED BY <1>1, <2>1, <2>2 DEF Graced
<1>6. AlertsPast'
  <2>1. \A d \in Devices : \A i \in DOMAIN alerts[d] : alerts[d][i].at \in Nat
    BY <1>1, LogsRead DEF Alert
  <2> QED BY <1>1, <2>1 DEF Distances, AlertsPast
<1> QED BY <1>1, <1>3, <1>4, <1>5, <1>6 DEF Distances

LEMMA StepKeepsDistances == DistancesKept /\ [Next]_vars => DistancesKept'
<1> SUFFICES ASSUME DistancesKept, [Next]_vars PROVE DistancesKept'
  OBVIOUS
<1>1. LaddersKept /\ Typed /\ Alone /\ DeedsPast /\ (~overlapped => Distances)
  BY DEF DistancesKept, LaddersKept
<1>2. LaddersKept'
  BY <1>1, StepKeepsLadders
<1>3. ASSUME ~overlapped' PROVE Distances'
  <2>1. ASSUME NEW p \in Callers, PassStarts(p) \/ PassStep(p) PROVE Distances'
    <3>1. /\ Distances /\ OthersRest(p) /\ OthersRest(p)' /\ OthersStay(p)
          /\ PassStarts(p) => pass[p].step = 0 /\ ~pass[p].took /\ ~pass[p].told
      BY <1>1, <1>3, <2>1, OthersAreIdle, PassKeepsLocals
    <3>2. CASE Acts(p)
      BY <1>1, <3>1, <3>2, ActKeepsDistances
    <3>3. CASE Record(p)
      BY <1>1, <3>1, <3>3, RecordKeepsDistances
    <3>4. CASE Notify(p)
      BY <1>1, <3>1, <3>4, NotifyKeepsDistances
    <3> QED BY <1>1, <2>1, <3>1, <3>2, <3>3, <3>4, QuietKeepsDistances
  <2>2. CASE HubCrash
    <3>1. Distances
      BY <1>1, <1>3, <2>2 DEF HubCrash
    <3> QED BY <1>1, <2>2, <3>1, CrashKeepsDistances
  <2>3. CASE \/ PassSkipped \/ Dispatch \/ TimePasses \/ \E d \in Devices : InstallEnds(d)
             \/ UNCHANGED vars
    <3>1. UNCHANGED <<pass, row, events, history>> /\ now' \in {now, now + 1}
      BY <1>1, <2>3, WorldKeepsTypes
    <3>2. Distances
      BY <1>1, <1>3, <3>1 DEF history
    <3> QED BY <1>1, <3>1, <3>2, WorldKeepsDistances
  <2> QED BY <2>1, <2>2, <2>3 DEF Next
<1> QED BY <1>2, <1>3 DEF DistancesKept

LEMMA DistancesBegin == Init => DistancesKept
<1> SUFFICES ASSUME Init PROVE DistancesKept
  OBVIOUS
<1>1. /\ \A p \in Callers : pass[p] = Idle
      /\ \A d \in Devices : DOMAIN ran[d] = {} /\ DOMAIN alerts[d] = {}
  BY EmptySeq DEF Init
<1>2. Idle.at = "idle"
  BY DEF Idle
<1>3. Distances
  BY <1>1, <1>2 DEF Distances, Known, RebootsApart, AlertsApart, AlertsPast, Graced
<1> QED BY <1>3, LaddersBegin DEF DistancesKept

\* A rebooted box is left alone for the grace, one rule acts on a box at most once
\* per cooldown, and no two alerts about one signal of a box come within the dedupe
\* window: through commands that take their time, and restarts of the hub.
THEOREM DistanceIsKept == Spec => []KeepsItsDistance
<1>1. DistancesKept => KeepsItsDistance
  <2> SUFFICES ASSUME DistancesKept, ~overlapped PROVE KeepsItsDistance
    BY DEF KeepsItsDistance
  <2>1. \A d \in Devices : lost[d] = 0 => RebootsApart(d) /\ AlertsApart(d) /\ Climbs(d)
    BY DEF DistancesKept, Distances, LaddersKept, Ladders
  <2> QED BY <2>1 DEF KeepsItsDistance, Ordered, RebootsApart, AlertsApart, Climbs
<1> QED BY <1>1, DistancesBegin, StepKeepsDistances, PTL DEF Spec



-----------------------------------------------------------------------------
(* The ceilings: what was done is covered by the log, the action under way *)
(* and what was lost; and a budget covers it from the moment it was read.  *)

Doing(d, kinds) == \E p \in Callers :
  pass[p].step # 0 /\ pass[p].action \in kinds /\ Device(p) = d

Tallied(d, kinds, hard) == \A T \in Int :
  Cardinality(Done(d, T, hard)) <= Spent(d, kinds, T) + lost[d] + (IF Doing(d, kinds) THEN 1 ELSE 0)

Budgeted(p) == pass[p].at \notin {"idle", "busy", "budgets"} =>
  \A d \in Devices : \A T \in Int :
    /\ T >= now - Hour => Cardinality(Done(d, T, BOOLEAN)) <= pass[p].budget[d].actions + lost[d]
    /\ T >= now - Day => Cardinality(Done(d, T, {TRUE})) <= pass[p].budget[d].hard + lost[d]

Ceiled == \A d \in Devices : \A T \in Int :
  /\ T >= now - Hour => Cardinality(Done(d, T, BOOLEAN)) <= MaxActionsHour + lost[d]
  /\ T >= now - Day => Cardinality(Done(d, T, {TRUE})) <= MaxRebootsDay + lost[d]

Ceilings ==
  /\ \A d \in Devices : Tallied(d, Actions, BOOLEAN) /\ Tallied(d, HardActions, {TRUE})
  /\ \A p \in Callers : Budgeted(p)
  /\ Ceiled

CeilingsKept == Typed /\ Alone /\ DeedsPast /\ (~overlapped => Ceilings)

LEMMA DoneIsCounted ==
  ASSUME LogTypes, NEW d \in Devices, NEW T, NEW hard
  PROVE  IsFiniteSet(Done(d, T, hard)) /\ Cardinality(Done(d, T, hard)) \in Nat
<1>1. IsFiniteSet(DOMAIN ran[d])
  <2>1. DOMAIN ran[d] = 1..Len(ran[d]) /\ Len(ran[d]) \in Nat
    BY LogsRead, LenProperties
  <2> QED BY <2>1, FS_Interval
<1>2. Done(d, T, hard) \subseteq DOMAIN ran[d]
  BY DEF Done
<1>3. IsFiniteSet(Done(d, T, hard))
  BY <1>1, <1>2, FS_Subset
<1> QED BY <1>3, FS_CardinalityType

\* A later window holds less.
LEMMA SpentShrinks ==
  ASSUME LogTypes, NEW d \in Devices, NEW kinds, NEW S \in Int, NEW T \in Int, S <= T
  PROVE  Spent(d, kinds, T) <= Spent(d, kinds, S)
<1> DEFINE since(u) == {i \in DOMAIN events[d] : events[d][i].action \in kinds /\ events[d][i].at >= u}
<1>1. IsFiniteSet(DOMAIN events[d])
  <2>1. DOMAIN events[d] = 1..Len(events[d]) /\ Len(events[d]) \in Nat
    BY LogsRead, LenProperties
  <2> QED BY <2>1, FS_Interval
<1>2. IsFiniteSet(since(S))
  BY <1>1, FS_Subset
<1>3. \A i \in DOMAIN events[d] : events[d][i].at \in Nat
  BY LogsRead DEF EventRow
<1>4. since(T) \in SUBSET since(S)
  BY <1>3
<1>5. Cardinality(since(T)) <= Cardinality(since(S))
  BY <1>2, <1>4, FS_Subset
<1> QED BY <1>5 DEF Spent

\* One action more is one entry more, of its kind.
LEMMA DoneGrows ==
  ASSUME Typed, NEW p \in Callers, Acts(p), NEW d \in Devices, NEW T, NEW hard
  PROVE  /\ Cardinality(Done(d, T, hard))' \in Nat
         /\ Cardinality(Done(d, T, hard))' <= Cardinality(Done(d, T, hard)) + 1
         /\ d # Device(p) => Cardinality(Done(d, T, hard))' = Cardinality(Done(d, T, hard))
         /\ (Step(p).action \in HardActions) \notin hard
              => Cardinality(Done(d, T, hard))' = Cardinality(Done(d, T, hard))
<1> DEFINE d0 == Device(p)
<1>1. PICK ok \in BOOLEAN :
        /\ Deeds(p, ok) \in Deed /\ pass[p].todo # <<>>
        /\ ran' = [ran EXCEPT ![d0] = Append(ran[d0], Deeds(p, ok))]
  BY ActMoves
<1>2. LogTypes /\ d0 \in Devices
  BY <1>1, WorkIsTyped DEF Typed
<1> DEFINE x == Deeds(p, ok)
<1>3. x.hard = (Step(p).action \in HardActions) /\ x \in Deed
  BY <1>1 DEF Deeds
<1> HIDE DEF x
<1>4. /\ ran'[d0] = Append(ran[d0], x) /\ ran[d0] \in Seq(Deed)
      /\ \A e \in Devices : e # d0 => ran'[e] = ran[e]
  BY <1>1, <1>2 DEF LogTypes, x
<1>5. /\ DOMAIN ran'[d0] = DOMAIN ran[d0] \cup {Len(ran[d0]) + 1}
      /\ Len(ran[d0]) + 1 \notin DOMAIN ran[d0]
      /\ ran'[d0][Len(ran[d0]) + 1] = x
      /\ \A i \in DOMAIN ran[d0] : ran'[d0][i] = ran[d0][i]
  BY <1>3, <1>4, AppendRead
<1>6. IsFiniteSet(Done(d, T, hard)) /\ Cardinality(Done(d, T, hard)) \in Nat
  BY <1>2, DoneIsCounted
<1>7. CASE d # d0
  <2>1. Done(d, T, hard)' = Done(d, T, hard)
    BY <1>4, <1>7 DEF Done
  <2> QED BY <1>6, <1>7, <2>1
<1>8. CASE d = d0 /\ x.hard \notin hard
  <2>1. Done(d, T, hard)' = Done(d, T, hard)
    BY <1>5, <1>8 DEF Done
  <2> QED BY <1>3, <1>6, <1>8, <2>1
<1>9. CASE d = d0 /\ x.hard \in hard
  <2>1. Done(d, T, hard)' \subseteq Done(d, T, hard) \cup {Len(ran[d]) + 1}
    BY <1>5, <1>9 DEF Done
  <2>2. /\ IsFiniteSet(Done(d, T, hard) \cup {Len(ran[d]) + 1})
        /\ Cardinality(Done(d, T, hard) \cup {Len(ran[d]) + 1}) <= Cardinality(Done(d, T, hard)) + 1
    <3> DEFINE S == Done(d, T, hard)
               c == Len(ran[d]) + 1
    <3>1. IsFiniteSet(S) /\ Cardinality(S) \in Nat
      BY <1>6
    <3> HIDE DEF S, c
    <3>2. /\ IsFiniteSet(S \cup {c})
          /\ Cardinality(S \cup {c}) = IF c \in S THEN Cardinality(S) ELSE Cardinality(S) + 1
      BY <3>1, FS_AddElement
    <3>3. Cardinality(S \cup {c}) <= Cardinality(S) + 1
      BY <3>1, <3>2
    <3> QED BY <3>2, <3>3 DEF S, c
  <2>3. IsFiniteSet(Done(d, T, hard)') /\ Cardinality(Done(d, T, hard)')
          <= Cardinality(Done(d, T, hard) \cup {Len(ran[d]) + 1})
    BY <2>1, <2>2, FS_Subset
  <2>4. Cardinality(Done(d, T, hard)') \in Nat
        /\ Cardinality(Done(d, T, hard) \cup {Len(ran[d]) + 1}) \in Nat
    BY <2>2, <2>3, FS_CardinalityType
  <2> QED BY <1>3, <1>6, <1>9, <2>2, <2>3, <2>4
<1> QED BY <1>7, <1>8, <1>9


\* A budget, once read, is kept for the rest of the pass.
LEMMA BudgetStays ==
  ASSUME Typed, NEW p \in Callers, PassStep(p), ~Acts(p), ~BusyRead(p), ~BudgetsRead(p), ~PassEnds(p)
  PROVE  pass'[p].budget = pass[p].budget /\ pass[p].at \notin {"idle", "busy", "budgets"}
<1>1. CASE Skips(p) \/ StandsDown(p) \/ (AlreadySaid(p) /\ pass' = MovedOn(p))
  <2>1. pass' = MovedOn(p) /\ pass[p].at \in {"look", "escalate", "said"}
    BY <1>1 DEF Skips, StandsDown, AlreadySaid
  <2>2. pass[p].todo # <<>>
    BY <1>1 DEF Skips, StandsDown, AlreadySaid, MayAct, Typed, PassOK, PlaceOK, Working
  <2> QED BY <2>1, <2>2, MovedOnMoves DEF Onward
<1>2. CASE Look(p) \/ Count(p) \/ Recover(p) \/ HoldsBack(p) \/ Trips(p) \/ Record(p)
  <2>1. pass[p].at \in {"look", "count", "recover", "escalate", "record"}
    BY <1>2 DEF Look, Count, Recover, HoldsBack, Trips, Record, MayAct
  <2> QED BY <1>2, <2>1, LookMoves, CountMoves, RecoverMoves, HeldMoves, RecordMoves DEF Onward
<1>3. CASE Answered(p) \/ Stamp(p) \/ (AlreadySaid(p) /\ pass' # MovedOn(p)) \/ Notify(p)
  <2>1. pass[p].at \in {"await", "stamp", "said", "notify"}
    BY <1>3 DEF Answered, Stamp, AlreadySaid, Notify
  <2> QED BY <1>3, <2>1, AnswerMoves, NotifyMoves DEF Carries
<1> QED BY <1>1, <1>2, <1>3 DEF PassStep

\* With nothing under way, the log and what was lost cover what was done.
LEMMA LogCovers ==
  ASSUME LogTypes, NEW d \in Devices, NEW kinds, NEW hard, Tallied(d, kinds, hard), ~Doing(d, kinds),
         NEW S \in Int, NEW T \in Int, S <= T
  PROVE  Cardinality(Done(d, T, hard)) <= Spent(d, kinds, S) + lost[d]
<1>1. Cardinality(Done(d, T, hard)) <= Spent(d, kinds, T) + lost[d] + 0
  BY DEF Tallied
<1>2. Spent(d, kinds, T) <= Spent(d, kinds, S)
  BY SpentShrinks
<1>3. /\ Cardinality(Done(d, T, hard)) \in Nat /\ Spent(d, kinds, T) \in Nat
      /\ Spent(d, kinds, S) \in Nat /\ lost[d] \in Nat
  BY DoneIsCounted, SpentIsCounted DEF LogTypes
<1> QED BY <1>1, <1>2, <1>3

LEMMA QuietKeepsCeilings ==
  ASSUME Typed, Ceilings, NEW p \in Callers, OthersRest(p), OthersRest(p)', OthersStay(p),
         PassStarts(p) \/ (PassStep(p) /\ ~Acts(p) /\ ~Record(p)),
         PassStarts(p) => pass[p].step = 0
  PROVE  Ceilings'
<1>1. UNCHANGED <<events, ran, lost, now>> /\ LogTypes /\ now \in Int
  BY PassRemembers, PassKeepsClock DEF PassStarts, worldVars, Typed, ClockTypes
<1>2. pass[p].step # 0 => /\ pass'[p].step # 0 /\ pass'[p].action = pass[p].action
                          /\ Device(p)' = Device(p)
  BY PassRemembers DEF Carries, Stays
<1>3. \A d, kinds : Doing(d, kinds) => Doing(d, kinds)'
  BY <1>2 DEF Doing, OthersRest
<1>4. /\ \A d, T, hard : Done(d, T, hard)' = Done(d, T, hard)
      /\ \A d, kinds, T : Spent(d, kinds, T)' = Spent(d, kinds, T)
  BY <1>1 DEF Done, Spent
<1>5. ASSUME NEW d \in Devices, NEW kinds, NEW hard, Tallied(d, kinds, hard)
      PROVE  Tallied(d, kinds, hard)'
  <2> SUFFICES ASSUME NEW T \in Int
               PROVE  Cardinality(Done(d, T, hard)) <=
                        Spent(d, kinds, T) + lost[d] + (IF Doing(d, kinds)' THEN 1 ELSE 0)
    BY <1>1, <1>4 DEF Tallied
  <2>1. Cardinality(Done(d, T, hard)) <=
          Spent(d, kinds, T) + lost[d] + (IF Doing(d, kinds) THEN 1 ELSE 0)
    BY <1>5 DEF Tallied
  <2>2. Spent(d, kinds, T) \in Nat /\ lost[d] \in Nat /\ Cardinality(Done(d, T, hard)) \in Nat
    BY <1>1, SpentIsCounted, DoneIsCounted DEF LogTypes
  <2>3. Doing(d, kinds) => Doing(d, kinds)'
    BY <1>3
  <2> QED BY <2>1, <2>2, <2>3
<1>6. Ceiled'
  BY <1>1, <1>4 DEF Ceilings, Ceiled
<1>7. Budgeted(p)'
  <2>1. CASE PassStarts(p) \/ PassEnds(p) \/ BusyRead(p)
    <3>1. pass'[p].at \in {"idle", "busy", "budgets"}
      BY <2>1, StartOrEndMoves, BusyMoves
    <3> QED BY <3>1 DEF Budgeted
  <2>2. CASE BudgetsRead(p)
    <3>1. \A d \in Devices : /\ pass'[p].budget[d].actions = Spent(d, Actions, now - Hour)
                             /\ pass'[p].budget[d].hard = Spent(d, HardActions, now - Day)
      BY <2>2, BudgetsMove
    <3>2. \A d, kinds : ~Doing(d, kinds)
      <4>1. pass[p].at = "budgets" /\ PlaceOK(p)
        BY <2>2 DEF BudgetsRead, Typed, PassOK
      <4> QED BY <4>1 DEF Doing, OthersRest, PlaceOK
    <3>3. now - Hour \in Int /\ now - Day \in Int
      BY <1>1, LimitsAreTyped
    <3>4. ASSUME NEW d \in Devices, NEW T \in Int
          PROVE  /\ T >= now - Hour =>
                      Cardinality(Done(d, T, BOOLEAN)) <= Spent(d, Actions, now - Hour) + lost[d]
                 /\ T >= now - Day =>
                      Cardinality(Done(d, T, {TRUE})) <= Spent(d, HardActions, now - Day) + lost[d]
      <4>1. Tallied(d, Actions, BOOLEAN) /\ Tallied(d, HardActions, {TRUE})
        BY DEF Ceilings
      <4>2. T >= now - Hour =>
              Cardinality(Done(d, T, BOOLEAN)) <= Spent(d, Actions, now - Hour) + lost[d]
        BY <1>1, <3>2, <3>3, <4>1, LogCovers
      <4>3. T >= now - Day =>
              Cardinality(Done(d, T, {TRUE})) <= Spent(d, HardActions, now - Day) + lost[d]
        BY <1>1, <3>2, <3>3, <4>1, LogCovers
      <4> QED BY <4>2, <4>3
    <3> QED BY <1>1, <1>4, <3>1, <3>4 DEF Budgeted
  <2>3. CASE PassStep(p) /\ ~Acts(p) /\ ~BusyRead(p) /\ ~BudgetsRead(p) /\ ~PassEnds(p)
    <3>1. pass'[p].budget = pass[p].budget /\ pass[p].at \notin {"idle", "busy", "budgets"}
      BY <2>3, BudgetStays
    <3>2. Budgeted(p)
      BY DEF Ceilings
    <3> QED BY <1>1, <1>4, <3>1, <3>2 DEF Budgeted
  <2> QED BY <2>1, <2>2, <2>3
<1>8. \A q \in Callers : q # p => Budgeted(q)'
  BY DEF OthersRest, Budgeted
<1> QED BY <1>5, <1>6, <1>7, <1>8 DEF Ceilings


\* An action is run while the budget allows it, and is under way until recorded.
LEMMA ActKeepsCeilings ==
  ASSUME Typed, Ceilings, NEW p \in Callers, OthersRest(p), OthersRest(p)', Acts(p)
  PROVE  Ceilings'
<1> DEFINE d0 == Device(p)
           act == Step(p).action
<1>1. /\ pass[p].todo # <<>> /\ Stays(p)
      /\ act \in Actions /\ Step(p).at \in Nat \ {0}
      /\ pass'[p].step = Step(p).at /\ pass'[p].action = act
      /\ \A d \in Devices : d # d0 => pass'[p].budget[d] = pass[p].budget[d]
      /\ pass'[p].budget[d0].actions = pass[p].budget[d0].actions + 1
      /\ pass'[p].budget[d0].hard = pass[p].budget[d0].hard + (IF act \in HardActions THEN 1 ELSE 0)
  BY ActMoves
<1>2. /\ LogTypes /\ d0 \in Devices /\ PlaceOK(p) /\ pass[p].at = "escalate"
      /\ UNCHANGED <<events, lost, now>> /\ now \in Nat
      /\ ~Tripped(pass[p].budget[d0], act)
  BY <1>1, WorkIsTyped DEF Typed, ClockTypes, Acts, MayAct, worldVars, PassOK
<1>3. \A d \in Devices : lost[d] \in Nat /\ pass[p].budget[d].actions \in Nat
                                          /\ pass[p].budget[d].hard \in Nat
  <2>1. lost \in [Devices -> Nat] /\ pass[p].budget \in [Devices -> [actions : Nat, hard : Nat]]
    BY <1>2 DEF LogTypes, Typed, PassOK, PassOf
  <2> QED BY <2>1
<1>4. \A d, kinds : ~Doing(d, kinds)
  BY <1>2 DEF Doing, OthersRest, PlaceOK
<1>5. \A kinds : act \in kinds => Doing(d0, kinds)'
  BY <1>1 DEF Doing, Stays
<1>6. \A d, kinds, T : Spent(d, kinds, T)' = Spent(d, kinds, T)
  BY <1>2 DEF Spent
<1>7. ASSUME NEW d \in Devices, NEW T, NEW hard
      PROVE  /\ Cardinality(Done(d, T, hard))' \in Nat /\ Cardinality(Done(d, T, hard)) \in Nat
             /\ Cardinality(Done(d, T, hard))' <= Cardinality(Done(d, T, hard)) + 1
             /\ d # d0 => Cardinality(Done(d, T, hard))' = Cardinality(Done(d, T, hard))
             /\ (act \in HardActions) \notin hard
                  => Cardinality(Done(d, T, hard))' = Cardinality(Done(d, T, hard))
  BY <1>2, DoneGrows, DoneIsCounted
<1>8. act \notin HardActions => (act \in HardActions) \notin {TRUE}
  OBVIOUS
<1> HIDE DEF act
<1>9. ASSUME NEW d \in Devices, NEW kinds, NEW hard, Tallied(d, kinds, hard),
             act \in kinds \/ (act \in HardActions) \notin hard
      PROVE  Tallied(d, kinds, hard)'
  <2> SUFFICES ASSUME NEW T \in Int
               PROVE  Cardinality(Done(d, T, hard))' <=
                        Spent(d, kinds, T) + lost[d] + (IF Doing(d, kinds)' THEN 1 ELSE 0)
    BY <1>2, <1>6 DEF Tallied
  <2>1. Cardinality(Done(d, T, hard)) <= Spent(d, kinds, T) + lost[d] + 0
    BY <1>4, <1>9 DEF Tallied
  <2>2. Spent(d, kinds, T) \in Nat
    BY <1>2, SpentIsCounted
  <2>3. CASE d = d0 /\ act \in kinds
    <3>1. Doing(d, kinds)'
      BY <1>1, <2>3 DEF Doing, Stays
    <3> QED BY <1>3, <1>7, <2>1, <2>2, <3>1
  <2>4. CASE d # d0 \/ (act \in HardActions) \notin hard
    <3>1. Cardinality(Done(d, T, hard))' = Cardinality(Done(d, T, hard))
      BY <1>7, <2>4
    <3> QED BY <1>3, <1>7, <2>1, <2>2, <3>1
  <2> QED BY <1>9, <2>3, <2>4
<1>10. ASSUME NEW d \in Devices PROVE Tallied(d, Actions, BOOLEAN)' /\ Tallied(d, HardActions, {TRUE})'
  <2>1. Tallied(d, Actions, BOOLEAN) /\ Tallied(d, HardActions, {TRUE})
    BY DEF Ceilings
  <2>2. Tallied(d, Actions, BOOLEAN)'
    BY <1>1, <1>9, <2>1
  <2>3. Tallied(d, HardActions, {TRUE})'
    BY <1>8, <1>9, <2>1
  <2> QED BY <2>2, <2>3
<1>11. ASSUME NEW d \in Devices, NEW T \in Int
       PROVE  /\ T >= now - Hour =>
                   Cardinality(Done(d, T, BOOLEAN)) <= pass[p].budget[d].actions + lost[d]
              /\ T >= now - Day =>
                   Cardinality(Done(d, T, {TRUE})) <= pass[p].budget[d].hard + lost[d]
  BY <1>2 DEF Ceilings, Budgeted
<1>12. Budgeted(p)'
  <2> SUFFICES ASSUME NEW d \in Devices, NEW T \in Int
               PROVE  /\ T >= now - Hour =>
                           Cardinality(Done(d, T, BOOLEAN))' <= pass'[p].budget[d].actions + lost[d]
                      /\ T >= now - Day =>
                           Cardinality(Done(d, T, {TRUE}))' <= pass'[p].budget[d].hard + lost[d]
    BY <1>2 DEF Budgeted
  <2>1. CASE d # d0
    <3>1. /\ Cardinality(Done(d, T, BOOLEAN))' = Cardinality(Done(d, T, BOOLEAN))
          /\ Cardinality(Done(d, T, {TRUE}))' = Cardinality(Done(d, T, {TRUE}))
      BY <1>7, <2>1
    <3> QED BY <1>1, <1>11, <2>1, <3>1
  <2>2. CASE d = d0
    <3>1. Cardinality(Done(d, T, BOOLEAN))' <= Cardinality(Done(d, T, BOOLEAN)) + 1
      BY <1>7
    <3>2. /\ act \in HardActions =>
               Cardinality(Done(d, T, {TRUE}))' <= Cardinality(Done(d, T, {TRUE})) + 1
          /\ act \notin HardActions =>
               Cardinality(Done(d, T, {TRUE}))' = Cardinality(Done(d, T, {TRUE}))
      BY <1>7, <1>8
    <3>3. /\ Cardinality(Done(d, T, BOOLEAN))' \in Nat /\ Cardinality(Done(d, T, BOOLEAN)) \in Nat
          /\ Cardinality(Done(d, T, {TRUE}))' \in Nat /\ Cardinality(Done(d, T, {TRUE})) \in Nat
      BY <1>7
    <3>4. pass'[p].budget[d].actions = pass[p].budget[d].actions + 1
      BY <1>1, <2>2
    <3>5. pass'[p].budget[d].hard = pass[p].budget[d].hard + (IF act \in HardActions THEN 1 ELSE 0)
      BY <1>1, <2>2 DEF act
    <3>6. T >= now - Hour =>
            Cardinality(Done(d, T, BOOLEAN))' <= pass'[p].budget[d].actions + lost[d]
      BY <1>3, <1>11, <3>1, <3>3, <3>4
    <3>7. T >= now - Day => Cardinality(Done(d, T, {TRUE}))' <= pass'[p].budget[d].hard + lost[d]
      BY <1>3, <1>11, <3>2, <3>3, <3>5
    <3> QED BY <3>6, <3>7
  <2> QED BY <2>1, <2>2
<1>13. Ceiled'
  <2> SUFFICES ASSUME NEW d \in Devices, NEW T \in Int
               PROVE  /\ T >= now - Hour =>
                           Cardinality(Done(d, T, BOOLEAN))' <= MaxActionsHour + lost[d]
                      /\ T >= now - Day =>
                           Cardinality(Done(d, T, {TRUE}))' <= MaxRebootsDay + lost[d]
    BY <1>2 DEF Ceiled
  <2>1. /\ T >= now - Hour => Cardinality(Done(d, T, BOOLEAN)) <= MaxActionsHour + lost[d]
        /\ T >= now - Day => Cardinality(Done(d, T, {TRUE})) <= MaxRebootsDay + lost[d]
    BY DEF Ceilings, Ceiled
  <2>2. CASE d # d0
    <3>1. /\ Cardinality(Done(d, T, BOOLEAN))' = Cardinality(Done(d, T, BOOLEAN))
          /\ Cardinality(Done(d, T, {TRUE}))' = Cardinality(Done(d, T, {TRUE}))
      BY <1>7, <2>2
    <3> QED BY <2>1, <3>1
  <2>3. CASE d = d0
    <3>1. /\ pass[p].budget[d].actions < MaxActionsHour
          /\ act \in HardActions => pass[p].budget[d].hard < MaxRebootsDay
      BY <1>2, <1>3, <2>3, LimitsAreTyped DEF Tripped
    <3>2. /\ Cardinality(Done(d, T, BOOLEAN))' <= Cardinality(Done(d, T, BOOLEAN)) + 1
          /\ Cardinality(Done(d, T, BOOLEAN))' \in Nat /\ Cardinality(Done(d, T, BOOLEAN)) \in Nat
      BY <1>7
    <3>3. T >= now - Hour => Cardinality(Done(d, T, BOOLEAN))' <= MaxActionsHour + lost[d]
      BY <1>3, <1>11, <3>1, <3>2, LimitsAreTyped
    <3>4. T >= now - Day => Cardinality(Done(d, T, {TRUE}))' <= MaxRebootsDay + lost[d]
      <4>1. CASE act \in HardActions
        <5>1. /\ Cardinality(Done(d, T, {TRUE}))' <= Cardinality(Done(d, T, {TRUE})) + 1
              /\ Cardinality(Done(d, T, {TRUE}))' \in Nat /\ Cardinality(Done(d, T, {TRUE})) \in Nat
          BY <1>7
        <5> QED BY <1>3, <1>11, <3>1, <4>1, <5>1, LimitsAreTyped
      <4>2. CASE act \notin HardActions
        <5>1. Cardinality(Done(d, T, {TRUE}))' = Cardinality(Done(d, T, {TRUE}))
          BY <1>7, <1>8, <4>2
        <5> QED BY <2>1, <5>1
      <4> QED BY <4>1, <4>2
    <3> QED BY <3>3, <3>4
  <2> QED BY <2>2, <2>3
<1>14. \A q \in Callers : q # p => Budgeted(q)'
  BY DEF OthersRest, Budgeted
<1> QED BY <1>10, <1>12, <1>13, <1>14 DEF Ceilings


\* A record counts against its box from then on.
LEMMA SpentGrows ==
  ASSUME Typed, NEW p \in Callers, Record(p), NEW d \in Devices, NEW kinds, NEW T \in Int
  PROVE  /\ Spent(d, kinds, T)' \in Nat /\ Spent(d, kinds, T)' >= Spent(d, kinds, T)
         /\ d = Device(p) /\ pass[p].action \in kinds /\ T <= now
              => Spent(d, kinds, T)' >= Spent(d, kinds, T) + 1
<1> DEFINE d0 == Device(p)
           e == [rule |-> Rule(p), action |-> pass[p].action, took |-> pass[p].took, at |-> now,
                 says |-> pass[p].says, told |-> pass[p].told]
           counted == {i \in DOMAIN events[d] :
                         events[d][i].action \in kinds /\ events[d][i].at >= T}
           later == {i \in DOMAIN events'[d] :
                       events'[d][i].action \in kinds /\ events'[d][i].at >= T}
<1>1. /\ LogTypes /\ now \in Nat /\ PlaceOK(p) /\ pass[p] \in PassOf /\ pass[p].at = "record"
      /\ events' = [events EXCEPT ![d0] = Append(events[d0], e)]
  BY DEF Typed, ClockTypes, PassOK, Record
<1>2. d0 \in Devices /\ Rule(p) \in Rules
  BY <1>1, WorkIsTyped DEF PlaceOK, Working, Typed
<1>3. e \in EventRow /\ e.action = pass[p].action /\ e.at = now
  BY <1>1, <1>2 DEF EventRow, PassOf
<1> HIDE DEF e
<1>4. /\ events'[d0] = Append(events[d0], e) /\ events[d0] \in Seq(EventRow)
      /\ d # d0 => events'[d] = events[d]
  BY <1>1, <1>2 DEF LogTypes
<1>5. /\ DOMAIN events'[d0] = DOMAIN events[d0] \cup {Len(events[d0]) + 1}
      /\ Len(events[d0]) + 1 \notin DOMAIN events[d0]
      /\ DOMAIN events[d0] = 1..Len(events[d0]) /\ Len(events[d0]) \in Nat
      /\ events'[d0][Len(events[d0]) + 1] = e
      /\ \A k \in DOMAIN events[d0] : events'[d0][k] = events[d0][k]
  BY <1>3, <1>4, AppendRead
<1>6. Spent(d, kinds, T) = Cardinality(counted) /\ Spent(d, kinds, T)' = Cardinality(later)
  BY DEF Spent
<1>7. IsFiniteSet(counted) /\ Cardinality(counted) \in Nat
  <2>1. DOMAIN events[d] = 1..Len(events[d]) /\ Len(events[d]) \in Nat
    BY <1>1, LogsRead, LenProperties
  <2>2. IsFiniteSet(DOMAIN events[d])
    BY <2>1, FS_Interval
  <2>3. IsFiniteSet(counted)
    BY <2>2, FS_Subset
  <2> QED BY <2>3, FS_CardinalityType
<1>8. CASE d # d0
  <2>1. later = counted
    BY <1>4, <1>8
  <2> HIDE DEF counted, later
  <2> QED BY <1>6, <1>7, <1>8, <2>1
<1>9. CASE d = d0
  <2> DEFINE c == Len(events[d]) + 1
  <2>1. later = IF e.action \in kinds /\ e.at >= T THEN counted \cup {c} ELSE counted
    BY <1>5, <1>9
  <2>2. c \notin counted
    BY <1>5, <1>9
  <2> HIDE DEF c, counted, later
  <2>3. Cardinality(counted \cup {c}) = Cardinality(counted) + 1
    BY <1>7, <2>2, FS_AddElement
  <2>4. CASE e.action \in kinds /\ e.at >= T
    BY <1>6, <1>7, <2>1, <2>3, <2>4
  <2>5. CASE ~(e.action \in kinds /\ e.at >= T)
    <3>1. ~(pass[p].action \in kinds /\ T <= now)
      BY <1>1, <1>3, <2>5
    <3> QED BY <1>6, <1>7, <2>1, <2>5, <3>1
  <2> QED BY <2>4, <2>5
<1> QED BY <1>8, <1>9

LEMMA RecordKeepsCeilings ==
  ASSUME Typed, DeedsPast, Ceilings, NEW p \in Callers, OthersRest(p), OthersRest(p)', Record(p)
  PROVE  Ceilings'
<1>1. UNCHANGED <<ran, lost, now>> /\ LogTypes /\ now \in Nat
  BY DEF Record, history, worldVars, Typed, ClockTypes
<1>2. /\ pass'[p].at = "look" /\ pass'[p].budget = pass[p].budget /\ pass'[p].step = 0
      /\ pass[p].at = "record"
  BY RecordMoves DEF Onward, Clean, Record
<1>3. \A d, kinds : /\ Doing(d, kinds) => d = Device(p) /\ pass[p].action \in kinds
                    /\ ~Doing(d, kinds)'
  BY <1>2 DEF Doing, OthersRest
<1>4. \A d, T, hard : Done(d, T, hard)' = Done(d, T, hard)
  BY <1>1 DEF Done
<1>5. ASSUME NEW d \in Devices, NEW kinds, NEW hard, Tallied(d, kinds, hard)
      PROVE  Tallied(d, kinds, hard)'
  <2> SUFFICES ASSUME NEW T \in Int
               PROVE  Cardinality(Done(d, T, hard)) <= Spent(d, kinds, T)' + lost[d] + 0
    BY <1>1, <1>3, <1>4 DEF Tallied
  <2>1. Cardinality(Done(d, T, hard)) <=
          Spent(d, kinds, T) + lost[d] + (IF Doing(d, kinds) THEN 1 ELSE 0)
    BY <1>5 DEF Tallied
  <2>2. /\ Spent(d, kinds, T) \in Nat /\ lost[d] \in Nat /\ Cardinality(Done(d, T, hard)) \in Nat
        /\ Spent(d, kinds, T)' \in Nat /\ Spent(d, kinds, T)' >= Spent(d, kinds, T)
    BY <1>1, SpentIsCounted, DoneIsCounted, SpentGrows DEF LogTypes
  <2>3. CASE ~Doing(d, kinds)
    BY <2>1, <2>2, <2>3
  <2>4. CASE Doing(d, kinds) /\ T <= now
    <3>1. Spent(d, kinds, T)' >= Spent(d, kinds, T) + 1
      BY <1>3, <2>4, SpentGrows
    <3> QED BY <2>1, <2>2, <2>4, <3>1
  <2>5. CASE ~(T <= now)
    <3>1. \A i \in DOMAIN ran[d] : ran[d][i].at <= now /\ ran[d][i].at \in Nat
      BY <1>1, LogsRead DEF DeedsPast, Deed
    <3>2. Done(d, T, hard) = {}
      BY <1>1, <2>5, <3>1 DEF Done
    <3>3. Cardinality(Done(d, T, hard)) = 0
      BY <3>2, FS_EmptySet
    <3> QED BY <2>2, <3>3
  <2> QED BY <2>3, <2>4, <2>5
<1>6. Ceiled'
  BY <1>1, <1>4 DEF Ceilings, Ceiled
<1>7. \A q \in Callers : Budgeted(q)'
  <2>1. Budgeted(p)'
    BY <1>1, <1>2, <1>4 DEF Ceilings, Budgeted
  <2> QED BY <2>1 DEF OthersRest, Budgeted
<1> QED BY <1>5, <1>6, <1>7 DEF Ceilings

LEMMA CrashKeepsCeilings ==
  ASSUME Typed, Ceilings, HubCrash
  PROVE  Ceilings'
<1>1. /\ \A p \in Callers : pass'[p] = Idle
      /\ UNCHANGED <<events, ran, now>> /\ LogTypes
  BY DEF HubCrash, worldVars, Typed
<1>2. Idle.at = "idle" /\ Idle.step = 0
  BY DEF Idle
<1>3. /\ \A d, T, hard : Done(d, T, hard)' = Done(d, T, hard)
      /\ \A d, kinds, T : Spent(d, kinds, T)' = Spent(d, kinds, T)
      /\ \A d, kinds : ~Doing(d, kinds)'
  BY <1>1, <1>2 DEF Done, Spent, Doing
<1>4. ASSUME NEW d \in Devices
      PROVE  /\ lost[d] \in Nat /\ lost'[d] \in Nat /\ lost'[d] >= lost[d]
             /\ \A kinds : Doing(d, kinds) => lost'[d] >= lost[d] + 1
  BY CrashLoses DEF Doing, Unwritten
<1>5. ASSUME NEW d \in Devices, NEW kinds, NEW hard, Tallied(d, kinds, hard)
      PROVE  Tallied(d, kinds, hard)'
  <2> SUFFICES ASSUME NEW T \in Int
               PROVE  Cardinality(Done(d, T, hard)) <= Spent(d, kinds, T) + lost'[d] + 0
    BY <1>3 DEF Tallied
  <2>1. Cardinality(Done(d, T, hard)) <=
          Spent(d, kinds, T) + lost[d] + (IF Doing(d, kinds) THEN 1 ELSE 0)
    BY <1>5 DEF Tallied
  <2>2. Spent(d, kinds, T) \in Nat /\ Cardinality(Done(d, T, hard)) \in Nat
    BY <1>1, SpentIsCounted, DoneIsCounted
  <2> QED BY <1>4, <2>1, <2>2
<1>6. Ceiled'
  <2> SUFFICES ASSUME NEW d \in Devices, NEW T \in Int
               PROVE  /\ T >= now - Hour =>
                           Cardinality(Done(d, T, BOOLEAN)) <= MaxActionsHour + lost'[d]
                      /\ T >= now - Day =>
                           Cardinality(Done(d, T, {TRUE})) <= MaxRebootsDay + lost'[d]
    BY <1>1, <1>3 DEF Ceiled
  <2>1. /\ T >= now - Hour => Cardinality(Done(d, T, BOOLEAN)) <= MaxActionsHour + lost[d]
        /\ T >= now - Day => Cardinality(Done(d, T, {TRUE})) <= MaxRebootsDay + lost[d]
    BY DEF Ceilings, Ceiled
  <2>2. Cardinality(Done(d, T, BOOLEAN)) \in Nat /\ Cardinality(Done(d, T, {TRUE})) \in Nat
    BY <1>1, DoneIsCounted
  <2> QED BY <1>4, <2>1, <2>2, LimitsAreTyped
<1>7. \A p \in Callers : Budgeted(p)'
  BY <1>1, <1>2 DEF Budgeted
<1> QED BY <1>5, <1>6, <1>7 DEF Ceilings

\* Later windows hold no more than earlier ones.
LEMMA WorldKeepsCeilings ==
  ASSUME Typed, Ceilings, UNCHANGED <<pass, row, events, history>>, now' \in {now, now + 1}
  PROVE  Ceilings'
<1>1. UNCHANGED <<pass, events, ran, lost>> /\ now \in Nat /\ now' \in Nat /\ now' >= now
  BY DEF history, Typed, ClockTypes
<1>2. \A p : Device(p)' = Device(p)
  BY <1>1 DEF Device
<1>3. /\ \A d, T, hard : Done(d, T, hard)' = Done(d, T, hard)
      /\ \A d, kinds, T : Spent(d, kinds, T)' = Spent(d, kinds, T)
      /\ \A d, kinds : Doing(d, kinds)' = Doing(d, kinds)
  BY <1>1, <1>2 DEF Done, Spent, Doing
<1>4. \A d, kinds, hard : Tallied(d, kinds, hard) => Tallied(d, kinds, hard)'
  BY <1>1, <1>3 DEF Tallied
<1>5. \A T \in Int : /\ T >= now' - Hour => T >= now - Hour
                     /\ T >= now' - Day => T >= now - Day
  <2>1. \A m, n, span \in Nat : \A T \in Int : n >= m /\ T >= n - span => T >= m - span
    OBVIOUS
  <2> QED BY <1>1, <2>1, LimitsAreTyped
<1>6. \A p \in Callers : Budgeted(p)'
  BY <1>1, <1>3, <1>5 DEF Ceilings, Budgeted
<1>7. Ceiled'
  BY <1>1, <1>3, <1>5 DEF Ceilings, Ceiled
<1> QED BY <1>4, <1>6, <1>7 DEF Ceilings

LEMMA StepKeepsCeilings == CeilingsKept /\ [Next]_vars => CeilingsKept'
<1> SUFFICES ASSUME CeilingsKept, [Next]_vars PROVE CeilingsKept'
  OBVIOUS
<1>1. Typed /\ Alone /\ DeedsPast /\ (~overlapped => Ceilings)
  BY DEF CeilingsKept
<1>2. Typed' /\ Alone' /\ DeedsPast'
  BY <1>1, StepKeepsTypes, StepKeepsAlone, StepKeepsPast
<1>3. ASSUME ~overlapped' PROVE Ceilings'
  <2>1. ASSUME NEW p \in Callers, PassStarts(p) \/ PassStep(p) PROVE Ceilings'
    <3>1. /\ Ceilings /\ OthersRest(p) /\ OthersRest(p)' /\ OthersStay(p)
          /\ PassStarts(p) => pass[p].step = 0
      BY <1>1, <1>3, <2>1, OthersAreIdle, PassKeepsLocals
    <3>2. CASE Acts(p)
      BY <1>1, <3>1, <3>2, ActKeepsCeilings
    <3>3. CASE Record(p)
      BY <1>1, <3>1, <3>3, RecordKeepsCeilings
    <3> QED BY <1>1, <2>1, <3>1, <3>2, <3>3, QuietKeepsCeilings
  <2>2. CASE HubCrash
    <3>1. Ceilings
      BY <1>1, <1>3, <2>2 DEF HubCrash
    <3> QED BY <1>1, <2>2, <3>1, CrashKeepsCeilings
  <2>3. CASE \/ PassSkipped \/ Dispatch \/ TimePasses \/ \E d \in Devices : InstallEnds(d)
             \/ UNCHANGED vars
    <3>1. UNCHANGED <<pass, row, events, history>> /\ now' \in {now, now + 1}
      BY <1>1, <2>3, WorldKeepsTypes
    <3>2. Ceilings
      BY <1>1, <1>3, <3>1 DEF history
    <3> QED BY <1>1, <3>1, <3>2, WorldKeepsCeilings
  <2> QED BY <2>1, <2>2, <2>3 DEF Next
<1> QED BY <1>2, <1>3 DEF CeilingsKept

LEMMA CeilingsBegin == Init => CeilingsKept
<1> SUFFICES ASSUME Init PROVE CeilingsKept
  OBVIOUS
<1>1. Typed /\ Alone /\ DeedsPast
  BY LaddersBegin DEF LaddersKept
<1>2. /\ \A p \in Callers : pass[p] = Idle
      /\ \A d \in Devices : DOMAIN ran[d] = {} /\ DOMAIN events[d] = {} /\ lost[d] = 0
  BY EmptySeq DEF Init
<1>3. Idle.at = "idle" /\ Idle.step = 0
  BY DEF Idle
<1>4. \A d \in Devices : \A T, hard, kinds :
        Cardinality(Done(d, T, hard)) = 0 /\ Spent(d, kinds, T) = 0 /\ ~Doing(d, kinds)
  BY <1>2, <1>3, FS_EmptySet DEF Done, Spent, Doing
<1>5. Ceilings
  BY <1>2, <1>3, <1>4, LimitsAreTyped DEF Ceilings, Tallied, Budgeted, Ceiled
<1> QED BY <1>1, <1>5 DEF CeilingsKept

\* The circuit breakers hold: no box has more done to it in an hour, or more reboots
\* in a day, than the ceilings, but for what died with the hub.
THEOREM CeilingsAreKept == Spec => []CeilingsHold
<1>1. CeilingsKept => CeilingsHold
  <2> SUFFICES ASSUME CeilingsKept, ~overlapped PROVE CeilingsHold
    BY DEF CeilingsHold
  <2>1. now - Hour \in Int /\ now - Day \in Int /\ Ceiled
    BY LimitsAreTyped DEF CeilingsKept, Ceilings, Typed, ClockTypes
  <2> QED BY <2>1, LimitsAreTyped DEF CeilingsHold, Ceiled
<1> QED BY <1>1, CeilingsBegin, StepKeepsCeilings, PTL DEF Spec
=============================================================================
