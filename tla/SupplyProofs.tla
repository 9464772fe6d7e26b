---------------------------- MODULE SupplyProofs ---------------------------
(***************************************************************************)
(* Theorems about the supply of builds, for any number of versions, boxes,  *)
(* contents and blocks, and however often operators upload, prune and roll   *)
(* out, feeds move their files and the hub dies.                            *)
(***************************************************************************)
EXTENDS SupplyProperties, SequenceTheorems, TLAPS

-----------------------------------------------------------------------------
(* Automatic rollouts.  What one poll has found, that no automatic rollout is *)
(* open and the cooldown over, stays so until it inserts its own, because     *)
(* nobody else inserts one and the end of one of an operator starts no        *)
(* cooldown.                                                                 *)

NoAuto == \A i \in DOMAIN rollouts : rollouts[i].mode # "AUTO"
PollFields == DOMAIN NoPoll

PollsAreTyped ==
  /\ \E S : rollouts \in Seq(S)
  /\ DOMAIN poll = Pollers /\ \A p \in Pollers : DOMAIN poll[p] = PollFields

OnePoll == \A p, q \in Pollers : poll[p].at # "idle" /\ poll[q].at # "idle" => p = q
FoundNoAuto ==
  \A p \in Pollers : poll[p].at \in {"cooldown", "choose", "await", "create", "insert"} => NoAuto
FoundItCool ==
  \A p \in Pollers : poll[p].at \in {"choose", "await", "create", "insert"} => ~cooling

AutoKept == PollsAreTyped /\ OnePoll /\ FoundNoAuto /\ FoundItCool

\* A sequence without one of its elements: one shorter, and nothing new in it.
LEMMA RemoveAtProperties ==
  ASSUME NEW S, NEW s \in Seq(S), NEW i \in DOMAIN s
  PROVE  /\ RemoveAt(s, i) \in Seq(S) /\ Len(RemoveAt(s, i)) = Len(s) - 1
         /\ \A k \in DOMAIN RemoveAt(s, i) : \E j \in DOMAIN s : RemoveAt(s, i)[k] = s[j]
<1> DEFINE before == SubSeq(s, 1, i - 1)
           after == SubSeq(s, i + 1, Len(s))
<1>1. Len(s) \in Nat /\ DOMAIN s = 1..Len(s) /\ i \in 1..Len(s) /\ \A j \in 1..Len(s) : s[j] \in S
  BY LenProperties
<1>2. /\ before \in Seq(S) /\ Len(before) = i - 1
      /\ \A k \in 1..i - 1 : before[k] = s[k]
  BY <1>1, SubSeqProperties
<1>3. /\ after \in Seq(S) /\ Len(after) = Len(s) - i
      /\ \A k \in 1..Len(s) - i : after[k] = s[i + k]
  BY <1>1, SubSeqProperties
<1> HIDE DEF before, after
<1>4. /\ before \o after \in Seq(S) /\ Len(before \o after) = Len(s) - 1
      /\ \A k \in 1..Len(s) - 1 :
           (before \o after)[k] = IF k <= i - 1 THEN before[k] ELSE after[k - (i - 1)]
  <2>1. /\ before \o after \in Seq(S) /\ Len(before \o after) = Len(before) + Len(after)
        /\ \A k \in 1..Len(before) + Len(after) :
             (before \o after)[k] = IF k <= Len(before) THEN before[k] ELSE after[k - Len(before)]
    BY <1>2, <1>3, ConcatProperties
  <2>2. Len(before) + Len(after) = Len(s) - 1
    BY <1>1, <1>2, <1>3
  <2> QED BY <1>2, <2>1, <2>2
<1>5. \A k \in 1..Len(s) - 1 : \E j \in 1..Len(s) : (before \o after)[k] = s[j]
  <2> SUFFICES ASSUME NEW k \in 1..Len(s) - 1
               PROVE  \E j \in 1..Len(s) : (before \o after)[k] = s[j]
    OBVIOUS
  <2>1. CASE k <= i - 1
    BY <1>1, <1>2, <1>4, <2>1
  <2>2. CASE k > i - 1
    <3>1. k - (i - 1) \in 1..Len(s) - i /\ i + (k - (i - 1)) = k + 1 /\ k + 1 \in 1..Len(s)
      BY <1>1, <2>2
    <3>2. after[k - (i - 1)] = s[i + (k - (i - 1))]
      BY <1>3, <3>1
    <3>3. (before \o after)[k] = after[k - (i - 1)]
      BY <1>4, <2>2
    <3> QED BY <3>1, <3>2, <3>3
  <2>3. k <= i - 1 \/ k > i - 1
    BY <1>1
  <2> QED BY <2>1, <2>2, <2>3
<1>6. DOMAIN (before \o after) = 1..Len(s) - 1
  BY <1>4, LenProperties
<1> QED BY <1>1, <1>4, <1>5, <1>6 DEF RemoveAt, before, after

LEMMA AppendIsLast ==
  ASSUME NEW S, NEW s \in Seq(S), NEW e
  PROVE  /\ Append(s, e) \in Seq(S \cup {e}) /\ Len(Append(s, e)) = Len(s) + 1
         /\ Last(Append(s, e)) = e
         /\ \A i \in DOMAIN Append(s, e) : Append(s, e)[i] = e \/ (i \in DOMAIN s /\ Append(s, e)[i] = s[i])
<1> DEFINE T == S \cup {e}
<1>1. s \in Seq(T) /\ e \in T
  BY LenProperties
<1> HIDE DEF T
<1>2. /\ Append(s, e) \in Seq(T) /\ Len(Append(s, e)) = Len(s) + 1
      /\ \A i \in 1..Len(s) : Append(s, e)[i] = s[i]
      /\ Append(s, e)[Len(s) + 1] = e
  BY <1>1, AppendProperties
<1>3. DOMAIN s = 1..Len(s) /\ DOMAIN Append(s, e) = 1..Len(s) + 1 /\ Len(s) \in Nat
  BY <1>1, <1>2, LenProperties
<1>4. \A i \in 1..Len(s) + 1 : i \in 1..Len(s) \/ i = Len(s) + 1
  BY <1>3
<1> QED BY <1>2, <1>3, <1>4 DEF Last, T

\* What a step does to the polls: only the one that is not idle goes on.
PollGoesOn(p) ==
  /\ UNCHANGED <<rollouts, cooling>>
  /\ DOMAIN poll' = Pollers /\ DOMAIN poll'[p] = PollFields
  /\ \A q \in Pollers : q # p => poll'[q] = poll[q]
  /\ \/ poll[p].at # "idle" /\ poll'[p].at \in {"idle", "build", "store"}
     \/ poll[p].at = "build" /\ poll'[p].at = "cooldown" /\ rollouts = <<>>
     \/ poll[p].at = "cooldown" /\ poll'[p].at = "choose" /\ ~cooling
     \/ poll[p].at = "choose" /\ poll'[p].at \in {"create", "await"}
     \/ poll[p].at = "await" /\ poll'[p].at = "create"
     \/ poll[p].at = "create" /\ poll'[p].at = "insert"

LEMMA PollsGoOn ==
  ASSUME AutoKept, NEW p \in Pollers,
         \/ \E v \in Versions : PollReads(p, v)
         \/ PollStores(p) \/ AutoCounts(p) \/ AutoCools(p) \/ AutoChooses(p)
         \/ AutoResumes(p) \/ AutoCreates(p)
  PROVE  PollGoesOn(p)
<1>0. /\ DOMAIN poll = Pollers /\ DOMAIN poll[p] = PollFields
      /\ "at" \in PollFields /\ DOMAIN NoPoll = PollFields /\ NoPoll.at = "idle"
  BY DEF AutoKept, PollsAreTyped, PollFields, NoPoll
<1>1. CASE \E v \in Versions : PollReads(p, v)
  BY <1>0, <1>1 DEF PollReads, Becomes, PollGoesOn
<1>2. CASE PollStores(p)
  BY <1>0, <1>2 DEF PollStores, Becomes, PollGoesOn
<1>3. CASE AutoCounts(p)
  <2>1. DOMAIN [NoPoll EXCEPT !.at = "cooldown"] = PollFields
        /\ [NoPoll EXCEPT !.at = "cooldown"].at = "cooldown"
    BY DEF PollFields, NoPoll
  <2> QED BY <1>0, <1>3, <2>1 DEF AutoCounts, Becomes, PollGoesOn
<1>4. CASE AutoCools(p)
  BY <1>0, <1>4 DEF AutoCools, Becomes, PollGoesOn
<1>5. CASE AutoChooses(p)
  BY <1>0, <1>5 DEF AutoChooses, Becomes, PollGoesOn
<1>6. CASE AutoResumes(p)
  BY <1>0, <1>6 DEF AutoResumes, Becomes, PollGoesOn
<1>7. CASE AutoCreates(p)
  BY <1>0, <1>7 DEF AutoCreates, Becomes, PollGoesOn
<1> QED BY <1>1, <1>2, <1>3, <1>4, <1>5, <1>6, <1>7

LEMMA GoingOnKeepsAuto ==
  ASSUME AutoKept, NEW p \in Pollers, PollGoesOn(p)
  PROVE  AutoKept'
<1>1. PollsAreTyped'
  BY DEF AutoKept, PollsAreTyped, PollGoesOn
<1>2. OnePoll'
  BY DEF AutoKept, OnePoll, PollGoesOn
<1>3. NoAuto' <=> NoAuto
  BY DEF PollGoesOn, NoAuto
<1>4. rollouts = <<>> => NoAuto
  BY DEF NoAuto
<1>5. FoundNoAuto'
  BY <1>3, <1>4 DEF AutoKept, FoundNoAuto, PollGoesOn
<1>6. FoundItCool'
  BY DEF AutoKept, FoundItCool, PollGoesOn
<1> QED BY <1>1, <1>2, <1>5, <1>6 DEF AutoKept

LEMMA BeginningKeepsAuto ==
  ASSUME AutoKept, NEW p \in Pollers, PollBegins(p)
  PROVE  AutoKept'
<1>1. /\ UNCHANGED <<rollouts, cooling>> /\ \A q \in Pollers : poll[q].at = "idle"
      /\ DOMAIN poll' = Pollers /\ DOMAIN poll'[p] = PollFields /\ poll'[p].at = "build"
      /\ \A q \in Pollers : q # p => poll'[q] = poll[q]
  BY DEF AutoKept, PollsAreTyped, PollBegins, InFlight, Becomes, NoPoll, PollFields
<1> QED BY <1>1 DEF AutoKept, PollsAreTyped, OnePoll, FoundNoAuto, FoundItCool, NoAuto

\* A rollout is inserted: an automatic one when none was open and the time over.
LEMMA InsertingKeepsAuto ==
  ASSUME AutoKept, HandInserts \/ \E p \in Pollers : AutoInserts(p)
  PROVE  /\ AutoKept'
         /\ Last(rollouts').mode = "AUTO" => ~cooling /\ NoAuto
<1>1. PICK S : rollouts \in Seq(S)
  BY DEF AutoKept, PollsAreTyped
<1>2. CASE HandInserts
  <2>1. PICK e : rollouts' = Append(rollouts, e) /\ e.mode = "MANUAL"
    BY <1>2 DEF HandInserts, Inserted
  <2>2. UNCHANGED <<poll, cooling>>
    BY <1>2 DEF HandInserts
  <2>3. rollouts' \in Seq(S \cup {e}) /\ Last(rollouts') = e
    BY <1>1, <2>1, AppendIsLast
  <2>4. NoAuto => NoAuto'
    BY <1>1, <2>1, AppendIsLast DEF NoAuto
  <2> QED BY <2>1, <2>2, <2>3, <2>4 DEF AutoKept, PollsAreTyped, OnePoll, FoundNoAuto, FoundItCool
<1>3. ASSUME NEW p \in Pollers, AutoInserts(p)
      PROVE  AutoKept' /\ ~cooling /\ NoAuto
  <2>1. PICK e : rollouts' = Append(rollouts, e)
    BY <1>3 DEF AutoInserts, Inserted
  <2>2. rollouts' \in Seq(S \cup {e})
    BY <1>1, <2>1, AppendIsLast
  <2>3. /\ poll[p].at = "insert" /\ UNCHANGED cooling
        /\ DOMAIN poll' = Pollers /\ DOMAIN poll'[p] = PollFields /\ poll'[p].at = "idle"
        /\ \A q \in Pollers : q # p => poll'[q] = poll[q]
    BY <1>3 DEF AutoKept, PollsAreTyped, AutoInserts, Becomes, NoPoll, PollFields
  <2>4. \A q \in Pollers : poll'[q].at = "idle"
    BY <2>3 DEF AutoKept, OnePoll
  <2>5. PollsAreTyped'
    BY <2>2, <2>3 DEF AutoKept, PollsAreTyped
  <2> QED BY <2>3, <2>4, <2>5 DEF AutoKept, OnePoll, FoundNoAuto, FoundItCool
<1> QED BY <1>2, <1>3

\* A rollout ends: where a poll has found none of the hub's, it was an operator's.
LEMMA EndingKeepsAuto ==
  ASSUME AutoKept, NEW i \in DOMAIN rollouts, RolloutEnds(i)
  PROVE  AutoKept' /\ Len(rollouts') < Len(rollouts)
<1>1. PICK S : rollouts \in Seq(S)
  BY DEF AutoKept, PollsAreTyped
<1>2. /\ rollouts' = RemoveAt(rollouts, i) /\ UNCHANGED poll
      /\ cooling' = (cooling \/ rollouts[i].mode = "AUTO")
  BY DEF RolloutEnds
<1>3. /\ rollouts' \in Seq(S) /\ Len(rollouts') = Len(rollouts) - 1 /\ Len(rollouts) \in Nat
      /\ \A k \in DOMAIN rollouts' : \E j \in DOMAIN rollouts : rollouts'[k] = rollouts[j]
  BY <1>1, <1>2, RemoveAtProperties, LenProperties
<1>4. NoAuto => NoAuto' /\ (cooling' => cooling)
  BY <1>2, <1>3 DEF NoAuto
<1>5. PollsAreTyped' /\ OnePoll'
  BY <1>2, <1>3 DEF AutoKept, PollsAreTyped, OnePoll
<1>6. FoundNoAuto' /\ FoundItCool'
  BY <1>2, <1>4 DEF AutoKept, FoundNoAuto, FoundItCool
<1> QED BY <1>3, <1>5, <1>6 DEF AutoKept

LEMMA DyingKeepsAuto ==
  ASSUME AutoKept, HubDies
  PROVE  AutoKept'
<1>1. UNCHANGED <<rollouts, cooling>> /\ poll' = [p \in Pollers |-> NoPoll]
  BY DEF HubDies
<1>2. \A p \in Pollers : poll'[p].at = "idle" /\ DOMAIN poll'[p] = PollFields
  BY <1>1 DEF NoPoll, PollFields
<1> QED BY <1>1, <1>2 DEF AutoKept, PollsAreTyped, OnePoll, FoundNoAuto, FoundItCool

LEMMA AutoStep ==
  AutoKept /\ [Next]_vars =>
    /\ AutoKept'
    /\ Len(rollouts') > Len(rollouts) /\ Last(rollouts').mode = "AUTO" => ~cooling /\ NoAuto
<1> SUFFICES ASSUME AutoKept, [Next]_vars
             PROVE  /\ AutoKept'
                    /\ Len(rollouts') > Len(rollouts) /\ Last(rollouts').mode = "AUTO"
                         => ~cooling /\ NoAuto
  OBVIOUS
<1>0. Len(rollouts) \in Nat
  BY LenProperties DEF AutoKept, PollsAreTyped
<1>1. CASE UNCHANGED <<poll, rollouts, cooling>>
  <2>1. AutoKept'
    BY <1>1 DEF AutoKept, PollsAreTyped, OnePoll, FoundNoAuto, FoundItCool, NoAuto
  <2> QED BY <1>0, <1>1, <2>1
<1>2. ASSUME NEW p \in Pollers,
             \/ \E v \in Versions : PollReads(p, v)
             \/ PollStores(p) \/ AutoCounts(p) \/ AutoCools(p) \/ AutoChooses(p)
             \/ AutoResumes(p) \/ AutoCreates(p)
      PROVE  AutoKept' /\ UNCHANGED rollouts
  BY <1>2, PollsGoOn, GoingOnKeepsAuto DEF PollGoesOn
<1>3. ASSUME NEW p \in Pollers, PollBegins(p) PROVE AutoKept' /\ UNCHANGED rollouts
  BY <1>3, BeginningKeepsAuto DEF PollBegins
<1>4. CASE HubDies
  BY <1>0, <1>4, DyingKeepsAuto DEF HubDies
<1>5. CASE CooldownEnds
  <2>1. UNCHANGED <<poll, rollouts>> /\ ~cooling'
    BY <1>5 DEF CooldownEnds
  <2>2. AutoKept'
    BY <2>1 DEF AutoKept, PollsAreTyped, OnePoll, FoundNoAuto, FoundItCool, NoAuto
  <2> QED BY <1>0, <2>1, <2>2
<1>6. CASE HandInserts \/ \E p \in Pollers : AutoInserts(p)
  BY <1>6, InsertingKeepsAuto
<1>7. ASSUME NEW i \in DOMAIN rollouts, RolloutEnds(i)
      PROVE  AutoKept' /\ ~(Len(rollouts') > Len(rollouts))
  <2>1. rollouts' \in Seq({rollouts'[k] : k \in DOMAIN rollouts'})
    BY <1>7, EndingKeepsAuto, LenProperties DEF AutoKept, PollsAreTyped
  <2> QED BY <1>0, <1>7, <2>1, EndingKeepsAuto, LenProperties
<1>8. CASE (OfCache /\ UNCHANGED autoVars) \/ (\E v \in Versions : HandCreates(v))
           \/ (\E v \in Versions \ Manual : Rehosts(v)) \/ UNCHANGED vars
  <2>1. UNCHANGED <<poll, rollouts, cooling>>
    BY <1>8 DEF HandCreates, Rehosts, vars, autoVars
  <2> QED BY <1>1, <2>1
<1>9. UNCHANGED rollouts => ~(Len(rollouts') > Len(rollouts))
  BY <1>0
<1> QED BY <1>2, <1>3, <1>4, <1>5, <1>6, <1>7, <1>8, <1>9 DEF Next, PollStep

\* Automatic rollouts neither overlap nor follow one another within the cooldown,
\* however long a poll waits for its download and whoever rolls out, polls, cools
\* down or dies meanwhile.
THEOREM AutoIsAlwaysMeasured == Spec => AutoIsMeasured
<1>1. Init => AutoKept
  <2> SUFFICES ASSUME Init PROVE AutoKept
    OBVIOUS
  <2>1. /\ rollouts = <<>> /\ rollouts \in Seq({}) /\ DOMAIN poll = Pollers
        /\ \A p \in Pollers : poll[p].at = "idle" /\ DOMAIN poll[p] = PollFields
    BY DEF Init, AutoInit, NoPoll, PollFields
  <2> QED BY <2>1 DEF AutoKept, PollsAreTyped, OnePoll, FoundNoAuto, FoundItCool
<1>2. AutoKept /\ [Next]_vars => AutoKept'
  BY AutoStep
<1>3. AutoKept /\ [Next]_vars =>
        [Len(rollouts') > Len(rollouts) /\ Last(rollouts').mode = "AUTO"
           => ~cooling /\ \A i \in DOMAIN rollouts : rollouts[i].mode # "AUTO"]_vars
  BY AutoStep DEF NoAuto
<1> QED BY <1>1, <1>2, <1>3, PTL DEF Spec, AutoIsMeasured


-----------------------------------------------------------------------------
(* The files.  Where a row tells of a file that the download of its version is *)
(* about to replace, an upload of that label has ended beside it; and of a     *)
(* build that is published with its md5, rows, downloads, polls and prunings   *)
(* only ever carry the md5 of something a URL has served.                      *)

Moving == {"fetch", "receive", "publish"}

FilesAreTyped ==
  /\ DOMAIN version = Versions /\ \A v \in Versions : DOMAIN version[v] = DOMAIN Unlisted
  /\ DOMAIN part = Versions /\ DOMAIN final = Versions /\ DOMAIN served = Versions
  /\ DOMAIN dl = DOMAIN NoDownload /\ DOMAIN upload = DOMAIN NoUpload
  /\ DOMAIN prune = DOMAIN NoPrune
  /\ DOMAIN poll = Pollers /\ \A p \in Pollers : DOMAIN poll[p] = PollFields

FilesAreTold ==
  \A v \in Versions : version[v].status = "READY" /\ final[v] # NoFile /\ v \notin torn
    => version[v].sha = final[v]

DownloadIsAlone ==
  dl.at \in Moving /\ dl.v \in Versions =>
    /\ version[dl.v].status = "READY" => dl.v \in torn
    /\ dl.at = "receive" => dl.hashed = part[dl.v]
    /\ dl.at = "publish" => dl.v \in torn \/ final[dl.v] \in {NoFile, dl.hashed}

UploadIsMarked == upload.at # "idle" => upload.v \in torn /\ upload.v \in Manual

\* The md5 of a row is of something that was served.
IsTold(v) == version[v].sum \in Contents
RowsAreTold == \A v \in Hashed : version[v].status # "ABSENT" => IsTold(v)
FinalsAreServed == \A v \in Hashed : final[v] \in Contents \cup {NoFile}
DownloadIsTold == dl.at # "idle" /\ dl.v \in Hashed => dl.row.sum \in Contents /\ IsTold(dl.v)
PruneIsTold ==
  /\ \A v \in Hashed : v \in prune.todo => IsTold(v)
  /\ prune.at \in {"remove", "forget"} /\ prune.v \in Hashed => IsTold(prune.v)
ServedIsContent == \A v \in Versions : served[v].file \in Contents
PollIsTold ==
  \A p \in Pollers : \A v \in Hashed :
    v \in poll[p].todo \/ (poll[p].at = "store" /\ poll[p].v = v) => poll[p].found[v].sum \in Contents

SumsAreTold == RowsAreTold /\ FinalsAreServed /\ DownloadIsTold /\ PruneIsTold
FilesKept ==
  /\ FilesAreTyped /\ FilesAreTold /\ DownloadIsAlone /\ UploadIsMarked
  /\ SumsAreTold /\ ServedIsContent /\ PollIsTold

LEMMA HashedIsNotManual ==
  /\ \A v \in Hashed : v \in Versions /\ v \notin Manual
  /\ Manual \subseteq Versions /\ NoFile \notin Contents
BY ArtifactAssumption, AutoAssumption DEF NoFile

\* A step that leaves a told row told, and of a row at most takes READY away, keeps
\* what is said of rows and files, as long as it leaves files, uploads and torn alone.
RowsFade ==
  /\ UNCHANGED <<part, final, upload, served, torn>>
  /\ DOMAIN version' = Versions
  /\ \A v \in Versions :
       /\ DOMAIN version'[v] = DOMAIN Unlisted
       /\ version'[v].status = "READY" => version[v].status = "READY" /\ version'[v].sha = version[v].sha
       /\ v \in Hashed /\ IsTold(v) => version'[v].sum \in Contents
       /\ v \in Hashed /\ version'[v].status # "ABSENT" => version'[v].sum \in Contents

LEMMA FadingKeepsTold ==
  ASSUME FilesKept, RowsFade
  PROVE  /\ FilesAreTold' /\ UploadIsMarked' /\ RowsAreTold' /\ FinalsAreServed' /\ ServedIsContent'
         /\ \A v \in Hashed : IsTold(v) => IsTold(v)'
         /\ (UNCHANGED dl \/ dl' = NoDownload) => DownloadIsAlone' /\ DownloadIsTold'
         /\ (UNCHANGED prune \/ prune' = NoPrune) => PruneIsTold'
<1>1. FilesAreTold' /\ UploadIsMarked' /\ FinalsAreServed' /\ ServedIsContent'
  BY DEF FilesKept, SumsAreTold, RowsFade, FilesAreTold, UploadIsMarked, FinalsAreServed, ServedIsContent
<1>2. /\ RowsAreTold'
      /\ \A v \in Hashed : IsTold(v) => IsTold(v)'
  BY HashedIsNotManual DEF RowsFade, RowsAreTold, IsTold
<1>3. UNCHANGED dl => DownloadIsAlone' /\ DownloadIsTold'
  BY <1>2 DEF FilesKept, SumsAreTold, RowsFade, DownloadIsAlone, DownloadIsTold, IsTold
<1>4. dl' = NoDownload => DownloadIsAlone' /\ DownloadIsTold'
  BY DEF NoDownload, DownloadIsAlone, DownloadIsTold, Moving
<1>5. prune' = prune => PruneIsTold'
  BY <1>2 DEF FilesKept, SumsAreTold, PruneIsTold, IsTold
<1>6. prune' = NoPrune => PruneIsTold'
  BY DEF PruneIsTold, NoPrune
<1> QED BY <1>1, <1>2, <1>3, <1>4, <1>5, <1>6


\* What marks, fails, forgets, approves or deletes a build.
LEMMA RowsKeepFiles ==
  ASSUME FilesKept, UNCHANGED autoVars,
         \/ CacheMarks \/ CacheFails \/ PruneForgets
         \/ \E v \in Versions : Approves(v) \/ DeletesManual(v, HasRollouts(v))
  PROVE  FilesKept'
<1>0. /\ FilesAreTyped /\ PollIsTold' /\ UNCHANGED poll
      /\ "status" \in DOMAIN Unlisted /\ "cached" \in DOMAIN Unlisted /\ "approved" \in DOMAIN Unlisted
  BY DEF FilesKept, PollIsTold, autoVars, Unlisted
<1>1. CASE CacheMarks
  <2>1. /\ version' = [version EXCEPT ![dl.v].status = "CACHING"] /\ dl.at = "mark"
        /\ dl' = [dl EXCEPT !.at = "fetch"] /\ UNCHANGED <<part, final, upload, prune, served, torn>>
    BY <1>1 DEF CacheMarks
  <2>2. RowsFade
    BY <1>0, <2>1 DEF RowsFade, FilesAreTyped, FilesKept, SumsAreTold, RowsAreTold, DownloadIsTold, IsTold
  <2>3. DOMAIN dl' = DOMAIN NoDownload /\ dl'.at = "fetch" /\ dl'.v = dl.v /\ dl'.row = dl.row
    BY <1>0, <2>1 DEF FilesAreTyped, NoDownload
  <2>4. DownloadIsAlone'
    BY <1>0, <2>1, <2>3 DEF DownloadIsAlone, FilesAreTyped
  <2>5. DownloadIsTold'
    BY <2>1, <2>2, <2>3, FadingKeepsTold DEF DownloadIsTold, FilesKept, SumsAreTold
  <2>6. FilesAreTyped'
    BY <1>0, <2>1, <2>2, <2>3 DEF FilesAreTyped, RowsFade
  <2> QED BY <1>0, <2>1, <2>2, <2>4, <2>5, <2>6, FadingKeepsTold DEF FilesKept, SumsAreTold
<1>2. CASE CacheFails
  <2>1. /\ version' = [version EXCEPT ![dl.v].status = "FAILED"] /\ dl.at # "idle"
        /\ dl' = NoDownload /\ UNCHANGED <<part, final, upload, prune, served, torn>>
    BY <1>2 DEF CacheFails, Settled
  <2>2. RowsFade
    BY <1>0, <2>1 DEF RowsFade, FilesAreTyped, FilesKept, SumsAreTold, RowsAreTold, DownloadIsTold, IsTold
  <2>3. FilesAreTyped'
    BY <1>0, <2>1, <2>2 DEF FilesAreTyped, RowsFade
  <2> QED BY <1>0, <2>1, <2>2, <2>3, FadingKeepsTold DEF FilesKept, SumsAreTold
<1>3. CASE PruneForgets
  <2>1. /\ version' = [version EXCEPT ![prune.v].status = "DISCOVERED", ![prune.v].cached = FALSE]
        /\ prune.at = "forget" /\ prune' = [prune EXCEPT !.at = "count"]
        /\ UNCHANGED <<part, final, dl, upload, served, torn>>
    BY <1>3 DEF PruneForgets
  <2>2. RowsFade
    BY <1>0, <2>1 DEF RowsFade, FilesAreTyped, FilesKept, SumsAreTold, RowsAreTold, PruneIsTold, IsTold
  <2>3. DOMAIN prune' = DOMAIN NoPrune /\ prune'.at = "count" /\ prune'.todo = prune.todo
    BY <1>0, <2>1 DEF FilesAreTyped, NoPrune
  <2>4. PruneIsTold'
    <3>1. \A v \in Hashed : IsTold(v) => IsTold(v)'
      BY <2>2, FadingKeepsTold
    <3> QED BY <2>3, <3>1 DEF PruneIsTold, FilesKept, SumsAreTold, IsTold
  <2>5. FilesAreTyped'
    BY <1>0, <2>1, <2>2, <2>3 DEF FilesAreTyped, RowsFade
  <2> QED BY <1>0, <2>1, <2>2, <2>4, <2>5, FadingKeepsTold DEF FilesKept, SumsAreTold
<1>4. ASSUME NEW w \in Versions, Approves(w) \/ DeletesManual(w, HasRollouts(w)) PROVE FilesKept'
  <2>1. /\ \/ version' = [version EXCEPT ![w].approved = TRUE]
           \/ version' = [version EXCEPT ![w] = Unlisted] /\ w \notin Hashed
        /\ UNCHANGED <<part, final, dl, upload, prune, served, torn>>
    BY <1>4, HashedIsNotManual DEF Approves, DeletesManual
  <2>2. RowsFade
    <3>1. Unlisted.status = "ABSENT"
      BY DEF Unlisted
    <3>2. \A v \in Hashed : version[v].status # "ABSENT" => version[v].sum \in Contents
      BY DEF FilesKept, SumsAreTold, RowsAreTold, IsTold
    <3>3. CASE version' = [version EXCEPT ![w].approved = TRUE]
      BY <1>0, <2>1, <3>2, <3>3 DEF RowsFade, FilesAreTyped, IsTold
    <3>4. CASE version' = [version EXCEPT ![w] = Unlisted] /\ w \notin Hashed
      BY <1>0, <2>1, <3>1, <3>2, <3>4 DEF RowsFade, FilesAreTyped, IsTold
    <3> QED BY <2>1, <3>3, <3>4
  <2>3. FilesAreTyped'
    BY <1>0, <2>1, <2>2 DEF FilesAreTyped, RowsFade
  <2> QED BY <1>0, <2>1, <2>2, <2>3, FadingKeepsTold DEF FilesKept, SumsAreTold
<1> QED BY <1>1, <1>2, <1>3, <1>4

\* The download, from the head of the chain to the last block.
LEMMA DownloadsKeepFiles ==
  ASSUME FilesKept, UNCHANGED autoVars, CacheBegins \/ FetchAnswers \/ Receives
  PROVE  FilesKept'
<1>0. /\ FilesAreTyped /\ UNCHANGED <<poll, version, final, upload, prune, served, torn>>
      /\ DOMAIN NoDownload = {"at", "v", "row", "body", "hashed"}
  BY DEF FilesKept, autoVars, CacheBegins, FetchAnswers, Receives, NoDownload
<1>1. /\ FilesAreTold' /\ UploadIsMarked' /\ RowsAreTold' /\ FinalsAreServed' /\ PruneIsTold'
      /\ ServedIsContent' /\ PollIsTold'
  BY <1>0 DEF FilesKept, SumsAreTold, FilesAreTold, UploadIsMarked, RowsAreTold, FinalsAreServed,
     PruneIsTold, ServedIsContent, PollIsTold, IsTold
<1>2. CASE CacheBegins
  <2>1. \/ dl' = NoDownload
        \/ \E v : /\ dl' = [NoDownload EXCEPT !.at = "mark", !.v = v, !.row = version[v]]
                  /\ version[v].status # "ABSENT"
    BY <1>2 DEF CacheBegins, Settled
  <2>2. /\ DOMAIN dl' = DOMAIN NoDownload /\ dl'.at \in {"idle", "mark"}
        /\ dl'.at = "mark" => dl'.row = version[dl'.v] /\ dl'.row.status # "ABSENT"
    <3>1. CASE dl' = NoDownload
      BY <3>1 DEF NoDownload
    <3>2. ASSUME NEW v, dl' = [NoDownload EXCEPT !.at = "mark", !.v = v, !.row = version[v]],
                 version[v].status # "ABSENT"
          PROVE  /\ DOMAIN dl' = DOMAIN NoDownload /\ dl'.at = "mark"
                 /\ dl'.row = version[dl'.v] /\ dl'.row.status # "ABSENT"
      BY <1>0, <3>2
    <3> QED BY <2>1, <3>1, <3>2
  <2>3. DownloadIsTold' /\ DownloadIsAlone'
    BY <1>0, <2>2 DEF FilesKept, SumsAreTold, RowsAreTold, DownloadIsTold, DownloadIsAlone, Moving, IsTold
  <2>4. UNCHANGED part
    BY <1>2 DEF CacheBegins
  <2> QED BY <1>0, <1>1, <2>2, <2>3, <2>4 DEF FilesKept, FilesAreTyped, SumsAreTold
<1>3. CASE FetchAnswers \/ Receives
  <2>1. /\ DOMAIN part' = Versions /\ DOMAIN dl' = DOMAIN NoDownload
        /\ dl.at \in {"fetch", "receive"} /\ dl'.at = "receive" /\ dl'.v = dl.v /\ dl'.row = dl.row
        /\ dl.v \in Versions => dl'.hashed = part'[dl.v]
    <3>1. CASE FetchAnswers
      <4>1. PICK h, body :
              /\ part' = [part EXCEPT ![dl.v] = h]
              /\ dl' = [dl EXCEPT !.at = "receive", !.hashed = h, !.body = body]
        <5>1. PICK status \in {200} \cup (IF Len(part[dl.v]) \in 1..Size - 1 THEN {206} ELSE {}) :
                /\ part' = [part EXCEPT ![dl.v] = IF Resumes(status, Len(part[dl.v])) THEN @ ELSE NoFile]
                /\ dl' = [dl EXCEPT !.at = "receive",
                            !.hashed = Replayed(Resumes(status, Len(part[dl.v]))),
                            !.body = IF status = 206
                                     THEN SubSeq(served[dl.v].file, Len(part[dl.v]) + 1, Size)
                                     ELSE served[dl.v].file]
          BY <3>1, Zenon DEF FetchAnswers
        <5> DEFINE have == Replayed(Resumes(status, Len(part[dl.v])))
                   rest == IF status = 206
                           THEN SubSeq(served[dl.v].file, Len(part[dl.v]) + 1, Size)
                           ELSE served[dl.v].file
        <5>2. part' = [part EXCEPT ![dl.v] = have]
          BY <5>1 DEF Replayed
        <5>3. dl' = [dl EXCEPT !.at = "receive", !.hashed = have, !.body = rest]
          BY <5>1
        <5> HIDE DEF have, rest
        <5> QED BY <5>2, <5>3
      <4>2. dl.at = "fetch"
        BY <3>1 DEF FetchAnswers
      <4>3. /\ DOMAIN dl' = DOMAIN dl /\ dl'.at = "receive" /\ dl'.hashed = h
            /\ dl'.v = dl.v /\ dl'.row = dl.row
        BY <1>0, <4>1 DEF FilesAreTyped
      <4>4. DOMAIN part' = Versions /\ (dl.v \in Versions => part'[dl.v] = h)
        BY <1>0, <4>1 DEF FilesAreTyped
      <4> QED BY <1>0, <4>2, <4>3, <4>4 DEF FilesAreTyped
    <3>2. CASE Receives
      BY <1>0, <3>2 DEF FilesAreTyped, Receives, FilesKept, DownloadIsAlone, Moving
    <3> QED BY <1>3, <3>1, <3>2
  <2>2. DownloadIsTold' /\ DownloadIsAlone'
    BY <1>0, <2>1 DEF FilesKept, SumsAreTold, DownloadIsTold, DownloadIsAlone, Moving, IsTold
  <2> QED BY <1>0, <1>1, <2>1, <2>2 DEF FilesKept, FilesAreTyped, SumsAreTold
<1> QED BY <1>2, <1>3


\* The last block has come: the file is named, and the row is told of it.
LEMMA RenamesKeepFiles ==
  ASSUME FilesKept, UNCHANGED autoVars, CacheRenames
  PROVE  FilesKept'
<1>1. /\ UNCHANGED <<poll, version, upload, prune, served, torn>> /\ dl.at = "receive"
      /\ final' = [final EXCEPT ![dl.v] = part[dl.v]] /\ part' = [part EXCEPT ![dl.v] = NoFile]
      /\ dl' = [dl EXCEPT !.at = "publish"]
      /\ dl.row.sum # NoFile => dl.row.sum = dl.hashed
  BY DEF autoVars, CacheRenames, Verifies
<1>2. /\ FilesAreTyped /\ dl.v \in Versions => dl.hashed = part[dl.v]
      /\ dl.v \in Versions /\ version[dl.v].status = "READY" => dl.v \in torn
  BY <1>1 DEF FilesKept, DownloadIsAlone, Moving
<1>3. /\ DOMAIN dl' = DOMAIN NoDownload /\ dl'.at = "publish" /\ dl'.v = dl.v
      /\ dl'.row = dl.row /\ dl'.hashed = dl.hashed
      /\ DOMAIN final' = Versions /\ DOMAIN part' = Versions
      /\ dl.v \in Versions => final'[dl.v] = dl.hashed
      /\ \A v \in Versions : v # dl.v => final'[v] = final[v]
  BY <1>1, <1>2 DEF FilesKept, FilesAreTyped, NoDownload
<1>4. /\ UploadIsMarked' /\ RowsAreTold' /\ PruneIsTold' /\ ServedIsContent' /\ PollIsTold'
  BY <1>1 DEF FilesKept, SumsAreTold, UploadIsMarked, RowsAreTold, PruneIsTold, ServedIsContent,
     PollIsTold, IsTold
<1>5. FilesAreTold' /\ DownloadIsAlone'
  BY <1>1, <1>2, <1>3 DEF FilesKept, FilesAreTold, DownloadIsAlone, Moving
<1>6. DownloadIsTold'
  BY <1>1, <1>3 DEF FilesKept, SumsAreTold, DownloadIsTold, IsTold
<1>7. FinalsAreServed'
  <2>1. dl.v \in Hashed => dl.hashed \in Contents
    BY <1>1, HashedIsNotManual DEF FilesKept, SumsAreTold, DownloadIsTold
  <2> QED BY <1>3, <2>1, HashedIsNotManual DEF FilesKept, SumsAreTold, FinalsAreServed
<1>8. FilesAreTyped'
  BY <1>1, <1>3 DEF FilesKept, FilesAreTyped
<1> QED BY <1>4, <1>5, <1>6, <1>7, <1>8 DEF FilesKept, SumsAreTold

LEMMA PublishingKeepsFiles ==
  ASSUME FilesKept, UNCHANGED autoVars, CachePublishes
  PROVE  FilesKept'
<1> DEFINE told == [version[dl.v] EXCEPT !.status = "READY", !.cached = TRUE, !.sha = dl.hashed,
                      !.sum = IF dl.row.sum = NoFile THEN dl.hashed ELSE dl.row.sum]
<1>1. /\ UNCHANGED <<poll, part, final, upload, prune, served, torn>> /\ dl.at = "publish"
      /\ version' = [version EXCEPT ![dl.v] = told] /\ dl' = NoDownload
  BY DEF autoVars, CachePublishes, Settled
<1>2. /\ FilesAreTyped
      /\ dl.v \in Versions => dl.v \in torn \/ final[dl.v] \in {NoFile, dl.hashed}
      /\ dl.v \in Hashed => dl.row.sum \in Contents
  BY <1>1 DEF FilesKept, DownloadIsAlone, Moving, SumsAreTold, DownloadIsTold
<1>3. dl.v \in Versions =>
        /\ DOMAIN told = DOMAIN Unlisted /\ told.sha = dl.hashed
        /\ told.sum = IF dl.row.sum = NoFile THEN dl.hashed ELSE dl.row.sum
  BY <1>2 DEF FilesAreTyped, Unlisted
<1> HIDE DEF told
<1>4. /\ DOMAIN version' = Versions /\ (dl.v \in Versions => version'[dl.v] = told)
      /\ \A v \in Versions : v # dl.v => version'[v] = version[v]
  BY <1>1, <1>2 DEF FilesAreTyped
<1>5. \A v \in Hashed : version'[v].sum \in Contents \/ version'[v] = version[v]
  BY <1>2, <1>3, <1>4, HashedIsNotManual
<1>6. \A v \in Hashed : IsTold(v) => IsTold(v)'
  BY <1>5 DEF IsTold
<1>7. FilesAreTold'
  BY <1>1, <1>2, <1>3, <1>4 DEF FilesKept, FilesAreTold
<1>8. RowsAreTold' /\ PruneIsTold'
  BY <1>1, <1>5, <1>6 DEF FilesKept, SumsAreTold, RowsAreTold, PruneIsTold, IsTold
<1>9. FinalsAreServed' /\ UploadIsMarked' /\ ServedIsContent' /\ PollIsTold'
  BY <1>1 DEF FilesKept, SumsAreTold, FinalsAreServed, UploadIsMarked, ServedIsContent, PollIsTold
<1>10. DownloadIsAlone' /\ DownloadIsTold'
  BY <1>1 DEF NoDownload, DownloadIsAlone, DownloadIsTold, Moving
<1>11. FilesAreTyped'
  BY <1>1, <1>2, <1>3, <1>4 DEF FilesAreTyped
<1> QED BY <1>7, <1>8, <1>9, <1>10, <1>11 DEF FilesKept, SumsAreTold

\* An upload names its file before it tells the row, beside whatever goes on.
LEMMA UploadsKeepFiles ==
  ASSUME FilesKept, UNCHANGED autoVars,
         \/ \E v \in Manual, u \in Uploads : UploadRenames(v, u.url, u.file)
         \/ UploadHashes \/ UploadRecords \/ UploadFails
  PROVE  FilesKept'
<1>0. /\ FilesAreTyped /\ UNCHANGED <<poll, part, dl, prune, served>>
      /\ DOMAIN NoUpload = {"at", "v", "url", "sha"}
      /\ PollIsTold' /\ ServedIsContent'
  BY DEF FilesKept, autoVars, UploadRenames, UploadHashes, UploadRecords, UploadFails, NoUpload,
     PollIsTold, ServedIsContent
<1>1. CASE \E v \in Manual, u \in Uploads : UploadRenames(v, u.url, u.file)
  <2>1. PICK v, c, url : /\ v \in Manual /\ final' = [final EXCEPT ![v] = c]
                         /\ upload' = [NoUpload EXCEPT !.at = "hash", !.v = v, !.url = url]
                         /\ torn' = torn \cup {v} /\ UNCHANGED version
    BY <1>1 DEF UploadRenames
  <2>2. /\ DOMAIN upload' = DOMAIN NoUpload /\ upload'.v = v
        /\ DOMAIN final' = Versions /\ \A w \in Versions : w # v => final'[w] = final[w]
    BY <1>0, <2>1 DEF FilesAreTyped
  <2>3. FilesAreTold' /\ DownloadIsAlone' /\ UploadIsMarked'
    BY <1>0, <2>1, <2>2 DEF FilesKept, FilesAreTold, DownloadIsAlone, UploadIsMarked
  <2>4. FinalsAreServed'
    <3>1. \A w \in Hashed : w \in Versions /\ w # v
      BY <2>1, HashedIsNotManual
    <3> QED BY <2>2, <3>1 DEF FilesKept, SumsAreTold, FinalsAreServed
  <2>5. RowsAreTold' /\ DownloadIsTold' /\ PruneIsTold'
    BY <1>0, <2>1 DEF FilesKept, SumsAreTold, RowsAreTold, DownloadIsTold, PruneIsTold, IsTold
  <2>6. FilesAreTyped'
    BY <1>0, <2>1, <2>2 DEF FilesAreTyped
  <2> QED BY <1>0, <2>3, <2>4, <2>5, <2>6 DEF FilesKept, SumsAreTold
<1>2. CASE UploadHashes
  <2>1. /\ UNCHANGED <<version, final, torn>> /\ upload.at = "hash"
        /\ DOMAIN upload' = DOMAIN NoUpload /\ upload'.v = upload.v
    BY <1>0, <1>2 DEF UploadHashes, FilesAreTyped
  <2> QED BY <1>0, <2>1 DEF FilesKept, FilesAreTyped, FilesAreTold, DownloadIsAlone, UploadIsMarked,
         SumsAreTold, RowsAreTold, FinalsAreServed, DownloadIsTold, PruneIsTold, IsTold
<1>3. CASE UploadRecords
  <2>1. /\ upload.at = "record" /\ upload' = NoUpload /\ UNCHANGED final
        /\ version' = [version EXCEPT ![upload.v] =
             [@ EXCEPT !.status = "READY", !.url = upload.url, !.sha = upload.sha,
                       !.cached = TRUE, !.approved = TRUE]]
        /\ torn' = IF final[upload.v] = upload.sha /\ dl.v # upload.v
                   THEN torn \ {upload.v} ELSE torn
    BY <1>3 DEF UploadRecords
  <2>2. upload.v \in torn /\ upload.v \in Manual /\ upload.v \in Versions /\ upload.v \notin Hashed
    BY <2>1, HashedIsNotManual DEF FilesKept, UploadIsMarked
  <2>3. /\ DOMAIN version' = Versions /\ DOMAIN version'[upload.v] = DOMAIN Unlisted
        /\ version'[upload.v].sha = upload.sha
        /\ \A v \in Versions : v # upload.v => version'[v] = version[v]
    BY <1>0, <2>1, <2>2 DEF FilesAreTyped, Unlisted
  <2>4. \A v \in Versions : v # upload.v => (v \in torn' <=> v \in torn)
    BY <2>1
  <2>5. FilesAreTold'
    BY <2>1, <2>2, <2>3, <2>4 DEF FilesKept, FilesAreTold
  <2>6. DownloadIsAlone'
    BY <1>0, <2>1, <2>2, <2>3, <2>4 DEF FilesKept, DownloadIsAlone
  <2>7. RowsAreTold' /\ DownloadIsTold' /\ PruneIsTold' /\ FinalsAreServed'
    BY <1>0, <2>1, <2>2, <2>3, HashedIsNotManual
    DEF FilesKept, SumsAreTold, RowsAreTold, DownloadIsTold, PruneIsTold, FinalsAreServed, IsTold
  <2>8. UploadIsMarked' /\ FilesAreTyped'
    BY <1>0, <2>1, <2>3 DEF UploadIsMarked, FilesAreTyped, NoUpload
  <2> QED BY <1>0, <2>5, <2>6, <2>7, <2>8 DEF FilesKept, SumsAreTold
<1>4. CASE UploadFails
  <2>1. /\ upload.at # "idle" /\ upload' = NoUpload /\ UNCHANGED <<version, torn>>
        /\ final' = [final EXCEPT ![upload.v] = NoFile]
    BY <1>4 DEF UploadFails
  <2>2. DOMAIN final' = Versions /\ \A v \in Versions : final'[v] \in {NoFile, final[v]}
    BY <1>0, <2>1 DEF FilesAreTyped
  <2>3. FilesAreTold' /\ DownloadIsAlone' /\ UploadIsMarked'
    BY <1>0, <2>1, <2>2 DEF FilesKept, FilesAreTold, DownloadIsAlone, UploadIsMarked, NoUpload
  <2>4. RowsAreTold' /\ DownloadIsTold' /\ PruneIsTold' /\ FinalsAreServed'
    BY <1>0, <2>1, <2>2, HashedIsNotManual
    DEF FilesKept, SumsAreTold, RowsAreTold, DownloadIsTold, PruneIsTold, FinalsAreServed, IsTold
  <2>5. FilesAreTyped'
    BY <1>0, <2>1, <2>2 DEF FilesAreTyped
  <2> QED BY <1>0, <2>3, <2>4, <2>5 DEF FilesKept, SumsAreTold
<1> QED BY <1>1, <1>2, <1>3, <1>4


\* A pruning lists what is READY, and removes one file after another.
LEMMA PruningKeepsFiles ==
  ASSUME FilesKept, UNCHANGED autoVars,
         \/ PruneLists \/ PruneEnds \/ PruneRemoves
         \/ \E v \in Versions : PruneCounts(v, InUse(v))
  PROVE  FilesKept'
<1>0. /\ FilesAreTyped /\ UNCHANGED <<poll, version, part, dl, upload, served, torn>>
      /\ DOMAIN NoPrune = {"at", "v", "todo"} /\ NoPrune.at = "idle" /\ NoPrune.todo = {}
      /\ PollIsTold' /\ ServedIsContent'
  BY DEF FilesKept, autoVars, PruneLists, PruneEnds, PruneRemoves, PruneCounts, NoPrune,
     PollIsTold, ServedIsContent
<1>1. DOMAIN prune' = DOMAIN NoPrune /\ PruneIsTold'
  <2>1. CASE PruneLists
    <3>1. /\ DOMAIN prune' = DOMAIN NoPrune /\ prune'.at = "count"
          /\ \A v \in prune'.todo : version[v].status = "READY"
      BY <1>0, <2>1 DEF PruneLists
    <3>2. \A v \in prune'.todo : v \in Hashed => IsTold(v)
      BY <3>1 DEF FilesKept, SumsAreTold, RowsAreTold
    <3> QED BY <1>0, <3>1, <3>2 DEF PruneIsTold, IsTold
  <2>2. CASE PruneEnds
    BY <1>0, <2>2 DEF PruneEnds, PruneIsTold
  <2>3. CASE PruneRemoves
    BY <1>0, <2>3 DEF PruneRemoves, FilesKept, FilesAreTyped, SumsAreTold, PruneIsTold, IsTold
  <2>4. ASSUME NEW v \in Versions, PruneCounts(v, InUse(v)) PROVE DOMAIN prune' = DOMAIN NoPrune /\ PruneIsTold'
    <3>1. /\ DOMAIN prune' = DOMAIN NoPrune /\ prune'.v = v /\ v \in prune.todo
          /\ prune'.todo = prune.todo \ {v}
      BY <1>0, <2>4 DEF PruneCounts
    <3> QED BY <1>0, <3>1 DEF FilesKept, SumsAreTold, PruneIsTold, IsTold
  <2> QED BY <2>1, <2>2, <2>3, <2>4
<1>2. DOMAIN final' = Versions /\ \A v \in Versions : final'[v] \in {NoFile, final[v]}
  BY <1>0 DEF FilesAreTyped, PruneLists, PruneEnds, PruneRemoves, PruneCounts
<1>3. FilesAreTold' /\ DownloadIsAlone' /\ UploadIsMarked'
  BY <1>0, <1>2 DEF FilesKept, FilesAreTold, DownloadIsAlone, UploadIsMarked
<1>4. RowsAreTold' /\ DownloadIsTold' /\ FinalsAreServed'
  BY <1>0, <1>2, HashedIsNotManual
  DEF FilesKept, SumsAreTold, RowsAreTold, DownloadIsTold, FinalsAreServed, IsTold
<1>5. FilesAreTyped'
  BY <1>0, <1>1, <1>2 DEF FilesAreTyped
<1> QED BY <1>0, <1>1, <1>3, <1>4, <1>5 DEF FilesKept, SumsAreTold

\* Rows and files are left alone: it is a matter of what the polls carry.
LEMMA PollsCarry ==
  ASSUME FilesKept, UNCHANGED <<version, part, final, dl, upload, prune, served, torn>>,
         DOMAIN poll' = Pollers, \A p \in Pollers : DOMAIN poll'[p] = PollFields, PollIsTold'
  PROVE  FilesKept'
BY DEF FilesKept, FilesAreTyped, FilesAreTold, DownloadIsAlone, UploadIsMarked, SumsAreTold, RowsAreTold,
   FinalsAreServed, DownloadIsTold, PruneIsTold, ServedIsContent, IsTold

\* A poll goes on with the md5 of builds that are served.
PollCarries(p, next) ==
  /\ poll' = [poll EXCEPT ![p] = next] /\ DOMAIN next = PollFields
  /\ \A v \in Hashed : v \in next.todo \/ (next.at = "store" /\ next.v = v)
       => next.found[v].sum \in Contents

LEMMA PollsKeepFiles ==
  ASSUME FilesKept, NEW p \in Pollers,
         \/ PollBegins(p) \/ (\E v \in Versions : PollReads(p, v))
         \/ AutoCounts(p) \/ AutoCools(p) \/ AutoChooses(p) \/ AutoResumes(p) \/ AutoCreates(p)
         \/ AutoInserts(p)
  PROVE  FilesKept'
<1>0. /\ FilesAreTyped /\ DOMAIN poll = Pollers /\ DOMAIN poll[p] = PollFields
      /\ PollFields = {"at", "found", "todo", "seen", "v"} /\ DOMAIN NoPoll = PollFields
      /\ NoPoll.at = "idle" /\ NoPoll.todo = {}
  BY DEF FilesKept, FilesAreTyped, PollFields, NoPoll
<1>1. UNCHANGED <<version, part, final, dl, upload, prune, served, torn>>
  BY DEF PollBegins, PollReads, AutoCounts, AutoCools, AutoChooses, AutoResumes, AutoCreates, AutoInserts,
     artifactVars
<1>2. \E next : PollCarries(p, next)
  <2>1. CASE PollBegins(p)
    <3>1. PICK listed \in {{}, Versions \ Manual} :
            poll' = [poll EXCEPT ![p] = [NoPoll EXCEPT !.at = "build", !.todo = listed,
                                           !.found = [v \in listed |-> Entry(v)]]]
      BY <2>1 DEF PollBegins, Becomes
    <3> DEFINE next == [NoPoll EXCEPT !.at = "build", !.todo = listed, !.found = [v \in listed |-> Entry(v)]]
    <3>2. /\ DOMAIN next = PollFields /\ next.at = "build" /\ next.todo = listed
          /\ next.found = [v \in listed |-> Entry(v)]
      BY <1>0
    <3>3. \A v \in Hashed : Entry(v).sum \in Contents
      BY HashedIsNotManual DEF Entry, FilesKept, ServedIsContent
    <3> QED BY <3>1, <3>2, <3>3, ZenonT(40) DEF PollCarries
  <2>2. ASSUME NEW w \in Versions, PollReads(p, w) PROVE \E next : PollCarries(p, next)
    <3> DEFINE next == [poll[p] EXCEPT !.at = "store", !.v = w, !.seen = version[w], !.todo = @ \ {w}]
    <3>1. poll' = [poll EXCEPT ![p] = next] /\ w \in poll[p].todo
      BY <2>2 DEF PollReads, Becomes
    <3>2. /\ DOMAIN next = PollFields /\ next.v = w /\ next.todo = poll[p].todo \ {w}
          /\ next.found = poll[p].found
      BY <1>0
    <3>3. \A v \in Hashed : v \in poll[p].todo => poll[p].found[v].sum \in Contents
      BY DEF FilesKept, PollIsTold
    <3> HIDE DEF next
    <3> QED BY <3>1, <3>2, <3>3 DEF PollCarries
  <2>3. CASE AutoCounts(p) \/ AutoCools(p) \/ AutoChooses(p) \/ AutoResumes(p) \/ AutoCreates(p)
             \/ AutoInserts(p)
    <3>1. PICK next : /\ poll' = [poll EXCEPT ![p] = next]
                      /\ \/ next = NoPoll
                         \/ next = [NoPoll EXCEPT !.at = "cooldown"]
                         \/ next = [poll[p] EXCEPT !.at = "choose"]
                         \/ \E v : next = [poll[p] EXCEPT !.v = v, !.at = "create"]
                         \/ \E v : next = [poll[p] EXCEPT !.v = v, !.at = "await"]
                         \/ next = [poll[p] EXCEPT !.at = "create"]
                         \/ next = [poll[p] EXCEPT !.at = "insert"]
      BY <2>3 DEF AutoCounts, AutoCools, AutoChooses, AutoResumes, AutoCreates, AutoInserts, Becomes
    <3>2. /\ DOMAIN next = PollFields /\ next.at # "store"
          /\ next.todo \subseteq poll[p].todo /\ (next.todo # {} => next.found = poll[p].found)
      BY <1>0, <3>1
    <3>3. \A v \in Hashed : v \in poll[p].todo => poll[p].found[v].sum \in Contents
      BY DEF FilesKept, PollIsTold
    <3> QED BY <3>1, <3>2, <3>3 DEF PollCarries
  <2> QED BY <2>1, <2>2, <2>3
<1>3. /\ DOMAIN poll' = Pollers /\ (\A q \in Pollers : DOMAIN poll'[q] = PollFields) /\ PollIsTold'
  BY <1>0, <1>2 DEF FilesKept, FilesAreTyped, PollIsTold, PollCarries
<1> QED BY <1>1, <1>3, PollsCarry


\* A poll stores a build: what it has read of the row may be old, what it has found
\* of the feed is what a URL served.
LEMMA StoringKeepsFiles ==
  ASSUME FilesKept, NEW p \in Pollers, PollStores(p)
  PROVE  FilesKept'
<1> DEFINE entry == poll[p].found[poll[p].v]
           seen == poll[p].seen
<1>1. /\ UNCHANGED <<part, final, dl, upload, prune, served, torn>> /\ poll[p].at = "store"
      /\ version' = [version EXCEPT ![poll[p].v] = Refreshed(@, seen, entry)]
      /\ poll' = [poll EXCEPT ![p] = [poll[p] EXCEPT !.at = "build", !.seen = Unlisted, !.v = 0]]
  BY DEF PollStores, Becomes
<1>2. /\ FilesAreTyped /\ (poll[p].v \in Hashed => entry.sum \in Contents)
      /\ \A v \in Hashed : v \in poll[p].todo => poll[p].found[v].sum \in Contents
  BY <1>1 DEF FilesKept, PollIsTold
<1> HIDE DEF entry, seen
<1>3. ASSUME NEW row, DOMAIN row = DOMAIN Unlisted
      PROVE  LET next == Refreshed(row, seen, entry) IN
             /\ DOMAIN next = DOMAIN Unlisted
             /\ next.status = "READY" => row.status = "READY" /\ next.sha = row.sha
             /\ next = row \/ (entry.sum \in Contents => next.sum \in Contents)
  BY <1>3, HashedIsNotManual DEF Refreshed, Unlisted
<1>4. RowsFade
  <2>1. \A v \in Hashed : version[v].status # "ABSENT" => version[v].sum \in Contents
    BY DEF FilesKept, SumsAreTold, RowsAreTold, IsTold
  <2>2. \A v \in Versions :
          version'[v] = IF v = poll[p].v THEN Refreshed(version[v], seen, entry) ELSE version[v]
    BY <1>1, <1>2 DEF FilesAreTyped
  <2>3. ASSUME NEW v \in Versions
        PROVE  /\ DOMAIN version'[v] = DOMAIN Unlisted
               /\ version'[v].status = "READY" => version[v].status = "READY" /\ version'[v].sha = version[v].sha
               /\ version'[v] = version[v] \/ (v \in Hashed => version'[v].sum \in Contents)
    BY <1>2, <1>3, <2>2 DEF FilesAreTyped
  <2> QED BY <1>1, <1>2, <2>1, <2>3, HashedIsNotManual DEF RowsFade, FilesAreTyped, IsTold
<1>5. /\ DOMAIN poll' = Pollers /\ DOMAIN poll'[p] = PollFields
      /\ poll'[p].at = "build" /\ poll'[p].todo = poll[p].todo /\ poll'[p].found = poll[p].found
      /\ \A q \in Pollers : q # p => poll'[q] = poll[q]
  BY <1>1, <1>2 DEF FilesAreTyped, PollFields, NoPoll
<1>6. PollIsTold'
  BY <1>2, <1>5 DEF FilesKept, PollIsTold
<1>7. FilesAreTyped'
  BY <1>1, <1>2, <1>4, <1>5 DEF FilesAreTyped, RowsFade
<1> QED BY <1>1, <1>4, <1>6, <1>7, FadingKeepsTold DEF FilesKept, SumsAreTold

LEMMA DyingKeepsFiles ==
  ASSUME FilesKept, HubDies
  PROVE  FilesKept'
<1>1. /\ UNCHANGED <<version, part, final, served, torn>>
      /\ dl' = NoDownload /\ upload' = NoUpload /\ prune' = NoPrune
      /\ poll' = [q \in Pollers |-> NoPoll]
  BY DEF HubDies, CacheDies
<1>2. FilesAreTyped' /\ PollIsTold'
  BY <1>1 DEF FilesKept, FilesAreTyped, PollIsTold, PollFields, NoPoll
<1>3. DownloadIsAlone' /\ DownloadIsTold' /\ UploadIsMarked' /\ PruneIsTold'
  BY <1>1 DEF DownloadIsAlone, DownloadIsTold, UploadIsMarked, PruneIsTold, Moving, NoDownload, NoUpload, NoPrune
<1>4. FilesAreTold' /\ RowsAreTold' /\ FinalsAreServed' /\ ServedIsContent'
  BY <1>1 DEF FilesKept, SumsAreTold, FilesAreTold, RowsAreTold, FinalsAreServed, ServedIsContent, IsTold
<1> QED BY <1>2, <1>3, <1>4 DEF FilesKept, SumsAreTold

LEMMA RehostingKeepsFiles ==
  ASSUME FilesKept, NEW w \in Versions, Rehosts(w)
  PROVE  FilesKept'
<1>1. /\ UNCHANGED <<version, part, final, dl, upload, prune, torn, poll>>
      /\ \E url, c : c \in Contents /\ served' = [served EXCEPT ![w] = [url |-> url, file |-> c]]
  BY DEF Rehosts, autoVars
<1>2. DOMAIN served' = Versions /\ ServedIsContent'
  BY <1>1 DEF FilesKept, FilesAreTyped, ServedIsContent
<1> QED BY <1>1, <1>2 DEF FilesKept, FilesAreTyped, FilesAreTold, DownloadIsAlone, UploadIsMarked,
       SumsAreTold, RowsAreTold, FinalsAreServed, DownloadIsTold, PruneIsTold, PollIsTold, IsTold

LEMMA FilesStep ==
  FilesKept /\ [Next]_vars => FilesKept'
<1> SUFFICES ASSUME FilesKept, [Next]_vars PROVE FilesKept'
  OBVIOUS
<1>1. CASE UNCHANGED <<version, part, final, dl, upload, prune, served, torn, poll>>
  BY <1>1, PollsCarry DEF FilesKept, FilesAreTyped, PollIsTold
<1>2. CASE OfCache /\ UNCHANGED autoVars
  <2>1. CASE \E v \in Versions : AskCache(v)
    BY <1>1, <1>2, <2>1 DEF AskCache, autoVars
  <2> QED BY <1>2, <2>1, RowsKeepFiles, DownloadsKeepFiles, RenamesKeepFiles, PublishingKeepsFiles,
         UploadsKeepFiles, PruningKeepsFiles DEF OfCache, DownloadStep, PruneStep
<1>3. CASE PollStep \/ \E p \in Pollers : PollBegins(p)
  BY <1>3, PollsKeepFiles, StoringKeepsFiles DEF PollStep
<1>4. CASE \/ UNCHANGED vars \/ (\E v \in Versions : HandCreates(v)) \/ HandInserts \/ CooldownEnds
           \/ \E i \in DOMAIN rollouts : RolloutEnds(i)
  BY <1>1, <1>4 DEF vars, artifactVars, autoVars, HandCreates, HandInserts, CooldownEnds, RolloutEnds
<1> QED BY <1>2, <1>3, <1>4, DyingKeepsFiles, RehostingKeepsFiles DEF Next

\* Through resumed downloads, feeds that re-upload, polls that refresh rows from old
\* reads, uploads, prunings and deaths of the hub: the sha of a READY version is
\* that of the file on disk, and with an md5 no file is of two builds.
THEOREM FilesAreAlwaysWhole == Spec => []FilesAreWhole
<1>1. Init => FilesKept
  <2> SUFFICES ASSUME Init PROVE FilesKept
    OBVIOUS
  <2>1. /\ version = [v \in Versions |-> Unlisted] /\ final = [v \in Versions |-> NoFile]
        /\ dl = NoDownload /\ upload = NoUpload /\ prune = NoPrune /\ torn = {}
        /\ poll = [q \in Pollers |-> NoPoll]
    BY DEF Init, ArtifactInit, AutoInit
  <2>2. FilesAreTyped
    BY <2>1 DEF Init, ArtifactInit, FilesAreTyped, PollFields, NoPoll
  <2>3. ServedIsContent
    <3>1. (CHOOSE c \in Contents : TRUE) \in Contents
      BY ArtifactAssumption
    <3> QED BY <3>1 DEF Init, ArtifactInit, ServedIsContent
  <2>4. DownloadIsAlone /\ UploadIsMarked /\ DownloadIsTold /\ PruneIsTold /\ PollIsTold
    BY <2>1 DEF DownloadIsAlone, UploadIsMarked, DownloadIsTold, PruneIsTold, PollIsTold, Moving,
       NoDownload, NoUpload, NoPrune, NoPoll
  <2>5. FilesAreTold /\ RowsAreTold /\ FinalsAreServed
    BY <2>1, HashedIsNotManual DEF FilesAreTold, RowsAreTold, FinalsAreServed, Unlisted
  <2> QED BY <2>2, <2>3, <2>4, <2>5 DEF FilesKept, SumsAreTold
<1>2. FilesKept => FilesAreWhole
  BY HashedIsNotManual DEF FilesKept, FilesAreTold, SumsAreTold, FinalsAreServed, FilesAreWhole
<1> QED BY <1>1, <1>2, FilesStep, PTL DEF Spec
=============================================================================
