--------------------------- MODULE ServicesProofs ---------------------------
(***************************************************************************)
(* Theorems about the services that keep asking a box until it answers,    *)
(* for any number of boxes, panels, commands and bundles, and any limit.   *)
(*                                                                         *)
(* The scenes of MCServices share no state, so each service has a          *)
(* specification, an inductive invariant and theorems of its own.          *)
(***************************************************************************)
EXTENDS MCServices, FiniteSetTheorems, SequenceTheorems, TLAPS

UpdateSpec == UpdateInit /\ [][UpdateNext]_updateVars
FollowSpec == FollowInit /\ [][FollowNext]_followVars
CommandSpec == CommandInit /\ [][CommandNext]_commandVars
BundleSpec == BundleInit /\ [][BundleNext]_bundleVars

\* A behaviour of the scenes is one of each service: what is proved of a service
\* alone holds of the scenes TLC plays.
THEOREM ScenesAreServices ==
  FairSpec => UpdateSpec /\ FollowSpec /\ CommandSpec /\ BundleSpec
<1>1. Init => UpdateInit /\ FollowInit /\ CommandInit /\ BundleInit
  BY DEF Init
<1>2. [Next]_vars => /\ [UpdateNext]_updateVars /\ [FollowNext]_followVars
                     /\ [CommandNext]_commandVars /\ [BundleNext]_bundleVars
  BY DEF Next, vars
<1> QED BY <1>1, <1>2, PTL DEF FairSpec, UpdateSpec, FollowSpec, CommandSpec, BundleSpec

-----------------------------------------------------------------------------
(* Agent updates: the batch.                                               *)

BatchKept == inFlight \subseteq Holders /\ Cardinality(inFlight) <= Batch

\* What changes the boxes that are under way.
LEMMA BatchMoves ==
  ASSUME UpdateNext
  PROVE  \/ \E b \in Holders : inFlight' \in {inFlight, inFlight \ {b}}
         \/ \E b \in Holders : inFlight' = inFlight \cup {b} /\ HasRoom
         \/ inFlight' = {}
<1>1. CASE HubRestarts
  BY <1>1 DEF HubRestarts
<1>2. ASSUME NEW b \in Holders,
             \/ Greets(b) \/ Beats(b) \/ Sweeps(b) \/ Decides(b) \/ SlotExpires(b)
             \/ BoxUpdates(b) \/ \E g \in Goroutines : DownloadBreaks(b, g)
             \/ JobComes(b) \/ JobGoes(b) \/ SessionLost(b) \/ PowerFails(b)
      PROVE  \/ inFlight' \in {inFlight, inFlight \ {b}}
             \/ inFlight' = inFlight \cup {b} /\ HasRoom
  <2>1. CASE Greets(b) \/ Sweeps(b)
    BY <2>1 DEF Greets, Sweeps, Considered
  <2>2. CASE Decides(b)
    BY <2>2 DEF Decides
  <2>3. CASE SlotExpires(b)
    BY <2>3 DEF SlotExpires
  <2>4. CASE Beats(b) \/ JobComes(b) \/ JobGoes(b) \/ SessionLost(b) \/ PowerFails(b)
    BY <2>4 DEF Beats, JobComes, JobGoes, SessionLost, PowerFails, hubVars
  <2>5. ASSUME NEW g \in Goroutines, DownloadBreaks(b, g) PROVE inFlight' \in {inFlight, inFlight \ {b}}
    BY <2>5 DEF DownloadBreaks, GivesUp, Reported
  <2>6. ASSUME NEW g \in Goroutines, MovesOld(b, g) \/ PutsNew(b, g)
        PROVE  inFlight' \in {inFlight, inFlight \ {b}}
    BY <2>6 DEF MovesOld, PutsNew, GivesUp, Reported
  <2>7. ASSUME NEW g \in Goroutines,
               UpdateArrives(b, g) \/ Copies(b, g) \/ Verified(b, g) \/ Execs(b, g)
        PROVE  inFlight' = inFlight
    BY <2>7 DEF UpdateArrives, Copies, Verified, Execs, hubVars
  <2> QED BY <1>2, <2>1, <2>2, <2>3, <2>4, <2>5, <2>6, <2>7 DEF BoxUpdates
<1> QED BY <1>1, <1>2 DEF UpdateNext

LEMMA StepKeepsBatch == BatchKept /\ [UpdateNext]_updateVars => BatchKept'
<1> SUFFICES ASSUME BatchKept, [UpdateNext]_updateVars PROVE BatchKept'
  OBVIOUS
<1>0. /\ Batch \in Nat \ {0}
      /\ IsFiniteSet(inFlight) /\ Cardinality(inFlight) \in Nat
  BY UpdateAssumption, FS_Subset, FS_CardinalityType DEF BatchKept, UpdateAssumption
<1>1. CASE inFlight' = inFlight
  BY <1>1 DEF BatchKept
<1>2. ASSUME NEW b \in Holders, inFlight' = inFlight \ {b} PROVE BatchKept'
  <2>1. Cardinality(inFlight \ {b}) <= Cardinality(inFlight)
    BY <1>0, FS_Subset
  <2>2. Cardinality(inFlight \ {b}) \in Nat
    BY <1>0, FS_Subset, FS_CardinalityType
  <2> QED BY <1>0, <1>2, <2>1, <2>2 DEF BatchKept
<1>3. ASSUME NEW b \in Holders, inFlight' = inFlight \cup {b}, HasRoom PROVE BatchKept'
  <2>1. Cardinality(inFlight \cup {b}) <= Cardinality(inFlight) + 1
    BY <1>0, FS_AddElement
  <2>2. Cardinality(inFlight \cup {b}) \in Nat
    BY <1>0, FS_AddElement, FS_CardinalityType
  <2> QED BY <1>0, <1>3, <2>1, <2>2 DEF BatchKept, HasRoom
<1>4. CASE inFlight' = {}
  BY <1>0, <1>4, FS_EmptySet DEF BatchKept
<1>5. CASE UNCHANGED updateVars
  BY <1>1, <1>5 DEF updateVars
<1> QED BY <1>1, <1>2, <1>3, <1>4, <1>5, BatchMoves

\* However many boxes ask at once, and whatever the sweep and the hellos do while
\* another box's settings are awaited, no more boxes are under way than allowed.
THEOREM TheBatchHolds == UpdateSpec => []BatchHolds
<1>1. UpdateInit => BatchKept
  BY UpdateAssumption, FS_EmptySet DEF UpdateInit, BatchKept, UpdateAssumption
<1>2. BatchKept => BatchHolds
  BY DEF BatchKept, BatchHolds
<1> QED BY <1>1, <1>2, StepKeepsBatch, PTL DEF UpdateSpec


-----------------------------------------------------------------------------
(* Agent updates: the files of a box.  The argument is about one goroutine:  *)
(* unless two updates ran at once, what is on disk is what the goroutine's    *)
(* place in selfUpdate says.                                                  *)

File == [v : {"none", "old", "new"}, parts : SUBSET Parts]
Files == [exe : File, old : File, new : File]
Goroutine == [at : {"idle", "copy", "swap", "put", "exec"}, wrote : SUBSET Parts,
              fd : {"none", "exe", "old", "new"}]

DiskOK ==
  /\ disk \in [Holders -> Files]
  /\ swap \in [Holders -> [Goroutines -> Goroutine]]

\* What a goroutine that stands at s may rely on.
Abreast(files, s) ==
  /\ s.at = "idle" => s = Asleep
  /\ s.at = "copy" => s.fd = "new" /\ files.new = [v |-> "new", parts |-> s.wrote]
  /\ s.at # "copy" => s.fd = "none"
  /\ s.at \in {"swap", "put"} => IsWhole(files.new)
  /\ s.at = "put" => IsWhole(files.old) /\ files.exe = NoFile

TidyBox(files, gs) ==
  /\ \A g, h \in Goroutines : gs[g].at # "idle" /\ gs[h].at # "idle" => g = h
  /\ \A g \in Goroutines : Abreast(files, gs[g])
  /\ IsWhole(files.exe) \/ \E g \in Goroutines : gs[g].at = "put"

Tidy(b) == TidyBox(disk[b], swap[b])

BoxesTidy == DiskOK /\ \A b \in Holders : b \in overlap \/ Tidy(b)

NobodyUp == [g \in Goroutines |-> Asleep]

LEMMA TidyIsStartable ==
  ASSUME NEW b \in Holders, DiskOK, Tidy(b)
  PROVE  Startable(b)
<1>1. CASE IsWhole(disk[b].exe)
  BY <1>1 DEF Startable, Restored, IsWhole
<1>2. ASSUME NEW g \in Goroutines, swap[b][g].at = "put" PROVE Startable(b)
  <2>1. IsWhole(disk[b].old) /\ disk[b].exe = NoFile /\ disk[b] \in Files
    BY <1>2 DEF Tidy, TidyBox, Abreast, DiskOK
  <2> QED BY <2>1 DEF Startable, Restored, IsWhole, NoFile, Files
<1> QED BY <1>1, <1>2 DEF Tidy, TidyBox

LEMMA AsleepIsTyped == /\ Asleep \in Goroutine /\ Asleep.at = "idle" /\ Asleep.fd = "none"
                       /\ NoFile \in File /\ NobodyUp \in [Goroutines -> Goroutine]
  BY DEF Asleep, Goroutine, NoFile, File, NobodyUp

\* A box whose goroutines are gone and whose exe is whole is tidy.
LEMMA QuietIsTidy ==
  ASSUME NEW files, IsWhole(files.exe)
  PROVE  TidyBox(files, NobodyUp)
  BY DEF TidyBox, Abreast, NobodyUp, Asleep

\* A renamed file matters to no goroutine that has it not open.
LEMMA MovedTypes ==
  ASSUME DiskOK, NEW b \in Holders, NEW from \in {"exe", "old", "new"},
         NEW to \in {"none", "exe", "old", "new"}
  PROVE  /\ Moved(b, from, to) \in [Goroutines -> Goroutine]
         /\ \A g \in Goroutines :
              /\ Moved(b, from, to)[g].at = swap[b][g].at
              /\ swap[b][g].fd = "none" => Moved(b, from, to)[g] = swap[b][g]
<1>1. swap[b] \in [Goroutines -> Goroutine]
  BY DEF DiskOK
<1> SUFFICES ASSUME NEW g \in Goroutines
             PROVE  /\ Moved(b, from, to)[g] \in Goroutine
                    /\ Moved(b, from, to)[g].at = swap[b][g].at
                    /\ swap[b][g].fd = "none" => Moved(b, from, to)[g] = swap[b][g]
  BY DEF Moved
<1>2. swap[b][g] \in Goroutine
  BY <1>1
<1>3. Moved(b, from, to)[g] \in {[swap[b][g] EXCEPT !.fd = to], [swap[b][g] EXCEPT !.fd = "none"],
                                 swap[b][g]}
  BY DEF Moved
<1>4. swap[b][g].fd = "none" => Moved(b, from, to)[g] = swap[b][g]
  <2> SUFFICES ASSUME swap[b][g].fd = "none" PROVE Moved(b, from, to)[g] = swap[b][g]
    OBVIOUS
  <2>1. [swap[b][g] EXCEPT !.fd = "none"] = swap[b][g]
    BY <1>2 DEF Goroutine
  <2> QED BY <2>1 DEF Moved
<1> QED BY <1>2, <1>3, <1>4 DEF Goroutine


\* One box takes a step.
LEMMA BoxTidied ==
  ASSUME BoxesTidy, NEW b \in Holders, NEW F \in Files, NEW G \in [Goroutines -> Goroutine],
         disk' = [disk EXCEPT ![b] = F], swap' = [swap EXCEPT ![b] = G],
         overlap \subseteq overlap', b \in overlap' \/ TidyBox(F, G)
  PROVE  BoxesTidy'
<1>1. DiskOK'
  BY DEF BoxesTidy, DiskOK
<1>2. \A c \in Holders : disk'[c] = (IF c = b THEN F ELSE disk[c])
                         /\ swap'[c] = (IF c = b THEN G ELSE swap[c])
  BY DEF BoxesTidy, DiskOK
<1> QED BY <1>1, <1>2 DEF BoxesTidy, Tidy

LEMMA ArriveTidy ==
  ASSUME BoxesTidy, NEW b \in Holders, NEW g \in Goroutines, UpdateArrives(b, g)
  PROVE  BoxesTidy'
<1>t. disk[b] \in Files /\ swap[b] \in [Goroutines -> Goroutine]
  BY DEF BoxesTidy, DiskOK
<1>1. CASE UNCHANGED <<disk, swap, overlap>>
  BY <1>1 DEF BoxesTidy, DiskOK, Tidy
<1>2. CASE ~UNCHANGED <<disk, swap, overlap>>
  <2> DEFINE New == [v |-> "new", parts |-> {}]
             F == [disk[b] EXCEPT !.new = New]
             G == [swap[b] EXCEPT ![g] = [at |-> "copy", wrote |-> {}, fd |-> "new"]]
  <2>1. /\ disk' = [disk EXCEPT ![b] = F] /\ swap' = [swap EXCEPT ![b] = G]
        /\ overlap' = IF \E h \in Goroutines : swap[b][h].at # "idle"
                      THEN overlap \cup {b} ELSE overlap
    BY <1>2 DEF UpdateArrives, BoxesTidy, DiskOK
  <2>2. F \in Files /\ G \in [Goroutines -> Goroutine]
    BY <1>t DEF Files, File, Goroutine
  <2>3. CASE b \in overlap \/ \E h \in Goroutines : swap[b][h].at # "idle"
    BY <2>1, <2>2, <2>3, BoxTidied
  <2>4. CASE b \notin overlap /\ \A h \in Goroutines : swap[b][h].at = "idle"
    <3>1. IsWhole(disk[b].exe) /\ \A h \in Goroutines : swap[b][h] = Asleep
      BY <2>4 DEF BoxesTidy, Tidy, TidyBox, Abreast
    <3>2. \A h \in Goroutines : G[h] = IF h = g THEN [at |-> "copy", wrote |-> {}, fd |-> "new"]
                                       ELSE Asleep
      BY <1>t, <3>1
    <3>3. F.exe = disk[b].exe /\ F.new = New
      BY <1>t DEF Files
    <3>4. TidyBox(F, G)
      BY <3>1, <3>2, <3>3, AsleepIsTyped DEF TidyBox, Abreast
    <3> QED BY <2>1, <2>2, <3>4, BoxTidied
  <2> QED BY <2>3, <2>4
<1> QED BY <1>1, <1>2

LEMMA CopyTidy ==
  ASSUME BoxesTidy, NEW b \in Holders, NEW g \in Goroutines, Copies(b, g)
  PROVE  BoxesTidy'
<1>t. /\ disk[b] \in Files /\ swap[b] \in [Goroutines -> Goroutine] /\ swap[b][g] \in Goroutine
      /\ swap[b][g].at = "copy" /\ UNCHANGED overlap
  BY DEF BoxesTidy, DiskOK, Copies
<1> DEFINE fd == swap[b][g].fd
<1>1. PICK p \in Parts :
        /\ swap' = [swap EXCEPT ![b][g].wrote = @ \cup {p}]
        /\ disk' = IF fd = "none" THEN disk ELSE [disk EXCEPT ![b][fd].parts = @ \cup {p}]
  BY DEF Copies
<1> DEFINE s == [swap[b][g] EXCEPT !.wrote = @ \cup {p}]
           G == [swap[b] EXCEPT ![g] = s]
<1>2. swap' = [swap EXCEPT ![b] = G] /\ G \in [Goroutines -> Goroutine]
  BY <1>t, <1>1 DEF BoxesTidy, DiskOK, Goroutine
<1>3. CASE fd = "none"
  <2>1. disk' = [disk EXCEPT ![b] = disk[b]]
    BY <1>1, <1>3 DEF BoxesTidy, DiskOK
  <2>2. b \in overlap
    BY <1>t, <1>3 DEF BoxesTidy, Tidy, TidyBox, Abreast
  <2> QED BY <1>t, <1>2, <2>1, <2>2, BoxTidied
<1>4. CASE fd = "new"
  <2> DEFINE F == [disk[b] EXCEPT !.new.parts = @ \cup {p}]
  <2>1. disk' = [disk EXCEPT ![b] = F] /\ F \in Files
    BY <1>t, <1>1, <1>4 DEF BoxesTidy, DiskOK, Files, File
  <2>2. b \notin overlap => TidyBox(F, G)
    <3> SUFFICES ASSUME b \notin overlap PROVE TidyBox(F, G)
      OBVIOUS
    <3>1. /\ \A h \in Goroutines : h # g => swap[b][h] = Asleep
          /\ disk[b].new = [v |-> "new", parts |-> swap[b][g].wrote]
          /\ IsWhole(disk[b].exe)
      BY <1>t DEF BoxesTidy, Tidy, TidyBox, Abreast
    <3>2. \A h \in Goroutines : G[h] = IF h = g THEN s ELSE Asleep
      BY <1>t, <3>1
    <3>3. s.at = "copy" /\ s.fd = "new" /\ s.wrote = swap[b][g].wrote \cup {p}
      BY <1>t, <1>4 DEF Goroutine
    <3>4. F.exe = disk[b].exe /\ F.new = [disk[b].new EXCEPT !.parts = @ \cup {p}]
      BY <1>t DEF Files
    <3>5. F.new = [v |-> "new", parts |-> s.wrote]
      BY <3>1, <3>3, <3>4
    <3> QED BY <3>1, <3>2, <3>3, <3>4, <3>5, AsleepIsTyped, ZenonT(40) DEF TidyBox, Abreast
  <2> QED BY <1>t, <1>2, <2>1, <2>2, BoxTidied
<1>5. CASE fd = "exe" \/ fd = "old"
  <2>1. b \in overlap
    BY <1>t, <1>5 DEF BoxesTidy, Tidy, TidyBox, Abreast
  <2>2. CASE fd = "exe"
    <3> DEFINE F == [disk[b] EXCEPT !.exe.parts = @ \cup {p}]
    <3>1. disk' = [disk EXCEPT ![b] = F] /\ F \in Files
      BY <1>t, <1>1, <2>2 DEF BoxesTidy, DiskOK, Files, File
    <3> QED BY <1>t, <1>2, <2>1, <3>1, BoxTidied
  <2>3. CASE fd = "old"
    <3> DEFINE F == [disk[b] EXCEPT !.old.parts = @ \cup {p}]
    <3>1. disk' = [disk EXCEPT ![b] = F] /\ F \in Files
      BY <1>t, <1>1, <2>3 DEF BoxesTidy, DiskOK, Files, File
    <3> QED BY <1>t, <1>2, <2>1, <3>1, BoxTidied
  <2> QED BY <1>5, <2>2, <2>3
<1> QED BY <1>t, <1>3, <1>4, <1>5 DEF Goroutine


LEMMA VerifyTidy ==
  ASSUME BoxesTidy, NEW b \in Holders, NEW g \in Goroutines, Verified(b, g)
  PROVE  BoxesTidy'
<1> DEFINE s == [Asleep EXCEPT !.at = "swap"]
           G == [swap[b] EXCEPT ![g] = s]
<1>t. /\ disk[b] \in Files /\ swap[b] \in [Goroutines -> Goroutine]
      /\ swap[b][g].at = "copy" /\ swap[b][g].wrote = Parts
  BY DEF BoxesTidy, DiskOK, Verified
<1>1. /\ disk' = [disk EXCEPT ![b] = disk[b]] /\ swap' = [swap EXCEPT ![b] = G]
      /\ G \in [Goroutines -> Goroutine] /\ UNCHANGED overlap
  BY <1>t, AsleepIsTyped DEF Verified, BoxesTidy, DiskOK, Goroutine, Asleep
<1>2. b \notin overlap => TidyBox(disk[b], G)
  <2> SUFFICES ASSUME b \notin overlap PROVE TidyBox(disk[b], G)
    OBVIOUS
  <2>1. /\ \A h \in Goroutines : h # g => swap[b][h] = Asleep
        /\ disk[b].new = [v |-> "new", parts |-> Parts]
        /\ IsWhole(disk[b].exe)
    BY <1>t DEF BoxesTidy, Tidy, TidyBox, Abreast
  <2>2. \A h \in Goroutines : G[h] = IF h = g THEN s ELSE Asleep
    BY <1>t, <2>1
  <2>3. s.at = "swap" /\ s.fd = "none" /\ IsWhole(disk[b].new)
    BY <2>1 DEF Asleep, IsWhole
  <2> QED BY <2>1, <2>2, <2>3, AsleepIsTyped DEF TidyBox, Abreast
<1> QED BY <1>t, <1>1, <1>2, BoxTidied

\* A goroutine that gives up, alone on its box, leaves an exe that is whole.
LEMMA GiveUpTidy ==
  ASSUME BoxesTidy, NEW b \in Holders, NEW g \in Goroutines, NEW F \in Files,
         NEW from \in {"exe", "old", "new"}, NEW to \in {"none", "exe", "old", "new"},
         GivesUp(b, g, F, Moved(b, from, to)), swap[b][g].at # "idle", UNCHANGED overlap,
         b \notin overlap => IsWhole(F.exe)
  PROVE  BoxesTidy'
<1> DEFINE G == [Moved(b, from, to) EXCEPT ![g] = Asleep]
<1>t. DiskOK /\ Moved(b, from, to) \in [Goroutines -> Goroutine]
  BY MovedTypes DEF BoxesTidy
<1>1. /\ disk' = [disk EXCEPT ![b] = F] /\ swap' = [swap EXCEPT ![b] = G]
      /\ G \in [Goroutines -> Goroutine]
  BY <1>t, AsleepIsTyped DEF GivesUp
<1>2. b \notin overlap => TidyBox(F, G)
  <2> SUFFICES ASSUME b \notin overlap PROVE TidyBox(F, G)
    OBVIOUS
  <2>1. \A h \in Goroutines : h # g => swap[b][h] = Asleep
    BY DEF BoxesTidy, Tidy, TidyBox, Abreast
  <2>2. \A h \in Goroutines :
          swap[b][h].fd = "none" => Moved(b, from, to)[h] = swap[b][h]
    BY <1>t, MovedTypes
  <2>3. \A h \in Goroutines : h # g => Moved(b, from, to)[h] = Asleep
    BY <2>1, <2>2, AsleepIsTyped
  <2>4. G = NobodyUp
    BY <1>t, <2>3 DEF NobodyUp
  <2> QED BY <2>4, QuietIsTidy
<1> QED BY <1>1, <1>2, BoxTidied

LEMMA BreakTidy ==
  ASSUME BoxesTidy, NEW b \in Holders, NEW g \in Goroutines, DownloadBreaks(b, g)
  PROVE  BoxesTidy'
<1>t. disk[b] \in Files /\ swap[b][g].at = "copy" /\ UNCHANGED overlap
  BY DEF BoxesTidy, DiskOK, DownloadBreaks
<1>1. WithoutNew(b) \in Files /\ WithoutNew(b).exe = disk[b].exe
  BY <1>t, AsleepIsTyped DEF WithoutNew, Files
<1>2. b \notin overlap => IsWhole(disk[b].exe)
  BY <1>t DEF BoxesTidy, Tidy, TidyBox
<1> QED BY <1>t, <1>1, <1>2, GiveUpTidy DEF DownloadBreaks

LEMMA MoveTidy ==
  ASSUME BoxesTidy, NEW b \in Holders, NEW g \in Goroutines, MovesOld(b, g)
  PROVE  BoxesTidy'
<1>t. /\ disk[b] \in Files /\ swap[b] \in [Goroutines -> Goroutine]
      /\ swap[b][g].at = "swap" /\ UNCHANGED overlap /\ DiskOK
  BY DEF BoxesTidy, DiskOK, MovesOld
<1>s. b \notin overlap =>
        /\ \A h \in Goroutines : h # g => swap[b][h] = Asleep
        /\ IsWhole(disk[b].new) /\ IsWhole(disk[b].exe) /\ swap[b][g].fd = "none"
  BY <1>t DEF BoxesTidy, Tidy, TidyBox, Abreast
<1>1. CASE disk[b].new.v = "none" \/ disk[b].exe.v = "none"
  <2> DEFINE F == IF disk[b].new.v = "none" THEN disk[b] ELSE [WithoutNew(b) EXCEPT !.old = NoFile]
  <2>1. F \in Files
    <3>1. WithoutNew(b) \in Files
      BY <1>t, AsleepIsTyped DEF WithoutNew, Files
    <3>2. [WithoutNew(b) EXCEPT !.old = NoFile] \in Files
      BY <3>1, AsleepIsTyped DEF Files
    <3> QED BY <1>t, <3>2
  <2>2. b \in overlap
    BY <1>1, <1>s DEF IsWhole
  <2>3. GivesUp(b, g, F, Moved(b, "new", "none"))
    BY <1>1 DEF MovesOld
  <2> HIDE DEF F
  <2> QED BY <1>t, <2>1, <2>2, <2>3, GiveUpTidy
<1>2. CASE ~(disk[b].new.v = "none" \/ disk[b].exe.v = "none")
  <2> DEFINE F == Kept(disk[b])
             M == Moved(b, "exe", "old")
             G == [M EXCEPT ![g].at = "put"]
  <2>1. disk' = [disk EXCEPT ![b] = F] /\ swap' = [swap EXCEPT ![b] = G]
    BY <1>2 DEF MovesOld
  <2>2. /\ F \in Files /\ F.old = disk[b].exe /\ F.exe = NoFile /\ F.new = disk[b].new
    BY <1>t, AsleepIsTyped DEF Kept, Files
  <2>3. M \in [Goroutines -> Goroutine] /\ \A h \in Goroutines : swap[b][h].fd = "none" => M[h] = swap[b][h]
    BY <1>t, MovedTypes
  <2>4. G \in [Goroutines -> Goroutine]
    BY <2>3 DEF Goroutine
  <2>5. b \notin overlap => TidyBox(F, G)
    <3> SUFFICES ASSUME b \notin overlap PROVE TidyBox(F, G)
      OBVIOUS
    <3>1. \A h \in Goroutines : G[h] = IF h = g THEN [swap[b][g] EXCEPT !.at = "put"] ELSE Asleep
      BY <1>s, <2>3, AsleepIsTyped
    <3>2. G[g].at = "put" /\ G[g].fd = "none"
      BY <1>t, <1>s, <3>1 DEF Goroutine
    <3> QED BY <1>s, <2>2, <3>1, <3>2, AsleepIsTyped DEF TidyBox, Abreast
  <2> HIDE DEF F, G
  <2> QED BY <1>t, <2>1, <2>2, <2>4, <2>5, BoxTidied
<1> QED BY <1>1, <1>2

LEMMA PutTidy ==
  ASSUME BoxesTidy, NEW b \in Holders, NEW g \in Goroutines, PutsNew(b, g)
  PROVE  BoxesTidy'
<1>t. /\ disk[b] \in Files /\ swap[b] \in [Goroutines -> Goroutine]
      /\ swap[b][g].at = "put" /\ UNCHANGED overlap /\ DiskOK
  BY DEF BoxesTidy, DiskOK, PutsNew
<1>s. b \notin overlap =>
        /\ \A h \in Goroutines : h # g => swap[b][h] = Asleep
        /\ IsWhole(disk[b].new) /\ swap[b][g].fd = "none"
  BY <1>t DEF BoxesTidy, Tidy, TidyBox, Abreast
<1>1. CASE disk[b].new.v = "none"
  <2> DEFINE F == IF disk[b].old.v = "none" THEN disk[b]
                  ELSE [disk[b] EXCEPT !.exe = disk[b].old, !.old = NoFile]
  <2>1. F \in Files
    BY <1>t, AsleepIsTyped DEF Files
  <2>2. b \in overlap
    BY <1>1, <1>s DEF IsWhole
  <2>3. GivesUp(b, g, F, Moved(b, "old", "exe"))
    BY <1>1 DEF PutsNew
  <2> HIDE DEF F
  <2> QED BY <1>t, <2>1, <2>2, <2>3, GiveUpTidy
<1>2. CASE disk[b].new.v # "none"
  <2> DEFINE F == [disk[b] EXCEPT !.exe = disk[b].new, !.new = NoFile]
             M == Moved(b, "new", "exe")
             G == [M EXCEPT ![g].at = "exec"]
  <2>1. disk' = [disk EXCEPT ![b] = F] /\ swap' = [swap EXCEPT ![b] = G]
    BY <1>2 DEF PutsNew, DiskOK
  <2>2. /\ F \in Files /\ F.exe = disk[b].new
    BY <1>t, AsleepIsTyped DEF Files
  <2>3. M \in [Goroutines -> Goroutine] /\ \A h \in Goroutines : swap[b][h].fd = "none" => M[h] = swap[b][h]
    BY <1>t, MovedTypes
  <2>4. G \in [Goroutines -> Goroutine]
    BY <2>3 DEF Goroutine
  <2>5. b \notin overlap => TidyBox(F, G)
    <3> SUFFICES ASSUME b \notin overlap PROVE TidyBox(F, G)
      OBVIOUS
    <3>1. \A h \in Goroutines : G[h] = IF h = g THEN [swap[b][g] EXCEPT !.at = "exec"] ELSE Asleep
      BY <1>s, <2>3, AsleepIsTyped
    <3>2. G[g].at = "exec" /\ G[g].fd = "none"
      BY <1>t, <1>s, <3>1 DEF Goroutine
    <3> QED BY <1>s, <2>2, <3>1, <3>2, AsleepIsTyped DEF TidyBox, Abreast
  <2> HIDE DEF F, G
  <2> QED BY <1>t, <2>1, <2>2, <2>4, <2>5, BoxTidied
<1> QED BY <1>1, <1>2

\* service.sh starts a box: its goroutines are gone, and exe is what it was or the
\* old binary put back.
LEMMA StartTidy ==
  ASSUME BoxesTidy, NEW b \in Holders, Started(b), UNCHANGED overlap
  PROVE  BoxesTidy'
<1>t. disk[b] \in Files /\ DiskOK
  BY DEF BoxesTidy, DiskOK
<1>1. Restored(disk[b]) \in Files
  BY <1>t, AsleepIsTyped DEF Restored, Files
<1>2. b \notin overlap => IsWhole(Restored(disk[b]).exe)
  BY <1>t, TidyIsStartable DEF BoxesTidy, Startable
<1>3. disk' = [disk EXCEPT ![b] = Restored(disk[b])] /\ swap' = [swap EXCEPT ![b] = NobodyUp]
  BY DEF Started, NobodyUp
<1> QED BY <1>1, <1>2, <1>3, AsleepIsTyped, QuietIsTidy, BoxTidied

LEMMA StepKeepsTidy == BoxesTidy /\ [UpdateNext]_updateVars => BoxesTidy'
<1> SUFFICES ASSUME BoxesTidy, [UpdateNext]_updateVars PROVE BoxesTidy'
  OBVIOUS
<1>0. UNCHANGED <<disk, swap, overlap>> => BoxesTidy'
  BY DEF BoxesTidy, DiskOK, Tidy
<1>1. ASSUME NEW b \in Holders,
             \/ Greets(b) \/ Beats(b) \/ Sweeps(b) \/ Decides(b) \/ SlotExpires(b)
             \/ JobComes(b) \/ JobGoes(b) \/ SessionLost(b)
      PROVE  BoxesTidy'
  BY <1>0, <1>1 DEF Greets, Beats, Sweeps, Decides, SlotExpires, JobComes, JobGoes, SessionLost
<1>2. ASSUME NEW b \in Holders, PowerFails(b) PROVE BoxesTidy'
  BY <1>2, StartTidy DEF PowerFails
<1>3. ASSUME NEW b \in Holders, NEW g \in Goroutines, Execs(b, g) PROVE BoxesTidy'
  BY <1>3, StartTidy DEF Execs
<1>4. CASE HubRestarts \/ UNCHANGED updateVars
  BY <1>0, <1>4 DEF HubRestarts, updateVars
<1> QED BY <1>1, <1>2, <1>3, <1>4, ArriveTidy, CopyTidy, VerifyTidy, BreakTidy, MoveTidy, PutTidy
        DEF UpdateNext, BoxUpdates

\* Whatever is cut short, at whatever part of the download or between whichever two
\* renames, a box on which no two updates ran at once comes back on an agent that
\* is complete.
THEOREM BoxesComeBack == UpdateSpec => []StartableAlone
<1>1. UpdateInit => BoxesTidy
  <2> SUFFICES ASSUME UpdateInit PROVE BoxesTidy
    OBVIOUS
  <2>1. [exe |-> Old, old |-> NoFile, new |-> NoFile] \in Files /\ IsWhole(Old)
    BY DEF Files, File, Old, NoFile, IsWhole
  <2>2. swap = [b \in Holders |-> NobodyUp]
    BY DEF UpdateInit, NobodyUp
  <2> QED BY <2>1, <2>2, AsleepIsTyped, QuietIsTidy DEF UpdateInit, BoxesTidy, DiskOK, Tidy
<1>2. BoxesTidy => StartableAlone
  BY TidyIsStartable DEF BoxesTidy, StartableAlone
<1> QED BY <1>1, <1>2, StepKeepsTidy, PTL DEF UpdateSpec


-----------------------------------------------------------------------------
(* Log follows.  A follow, or a start under way, is attended to: somebody    *)
(* watches its stream, or its stop comes behind it.                          *)

Starts == {StartFrame(id, s) : id \in Nat \ {0}, s \in Sources}
Stops == {StopFrame(id) : id \in Nat}
Down == Starts \cup Stops

FollowTypes ==
  /\ panels \in [Panels -> Sources \cup {NotWatching}]
  /\ streams \in [Sources -> [id : Nat, renews : BOOLEAN]]
  /\ link \in [session : Nat, conn : Nat, setup : BOOLEAN, made : Nat]
  /\ downlink \in Seq(Down)
  /\ uplink \subseteq Nat
  /\ follows \subseteq [id : Nat \ {0}, source : Sources]
  /\ streamIds \in Nat

\* A stream is in the map just as long as somebody watches it.
StreamsJoined == \A s \in Sources : Streaming(s) <=> Subscribers(s) # {}

\* What a box without a session follows, and what is under way to it.
LinkClean ==
  /\ link.session = 0 => follows = {}
  /\ link.session = 0 \/ link.conn # link.session => downlink = <<>>

Watched(id, s) == streams[s].id = id /\ Subscribers(s) # {}
Behind(id, n) == \E i \in DOMAIN downlink : i > n /\ downlink[i] = StopFrame(id)
Attended(id, s, n) == Watched(id, s) \/ Behind(id, n)

AllAttended ==
  link.conn = link.session =>
    /\ \A f \in follows : Attended(f.id, f.source, 0)
    /\ \A i \in DOMAIN downlink :
         downlink[i] \in Starts => Attended(downlink[i].id, downlink[i].source, i)

FollowsKept == FollowTypes /\ StreamsJoined /\ LinkClean /\ AllAttended

LEMMA FramesOfBox ==
  /\ \A id \in Nat \ {0}, s \in Sources :
       /\ StartFrame(id, s) \in Starts /\ StartFrame(id, s).type = "start"
       /\ StartFrame(id, s).id = id /\ StartFrame(id, s).source = s
  /\ \A id \in Nat : /\ StopFrame(id) \in Stops /\ StopFrame(id).type = "stop"
                     /\ StopFrame(id).id = id
  /\ \A f \in Starts : f.type = "start" /\ f.id \in Nat \ {0} /\ f.source \in Sources
  /\ \A f \in Stops : f.type = "stop" /\ f.id \in Nat /\ f = StopFrame(f.id) /\ f \notin Starts
  BY DEF Starts, Stops, StartFrame, StopFrame

\* A frame is sent: it is under way, or there is nobody to get it.
LEMMA TellsAttended ==
  ASSUME FollowsKept, NEW fr \in Down, Tells(fr), UNCHANGED <<link, follows>>,
         \A id \in Nat \ {0}, s \in Sources :
           Watched(id, s) => Watched(id, s)' \/ fr = StopFrame(id),
         fr \in Starts => Watched(fr.id, fr.source)'
  PROVE  downlink' \in Seq(Down) /\ LinkClean' /\ AllAttended'
<1>t. /\ downlink \in Seq(Down) /\ LinkClean /\ AllAttended
      /\ link.conn \in Nat /\ link.session \in Nat
  BY DEF FollowsKept, FollowTypes
<1>1. CASE ~(link.conn # 0 /\ link.conn = link.session)
  <2>1. downlink' = downlink /\ downlink = <<>>
    BY <1>t, <1>1 DEF Tells, LinkClean
  <2>2. LinkClean' /\ downlink' \in Seq(Down)
    BY <1>t, <2>1 DEF LinkClean
  <2>3. AllAttended'
    BY <1>t, <1>1, <2>1 DEF AllAttended, LinkClean
  <2> QED BY <2>2, <2>3
<1>2. CASE link.conn # 0 /\ link.conn = link.session
  <2>1. downlink' = Append(downlink, fr)
    BY <1>2 DEF Tells
  <2>2. /\ downlink' \in Seq(Down)
        /\ DOMAIN downlink = 1..Len(downlink) /\ Len(downlink) \in Nat
        /\ DOMAIN downlink' = 1..Len(downlink) + 1
        /\ \A i \in DOMAIN downlink : downlink'[i] = downlink[i]
        /\ downlink'[Len(downlink) + 1] = fr
    BY <1>t, <2>1
  <2>3. ASSUME NEW id \in Nat \ {0}, NEW s \in Sources, NEW n \in 0..Len(downlink),
               Attended(id, s, n)
        PROVE  Attended(id, s, n)'
    <3>1. CASE Behind(id, n)
      BY <2>2, <3>1 DEF Attended, Behind
    <3>2. CASE Watched(id, s)'
      BY <3>2 DEF Attended
    <3>3. CASE fr = StopFrame(id)
      <4>1. Len(downlink) + 1 > n
        BY <2>2
      <4> QED BY <2>2, <3>3, <4>1 DEF Attended, Behind
    <3> QED BY <2>3, <3>1, <3>2, <3>3 DEF Attended
  <2>4. \A f \in follows : Attended(f.id, f.source, 0)'
    BY <1>t, <1>2, <2>2, <2>3 DEF AllAttended, FollowsKept, FollowTypes
  <2>5. ASSUME NEW i \in DOMAIN downlink', downlink'[i] \in Starts
        PROVE  Attended(downlink[i].id, downlink[i].source, i)'
    <3>1. CASE i \in DOMAIN downlink
      <4>1. downlink'[i] = downlink[i] /\ i \in 0..Len(downlink)
        BY <2>2, <3>1
      <4>2. Attended(downlink[i].id, downlink[i].source, i)
        BY <1>t, <1>2, <2>5, <3>1, <4>1 DEF AllAttended
      <4> QED BY <2>3, <2>5, <4>1, <4>2, FramesOfBox
    <3>2. CASE i = Len(downlink) + 1
      BY <2>2, <2>5, <3>2 DEF Attended
    <3> QED BY <2>2, <3>1, <3>2
  <2>6. AllAttended'
    BY <2>4, <2>5 DEF AllAttended
  <2>7. LinkClean'
    BY <1>t, <1>2 DEF LinkClean
  <2> QED BY <2>2, <2>6, <2>7
<1> QED BY <1>1, <1>2

\* Nothing is sent, and nobody stops watching.
LEMMA StaysAttended ==
  ASSUME FollowsKept, UNCHANGED <<link, downlink>>, follows' \subseteq follows,
         \A id \in Nat \ {0}, s \in Sources : Watched(id, s) => Watched(id, s)'
  PROVE  LinkClean' /\ AllAttended'
<1>1. \A n : \A id \in Nat \ {0}, s \in Sources : Attended(id, s, n) => Attended(id, s, n)'
  BY DEF Attended, Behind
<1>2. downlink \in Seq(Down) /\ follows \subseteq [id : Nat \ {0}, source : Sources]
  BY DEF FollowsKept, FollowTypes
<1>3. LinkClean'
  BY DEF FollowsKept, LinkClean
<1>4. AllAttended'
  <2>1. \A i \in DOMAIN downlink : downlink[i] \in Starts =>
          downlink[i].id \in Nat \ {0} /\ downlink[i].source \in Sources
    BY FramesOfBox
  <2> QED BY <1>1, <1>2, <2>1 DEF FollowsKept, AllAttended
<1> QED BY <1>3, <1>4


LEMMA OpenKeepsFollows ==
  ASSUME FollowsKept, NEW p \in Panels, NEW s \in Sources, PanelOpens(p, s)
  PROVE  FollowsKept'
<1>t. /\ FollowTypes /\ StreamsJoined /\ NotWatching \notin Sources
      /\ streams[s] \in [id : Nat, renews : BOOLEAN]
  BY FollowAssumption DEF FollowsKept, FollowTypes, FollowAssumption, NotWatching
<1>1. /\ UNCHANGED <<link, uplink, follows>>
      /\ \A r \in Sources : Subscribers(r)' = IF r = s THEN Subscribers(s) \cup {p} ELSE Subscribers(r)
      /\ panels' \in [Panels -> Sources \cup {NotWatching}]
  BY <1>t DEF PanelOpens, Subscribers, FollowTypes
<1>j. \A r \in Sources : Subscribers(r)' # {} <=> r = s \/ Subscribers(r) # {}
  BY <1>1
<1>2. CASE Streaming(s)
  <2>0. streams[s].id \in Nat \ {0}
    BY <1>t, <1>2 DEF Streaming
  <2>1. PICK fr \in Starts : fr = StartFrame(streams[s].id, s)
    BY <2>0, FramesOfBox
  <2>2. /\ Tells(fr) /\ UNCHANGED <<streams, streamIds>>
        /\ fr \in Down /\ fr.id = streams[s].id /\ fr.source = s
    BY <1>2, <2>0, <2>1, FramesOfBox DEF PanelOpens, Down
  <2>3. \A id \in Nat \ {0}, r \in Sources : Watched(id, r) => Watched(id, r)'
    BY <1>1, <2>2 DEF Watched
  <2>4. Watched(fr.id, fr.source)'
    BY <1>1, <2>2 DEF Watched
  <2>5. downlink' \in Seq(Down) /\ LinkClean' /\ AllAttended'
    BY <1>1, <2>2, <2>3, <2>4, TellsAttended
  <2>6. StreamsJoined'
    BY <1>t, <1>j, <1>2, <2>2 DEF StreamsJoined, Streaming
  <2> QED BY <1>t, <1>1, <2>2, <2>5, <2>6 DEF FollowsKept, FollowTypes
<1>3. CASE ~Streaming(s)
  <2>n. PICK n \in Nat \ {0} : n = streamIds + 1
    BY <1>t DEF FollowTypes
  <2> DEFINE fr == StartFrame(n, s)
             made == [id |-> n, renews |-> TRUE]
  <2>1. Tells(fr) /\ streamIds' = n /\ streams' = [streams EXCEPT ![s] = made]
    BY <1>t, <1>3, <2>n DEF PanelOpens
  <2>2. fr \in Down /\ fr \in Starts /\ fr.id = n /\ fr.source = s
    BY FramesOfBox DEF Down
  <2>3. Subscribers(s) = {}
    BY <1>t, <1>3 DEF StreamsJoined
  <2>4. \A r \in Sources : streams'[r] = IF r = s THEN made ELSE streams[r]
    BY <1>t, <2>1 DEF FollowTypes
  <2>5. \A id \in Nat \ {0}, r \in Sources : Watched(id, r) => Watched(id, r)'
    BY <1>1, <2>3, <2>4 DEF Watched
  <2>6. Watched(fr.id, fr.source)'
    BY <1>1, <2>2, <2>4 DEF Watched
  <2>7. streams' \in [Sources -> [id : Nat, renews : BOOLEAN]]
    BY <1>t, <2>1 DEF FollowTypes
  <2>8. StreamsJoined'
    BY <1>t, <1>j, <2>1, <2>4 DEF StreamsJoined, Streaming
  <2> HIDE DEF fr, made
  <2>9. downlink' \in Seq(Down) /\ LinkClean' /\ AllAttended'
    BY <1>1, <2>1, <2>2, <2>5, <2>6, TellsAttended
  <2> QED BY <1>t, <1>1, <2>1, <2>7, <2>8, <2>9 DEF FollowsKept, FollowTypes
<1> QED BY <1>2, <1>3

LEMMA CloseKeepsFollows ==
  ASSUME FollowsKept, NEW p \in Panels, PanelCloses(p)
  PROVE  FollowsKept'
<1>1. PICK s \in Sources : s = panels[p]
  BY DEF FollowsKept, FollowTypes, PanelCloses
<1>t. /\ FollowTypes /\ StreamsJoined /\ NotWatching \notin Sources
      /\ streams[s] \in [id : Nat, renews : BOOLEAN] /\ p \in Subscribers(s)
  BY <1>1, FollowAssumption DEF FollowsKept, FollowTypes, FollowAssumption, NotWatching, Subscribers
<1>2. /\ UNCHANGED <<link, uplink, follows, streamIds>>
      /\ \A r \in Sources : Subscribers(r)' = IF r = s THEN Subscribers(s) \ {p} ELSE Subscribers(r)
      /\ panels' \in [Panels -> Sources \cup {NotWatching}]
  BY <1>t, <1>1 DEF PanelCloses, Subscribers, FollowTypes
<1>3. CASE Subscribers(s) = {p}
  <2>i. PICK i \in Nat : i = streams[s].id
    BY <1>t
  <2> DEFINE fr == StopFrame(i)
  <2>1. Tells(fr) /\ streams' = [streams EXCEPT ![s] = NoStream]
    BY <1>1, <1>3, <2>i DEF PanelCloses, Farewell
  <2>2. fr \in Down /\ fr \notin Starts
    BY FramesOfBox DEF Down
  <2>3. \A r \in Sources : streams'[r] = IF r = s THEN NoStream ELSE streams[r]
    BY <1>t, <2>1 DEF FollowTypes
  <2>4. \A id \in Nat \ {0}, r \in Sources : Watched(id, r) => Watched(id, r)' \/ fr = StopFrame(id)
    BY <1>2, <2>i, <2>3 DEF Watched
  <2>5. streams' \in [Sources -> [id : Nat, renews : BOOLEAN]]
    BY <1>t, <2>1 DEF FollowTypes, NoStream
  <2>6. StreamsJoined'
    BY <1>t, <1>2, <1>3, <2>3 DEF StreamsJoined, Streaming, NoStream
  <2> HIDE DEF fr
  <2>7. downlink' \in Seq(Down) /\ LinkClean' /\ AllAttended'
    BY <1>2, <2>1, <2>2, <2>4, TellsAttended
  <2> QED BY <1>t, <1>2, <2>5, <2>6, <2>7 DEF FollowsKept, FollowTypes
<1>4. CASE Subscribers(s) # {p}
  <2>1. UNCHANGED <<downlink, streams>>
    BY <1>1, <1>4 DEF PanelCloses
  <2>2. \A r \in Sources : Subscribers(r)' # {} <=> Subscribers(r) # {}
    BY <1>t, <1>2, <1>4
  <2>3. \A id \in Nat \ {0}, r \in Sources : Watched(id, r) => Watched(id, r)'
    BY <2>1, <2>2 DEF Watched
  <2>4. LinkClean' /\ AllAttended'
    BY <1>2, <2>1, <2>3, StaysAttended
  <2>5. StreamsJoined'
    BY <1>t, <2>1, <2>2 DEF StreamsJoined, Streaming
  <2> QED BY <1>t, <1>2, <2>1, <2>4, <2>5 DEF FollowsKept, FollowTypes
<1> QED BY <1>3, <1>4

\* What is sent while panels and streams stay as they are.
LEMMA RenewKeepsFollows ==
  ASSUME FollowsKept, NEW s \in Sources, Renews(s)
  PROVE  FollowsKept'
<1>1. /\ UNCHANGED <<panels, streams, link, uplink, follows, streamIds>>
      /\ Subscribers(s) # {} /\ FollowTypes /\ StreamsJoined
  BY DEF Renews, FollowsKept
<1>2. \A r : Subscribers(r)' = Subscribers(r)
  BY <1>1 DEF Subscribers
<1>3. streams[s].id \in Nat \ {0}
  BY <1>1 DEF StreamsJoined, Streaming, FollowTypes
<1>f. PICK fr \in Starts : fr = StartFrame(streams[s].id, s)
  BY <1>3, FramesOfBox
<1>4. Tells(fr) /\ fr \in Down /\ fr.id = streams[s].id /\ fr.source = s
  BY <1>3, <1>f, FramesOfBox DEF Down, Renews
<1>5. Watched(fr.id, fr.source)'
  BY <1>1, <1>2, <1>4 DEF Watched
<1>6. \A id \in Nat \ {0}, r \in Sources : Watched(id, r) => Watched(id, r)'
  BY <1>1, <1>2 DEF Watched
<1>7. downlink' \in Seq(Down) /\ LinkClean' /\ AllAttended'
  BY <1>1, <1>4, <1>5, <1>6, TellsAttended
<1>8. StreamsJoined'
  BY <1>1, <1>2 DEF StreamsJoined, Streaming
<1> QED BY <1>1, <1>7, <1>8 DEF FollowsKept, FollowTypes

LEMMA LinesKeepFollows ==
  ASSUME FollowsKept, NEW id \in uplink, LinesArrive(id)
  PROVE  FollowsKept'
<1>1. /\ UNCHANGED <<panels, streams, link, follows, streamIds>> /\ uplink' = uplink \ {id}
      /\ id \in Nat /\ FollowTypes /\ StreamsJoined
  BY DEF LinesArrive, FollowsKept, FollowTypes
<1>2. \A r : Subscribers(r)' = Subscribers(r)
  BY <1>1 DEF Subscribers
<1>3. \A i \in Nat \ {0}, r \in Sources : Watched(i, r) => Watched(i, r)'
  BY <1>1, <1>2 DEF Watched
<1>4. downlink' \in Seq(Down) /\ LinkClean' /\ AllAttended'
  <2>1. CASE downlink' = downlink
    BY <1>1, <1>3, <2>1, StaysAttended DEF FollowTypes
  <2>2. CASE Tells(StopFrame(id))
    <3>1. StopFrame(id) \in Down /\ StopFrame(id) \notin Starts
      BY <1>1, FramesOfBox DEF Down
    <3> QED BY <1>1, <1>3, <2>2, <3>1, TellsAttended
  <2> QED BY <2>1, <2>2 DEF LinesArrive
<1>5. StreamsJoined'
  BY <1>1, <1>2 DEF StreamsJoined, Streaming
<1> QED BY <1>1, <1>4, <1>5 DEF FollowsKept, FollowTypes

\* The prefix that dropStreams and rearmStreams look for matches no stream.
LEMMA NothingMatches ==
  /\ \A s : Dropped(s) = streams[s]
  /\ Rearmed = {}
  BY DEF Dropped, Rearmed, DropPrefix, RearmPrefix, KeySeparator

LEMMA LinkKeepsFollows ==
  ASSUME FollowsKept, ConnCloses \/ SetupEnds \/ HubForgets \/ SessionBegins \/ SessionIsOver
  PROVE  FollowsKept'
<1>t. /\ FollowTypes /\ StreamsJoined /\ LinkClean /\ AllAttended
      /\ link.session \in Nat /\ link.conn \in Nat /\ link.made \in Nat /\ link.setup \in BOOLEAN
      /\ <<>> \in Seq(Down)
  BY EmptySeq DEF FollowsKept, FollowTypes
<1>e. UNCHANGED <<panels, streams>> => StreamsJoined'
  BY <1>t DEF StreamsJoined, Streaming, Subscribers
<1>1. CASE ConnCloses
  <2>1. /\ UNCHANGED <<panels, downlink, uplink, follows, streamIds>>
        /\ link' = [link EXCEPT !.conn = 0] /\ link.conn # link.session
    BY <1>1 DEF ConnCloses
  <2>2. streams' = streams
    BY <1>1, <1>t, NothingMatches DEF ConnCloses, FollowTypes
  <2>3. link'.conn = 0 /\ link'.session = link.session
    BY <1>t, <2>1 DEF FollowTypes
  <2>4. FollowTypes'
    BY <1>t, <2>1, <2>2 DEF FollowTypes
  <2>5. downlink = <<>>
    BY <1>t, <2>1 DEF LinkClean
  <2>6. LinkClean' /\ AllAttended'
    BY <1>t, <2>1, <2>3, <2>5 DEF LinkClean, AllAttended
  <2> QED BY <1>e, <2>1, <2>2, <2>4, <2>6 DEF FollowsKept
<1>2. CASE SetupEnds
  <2>1. /\ UNCHANGED <<panels, uplink, follows, streamIds>>
        /\ link' = [link EXCEPT !.setup = FALSE]
    BY <1>2 DEF SetupEnds
  <2>2. streams' = streams
    BY <1>2, <1>t, NothingMatches DEF SetupEnds, FollowTypes
  <2>3. link'.conn = link.conn /\ link'.session = link.session
    BY <1>t, <2>1 DEF FollowTypes
  <2>4. downlink' = downlink
    <3>1. Cardinality(Rearmed) = 0
      BY NothingMatches, FS_EmptySet
    <3>2. PICK order \in [1..0 -> {}] :
            downlink' = IF link.conn = link.session
                        THEN downlink \o [i \in DOMAIN order |-> StartFrame(streams[order[i]].id, order[i])]
                        ELSE downlink
      BY <1>2, <3>1, NothingMatches DEF SetupEnds
    <3>3. DOMAIN order = {}
      BY <3>2
    <3>4. [i \in DOMAIN order |-> StartFrame(streams[order[i]].id, order[i])] = <<>>
      BY <3>3
    <3> QED BY <1>t, <3>2, <3>4, ConcatEmptySeq DEF FollowTypes
  <2>5. FollowTypes'
    BY <1>t, <2>1, <2>2, <2>4 DEF FollowTypes
  <2>6. LinkClean' /\ AllAttended'
    BY <1>t, <2>1, <2>2, <2>3, <2>4
    DEF LinkClean, AllAttended, Attended, Watched, Behind, Subscribers
  <2> QED BY <1>e, <2>1, <2>2, <2>5, <2>6 DEF FollowsKept
<1>3. CASE HubForgets
  <2>1. /\ UNCHANGED <<follows, streamIds>> /\ downlink' = <<>> /\ uplink' = {}
        /\ link' = [link EXCEPT !.conn = 0, !.setup = FALSE]
        /\ panels' = [p \in Panels |-> NotWatching]
        /\ streams' = [s \in Sources |-> NoStream]
    BY <1>3 DEF HubForgets
  <2>2. link'.conn = 0 /\ link'.session = link.session
    BY <1>t, <2>1 DEF FollowTypes
  <2>3. FollowTypes'
    BY <1>t, <2>1 DEF FollowTypes, NoStream
  <2>4. LinkClean' /\ AllAttended'
    BY <1>t, <2>1, <2>2 DEF LinkClean, AllAttended
  <2>5. StreamsJoined'
    BY <2>1, FollowAssumption
    DEF StreamsJoined, Streaming, Subscribers, NoStream, FollowAssumption, NotWatching
  <2> QED BY <2>3, <2>4, <2>5 DEF FollowsKept
<1>4. CASE SessionBegins
  <2> DEFINE n == link.made + 1
  <2>1. /\ UNCHANGED <<panels, streams, downlink, uplink, follows, streamIds>> /\ link.session = 0
        /\ link' = [session |-> n, conn |-> n, setup |-> TRUE, made |-> n]
    BY <1>4 DEF SessionBegins
  <2>2. follows = {} /\ downlink = <<>>
    BY <1>t, <2>1 DEF LinkClean
  <2>3. FollowTypes'
    BY <1>t, <2>1 DEF FollowTypes
  <2>4. LinkClean' /\ AllAttended'
    BY <2>1, <2>2 DEF LinkClean, AllAttended
  <2> QED BY <1>e, <2>1, <2>3, <2>4 DEF FollowsKept
<1>5. CASE SessionIsOver
  <2>1. /\ UNCHANGED <<panels, streams, uplink, streamIds>> /\ follows' = {} /\ downlink' = <<>>
        /\ link' = [link EXCEPT !.session = 0]
    BY <1>5 DEF SessionIsOver, StopsAll
  <2>2. FollowTypes'
    BY <1>t, <2>1 DEF FollowTypes
  <2>3. LinkClean' /\ AllAttended'
    BY <2>1 DEF LinkClean, AllAttended
  <2> QED BY <1>e, <2>1, <2>2, <2>3 DEF FollowsKept
<1> QED BY <1>1, <1>2, <1>3, <1>4, <1>5


\* The frame at the head is taken: what was behind it still is behind the rest.
LEMMA TailBehind ==
  ASSUME downlink \in Seq(Down), downlink # <<>>, downlink' = Tail(downlink)
  PROVE  /\ downlink' \in Seq(Down)
         /\ \A i \in DOMAIN downlink' : i + 1 \in DOMAIN downlink /\ downlink'[i] = downlink[i + 1]
         /\ \A n \in Nat : \A id : Behind(id, n + 1) => Behind(id, n)'
         /\ \A id : Behind(id, 0) => Behind(id, 0)' \/ Head(downlink) = StopFrame(id)
<1>1. /\ Len(downlink) \in Nat /\ Len(downlink) > 0 /\ DOMAIN downlink = 1..Len(downlink)
      /\ downlink' \in Seq(Down) /\ DOMAIN downlink' = 1..Len(downlink) - 1
      /\ \A i \in DOMAIN downlink' : downlink'[i] = downlink[i + 1]
      /\ Head(downlink) = downlink[1]
  BY EmptySeq
<1>2. \A i \in DOMAIN downlink : i > 1 => i - 1 \in DOMAIN downlink' /\ downlink'[i - 1] = downlink[i]
  BY <1>1
<1>3. ASSUME NEW n \in Nat, NEW id, Behind(id, n + 1) PROVE Behind(id, n)'
  <2>1. PICK i \in DOMAIN downlink : i > n + 1 /\ downlink[i] = StopFrame(id)
    BY <1>3 DEF Behind
  <2>2. i > 1 /\ i - 1 > n
    BY <1>1, <2>1
  <2>3. i - 1 \in DOMAIN downlink' /\ downlink'[i - 1] = StopFrame(id)
    BY <1>2, <2>1, <2>2
  <2> QED BY <2>2, <2>3 DEF Behind
<1>4. ASSUME NEW id, Behind(id, 0) PROVE Behind(id, 0)' \/ Head(downlink) = StopFrame(id)
  <2>1. PICK i \in DOMAIN downlink : downlink[i] = StopFrame(id)
    BY <1>4 DEF Behind
  <2>2. CASE i = 1
    BY <1>1, <2>1, <2>2
  <2>3. CASE i # 1
    <3>1. i > 1 /\ i - 1 > 0
      BY <1>1, <2>3
    <3> QED BY <1>2, <2>1, <3>1 DEF Behind
  <2> QED BY <2>2, <2>3
<1> QED BY <1>1, <1>3, <1>4

LEMMA TakeKeepsFollows ==
  ASSUME FollowsKept, TakesFrame
  PROVE  FollowsKept'
<1>t. /\ FollowTypes /\ StreamsJoined /\ LinkClean /\ AllAttended
      /\ downlink \in Seq(Down) /\ downlink # <<>> /\ downlink' = Tail(downlink)
      /\ UNCHANGED <<panels, streams, link, streamIds>>
      /\ link.session # 0 /\ link.conn = link.session
  BY DEF FollowsKept, FollowTypes, TakesFrame, LinkClean
<1>w. /\ \A s : Subscribers(s)' = Subscribers(s)
      /\ \A id, s : Watched(id, s)' = Watched(id, s)
  BY <1>t DEF Watched, Subscribers
<1>1. PICK fr \in Down : fr = Head(downlink)
  BY <1>t, HeadTailProperties
<1>2. /\ 1 \in DOMAIN downlink /\ fr = downlink[1]
  BY <1>t, <1>1, EmptySeq
<1>3. \A i \in DOMAIN downlink' :
        downlink'[i] \in Starts => Attended(downlink[i].id, downlink[i].source, i)'
  <2> SUFFICES ASSUME NEW i \in DOMAIN downlink', downlink'[i] \in Starts
               PROVE  Attended(downlink[i].id, downlink[i].source, i)'
    OBVIOUS
  <2>1. i + 1 \in DOMAIN downlink /\ downlink[i + 1] \in Starts /\ i \in Nat
    BY <1>t, TailBehind
  <2>2. PICK g \in Starts : g = downlink[i + 1]
    BY <2>1
  <2>3. Attended(g.id, g.source, i + 1)
    BY <1>t, <2>1, <2>2 DEF AllAttended
  <2>4. Behind(g.id, i + 1) => Behind(g.id, i)'
    BY <1>t, <2>1, TailBehind
  <2>5. Attended(g.id, g.source, i)'
    BY <1>w, <2>3, <2>4 DEF Attended
  <2>6. downlink'[i] = g
    BY <1>t, <2>2, TailBehind
  <2> QED BY <2>2, <2>5, <2>6
<1>4. ASSUME NEW f \in follows, fr # StopFrame(f.id) PROVE Attended(f.id, f.source, 0)'
  <2>1. Attended(f.id, f.source, 0)
    BY <1>t DEF AllAttended
  <2> QED BY <1>t, <1>w, <1>1, <1>4, <2>1, TailBehind DEF Attended
<1>5. uplink' \subseteq Nat /\ follows' \subseteq [id : Nat \ {0}, source : Sources]
      /\ \A f \in follows' : Attended(f.id, f.source, 0)'
  <2>1. CASE fr \in Starts
    <3>1. fr.type = "start" /\ fr.id \in Nat \ {0} /\ fr.source \in Sources
          /\ \A f \in follows : Attended(f.id, f.source, 0)'
      BY <1>4, <2>1, FramesOfBox DEF FollowsKept, FollowTypes
    <3>2. Attended(fr.id, fr.source, 0)'
      <4>1. Attended(fr.id, fr.source, 1)
        BY <1>t, <1>2, <2>1 DEF AllAttended
      <4>2. Behind(fr.id, 0 + 1) => Behind(fr.id, 0)'
        BY <1>t, TailBehind
      <4> QED BY <1>w, <4>1, <4>2 DEF Attended
    <3>3. /\ follows' \subseteq follows \cup {[id |-> fr.id, source |-> fr.source]}
          /\ uplink' \subseteq uplink \cup {fr.id}
      BY <1>1, <3>1 DEF TakesFrame
    <3> QED BY <1>t, <3>1, <3>2, <3>3 DEF FollowTypes
  <2>2. CASE fr \in Stops
    <3>1. fr.type = "stop" /\ \A f \in follows : f.id # fr.id => fr # StopFrame(f.id)
      BY <2>2, FramesOfBox DEF FollowsKept, FollowTypes, StopFrame
    <3>2. follows' = {g \in follows : g.id # fr.id} /\ UNCHANGED uplink
      BY <1>1, <3>1 DEF TakesFrame
    <3> QED BY <1>t, <1>4, <3>1, <3>2 DEF FollowTypes
  <2> QED BY <2>1, <2>2 DEF Down
<1>6. downlink' \in Seq(Down)
  BY <1>t, TailBehind
<1>7. FollowTypes' /\ StreamsJoined'
  BY <1>t, <1>w, <1>5, <1>6 DEF FollowTypes, StreamsJoined, Streaming
<1>8. LinkClean' /\ AllAttended'
  BY <1>t, <1>3, <1>5 DEF LinkClean, AllAttended
<1> QED BY <1>7, <1>8 DEF FollowsKept

LEMMA BoxKeepsFollows ==
  ASSUME FollowsKept, NEW f \in follows, LogWrites(f) \/ FollowEnds(f)
  PROVE  FollowsKept'
<1>1. /\ UNCHANGED <<panels, streams, link, downlink, streamIds>>
      /\ follows' \subseteq follows /\ uplink' \subseteq uplink \cup {f.id}
      /\ FollowTypes /\ StreamsJoined /\ f.id \in Nat
  BY DEF LogWrites, FollowEnds, FollowsKept, FollowTypes
<1>2. /\ \A s : Subscribers(s)' = Subscribers(s)
      /\ \A id, s : Watched(id, s)' = Watched(id, s)
  BY <1>1 DEF Watched, Subscribers
<1>3. LinkClean' /\ AllAttended'
  BY <1>1, <1>2, StaysAttended
<1>4. FollowTypes' /\ StreamsJoined'
  BY <1>1, <1>2 DEF FollowTypes, StreamsJoined, Streaming
<1> QED BY <1>3, <1>4 DEF FollowsKept

LEMMA StepKeepsFollows == FollowsKept /\ [FollowNext]_followVars => FollowsKept'
<1> SUFFICES ASSUME FollowsKept, [FollowNext]_followVars PROVE FollowsKept'
  OBVIOUS
<1>1. CASE UNCHANGED followVars
  BY <1>1
  DEF followVars, FollowsKept, FollowTypes, StreamsJoined, LinkClean, AllAttended, Attended,
      Watched, Behind, Subscribers, Streaming
<1> QED BY <1>1, OpenKeepsFollows, CloseKeepsFollows, RenewKeepsFollows, LinesKeepFollows,
        LinkKeepsFollows, TakeKeepsFollows, BoxKeepsFollows DEF FollowNext

\* What a box follows somebody watches, or its stop is on the way or the session
\* about to end, however panels open and close, sessions come and go and frames
\* are lost, for any number of panels, sources and streams.
THEOREM FollowsAreForSomebody == FollowSpec => []FollowsAreWatched
<1>1. FollowInit => FollowsKept
  <2> SUFFICES ASSUME FollowInit PROVE FollowsKept
    OBVIOUS
  <2>1. FollowTypes
    BY EmptySeq DEF FollowInit, FollowTypes, NoStream
  <2>2. StreamsJoined
    BY FollowAssumption
    DEF FollowInit, StreamsJoined, Streaming, Subscribers, NoStream, NotWatching, FollowAssumption
  <2>3. LinkClean /\ AllAttended
    BY DEF FollowInit, LinkClean, AllAttended
  <2> QED BY <2>1, <2>2, <2>3 DEF FollowsKept
<1>2. FollowsKept => FollowsAreWatched
  BY DEF FollowsKept, AllAttended, Attended, Watched, Behind, FollowsAreWatched
<1> QED BY <1>1, <1>2, StepKeepsFollows, PTL DEF FollowSpec


-----------------------------------------------------------------------------
(* Log bundles: the files.                                                  *)

Newer(b) == {a \in Bundles : a > b /\ RowKept(a)}

RowStates == {"none", "PENDING", "READY", "FAILED", "gone"}

ShelfTypes ==
  /\ rows \in [Bundles -> RowStates]
  /\ route \in [Bundles -> {"none", "receives", "landed", "prunes", "deletes"}]
  /\ doomed \in [Bundles -> SUBSET Bundles] /\ paths \subseteq Bundles

\* Bundles are asked for in order.
RowsInOrder == \A a, b \in Bundles : b < a /\ rows[a] # "none" => rows[b] # "none"

\* An upload is of a row without a path, and what has landed is there.
UploadsAreNew ==
  /\ \A b \in paths : rows[b] \notin {"none", "PENDING"}
  /\ \A b \in Bundles : route[b] \in {"receives", "landed"} => b \notin paths
  /\ \A b \in Bundles : route[b] = "landed" => b \in zips

\* A prune that takes a row takes every row behind it.
DoomIsDeep(c) == \A a \in doomed[c] :
  /\ rows[a] # "none"
  /\ \A b \in Bundles : b < a /\ RowKept(b) => b \in doomed[c]

FilesKept ==
  /\ ShelfTypes /\ RowsInOrder /\ UploadsAreNew
  /\ \A c \in Bundles : DoomIsDeep(c)
  /\ NewestHaveFiles

LEMMA NewerIsFinite ==
  ASSUME NEW b \in Bundles
  PROVE  /\ IsFiniteSet(Newer(b)) /\ Cardinality(Newer(b)) \in Nat
         /\ \A S \in SUBSET Newer(b) : Cardinality(S) \in Nat /\ Cardinality(S) <= Cardinality(Newer(b))
<1>1. IsFiniteSet(Bundles)
  BY BundleAssumption, FS_Interval DEF BundleAssumption, Bundles
<1>2. IsFiniteSet(Newer(b))
  BY <1>1, FS_Subset DEF Newer
<1> QED BY <1>2, FS_Subset, FS_CardinalityType

\* A READY row without its file was one before, and as far down the list.
LEMMA FilesStay ==
  ASSUME NewestHaveFiles,
         \A b \in Bundles : rows'[b] = "READY" =>
           \/ b \in zips'
           \/ /\ rows[b] = "READY" /\ b \notin zips
              /\ \A a \in Newer(b) : RowKept(a)'
  PROVE  NewestHaveFiles'
<1> SUFFICES ASSUME NEW b \in Bundles, rows'[b] = "READY", Cardinality(Newer(b)') < Keep, b \notin zips'
             PROVE  FALSE
  BY DEF NewestHaveFiles, Newer
<1>1. rows[b] = "READY" /\ b \notin zips /\ \A a \in Newer(b) : RowKept(a)'
  OBVIOUS
<1>2. Newer(b) \subseteq Newer(b)'
  BY <1>1 DEF Newer
<1>3. /\ Cardinality(Newer(b)) \in Nat /\ Cardinality(Newer(b)') \in Nat
      /\ Cardinality(Newer(b)) <= Cardinality(Newer(b)')
  <2>1. IsFiniteSet(Bundles)
    BY BundleAssumption, FS_Interval DEF BundleAssumption, Bundles
  <2>2. IsFiniteSet(Newer(b)') /\ Newer(b)' \subseteq Bundles
    <3>1. Newer(b)' \subseteq Bundles
      BY DEF Newer
    <3> QED BY <2>1, <3>1, FS_Subset
  <2> QED BY <1>2, <2>2, NewerIsFinite, FS_Subset, FS_CardinalityType
<1>4. Cardinality(Newer(b)) < Keep
  BY <1>3, BundleAssumption DEF BundleAssumption
<1> QED BY <1>1, <1>4 DEF NewestHaveFiles, Newer

\* The rows that are kept, and the rows there are, stay; rows may be rewritten.
LEMMA RewriteKeepsFiles ==
  ASSUME FilesKept, ShelfTypes', UploadsAreNew',
         \A b \in Bundles : /\ (rows'[b] = "none") = (rows[b] = "none")
                            /\ RowKept(b)' = RowKept(b)
                            /\ doomed'[b] \in {doomed[b], {}}
                            /\ rows'[b] = "READY" /\ b \notin zips' => rows[b] = "READY" /\ b \notin zips
  PROVE  FilesKept'
<1>1. RowsInOrder'
  BY DEF FilesKept, RowsInOrder
<1>2. ASSUME NEW c \in Bundles PROVE DoomIsDeep(c)'
  <2>1. CASE doomed'[c] = {}
    BY <2>1 DEF DoomIsDeep
  <2>2. CASE doomed'[c] = doomed[c]
    <3>1. doomed[c] \subseteq Bundles /\ DoomIsDeep(c)
      BY DEF FilesKept, ShelfTypes
    <3> QED BY <2>2, <3>1 DEF DoomIsDeep
  <2> QED BY <2>1, <2>2
<1>3. NewestHaveFiles'
  <2>1. \A b \in Bundles : \A a \in Newer(b) : RowKept(a)'
    BY DEF Newer
  <2> QED BY <2>1, FilesStay DEF FilesKept
<1> QED BY <1>1, <1>2, <1>3 DEF FilesKept


LEMMA RequestKeepsFiles ==
  ASSUME FilesKept, NEW b \in Bundles, NEW sent \in BOOLEAN, RequestsBundle(b, sent)
  PROVE  FilesKept'
<1>1. /\ rows[b] = "none" /\ \A a \in 1..b - 1 : rows[a] # "none"
      /\ rows' = [rows EXCEPT ![b] = IF sent THEN "PENDING" ELSE "FAILED"]
      /\ UNCHANGED <<paths, zips, route, doomed>>
      /\ ShelfTypes /\ RowsInOrder /\ UploadsAreNew
  BY DEF RequestsBundle, FilesKept
<1>2. /\ rows'[b] \in {"PENDING", "FAILED"}
      /\ \A a \in Bundles : a # b => rows'[a] = rows[a]
      /\ rows' \in [Bundles -> RowStates]
  BY <1>1 DEF ShelfTypes, RowStates
<1>3. RowsInOrder'
  <2> SUFFICES ASSUME NEW a \in Bundles, NEW c \in Bundles, c < a, rows'[a] # "none"
               PROVE  rows'[c] # "none"
    BY DEF RowsInOrder
  <2>1. CASE a # b
    BY <1>1, <1>2, <2>1 DEF RowsInOrder
  <2>2. CASE a = b
    BY <1>1, <1>2, <2>2, BundleAssumption DEF Bundles, BundleAssumption
  <2> QED BY <2>1, <2>2
<1>4. ShelfTypes' /\ UploadsAreNew'
  <2>1. ShelfTypes'
    BY <1>1, <1>2 DEF ShelfTypes
  <2>2. b \notin paths
    BY <1>1 DEF UploadsAreNew
  <2>3. \A c \in paths : rows'[c] \notin {"none", "PENDING"}
    <3> SUFFICES ASSUME NEW c \in paths PROVE rows'[c] \notin {"none", "PENDING"}
      OBVIOUS
    <3>1. c # b /\ rows[c] \notin {"none", "PENDING"}
      BY <1>1, <2>2 DEF UploadsAreNew
    <3> QED BY <1>1, <3>1 DEF ShelfTypes
  <2> QED BY <1>1, <2>1, <2>3 DEF UploadsAreNew
<1>5. ASSUME NEW c \in Bundles PROVE DoomIsDeep(c)'
  <2>1. doomed'[c] \subseteq Bundles /\ DoomIsDeep(c) /\ doomed'[c] = doomed[c]
    BY <1>1 DEF FilesKept, ShelfTypes
  <2> SUFFICES ASSUME NEW a \in doomed[c]
               PROVE  /\ rows'[a] # "none"
                      /\ \A d \in Bundles : d < a /\ RowKept(d)' => d \in doomed[c]
    BY <2>1 DEF DoomIsDeep
  <2>2. rows[a] # "none" /\ a # b /\ a \in Bundles
    BY <1>1, <2>1 DEF DoomIsDeep
  <2>3. ASSUME NEW d \in Bundles, d < a, RowKept(d)' PROVE d \in doomed[c]
    <3>1. rows[d] # "none" /\ d # b
      BY <1>1, <2>2, <2>3 DEF RowsInOrder
    <3>2. RowKept(d)
      BY <1>2, <2>3, <3>1 DEF RowKept
    <3> QED BY <2>1, <2>3, <3>2 DEF DoomIsDeep
  <2> QED BY <1>2, <2>2, <2>3
<1>6. NewestHaveFiles'
  <2>1. \A c \in Bundles : rows'[c] = "READY" => rows[c] = "READY" /\ c # b
    BY <1>2
  <2>2. \A c \in Bundles : \A a \in Newer(c) : RowKept(a)'
    BY <1>1, <1>2 DEF Newer, RowKept
  <2> QED BY <1>1, <2>1, <2>2, FilesStay DEF FilesKept
<1> QED BY <1>3, <1>4, <1>5, <1>6 DEF FilesKept

\* What an upload, a timer or a report makes of one row.
LEMMA OneRowKeepsFiles ==
  ASSUME FilesKept, NEW b \in Bundles, NEW state \in {"FAILED", "READY"},
         UNCHANGED doomed,
         UNCHANGED rows \/ Written(b, state),
         state = "READY" /\ RowKept(b) => b \in zips',
         zips \subseteq zips',
         ShelfTypes', UploadsAreNew'
  PROVE  FilesKept'
<1>1. ASSUME NEW c \in Bundles
      PROVE  /\ (rows'[c] = "none") = (rows[c] = "none")
             /\ RowKept(c)' = RowKept(c)
             /\ rows'[c] = "READY" => c \in zips' \/ rows[c] = "READY"
  <2>1. rows \in [Bundles -> RowStates]
    BY DEF FilesKept, ShelfTypes
  <2>2. CASE UNCHANGED rows
    BY <2>2 DEF RowKept
  <2>3. CASE Written(b, state) /\ c = b
    BY <2>1, <2>3 DEF RowKept, Written
  <2>4. CASE Written(b, state) /\ c # b
    BY <2>1, <2>4 DEF RowKept, Written
  <2> QED BY <2>2, <2>3, <2>4
<1> QED BY <1>1, RewriteKeepsFiles


LEMMA UploadKeepsFiles ==
  ASSUME FilesKept, NEW b \in Bundles,
         \/ CollectTimesOut(b) \/ UploadBegins(b) \/ UploadLands(b) \/ UploadFails(b)
         \/ AnswerLost(b) \/ WaiterTold(b)
         \/ \E how \in {"uploads", "reports", "none"} : Collects(b, how)
         \/ \E arrives \in BOOLEAN : Reports(b, arrives)
  PROVE  FilesKept'
<1>1. /\ ShelfTypes /\ UploadsAreNew
      /\ UNCHANGED <<paths, doomed>>
  BY DEF FilesKept, CollectTimesOut, UploadBegins, UploadLands, UploadFails, AnswerLost,
         WaiterTold, Collects, Reports
<1>2. UNCHANGED rows \/ Written(b, "FAILED")
  BY DEF CollectTimesOut, UploadBegins, UploadLands, UploadFails, AnswerLost, WaiterTold,
         Collects, Reports
<1>3. \/ UNCHANGED <<route, zips>>
      \/ /\ rows[b] = "PENDING" /\ route' = [route EXCEPT ![b] = "receives"] /\ UNCHANGED zips
      \/ /\ route[b] = "receives" /\ route' = [route EXCEPT ![b] = "landed"]
         /\ zips' = zips \cup {b}
      \/ /\ route' = [route EXCEPT ![b] = "none"] /\ UNCHANGED zips
  BY DEF CollectTimesOut, UploadBegins, UploadLands, UploadFails, AnswerLost, WaiterTold,
         Collects, Reports
<1>4. ShelfTypes'
  <2>1. rows' \in [Bundles -> RowStates]
    BY <1>1, <1>2 DEF ShelfTypes, RowStates, Written
  <2>2. route' \in [Bundles -> {"none", "receives", "landed", "prunes", "deletes"}]
    BY <1>1, <1>3 DEF ShelfTypes
  <2> QED BY <1>1, <2>1, <2>2 DEF ShelfTypes
<1>5. \A c \in paths : rows'[c] \notin {"none", "PENDING"}
  <2> SUFFICES ASSUME NEW c \in paths PROVE rows'[c] \notin {"none", "PENDING"}
    OBVIOUS
  <2>1. rows[c] \notin {"none", "PENDING"} /\ rows \in [Bundles -> RowStates]
    BY <1>1 DEF UploadsAreNew, ShelfTypes
  <2>2. CASE UNCHANGED rows
    BY <2>1, <2>2
  <2>3. CASE Written(b, "FAILED")
    BY <2>1, <2>3 DEF Written
  <2> QED BY <1>2, <2>2, <2>3
<1>6. ASSUME NEW c \in Bundles
      PROVE  /\ route'[c] \in {"receives", "landed"} => c \notin paths
             /\ route'[c] = "landed" => c \in zips'
  <2>1. /\ route \in [Bundles -> {"none", "receives", "landed", "prunes", "deletes"}]
        /\ route[c] \in {"receives", "landed"} => c \notin paths
        /\ route[c] = "landed" => c \in zips
        /\ rows[b] = "PENDING" => b \notin paths
    BY <1>1 DEF ShelfTypes, UploadsAreNew
  <2>2. CASE c = b
    BY <1>3, <2>1, <2>2
  <2>3. CASE c # b
    BY <1>3, <2>1, <2>3
  <2> QED BY <2>2, <2>3
<1>7. UploadsAreNew'
  BY <1>1, <1>5, <1>6 DEF UploadsAreNew
<1>8. zips \subseteq zips'
  BY <1>3
<1> QED BY <1>1, <1>2, <1>4, <1>7, <1>8, OneRowKeepsFiles

LEMMA CompleteKeepsFiles ==
  ASSUME FilesKept, NEW b \in Bundles, Completes(b)
  PROVE  FilesKept'
<1>1. /\ ShelfTypes /\ UploadsAreNew
      /\ route[b] = "landed" /\ b \in zips
      /\ Written(b, "READY") /\ UNCHANGED <<zips, doomed>>
      /\ paths' = IF RowKept(b) THEN paths \cup {b} ELSE paths
      /\ \/ route' = [route EXCEPT ![b] = "prunes"]
         \/ route' = [route EXCEPT ![b] = "none"]
  BY DEF FilesKept, UploadsAreNew, Completes
<1>2. ShelfTypes'
  <2>1. rows' \in [Bundles -> RowStates]
    BY <1>1 DEF ShelfTypes, RowStates, Written
  <2> QED BY <1>1, <2>1 DEF ShelfTypes
<1>3. \A c \in paths' : rows'[c] \notin {"none", "PENDING"}
  <2> SUFFICES ASSUME NEW c \in paths' PROVE rows'[c] \notin {"none", "PENDING"}
    OBVIOUS
  <2>1. rows \in [Bundles -> RowStates] /\ (c = b => RowKept(b) \/ b \in paths)
    BY <1>1 DEF ShelfTypes
  <2>2. CASE c = b
    BY <1>1, <2>1, <2>2 DEF Written, RowKept, UploadsAreNew
  <2>3. CASE c # b
    BY <1>1, <2>1, <2>3 DEF Written, UploadsAreNew
  <2> QED BY <2>2, <2>3
<1>4. ASSUME NEW c \in Bundles
      PROVE  /\ route'[c] \in {"receives", "landed"} => c \notin paths'
             /\ route'[c] = "landed" => c \in zips'
  <2>1. CASE c = b
    BY <1>1, <2>1 DEF ShelfTypes
  <2>2. CASE c # b
    BY <1>1, <2>2 DEF ShelfTypes, UploadsAreNew
  <2> QED BY <2>1, <2>2
<1>5. UploadsAreNew'
  BY <1>3, <1>4 DEF UploadsAreNew
<1> QED BY <1>1, <1>2, <1>5, OneRowKeepsFiles

LEMMA PruneReadKeepsFiles ==
  ASSUME FilesKept, NEW b \in Bundles, PruneReads(b)
  PROVE  FilesKept'
<1> DEFINE all == {a \in Bundles : RowKept(a) /\ Cardinality(BeforeInList(a)) >= Keep}
<1>1. /\ ShelfTypes /\ UploadsAreNew /\ RowsInOrder /\ NewestHaveFiles
      /\ doomed' = [doomed EXCEPT ![b] = all]
      /\ zips' = zips \ (all \cap paths)
      /\ route' = [route EXCEPT ![b] = "deletes"]
      /\ UNCHANGED <<paths, rows>>
  BY DEF PruneReads, FilesKept
<1>2. ShelfTypes' /\ RowsInOrder'
  BY <1>1 DEF ShelfTypes, RowsInOrder
<1>3. UploadsAreNew'
  <2>1. ASSUME NEW c \in Bundles
        PROVE  /\ route'[c] \in {"receives", "landed"} => c \notin paths
               /\ route'[c] = "landed" => c \in zips'
    BY <1>1 DEF ShelfTypes, UploadsAreNew
  <2> QED BY <1>1, <2>1 DEF UploadsAreNew
<1>4. ASSUME NEW c \in Bundles PROVE DoomIsDeep(c)'
  <2>1. CASE c # b
    BY <1>1, <2>1 DEF ShelfTypes, FilesKept, DoomIsDeep, RowKept
  <2>2. ASSUME NEW a \in all, NEW d \in Bundles, d < a, RowKept(d) PROVE d \in all
    <3>1. Newer(a) \subseteq Newer(d) /\ a \in Bundles /\ Cardinality(Newer(a)) >= Keep
      BY <2>2 DEF Newer, BeforeInList, Bundles
    <3>2. Cardinality(Newer(d)) >= Keep
      BY <3>1, NewerIsFinite, BundleAssumption DEF BundleAssumption
    <3> QED BY <2>2, <3>2 DEF Newer, BeforeInList
  <2>3. doomed'[b] = all
    BY <1>1 DEF ShelfTypes
  <2>4. \A a \in all : rows'[a] # "none"
    BY <1>1 DEF RowKept
  <2>5. \A a \in all : \A d \in Bundles : d < a /\ RowKept(d)' => d \in all
    BY <1>1, <2>2 DEF RowKept
  <2>6. CASE c = b
    BY <2>3, <2>4, <2>5, <2>6 DEF DoomIsDeep
  <2> QED BY <2>1, <2>6
<1>5. NewestHaveFiles'
  <2> SUFFICES ASSUME NEW c \in Bundles, rows[c] = "READY", Cardinality(Newer(c)) < Keep
               PROVE  c \in zips'
    BY <1>1 DEF NewestHaveFiles, Newer, RowKept
  <2>1. c \in zips
    BY <1>1 DEF NewestHaveFiles, Newer
  <2>2. ~(Cardinality(Newer(c)) >= Keep)
    BY NewerIsFinite, BundleAssumption DEF BundleAssumption
  <2>3. BeforeInList(c) = Newer(c)
    BY DEF Newer, BeforeInList
  <2>4. c \notin all
    BY <2>2, <2>3
  <2> QED BY <1>1, <2>1, <2>4
<1> QED BY <1>2, <1>3, <1>4, <1>5 DEF FilesKept

LEMMA PruneDeleteKeepsFiles ==
  ASSUME FilesKept, NEW b \in Bundles, PruneDeletes(b)
  PROVE  FilesKept'
<1>1. /\ ShelfTypes /\ UploadsAreNew /\ RowsInOrder /\ \A c \in Bundles : DoomIsDeep(c)
      /\ rows' = [a \in Bundles |-> IF a \in doomed[b] THEN "gone" ELSE rows[a]]
      /\ doomed' = [doomed EXCEPT ![b] = {}]
      /\ route' = [route EXCEPT ![b] = "none"]
      /\ UNCHANGED <<paths, zips>>
  BY DEF PruneDeletes, FilesKept
<1>2. ASSUME NEW a \in Bundles
      PROVE  /\ (rows'[a] = "none") = (rows[a] = "none")
             /\ rows'[a] = "PENDING" => rows[a] = "PENDING"
             /\ RowKept(a)' => RowKept(a)
  BY <1>1 DEF RowKept, DoomIsDeep
<1>3. ShelfTypes' /\ RowsInOrder'
  <2>1. rows' \in [Bundles -> RowStates]
    BY <1>1 DEF ShelfTypes, RowStates
  <2> QED BY <1>1, <1>2, <2>1 DEF ShelfTypes, RowsInOrder
<1>4. UploadsAreNew'
  <2>1. ASSUME NEW c \in Bundles
        PROVE  /\ route'[c] \in {"receives", "landed"} => c \notin paths
               /\ route'[c] = "landed" => c \in zips
    BY <1>1 DEF ShelfTypes, UploadsAreNew
  <2> QED BY <1>1, <1>2, <2>1 DEF ShelfTypes, UploadsAreNew
<1>5. ASSUME NEW c \in Bundles PROVE DoomIsDeep(c)'
  <2>1. /\ doomed'[c] \in {doomed[c], {}} /\ doomed[c] \subseteq Bundles /\ DoomIsDeep(c)
    BY <1>1 DEF ShelfTypes
  <2> QED BY <1>2, <2>1 DEF DoomIsDeep
<1>6. NewestHaveFiles'
  <2>1. ASSUME NEW c \in Bundles, rows'[c] = "READY"
        PROVE  rows[c] = "READY" /\ \A a \in Newer(c) : RowKept(a)'
    <3>1. rows[c] = "READY" /\ c \notin doomed[b] /\ RowKept(c)
      BY <1>1, <2>1 DEF RowKept
    <3>2. \A a \in Newer(c) : a \notin doomed[b]
      BY <1>1, <3>1 DEF Newer, DoomIsDeep
    <3> QED BY <1>1, <3>1, <3>2 DEF Newer, RowKept
  <2> QED BY <1>1, <2>1, FilesStay DEF FilesKept
<1> QED BY <1>3, <1>4, <1>5, <1>6 DEF FilesKept


LEMMA StepKeepsFiles == FilesKept /\ [BundleNext]_bundleVars => FilesKept'
<1> SUFFICES ASSUME FilesKept, [BundleNext]_bundleVars PROVE FilesKept'
  OBVIOUS
<1>1. CASE UNCHANGED bundleVars
  BY <1>1 DEF bundleVars, FilesKept, ShelfTypes, RowsInOrder, UploadsAreNew, DoomIsDeep, RowKept,
              NewestHaveFiles
<1>2. CASE HubDies
  <2>1. /\ UNCHANGED <<rows, paths, zips>>
        /\ route' = [b \in Bundles |-> "none"] /\ doomed' = [b \in Bundles |-> {}]
        /\ ShelfTypes /\ UploadsAreNew
    BY <1>2 DEF HubDies, FilesKept
  <2>2. ShelfTypes' /\ UploadsAreNew'
    BY <2>1 DEF ShelfTypes, UploadsAreNew
  <2> QED BY <2>1, <2>2, RewriteKeepsFiles DEF RowKept
<1> QED BY <1>1, <1>2, RequestKeepsFiles, UploadKeepsFiles, CompleteKeepsFiles,
        PruneReadKeepsFiles, PruneDeleteKeepsFiles DEF BundleNext

\* What the panel offers for download is on disk, whatever uploads, timers, prunes
\* and restarts of the hub overlap, for any number of bundles and of files kept.
THEOREM OfferedIsOnDisk == BundleSpec => []NewestHaveFiles
<1>1. BundleInit => FilesKept
  BY DEF BundleInit, FilesKept, ShelfTypes, RowStates, RowsInOrder, UploadsAreNew, DoomIsDeep,
         NewestHaveFiles
<1>2. FilesKept => NewestHaveFiles
  BY DEF FilesKept
<1> QED BY <1>1, <1>2, StepKeepsFiles, PTL DEF BundleSpec

-----------------------------------------------------------------------------
(* What is asked is answered once.                                          *)

CommandsKept ==
  /\ calls \in [Commands -> {"none", "asked", "ok", "failed"}]
  /\ waiting \subseteq Commands
  /\ \A c \in waiting : calls[c] = "asked"

AnswersKept ==
  /\ asks \in [Bundles -> {"none", "asked", "ok", "failed"}]
  /\ pending \subseteq Bundles
  /\ \A b \in pending : asks[b] = "asked"
  /\ \A b \in Bundles : rows[b] = "none" => asks[b] = "none"
  /\ rows \in [Bundles -> RowStates]
  /\ heard \in [Bundles -> Seq(CommandAnswer!Outcomes)]

\* One answer to a command, or nothing.
LEMMA CommandStepAnswers ==
  ASSUME CommandsKept, [CommandNext]_commandVars
  PROVE  CommandsKept' /\ [CommandAnswer!OANext]_calls
<1>1. CASE UNCHANGED <<calls, waiting>>
  BY <1>1 DEF CommandsKept
<1>2. ASSUME NEW c \in Commands, NEW how \in {"ok", "failed"}, c \in waiting, Resolved(c, how)
      PROVE  CommandsKept' /\ CommandAnswer!Settled(c)
  <2>1. calls[c] = "asked" /\ calls' = [calls EXCEPT ![c] = how] /\ waiting' = waiting \ {c}
    BY <1>2 DEF CommandsKept, Resolved
  <2> QED BY <2>1 DEF CommandsKept, CommandAnswer!Settled, CommandAnswer!Outcomes
<1>3. ASSUME NEW c \in Commands, Executes(c)
      PROVE  CommandsKept' /\ (CommandAnswer!Asked(c) \/ CommandAnswer!Refused(c))
  <2>1. CASE wire.hub
    BY <1>3, <2>1 DEF Executes, CommandsKept, CommandAnswer!Asked
  <2>2. CASE ~wire.hub
    BY <1>3, <2>2 DEF Executes, CommandsKept, CommandAnswer!Refused
  <2> QED BY <2>1, <2>2
<1>4. CASE HubGone
  <2>1. /\ \E c \in Commands : calls[c] = "asked"
        /\ calls' = [c \in Commands |-> IF calls[c] = "asked" THEN "failed" ELSE calls[c]]
        /\ waiting' = {}
    BY <1>4 DEF HubGone, CommandsKept
  <2> QED BY <2>1 DEF CommandsKept, CommandAnswer!Broken, CommandAnswer!OANext
<1>5. ASSUME NEW c \in Commands, TimerFires(c) PROVE CommandsKept' /\ CommandAnswer!Settled(c)
  BY <1>2, <1>5 DEF TimerFires, TimerRuns
<1>6. ASSUME NEW c \in Commands, NEW how \in {"ok", "failed"}, AnswerComes(c, how)
      PROVE  CommandsKept' /\ (CommandAnswer!Settled(c) \/ UNCHANGED calls)
  BY <1>1, <1>2, <1>6 DEF AnswerComes
<1>7. ASSUME \/ WireBreaks \/ CloseSeen \/ BoxReturns \/ BoxReboots \/ UNCHANGED commandVars
             \/ \E c \in Commands : ShellStarts(c) \/ ShellEnds(c)
      PROVE  UNCHANGED <<calls, waiting>>
  BY <1>7 DEF WireBreaks, CloseSeen, BoxReturns, BoxReboots, ShellStarts, ShellEnds, commandVars
<1> QED BY <1>1, <1>3, <1>4, <1>5, <1>6, <1>7 DEF CommandNext, CommandAnswer!OANext

\* A command the dashboard sends a box is answered at most once, by the box, by the
\* timer or by the hub going down, and the answer is never taken back, whatever
\* the wire loses and whenever the box answers.
THEOREM CommandsAreAnsweredOnce == CommandSpec => CommandAnswer!OASafety
<1>1. CommandInit => CommandsKept /\ CommandAnswer!OAInit
  BY DEF CommandInit, CommandsKept, CommandAnswer!OAInit
<1> QED BY <1>1, CommandStepAnswers, PTL DEF CommandSpec, CommandAnswer!OASafety

LEMMA BundleStepAnswers ==
  ASSUME AnswersKept, [BundleNext]_bundleVars
  PROVE  AnswersKept' /\ [BundleAnswer!OANext]_asks
<1>1. CASE UNCHANGED bundleVars
  BY <1>1 DEF AnswersKept, bundleVars
<1>2. ASSUME NEW b \in Bundles, NEW how \in {"ok", "failed"}, Told(b, how),
             \A a \in Bundles : rows'[a] = "none" => rows[a] = "none",
             rows' \in [Bundles -> RowStates], heard' \in [Bundles -> Seq(CommandAnswer!Outcomes)]
      PROVE  AnswersKept' /\ (BundleAnswer!Settled(b) \/ UNCHANGED asks)
  <2>1. CASE b \in pending
    <3>1. asks[b] = "asked" /\ asks' = [asks EXCEPT ![b] = how] /\ pending' = pending \ {b}
      BY <1>2, <2>1 DEF AnswersKept, Told
    <3> QED BY <1>2, <3>1 DEF AnswersKept, BundleAnswer!Settled, BundleAnswer!Outcomes
  <2>2. CASE b \notin pending
    <3>1. asks' = asks /\ pending' = pending
      BY <1>2, <2>2 DEF AnswersKept, Told
    <3> QED BY <1>2, <3>1 DEF AnswersKept
  <2> QED BY <2>1, <2>2
<1>3. ASSUME NEW b \in Bundles, NEW state \in RowStates \ {"none"}, Written(b, state)
      PROVE  /\ rows' \in [Bundles -> RowStates]
             /\ \A a \in Bundles : rows'[a] = "none" => rows[a] = "none"
  BY <1>3 DEF AnswersKept, Written
<1>4. ASSUME UNCHANGED <<asks, pending>>,
             \A a \in Bundles : rows'[a] = "none" => rows[a] = "none",
             rows' \in [Bundles -> RowStates], heard' \in [Bundles -> Seq(CommandAnswer!Outcomes)]
      PROVE  AnswersKept'
  BY <1>4 DEF AnswersKept
<1>5. ASSUME NEW b \in Bundles, NEW sent \in BOOLEAN, RequestsBundle(b, sent)
      PROVE  AnswersKept' /\ (BundleAnswer!Asked(b) \/ BundleAnswer!Refused(b))
  <2>1. asks[b] = "none" /\ rows[b] = "none" /\ UNCHANGED heard /\ b \notin pending
    BY <1>5 DEF RequestsBundle, AnswersKept
  <2>2. CASE sent = TRUE
    <3>1. /\ rows' = [rows EXCEPT ![b] = "PENDING"] /\ asks' = [asks EXCEPT ![b] = "asked"]
          /\ pending' = pending \cup {b}
      BY <1>5, <2>2 DEF RequestsBundle
    <3> QED BY <2>1, <3>1 DEF AnswersKept, RowStates, BundleAnswer!Asked
  <2>3. CASE sent = FALSE
    <3>1. /\ rows' = [rows EXCEPT ![b] = "FAILED"] /\ asks' = [asks EXCEPT ![b] = "failed"]
          /\ pending' = pending
      BY <1>5, <2>3 DEF RequestsBundle
    <3> QED BY <2>1, <3>1 DEF AnswersKept, RowStates, BundleAnswer!Refused
  <2> QED BY <2>2, <2>3
<1>6. ASSUME NEW b \in Bundles, CollectTimesOut(b)
      PROVE  AnswersKept' /\ (BundleAnswer!Settled(b) \/ UNCHANGED asks)
  <2>1. Told(b, "failed") /\ Written(b, "FAILED") /\ UNCHANGED heard
    BY <1>6 DEF CollectTimesOut
  <2> QED BY <1>2, <1>3, <2>1 DEF RowStates, AnswersKept
<1>7. ASSUME NEW b \in Bundles, WaiterTold(b)
      PROVE  AnswersKept' /\ (BundleAnswer!Settled(b) \/ UNCHANGED asks)
  <2>1. /\ heard[b] \in Seq(CommandAnswer!Outcomes) /\ heard[b] # <<>>
        /\ heard' = [heard EXCEPT ![b] = Tail(heard[b])] /\ UNCHANGED rows
        /\ Told(b, Head(heard[b]))
    BY <1>7 DEF WaiterTold, AnswersKept
  <2>2. Head(heard[b]) \in {"ok", "failed"} /\ Tail(heard[b]) \in Seq(CommandAnswer!Outcomes)
    BY <2>1, HeadTailProperties DEF CommandAnswer!Outcomes
  <2>3. heard' \in [Bundles -> Seq(CommandAnswer!Outcomes)]
    BY <2>1, <2>2 DEF AnswersKept
  <2> QED BY <1>2, <2>1, <2>2, <2>3 DEF AnswersKept
<1>8. ASSUME NEW b \in Bundles, NEW how \in {"ok", "failed"},
             heard' = heard \/ heard' = [heard EXCEPT ![b] = Append(@, how)]
      PROVE  heard' \in [Bundles -> Seq(CommandAnswer!Outcomes)]
  <2>1. Append(heard[b], how) \in Seq(CommandAnswer!Outcomes)
    BY AppendProperties DEF AnswersKept, CommandAnswer!Outcomes
  <2> QED BY <1>8, <2>1 DEF AnswersKept
<1>9. ASSUME NEW b \in Bundles,
             \/ UploadBegins(b) \/ UploadLands(b) \/ UploadFails(b) \/ AnswerLost(b)
             \/ Completes(b) \/ PruneReads(b)
             \/ \E yes \in BOOLEAN : Reports(b, yes)
             \/ \E how \in {"uploads", "reports", "none"} : Collects(b, how)
      PROVE  AnswersKept' /\ UNCHANGED asks
  <2>1. /\ UNCHANGED <<asks, pending>>
        /\ UNCHANGED rows \/ \E state \in {"FAILED", "READY"} : Written(b, state)
        /\ \E how \in {"ok", "failed"} : heard' = heard \/ heard' = [heard EXCEPT ![b] = Append(@, how)]
    BY <1>9 DEF UploadBegins, UploadLands, UploadFails, AnswerLost, Completes, PruneReads, Reports,
                Collects
  <2>2. /\ rows' \in [Bundles -> RowStates]
        /\ \A a \in Bundles : rows'[a] = "none" => rows[a] = "none"
    <3>1. CASE UNCHANGED rows
      BY <3>1 DEF AnswersKept
    <3>2. CASE \E state \in {"FAILED", "READY"} : Written(b, state)
      BY <1>3, <3>2 DEF RowStates
    <3> QED BY <2>1, <3>1, <3>2
  <2> QED BY <1>4, <1>8, <2>1, <2>2
<1>10. ASSUME NEW b \in Bundles, PruneDeletes(b) PROVE AnswersKept' /\ UNCHANGED asks
  <2>1. /\ UNCHANGED <<asks, pending, heard>>
        /\ rows' = [a \in Bundles |-> IF a \in doomed[b] THEN "gone" ELSE rows[a]]
    BY <1>10 DEF PruneDeletes
  <2> QED BY <1>4, <2>1 DEF AnswersKept, RowStates
<1>11. CASE HubDies
  <2>1. /\ asks' = [b \in Bundles |-> IF asks[b] = "asked" THEN "failed" ELSE asks[b]]
        /\ pending' = {} /\ heard' = [b \in Bundles |-> <<>>] /\ UNCHANGED rows
    BY <1>11 DEF HubDies
  <2>2. AnswersKept'
    <3>1. heard' \in [Bundles -> Seq(CommandAnswer!Outcomes)]
      BY <2>1, EmptySeq
    <3> QED BY <2>1, <3>1 DEF AnswersKept
  <2>3. CASE \E b \in Bundles : asks[b] = "asked"
    BY <2>1, <2>2, <2>3 DEF BundleAnswer!Broken, BundleAnswer!OANext
  <2>4. CASE ~\E b \in Bundles : asks[b] = "asked"
    BY <2>1, <2>2, <2>4 DEF AnswersKept
  <2> QED BY <2>3, <2>4
<1> QED BY <1>1, <1>5, <1>6, <1>7, <1>9, <1>10, <1>11 DEF BundleNext, BundleAnswer!OANext

\* A bundle the panel asked for is answered at most once, whichever of upload,
\* report, timer and restart comes first, and the answer is never taken back.
THEOREM BundlesAreAnsweredOnce == BundleSpec => BundleAnswer!OASafety
<1>1. BundleInit => AnswersKept /\ BundleAnswer!OAInit
  <2> SUFFICES ASSUME BundleInit PROVE AnswersKept /\ BundleAnswer!OAInit
    OBVIOUS
  <2>1. heard \in [Bundles -> Seq(CommandAnswer!Outcomes)]
    BY EmptySeq DEF BundleInit
  <2> QED BY <2>1 DEF BundleInit, AnswersKept, RowStates, BundleAnswer!OAInit
<1> QED BY <1>1, BundleStepAnswers, PTL DEF BundleSpec, BundleAnswer!OASafety
=============================================================================
