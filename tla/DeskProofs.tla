----------------------------- MODULE DeskProofs -----------------------------
(***************************************************************************)
(* Theorems about what a box installs, keeps and reports and about what    *)
(* the dashboard says to it, for any number of boxes, requests, rules and  *)
(* passes, and any length of the spans.                                    *)
(*                                                                         *)
(* The scenes of MCDesk share no state but the rule that is written and    *)
(* read; each has a specification, an inductive invariant and theorems of  *)
(* its own.                                                                *)
(***************************************************************************)
EXTENDS MCDesk, FiniteSetTheorems, TLAPS

InstallSpec == InstallInit /\ [][InstallNext]_installVars
SettingsSpec == SettingsInit /\ [][SettingsNext]_settingsVars
EnrollSpec == EnrollInit /\ [][EnrollNext]_enrollVars
RotomSpec == RotomInit /\ [][RotomNext]_rotomVars
SampleSpec == SampleInit /\ [][SampleNext]_sampleVars
WatchSpec == WatchInit /\ [][WatchNext]_watchVars
DeploySpec == DeployInit /\ [][DeployNext]_deployVars
HealthSpec == HealthInit /\ [][HealthNext]_healthVars
ReadingSpec == FormInit /\ ReadingInit /\ [][ReadingNext]_<<formVars, readingVars>>

\* A behaviour of the scenes is one of each component: what is proved of a
\* component alone holds of the scenes TLC plays; a rule is written as RuleForm
\* says and read as RuleReading says, each where the other rests.
THEOREM ScenesAreComponents ==
  Spec => /\ InstallSpec /\ SettingsSpec /\ EnrollSpec /\ RotomSpec /\ SampleSpec
          /\ WatchSpec /\ DeploySpec /\ HealthSpec /\ NamingSpec /\ TableSpec
          /\ [](scene = "form") => FormSpec
          /\ [](scene = "reading") => ReadingSpec
<1>1. Init => /\ InstallInit /\ SettingsInit /\ EnrollInit /\ RotomInit /\ SampleInit
              /\ WatchInit /\ DeployInit /\ HealthInit /\ NamingInit /\ TableInit
              /\ FormInit /\ ReadingInit
  BY DEF Init
<1>2. [Next]_vars =>
        /\ [InstallNext]_installVars /\ [SettingsNext]_settingsVars /\ [EnrollNext]_enrollVars
        /\ [RotomNext]_rotomVars /\ [SampleNext]_sampleVars /\ [WatchNext]_watchVars
        /\ [DeployNext]_deployVars /\ [HealthNext]_healthVars /\ [NamingNext]_namingVars
        /\ [TableNext]_tableVars
  BY DEF Next, vars
<1>3. scene = "reading" /\ [Next]_vars => [ReadingNext]_<<formVars, readingVars>>
  BY DEF Next, vars, Plays
<1>4. scene = "form" /\ [Next]_vars => [FormNext]_formVars
  BY DEF Next, vars, Plays
<1> QED BY <1>1, <1>2, <1>3, <1>4, PTL
  DEF Spec, InstallSpec, SettingsSpec, EnrollSpec, RotomSpec, SampleSpec, WatchSpec, DeploySpec,
      HealthSpec, NamingSpec, TableSpec, FormSpec, ReadingSpec

-----------------------------------------------------------------------------
(* The installer.                                                          *)

Places == {"idle", "space", "system", "prehook", "download", "receive", "extract", "wipe",
           "create", "write", "commit", "abandon", "fallback", "verify", "config", "done",
           "posthook", "cleanup"}

InstallTyped ==
  /\ DOMAIN install = {"at", "force", "config", "hooks", "stop", "try", "err", "ok", "wiped", "lost"}
  /\ DOMAIN app = {"version", "config"}
  /\ sessions \in Int /\ installs \in Nat

\* A scanner that is stopped is owed to a hook that is still to run.
ScannerIsOwed ==
  \/ scanner = "running" \/ mishap \cap {"death", "hook"} # {}
  \/ install.hooks /\ install.at \notin {"idle", "space", "system", "prehook", "cleanup"}

WipeIsTold == install.lost => install.wiped \/ install.stop

\* What an attempt that is going to say ok has done by then.
OkIsEarned ==
  /\ install.ok => install.at \in {"posthook", "cleanup", "idle"}
  /\ install.at = "config" => app.version = "new"
  /\ install.at = "done" => app.version = "new" /\ (install.config => app.config = "new")
  /\ install.at \in {"posthook", "cleanup"} /\ install.ok
       => /\ app.version = "new" /\ bundle = NoBundle
          /\ install.config => app.config = "new"

SessionsAreClosed ==
  /\ installs = 0 => sessions = 0 /\ install.at = "idle"
  /\ installs = 1 /\ mishap = {} /\ ~install.stop
       => sessions = IF install.at \in {"write", "commit", "abandon"} THEN 1 ELSE 0

InstallKept ==
  InstallTyped /\ ScannerIsOwed /\ WipeIsTold /\ OkIsEarned /\ SessionsAreClosed

LEMMA InstallBeginsWell == InstallInit => InstallKept
  BY DEF InstallInit, InstallKept, InstallTyped, ScannerIsOwed, WipeIsTold, OkIsEarned,
         SessionsAreClosed, Resting, NoBundle

\* Up to the download: nothing is installed, and only the hook may stop the scanner.
LEMMA BeforeDownload ==
  ASSUME InstallKept, NEW b \in BOOLEAN, ChecksSpace(b) \/ WaitsForSystem(b) \/ PreHook(b)
  PROVE  InstallKept'
<1>1. CASE ChecksSpace(b)
  <2>1. InstallTyped' /\ ScannerIsOwed' /\ WipeIsTold'
    BY <1>1 DEF ChecksSpace, Goes, FailsBeforeHook, InstallKept, InstallTyped, ScannerIsOwed,
       WipeIsTold
  <2>2. OkIsEarned'
    BY <1>1 DEF ChecksSpace, Goes, FailsBeforeHook, InstallKept, InstallTyped, OkIsEarned
  <2>3. SessionsAreClosed'
    BY <1>1 DEF ChecksSpace, Goes, FailsBeforeHook, InstallKept, InstallTyped, SessionsAreClosed
  <2> QED BY <2>1, <2>2, <2>3 DEF InstallKept
<1>2. CASE WaitsForSystem(b)
  <2>1. InstallTyped' /\ ScannerIsOwed' /\ WipeIsTold'
    BY <1>2 DEF WaitsForSystem, Goes, FailsBeforeHook, InstallKept, InstallTyped, ScannerIsOwed,
       WipeIsTold
  <2>2. OkIsEarned'
    BY <1>2 DEF WaitsForSystem, Goes, FailsBeforeHook, InstallKept, InstallTyped, OkIsEarned
  <2>3. SessionsAreClosed'
    BY <1>2 DEF WaitsForSystem, Goes, FailsBeforeHook, InstallKept, InstallTyped,
       SessionsAreClosed
  <2> QED BY <2>1, <2>2, <2>3 DEF InstallKept
<1>3. CASE PreHook(b)
  BY <1>3 DEF PreHook, Goes, InstallKept, InstallTyped, ScannerIsOwed,
     WipeIsTold, OkIsEarned, SessionsAreClosed
<1> QED BY <1>1, <1>2, <1>3

LEMMA WhileDownloading ==
  ASSUME InstallKept, NEW b \in BOOLEAN, NEW how \in {"ok", "unreadable", "unfit"},
         \/ DownloadAnswers(b) \/ Received(b) \/ FindsBundle \/ ChecksSum \/ DownloadFails
         \/ Extracts(how)
  PROVE  InstallKept'
<1>1. CASE DownloadAnswers(b)
  BY <1>1 DEF DownloadAnswers, Goes, InstallKept, InstallTyped, ScannerIsOwed,
     WipeIsTold, OkIsEarned, SessionsAreClosed
<1>2. CASE Received(b)
  BY <1>2 DEF Received, InstallKept, InstallTyped, ScannerIsOwed,
     WipeIsTold, OkIsEarned, SessionsAreClosed
<1>3. CASE FindsBundle \/ ChecksSum \/ DownloadFails
  BY <1>3, ZenonT(40) DEF FindsBundle, ChecksSum, DownloadFails, Goes, Fails, InstallKept, InstallTyped,
     ScannerIsOwed, WipeIsTold, OkIsEarned, SessionsAreClosed
<1>4. CASE Extracts(how)
  BY <1>4, ZenonT(40) DEF Extracts, Goes, Fails, InstallKept, InstallTyped, ScannerIsOwed,
     WipeIsTold, OkIsEarned, SessionsAreClosed
<1> QED BY <1>1, <1>2, <1>3, <1>4

\* What the package manager does with the job's context, and what it may have done
\* when that was cancelled.
LEMMA WhileInstalling ==
  ASSUME InstallKept, NEW a \in BOOLEAN, NEW b \in BOOLEAN,
         \/ ForceClean(a, b) \/ Fallback(a, b) \/ CreatesSession(b) \/ WritesSplits(b)
         \/ Abandons(b) \/ CommitUnheard
         \/ \E v \in {"new", "other"} : Commits(v)
         \/ \E err \in {"verifier", "incompatible", "other"} : CommitRefused(err)
  PROVE  InstallKept'
<1>1. CASE ForceClean(a, b)
  BY <1>1 DEF ForceClean, Uninstalls, Removed, AfterWipe, MayRun, InstallKept, InstallTyped,
     ScannerIsOwed, WipeIsTold, OkIsEarned, SessionsAreClosed
<1>2. CASE Fallback(a, b)
  BY <1>2 DEF Fallback, Uninstalls, Removed, AfterWipe, MayRun, InstallKept, InstallTyped,
     ScannerIsOwed, WipeIsTold, OkIsEarned, SessionsAreClosed
<1>3. CASE CreatesSession(b)
  <2>1. CASE b
    <3>1. sessions' = sessions + 1 /\ install' = [install EXCEPT !.at = "write"]
          /\ ~install.stop /\ install.at = "create"
      BY <1>3, <2>1 DEF CreatesSession, Goes, MayRun
    <3> QED BY <1>3, <3>1 DEF CreatesSession, InstallKept, InstallTyped, ScannerIsOwed, WipeIsTold,
              OkIsEarned, SessionsAreClosed
  <2>2. CASE ~b
    BY <1>3, <2>2 DEF CreatesSession, Fails, InstallKept, InstallTyped, ScannerIsOwed, WipeIsTold,
       OkIsEarned, SessionsAreClosed
  <2> QED BY <2>1, <2>2
<1>4. CASE WritesSplits(b)
  BY <1>4 DEF WritesSplits, MayRun, InstallKept, InstallTyped,
     ScannerIsOwed, WipeIsTold, OkIsEarned, SessionsAreClosed
<1>5. CASE Abandons(b)
  <2>1. /\ install.at = "abandon" /\ UNCHANGED <<bundle, app, scanner, installs>>
        /\ \/ install' = [install EXCEPT !.at = "fallback"]
           \/ install' = [install EXCEPT !.at = "posthook", !.ok = FALSE]
    BY <1>5 DEF Abandons, Goes, Fails
  <2>2. sessions' \in Int /\ mishap \subseteq mishap'
    BY <1>5 DEF Abandons, InstallKept, InstallTyped
  <2>3. mishap' = {} /\ ~install.stop /\ installs = 1 => sessions' = 0
    BY <1>5 DEF Abandons, MayRun, InstallKept, InstallTyped, SessionsAreClosed
  <2>4. installs # 0
    BY <2>1 DEF InstallKept, SessionsAreClosed
  <2>5. SessionsAreClosed'
    BY <2>1, <2>2, <2>3, <2>4 DEF InstallKept, InstallTyped, SessionsAreClosed
  <2>6. InstallTyped' /\ ScannerIsOwed' /\ WipeIsTold' /\ OkIsEarned'
    BY <2>1, <2>2 DEF InstallKept, InstallTyped, ScannerIsOwed, WipeIsTold, OkIsEarned
  <2> QED BY <2>5, <2>6 DEF InstallKept
<1>6. CASE CommitUnheard
  BY <1>6 DEF CommitUnheard, InstallKept, InstallTyped,
     ScannerIsOwed, WipeIsTold, OkIsEarned, SessionsAreClosed
<1>7. ASSUME NEW v \in {"new", "other"}, Commits(v) PROVE InstallKept'
  BY <1>7 DEF Commits, Goes, MayRun, InstallKept, InstallTyped,
     ScannerIsOwed, WipeIsTold, OkIsEarned, SessionsAreClosed
<1>8. ASSUME NEW err \in {"verifier", "incompatible", "other"}, CommitRefused(err)
      PROVE  InstallKept'
  BY <1>8 DEF CommitRefused, InstallKept, InstallTyped,
     ScannerIsOwed, WipeIsTold, OkIsEarned, SessionsAreClosed
<1> QED BY <1>1, <1>2, <1>3, <1>4, <1>5, <1>6, <1>7, <1>8

LEMMA WhileEnding ==
  ASSUME InstallKept, NEW b \in BOOLEAN,
         \/ Verifies(b) \/ WritesConfig(b) \/ InstallSucceeds \/ PostHook(b) \/ CleansUp
         \/ InstallStopped \/ BoxDies
         \/ \E f, c, h \in BOOLEAN : InstallBegins(f, c, h)
  PROVE  InstallKept'
<1>1. CASE Verifies(b)
  <2>1. InstallTyped' /\ ScannerIsOwed' /\ WipeIsTold'
    BY <1>1 DEF Verifies, Seen, Goes, Fails, InstallKept, InstallTyped, ScannerIsOwed, WipeIsTold
  <2>2. OkIsEarned'
    BY <1>1 DEF Verifies, Seen, Goes, Fails, InstallKept, InstallTyped, OkIsEarned
  <2>3. SessionsAreClosed'
    BY <1>1 DEF Verifies, Seen, Goes, Fails, InstallKept, InstallTyped, SessionsAreClosed
  <2> QED BY <2>1, <2>2, <2>3 DEF InstallKept
<1>2. CASE WritesConfig(b)
  BY <1>2, ZenonT(40) DEF WritesConfig, Goes, Fails, InstallKept, InstallTyped,
     ScannerIsOwed, WipeIsTold, OkIsEarned, SessionsAreClosed
<1>3. CASE InstallSucceeds
  BY <1>3 DEF InstallSucceeds, InstallKept, InstallTyped,
     ScannerIsOwed, WipeIsTold, OkIsEarned, SessionsAreClosed
<1>4. CASE PostHook(b)
  BY <1>4 DEF PostHook, HookMayRun, Goes, InstallKept, InstallTyped,
     ScannerIsOwed, WipeIsTold, OkIsEarned, SessionsAreClosed
<1>5. CASE CleansUp \/ InstallStopped
  BY <1>5 DEF CleansUp, InstallStopped, Goes, InstallKept, InstallTyped,
     ScannerIsOwed, WipeIsTold, OkIsEarned, SessionsAreClosed
<1>6. CASE BoxDies
  BY <1>6 DEF BoxDies, Resting, InstallKept, InstallTyped,
     ScannerIsOwed, WipeIsTold, OkIsEarned, SessionsAreClosed
<1>7. ASSUME NEW f \in BOOLEAN, NEW c \in BOOLEAN, NEW h \in BOOLEAN, InstallBegins(f, c, h)
      PROVE  InstallKept'
  <2>1. /\ install.at = "idle" /\ UNCHANGED <<bundle, app, scanner, sessions, mishap>>
        /\ install' = [at |-> "space", force |-> f, config |-> c, hooks |-> h, stop |-> FALSE,
                       try |-> 1, err |-> "none", ok |-> FALSE, wiped |-> FALSE, lost |-> FALSE]
    BY <1>7 DEF InstallBegins, Resting
  <2>2. installs' = installs + 1
    BY <1>7 DEF InstallBegins
  <2>3. SessionsAreClosed'
    BY <2>1, <2>2 DEF InstallKept, InstallTyped, SessionsAreClosed
  <2>4. InstallTyped'
    BY <2>1, <2>2 DEF InstallKept, InstallTyped
  <2>5. ScannerIsOwed' /\ WipeIsTold' /\ OkIsEarned'
    BY <2>1 DEF InstallKept, ScannerIsOwed, WipeIsTold, OkIsEarned
  <2> QED BY <2>3, <2>4, <2>5 DEF InstallKept
<1> QED BY <1>1, <1>2, <1>3, <1>4, <1>5, <1>6, <1>7

LEMMA StepKeepsInstall == InstallKept /\ [InstallNext]_installVars => InstallKept'
<1> SUFFICES ASSUME InstallKept, [InstallNext]_installVars PROVE InstallKept'
  OBVIOUS
<1>1. CASE UNCHANGED installVars
  BY <1>1 DEF installVars, InstallKept, InstallTyped, ScannerIsOwed, WipeIsTold, OkIsEarned,
     SessionsAreClosed
<1>2. CASE InstallStep
  BY <1>2, BeforeDownload, WhileDownloading, WhileInstalling, WhileEnding DEF InstallStep
<1> QED BY <1>1, <1>2, WhileEnding DEF InstallNext

\* A scanner that an install stopped runs again when the install is over, on every
\* way out of Run, also when the job was cancelled between any two commands: only a
\* death of the agent or a hook that fails leaves it stopped.
THEOREM ScannersComeBack == InstallSpec => []ScannerComesBack
<1>1. InstallKept => ScannerComesBack
  BY DEF InstallKept, ScannerIsOwed, ScannerComesBack
<1> QED BY <1>1, InstallBeginsWell, StepKeepsInstall, PTL DEF InstallSpec

\* The result of an install says that the app's data is gone when it is, says ok
\* only of the version and the config that the job asked for, and an attempt that
\* was not cancelled leaves no session open, whatever bundle the hub serves.
THEOREM ReportsAreTrue == InstallSpec => []ReportIsTrue
<1>1. InstallKept => ReportIsTrue
  BY DEF InstallKept, InstallTyped, WipeIsTold, OkIsEarned, SessionsAreClosed, ReportIsTrue
<1> QED BY <1>1, InstallBeginsWell, StepKeepsInstall, PTL DEF InstallSpec


-----------------------------------------------------------------------------
(* The fleet table.                                                        *)

\* What a dialog was given was picked, and an update that names no box was asked
\* for when none of those picked was on screen.
GivenWerePicked ==
  /\ bulk.by \in {"update", "group"} => bulk.ids \subseteq bulk.picked
  /\ bulk.by = "update" => bulk.hidden \/ bulk.ids # {}

TableKept == GivenWerePicked /\ BulkIsOfPicked

LEMMA StepKeepsTable == TableKept /\ [TableNext]_tableVars => TableKept'
<1> SUFFICES ASSUME TableKept, [TableNext]_tableVars PROVE TableKept'
  OBVIOUS
<1>1. CASE SubmitsUpdate
  BY <1>1 DEF SubmitsUpdate, Submits, Given, TableKept, GivenWerePicked, BulkIsOfPicked
<1>2. ASSUME NEW g \in Groups, SubmitsGroup(g) PROVE TableKept'
  BY <1>2 DEF SubmitsGroup, Submits, Given, TableKept, GivenWerePicked, BulkIsOfPicked
<1>3. CASE Starts
  <2>1. bulk.by \in {"update", "all"} /\ bulk' = NoBulk
    BY <1>3 DEF Starts
  <2>2. GivenWerePicked'
    BY <2>1 DEF GivenWerePicked, NoBulk
  <2>3. ASSUME NEW boxes, boxes = {b \in DOMAIN devices : devices[b].approved /\ (bulk.ids # {} => b \in bulk.ids)},
               Did(boxes)
        PROVE  BulkIsOfPicked'
    <3>1. /\ outcome'.by = bulk.by /\ outcome'.boxes = boxes
          /\ outcome'.picked = bulk.picked /\ outcome'.hidden = bulk.hidden
      BY <2>3 DEF Did
    <3>2. bulk.by = "update" /\ ~bulk.hidden => boxes \subseteq bulk.picked
      BY <2>3 DEF TableKept, GivenWerePicked
    <3> QED BY <2>1, <3>1, <3>2 DEF BulkIsOfPicked
  <2>4. CASE UNCHANGED outcome
    BY <2>2, <2>4 DEF TableKept, BulkIsOfPicked
  <2> QED BY <1>3, <2>2, <2>3, <2>4 DEF Starts, TableKept
<1>4. CASE MovesBoxes
  <2>1. bulk.by = "group" /\ bulk' = NoBulk
        /\ Did({b \in bulk.ids : devices[b].group # bulk.to})
    BY <1>4 DEF MovesBoxes
  <2> QED BY <2>1 DEF Did, NoBulk, TableKept, GivenWerePicked, BulkIsOfPicked
<1>5. CASE Refuses
  BY <1>5 DEF Refuses, NoBulk, TableKept, GivenWerePicked, BulkIsOfPicked
<1>6. CASE UNCHANGED <<bulk, outcome>>
  BY <1>6 DEF TableKept, GivenWerePicked, BulkIsOfPicked
<1>7. \/ SubmitsUpdate \/ (\E g \in Groups : SubmitsGroup(g)) \/ Starts \/ MovesBoxes \/ Refuses
      \/ UNCHANGED <<bulk, outcome>>
  BY DEF TableNext, tableVars, SetsFilter, TogglesOne, TurnsPage, TogglesAll, ClearsSelection,
         OpensDialog, ClosesDialog, BoxTurns, SetsApproval, DeletesBox, TableRefreshes
<1> QED BY <1>1, <1>2, <1>3, <1>4, <1>5, <1>6, <1>7

\* Whatever is filtered, paged, turned, moved or deleted while a dialog is open or
\* its request under way, and however many boxes there are: what is done in bulk is
\* done to boxes that were picked, but for an update of which none was on screen.
THEOREM BulksArePicked == TableSpec => []BulkIsOfPicked
<1>1. TableInit => TableKept
  <2> SUFFICES ASSUME bulk = NoBulk, outcome = NothingDone PROVE TableKept
    BY DEF TableInit
  <2>1. bulk.by = "none" /\ outcome.by = "none"
    BY DEF NoBulk, NothingDone
  <2> QED BY <2>1 DEF TableKept, GivenWerePicked, BulkIsOfPicked
<1>2. TableKept => BulkIsOfPicked
  BY DEF TableKept
<1> QED BY <1>1, <1>2, StepKeepsTable, PTL DEF TableSpec

-----------------------------------------------------------------------------
(* The page for deploys by hand.                                           *)

\* A deploy that may write configs went through the dialog, is known to stray, or
\* is of no box that was in the group when the page was rendered.
AsksFirst(r) ==
  r.writes /\ r.build = "mitm" => r.asked \/ r.strayed \/ r.boxes \cap r.shown = {}

IsDeploy(r) == DOMAIN r = {"at", "build", "boxes", "writes", "asked", "strayed", "shown"}

DeployKept ==
  /\ DOMAIN sent = {"upload", "link", "install"}
  /\ IsDeploy(sent.install) /\ (Pending => AsksFirst(sent.install))
  /\ \A r \in rollouts : IsDeploy(r) /\ AsksFirst(r)
  /\ ConfigsAreAskedFor

LEMMA StepKeepsDeploy == DeployKept /\ [DeployNext]_deployVars => DeployKept'
<1> SUFFICES ASSUME DeployKept, [DeployNext]_deployVars PROVE DeployKept'
  OBVIOUS
<1>1. ASSUME NEW asked \in BOOLEAN, RunsInstall(asked), asked \/ ~NeedsConfirm,
             UNCHANGED <<rollouts, wrote>>
      PROVE  DeployKept'
  BY <1>1 DEF RunsInstall, NeedsConfirm, ConfigWrites, DeployKept, IsDeploy, AsksFirst, Pending,
     ConfigsAreAskedFor
<1>2. CASE UNCHANGED <<sent.install, rollouts, wrote>> /\ DOMAIN sent' = DOMAIN sent
  BY <1>2 DEF DeployKept, IsDeploy, AsksFirst, Pending, ConfigsAreAskedFor
<1>3. CASE Installs
  BY <1>1, <1>2, <1>3 DEF Installs
<1>4. CASE Confirms
  BY <1>1, <1>4 DEF Confirms
<1>5. CASE Created
  BY <1>5 DEF Created, NoInstall, Unset, DeployKept, IsDeploy, AsksFirst, Pending, ConfigsAreAskedFor
<1>6. CASE NotCreated
  BY <1>6 DEF NotCreated, NoInstall, Unset, DeployKept, IsDeploy, AsksFirst, Pending, ConfigsAreAskedFor
<1>7. ASSUME NEW r \in rollouts, Dispatches(r) PROVE DeployKept'
  <2>1. IsDeploy(r) /\ AsksFirst(r)
    BY DEF DeployKept
  <2>2. IsDeploy([r EXCEPT !.at = "sent"]) /\ AsksFirst([r EXCEPT !.at = "sent"])
    BY <2>1 DEF IsDeploy, AsksFirst
  <2>3. UNCHANGED sent /\ rollouts' = (rollouts \ {r}) \cup {[r EXCEPT !.at = "sent"]}
    BY <1>7 DEF Dispatches
  <2>4. ConfigsAreAskedFor'
    <3>1. CASE wrote' = wrote
      BY <3>1 DEF DeployKept, ConfigsAreAskedFor
    <3>2. CASE r.writes /\ r.build = "mitm"
      <4>1. \A b \in r.boxes \cap grouped :
              LET w == [box |-> b, asked |-> r.asked, strayed |-> r.strayed,
                        behind |-> b \notin r.shown]
              IN w.asked \/ w.strayed \/ w.behind
        BY <2>1, <3>2 DEF AsksFirst
      <4> QED BY <1>7, <3>2, <4>1 DEF Dispatches, DeployKept, ConfigsAreAskedFor
    <3> QED BY <1>7, <3>1, <3>2 DEF Dispatches
  <2>5. \A o \in rollouts' : IsDeploy(o) /\ AsksFirst(o)
    BY <2>2, <2>3 DEF DeployKept
  <2>6. /\ DOMAIN sent' = {"upload", "link", "install"}
        /\ IsDeploy(sent'.install) /\ (Pending' => AsksFirst(sent'.install))
    BY <2>3 DEF DeployKept, Pending
  <2> QED BY <2>4, <2>5, <2>6 DEF DeployKept
<1>8. ASSUME NEW p \in DeployPackages, ChoosesPackage(p) \/ Links(p) PROVE DeployKept'
  BY <1>2, <1>8 DEF ChoosesPackage, Links, DeployKept
<1>9. ASSUME NEW which \in {"upload", "link"}, HubStores(which) \/ Stored(which) \/ NotStored(which)
      PROVE  DeployKept'
  BY <1>2, <1>9 DEF HubStores, Stored, NotStored, DeployKept
<1>10. CASE \/ (\E f \in DeployPackages \cup {Unset} : ChoosesFile(f))
            \/ TogglesSource \/ Uploads \/ LinkChecked \/ HubFetches \/ UsesBuild \/ ChoosesAnother
            \/ RemovesBuild \/ (\E b \in Picks : TogglesBox(b) \/ BoxMoves(b))
            \/ (\E visible \in SUBSET Picks : TogglesVisible(visible))
            \/ TogglesConfig \/ Declines \/ PageRefreshes \/ UNCHANGED deployVars
  BY <1>2, <1>10 DEF ChoosesFile, TogglesSource, Uploads, LinkChecked, HubFetches, UsesBuild,
     ChoosesAnother, RemovesBuild, TogglesBox, BoxMoves, TogglesVisible, TogglesConfig, Declines,
     PageRefreshes, deployVars, DeployKept
<1> QED BY <1>3, <1>4, <1>5, <1>6, <1>7, <1>8, <1>9, <1>10 DEF DeployNext

\* A config is overwritten only after the dialog, whatever arrives, is toggled or
\* fails between a click and the dispatch, for any fleet: but for the two ways
\* round it that the model names.
THEOREM DeploysAskFirst == DeploySpec => []ConfigsAreAskedFor
<1>1. DeployInit => DeployKept
  BY DEF DeployInit, NoInstall, Unset, DeployKept, IsDeploy, AsksFirst, Pending, ConfigsAreAskedFor
<1>2. DeployKept => ConfigsAreAskedFor
  BY DEF DeployKept
<1> QED BY <1>1, <1>2, StepKeepsDeploy, PTL DEF DeploySpec


-----------------------------------------------------------------------------
(* Enrollment.                                                             *)

EnrollTyped ==
  /\ DOMAIN uses = {"count", "revoked"} /\ uses.count \in Nat
  /\ rows \in [Newcomers -> Nat] /\ saved \in [Newcomers -> Nat] /\ awaits \in [Newcomers -> Nat]
  /\ DOMAIN request = Asks
  /\ \A a \in Asks : /\ DOMAIN request[a] = {"box", "at", "found"}
                     /\ Open(a) => request[a].box \in Newcomers

\* A box that never asked twice at once has one request open, while it has no
\* token of its own; what that request wrote is still there, or the row went.
OneIsOpen ==
  \A a \in Asks : Open(a) /\ request[a].box \notin overtaken =>
    /\ saved[request[a].box] = NoKey
    /\ request[a].at \in {"count", "answer"} => rows[request[a].box] \in {a, NoKey}
    /\ \A o \in Asks : Open(o) /\ request[o].box = request[a].box => o = a

\* While no two requests overlapped, the one that saw a use left counts it.
Uncounted(a) == request[a].at \in {"find", "write", "count"}
UsesLast ==
  ~raced => /\ uses.count <= MaxUses
            /\ \A a \in Asks : Uncounted(a) =>
                 uses.count < MaxUses /\ \A o \in Asks : Uncounted(o) => o = a

EnrollKept == EnrollTyped /\ OneIsOpen /\ UsesLast /\ TokensFit

LEMMA RequestMoves ==
  ASSUME EnrollTyped, NEW a \in Asks, NEW place, Step(a, place)
  PROVE  /\ DOMAIN request' = Asks
         /\ \A o \in Asks : DOMAIN request'[o] = {"box", "at", "found"}
         /\ \A o \in Asks : o # a => request'[o] = request[o]
         /\ request'[a].at = place
         /\ place # "over" => request'[a].box = request[a].box
BY DEF EnrollTyped, Step, Unused

LEMMA BoxEnrolls ==
  ASSUME EnrollKept, NEW b \in Newcomers,
         \/ \E a \in Asks : AsksToEnroll(b, a)
         \/ StopsWaiting(b) \/ FlashedAgain(b) \/ DeletesDevice(b)
  PROVE  EnrollKept'
<1>1. ASSUME NEW a \in Asks, AsksToEnroll(b, a) PROVE EnrollKept'
  <2>1. /\ DOMAIN request' = Asks /\ request'[a].box = b /\ request'[a].at = "check"
        /\ DOMAIN request'[a] = {"box", "at", "found"}
        /\ \A o \in Asks : o # a => request'[o] = request[o]
        /\ request[a].at = "none" /\ saved[b] = NoKey
        /\ awaits' = [awaits EXCEPT ![b] = a]
        /\ overtaken \subseteq overtaken' /\ (OpenFor(b) = {} \/ b \in overtaken')
        /\ UNCHANGED <<uses, rows, saved, raced>>
    BY <1>1 DEF AsksToEnroll, EnrollKept, EnrollTyped, Unused
  <2>2. a \in Nat
    BY EnrollAssumption DEF Asks
  <2>3. EnrollTyped'
    BY <2>1, <2>2 DEF EnrollKept, EnrollTyped, Open
  <2>4. OneIsOpen'
    <3>1. \A o \in Asks : Open(o) /\ request[o].box = b => b \in overtaken'
      BY <2>1 DEF OpenFor
    <3> QED BY <2>1, <3>1 DEF EnrollKept, OneIsOpen, Open
  <2>5. UsesLast'
    BY <2>1 DEF EnrollKept, UsesLast, Uncounted
  <2>6. TokensFit'
    BY <2>1 DEF EnrollKept, TokensFit
  <2> QED BY <2>3, <2>4, <2>5, <2>6 DEF EnrollKept
<1>2. CASE StopsWaiting(b)
  <2>1. EnrollTyped'
    BY <1>2 DEF StopsWaiting, EnrollKept, EnrollTyped, Open, NoKey
  <2> QED BY <1>2, <2>1 DEF StopsWaiting, EnrollKept, OneIsOpen, UsesLast, Uncounted, TokensFit, Open
<1>3. CASE FlashedAgain(b)
  <2>1. EnrollTyped' /\ TokensFit'
    BY <1>3 DEF FlashedAgain, EnrollKept, EnrollTyped, TokensFit, Open, NoKey
  <2>2. OneIsOpen'
    BY <1>3 DEF FlashedAgain, EnrollKept, EnrollTyped, OneIsOpen, Open
  <2> QED BY <1>3, <2>1, <2>2 DEF FlashedAgain, EnrollKept, UsesLast, Uncounted
<1>4. CASE DeletesDevice(b)
  <2>1. EnrollTyped' /\ TokensFit'
    BY <1>4 DEF DeletesDevice, EnrollKept, EnrollTyped, TokensFit, Open, NoKey
  <2>2. OneIsOpen'
    BY <1>4 DEF DeletesDevice, EnrollKept, EnrollTyped, OneIsOpen, Open
  <2> QED BY <1>4, <2>1, <2>2 DEF DeletesDevice, EnrollKept, UsesLast, Uncounted
<1> QED BY <1>1, <1>2, <1>3, <1>4

LEMMA RouteEnrolls ==
  ASSUME EnrollKept, NEW a \in Asks,
         ChecksToken(a) \/ FindsDevice(a) \/ WritesDevice(a) \/ CountsUse(a) \/ Replies(a)
  PROVE  EnrollKept'
<1>1. CASE ChecksToken(a)
  <2>1. /\ request[a].at = "check" /\ Step(a, IF Usable THEN "find" ELSE "refuse")
        /\ raced' = (raced \/ \E o \in Asks \ {a} : Uncounted(o))
        /\ UNCHANGED <<uses, rows, saved, awaits, overtaken>>
    BY <1>1 DEF ChecksToken, Uncounted
  <2>2. /\ DOMAIN request' = Asks
        /\ \A o \in Asks : DOMAIN request'[o] = {"box", "at", "found"}
        /\ \A o \in Asks : o # a => request'[o] = request[o]
        /\ request'[a].at = IF Usable THEN "find" ELSE "refuse"
        /\ request'[a].box = request[a].box
    BY <2>1, RequestMoves DEF EnrollKept
  <2>3. EnrollTyped'
    BY <2>1, <2>2 DEF EnrollKept, EnrollTyped, Open
  <2>4. OneIsOpen'
    BY <2>1, <2>2 DEF EnrollKept, OneIsOpen, Open
  <2>5. UsesLast'
    <3> SUFFICES ASSUME ~raced' PROVE UsesLast'
      BY DEF UsesLast
    <3>1. ~raced /\ \A o \in Asks : o # a => ~Uncounted(o) /\ ~Uncounted(o)'
      BY <2>1, <2>2 DEF Uncounted
    <3>2. uses.count <= MaxUses /\ (request'[a].at = "find" => uses.count < MaxUses)
      BY <2>2, <3>1 DEF EnrollKept, UsesLast, Usable
    <3> QED BY <2>1, <2>2, <3>1, <3>2 DEF UsesLast, Uncounted
  <2>6. TokensFit'
    BY <2>1 DEF EnrollKept, TokensFit, UsesLast
  <2> QED BY <2>3, <2>4, <2>5, <2>6 DEF EnrollKept
<1>2. CASE FindsDevice(a)
  <2>1. /\ request[a].at = "find" /\ DOMAIN request' = Asks
        /\ \A o \in Asks : DOMAIN request'[o] = {"box", "at", "found"}
        /\ \A o \in Asks : o # a => request'[o] = request[o]
        /\ request'[a].at = "write" /\ request'[a].box = request[a].box
        /\ UNCHANGED <<uses, rows, saved, awaits, overtaken, raced>>
    BY <1>2 DEF FindsDevice, EnrollKept, EnrollTyped
  <2>2. EnrollTyped'
    BY <2>1 DEF EnrollKept, EnrollTyped, Open
  <2>3. OneIsOpen'
    BY <2>1 DEF EnrollKept, OneIsOpen, Open
  <2>4. UsesLast'
    BY <2>1 DEF EnrollKept, UsesLast, Uncounted
  <2> QED BY <2>1, <2>2, <2>3, <2>4 DEF EnrollKept, TokensFit
<1>3. CASE WritesDevice(a)
  <2> DEFINE b == request[a].box
  <2>0. a \in Nat /\ request[a].at = "write"
    BY <1>3, EnrollAssumption DEF WritesDevice, Asks
  <2>1. request[a].at = "write" /\ b \in Newcomers /\ a \in Nat
    BY <2>0 DEF EnrollKept, EnrollTyped, Open
  <2>2. /\ \/ rows' = [rows EXCEPT ![b] = a] /\ Step(a, "count")
           \/ UNCHANGED rows /\ Step(a, "refuse")
        /\ UNCHANGED <<uses, saved, awaits, overtaken, raced>>
    BY <1>3 DEF WritesDevice, Rotated
  <2>3. /\ DOMAIN request' = Asks
        /\ \A o \in Asks : DOMAIN request'[o] = {"box", "at", "found"}
        /\ \A o \in Asks : o # a => request'[o] = request[o]
        /\ request'[a].at \in {"count", "refuse"}
        /\ request'[a].at = "count" => rows'[b] = a
        /\ request'[a].box = b
    BY <2>1, <2>2, RequestMoves DEF EnrollKept, EnrollTyped
  <2>4. rows' \in [Newcomers -> Nat] /\ \A c \in Newcomers : c # b => rows'[c] = rows[c]
    BY <2>1, <2>2 DEF EnrollKept, EnrollTyped
  <2>5. rows'[b] \in {a, rows[b]}
    BY <2>1, <2>2 DEF EnrollKept, EnrollTyped
  <2>6. \/ b \in overtaken
        \/ saved[b] = NoKey /\ (\A o \in Asks : Open(o) /\ request[o].box = b => o = a)
    BY <2>1 DEF EnrollKept, OneIsOpen, Open
  <2> HIDE DEF b
  <2>7. EnrollTyped'
    BY <2>1, <2>2, <2>3, <2>4 DEF EnrollKept, EnrollTyped, Open
  <2>8. OneIsOpen'
    <3> SUFFICES ASSUME NEW o \in Asks, Open(o)', request'[o].box \notin overtaken'
                 PROVE  /\ saved'[request'[o].box] = NoKey
                        /\ request'[o].at \in {"count", "answer"} => rows'[request'[o].box] \in {o, NoKey}
                        /\ \A q \in Asks : Open(q)' /\ request'[q].box = request'[o].box => q = o
      BY DEF OneIsOpen
    <3>1. CASE o = a
      BY <2>2, <2>3, <2>6, <3>1 DEF Open
    <3>2. CASE o # a
      <4>1. request'[o] = request[o] /\ Open(o) /\ request[o].box # b /\ request[o].box \in Newcomers
        BY <2>2, <2>3, <2>6, <3>2 DEF Open, EnrollKept, EnrollTyped
      <4>2. rows'[request[o].box] = rows[request[o].box]
        BY <2>4, <4>1
      <4> QED BY <2>2, <2>3, <4>1, <4>2 DEF EnrollKept, OneIsOpen, Open
    <3> QED BY <3>1, <3>2
  <2>9. UsesLast'
    BY <2>1, <2>2, <2>3 DEF EnrollKept, UsesLast, Uncounted
  <2>10. TokensFit'
    BY <2>2, <2>4, <2>6 DEF EnrollKept, TokensFit
  <2> QED BY <2>7, <2>8, <2>9, <2>10 DEF EnrollKept
<1>4. CASE CountsUse(a)
  <2>1. /\ request[a].at = "count" /\ Step(a, "answer")
        /\ uses' = [uses EXCEPT !.count = @ + 1]
        /\ UNCHANGED <<rows, saved, awaits, overtaken, raced>>
    BY <1>4 DEF CountsUse
  <2>2. /\ DOMAIN request' = Asks
        /\ \A o \in Asks : DOMAIN request'[o] = {"box", "at", "found"}
        /\ \A o \in Asks : o # a => request'[o] = request[o]
        /\ request'[a].at = "answer" /\ request'[a].box = request[a].box
    BY <2>1, RequestMoves DEF EnrollKept
  <2>3. DOMAIN uses' = DOMAIN uses /\ uses'.count = uses.count + 1
    BY <2>1 DEF EnrollKept, EnrollTyped
  <2>4. EnrollTyped'
    BY <2>1, <2>2, <2>3 DEF EnrollKept, EnrollTyped, Open
  <2>5. OneIsOpen'
    BY <2>1, <2>2 DEF EnrollKept, OneIsOpen, Open
  <2>6. UsesLast'
    <3> SUFFICES ASSUME ~raced PROVE UsesLast'
      BY <2>1 DEF UsesLast
    <3>1. uses.count < MaxUses /\ \A o \in Asks : ~Uncounted(o)'
      BY <2>1, <2>2 DEF EnrollKept, UsesLast, Uncounted
    <3>2. uses'.count <= MaxUses
      BY <2>3, <3>1, EnrollAssumption DEF EnrollKept, EnrollTyped
    <3> QED BY <3>1, <3>2 DEF UsesLast
  <2>7. TokensFit'
    <3>1. uses'.count > MaxUses => raced'
      BY <2>3, <2>6, <2>4, EnrollAssumption DEF UsesLast, EnrollTyped
    <3> QED BY <2>1, <3>1 DEF EnrollKept, TokensFit
  <2> QED BY <2>4, <2>5, <2>6, <2>7 DEF EnrollKept
<1>5. CASE Replies(a)
  <2> DEFINE b == request[a].box
  <2>1. /\ request[a].at \in {"answer", "refuse"} /\ Step(a, "over")
        /\ UNCHANGED <<uses, rows, overtaken, raced>>
    BY <1>5 DEF Replies
  <2>2. b \in Newcomers /\ a \in Nat
    BY <2>1, EnrollAssumption DEF EnrollKept, EnrollTyped, Open, Asks
  <2>3. /\ saved' = saved \/ (saved' = [saved EXCEPT ![b] = a] /\ request[a].at = "answer")
        /\ awaits' = awaits \/ awaits' = [awaits EXCEPT ![b] = NoKey]
    BY <1>5 DEF Replies
  <2>4. /\ DOMAIN request' = Asks
        /\ \A o \in Asks : DOMAIN request'[o] = {"box", "at", "found"}
        /\ \A o \in Asks : o # a => request'[o] = request[o]
        /\ request'[a].at = "over"
    BY <2>1, RequestMoves DEF EnrollKept
  <2>5. /\ \/ b \in overtaken
           \/ \A o \in Asks : Open(o) /\ request[o].box = b => o = a
        /\ request[a].at = "answer" => b \in overtaken \/ rows[b] \in {a, NoKey}
    BY <2>1 DEF EnrollKept, OneIsOpen, Open
  <2>6. /\ saved' \in [Newcomers -> Nat] /\ awaits' \in [Newcomers -> Nat]
        /\ \A c \in Newcomers : c # b => saved'[c] = saved[c]
        /\ saved'[b] = saved[b] \/ (saved'[b] = a /\ request[a].at = "answer")
    BY <2>2, <2>3 DEF EnrollKept, EnrollTyped, NoKey
  <2> HIDE DEF b
  <2>7. EnrollTyped'
    BY <2>1, <2>4, <2>6 DEF EnrollKept, EnrollTyped, Open
  <2>8. OneIsOpen'
    <3> SUFFICES ASSUME NEW o \in Asks, Open(o)', request'[o].box \notin overtaken'
                 PROVE  /\ saved'[request'[o].box] = NoKey
                        /\ request'[o].at \in {"count", "answer"} => rows'[request'[o].box] \in {o, NoKey}
                        /\ \A q \in Asks : Open(q)' /\ request'[q].box = request'[o].box => q = o
      BY DEF OneIsOpen
    <3>1. o # a /\ request'[o] = request[o] /\ Open(o)
      BY <2>4 DEF Open
    <3>2. request[o].box # b /\ request[o].box \in Newcomers
      BY <2>1, <2>5, <3>1 DEF EnrollKept, EnrollTyped
    <3>3. saved'[request[o].box] = saved[request[o].box]
      BY <2>6, <3>2
    <3> QED BY <2>1, <2>4, <3>1, <3>3 DEF EnrollKept, OneIsOpen, Open
  <2>9. UsesLast'
    BY <2>1, <2>4 DEF EnrollKept, UsesLast, Uncounted
  <2>10. TokensFit'
    BY <2>1, <2>2, <2>5, <2>6 DEF EnrollKept, TokensFit
  <2> QED BY <2>7, <2>8, <2>9, <2>10 DEF EnrollKept
<1> QED BY <1>1, <1>2, <1>3, <1>4, <1>5

LEMMA StepKeepsEnroll == EnrollKept /\ [EnrollNext]_enrollVars => EnrollKept'
<1> SUFFICES ASSUME EnrollKept, [EnrollNext]_enrollVars PROVE EnrollKept'
  OBVIOUS
<1>1. CASE HubStops
  <2>1. /\ DOMAIN request' = Asks
        /\ \A o \in Asks : DOMAIN request'[o] = {"box", "at", "found"}
        /\ \A o \in Asks : ~Open(o)' /\ ~Uncounted(o)'
        /\ awaits' \in [Newcomers -> Nat]
        /\ UNCHANGED <<uses, rows, saved, overtaken, raced>>
    BY <1>1 DEF HubStops, Open, Unused, Uncounted, EnrollKept, EnrollTyped, NoKey
  <2>2. EnrollTyped' /\ OneIsOpen' /\ TokensFit'
    BY <2>1 DEF EnrollKept, EnrollTyped, OneIsOpen, TokensFit
  <2>3. UsesLast'
    BY <2>1 DEF EnrollKept, UsesLast
  <2> QED BY <2>2, <2>3 DEF EnrollKept
<1>2. CASE Revokes
  <2>1. DOMAIN uses' = DOMAIN uses /\ uses'.count = uses.count
        /\ UNCHANGED <<rows, request, saved, awaits, overtaken, raced>>
    BY <1>2 DEF Revokes, EnrollKept, EnrollTyped
  <2>2. EnrollTyped' /\ OneIsOpen' /\ TokensFit'
    BY <2>1 DEF EnrollKept, EnrollTyped, OneIsOpen, TokensFit, Open
  <2> QED BY <2>1, <2>2 DEF EnrollKept, UsesLast, Uncounted
<1>3. CASE UNCHANGED enrollVars
  BY <1>3 DEF enrollVars, EnrollKept, EnrollTyped, OneIsOpen, TokensFit, UsesLast, Uncounted, Open
<1> QED BY <1>1, <1>2, <1>3, BoxEnrolls, RouteEnrolls DEF EnrollNext

\* For any number of boxes and requests, any uses of the enrollment token, through
\* answers that are lost or late, restarts of box and hub, a box that is flashed
\* again and a row that is deleted: box and row hold the same token but for a box
\* that asked twice at once, and the uses are kept but for requests that overlap.
THEOREM TokensAlwaysFit == EnrollSpec => []TokensFit
<1>1. EnrollInit => EnrollKept
  <2> SUFFICES ASSUME EnrollInit PROVE EnrollKept
    OBVIOUS
  <2>1. EnrollTyped /\ OneIsOpen
    BY DEF EnrollInit, EnrollTyped, OneIsOpen, Open, Unused, NoKey
  <2>2. UsesLast /\ TokensFit
    BY EnrollAssumption DEF EnrollInit, UsesLast, Uncounted, TokensFit, Unused, NoKey
  <2> QED BY <2>1, <2>2 DEF EnrollKept
<1>2. EnrollKept => TokensFit
  BY DEF EnrollKept
<1> QED BY <1>1, <1>2, StepKeepsEnroll, PTL DEF EnrollSpec


-----------------------------------------------------------------------------
(* The samples of a box.                                                   *)

Held == samples \cup ({inserting} \ {NoClaim})
Aged(t) == Slot(t) <= Slot(clock - Retention)
Excused(t) == Slot(t) \in failures \/ Aged(t)

SampleTyped ==
  /\ clock \in Nat /\ arrivals \subseteq 0..clock /\ samples \subseteq 0..clock
  /\ claim \in arrivals \cup {NoClaim} /\ inserting \in {NoClaim, clock}
  /\ inserting # NoClaim => claim = inserting
  /\ DOMAIN pruning = {"cutoff", "ids"} /\ pruning.cutoff \in Int
  /\ pruning.cutoff # NoClaim => pruning.cutoff <= clock - Retention
  /\ pruning.cutoff = NoClaim => pruning.ids = {}
  /\ \A s \in pruning.ids : s < pruning.cutoff

SlotsAreFilled == \A t \in arrivals : Excused(t) \/ \E s \in Held : Slot(s) = Slot(t)
SlotsAreNotDoubled == \A s, o \in Held : Slot(s) = Slot(o) => s = o \/ Excused(s)

\* The slot of now is claimed if it has a sample.
NowIsClaimed ==
  \A s \in Held : Slot(s) = Slot(clock) =>
    Excused(s) \/ (claim # NoClaim /\ Slot(claim) = Slot(clock))

SlotsKept == SlotsAreFilled /\ SlotsAreNotDoubled /\ NowIsClaimed
SamplesKept == SampleTyped /\ (SampleSeconds > HeartbeatSeconds => SlotsKept)

LEMMA SlotIsInt == \A t \in Int : Slot(t) \in Int
BY SampleAssumption DEF Slot

LEMMA SlotsFollowTheClock ==
  ASSUME NEW t \in Int, NEW u \in Int, t <= u PROVE Slot(t) <= Slot(u)
<1> DEFINE k == SampleSeconds
           q == t \div k
           r == u \div k
<1>1. k \in Nat /\ k > 0
  BY SampleAssumption
<1>2. /\ q \in Int /\ r \in Int
      /\ k * q <= t /\ t < k * (q + 1) /\ k * r <= u /\ u < k * (r + 1)
  BY <1>1
<1>3. k * q < k * (r + 1)
  BY <1>1, <1>2
<1> HIDE DEF k, q, r
<1>4. \A x, y \in Int : k * x < k * y => x < y
  BY <1>1
<1>5. q < r + 1
  BY <1>2, <1>3, <1>4
<1> QED BY <1>2, <1>5 DEF Slot, q, r, k

\* What is old stays old.
LEMMA ExcusesLast ==
  ASSUME SampleTyped, NEW t \in Int, Excused(t), clock' \in Nat, clock' >= clock, failures \subseteq failures'
  PROVE  Excused(t)'
<1>1. Retention \in Nat
  BY SampleAssumption
<1>2. Slot(clock - Retention) <= Slot(clock' - Retention)
  BY <1>1, SlotsFollowTheClock DEF SampleTyped
<1> QED BY <1>1, <1>2, SlotIsInt DEF SampleTyped, Excused, Aged


LEMMA HeldIsOfThePast == SampleTyped => Held \subseteq 0..clock /\ Held \subseteq Int
<1> SUFFICES ASSUME SampleTyped, NEW s \in Held PROVE s \in 0..clock /\ s \in Int
  OBVIOUS
<1>1. clock \in 0..clock
  BY DEF SampleTyped
<1>2. s \in 0..clock
  BY <1>1 DEF SampleTyped, Held
<1> QED BY <1>2

LEMMA BeatKeepsSamples ==
  ASSUME SamplesKept, NEW step \in 1..HeartbeatSeconds + 1, BeatArrives(step)
  PROVE  SamplesKept'
<1> PICK c : c = clock + step
  OBVIOUS
<1>1. /\ clock \in Nat /\ c \in Nat /\ c >= clock /\ clock' = c /\ inserting = NoClaim
      /\ arrivals' = arrivals \cup {c} /\ UNCHANGED <<samples, failures, pruning>>
  BY SampleAssumption DEF BeatArrives, SamplesKept, SampleTyped
<1>2. \/ Taken(c) /\ UNCHANGED <<claim, inserting>> /\ Held' = Held
      \/ ~(SampleSeconds > HeartbeatSeconds /\ Taken(c)) /\ claim' = c /\ inserting' = c
         /\ Held' = Held \cup {c}
  BY <1>1 DEF BeatArrives, Held, NoClaim
<1>3. SampleTyped'
  <2>1. clock' \in Nat /\ arrivals' \subseteq 0..clock' /\ samples' \subseteq 0..clock'
    <3>1. 0..clock \subseteq 0..clock' /\ c \in 0..clock'
      BY <1>1
    <3>2. arrivals \subseteq 0..clock /\ samples \subseteq 0..clock
      BY DEF SamplesKept, SampleTyped
    <3> QED BY <1>1, <3>1, <3>2
  <2>2. /\ claim' \in arrivals' \cup {NoClaim} /\ inserting' \in {NoClaim, clock'}
        /\ inserting' # NoClaim => claim' = inserting'
    BY <1>1, <1>2 DEF SamplesKept, SampleTyped
  <2>3. pruning'.cutoff # NoClaim => pruning'.cutoff <= clock' - Retention
    BY <1>1, SampleAssumption DEF SamplesKept, SampleTyped
  <2> QED BY <1>1, <2>1, <2>2, <2>3 DEF SamplesKept, SampleTyped
<1>4. ASSUME SampleSeconds > HeartbeatSeconds PROVE SlotsKept'
  <2>1. /\ SampleTyped /\ SlotsAreFilled /\ SlotsAreNotDoubled /\ NowIsClaimed
        /\ \A t \in Int : Excused(t) => Excused(t)'
    BY <1>1, <1>4, ExcusesLast DEF SamplesKept, SlotsKept
  <2>2. \A t \in Int : Slot(t) = Slot(c) /\ Excused(t)' => Excused(c)'
    BY DEF Excused, Aged
  <2>3. Held \subseteq Int /\ (\A s \in Held : s <= clock) /\ arrivals \subseteq Int
    BY <2>1, HeldIsOfThePast DEF SampleTyped
  <2>4. CASE Taken(c) /\ UNCHANGED <<claim, inserting>> /\ Held' = Held
    <3>1. claim # NoClaim /\ Slot(c) = Slot(claim) /\ claim \in arrivals
      BY <2>1, <2>4 DEF Taken, SampleTyped
    <3>2. Excused(c)' \/ \E s \in Held' : Slot(s) = Slot(c)
      BY <2>1, <2>2, <2>3, <2>4, <3>1 DEF SlotsAreFilled
    <3>3. SlotsAreFilled'
      BY <1>1, <2>1, <2>3, <2>4, <3>2 DEF SlotsAreFilled
    <3>4. SlotsAreNotDoubled'
      BY <2>1, <2>3, <2>4 DEF SlotsAreNotDoubled
    <3>5. NowIsClaimed'
      BY <1>1, <2>4, <3>1 DEF NowIsClaimed
    <3> QED BY <3>3, <3>4, <3>5 DEF SlotsKept
  <2>5. CASE ~Taken(c) /\ claim' = c /\ inserting' = c /\ Held' = Held \cup {c}
    <3>1. ASSUME NEW s \in Held, Slot(s) = Slot(c) PROVE Excused(s)' /\ Excused(c)'
      <4>1. Slot(s) <= Slot(clock) /\ Slot(clock) <= Slot(c)
        BY <1>1, <2>3, SlotsFollowTheClock
      <4>2. Slot(s) = Slot(clock)
        BY <1>1, <2>3, <3>1, <4>1, SlotIsInt
      <4>3. Excused(s)
        BY <2>1, <2>5, <3>1, <4>2 DEF NowIsClaimed, Taken
      <4> QED BY <2>1, <2>2, <2>3, <3>1, <4>3
    <3>2. SlotsAreFilled'
      BY <1>1, <2>1, <2>3, <2>5 DEF SlotsAreFilled
    <3>3. SlotsAreNotDoubled'
      BY <2>1, <2>3, <2>5, <3>1 DEF SlotsAreNotDoubled
    <3>4. NowIsClaimed'
      BY <1>1, <2>5 DEF NowIsClaimed, NoClaim
    <3> QED BY <3>2, <3>3, <3>4 DEF SlotsKept
  <2> QED BY <1>2, <1>4, <2>4, <2>5
<1> QED BY <1>3, <1>4 DEF SamplesKept

LEMMA InsertKeepsSamples ==
  ASSUME SamplesKept, Inserted \/ InsertFails \/ SamplerRestarts PROVE SamplesKept'
<1>1. /\ clock \in Nat /\ UNCHANGED <<clock, arrivals>> /\ failures \subseteq failures'
      /\ SampleTyped /\ Held \subseteq Int /\ arrivals \subseteq Int
  BY HeldIsOfThePast DEF Inserted, InsertFails, SamplerRestarts, SamplesKept, SampleTyped
<1>2. \A t \in Int : Excused(t) => Excused(t)'
  BY <1>1, ExcusesLast
<1>3. CASE Inserted
  <2>1. Held' = Held /\ UNCHANGED <<claim, failures, pruning>>
    BY <1>3 DEF Inserted, Held
  <2>2. SampleTyped'
    BY <1>1, <1>3, <2>1 DEF Inserted, SampleTyped, NoClaim
  <2>3. SlotsKept => SlotsKept'
    BY <1>1, <1>2, <2>1 DEF SlotsKept, SlotsAreFilled, SlotsAreNotDoubled, NowIsClaimed
  <2> QED BY <2>2, <2>3 DEF SamplesKept
<1>4. CASE InsertFails \/ SamplerRestarts
  <2>1. /\ Slot(clock) \in failures' /\ Held' \subseteq Held /\ Held \subseteq Held' \cup {clock}
        /\ claim' = NoClaim /\ inserting' = NoClaim
        /\ pruning' \in {pruning, NotPruning} /\ UNCHANGED samples
    BY <1>1, <1>4 DEF InsertFails, SamplerRestarts, Held, SampleTyped, NoClaim
  <2>2. \A t \in Int : Slot(t) = Slot(clock) => Excused(t)'
    BY <2>1 DEF Excused
  <2>3. SampleTyped'
    BY <1>1, <2>1, SampleAssumption DEF SampleTyped, NotPruning, NoClaim
  <2>4. SlotsKept => SlotsKept'
    <3> SUFFICES ASSUME SlotsKept PROVE SlotsKept'
      OBVIOUS
    <3>1. SlotsAreFilled'
      BY <1>1, <1>2, <2>1, <2>2 DEF SlotsKept, SlotsAreFilled
    <3>2. SlotsAreNotDoubled' /\ NowIsClaimed'
      BY <1>1, <1>2, <2>1, <2>2 DEF SlotsKept, SlotsAreNotDoubled, NowIsClaimed
    <3> QED BY <3>1, <3>2 DEF SlotsKept
  <2> QED BY <2>3, <2>4 DEF SamplesKept
<1> QED BY <1>3, <1>4

LEMMA PruneKeepsSamples ==
  ASSUME SamplesKept, PruneStarts \/ PruneSelects \/ PruneDeletes \/ PruneEnds
  PROVE  SamplesKept'
<1>1. /\ clock \in Nat /\ UNCHANGED <<clock, arrivals, inserting, failures>>
      /\ SampleTyped /\ Held \subseteq 0..clock /\ Held \subseteq Int /\ arrivals \subseteq 0..clock
      /\ arrivals \subseteq Int /\ Retention \in Nat /\ Retention > 0
  BY HeldIsOfThePast, SampleAssumption
     DEF PruneStarts, PruneSelects, PruneDeletes, PruneEnds, SamplesKept, SampleTyped
<1>2. \A t \in Int : Excused(t) <=> Excused(t)'
  BY <1>1 DEF Excused, Aged
<1>3. CASE PruneStarts
  <2>1. /\ Held' = Held /\ UNCHANGED samples
        /\ claim' = claim \/ (claim' = NoClaim /\ claim \in arrivals /\ claim < clock - Retention)
        /\ DOMAIN pruning' = DOMAIN pruning /\ pruning'.cutoff = clock - Retention
        /\ pruning'.ids = {} /\ clock >= Retention
    BY <1>1, <1>3 DEF PruneStarts, Held, SampleTyped, NotPruning
  <2>2. SampleTyped'
    BY <1>1, <2>1 DEF SampleTyped, NoClaim
  <2>3. SlotsKept => NowIsClaimed'
    <3>1. CASE claim' = claim
      BY <1>1, <1>2, <2>1, <3>1 DEF SlotsKept, NowIsClaimed
    <3>2. CASE claim \in arrivals /\ claim < clock - Retention
      <4>1. Slot(claim) <= Slot(clock - Retention)
        BY <1>1, <3>2, SlotsFollowTheClock
      <4>2. Slot(claim) = Slot(clock) => \A s \in Held : Slot(s) = Slot(clock) => Excused(s)
        BY <4>1 DEF Excused, Aged
      <4> QED BY <1>1, <1>2, <2>1, <4>2 DEF SlotsKept, NowIsClaimed
    <3> QED BY <2>1, <3>1, <3>2
  <2>4. SlotsKept => SlotsAreFilled' /\ SlotsAreNotDoubled'
    BY <1>1, <1>2, <2>1 DEF SlotsKept, SlotsAreFilled, SlotsAreNotDoubled
  <2> QED BY <2>2, <2>3, <2>4 DEF SamplesKept, SlotsKept
<1>4. CASE PruneSelects \/ PruneEnds
  <2>1. Held' = Held /\ UNCHANGED <<samples, claim>>
    BY <1>1, <1>4 DEF PruneSelects, PruneEnds, Held
  <2>2. SampleTyped'
    <3>1. CASE PruneEnds
      BY <1>1, <2>1, <3>1 DEF PruneEnds, SampleTyped, NotPruning, NoClaim
    <3>2. CASE PruneSelects
      <4>1. /\ DOMAIN pruning' = DOMAIN pruning /\ pruning'.cutoff = pruning.cutoff
            /\ pruning.cutoff # NoClaim /\ \A s \in pruning'.ids : s < pruning.cutoff
        BY <1>1, <3>2 DEF PruneSelects, Old, SampleTyped
      <4> QED BY <1>1, <2>1, <4>1 DEF SampleTyped
    <3> QED BY <1>4, <3>1, <3>2
  <2>3. SlotsKept => SlotsKept'
    BY <1>1, <1>2, <2>1 DEF SlotsKept, SlotsAreFilled, SlotsAreNotDoubled, NowIsClaimed
  <2> QED BY <2>2, <2>3 DEF SamplesKept
<1>5. CASE PruneDeletes
  <2>1. /\ samples' = samples \ pruning.ids /\ UNCHANGED claim
        /\ \/ pruning' = NotPruning
           \/ /\ DOMAIN pruning' = DOMAIN pruning /\ pruning'.cutoff = pruning.cutoff
              /\ pruning'.ids = {}
    BY <1>1, <1>5 DEF PruneDeletes, SampleTyped
  <2>2. SampleTyped'
    <3>0. samples' \subseteq 0..clock
      BY <1>1, <2>1 DEF SampleTyped
    <3>1. DOMAIN pruning' = {"cutoff", "ids"} /\ pruning'.cutoff \in Int
      BY <1>1, <2>1 DEF SampleTyped, NotPruning, NoClaim
    <3>2. pruning'.ids = {} /\ (pruning'.cutoff = NoClaim \/ pruning'.cutoff = pruning.cutoff)
      BY <2>1 DEF NotPruning
    <3>3. pruning'.cutoff # NoClaim => pruning'.cutoff <= clock' - Retention
      BY <1>1, <3>2 DEF SampleTyped
    <3> QED BY <1>1, <2>1, <3>0, <3>1, <3>2, <3>3 DEF SampleTyped
  <2>3. Held' \subseteq Held /\ Held \subseteq Held' \cup pruning.ids
    BY <1>1, <2>1 DEF Held
  <2>4. ASSUME NEW s \in Held, s \in pruning.ids PROVE Aged(s)
    <3>1. s \in Int /\ s <= clock - Retention /\ clock - Retention \in Int
      BY <1>1, <2>4 DEF SampleTyped, NoClaim
    <3> QED BY <3>1, SlotsFollowTheClock DEF Aged
  <2>5. SlotsKept => SlotsAreFilled'
    BY <1>1, <1>2, <2>3, <2>4 DEF SlotsKept, SlotsAreFilled, Excused, Aged
  <2>6. SlotsKept => SlotsAreNotDoubled' /\ NowIsClaimed'
    BY <1>1, <1>2, <2>1, <2>3 DEF SlotsKept, SlotsAreNotDoubled, NowIsClaimed
  <2> QED BY <2>2, <2>5, <2>6 DEF SamplesKept, SlotsKept
<1> QED BY <1>3, <1>4, <1>5

\* For any lengths of the slots, the beats and the retention: a slot of the clock
\* in which a beat arrived has exactly one sample while the retention lasts, however
\* early or late the beats come and wherever the prune stands.
THEOREM SlotsAreSampledOnce == SampleSpec => []SlotsHaveOneSample
<1>1. SampleInit => SamplesKept
  <2> SUFFICES ASSUME SampleInit PROVE SamplesKept
    OBVIOUS
  <2>1. SampleTyped /\ arrivals = {} /\ Held = {}
    BY DEF SampleInit, SampleTyped, Held, NotPruning, NoClaim
  <2> QED BY <2>1 DEF SamplesKept, SlotsKept, SlotsAreFilled, SlotsAreNotDoubled, NowIsClaimed
<1>2. SamplesKept /\ [SampleNext]_sampleVars => SamplesKept'
  <2>1. SamplesKept /\ UNCHANGED sampleVars => SamplesKept'
    BY DEF sampleVars, SamplesKept, SampleTyped, SlotsKept, SlotsAreFilled, SlotsAreNotDoubled,
       NowIsClaimed, Excused, Aged, Held
  <2> QED BY <2>1, BeatKeepsSamples, InsertKeepsSamples, PruneKeepsSamples DEF SampleNext
<1>3. SamplesKept => SlotsHaveOneSample
  <2> SUFFICES ASSUME SamplesKept, SampleSeconds > HeartbeatSeconds, NEW t \in arrivals, ~Excused(t)
               PROVE  Cardinality({s \in Held : Slot(s) = Slot(t)}) = 1
    BY DEF SlotsHaveOneSample, Excused, Aged, Held
  <2>1. PICK s \in Held : Slot(s) = Slot(t)
    BY DEF SamplesKept, SlotsKept, SlotsAreFilled
  <2>2. \A o \in Held : Slot(o) = Slot(t) => o = s
    BY <2>1 DEF SamplesKept, SlotsKept, SlotsAreNotDoubled, Excused, Aged
  <2>3. {o \in Held : Slot(o) = Slot(t)} = {s}
    BY <2>1, <2>2
  <2> QED BY <2>3, FS_Singleton
<1> QED BY <1>1, <1>2, <1>3, PTL DEF SampleSpec


-----------------------------------------------------------------------------
(* What Rotom says.                                                        *)

RotomTyped ==
  /\ DOMAIN belief = Scanners /\ misses \in [Scanners -> Nat] /\ lacked \in [Scanners -> Nat]
  /\ DOMAIN pass = Slots
  /\ \A p \in Slots :
       /\ DOMAIN pass[p] = {"at", "answer", "ours", "todo", "left", "flipped", "alone"}
       /\ pass[p].at \in {"none", "ask", "load", "apply"}
       /\ pass[p].at = "apply" =>
            /\ pass[p].left \subseteq Scanners /\ pass[p].todo \subseteq Listed(p)
            /\ pass[p].flipped \subseteq Scanners \ (Listed(p) \cup pass[p].left)
       /\ pass[p].at # "apply" => pass[p].flipped = {}

\* Who is alone has nobody beside it, and nobody runs beside a pass that ended
\* alone.
AloneIsAlone ==
  /\ \A p \in Slots : Under(p) /\ pass[p].alone => \A r \in Slots : Under(r) => r = p
  /\ ~tangled => \A p \in Slots : Under(p) => pass[p].alone
  /\ clean => \A p \in Slots : ~Under(p)

\* What a pass that is alone has done by now: its answer is the last, and its rows
\* are as it read them, or as it wants them.
AnswerIsLast(p) ==
  pass[p].at \in {"load", "apply"} =>
    \A b \in Scanners : /\ pass[p].answer[b] = "none" => lacked[b] >= 1
                        /\ pass[p].answer[b] # "none" => lacked[b] = 0
RowsAreApplied(p) ==
  pass[p].at = "apply" => \A b \in Scanners :
    /\ b \in pass[p].todo \/ b \notin Listed(p) \cup pass[p].flipped => belief[b] = pass[p].ours[b]
    /\ b \in Listed(p) \ pass[p].todo => belief[b] = pass[p].answer[b]
    /\ b \in pass[p].flipped => belief[b] = "off"
    /\ b \notin pass[p].left /\ b \in Listed(p) => misses[b] = 0
    /\ b \notin pass[p].left \cup Listed(p) => misses[b] = IF belief[b] = "connected" THEN 1 ELSE 0
PassIsRight == \A p \in Slots : pass[p].alone => AnswerIsLast(p) /\ RowsAreApplied(p)

\* A miss that is remembered is one of the last answer, or of the one before an
\* answer that is being applied.
Swept(p, b) == pass[p].at = "apply" /\ b \notin pass[p].left
Pend(b) == \E p \in Slots : pass[p].at \in {"load", "apply"} /\ ~Swept(p, b)
MissesAreLacks ==
  ~tangled => \A b \in Scanners :
    /\ misses[b] >= 1 /\ ~Pend(b) => lacked[b] >= 1
    /\ \A p \in Slots :
         /\ pass[p].at \in {"load", "apply"} /\ ~Swept(p, b) =>
              (pass[p].answer[b] = "none" /\ misses[b] >= 1 => lacked[b] = 2)
         /\ b \in pass[p].flipped => lacked[b] = 2

RotomKept == RotomTyped /\ AloneIsAlone /\ PassIsRight /\ MissesAreLacks /\ RotomIsBelieved

\* Beside a pass that is alone there is nothing to keep.
LEMMA OthersRest ==
  ASSUME RotomKept, NEW p \in Slots, Under(p)
  PROVE  /\ ~clean
         /\ ~tangled => pass[p].alone
         /\ pass[p].alone => \A q \in Slots : q # p => pass[q].at = "none" /\ pass[q].flipped = {}
         /\ \A q \in Slots : q # p /\ pass[q].alone => pass[q].at = "none" /\ pass[q].flipped = {}
<1>1. ~clean /\ (~tangled => pass[p].alone)
  BY DEF RotomKept, AloneIsAlone
<1>2. pass[p].alone => \A q \in Slots : q # p => pass[q].at = "none"
  BY DEF RotomKept, AloneIsAlone, Under
<1>3. \A q \in Slots : q # p /\ pass[q].alone => pass[q].at = "none"
  BY DEF RotomKept, AloneIsAlone, Under
<1>4. \A q \in Slots : pass[q].at = "none" => pass[q].flipped = {}
  BY DEF RotomKept, RotomTyped
<1> QED BY <1>1, <1>2, <1>3, <1>4

\* A pass that goes away takes nothing along that was owed, but for a miss.
LEMMA PassEndsWell ==
  ASSUME RotomKept, NEW p \in Slots, Under(p), Ends(p),
         UNCHANGED <<belief, misses, lacked>>,
         ~tangled' => ~tangled \/ pass[p].alone,
         clean' => pass[p].alone,
         ~tangled' /\ pass[p].alone => \A b \in Scanners : misses[b] >= 1 => lacked[b] >= 1
  PROVE  RotomTyped' /\ AloneIsAlone' /\ PassIsRight' /\ MissesAreLacks'
         /\ (~tangled' => \A q \in Slots : pass'[q].flipped = {})
<1>1. /\ DOMAIN pass' = Slots /\ \A q \in Slots : q # p => pass'[q] = pass[q]
      /\ pass'[p] = Away
  BY DEF Ends, RotomKept, RotomTyped
<1>2. /\ pass'[p].at = "none" /\ pass'[p].flipped = {}
      /\ DOMAIN pass'[p] = {"at", "answer", "ours", "todo", "left", "flipped", "alone"}
  BY <1>1 DEF Away
<1>3. ~tangled' => pass[p].alone
  BY OthersRest
<1>4. pass[p].alone => \A q \in Slots : pass'[q].at = "none" /\ pass'[q].flipped = {}
  BY <1>1, <1>2, OthersRest
<1>5. RotomTyped'
  BY <1>1, <1>2 DEF RotomKept, RotomTyped, Listed
<1>6. AloneIsAlone'
  <2>1. \A q \in Slots : q # p /\ Under(q)' /\ pass'[q].alone => FALSE
    BY <1>1, OthersRest DEF Under
  <2>2. ~Under(p)'
    BY <1>2 DEF Under
  <2>3. clean' => \A q \in Slots : ~Under(q)'
    BY <1>4 DEF Under
  <2>4. ~tangled' => \A q \in Slots : ~Under(q)'
    BY <1>3, <1>4 DEF Under
  <2> QED BY <2>1, <2>2, <2>3, <2>4 DEF AloneIsAlone
<1>7. PassIsRight'
  <2> SUFFICES ASSUME NEW q \in Slots, pass'[q].alone PROVE AnswerIsLast(q)' /\ RowsAreApplied(q)'
    BY DEF PassIsRight
  <2>1. pass'[q].at = "none"
    BY <1>1, <1>2, OthersRest
  <2> QED BY <2>1 DEF AnswerIsLast, RowsAreApplied
<1>8. MissesAreLacks'
  <2> SUFFICES ASSUME ~tangled' PROVE MissesAreLacks'
    BY DEF MissesAreLacks
  <2>1. \A q \in Slots : pass'[q].at = "none" /\ pass'[q].flipped = {}
    BY <1>3, <1>4
  <2>2. \A b \in Scanners : misses'[b] >= 1 => lacked'[b] >= 1
    BY <1>3
  <2> QED BY <2>1, <2>2 DEF MissesAreLacks
<1> QED BY <1>3, <1>4, <1>5, <1>6, <1>7, <1>8


LEMMA StartsKeepRotom ==
  ASSUME RotomKept, NEW p \in Slots, PassStarts(p) PROVE RotomKept'
<1>1. /\ DOMAIN pass' = Slots /\ ~Under(p) /\ ~clean'
      /\ DOMAIN pass'[p] = {"at", "answer", "ours", "todo", "left", "flipped", "alone"}
      /\ pass'[p].at = "ask" /\ pass'[p].flipped = {}
      /\ pass'[p].alone = \A r \in Slots : ~Under(r)
      /\ UNCHANGED <<belief, misses, lacked, lastPass, sample>>
  BY DEF PassStarts, Away
<1>2. tangled' = (tangled \/ \E r \in Slots : Under(r))
  BY DEF PassStarts
<1>3. ASSUME NEW q \in Slots, q # p
      PROVE  /\ DOMAIN pass'[q] = DOMAIN pass[q] /\ ~pass'[q].alone
             /\ pass'[q].at = pass[q].at /\ pass'[q].flipped = pass[q].flipped
             /\ pass'[q].left = pass[q].left /\ pass'[q].todo = pass[q].todo
             /\ pass'[q].answer = pass[q].answer
  <2>1. pass'[q] = [pass[q] EXCEPT !.alone = FALSE]
    BY <1>3 DEF PassStarts
  <2> QED BY <2>1 DEF RotomKept, RotomTyped
<1>4. RotomTyped'
  BY <1>1, <1>3 DEF RotomKept, RotomTyped, Listed
<1>5. ~tangled' \/ pass'[p].alone => \A q \in Slots : q # p => pass'[q].at = "none"
  BY <1>1, <1>2, <1>3 DEF Under
<1>6. AloneIsAlone'
  <2>1. \A q \in Slots : pass'[q].alone => q = p
    BY <1>3
  <2>2. ~tangled' => pass'[p].alone
    BY <1>1, <1>2
  <2> QED BY <1>1, <1>5, <2>1, <2>2 DEF AloneIsAlone, Under
<1>7. PassIsRight'
  BY <1>1, <1>3 DEF PassIsRight, AnswerIsLast, RowsAreApplied
<1>8. ~tangled' => \A q \in Slots : pass'[q].flipped = {}
  BY <1>1, <1>2, <1>3 DEF RotomKept, RotomTyped, Under
<1>9. MissesAreLacks'
  <2> SUFFICES ASSUME ~tangled' PROVE MissesAreLacks'
    BY DEF MissesAreLacks
  <2>1. \A q \in Slots : pass'[q].at \notin {"load", "apply"} /\ pass'[q].flipped = {}
    BY <1>1, <1>5, <1>8
  <2>2. ~tangled /\ \A q \in Slots : pass[q].at = "none"
    BY <1>2 DEF Under
  <2>3. \A b \in Scanners : misses[b] >= 1 => lacked[b] >= 1
    BY <2>2 DEF RotomKept, MissesAreLacks, Pend
  <2> QED BY <1>1, <2>1, <2>3 DEF MissesAreLacks
<1>10. RotomIsBelieved'
  BY <1>1, <1>8 DEF RotomIsBelieved
<1> QED BY <1>4, <1>6, <1>7, <1>9, <1>10 DEF RotomKept

LEMMA AnswersKeepRotom ==
  ASSUME RotomKept, NEW p \in Slots, NEW answer \in [Scanners -> {"none", "connected", "off"}],
         Answers(p, answer)
  PROVE  RotomKept'
<1>1. /\ DOMAIN pass' = Slots /\ pass[p].at = "ask" /\ Under(p)
      /\ DOMAIN pass'[p] = {"at", "answer", "ours", "todo", "left", "flipped", "alone"}
      /\ pass'[p].at = "load" /\ pass'[p].answer = answer /\ pass'[p].flipped = {}
      /\ pass'[p].alone = pass[p].alone
      /\ \A q \in Slots : q # p => pass'[q] = pass[q]
      /\ UNCHANGED <<belief, misses, clean, tangled, lastPass, sample>>
  BY DEF Answers, RotomKept, RotomTyped, Under
<1>2. /\ lacked' \in [Scanners -> Nat]
      /\ \A b \in Scanners : /\ answer[b] # "none" => lacked'[b] = 0
                             /\ answer[b] = "none" => lacked'[b] >= 1
                             /\ answer[b] = "none" /\ lacked[b] >= 1 => lacked'[b] = 2
  <2>1. \A n \in Nat : LET m == IF n < 2 THEN n + 1 ELSE 2
                       IN m \in Nat /\ m >= 1 /\ (n >= 1 => m = 2)
    OBVIOUS
  <2> QED BY <2>1 DEF Answers, RotomKept, RotomTyped
<1>3. RotomTyped'
  BY <1>1, <1>2 DEF RotomKept, RotomTyped, Listed
<1>4. AloneIsAlone'
  BY <1>1 DEF RotomKept, AloneIsAlone, Under
<1>5. PassIsRight'
  <2> SUFFICES ASSUME NEW q \in Slots, pass'[q].alone PROVE AnswerIsLast(q)' /\ RowsAreApplied(q)'
    BY DEF PassIsRight
  <2>1. CASE q = p
    BY <1>1, <1>2, <2>1 DEF AnswerIsLast, RowsAreApplied
  <2>2. CASE q # p
    BY <1>1, <2>2, OthersRest DEF AnswerIsLast, RowsAreApplied
  <2> QED BY <2>1, <2>2
<1>6. ~tangled => \A q \in Slots : pass'[q].flipped = {} /\ (q # p => pass'[q].at = "none")
  BY <1>1, OthersRest
<1>7. MissesAreLacks'
  <2> SUFFICES ASSUME ~tangled PROVE MissesAreLacks'
    BY <1>1 DEF MissesAreLacks
  <2>1. \A b \in Scanners : ~Pend(b)
    BY <1>1, OthersRest DEF Pend
  <2>2. \A b \in Scanners : misses[b] >= 1 => lacked[b] >= 1
    BY <2>1 DEF RotomKept, MissesAreLacks
  <2>3. \A b \in Scanners : Pend(b)'
    BY <1>1 DEF Pend, Swept
  <2> QED BY <1>1, <1>2, <1>6, <2>2, <2>3 DEF MissesAreLacks
<1>8. RotomIsBelieved'
  BY <1>1, <1>6, OthersRest DEF RotomIsBelieved
<1> QED BY <1>3, <1>4, <1>5, <1>7, <1>8 DEF RotomKept

LEMMA LoadsKeepRotom ==
  ASSUME RotomKept, NEW p \in Slots, PassFails(p) \/ LoadsRows(p) PROVE RotomKept'
<1>1. /\ Under(p) /\ pass[p].at \in {"ask", "load"}
      /\ UNCHANGED <<belief, misses, lacked, clean, tangled, lastPass, sample>>
  BY DEF PassFails, LoadsRows, Under
<1>2. CASE Ends(p)
  <2>1. ASSUME ~tangled PROVE \A b \in Scanners : misses[b] >= 1 => lacked[b] >= 1
    <3>1. CASE pass[p].at = "ask"
      <4>1. \A b \in Scanners : ~Pend(b)
        BY <2>1, <1>1, <3>1, OthersRest DEF Pend
      <4> QED BY <2>1, <4>1 DEF RotomKept, MissesAreLacks
    <3>2. CASE pass[p].at = "load"
      <4>1. Listed(p) = {}
        BY <1>2, <3>2 DEF PassFails, LoadsRows, IsSilence, Ends, RotomKept, RotomTyped, Away
      <4>2. AnswerIsLast(p)
        BY <1>1, <2>1, OthersRest DEF RotomKept, PassIsRight
      <4> QED BY <3>2, <4>1, <4>2 DEF AnswerIsLast, Listed
    <3> QED BY <1>1, <3>1, <3>2
  <2>2. /\ RotomTyped' /\ AloneIsAlone' /\ PassIsRight' /\ MissesAreLacks'
        /\ ~tangled' => \A q \in Slots : pass'[q].flipped = {}
    BY <1>1, <1>2, <2>1, OthersRest, PassEndsWell
  <2>3. RotomIsBelieved'
    BY <1>1, <2>2, OthersRest DEF RotomIsBelieved
  <2> QED BY <2>2, <2>3 DEF RotomKept
<1>3. CASE ~Ends(p)
  <2>1. /\ DOMAIN pass' = Slots /\ pass[p].at = "load"
        /\ DOMAIN pass'[p] = {"at", "answer", "ours", "todo", "left", "flipped", "alone"}
        /\ pass'[p].at = "apply" /\ pass'[p].answer = pass[p].answer /\ pass'[p].flipped = {}
        /\ pass'[p].ours = belief /\ pass'[p].todo = Listed(p) /\ pass'[p].left = Scanners
        /\ pass'[p].alone = pass[p].alone
        /\ \A q \in Slots : q # p => pass'[q] = pass[q]
    BY <1>3 DEF PassFails, LoadsRows, RotomKept, RotomTyped
  <2>2. Listed(p)' = Listed(p) /\ Listed(p) \subseteq Scanners
    BY <2>1 DEF Listed
  <2>3. RotomTyped'
    BY <1>1, <2>1, <2>2 DEF RotomKept, RotomTyped, Listed
  <2>4. AloneIsAlone'
    BY <1>1, <2>1 DEF RotomKept, AloneIsAlone, Under
  <2>5. PassIsRight'
    <3> SUFFICES ASSUME NEW q \in Slots, pass'[q].alone PROVE AnswerIsLast(q)' /\ RowsAreApplied(q)'
      BY DEF PassIsRight
    <3>1. CASE q = p
      <4>1. AnswerIsLast(p)
        BY <2>1, <3>1 DEF RotomKept, PassIsRight
      <4>2. AnswerIsLast(p)'
        BY <1>1, <2>1, <4>1 DEF AnswerIsLast
      <4>3. RowsAreApplied(p)'
        BY <1>1, <2>1, <2>2 DEF RowsAreApplied
      <4> QED BY <3>1, <4>2, <4>3
    <3>2. CASE q # p
      BY <1>1, <2>1, <3>2, OthersRest DEF AnswerIsLast, RowsAreApplied
    <3> QED BY <3>1, <3>2
  <2>6. MissesAreLacks'
    <3>1. \A b \in Scanners, q \in Slots : Swept(q, b)' <=> Swept(q, b)
      BY <2>1 DEF Swept
    <3>2. \A b \in Scanners : Pend(b)' <=> Pend(b)
      BY <2>1, <3>1 DEF Pend
    <3> QED BY <1>1, <2>1, <3>1, <3>2 DEF RotomKept, MissesAreLacks
  <2>7. RotomIsBelieved'
    BY <1>1, <2>1, OthersRest DEF RotomKept, RotomIsBelieved
  <2> QED BY <2>3, <2>4, <2>5, <2>6, <2>7 DEF RotomKept
<1> QED BY <1>2, <1>3


LEMMA WritesKeepRotom ==
  ASSUME RotomKept, NEW p \in Slots, NEW c \in Scanners, WritesBox(p, c) PROVE RotomKept'
<1>1. /\ Under(p) /\ pass[p].at = "apply" /\ c \in pass[p].todo /\ c \in Listed(p)
      /\ DOMAIN pass' = Slots /\ DOMAIN pass'[p] = DOMAIN pass[p]
      /\ pass'[p].at = pass[p].at /\ pass'[p].answer = pass[p].answer
      /\ pass'[p].ours = pass[p].ours /\ pass'[p].left = pass[p].left
      /\ pass'[p].flipped = pass[p].flipped /\ pass'[p].alone = pass[p].alone
      /\ pass'[p].todo = pass[p].todo \ {c}
      /\ \A q \in Slots : q # p => pass'[q] = pass[q]
      /\ UNCHANGED <<misses, lacked, clean, tangled, lastPass, sample>>
  BY DEF WritesBox, IsFirst, RotomKept, RotomTyped, Under
<1>2. /\ DOMAIN belief' = Scanners /\ \A b \in Scanners : b # c => belief'[b] = belief[b]
      /\ \/ belief'[c] = pass[p].answer[c]
         \/ belief'[c] = belief[c] /\ pass[p].ours[c] = pass[p].answer[c]
  BY DEF WritesBox, RotomKept, RotomTyped
<1>3. Listed(p)' = Listed(p)
  BY <1>1 DEF Listed
<1>4. RotomTyped'
  BY <1>1, <1>2, <1>3 DEF RotomKept, RotomTyped, Listed
<1>5. AloneIsAlone'
  BY <1>1 DEF RotomKept, AloneIsAlone, Under
<1>6. PassIsRight'
  <2> SUFFICES ASSUME NEW q \in Slots, pass'[q].alone PROVE AnswerIsLast(q)' /\ RowsAreApplied(q)'
    BY DEF PassIsRight
  <2>1. CASE q = p
    <3>1. AnswerIsLast(p) /\ RowsAreApplied(p) /\ c \notin pass[p].flipped
      BY <1>1, <2>1 DEF RotomKept, PassIsRight, RotomTyped
    <3>2. AnswerIsLast(p)'
      BY <1>1, <3>1 DEF AnswerIsLast
    <3>3. belief'[c] = pass[p].answer[c]
      BY <1>1, <1>2, <3>1 DEF RowsAreApplied
    <3>4. RowsAreApplied(p)'
      BY <1>1, <1>2, <1>3, <3>1, <3>3 DEF RowsAreApplied
    <3> QED BY <2>1, <3>2, <3>4
  <2>2. CASE q # p
    BY <1>1, <2>2, OthersRest DEF AnswerIsLast, RowsAreApplied
  <2> QED BY <2>1, <2>2
<1>7. MissesAreLacks'
  <2>1. \A b \in Scanners, q \in Slots : Swept(q, b)' <=> Swept(q, b)
    BY <1>1 DEF Swept
  <2>2. \A b \in Scanners : Pend(b)' <=> Pend(b)
    BY <1>1, <2>1 DEF Pend
  <2> QED BY <1>1, <2>1, <2>2 DEF RotomKept, MissesAreLacks
<1>8. RotomIsBelieved'
  BY <1>1, OthersRest DEF RotomKept, RotomIsBelieved
<1> QED BY <1>4, <1>5, <1>6, <1>7, <1>8 DEF RotomKept

LEMMA SweepsKeepRotom ==
  ASSUME RotomKept, NEW p \in Slots, NEW c \in Scanners, Sweeps(p, c) PROVE RotomKept'
<1> DEFINE lost == c \notin Listed(p) /\ pass[p].ours[c] = "connected"
           gone == lost /\ Enough(misses[c] + 1)
<1>1. /\ Under(p) /\ pass[p].at = "apply" /\ c \in pass[p].left /\ pass[p].todo = {}
      /\ DOMAIN pass' = Slots /\ DOMAIN pass'[p] = DOMAIN pass[p]
      /\ pass'[p].at = pass[p].at /\ pass'[p].answer = pass[p].answer
      /\ pass'[p].ours = pass[p].ours /\ pass'[p].left = pass[p].left \ {c}
      /\ pass'[p].alone = pass[p].alone /\ pass'[p].todo = pass[p].todo
      /\ \A q \in Slots : q # p => pass'[q] = pass[q]
      /\ UNCHANGED <<lacked, clean, tangled, lastPass, sample>>
  BY DEF Sweeps, IsFirst, RotomKept, RotomTyped, Under
<1>2. misses[c] \in Nat /\ (gone => misses[c] >= 1) /\ (lost /\ ~gone => misses[c] = 0)
  BY DEF RotomKept, RotomTyped, Enough
<1>3. /\ DOMAIN belief' = Scanners /\ misses' \in [Scanners -> Nat]
      /\ \A b \in Scanners : b # c => belief'[b] = belief[b] /\ misses'[b] = misses[b]
  BY <1>2 DEF Sweeps, RotomKept, RotomTyped, Cleared
<1>4. /\ gone => belief'[c] = "off" /\ misses'[c] = 0 /\ pass'[p].flipped = pass[p].flipped \cup {c}
      /\ ~gone => belief'[c] = belief[c] /\ pass'[p].flipped = pass[p].flipped
      /\ lost /\ ~gone => misses'[c] = 1
      /\ ~lost => misses'[c] = 0
  <2>1. misses'[c] = IF lost /\ ~gone THEN misses[c] + 1 ELSE IF gone THEN 0 ELSE Cleared(c)
    BY DEF Sweeps, RotomKept, RotomTyped
  <2>2. /\ belief'[c] = IF gone THEN "off" ELSE belief[c]
        /\ pass'[p].flipped = IF gone THEN pass[p].flipped \cup {c} ELSE pass[p].flipped
    BY DEF Sweeps, RotomKept, RotomTyped
  <2> HIDE DEF gone, lost
  <2>3. gone => lost
    BY DEF gone
  <2> QED BY <1>2, <2>1, <2>2, <2>3 DEF Cleared
<1>5. Listed(p)' = Listed(p) /\ Listed(p) \subseteq Scanners
  BY <1>1 DEF Listed
<1>6. \E yes, flip \in BOOLEAN :
        /\ yes <=> c \notin Listed(p) /\ pass[p].ours[c] = "connected"
        /\ flip <=> gone
        /\ flip => yes /\ misses[c] >= 1 /\ belief'[c] = "off" /\ misses'[c] = 0
                   /\ pass'[p].flipped = pass[p].flipped \cup {c}
        /\ ~flip => belief'[c] = belief[c] /\ pass'[p].flipped = pass[p].flipped
        /\ yes /\ ~flip => misses[c] = 0 /\ misses'[c] = 1
        /\ ~yes => misses'[c] = 0
  BY <1>2, <1>4
<1> PICK yes, flip \in BOOLEAN :
        /\ yes <=> c \notin Listed(p) /\ pass[p].ours[c] = "connected"
        /\ flip => yes /\ misses[c] >= 1 /\ belief'[c] = "off" /\ misses'[c] = 0
                   /\ pass'[p].flipped = pass[p].flipped \cup {c}
        /\ ~flip => belief'[c] = belief[c] /\ pass'[p].flipped = pass[p].flipped
        /\ yes /\ ~flip => misses[c] = 0 /\ misses'[c] = 1
        /\ ~yes => misses'[c] = 0
  BY <1>6
<1>7. RotomTyped'
  <2>1. pass'[p].flipped \subseteq Scanners \ (Listed(p)' \cup pass'[p].left)
    BY <1>1, <1>5 DEF RotomKept, RotomTyped
  <2> QED BY <1>1, <1>3, <1>5, <2>1 DEF RotomKept, RotomTyped, Listed
<1>8. AloneIsAlone'
  BY <1>1 DEF RotomKept, AloneIsAlone, Under
<1>9. PassIsRight'
  <2> SUFFICES ASSUME NEW q \in Slots, pass'[q].alone PROVE AnswerIsLast(q)' /\ RowsAreApplied(q)'
    BY DEF PassIsRight
  <2>1. CASE q = p
    <3>1. AnswerIsLast(p) /\ RowsAreApplied(p) /\ c \notin pass[p].flipped
      BY <1>1, <2>1 DEF RotomKept, PassIsRight, RotomTyped
    <3>2. AnswerIsLast(p)'
      BY <1>1, <3>1 DEF AnswerIsLast
    <3>3. /\ c \notin Listed(p) => belief[c] = pass[p].ours[c]
          /\ c \in Listed(p) => belief[c] = pass[p].answer[c] /\ belief'[c] = belief[c]
      BY <1>1, <3>1 DEF RowsAreApplied
    <3>4. c \notin Listed(p) => misses'[c] = IF belief'[c] = "connected" THEN 1 ELSE 0
      BY <3>3
    <3>5. RowsAreApplied(p)'
      BY <1>1, <1>3, <1>5, <3>1, <3>3, <3>4 DEF RowsAreApplied
    <3> QED BY <2>1, <3>2, <3>5
  <2>2. CASE q # p
    BY <1>1, <2>2, OthersRest DEF AnswerIsLast, RowsAreApplied
  <2> QED BY <2>1, <2>2
<1>10. ASSUME ~tangled
       PROVE  /\ MissesAreLacks'
              /\ \A q \in Slots : \A b \in pass'[q].flipped : lacked[b] = 2
  <2>1. /\ pass[p].alone /\ AnswerIsLast(p)
        /\ \A q \in Slots : q # p => pass'[q].at = "none" /\ pass'[q].flipped = {}
    BY <1>1, <1>10, OthersRest DEF RotomKept, PassIsRight
  <2>2. ~Swept(p, c) /\ Swept(p, c)' /\ \A b \in Scanners : b # c => (Swept(p, b)' <=> Swept(p, b))
    BY <1>1 DEF Swept
  <2>3. yes => pass[p].answer[c] = "none" /\ lacked[c] >= 1
    BY <1>1, <2>1 DEF AnswerIsLast, Listed
  <2>4. flip => lacked[c] = 2
    BY <1>1, <1>10, <2>2, <2>3 DEF RotomKept, MissesAreLacks
  <2>5. \A b \in pass'[p].flipped : b \in Scanners /\ lacked[b] = 2
    BY <1>1, <1>10, <2>4 DEF RotomKept, MissesAreLacks, RotomTyped
  <2>6. \A b \in Scanners : b # c => (Pend(b) <=> Pend(b)')
    BY <1>1, <2>2, <2>1, OthersRest DEF Pend
  <2>7. misses'[c] >= 1 => lacked[c] >= 1
    BY <2>3
  <2>8. MissesAreLacks'
    <3> SUFFICES ASSUME NEW b \in Scanners
                 PROVE  /\ misses'[b] >= 1 /\ ~Pend(b)' => lacked'[b] >= 1
                        /\ \A q \in Slots :
                             /\ pass'[q].at \in {"load", "apply"} /\ ~Swept(q, b)' =>
                                  (pass'[q].answer[b] = "none" /\ misses'[b] >= 1 => lacked'[b] = 2)
                             /\ b \in pass'[q].flipped => lacked'[b] = 2
      BY DEF MissesAreLacks
    <3>1. misses'[b] >= 1 /\ ~Pend(b)' => lacked[b] >= 1
      BY <1>3, <1>10, <2>6, <2>7 DEF RotomKept, MissesAreLacks
    <3>2. pass'[p].at \in {"load", "apply"} /\ ~Swept(p, b)' =>
            (pass'[p].answer[b] = "none" /\ misses'[b] >= 1 => lacked[b] = 2)
      BY <1>1, <1>3, <1>10, <2>2 DEF RotomKept, MissesAreLacks
    <3> QED BY <1>1, <2>1, <2>5, <3>1, <3>2
  <2> QED BY <2>1, <2>5, <2>8
<1>11. RotomIsBelieved'
  BY <1>1, <1>10, OthersRest DEF RotomIsBelieved
<1>12. MissesAreLacks'
  BY <1>1, <1>10 DEF MissesAreLacks
<1> QED BY <1>7, <1>8, <1>9, <1>11, <1>12 DEF RotomKept


LEMMA RecordsKeepRotom ==
  ASSUME RotomKept, NEW p \in Slots, NEW fresh \in BOOLEAN, Records(p, fresh) PROVE RotomKept'
<1>1. /\ Under(p) /\ pass[p].at = "apply" /\ pass[p].todo = {} /\ pass[p].left = {} /\ Ends(p)
      /\ clean' = pass[p].alone /\ tangled' = (tangled /\ ~pass[p].alone)
      /\ lastPass' = pass[p].answer
      /\ sample' = IF fresh THEN [b \in Scanners |-> Believed(p, b)] ELSE NoSample
      /\ UNCHANGED <<belief, misses, lacked>>
  BY DEF Records, Under
<1>2. pass[p].alone => AnswerIsLast(p) /\ RowsAreApplied(p)
  BY DEF RotomKept, PassIsRight
<1>3. pass[p].alone => \A b \in Scanners : misses[b] >= 1 => lacked[b] >= 1
  BY <1>1, <1>2 DEF AnswerIsLast, RowsAreApplied, Listed
<1>4. /\ RotomTyped' /\ AloneIsAlone' /\ PassIsRight' /\ MissesAreLacks'
      /\ ~tangled' => \A q \in Slots : pass'[q].flipped = {}
  <2>1. ~tangled' => ~tangled \/ pass[p].alone
    BY <1>1
  <2>2. clean' => pass[p].alone
    BY <1>1
  <2> QED BY <1>1, <1>3, <2>1, <2>2, PassEndsWell
<1>5. ASSUME pass[p].alone, NEW b \in Scanners
      PROVE  /\ lastPass'[b] # "none" => belief'[b] = lastPass'[b] /\ misses'[b] = 0
             /\ lastPass'[b] = "none" /\ belief'[b] = "connected" => misses'[b] = 1
             /\ sample'[b] # "none" => sample'[b] = belief'[b]
  <2>1. /\ b \in Listed(p) <=> pass[p].answer[b] # "none"
        /\ b \in Listed(p) => belief[b] = pass[p].answer[b] /\ misses[b] = 0
        /\ b \notin Listed(p) => misses[b] = IF belief[b] = "connected" THEN 1 ELSE 0
        /\ b \in pass[p].flipped => belief[b] = "off"
        /\ b \notin Listed(p) \cup pass[p].flipped => belief[b] = pass[p].ours[b]
    BY <1>1, <1>2, <1>5 DEF RowsAreApplied, Listed
  <2>2. Believed(p, b) = belief[b]
    BY <2>1 DEF Believed
  <2>3. sample'[b] \in {belief[b], "none"}
    BY <1>1, <2>2 DEF NoSample
  <2> QED BY <1>1, <2>1, <2>3
<1>6. RotomIsBelieved'
  <2>1. clean' => pass[p].alone
    BY <1>1
  <2> QED BY <1>4, <1>5, <2>1 DEF RotomIsBelieved
<1> QED BY <1>4, <1>6 DEF RotomKept

LEMMA StepKeepsRotom == RotomKept /\ [RotomNext]_rotomVars => RotomKept'
<1> SUFFICES ASSUME RotomKept, [RotomNext]_rotomVars PROVE RotomKept'
  OBVIOUS
<1>1. CASE HubForgets
  <2>1. /\ pass' = [p \in Slots |-> Away] /\ misses' = [b \in Scanners |-> 0] /\ ~clean'
        /\ UNCHANGED <<belief, lacked, tangled>>
    BY <1>1 DEF HubForgets
  <2>2. \A p \in Slots :
          /\ pass'[p].at = "none" /\ pass'[p].flipped = {}
          /\ DOMAIN pass'[p] = {"at", "answer", "ours", "todo", "left", "flipped", "alone"}
    BY <2>1 DEF Away
  <2>3. RotomTyped'
    BY <2>1, <2>2 DEF RotomKept, RotomTyped
  <2>4. AloneIsAlone'
    BY <2>1, <2>2 DEF AloneIsAlone, Under
  <2>5. PassIsRight'
    BY <2>2 DEF PassIsRight, AnswerIsLast, RowsAreApplied
  <2>6. MissesAreLacks'
    BY <2>1, <2>2 DEF MissesAreLacks
  <2>7. RotomIsBelieved'
    BY <2>1, <2>2 DEF RotomIsBelieved
  <2> QED BY <2>3, <2>4, <2>5, <2>6, <2>7 DEF RotomKept
<1>2. CASE UNCHANGED rotomVars
  BY <1>2 DEF rotomVars, RotomKept, RotomTyped, AloneIsAlone, PassIsRight, AnswerIsLast,
     RowsAreApplied, MissesAreLacks, Pend, Swept, RotomIsBelieved, Under, Listed
<1> QED BY <1>1, <1>2, StartsKeepRotom, LoadsKeepRotom, AnswersKeepRotom, WritesKeepRotom,
           SweepsKeepRotom, RecordsKeepRotom DEF RotomNext

\* For any number of boxes and passes, whatever Rotom answers and in whatever order
\* the steps of two passes fall: no box is called off before a second answer lacks
\* it, unless passes overlapped, and a pass that ran alone leaves every row, every
\* miss and the history as Rotom said.
THEOREM RotomIsAlwaysBelieved == RotomSpec => []RotomIsBelieved
<1>1. RotomInit => RotomKept
  <2> SUFFICES ASSUME RotomInit PROVE RotomKept
    OBVIOUS
  <2>1. \A p \in Slots :
          /\ pass[p].at = "none" /\ pass[p].flipped = {}
          /\ DOMAIN pass[p] = {"at", "answer", "ours", "todo", "left", "flipped", "alone"}
    BY DEF RotomInit, Away
  <2>2. RotomTyped /\ AloneIsAlone
    BY <2>1 DEF RotomInit, RotomTyped, AloneIsAlone, Under
  <2>3. PassIsRight /\ MissesAreLacks /\ RotomIsBelieved
    BY <2>1 DEF RotomInit, PassIsRight, AnswerIsLast, RowsAreApplied, MissesAreLacks, RotomIsBelieved
  <2> QED BY <2>2, <2>3 DEF RotomKept
<1>2. RotomKept => RotomIsBelieved
  BY DEF RotomKept
<1> QED BY <1>1, <1>2, StepKeepsRotom, PTL DEF RotomSpec


-----------------------------------------------------------------------------
(* The settings.                                                           *)

StorePlaces == {"compareStore", "sendStore", "doneStore"}
ReaderPlaces == {"idle", "saved", "compare", "send"} \cup QueryPlaces \cup StorePlaces

SettingsTyped ==
  /\ row \in Intervals /\ copy \in Intervals \cup {None}
  /\ DOMAIN pulse = {"online", "heartbeat", "rebeat", "ticker", "lingers"}
  /\ pulse.heartbeat # None
  /\ DOMAIN reader = Readers
  /\ \A r \in Readers :
       /\ DOMAIN reader[r] = {"at", "before", "value"} /\ reader[r].at \in ReaderPlaces
       /\ reader[r].at \in {"compare", "send"} \cup StorePlaces => reader[r].value \in Intervals
  /\ reader["save"].at \notin {"doneQuery", "doneStore"}
  /\ reader["tick"].at \in {"idle", "doneQuery", "doneStore"}
  /\ reader["setup"].at \in {"idle", "sendQuery", "sendStore", "send"}

\* While no save fell between a read and its use, all that is held is the row, or
\* what the hub has believed since before it was told.
Told == reader["save"].at # "saved" /\ "untold" \notin excuses
ValuesAgree ==
  /\ \A r \in Readers :
       /\ reader[r].at \in StorePlaces => reader[r].value = row
       /\ reader[r].at \in StorePlaces \cup QueryPlaces => copy \in {None, row}
       /\ reader[r].at \in {"compare", "send"} => reader[r].value = copy
  /\ reader["save"].at \notin {"idle", "saved"} => "untold" \notin excuses
  /\ Told => copy \in {None, row}
  /\ reader["save"].at \notin {"sendQuery", "sendStore"}

\* A box that has been welcomed has what the hub believes, or will be told.
BoxFollows ==
  pulse.online /\ reader["setup"].at = "idle" =>
    /\ reader["save"].at \in {"idle", "saved"} =>
         copy # None /\ (Adopted(copy) => pulse.heartbeat = copy)
    /\ reader["save"].at \in {"query", "compareStore", "compare"} /\ Adopted(row) =>
         pulse.heartbeat = row \/ reader["save"].before \notin {None, row}

TickerFollows ==
  excuses \cap {"full", "taken"} = {} =>
    /\ pulse.rebeat = None => pulse.ticker = pulse.heartbeat
    /\ pulse.rebeat # None => pulse.rebeat = pulse.heartbeat

Believes == ValuesAgree /\ BoxFollows
SettingsKept == SettingsTyped /\ TickerFollows /\ ("crossed" \notin excuses => Believes)

LEMMA TheReaders == Readers = {"save", "setup", "tick"} /\ Bells = {"save"}
BY DEF Readers, Bells

LEMMA IntervalsAreSome == None \notin Intervals
BY DEF None, Intervals, TooSlow

LEMMA ReaderMoves ==
  ASSUME SettingsTyped, NEW r \in Readers, NEW place, Moves(r, place)
  PROVE  /\ DOMAIN reader' = Readers
         /\ \A o \in Readers : DOMAIN reader'[o] = {"at", "before", "value"}
         /\ \A o \in Readers : o # r => reader'[o] = reader[o]
         /\ reader'[r].at = place
         /\ place # "idle" => reader'[r].value = reader[r].value /\ reader'[r].before = reader[r].before
BY DEF SettingsTyped, Moves, Still

LEMMA SavesKeepSettings ==
  ASSUME SettingsKept, NEW v \in Intervals, Saves("save", v) PROVE SettingsKept'
<1>1. /\ reader["save"].at = "idle" /\ row' = v /\ Moves("save", "saved")
      /\ UNCHANGED <<copy, pulse>>
      /\ excuses' = excuses \cup {"crossed"}
         \/ (excuses' = excuses /\ \A o \in Readers : reader[o].at = "idle")
  BY DEF Saves
<1>2. /\ DOMAIN reader' = Readers
      /\ \A o \in Readers : DOMAIN reader'[o] = {"at", "before", "value"}
      /\ \A o \in Readers : o # "save" => reader'[o] = reader[o]
      /\ reader'["save"].at = "saved"
  BY <1>1, TheReaders, ReaderMoves DEF SettingsKept
<1>3. SettingsTyped'
  BY <1>1, <1>2, TheReaders DEF SettingsKept, SettingsTyped, ReaderPlaces, StorePlaces
<1>4. TickerFollows'
  BY <1>1 DEF SettingsKept, TickerFollows
<1>5. ASSUME "crossed" \notin excuses' PROVE Believes'
  <2>1. "crossed" \notin excuses /\ \A o \in Readers : reader[o].at = "idle"
    BY <1>1, <1>5
  <2>2. \A o \in Readers : reader'[o].at \in {"idle", "saved"}
    BY <1>2, <2>1
  <2>3. ValuesAgree'
    BY <1>2, <2>2, TheReaders DEF ValuesAgree, Told, StorePlaces, QueryPlaces
  <2>4. BoxFollows'
    BY <1>1, <1>2, <2>1, TheReaders DEF SettingsKept, Believes, BoxFollows
  <2> QED BY <2>3, <2>4 DEF Believes
<1> QED BY <1>3, <1>4, <1>5 DEF SettingsKept

LEMMA BellsKeepSettings ==
  ASSUME SettingsKept, BellRings("save") \/ BellIsNotHeard("save") PROVE SettingsKept'
<1>1. /\ reader["save"].at = "saved" /\ UNCHANGED <<row, pulse>>
      /\ DOMAIN reader' = Readers
      /\ \A o \in Readers : DOMAIN reader'[o] = {"at", "before", "value"}
      /\ \A o \in Readers : o # "save" => reader'[o] = reader[o]
  BY TheReaders, ReaderMoves DEF BellRings, BellIsNotHeard, SettingsKept, SettingsTyped
<1>2. CASE BellRings("save")
  <2>1. /\ reader'["save"].at = "query" /\ reader'["save"].before = copy /\ copy' = None
        /\ "untold" \notin excuses' /\ excuses \subseteq excuses' \cup {"untold"}
        /\ "crossed" \notin excuses' => ~Crossed("save")
    BY <1>2, TheReaders DEF BellRings, Peeked, SettingsKept, SettingsTyped
  <2>2. SettingsTyped'
    BY <1>1, <2>1, TheReaders DEF SettingsKept, SettingsTyped, ReaderPlaces, StorePlaces, QueryPlaces
  <2>3. TickerFollows'
    BY <1>1, <2>1 DEF SettingsKept, TickerFollows
  <2>4. ASSUME "crossed" \notin excuses' PROVE Believes'
    <3>1. /\ "crossed" \notin excuses /\ reader["setup"].at = "idle" /\ reader["tick"].at = "idle"
      BY <2>1, <2>4, TheReaders DEF Crossed, SettingsKept, SettingsTyped
    <3>2. ValuesAgree'
      BY <1>1, <2>1, <3>1, TheReaders DEF ValuesAgree, Told, StorePlaces, QueryPlaces
    <3>3. BoxFollows'
      BY <1>1, <2>1, <3>1, TheReaders DEF SettingsKept, Believes, BoxFollows
    <3> QED BY <3>2, <3>3 DEF Believes
  <2> QED BY <2>2, <2>3, <2>4 DEF SettingsKept
<1>3. CASE BellIsNotHeard("save")
  <2>1. /\ reader'["save"].at = "idle" /\ UNCHANGED copy /\ excuses' = excuses \cup {"untold"}
    BY <1>3, TheReaders, ReaderMoves DEF BellIsNotHeard, SettingsKept
  <2>2. SettingsTyped'
    BY <1>1, <2>1, TheReaders DEF SettingsKept, SettingsTyped, ReaderPlaces, StorePlaces
  <2>3. TickerFollows'
    BY <1>1, <2>1 DEF SettingsKept, TickerFollows
  <2>4. ASSUME "crossed" \notin excuses' PROVE Believes'
    <3>1. Believes
      BY <2>1, <2>4 DEF SettingsKept
    <3>2. ValuesAgree'
      BY <1>1, <2>1, <3>1, TheReaders DEF Believes, ValuesAgree, Told, StorePlaces, QueryPlaces
    <3>3. BoxFollows'
      BY <1>1, <2>1, <3>1, TheReaders DEF Believes, BoxFollows
    <3> QED BY <3>2, <3>3 DEF Believes
  <2> QED BY <2>2, <2>3, <2>4 DEF SettingsKept
<1> QED BY <1>2, <1>3


LEMMA ComparesKeepSettings ==
  ASSUME SettingsKept, Compares("save") PROVE SettingsKept'
<1>1. /\ reader["save"].at = "compare" /\ UNCHANGED <<row, copy, pulse, excuses>>
      /\ \/ /\ reader["save"].before \notin {None, reader["save"].value} /\ copy # None
            /\ reader' = [reader EXCEPT !["save"].at = "send", !["save"].value = copy]
         \/ /\ reader["save"].before \notin {None, reader["save"].value} /\ copy = None
            /\ Moves("save", "sendQuery")
         \/ reader["save"].before \in {None, reader["save"].value} /\ Moves("save", "idle")
  BY DEF Compares, Get
<1>2. /\ DOMAIN reader' = Readers
      /\ \A o \in Readers : DOMAIN reader'[o] = {"at", "before", "value"}
      /\ \A o \in Readers : o # "save" => reader'[o] = reader[o]
      /\ \/ /\ reader["save"].before \notin {None, reader["save"].value} /\ copy # None
            /\ reader'["save"].at = "send" /\ reader'["save"].value = copy
         \/ /\ copy = None /\ reader'["save"].at = "sendQuery"
         \/ reader["save"].before \in {None, reader["save"].value} /\ reader'["save"].at = "idle"
  BY <1>1, TheReaders, ReaderMoves DEF SettingsKept, SettingsTyped
<1>3. SettingsTyped'
  BY <1>1, <1>2, TheReaders DEF SettingsKept, SettingsTyped, ReaderPlaces, StorePlaces, QueryPlaces
<1>4. TickerFollows'
  BY <1>1 DEF SettingsKept, TickerFollows
<1>5. ASSUME "crossed" \notin excuses' PROVE Believes'
  <2>1. Believes
    BY <1>1, <1>5 DEF SettingsKept
  <2>2. reader["save"].value = copy /\ copy # None /\ copy = row
    BY <1>1, <2>1, TheReaders, IntervalsAreSome
       DEF SettingsKept, SettingsTyped, Believes, ValuesAgree, Told
  <2>3. ValuesAgree'
    BY <1>1, <1>2, <2>1, <2>2, TheReaders DEF Believes, ValuesAgree, Told, StorePlaces, QueryPlaces
  <2>4. BoxFollows'
    BY <1>1, <1>2, <2>1, <2>2, TheReaders DEF Believes, BoxFollows
  <2> QED BY <2>3, <2>4 DEF Believes
<1> QED BY <1>3, <1>4, <1>5 DEF SettingsKept

LEMMA QueriesKeepSettings ==
  ASSUME SettingsKept, NEW r \in Readers, Queries(r) PROVE SettingsKept'
<1>1. /\ reader[r].at \in QueryPlaces /\ UNCHANGED <<row, copy, pulse, excuses>>
      /\ DOMAIN reader' = Readers
      /\ \A o \in Readers : DOMAIN reader'[o] = {"at", "before", "value"}
      /\ \A o \in Readers : o # r => reader'[o] = reader[o]
      /\ reader'[r].at = AfterQuery(reader[r].at) /\ reader'[r].value = row
      /\ reader'[r].before = reader[r].before
  BY DEF Queries, SettingsKept, SettingsTyped
<1>2. /\ reader[r].at = "query" => reader'[r].at = "compareStore"
      /\ reader[r].at = "sendQuery" => reader'[r].at = "sendStore"
      /\ reader[r].at = "doneQuery" => reader'[r].at = "doneStore"
  BY <1>1 DEF AfterQuery
<1>3. SettingsTyped'
  BY <1>1, <1>2, TheReaders DEF SettingsKept, SettingsTyped, ReaderPlaces, StorePlaces, QueryPlaces
<1>4. TickerFollows'
  BY <1>1 DEF SettingsKept, TickerFollows
<1>5. ASSUME "crossed" \notin excuses' PROVE Believes'
  <2>1. Believes
    BY <1>1, <1>5 DEF SettingsKept
  <2>2. ValuesAgree'
    BY <1>1, <1>2, <2>1, TheReaders DEF Believes, ValuesAgree, Told, StorePlaces, QueryPlaces
  <2>3. BoxFollows'
    BY <1>1, <1>2, <2>1, TheReaders
       DEF SettingsKept, SettingsTyped, Believes, BoxFollows, QueryPlaces
  <2> QED BY <2>2, <2>3 DEF Believes
<1> QED BY <1>3, <1>4, <1>5 DEF SettingsKept

LEMMA StoresKeepSettings ==
  ASSUME SettingsKept, NEW r \in Readers, Stores(r) PROVE SettingsKept'
<1>1. /\ reader[r].at \in StorePlaces /\ UNCHANGED <<row, pulse, excuses>>
      /\ copy' = reader[r].value /\ Moves(r, AfterStore(reader[r].at))
  BY DEF Stores, StorePlaces
<1>2. /\ reader[r].at = "compareStore" => AfterStore(reader[r].at) = "compare"
      /\ reader[r].at = "sendStore" => AfterStore(reader[r].at) = "send"
      /\ reader[r].at = "doneStore" => AfterStore(reader[r].at) = "idle"
  BY DEF AfterStore
<1>3. /\ DOMAIN reader' = Readers
      /\ \A o \in Readers : DOMAIN reader'[o] = {"at", "before", "value"}
      /\ \A o \in Readers : o # r => reader'[o] = reader[o]
      /\ reader'[r].at = AfterStore(reader[r].at)
      /\ reader'[r].at # "idle" => reader'[r].value = reader[r].value
                                   /\ reader'[r].before = reader[r].before
  BY <1>1, ReaderMoves DEF SettingsKept
<1>4. reader[r].value \in Intervals
  BY <1>1 DEF SettingsKept, SettingsTyped
<1>5. SettingsTyped'
  BY <1>1, <1>2, <1>3, <1>4, TheReaders DEF SettingsKept, SettingsTyped, ReaderPlaces, StorePlaces
<1>6. TickerFollows'
  BY <1>1 DEF SettingsKept, TickerFollows
<1>7. ASSUME "crossed" \notin excuses' PROVE Believes'
  <2>1. Believes
    BY <1>1, <1>7 DEF SettingsKept
  <2>2. reader[r].value = row /\ copy \in {None, row} /\ copy' = row /\ row # None
    BY <1>1, <1>4, <2>1, IntervalsAreSome DEF Believes, ValuesAgree
  <2>3. \A o \in Readers : reader[o].at \in {"compare", "send"} => reader[o].value = row
    BY <2>1, <2>2, IntervalsAreSome DEF SettingsKept, SettingsTyped, Believes, ValuesAgree
  <2>4. ValuesAgree'
    BY <1>1, <1>2, <1>3, <2>1, <2>2, <2>3, TheReaders
       DEF Believes, ValuesAgree, Told, StorePlaces, QueryPlaces
  <2>5. BoxFollows'
    <3>1. CASE r = "setup"
      BY <1>1, <1>2, <1>3, <3>1, TheReaders DEF SettingsKept, SettingsTyped, BoxFollows, StorePlaces
    <3>2. CASE r = "tick"
      BY <1>1, <1>3, <2>1, <2>2, <3>2, TheReaders DEF Believes, BoxFollows
    <3>3. CASE r = "save"
      BY <1>1, <1>2, <1>3, <2>1, <2>2, <3>3, TheReaders
         DEF SettingsKept, SettingsTyped, Believes, BoxFollows, StorePlaces
    <3> QED BY <3>1, <3>2, <3>3, TheReaders
  <2> QED BY <2>4, <2>5 DEF Believes
<1> QED BY <1>5, <1>6, <1>7 DEF SettingsKept

LEMMA WelcomesKeepSettings ==
  ASSUME SettingsKept, NEW r \in Readers, Welcomes(r) PROVE SettingsKept'
<1> DEFINE v == reader[r].value
<1>1. /\ reader[r].at = "send" /\ UNCHANGED <<row, copy>> /\ Moves(r, "idle") /\ Heard(v)
  BY DEF Welcomes
<1>2. /\ DOMAIN reader' = Readers
      /\ \A o \in Readers : DOMAIN reader'[o] = {"at", "before", "value"}
      /\ \A o \in Readers : o # r => reader'[o] = reader[o]
      /\ reader'[r].at = "idle"
  BY <1>1, ReaderMoves DEF SettingsKept
<1>3. /\ DOMAIN pulse' = DOMAIN pulse /\ pulse'.online = pulse.online /\ pulse'.ticker = pulse.ticker
      /\ pulse'.heartbeat \in {pulse.heartbeat, v}
      /\ pulse.online /\ Adopted(v) => pulse'.heartbeat = v
      /\ \/ pulse'.heartbeat = pulse.heartbeat /\ pulse'.rebeat = pulse.rebeat /\ excuses' = excuses
         \/ pulse.rebeat = None /\ pulse'.rebeat = v /\ pulse'.heartbeat = v /\ excuses' = excuses
         \/ excuses' = excuses \cup {"full"}
  BY <1>1 DEF Heard, SettingsKept, SettingsTyped
<1>4. v \in Intervals /\ v # None
  BY <1>1, IntervalsAreSome DEF SettingsKept, SettingsTyped
<1> HIDE DEF v
<1>5. SettingsTyped'
  BY <1>1, <1>2, <1>3, <1>4, TheReaders DEF SettingsKept, SettingsTyped, ReaderPlaces, StorePlaces
<1>6. TickerFollows'
  BY <1>3, <1>4 DEF SettingsKept, TickerFollows
<1>7. ASSUME "crossed" \notin excuses' PROVE Believes'
  <2>1. Believes /\ ("untold" \in excuses' <=> "untold" \in excuses)
    BY <1>3, <1>7 DEF SettingsKept
  <2>2. v = copy
    BY <1>1, <2>1 DEF Believes, ValuesAgree, v
  <2>3. ValuesAgree'
    BY <1>1, <1>2, <2>1, TheReaders DEF Believes, ValuesAgree, Told, StorePlaces, QueryPlaces
  <2>4. BoxFollows'
    <3> SUFFICES ASSUME pulse.online PROVE BoxFollows'
      BY <1>3 DEF BoxFollows
    <3>1. reader["save"].at \in {"query", "compareStore", "compare"} => copy = row
      BY <1>4, <2>1, <2>2, TheReaders DEF Believes, ValuesAgree, Told, StorePlaces, QueryPlaces
    <3> QED BY <1>1, <1>2, <1>3, <1>4, <2>2, <3>1, TheReaders DEF BoxFollows
  <2> QED BY <2>3, <2>4 DEF Believes
<1> QED BY <1>5, <1>6, <1>7 DEF SettingsKept


LEMMA DialsKeepSettings ==
  ASSUME SettingsKept, NEW leaves \in BOOLEAN, Dials(leaves) PROVE SettingsKept'
<1>1. /\ reader["setup"].at = "idle" /\ UNCHANGED <<row, copy, excuses>>
      /\ DOMAIN pulse' = DOMAIN pulse /\ pulse'.heartbeat = pulse.heartbeat
      /\ pulse'.ticker = pulse.heartbeat /\ pulse'.rebeat = pulse.rebeat
      /\ DOMAIN reader' = Readers
      /\ \A o \in Readers : DOMAIN reader'[o] = {"at", "before", "value"}
      /\ \A o \in Readers : o # "setup" => reader'[o] = reader[o]
      /\ \/ copy # None /\ reader'["setup"].at = "send" /\ reader'["setup"].value = copy
         \/ copy = None /\ reader'["setup"].at = "sendQuery"
  BY TheReaders, ReaderMoves DEF Dials, Get, SettingsKept, SettingsTyped
<1>2. SettingsTyped'
  BY <1>1, TheReaders DEF SettingsKept, SettingsTyped, ReaderPlaces, StorePlaces, QueryPlaces
<1>3. TickerFollows'
  BY <1>1 DEF SettingsKept, TickerFollows
<1>4. ASSUME "crossed" \notin excuses' PROVE Believes'
  <2>1. ValuesAgree'
    BY <1>1, <1>4, TheReaders
       DEF SettingsKept, Believes, ValuesAgree, Told, StorePlaces, QueryPlaces
  <2>2. BoxFollows'
    BY <1>1 DEF BoxFollows
  <2> QED BY <2>1, <2>2 DEF Believes
<1> QED BY <1>2, <1>3, <1>4 DEF SettingsKept

LEMMA StepKeepsSettings == SettingsKept /\ [SettingsNext]_settingsVars => SettingsKept'
<1> SUFFICES ASSUME SettingsKept, [SettingsNext]_settingsVars PROVE SettingsKept'
  OBVIOUS
<1>1. CASE TickReads
  <2>1. /\ copy = None /\ UNCHANGED <<row, copy, pulse, excuses>>
        /\ DOMAIN reader' = Readers
        /\ \A o \in Readers : DOMAIN reader'[o] = {"at", "before", "value"}
        /\ \A o \in Readers : o # "tick" => reader'[o] = reader[o]
        /\ reader'["tick"].at = "doneQuery"
    BY <1>1, TheReaders, ReaderMoves DEF TickReads, SettingsKept
  <2>2. SettingsTyped' /\ TickerFollows'
    BY <2>1, TheReaders
       DEF SettingsKept, SettingsTyped, TickerFollows, ReaderPlaces, StorePlaces, QueryPlaces
  <2>3. ASSUME "crossed" \notin excuses' PROVE Believes'
    <3>1. ValuesAgree'
      BY <2>1, <2>3, TheReaders
         DEF SettingsKept, Believes, ValuesAgree, Told, StorePlaces, QueryPlaces
    <3>2. BoxFollows'
      BY <2>1, <2>3, TheReaders DEF SettingsKept, Believes, BoxFollows
    <3> QED BY <3>1, <3>2 DEF Believes
  <2> QED BY <2>2, <2>3 DEF SettingsKept
<1>2. ASSUME /\ UNCHANGED <<row, copy, reader>> /\ DOMAIN pulse' = DOMAIN pulse
             /\ pulse'.heartbeat = pulse.heartbeat
             /\ excuses' = excuses \/ excuses' = excuses \cup {"taken"}
             /\ pulse'.online => pulse.online, TickerFollows'
      PROVE  SettingsKept'
  <2>1. SettingsTyped'
    BY <1>2 DEF SettingsKept, SettingsTyped
  <2>2. ASSUME "crossed" \notin excuses' PROVE Believes'
    <3>1. Believes /\ ("untold" \in excuses' <=> "untold" \in excuses)
      BY <1>2, <2>2 DEF SettingsKept
    <3>2. ValuesAgree' /\ BoxFollows'
      BY <1>2, <3>1 DEF Believes, ValuesAgree, Told, BoxFollows
    <3> QED BY <3>2 DEF Believes
  <2> QED BY <1>2, <2>1, <2>2 DEF SettingsKept
<1>3. CASE LoopRetunes
  <2>1. /\ UNCHANGED <<row, copy, reader, excuses>> /\ DOMAIN pulse' = DOMAIN pulse
        /\ pulse'.heartbeat = pulse.heartbeat /\ pulse'.online = pulse.online
        /\ pulse.rebeat # None /\ pulse'.ticker = pulse.rebeat /\ pulse'.rebeat = None
    BY <1>3 DEF LoopRetunes, SettingsKept, SettingsTyped
  <2>2. TickerFollows'
    BY <2>1 DEF SettingsKept, TickerFollows
  <2> QED BY <1>2, <2>1, <2>2
<1>4. ASSUME NEW takes \in BOOLEAN, OldLoopLeaves(takes) PROVE SettingsKept'
  <2>1. /\ UNCHANGED <<row, copy, reader>> /\ DOMAIN pulse' = DOMAIN pulse
        /\ pulse'.heartbeat = pulse.heartbeat /\ pulse'.online = pulse.online
        /\ pulse'.ticker = pulse.ticker
        /\ \/ excuses' = excuses \cup {"taken"}
           \/ excuses' = excuses /\ pulse'.rebeat = pulse.rebeat
    BY <1>4 DEF OldLoopLeaves, SettingsKept, SettingsTyped
  <2>2. TickerFollows'
    BY <2>1 DEF SettingsKept, TickerFollows
  <2> QED BY <1>2, <2>1, <2>2
<1>5. CASE SocketIsLost \/ UNCHANGED settingsVars
  <2>1. /\ UNCHANGED <<row, copy, reader, excuses>> /\ DOMAIN pulse' = DOMAIN pulse
        /\ pulse'.heartbeat = pulse.heartbeat /\ (pulse'.online => pulse.online)
        /\ pulse'.ticker = pulse.ticker /\ pulse'.rebeat = pulse.rebeat
    BY <1>5 DEF SocketIsLost, settingsVars, SettingsKept, SettingsTyped
  <2>2. TickerFollows'
    BY <2>1 DEF SettingsKept, TickerFollows
  <2> QED BY <1>2, <2>1, <2>2
<1>6. CASE HubStartsAgain
  <2>1. /\ copy' = None /\ UNCHANGED row /\ excuses' = excuses \ {"crossed", "untold"}
        /\ DOMAIN pulse' = DOMAIN pulse /\ ~pulse'.online /\ pulse'.heartbeat = pulse.heartbeat
        /\ pulse'.ticker = pulse.ticker /\ pulse'.rebeat = pulse.rebeat
    BY <1>6 DEF HubStartsAgain, SettingsKept, SettingsTyped
  <2>2. /\ DOMAIN reader' = Readers
        /\ \A o \in Readers : /\ DOMAIN reader'[o] = {"at", "before", "value"}
                              /\ reader'[o].at \in {"idle", "saved"}
                              /\ reader'[o].at = "saved" => reader[o].at = "saved"
    BY <1>6 DEF HubStartsAgain, Still, SettingsKept, SettingsTyped
  <2>3. SettingsTyped'
    BY <2>1, <2>2, TheReaders DEF SettingsKept, SettingsTyped, ReaderPlaces, StorePlaces
  <2>4. TickerFollows'
    BY <2>1 DEF SettingsKept, TickerFollows
  <2>5. ValuesAgree' /\ BoxFollows'
    BY <2>1, <2>2, TheReaders DEF ValuesAgree, BoxFollows, Told, StorePlaces, QueryPlaces
  <2> QED BY <2>3, <2>4, <2>5 DEF SettingsKept, Believes
<1> QED BY <1>1, <1>3, <1>4, <1>5, <1>6, TheReaders, SavesKeepSettings, BellsKeepSettings,
           ComparesKeepSettings, QueriesKeepSettings, StoresKeepSettings, WelcomesKeepSettings,
           DialsKeepSettings DEF SettingsNext

\* When the hub is still, its copy is the saved value and a box that is connected
\* beats at it, however the save, the scheduler's reads and the box's sockets fell:
\* but for the four ways that SettingsPush keeps book of.
THEOREM SettingsAlwaysLand == SettingsSpec => []SettingsLand
<1>1. SettingsInit => SettingsKept
  <2> SUFFICES ASSUME SettingsInit PROVE SettingsKept
    OBVIOUS
  <2>1. /\ DOMAIN reader = Readers /\ copy = None
        /\ \A r \in Readers : DOMAIN reader[r] = {"at", "before", "value"} /\ reader[r].at = "idle"
    BY DEF SettingsInit, Still
  <2>2. SettingsTyped
    BY <2>1, TheReaders DEF SettingsInit, SettingsTyped, ReaderPlaces, StorePlaces, Intervals, None
  <2>3. TickerFollows
    BY DEF SettingsInit, TickerFollows, None
  <2>4. ValuesAgree
    BY <2>1, TheReaders DEF ValuesAgree, Told, StorePlaces, QueryPlaces
  <2>5. BoxFollows
    BY DEF SettingsInit, BoxFollows
  <2> QED BY <2>2, <2>3, <2>4, <2>5 DEF SettingsKept, Believes
<1>2. SettingsKept => SettingsLand
  <2> SUFFICES ASSUME SettingsKept, Quiet, excuses \cap {"crossed", "untold"} = {}
               PROVE  /\ copy \in {None, row}
                      /\ pulse.online /\ Adopted(row) =>
                           /\ pulse.heartbeat = row
                           /\ pulse.rebeat = None /\ excuses = {} => pulse.ticker = row
    BY DEF SettingsLand
  <2>1. Believes /\ TickerFollows /\ \A r \in Readers : reader[r].at = "idle"
    BY DEF SettingsKept, Quiet
  <2>2. copy \in {None, row}
    BY <2>1, TheReaders DEF Believes, ValuesAgree, Told
  <2>3. pulse.online /\ Adopted(row) => pulse.heartbeat = row
    BY <2>1, <2>2, TheReaders DEF Believes, BoxFollows
  <2> QED BY <2>1, <2>2, <2>3 DEF TickerFollows
<1> QED BY <1>1, <1>2, StepKeepsSettings, PTL DEF SettingsSpec


-----------------------------------------------------------------------------
(* What a box watches.                                                     *)

WatchTyped ==
  /\ DOMAIN rule = Rules
  /\ DOMAIN teller = Tellers
  /\ \A t \in Tellers : DOMAIN teller[t] = {"at", "rules", "packages", "inGroup", "clean"}
  /\ teller["setup"].at # "tell"
  /\ DOMAIN box = {"online", "spec", "tracked"}
  /\ DOMAIN site = {"there", "member", "mitm"}

\* What is read and not yet told is as it is, unless its reader is known to be
\* behind.
ReadFresh(t) ==
  /\ teller[t].at = "boxes" => teller[t].rules = Enabled /\ teller[t].packages = Packages
  /\ t = "setup" /\ teller[t].at \in {"group", "boxes"} => teller[t].inGroup = site.member
ReadsAreFresh == \A t \in Tellers : teller[t].clean => ReadFresh(t)

WatchKept == WatchTyped /\ ReadsAreFresh /\ BoxesWatchTheRules

LEMMA SetupTells == "setup" \in Tellers /\ "setup" \notin Operators /\ Operators \subseteq Tellers
BY DEF Tellers, Operators

LEMMA EditsAreHeardOf ==
  ASSUME WatchKept, NEW t \in Operators, NEW why, Edited(t, why)
  PROVE  /\ DOMAIN teller' = Tellers
         /\ \A o \in Tellers : DOMAIN teller'[o] = {"at", "rules", "packages", "inGroup", "clean"}
         /\ teller'["setup"].at # "tell" /\ ReadsAreFresh'
         /\ why = "told" => \E o \in Tellers : teller'[o].at # "idle"
         /\ \A o \in Tellers : teller'[o].at = "idle" => teller[o].at = "idle"
         /\ why \notin {"told", "nothing"} => reasons' = reasons \cup {why}
         /\ why \in {"told", "nothing"} => reasons' = reasons
<1>1. t \in Tellers /\ teller[t].at = "idle" /\ t # "setup" /\ "setup" \in Tellers
  BY DEF Operators, Tellers, Edited
<1>2. /\ DOMAIN teller' = Tellers
      /\ \A o \in Tellers : DOMAIN teller'[o] = {"at", "rules", "packages", "inGroup", "clean"}
      /\ \A o \in Tellers : Midway(o) => ~teller'[o].clean
      /\ \A o \in Tellers : ~Midway(o) => teller'[o] = teller[o] \/ (teller'[o].at = "tell" /\ o = t)
      /\ \A o \in Tellers : Midway(o) => teller'[o].at # "tell"
      /\ \A o \in Tellers : teller'[o].at = "idle" => teller[o].at = "idle"
  BY <1>1 DEF Edited, Silent, Midway, WatchKept, WatchTyped
<1>3. ReadsAreFresh'
  BY <1>2 DEF ReadsAreFresh, ReadFresh, Midway
<1>4. why = "told" => teller'[t].at = "tell"
  BY <1>1 DEF Edited, Silent
<1>5. /\ why \notin {"told", "nothing"} => reasons' = reasons \cup {why}
      /\ why \in {"told", "nothing"} => reasons' = reasons
  BY DEF Edited
<1>6. teller'["setup"].at # "tell"
  BY <1>1, <1>2 DEF WatchKept, WatchTyped
<1> QED BY <1>1, <1>2, <1>3, <1>4, <1>5, <1>6

LEMMA RulesKeepWatch ==
  ASSUME WatchKept, NEW t \in Operators, NEW r \in Rules,
         \/ TogglesRule(t, r) \/ DeletesRule(t, r)
         \/ \E on \in BOOLEAN, s \in {"all", "group"} : CreatesRule(t, r, on, s) \/ UpdatesRule(t, r, on, s)
  PROVE  WatchKept'
<1>1. ASSUME Edited(t, "told"), DOMAIN rule' = Rules, UNCHANGED <<site, box>> PROVE WatchKept'
  <2>1. WatchTyped' /\ ReadsAreFresh' /\ \E o \in Tellers : teller'[o].at # "idle"
    BY <1>1, EditsAreHeardOf DEF WatchKept, WatchTyped
  <2> QED BY <2>1 DEF WatchKept, BoxesWatchTheRules, Untroubled
<1>2. ASSUME NEW s \in {"all", "group"}, CreatesRule(t, r, FALSE, s) PROVE WatchKept'
  <2>1. /\ Edited(t, "nothing") /\ ~rule[r].there /\ UNCHANGED <<master, site, targets, box>>
        /\ DOMAIN rule' = Rules /\ ~rule'[r].on
        /\ \A q \in Rules : q # r => rule'[q] = rule[q]
    BY <1>2 DEF CreatesRule, WatchKept, WatchTyped
  <2>2. {q \in Rules : master' /\ rule'[q].there /\ rule'[q].on}
          = {q \in Rules : master /\ rule[q].there /\ rule[q].on}
    BY <2>1
  <2>3. r \notin {q \in Rules : master /\ rule[q].there /\ rule[q].on}
    BY <2>1
  <2>4. Enabled' = Enabled
    BY <2>1, <2>2, <2>3 DEF Enabled
  <2>5. WatchTyped' /\ ReadsAreFresh' /\ reasons' = reasons
        /\ \A o \in Tellers : teller'[o].at = "idle" => teller[o].at = "idle"
    BY <2>1, EditsAreHeardOf DEF WatchKept, WatchTyped
  <2> QED BY <2>1, <2>4, <2>5 DEF WatchKept, BoxesWatchTheRules, Untroubled, Packages
<1>3. ASSUME NEW on \in BOOLEAN, NEW s \in {"all", "group"}, CreatesRule(t, r, on, s) PROVE WatchKept'
  <2>1. CASE on
    BY <1>1, <1>3, <2>1 DEF CreatesRule, WatchKept, WatchTyped
  <2>2. CASE on = FALSE
    BY <1>2, <1>3, <2>2
  <2> QED BY <2>1, <2>2
<1>4. ASSUME NEW on \in BOOLEAN, NEW s \in {"all", "group"}, UpdatesRule(t, r, on, s) PROVE WatchKept'
  BY <1>1, <1>4 DEF UpdatesRule, WatchKept, WatchTyped
<1>5. CASE TogglesRule(t, r) \/ DeletesRule(t, r)
  BY <1>1, <1>5 DEF TogglesRule, DeletesRule, AfterDelete, WatchKept, WatchTyped
<1> QED BY <1>3, <1>4, <1>5

LEMMA SiteKeepsWatch ==
  ASSUME WatchKept, NEW t \in Operators,
         FlipsMaster(t) \/ MovesBox(t) \/ DeletesGroup(t) \/ UpdatesGroup(t) \/ CreatesTarget(t)
  PROVE  WatchKept'
<1>1. /\ DOMAIN rule' = Rules /\ DOMAIN site' = {"there", "member", "mitm"} /\ UNCHANGED box
  BY DEF FlipsMaster, MovesBox, DeletesGroup, UpdatesGroup, CreatesTarget, WatchKept, WatchTyped
<1>2. ASSUME NEW why, Edited(t, why) PROVE WatchTyped' /\ ReadsAreFresh'
  BY <1>1, <1>2, EditsAreHeardOf DEF WatchKept, WatchTyped
<1>3. CASE MovesBox(t) \/ DeletesGroup(t)
  <2>1. Edited(t, "group") /\ "group" \in reasons'
    BY <1>3, EditsAreHeardOf DEF MovesBox, DeletesGroup
  <2> QED BY <1>2, <2>1 DEF WatchKept, BoxesWatchTheRules, Untroubled
<1>4. CASE UpdatesGroup(t)
  <2>1. Edited(t, "told") /\ \E o \in Tellers : teller'[o].at # "idle"
    BY <1>4, EditsAreHeardOf DEF UpdatesGroup
  <2> QED BY <1>2, <2>1 DEF WatchKept, BoxesWatchTheRules, Untroubled
<1>5. CASE FlipsMaster(t)
  <2>1. /\ Edited(t, "master") /\ reasons' = reasons \cup {"master"} /\ Packages' = Packages
        /\ \A o \in Tellers : teller'[o].at = "idle" => teller[o].at = "idle"
    BY <1>5, EditsAreHeardOf DEF FlipsMaster, Packages
  <2> QED BY <1>1, <1>2, <2>1 DEF WatchKept, BoxesWatchTheRules, Untroubled
<1>6. CASE CreatesTarget(t)
  <2>1. /\ Edited(t, "target") /\ reasons' = reasons \cup {"target"}
        /\ Enabled' = Enabled /\ UNCHANGED site
        /\ \A o \in Tellers : teller'[o].at = "idle" => teller[o].at = "idle"
    BY <1>6, EditsAreHeardOf DEF CreatesTarget, Enabled
  <2> QED BY <1>1, <1>2, <2>1 DEF WatchKept, BoxesWatchTheRules, Untroubled
<1> QED BY <1>3, <1>4, <1>5, <1>6

LEMMA HubKeepsWatch ==
  ASSUME WatchKept, NEW t \in Tellers,
         HubNotReached(t) \/ PushesWelcome(t) \/ ReadsRules(t) \/ SetupWelcomes
  PROVE  WatchKept'
<1> DEFINE Shape(o) == DOMAIN teller'[o] = {"at", "rules", "packages", "inGroup", "clean"}
<1>1. ASSUME NEW o \in Tellers, teller' = [teller EXCEPT ![o] = Silent]
      PROVE  /\ DOMAIN teller' = Tellers /\ \A q \in Tellers : Shape(q)
             /\ teller'[o].at = "idle" /\ \A q \in Tellers : q # o => teller'[q] = teller[q]
  BY <1>1 DEF Silent, WatchKept, WatchTyped
<1>2. CASE HubNotReached(t)
  <2>1. teller' = [teller EXCEPT ![t] = Silent] /\ "untold" \in reasons'
        /\ UNCHANGED <<rule, master, site, targets, box>>
    BY <1>2 DEF HubNotReached
  <2>2. Enabled' = Enabled /\ Packages' = Packages
    BY <2>1 DEF Enabled, Packages
  <2>3. WatchTyped' /\ ReadsAreFresh'
    BY <1>1, <2>1, <2>2, SetupTells DEF WatchKept, WatchTyped, ReadsAreFresh, ReadFresh
  <2> QED BY <2>1, <2>3 DEF WatchKept, BoxesWatchTheRules, Untroubled
<1>3. CASE ReadsRules(t)
  <2>1. /\ teller[t].at \in {"tell", "group"} /\ UNCHANGED <<rule, master, site, targets, box>>
        /\ DOMAIN teller' = Tellers /\ Shape(t)
        /\ \A q \in Tellers : q # t => teller'[q] = teller[q]
        /\ teller'[t].at = "boxes" /\ teller'[t].rules = Enabled /\ teller'[t].packages = Packages
        /\ teller'[t].inGroup = teller[t].inGroup /\ teller'[t].clean = teller[t].clean
    BY <1>3 DEF ReadsRules, WatchKept, WatchTyped
  <2>2. Enabled' = Enabled /\ Packages' = Packages
    BY <2>1 DEF Enabled, Packages
  <2>3. t = "setup" /\ teller[t].clean => teller[t].inGroup = site.member
    BY <2>1 DEF WatchKept, WatchTyped, ReadsAreFresh, ReadFresh
  <2>4. WatchTyped'
    BY <2>1, SetupTells DEF WatchKept, WatchTyped
  <2>5. ReadsAreFresh'
    BY <2>1, <2>2, <2>3 DEF WatchKept, ReadsAreFresh, ReadFresh
  <2> QED BY <2>1, <2>4, <2>5 DEF WatchKept, BoxesWatchTheRules, Untroubled
<1>4. ASSUME NEW o \in Tellers, teller[o].at = "boxes", NEW inGroup,
             teller[o].clean => inGroup = site.member, Delivered(o, inGroup)
      PROVE  WatchKept'
  <2>1. /\ teller' = [teller EXCEPT ![o] = Silent] /\ UNCHANGED <<rule, master, site, targets>>
        /\ DOMAIN box' = DOMAIN box /\ box'.online = box.online
        /\ box.online => box'.spec = SpecFor(teller[o].rules, inGroup)
                         /\ box'.tracked = teller[o].packages
                         /\ (teller[o].clean \/ "crossed" \in reasons')
    BY <1>4 DEF Delivered, WatchKept, WatchTyped
  <2>2. Enabled' = Enabled /\ Packages' = Packages
    BY <2>1 DEF Enabled, Packages
  <2>3. teller[o].clean => teller[o].rules = Enabled /\ teller[o].packages = Packages
    BY <1>4 DEF WatchKept, ReadsAreFresh, ReadFresh
  <2>4. WatchTyped' /\ ReadsAreFresh'
    BY <1>1, <2>1, <2>2, SetupTells DEF WatchKept, WatchTyped, ReadsAreFresh, ReadFresh
  <2>5. BoxesWatchTheRules'
    BY <1>4, <2>1, <2>2, <2>3 DEF BoxesWatchTheRules, Untroubled
  <2> QED BY <2>4, <2>5 DEF WatchKept
<1>5. CASE PushesWelcome(t)
  BY <1>4, <1>5 DEF PushesWelcome
<1>6. CASE SetupWelcomes
  <2>1. "setup" \in Tellers /\ teller["setup"].at = "boxes" /\ Delivered("setup", teller["setup"].inGroup)
    BY <1>6 DEF SetupWelcomes, Tellers
  <2>2. teller["setup"].clean => teller["setup"].inGroup = site.member
    BY <2>1 DEF WatchKept, ReadsAreFresh, ReadFresh
  <2> QED BY <1>4, <2>1, <2>2
<1> QED BY <1>2, <1>3, <1>5, <1>6

LEMMA StepKeepsWatch == WatchKept /\ [WatchNext]_watchVars => WatchKept'
<1> SUFFICES ASSUME WatchKept, [WatchNext]_watchVars PROVE WatchKept'
  OBVIOUS
<1>1. CASE BoxConnects
  <2>1. /\ DOMAIN teller' = Tellers /\ DOMAIN box' = DOMAIN box
        /\ \A o \in Tellers : DOMAIN teller'[o] = {"at", "rules", "packages", "inGroup", "clean"}
        /\ \A o \in Tellers : o # "setup" => teller'[o] = teller[o]
        /\ "setup" \in Tellers /\ teller'["setup"].at = "group"
        /\ teller'["setup"].inGroup = site.member
        /\ UNCHANGED <<rule, master, site, targets, reasons>>
    BY <1>1 DEF BoxConnects, Silent, Tellers, WatchKept, WatchTyped
  <2>2. WatchTyped' /\ ReadsAreFresh'
    BY <2>1 DEF WatchKept, WatchTyped, ReadsAreFresh, ReadFresh, Enabled, Packages
  <2> QED BY <2>1, <2>2 DEF WatchKept, BoxesWatchTheRules, Untroubled
<1>2. CASE BoxDrops
  <2>1. ~box'.online /\ DOMAIN box' = DOMAIN box
        /\ UNCHANGED <<rule, master, site, targets, teller, reasons>>
    BY <1>2 DEF BoxDrops, WatchKept, WatchTyped
  <2>2. WatchTyped' /\ ReadsAreFresh'
    BY <2>1 DEF WatchKept, WatchTyped, ReadsAreFresh, ReadFresh, Enabled, Packages
  <2> QED BY <2>1, <2>2 DEF WatchKept, BoxesWatchTheRules, Untroubled
<1>3. CASE UNCHANGED watchVars
  BY <1>3 DEF watchVars, WatchKept, WatchTyped, ReadsAreFresh, ReadFresh, BoxesWatchTheRules,
     Untroubled, Enabled, Packages
<1> QED BY <1>1, <1>2, <1>3, SetupTells, RulesKeepWatch, SiteKeepsWatch, HubKeepsWatch DEF WatchNext

\* For any rules and any number of edits, by two operators at once and beside the
\* setup of a socket: a box that is connected watches what the rules say when no
\* request is under way, but for what the model names it does not hear of.
THEOREM BoxesAlwaysWatch == WatchSpec => []BoxesWatchTheRules
<1>1. WatchInit => WatchKept
  <2> SUFFICES ASSUME WatchInit PROVE WatchKept
    OBVIOUS
  <2>1. WatchTyped
    BY DEF WatchInit, WatchTyped, Silent, Tellers
  <2>2. ReadsAreFresh /\ ~box.online
    BY DEF WatchInit, ReadsAreFresh, ReadFresh, Silent
  <2> QED BY <2>1, <2>2 DEF WatchKept, BoxesWatchTheRules, Untroubled
<1>2. WatchKept => BoxesWatchTheRules
  BY DEF WatchKept
<1> QED BY <1>1, <1>2, StepKeepsWatch, PTL DEF WatchSpec


-----------------------------------------------------------------------------
(* The health board.                                                       *)

Conditioned(t, p) == past[t][p] \cup (IF t = minute THEN {world[p]} ELSE {})
WasSo(p, check, from) ==
  \E t \in 0..minute : t >= from /\ \E c \in Conditioned(t, p) : check = Check(p, c)

HealthTyped ==
  /\ minute \in 0..MaxHealthTime /\ cachedAt \in Int /\ cachedAt <= minute
  /\ DOMAIN past = 0..MaxHealthTime /\ \A t \in DOMAIN past : DOMAIN past[t] = Parts
  /\ DOMAIN world = Parts /\ DOMAIN call = Viewers
  /\ \A v \in Viewers : /\ DOMAIN call[v] = {"on", "from", "todo", "checks"}
                        /\ DOMAIN call[v].checks = Parts /\ call[v].from \in Int

ProbesAreSo ==
  \A v \in Viewers : call[v].on =>
    /\ call[v].from <= minute /\ minute - call[v].from <= ProbeTime
    /\ \A p \in Parts : p \notin call[v].todo => WasSo(p, call[v].checks[p], call[v].from)
CacheWasSo == cachedAt >= 0 => \A p \in Parts : WasSo(p, cachedOf[p], cachedAt - ProbeTime)

HealthKept == HealthTyped /\ ProbesAreSo /\ CacheWasSo /\ HealthIsRecent

AnswerIsSo(a) == a # NoAnswer => \A p \in Parts : WasSo(p, a.checks[p], a.from)

LEMMA RecentIsSo ==
  /\ \A a : a = lastAnswer => (HealthIsRecent <=> AnswerIsSo(a))
  /\ \A a : a = lastAnswer' => (HealthIsRecent' <=> AnswerIsSo(a)')
BY DEF HealthIsRecent, AnswerIsSo, WasSo, Conditioned

\* What was so stays so.
LEMMA SoItWas ==
  ASSUME minute \in Int, minute' \in Int, minute <= minute', NEW p \in Parts,
         \A t \in 0..minute : Conditioned(t, p) \subseteq Conditioned(t, p)',
         NEW check, NEW from, WasSo(p, check, from)
  PROVE  WasSo(p, check, from)'
<1>1. PICK t \in 0..minute : t >= from /\ \E c \in Conditioned(t, p) : check = Check(p, c)
  BY DEF WasSo
<1>2. t \in 0..minute'
  BY <1>1
<1> QED BY <1>1, <1>2 DEF WasSo

\* Nothing but the time and the world moved.
LEMMA ClockKeepsHealth ==
  ASSUME HealthKept, HealthTyped', minute <= minute',
         \A p \in Parts : \A t \in 0..minute : Conditioned(t, p) \subseteq Conditioned(t, p)',
         UNCHANGED <<call, cachedAt, cachedOf>>, lastAnswer' \in {lastAnswer, NoAnswer},
         \A v \in Viewers : call[v].on => minute' - call[v].from <= ProbeTime
  PROVE  HealthKept'
<1>1. minute \in Int /\ minute' \in Int
  BY DEF HealthKept, HealthTyped
<1>2. \A p \in Parts : \A check, from : WasSo(p, check, from) => WasSo(p, check, from)'
  BY <1>1, SoItWas
<1>3. ProbesAreSo'
  <2>1. \A v \in Viewers : call[v].on => call[v].from <= minute'
    BY <1>1 DEF HealthKept, HealthTyped, ProbesAreSo
  <2> QED BY <1>2, <2>1 DEF HealthKept, ProbesAreSo
<1>4. CacheWasSo'
  BY <1>2 DEF HealthKept, CacheWasSo
<1>5. HealthIsRecent'
  <2>1. AnswerIsSo(lastAnswer)
    BY RecentIsSo DEF HealthKept
  <2>2. \A a : AnswerIsSo(a) => AnswerIsSo(a)'
    BY <1>2 DEF AnswerIsSo
  <2>3. \A a : a = NoAnswer => AnswerIsSo(a)'
    BY DEF AnswerIsSo
  <2>4. PICK a : a = lastAnswer'
    OBVIOUS
  <2> QED BY <2>1, <2>2, <2>3, <2>4, RecentIsSo
<1> QED BY <1>3, <1>4, <1>5 DEF HealthKept

LEMMA TimeKeepsHealth ==
  ASSUME HealthKept, ClockTicks \/ (\E p \in Parts : \E c \in Conditions[p] : WorldTurns(p, c))
  PROVE  HealthKept'
<1>1. minute \in Int /\ minute >= 0 /\ minute <= MaxHealthTime /\ MaxHealthTime \in Nat
  BY HealthAssumption DEF HealthKept, HealthTyped
<1>2. CASE ClockTicks
  <2>1. /\ minute < MaxHealthTime /\ minute' = minute + 1 /\ lastAnswer' = NoAnswer
        /\ past' = [past EXCEPT ![minute] = [p \in Parts |-> @[p] \cup {world[p]}]]
        /\ UNCHANGED <<world, cachedAt, cachedOf, call>>
        /\ \A v \in Viewers : call[v].on => minute - call[v].from < ProbeTime
    BY <1>2 DEF ClockTicks
  <2>2. /\ DOMAIN past' = DOMAIN past
        /\ \A t \in DOMAIN past : DOMAIN past'[t] = Parts
        /\ \A t \in DOMAIN past, p \in Parts :
             past'[t][p] = past[t][p] \cup (IF t = minute THEN {world[p]} ELSE {})
    BY <2>1 DEF HealthKept, HealthTyped
  <2>3. HealthTyped'
    BY <1>1, <2>1, <2>2 DEF HealthKept, HealthTyped
  <2>4. \A p \in Parts : \A t \in 0..minute : Conditioned(t, p) \subseteq Conditioned(t, p)'
    BY <1>1, <2>2 DEF Conditioned, HealthKept, HealthTyped
  <2>5. \A v \in Viewers : call[v].on => minute' - call[v].from <= ProbeTime
    BY <1>1, <2>1, HealthAssumption DEF HealthKept, HealthTyped
  <2> QED BY <1>1, <2>1, <2>3, <2>4, <2>5, ClockKeepsHealth
<1>3. ASSUME NEW q \in Parts, NEW d \in Conditions[q], WorldTurns(q, d) PROVE HealthKept'
  <2>1. /\ past' = [past EXCEPT ![minute][q] = @ \cup {world[q]}]
        /\ world' = [world EXCEPT ![q] = d]
        /\ UNCHANGED <<minute, cachedAt, cachedOf, call, lastAnswer>>
    BY <1>3 DEF WorldTurns
  <2>2. /\ DOMAIN past' = DOMAIN past /\ DOMAIN world' = Parts
        /\ \A t \in DOMAIN past : DOMAIN past'[t] = Parts
        /\ \A t \in DOMAIN past, p \in Parts :
             past'[t][p] = past[t][p] \cup (IF t = minute /\ p = q THEN {world[p]} ELSE {})
        /\ \A p \in Parts : p # q => world'[p] = world[p]
    BY <1>1, <2>1 DEF HealthKept, HealthTyped
  <2>3. HealthTyped'
    BY <2>1, <2>2 DEF HealthKept, HealthTyped
  <2>4. \A p \in Parts : \A t \in 0..minute : Conditioned(t, p) \subseteq Conditioned(t, p)'
    BY <1>1, <2>1, <2>2 DEF Conditioned, HealthKept, HealthTyped
  <2>5. \A v \in Viewers : call[v].on => minute' - call[v].from <= ProbeTime
    BY <2>1 DEF HealthKept, ProbesAreSo
  <2> QED BY <1>1, <2>1, <2>3, <2>4, <2>5, ClockKeepsHealth
<1> QED BY <1>2, <1>3

LEMMA CallsKeepHealth ==
  ASSUME HealthKept, NEW v \in Viewers,
         \/ AnswersFromCache(v) \/ Collected(v)
         \/ (\E force \in BOOLEAN : AsksHealth(v, force))
         \/ (\E done \in SUBSET Parts : ProbeAnswers(v, done))
  PROVE  HealthKept'
<1>0. UNCHANGED <<world, past, minute>>
  BY DEF AnswersFromCache, Collected, AsksHealth, ProbeAnswers
<1>1. /\ UNCHANGED <<world, past, minute>> /\ minute \in Int /\ minute >= 0 /\ minute \in 0..minute
      /\ ProbeTime \in Nat /\ CacheTime \in Nat
  BY <1>0, HealthAssumption DEF HealthKept, HealthTyped
<1>2. /\ \A p, check, from : WasSo(p, check, from)' <=> WasSo(p, check, from)
      /\ \A a : AnswerIsSo(a)' <=> AnswerIsSo(a)
  BY <1>1 DEF WasSo, Conditioned, AnswerIsSo
<1>3. \A p \in Parts : \A check : \A m, n \in Int : m <= n /\ WasSo(p, check, n) => WasSo(p, check, m)
  BY <1>1 DEF WasSo
<1>4. CASE AnswersFromCache(v)
  <2>1. /\ lastAnswer'.checks = cachedOf
        /\ lastAnswer'.from = minute - (CacheTime - 1 + ProbeTime)
        /\ UNCHANGED <<cachedAt, cachedOf, call>>
        /\ cachedAt >= 0 /\ minute - cachedAt < CacheTime
    BY <1>4 DEF AnswersFromCache, IsFresh
  <2>2. cachedAt - ProbeTime \in Int /\ lastAnswer'.from \in Int /\ lastAnswer'.from <= cachedAt - ProbeTime
    BY <1>1, <2>1 DEF HealthKept, HealthTyped
  <2>3. HealthIsRecent'
    <3>1. PICK a : a = lastAnswer'
      OBVIOUS
    <3>2. AnswerIsSo(a)
      BY <1>3, <2>1, <2>2, <3>1 DEF HealthKept, CacheWasSo, AnswerIsSo
    <3> QED BY <1>2, <3>1, <3>2, RecentIsSo
  <2>4. HealthTyped' /\ ProbesAreSo' /\ CacheWasSo'
    BY <1>1, <1>2, <2>1 DEF HealthKept, HealthTyped, ProbesAreSo, CacheWasSo
  <2> QED BY <2>3, <2>4 DEF HealthKept
<1>5. CASE Collected(v)
  <2>1. /\ call[v].on /\ call[v].todo = {}
        /\ cachedAt' = minute /\ cachedOf' = call[v].checks
        /\ lastAnswer'.checks = call[v].checks /\ lastAnswer'.from = call[v].from
        /\ call' = [call EXCEPT ![v] = NoCall]
    BY <1>5 DEF Collected
  <2>2. \A p \in Parts : WasSo(p, call[v].checks[p], call[v].from)
    BY <2>1 DEF HealthKept, ProbesAreSo
  <2>3. minute - ProbeTime \in Int /\ call[v].from \in Int /\ minute - ProbeTime <= call[v].from
    BY <1>1, <2>1 DEF HealthKept, HealthTyped, ProbesAreSo
  <2>4. CacheWasSo'
    BY <1>1, <1>2, <1>3, <2>1, <2>2, <2>3 DEF CacheWasSo
  <2>5. HealthIsRecent'
    <3>1. PICK a : a = lastAnswer'
      OBVIOUS
    <3>2. AnswerIsSo(a)
      BY <2>1, <2>2, <3>1 DEF AnswerIsSo
    <3> QED BY <1>2, <3>1, <3>2, RecentIsSo
  <2>6. /\ DOMAIN call' = Viewers /\ ~call'[v].on
        /\ DOMAIN call'[v] = {"on", "from", "todo", "checks"}
        /\ DOMAIN call'[v].checks = Parts /\ call'[v].from \in Int
        /\ \A o \in Viewers : o # v => call'[o] = call[o]
    BY <2>1 DEF NoCall, NoChecks, HealthKept, HealthTyped
  <2>7. HealthTyped'
    BY <1>1, <2>1, <2>6 DEF HealthKept, HealthTyped
  <2>8. ProbesAreSo'
    BY <1>1, <1>2, <2>6 DEF HealthKept, ProbesAreSo
  <2> QED BY <2>4, <2>5, <2>7, <2>8 DEF HealthKept
<1>6. ASSUME NEW force \in BOOLEAN, AsksHealth(v, force) PROVE HealthKept'
  <2>1. /\ DOMAIN call' = Viewers /\ call'[v].todo = Parts /\ call'[v].from = minute
        /\ DOMAIN call'[v] = {"on", "from", "todo", "checks"} /\ DOMAIN call'[v].checks = Parts
        /\ \A o \in Viewers : o # v => call'[o] = call[o]
        /\ UNCHANGED <<cachedAt, cachedOf, lastAnswer>>
    BY <1>6 DEF AsksHealth, NoChecks, HealthKept, HealthTyped
  <2>2. HealthTyped'
    BY <1>1, <2>1 DEF HealthKept, HealthTyped
  <2>3. ProbesAreSo'
    BY <1>1, <1>2, <2>1 DEF HealthKept, ProbesAreSo
  <2>4. CacheWasSo' /\ HealthIsRecent'
    BY <1>2, <2>1, RecentIsSo DEF HealthKept, CacheWasSo
  <2> QED BY <2>2, <2>3, <2>4 DEF HealthKept
<1>7. ASSUME NEW done \in SUBSET Parts, ProbeAnswers(v, done) PROVE HealthKept'
  <2>0. /\ call[v].on /\ UNCHANGED <<cachedAt, cachedOf, lastAnswer>>
        /\ call' = [call EXCEPT ![v].todo = call[v].todo \ done,
             ![v].checks = [p \in Parts |-> IF p \in done THEN Check(p, world[p])
                                            ELSE call[v].checks[p]]]
    BY <1>7 DEF ProbeAnswers, HealthKept, HealthTyped
  <2>1. /\ call[v].on /\ UNCHANGED <<cachedAt, cachedOf, lastAnswer>>
        /\ DOMAIN call' = Viewers /\ DOMAIN call'[v] = DOMAIN call[v]
        /\ call'[v].on = call[v].on /\ call'[v].from = call[v].from
        /\ call'[v].todo = call[v].todo \ done
        /\ call'[v].checks = [p \in Parts |-> IF p \in done THEN Check(p, world[p])
                                              ELSE call[v].checks[p]]
        /\ \A o \in Viewers : o # v => call'[o] = call[o]
    BY <2>0 DEF HealthKept, HealthTyped
  <2>2. HealthTyped'
    BY <1>1, <2>1 DEF HealthKept, HealthTyped
  <2>3. call[v].from <= minute /\ minute - call[v].from <= ProbeTime
    BY <2>1 DEF HealthKept, ProbesAreSo
  <2>4. \A p \in Parts : WasSo(p, Check(p, world[p]), call[v].from)
    BY <1>1, <2>3 DEF WasSo, Conditioned
  <2>5. \A p \in Parts : p \notin call'[v].todo => WasSo(p, call'[v].checks[p], call[v].from)
    BY <2>1, <2>4 DEF HealthKept, ProbesAreSo
  <2>6. ProbesAreSo'
    BY <1>1, <1>2, <2>1, <2>3, <2>5 DEF HealthKept, ProbesAreSo
  <2>7. CacheWasSo' /\ HealthIsRecent'
    BY <1>2, <2>1, RecentIsSo DEF HealthKept, CacheWasSo
  <2> QED BY <2>2, <2>6, <2>7 DEF HealthKept
<1> QED BY <1>4, <1>5, <1>6, <1>7

\* For any times of the cache and of a round of probes, and however the calls of two
\* viewers overlap: every check that is shown was true at a moment since its call,
\* or within the cache's time and a round of probes.
THEOREM HealthIsAlwaysRecent == HealthSpec => []HealthIsRecent
<1>1. HealthInit => HealthKept
  <2> SUFFICES ASSUME HealthInit PROVE HealthKept
    OBVIOUS
  <2>1. HealthTyped
    BY HealthAssumption DEF HealthInit, HealthTyped, NoCall, NoChecks
  <2>2. ProbesAreSo /\ CacheWasSo /\ HealthIsRecent
    BY DEF HealthInit, ProbesAreSo, CacheWasSo, HealthIsRecent, NoCall
  <2> QED BY <2>1, <2>2 DEF HealthKept
<1>2. HealthKept /\ [HealthNext]_healthVars => HealthKept'
  <2>1. HealthKept /\ UNCHANGED healthVars => HealthKept'
    BY DEF healthVars, HealthKept, HealthTyped, ProbesAreSo, CacheWasSo, WasSo, Conditioned,
       HealthIsRecent
  <2> QED BY <2>1, TimeKeepsHealth, CallsKeepHealth DEF HealthNext
<1>3. HealthKept => HealthIsRecent
  BY DEF HealthKept
<1> QED BY <1>1, <1>2, <1>3, PTL DEF HealthSpec


-----------------------------------------------------------------------------
(* What a rule reads.  A look is kept with the version of the rule it was     *)
(* made for, so what it says binds only the rule of that version: that of the *)
(* box is never newer, and is what the rule asks for when it is as new.       *)

ProbeIsKnown(probe) == probe = NoProbe \/ probe.kind \in Kinds
RuleIsFit(r) ==
  /\ DOMAIN r = DOMAIN NewRule /\ ProbeIsKnown(r.probe)
  /\ r.enabled => r.there

LookoutFits == lookout # Blind /\ lookout.v = guard.v => lookout = SpecOf(guard)

\* A look shows what was so on the box, of what the rule asks for.
LookIsTrue(x) ==
  /\ ~x.ran => x.check = "none"
  /\ x.sent \/ (~x.ran /\ x.procs = {})
  /\ x.procs # {} /\ "app" \notin x.procs => ~x.of.runs
  /\ x.ran => x.v \in Nat /\ x.v <= guard.v
  /\ x.ran /\ x.v = guard.v =>
       /\ SpecOf(guard).fg /\ ~x.hiccup /\ x.of.screen = "app" => x.fg = "app"
       /\ x.anr => x.of.hung
       /\ x.check # "none" => SpecOf(guard).probe # NoProbe
       /\ x.check = "failed" => x.hiccup \/ ~x.of.works

ScannerAddsUp == boxRow.scanner.workers = 0 => boxRow.scanner.busy = 0

ReadingKept ==
  /\ guard.v \in Nat /\ RuleIsFit(guard)
  /\ lookout.v \in Nat /\ lookout.v <= guard.v /\ ProbeIsKnown(lookout.probe) /\ LookoutFits
  /\ LookIsTrue(heart) /\ LookIsTrue(sight)
  /\ DOMAIN boxRow = {"line", "scanner"} /\ DOMAIN boxRow.scanner = DOMAIN Scanning
  /\ ScannerAddsUp

SeedIsFit(r) == RuleIsFit(r) /\ r.there /\ ~r.enabled /\ r.v = 0

LEMMA SeedsAreFit ==
  \A signal, pkg, rungs, probe :
    ProbeIsKnown(probe) => SeedIsFit(Seed(signal, pkg, probe, rungs))
BY DEF Seed, NewRule, RuleIsFit, SeedIsFit

LEMMA RulesAreFit ==
  ASSUME NEW r \in WrittenRules
  PROVE  RuleIsFit(r) /\ r.v = 0
<1>1. ASSUME NEW o \in Seeds PROVE RuleIsFit(o) /\ o.there /\ o.v = 0
  <2>1. /\ ProbeIsKnown(NoProbe)
        /\ \A target, expect, kind : kind \in Kinds =>
             ProbeIsKnown([kind |-> kind, target |-> target, expect |-> expect])
    BY DEF ProbeIsKnown
  <2>2. "logMatch" \in Kinds /\ "shell" \in Kinds
    BY DEF Kinds
  <2>3. SeedIsFit(o)
    BY <1>1, <2>1, <2>2, SeedsAreFit, ZenonT(60) DEF Seeds
  <2> QED BY <2>3 DEF SeedIsFit
<1>2. ASSUME NEW o \in Seeds PROVE RuleIsFit(SwitchedOn(o)) /\ SwitchedOn(o).v = 0
  BY <1>1 DEF RuleIsFit, NewRule, SwitchedOn
<1>3. CASE r \in FirstRules
  <2>1. RuleIsFit(NewRule) /\ NewRule.v = 0
    BY DEF RuleIsFit, NewRule, ProbeIsKnown
  <2>2. ASSUME NEW rungs PROVE
          LET o == [Seed("SERVICE_DOWN", TRUE, NoProbe, rungs) EXCEPT !.enabled = TRUE]
          IN RuleIsFit(o) /\ o.v = 0
    BY DEF RuleIsFit, NewRule, ProbeIsKnown, Seed
  <2>3. ASSUME NEW o \in Seeds PROVE
          RuleIsFit([SwitchedOn(o) EXCEPT !.recovery = TRUE])
          /\ [SwitchedOn(o) EXCEPT !.recovery = TRUE].v = 0
    BY <1>2 DEF RuleIsFit, NewRule
  <2> QED BY <1>3, <2>1, <2>2, <2>3 DEF FirstRules
<1>4. ASSUME NEW o \in Seeds, NEW kind \in {"http", "logMatch"},
             r = [o EXCEPT !.probe = [kind |-> kind, target |-> "new", expect |-> NoText], !.enabled = TRUE]
      PROVE  RuleIsFit(r) /\ r.v = 0
  BY <1>1, <1>4 DEF RuleIsFit, NewRule, ProbeIsKnown, Kinds
<1> QED BY <1>1, <1>2, <1>3, <1>4 DEF WrittenRules

LEMMA RulesKeepReading ==
  ASSUME ReadingKept, RuleIsWritten
  PROVE  ReadingKept'
<1>1. PICK r \in WrittenRules : guard' = [r EXCEPT !.v = guard.v + 1]
  BY DEF RuleIsWritten
<1>2. RuleIsFit(r)
  BY RulesAreFit
<1>3. UNCHANGED <<lookout, heart, sight, boxRow>> /\ guard.v \in Nat
  BY DEF RuleIsWritten, ReadingKept
<1>4. guard'.v = guard.v + 1 /\ RuleIsFit(guard)'
  BY <1>1, <1>2 DEF RuleIsFit, NewRule
<1>5. LookIsTrue(heart)' /\ LookIsTrue(sight)'
  BY <1>3, <1>4 DEF LookIsTrue, ReadingKept
<1>6. LookoutFits' /\ lookout'.v \in Nat /\ lookout'.v <= guard'.v
  BY <1>3, <1>4 DEF LookoutFits, ReadingKept
<1> QED BY <1>3, <1>4, <1>5, <1>6 DEF ReadingKept, ScannerAddsUp, ProbeIsKnown

LEMMA BoxesKeepReading ==
  ASSUME ReadingKept, BoxIsTold \/ BodyTurns
  PROVE  ReadingKept'
<1>1. UNCHANGED <<guard, heart, sight, boxRow>> /\ lookout' \in {lookout, SpecOf(guard)}
  BY DEF BoxIsTold, BodyTurns
<1>2. LookIsTrue(heart)' /\ LookIsTrue(sight)' /\ SpecOf(guard)' = SpecOf(guard)
  BY <1>1 DEF LookIsTrue, ReadingKept, SpecOf
<1>3. /\ SpecOf(guard).v \in Nat /\ SpecOf(guard).v <= guard.v
      /\ ProbeIsKnown(SpecOf(guard).probe)
  BY DEF ReadingKept, RuleIsFit, SpecOf, Blind, ProbeIsKnown
<1>4. lookout'.v \in Nat /\ lookout'.v <= guard'.v /\ ProbeIsKnown(lookout.probe)' /\ LookoutFits'
  BY <1>1, <1>2, <1>3 DEF ReadingKept, LookoutFits, ProbeIsKnown
<1> QED BY <1>1, <1>2, <1>4 DEF ReadingKept, RuleIsFit, ScannerAddsUp, ProbeIsKnown

LEMMA LooksKeepReading ==
  ASSUME ReadingKept, NEW job \in BOOLEAN, NEW hiccup \in BOOLEAN, NEW cut \in BOOLEAN,
         NEW others \in BOOLEAN, AgentLooks(job, hiccup, cut, others)
  PROVE  ReadingKept'
<1>1. UNCHANGED <<guard, lookout, sight, boxRow>> /\ SpecOf(guard)' = SpecOf(guard)
  BY DEF AgentLooks, SpecOf
<1>2. /\ heart'.sent /\ heart'.of = body
      /\ ~body.runs \/ "app" \in heart'.procs
  BY DEF AgentLooks, NoReading
<1>3. CASE job \/ lookout = Blind
  <2>1. ~heart'.ran /\ heart'.check = "none" /\ heart'.anr = FALSE
    BY <1>3 DEF AgentLooks, NoReading
  <2> QED BY <1>1, <1>2, <2>1 DEF ReadingKept, LookIsTrue, LookoutFits, RuleIsFit, ScannerAddsUp, ProbeIsKnown
<1>4. CASE ~(job \/ lookout = Blind)
  <2>1. /\ heart'.ran /\ heart'.v = lookout.v /\ heart'.hiccup = hiccup
        /\ heart'.fg = Foreground(hiccup) /\ heart'.anr = ANRs(hiccup, cut)
        /\ heart'.check = Checks(hiccup, cut)
    BY <1>4 DEF AgentLooks, NoReading
  <2>2. Checks(hiccup, cut) # "none" => lookout.probe # NoProbe
    BY DEF Checks
  <2>3. Checks(hiccup, cut) = "failed" => hiccup \/ ~body.works
    BY DEF Checks, RunCheck, RunShell, RunHTTP, RunLogMatch, ReadingKept, ProbeIsKnown, Kinds
  <2>4. lookout.v = guard.v => lookout = SpecOf(guard)
    BY <1>4 DEF ReadingKept, LookoutFits
  <2>5. LookIsTrue(heart)'
    BY <1>1, <1>2, <2>1, <2>2, <2>3, <2>4 DEF LookIsTrue, ReadingKept, Foreground, ANRs
  <2> QED BY <1>1, <2>5 DEF ReadingKept, LookIsTrue, LookoutFits, RuleIsFit, ScannerAddsUp, ProbeIsKnown
<1> QED BY <1>3, <1>4

LEMMA HubKeepsReading ==
  ASSUME ReadingKept, TakesReading \/ SightFades \/ LineTurns \/ ScannerTurns
  PROVE  ReadingKept'
<1>1. /\ UNCHANGED <<guard, lookout>> /\ SpecOf(guard)' = SpecOf(guard)
      /\ heart' \in {heart, NoReading} /\ sight' \in {sight, heart, NoReading}
  BY DEF TakesReading, SightFades, LineTurns, ScannerTurns, SpecOf
<1>2. LookIsTrue(NoReading)
  BY DEF LookIsTrue, NoReading
<1>3. \A x : LookIsTrue(x) <=> LookIsTrue(x)'
  BY <1>1 DEF LookIsTrue
<1>4. LookIsTrue(heart)' /\ LookIsTrue(sight)'
  <2>1. PICK h, s : h = heart' /\ s = sight'
    OBVIOUS
  <2>2. LookIsTrue(h) /\ LookIsTrue(s)
    BY <1>1, <1>2, <2>1 DEF ReadingKept
  <2> QED BY <1>1, <2>1, <2>2 DEF LookIsTrue
<1>5. /\ DOMAIN boxRow' = {"line", "scanner"} /\ DOMAIN boxRow'.scanner = DOMAIN Scanning
      /\ ScannerAddsUp'
  <2>1. CASE TakesReading \/ SightFades
    BY <2>1 DEF TakesReading, SightFades, ReadingKept, ScannerAddsUp
  <2>2. CASE LineTurns
    BY <2>2 DEF LineTurns, ReadingKept, ScannerAddsUp
  <2>3. CASE ScannerTurns
    <3>1. /\ DOMAIN boxRow = {"line", "scanner"} /\ ScannerAddsUp
          /\ DOMAIN boxRow.scanner = {"known", "enabled", "connected", "usable", "stale",
                                      "workers", "busy", "rate"}
      BY DEF ReadingKept, Scanning
    <3> DEFINE s == boxRow.scanner
               counts(w, o, q) == [s EXCEPT !.workers = w, !.busy = o, !.rate = q]
               counted == {counts(-1, -1, -1), counts(0, 0, -1), counts(1, 0, -1), counts(1, 1, -1),
                           counts(1, 1, 0)}
               flipped == {[s EXCEPT !.known = ~@], [s EXCEPT !.enabled = ~@],
                           [s EXCEPT !.connected = ~@], [s EXCEPT !.usable = ~@],
                           [s EXCEPT !.stale = ~@]}
    <3>2. PICK t \in flipped \cup counted : boxRow' = [boxRow EXCEPT !.scanner = t]
      BY <2>3 DEF ScannerTurns
    <3>3. /\ t \in flipped => DOMAIN t = DOMAIN s /\ t.workers = s.workers /\ t.busy = s.busy
          /\ t \in counted => DOMAIN t = DOMAIN s /\ (t.workers = 0 => t.busy = 0)
      BY <3>1
    <3>4. /\ DOMAIN t = DOMAIN boxRow.scanner
          /\ t.workers = 0 => t.busy = 0
      BY <3>1, <3>2, <3>3 DEF ScannerAddsUp
    <3> HIDE DEF s, flipped, counted
    <3> QED BY <3>1, <3>2, <3>4 DEF ScannerAddsUp, Scanning
  <2> QED BY <2>1, <2>2, <2>3
<1> QED BY <1>1, <1>4, <1>5 DEF ReadingKept, LookoutFits, RuleIsFit, ProbeIsKnown

LEMMA ReadingIsKept ==
  ReadingSpec => []ReadingKept
<1>1. FormInit /\ ReadingInit => ReadingKept
  <2> SUFFICES ASSUME FormInit, ReadingInit PROVE ReadingKept
    OBVIOUS
  <2>1. RuleIsFit(guard) /\ guard.v = 0
    BY RulesAreFit DEF FormInit, WrittenRules
  <2>2. lookout.v = 0 /\ ProbeIsKnown(lookout.probe) /\ LookoutFits
    BY DEF ReadingInit, Blind, ProbeIsKnown, LookoutFits
  <2>3. LookIsTrue(heart) /\ LookIsTrue(sight)
    BY DEF ReadingInit, LookIsTrue, NoReading
  <2>4. /\ DOMAIN boxRow = {"line", "scanner"} /\ DOMAIN boxRow.scanner = DOMAIN Scanning
        /\ ScannerAddsUp
    <3>1. boxRow.scanner \in {Scanning, Lost} /\ DOMAIN boxRow = {"line", "scanner"}
      BY DEF ReadingInit
    <3>2. /\ DOMAIN Lost = DOMAIN Scanning /\ Lost.busy = 0 /\ Scanning.workers = 1
      BY DEF Scanning, Lost
    <3> QED BY <3>1, <3>2 DEF ScannerAddsUp
  <2> QED BY <2>1, <2>2, <2>3, <2>4 DEF ReadingKept
<1>2. ReadingKept /\ [ReadingNext]_<<formVars, readingVars>> => ReadingKept'
  <2>1. ReadingKept /\ UNCHANGED <<formVars, readingVars>> => ReadingKept'
    BY DEF formVars, readingVars, ReadingKept, LookIsTrue, LookoutFits, RuleIsFit, ProbeIsKnown,
       ScannerAddsUp, SpecOf
  <2> QED BY <2>1, RulesKeepReading, BoxesKeepReading, LooksKeepReading, HubKeepsReading DEF ReadingNext
<1> QED BY <1>1, <1>2, PTL DEF ReadingSpec

\* Whatever is written, told, looked at, cut short and taken in which order: a rule
\* about the box is bad only of a box where what it watches was wrong when the agent
\* looked for this very rule.
THEOREM SilenceIsNeverEvidence == ReadingSpec => []SilenceIsNoEvidence
<1>1. ReadingKept => SilenceIsNoEvidence
  <2> SUFFICES ASSUME ReadingKept, guard.enabled, guard.signal \in AppSignals \cup ProbeSignals,
                      ReadSignal(guard, sight) = "bad"
               PROVE  /\ sight.sent
                      /\ ~sight.hiccup /\ (sight.ran => sight.v = guard.v)
                           => Faulty(guard.signal, sight.check # "none", sight.of)
    BY DEF SilenceIsNoEvidence
  <2>1. guard.there /\ LookIsTrue(sight)
    BY DEF ReadingKept, RuleIsFit
  <2>2. CASE guard.signal \in ProbeSignals \/ (guard.signal = "SERVICE_DOWN" /\ guard.probe # NoProbe)
    <3>1. ReadSignal(guard, sight) = CheckResult(guard, sight)
      BY <2>2 DEF ReadSignal, ProbeSignals, RotomSignals
    <3>2. sight.ran /\ sight.check = "failed"
      BY <3>1 DEF CheckResult, Judged
    <3> QED BY <2>1, <2>2, <3>2 DEF LookIsTrue, Faulty, ProbeSignals
  <2>3. CASE guard.signal = "SERVICE_DOWN" /\ guard.probe = NoProbe
    <3>1. sight.procs # {} /\ "app" \notin sight.procs
      BY <2>3 DEF ReadSignal, ServiceSays, ProbeSignals, RotomSignals, Judged
    <3>2. SpecOf(guard).probe = NoProbe
      BY <2>3 DEF SpecOf, Blind
    <3> QED BY <2>1, <2>3, <3>1, <3>2 DEF LookIsTrue, Faulty
  <2>4. CASE guard.signal = "APP_NOT_FOREGROUND"
    <3>1. sight.ran /\ sight.fg # "app"
      BY <2>4 DEF ReadSignal, ProbeSignals, RotomSignals, Judged
    <3>2. SpecOf(guard).fg
      BY <2>1, <2>4 DEF SpecOf
    <3> QED BY <2>1, <2>4, <3>1, <3>2 DEF LookIsTrue, Faulty
  <2>5. CASE guard.signal = "APP_ANR"
    <3>1. sight.ran /\ sight.anr
      BY <2>5 DEF ReadSignal, ProbeSignals, RotomSignals, Judged
    <3> QED BY <2>1, <2>5, <3>1 DEF LookIsTrue, Faulty
  <2> QED BY <2>2, <2>3, <2>4, <2>5 DEF AppSignals
<1> QED BY <1>1, ReadingIsKept, PTL

\* Whatever Rotom says of a scanner and in which order, no two ladders are climbed
\* for one fault of it.
THEOREM OneLadderPerFault == ReadingSpec => []OneFaultOneLadder
<1>1. ReadingKept => OneFaultOneLadder
  <2> SUFFICES ASSUME ReadingKept,
                      (boxRow.scanner.usable /\ ~boxRow.scanner.stale) \/ ~boxRow.scanner.connected
               PROVE  Cardinality({signal \in RotomSignals :
                                     RotomSays(signal, boxRow.scanner) = "bad"}) <= 1
    BY DEF OneFaultOneLadder
  <2> DEFINE bad == {signal \in RotomSignals : RotomSays(signal, boxRow.scanner) = "bad"}
  <2>1. \A a, b \in bad : a = b
    BY DEF RotomSignals, RotomSays, Judged, ReadingKept, ScannerAddsUp
  <2> HIDE DEF bad
  <2>2. ASSUME NEW a \in bad PROVE bad = {a}
    BY <2>1
  <2>3. CASE bad = {}
    BY <2>3, FS_EmptySet DEF bad
  <2>4. ASSUME NEW a \in bad PROVE Cardinality(bad) = 1
    BY <2>2, FS_Singleton
  <2> QED BY <2>3, <2>4 DEF bad
<1> QED BY <1>1, ReadingIsKept, PTL
=============================================================================
