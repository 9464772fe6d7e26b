----------------------------- MODULE Installer -----------------------------
(***************************************************************************)
(* agent/internal/installer: one install on a box, from the space check to  *)
(* the hook that starts the scanner again.                                  *)
(*                                                                          *)
(* Every command the box runs is a step, because the job's context may be   *)
(* cancelled (cancel_job, the deadline of a job, a lost session) between     *)
(* and during any two of them.  A command that is killed may have had its   *)
(* effect.                                                                  *)
(***************************************************************************)
EXTENDS Integers, FiniteSets

CONSTANTS
  Blocks,       \* of a bundle
  MaxInstalls   \* bound: attempts

ASSUME InstallerAssumption == Blocks \in Nat \ {0} /\ MaxInstalls \in Nat

VARIABLES
  install,   \* the locals of Run and its deferred calls
  bundle,    \* the bundle under WorkDir: blocks on disk, and whether they are the job's
  app,       \* the version of the package, and its config file
  scanner,   \* what the hooks stop and start
  sessions,  \* pm sessions that are open
  installs,  \* how many attempts were made
  mishap     \* history: what went wrong that the agent cannot help

installVars == <<install, bundle, app, scanner, sessions, installs, mishap>>

NoBundle == [have |-> 0, sound |-> TRUE]
Resting == [at |-> "idle", force |-> FALSE, config |-> FALSE, hooks |-> FALSE, stop |-> FALSE,
            try |-> 1, err |-> "none", ok |-> FALSE, wiped |-> FALSE, lost |-> FALSE]

InstallInit ==
  /\ install = Resting /\ bundle = NoBundle
  /\ app \in [version : {"none", "old"}, config : {"old"}]
  /\ scanner = "running" /\ sessions = 0 /\ installs = 0 /\ mishap = {}

Goes(place) == install' = [install EXCEPT !.at = place]

\* return fail(...): the deferred calls are next.
Fails == install' = [install EXCEPT !.at = "posthook", !.ok = FALSE]
FailsBeforeHook == install' = [install EXCEPT !.at = "cleanup", !.ok = FALSE]

\* A command succeeds only while the job's context lives.
MayRun == ~install.stop

-----------------------------------------------------------------------------
(* 1 to 3: space, system_server, the hook that stops the scanner.           *)

InstallBegins(force, config, hooks) ==
  /\ install.at = "idle" /\ installs < MaxInstalls
  /\ install' = [Resting EXCEPT !.at = "space", !.force = force, !.config = config,
                                !.hooks = hooks]
  /\ installs' = installs + 1
  /\ UNCHANGED <<bundle, app, scanner, sessions, mishap>>

ChecksSpace(enough) ==
  /\ install.at = "space"
  /\ IF enough THEN Goes("system") ELSE FailsBeforeHook
  /\ UNCHANGED <<bundle, app, scanner, sessions, installs, mishap>>

\* Up at once, or within five minutes; else, or when cancelled, no install.
WaitsForSystem(up) ==
  /\ install.at = "system" /\ (up => MayRun)
  /\ IF up THEN Goes("prehook") ELSE FailsBeforeHook
  /\ UNCHANGED <<bundle, app, scanner, sessions, installs, mishap>>

\* A hook that fails does not abort the install, and may have stopped it.
PreHook(stops) ==
  /\ install.at = "prehook" /\ (stops => install.hooks)
  /\ scanner' = IF stops THEN "stopped" ELSE scanner
  /\ Goes("download")
  /\ UNCHANGED <<bundle, app, sessions, installs, mishap>>

-----------------------------------------------------------------------------
(* 4: download                                                              *)

Whole == bundle.have = Blocks /\ bundle.sound

FindsBundle ==
  /\ install.at = "download" /\ Whole
  /\ Goes("extract")
  /\ UNCHANGED <<bundle, app, scanner, sessions, installs, mishap>>

\* A file that is too short is continued if the hub answers 206; it is
\* truncated at 200.
DownloadAnswers(partial) ==
  /\ install.at = "download" /\ ~Whole /\ MayRun
  /\ partial => bundle.have \in 1..Blocks - 1
  /\ bundle' = IF partial THEN bundle ELSE NoBundle
  /\ Goes("receive")
  /\ UNCHANGED <<app, scanner, sessions, installs, mishap>>

\* A block may be another than the job's: the hub's file was replaced.
Received(sound) ==
  /\ install.at = "receive" /\ bundle.have < Blocks
  /\ bundle' = [have |-> bundle.have + 1, sound |-> bundle.sound /\ sound]
  /\ UNCHANGED <<install, app, scanner, sessions, installs, mishap>>

ChecksSum ==
  /\ install.at = "receive" /\ bundle.have = Blocks
  /\ IF bundle.sound THEN Goes("extract") /\ UNCHANGED bundle ELSE Fails /\ bundle' = NoBundle
  /\ UNCHANGED <<app, scanner, sessions, installs, mishap>>

\* No answer, a broken stream, a cancelled context: what is on disk stays.
DownloadFails ==
  /\ install.at \in {"download", "receive"} /\ ~(install.at = "download" /\ Whole)
  /\ Fails
  /\ UNCHANGED <<bundle, app, scanner, sessions, installs, mishap>>

\* 5: apkm.List, Select and Extract.  Only a bundle that cannot be read goes.
Extracts(how) ==
  /\ install.at = "extract"
  /\ IF how = "ok" THEN Goes(IF install.force THEN "wipe" ELSE "create") ELSE Fails
  /\ bundle' = IF how = "unreadable" THEN NoBundle ELSE bundle
  /\ UNCHANGED <<app, scanner, sessions, installs, mishap>>

-----------------------------------------------------------------------------
(* 6: install                                                               *)

\* told: dataWiped, with InstallModeClean; lost: history, the data is gone.
AfterWipe(next, told, lost) ==
  [install EXCEPT !.at = next, !.wiped = @ \/ told, !.lost = @ \/ lost]

Removed == app' = [app EXCEPT !.version = "none"]

\* pm uninstall, with --user 0 and without.  answered: it says that it worked;
\* done: it did.
Uninstalls(answered, done) ==
  /\ (answered => done /\ MayRun) /\ (done => answered \/ install.stop)
  /\ app.version = "none" => ~answered
  /\ IF done THEN Removed ELSE UNCHANGED app

ForceClean(answered, done) ==
  /\ install.at = "wipe" /\ Uninstalls(answered, done)
  /\ install' = AfterWipe("create", answered, done /\ app.version # "none")
  /\ UNCHANGED <<bundle, scanner, sessions, installs, mishap>>

CreatesSession(works) ==
  /\ install.at = "create" /\ (works => MayRun)
  /\ IF works THEN sessions' = sessions + 1 /\ Goes("write")
              ELSE UNCHANGED sessions /\ Fails
  /\ UNCHANGED <<bundle, app, scanner, installs, mishap>>

\* Every split, by path or by pipe.
WritesSplits(works) ==
  /\ install.at = "write" /\ (works => MayRun)
  /\ install' = [install EXCEPT !.at = IF works THEN "commit" ELSE "abandon",
                                !.err = IF works THEN @ ELSE "other"]
  /\ UNCHANGED <<bundle, app, scanner, sessions, installs, mishap>>

\* The bundle may hold another version than the job says.
Commits(version) ==
  /\ install.at = "commit" /\ MayRun
  /\ app' = [app EXCEPT !.version = version] /\ sessions' = sessions - 1
  /\ Goes("verify")
  /\ UNCHANGED <<bundle, scanner, installs, mishap>>

CommitRefused(err) ==
  /\ install.at = "commit"
  /\ install' = [install EXCEPT !.at = "abandon", !.err = err]
  /\ UNCHANGED <<bundle, app, scanner, sessions, installs, mishap>>

\* The command was killed when system_server had it already.
CommitUnheard ==
  /\ install.at = "commit" /\ install.stop
  /\ app' = [app EXCEPT !.version = "new"] /\ sessions' = sessions - 1
  /\ install' = [install EXCEPT !.at = "abandon", !.err = "other"]
  /\ UNCHANGED <<bundle, scanner, installs, mishap>>

\* The deferred install-abandon, with the context of the job; then what the
\* error says: a verifier, an incompatible package that may be wiped once, or
\* the end.
Abandons(works) ==
  /\ install.at = "abandon" /\ (works => MayRun)
  /\ sessions' = IF works /\ sessions > 0 THEN sessions - 1 ELSE sessions
  /\ mishap' = IF works \/ install.stop THEN mishap ELSE mishap \cup {"abandon"}
  /\ IF install.err = "incompatible" /\ ~install.force /\ install.try = 1
     THEN Goes("fallback") ELSE Fails
  /\ UNCHANGED <<bundle, app, scanner, installs>>

Fallback(answered, done) ==
  /\ install.at = "fallback" /\ Uninstalls(answered, done)
  /\ install' = [AfterWipe(IF answered THEN "create" ELSE "posthook", answered,
                           done /\ app.version # "none") EXCEPT !.try = 2]
  /\ UNCHANGED <<bundle, scanner, sessions, installs, mishap>>

-----------------------------------------------------------------------------
(* 7 and 8: verify, config; then the deferred calls.                        *)

Seen == app.version = "new"

Verifies(answered) ==
  /\ install.at = "verify" /\ (answered => MayRun /\ Seen)
  /\ IF answered THEN Goes(IF install.config THEN "config" ELSE "done") ELSE Fails
  /\ UNCHANGED <<bundle, app, scanner, sessions, installs, mishap>>

\* Mutant: a config that did not land is only logged.
WritesConfigOrNot(works) ==
  /\ install.at = "config"
  /\ app' = IF works THEN [app EXCEPT !.config = "new"] ELSE app
  /\ Goes("done")
  /\ UNCHANGED <<bundle, scanner, sessions, installs, mishap>>

\* deviceconfig.Apply: refused, failed, or written by a rename.
WritesConfig(works) ==
  /\ install.at = "config"
  /\ app' = IF works THEN [app EXCEPT !.config = "new"] ELSE app
  /\ IF works THEN Goes("done") ELSE Fails
  /\ UNCHANGED <<bundle, scanner, sessions, installs, mishap>>

InstallSucceeds ==
  /\ install.at = "done"
  /\ bundle' = NoBundle
  /\ install' = [install EXCEPT !.at = "posthook", !.ok = TRUE]
  /\ UNCHANGED <<app, scanner, sessions, installs, mishap>>

\* Mutant: the hook runs with the context of the job.
HookMayRunJob == MayRun
HookMayRun == TRUE

\* runPostInstallHook, with a context of its own.
PostHook(works) ==
  /\ install.at = "posthook" /\ (works => HookMayRun /\ install.hooks)
  /\ scanner' = IF works THEN "running" ELSE scanner
  /\ mishap' = IF ~works /\ install.hooks /\ HookMayRun THEN mishap \cup {"hook"} ELSE mishap
  /\ Goes("cleanup")
  /\ UNCHANGED <<bundle, app, sessions, installs>>

\* The splits are removed and the result is sent.
CleansUp ==
  /\ install.at = "cleanup"
  /\ Goes("idle")
  /\ UNCHANGED <<bundle, app, scanner, sessions, installs, mishap>>

\* cancel_job, the deadline, the end of the agent's own context.
InstallStopped ==
  /\ install.at \notin {"idle", "posthook", "cleanup"} /\ ~install.stop
  /\ install' = [install EXCEPT !.stop = TRUE]
  /\ UNCHANGED <<bundle, app, scanner, sessions, installs, mishap>>

\* The agent's process ends, or the box loses power.
BoxDies ==
  /\ install.at # "idle" /\ "death" \notin mishap
  /\ install' = Resting /\ mishap' = mishap \cup {"death"}
  /\ UNCHANGED <<bundle, app, scanner, sessions, installs>>

InstallStep ==
  \/ \E b \in BOOLEAN : ChecksSpace(b) \/ WaitsForSystem(b) \/ PreHook(b)
                        \/ DownloadAnswers(b) \/ Received(b) \/ CreatesSession(b)
                        \/ WritesSplits(b) \/ Abandons(b) \/ Verifies(b) \/ WritesConfig(b)
                        \/ PostHook(b)
  \/ FindsBundle \/ ChecksSum \/ DownloadFails \/ CommitUnheard
  \/ \E v \in {"new", "other"} : Commits(v)
  \/ \E how \in {"ok", "unreadable", "unfit"} : Extracts(how)
  \/ \E err \in {"verifier", "incompatible", "other"} : CommitRefused(err)
  \/ \E a, r \in BOOLEAN : ForceClean(a, r) \/ Fallback(a, r)
  \/ InstallSucceeds \/ CleansUp

InstallNext == \/ \E f, c, h \in BOOLEAN : InstallBegins(f, c, h)
               \/ InstallStep \/ InstallStopped \/ BoxDies

-----------------------------------------------------------------------------
\* A scanner that an install stopped runs again when the install is over, on
\* every way out and also when the job was cancelled or its session lost: only
\* a death of the agent or a hook that fails leaves it stopped.
ScannerComesBack ==
  install.at = "idle" /\ mishap \cap {"death", "hook"} = {} => scanner = "running"

\* Once the app's data is lost the result says so, as "the app's data ... is
\* recorded on the job": unless the job was cancelled while the command ran.  A
\* result that is ok is about the version of the job, with the config asked for,
\* and no bundle is left behind.  A failed one may leave a session to the next
\* boot only if it was cancelled.
ReportIsTrue ==
  /\ install.at = "cleanup" /\ install.lost => install.wiped \/ install.stop
  /\ install.at = "cleanup" /\ install.ok
       => /\ app.version = "new" /\ bundle = NoBundle
          /\ install.config => app.config = "new"
  /\ install.at = "cleanup" /\ sessions > 0 /\ mishap = {} /\ installs = 1 => install.stop
=============================================================================
