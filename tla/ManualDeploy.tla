---------------------------- MODULE ManualDeploy ---------------------------
(***************************************************************************)
(* components/manual-install.tsx with actions/manual.ts: the page on which  *)
(* an operator brings a build, picks boxes and deploys.                     *)
(*                                                                          *)
(* The page holds what the operator chose, a copy of the fleet as it was    *)
(* when the page was rendered, and requests that are under way; an answer   *)
(* changes the page whatever it shows by then.  A build is known by the     *)
(* package it is stored under; there is one version of each.  Two packages, *)
(* one of them the MITM of the one group.  Hooks, notes, sorting and search *)
(* are left out.                                                            *)
(***************************************************************************)
EXTENDS Naturals, FiniteSets

CONSTANTS
  Picks,      \* the boxes
  MaxClicks   \* bound: what the operator does

ASSUME DeployAssumption == MaxClicks \in Nat

VARIABLES
  page,     \* the state of ManualInstall
  grouped,  \* the boxes in the group, as the database has it
  builds,   \* AppVersion rows: package stored under -> package of the file
  sent,     \* requests under way: upload, link, install
  rollouts, \* created, and sent to their boxes or not yet
  wrote,    \* history: configs a deploy has overwritten
  clicks

deployVars == <<page, grouped, builds, sent, rollouts, wrote, clicks>>

DeployPackages == {"app", "mitm"}
Unset == "none"
NoRequest == [at |-> Unset, file |-> Unset, typed |-> Unset, left |-> FALSE]
NoInstall == [at |-> Unset, build |-> Unset, boxes |-> {}, writes |-> FALSE,
              asked |-> FALSE, strayed |-> FALSE, shown |-> {}]

NewPage == [choice |-> "mitm", file |-> Unset, link |-> FALSE, selected |-> Unset, picked |-> {},
            writeConfig |-> TRUE, confirm |-> FALSE, shown |-> grouped, error |-> FALSE]

DeployInit ==
  /\ grouped \in SUBSET Picks /\ page = NewPage
  /\ builds = [p \in DeployPackages |-> Unset]
  /\ sent = [upload |-> NoRequest, link |-> NoRequest, install |-> NoInstall]
  /\ rollouts = {} /\ wrote = {} /\ clicks = 0

\* The dialog is modal.
Clicks == clicks < MaxClicks /\ clicks' = clicks + 1 /\ ~page.confirm
Uploading == sent.upload.at # Unset
Fetching == sent.link.at \in {"fetch", "send", "stored"}
Pending == sent.install.at # Unset

-----------------------------------------------------------------------------
(* The build                                                                *)

ChoosesPackage(p) ==
  /\ Clicks /\ page' = [page EXCEPT !.choice = p]
  /\ UNCHANGED <<grouped, builds, sent, rollouts, wrote>>

\* chooseFile, clearFile
ChoosesFile(f) ==
  /\ Clicks /\ ~page.link /\ ~Uploading
  /\ page' = [page EXCEPT !.file = f, !.error = FALSE]
  /\ UNCHANGED <<grouped, builds, sent, rollouts, wrote>>

TogglesSource ==
  /\ Clicks /\ ~Uploading /\ ~Fetching
  /\ page' = [page EXCEPT !.link = ~@, !.error = FALSE]
  /\ UNCHANGED <<grouped, builds, sent, rollouts, wrote>>

\* The package chosen goes along with the file.
Uploads ==
  /\ Clicks /\ ~page.link /\ page.file # Unset /\ ~Uploading
  /\ sent' = [sent EXCEPT !.upload = [NoRequest EXCEPT
               !.at = "send", !.file = page.file, !.typed = page.choice]]
  /\ page' = [page EXCEPT !.error = FALSE]
  /\ UNCHANGED <<grouped, builds, rollouts, wrote>>

\* importLink: a HEAD, then the import.  The link is to a file.
Links(f) ==
  /\ Clicks /\ page.link /\ sent.link.at = Unset
  /\ sent' = [sent EXCEPT !.link = [NoRequest EXCEPT
               !.at = "check", !.file = f, !.typed = page.choice]]
  /\ page' = [page EXCEPT !.error = FALSE]
  /\ UNCHANGED <<grouped, builds, rollouts, wrote>>

\* checkBuildUrl has an answer; importBuildFromUrl asks the hub for the rest.
LinkChecked ==
  /\ sent.link.at = "check"
  /\ sent' = [sent EXCEPT !.link.at = "fetch"]
  /\ UNCHANGED <<page, grouped, builds, rollouts, wrote, clicks>>

HubFetches ==
  /\ sent.link.at = "fetch"
  /\ sent' = [sent EXCEPT !.link.at = "send"]
  /\ UNCHANGED <<page, grouped, builds, rollouts, wrote, clicks>>

\* storeUpload: what was typed wins over the manifest.
StoredUnder(upload) == IF upload.typed # Unset THEN upload.typed ELSE upload.file

HubStores(which) ==
  /\ sent[which].at = "send"
  /\ builds' = [builds EXCEPT ![StoredUnder(sent[which])] = sent[which].file]
  /\ sent' = [sent EXCEPT ![which].at = "stored"]
  /\ UNCHANGED <<page, grouped, rollouts, wrote, clicks>>

\* The answer selects the build that was stored, unless the page it was asked
\* from is gone.
Stored(which) ==
  /\ sent[which].at = "stored"
  /\ page' = IF sent[which].left THEN page
             ELSE [page EXCEPT !.selected = StoredUnder(sent[which]), !.shown = grouped,
                               !.file = IF which = "upload" THEN Unset ELSE @]
  /\ sent' = [sent EXCEPT ![which] = NoRequest]
  /\ UNCHANGED <<grouped, builds, rollouts, wrote, clicks>>

\* A dead link, a file that says nothing of itself, an answer that is lost.
NotStored(which) ==
  /\ sent[which].at # Unset
  /\ sent' = [sent EXCEPT ![which] = NoRequest]
  /\ page' = [page EXCEPT !.error = @ \/ ~sent[which].left]
  /\ UNCHANGED <<grouped, builds, rollouts, wrote, clicks>>

\* Builds are offered for the package chosen.
UsesBuild ==
  /\ Clicks /\ builds[page.choice] # Unset /\ ~Pending
  /\ page' = [page EXCEPT !.selected = page.choice]
  /\ UNCHANGED <<grouped, builds, sent, rollouts, wrote>>

ChoosesAnother ==
  /\ Clicks /\ page.selected # Unset
  /\ page' = [page EXCEPT !.selected = Unset]
  /\ UNCHANGED <<grouped, builds, sent, rollouts, wrote>>

\* deleteManualVersion, of a build no rollout points at.
RemovesBuild ==
  /\ Clicks /\ builds[page.choice] # Unset /\ ~Pending
  /\ \A r \in rollouts : r.build # page.choice
  /\ builds' = [builds EXCEPT ![page.choice] = Unset]
  /\ page' = [page EXCEPT !.selected = IF @ = page.choice THEN Unset ELSE @, !.shown = grouped]
  /\ UNCHANGED <<grouped, sent, rollouts, wrote>>

-----------------------------------------------------------------------------
(* Where, and the deploy                                                    *)

TogglesBox(b) ==
  /\ Clicks
  /\ page' = [page EXCEPT !.picked = IF b \in @ THEN @ \ {b} ELSE @ \cup {b}]
  /\ UNCHANGED <<grouped, builds, sent, rollouts, wrote>>

\* toggleAllVisible, under a filter.
TogglesVisible(visible) ==
  /\ Clicks /\ visible # {}
  /\ page' = [page EXCEPT !.picked = IF visible \subseteq @ THEN @ \ visible ELSE @ \cup visible]
  /\ UNCHANGED <<grouped, builds, sent, rollouts, wrote>>

\* The switch is there while the package chosen is the group's.
TogglesConfig ==
  /\ Clicks /\ page.choice = "mitm"
  /\ page' = [page EXCEPT !.writeConfig = ~@]
  /\ UNCHANGED <<grouped, builds, sent, rollouts, wrote>>

\* configWriteCount: of the boxes that are picked, as the page has them.
\* Mutant: a box whose group is picked whole.
ConfigWritesOfGroup == IF page.shown \subseteq page.picked THEN page.shown ELSE {}
ConfigWrites == page.picked \cap page.shown

NeedsConfirm == page.choice = "mitm" /\ page.writeConfig /\ ConfigWrites # {}

\* runInstall sends what the page holds.
RunsInstall(asked) ==
  sent' = [sent EXCEPT !.install =
             [at |-> "send", build |-> page.selected, boxes |-> page.picked,
              writes |-> page.writeConfig, asked |-> asked,
              strayed |-> page.choice # page.selected, shown |-> page.shown]]

Installs ==
  /\ Clicks /\ ~Pending /\ page.selected # Unset /\ page.picked # {}
  /\ page' = [page EXCEPT !.error = FALSE, !.confirm = NeedsConfirm]
  /\ IF NeedsConfirm THEN UNCHANGED sent ELSE RunsInstall(FALSE)
  /\ UNCHANGED <<grouped, builds, rollouts, wrote>>

Confirms ==
  /\ page.confirm /\ ~Pending /\ page.selected # Unset
  /\ RunsInstall(TRUE)
  /\ UNCHANGED <<page, grouped, builds, rollouts, wrote, clicks>>

Declines ==
  /\ page.confirm /\ ~Pending
  /\ page' = [page EXCEPT !.confirm = FALSE]
  /\ UNCHANGED <<grouped, builds, sent, rollouts, wrote, clicks>>

\* startManualInstall: createRollout, of a build that is there; the page goes on
\* to the rollout.
Created ==
  /\ Pending /\ builds[sent.install.build] # Unset
  /\ rollouts' = rollouts \cup {sent.install}
  /\ sent' = [sent EXCEPT !.install = NoInstall, !.upload.left = Uploading,
                           !.link.left = sent.link.at # Unset]
  /\ page' = NewPage
  /\ UNCHANGED <<grouped, builds, wrote, clicks>>

NotCreated ==
  /\ Pending
  /\ sent' = [sent EXCEPT !.install = NoInstall]
  /\ page' = [page EXCEPT !.error = ~page.confirm]
  /\ UNCHANGED <<grouped, builds, rollouts, wrote, clicks>>

-----------------------------------------------------------------------------
(* The fleet                                                                *)

\* dispatchQueued: the config rides the install of the MITM of the box's group.
Dispatches(r) ==
  /\ r.at = "send"
  /\ rollouts' = (rollouts \ {r}) \cup {[r EXCEPT !.at = "sent"]}
  /\ wrote' = IF r.writes /\ r.build = "mitm"
              THEN wrote \cup {[box |-> b, asked |-> r.asked, strayed |-> r.strayed,
                                behind |-> b \notin r.shown] : b \in r.boxes \cap grouped}
              ELSE wrote
  /\ UNCHANGED <<page, grouped, builds, sent, clicks>>

BoxMoves(b) ==
  /\ clicks < MaxClicks /\ clicks' = clicks + 1
  /\ grouped' = IF b \in grouped THEN grouped \ {b} ELSE grouped \cup {b}
  /\ UNCHANGED <<page, builds, sent, rollouts, wrote>>

PageRefreshes ==
  /\ page.shown # grouped
  /\ page' = [page EXCEPT !.shown = grouped]
  /\ UNCHANGED <<grouped, builds, sent, rollouts, wrote, clicks>>

DeployNext ==
  \/ \E p \in DeployPackages : ChoosesPackage(p) \/ Links(p)
  \/ \E f \in DeployPackages \cup {Unset} : ChoosesFile(f)
  \/ TogglesSource \/ Uploads \/ LinkChecked \/ HubFetches
  \/ UsesBuild \/ ChoosesAnother \/ RemovesBuild
  \/ \E which \in {"upload", "link"} : HubStores(which) \/ Stored(which) \/ NotStored(which)
  \/ \E b \in Picks : TogglesBox(b) \/ BoxMoves(b)
  \/ \E visible \in SUBSET Picks : TogglesVisible(visible)
  \/ TogglesConfig \/ Installs \/ Confirms \/ Declines \/ Created \/ NotCreated
  \/ \E r \in rollouts : Dispatches(r)
  \/ PageRefreshes

-----------------------------------------------------------------------------
\* "Asks first when this deploy also rewrites configs": a config was overwritten
\* only after the dialog, whatever arrived, was toggled or failed in between.
\* Two ways round it are known: the package chosen is not that of the build that
\* is selected, or the box came into the group after the page was rendered.
ConfigsAreAskedFor == \A w \in wrote : w.asked \/ w.strayed \/ w.behind
=============================================================================
