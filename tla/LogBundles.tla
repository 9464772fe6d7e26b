----------------------------- MODULE LogBundles ----------------------------
(***************************************************************************)
(* services/deviceLogs.ts (bundles), routes/logs.ts and agent/logs.go: a    *)
(* zip of a box's logs is asked for, uploaded, kept and pruned.             *)
(*                                                                          *)
(* Bundles are numbered in the order of requestedAt.  Each await of the hub *)
(* ends a step: the row is written in one, the waiter told in the next.     *)
(***************************************************************************)
EXTENDS Integers, Sequences, FiniteSets

CONSTANTS
  MaxBundles,  \* bound: bundles asked for
  Keep,        \* KEEP_PER_DEVICE
  MaxHubDeaths \* bound

ASSUME BundleAssumption == MaxBundles \in Nat /\ Keep \in Nat \ {0} /\ MaxHubDeaths \in Nat

VARIABLES
  asks,     \* what the caller of requestBundle got
  pending,  \* the map of waiters, each with its timer
  rows,     \* state of the row of each bundle
  paths,    \* rows with a path
  zips,     \* files under bundleDir
  box,      \* what the agent does about each bundle
  route,    \* where the upload route is with each bundle
  heard,     \* what the waiter is told next, once the row is written
  doomed,   \* what a prune is about to delete
  hubDeaths

bundleVars == <<asks, pending, rows, paths, zips, box, route, heard, doomed, hubDeaths>>

Bundles == 1..MaxBundles
RowKept(b) == rows[b] \notin {"none", "gone"}

BundleInit ==
  /\ asks = [b \in Bundles |-> "none"] /\ pending = {} /\ zips = {} /\ paths = {} /\ hubDeaths = 0
  /\ rows = [b \in Bundles |-> "none"] /\ box = [b \in Bundles |-> "none"]
  /\ route = [b \in Bundles |-> "none"] /\ heard = [b \in Bundles |-> <<>>]
  /\ doomed = [b \in Bundles |-> {}]

\* update() on a row that is gone throws; failBundle catches it.
Written(b, state) == rows' = [rows EXCEPT ![b] = IF RowKept(b) THEN state ELSE @]

\* pending.get(id)?.resolve or reject
Told(b, how) ==
  /\ asks' = [asks EXCEPT ![b] = IF b \in pending THEN how ELSE @]
  /\ pending' = pending \ {b}

-----------------------------------------------------------------------------
\* requestBundle: sent, or closed at once because the box has just gone.
RequestsBundle(b, sent) ==
  /\ rows[b] = "none" /\ \A a \in 1..b - 1 : rows[a] # "none"
  /\ rows' = [rows EXCEPT ![b] = IF sent THEN "PENDING" ELSE "FAILED"]
  /\ asks' = [asks EXCEPT ![b] = IF sent THEN "asked" ELSE "failed"]
  /\ pending' = IF sent THEN pending \cup {b} ELSE pending
  /\ box' = [box EXCEPT ![b] = IF sent THEN "told" ELSE "none"]
  /\ UNCHANGED <<paths, zips, route, heard, doomed, hubDeaths>>

\* COLLECT_TIMEOUT_MS: the waiter is rejected, the row written regardless.
CollectTimesOut(b) ==
  /\ b \in pending
  /\ Told(b, "failed") /\ Written(b, "FAILED")
  /\ UNCHANGED <<paths, zips, box, route, heard, doomed, hubDeaths>>

\* collectLogs: the zip is uploaded, or there is none to upload; or the box
\* goes, or does not know the message.
Collects(b, how) ==
  /\ box[b] = "told" /\ box' = [box EXCEPT ![b] = how]
  /\ UNCHANGED <<asks, pending, rows, paths, zips, route, heard, doomed, hubDeaths>>

\* A row that is closed is not opened: 409.
UploadBegins(b) ==
  /\ box[b] = "uploads" /\ route[b] = "none"
  /\ IF rows[b] = "PENDING"
     THEN route' = [route EXCEPT ![b] = "receives"] /\ UNCHANGED box
     ELSE box' = [box EXCEPT ![b] = "reports"] /\ UNCHANGED route
  /\ UNCHANGED <<asks, pending, rows, paths, zips, heard, doomed, hubDeaths>>

\* What the agent makes of the route's answer, if it still waits for it.
Answered(b, how) == box' = [box EXCEPT ![b] = IF @ = "uploads" THEN how ELSE @]

\* Into .part and, when all is here, to its name.
UploadLands(b) ==
  /\ route[b] = "receives"
  /\ route' = [route EXCEPT ![b] = "landed"] /\ zips' = zips \cup {b}
  /\ UNCHANGED <<asks, pending, rows, paths, box, heard, doomed, hubDeaths>>

\* Too large or cut off.
UploadFails(b) ==
  /\ route[b] = "receives"
  /\ route' = [route EXCEPT ![b] = "none"] /\ Written(b, "FAILED")
  /\ heard' = [heard EXCEPT ![b] = Append(@, "failed")] /\ Answered(b, "reports")
  /\ UNCHANGED <<asks, pending, paths, zips, doomed, hubDeaths>>

\* The connection breaks: the agent takes the upload for failed, whatever the
\* hub makes of it.
AnswerLost(b) ==
  /\ box[b] = "uploads" /\ route[b] # "none"
  /\ box' = [box EXCEPT ![b] = "reports"]
  /\ UNCHANGED <<asks, pending, rows, paths, zips, route, heard, doomed, hubDeaths>>

\* completeBundle up to its write: an update without a row ends in a 500.
Completes(b) ==
  /\ route[b] = "landed"
  /\ Written(b, "READY") /\ paths' = IF RowKept(b) THEN paths \cup {b} ELSE paths
  /\ IF RowKept(b)
     THEN /\ route' = [route EXCEPT ![b] = "prunes"]
          /\ heard' = [heard EXCEPT ![b] = Append(@, "ok")]
          /\ UNCHANGED box
     ELSE /\ route' = [route EXCEPT ![b] = "none"] /\ Answered(b, "reports")
          /\ UNCHANGED heard
  /\ UNCHANGED <<asks, pending, zips, doomed, hubDeaths>>

\* log_bundle_result: failBundle.  The frame may be lost.
Reports(b, arrives) ==
  /\ box[b] = "reports" /\ box' = [box EXCEPT ![b] = "none"]
  /\ IF arrives THEN Written(b, "FAILED") /\ heard' = [heard EXCEPT ![b] = Append(@, "failed")]
                ELSE UNCHANGED <<rows, heard>>
  /\ UNCHANGED <<asks, pending, paths, zips, route, doomed, hubDeaths>>

WaiterTold(b) ==
  /\ heard[b] # <<>> /\ heard' = [heard EXCEPT ![b] = Tail(@)]
  /\ Told(b, Head(heard[b]))
  /\ UNCHANGED <<rows, paths, zips, box, route, doomed, hubDeaths>>

\* Mutant: the list is read oldest first.
BeforeInListOldestFirst(b) == {a \in Bundles : a < b /\ RowKept(a)}
BeforeInList(b) == {a \in Bundles : a > b /\ RowKept(a)}

\* prune: the rows are read and the files removed; then the rows go.
PruneReads(b) ==
  /\ route[b] = "prunes" /\ heard[b] = <<>>
  /\ LET all == {a \in Bundles : RowKept(a) /\ Cardinality(BeforeInList(a)) >= Keep} IN
     /\ doomed' = [doomed EXCEPT ![b] = all]
     /\ zips' = zips \ (all \cap paths)
  /\ route' = [route EXCEPT ![b] = "deletes"]
  /\ UNCHANGED <<asks, pending, rows, paths, box, heard, hubDeaths>>

PruneDeletes(b) ==
  /\ route[b] = "deletes"
  /\ rows' = [a \in Bundles |-> IF a \in doomed[b] THEN "gone" ELSE rows[a]]
  /\ doomed' = [doomed EXCEPT ![b] = {}]
  /\ route' = [route EXCEPT ![b] = "none"] /\ Answered(b, "none")
  /\ UNCHANGED <<asks, pending, paths, zips, heard, hubDeaths>>

\* Waiters and uploads go, rows stay as they are.
HubDies ==
  /\ hubDeaths < MaxHubDeaths /\ hubDeaths' = hubDeaths + 1
  /\ asks' = [b \in Bundles |-> IF asks[b] = "asked" THEN "failed" ELSE asks[b]]
  /\ pending' = {} /\ route' = [b \in Bundles |-> "none"] /\ heard' = [b \in Bundles |-> <<>>]
  /\ doomed' = [b \in Bundles |-> {}]
  /\ box' = [b \in Bundles |-> IF box[b] = "uploads" THEN "reports" ELSE box[b]]
  /\ UNCHANGED <<rows, paths, zips>>

BundleNext ==
  \/ \E b \in Bundles :
       \/ CollectTimesOut(b) \/ UploadBegins(b) \/ UploadLands(b) \/ UploadFails(b)
       \/ AnswerLost(b) \/ Completes(b) \/ WaiterTold(b) \/ PruneReads(b) \/ PruneDeletes(b)
       \/ \E yes \in BOOLEAN : RequestsBundle(b, yes) \/ Reports(b, yes)
       \/ \E how \in {"uploads", "reports", "none"} : Collects(b, how)
  \/ HubDies

-----------------------------------------------------------------------------
\* What the panel offers for download is on disk: a READY row among the newest
\* has its file, whatever uploads, timers, prunes and restarts overlap.
NewestHaveFiles == \A b \in Bundles :
  rows[b] = "READY" /\ Cardinality({a \in Bundles : a > b /\ RowKept(a)}) < Keep => b \in zips
=============================================================================
