--------------------------- MODULE ArtifactCache ---------------------------
(***************************************************************************)
(* services/artifacts.ts and services/uploads.ts: how a build gets onto the *)
(* hub's disk and off it again.                                             *)
(*                                                                          *)
(* One download at a time (cacheChain), resumed from a partial file after a *)
(* restart; an upload; and the pruning of what nothing needs.  Each step    *)
(* ends at an await.  A file is a sequence of blocks and stands for its own *)
(* hashes; the sequence without blocks is no file, or no hash.      *)
(***************************************************************************)
EXTENDS Integers, Sequences, FiniteSets

CONSTANTS
  Versions,      \* AppVersions of one target; a greater one is newer
  Manual,        \* those that are uploaded, the rest is listed by a feed
  Contents,      \* what a URL may serve, all of the same number of blocks
  Size,          \* that number: sizeBytes
  Uploads,       \* what an operator may upload: a file, with the URL it came from
  KeepLatest,    \* pruneArtifacts
  MaxChain,      \* bound: requests that wait for the chain
  MaxEvents      \* bound: uploads, prunings, crashes, re-hostings and an operator's rollouts

None == "none"

ASSUME ArtifactAssumption ==
  /\ Versions \subseteq Nat \ {0} /\ Manual \subseteq Versions
  /\ Size \in Nat \ {0} /\ Contents # {} /\ \A c \in Contents : c \in Seq(STRING) /\ Len(c) = Size
  /\ \A u \in Uploads : u.file \in Contents
  /\ {KeepLatest, MaxChain, MaxEvents} \subseteq Nat

VARIABLES
  version,   \* AppVersion rows
  part, final,   \* the files of each version under ARTIFACT_DIR
  chain,     \* cacheChain: the requests not yet answered
  dl,        \* the locals of doCacheVersion
  answer,    \* what the caller that awaits cacheVersion got
  upload,    \* the locals of storeUpload
  prune,     \* the locals of pruneArtifacts
  served,    \* external: the URL each version has now, and what it serves
  torn,      \* history: uploads whose file was replaced and whose row may not fit it
  spent      \* how much of MaxEvents is used

artifactVars == <<version, part, final, chain, dl, answer, upload, prune, served, torn, spent>>

NoFile == <<>>
Unlisted == [status |-> "ABSENT", url |-> None, sum |-> NoFile, sha |-> NoFile,
             cached |-> FALSE, approved |-> FALSE]
NoDownload == [at |-> "idle", v |-> 0, row |-> Unlisted, body |-> NoFile, hashed |-> NoFile]
NoUpload == [at |-> "idle", v |-> 0, url |-> None, sha |-> NoFile]
NoPrune == [at |-> "idle", v |-> 0, todo |-> {}]

ArtifactInit ==
  /\ version = [v \in Versions |-> Unlisted]
  /\ part = [v \in Versions |-> NoFile] /\ final = [v \in Versions |-> NoFile]
  /\ chain = <<>> /\ dl = NoDownload /\ answer = None
  /\ upload = NoUpload /\ prune = NoPrune
  /\ served = [v \in Versions |-> [url |-> "u1", file |-> CHOOSE c \in Contents : TRUE]]
  /\ torn = {}
  /\ spent = 0

-----------------------------------------------------------------------------
(* cacheVersion                                                             *)

Enqueued(v, by) == Append(chain, [v |-> v, by |-> by])

\* POST /internal/versions/:id/cache: answered at once.
AskCache(v) ==
  /\ Len(chain) < MaxChain /\ version[v].status # "ABSENT"
  /\ chain' = Enqueued(v, "operator")
  /\ UNCHANGED <<version, part, final, dl, answer, upload, prune, served, torn, spent>>

\* The promise of the head of the chain settles, and the next one starts.
Settled(how) ==
  /\ chain' = Tail(chain) /\ dl' = NoDownload
  /\ answer' = IF Head(chain).by = "auto" THEN how ELSE answer

\* doCacheVersion: the row, and whether a cached file is still there.
CacheBegins ==
  /\ dl.at = "idle" /\ chain # <<>>
  /\ LET v == Head(chain).v
         row == version[v] IN
     \/ /\ row.status = "ABSENT" \/ (row.status = "READY" /\ row.cached /\ final[v] # NoFile)
        /\ Settled(IF row.status = "ABSENT" THEN "failed" ELSE "cached")
     \/ /\ row.status # "ABSENT" /\ ~(row.status = "READY" /\ row.cached /\ final[v] # NoFile)
        /\ dl' = [NoDownload EXCEPT !.at = "mark", !.v = v, !.row = row]
        /\ UNCHANGED <<chain, answer>>
  /\ UNCHANGED <<version, part, final, upload, prune, served, torn, spent>>

CacheMarks ==
  /\ dl.at = "mark"
  /\ version' = [version EXCEPT ![dl.v].status = "CACHING"]
  /\ dl' = [dl EXCEPT !.at = "fetch"]
  /\ UNCHANGED <<part, final, chain, answer, upload, prune, served, torn, spent>>

\* Mutant: what is on disk is not hashed again.
ReplayedNothing(resuming) == NoFile

\* Hashes must cover the whole file.
Replayed(resuming) == IF resuming THEN part[dl.v] ELSE NoFile

Resumes(status, already) == status = 206 /\ already > 0

\* The request, with a range after what is there.  The far end answers 206 or,
\* not knowing ranges, 200; it answers 416 to a range past its end.
FetchAnswers ==
  /\ dl.at = "fetch" /\ dl.row.url = served[dl.v].url
  /\ LET already == Len(part[dl.v]) IN
     \E status \in {200} \cup (IF already \in 1..Size - 1 THEN {206} ELSE {}) :
       LET resuming == Resumes(status, already) IN
       /\ part' = [part EXCEPT ![dl.v] = IF resuming THEN @ ELSE NoFile]
       /\ dl' = [dl EXCEPT !.at = "receive", !.hashed = Replayed(resuming),
                   !.body = IF status = 206
                            THEN SubSeq(served[dl.v].file, already + 1, Size)
                            ELSE served[dl.v].file]
  /\ UNCHANGED <<version, final, chain, answer, upload, prune, served, torn, spent>>

Receives ==
  /\ dl.at = "receive" /\ dl.body # <<>>
  /\ part' = [part EXCEPT ![dl.v] = Append(@, Head(dl.body))]
  /\ dl' = [dl EXCEPT !.hashed = Append(@, Head(dl.body)), !.body = Tail(@)]
  /\ UNCHANGED <<version, final, chain, answer, upload, prune, served, torn, spent>>

\* The md5 the row had when the download began, and the size.
Verifies ==
  /\ dl.row.sum # NoFile => dl.row.sum = dl.hashed
  /\ Len(part[dl.v]) = Size

CacheRenames ==
  /\ dl.at = "receive" /\ dl.body = <<>> /\ Verifies
  /\ final' = [final EXCEPT ![dl.v] = part[dl.v]]
  /\ part' = [part EXCEPT ![dl.v] = NoFile]
  /\ dl' = [dl EXCEPT !.at = "publish"]
  /\ UNCHANGED <<version, chain, answer, upload, prune, served, torn, spent>>

CachePublishes ==
  /\ dl.at = "publish"
  /\ version' = [version EXCEPT ![dl.v] =
       [@ EXCEPT !.status = "READY", !.cached = TRUE, !.sha = dl.hashed,
                 !.sum = IF dl.row.sum = NoFile THEN dl.hashed ELSE dl.row.sum]]
  /\ Settled("cached")
  /\ UNCHANGED <<part, final, upload, prune, served, torn, spent>>

\* No answer, 416, a stream that breaks, a hash that does not fit: the partial
\* file stays.
CacheFails ==
  /\ dl.at \in {"fetch", "receive"}
  /\ dl.at = "receive" /\ dl.body = <<>> => ~Verifies
  /\ version' = [version EXCEPT ![dl.v].status = "FAILED"]
  /\ Settled("failed")
  /\ UNCHANGED <<part, final, upload, prune, served, torn, spent>>

-----------------------------------------------------------------------------
(* storeUpload, storeFromUrl: the stream is received, checked and named.    *)

\* The file takes its final name, whatever had it before.
UploadRenames(v, url, c) ==
  /\ upload.at = "idle" /\ spent < MaxEvents
  /\ url # None => url = served[v].url /\ c = served[v].file
  /\ final' = [final EXCEPT ![v] = c]
  /\ upload' = [NoUpload EXCEPT !.at = "hash", !.v = v, !.url = url]
  /\ torn' = torn \cup {v}
  /\ spent' = spent + 1
  /\ UNCHANGED <<version, part, chain, dl, answer, prune, served>>

UploadHashes ==
  /\ upload.at = "hash" /\ final[upload.v] # NoFile
  /\ upload' = [upload EXCEPT !.at = "record", !.sha = final[upload.v]]
  /\ UNCHANGED <<version, part, final, chain, dl, answer, prune, served, torn, spent>>

\* The upsert: a row that exists keeps its md5.  A download of the label that is
\* still under way may yet write over the file.
UploadRecords ==
  /\ upload.at = "record"
  /\ version' = [version EXCEPT ![upload.v] =
       [@ EXCEPT !.status = "READY", !.url = upload.url, !.sha = upload.sha,
                 !.cached = TRUE, !.approved = TRUE]]
  /\ torn' = IF final[upload.v] = upload.sha /\ dl.v # upload.v
             THEN torn \ {upload.v} ELSE torn
  /\ upload' = NoUpload
  /\ UNCHANGED <<part, final, chain, dl, answer, prune, served, spent>>

\* The catch: the file goes, with whatever build had that name before.
UploadFails ==
  /\ upload.at \in {"hash", "record"}
  /\ final' = [final EXCEPT ![upload.v] = NoFile]
  /\ upload' = NoUpload
  /\ UNCHANGED <<version, part, chain, dl, answer, prune, served, torn, spent>>

-----------------------------------------------------------------------------
(* pruneArtifacts                                                           *)

PruneLists ==
  /\ prune.at = "idle" /\ spent < MaxEvents
  /\ LET cached == {v \in Versions : version[v].status = "READY" /\ version[v].cached} IN
     prune' = [NoPrune EXCEPT !.at = "count",
                 !.todo = {v \in cached : Cardinality({w \in cached : w > v}) >= KeepLatest}]
  /\ spent' = spent + 1
  /\ UNCHANGED <<version, part, final, chain, dl, answer, upload, served, torn>>

PruneEnds ==
  /\ prune.at = "count" /\ prune.todo = {}
  /\ prune' = NoPrune
  /\ UNCHANGED <<version, part, final, chain, dl, answer, upload, served, torn, spent>>

\* One version: its unfinished jobs are counted; with none the file goes, and
\* then the row is told.
PruneCounts(v, inUse) ==
  /\ prune.at = "count" /\ v \in prune.todo
  /\ prune' = [at |-> IF inUse THEN "count" ELSE "remove", v |-> v, todo |-> prune.todo \ {v}]
  /\ UNCHANGED <<version, part, final, chain, dl, answer, upload, served, torn, spent>>

PruneRemoves ==
  /\ prune.at = "remove"
  /\ final' = [final EXCEPT ![prune.v] = NoFile]
  /\ prune' = [prune EXCEPT !.at = "forget"]
  /\ UNCHANGED <<version, part, chain, dl, answer, upload, served, torn, spent>>

PruneForgets ==
  /\ prune.at = "forget"
  /\ version' = [version EXCEPT ![prune.v].status = "DISCOVERED", ![prune.v].cached = FALSE]
  /\ prune' = [prune EXCEPT !.at = "count"]
  /\ UNCHANGED <<part, final, chain, dl, answer, upload, served, torn, spent>>

-----------------------------------------------------------------------------
(* setVersionApproval, deleteManualVersion, and the far end.                *)

Approves(v) ==
  /\ version[v].status # "ABSENT" /\ ~version[v].approved
  /\ version' = [version EXCEPT ![v].approved = TRUE]
  /\ UNCHANGED <<part, final, chain, dl, answer, upload, prune, served, torn, spent>>

\* A build that no rollout points at is forgotten; its file stays.
DeletesManual(v, hasRollouts) ==
  /\ v \in Manual /\ version[v].status # "ABSENT" /\ ~hasRollouts
  /\ version' = [version EXCEPT ![v] = Unlisted]
  /\ UNCHANGED <<part, final, chain, dl, answer, upload, prune, served, torn, spent>>

\* The death of the hub, for this component: files and rows stay.
CacheDies ==
  /\ chain' = <<>> /\ dl' = NoDownload /\ answer' = None
  /\ upload' = NoUpload /\ prune' = NoPrune
  /\ spent' = spent + 1
  /\ UNCHANGED <<version, part, final, served, torn>>

DownloadStep == CacheBegins \/ CacheMarks \/ FetchAnswers \/ Receives \/ CacheRenames
                \/ CachePublishes \/ CacheFails
=============================================================================
