---------------------------- MODULE AutoRollout ----------------------------
(***************************************************************************)
(* services/sources/poller.ts and services/autoUpdate.ts: reading what the  *)
(* feeds list, and rolling out the newest approved build by itself.         *)
(*                                                                          *)
(* One poll at a time (inFlight).  It ends with runAutoUpdate, which may      *)
(* wait for a download.  One target; what its feeds list is the outcome of   *)
(* dedupe.                                                                  *)
(***************************************************************************)
EXTENDS ArtifactCache, SequencesExt

CONSTANTS
  Hashed,        \* versions whose feed publishes an md5
  Boxes,         \* approved devices
  AutoApprove    \* AppTarget.autoApprove

ASSUME AutoAssumption ==
  /\ Hashed \subseteq Versions \ Manual /\ AutoApprove \in BOOLEAN

VARIABLES
  poll,       \* the locals of pollAllSources and runAutoUpdate, for each caller
  hand,       \* the locals of createRollout, called by an operator
  rollouts,   \* Rollout rows of the target that are not over
  shipped,    \* versions that have, or had, a rollout
  cooling,    \* updateCooldownMinutes since the last AUTO rollout are not over
  fleet       \* DevicePackage.versionName, 0 where the package is missing

autoVars == <<poll, hand, rollouts, shipped, cooling, fleet>>
vars == <<artifactVars, autoVars>>

Pollers == {"tick", "request"}
NoPoll == [at |-> "idle", found |-> <<>>, todo |-> {}, seen |-> Unlisted, v |-> 0]
NoHand == [at |-> "idle", v |-> 0]

AutoInit ==
  /\ poll = [p \in Pollers |-> NoPoll] /\ hand = NoHand
  /\ rollouts = <<>> /\ shipped = {} /\ cooling = FALSE
  /\ fleet = [b \in Boxes |-> 0]

InUse(v) == \E i \in DOMAIN rollouts : rollouts[i].v = v
HasRollouts(v) == v \in shipped

-----------------------------------------------------------------------------
(* pollAllSources: the feeds, then each build they list.                    *)

\* Mutant: a poll does not ask whether another is under way.
InFlightNever == FALSE
InFlight == \E p \in Pollers : poll[p].at # "idle"

Becomes(p, next) == poll' = [poll EXCEPT ![p] = next]

Entry(v) == [url |-> served[v].url, sum |-> IF v \in Hashed THEN served[v].file ELSE NoFile]

\* Any caller: maybeTick, the first poll after a start, /internal/versions/poll.
\* A feed that is down lists nothing and stops nobody.
PollBegins(p) ==
  /\ ~InFlight /\ poll[p].at = "idle"
  /\ p = CHOOSE q \in Pollers : poll[q].at = "idle"
  /\ \E listed \in {{}, Versions \ Manual} :
       Becomes(p, [NoPoll EXCEPT !.at = "build", !.todo = listed,
                                 !.found = [v \in listed |-> Entry(v)]])
  /\ UNCHANGED <<artifactVars, hand, rollouts, shipped, cooling, fleet>>

PollReads(p, v) ==
  /\ poll[p].at = "build" /\ v \in poll[p].todo
  /\ Becomes(p, [poll[p] EXCEPT !.at = "store", !.v = v, !.seen = version[v], !.todo = @ \ {v}])
  /\ UNCHANGED <<artifactVars, hand, rollouts, shipped, cooling, fleet>>

\* A build that is new is created, one that is cached is left alone, another is
\* refreshed; a failure against a URL that has moved is forgiven.
Refreshed(row, seen, entry) ==
  CASE seen.status = "ABSENT" -> [Unlisted EXCEPT !.status = "DISCOVERED", !.url = entry.url,
                                    !.sum = entry.sum, !.approved = AutoApprove]
    [] seen.status = "READY" -> row
    [] OTHER -> [row EXCEPT !.url = entry.url,
                   !.sum = IF entry.sum = NoFile THEN seen.sum ELSE entry.sum,
                   !.status = IF seen.status = "FAILED" /\ seen.url # entry.url
                              THEN "DISCOVERED" ELSE row.status]

PollStores(p) ==
  /\ poll[p].at = "store"
  /\ LET v == poll[p].v IN
     version' = [version EXCEPT ![v] = Refreshed(@, poll[p].seen, poll[p].found[v])]
  /\ Becomes(p, [poll[p] EXCEPT !.at = "build", !.seen = Unlisted, !.v = 0])
  /\ UNCHANGED <<part, final, chain, dl, answer, upload, prune, served, torn, spent,
                 hand, rollouts, shipped, cooling, fleet>>

-----------------------------------------------------------------------------
(* runAutoUpdate                                                            *)

\* ACTIVE_ROLLOUT_STATUSES
AutoCounts(p) ==
  /\ poll[p].at = "build" /\ poll[p].todo = {}
  /\ Becomes(p, IF rollouts # <<>> THEN NoPoll ELSE [NoPoll EXCEPT !.at = "cooldown"])
  /\ UNCHANGED <<artifactVars, hand, rollouts, shipped, cooling, fleet>>

AutoCools(p) ==
  /\ poll[p].at = "cooldown"
  /\ Becomes(p, IF cooling THEN NoPoll ELSE [poll[p] EXCEPT !.at = "choose"])
  /\ UNCHANGED <<artifactVars, hand, rollouts, shipped, cooling, fleet>>

\* Mutant: a download that was cut short is not taken up again.
CandidateStatesAtRest == {"DISCOVERED", "READY"}
CandidateStates == {"DISCOVERED", "CACHING", "READY"}

AutoCandidates == {v \in Versions : version[v].approved /\ version[v].status \in CandidateStates}
Newest == CHOOSE v \in AutoCandidates : \A w \in AutoCandidates : w <= v
Behind(v) == \E b \in Boxes : fleet[b] < v

\* The newest approved build, if some box is behind it.  The candidates and the
\* versions on the boxes are two queries, read in one step.
AutoChooses(p) ==
  /\ poll[p].at = "choose"
  /\ IF AutoCandidates = {} \/ ~Behind(Newest)
     THEN Becomes(p, NoPoll) /\ UNCHANGED chain
     ELSE LET ready == version[Newest].status = "READY" IN
          /\ Becomes(p, [poll[p] EXCEPT !.v = Newest, !.at = IF ready THEN "create" ELSE "await"])
          /\ chain' = IF ready THEN chain ELSE Enqueued(Newest, "auto")
  /\ answer' = None
  /\ UNCHANGED <<version, part, final, dl, upload, prune, served, torn, spent,
                 hand, rollouts, shipped, cooling, fleet>>

AutoResumes(p) ==
  /\ poll[p].at = "await" /\ answer # None
  /\ Becomes(p, IF answer = "cached" THEN [poll[p] EXCEPT !.at = "create"] ELSE NoPoll)
  /\ answer' = None
  /\ UNCHANGED <<version, part, final, chain, dl, upload, prune, served, torn, spent,
                 hand, rollouts, shipped, cooling, fleet>>

\* createRollout: the version is looked up, then the rollout is written.
IsCached(v) == version[v].status = "READY" /\ version[v].cached

AutoCreates(p) ==
  /\ poll[p].at = "create"
  /\ Becomes(p, IF IsCached(poll[p].v) THEN [poll[p] EXCEPT !.at = "insert"] ELSE NoPoll)
  /\ UNCHANGED <<artifactVars, hand, rollouts, shipped, cooling, fleet>>

Inserted(v, mode) ==
  /\ rollouts' = Append(rollouts, [v |-> v, mode |-> mode])
  /\ shipped' = shipped \cup {v}

AutoInserts(p) ==
  /\ poll[p].at = "insert"
  /\ Inserted(poll[p].v, "AUTO")
  /\ Becomes(p, NoPoll)
  /\ UNCHANGED <<artifactVars, hand, cooling, fleet>>

-----------------------------------------------------------------------------
(* startRollout, startManualInstall: an operator's rollout of any build.    *)

HandCreates(v) ==
  /\ hand.at = "idle" /\ spent < MaxEvents /\ IsCached(v)
  /\ hand' = [at |-> "insert", v |-> v]
  /\ spent' = spent + 1
  /\ UNCHANGED <<version, part, final, chain, dl, answer, upload, prune, served, torn,
                 poll, rollouts, shipped, cooling, fleet>>

HandInserts ==
  /\ hand.at = "insert"
  /\ Inserted(hand.v, "MANUAL")
  /\ hand' = NoHand
  /\ UNCHANGED <<artifactVars, poll, cooling, fleet>>

-----------------------------------------------------------------------------
(* What rollouts, feeds and time do to this component.                      *)

\* A rollout ends (Fleet has how): the boxes it reached run its version.
RolloutEnds(i) ==
  /\ rollouts' = RemoveAt(rollouts, i)
  /\ cooling' = (cooling \/ rollouts[i].mode = "AUTO")
  /\ \E reached \in SUBSET Boxes :
       fleet' = [b \in Boxes |-> IF b \in reached THEN rollouts[i].v ELSE fleet[b]]
  /\ UNCHANGED <<artifactVars, poll, hand, shipped>>

CooldownEnds ==
  /\ cooling /\ cooling' = FALSE
  /\ UNCHANGED <<artifactVars, poll, hand, rollouts, shipped, fleet>>

\* A feed uploads a file again, at the same URL or at another.
Rehosts(v) ==
  /\ spent < MaxEvents
  /\ \E url \in {"u1", "u2"}, c \in Contents :
       /\ c # served[v].file
       /\ served' = [served EXCEPT ![v] = [url |-> url, file |-> c]]
  /\ spent' = spent + 1
  /\ UNCHANGED <<version, part, final, chain, dl, answer, upload, prune, torn, autoVars>>

HubDies ==
  /\ spent < MaxEvents
  /\ CacheDies /\ poll' = [p \in Pollers |-> NoPoll] /\ hand' = NoHand
  /\ UNCHANGED <<rollouts, shipped, cooling, fleet>>

-----------------------------------------------------------------------------
Init == ArtifactInit /\ AutoInit

PollStep == \E p \in Pollers :
  \/ \E v \in Versions : PollReads(p, v)
  \/ PollStores(p) \/ AutoCounts(p) \/ AutoCools(p) \/ AutoChooses(p)
  \/ AutoResumes(p) \/ AutoCreates(p) \/ AutoInserts(p)

PruneStep == \/ \E v \in Versions : PruneCounts(v, InUse(v))
             \/ PruneRemoves \/ PruneForgets \/ PruneEnds

OfCache ==
  \/ DownloadStep \/ PruneLists \/ PruneStep
  \/ \E v \in Versions : AskCache(v) \/ Approves(v) \/ DeletesManual(v, HasRollouts(v))
  \/ \E v \in Manual, u \in Uploads : UploadRenames(v, u.url, u.file)
  \/ UploadHashes \/ UploadRecords \/ UploadFails

Next ==
  \/ OfCache /\ UNCHANGED autoVars
  \/ PollStep \/ \E p \in Pollers : PollBegins(p)
  \/ \E v \in Versions : HandCreates(v)
  \/ \E v \in Versions \ Manual : Rehosts(v)
  \/ HandInserts \/ HubDies \/ CooldownEnds
  \/ \E i \in DOMAIN rollouts : RolloutEnds(i)

Spec == Init /\ [][Next]_vars

\* The event loop and the timers of the hub; rollouts end (Fleet), a cooldown
\* is over some day.  Nobody need ask for anything, and a download may fail.
FairSpec ==
  /\ Spec
  /\ WF_vars(DownloadStep /\ UNCHANGED autoVars)
  /\ WF_vars(PollStep \/ \E p \in Pollers : PollBegins(p))
  /\ WF_vars(HandInserts \/ CooldownEnds \/ \E i \in DOMAIN rollouts : RolloutEnds(i))
=============================================================================
