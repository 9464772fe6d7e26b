------------------------- MODULE SupplyProperties --------------------------
(***************************************************************************)
(* What the supply of builds promises.                                      *)
(***************************************************************************)
EXTENDS AutoRollout

\* The sha256 of a READY version, which every agent checks its download
\* against, is that of the file on disk: over restarts, resumed downloads,
\* feeds that re-upload, pruning, and polls that refresh the row meanwhile.
\* Excepted is a label of which an upload was cut short over an older build, or
\* ended beside a download of the same label: neither waits for the other, and the
\* row may tell of one while the file is of the other.
\* Where the feed publishes an md5, no artifact is ever pieced together from
\* two builds, although a partial file may be older than the URL it is resumed
\* from.
FilesAreWhole ==
  \A v \in Versions : version[v].status = "READY" /\ final[v] # NoFile =>
    /\ v \notin torn => version[v].sha = final[v]
    /\ v \in Hashed => final[v] \in Contents

\* Automatic rollouts of a target neither overlap nor follow one another within
\* the cooldown, although runAutoUpdate waits for a download in between its
\* checks and the rollout.
AutoIsMeasured ==
  [][Len(rollouts') > Len(rollouts) /\ Last(rollouts').mode = "AUTO"
       => ~cooling /\ \A i \in DOMAIN rollouts : rollouts[i].mode # "AUTO"]_vars

\* The newest build, once approved and with a box behind it, is rolled out or
\* fails or is overtaken: a hub that dies during the download takes it up again.
Top == CHOOSE v \in Versions : \A w \in Versions : w <= v
NewestIsShipped ==
  (version[Top].approved /\ version[Top].status \in CandidateStates /\ Behind(Top))
    ~> (HasRollouts(Top) \/ version[Top].status \in {"FAILED", "ABSENT"} \/ ~Behind(Top))
=============================================================================
