----------------------------- MODULE LogFollows ----------------------------
(***************************************************************************)
(* services/deviceLogs.ts (live streams) and agent/logs.go: the panels that *)
(* watch a box's logs, the hub's one stream per source, and the follows on  *)
(* the box.                                                                 *)
(*                                                                          *)
(* The box has a session, the hub a connection; a frame sent to a           *)
(* connection whose session is over is lost.                                *)
(***************************************************************************)
EXTENDS Integers, Sequences, FiniteSets

CONSTANTS
  Panels,         \* dialogs that may be open
  Sources,        \* logcat and files of a box
  MaxLogStreams,  \* follows a box allows itself
  MaxStreams,     \* bound: streams the hub makes
  MaxSessions,    \* bound: sessions of the box
  MaxFrames       \* bound: frames under way to the box

ASSUME FollowAssumption ==
  /\ {MaxLogStreams, MaxStreams, MaxSessions, MaxFrames} \subseteq Nat \ {0}
  /\ "none" \notin Sources

VARIABLES
  panels,    \* the source each open panel is subscribed to
  streams,   \* the map of deviceLogs.ts, with whether a renewal timer is set
  link,      \* the box's session, the hub's connection, whether setup is under way
  downlink,  \* frames under way to the box
  uplink,    \* ids of streams with lines under way to the hub
  follows,   \* what the box follows
  streamIds  \* how many ids were made

followVars == <<panels, streams, link, downlink, uplink, follows, streamIds>>

NotWatching == "none"
NoStream == [id |-> 0, renews |-> FALSE]

FollowInit ==
  /\ panels = [p \in Panels |-> NotWatching]
  /\ streams = [s \in Sources |-> NoStream]
  /\ link = [session |-> 0, conn |-> 0, setup |-> FALSE, made |-> 0]
  /\ downlink = <<>> /\ uplink = {} /\ follows = {} /\ streamIds = 0

Subscribers(s) == {p \in Panels : panels[p] = s}
Streaming(s) == streams[s].id # 0

StartFrame(id, s) == [type |-> "start", id |-> id, source |-> s]
StopFrame(id) == [type |-> "stop", id |-> id, source |-> "none"]

\* sendTo: the connection may be gone, or stand for a session that is over.
Tells(frame) ==
  /\ Len(downlink) < MaxFrames
  /\ downlink' = IF link.conn # 0 /\ link.conn = link.session
                 THEN Append(downlink, frame) ELSE downlink

-----------------------------------------------------------------------------
(* The hub                                                                  *)

\* subscribeToLogs; joining a stream says so to the box again.
PanelOpens(p, s) ==
  /\ panels[p] = NotWatching /\ link.conn # 0
  /\ panels' = [panels EXCEPT ![p] = s]
  /\ IF Streaming(s)
     THEN Tells(StartFrame(streams[s].id, s)) /\ UNCHANGED <<streams, streamIds>>
     ELSE /\ streamIds < MaxStreams /\ streamIds' = streamIds + 1
          /\ streams' = [streams EXCEPT ![s] = [id |-> streamIds + 1, renews |-> TRUE]]
          /\ Tells(StartFrame(streamIds + 1, s))
  /\ UNCHANGED <<link, uplink, follows>>

\* Mutant: the last one out leaves it to the box's deadline.
FarewellNone(s) == UNCHANGED downlink
Farewell(s) == Tells(StopFrame(streams[s].id))

\* The function subscribeToLogs returned: the last one out stops the follow.
PanelCloses(p) ==
  LET s == panels[p] IN
  /\ s # NotWatching
  /\ panels' = [panels EXCEPT ![p] = NotWatching]
  /\ IF Subscribers(s) = {p}
     THEN Farewell(s) /\ streams' = [streams EXCEPT ![s] = NoStream]
     ELSE UNCHANGED <<downlink, streams>>
  /\ UNCHANGED <<link, uplink, follows, streamIds>>

\* The interval of startStream.
Renews(s) ==
  /\ streams[s].renews /\ Subscribers(s) # {}
  /\ Tells(StartFrame(streams[s].id, s))
  /\ UNCHANGED <<panels, streams, link, uplink, follows, streamIds>>

\* publishLogLines: a batch of a stream that is not known stops it.
LinesArrive(id) ==
  /\ id \in uplink /\ uplink' = uplink \ {id}
  /\ IF \E s \in Sources : streams[s].id = id THEN UNCHANGED downlink ELSE Tells(StopFrame(id))
  /\ UNCHANGED <<panels, streams, link, follows, streamIds>>

\* streamKey puts a NUL between device and source; the prefixes that
\* dropStreams and rearmStreams look for end in a space.
KeySeparator == "NUL"
\* Mutant: one of the two prefixes is put right.
DropPrefixMended == "NUL"
DropPrefix == "space"
RearmPrefix == "space"

Dropped(s) ==
  IF DropPrefix # KeySeparator THEN streams[s]
  ELSE IF Subscribers(s) = {} THEN NoStream ELSE [streams[s] EXCEPT !.renews = FALSE]

\* The close listener: the streams are dropped when no connection is left.
ConnCloses ==
  /\ link.conn # 0 /\ link.conn # link.session /\ ~link.setup
  /\ link' = [link EXCEPT !.conn = 0]
  /\ streams' = [s \in Sources |-> Dropped(s)]
  /\ UNCHANGED <<panels, downlink, uplink, follows, streamIds>>

Rearmed == {s \in Sources : RearmPrefix = KeySeparator /\ Streaming(s) /\ Subscribers(s) # {}}

\* The end of onConnection: rearmStreams.
SetupEnds ==
  /\ link.setup /\ Len(downlink) + Cardinality(Rearmed) <= MaxFrames
  /\ link' = [link EXCEPT !.setup = FALSE]
  /\ streams' = [s \in Sources |-> IF s \in Rearmed THEN [streams[s] EXCEPT !.renews = TRUE]
                                                    ELSE streams[s]]
  /\ \E order \in [1..Cardinality(Rearmed) -> Rearmed] :
       /\ {order[i] : i \in DOMAIN order} = Rearmed
       /\ downlink' = IF link.conn = link.session
                      THEN downlink \o [i \in DOMAIN order |->
                                          StartFrame(streams[order[i]].id, order[i])]
                      ELSE downlink
  /\ UNCHANGED <<panels, uplink, follows, streamIds>>

\* Maps, timers and the requests of the panels are gone; their EventSource
\* opens them again.
HubForgets ==
  /\ link.conn # 0 /\ link.made < MaxSessions
  /\ link' = [link EXCEPT !.conn = 0, !.setup = FALSE]
  /\ panels' = [p \in Panels |-> NotWatching]
  /\ streams' = [s \in Sources |-> NoStream]
  /\ downlink' = <<>> /\ uplink' = {}
  /\ UNCHANGED <<follows, streamIds>>

-----------------------------------------------------------------------------
(* The box                                                                  *)

\* A session begins; register replaces the connection there is.
SessionBegins ==
  /\ link.session = 0 /\ link.made < MaxSessions
  /\ LET n == link.made + 1 IN
     link' = [session |-> n, conn |-> n, setup |-> TRUE, made |-> n]
  /\ UNCHANGED <<panels, streams, downlink, uplink, follows, streamIds>>

StopsAll == {}

\* session returns: stopLogStream("").
SessionIsOver ==
  /\ link.session # 0
  /\ link' = [link EXCEPT !.session = 0]
  /\ downlink' = <<>> /\ follows' = StopsAll
  /\ UNCHANGED <<panels, streams, uplink, streamIds>>

Running(id) == \E f \in follows : f.id = id

\* startLogStream: a start for a follow that runs is ignored, a start over the
\* limit is answered with a line; stopLogStream.
TakesFrame ==
  /\ downlink # <<>> /\ downlink' = Tail(downlink)
  /\ LET f == Head(downlink) IN
     \/ /\ f.type = "start" /\ ~Running(f.id) /\ Cardinality(follows) < MaxLogStreams
        /\ follows' = follows \cup {[id |-> f.id, source |-> f.source]} /\ UNCHANGED uplink
     \/ /\ f.type = "start" /\ ~Running(f.id) /\ Cardinality(follows) >= MaxLogStreams
        /\ uplink' = uplink \cup {f.id} /\ UNCHANGED follows
     \/ /\ f.type = "start" /\ Running(f.id) /\ UNCHANGED <<follows, uplink>>
     \/ /\ f.type = "stop"
        /\ follows' = {g \in follows : g.id # f.id} /\ UNCHANGED uplink
  /\ UNCHANGED <<panels, streams, link, streamIds>>

LogWrites(f) ==
  /\ f \in follows /\ link.session # 0
  /\ uplink' = IF link.conn = link.session THEN uplink \cup {f.id} ELSE uplink
  /\ UNCHANGED <<panels, streams, link, downlink, follows, streamIds>>

\* The deadline of 300 seconds, or a log that cannot be read.
FollowEnds(f) ==
  /\ f \in follows /\ follows' = follows \ {f}
  /\ UNCHANGED <<panels, streams, link, downlink, uplink, streamIds>>

FollowNext ==
  \/ \E p \in Panels, s \in Sources : PanelOpens(p, s)
  \/ \E p \in Panels : PanelCloses(p)
  \/ \E s \in Sources : Renews(s)
  \/ \E id \in uplink : LinesArrive(id)
  \/ ConnCloses \/ SetupEnds \/ HubForgets \/ SessionBegins \/ SessionIsOver \/ TakesFrame
  \/ \E f \in follows : LogWrites(f) \/ FollowEnds(f)

-----------------------------------------------------------------------------
\* What the box follows, somebody watches: "Last one out turns the follow off".
\* Else its stop is on the way, or its session is about to end and with it
\* every follow.
FollowsAreWatched ==
  \A f \in follows :
    \/ streams[f.source].id = f.id /\ Subscribers(f.source) # {}
    \/ \E i \in DOMAIN downlink : downlink[i] = StopFrame(f.id)
    \/ link.conn # link.session

\* What somebody watches, the box follows again and again, whatever happened to
\* its session, to the stream or to the follow: the renewal sees to it.
WatchedIsFollowed == \A s \in Sources :
  []<>(\/ Subscribers(s) = {} \/ link.conn = 0 \/ link.conn # link.session
       \/ Running(streams[s].id))
=============================================================================
