----------------------------- MODULE MCServices ----------------------------
(***************************************************************************)
(* The services that keep asking a box until it answers, one scene each:    *)
(* they share no state, so an instance plays one of them and the others     *)
(* rest in their initial state.                                             *)
(***************************************************************************)
EXTENDS AgentUpdates, LogFollows, RemoteCommands, LogBundles, DevicePresence

VARIABLE scene

Scenes == {"updates", "follows", "commands", "bundles", "presence"}

vars == <<updateVars, followVars, commandVars, bundleVars, presenceVars, scene>>

Init ==
  /\ scene \in Scenes
  /\ UpdateInit /\ FollowInit /\ CommandInit /\ BundleInit /\ PresenceInit

Plays(s) == scene = s /\ UNCHANGED scene

Next ==
  \/ /\ Plays("updates") /\ UpdateNext
     /\ UNCHANGED <<followVars, commandVars, bundleVars, presenceVars>>
  \/ /\ Plays("follows") /\ FollowNext
     /\ UNCHANGED <<updateVars, commandVars, bundleVars, presenceVars>>
  \/ /\ Plays("commands") /\ CommandNext
     /\ UNCHANGED <<updateVars, followVars, bundleVars, presenceVars>>
  \/ /\ Plays("bundles") /\ BundleNext
     /\ UNCHANGED <<updateVars, followVars, commandVars, presenceVars>>
  \/ /\ Plays("presence") /\ PresenceNext
     /\ UNCHANGED <<updateVars, followVars, commandVars, bundleVars>>

\* Timers, intervals, the event loop of the hub and the read loop of the agent
\* are sure to go on; trouble, a person, a dial or a log that grows is not.
UpdatesGoOn == \A b \in Holders :
  /\ WF_updateVars(scene = "updates" /\ Greets(b))
  /\ WF_updateVars(scene = "updates" /\ Beats(b))
  /\ WF_updateVars(scene = "updates" /\ Sweeps(b))
  /\ WF_updateVars(scene = "updates" /\ Decides(b))
  /\ WF_updateVars(scene = "updates" /\ SlotExpires(b))
  /\ WF_updateVars(scene = "updates" /\ BoxUpdates(b))
  /\ WF_updateVars(scene = "updates" /\ JobGoes(b))

FollowsGoOn ==
  /\ \A s \in Sources : SF_followVars(scene = "follows" /\ Renews(s))
  /\ WF_followVars(scene = "follows" /\ TakesFrame)
  /\ WF_followVars(scene = "follows" /\ SetupEnds)

TimersGoOff ==
  /\ \A c \in Commands : WF_commandVars(scene = "commands" /\ TimerFires(c))
  /\ \A b \in Bundles : WF_bundleVars(scene = "bundles" /\ CollectTimesOut(b))

PresenceGoesOn ==
  /\ WF_presenceVars(scene = "presence" /\ HeartBeats)
  /\ WF_presenceVars(scene = "presence" /\ LastSeenAges)
  /\ WF_presenceVars(scene = "presence" /\ SweepFinds)
  /\ WF_presenceVars(scene = "presence" /\ SweepWrites)
  /\ \A n \in Connections :
       /\ WF_presenceVars(scene = "presence" /\ (SetUp(n) \/ DeafSetUp(n) \/
                                              Closes(n) \/ MarksOffline(n)))
       /\ WF_presenceVars(scene = "presence" /\ Applies(n))

FairSpec ==
  /\ Init /\ [][Next]_vars
  /\ UpdatesGoOn /\ FollowsGoOn /\ TimersGoOff /\ PresenceGoesOn

\* The fleet gets the new agent, in the scene that is about it.
FleetConverges == scene = "updates" => Converges

\* A command and a log bundle the dashboard asked a box for are answered once,
\* and in the end: by the box, by a timer, or by the hub going down.
CommandAnswer == INSTANCE OneAnswer WITH Requests <- Commands, outcome <- calls
BundleAnswer == INSTANCE OneAnswer WITH Requests <- Bundles, outcome <- asks
AnswersOnce == CommandAnswer!OASpec /\ BundleAnswer!OASpec
=============================================================================
