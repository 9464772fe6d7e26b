------------------------------ MODULE MCFleet ------------------------------
(***************************************************************************)
(* Fleet on small instances: every rollout targets every device, a device  *)
(* opens its sockets in order.                                             *)
(***************************************************************************)
EXTENDS FleetProperties

CONSTANT SocketsPerDevice  \* bound: how often a box can connect

MCJobs == Rollouts \X Devices
MCRolloutOf == [j \in MCJobs |-> j[1]]
MCDeviceOf == [j \in MCJobs |-> j[2]]
MCSockets == Devices \X (1..SocketsPerDevice)
MCOwnerOf == [s \in MCSockets |-> s[1]]
=============================================================================
