----------------------------- MODULE MCMonitor -----------------------------
(***************************************************************************)
(* Monitor with two rules about one signal: a ladder that ends in a reboot *)
(* by the agent, and one that announces and then reboots through Rotom,    *)
(* except in quiet hours.                                                  *)
(***************************************************************************)
EXTENDS MonitorProperties

Scanner ==
  [id |-> "scanner", signal |-> "LOOP_STALLED", threshold |-> 1, cooldown |-> 1,
   notify |-> TRUE, level |-> 1, from |-> 0, to |-> 0,
   steps |-> {[at |-> 1, action |-> "EXEC"], [at |-> 3, action |-> "REBOOT"]}]

Workers ==
  [id |-> "workers", signal |-> "LOOP_STALLED", threshold |-> 1, cooldown |-> 2,
   notify |-> FALSE, level |-> 1, from |-> 3, to |-> 2,
   steps |-> {[at |-> 1, action |-> "NOTIFY_ONLY"], [at |-> 2, action |-> "ROTOM_REBOOT"]}]

CONSTANT Boxes

MCRules == {Scanner, Workers}
MCAgenda == [i \in 1..(2 * Boxes) |->
               <<(i + 1) \div 2, IF i % 2 = 1 THEN Scanner ELSE Workers>>]
MCDevices == 1..Boxes
=============================================================================
