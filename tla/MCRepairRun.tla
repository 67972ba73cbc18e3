---------------------------- MODULE MCRepairRun ----------------------------
(* One repair process with every kind of provider it can be given.          *)
EXTENDS RepairRun
MCProviders == {None, "fake", "live"}
=============================================================================
