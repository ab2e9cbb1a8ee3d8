---------------------------- MODULE MCNATDiscovery ----------------------------
(***************************************************************************)
(* Instances of NATDiscovery for TLC.                                      *)
(***************************************************************************)
EXTENDS NATDiscovery
===============================================================================
