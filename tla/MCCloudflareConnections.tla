------------------------ MODULE MCCloudflareConnections ------------------------
(***************************************************************************)
(* Instances of CloudflareConnections for TLC.                             *)
(***************************************************************************)
EXTENDS CloudflareConnections, TLC

Symmetry ==
    Permutations(Conns) \cup Permutations(Zones) \cup Permutations(Services)
        \cup Permutations(Requests)
===============================================================================
