----------------------------- MODULE MCServiceApi -----------------------------
(***************************************************************************)
(* Instances of ServiceApi for TLC: the constants come from the            *)
(* configuration files.  Child processes are interchangeable, services and *)
(* ports too; runs with temporal properties do not use the symmetry.       *)
(***************************************************************************)
EXTENDS ServiceApi, TLC

Symmetry ==
    Permutations(Pids) \cup Permutations(Services) \cup Permutations(Ports)
===============================================================================
