------------------------- MODULE MCCloudflarePublisher -------------------------
(***************************************************************************)
(* Instances of CloudflarePublisher for TLC.  Identifiers and public       *)
(* mappings are interchangeable; states in which faults have lost more     *)
(* than two objects are checked and not continued.                         *)
(***************************************************************************)
EXTENDS CloudflarePublisher, TLC

Symmetry == Permutations(Ids) \cup Permutations(Addresses)

LostBound == Cardinality(lost) <= 2
===============================================================================
