--------------------------- MODULE MCAuthentication ---------------------------
(***************************************************************************)
(* Instances of Authentication for TLC.  Everything but None is            *)
(* interchangeable.                                                        *)
(***************************************************************************)
EXTENDS Authentication, TLC

Symmetry ==
    Permutations(Requests) \cup Permutations(Keys) \cup Permutations(Passwords)
        \cup Permutations(Secrets) \cup Permutations(Tokens)
===============================================================================
