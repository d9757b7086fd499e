------------------------------ MODULE MCWorld ------------------------------
(* Small instance of World for TLC.                                        *)
EXTENDS World, TLC

CONSTANTS r1, r2, o1, o2

Symmetry == Permutations({r1, r2}) \union Permutations({o1, o2})

=============================================================================
