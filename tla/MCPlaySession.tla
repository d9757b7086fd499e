--------------------------- MODULE MCPlaySession ----------------------------
(* Small instance of PlaySession for TLC.                                  *)
EXTENDS PlaySession, TLC

CONSTANTS u1, u2

UuidSymmetry == Permutations({u1, u2})

=============================================================================
