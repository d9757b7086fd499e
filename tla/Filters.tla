------------------------------ MODULE Filters ------------------------------
(***************************************************************************)
(* The elements of a sequence that are in a set, in their order: the       *)
(* properties of GameLoop, Join and PlaySession compare histories by them, *)
(* and Events sorts handlers by them.                                      *)
(***************************************************************************)
EXTENDS Naturals, Sequences

(* Of the first n elements of s, those in K.                               *)
KeptOfFirst(s, K) ==
    LET kept[n \in 0 .. Len(s)] ==
            IF n = 0 THEN <<>>
            ELSE IF s[n] \in K THEN Append(kept[n - 1], s[n])
            ELSE kept[n - 1]
    IN  kept

(* The elements of s in K, in their order.                                 *)
Kept(s, K) == KeptOfFirst(s, K)[Len(s)]
=============================================================================
