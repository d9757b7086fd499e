-------------------------- MODULE MCScreenSession --------------------------
(* Small instances of ScreenSession for TLC: the inventory of              *)
(* MCScreenManager and one kind of window, with the player's rows.         *)
EXTENDS ScreenSession

MCLayouts == {[own |-> 1, total |-> 3]}

=============================================================================
