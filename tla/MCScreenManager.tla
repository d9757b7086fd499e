-------------------------- MODULE MCScreenManager --------------------------
(* Small instances of ScreenManager for TLC: an inventory of four slots    *)
(* (one before the rows, one main, one hotbar, one after), a container of  *)
(* one slot with the player's rows and one without.                        *)
EXTENDS ScreenManager

MCLayouts == {[own |-> 1, total |-> 3], [own |-> 1, total |-> 1]}

=============================================================================
