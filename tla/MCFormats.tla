----------------------------- MODULE MCFormats -----------------------------
(* Two servers since 1.21.5: the second has other numbers, a menu of no    *)
(* known shape, and may keep its menus to itself; and one from before.     *)
(* The slots of the menus are the code's, but for the beacon: in           *)
(* containerMetadata it has none of the player's, in the process-wide      *)
(* table 36 of them, which the servers give it too.                        *)
(* Both component tables number the same components, but differently.      *)
EXTENDS Formats

MCBotsSymmetry == Permutations(Bots)

MCIds == [generic_9x1 |-> 0, hopper |-> 1, beacon |-> 2]
MCOtherIds == [sieve |-> 1, hopper |-> 2]
Slots36(own) == [own |-> own, total |-> own + 36]
MCSlots == [generic_9x1 |-> Slots36(9), hopper |-> Slots36(5), beacon |-> Slots36(1)]
MCOtherSlots == [sieve |-> Slots36(2), hopper |-> Slots36(5)]
MCServers ==
    { [era |-> e, ids |-> MCIds, slots |-> MCSlots, sends |-> TRUE] : e \in {"pre", "post"} }
    \union { [era |-> "post", ids |-> MCOtherIds, slots |-> MCOtherSlots, sends |-> b] : b \in BOOLEAN }

WithPlayer(own) == [own |-> own, includesPlayer |-> TRUE, player |-> 36]
MCMetadata == [generic_9x1 |-> WithPlayer(9), hopper |-> WithPlayer(5),
               beacon |-> [own |-> 1, includesPlayer |-> FALSE, player |-> 27]]
MCSnapshot == [i \in 0..2 |-> WithPlayer(<<9, 5, 1>>[i + 1])]
MCPreIds == [i \in 0..1 |-> <<"damage", "lore">>[i + 1]]
MCPostIds == [i \in 0..2 |-> <<"damage", "weapon", "lore">>[i + 1]]
MCKeys == <<0, 7, 1>>

=============================================================================
