---------------------------- MODULE PacketChannel ----------------------------
(***************************************************************************)
(* What one direction of a bot.Conn promises: a channel that hands over    *)
(* the packets it accepted, each once and in the order of acceptance.  The *)
(* receiving end may break once, for good; the packet it was taking at     *)
(* that moment is the only one that may vanish from the front, and nothing *)
(* is handed over afterwards.  A packet accepted after the break is never  *)
(* handed over, although its sender was told that it was accepted.         *)
(***************************************************************************)
EXTENDS Sequences

CONSTANT Packet    (* the packets that may be put on the channel *)

VARIABLES
    queue,         (* accepted and not handed over yet           *)
    out,           (* handed over, oldest first                  *)
    alive          (* FALSE once the receiving end is broken     *)

vars == <<queue, out, alive>>

Init ==
    /\ queue = <<>>
    /\ out = <<>>
    /\ alive = TRUE

Put(p) ==
    /\ queue' = Append(queue, p)
    /\ UNCHANGED <<out, alive>>

Get ==
    /\ alive
    /\ queue # <<>>
    /\ out' = Append(out, Head(queue))
    /\ queue' = Tail(queue)
    /\ UNCHANGED alive

Break ==
    /\ alive
    /\ alive' = FALSE
    /\ \/ UNCHANGED queue
       \/ queue # <<>> /\ queue' = Tail(queue)
    /\ UNCHANGED out

Next ==
    \/ \E p \in Packet : Put(p)
    \/ Get
    \/ Break

Spec == Init /\ [][Next]_vars

=============================================================================
