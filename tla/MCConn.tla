------------------------------- MODULE MCConn -------------------------------
(* A small instance of Conn for TLC, with one inbound packet: the receive  *)
(* side is checked with more as a part of GameLoop.  The two directions    *)
(* share only the context, the socket and Close.                           *)
EXTENDS Conn

CONSTANTS w1, w2

=============================================================================
