----------------------------- MODULE Deadlines ------------------------------
(***************************************************************************)
(* The two places where the library bounds its waiting by a deadline, on   *)
(* one clock: a program asks a server for its status, and when it got one  *)
(* it plays there, under the keep-alive deadline.                          *)
(***************************************************************************)
EXTENDS KeepAlive, ServerPing

vars == <<keepVars, pingVars>>

Init == KeepInit /\ PingInit

Tick == KeepMayTick /\ PingMayTick /\ KeepTick /\ PingTick

Next ==
    \/ result.err = "nil" /\ KeepNext /\ UNCHANGED pingVars
    \/ PingNext /\ UNCHANGED keepVars
    \/ Tick

(* Time goes on, goroutines that can take a step take it, a dial ends and  *)
(* handlers return.  No server owes anything.                              *)
Fairness ==
    /\ WF_vars(Tick)
    /\ WF_vars((ReadLoopTimesOut \/ HandleGameTakes \/ HandleGameReturns) /\ UNCHANGED pingVars)
    /\ WF_vars((HandlerReturns \/ HandlerFails) /\ UNCHANGED pingVars)
    /\ WF_vars(Ping /\ UNCHANGED keepVars)

Spec == Init /\ [][Next]_vars /\ Fairness

=============================================================================
