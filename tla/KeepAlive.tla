------------------------------ MODULE KeepAlive -----------------------------
(***************************************************************************)
(* bot/basic/keepalive.go with the goroutines around it: ReadLoop reads    *)
(* the socket under a read deadline, HandleGame takes the packets off its  *)
(* queue one after the other, and only the handlers of the login and of a  *)
(* keep-alive renew the deadline.  A slow handler delays the renewal by    *)
(* all that waits in the queue, and the queue a join makes when it is given *)
(* none, a LinkedQueue, takes any number of packets.                       *)
(*                                                                         *)
(* Time is counted in ticks, and each timer is the number of ticks left:   *)
(* Deadlines makes them run.  A goroutine that can take a step takes it    *)
(* before the next tick, but for a handler, which may take HandlerTime.    *)
(***************************************************************************)
EXTENDS Naturals, Sequences

CONSTANTS
    KeepAliveDuration, (* keepAliveDuration, in ticks                       *)
    Period,            (* the server's keep-alives are this far apart       *)
    HandlerTime,       (* ticks the handlers of one packet may take         *)
    QueuesRead,        (* JoinOptions.QueueRead, by what it takes: a number *)
                       (* of packets, or Unlimited as in the default queue  *)
    Unlimited,
    Backlog,           (* bound: packets queued when the server sends what  *)
                       (* it need not send                                  *)
    Never              (* no deadline                                       *)

ASSUME KeepAliveAssumption ==
    /\ {KeepAliveDuration, Period, HandlerTime, Backlog} \subseteq Nat \ {0}
    /\ QueuesRead \subseteq (Nat \ {0}) \union {Unlimited}
    /\ Unlimited \notin Nat
    /\ Never \notin Nat

VARIABLES
    server,        (* joining (no login sent), live or silent; or mute, if  *)
                   (* it stopped before the login                           *)
    due,           (* ticks until a live server has sent a keep-alive       *)
    left,          (* ticks until the read deadline, or Never               *)
    readLoop,      (* reading, or why it ended: timeout, full, closed       *)
    capacity,      (* what Conn.recv takes                                  *)
    queue,         (* Conn.recv                                             *)
    longest,       (* history: the most packets Conn.recv has held          *)
    handling,      (* the packet in HandleGame's hand, <<>> or <<p>>        *)
    busy,          (* ticks its handlers may still take                     *)
    game           (* running or returned                                   *)

recv == <<capacity, queue, longest>>
keepVars == <<server, due, left, readLoop, recv, handling, busy, game>>

-----------------------------------------------------------------------------

Packets == {"login", "keepAlive", "other"}

(* A new socket has no deadline.                                           *)
KeepInit ==
    /\ server = "joining" /\ due = Period
    /\ left = Never
    /\ readLoop = "reading"
    /\ capacity \in QueuesRead
    /\ queue = <<>> /\ longest = 0
    /\ handling = <<>> /\ busy = 0
    /\ game = "running"

(* ReadLoop, blocked in a read, gets packet p before the deadline and puts *)
(* it on the queue; a full queue ends it.                                  *)
ReadLoopGets(p) ==
    /\ readLoop = "reading"
    /\ left # 0
    /\ \/ /\ Len(queue) # capacity
          /\ queue' = Append(queue, p)
          /\ longest' = IF Len(queue') > longest THEN Len(queue') ELSE longest
          /\ UNCHANGED readLoop
       \/ /\ Len(queue) = capacity
          /\ readLoop' = "full"
          /\ UNCHANGED <<queue, longest>>
    /\ UNCHANGED <<left, capacity, handling, busy, game>>

ServerLogsIn ==
    /\ server = "joining"
    /\ ReadLoopGets("login")
    /\ server' = "live"
    /\ due' = Period

(* One that is due is sent for as long as HandleGame takes packets.        *)
ServerKeepsAlive ==
    /\ server = "live"
    /\ (due = 0 /\ game = "running") \/ Len(queue) < Backlog
    /\ ReadLoopGets("keepAlive")
    /\ due' = Period
    /\ UNCHANGED server

(* Other packets come at any time and as many at once.                     *)
ServerSendsOther ==
    /\ server = "live"
    /\ Len(queue) < Backlog
    /\ ReadLoopGets("other")
    /\ UNCHANGED <<server, due>>

(* The server stops for good: the host is gone, the connection is not.     *)
ServerFallsSilent ==
    /\ \/ server = "joining" /\ server' = "mute"
       \/ server = "live" /\ server' = "silent"
    /\ UNCHANGED <<due, left, readLoop, recv, handling, busy, game>>

(* The blocked read returns the deadline's error.                          *)
ReadLoopTimesOut ==
    /\ readLoop = "reading"
    /\ left = 0
    /\ readLoop' = "timeout"
    /\ UNCHANGED <<server, due, left, recv, handling, busy, game>>

(* The socket fails or is closed.                                          *)
SocketCloses ==
    /\ readLoop = "reading"
    /\ readLoop' = "closed"
    /\ UNCHANGED <<server, due, left, recv, handling, busy, game>>

HandleGameTakes ==
    /\ game = "running" /\ handling = <<>> /\ queue # <<>>
    /\ handling' = <<Head(queue)>>
    /\ queue' = Tail(queue)
    /\ busy' = HandlerTime
    /\ UNCHANGED <<server, due, left, readLoop, capacity, longest, game>>

(* The queue is closed and drained: ReadPacket returns the error.          *)
HandleGameReturns ==
    /\ game = "running" /\ handling = <<>> /\ queue = <<>>
    /\ readLoop # "reading"
    /\ game' = "returned"
    /\ UNCHANGED <<server, due, left, readLoop, recv, handling, busy>>

(* Mutant: only keep-alives set the deadline.                              *)
RenewsAtKeepAlive(p) == p = "keepAlive"

(* Mutant: only the login sets the deadline.                               *)
RenewsAtLogin(p) == p = "login"

(* resetKeepAliveDeadline is called by the handlers of these packets.      *)
Renews(p) == p \in {"login", "keepAlive"}

(* The handlers of the packet are through.                                 *)
HandlerReturns ==
    /\ handling # <<>>
    /\ left' = IF Renews(Head(handling)) THEN KeepAliveDuration ELSE left
    /\ handling' = <<>>
    /\ busy' = 0
    /\ UNCHANGED <<server, due, readLoop, recv, game>>

(* A handler's error ends HandleGame; nobody handles what is queued.       *)
HandlerFails ==
    /\ handling # <<>>
    /\ handling' = <<>>
    /\ busy' = 0
    /\ game' = "returned"
    /\ UNCHANGED <<server, due, left, readLoop, recv>>

KeepNext ==
    \/ ServerLogsIn \/ ServerKeepsAlive \/ ServerSendsOther \/ ServerFallsSilent
    \/ ReadLoopTimesOut \/ SocketCloses
    \/ HandleGameTakes \/ HandleGameReturns \/ HandlerReturns \/ HandlerFails

(* No time passes while a goroutine has a step to take, a handler has used *)
(* up its time or a live server has a keep-alive to send.                  *)
KeepMayTick ==
    /\ readLoop = "reading" => left # 0
    /\ game = "running" => ~(handling = <<>> /\ (queue # <<>> \/ readLoop # "reading"))
    /\ handling # <<>> => busy > 0
    /\ (server = "live" /\ readLoop = "reading") => due > 0

Down(t) == IF t = Never \/ t = 0 THEN t ELSE t - 1

KeepTick ==
    /\ left' = Down(left)
    /\ due' = Down(due)
    /\ busy' = Down(busy)
    /\ UNCHANGED <<server, readLoop, recv, handling, game>>

-----------------------------------------------------------------------------
(* Properties *)

(* Handlers that take their time clear n packets, and the one in hand,     *)
(* before a deadline renewed a period ago.                                 *)
ClearedInTime(n) == Period + (n + 1) * HandlerTime < KeepAliveDuration

(* keepalive.go:9-12 with client.go:226-232: the deadline is renewed only  *)
(* when a keep-alive is handled.  A server that sends its keep-alives is   *)
(* taken for dead only if at some time so many packets waited that the     *)
(* handlers could not clear them in time; never, therefore, with a queue   *)
(* that takes few enough, whatever else the server sends.                  *)
LiveServerIsKept ==
    (readLoop = "timeout" /\ server # "silent" /\ game # "returned") => ~ClearedInTime(longest)

(* A server that falls silent after the login ends HandleGame, though the  *)
(* connection stays up.  Before the login is handled there is no deadline, *)
(* and on a mute server HandleGame waits for ever.                         *)
SilentServerEndsGame == server = "silent" ~> game = "returned"

=============================================================================
