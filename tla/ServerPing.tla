----------------------------- MODULE ServerPing -----------------------------
(***************************************************************************)
(* bot/pinglist.go and utils/checkServerVersion.go: the status request.    *)
(* Both dial, set the context's deadline on the socket, then write and     *)
(* read in turn; GetServerInfo decodes what it got.  user says which of    *)
(* the two runs.  The socket is never closed, and the context is not       *)
(* looked at after the dial.                                               *)
(*                                                                         *)
(* Time is counted in ticks, as in KeepAlive.  An error is told by where   *)
(* it arose: what it wraps is lost, because it is formatted into a text.   *)
(***************************************************************************)
EXTENDS Naturals, Sequences

CONSTANTS
    Timeouts,      (* deadlines a caller may give, in ticks, or NoDeadline  *)
    NoDeadline,    (* a context without a deadline                          *)
    MaxAnswers     (* bound: packets the server sends                       *)

ASSUME PingAssumption ==
    /\ Timeouts \subseteq Nat \union {NoDeadline}
    /\ NoDeadline \notin Nat
    /\ MaxAnswers \in Nat

VARIABLES
    user,          (* PingAndList or GetServerInfo                          *)
    step,          (* where pingAndList is                                  *)
    timeLeft,      (* ticks until the context's deadline                    *)
    deadlineSet,   (* the socket has the deadline                           *)
    peer,          (* the server: up, or hung up                            *)
    asked,         (* requests the server has got                           *)
    link,          (* packets on their way to the client                    *)
    answers,       (* history: packets the server sent                      *)
    status,        (* the string of the first packet read                   *)
    result         (* what the call returned, or NoResult                   *)

pingVars == <<user, step, timeLeft, deadlineSet, peer, asked, link, answers, status, result>>

-----------------------------------------------------------------------------

NoResult == [data |-> "none", err |-> "running"]
Failed(err) == [data |-> "none", err |-> err]

PingInit ==
    /\ user \in {"PingAndList", "GetServerInfo"}
    /\ timeLeft \in Timeouts
    /\ step = "dial" /\ deadlineSet = FALSE
    /\ peer = "up" /\ asked = <<>> /\ link = <<>> /\ answers = <<>>
    /\ status = "none"
    /\ result = NoResult

-----------------------------------------------------------------------------
(* The server *)

(* A status is proper JSON or not; a pong has the number of the ping, or   *)
(* another; a packet does not scan.  A server may send anything once it is *)
(* asked for the list.                                                     *)
Answers == {"status", "notJson", "pong", "otherPong", "broken"}

ServerAnswers(a) ==
    /\ peer = "up"
    /\ asked # <<>>
    /\ a = "pong" => asked[Len(asked)] = "ping"
    /\ Len(answers) < MaxAnswers
    /\ answers' = Append(answers, a)
    /\ link' = Append(link, a)
    /\ UNCHANGED <<user, step, timeLeft, deadlineSet, peer, asked, status, result>>

ServerHangsUp ==
    /\ peer = "up"
    /\ peer' = "down"
    /\ UNCHANGED <<user, step, timeLeft, deadlineSet, asked, link, answers, status, result>>

-----------------------------------------------------------------------------
(* pingAndList, getServerInfo *)

(* GetServerInfo overwrites the error by that of decoding the data.        *)
Decoded(r) ==
    IF r.data = "status" THEN [data |-> "status", err |-> "nil"] ELSE Failed("json")

Returned(r) == IF user = "GetServerInfo" THEN Decoded(r) ELSE r

(* The deferred function takes the deadline off the socket again.          *)
Returns(r) ==
    /\ result' = Returned(r)
    /\ step' = "returned"
    /\ deadlineSet' = FALSE

Proceeds(next) == step' = next /\ UNCHANGED <<result, deadlineSet>>

SocketTimedOut == deadlineSet /\ timeLeft = 0

(* Mutant: the deadline is not set on the socket.                          *)
PingDialNoDeadline ==
    /\ step = "dial"
    /\ timeLeft # 0
    /\ step' = "request"
    /\ UNCHANGED <<user, timeLeft, deadlineSet, peer, asked, link, answers, status, result>>

(* The dial ends by itself or by the context; only then is the address     *)
(* taken apart.                                                            *)
PingDial ==
    /\ step = "dial"
    /\ \/ /\ timeLeft # 0
          /\ step' = "request"
          /\ deadlineSet' = (timeLeft # NoDeadline)
          /\ UNCHANGED result
       \/ /\ timeLeft # 0
          /\ Returns(Failed("address"))
       \/ /\ result' = Failed("dial")
          /\ step' = "returned"
          /\ UNCHANGED deadlineSet
    /\ UNCHANGED <<user, timeLeft, peer, asked, link, answers, status>>

(* A write fails after the deadline, or when the server has hung up, which *)
(* it need not notice.                                                     *)
PingWrites(request, next) ==
    /\ \/ /\ ~SocketTimedOut
          /\ asked' = Append(asked, request)
          /\ Proceeds(next)
       \/ /\ SocketTimedOut \/ peer = "down"
          /\ Returns(Failed("write"))
          /\ UNCHANGED asked
    /\ UNCHANGED <<user, timeLeft, peer, link, answers, status>>

(* Handshake and request.                                                  *)
PingRequest == step = "request" /\ PingWrites("list", "readStatus")

PingPing == step = "ping" /\ PingWrites("ping", "readPong")

(* Scan looks at the bytes, not at the packet's ID: of a pong it makes an  *)
(* empty string, the first byte of a time in seconds being 0.              *)
AsString(a) == IF a \in {"pong", "otherPong"} THEN "empty" ELSE a

(* A read ends with a packet, with the deadline, or because the server     *)
(* hung up, which may cost what it has sent.                               *)
ReadGets == link # <<>> /\ ~SocketTimedOut
ReadFails == SocketTimedOut \/ peer = "down"

PingReadStatus ==
    /\ step = "readStatus"
    /\ \/ /\ ReadGets
          /\ link' = Tail(link)
          /\ IF Head(link) = "broken"
             THEN Returns(Failed("scan")) /\ UNCHANGED status
             ELSE Proceeds("ping") /\ status' = AsString(Head(link))
       \/ /\ ReadFails
          /\ Returns(Failed("read"))
          /\ UNCHANGED <<status, link>>
    /\ UNCHANGED <<user, timeLeft, peer, asked, answers>>

(* Mutant: the status goes with the error.                                 *)
PongFailureKeepsStatus(err) == [data |-> status, err |-> err]

PongFailure(err) == Failed(err)

PingReadPong ==
    /\ step = "readPong"
    /\ \/ /\ ReadGets
          /\ link' = Tail(link)
          /\ Returns(IF Head(link) = "pong" THEN [data |-> status, err |-> "nil"]
                     ELSE PongFailure(IF Head(link) = "broken" THEN "scan" ELSE "mismatch"))
       \/ /\ ReadFails
          /\ Returns(PongFailure("read"))
          /\ UNCHANGED link
    /\ UNCHANGED <<user, timeLeft, peer, asked, answers, status>>

Ping == PingDial \/ PingRequest \/ PingReadStatus \/ PingPing \/ PingReadPong

PingNext ==
    \/ Ping
    \/ ServerHangsUp
    \/ \E a \in Answers : ServerAnswers(a)

(* No time passes while the call has a step to take other than to wait for *)
(* the server: a read that has neither a packet nor a reason to fail.      *)
PingMayTick ==
    step \in {"dial", "returned"}
        \/ (step \in {"readStatus", "readPong"} /\ ~ReadFails)

PingTick ==
    /\ timeLeft' = IF timeLeft = NoDeadline \/ timeLeft = 0 THEN timeLeft ELSE timeLeft - 1
    /\ UNCHANGED <<user, step, deadlineSet, peer, asked, link, answers, status, result>>

-----------------------------------------------------------------------------
(* Properties *)

(* Success means that the first packet the server sent is the answer, and  *)
(* the second the pong to this call's ping: GetServerInfo, which loses the *)
(* error, never takes a failure for a success.                             *)
PingIsHonest ==
    result.err = "nil" =>
        /\ asked = <<"list", "ping">>
        /\ Len(answers) >= 2
        /\ result.data = AsString(answers[1])
        /\ answers[2] = "pong"

(* A call with a deadline returns, whatever the server does, and a call    *)
(* without one when the server hangs up.  One without, to a server that    *)
(* keeps silent, waits for ever.                                           *)
PingReturns == (timeLeft # NoDeadline \/ peer = "down") ~> step = "returned"

=============================================================================
