-------------------------------- MODULE Conn --------------------------------
(***************************************************************************)
(* bot/client.go, type Conn: the socket of a play session behind two       *)
(* packet queues.  wrapConn starts two goroutines: ReadLoop moves packets  *)
(* from the socket to recv, WriteLoop moves them from send to the socket.  *)
(* Any goroutine may call WritePacket; one goroutine calls ReadPacket;     *)
(* Close, a failing socket and the cancellation of the context end the     *)
(* loops at any point.                                                     *)
(*                                                                         *)
(* arrived, delivered, accepted, mirrored and wire are histories: the code *)
(* has no such variables, and only the guards that bound the model and the *)
(* properties read them.                                                   *)
(***************************************************************************)
EXTENDS Naturals, Sequences

CONSTANTS
    Writers,      (* goroutines that call WritePacket                       *)
    Inbound,      (* the packets the server may send                        *)
    RecvCap,      (* JoinOptions.QueueRead takes this many packets          *)
    SendCap,      (* JoinOptions.QueueWrite takes this many packets         *)
    MaxIn,        (* bound: packets the server sends                        *)
    MaxCalls      (* bound: WritePacket calls per goroutine                 *)

ASSUME ConnAssumption ==
    /\ RecvCap \in Nat \ {0}
    /\ SendCap \in Nat \ {0}
    /\ MaxIn \in Nat
    /\ MaxCalls \in Nat

VARIABLES
    ctxDone,      (* the context given to JoinServer is cancelled           *)
    socketUp,     (* reads and writes on the socket can succeed             *)
    closed,       (* Conn.closed                                            *)
    closer,       (* progress of the one call of Conn.Close                 *)
    recv,         (* Conn.recv: packets waiting for ReadPacket              *)
    recvClosed,   (* recv.Close() was called                                *)
    rerr,         (* Conn.rerr                                              *)
    readLoop,     (* program counter of ReadLoop                            *)
    answer,       (* what the last ReadPacket returned                      *)
    send,         (* Conn.send: packets waiting for WriteLoop               *)
    sendClosed,   (* send.Close() was called                                *)
    hand,         (* the packet WriteLoop is writing, <<>> or <<p>>         *)
    writeLoop,    (* program counter of WriteLoop                           *)
    writer,       (* per goroutine: step of its WritePacket, calls so far   *)
    arrived,      (* history: packets ReadLoop read off the socket          *)
    delivered,    (* history: packets ReadPacket returned                   *)
    accepted,     (* history: packets Push took into send                   *)
    mirrored,     (* history: packets MovementMirror was shown              *)
    wire          (* history: packets written to the socket                 *)

recvVars   == <<recv, recvClosed, rerr, readLoop, arrived>>
readerVars == <<answer, delivered>>
sendVars   == <<send, sendClosed, hand, writeLoop, wire>>
writerVars == <<writer, accepted, mirrored>>
closeVars  == <<closed, closer>>
vars == <<ctxDone, socketUp, recvVars, readerVars, sendVars, writerVars, closeVars>>

-----------------------------------------------------------------------------

(* A serverbound packet is known by who sent it and which call it was.     *)
Outbound == Writers \X (1..MaxCalls)

ReadErrors == {"socket", "full"}

(* wrapConn: empty queues, no error, both goroutines at their select.      *)
Init ==
    /\ ctxDone = FALSE /\ socketUp = TRUE
    /\ closed = FALSE /\ closer = "open"
    /\ recv = <<>> /\ recvClosed = FALSE /\ rerr = "nil" /\ readLoop = "select"
    /\ answer = "none" /\ delivered = <<>> /\ arrived = <<>>
    /\ send = <<>> /\ sendClosed = FALSE /\ hand = <<>> /\ writeLoop = "select"
    /\ writer = [w \in Writers |-> [pc |-> "idle", calls |-> 0]]
    /\ accepted = <<>> /\ mirrored = {} /\ wire = <<>>

-----------------------------------------------------------------------------
(* ReadLoop *)

(* The select: leave when the context is done, otherwise block in a read.  *)
ReadLoopSelect ==
    /\ readLoop = "select"
    /\ readLoop' = IF ctxDone THEN "closing" ELSE "reading"
    /\ UNCHANGED <<ctxDone, socketUp, recv, recvClosed, rerr, arrived,
                   readerVars, sendVars, writerVars, closeVars>>

(* Mutant: a full queue drops the packet and goes on.                      *)
ReadLoopPacketDrops(p) ==
    /\ readLoop = "reading"
    /\ socketUp
    /\ Len(arrived) < MaxIn
    /\ arrived' = Append(arrived, p)
    /\ recv' = IF Len(recv) < RecvCap THEN Append(recv, p) ELSE recv
    /\ readLoop' = "select"
    /\ UNCHANGED <<ctxDone, socketUp, recvClosed, rerr, readerVars, sendVars,
                   writerVars, closeVars>>

(* A packet arrives: pushed on recv, or dropped with the end of the loop   *)
(* when recv is full.                                                      *)
ReadLoopPacket(p) ==
    /\ readLoop = "reading"
    /\ socketUp
    /\ Len(arrived) < MaxIn
    /\ arrived' = Append(arrived, p)
    /\ \/ /\ Len(recv) < RecvCap
          /\ recv' = Append(recv, p)
          /\ readLoop' = "select"
          /\ UNCHANGED rerr
       \/ /\ Len(recv) = RecvCap
          /\ rerr' = "full"
          /\ readLoop' = "closing"
          /\ UNCHANGED recv
    /\ UNCHANGED <<ctxDone, socketUp, recvClosed, readerVars, sendVars,
                   writerVars, closeVars>>

(* Mutant: the error of the read is not kept in rerr.                      *)
ReadLoopFailForgets ==
    /\ readLoop = "reading"
    /\ readLoop' = "closing"
    /\ UNCHANGED <<ctxDone, socketUp, recv, recvClosed, rerr, arrived,
                   readerVars, sendVars, writerVars, closeVars>>

(* The read fails: the socket is gone or a frame does not decode.          *)
ReadLoopFail ==
    /\ readLoop = "reading"
    /\ rerr' = "socket"
    /\ readLoop' = "closing"
    /\ UNCHANGED <<ctxDone, socketUp, recv, recvClosed, arrived,
                   readerVars, sendVars, writerVars, closeVars>>

(* Mutant: the goroutine ends without closing recv.                        *)
ReadLoopCloseForgets ==
    /\ readLoop = "closing"
    /\ readLoop' = "ended"
    /\ UNCHANGED <<ctxDone, socketUp, recv, recvClosed, rerr, arrived,
                   readerVars, sendVars, writerVars, closeVars>>

(* The goroutine's last statement.                                         *)
ReadLoopClose ==
    /\ readLoop = "closing"
    /\ recvClosed' = TRUE
    /\ readLoop' = "ended"
    /\ UNCHANGED <<ctxDone, socketUp, recv, rerr, arrived,
                   readerVars, sendVars, writerVars, closeVars>>

-----------------------------------------------------------------------------
(* Conn.ReadPacket, called by one goroutine at a time *)

(* Mutant: the packet is looked at and stays on the queue.                 *)
ReadPacketPeek ==
    /\ recv # <<>>
    /\ delivered' = Append(delivered, Head(recv))
    /\ answer' = "packet"
    /\ Len(delivered) < MaxIn
    /\ UNCHANGED <<ctxDone, socketUp, recvVars, sendVars, writerVars, closeVars>>

ReadPacketTake ==
    /\ recv # <<>>
    /\ delivered' = Append(delivered, Head(recv))
    /\ recv' = Tail(recv)
    /\ answer' = "packet"
    /\ UNCHANGED <<ctxDone, socketUp, recvClosed, rerr, readLoop, arrived,
                   sendVars, writerVars, closeVars>>

(* recv is closed and drained: ReadPacket returns rerr, whatever it holds. *)
ReadPacketError ==
    /\ recv = <<>>
    /\ recvClosed
    /\ answer' = rerr
    /\ UNCHANGED <<ctxDone, socketUp, recvVars, delivered, sendVars,
                   writerVars, closeVars>>

-----------------------------------------------------------------------------
(* WriteLoop *)

WriteLoopSelect ==
    /\ writeLoop = "select"
    /\ writeLoop' = IF ctxDone THEN "ended" ELSE "pull"
    /\ UNCHANGED <<ctxDone, socketUp, recvVars, readerVars, send, sendClosed,
                   hand, wire, writerVars, closeVars>>

(* Pull blocks on an empty queue until it is closed.                       *)
WriteLoopPull ==
    /\ writeLoop = "pull"
    /\ \/ /\ send # <<>>
          /\ hand' = <<Head(send)>>
          /\ send' = Tail(send)
          /\ writeLoop' = "write"
       \/ /\ send = <<>>
          /\ sendClosed
          /\ writeLoop' = "ended"
          /\ UNCHANGED <<hand, send>>
    /\ UNCHANGED <<ctxDone, socketUp, recvVars, readerVars, sendClosed, wire,
                   writerVars, closeVars>>

WriteLoopWrite ==
    /\ writeLoop = "write"
    /\ socketUp
    /\ wire' = Append(wire, Head(hand))
    /\ hand' = <<>>
    /\ writeLoop' = "select"
    /\ UNCHANGED <<ctxDone, socketUp, recvVars, readerVars, send, sendClosed,
                   writerVars, closeVars>>

(* Mutant: a failed write is skipped, and the loop goes on.                *)
WriteLoopFailGoesOn ==
    /\ writeLoop = "write"
    /\ hand' = <<>>
    /\ writeLoop' = "select"
    /\ UNCHANGED <<ctxDone, socketUp, recvVars, readerVars, send, sendClosed,
                   wire, writerVars, closeVars>>

(* Mutant: the packet of a failed write is queued again.                   *)
WriteLoopFailRequeues ==
    /\ writeLoop = "write"
    /\ Len(send) < SendCap
    /\ send' = send \o hand
    /\ hand' = <<>>
    /\ writeLoop' = "select"
    /\ UNCHANGED <<ctxDone, socketUp, recvVars, readerVars, sendClosed,
                   wire, writerVars, closeVars>>

(* The write fails: the packet in hand is lost, the loop ends, and nothing *)
(* tells the callers of WritePacket: neither closed nor sendClosed change. *)
WriteLoopFail ==
    /\ writeLoop = "write"
    /\ hand' = <<>>
    /\ writeLoop' = "ended"
    /\ UNCHANGED <<ctxDone, socketUp, recvVars, readerVars, send, sendClosed,
                   wire, writerVars, closeVars>>

-----------------------------------------------------------------------------
(* Conn.WritePacket, called by goroutine w *)

CurrentPacket(w) == <<w, writer[w].calls>>

(* closed.Load() is read once, before the mirror and the push.             *)
WritePacketCheck(w) ==
    /\ writer[w].pc = "idle"
    /\ writer[w].calls < MaxCalls
    /\ writer' = [writer EXCEPT ![w] =
                    [pc |-> IF closed THEN "idle" ELSE "mirror",
                     calls |-> writer[w].calls + 1]]
    /\ UNCHANGED <<ctxDone, socketUp, recvVars, readerVars, sendVars,
                   accepted, mirrored, closeVars>>

(* mirror.HandleServerbound(p), before the packet is queued.               *)
WritePacketMirror(w) ==
    /\ writer[w].pc = "mirror"
    /\ mirrored' = mirrored \union {CurrentPacket(w)}
    /\ writer' = [writer EXCEPT ![w].pc = "push"]
    /\ UNCHANGED <<ctxDone, socketUp, recvVars, readerVars, sendVars,
                   accepted, closeVars>>

(* Mutant: the capacity is off by one.                                     *)
WritePacketPushOneMore(w) ==
    /\ writer[w].pc = "push"
    /\ writer' = [writer EXCEPT ![w].pc = "idle"]
    /\ \/ /\ ~sendClosed
          /\ Len(send) <= SendCap
          /\ send' = Append(send, CurrentPacket(w))
          /\ accepted' = Append(accepted, CurrentPacket(w))
       \/ /\ sendClosed \/ Len(send) > SendCap
          /\ UNCHANGED <<send, accepted>>
    /\ UNCHANGED <<ctxDone, socketUp, recvVars, readerVars, sendClosed, hand,
                   writeLoop, wire, mirrored, closeVars>>

(* send.Push takes the packet, or it does not: the queue is full, or Close *)
(* closed it since the check (Push then panics, which WritePacket recovers *)
(* from, or ignores the packet).                                           *)
WritePacketPush(w) ==
    /\ writer[w].pc = "push"
    /\ writer' = [writer EXCEPT ![w].pc = "idle"]
    /\ \/ /\ ~sendClosed
          /\ Len(send) < SendCap
          /\ send' = Append(send, CurrentPacket(w))
          /\ accepted' = Append(accepted, CurrentPacket(w))
       \/ /\ sendClosed \/ Len(send) = SendCap
          /\ UNCHANGED <<send, accepted>>
    /\ UNCHANGED <<ctxDone, socketUp, recvVars, readerVars, sendClosed, hand,
                   writeLoop, wire, mirrored, closeVars>>

-----------------------------------------------------------------------------
(* Conn.Close: three steps that the others interleave with *)

CloseFlag ==
    /\ closer = "open"
    /\ closed' = TRUE
    /\ closer' = "flagged"
    /\ UNCHANGED <<ctxDone, socketUp, recvVars, readerVars, sendVars, writerVars>>

(* Mutant: Close leaves the send queue open.                               *)
CloseSendForgets ==
    /\ closer = "flagged"
    /\ closer' = "sendClosed"
    /\ UNCHANGED <<ctxDone, socketUp, recvVars, readerVars, sendVars, writerVars, closed>>

CloseSend ==
    /\ closer = "flagged"
    /\ sendClosed' = TRUE
    /\ closer' = "sendClosed"
    /\ UNCHANGED <<ctxDone, socketUp, recvVars, readerVars, send, hand,
                   writeLoop, wire, writerVars, closed>>

CloseSocket ==
    /\ closer = "sendClosed"
    /\ socketUp' = FALSE
    /\ closer' = "done"
    /\ UNCHANGED <<ctxDone, recvVars, readerVars, sendVars, writerVars, closed>>

(* The environment: the peer goes away, the caller cancels.                *)
SocketDown ==
    /\ socketUp
    /\ socketUp' = FALSE
    /\ UNCHANGED <<ctxDone, recvVars, readerVars, sendVars, writerVars, closeVars>>

Cancel ==
    /\ ~ctxDone
    /\ ctxDone' = TRUE
    /\ UNCHANGED <<socketUp, recvVars, readerVars, sendVars, writerVars, closeVars>>

-----------------------------------------------------------------------------

ReadLoop  == ReadLoopSelect \/ (\E p \in Inbound : ReadLoopPacket(p)) \/ ReadLoopFail \/ ReadLoopClose
WriteLoop == WriteLoopSelect \/ WriteLoopPull \/ WriteLoopWrite \/ WriteLoopFail
WritePacket(w) == WritePacketCheck(w) \/ WritePacketMirror(w) \/ WritePacketPush(w)
Close == CloseFlag \/ CloseSend \/ CloseSocket
ReadPacket == ReadPacketTake \/ ReadPacketError

Next ==
    \/ ReadLoop
    \/ ReadPacket
    \/ WriteLoop
    \/ \E w \in Writers : WritePacket(w)
    \/ Close
    \/ SocketDown
    \/ Cancel

(* The Go scheduler runs every runnable goroutine.  A read on a live       *)
(* socket may block for ever, so ReadLoop owes an answer only once the     *)
(* socket is down; a write either succeeds or fails.  Nobody owes a call   *)
(* of WritePacket, of Close or a cancellation, but a call once made        *)
(* returns.                                                                *)
Fairness ==
    /\ WF_vars(ReadLoopSelect)
    /\ WF_vars(~socketUp /\ ReadLoopFail)
    /\ WF_vars(ReadLoopClose)
    /\ WF_vars(ReadPacket)
    /\ WF_vars(WriteLoop)
    /\ \A w \in Writers : WF_vars(WritePacketMirror(w) \/ WritePacketPush(w))
    /\ WF_vars(CloseSend \/ CloseSocket)

Spec == Init /\ [][Next]_vars
FairSpec == Spec /\ Fairness

-----------------------------------------------------------------------------
(* Properties *)

CloseTypeOK ==
    /\ ctxDone \in BOOLEAN /\ socketUp \in BOOLEAN /\ closed \in BOOLEAN
    /\ closer \in {"open", "flagged", "sendClosed", "done"}

RecvTypeOK ==
    /\ recv \in Seq(Inbound) /\ Len(recv) <= RecvCap
    /\ recvClosed \in BOOLEAN
    /\ rerr \in {"nil"} \union ReadErrors
    /\ readLoop \in {"select", "reading", "closing", "ended"}
    /\ arrived \in Seq(Inbound)

ReaderTypeOK ==
    /\ answer \in {"none", "packet", "nil"} \union ReadErrors
    /\ delivered \in Seq(Inbound)

SendTypeOK ==
    /\ send \in Seq(Outbound) /\ Len(send) <= SendCap
    /\ sendClosed \in BOOLEAN
    /\ hand \in Seq(Outbound) /\ Len(hand) <= 1
    /\ writeLoop \in {"select", "pull", "write", "ended"}
    /\ wire \in Seq(Outbound)

WriterTypeOK ==
    /\ writer \in [Writers -> [pc : {"idle", "mirror", "push"}, calls : 0..MaxCalls]]
    /\ accepted \in Seq(Outbound) /\ mirrored \subseteq Outbound

TypeOK == CloseTypeOK /\ RecvTypeOK /\ ReaderTypeOK /\ SendTypeOK /\ WriterTypeOK

(* What ReadLoop put on recv: everything it read, but for the packet that  *)
(* found the queue full.                                                   *)
Received == IF rerr = "full" THEN SubSeq(arrived, 1, Len(arrived) - 1) ELSE arrived

(* ReadPacket returns every packet read off the socket, once and in order; *)
(* one is lost only when the receive queue overflows, and then it is the   *)
(* last (ReadLoop and ReadPacket, client.go:217-286).                      *)
ReadInOrder == delivered \o recv = Received

(* ReadPacket reports the end of the stream only after it has returned all *)
(* that came before it, and reports what ended it: rerr is written before  *)
(* recv is closed.  The nil error, which HandleGame takes for a packet, is *)
(* returned only after a cancellation.                                     *)
ErrorTellsTheCause ==
    answer \in ReadErrors \union {"nil"} =>
        /\ delivered = Received
        /\ answer = rerr
        /\ answer = "nil" => ctxDone

(* Once ReadPacket has reported an error it reports that error for ever.   *)
ErrorIsFinal ==
    [][(answer \in ReadErrors \union {"nil"}) => answer' = answer]_vars

(* Packets of one goroutine reach the socket in the order of its calls,    *)
(* each once, and MovementMirror is shown each before it can be on the     *)
(* wire.                                                                   *)
PerWriterOrder ==
    /\ \A i, j \in DOMAIN wire :
          (i < j /\ wire[i][1] = wire[j][1]) => wire[i][2] < wire[j][2]
    /\ \A i \in DOMAIN accepted : accepted[i] \in mirrored

(* Each direction is the abstract channel.  WriteLoop is the receiving end *)
(* of the send side: a failed write or a cancellation breaks it, and what  *)
(* WritePacket accepts from then on is silently never sent.                *)
SendSide == INSTANCE PacketChannel
            WITH Packet <- Outbound, queue <- hand \o send, out <- wire,
                 alive <- writeLoop # "ended"
RecvSide == INSTANCE PacketChannel
            WITH Packet <- Inbound, queue <- recv, out <- delivered, alive <- TRUE

SendIsChannel == SendSide!Spec
RecvIsChannel == RecvSide!Spec

(* Again and again everything accepted has been written, unless WriteLoop  *)
(* ended: no packet waits for ever, whatever the writers go on to push.    *)
AcceptedIsWritten == []<>(writeLoop = "ended" \/ wire = accepted)

(* Close ends both goroutines, whatever they were blocked in.              *)
CloseEndsLoops == closed ~> (readLoop = "ended" /\ writeLoop = "ended")

=============================================================================
