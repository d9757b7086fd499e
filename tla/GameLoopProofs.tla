---------------------------- MODULE GameLoopProofs ----------------------------
(***************************************************************************)
(* First Conn, for every number of writers, every queue size and every     *)
(* run: its types, the order and the completeness of what ReadPacket       *)
(* returns, the error it ends with, that each direction is the channel of  *)
(* PacketChannel, and the order of each goroutine's packets on the wire.   *)
(*                                                                         *)
(* Then the play loop, for every queue size, bundle limit and number of    *)
(* packets and buffers: that it uses Conn as Conn is specified, so that    *)
(* what holds of Conn holds of it, that a payload buffer has one owner,    *)
(* that packets are handled once, in order and a bundle only when it is    *)
(* whole, and that the replay holds what was handled.                      *)
(***************************************************************************)
EXTENDS GameLoop, FilterProofs

-----------------------------------------------------------------------------
(* Sequences *)

(* What was appended last is what SubSeq leaves out.                       *)
LEMMA FrontOfAppend ==
    ASSUME NEW S, NEW s \in Seq(S), NEW e \in S
    PROVE  SubSeq(Append(s, e), 1, Len(Append(s, e)) - 1) = s
<1>1. Len(Append(s, e)) - 1 = Len(s) /\ Append(s, e) \in Seq(S)
      /\ Len(s) \in Nat
  BY AppendProperties, LenProperties
<1>2. SubSeq(Append(s, e), 1, Len(s)) \in Seq(S)
      /\ Len(SubSeq(Append(s, e), 1, Len(s))) = Len(s)
      /\ \A i \in 1..Len(s) : SubSeq(Append(s, e), 1, Len(s))[i] = Append(s, e)[i]
  <2>1. \A i \in 1..Len(s) : Append(s, e)[i] \in S
    BY AppendProperties, ElementOfSeq
  <2>2. QED
    BY <1>1, <2>1, SubSeqProperties
<1>3. \A i \in 1..Len(s) : Append(s, e)[i] = s[i]
  BY AppendProperties
<1>4. QED
  BY <1>1, <1>2, <1>3, SeqEqual

(* Moving the head of t to the end of s keeps the concatenation.           *)
LEMMA MoveHead ==
    ASSUME NEW S, NEW s \in Seq(S), NEW t \in Seq(S), t # <<>>
    PROVE  Append(s, Head(t)) \o Tail(t) = s \o t
<1>1. Head(t) \in S /\ Tail(t) \in Seq(S) /\ <<Head(t)>> \in Seq(S)
  BY HeadTailProperties
<1>2. Append(s, Head(t)) = s \o <<Head(t)>>
  BY <1>1, AppendIsConcat
<1>3. (s \o <<Head(t)>>) \o Tail(t) = s \o (<<Head(t)>> \o Tail(t))
  BY <1>1, ConcatAssociative
<1>4. <<Head(t)>> \o Tail(t) = t
  BY <1>1, HeadTailProperties, ConcatProperties, LenProperties, SeqEqual
<1>5. QED
  BY <1>2, <1>3, <1>4

(* Appending to the second of two sequences appends to both together.      *)
LEMMA AppendRight ==
    ASSUME NEW S, NEW s \in Seq(S), NEW t \in Seq(S), NEW e \in S
    PROVE  s \o Append(t, e) = Append(s \o t, e)
<1>1. Append(t, e) = t \o <<e>> /\ <<e>> \in Seq(S)
  BY AppendIsConcat
<1>2. s \o t \in Seq(S)
  BY ConcatProperties
<1>3. Append(s \o t, e) = (s \o t) \o <<e>>
  BY <1>2, AppendIsConcat
<1>4. QED
  BY <1>1, <1>3, ConcatAssociative

-----------------------------------------------------------------------------
(* Types *)

(* TypeOK is inductive with what the program counters say of the packets   *)
(* in hand: WritePacket past its check has begun a call, and WriteLoop     *)
(* holds a packet exactly while it writes it.                              *)
WriterInv == \A w \in Writers : writer[w].pc # "idle" => writer[w].calls \in 1..MaxCalls
HandInv == (writeLoop = "write") <=> (hand # <<>>)
TypeInv == TypeOK /\ WriterInv /\ HandInv

LEMMA TypeInit == Init => TypeInv
<1> SUFFICES ASSUME Init PROVE TypeInv
  OBVIOUS
<1>1. CloseTypeOK
  BY DEF Init, CloseTypeOK
<1>2. RecvTypeOK /\ ReaderTypeOK
  <2>1. <<>> \in Seq(Inbound) /\ Len(<<>>) = 0
    BY EmptySeq
  <2>2. recvClosed \in BOOLEAN
    BY DEF Init
  <2>3. recv \in Seq(Inbound) /\ Len(recv) <= RecvCap
    BY ConnAssumption DEF Init
  <2>4. rerr \in {"nil"} \union ReadErrors /\ readLoop \in {"select", "reading", "closing", "ended"}
    BY DEF Init
  <2>5. ReaderTypeOK
    BY <2>1 DEF Init, ReaderTypeOK
  <2>6. QED
    BY <2>1, <2>2, <2>3, <2>4, <2>5 DEF Init, RecvTypeOK
<1>3. SendTypeOK
  <2>1. <<>> \in Seq(Outbound) /\ Len(<<>>) = 0
    BY EmptySeq
  <2>2. sendClosed \in BOOLEAN
    BY DEF Init
  <2>3. send \in Seq(Outbound) /\ Len(send) <= SendCap
    BY <2>1, ConnAssumption DEF Init
  <2>4. hand \in Seq(Outbound) /\ Len(hand) <= 1 /\ wire \in Seq(Outbound)
    BY <2>1 DEF Init
  <2>5. writeLoop \in {"select", "pull", "write", "ended"}
    BY DEF Init
  <2>6. QED
    BY <2>2, <2>3, <2>4, <2>5 DEF SendTypeOK
<1>4. WriterTypeOK
  BY EmptySeq, ConnAssumption DEF Init, WriterTypeOK
<1>5. WriterInv /\ HandInv
  BY DEF Init, WriterInv, HandInv
<1>6. QED
  BY <1>1, <1>2, <1>3, <1>4, <1>5 DEF TypeInv, TypeOK

(* A part whose variables a step leaves alone stays as it was.             *)
LEMMA TypeFrame ==
    ASSUME TypeInv
    PROVE  /\ UNCHANGED <<ctxDone, socketUp, closeVars>> => CloseTypeOK'
           /\ UNCHANGED recvVars => RecvTypeOK'
           /\ UNCHANGED readerVars => ReaderTypeOK'
           /\ UNCHANGED sendVars => SendTypeOK' /\ HandInv'
           /\ UNCHANGED writerVars => WriterTypeOK' /\ WriterInv'
<1> USE DEF TypeInv, TypeOK
<1>1. UNCHANGED <<ctxDone, socketUp, closeVars>> => CloseTypeOK'
  BY DEF CloseTypeOK, closeVars
<1>2. UNCHANGED recvVars => RecvTypeOK'
  BY DEF RecvTypeOK, recvVars
<1>3. UNCHANGED readerVars => ReaderTypeOK'
  BY DEF ReaderTypeOK, readerVars
<1>4. UNCHANGED sendVars => SendTypeOK' /\ HandInv'
  BY DEF SendTypeOK, HandInv, sendVars
<1>5. UNCHANGED writerVars => WriterTypeOK' /\ WriterInv'
  BY DEF WriterTypeOK, WriterInv, writerVars
<1>6. QED
  BY <1>1, <1>2, <1>3, <1>4, <1>5

LEMMA TypeStep == TypeInv /\ [Next]_vars => TypeInv'
<1> SUFFICES ASSUME TypeInv, [Next]_vars PROVE TypeInv'
  OBVIOUS
<1> USE DEF TypeInv, TypeOK
<1>1. CASE ReadLoopSelect
  <2>1. RecvTypeOK'
    BY <1>1 DEF ReadLoopSelect, RecvTypeOK
  <2>2. QED
    BY TypeFrame, <1>1, <2>1 DEF ReadLoopSelect
<1>2. ASSUME NEW p \in Inbound, ReadLoopPacket(p) PROVE TypeInv'
  <2>1. arrived' \in Seq(Inbound)
    BY <1>2, AppendProperties DEF ReadLoopPacket, RecvTypeOK
  <2>2. recv' \in Seq(Inbound) /\ Len(recv') <= RecvCap
    <3>1. Append(recv, p) \in Seq(Inbound) /\ Len(Append(recv, p)) = Len(recv) + 1 /\ Len(recv) \in Nat
      BY AppendProperties, LenProperties DEF RecvTypeOK
    <3>2. CASE Len(recv) < RecvCap /\ recv' = Append(recv, p)
      BY <3>1, <3>2, ConnAssumption
    <3>3. CASE UNCHANGED recv
      BY <3>3 DEF RecvTypeOK
    <3>4. QED
      BY <1>2, <3>2, <3>3 DEF ReadLoopPacket
  <2>3. RecvTypeOK'
    BY <1>2, <2>1, <2>2 DEF ReadLoopPacket, RecvTypeOK, ReadErrors
  <2>4. QED
    BY TypeFrame, <1>2, <2>3 DEF ReadLoopPacket
<1>3. CASE ReadLoopFail
  <2>1. RecvTypeOK'
    BY <1>3 DEF ReadLoopFail, RecvTypeOK, ReadErrors
  <2>2. QED
    BY TypeFrame, <1>3, <2>1 DEF ReadLoopFail
<1>4. CASE ReadLoopClose
  <2>1. RecvTypeOK'
    BY <1>4 DEF ReadLoopClose, RecvTypeOK
  <2>2. QED
    BY TypeFrame, <1>4, <2>1 DEF ReadLoopClose
<1>5. CASE ReadPacketTake
  <2>1. recv' \in Seq(Inbound) /\ Len(recv') <= RecvCap /\ delivered' \in Seq(Inbound)
    BY <1>5, HeadTailProperties, AppendProperties, LenProperties, ConnAssumption
       DEF ReadPacketTake, RecvTypeOK, ReaderTypeOK
  <2>2. RecvTypeOK' /\ ReaderTypeOK'
    BY <1>5, <2>1 DEF ReadPacketTake, RecvTypeOK, ReaderTypeOK
  <2>3. QED
    BY TypeFrame, <1>5, <2>2 DEF ReadPacketTake
<1>6. CASE ReadPacketError
  <2>1. ReaderTypeOK'
    BY <1>6 DEF ReadPacketError, RecvTypeOK, ReaderTypeOK
  <2>2. QED
    BY TypeFrame, <1>6, <2>1 DEF ReadPacketError
<1>7. CASE WriteLoopSelect
  <2>1. SendTypeOK' /\ HandInv'
    BY <1>7 DEF WriteLoopSelect, SendTypeOK, HandInv
  <2>2. QED
    BY TypeFrame, <1>7, <2>1 DEF WriteLoopSelect
<1>8. CASE WriteLoopPull
  <2>1. SendTypeOK' /\ HandInv'
    <3>1. CASE send # <<>> /\ hand' = <<Head(send)>> /\ send' = Tail(send) /\ writeLoop' = "write"
      <4>1. Head(send) \in Outbound /\ Tail(send) \in Seq(Outbound) /\ Len(Tail(send)) = Len(send) - 1
        BY <3>1, HeadTailProperties DEF SendTypeOK
      <4>2. <<Head(send)>> \in Seq(Outbound) /\ Len(<<Head(send)>>) = 1 /\ <<Head(send)>> # <<>>
        BY <4>1
      <4>3. /\ hand' \in Seq(Outbound) /\ Len(hand') <= 1 /\ hand' # <<>>
            /\ send' \in Seq(Outbound) /\ Len(send') <= SendCap
        BY <3>1, <4>1, <4>2, LenProperties, ConnAssumption DEF SendTypeOK
      <4>4. QED
        BY <1>8, <3>1, <4>3 DEF WriteLoopPull, SendTypeOK, HandInv
    <3>2. CASE writeLoop' = "ended" /\ UNCHANGED <<hand, send>>
      BY <1>8, <3>2 DEF WriteLoopPull, SendTypeOK, HandInv
    <3>3. QED
      BY <1>8, <3>1, <3>2 DEF WriteLoopPull
  <2>2. QED
    BY TypeFrame, <1>8, <2>1 DEF WriteLoopPull
<1>9. CASE WriteLoopWrite
  <2>1. Head(hand) \in Outbound
    BY <1>9, HeadTailProperties DEF WriteLoopWrite, SendTypeOK, HandInv
  <2>2. wire' \in Seq(Outbound)
    BY <1>9, <2>1, AppendProperties DEF WriteLoopWrite, SendTypeOK
  <2>3. SendTypeOK' /\ HandInv'
    BY <1>9, <2>2, EmptySeq DEF WriteLoopWrite, SendTypeOK, HandInv
  <2>4. QED
    BY TypeFrame, <1>9, <2>3 DEF WriteLoopWrite
<1>10. CASE WriteLoopFail
  <2>1. SendTypeOK' /\ HandInv'
    BY <1>10, EmptySeq DEF WriteLoopFail, SendTypeOK, HandInv
  <2>2. QED
    BY TypeFrame, <1>10, <2>1 DEF WriteLoopFail
<1>11. ASSUME NEW w \in Writers, WritePacketCheck(w) PROVE TypeInv'
  <2>1. WriterTypeOK' /\ WriterInv'
    BY <1>11, ConnAssumption DEF WritePacketCheck, WriterTypeOK, WriterInv
  <2>2. QED
    BY TypeFrame, <1>11, <2>1 DEF WritePacketCheck
<1>12. ASSUME NEW w \in Writers, WritePacketMirror(w) PROVE TypeInv'
  <2>1. CurrentPacket(w) \in Outbound
    BY <1>12 DEF WritePacketMirror, CurrentPacket, Outbound, WriterInv
  <2>2. mirrored' \subseteq Outbound
    BY <1>12, <2>1 DEF WritePacketMirror, WriterTypeOK
  <2>3. WriterTypeOK' /\ WriterInv'
    BY <1>12, <2>2 DEF WritePacketMirror, WriterTypeOK, WriterInv
  <2>4. QED
    BY TypeFrame, <1>12, <2>3 DEF WritePacketMirror
<1>13. ASSUME NEW w \in Writers, WritePacketPush(w) PROVE TypeInv'
  <2>1. CurrentPacket(w) \in Outbound
    BY <1>13 DEF WritePacketPush, CurrentPacket, Outbound, WriterInv
  <2>2. accepted' \in Seq(Outbound)
    <3>1. Append(accepted, CurrentPacket(w)) \in Seq(Outbound)
      BY <2>1, AppendProperties DEF WriterTypeOK
    <3>2. QED
      BY <1>13, <3>1 DEF WritePacketPush, WriterTypeOK
  <2>3. send' \in Seq(Outbound) /\ Len(send') <= SendCap
    <3>1. /\ Append(send, CurrentPacket(w)) \in Seq(Outbound)
          /\ Len(Append(send, CurrentPacket(w))) = Len(send) + 1
          /\ Len(send) \in Nat
      BY <2>1, AppendProperties, LenProperties DEF SendTypeOK
    <3>2. CASE Len(send) < SendCap /\ send' = Append(send, CurrentPacket(w))
      BY <3>1, <3>2, ConnAssumption
    <3>3. CASE UNCHANGED send
      BY <3>3 DEF SendTypeOK
    <3>4. QED
      BY <1>13, <3>2, <3>3 DEF WritePacketPush
  <2>4. WriterTypeOK' /\ WriterInv'
    BY <1>13, <2>2 DEF WritePacketPush, WriterTypeOK, WriterInv
  <2>5. SendTypeOK' /\ HandInv'
    BY <1>13, <2>3 DEF WritePacketPush, SendTypeOK, HandInv
  <2>6. QED
    BY TypeFrame, <1>13, <2>4, <2>5 DEF WritePacketPush
<1>14. CASE CloseFlag
  <2>1. CloseTypeOK'
    BY <1>14 DEF CloseFlag, CloseTypeOK
  <2>2. QED
    BY TypeFrame, <1>14, <2>1 DEF CloseFlag
<1>15. CASE CloseSend
  <2>1. CloseTypeOK'
    BY <1>15 DEF CloseSend, CloseTypeOK
  <2>2. SendTypeOK' /\ HandInv'
    BY <1>15 DEF CloseSend, SendTypeOK, HandInv
  <2>3. QED
    BY TypeFrame, <1>15, <2>1, <2>2 DEF CloseSend
<1>16. CASE CloseSocket
  <2>1. CloseTypeOK'
    BY <1>16 DEF CloseSocket, CloseTypeOK
  <2>2. QED
    BY TypeFrame, <1>16, <2>1 DEF CloseSocket
<1>17. CASE SocketDown
  <2>1. CloseTypeOK'
    BY <1>17 DEF SocketDown, CloseTypeOK, closeVars
  <2>2. QED
    BY TypeFrame, <1>17, <2>1 DEF SocketDown
<1>18. CASE Cancel
  <2>1. CloseTypeOK'
    BY <1>18 DEF Cancel, CloseTypeOK, closeVars
  <2>2. QED
    BY TypeFrame, <1>18, <2>1 DEF Cancel
<1>19. CASE UNCHANGED vars
  BY <1>19, TypeFrame DEF vars
<1>20. QED
  BY <1>1, <1>2, <1>3, <1>4, <1>5, <1>6, <1>7, <1>8, <1>9, <1>10, <1>11, <1>12, <1>13,
     <1>14, <1>15, <1>16, <1>17, <1>18, <1>19
     DEF Next, ReadLoop, ReadPacket, WriteLoop, WritePacket, Close

(* Conn is type correct: among the rest, its queues never hold more than   *)
(* their capacities.                                                       *)
THEOREM TypeCorrect == Spec => []TypeOK
<1>1. TypeInv => TypeOK
  BY DEF TypeInv
<1>2. QED
  BY TypeInit, TypeStep, <1>1, PTL DEF Spec

-----------------------------------------------------------------------------
(* The receive side *)

(* Why ReadPacket tells the truth: ReadLoop closes recv last, after the    *)
(* error is in rerr, and leaves without an error only when cancelled; once *)
(* recv is closed nothing is pushed, so what ReadPacket found empty stays  *)
(* empty.                                                                  *)
LoopInv ==
    /\ recvClosed <=> (readLoop = "ended")
    /\ rerr # "nil" => readLoop \in {"closing", "ended"}
    /\ (rerr = "nil" /\ readLoop \in {"closing", "ended"}) => ctxDone

AnswerInv ==
    answer \in ReadErrors \union {"nil"} =>
        recvClosed /\ recv = <<>> /\ answer = rerr

RecvInv == LoopInv /\ AnswerInv /\ ReadInOrder

LEMMA RecvInit == Init => RecvInv
<1> SUFFICES ASSUME Init PROVE RecvInv
  OBVIOUS
<1>1. LoopInv
  BY DEF Init, LoopInv
<1>2. AnswerInv
  BY DEF Init, AnswerInv, ReadErrors
<1>3. ReadInOrder
  <2>1. delivered = <<>> /\ recv = <<>> /\ Received = <<>>
    BY DEF Init, Received
  <2>2. QED
    BY <2>1, EmptySeq, ConcatEmptySeq DEF ReadInOrder
<1>4. QED
  BY <1>1, <1>2, <1>3 DEF RecvInv

(* The steps of the receive side; every other step leaves it alone, and no *)
(* step takes a cancellation back.                                         *)
LEMMA RecvFrame ==
    ASSUME [Next]_vars
    PROVE  \/ ReadLoopSelect \/ (\E p \in Inbound : ReadLoopPacket(p))
           \/ ReadLoopFail \/ ReadLoopClose \/ ReadPacketTake \/ ReadPacketError
           \/ UNCHANGED <<recvVars, readerVars>> /\ (ctxDone => ctxDone')
<1> DEFINE Other == UNCHANGED <<recvVars, readerVars>> /\ (ctxDone => ctxDone')
<1>1. CASE WriteLoop
  BY <1>1 DEF WriteLoop, WriteLoopSelect, WriteLoopPull, WriteLoopWrite, WriteLoopFail
<1>2. ASSUME NEW w \in Writers, WritePacket(w) PROVE Other
  BY <1>2 DEF WritePacket, WritePacketCheck, WritePacketMirror, WritePacketPush
<1>3. CASE Close
  BY <1>3 DEF Close, CloseFlag, CloseSend, CloseSocket
<1>4. CASE SocketDown \/ Cancel
  BY <1>4 DEF SocketDown, Cancel
<1>5. CASE UNCHANGED vars
  BY <1>5 DEF vars
<1>6. QED
  BY <1>1, <1>2, <1>3, <1>4, <1>5 DEF Next, ReadLoop, ReadPacket

LEMMA LoopStep == LoopInv /\ [Next]_vars => LoopInv'
<1> SUFFICES ASSUME LoopInv, [Next]_vars PROVE LoopInv'
  OBVIOUS
<1> USE DEF LoopInv
<1>1. CASE ReadLoopSelect
  BY <1>1 DEF ReadLoopSelect
<1>2. ASSUME NEW p \in Inbound, ReadLoopPacket(p) PROVE LoopInv'
  BY <1>2 DEF ReadLoopPacket
<1>3. CASE ReadLoopFail
  BY <1>3 DEF ReadLoopFail
<1>4. CASE ReadLoopClose
  BY <1>4 DEF ReadLoopClose
<1>5. CASE ReadPacketTake
  BY <1>5 DEF ReadPacketTake
<1>6. CASE ReadPacketError
  BY <1>6 DEF ReadPacketError, recvVars
<1>7. CASE UNCHANGED <<recvVars, readerVars>> /\ (ctxDone => ctxDone')
  BY <1>7 DEF recvVars
<1>8. QED
  BY <1>1, <1>2, <1>3, <1>4, <1>5, <1>6, <1>7, RecvFrame

LEMMA AnswerStep == LoopInv /\ AnswerInv /\ [Next]_vars => AnswerInv'
<1> SUFFICES ASSUME LoopInv, AnswerInv, [Next]_vars PROVE AnswerInv'
  OBVIOUS
<1> USE DEF LoopInv, AnswerInv, ReadErrors
<1>1. CASE ReadLoopSelect
  BY <1>1 DEF ReadLoopSelect, readerVars
<1>2. ASSUME NEW p \in Inbound, ReadLoopPacket(p) PROVE AnswerInv'
  BY <1>2 DEF ReadLoopPacket, readerVars
<1>3. CASE ReadLoopFail
  BY <1>3 DEF ReadLoopFail, readerVars
<1>4. CASE ReadLoopClose
  BY <1>4 DEF ReadLoopClose, readerVars
<1>5. CASE ReadPacketTake
  BY <1>5 DEF ReadPacketTake
<1>6. CASE ReadPacketError
  BY <1>6 DEF ReadPacketError, recvVars
<1>7. CASE UNCHANGED <<recvVars, readerVars>>
  BY <1>7 DEF recvVars, readerVars
<1>8. QED
  BY <1>1, <1>2, <1>3, <1>4, <1>5, <1>6, <1>7, RecvFrame

LEMMA OrderStep == TypeInv /\ LoopInv /\ ReadInOrder /\ [Next]_vars => ReadInOrder'
<1> SUFFICES ASSUME TypeInv, LoopInv, ReadInOrder, [Next]_vars PROVE ReadInOrder'
  OBVIOUS
<1> USE DEF ReadInOrder
<1>1. recv \in Seq(Inbound) /\ arrived \in Seq(Inbound) /\ delivered \in Seq(Inbound)
  BY DEF TypeInv, TypeOK, RecvTypeOK, ReaderTypeOK
<1>2. readLoop = "reading" => rerr = "nil" /\ Received = arrived
  BY DEF LoopInv, Received
<1>3. CASE UNCHANGED <<recv, arrived, delivered, rerr>>
  BY <1>3 DEF Received
<1>4. ASSUME NEW p \in Inbound, ReadLoopPacket(p) PROVE ReadInOrder'
  <2>1. rerr = "nil" /\ delivered \o recv = arrived /\ delivered' = delivered
        /\ arrived' = Append(arrived, p)
    BY <1>2, <1>4 DEF ReadLoopPacket, readerVars
  <2>2. CASE recv' = Append(recv, p) /\ UNCHANGED rerr
    <3>1. delivered \o Append(recv, p) = Append(delivered \o recv, p)
      BY <1>1, AppendRight
    <3>2. Received' = arrived'
      BY <2>1, <2>2 DEF Received
    <3>3. QED
      BY <2>1, <2>2, <3>1, <3>2
  <2>3. CASE UNCHANGED recv /\ rerr' = "full"
    <3>1. Received' = SubSeq(Append(arrived, p), 1, Len(Append(arrived, p)) - 1)
      BY <2>1, <2>3 DEF Received
    <3>2. Received' = arrived
      BY <1>1, <3>1, FrontOfAppend
    <3>3. QED
      BY <2>1, <2>3, <3>2
  <2>4. QED
    BY <1>4, <2>2, <2>3 DEF ReadLoopPacket
<1>5. CASE ReadLoopFail
  <2>1. Received' = arrived /\ Received = arrived /\ UNCHANGED <<recv, delivered>>
    BY <1>2, <1>5 DEF ReadLoopFail, Received, readerVars
  <2>2. QED
    BY <2>1
<1>6. CASE ReadPacketTake
  <2>1. Append(delivered, Head(recv)) \o Tail(recv) = delivered \o recv
    BY <1>1, <1>6, MoveHead DEF ReadPacketTake
  <2>2. QED
    BY <1>6, <2>1 DEF ReadPacketTake, Received
<1>7. CASE ReadLoopSelect \/ ReadLoopClose \/ ReadPacketError
  BY <1>3, <1>7 DEF ReadLoopSelect, ReadLoopClose, ReadPacketError, readerVars, recvVars
<1>8. QED
  BY <1>3, <1>4, <1>5, <1>6, <1>7, RecvFrame DEF recvVars, readerVars

LEMMA RecvStep == TypeInv /\ RecvInv /\ [Next]_vars => RecvInv'
  BY LoopStep, AnswerStep, OrderStep DEF RecvInv

LEMMA RecvInvariant == Spec => [](TypeInv /\ RecvInv)
  BY TypeInit, TypeStep, RecvInit, RecvStep, PTL DEF Spec

(* ReadPacket returns every packet read off the socket, once and in order, *)
(* but for the one that found the queue full.                              *)
THEOREM OrderCorrect == Spec => []ReadInOrder
<1>1. RecvInv => ReadInOrder
  BY DEF RecvInv
<1>2. QED
  BY RecvInvariant, <1>1, PTL

(* ReadPacket reports an error after all that came before it, the error    *)
(* that ended the loop, and none at all only when cancelled.               *)
THEOREM ErrorCorrect == Spec => []ErrorTellsTheCause
<1>1. TypeInv /\ RecvInv => ErrorTellsTheCause
  <2> SUFFICES ASSUME TypeInv, RecvInv, answer \in ReadErrors \union {"nil"}
               PROVE  delivered = Received /\ answer = rerr /\ (answer = "nil" => ctxDone)
    BY DEF ErrorTellsTheCause
  <2>1. recvClosed /\ recv = <<>> /\ answer = rerr
    BY DEF RecvInv, AnswerInv
  <2>2. delivered \in Seq(Inbound)
    BY DEF TypeInv, TypeOK, ReaderTypeOK
  <2>3. delivered = Received
    BY <2>1, <2>2, ConcatEmptySeq DEF RecvInv, ReadInOrder
  <2>4. answer = "nil" => ctxDone
    BY <2>1 DEF RecvInv, LoopInv
  <2>5. QED
    BY <2>1, <2>3, <2>4
<1>2. QED
  BY RecvInvariant, <1>1, PTL

(* The error ReadPacket reported is the one it goes on to report.          *)
THEOREM ErrorStays == Spec => ErrorIsFinal
<1>1. RecvInv /\ [Next]_vars => (answer \in ReadErrors \union {"nil"} => answer' = answer)
  <2> SUFFICES ASSUME RecvInv, [Next]_vars, answer \in ReadErrors \union {"nil"}
               PROVE  answer' = answer
    OBVIOUS
  <2>1. recv = <<>> /\ answer = rerr
    BY DEF RecvInv, AnswerInv
  <2>2. QED
    BY <2>1, RecvFrame DEF ReadLoopSelect, ReadLoopPacket, ReadLoopFail, ReadLoopClose,
                           ReadPacketTake, ReadPacketError, readerVars
<1>2. QED
  BY RecvInvariant, <1>1, PTL DEF Spec, ErrorIsFinal

-----------------------------------------------------------------------------
(* Each direction implements the abstract channel *)

(* ReadPacket takes packets in the order ReadLoop pushed them, each once:  *)
(* ReadLoop's pushes are the channel's puts, ReadPacketTake is its get.    *)
THEOREM RecvRefines == Spec => RecvIsChannel
<1>1. Init => RecvSide!Init
  BY DEF Init, RecvSide!Init
<1>2. [Next]_vars => [RecvSide!Next]_RecvSide!vars
  <2> SUFFICES ASSUME [Next]_vars PROVE RecvSide!Next \/ UNCHANGED RecvSide!vars
    OBVIOUS
  <2> USE DEF RecvSide!vars
  <2>1. ASSUME NEW p \in Inbound, ReadLoopPacket(p)
        PROVE  RecvSide!Next \/ UNCHANGED RecvSide!vars
    <3>1. CASE recv' = Append(recv, p)
      BY <2>1, <3>1 DEF ReadLoopPacket, readerVars, RecvSide!Next, RecvSide!Put
    <3>2. CASE UNCHANGED recv
      BY <2>1, <3>2 DEF ReadLoopPacket, readerVars
    <3>3. QED
      BY <2>1, <3>1, <3>2 DEF ReadLoopPacket
  <2>2. CASE ReadPacketTake
    BY <2>2 DEF ReadPacketTake, RecvSide!Next, RecvSide!Get
  <2>3. CASE ReadLoopSelect \/ ReadLoopFail \/ ReadLoopClose \/ ReadPacketError
    BY <2>3 DEF ReadLoopSelect, ReadLoopFail, ReadLoopClose, ReadPacketError,
                recvVars, readerVars
  <2>4. CASE UNCHANGED <<recvVars, readerVars>>
    BY <2>4 DEF recvVars, readerVars
  <2>5. QED
    BY <2>1, <2>2, <2>3, <2>4, RecvFrame
<1>3. QED
  BY <1>1, <1>2, PTL DEF Spec, RecvIsChannel, RecvSide!Spec

(* The send side's queue is hand \o send: WriteLoopPull moves its head from *)
(* one to the other, WriteLoopWrite hands it over, and the three ways      *)
(* WriteLoop ends are the break.                                           *)
LEMMA HandSplit ==
    ASSUME TypeInv, writeLoop = "write"
    PROVE  /\ hand \o send # <<>>
           /\ Head(hand \o send) = Head(hand)
           /\ Tail(hand \o send) = <<>> \o send
<1>1. hand \in Seq(Outbound) /\ send \in Seq(Outbound) /\ Len(hand) = 1
  <2>1. hand \in Seq(Outbound) /\ send \in Seq(Outbound) /\ Len(hand) <= 1 /\ hand # <<>>
    BY DEF TypeInv, TypeOK, SendTypeOK, HandInv
  <2>2. Len(hand) \in Nat \ {0}
    BY <2>1, EmptySeq
  <2>3. ASSUME NEW n \in Nat \ {0}, n <= 1 PROVE n = 1
    BY <2>3
  <2>4. Len(hand) = 1
    BY <2>1, <2>2, <2>3
  <2>5. QED
    BY <2>1, <2>4
<1>2. /\ hand \o send \in Seq(Outbound)
      /\ Len(hand \o send) = 1 + Len(send)
      /\ \A i \in 1 .. 1 + Len(send) :
            (hand \o send)[i] = IF i <= 1 THEN hand[i] ELSE send[i - 1]
      /\ Len(send) \in Nat
  <2>1. Len(send) \in Nat
    BY <1>1, LenProperties
  <2>2. /\ hand \o send \in Seq(Outbound)
        /\ Len(hand \o send) = Len(hand) + Len(send)
        /\ \A i \in 1 .. Len(hand) + Len(send) :
              (hand \o send)[i] = IF i <= Len(hand) THEN hand[i] ELSE send[i - Len(hand)]
    BY <1>1, ConcatProperties
  <2>3. QED
    BY <1>1, <2>1, <2>2
<1>3. hand \o send # <<>>
  BY <1>2
<1>4. Head(hand \o send) = Head(hand)
  BY <1>1, <1>2
<1>5. Tail(hand \o send) \in Seq(Outbound) /\ Len(Tail(hand \o send)) = Len(send)
      /\ \A i \in 1 .. Len(send) : Tail(hand \o send)[i] = (hand \o send)[i + 1]
  BY <1>2, <1>3, HeadTailProperties
<1>6. \A i \in 1 .. Len(send) : Tail(hand \o send)[i] = send[i]
  BY <1>2, <1>5
<1>7. Tail(hand \o send) = send
  BY <1>1, <1>5, <1>6, SeqEqual
<1>8. QED
  BY <1>1, <1>3, <1>4, <1>7, ConcatEmptySeq

(* The steps of the send side; every other step leaves its queue alone.    *)
LEMMA SendFrame ==
    ASSUME [Next]_vars
    PROVE  \/ WriteLoopSelect \/ WriteLoopPull \/ WriteLoopWrite \/ WriteLoopFail
           \/ \E w \in Writers : WritePacketPush(w)
           \/ UNCHANGED <<hand, send, wire, writeLoop>>
<1> DEFINE Same == UNCHANGED <<hand, send, wire, writeLoop>>
<1>1. CASE ReadLoop
  BY <1>1 DEF ReadLoop, ReadLoopSelect, ReadLoopPacket, ReadLoopFail, ReadLoopClose, sendVars
<1>2. CASE ReadPacket
  BY <1>2 DEF ReadPacket, ReadPacketTake, ReadPacketError, sendVars
<1>3. ASSUME NEW w \in Writers, WritePacketCheck(w) \/ WritePacketMirror(w) PROVE Same
  BY <1>3 DEF WritePacketCheck, WritePacketMirror, sendVars
<1>4. CASE Close
  BY <1>4 DEF Close, CloseFlag, CloseSend, CloseSocket, sendVars
<1>5. CASE SocketDown \/ Cancel
  BY <1>5 DEF SocketDown, Cancel, sendVars
<1>6. CASE UNCHANGED vars
  BY <1>6 DEF vars, sendVars
<1>7. QED
  BY <1>1, <1>2, <1>3, <1>4, <1>5, <1>6 DEF Next, WriteLoop, WritePacket

(* What WritePacket accepted is written in the order of acceptance, and    *)
(* nothing after the first packet WriteLoop lost.                          *)
THEOREM SendRefines == Spec => SendIsChannel
<1>1. Init => SendSide!Init
  BY EmptySeq, ConcatEmptySeq DEF Init, SendSide!Init
<1>2. TypeInv /\ [Next]_vars => [SendSide!Next]_SendSide!vars
  <2> SUFFICES ASSUME TypeInv, [Next]_vars
               PROVE  SendSide!Next \/ UNCHANGED SendSide!vars
    OBVIOUS
  <2> USE DEF SendSide!vars
  <2>1. hand \in Seq(Outbound) /\ send \in Seq(Outbound)
        /\ (writeLoop # "write" => hand = <<>>)
    BY DEF TypeInv, TypeOK, SendTypeOK, HandInv
  <2>2. CASE WriteLoopSelect
    BY <2>2 DEF WriteLoopSelect, SendSide!Next, SendSide!Break
  <2>3. CASE WriteLoopPull
    <3>1. CASE send # <<>> /\ hand' = <<Head(send)>> /\ send' = Tail(send) /\ writeLoop' = "write"
      <4>1. <<Head(send)>> = Append(<<>>, Head(send)) /\ <<>> \in Seq(Outbound)
        BY EmptySeq
      <4>2. hand' \o send' = hand \o send
        BY <2>1, <2>3, <3>1, <4>1, MoveHead DEF WriteLoopPull
      <4>3. QED
        BY <2>3, <3>1, <4>2 DEF WriteLoopPull
    <3>2. CASE writeLoop' = "ended" /\ UNCHANGED <<hand, send>>
      BY <2>3, <3>2 DEF WriteLoopPull, SendSide!Next, SendSide!Break
    <3>3. QED
      BY <2>3, <3>1, <3>2 DEF WriteLoopPull
  <2>4. CASE WriteLoopWrite
    BY <2>4, HandSplit DEF WriteLoopWrite, SendSide!Next, SendSide!Get
  <2>5. CASE WriteLoopFail
    BY <2>5, HandSplit DEF WriteLoopFail, SendSide!Next, SendSide!Break
  <2>6. ASSUME NEW w \in Writers, WritePacketPush(w)
        PROVE  SendSide!Next \/ UNCHANGED SendSide!vars
    <3>1. CASE send' = Append(send, CurrentPacket(w))
      <4>1. CurrentPacket(w) \in Outbound
        BY <2>6 DEF WritePacketPush, CurrentPacket, Outbound, TypeInv, WriterInv
      <4>2. hand' \o send' = Append(hand \o send, CurrentPacket(w))
        BY <2>1, <2>6, <3>1, <4>1, AppendRight DEF WritePacketPush
      <4>3. QED
        BY <2>6, <4>1, <4>2 DEF WritePacketPush, SendSide!Next, SendSide!Put
    <3>2. CASE UNCHANGED send
      BY <2>6, <3>2 DEF WritePacketPush
    <3>3. QED
      BY <2>6, <3>1, <3>2 DEF WritePacketPush
  <2>7. CASE UNCHANGED <<hand, send, wire, writeLoop>>
    BY <2>7
  <2>8. QED
    BY <2>2, <2>3, <2>4, <2>5, <2>6, <2>7, SendFrame
<1>3. QED
  BY RecvInvariant, <1>1, <1>2, PTL DEF Spec, SendIsChannel, SendSide!Spec

-----------------------------------------------------------------------------
(* The order of each writer's packets *)

Prefix(s, t) == Len(s) <= Len(t) /\ \A i \in 1..Len(s) : s[i] = t[i]

(* A sequence begins every concatenation that begins with it.              *)
LEMMA PrefixOfConcat ==
    ASSUME NEW S, NEW s \in Seq(S), NEW t \in Seq(S)
    PROVE  Prefix(s, s \o t)
<1>1. /\ Len(s \o t) = Len(s) + Len(t)
      /\ \A i \in 1 .. Len(s) + Len(t) :
            (s \o t)[i] = IF i <= Len(s) THEN s[i] ELSE t[i - Len(s)]
      /\ Len(s) \in Nat /\ Len(t) \in Nat
  BY ConcatProperties, LenProperties
<1>2. QED
  BY <1>1 DEF Prefix

(* What begins a sequence still begins it when the sequence grows.         *)
LEMMA PrefixOfAppend ==
    ASSUME NEW S, NEW s \in Seq(S), NEW t \in Seq(S), NEW e \in S, Prefix(s, t)
    PROVE  Prefix(s, Append(t, e))
<1>1. /\ Len(Append(t, e)) = Len(t) + 1
      /\ \A i \in 1..Len(t) : Append(t, e)[i] = t[i]
      /\ Len(s) \in Nat /\ Len(t) \in Nat
  BY AppendProperties, LenProperties
<1>2. QED
  BY <1>1 DEF Prefix

(* PerWriterOrder is about the wire; what keeps it is that the packets of  *)
(* one goroutine are accepted in the order of its calls, each before the   *)
(* next call begins, and that the wire is the beginning of what was        *)
(* accepted: while WriteLoop runs the rest is in its hand and in the queue.*)
CallsInv ==
    /\ \A i, j \in 1..Len(accepted) :
          (i < j /\ accepted[i][1] = accepted[j][1]) => accepted[i][2] < accepted[j][2]
    /\ \A i \in 1..Len(accepted) : \A w \in Writers :
          accepted[i][1] = w =>
              /\ accepted[i][2] <= writer[w].calls
              /\ writer[w].pc # "idle" => accepted[i][2] < writer[w].calls

MirrorInv ==
    /\ \A i \in 1..Len(accepted) : accepted[i] \in mirrored
    /\ \A w \in Writers : writer[w].pc = "push" => CurrentPacket(w) \in mirrored

WireInv ==
    /\ Prefix(wire, accepted)
    /\ writeLoop # "ended" => wire \o (hand \o send) = accepted

WriteInv == CallsInv /\ MirrorInv /\ WireInv

(* A new connection has accepted and written nothing.                      *)
LEMMA WriteInit == Init => WriteInv
<1> SUFFICES ASSUME Init PROVE WriteInv
  OBVIOUS
<1>1. accepted = <<>> /\ wire = <<>> /\ hand = <<>> /\ send = <<>> /\ Len(<<>>) = 0
  BY EmptySeq DEF Init
<1>2. CallsInv
  BY <1>1 DEF CallsInv
<1>3. MirrorInv
  BY <1>1 DEF Init, MirrorInv
<1>4. WireInv
  <2>1. wire \o (hand \o send) = accepted
    BY <1>1, EmptySeq, ConcatEmptySeq
  <2>2. QED
    BY <1>1, <2>1 DEF WireInv, Prefix
<1>5. QED
  BY <1>2, <1>3, <1>4 DEF WriteInv

(* Only WritePacket's steps touch what it keeps.                           *)
LEMMA WriterFrame ==
    ASSUME [Next]_vars
    PROVE  (\E w \in Writers : WritePacket(w)) \/ UNCHANGED writerVars
<1>1. CASE ReadLoop
  BY <1>1 DEF ReadLoop, ReadLoopSelect, ReadLoopPacket, ReadLoopFail, ReadLoopClose
<1>2. CASE ReadPacket
  BY <1>2 DEF ReadPacket, ReadPacketTake, ReadPacketError
<1>3. CASE WriteLoop
  BY <1>3 DEF WriteLoop, WriteLoopSelect, WriteLoopPull, WriteLoopWrite, WriteLoopFail
<1>4. CASE Close
  BY <1>4 DEF Close, CloseFlag, CloseSend, CloseSocket
<1>5. CASE SocketDown \/ Cancel
  BY <1>5 DEF SocketDown, Cancel
<1>6. CASE UNCHANGED vars
  BY <1>6 DEF vars
<1>7. QED
  BY <1>1, <1>2, <1>3, <1>4, <1>5, <1>6 DEF Next

(* What a push does to accepted: the pusher's current packet goes last.    *)
LEMMA PushAccepts ==
    ASSUME TypeInv, NEW w \in Writers, WritePacketPush(w)
    PROVE  /\ CurrentPacket(w) \in Outbound
           /\ Len(accepted) \in Nat
           /\ \/ UNCHANGED <<send, accepted>>
              \/ /\ send' = Append(send, CurrentPacket(w))
                 /\ accepted' = Append(accepted, CurrentPacket(w))
                 /\ Len(accepted') = Len(accepted) + 1
                 /\ accepted'[Len(accepted) + 1] = CurrentPacket(w)
                 /\ \A i \in 1..Len(accepted) : accepted'[i] = accepted[i]
<1>1. CurrentPacket(w) \in Outbound /\ accepted \in Seq(Outbound)
  BY DEF WritePacketPush, CurrentPacket, Outbound, TypeInv, TypeOK, WriterInv, WriterTypeOK
<1>2. /\ Len(accepted) \in Nat
      /\ Len(Append(accepted, CurrentPacket(w))) = Len(accepted) + 1
      /\ Append(accepted, CurrentPacket(w))[Len(accepted) + 1] = CurrentPacket(w)
      /\ \A i \in 1..Len(accepted) : Append(accepted, CurrentPacket(w))[i] = accepted[i]
  BY <1>1, AppendProperties, LenProperties
<1>3. QED
  BY <1>1, <1>2 DEF WritePacketPush

(* The records a step of WritePacket leaves, field by field.               *)
LEMMA WriterMoves ==
    ASSUME TypeInv, NEW w \in Writers
    PROVE  /\ \A v \in Writers : writer[v].calls \in Nat
           /\ WritePacketCheck(w) =>
                 /\ writer'[w].calls = writer[w].calls + 1
                 /\ writer'[w].pc # "push"
           /\ WritePacketMirror(w) => writer'[w].calls = writer[w].calls
           /\ WritePacketPush(w) => writer'[w].calls = writer[w].calls /\ writer'[w].pc = "idle"
           /\ WritePacket(w) => \A v \in Writers \ {w} : writer'[v] = writer[v]
<1>1. /\ writer \in [Writers -> [pc : {"idle", "mirror", "push"}, calls : 0..MaxCalls]]
      /\ MaxCalls \in Nat
  BY ConnAssumption DEF TypeInv, TypeOK, WriterTypeOK
<1>2. \A v \in Writers : writer[v].calls \in Nat
  BY <1>1
<1>3. ASSUME WritePacketCheck(w)
      PROVE  /\ writer'[w].calls = writer[w].calls + 1
             /\ writer'[w].pc # "push"
             /\ \A v \in Writers \ {w} : writer'[v] = writer[v]
  BY <1>1, <1>3 DEF WritePacketCheck
<1>4. ASSUME WritePacketMirror(w)
      PROVE  /\ writer'[w].calls = writer[w].calls
             /\ \A v \in Writers \ {w} : writer'[v] = writer[v]
  BY <1>1, <1>4 DEF WritePacketMirror
<1>5. ASSUME WritePacketPush(w)
      PROVE  /\ writer'[w].calls = writer[w].calls /\ writer'[w].pc = "idle"
             /\ \A v \in Writers \ {w} : writer'[v] = writer[v]
  BY <1>1, <1>5 DEF WritePacketPush
<1>6. QED
  BY <1>2, <1>3, <1>4, <1>5 DEF WritePacket

(* Each goroutine's packets are accepted in the order of its calls.        *)
LEMMA CallsStep == TypeInv /\ CallsInv /\ [Next]_vars => CallsInv'
<1> SUFFICES ASSUME TypeInv, CallsInv, [Next]_vars PROVE CallsInv'
  OBVIOUS
<1>1. /\ \A i \in 1..Len(accepted) : accepted[i][1] \in Writers /\ accepted[i][2] \in Nat
      /\ Len(accepted) \in Nat
  <2>1. accepted \in Seq(Outbound)
    BY DEF TypeInv, TypeOK, WriterTypeOK
  <2>2. Len(accepted) \in Nat /\ \A i \in 1..Len(accepted) : accepted[i] \in Writers \X (1..MaxCalls)
    BY <2>1, LenProperties, ElementOfSeq DEF Outbound
  <2>3. QED
    BY <2>2, ConnAssumption
<1>2. CASE UNCHANGED writerVars
  BY <1>2 DEF CallsInv, writerVars
<1>3. ASSUME NEW w \in Writers, WritePacketCheck(w) PROVE CallsInv'
  <2>1. accepted' = accepted /\ writer[w].pc = "idle"
    BY <1>3 DEF WritePacketCheck
  <2>2. ASSUME NEW i \in 1..Len(accepted), NEW v \in Writers, accepted[i][1] = v
        PROVE  /\ accepted[i][2] <= writer'[v].calls
               /\ writer'[v].pc # "idle" => accepted[i][2] < writer'[v].calls
    <3>1. CASE v = w
      BY <1>1, <1>3, <2>2, <3>1, WriterMoves DEF CallsInv
    <3>2. CASE v # w
      BY <1>3, <2>2, <3>2, WriterMoves DEF CallsInv, WritePacket
    <3>3. QED
      BY <3>1, <3>2
  <2>3. QED
    BY <2>1, <2>2 DEF CallsInv
<1>4. ASSUME NEW w \in Writers, WritePacketMirror(w) PROVE CallsInv'
  <2>1. accepted' = accepted /\ writer[w].pc # "idle"
    BY <1>4 DEF WritePacketMirror
  <2>2. ASSUME NEW i \in 1..Len(accepted), NEW v \in Writers, accepted[i][1] = v
        PROVE  /\ accepted[i][2] <= writer'[v].calls
               /\ writer'[v].pc # "idle" => accepted[i][2] < writer'[v].calls
    <3>1. CASE v = w
      BY <1>1, <1>4, <2>1, <2>2, <3>1, WriterMoves DEF CallsInv
    <3>2. CASE v # w
      BY <1>4, <2>2, <3>2, WriterMoves DEF CallsInv, WritePacket
    <3>3. QED
      BY <3>1, <3>2
  <2>3. QED
    BY <2>1, <2>2 DEF CallsInv
<1>5. ASSUME NEW w \in Writers, WritePacketPush(w) PROVE CallsInv'
  <2>1. writer[w].pc # "idle" /\ CurrentPacket(w) = <<w, writer[w].calls>>
    BY <1>5 DEF WritePacketPush, CurrentPacket
  <2>2. ASSUME NEW i \in 1..Len(accepted), NEW v \in Writers, accepted[i][1] = v
        PROVE  /\ accepted[i][2] <= writer'[v].calls
               /\ writer'[v].pc # "idle" => accepted[i][2] < writer'[v].calls
               /\ v = w => accepted[i][2] < writer[w].calls
    <3>1. CASE v = w
      BY <1>1, <1>5, <2>1, <2>2, <3>1, WriterMoves DEF CallsInv
    <3>2. CASE v # w
      BY <1>5, <2>2, <3>2, WriterMoves DEF CallsInv, WritePacket
    <3>3. QED
      BY <3>1, <3>2
  <2>3. CASE UNCHANGED accepted
    BY <2>2, <2>3 DEF CallsInv
  <2>4. CASE /\ Len(accepted') = Len(accepted) + 1
             /\ accepted'[Len(accepted) + 1] = <<w, writer[w].calls>>
             /\ \A i \in 1..Len(accepted) : accepted'[i] = accepted[i]
    <3>1. ASSUME NEW i \in 1..Len(accepted'), NEW j \in 1..Len(accepted'), i < j,
                 accepted'[i][1] = accepted'[j][1]
          PROVE  accepted'[i][2] < accepted'[j][2]
      <4>1. i \in 1..Len(accepted) /\ accepted'[i] = accepted[i]
        BY <1>1, <2>4, <3>1
      <4>2. CASE j = Len(accepted) + 1
        BY <1>1, <2>2, <2>4, <3>1, <4>1, <4>2
      <4>3. CASE j \in 1..Len(accepted)
        BY <2>4, <3>1, <4>1, <4>3 DEF CallsInv
      <4>4. QED
        BY <1>1, <2>4, <4>2, <4>3
    <3>2. ASSUME NEW i \in 1..Len(accepted'), NEW v \in Writers, accepted'[i][1] = v
          PROVE  /\ accepted'[i][2] <= writer'[v].calls
                 /\ writer'[v].pc # "idle" => accepted'[i][2] < writer'[v].calls
      <4>1. CASE i = Len(accepted) + 1
        BY <1>5, <2>4, <3>2, <4>1, WriterMoves
      <4>2. CASE i \in 1..Len(accepted)
        BY <2>2, <2>4, <3>2, <4>2
      <4>3. QED
        BY <1>1, <2>4, <4>1, <4>2
    <3>3. QED
      BY <3>1, <3>2 DEF CallsInv
  <2>5. QED
    BY <1>5, <2>1, <2>3, <2>4, PushAccepts
<1>6. QED
  BY <1>2, <1>3, <1>4, <1>5, WriterFrame DEF WritePacket

(* The mirror is shown a packet before the queue takes it.                 *)
LEMMA MirrorStep == TypeInv /\ MirrorInv /\ [Next]_vars => MirrorInv'
<1> SUFFICES ASSUME TypeInv, MirrorInv, [Next]_vars PROVE MirrorInv'
  OBVIOUS
<1> USE DEF MirrorInv
<1>1. CASE UNCHANGED writerVars
  BY <1>1 DEF writerVars, CurrentPacket
<1>2. ASSUME NEW w \in Writers, WritePacketCheck(w) PROVE MirrorInv'
  <2>1. UNCHANGED <<accepted, mirrored>>
    BY <1>2 DEF WritePacketCheck
  <2>2. ASSUME NEW v \in Writers, writer'[v].pc = "push" PROVE CurrentPacket(v)' \in mirrored
    BY <1>2, <2>2, WriterMoves DEF WritePacket, CurrentPacket
  <2>3. QED
    BY <2>1, <2>2
<1>3. ASSUME NEW w \in Writers, WritePacketMirror(w) PROVE MirrorInv'
  <2>1. UNCHANGED accepted /\ mirrored' = mirrored \union {CurrentPacket(w)}
    BY <1>3 DEF WritePacketMirror
  <2>2. ASSUME NEW v \in Writers, writer'[v].pc = "push" PROVE CurrentPacket(v)' \in mirrored'
    <3>1. CASE v = w
      BY <1>3, <2>1, <3>1, WriterMoves DEF CurrentPacket
    <3>2. CASE v # w
      BY <1>3, <2>1, <2>2, <3>2, WriterMoves DEF WritePacket, CurrentPacket
    <3>3. QED
      BY <3>1, <3>2
  <2>3. QED
    BY <2>1, <2>2
<1>4. ASSUME NEW w \in Writers, WritePacketPush(w) PROVE MirrorInv'
  <2>1. UNCHANGED mirrored /\ CurrentPacket(w) \in mirrored
    BY <1>4 DEF WritePacketPush
  <2>2. ASSUME NEW v \in Writers, writer'[v].pc = "push" PROVE CurrentPacket(v)' \in mirrored
    BY <1>4, <2>2, WriterMoves DEF WritePacket, CurrentPacket
  <2>3. \A i \in 1..Len(accepted') : accepted'[i] \in mirrored
    <3>1. CASE UNCHANGED accepted
      BY <3>1
    <3>2. CASE /\ Len(accepted') = Len(accepted) + 1
               /\ accepted'[Len(accepted) + 1] = CurrentPacket(w)
               /\ \A i \in 1..Len(accepted) : accepted'[i] = accepted[i]
      <4>1. \A i \in 1..Len(accepted') : i \in 1..Len(accepted) \/ i = Len(accepted) + 1
        BY <1>4, <3>2, PushAccepts
      <4>2. QED
        BY <2>1, <3>2, <4>1
    <3>3. QED
      BY <1>4, <3>1, <3>2, PushAccepts
  <2>4. QED
    BY <2>1, <2>2, <2>3
<1>5. QED
  BY <1>1, <1>2, <1>3, <1>4, WriterFrame DEF WritePacket

(* The wire stays the beginning of what was accepted.                      *)
LEMMA WireStep == TypeInv /\ WireInv /\ [Next]_vars => WireInv'
<1> SUFFICES ASSUME TypeInv, WireInv, [Next]_vars PROVE WireInv'
  OBVIOUS
<1>1. /\ wire \in Seq(Outbound) /\ hand \in Seq(Outbound) /\ send \in Seq(Outbound)
      /\ accepted \in Seq(Outbound) /\ hand \o send \in Seq(Outbound)
      /\ (writeLoop # "write" => hand = <<>>)
  BY ConcatProperties DEF TypeInv, TypeOK, SendTypeOK, WriterTypeOK, HandInv
<1>2. CASE UNCHANGED <<hand, send, wire, writeLoop, accepted>>
  BY <1>2 DEF WireInv, Prefix
<1>3. CASE WriteLoopSelect
  BY <1>3 DEF WriteLoopSelect, writerVars, WireInv, Prefix
<1>4. CASE WriteLoopPull
  <2>1. UNCHANGED <<wire, accepted>>
    BY <1>4 DEF WriteLoopPull, writerVars
  <2>2. CASE writeLoop' = "ended"
    BY <2>1, <2>2 DEF WireInv, Prefix
  <2>3. CASE send # <<>> /\ hand' = <<Head(send)>> /\ send' = Tail(send)
    <3>1. <<Head(send)>> = Append(<<>>, Head(send)) /\ <<>> \in Seq(Outbound)
      BY EmptySeq
    <3>2. hand' \o send' = hand \o send
      BY <1>1, <1>4, <2>3, <3>1, MoveHead DEF WriteLoopPull
    <3>3. QED
      BY <1>4, <2>1, <3>2 DEF WriteLoopPull, WireInv, Prefix
  <2>4. QED
    BY <1>4, <2>2, <2>3 DEF WriteLoopPull
<1>5. CASE WriteLoopWrite
  <2>1. writeLoop = "write" /\ wire' = Append(wire, Head(hand)) /\ hand' = <<>>
        /\ UNCHANGED <<send, accepted>>
    BY <1>5 DEF WriteLoopWrite, writerVars
  <2>2. hand \o send # <<>> /\ Head(hand \o send) = Head(hand) /\ Tail(hand \o send) = <<>> \o send
    BY <2>1, HandSplit
  <2>3. wire' \o (hand' \o send') = wire \o (hand \o send)
    <3> DEFINE rest == hand \o send
    <3>1. rest \in Seq(Outbound) /\ rest # <<>>
      BY <1>1, <2>2
    <3>2. Append(wire, Head(rest)) \o Tail(rest) = wire \o rest
      BY <1>1, <3>1, MoveHead
    <3>3. wire' = Append(wire, Head(rest)) /\ hand' \o send' = Tail(rest)
      BY <2>1, <2>2
    <3>4. QED
      BY <3>2, <3>3
  <2>4. wire' \o (hand' \o send') = accepted'
    BY <2>1, <2>3 DEF WireInv
  <2>5. wire' \in Seq(Outbound) /\ hand' \o send' \in Seq(Outbound)
    <3>1. Head(hand) \in Outbound
      BY <1>1, <2>1, HeadTailProperties DEF TypeInv, HandInv
    <3>2. <<>> \in Seq(Outbound)
      BY EmptySeq
    <3>3. QED
      BY <1>1, <2>1, <3>1, <3>2, AppendProperties, ConcatProperties
  <2>6. Prefix(wire', wire' \o (hand' \o send'))
    BY <2>5, PrefixOfConcat
  <2>7. QED
    BY <2>4, <2>6 DEF WireInv, Prefix
<1>6. CASE WriteLoopFail
  BY <1>6 DEF WriteLoopFail, writerVars, WireInv, Prefix
<1>7. ASSUME NEW w \in Writers, WritePacketPush(w) PROVE WireInv'
  <2>1. UNCHANGED <<hand, wire, writeLoop>>
    BY <1>7 DEF WritePacketPush
  <2>2. CASE UNCHANGED <<send, accepted>>
    BY <1>2, <2>1, <2>2
  <2>3. CASE /\ CurrentPacket(w) \in Outbound
             /\ send' = Append(send, CurrentPacket(w))
             /\ accepted' = Append(accepted, CurrentPacket(w))
    <3>1. Prefix(wire, Append(accepted, CurrentPacket(w)))
      BY <1>1, <2>3, PrefixOfAppend DEF WireInv
    <3>2. hand \o Append(send, CurrentPacket(w)) = Append(hand \o send, CurrentPacket(w))
      BY <1>1, <2>3, AppendRight
    <3>3. wire \o Append(hand \o send, CurrentPacket(w))
             = Append(wire \o (hand \o send), CurrentPacket(w))
      <4>1. wire \in Seq(Outbound) /\ hand \o send \in Seq(Outbound)
        BY <1>1, ConcatProperties
      <4>2. QED
        BY <2>3, <4>1, AppendRight
    <3>4. writeLoop # "ended" =>
             wire \o (hand \o Append(send, CurrentPacket(w))) = Append(accepted, CurrentPacket(w))
      BY <3>2, <3>3 DEF WireInv
    <3>5. QED
      BY <2>1, <2>3, <3>1, <3>4 DEF WireInv, Prefix
  <2>4. QED
    BY <1>7, <2>2, <2>3, PushAccepts
<1>8. UNCHANGED accepted \/ \E w \in Writers : WritePacketPush(w)
  BY WriterFrame DEF WritePacket, WritePacketCheck, WritePacketMirror, writerVars
<1>9. QED
  BY <1>2, <1>3, <1>4, <1>5, <1>6, <1>7, <1>8, SendFrame

(* What keeps the order of the writers holds in every behaviour.           *)
LEMMA WriteInvariant == Spec => [](TypeInv /\ WriteInv)
<1>1. TypeInv /\ WriteInv /\ [Next]_vars => WriteInv'
  BY CallsStep, MirrorStep, WireStep DEF WriteInv
<1>2. QED
  BY TypeInit, TypeStep, WriteInit, <1>1, PTL DEF Spec

(* Whatever the writers, the mirror and the loop's end do: the packets of  *)
(* one goroutine reach the socket in the order of its calls, each once,    *)
(* and the mirror was shown each before it was queued.                     *)
THEOREM WriterOrderCorrect == Spec => []PerWriterOrder
<1>1. TypeInv /\ WriteInv => PerWriterOrder
  <2> SUFFICES ASSUME TypeInv, WriteInv PROVE PerWriterOrder
    OBVIOUS
  <2>1. /\ DOMAIN wire = 1..Len(wire) /\ Len(wire) \in Nat
        /\ DOMAIN accepted = 1..Len(accepted) /\ Len(accepted) \in Nat
    BY LenProperties DEF TypeInv, TypeOK, SendTypeOK, WriterTypeOK
  <2>2. Len(wire) <= Len(accepted) /\ \A i \in 1..Len(wire) : wire[i] = accepted[i]
    BY DEF WriteInv, WireInv, Prefix
  <2>3. \A i \in 1..Len(wire) : i \in 1..Len(accepted)
    BY <2>1, <2>2
  <2>4. QED
    BY <2>1, <2>2, <2>3 DEF PerWriterOrder, WriteInv, CallsInv, MirrorInv
<1>2. QED
  BY WriteInvariant, <1>1, PTL

-----------------------------------------------------------------------------
(* The play loop runs Conn *)

(* What HandleGame and ReadLoop do to Conn are steps of Conn.              *)
LEMMA ConnSteps == [GameNext]_allVars => [Next]_vars
<1> SUFFICES ASSUME [GameNext]_allVars PROVE [Next]_vars
  OBVIOUS
<1>1. CASE ReadLoopGet \/ ReadLoopFill \/ ReadLoopEnd
  BY <1>1 DEF ReadLoopGet, ReadLoopFill, ReadLoopEnd, Next, ReadLoop
<1>2. CASE HandleGame
  BY <1>2 DEF HandleGame, HandleGameSelect, HandleGameRead, HandleGameHandle, HandleGameOpen,
     HandleGameClose, HandleGameBundled, HandleGameBundleDone, HandleGameFail, Next, ReadPacket
<1>3. CASE Environment \/ CancelGame
  BY <1>3 DEF Environment, CancelGame, Next
<1>4. CASE UNCHANGED allVars
  BY <1>4 DEF allVars
<1>5. QED
  BY <1>1, <1>2, <1>3, <1>4 DEF GameNext

(* So every behaviour of the play loop is one of Conn, and what is proved  *)
(* of Conn holds of it.                                                    *)
THEOREM GameRunsConn == GameSpec => Spec
<1>1. GameInit => Init
  BY DEF GameInit
<1>2. QED
  BY <1>1, ConnSteps, PTL DEF GameSpec, Spec

(* ReadPacket returns HandleGame every packet read, once and in order.     *)
THEOREM GameOrderCorrect == GameSpec => []ReadInOrder
  BY GameRunsConn, OrderCorrect, PTL

(* The error that ends HandleGame is the one that ended the connection.    *)
THEOREM GameErrorCorrect == GameSpec => []ErrorTellsTheCause
  BY GameRunsConn, ErrorCorrect, PTL

(* Between ReadLoop and HandleGame is the channel of PacketChannel.        *)
THEOREM GameRecvRefines == GameSpec => RecvIsChannel
  BY GameRunsConn, RecvRefines, PTL

-----------------------------------------------------------------------------
(* Types, and what the program counter says of the packets held *)

(* What HandleGame can hold, a phantom included.                           *)
Packets == [id : {"delim"} \union PlainIds, buf : Buffers \union {NoBuffer}]
AtMostOne(S) == { <<>> } \union { <<x>> : x \in S }

GameTypeOK ==
    /\ zeroId \in {"delim"} \union PlainIds
    /\ game \in {"select", "read", "handle", "open", "bundle", "close", "bundled", "returned"}
    /\ current \in AtMostOne(Packets) /\ opening \in AtMostOne(Packets)
    /\ bundle \in Seq(Recordable)
    /\ taken \in AtMostOne(Buffers)
    /\ pool \in [Buffers -> Nat]
    /\ recorded \in Seq(Recordable) /\ handled \in Seq(Packets)

(* What HandleGame and ReadLoop hold at each point of their code.          *)
ControlInv ==
    /\ readLoop = "select" => taken = <<>>
    /\ game \in {"handle", "open", "close"} => current # <<>>
    /\ game \in {"select", "read", "bundle", "bundled"} => current = <<>>
    /\ game = "handle" => ~IsDelimiter(Head(current))
    /\ game \in {"open", "close"} => IsDelimiter(Head(current))
    /\ game \in {"bundle", "close", "bundled"} => opening # <<>>
    /\ game \in {"select", "read", "handle", "open"} => opening = <<>> /\ bundle = <<>>

(* A bundle stops growing at the limit.                                    *)
LimitInv ==
    /\ Len(bundle) <= BundleLimit
    /\ Len(bundle) = BundleLimit => game = "returned"

GameTypeInv == TypeInv /\ RecvInv /\ GameTypeOK /\ ControlInv /\ LimitInv

(* What the other goroutines do: HandleGame keeps what it has.             *)
Elsewhere ==
    /\ UNCHANGED <<zeroId, game, current, opening, bundle, recorded, handled, delivered>>
    /\ ctxDone => ctxDone'

(* HandleGame gets p from the connection: the head of recv, or a phantom   *)
(* once the connection is closed without an error.                         *)
Got(p) ==
    /\ game \in {"read", "bundle"} /\ current = <<>>
    /\ IF game = "read" THEN MainGot(p) ELSE BundleGot(p)
    /\ \/ /\ recv # <<>> /\ p = Head(recv) /\ p \in Inbound
          /\ recv' = Tail(recv) /\ delivered' = Append(delivered, p)
       \/ /\ p = Phantom /\ ctxDone
          /\ UNCHANGED <<recv, delivered>>
    /\ UNCHANGED <<zeroId, opening, taken, pool, handled, ctxDone, readLoop>>

(* The sets of packets, and what tells them apart.                         *)
LEMMA PacketTypes ==
    /\ Inbound \subseteq Packets /\ \A p \in Inbound : p.buf \in Buffers /\ Real(p)
    /\ PlainPackets \subseteq Inbound /\ Delimiters \subseteq Inbound
    /\ Recordable \subseteq Packets
    /\ \A p \in Packets : p \in Recordable <=> ~IsDelimiter(p)
    /\ \A p \in Packets : p \in PlainPackets <=> ~IsDelimiter(p) /\ Real(p)
    /\ \A p \in Packets : p \in Delimiters <=> IsDelimiter(p) /\ Real(p)
    /\ zeroId \in {"delim"} \union PlainIds => Phantom \in Packets /\ ~Real(Phantom)
  BY GameAssumption DEF Packets, PlainPackets, Delimiters, Recordable, Phantom, Real, IsDelimiter

(* ReadPacket returns a packet, a phantom after a cancellation, or an      *)
(* error that ends HandleGame.                                             *)
LEMMA ReadGets ==
    ASSUME GameTypeInv, HandleGameRead
    PROVE  \/ \E p \in Packets : Got(p)
           \/ /\ game' = "returned"
              /\ UNCHANGED <<zeroId, current, opening, bundle, taken, pool, recorded, handled,
                             recv, delivered, ctxDone, readLoop>>
<1>1. CASE ReadPacketTake
  <2>1. Head(recv) \in Inbound
    BY <1>1, HeadTailProperties DEF GameTypeInv, TypeInv, TypeOK, RecvTypeOK, ReadPacketTake
  <2>2. Got(Head(recv))
    BY <1>1, <2>1 DEF HandleGameRead, Got, GameTypeInv, ControlInv, ReadPacketTake, ReadPacketError, recvVars
  <2>3. QED
    BY <2>1, <2>2, PacketTypes
<1>2. CASE ReadPacketError /\ rerr = "nil"
  <2>1. ctxDone
    BY <1>2 DEF GameTypeInv, RecvInv, LoopInv, ReadPacketError
  <2>2. Got(Phantom)
    BY <1>2, <2>1 DEF HandleGameRead, Got, GameTypeInv, ControlInv, ReadPacketTake, ReadPacketError, recvVars
  <2>3. QED
    BY <2>2, PacketTypes DEF GameTypeInv, GameTypeOK
<1>3. CASE ReadPacketError /\ rerr # "nil"
  BY <1>3 DEF HandleGameRead, ReadPacketTake, ReadPacketError, recvVars
<1>4. QED
  BY <1>1, <1>2, <1>3 DEF HandleGameRead

(* The steps of HandleGame, and all others as one.                         *)
LEMMA Moves ==
    ASSUME GameTypeInv, [GameNext]_allVars
    PROVE  \/ Elsewhere
           \/ HandleGameSelect
           \/ \E p \in Packets : Got(p)
           \/ /\ game' = "returned" /\ game # "returned"
              /\ UNCHANGED <<zeroId, current, opening, bundle, taken, pool, recorded, handled,
                             recv, delivered, ctxDone, readLoop>>
           \/ HandleGameHandle \/ HandleGameOpen \/ HandleGameClose
           \/ HandleGameBundled \/ HandleGameBundleDone
<1>1. CASE ReadLoopGet
  BY <1>1 DEF ReadLoopGet, ReadLoopSelect, Elsewhere, readerVars
<1>2. CASE ReadLoopFill
  BY <1>2 DEF ReadLoopFill, ReadLoopPacket, Elsewhere, readerVars
<1>3. CASE ReadLoopEnd \/ Environment \/ CancelGame \/ UNCHANGED allVars
  BY <1>3 DEF ReadLoopEnd, ReadLoopFail, ReadLoopClose, Environment, CancelGame, SocketDown, Cancel, allVars, vars,
     gameVars, Elsewhere, readerVars
<1>4. CASE HandleGameRead
  BY <1>4, ReadGets DEF HandleGameRead
<1>5. CASE HandleGameFail
  BY <1>5 DEF HandleGameFail, vars, recvVars, readerVars
<1>6. QED
  BY <1>1, <1>2, <1>3, <1>4, <1>5 DEF GameNext, HandleGame

(* The types hold at first.                                                *)
LEMMA GameTypeInit == GameInit => GameTypeInv
<1> SUFFICES ASSUME GameInit PROVE GameTypeInv
  OBVIOUS
<1>1. TypeInv /\ RecvInv
  BY TypeInit, RecvInit DEF GameInit
<1>2. GameTypeOK
  BY EmptySeq DEF GameInit, GameTypeOK, AtMostOne
<1>3. ControlInv /\ LimitInv
  BY GameAssumption, EmptySeq DEF GameInit, ControlInv, LimitInv
<1>4. QED
  BY <1>1, <1>2, <1>3 DEF GameTypeInv

(* Put keeps the pool a bag of buffers.                                    *)
LEMMA PutType ==
    ASSUME pool \in [Buffers -> Nat], NEW p \in Packets, Put(p)
    PROVE  pool' \in [Buffers -> Nat]
  BY DEF Put, Packets

(* What is held, when something is held, is one packet.                    *)
LEMMA MaybePackets ==
    ASSUME GameTypeOK
    PROVE  /\ current # <<>> => Head(current) \in Packets /\ current = <<Head(current)>>
           /\ opening # <<>> => Head(opening) \in Packets /\ opening = <<Head(opening)>>
           /\ bundle # <<>> => /\ Head(bundle) \in Recordable /\ Head(bundle) \in Packets
                              /\ Tail(bundle) \in Seq(Recordable) /\ Len(Tail(bundle)) = Len(bundle) - 1
           /\ Len(bundle) \in Nat
<1>1. current # <<>> => Head(current) \in Packets /\ current = <<Head(current)>>
  BY DEF GameTypeOK, AtMostOne
<1>2. opening # <<>> => Head(opening) \in Packets /\ opening = <<Head(opening)>>
  BY DEF GameTypeOK, AtMostOne
<1>3. QED
  BY <1>1, <1>2, HeadTailProperties, LenProperties, PacketTypes DEF GameTypeOK

(* The steps of ReadLoop keep the types.                                   *)
LEMMA LoopTypes ==
    ASSUME GameTypeInv, [GameNext]_allVars, Elsewhere
    PROVE  /\ taken' \in AtMostOne(Buffers) /\ pool' \in [Buffers -> Nat]
           /\ readLoop' = "select" => taken' = <<>>
<1> USE DEF GameTypeInv, GameTypeOK, ControlInv
<1>1. CASE ReadLoopGet
  <2>1. CASE taken' = <<NewBuffer>> /\ (\E b \in Buffers : New(b)) /\ UNCHANGED pool
    BY <1>1, <2>1 DEF ReadLoopGet, ReadLoopSelect, AtMostOne, NewBuffer, New
  <2>2. ASSUME NEW b \in Buffers, pool[b] > 0, taken' = <<b>>, pool' = [pool EXCEPT ![b] = @ - 1]
        PROVE  taken' \in AtMostOne(Buffers) /\ pool' \in [Buffers -> Nat]
    BY <2>2 DEF AtMostOne
  <2>3. CASE ctxDone
    BY <1>1, <2>3 DEF ReadLoopGet, ReadLoopSelect
  <2>4. QED
    BY <1>1, <2>1, <2>2, <2>3 DEF ReadLoopGet, ReadLoopSelect
<1>2. CASE ReadLoopFill
  BY <1>2 DEF ReadLoopFill, AtMostOne
<1>3. CASE ReadLoopEnd \/ Environment \/ CancelGame \/ UNCHANGED allVars
  BY <1>3 DEF ReadLoopEnd, ReadLoopFail, ReadLoopClose, Environment, CancelGame, SocketDown, Cancel, allVars, vars,
     gameVars, recvVars
<1>4. CASE HandleGame
  BY <1>4, PutType, MaybePackets, PacketTypes DEF HandleGame, HandleGameSelect, HandleGameRead, HandleGameHandle, HandleGameOpen,
     HandleGameClose, HandleGameBundled, HandleGameBundleDone, HandleGameFail, ReadPacketTake,
     ReadPacketError, vars, recvVars
<1>5. QED
  BY <1>1, <1>2, <1>3, <1>4 DEF GameNext

(* Every step keeps the types.                                             *)
LEMMA GameTypeStep == GameTypeInv /\ [GameNext]_allVars => GameTypeInv'
<1> SUFFICES ASSUME GameTypeInv, [GameNext]_allVars PROVE GameTypeInv'
  OBVIOUS
<1>1. TypeInv' /\ RecvInv'
  BY ConnSteps, TypeStep, RecvStep DEF GameTypeInv
<1> SUFFICES GameTypeOK' /\ ControlInv' /\ LimitInv'
  BY <1>1 DEF GameTypeInv
<1> USE DEF GameTypeInv
<1>2. CASE Elsewhere
  BY <1>2, LoopTypes DEF Elsewhere, GameTypeOK, ControlInv, LimitInv
<1>3. CASE HandleGameSelect
  BY <1>3 DEF HandleGameSelect, GameTypeOK, ControlInv, LimitInv, vars, recvVars
<1>4. ASSUME NEW p \in Packets, Got(p) PROVE GameTypeOK' /\ ControlInv' /\ LimitInv'
  <2>1. <<p>> \in AtMostOne(Packets) /\ <<p>> # <<>> /\ Head(<<p>>) = p
    BY DEF AtMostOne
  <2>2. ~IsDelimiter(p) => /\ Append(bundle, p) \in Seq(Recordable) /\ Append(recorded, p) \in Seq(Recordable)
                           /\ Len(Append(bundle, p)) = Len(bundle) + 1
    BY PacketTypes, AppendProperties DEF GameTypeOK
  <2>3. /\ UNCHANGED <<zeroId, opening, taken, pool, handled, readLoop>>
        /\ game \in {"read", "bundle"} /\ current = <<>>
        /\ IF game = "read" THEN MainGot(p) ELSE BundleGot(p)
    BY <1>4 DEF Got
  <2>4. CASE game = "read"
    <3>1. /\ current' = <<p>> /\ bundle' = bundle
          /\ IF IsDelimiter(p) THEN game' = "open" /\ recorded' = recorded
             ELSE game' = "handle" /\ recorded' = Append(recorded, p)
      BY <2>3, <2>4 DEF MainGot
    <3>2. GameTypeOK'
      BY <2>1, <2>2, <2>3, <3>1 DEF GameTypeOK
    <3>3. ControlInv' /\ LimitInv'
      BY <2>1, <2>3, <2>4, <3>1 DEF ControlInv, LimitInv, IsDelimiter
    <3>4. QED
      BY <3>2, <3>3
  <2>5. CASE game = "bundle"
    <3>1. IF IsDelimiter(p) THEN current' = <<p>> /\ game' = "close" /\ UNCHANGED <<bundle, recorded>>
          ELSE /\ bundle' = Append(bundle, p) /\ recorded' = Append(recorded, p) /\ current' = current
               /\ game' = IF Len(bundle) + 1 = BundleLimit THEN "returned" ELSE "bundle"
      BY <2>3, <2>5 DEF BundleGot
    <3>2. GameTypeOK'
      BY <2>1, <2>2, <2>3, <3>1 DEF GameTypeOK
    <3>3. /\ Len(bundle) \in Nat /\ BundleLimit \in Nat /\ Len(bundle) < BundleLimit /\ opening # <<>>
          /\ (readLoop = "select" => taken = <<>>)
      BY <2>5, MaybePackets, GameAssumption DEF ControlInv, LimitInv
    <3>4. CASE IsDelimiter(p)
      <4>1. /\ current' = <<p>> /\ game' = "close" /\ bundle' = bundle /\ opening' = opening
            /\ readLoop' = readLoop /\ taken' = taken /\ Head(current') = p /\ current' # <<>>
        BY <2>1, <2>3, <3>1, <3>4
      <4>2. ControlInv'
        BY <3>3, <3>4, <4>1 DEF ControlInv, IsDelimiter
      <4>3. LimitInv'
        BY <3>3, <4>1 DEF LimitInv
      <4>4. QED
        BY <3>2, <4>2, <4>3
    <3>5. CASE ~IsDelimiter(p)
      <4>1. /\ current' = <<>> /\ opening' = opening /\ readLoop' = readLoop /\ taken' = taken
            /\ game' \in {"bundle", "returned"}
            /\ Len(bundle') <= BundleLimit /\ (Len(bundle') = BundleLimit => game' = "returned")
        BY <2>2, <2>3, <3>1, <3>3, <3>5
      <4>2. ControlInv'
        BY <3>3, <4>1 DEF ControlInv
      <4>3. LimitInv'
        BY <4>1 DEF LimitInv
      <4>4. QED
        BY <3>2, <4>2, <4>3
    <3>6. QED
      BY <3>4, <3>5
  <2>6. QED
    BY <2>3, <2>4, <2>5
<1>5. CASE /\ game' = "returned" /\ game # "returned"
           /\ UNCHANGED <<zeroId, current, opening, bundle, taken, pool, recorded, handled,
                          recv, delivered, ctxDone, readLoop>>
  BY <1>5 DEF GameTypeOK, ControlInv, LimitInv
<1>6. \A p \in Packets : Append(handled, p) \in Seq(Packets)
  BY AppendProperties DEF GameTypeOK
<1>7. CASE HandleGameHandle
  BY <1>6, <1>7, MaybePackets, PutType DEF HandleGameHandle, GameTypeOK, ControlInv, LimitInv, AtMostOne, vars, recvVars
<1>8. CASE HandleGameOpen
  BY <1>6, <1>8, MaybePackets DEF HandleGameOpen, GameTypeOK, ControlInv, LimitInv, AtMostOne, vars, recvVars
<1>9. CASE HandleGameClose
  BY <1>6, <1>9, MaybePackets, PutType DEF HandleGameClose, GameTypeOK, ControlInv, LimitInv, AtMostOne, vars, recvVars
<1>10. CASE HandleGameBundled
  <2>1. /\ handled' = Append(handled, Head(bundle)) /\ bundle' = Tail(bundle) /\ bundle # <<>>
        /\ zeroId' = zeroId /\ game' = game /\ current' = current /\ opening' = opening /\ taken' = taken
        /\ recorded' = recorded /\ readLoop' = readLoop /\ game = "bundled"
    BY <1>10 DEF HandleGameBundled, vars, recvVars
  <2>2. pool' \in [Buffers -> Nat]
    BY <1>10, MaybePackets, PutType DEF HandleGameBundled, GameTypeOK
  <2>3. GameTypeOK'
    BY <1>6, <2>1, <2>2, MaybePackets DEF GameTypeOK
  <2>4. Len(bundle) \in Nat /\ Len(Tail(bundle)) = Len(bundle) - 1
    BY <2>1, MaybePackets
  <2>5. Len(bundle) <= BundleLimit /\ Len(bundle) # BundleLimit /\ current = <<>> /\ opening # <<>>
        /\ (readLoop = "select" => taken = <<>>)
    BY <2>1 DEF ControlInv, LimitInv
  <2>6. Len(bundle') <= BundleLimit /\ Len(bundle') # BundleLimit
    <3>1. BundleLimit \in Nat
      BY GameAssumption
    <3>2. Len(bundle') = Len(bundle) - 1
      BY <2>1, <2>4
    <3>3. QED
      BY <2>4, <2>5, <3>1, <3>2
  <2>7. ControlInv' /\ LimitInv'
    BY <2>1, <2>5, <2>6 DEF ControlInv, LimitInv
  <2>8. QED
    BY <2>3, <2>7
<1>11. CASE HandleGameBundleDone
  BY <1>11, MaybePackets, PutType DEF HandleGameBundleDone, GameTypeOK, ControlInv, LimitInv, AtMostOne, vars, recvVars
<1>12. QED
  BY <1>2, <1>3, <1>4, <1>5, <1>7, <1>8, <1>9, <1>10, <1>11, Moves

(* So the types hold always.                                               *)
LEMMA GameTypes == GameSpec => []GameTypeInv
  BY GameTypeInit, GameTypeStep, PTL DEF GameSpec

-----------------------------------------------------------------------------
(* The owners of the buffers *)

(* No two packets of s have the same buffer.                               *)
Distinct(s) == \A i, j \in DOMAIN s : Real(s[i]) /\ s[i].buf = s[j].buf => i = j

Taken == { taken[i] : i \in DOMAIN taken }

(* Who holds b holds it alone.                                             *)
OneOwner(b) ==
    /\ b \in BuffersOf(recv) =>
          b \notin BuffersOf(current) \union BuffersOf(opening) \union BuffersOf(bundle) \union Taken
    /\ b \in BuffersOf(current) => b \notin BuffersOf(opening) \union BuffersOf(bundle) \union Taken
    /\ b \in BuffersOf(opening) => b \notin BuffersOf(bundle) \union Taken
    /\ b \in BuffersOf(bundle) => b \notin Taken
    /\ pool[b] <= 1
    /\ b \in InUse => pool[b] = 0

OwnInv == Distinct(recv) /\ Distinct(bundle) /\ \A b \in Buffers : OneOwner(b)

(* The buffers of no packet, and of one.                                   *)
LEMMA BuffersOfFew ==
    /\ BuffersOf(<<>>) = {}
    /\ \A p : BuffersOf(<<p>>) = {p.buf}
  BY DEF BuffersOf

(* No packet, or one, has its buffers distinct.                            *)
LEMMA DistinctFew == Distinct(<<>>) /\ \A p : Distinct(<<p>>)
  BY DEF Distinct

(* A packet with a buffer of its own joins the others.                     *)
LEMMA BuffersOfAppend ==
    ASSUME NEW S, NEW s \in Seq(S), NEW p \in S
    PROVE  /\ BuffersOf(Append(s, p)) = BuffersOf(s) \union {p.buf}
           /\ Distinct(s) /\ (Real(p) => p.buf \notin BuffersOf(s)) => Distinct(Append(s, p))
<1> DEFINE t == Append(s, p)
<1>1. /\ DOMAIN s = 1 .. Len(s) /\ DOMAIN t = 1 .. Len(s) + 1 /\ Len(s) \in Nat
      /\ \A i \in 1 .. Len(s) : t[i] = s[i]
      /\ t[Len(s) + 1] = p
  BY AppendProperties, LenProperties
<1> HIDE DEF t
<1>2. DOMAIN t = DOMAIN s \union {Len(s) + 1} /\ Len(s) + 1 \notin DOMAIN s
  BY <1>1
<1>3. BuffersOf(t) = BuffersOf(s) \union {p.buf}
  BY <1>1, <1>2 DEF BuffersOf
<1>4. ASSUME Distinct(s), Real(p) => p.buf \notin BuffersOf(s) PROVE Distinct(t)
  BY <1>1, <1>2, <1>4 DEF Distinct, BuffersOf, Real
<1>5. QED
  BY <1>3, <1>4 DEF t

(* The first packet leaves with its buffer.                                *)
LEMMA BuffersOfTail ==
    ASSUME NEW S, NEW s \in Seq(S), s # <<>>
    PROVE  /\ BuffersOf(s) = BuffersOf(Tail(s)) \union {Head(s).buf}
           /\ Distinct(s) => /\ Distinct(Tail(s))
                             /\ Real(Head(s)) => Head(s).buf \notin BuffersOf(Tail(s))
<1> DEFINE t == Tail(s)
<1>1. /\ t \in Seq(S) /\ Len(t) = Len(s) - 1 /\ Len(s) \in Nat \ {0}
      /\ \A i \in 1 .. Len(t) : t[i] = s[i + 1]
      /\ DOMAIN s = 1 .. Len(s) /\ DOMAIN t = 1 .. Len(t) /\ Head(s) = s[1]
  BY HeadTailProperties, LenProperties, EmptySeq
<1> HIDE DEF t
<1>2. /\ \A i \in DOMAIN t : i + 1 \in DOMAIN s /\ i + 1 # 1 /\ i \in Nat /\ t[i] = s[i + 1]
      /\ 1 \in DOMAIN s
  BY <1>1
<1>3. \A j \in DOMAIN s : j = 1 \/ (j - 1 \in DOMAIN t /\ t[j - 1] = s[j])
  BY <1>1
<1>4. BuffersOf(s) = BuffersOf(t) \union {Head(s).buf}
  BY <1>1, <1>2, <1>3 DEF BuffersOf
<1>5. ASSUME Distinct(s) PROVE Distinct(t)
  <2> SUFFICES ASSUME NEW i \in DOMAIN t, NEW j \in DOMAIN t, Real(t[i]), t[i].buf = t[j].buf
               PROVE  i = j
    BY DEF Distinct
  <2>1. i + 1 = j + 1
    BY <1>2, <1>5 DEF Distinct, Real
  <2>2. QED
    BY <1>2, <2>1
<1>6. ASSUME Distinct(s), Real(Head(s)) PROVE Head(s).buf \notin BuffersOf(t)
  <2> SUFFICES ASSUME NEW i \in DOMAIN t, t[i].buf = Head(s).buf PROVE FALSE
    BY DEF BuffersOf
  <2>1. i + 1 = 1
    BY <1>1, <1>2, <1>6 DEF Distinct
  <2>2. QED
    BY <1>2, <2>1
<1>7. QED
  BY <1>4, <1>5, <1>6 DEF t

(* A buffer in use is in one of the five places.                           *)
LEMMA InUsePlaces ==
    /\ InUse = BuffersOf(recv) \union BuffersOf(current) \union BuffersOf(opening)
                  \union BuffersOf(bundle) \union Taken
    /\ taken = <<>> => Taken = {}
    /\ \A b : taken = <<b>> => Taken = {b}
  BY DEF InUse, Taken

(* Put adds the packet's buffer to the pool, once.                         *)
LEMMA PutCounts ==
    ASSUME pool \in [Buffers -> Nat], NEW p \in Packets, Put(p)
    PROVE  \A b \in Buffers : pool'[b] = IF b = p.buf THEN pool[b] + 1 ELSE pool[b]
  BY GameAssumption DEF Put, Packets

(* The owners change when the places do: each place but one keeps what it  *)
(* holds.                                                                  *)
LEMMA OwnGet ==
    ASSUME GameTypeInv, OwnInv, ReadLoopGet
    PROVE  OwnInv'
<1>1. /\ recv' = recv /\ current' = current /\ opening' = opening /\ bundle' = bundle
      /\ taken = <<>> /\ pool \in [Buffers -> Nat]
  BY DEF ReadLoopGet, ReadLoopSelect, GameTypeInv, ControlInv, GameTypeOK
<1>2. /\ BuffersOf(recv)' = BuffersOf(recv) /\ BuffersOf(current)' = BuffersOf(current)
      /\ BuffersOf(opening)' = BuffersOf(opening) /\ BuffersOf(bundle)' = BuffersOf(bundle)
      /\ Distinct(recv)' /\ Distinct(bundle)' /\ Taken = {}
      /\ InUse' = BuffersOf(recv) \union BuffersOf(current) \union BuffersOf(opening)
                  \union BuffersOf(bundle) \union Taken'
  BY <1>1, InUsePlaces DEF BuffersOf, OwnInv, Distinct, Real, InUse, Taken
<1>3. CASE taken' = taken /\ pool' = pool
  <2>1. Taken' = {}
    BY <1>1, <1>3 DEF Taken
  <2>2. QED
    BY <1>2, <1>3, <2>1, InUsePlaces DEF OwnInv, OneOwner
<1>4. ASSUME NEW c \in Buffers, taken' = <<c>>, c \notin InUse \/ pool[c] > 0,
             \A b \in Buffers : pool'[b] = IF b = c THEN 0 ELSE pool[b]
      PROVE  OwnInv'
  <2>1. Taken' = {c}
    BY <1>4 DEF Taken
  <2>2. c \notin InUse
    BY <1>4 DEF OwnInv, OneOwner
  <2>3. \A b \in Buffers : OneOwner(b)'
    BY <1>2, <1>4, <2>1, <2>2, InUsePlaces DEF OwnInv, OneOwner
  <2>4. QED
    BY <1>2, <2>3 DEF OwnInv
<1>5. CASE taken' = <<NewBuffer>> /\ (\E b \in Buffers : New(b)) /\ pool' = pool
  <2>1. New(NewBuffer)
    BY <1>5 DEF NewBuffer, New
  <2>2. QED
    BY <1>4, <1>5, <2>1 DEF New
<1>6. ASSUME NEW c \in Buffers, pool[c] > 0, taken' = <<c>>, pool' = [pool EXCEPT ![c] = @ - 1]
      PROVE  OwnInv'
  <2>1. pool[c] \in Nat /\ pool[c] <= 1
    BY <1>1 DEF OwnInv, OneOwner
  <2>2. \A b \in Buffers : pool'[b] = IF b = c THEN 0 ELSE pool[b]
    BY <1>1, <1>6, <2>1
  <2>3. QED
    BY <1>4, <1>6, <2>2
<1>7. QED
  BY <1>3, <1>5, <1>6 DEF ReadLoopGet

(* The buffer that ReadLoop took goes to recv with the packet.             *)
LEMMA OwnFill ==
    ASSUME GameTypeInv, OwnInv, ReadLoopFill
    PROVE  OwnInv'
<1>1. PICK p \in Inbound : taken = <<p.buf>> /\ ReadLoopPacket(p)
  BY DEF ReadLoopFill
<1>2. /\ current' = current /\ opening' = opening /\ bundle' = bundle /\ pool' = pool /\ taken' = <<>>
      /\ recv' = recv \/ recv' = Append(recv, p)
      /\ recv \in Seq(Inbound) /\ p.buf \in Buffers /\ Real(p)
  BY <1>1, PacketTypes DEF ReadLoopFill, ReadLoopPacket, GameTypeInv, TypeInv, TypeOK, RecvTypeOK
<1>3. /\ BuffersOf(current)' = BuffersOf(current)
      /\ BuffersOf(opening)' = BuffersOf(opening) /\ BuffersOf(bundle)' = BuffersOf(bundle)
      /\ Distinct(bundle)' /\ Taken = {p.buf} /\ Taken' = {}
      /\ InUse' = BuffersOf(recv)' \union BuffersOf(current) \union BuffersOf(opening)
                  \union BuffersOf(bundle)
  BY <1>1, <1>2 DEF BuffersOf, OwnInv, Distinct, Real, InUse, Taken
<1>4. p.buf \notin BuffersOf(recv)
  BY <1>2, <1>3 DEF OwnInv, OneOwner
<1>5. /\ Distinct(recv)'
      /\ BuffersOf(recv)' = BuffersOf(recv) \/ BuffersOf(recv)' = BuffersOf(recv) \union {p.buf}
  <2>1. CASE recv' = recv
    BY <2>1 DEF BuffersOf, OwnInv, Distinct, Real
  <2>2. CASE recv' = Append(recv, p)
    <3>1. Distinct(Append(recv, p)) /\ BuffersOf(Append(recv, p)) = BuffersOf(recv) \union {p.buf}
      BY <1>2, <1>4, BuffersOfAppend DEF OwnInv
    <3>2. QED
      BY <2>2, <3>1 DEF BuffersOf, Distinct, Real
  <2>3. QED
    BY <1>2, <2>1, <2>2
<1>6. \A b \in Buffers : OneOwner(b)'
  BY <1>2, <1>3, <1>5, InUsePlaces DEF OwnInv, OneOwner
<1>7. QED
  BY <1>3, <1>5, <1>6 DEF OwnInv

(* HandleGame gets a packet: its buffer moves from recv to current or to   *)
(* the bundle; a phantom has none.                                         *)
LEMMA OwnGot ==
    ASSUME GameTypeInv, OwnInv, NEW p \in Packets, Got(p)
    PROVE  OwnInv'
<1>1. /\ opening' = opening /\ pool' = pool /\ taken' = taken /\ current = <<>>
      /\ \/ current' = <<p>> /\ bundle' = bundle
         \/ current' = <<>> /\ bundle' = Append(bundle, p) /\ p \in Recordable
  BY PacketTypes DEF Got, MainGot, BundleGot
<1>2. /\ recv \in Seq(Inbound) /\ bundle \in Seq(Recordable)
  BY DEF GameTypeInv, TypeInv, TypeOK, RecvTypeOK, GameTypeOK
<1>3. /\ Distinct(recv')
      /\ \/ /\ BuffersOf(recv) = BuffersOf(recv') \union {p.buf}
            /\ p.buf \notin BuffersOf(recv')
         \/ BuffersOf(recv') = BuffersOf(recv) /\ ~Real(p)
  <2>1. CASE recv # <<>> /\ p = Head(recv) /\ p \in Inbound /\ recv' = Tail(recv)
    BY <1>2, <2>1, BuffersOfTail, PacketTypes DEF OwnInv
  <2>2. CASE p = Phantom /\ recv' = recv
    BY <2>2, PacketTypes DEF OwnInv, GameTypeInv, GameTypeOK
  <2>3. QED
    BY <2>1, <2>2 DEF Got
<1>4. Real(p) => p.buf \in BuffersOf(recv) /\ p.buf \in Buffers
  BY <1>3 DEF Packets, Real
<1>5. Real(p) => p.buf \notin BuffersOf(bundle)
  BY <1>4 DEF OwnInv, OneOwner
<1>6. /\ Distinct(bundle')
      /\ \/ BuffersOf(current') = {p.buf} /\ BuffersOf(bundle') = BuffersOf(bundle)
         \/ BuffersOf(current') = {} /\ BuffersOf(bundle') = BuffersOf(bundle) \union {p.buf}
  <2>1. CASE current' = <<p>> /\ bundle' = bundle
    BY <2>1, BuffersOfFew DEF OwnInv
  <2>2. CASE current' = <<>> /\ bundle' = Append(bundle, p) /\ p \in Recordable
    <3>1. /\ BuffersOf(Append(bundle, p)) = BuffersOf(bundle) \union {p.buf}
          /\ Distinct(Append(bundle, p))
      BY <1>2, <1>5, <2>2, BuffersOfAppend DEF OwnInv
    <3>2. QED
      BY <2>2, <3>1, BuffersOfFew
  <2>3. QED
    BY <1>1, <2>1, <2>2
<1>7. BuffersOf(current) = {}
  BY <1>1, BuffersOfFew
<1>8. Taken' = Taken /\ BuffersOf(opening)' = BuffersOf(opening)
  BY <1>1 DEF Taken, BuffersOf
<1>9. /\ BuffersOf(recv)' = BuffersOf(recv') /\ BuffersOf(current)' = BuffersOf(current')
      /\ BuffersOf(bundle)' = BuffersOf(bundle')
      /\ Distinct(recv)' = Distinct(recv') /\ Distinct(bundle)' = Distinct(bundle')
      /\ InUse' = BuffersOf(recv') \union BuffersOf(current') \union BuffersOf(opening)
                  \union BuffersOf(bundle') \union Taken
  BY <1>8 DEF BuffersOf, Distinct, Real, InUse, Taken
<1>10. \A b \in Buffers : b = p.buf => Real(p)
  BY GameAssumption DEF Real
<1>11. \A b \in Buffers : OneOwner(b)'
  BY <1>1, <1>3, <1>6, <1>7, <1>8, <1>9, <1>10, InUsePlaces DEF OwnInv, OneOwner
<1>12. QED
  BY <1>3, <1>6, <1>9, <1>11 DEF OwnInv

(* A step that moves no buffer.                                            *)
LEMMA OwnSame ==
    ASSUME OwnInv, UNCHANGED <<recv, current, opening, bundle, taken, pool>>
    PROVE  OwnInv'
  BY DEF OwnInv, OneOwner, Distinct, Real, BuffersOf, Taken, InUse

(* The packet handled gives its buffer to the pool, or keeps it when it    *)
(* opens a bundle.                                                         *)
LEMMA OwnHandled ==
    ASSUME GameTypeInv, OwnInv, HandleGameHandle \/ HandleGameOpen \/ HandleGameClose
    PROVE  OwnInv'
<1> DEFINE p == Head(current)
<1>1. current # <<>> /\ (HandleGameOpen => opening = <<>>)
  BY DEF HandleGameHandle, HandleGameOpen, HandleGameClose, GameTypeInv, ControlInv
<1>2. p \in Packets /\ current = <<p>> /\ pool \in [Buffers -> Nat]
  BY <1>1, MaybePackets DEF GameTypeInv, GameTypeOK
<1>3. /\ recv' = recv /\ bundle' = bundle /\ taken' = taken /\ current' = <<>>
      /\ \/ opening' = opening /\ Put(p)
         \/ opening = <<>> /\ opening' = <<p>> /\ pool' = pool
  BY <1>1, <1>2 DEF HandleGameHandle, HandleGameOpen, HandleGameClose, vars, recvVars
<1>4. /\ BuffersOf(current) = {p.buf} /\ BuffersOf(current)' = {}
      /\ BuffersOf(recv)' = BuffersOf(recv) /\ BuffersOf(bundle)' = BuffersOf(bundle) /\ Taken' = Taken
      /\ Distinct(recv)' /\ Distinct(bundle)'
  BY <1>2, <1>3, BuffersOfFew DEF BuffersOf, Taken, Distinct, Real, OwnInv
<1>5. InUse' = BuffersOf(recv) \union BuffersOf(opening)' \union BuffersOf(bundle) \union Taken
  BY <1>4 DEF InUse, Taken
<1>6. CASE opening' = opening /\ Put(p)
  <2>1. \A b \in Buffers : pool'[b] = IF b = p.buf THEN pool[b] + 1 ELSE pool[b]
    BY <1>2, <1>6, PutCounts
  <2>2. BuffersOf(opening)' = BuffersOf(opening)
    BY <1>6 DEF BuffersOf
  <2>3. \A b \in Buffers : OneOwner(b)'
    BY <1>4, <1>5, <2>1, <2>2, InUsePlaces DEF OwnInv, OneOwner
  <2>4. QED
    BY <1>4, <2>3 DEF OwnInv
<1>7. CASE opening = <<>> /\ opening' = <<p>> /\ pool' = pool
  <2>1. BuffersOf(opening)' = {p.buf} /\ BuffersOf(opening) = {}
    BY <1>7, BuffersOfFew DEF BuffersOf
  <2>2. \A b \in Buffers : OneOwner(b)'
    BY <1>4, <1>5, <1>7, <2>1, InUsePlaces DEF OwnInv, OneOwner
  <2>3. QED
    BY <1>4, <2>2 DEF OwnInv
<1>8. QED
  BY <1>3, <1>6, <1>7

(* So does each packet of the bundle, and at its end the delimiter that    *)
(* opened it.                                                              *)
LEMMA OwnBundled ==
    ASSUME GameTypeInv, OwnInv, HandleGameBundled
    PROVE  OwnInv'
<1> DEFINE p == Head(bundle)
<1>1. /\ recv' = recv /\ current' = current /\ opening' = opening /\ taken' = taken
      /\ bundle # <<>> /\ bundle' = Tail(bundle) /\ Put(p)
  BY DEF HandleGameBundled, vars, recvVars
<1>2. p \in Packets /\ bundle \in Seq(Recordable) /\ pool \in [Buffers -> Nat]
  BY <1>1, MaybePackets DEF GameTypeInv, GameTypeOK
<1>3. /\ BuffersOf(bundle) = BuffersOf(bundle') \union {p.buf}
      /\ Distinct(bundle') /\ (Real(p) => p.buf \notin BuffersOf(bundle'))
  BY <1>1, <1>2, BuffersOfTail DEF OwnInv
<1>4. /\ BuffersOf(recv)' = BuffersOf(recv) /\ BuffersOf(current)' = BuffersOf(current)
      /\ BuffersOf(opening)' = BuffersOf(opening) /\ BuffersOf(bundle)' = BuffersOf(bundle')
      /\ Taken' = Taken /\ Distinct(recv)' /\ Distinct(bundle)' = Distinct(bundle')
      /\ InUse' = BuffersOf(recv) \union BuffersOf(current) \union BuffersOf(opening)
                  \union BuffersOf(bundle') \union Taken
  BY <1>1 DEF BuffersOf, Taken, Distinct, Real, OwnInv, InUse
<1>5. \A b \in Buffers : pool'[b] = IF b = p.buf THEN pool[b] + 1 ELSE pool[b]
  BY <1>1, <1>2, PutCounts
<1>6. \A b \in Buffers : b = p.buf => Real(p)
  BY GameAssumption DEF Real
<1>7. \A b \in Buffers : OneOwner(b)'
  BY <1>3, <1>4, <1>5, <1>6, InUsePlaces DEF OwnInv, OneOwner
<1>8. QED
  BY <1>3, <1>4, <1>7 DEF OwnInv

(* After a bundle the first delimiter's buffer is put back.                *)
LEMMA OwnBundleDone ==
    ASSUME GameTypeInv, OwnInv, HandleGameBundleDone
    PROVE  OwnInv'
<1> DEFINE p == Head(opening)
<1>1. /\ recv' = recv /\ current' = current /\ opening' = <<>> /\ taken' = taken /\ bundle' = bundle
      /\ opening # <<>> /\ Put(p)
  BY DEF HandleGameBundleDone, vars, recvVars, GameTypeInv, ControlInv
<1>2. p \in Packets /\ opening = <<p>> /\ pool \in [Buffers -> Nat]
  BY <1>1, MaybePackets DEF GameTypeInv, GameTypeOK
<1>3. /\ BuffersOf(opening) = {p.buf} /\ BuffersOf(opening)' = {}
      /\ BuffersOf(recv)' = BuffersOf(recv) /\ BuffersOf(current)' = BuffersOf(current)
      /\ BuffersOf(bundle)' = BuffersOf(bundle)
      /\ Taken' = Taken /\ Distinct(recv)' /\ Distinct(bundle)'
  BY <1>1, <1>2, BuffersOfFew DEF BuffersOf, Taken, Distinct, Real, OwnInv
<1>4. InUse' = BuffersOf(recv) \union BuffersOf(current) \union BuffersOf(bundle) \union Taken
  BY <1>3 DEF InUse, Taken
<1>5. \A b \in Buffers : pool'[b] = IF b = p.buf THEN pool[b] + 1 ELSE pool[b]
  BY <1>1, <1>2, PutCounts
<1>6. \A b \in Buffers : OneOwner(b)'
  BY <1>3, <1>4, <1>5, InUsePlaces DEF OwnInv, OneOwner
<1>7. QED
  BY <1>3, <1>6 DEF OwnInv

(* At first every buffer is nowhere.                                       *)
LEMMA OwnInit == GameInit => OwnInv
  BY BuffersOfFew DEF GameInit, Init, OwnInv, Distinct, OneOwner, InUse, Taken

(* Every step moves a buffer from one owner to one owner.                  *)
LEMMA OwnStep == GameTypeInv /\ OwnInv /\ [GameNext]_allVars => OwnInv'
<1> SUFFICES ASSUME GameTypeInv, OwnInv, [GameNext]_allVars PROVE OwnInv'
  OBVIOUS
<1>1. CASE ReadLoopGet
  BY <1>1, OwnGet
<1>2. CASE ReadLoopFill
  BY <1>2, OwnFill
<1>3. CASE HandleGameRead
  BY <1>3, ReadGets, OwnGot, OwnSame
<1>4. CASE \/ ReadLoopEnd \/ Environment \/ CancelGame \/ UNCHANGED allVars
           \/ HandleGameSelect \/ HandleGameFail
  BY <1>4, OwnSame DEF ReadLoopEnd, ReadLoopFail, ReadLoopClose, Environment, CancelGame, SocketDown, Cancel, allVars,
     vars, gameVars, recvVars, HandleGameSelect, HandleGameFail
<1>5. CASE HandleGameHandle \/ HandleGameOpen \/ HandleGameClose
  BY <1>5, OwnHandled
<1>6. CASE HandleGameBundled \/ HandleGameBundleDone
  BY <1>6, OwnBundled, OwnBundleDone
<1>7. QED
  BY <1>1, <1>2, <1>3, <1>4, <1>5, <1>6 DEF GameNext, HandleGame

(* Two sequences without a buffer in common.                               *)
LEMMA DistinctConcat ==
    ASSUME NEW S, NEW s \in Seq(S), NEW t \in Seq(S)
    PROVE  /\ BuffersOf(s \o t) = BuffersOf(s) \union BuffersOf(t)
           /\ /\ Distinct(s) /\ Distinct(t)
              /\ \A b \in BuffersOf(s) : b # NoBuffer => b \notin BuffersOf(t)
              => Distinct(s \o t)
<1> DEFINE u == s \o t
<1>1. /\ DOMAIN s = 1 .. Len(s) /\ DOMAIN t = 1 .. Len(t) /\ DOMAIN u = 1 .. Len(s) + Len(t)
      /\ Len(s) \in Nat /\ Len(t) \in Nat
      /\ \A i \in 1 .. Len(s) + Len(t) : u[i] = IF i <= Len(s) THEN s[i] ELSE t[i - Len(s)]
  BY ConcatProperties, LenProperties
<1> HIDE DEF u
<1>2. /\ \A i \in DOMAIN s : i \in DOMAIN u /\ u[i] = s[i]
      /\ \A i \in DOMAIN t : Len(s) + i \in DOMAIN u /\ u[Len(s) + i] = t[i]
      /\ \A i \in DOMAIN u :
            (i \in DOMAIN s /\ u[i] = s[i]) \/ (i - Len(s) \in DOMAIN t /\ u[i] = t[i - Len(s)])
      /\ \A i \in DOMAIN u : i \in Nat
  <2>1. \A i \in DOMAIN s : i \in DOMAIN u /\ u[i] = s[i]
    BY <1>1
  <2>2. \A i \in DOMAIN t : Len(s) + i \in DOMAIN u /\ u[Len(s) + i] = t[i]
    <3> SUFFICES ASSUME NEW i \in DOMAIN t PROVE Len(s) + i \in DOMAIN u /\ u[Len(s) + i] = t[i]
      OBVIOUS
    <3>1. /\ Len(s) + i \in 1 .. Len(s) + Len(t)
          /\ ~(Len(s) + i <= Len(s)) /\ (Len(s) + i) - Len(s) = i
      BY <1>1
    <3>2. QED
      BY <1>1, <3>1
  <2>3. ASSUME NEW i \in DOMAIN u, i \notin DOMAIN s
        PROVE  i - Len(s) \in DOMAIN t /\ u[i] = t[i - Len(s)]
    BY <1>1, <2>3
  <2>4. \A i \in DOMAIN u : i \in Nat
    BY <1>1
  <2>5. \A i \in DOMAIN u : (i \in DOMAIN s /\ u[i] = s[i]) \/ (i - Len(s) \in DOMAIN t /\ u[i] = t[i - Len(s)])
    BY <2>1, <2>3
  <2>6. QED
    BY <2>1, <2>2, <2>4, <2>5
<1>3. BuffersOf(u) = BuffersOf(s) \union BuffersOf(t)
  BY <1>2 DEF BuffersOf
<1>4. ASSUME Distinct(s), Distinct(t), \A b \in BuffersOf(s) : b # NoBuffer => b \notin BuffersOf(t),
             NEW i \in DOMAIN u, NEW j \in DOMAIN u, Real(u[i]), u[i].buf = u[j].buf
      PROVE  i = j
  <2>1. CASE i \in DOMAIN s /\ u[i] = s[i] /\ j \in DOMAIN s /\ u[j] = s[j]
    BY <1>4, <2>1 DEF Distinct
  <2>2. CASE /\ i - Len(s) \in DOMAIN t /\ u[i] = t[i - Len(s)]
             /\ j - Len(s) \in DOMAIN t /\ u[j] = t[j - Len(s)]
    <3>1. i - Len(s) = j - Len(s)
      BY <1>4, <2>2 DEF Distinct
    <3>2. QED
      BY <1>1, <1>2, <3>1
  <2>3. ASSUME NEW x \in DOMAIN s, NEW y \in DOMAIN t, Real(s[x]), s[x].buf = t[y].buf PROVE FALSE
    BY <1>4, <2>3 DEF BuffersOf, Real
  <2>4. QED
    BY <1>2, <1>4, <2>1, <2>2, <2>3 DEF Real
<1>5. QED
  BY <1>3, <1>4 DEF u, Distinct

(* A payload buffer has one owner, so ReadLoop never reads into the buffer *)
(* of a packet that is still to be handled.                                *)
THEOREM BufferCorrect == GameSpec => []BufferHasOneOwner
<1>1. GameTypeInv /\ OwnInv => BufferHasOneOwner
  <2> SUFFICES ASSUME GameTypeInv, OwnInv PROVE BufferHasOneOwner
    OBVIOUS
  <2> DEFINE reading == [i \in DOMAIN taken |-> [id |-> "delim", buf |-> taken[i]]]
             R == BuffersOf(recv)
             C == BuffersOf(current)
             O == BuffersOf(opening)
             B == BuffersOf(bundle)
  <2>1. /\ recv \in Seq(Packets) /\ Distinct(recv)
        /\ bundle \in Seq(Packets) /\ Distinct(bundle)
    <3>1. recv \in Seq(Inbound) /\ bundle \in Seq(Recordable)
      BY DEF GameTypeInv, TypeInv, TypeOK, RecvTypeOK, GameTypeOK
    <3>2. QED
      BY <3>1, PacketTypes DEF OwnInv
  <2>2. /\ current \in Seq(Packets) /\ Distinct(current)
        /\ opening \in Seq(Packets) /\ Distinct(opening)
    <3>1. \A s \in AtMostOne(Packets) : s \in Seq(Packets) /\ Distinct(s)
      <4>1. <<>> \in Seq(Packets) /\ \A p \in Packets : <<p>> \in Seq(Packets)
        OBVIOUS
      <4>2. QED
        BY <4>1, DistinctFew, Zenon DEF AtMostOne
    <3>2. QED
      BY <3>1 DEF GameTypeInv, GameTypeOK
  <2>3. reading \in Seq(Packets) /\ Distinct(reading) /\ BuffersOf(reading) = Taken
    <3>1. CASE taken = <<>>
      <4>1. reading = <<>>
        BY <3>1
      <4>2. QED
        BY <3>1, <4>1, BuffersOfFew, DistinctFew, InUsePlaces, EmptySeq, Zenon
    <3>2. ASSUME NEW b \in Buffers, taken = <<b>>
          PROVE  reading \in Seq(Packets) /\ Distinct(reading) /\ BuffersOf(reading) = Taken
      <4>1. reading = <<[id |-> "delim", buf |-> b]>>
        BY <3>2
      <4>2. [id |-> "delim", buf |-> b] \in Packets
        BY DEF Packets
      <4>3. reading \in Seq(Packets)
        BY <4>1, <4>2
      <4>4. Distinct(reading) /\ BuffersOf(reading) = {[id |-> "delim", buf |-> b].buf}
        BY <4>1, BuffersOfFew, DistinctFew, Zenon
      <4>5. QED
        BY <3>2, <4>3, <4>4, InUsePlaces
    <3>3. QED
      BY <3>1, <3>2 DEF GameTypeInv, GameTypeOK, AtMostOne
  <2>4. /\ R \union C \union O \union B \union Taken \subseteq Buffers \union {NoBuffer}
        /\ InUse = R \union C \union O \union B \union Taken
    <3>1. \A s \in Seq(Packets) : BuffersOf(s) \subseteq Buffers \union {NoBuffer}
      <4> SUFFICES ASSUME NEW s \in Seq(Packets), NEW i \in DOMAIN s PROVE s[i].buf \in Buffers \union {NoBuffer}
        BY DEF BuffersOf
      <4>1. s[i] \in Packets
        BY LenProperties, ElementOfSeq
      <4>2. QED
        BY <4>1 DEF Packets
    <3>2. QED
      BY <2>1, <2>2, <2>3, <3>1, InUsePlaces
  <2>5. \A b \in Buffers : OneOwner(b)
    BY DEF OwnInv
  <2> HIDE DEF reading
  <2>6. \A b : b # NoBuffer =>
            /\ b \in R => b \notin C
            /\ b \in R \union C => b \notin O
            /\ b \in R \union C \union O => b \notin B
            /\ b \in R \union C \union O \union B => b \notin Taken
    BY <2>4, <2>5 DEF OneOwner
  <2> DEFINE s2 == recv \o current
             s3 == s2 \o opening
             s4 == s3 \o bundle
  <2>7. s2 \in Seq(Packets) /\ BuffersOf(s2) = R \union C /\ Distinct(s2)
    BY <2>1, <2>2, <2>6, DistinctConcat, ConcatProperties
  <2> HIDE DEF s2
  <2>8. s3 \in Seq(Packets) /\ BuffersOf(s3) = R \union C \union O /\ Distinct(s3)
    BY <2>2, <2>6, <2>7, DistinctConcat, ConcatProperties
  <2> HIDE DEF s3
  <2>9. s4 \in Seq(Packets) /\ BuffersOf(s4) = R \union C \union O \union B /\ Distinct(s4)
    BY <2>1, <2>6, <2>8, DistinctConcat, ConcatProperties
  <2> HIDE DEF s4
  <2>10. Distinct(s4 \o reading)
    BY <2>3, <2>6, <2>9, DistinctConcat
  <2>11. QED
    BY <2>5, <2>10 DEF BufferHasOneOwner, Distinct, OneOwner, reading, s4, s3, s2
<1>2. QED
  BY <1>1, GameTypeInit, GameTypeStep, OwnInit, OwnStep, PTL DEF GameSpec

-----------------------------------------------------------------------------
(* The order of handling *)

(* What was handled and what is held to be handled.                        *)
Line == handled \o bundle \o current

OrderInv == Kept(Line, PlainPackets) = Kept(delivered, PlainPackets)
ReplayInv == recorded = Kept(Line, Recordable)

(* A phantom is held or handled after a cancellation only.                 *)
PhantomInv ==
    /\ \A i \in DOMAIN handled : ~Real(handled[i]) => ctxDone
    /\ current # <<>> => (~Real(Head(current)) => ctxDone)
    /\ \A i \in DOMAIN bundle : ~Real(bundle[i]) => ctxDone

(* The sequences of packets.                                               *)
LEMMA LineTypes ==
    ASSUME GameTypeInv
    PROVE  /\ handled \in Seq(Packets) /\ bundle \in Seq(Packets) /\ current \in Seq(Packets)
           /\ opening \in Seq(Packets) /\ recorded \in Seq(Packets) /\ delivered \in Seq(Packets)
           /\ Line \in Seq(Packets)
<1>1. current \in Seq(Packets) /\ opening \in Seq(Packets)
  <2>1. <<>> \in Seq(Packets) /\ \A p \in Packets : <<p>> \in Seq(Packets)
    OBVIOUS
  <2>2. QED
    BY <2>1, Zenon DEF GameTypeInv, GameTypeOK, AtMostOne
<1>2. /\ handled \in Seq(Packets) /\ bundle \in Seq(Packets)
      /\ recorded \in Seq(Packets) /\ delivered \in Seq(Packets)
  BY PacketTypes DEF GameTypeInv, TypeInv, TypeOK, ReaderTypeOK, GameTypeOK
<1>3. QED
  BY <1>1, <1>2, ConcatProperties DEF Line

(* A packet HandleGame gets comes to the end of the line.                  *)
LEMMA LineGot ==
    ASSUME GameTypeInv, NEW p \in Packets, Got(p)
    PROVE  Line' = Append(Line, p)
<1>1. handled' = handled /\ current = <<>> /\ <<p>> \in Seq(Packets)
  BY DEF Got
<1>2. handled \in Seq(Packets) /\ bundle \in Seq(Packets) /\ handled \o bundle \in Seq(Packets)
  BY LineTypes, ConcatProperties
<1>3. Append(Line, p) = handled \o bundle \o <<p>>
  BY <1>1, <1>2, AppendIsConcat, ConcatEmptySeq DEF Line
<1>4. CASE current' = <<p>> /\ bundle' = bundle
  BY <1>1, <1>3, <1>4 DEF Line
<1>5. CASE current' = <<>> /\ bundle' = Append(bundle, p)
  <2>1. Line' = handled \o Append(bundle, p)
    BY <1>1, <1>2, <1>5, AppendProperties, ConcatProperties, ConcatEmptySeq DEF Line
  <2>2. handled \o Append(bundle, p) = Append(handled \o bundle, p)
    BY <1>2, AppendRight
  <2>3. QED
    BY <1>2, <1>3, <2>1, <2>2, AppendIsConcat
<1>6. QED
  BY <1>1, <1>4, <1>5 DEF Got, MainGot, BundleGot

(* Nothing else changes the order of what is no delimiter.                 *)
LEMMA LineKept ==
    ASSUME GameTypeInv, [GameNext]_allVars, ~(\E p \in Packets : Got(p)), NEW K \in SUBSET Recordable
    PROVE  Kept(Line, K)' = Kept(Line, K)
<1>1. handled \in Seq(Packets) /\ bundle \in Seq(Packets) /\ current \in Seq(Packets)
  BY LineTypes
<1>2. CASE UNCHANGED <<handled, bundle, current>>
  BY <1>2 DEF Line
<1>3. CASE HandleGameHandle \/ HandleGameOpen
  <2>1. current = <<Head(current)>> /\ Head(current) \in Packets /\ bundle = <<>>
    BY <1>3, MaybePackets DEF GameTypeInv, ControlInv, HandleGameHandle, HandleGameOpen
  <2>2. handled' = Append(handled, Head(current)) /\ bundle' = bundle /\ current' = <<>>
    BY <1>3 DEF HandleGameHandle, HandleGameOpen
  <2>3. handled' = handled \o current /\ handled' \in Seq(Packets)
    BY <1>1, <2>1, <2>2, AppendIsConcat, AppendProperties
  <2>4. Line = handled \o current /\ Line' = handled'
    BY <1>1, <2>1, <2>2, <2>3, ConcatEmptySeq DEF Line
  <2>5. QED
    BY <2>3, <2>4
<1>4. CASE HandleGameClose
  <2> DEFINE d == Head(current)
  <2>1. current = <<d>> /\ d \in Packets /\ d \notin K
    BY <1>4, MaybePackets, PacketTypes DEF GameTypeInv, ControlInv, HandleGameClose
  <2>2. handled' = Append(handled, d) /\ bundle' = bundle /\ current' = <<>>
    BY <1>4 DEF HandleGameClose
  <2>3. Line' = Append(handled, d) \o bundle
    BY <1>1, <2>1, <2>2, AppendProperties, ConcatProperties, ConcatEmptySeq DEF Line
  <2>4. Line = Append(handled \o bundle, d)
    BY <1>1, <2>1, ConcatProperties, AppendIsConcat DEF Line
  <2>5. Kept(Append(handled, d) \o bundle, K) = Kept(handled \o bundle, K)
    BY <1>1, <2>1, KeptMiddle
  <2>6. Kept(Append(handled \o bundle, d), K) = Kept(handled \o bundle, K)
    BY <1>1, <2>1, ConcatProperties, KeptAppend
  <2>7. QED
    BY <2>3, <2>4, <2>5, <2>6
<1>5. CASE HandleGameBundled
  <2>1. handled' = Append(handled, Head(bundle)) /\ bundle # <<>> /\ bundle' = Tail(bundle) /\ current' = current
    BY <1>5 DEF HandleGameBundled
  <2>2. handled' \o bundle' = handled \o bundle
    BY <1>1, <2>1, MoveHead
  <2>3. Line' = Line
    BY <2>1, <2>2 DEF Line
  <2>4. QED
    BY <2>3
<1>6. QED
  BY <1>2, <1>3, <1>4, <1>5, Moves DEF Elsewhere, HandleGameSelect, HandleGameBundleDone

(* At first nothing was read, recorded or handled.                         *)
LEMMA LineInit == GameInit => OrderInv /\ ReplayInv /\ PhantomInv
<1> SUFFICES ASSUME GameInit PROVE OrderInv /\ ReplayInv /\ PhantomInv
  OBVIOUS
<1>1. handled = <<>> /\ bundle = <<>> /\ current = <<>> /\ delivered = <<>> /\ recorded = <<>>
  BY DEF GameInit, Init
<1>2. Line = <<>>
  BY <1>1 DEF Line
<1>3. QED
  BY <1>1, <1>2, KeptEmpty DEF OrderInv, ReplayInv, PhantomInv

(* Every step keeps the line in the order of arrival.                      *)
LEMMA OrderInvStep == GameTypeInv /\ OrderInv /\ [GameNext]_allVars => OrderInv'
<1> SUFFICES ASSUME GameTypeInv, OrderInv, [GameNext]_allVars PROVE OrderInv'
  OBVIOUS
<1>1. delivered \in Seq(Packets) /\ Line \in Seq(Packets)
  BY LineTypes
<1>2. ASSUME NEW p \in Packets, Got(p) PROVE OrderInv'
  <2>1. Line' = Append(Line, p)
    BY <1>2, LineGot
  <2>2. Kept(Line', PlainPackets) =
            IF p \in PlainPackets THEN Append(Kept(Line, PlainPackets), p) ELSE Kept(Line, PlainPackets)
    BY <1>1, <2>1, KeptAppend
  <2>3. CASE delivered' = Append(delivered, p)
    <3>1. Kept(delivered', PlainPackets) =
              IF p \in PlainPackets THEN Append(Kept(delivered, PlainPackets), p)
              ELSE Kept(delivered, PlainPackets)
      BY <1>1, <2>3, KeptAppend
    <3>2. QED
      BY <2>2, <3>1 DEF OrderInv, PlainPackets
  <2>4. CASE p = Phantom /\ delivered' = delivered
    <3>1. p \notin PlainPackets
      BY <2>4, PacketTypes DEF GameTypeInv, GameTypeOK
    <3>2. QED
      BY <2>2, <2>4, <3>1 DEF OrderInv, PlainPackets
  <2>5. QED
    BY <1>2, <2>3, <2>4 DEF Got
<1>3. CASE ~(\E p \in Packets : Got(p))
  <2>1. PlainPackets \in SUBSET Recordable
    BY DEF PlainPackets, Recordable
  <2>2. Kept(Line, PlainPackets)' = Kept(Line, PlainPackets)
    BY <1>3, <2>1, LineKept DEF PlainPackets
  <2>3. delivered' = delivered
    BY <1>3, Moves DEF Elsewhere, HandleGameSelect, HandleGameHandle, HandleGameOpen, HandleGameClose,
       HandleGameBundled, HandleGameBundleDone, vars, readerVars
  <2>4. QED
    BY <2>2, <2>3 DEF OrderInv, PlainPackets
<1>4. QED
  BY <1>2, <1>3

(* Every step keeps the line what was recorded.                            *)
LEMMA ReplayInvStep == GameTypeInv /\ ReplayInv /\ [GameNext]_allVars => ReplayInv'
<1> SUFFICES ASSUME GameTypeInv, ReplayInv, [GameNext]_allVars PROVE ReplayInv'
  OBVIOUS
<1>1. Line \in Seq(Packets)
  BY LineTypes
<1>2. ASSUME NEW p \in Packets, Got(p) PROVE ReplayInv'
  <2>1. Line' = Append(Line, p)
    BY <1>2, LineGot
  <2>2. Kept(Line', Recordable) =
            IF p \in Recordable THEN Append(Kept(Line, Recordable), p) ELSE Kept(Line, Recordable)
    BY <1>1, <2>1, KeptAppend
  <2>3. recorded' = IF p \in Recordable THEN Append(recorded, p) ELSE recorded
    BY <1>2, PacketTypes DEF Got, MainGot, BundleGot
  <2>4. QED
    BY <2>2, <2>3 DEF ReplayInv, Recordable
<1>3. CASE ~(\E p \in Packets : Got(p))
  <2>1. Kept(Line, Recordable)' = Kept(Line, Recordable)
    BY <1>3, LineKept DEF Recordable
  <2>2. recorded' = recorded
    BY <1>3, Moves DEF Elsewhere, HandleGameSelect, HandleGameHandle, HandleGameOpen, HandleGameClose,
       HandleGameBundled, HandleGameBundleDone
  <2>3. QED
    BY <2>1, <2>2 DEF ReplayInv, Recordable
<1>4. QED
  BY <1>2, <1>3

(* Every step keeps phantoms after the cancellation.                       *)
LEMMA PhantomInvStep == GameTypeInv /\ PhantomInv /\ [GameNext]_allVars => PhantomInv'
<1> SUFFICES ASSUME GameTypeInv, PhantomInv, [GameNext]_allVars PROVE PhantomInv'
  OBVIOUS
<1> USE DEF PhantomInv
<1>1. handled \in Seq(Packets) /\ bundle \in Seq(Packets)
  BY LineTypes
<1>2. \A s \in Seq(Packets), p \in Packets :
          (\A i \in DOMAIN s : ~Real(s[i]) => ctxDone) /\ (~Real(p) => ctxDone)
              => \A i \in DOMAIN Append(s, p) : ~Real(Append(s, p)[i]) => ctxDone
  <2> SUFFICES ASSUME NEW s \in Seq(Packets), NEW p \in Packets,
                      \A i \in DOMAIN s : ~Real(s[i]) => ctxDone, ~Real(p) => ctxDone,
                      NEW i \in DOMAIN Append(s, p), ~Real(Append(s, p)[i])
               PROVE  ctxDone
    OBVIOUS
  <2>1. (i \in DOMAIN s /\ Append(s, p)[i] = s[i]) \/ Append(s, p)[i] = p
    BY AppendProperties, LenProperties
  <2>2. QED
    BY <2>1
<1>3. CASE Elsewhere
  BY <1>3 DEF Elsewhere, Real
<1>4. ASSUME NEW p \in Packets, Got(p) PROVE PhantomInv'
  <2>1. ~Real(p) => ctxDone
    BY <1>4, PacketTypes DEF Got
  <2>2. handled' = handled /\ ctxDone' = ctxDone
    BY <1>4 DEF Got
  <2>3. CASE current' = <<p>> /\ bundle' = bundle
    BY <2>1, <2>2, <2>3 DEF Real
  <2>4. CASE current' = <<>> /\ bundle' = Append(bundle, p)
    BY <1>1, <1>2, <2>1, <2>2, <2>4 DEF Real
  <2>5. QED
    BY <1>4, <2>3, <2>4 DEF Got, MainGot, BundleGot
<1>5. CASE HandleGameHandle \/ HandleGameOpen \/ HandleGameClose
  <2>1. current # <<>> /\ Head(current) \in Packets
    BY <1>5, MaybePackets DEF GameTypeInv, ControlInv, HandleGameHandle, HandleGameOpen, HandleGameClose
  <2>2. /\ handled' = Append(handled, Head(current)) /\ bundle' = bundle /\ current' = <<>>
        /\ ctxDone' = ctxDone
    BY <1>5 DEF HandleGameHandle, HandleGameOpen, HandleGameClose, vars
  <2>3. QED
    BY <1>1, <1>2, <2>1, <2>2 DEF Real
<1>6. CASE HandleGameBundled
  <2>1. /\ handled' = Append(handled, Head(bundle)) /\ bundle # <<>> /\ bundle' = Tail(bundle)
        /\ current' = current /\ ctxDone' = ctxDone
    BY <1>6 DEF HandleGameBundled, vars
  <2>2. /\ Head(bundle) \in Packets /\ Head(bundle) = bundle[1] /\ 1 \in DOMAIN bundle
        /\ \A i \in DOMAIN Tail(bundle) : i + 1 \in DOMAIN bundle /\ Tail(bundle)[i] = bundle[i + 1]
    BY <1>1, <2>1, HeadTailProperties, LenProperties, EmptySeq
  <2>3. QED
    BY <1>1, <1>2, <2>1, <2>2 DEF Real
<1>7. QED
  BY <1>3, <1>4, <1>5, <1>6, Moves DEF HandleGameSelect, HandleGameBundleDone, vars, Real

(* Ordinary packets are handled once and in arrival order, whatever fails; *)
(* a packet the server never sent is handled only after a cancellation.    *)
THEOREM HandledCorrect == GameSpec => []HandledInOrder
<1>1. OrderInv /\ PhantomInv => HandledInOrder
  BY DEF OrderInv, PhantomInv, HandledInOrder, Line
<1>2. QED
  BY <1>1, GameTypeInit, GameTypeStep, LineInit, OrderInvStep, PhantomInvStep, PTL DEF GameSpec

(* Between two packets the replay holds what was handled, in that order.   *)
THEOREM ReplayCorrect == GameSpec => []ReplayMatchesHandling
<1>1. GameTypeInv /\ ReplayInv => ReplayMatchesHandling
  <2> SUFFICES ASSUME GameTypeInv, ReplayInv, game = "select" PROVE recorded = Kept(handled, Recordable)
    BY DEF ReplayMatchesHandling
  <2>1. bundle = <<>> /\ current = <<>> /\ handled \in Seq(Packets)
    BY LineTypes DEF GameTypeInv, ControlInv
  <2>2. Line = handled
    BY <2>1, ConcatEmptySeq DEF Line
  <2>3. QED
    BY <2>2 DEF ReplayInv
<1>2. QED
  BY <1>1, GameTypeInit, GameTypeStep, LineInit, ReplayInvStep, PTL DEF GameSpec

-----------------------------------------------------------------------------
(* Bundles *)

(* The last delimiter of s is at i; the number of delimiters of s is odd.  *)
IsLast(s, i) ==
    /\ i \in DOMAIN s /\ s[i] \in Delimiters
    /\ \A j \in DOMAIN s : s[j] \in Delimiters => j <= i

Odd(s) == Len(Kept(s, Delimiters)) % 2 = 1

(* An odd number of delimiters was read exactly while a bundle is open,    *)
(* and nothing that came after the last of them has been handled.          *)
HeldInv ==
    ~PhantomSeen =>
        /\ game \in {"select", "read", "handle", "bundled"} => ~Odd(delivered)
        /\ game = "open" => (Odd(delivered) <=> Real(Head(current)))
        /\ game = "close" => (Odd(delivered) <=> ~Real(Head(current)))
        /\ game = "bundle" => Odd(delivered)
        /\ Odd(delivered) =>
              \E i : /\ IsLast(delivered, i)
                     /\ Len(Kept(handled, PlainPackets))
                            <= Len(Kept(SubSeq(delivered, 1, i), PlainPackets))

(* A delimiter more makes an odd number even and an even one odd.          *)
LEMMA OddAppend ==
    ASSUME NEW S, NEW s \in Seq(S), NEW e \in S
    PROVE  Odd(Append(s, e)) <=> IF e \in Delimiters THEN ~Odd(s) ELSE Odd(s)
<1>1. PICK k \in Seq(S) : k = Kept(s, Delimiters)
  BY KeptType
<1>2. Len(Append(k, e)) = Len(k) + 1 /\ Len(k) \in Nat
  BY AppendProperties, LenProperties
<1>3. \A n \in Nat : (n + 1) % 2 = 1 <=> ~(n % 2 = 1)
  OBVIOUS
<1>4. Kept(Append(s, e), Delimiters) = IF e \in Delimiters THEN Append(k, e) ELSE k
  BY <1>1, KeptAppend
<1>5. QED
  BY <1>1, <1>2, <1>3, <1>4 DEF Odd

(* A delimiter at the end is the last one.                                 *)
LEMMA LastAppend ==
    ASSUME NEW S, NEW s \in Seq(S), NEW e \in S
    PROVE  /\ e \in Delimiters => IsLast(Append(s, e), Len(s) + 1)
           /\ SubSeq(Append(s, e), 1, Len(s) + 1) = Append(s, e)
<1> DEFINE t == Append(s, e)
<1>1. /\ t \in Seq(S) /\ Len(t) = Len(s) + 1 /\ DOMAIN s = 1 .. Len(s) /\ DOMAIN t = 1 .. Len(s) + 1
      /\ t[Len(s) + 1] = e /\ Len(s) \in Nat
  BY AppendProperties, LenProperties
<1> HIDE DEF t
<1>2. e \in Delimiters => IsLast(t, Len(s) + 1)
  BY <1>1 DEF IsLast
<1>3. SubSeq(t, 1, Len(s) + 1) = t
  BY <1>1, SubSeqFull
<1>4. QED
  BY <1>2, <1>3 DEF t

(* What is no delimiter does not change which one is the last.             *)
LEMMA LastStays ==
    ASSUME NEW S, NEW s \in Seq(S), NEW e \in S, e \notin Delimiters, NEW i, IsLast(s, i)
    PROVE  IsLast(Append(s, e), i) /\ SubSeq(Append(s, e), 1, i) = SubSeq(s, 1, i)
<1>1. /\ DOMAIN s = 1 .. Len(s) /\ DOMAIN Append(s, e) = 1 .. Len(s) + 1
      /\ \A j \in 1 .. Len(s) : Append(s, e)[j] = s[j]
      /\ Append(s, e)[Len(s) + 1] = e /\ Len(s) \in Nat
      /\ Append(s, e) = s \o <<e>> /\ <<e>> \in Seq(S)
  BY AppendProperties, LenProperties, AppendIsConcat
<1>2. i \in 1 .. Len(s) /\ 1 \in 1 .. Len(s)
  BY <1>1 DEF IsLast
<1>3. IsLast(Append(s, e), i)
  BY <1>1 DEF IsLast
<1>4. SubSeq(s \o <<e>>, 1, i) = SubSeq(s, 1, i)
  BY <1>1, <1>2, SubSeqOfConcat1
<1>5. QED
  BY <1>1, <1>3, <1>4

(* There is a phantom in the sequence.                                     *)
Fake(s) == \E i \in DOMAIN s : ~Real(s[i])

(* A packet more is a phantom, or changes nothing.                         *)
LEMMA FakeAppend ==
    ASSUME NEW S, NEW s \in Seq(S), NEW p \in S
    PROVE  Fake(Append(s, p)) <=> Fake(s) \/ ~Real(p)
<1>1. /\ DOMAIN s = 1 .. Len(s) /\ DOMAIN Append(s, p) = 1 .. Len(s) + 1 /\ Len(s) \in Nat
      /\ \A i \in 1 .. Len(s) : Append(s, p)[i] = s[i]
      /\ Append(s, p)[Len(s) + 1] = p
  BY AppendProperties, LenProperties
<1>2. DOMAIN Append(s, p) = DOMAIN s \union {Len(s) + 1}
  BY <1>1
<1>3. QED
  BY <1>1, <1>2 DEF Fake

(* PhantomSeen, with Fake.                                                 *)
LEMMA PhantomIsFake == PhantomSeen <=> Fake(recorded) \/ Fake(handled)
  BY DEF PhantomSeen, Fake

(* At first no delimiter was read.                                         *)
LEMMA HeldInit == GameInit => HeldInv
<1> SUFFICES ASSUME GameInit PROVE HeldInv
  OBVIOUS
<1>1. delivered = <<>> /\ game = "select"
  BY DEF GameInit, Init
<1>2. ~Odd(delivered)
  BY <1>1, KeptEmpty, EmptySeq DEF Odd
<1>3. QED
  BY <1>1, <1>2 DEF HeldInv

(* A packet from the connection.                                           *)
LEMMA HeldGot ==
    ASSUME GameTypeInv, OrderInv, HeldInv, NEW p \in Packets, Got(p), ~PhantomSeen'
    PROVE  HeldInv'
<1>1. /\ delivered \in Seq(Packets) /\ handled \in Seq(Packets) /\ recorded \in Seq(Packets)
      /\ handled' = handled /\ current = <<>>
  BY LineTypes DEF Got
<1>2. ~PhantomSeen /\ (~IsDelimiter(p) => Real(p))
  <2>1. recorded' = IF IsDelimiter(p) THEN recorded ELSE Append(recorded, p)
    BY DEF Got, MainGot, BundleGot
  <2>2. PhantomSeen' <=> Fake(recorded') \/ Fake(handled')
    BY DEF PhantomSeen, Fake, Real
  <2>3. QED
    BY <1>1, <2>1, <2>2, FakeAppend, PhantomIsFake
<1>3. \/ delivered' = Append(delivered, p) /\ Real(p)
      \/ delivered' = delivered /\ ~Real(p) /\ IsDelimiter(p)
  BY <1>2, PacketTypes DEF Got, GameTypeInv, GameTypeOK
<1> PICK d2 : d2 = delivered'
  OBVIOUS
<1>4. Odd(d2) <=> IF d2 # delivered /\ IsDelimiter(p) THEN ~Odd(delivered) ELSE Odd(delivered)
  <2>1. CASE d2 = delivered
    BY <2>1
  <2>2. CASE d2 # delivered
    <3>1. d2 = Append(delivered, p) /\ Real(p)
      BY <1>3, <2>2
    <3>2. p \in Delimiters <=> IsDelimiter(p)
      BY <3>1, PacketTypes
    <3>3. Odd(Append(delivered, p)) <=> IF p \in Delimiters THEN ~Odd(delivered) ELSE Odd(delivered)
      BY <1>1, OddAppend
    <3>4. QED
      BY <2>2, <3>1, <3>2, <3>3
  <2>3. QED
    BY <2>1, <2>2
<1>5. /\ game = "read" => /\ ~Odd(delivered)
                          /\ IF IsDelimiter(p) THEN game' = "open" /\ Head(current') = p ELSE game' = "handle"
      /\ game = "bundle" => /\ Odd(delivered)
                            /\ IF IsDelimiter(p) THEN game' = "close" /\ Head(current') = p
                               ELSE game' \in {"bundle", "returned"}
      /\ game \in {"read", "bundle"}
  BY <1>2 DEF Got, MainGot, BundleGot, HeldInv
<1>6. ASSUME Odd(d2)
      PROVE  \E i : /\ IsLast(d2, i)
                   /\ Len(Kept(handled, PlainPackets)) <= Len(Kept(SubSeq(d2, 1, i), PlainPackets))
  <2>1. CASE Odd(delivered)
    <3>1. PICK i : /\ IsLast(delivered, i)
                   /\ Len(Kept(handled, PlainPackets)) <= Len(Kept(SubSeq(delivered, 1, i), PlainPackets))
      BY <1>2, <2>1 DEF HeldInv
    <3>2. CASE d2 = delivered
      BY <3>1, <3>2
    <3>3. CASE d2 # delivered
      <4>1. d2 = Append(delivered, p) /\ p \notin Delimiters
        BY <1>3, <1>4, <1>6, <2>1, <3>3, PacketTypes
      <4>2. IsLast(Append(delivered, p), i) /\ SubSeq(Append(delivered, p), 1, i) = SubSeq(delivered, 1, i)
        BY <1>1, <3>1, <4>1, LastStays
      <4>3. IsLast(d2, i) /\ SubSeq(d2, 1, i) = SubSeq(delivered, 1, i)
        BY <3>1, <4>1, <4>2, Zenon
      <4>4. QED
        BY <3>1, <4>3
    <3>4. QED
      BY <3>2, <3>3
  <2>2. CASE ~Odd(delivered)
    <3>1. d2 = Append(delivered, p) /\ p \in Delimiters /\ p \notin PlainPackets /\ game = "read"
      BY <1>3, <1>4, <1>5, <1>6, <2>2, PacketTypes
    <3>2. /\ IsLast(Append(delivered, p), Len(delivered) + 1)
          /\ SubSeq(Append(delivered, p), 1, Len(delivered) + 1) = Append(delivered, p)
      BY <1>1, <3>1, LastAppend
    <3>3. Line = handled
      BY <1>1, <3>1, ConcatEmptySeq DEF Line, GameTypeInv, ControlInv
    <3>4. Kept(Append(delivered, p), PlainPackets) = Kept(handled, PlainPackets)
      BY <1>1, <3>1, <3>3, KeptAppend DEF OrderInv
    <3>5. Len(Kept(handled, PlainPackets)) \in Nat
      BY <1>1, KeptType, LenProperties
    <3>6. Kept(SubSeq(d2, 1, Len(delivered) + 1), PlainPackets) = Kept(handled, PlainPackets)
      BY <3>1, <3>2, <3>4, Zenon
    <3>7. IsLast(d2, Len(delivered) + 1)
      BY <3>1, <3>2
    <3>8. QED
      BY <3>5, <3>6, <3>7
  <2>3. QED
    BY <2>1, <2>2
<1>7. /\ Odd(delivered)' <=> Odd(d2)
      /\ \A i : IsLast(delivered, i)' <=> IsLast(d2, i)
      /\ Kept(handled, PlainPackets)' = Kept(handled, PlainPackets)
      /\ \A i : Kept(SubSeq(delivered, 1, i), PlainPackets)' = Kept(SubSeq(d2, 1, i), PlainPackets)
  BY <1>1 DEF Odd, IsLast, Delimiters, PlainPackets
<1>8. QED
  BY <1>3, <1>4, <1>5, <1>6, <1>7 DEF HeldInv, Real

(* A packet HandleGame has handled: x, not a phantom.                      *)
LEMMA HeldHandled ==
    ASSUME GameTypeInv, HeldInv, NEW x \in Packets,
           handled' = Append(handled, x), recorded' = recorded, delivered' = delivered,
           ~PhantomSeen'
    PROVE  /\ ~PhantomSeen /\ Real(x)
           /\ Odd(delivered)' <=> Odd(delivered)
           /\ \A i : IsLast(delivered, i)' <=> IsLast(delivered, i)
           /\ IsDelimiter(x) => Kept(handled, PlainPackets)' = Kept(handled, PlainPackets)
<1>1. handled \in Seq(Packets)
  BY LineTypes
<1>2. ~PhantomSeen /\ Real(x)
  <2>1. PhantomSeen' <=> Fake(recorded) \/ Fake(Append(handled, x))
    BY DEF PhantomSeen, Fake, Real
  <2>2. QED
    BY <1>1, <2>1, FakeAppend, PhantomIsFake
<1>3. ASSUME IsDelimiter(x) PROVE Kept(handled, PlainPackets)' = Kept(handled, PlainPackets)
  <2>1. Kept(Append(handled, x), PlainPackets) = Kept(handled, PlainPackets)
    BY <1>1, <1>3, KeptAppend, PacketTypes
  <2>2. QED
    BY <2>1 DEF PlainPackets
<1>4. /\ Odd(delivered)' <=> Odd(delivered)
      /\ \A i : IsLast(delivered, i)' <=> IsLast(delivered, i)
  BY DEF Odd, IsLast, Delimiters
<1>5. QED
  BY <1>2, <1>3, <1>4

(* Every step holds the packets of an open bundle back.                    *)
LEMMA HeldStep == GameTypeInv /\ OrderInv /\ HeldInv /\ [GameNext]_allVars => HeldInv'
<1> SUFFICES ASSUME GameTypeInv, OrderInv, HeldInv, [GameNext]_allVars, ~PhantomSeen' PROVE HeldInv'
  BY DEF HeldInv
<1>1. ASSUME NEW p \in Packets, Got(p) PROVE HeldInv'
  BY <1>1, HeldGot
<1>2. ASSUME UNCHANGED <<current, recorded, handled, delivered>>,
             \/ game' \in {game, "returned"}
             \/ game \in {"select", "bundled"} /\ game' \in {"select", "read"}
             \/ game' = "returned"
      PROVE  HeldInv'
  <2>1. ~PhantomSeen
    BY <1>2 DEF PhantomSeen, Real
  <2>2. /\ Odd(delivered)' <=> Odd(delivered)
        /\ \A i : IsLast(delivered, i)' <=> IsLast(delivered, i)
        /\ Kept(handled, PlainPackets)' = Kept(handled, PlainPackets)
        /\ \A i : Kept(SubSeq(delivered, 1, i), PlainPackets)' = Kept(SubSeq(delivered, 1, i), PlainPackets)
    BY <1>2 DEF Odd, IsLast, Delimiters, PlainPackets
  <2>3. QED
    BY <1>2, <2>1, <2>2 DEF HeldInv, Real
<1>3. CASE HandleGameHandle \/ HandleGameBundled
  <2>1. PICK x \in Packets : handled' = Append(handled, x)
    BY <1>3, MaybePackets, LineTypes, HeadTailProperties
    DEF HandleGameHandle, HandleGameBundled, GameTypeInv, ControlInv
  <2>2. /\ recorded' = recorded /\ delivered' = delivered
        /\ game \in {"handle", "bundled"} /\ game' \in {"select", "bundled"}
    BY <1>3 DEF HandleGameHandle, HandleGameBundled, vars, readerVars
  <2>3. ~PhantomSeen /\ (Odd(delivered)' <=> Odd(delivered))
    BY <2>1, <2>2, HeldHandled
  <2>4. ~Odd(delivered)
    BY <2>2, <2>3 DEF HeldInv
  <2>5. QED
    BY <2>2, <2>3, <2>4 DEF HeldInv
<1>4. CASE HandleGameOpen \/ HandleGameClose
  <2> DEFINE x == Head(current)
  <2>1. x \in Packets /\ IsDelimiter(x)
    BY <1>4, MaybePackets DEF HandleGameOpen, HandleGameClose, GameTypeInv, ControlInv
  <2>2. /\ handled' = Append(handled, x) /\ recorded' = recorded /\ delivered' = delivered
        /\ \/ game = "open" /\ game' = "bundle"
           \/ game = "close" /\ game' = "bundled"
    BY <1>4 DEF HandleGameOpen, HandleGameClose, vars, readerVars
  <2>3. /\ ~PhantomSeen /\ Real(x)
        /\ Odd(delivered)' <=> Odd(delivered)
        /\ \A i : IsLast(delivered, i)' <=> IsLast(delivered, i)
        /\ Kept(handled, PlainPackets)' = Kept(handled, PlainPackets)
    BY <2>1, <2>2, HeldHandled
  <2>4. \A i : Kept(SubSeq(delivered, 1, i), PlainPackets)' = Kept(SubSeq(delivered, 1, i), PlainPackets)
    BY <2>2 DEF PlainPackets
  <2>5. game = "open" => Odd(delivered)
    BY <2>3 DEF HeldInv
  <2>6. game = "close" => ~Odd(delivered)
    BY <2>3 DEF HeldInv
  <2>7. Odd(delivered) =>
              \E i : /\ IsLast(delivered, i)
                     /\ Len(Kept(handled, PlainPackets))
                            <= Len(Kept(SubSeq(delivered, 1, i), PlainPackets))
    BY <2>3 DEF HeldInv
  <2>8. QED
    BY <2>2, <2>3, <2>4, <2>5, <2>6, <2>7 DEF HeldInv
<1>5. QED
  BY <1>1, <1>2, <1>3, <1>4, Moves DEF Elsewhere, HandleGameSelect, HandleGameBundleDone, vars, readerVars

(* No packet of a bundle is handled before its closing delimiter came.     *)
THEOREM HeldCorrect == GameSpec => []BundleIsHeldBack
<1>1. GameTypeInv /\ HeldInv => BundleIsHeldBack
  <2> SUFFICES ASSUME GameTypeInv, HeldInv PROVE BundleIsHeldBack
    OBVIOUS
  <2>1. ASSUME Odd(delivered), ~PhantomSeen
        PROVE  Len(Kept(handled, PlainPackets))
                   <= Len(Kept(SubSeq(delivered, 1, LastDelimiter), PlainPackets))
    <3>1. PICK i : /\ IsLast(delivered, i)
                   /\ Len(Kept(handled, PlainPackets)) <= Len(Kept(SubSeq(delivered, 1, i), PlainPackets))
      BY <2>1 DEF HeldInv
    <3>2. DOMAIN delivered = 1 .. Len(delivered) /\ Len(delivered) \in Nat
      BY LineTypes, LenProperties
    <3>3. LastDelimiter = CHOOSE j : IsLast(delivered, j)
      BY DEF LastDelimiter, IsLast
    <3>4. \A j, k : IsLast(delivered, j) /\ IsLast(delivered, k) => j = k
      BY <3>2 DEF IsLast
    <3>5. LastDelimiter = i
      BY <3>1, <3>3, <3>4, Zenon
    <3>6. QED
      BY <3>1, <3>5
  <2>2. QED
    BY <2>1 DEF BundleIsHeldBack, GameTypeInv, LimitInv, Odd
<1>2. QED
  BY <1>1, GameTypeInit, GameTypeStep, LineInit, OrderInvStep, HeldInit, HeldStep, PTL DEF GameSpec
=============================================================================
