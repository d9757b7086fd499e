------------------------------ MODULE GameLoop ------------------------------
(***************************************************************************)
(* bot/ingame.go on top of Conn: the play loop HandleGame, which takes     *)
(* packets from the connection, holds back the packets of a bundle until   *)
(* its closing delimiter, runs the handlers and gives the packet's buffer  *)
(* back to the pool that ReadLoop takes buffers from.  This module         *)
(* composes HandleGame with Conn: ReadLoop and HandleGame share the queue  *)
(* recv and the pool of buffers, and run concurrently.  They end with two  *)
(* contexts: ctxDone of Conn is the one given to JoinServer, gameCtxDone   *)
(* the one given to HandleGame.                                            *)
(*                                                                         *)
(* A clientbound packet is a record [id, buf]: id is "delim" for the       *)
(* bundle delimiter or a member of PlainIds, buf is the buffer that holds  *)
(* its payload.  recorded and handled are histories.                       *)
(***************************************************************************)
EXTENDS Conn, Filters

CONSTANTS
    PlainIds,      (* packet IDs other than the bundle delimiter            *)
    Buffers,       (* payload buffers that can exist at once                *)
    NoBuffer,      (* the nil payload of a zero pk.Packet                   *)
    BundleLimit,   (* 4096 in the code: reads handleBundlePackets may make  *)
    MaxPhantoms    (* bound: packets nobody sent that HandleGame handles    *)
                   (* while nothing tells it to stop                        *)

ASSUME GameAssumption ==
    /\ "delim" \notin PlainIds
    /\ NoBuffer \notin Buffers
    /\ BundleLimit \in Nat \ {0}
    /\ MaxPhantoms \in Nat
    /\ Inbound = [id : {"delim"} \union PlainIds, buf : Buffers]

VARIABLES
    zeroId,        (* the packet that has ID 0 in this protocol version     *)
    gameCtxDone,   (* the context given to HandleGame is cancelled          *)
    game,          (* program counter of HandleGame                         *)
    current,       (* the packet being handled, <<>> or <<p>>               *)
    opening,       (* the open bundle's first delimiter, <<>> or <<p>>      *)
    bundle,        (* packets of the bundle not handled yet                 *)
    taken,         (* the buffer ReadLoop reads into, <<>> or <<b>>         *)
    pool,          (* how many times each buffer is in Conn.pool            *)
    recorded,      (* history: packets given to the replay recorder         *)
    handled        (* history: packets handlePacket returned nil for        *)

gameVars == <<zeroId, gameCtxDone, game, current, opening, bundle, taken, pool, recorded, handled>>
allVars == <<vars, gameVars>>

-----------------------------------------------------------------------------

(* What ReadPacket leaves in p when it returns a nil error without packet. *)
Phantom == [id |-> zeroId, buf |-> NoBuffer]

IsDelimiter(p) == p.id = "delim"

BuffersOf(s) == { s[i].buf : i \in DOMAIN s }

(* Buffers some packet or ReadLoop refers to.                              *)
InUse ==
    BuffersOf(recv) \union BuffersOf(current) \union BuffersOf(opening)
        \union BuffersOf(bundle) \union { taken[i] : i \in DOMAIN taken }

(* pool.Put; the nil payload of a phantom is put back too, and is as good  *)
(* as a new buffer to the next Get.                                        *)
Put(p) ==
    pool' = IF p.buf = NoBuffer THEN pool ELSE [pool EXCEPT ![p.buf] = @ + 1]

GameInit ==
    /\ Init
    /\ zeroId \in {"delim"} \union PlainIds
    /\ gameCtxDone = FALSE
    /\ game = "select"
    /\ current = <<>> /\ opening = <<>> /\ bundle = <<>>
    /\ taken = <<>>
    /\ pool = [b \in Buffers |-> 0]
    /\ recorded = <<>> /\ handled = <<>>

-----------------------------------------------------------------------------
(* ReadLoop, with the pool *)

(* pool.Get: any buffer of the pool, or a new one; Buffers bounds how many *)
(* there can be.                                                           *)
New(b) == b \in Buffers /\ pool[b] = 0 /\ b \notin InUse
NewBuffer == CHOOSE b \in Buffers : New(b)

ReadLoopGet ==
    /\ ReadLoopSelect
    /\ IF ctxDone
       THEN UNCHANGED <<taken, pool>>
       ELSE \/ /\ \E b \in Buffers : New(b)
               /\ taken' = <<NewBuffer>>
               /\ UNCHANGED pool
            \/ \E b \in Buffers :
                  /\ pool[b] > 0
                  /\ taken' = <<b>>
                  /\ pool' = [pool EXCEPT ![b] = @ - 1]
    /\ UNCHANGED <<zeroId, gameCtxDone, game, current, opening, bundle, recorded, handled>>

ReadLoopFill ==
    /\ \E p \in Inbound : taken = <<p.buf>> /\ ReadLoopPacket(p)
    /\ taken' = <<>>
    /\ UNCHANGED <<zeroId, gameCtxDone, game, current, opening, bundle, pool, recorded, handled>>

ReadLoopEnd ==
    /\ ReadLoopFail \/ ReadLoopClose
    /\ UNCHANGED gameVars

-----------------------------------------------------------------------------
(* HandleGame *)

(* HandleGame's own context, not the one ReadLoop looks at.                *)
HandleGameSelect ==
    /\ game = "select"
    /\ game' = IF gameCtxDone THEN "returned" ELSE "read"
    /\ UNCHANGED <<vars, zeroId, gameCtxDone, current, opening, bundle, taken, pool, recorded, handled>>

(* The read of the main loop: an ordinary packet is recorded before it is  *)
(* handled, a delimiter is not recorded.                                   *)
MainGot(p) ==
    /\ current' = <<p>>
    /\ game' = IF IsDelimiter(p) THEN "open" ELSE "handle"
    /\ recorded' = IF IsDelimiter(p) THEN recorded ELSE Append(recorded, p)
    /\ UNCHANGED bundle

(* Mutant: bundled packets are not recorded.                               *)
BundleGotUnrecorded(p) ==
    IF IsDelimiter(p)
    THEN current' = <<p>> /\ game' = "close" /\ UNCHANGED <<bundle, recorded>>
    ELSE bundle' = Append(bundle, p) /\ UNCHANGED <<recorded, current>>
         /\ game' = IF Len(bundle) + 1 = BundleLimit THEN "returned" ELSE "bundle"

(* The read of handleBundlePackets: packets are recorded and collected     *)
(* until the closing delimiter or the limit.                               *)
BundleGot(p) ==
    IF IsDelimiter(p)
    THEN /\ current' = <<p>>
         /\ game' = "close"
         /\ UNCHANGED <<bundle, recorded>>
    ELSE /\ bundle' = Append(bundle, p)
         /\ recorded' = Append(recorded, p)
         /\ game' = IF Len(bundle) + 1 = BundleLimit THEN "returned" ELSE "bundle"
         /\ UNCHANGED current

(* conn.ReadPacket: a packet, a phantom (nil error, no packet) or an error *)
(* Once ReadLoop left without an error every read is a phantom, and the    *)
(* main loop makes them until its context ends; MaxPhantoms bounds them.   *)
HandleGameRead ==
    /\ game \in {"read", "bundle"}
    /\ \/ /\ ReadPacketTake
          /\ IF game = "read" THEN MainGot(Head(recv)) ELSE BundleGot(Head(recv))
       \/ /\ ReadPacketError
          /\ rerr = "nil"
          /\ game = "read" =>
                gameCtxDone \/ Len(Kept(handled, {Phantom})) < MaxPhantoms
          /\ IF game = "read" THEN MainGot(Phantom) ELSE BundleGot(Phantom)
       \/ /\ ReadPacketError
          /\ rerr # "nil"
          /\ game' = "returned"
          /\ UNCHANGED <<current, bundle, recorded>>
    /\ UNCHANGED <<zeroId, gameCtxDone, opening, taken, pool, handled>>

(* handlePacket on an ordinary packet, then pool.Put.                      *)
HandleGameHandle ==
    /\ game = "handle"
    /\ handled' = Append(handled, Head(current))
    /\ Put(Head(current))
    /\ current' = <<>>
    /\ game' = "select"
    /\ UNCHANGED <<vars, zeroId, gameCtxDone, opening, bundle, taken, recorded>>

(* Mutant: the delimiter's buffer is put back at once, and after the       *)
(* bundle again.                                                           *)
HandleGameOpenPuts ==
    /\ game = "open"
    /\ handled' = Append(handled, Head(current))
    /\ Put(Head(current))
    /\ opening' = current
    /\ current' = <<>>
    /\ game' = "bundle"
    /\ UNCHANGED <<vars, zeroId, gameCtxDone, bundle, taken, recorded>>

(* Mutant: the delimiter is handled like any packet.                       *)
HandleGameOpenGoesOn ==
    /\ game = "open"
    /\ handled' = Append(handled, Head(current))
    /\ Put(Head(current))
    /\ current' = <<>>
    /\ game' = "select"
    /\ UNCHANGED <<vars, zeroId, gameCtxDone, opening, bundle, taken, recorded>>

(* handlePacket on the opening delimiter, whose buffer is kept.            *)
HandleGameOpen ==
    /\ game = "open"
    /\ handled' = Append(handled, Head(current))
    /\ opening' = current
    /\ current' = <<>>
    /\ game' = "bundle"
    /\ UNCHANGED <<vars, zeroId, gameCtxDone, bundle, taken, pool, recorded>>

(* handlePacket on the closing delimiter, before any bundled packet.       *)
HandleGameClose ==
    /\ game = "close"
    /\ handled' = Append(handled, Head(current))
    /\ Put(Head(current))
    /\ current' = <<>>
    /\ game' = "bundled"
    /\ UNCHANGED <<vars, zeroId, gameCtxDone, opening, bundle, taken, recorded>>

(* Mutant: the last packet of the bundle first.                            *)
HandleGameBundledBackwards ==
    /\ game = "bundled"
    /\ bundle # <<>>
    /\ handled' = Append(handled, bundle[Len(bundle)])
    /\ Put(bundle[Len(bundle)])
    /\ bundle' = SubSeq(bundle, 1, Len(bundle) - 1)
    /\ UNCHANGED <<vars, zeroId, gameCtxDone, game, current, opening, taken, recorded>>

HandleGameBundled ==
    /\ game = "bundled"
    /\ bundle # <<>>
    /\ handled' = Append(handled, Head(bundle))
    /\ Put(Head(bundle))
    /\ bundle' = Tail(bundle)
    /\ UNCHANGED <<vars, zeroId, gameCtxDone, game, current, opening, taken, recorded>>

HandleGameBundleDone ==
    /\ game = "bundled"
    /\ bundle = <<>>
    /\ Put(Head(opening))
    /\ opening' = <<>>
    /\ game' = "select"
    /\ UNCHANGED <<vars, zeroId, gameCtxDone, current, bundle, taken, recorded, handled>>

(* A handler returns an error: HandleGame returns it, no buffer is put     *)
(* back, and the rest of a bundle is never handled.                        *)
HandleGameFail ==
    /\ game \in {"handle", "open", "close", "bundled"}
    /\ game = "bundled" => bundle # <<>>
    /\ game' = "returned"
    /\ UNCHANGED <<vars, zeroId, gameCtxDone, current, opening, bundle, taken, pool, recorded, handled>>

HandleGame ==
    \/ HandleGameSelect \/ HandleGameRead \/ HandleGameHandle
    \/ HandleGameOpen \/ HandleGameClose
    \/ HandleGameBundled \/ HandleGameBundleDone \/ HandleGameFail

(* The send side of Conn shares no variable with HandleGame and is left    *)
(* out; what Close does to the receive side is to bring the socket down.   *)
Environment ==
    /\ SocketDown \/ Cancel
    /\ UNCHANGED gameVars

(* The end of HandleGame's context; after HandleGame nothing looks at it.  *)
CancelGame ==
    /\ ~gameCtxDone
    /\ game # "returned"
    /\ gameCtxDone' = TRUE
    /\ UNCHANGED <<vars, zeroId, game, current, opening, bundle, taken, pool, recorded, handled>>

GameNext == ReadLoopGet \/ ReadLoopFill \/ ReadLoopEnd \/ HandleGame
            \/ Environment \/ CancelGame

(* As in Conn; handlers return, so HandleGame always takes its next step.  *)
GameFairness ==
    /\ WF_allVars(ReadLoopGet)
    /\ WF_allVars(~socketUp /\ ReadLoopEnd)
    /\ WF_allVars(readLoop = "closing" /\ ReadLoopEnd)
    /\ WF_allVars(HandleGame)

GameSpec == GameInit /\ [][GameNext]_allVars
GameFairSpec == GameSpec /\ GameFairness

-----------------------------------------------------------------------------
(* Properties *)

Real(p) == p.buf # NoBuffer

(* What the server sent: ordinary packets and delimiters; and what is      *)
(* recorded, a phantom that is no delimiter included.                      *)
PlainPackets == [id : PlainIds, buf : Buffers]
Delimiters == [id : {"delim"}, buf : Buffers]
Recordable == [id : PlainIds, buf : Buffers \union {NoBuffer}]

(* A buffer has one owner: the pool, ReadLoop, a packet in recv or a       *)
(* packet HandleGame has not finished with.  ReadLoop therefore never      *)
(* overwrites the payload of a packet that is still to be handled, not     *)
(* even of one held back in a bundle.                                      *)
BufferHasOneOwner ==
    LET owned == recv \o current \o opening \o bundle
                    \o [i \in DOMAIN taken |-> [id |-> "delim", buf |-> taken[i]]]
    IN  /\ \A i, j \in DOMAIN owned :
              (Real(owned[i]) /\ owned[i].buf = owned[j].buf) => i = j
        /\ \A b \in Buffers : pool[b] <= 1 /\ (b \in InUse => pool[b] = 0)

(* Ordinary packets are handled each once and in arrival order, bundled or *)
(* not, whatever fails on the way; and handlers see a packet the server    *)
(* never sent only after the cancellation of JoinServer's context.         *)
HandledInOrder ==
    /\ Kept(handled \o bundle \o current, PlainPackets) = Kept(delivered, PlainPackets)
    /\ (\E i \in DOMAIN handled : ~Real(handled[i])) => ctxDone

(* Nothing of a bundle is handled before its closing delimiter came: while *)
(* an odd number of delimiters has been read, what was handled precedes    *)
(* the last of them.  And no bundle is held back for ever: it ends at the  *)
(* limit.                                                                  *)
LastDelimiter ==
    CHOOSE i \in DOMAIN delivered :
        /\ delivered[i] \in Delimiters
        /\ \A j \in DOMAIN delivered : delivered[j] \in Delimiters => j <= i

PhantomSeen ==
    \/ \E i \in DOMAIN recorded : ~Real(recorded[i])
    \/ \E i \in DOMAIN handled : ~Real(handled[i])

BundleIsHeldBack ==
    /\ (Len(Kept(delivered, Delimiters)) % 2 = 1 /\ ~PhantomSeen) =>
          Len(Kept(handled, PlainPackets))
              <= Len(Kept(SubSeq(delivered, 1, LastDelimiter), PlainPackets))
    /\ Len(bundle) <= BundleLimit
    /\ Len(bundle) = BundleLimit => game = "returned"

(* Whenever HandleGame is between two packets, the replay holds exactly    *)
(* the ordinary packets that were handled, in the order of handling.       *)
ReplayMatchesHandling ==
    game = "select" => recorded = Kept(handled, Recordable)

(* HandleGame reads packets nobody sent for ever: ReadLoop left because    *)
(* the context of JoinServer ended, which is no error to ReadPacket, and   *)
(* the context of HandleGame has not ended.                                *)
ReadsNothing == recvClosed /\ rerr = "nil" /\ ~gameCtxDone

(* A dead socket, a closed connection included, ends HandleGame, and so    *)
(* does the end of ReadLoop: HandleGame is never left waiting in           *)
(* ReadPacket, not even inside a bundle.  The one way it goes on is        *)
(* ReadsNothing, for ever: the end of its own context ends it.             *)
DeadSocketEndsGame ==
    (~socketUp \/ recvClosed) ~> (game = "returned" \/ []ReadsNothing)

=============================================================================
