--------------------------- MODULE ScreenSession ---------------------------
(***************************************************************************)
(* The screen manager of bot/screen in a play session: the server it       *)
(* talks to, and the two ordered streams of packets between them.  The     *)
(* server is not in this repository; it is modelled by what screen.go says *)
(* of it: it opens one window at a time and reuses IDs, addresses the      *)
(* player's rows through the open window and never resends them on close   *)
(* (lines 1121-1128), advances its state ID when it processes a click and  *)
(* answers with a slot update (lines 252-257), and does not confirm a      *)
(* close the client asked for (lines 724-726).  An update it sends leaves  *)
(* with the state ID the server has then.                                  *)
(***************************************************************************)
EXTENDS ScreenManager

CONSTANTS
    Closers,       (* goroutines that close windows from the client's side  *)
    MaxChanges,    (* bound: changes of the player's rows                   *)
    MaxOpens       (* bound: windows the server opens                       *)

(* A container has its own slots alone or all of the player's rows after   *)
(* them (containerTypeRegistry, generic_container.go:119-147).             *)
ASSUME SessionAssumption ==
    /\ Closers \subseteq Users
    /\ MainLength > 0
    /\ \A layout \in Layouts :
          layout.total \in {layout.own, layout.own + MainLength + HotbarLength}
    /\ MaxChanges \in Nat /\ MaxOpens \in Nat

VARIABLES
    link,          (* packets on their way to the client                    *)
    uplink,        (* packets on their way to the server                    *)
    truth,         (* the player's inventory as the server has it           *)
    win,           (* the window the server has open for the player, or 0   *)
    winLayout,     (* its layout                                            *)
    serverState,   (* the server's state ID                                 *)
    asked,         (* windows whose ServerboundContainerClose was written   *)
    clientCloses,  (* history: the client has asked for a close             *)
    dropped,       (* history: a packet met a window that was closed        *)
    changes,       (* changes so far                                        *)
    opens          (* windows opened so far                                 *)

serverVars == <<truth, win, winLayout, serverState, changes, opens>>
closing == <<asked, clientCloses, dropped>>
sessionVars == <<vars, link, uplink, serverVars, closing>>

-----------------------------------------------------------------------------

AllRows == MainStart .. (HotbarStart + HotbarLength - 1)

OpenPacket(id, layout) == [type |-> "open", id |-> id, layout |-> layout]
ContentPacket(id, s, data) == [type |-> "content", id |-> id, state |-> s, data |-> data]
SlotPacket(id, s, i, v) == [type |-> "slot", id |-> id, state |-> s, slot |-> i, item |-> v]
ClosePacket(id) == [type |-> "close", id |-> id]
ClickPacket(s) == [type |-> "click", state |-> s]

(* The server's view of the open window: its own slots stay empty here.    *)
WindowContent(layout) ==
    [j \in Slots(layout.total) |->
        IF j < layout.own THEN Empty ELSE truth[MainStart + (j - layout.own)]]

(* An update of row i, as the server addresses it in this moment.          *)
RowUpdate(s, i, v) ==
    IF win = 0 \/ winLayout.total = winLayout.own
    THEN SlotPacket(0, s, i, v)
    ELSE SlotPacket(win, s, winLayout.own + (i - MainStart), v)

SessionInit ==
    /\ Init
    /\ link = <<>> /\ uplink = <<>>
    /\ truth = inventory
    /\ win = 0 /\ winLayout \in Layouts
    /\ serverState = 0
    /\ asked = {} /\ clientCloses = FALSE /\ dropped = FALSE
    /\ changes = 0 /\ opens = 0

-----------------------------------------------------------------------------
(* The server *)

ServerOpen(id, layout) ==
    /\ win = 0
    /\ opens < MaxOpens
    /\ opens' = opens + 1
    /\ win' = id
    /\ winLayout' = layout
    /\ serverState' = serverState + 1
    /\ link' = link \o <<OpenPacket(id, layout),
                         ContentPacket(id, serverState', WindowContent(layout))>>
    /\ UNCHANGED <<vars, uplink, truth, closing, changes>>

ServerClose ==
    /\ win # 0
    /\ win' = 0
    /\ link' = Append(link, ClosePacket(win))
    /\ UNCHANGED <<vars, uplink, truth, winLayout, serverState, closing, changes, opens>>

(* Something is picked up, crafted or moved.                               *)
ServerChange(i, v) ==
    /\ changes < MaxChanges
    /\ changes' = changes + 1
    /\ truth' = [truth EXCEPT ![i] = v]
    /\ serverState' = serverState + 1
    /\ link' = Append(link, RowUpdate(serverState', i, v))
    /\ UNCHANGED <<vars, uplink, win, winLayout, closing, opens>>

(* A click is processed and acknowledged, a close is taken note of.        *)
ServerReceive ==
    /\ uplink # <<>>
    /\ uplink' = Tail(uplink)
    /\ LET p == Head(uplink)
       IN  \/ /\ p.type = "click"
              /\ serverState' = serverState + 1
              /\ link' = Append(link, RowUpdate(serverState', MainStart, truth[MainStart]))
              /\ UNCHANGED win
           \/ /\ p.type = "close"
              /\ win' = IF win = p.id THEN 0 ELSE win
              /\ UNCHANGED <<serverState, link>>
    /\ UNCHANGED <<vars, truth, winLayout, closing, changes, opens>>

-----------------------------------------------------------------------------
(* The client: the game goroutine takes the next packet, and the others    *)
(* click and close.                                                        *)

OnPacket(p) ==
    \/ p.type = "open" /\ OnOpenScreen(p.id, p.layout)
    \/ p.type = "content" /\ OnSetWindowContent(p.id, p.state, p.data, Empty)
    \/ p.type = "content" /\ p.id \notin DOMAIN screens /\ IsAt(Game, "idle") /\ UNCHANGED vars
    \/ p.type = "slot" /\ p.id = 0 /\ OnSetSlotInventory(p.state, p.slot, p.item)
    \/ p.type = "slot" /\ OnSetSlotWindow(p.id, p.state, p.slot, p.item)
    \/ p.type = "slot" /\ p.id # 0 /\ OnSetSlotClosed(p.id, p.state)
    \/ p.type = "close" /\ OnCloseScreen(p.id)
    \/ p.type = "close" /\ p.id \notin DOMAIN screens /\ IsAt(Game, "idle") /\ UNCHANGED vars

MeetsClosedWindow(p) ==
    p.type \in {"content", "slot"} /\ p.id \notin DOMAIN screens \union {0}

ClientReceive ==
    /\ link # <<>>
    /\ link' = Tail(link)
    /\ OnPacket(Head(link))
    /\ dropped' = (dropped \/ MeetsClosedWindow(Head(link)))
    /\ UNCHANGED <<uplink, serverVars, asked, clientCloses>>

ClientNotify ==
    /\ Notifications
    /\ UNCHANGED <<link, uplink, serverVars, closing>>

ClientClick(t) ==
    /\ Clicks(t)
    /\ uplink' = IF declared' = declared
                 THEN uplink ELSE Append(uplink, ClickPacket(declared'[Len(declared')]))
    /\ UNCHANGED <<link, serverVars, closing>>

(* ServerboundContainerClose is written first, ForceCloseScreen follows.   *)
ClientAsksClose(id) ==
    /\ Closers # {}
    /\ id \in DOMAIN screens \ asked
    /\ asked' = asked \union {id}
    /\ clientCloses' = TRUE
    /\ uplink' = Append(uplink, ClosePacket(id))
    /\ UNCHANGED <<vars, link, serverVars, dropped>>

ClientForceClose(t, id) ==
    /\ id \in asked
    /\ asked' = asked \ {id}
    /\ \/ ForceCloseScreen(t, id)
       \/ id \notin DOMAIN screens /\ UNCHANGED vars
    /\ UNCHANGED <<link, uplink, serverVars, clientCloses, dropped>>

Server ==
    \/ \E id \in WindowIds, layout \in Layouts : ServerOpen(id, layout)
    \/ ServerClose
    \/ \E i \in AllRows, v \in Items : ServerChange(i, v)
    \/ ServerReceive

Client ==
    \/ ClientReceive
    \/ ClientNotify
    \/ \E t \in Clickers : ClientClick(t)
    \/ \E id \in WindowIds :
          \/ ClientAsksClose(id)
          \/ \E t \in Closers : ClientForceClose(t, id)

SessionNext == Server \/ Client

SessionSpec == SessionInit /\ [][SessionNext]_sessionVars

-----------------------------------------------------------------------------
(* Properties *)

(* No packet is on its way and no goroutine inside an operation.           *)
Settled ==
    /\ link = <<>> /\ uplink = <<>>
    /\ asked = {}
    /\ \A t \in Threads : IsAt(t, "idle")

Fresh == \A i \in AllRows : inventory[i] = truth[i]

(* Once every packet has been handled the inventory is the server's,       *)
(* whether the changes came through a window or not and whoever closed the *)
(* window, unless an update met a window that was closed.                  *)
InventoryFresh == (Settled /\ ~dropped) => Fresh

(* While the server alone closes windows: once every packet has been       *)
(* handled the client has open the window the server has open, no other.   *)
WindowsAgree ==
    (Settled /\ ~clientCloses) => DOMAIN screens = IF win = 0 THEN {} ELSE {win}

(* The state ID the next click declares is never behind the server's once  *)
(* all of the server's packets have been handled, with the same exception. *)
NeverBehind == (Settled /\ ~dropped) => stateID >= serverState

=============================================================================
