--------------------------- MODULE ScreenManager ---------------------------
(***************************************************************************)
(* bot/screen: the manager of the windows the server opens, the player's   *)
(* inventory, the cursor and the container state ID.  The game goroutine   *)
(* runs the packet handlers one at a time; other goroutines call           *)
(* ForceCloseScreen, ContainerClick and SetCursor at any moment.  manager  *)
(* .mu makes each locked section atomic, but a handler releases it before  *)
(* it notifies the listener, and onOpenScreen and ContainerClick take it   *)
(* twice: these are the steps of this specification.                       *)
(*                                                                         *)
(* Slots are numbered from 0, as in the code.  balance and declared are    *)
(* histories: what the listener was told and what the clicks declared.     *)
(***************************************************************************)
EXTENDS Integers, Sequences, FiniteSets

CONSTANTS
    WindowIds,       (* IDs of the windows other than 0                     *)
    Layouts,         (* [own, total]: a container type's own slots and all  *)
    Items,           (* item stacks                                         *)
    Empty,           (* the empty stack, the zero Slot                      *)
    Users,           (* goroutines other than the game goroutine            *)
    Clickers,        (* the goroutines, of all, that call ContainerClick    *)
    InventorySize,   (* 46: slots of the inventory, window 0                *)
    MainStart,       (* 9: inventory slot of the first main slot            *)
    MainLength,      (* 27                                                  *)
    HotbarLength,    (* 9                                                   *)
    StateIds,        (* state IDs the server's packets may carry            *)
    MaxUpdates,      (* bound: inventory packets                            *)
    MaxClicks        (* bound: clicks sent                                  *)

Game == "game"
Threads == {Game} \union Users
HotbarStart == MainStart + MainLength

ASSUME ScreenAssumption ==
    /\ WindowIds \subseteq (Nat \ {0})
    /\ Layouts \subseteq [own : Nat, total : Nat]
    /\ Empty \in Items
    /\ Game \notin Users
    /\ IsFiniteSet(Users)
    /\ Clickers \subseteq Threads
    /\ InventorySize \in Nat /\ MainStart \in Nat
    /\ MainLength \in Nat /\ HotbarLength \in Nat
    /\ HotbarStart + HotbarLength <= InventorySize
    /\ StateIds \subseteq Nat
    /\ MaxUpdates \in Nat /\ MaxClicks \in Nat

VARIABLES
    screens,              (* manager.screens without entry 0: ID -> window  *)
    listed,               (* entry 0, the inventory, is in manager.screens  *)
    inventory,            (* manager.inventory                              *)
    cursor,               (* manager.cursor                                 *)
    stateID,              (* manager.stateID                                *)
    serverUpdateVersion,  (* manager.serverUpdateVersion                    *)
    thread,               (* where each goroutine is                        *)
    balance,              (* history: Open minus Close notifications per ID *)
    declared              (* history: state IDs of the clicks sent          *)

contents == <<inventory, cursor, serverUpdateVersion>>
vars == <<screens, listed, contents, stateID, thread, balance, declared>>

-----------------------------------------------------------------------------

Ids == {0} \union WindowIds

(* Steps of a goroutine: outside any operation, HandleGame returned, the   *)
(* listener about to be told of a close, the same within onOpenScreen, the *)
(* new window about to be installed, the listener about to be told of it,  *)
(* a click built with the state ID it read, and a click sent.              *)
Idle           == [at |-> "idle"]
Stopped        == [at |-> "stopped"]
Closing(id)    == [at |-> "closing", id |-> id]
Evicted(id, w) == [at |-> "evicted", id |-> id, window |-> w]
Install(id, w) == [at |-> "install", id |-> id, window |-> w]
Announce(id)   == [at |-> "announce", id |-> id]
Click(s)       == [at |-> "click", state |-> s]
Sent           == [at |-> "sent"]

IsAt(t, step) == thread[t].at = step
Become(t, step) == thread' = [thread EXCEPT ![t] = step]

(* A handler returns nil, or the listener's error, which ends HandleGame.  *)
HandlerReturns == \E step \in {Idle, Stopped} : Become(Game, step)

Slots(n) == 0 .. (n - 1)
NewWindow(layout) ==
    [own |-> layout.own, slots |-> [i \in Slots(layout.total) |-> Empty]]
HorseLayout(columns) ==
    [own |-> 2 + 3 * columns, total |-> 2 + 3 * columns + MainLength + HotbarLength]

(* OnSetSlot of every kind of container: all of data that lies in slots is *)
(* written; an index out of bounds is an error.                            *)
Written(slots, data) ==
    [i \in DOMAIN slots |-> IF i \in DOMAIN data THEN data[i] ELSE slots[i]]
Fits(slots, data) == DOMAIN data \subseteq DOMAIN slots

(* The player's rows of window w: inventory slot -> window slot.           *)
HasMain(w)   == w.own + MainLength - 1 \in DOMAIN w.slots
HasHotbar(w) == w.own + MainLength + HotbarLength - 1 \in DOMAIN w.slots
Rows(w) ==
    (IF HasMain(w) THEN MainStart .. (HotbarStart - 1) ELSE {})
        \union (IF HasHotbar(w) THEN HotbarStart .. (HotbarStart + HotbarLength - 1) ELSE {})
RowSlot(w, i) == w.own + (i - MainStart)

(* Mutant: the rows land one slot too far.                                 *)
MirroredShifted(w) ==
    [i \in DOMAIN inventory |->
        IF i - 1 \in Rows(w) THEN w.slots[RowSlot(w, i - 1)] ELSE inventory[i]]

(* Mutant: the inventory is not kept up with the window.                   *)
NotMirrored(w) == inventory

(* mirrorPlayerInventory: every row of the window, not only what changed.  *)
Mirrored(w) ==
    [i \in DOMAIN inventory |->
        IF i \in Rows(w) THEN w.slots[RowSlot(w, i)] ELSE inventory[i]]

(* Mutant: the packet's state ID is taken over even when it lags behind.   *)
TakeServerStateID(s) == stateID' = s

(* Mutant: the packet's state ID is not looked at.                         *)
IgnoreServerStateID(s) == UNCHANGED stateID

(* applyServerStateID *)
ApplyServerStateID(s) == stateID' = IF s > stateID THEN s ELSE stateID

(* recordServerUpdate *)
RecordServerUpdate ==
    /\ serverUpdateVersion < MaxUpdates
    /\ serverUpdateVersion' = serverUpdateVersion + 1

Remove(id) ==
    /\ screens' = [i \in DOMAIN screens \ {id} |-> screens[i]]
    /\ UNCHANGED listed

Notify(id, n) == balance' = [balance EXCEPT ![id] = @ + n]

(* NewManager; the inventory counts as a window the listener knows of.     *)
Init ==
    /\ screens = [id \in {} |-> 0]
    /\ listed = TRUE
    /\ inventory = [i \in Slots(InventorySize) |-> Empty]
    /\ cursor = Empty
    /\ stateID = 0
    /\ serverUpdateVersion = 0
    /\ thread = [t \in Threads |-> Idle]
    /\ balance = [id \in Ids |-> IF id = 0 THEN 1 ELSE 0]
    /\ declared = <<>>

-----------------------------------------------------------------------------
(* onOpenScreen and onOpenHorseScreen *)

(* A packet that does not parse, an unknown type or the ID 0: an error,    *)
(* before anything changes.                                                *)
PacketRefused ==
    /\ IsAt(Game, "idle")
    /\ Become(Game, Stopped)
    /\ UNCHANGED <<screens, listed, contents, stateID, balance, declared>>

(* evictStaleWindow, the locked part: a window that still holds the ID is  *)
(* taken out first.                                                        *)
OnOpenScreen(id, layout) ==
    /\ IsAt(Game, "idle")
    /\ \/ /\ id \in DOMAIN screens
          /\ Remove(id)
          /\ Become(Game, Evicted(id, NewWindow(layout)))
       \/ /\ id \notin DOMAIN screens
          /\ Become(Game, Install(id, NewWindow(layout)))
          /\ UNCHANGED <<screens, listed>>
    /\ UNCHANGED <<contents, stateID, balance, declared>>

OnOpenHorseScreen(id, columns) == OnOpenScreen(id, HorseLayout(columns))

(* evictStaleWindow tells the listener, without the lock.                  *)
NotifyEvicted ==
    /\ IsAt(Game, "evicted")
    /\ Notify(thread[Game].id, -1)
    /\ \E step \in {Install(thread[Game].id, thread[Game].window), Stopped} : Become(Game, step)
    /\ UNCHANGED <<screens, listed, contents, stateID, declared>>

InstallWindow ==
    /\ IsAt(Game, "install")
    /\ screens' = [i \in DOMAIN screens \union {thread[Game].id} |->
                      IF i = thread[Game].id THEN thread[Game].window ELSE screens[i]]
    /\ Become(Game, Announce(thread[Game].id))
    /\ UNCHANGED <<listed, contents, stateID, balance, declared>>

NotifyOpen ==
    /\ IsAt(Game, "announce")
    /\ Notify(thread[Game].id, 1)
    /\ HandlerReturns
    /\ UNCHANGED <<screens, listed, contents, stateID, declared>>

-----------------------------------------------------------------------------
(* onCloseScreen and ForceCloseScreen *)

(* Mutant: the window is closed but stays in screens.                      *)
CloseKeepsScreen(id) ==
    /\ IsAt(Game, "idle")
    /\ id \in DOMAIN screens
    /\ Become(Game, Closing(id))
    /\ UNCHANGED <<screens, listed, contents, stateID, balance, declared>>

(* A close for a window that is not open does nothing.                     *)
OnCloseScreen(id) ==
    /\ IsAt(Game, "idle")
    /\ id \in DOMAIN screens
    /\ Remove(id)
    /\ Become(Game, Closing(id))
    /\ UNCHANGED <<contents, stateID, balance, declared>>

(* The handler does not look at the ID: entry 0 goes like any other.       *)
OnCloseInventory ==
    /\ IsAt(Game, "idle")
    /\ listed
    /\ listed' = FALSE
    /\ Become(Game, Closing(0))
    /\ UNCHANGED <<screens, contents, stateID, balance, declared>>

(* Mutant: the listener is not told.                                       *)
ForceCloseSilently(t, id) ==
    /\ IsAt(t, "idle")
    /\ id \in DOMAIN screens
    /\ Remove(id)
    /\ UNCHANGED <<contents, stateID, thread, balance, declared>>

ForceCloseScreen(t, id) ==
    /\ IsAt(t, "idle")
    /\ id \in DOMAIN screens
    /\ Remove(id)
    /\ Become(t, Closing(id))
    /\ UNCHANGED <<contents, stateID, balance, declared>>

(* OnClose and events.Close, without the lock.                             *)
NotifyClose(t) ==
    /\ IsAt(t, "closing")
    /\ Notify(thread[t].id, -1)
    /\ IF t = Game THEN HandlerReturns ELSE Become(t, Idle)
    /\ UNCHANGED <<screens, listed, contents, stateID, declared>>

-----------------------------------------------------------------------------
(* Contents *)

(* onSetContentPacket for window 0 *)
OnSetInventoryContent(s, data, carried) ==
    /\ IsAt(Game, "idle")
    /\ ApplyServerStateID(s)
    /\ RecordServerUpdate
    /\ cursor' = carried
    /\ inventory' = Written(inventory, data)
    /\ IF Fits(inventory, data) THEN HandlerReturns ELSE Become(Game, Stopped)
    /\ UNCHANGED <<screens, listed, balance, declared>>

(* onSetContentPacket for another window: ignored when it is not open.     *)
OnSetWindowContent(id, s, data, carried) ==
    /\ IsAt(Game, "idle")
    /\ id \in DOMAIN screens
    /\ ApplyServerStateID(s)
    /\ RecordServerUpdate
    /\ cursor' = carried
    /\ LET w == [screens[id] EXCEPT !.slots = Written(@, data)]
       IN  /\ screens' = [screens EXCEPT ![id] = w]
           /\ IF Fits(w.slots, data)
              THEN inventory' = Mirrored(w) /\ HandlerReturns
              ELSE UNCHANGED inventory /\ Become(Game, Stopped)
    /\ UNCHANGED <<listed, balance, declared>>

(* OnSetSlot: state ID and version first, whatever the window; then the    *)
(* cursor (-1), the inventory (0 and -2), an open window, or nothing.      *)
OnSetSlotCursor(s, v) ==
    /\ IsAt(Game, "idle")
    /\ ApplyServerStateID(s)
    /\ RecordServerUpdate
    /\ cursor' = v
    /\ HandlerReturns
    /\ UNCHANGED <<screens, listed, inventory, balance, declared>>

OnSetSlotInventory(s, i, v) ==
    /\ IsAt(Game, "idle")
    /\ ApplyServerStateID(s)
    /\ RecordServerUpdate
    /\ inventory' = Written(inventory, [j \in {i} |-> v])
    /\ IF i \in DOMAIN inventory THEN HandlerReturns ELSE Become(Game, Stopped)
    /\ UNCHANGED <<screens, listed, cursor, balance, declared>>

OnSetSlotWindow(id, s, i, v) ==
    /\ IsAt(Game, "idle")
    /\ id \in DOMAIN screens
    /\ ApplyServerStateID(s)
    /\ RecordServerUpdate
    /\ LET w == [screens[id] EXCEPT !.slots = Written(@, [j \in {i} |-> v])]
       IN  /\ screens' = [screens EXCEPT ![id] = w]
           /\ IF i \in DOMAIN w.slots
              THEN inventory' = Mirrored(w) /\ HandlerReturns
              ELSE UNCHANGED inventory /\ Become(Game, Stopped)
    /\ UNCHANGED <<listed, cursor, balance, declared>>

OnSetSlotClosed(id, s) ==
    /\ IsAt(Game, "idle")
    /\ id \notin DOMAIN screens
    /\ ApplyServerStateID(s)
    /\ RecordServerUpdate
    /\ HandlerReturns
    /\ UNCHANGED <<screens, listed, inventory, cursor, balance, declared>>

(* Mutant: the update is not counted.                                      *)
SetPlayerInventoryUncounted(i, v) ==
    /\ IsAt(Game, "idle")
    /\ inventory' = Written(inventory, [j \in {i} |-> v])
    /\ UNCHANGED <<screens, listed, cursor, serverUpdateVersion, stateID, thread, balance, declared>>

(* onSetPlayerInventory: an index out of bounds is skipped, not an error.  *)
OnSetPlayerInventory(i, v) ==
    /\ IsAt(Game, "idle")
    /\ RecordServerUpdate
    /\ inventory' = Written(inventory, [j \in {i} |-> v])
    /\ IF i \in DOMAIN inventory THEN HandlerReturns ELSE Become(Game, Idle)
    /\ UNCHANGED <<screens, listed, cursor, stateID, balance, declared>>

(* SetCursor, from any goroutine.                                          *)
SetCursor(t, v) ==
    /\ IsAt(t, "idle")
    /\ cursor' = v
    /\ UNCHANGED <<screens, listed, inventory, serverUpdateVersion, stateID,
                   thread, balance, declared>>

-----------------------------------------------------------------------------
(* ContainerClick: the state ID is read, sent and advanced in three steps  *)

ClickRead(t) ==
    /\ IsAt(t, "idle")
    /\ Become(t, Click(stateID))
    /\ UNCHANGED <<screens, listed, contents, stateID, balance, declared>>

ClickSend(t) ==
    /\ IsAt(t, "click")
    /\ \/ /\ Len(declared) < MaxClicks
          /\ declared' = Append(declared, thread[t].state)
          /\ Become(t, Sent)
       \/ /\ Become(t, Idle)          (* not encodable, or not writable *)
          /\ UNCHANGED declared
    /\ UNCHANGED <<screens, listed, contents, stateID, balance>>

ClickAdvance(t) ==
    /\ IsAt(t, "sent")
    /\ stateID' = stateID + 1
    /\ Become(t, Idle)
    /\ UNCHANGED <<screens, listed, contents, balance, declared>>

-----------------------------------------------------------------------------

(* Slot data as it may come: any length up to one slot too many.           *)
Data(n) == UNION { [Slots(k) -> Items] : k \in 0 .. (n + 1) }

OpenPackets ==
    \/ PacketRefused
    \/ \E id \in WindowIds :
          \/ \E layout \in Layouts : OnOpenScreen(id, layout)
          \/ OnOpenHorseScreen(id, 0)

ClosePackets ==
    \/ OnCloseInventory
    \/ \E id \in WindowIds : OnCloseScreen(id)

ContentPackets ==
    \/ \E s \in StateIds, v \in Items :
          \/ \E data \in Data(InventorySize) : OnSetInventoryContent(s, data, v)
          \/ \E id \in DOMAIN screens :
                \E data \in Data(Cardinality(DOMAIN screens[id].slots)) :
                    OnSetWindowContent(id, s, data, v)
    \/ \E s \in StateIds, v \in Items :
          \/ OnSetSlotCursor(s, v)
          \/ \E i \in -1 .. InventorySize : OnSetSlotInventory(s, i, v)
          \/ \E id \in DOMAIN screens :
                \E i \in -1 .. Cardinality(DOMAIN screens[id].slots) :
                    OnSetSlotWindow(id, s, i, v)
    \/ \E s \in StateIds, id \in WindowIds : OnSetSlotClosed(id, s)
    \/ \E i \in -1 .. InventorySize, v \in Items : OnSetPlayerInventory(i, v)

Notifications ==
    \/ NotifyEvicted
    \/ InstallWindow
    \/ NotifyOpen
    \/ \E t \in Threads : NotifyClose(t)

Clicks(t) == ClickRead(t) \/ ClickSend(t) \/ ClickAdvance(t)

Next ==
    \/ OpenPackets
    \/ ClosePackets
    \/ ContentPackets
    \/ Notifications
    \/ \E t \in Threads :
          \/ \E id \in WindowIds : ForceCloseScreen(t, id)
          \/ \E v \in Items : SetCursor(t, v)
    \/ \E t \in Clickers : Clicks(t)

Spec == Init /\ [][Next]_vars

-----------------------------------------------------------------------------
(* Properties *)

Open(id) == IF id = 0 THEN listed ELSE id \in DOMAIN screens

(* The listener is told of every open and every close of every window,     *)
(* whichever way opens, evictions, closes by the server and                *)
(* ForceCloseScreen interleave (screen.go:452-804): opens less closes is   *)
(* what is open, with the closes still to be told and without the open     *)
(* still to be told.  No open window is overwritten, and once every        *)
(* goroutine is done with its operation the listener believes open what    *)
(* the manager has in screens.                                             *)
Told(id) == { t \in Threads : thread[t].at \in {"closing", "evicted"} /\ thread[t].id = id }
BalanceIsExplained ==
    \A id \in Ids :
        balance[id] = (IF Open(id) THEN 1 ELSE 0) + Cardinality(Told(id))
                        - (IF thread[Game] = Announce(id) THEN 1 ELSE 0)

(* screen.go:693-695 "The stale window gets its normal close notifications *)
(* first so listeners drop it before hearing about the new one": the       *)
(* listener is never told that a window opened under an ID whose previous  *)
(* window, as far as it was told, is still open.                           *)
CloseBeforeOpen == \A id \in Ids : balance[id] <= 1

(* screen.go:914-917 "back-to-back clicks fired before the server          *)
(* acknowledges the first one still declare distinct, correct stateIDs":   *)
(* late packets of the server never make a click declare a state ID again. *)
(* It takes one clicking goroutine: ContainerClick reads and advances the  *)
(* state ID in two critical sections.                                      *)
ClicksAreDistinct == \A i, j \in DOMAIN declared : i < j => declared[i] < declared[j]

(* Whoever waits for serverUpdateVersion to move sees every change the     *)
(* server makes to the inventory or to an open window's slots.             *)
ChangesAreCounted ==
    [][ (\/ inventory' # inventory
         \/ \E id \in DOMAIN screens \intersect DOMAIN screens' :
               screens'[id] # screens[id])
            => serverUpdateVersion' > serverUpdateVersion ]_vars

(* A window shows only the player's main and hotbar rows: no packet for a  *)
(* window changes another slot of the inventory, and a window without rows *)
(* changes none.  No packet makes the inventory or a window longer.        *)
WindowsTouchOnlyRows ==
    [][ /\ DOMAIN inventory' = DOMAIN inventory
        /\ \A id \in DOMAIN screens \intersect DOMAIN screens' :
              screens'[id] # screens[id] =>
                  /\ DOMAIN screens'[id].slots = DOMAIN screens[id].slots
                  /\ \A i \in DOMAIN inventory :
                        inventory'[i] # inventory[i] => i \in Rows(screens[id]) ]_vars

=============================================================================
