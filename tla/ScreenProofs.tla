---------------------------- MODULE ScreenProofs ----------------------------
(***************************************************************************)
(* The screen manager and the session around it, proved for every set of   *)
(* windows, layouts, items and goroutines and for any number of packets    *)
(* and clicks.                                                             *)
(*                                                                         *)
(* The first half is about Spec: each handler keeps the types; open less   *)
(* closed is explained at every step; packets count what they change, and  *)
(* change the player's rows alone; clicks declare rising state IDs.        *)
(*                                                                         *)
(* The second half is about SessionSpec.  Packets on the link are changes  *)
(* to come: Path says that what the client has, changed by one packet of   *)
(* the link after the other, becomes what the server has.  The server      *)
(* keeps this by sending what it does, and the client by doing what it     *)
(* receives.                                                               *)
(***************************************************************************)
EXTENDS ScreenSession, FiniteSetTheorems, SequenceTheorems, TLAPS

(* Windows of any length, and the steps a goroutine can be at.             *)
Windows == UNION { [own : Nat, slots : [Slots(n) -> Items]] : n \in Nat }

Steps ==
    {Idle, Stopped, Sent}
        \union { Closing(id) : id \in Ids }
        \union { Evicted(id, w) : id \in WindowIds, w \in Windows }
        \union { Install(id, w) : id \in WindowIds, w \in Windows }
        \union { Announce(id) : id \in WindowIds }
        \union { Click(s) : s \in Nat }

(* Each part of the state has its type; only the game goroutine opens      *)
(* windows, and only clickers click.                                       *)
ContentsOK ==
    /\ inventory \in [Slots(InventorySize) -> Items]
    /\ cursor \in Items
    /\ serverUpdateVersion \in Nat
    /\ stateID \in Nat

WindowsOK ==
    /\ screens \in UNION { [D -> Windows] : D \in SUBSET WindowIds }
    /\ listed \in BOOLEAN

ThreadsOK ==
    /\ thread \in [Threads -> Steps]
    /\ \A t \in Users : thread[t].at \notin {"evicted", "install", "announce"}
    /\ \A t \in Threads \ Clickers : thread[t].at \notin {"click", "sent"}

HistoriesOK ==
    /\ balance \in [Ids -> Int]
    /\ declared \in Seq(Nat)

ScreenTypeOK == ContentsOK /\ WindowsOK /\ ThreadsOK /\ HistoriesOK

-----------------------------------------------------------------------------
(* Types *)

(* What a step is, by its name.                                            *)
LEMMA StepParts ==
    ASSUME NEW p \in Steps
    PROVE  /\ p.at = "idle" => p = Idle
           /\ p.at = "stopped" => p = Stopped
           /\ p.at = "sent" => p = Sent
           /\ p.at = "closing" => p.id \in Ids /\ p = Closing(p.id)
           /\ p.at = "evicted" => /\ p.id \in WindowIds /\ p.window \in Windows
                                  /\ p = Evicted(p.id, p.window)
           /\ p.at = "install" => /\ p.id \in WindowIds /\ p.window \in Windows
                                  /\ p = Install(p.id, p.window)
           /\ p.at = "announce" => p.id \in WindowIds /\ p = Announce(p.id)
           /\ p.at = "click" => p.state \in Nat /\ p = Click(p.state)
  BY DEF Steps, Idle, Stopped, Sent, Closing, Evicted, Install, Announce, Click

(* A window is its own slots and all of them.                              *)
LEMMA WindowParts ==
    ASSUME NEW w \in Windows
    PROVE  /\ w.own \in Nat
           /\ w = [own |-> w.own, slots |-> w.slots]
           /\ \E n \in Nat : w.slots \in [Slots(n) -> Items]
  BY DEF Windows

(* A record of the two is a window.                                        *)
LEMMA WindowOf ==
    ASSUME NEW a \in Nat, NEW n \in Nat, NEW f \in [Slots(n) -> Items]
    PROVE  [own |-> a, slots |-> f] \in Windows
<1>1. [own |-> a, slots |-> f] \in [own : Nat, slots : [Slots(n) -> Items]]
  OBVIOUS
<1>2. QED
  BY <1>1 DEF Windows

(* Slot data, of any length.                                               *)
OfItems(data) == \A i \in DOMAIN data : data[i] \in Items

(* Written keeps the length and writes items.                              *)
LEMMA WrittenType ==
    ASSUME NEW D, NEW f \in [D -> Items], NEW data, OfItems(data)
    PROVE  Written(f, data) \in [D -> Items]
  BY DEF Written, OfItems

(* Window w with data written to its slots.                                *)
WriteWindow(w, data) == [w EXCEPT !.slots = Written(@, data)]

(* Writing to a window keeps its shape.                                    *)
LEMMA WriteWindowType ==
    ASSUME NEW w \in Windows, NEW data, OfItems(data)
    PROVE  /\ WriteWindow(w, data) \in Windows
           /\ WriteWindow(w, data).own = w.own
           /\ DOMAIN WriteWindow(w, data).slots = DOMAIN w.slots
<1>1. PICK n \in Nat : w.slots \in [Slots(n) -> Items]
  BY WindowParts
<1>2. Written(w.slots, data) \in [Slots(n) -> Items]
  BY <1>1, WrittenType
<1>3. WriteWindow(w, data) = [own |-> w.own, slots |-> Written(w.slots, data)]
  BY WindowParts DEF WriteWindow
<1>4. QED
  BY <1>1, <1>2, <1>3, WindowOf, WindowParts

(* The rows of a window are slots of it and of the inventory.              *)
LEMMA RowsInside ==
    ASSUME NEW w \in Windows, NEW i \in Rows(w)
    PROVE  /\ RowSlot(w, i) \in DOMAIN w.slots
           /\ i \in Slots(InventorySize)
<1>1. PICK n \in Nat : w.slots \in [Slots(n) -> Items]
  BY WindowParts
<1>2. DOMAIN w.slots = 0 .. (n - 1) /\ w.own \in Nat
  BY <1>1, WindowParts DEF Slots
<1>3. QED
  BY <1>2, ScreenAssumption DEF Rows, RowSlot, HasMain, HasHotbar, HotbarStart, Slots

(* The mirror of a window is an inventory.                                 *)
LEMMA MirroredType ==
    ASSUME ContentsOK, NEW w \in Windows
    PROVE  Mirrored(w) \in [Slots(InventorySize) -> Items]
<1>1. PICK n \in Nat : w.slots \in [Slots(n) -> Items]
  BY WindowParts
<1>2. \A i \in Rows(w) : w.slots[RowSlot(w, i)] \in Items
  BY <1>1, RowsInside
<1>3. QED
  BY <1>2 DEF Mirrored, ContentsOK

(* A new window is a window.                                               *)
LEMMA NewWindowType ==
    ASSUME NEW own \in Nat, NEW total \in Nat
    PROVE  NewWindow([own |-> own, total |-> total]) \in Windows
<1>1. [i \in Slots(total) |-> Empty] \in [Slots(total) -> Items]
  BY ScreenAssumption
<1>2. QED
  BY <1>1, WindowOf DEF NewWindow

(* So is every window the packets open.                                    *)
LEMMA OpensWindow ==
    /\ \A layout \in Layouts : NewWindow(layout) \in Windows
    /\ NewWindow(HorseLayout(0)) \in Windows
<1>1. ASSUME NEW layout \in Layouts PROVE NewWindow(layout) \in Windows
  <2>1. /\ layout.own \in Nat /\ layout.total \in Nat
        /\ layout = [own |-> layout.own, total |-> layout.total]
    BY ScreenAssumption
  <2>2. QED
    BY <2>1, NewWindowType
<1>2. NewWindow(HorseLayout(0)) \in Windows
  <2>1. 2 + 3 * 0 \in Nat /\ 2 + 3 * 0 + MainLength + HotbarLength \in Nat
    BY ScreenAssumption
  <2>2. QED
    BY <2>1, NewWindowType DEF HorseLayout
<1>3. QED
  BY <1>1, <1>2

(* A goroutine goes to a step that is its own.                             *)
LEMMA BecomeOK ==
    ASSUME ThreadsOK, NEW t \in Threads, NEW p \in Steps, Become(t, p),
           p.at \in {"evicted", "install", "announce"} => t = Game,
           p.at \in {"click", "sent"} => t \in Clickers
    PROVE  ThreadsOK'
<1>1. thread' \in [Threads -> Steps]
  BY DEF ThreadsOK, Become
<1>2. \A u \in Threads : thread'[u] = IF u = t THEN p ELSE thread[u]
  BY DEF ThreadsOK, Become
<1>3. ASSUME NEW u \in Users
      PROVE  thread'[u].at \notin {"evicted", "install", "announce"}
  BY <1>2, ScreenAssumption DEF ThreadsOK, Threads
<1>4. ASSUME NEW u \in Threads \ Clickers
      PROVE  thread'[u].at \notin {"click", "sent"}
  BY <1>2 DEF ThreadsOK
<1>5. QED
  BY <1>1, <1>3, <1>4 DEF ThreadsOK

(* The steps, by their names.                                              *)
LEMMA SimpleSteps ==
    /\ Idle \in Steps /\ Stopped \in Steps /\ Sent \in Steps
    /\ Idle.at = "idle" /\ Stopped.at = "stopped" /\ Sent.at = "sent"
    /\ \A id \in Ids : Closing(id) \in Steps /\ Closing(id).at = "closing"
    /\ \A s \in Nat : Click(s) \in Steps /\ Click(s).at = "click"
    /\ \A id \in WindowIds : Announce(id) \in Steps /\ Announce(id).at = "announce"
    /\ \A id \in WindowIds, w \in Windows :
          /\ Evicted(id, w) \in Steps /\ Evicted(id, w).at = "evicted"
          /\ Install(id, w) \in Steps /\ Install(id, w).at = "install"
<1>1. Idle \in Steps /\ Stopped \in Steps /\ Sent \in Steps
  BY DEF Steps
<1>2. \A id \in Ids : Closing(id) \in Steps
  BY DEF Steps
<1>3. \A s \in Nat : Click(s) \in Steps
  BY DEF Steps
<1>4. \A id \in WindowIds : Announce(id) \in Steps
  BY DEF Steps
<1>5. \A id \in WindowIds, w \in Windows : Evicted(id, w) \in Steps
  BY DEF Steps
<1>6. \A id \in WindowIds, w \in Windows : Install(id, w) \in Steps
  BY DEF Steps
<1>7. QED
  BY <1>1, <1>2, <1>3, <1>4, <1>5, <1>6
     DEF Idle, Stopped, Sent, Closing, Evicted, Install, Announce, Click

(* The game goroutine is a goroutine.                                      *)
LEMMA GameIsThread == Game \in Threads /\ \A t \in Users : t \in Threads
  BY DEF Threads

(* Any goroutine may be idle or stop.                                      *)
LEMMA ReturnsOK ==
    ASSUME ThreadsOK, NEW t \in Threads, NEW p \in {Idle, Stopped}, Become(t, p)
    PROVE  ThreadsOK'
  BY BecomeOK, SimpleSteps

(* A handler that returns keeps the types of the steps.                    *)
LEMMA HandlerReturnsOK == ThreadsOK /\ HandlerReturns => ThreadsOK'
  BY ReturnsOK, GameIsThread DEF HandlerReturns

(* Windows stay windows when one is removed,                               *)
LEMMA RemoveOK ==
    ASSUME WindowsOK, NEW id, Remove(id)
    PROVE  WindowsOK'
<1>1. PICK D \in SUBSET WindowIds : screens \in [D -> Windows]
  BY DEF WindowsOK
<1>2. screens' \in [D \ {id} -> Windows]
  BY <1>1 DEF Remove
<1>3. D \ {id} \in SUBSET WindowIds
  OBVIOUS
<1>4. QED
  BY <1>2, <1>3 DEF WindowsOK, Remove

(* What the type of screens says of them; no window is 0.                  *)
LEMMA WindowsParts ==
    ASSUME WindowsOK
    PROVE  /\ DOMAIN screens \subseteq WindowIds
           /\ \A id \in DOMAIN screens : screens[id] \in Windows
           /\ screens = [i \in DOMAIN screens |-> screens[i]]
  BY DEF WindowsOK

(* a window is replaced,                                                   *)
LEMMA ReplaceOK ==
    ASSUME WindowsOK, NEW id \in DOMAIN screens, NEW w \in Windows,
           screens' = [screens EXCEPT ![id] = w], listed' = listed
    PROVE  WindowsOK'
<1>1. PICK D \in SUBSET WindowIds : screens \in [D -> Windows]
  BY DEF WindowsOK
<1>2. screens' \in [D -> Windows]
  BY <1>1
<1>3. QED
  BY <1>2 DEF WindowsOK

(* or installed.                                                           *)
LEMMA InstallOK ==
    ASSUME WindowsOK, NEW id \in WindowIds, NEW w \in Windows,
           screens' = [i \in DOMAIN screens \union {id} |-> IF i = id THEN w ELSE screens[i]],
           listed' = listed
    PROVE  WindowsOK'
<1>1. PICK D \in SUBSET WindowIds : screens \in [D -> Windows]
  BY DEF WindowsOK
<1>2. screens' \in [D \union {id} -> Windows]
  BY <1>1
<1>3. D \union {id} \in SUBSET WindowIds
  OBVIOUS
<1>4. QED
  BY <1>2, <1>3 DEF WindowsOK

-----------------------------------------------------------------------------
(* The handlers keep the types *)

(* What the content packets carry is slot data.                            *)
LEMMA DataItems == \A n : \A data \in Data(n) : OfItems(data)
  BY DEF Data, OfItems

(* So is what a slot packet carries.                                       *)
LEMMA SlotItems == \A i : \A v \in Items : OfItems([j \in {i} |-> v])
  BY DEF OfItems

(* State ID and version stay numbers.                                      *)
LEMMA CountersOK ==
    ASSUME ContentsOK, NEW s \in Nat, ApplyServerStateID(s), RecordServerUpdate
    PROVE  stateID' \in Nat /\ serverUpdateVersion' \in Nat
  BY ScreenAssumption DEF ContentsOK, ApplyServerStateID, RecordServerUpdate

(* The inventory written to is an inventory.                               *)
LEMMA InventoryOK ==
    ASSUME ContentsOK, NEW data, OfItems(data)
    PROVE  Written(inventory, data) \in [Slots(InventorySize) -> Items]
  BY WrittenType DEF ContentsOK

(* A handler that writes a window.                                         *)
WritesWindow(id, data) ==
    LET w == [screens[id] EXCEPT !.slots = Written(@, data)]
    IN  /\ screens' = [screens EXCEPT ![id] = w]
        /\ IF Fits(w.slots, data)
           THEN inventory' = Mirrored(w) /\ HandlerReturns
           ELSE UNCHANGED inventory /\ Become(Game, Stopped)

(* Such a handler keeps the types.                                         *)
LEMMA WritesWindowOK ==
    ASSUME ScreenTypeOK, NEW id \in DOMAIN screens, NEW data, OfItems(data),
           WritesWindow(id, data), listed' = listed
    PROVE  /\ WindowsOK' /\ ThreadsOK'
           /\ inventory' \in [Slots(InventorySize) -> Items]
<1> DEFINE w == WriteWindow(screens[id], data)
<1>1. w \in Windows
  BY WindowsParts, WriteWindowType DEF ScreenTypeOK
<1>2. screens' = [screens EXCEPT ![id] = w]
  BY DEF WritesWindow, WriteWindow
<1>3. \/ inventory' = Mirrored(w) /\ HandlerReturns
      \/ inventory' = inventory /\ Become(Game, Stopped)
  BY DEF WritesWindow, WriteWindow
<1> HIDE DEF w
<1>4. WindowsOK'
  BY <1>1, <1>2, ReplaceOK DEF ScreenTypeOK
<1>5. ThreadsOK'
  BY <1>3, HandlerReturnsOK, ReturnsOK, GameIsThread DEF ScreenTypeOK
<1>6. inventory' \in [Slots(InventorySize) -> Items]
  BY <1>1, <1>3, MirroredType DEF ScreenTypeOK, ContentsOK
<1>7. QED
  BY <1>4, <1>5, <1>6

(* The handlers of contents keep the types, whatever the state ID and      *)
(* data; Spec and SessionSpec bound these differently.                     *)
LEMMA SetInventoryContentType ==
    ASSUME ScreenTypeOK, NEW s \in Nat, NEW v \in Items, NEW data, OfItems(data),
           OnSetInventoryContent(s, data, v)
    PROVE  ScreenTypeOK'
<1> USE DEF ScreenTypeOK
<1>1. ThreadsOK'
  BY HandlerReturnsOK, ReturnsOK, GameIsThread DEF OnSetInventoryContent
<1>2. ContentsOK'
  BY CountersOK, InventoryOK DEF OnSetInventoryContent, ContentsOK
<1>3. WindowsOK' /\ HistoriesOK'
  BY DEF OnSetInventoryContent, WindowsOK, HistoriesOK
<1>4. QED
  BY <1>1, <1>2, <1>3

(* The same for a window,                                                  *)
LEMMA SetWindowContentType ==
    ASSUME ScreenTypeOK, NEW s \in Nat, NEW v \in Items, NEW id \in DOMAIN screens,
           NEW data, OfItems(data),
           OnSetWindowContent(id, s, data, v)
    PROVE  ScreenTypeOK'
<1> USE DEF ScreenTypeOK
<1>1. WritesWindow(id, data) /\ listed' = listed
  BY DEF OnSetWindowContent, WritesWindow
<1>2. /\ WindowsOK' /\ ThreadsOK'
      /\ inventory' \in [Slots(InventorySize) -> Items]
  BY <1>1, WritesWindowOK
<1>3. stateID' \in Nat /\ serverUpdateVersion' \in Nat
  BY CountersOK DEF OnSetWindowContent
<1>4. cursor' \in Items /\ HistoriesOK'
  BY DEF OnSetWindowContent, HistoriesOK
<1>5. QED
  BY <1>2, <1>3, <1>4 DEF ContentsOK

(* the cursor,                                                             *)
LEMMA SetSlotCursorType ==
    ASSUME ScreenTypeOK, NEW s \in Nat, NEW v \in Items,
           OnSetSlotCursor(s, v)
    PROVE  ScreenTypeOK'
<1> USE DEF ScreenTypeOK
<1>1. ThreadsOK'
  BY HandlerReturnsOK DEF OnSetSlotCursor
<1>2. ContentsOK'
  BY CountersOK DEF OnSetSlotCursor, ContentsOK
<1>3. WindowsOK' /\ HistoriesOK'
  BY DEF OnSetSlotCursor, WindowsOK, HistoriesOK
<1>4. QED
  BY <1>1, <1>2, <1>3

(* a slot of the inventory,                                                *)
LEMMA SetSlotInventoryType ==
    ASSUME ScreenTypeOK, NEW s \in Nat, NEW v \in Items, NEW i,
           OnSetSlotInventory(s, i, v)
    PROVE  ScreenTypeOK'
<1> USE DEF ScreenTypeOK
<1>1. ThreadsOK'
  BY HandlerReturnsOK, ReturnsOK, GameIsThread DEF OnSetSlotInventory
<1>2. ContentsOK'
  BY CountersOK, InventoryOK, SlotItems DEF OnSetSlotInventory, ContentsOK
<1>3. WindowsOK' /\ HistoriesOK'
  BY DEF OnSetSlotInventory, WindowsOK, HistoriesOK
<1>4. QED
  BY <1>1, <1>2, <1>3

(* a slot of a window,                                                     *)
LEMMA SetSlotWindowType ==
    ASSUME ScreenTypeOK, NEW s \in Nat, NEW v \in Items, NEW id \in DOMAIN screens, NEW i,
           OnSetSlotWindow(id, s, i, v)
    PROVE  ScreenTypeOK'
<1> USE DEF ScreenTypeOK
<1> DEFINE data == [j \in {i} |-> v]
<1>1. WritesWindow(id, data) /\ listed' = listed
  <2>1. \A f : Fits(f, data) <=> i \in DOMAIN f
    BY DEF Fits
  <2> HIDE DEF data
  <2>2. QED
    BY <2>1 DEF OnSetSlotWindow, WritesWindow, data
<1>2. /\ WindowsOK' /\ ThreadsOK'
      /\ inventory' \in [Slots(InventorySize) -> Items]
  BY <1>1, WritesWindowOK, SlotItems
<1>3. stateID' \in Nat /\ serverUpdateVersion' \in Nat
  BY CountersOK DEF OnSetSlotWindow
<1>4. cursor' \in Items /\ HistoriesOK'
  BY DEF OnSetSlotWindow, HistoriesOK, ContentsOK
<1>5. QED
  BY <1>2, <1>3, <1>4 DEF ContentsOK

(* a slot of a window that is not open,                                    *)
LEMMA SetSlotClosedType ==
    ASSUME ScreenTypeOK, NEW s \in Nat, NEW id,
           OnSetSlotClosed(id, s)
    PROVE  ScreenTypeOK'
<1> USE DEF ScreenTypeOK
<1>1. ThreadsOK'
  BY HandlerReturnsOK DEF OnSetSlotClosed
<1>2. ContentsOK'
  BY CountersOK DEF OnSetSlotClosed, ContentsOK
<1>3. WindowsOK' /\ HistoriesOK'
  BY DEF OnSetSlotClosed, WindowsOK, HistoriesOK
<1>4. QED
  BY <1>1, <1>2, <1>3

(* and a slot of the player's inventory.                                   *)
LEMMA SetPlayerInventoryType ==
    ASSUME ScreenTypeOK, NEW v \in Items, NEW i,
           OnSetPlayerInventory(i, v)
    PROVE  ScreenTypeOK'
<1> USE DEF ScreenTypeOK
<1>1. ThreadsOK'
  BY HandlerReturnsOK, ReturnsOK, GameIsThread DEF OnSetPlayerInventory
<1>2. ContentsOK'
  <2>1. inventory' \in [Slots(InventorySize) -> Items]
    BY InventoryOK, SlotItems DEF OnSetPlayerInventory
  <2>2. serverUpdateVersion' \in Nat
    BY DEF OnSetPlayerInventory, ContentsOK, RecordServerUpdate
  <2>3. QED
    BY <2>1, <2>2 DEF OnSetPlayerInventory, ContentsOK
<1>3. WindowsOK' /\ HistoriesOK'
  BY DEF OnSetPlayerInventory, WindowsOK, HistoriesOK
<1>4. QED
  BY <1>1, <1>2, <1>3

(* So all content packets keep the types.                                  *)
LEMMA ContentsType ==
    ASSUME ScreenTypeOK, ContentPackets
    PROVE  ScreenTypeOK'
<1>1. \A s \in StateIds : s \in Nat
  BY ScreenAssumption
<1>2. QED
  BY <1>1, DataItems, SetInventoryContentType, SetWindowContentType, SetSlotCursorType,
     SetSlotInventoryType, SetSlotWindowType, SetSlotClosedType, SetPlayerInventoryType
     DEF ContentPackets

(* An opened window keeps the types.                                       *)
LEMMA OpensType ==
    ASSUME ScreenTypeOK, NEW id \in WindowIds, NEW layout, NewWindow(layout) \in Windows,
           OnOpenScreen(id, layout)
    PROVE  ScreenTypeOK'
<1> USE DEF ScreenTypeOK
<1>1. CASE Remove(id) /\ Become(Game, Evicted(id, NewWindow(layout)))
  <2>1. ThreadsOK'
    BY <1>1, BecomeOK, SimpleSteps, GameIsThread
  <2>2. WindowsOK'
    BY <1>1, RemoveOK
  <2>3. ContentsOK' /\ HistoriesOK'
    BY DEF OnOpenScreen, contents, ContentsOK, HistoriesOK
  <2>4. QED
    BY <2>1, <2>2, <2>3
<1>2. CASE Become(Game, Install(id, NewWindow(layout))) /\ UNCHANGED <<screens, listed>>
  <2>1. ThreadsOK'
    BY <1>2, BecomeOK, SimpleSteps, GameIsThread
  <2>2. ContentsOK' /\ HistoriesOK' /\ WindowsOK'
    BY <1>2 DEF OnOpenScreen, contents, ContentsOK, HistoriesOK, WindowsOK
  <2>3. QED
    BY <2>1, <2>2
<1>3. \/ Remove(id) /\ Become(Game, Evicted(id, NewWindow(layout)))
      \/ Become(Game, Install(id, NewWindow(layout))) /\ UNCHANGED <<screens, listed>>
  BY Zenon DEF OnOpenScreen
<1>4. QED
  BY <1>1, <1>2, <1>3

(* Every goroutine is at a step.                                           *)
LEMMA ThreadParts ==
    ASSUME ThreadsOK, NEW t \in Threads
    PROVE  thread[t] \in Steps
  BY DEF ThreadsOK

(* A notification changes the balance of one window.                       *)
LEMMA NotifyOK ==
    ASSUME HistoriesOK, NEW id \in Ids, NEW n \in Int, Notify(id, n)
    PROVE  /\ balance' \in [Ids -> Int]
           /\ \A i \in Ids : balance'[i] = balance[i] + (IF i = id THEN n ELSE 0)
<1>1. balance[id] + n \in Int /\ balance[id] \in Int
  BY DEF HistoriesOK
<1>2. QED
  BY <1>1 DEF HistoriesOK, Notify

(* Every window has a balance.                                             *)
LEMMA IdsOfWindows == \A id \in WindowIds : id \in Ids
  BY DEF Ids

(* The steps between the locked sections keep the types.                   *)
LEMMA NotificationsType ==
    ASSUME ScreenTypeOK, Notifications
    PROVE  ScreenTypeOK'
<1> USE DEF ScreenTypeOK
<1>1. ASSUME NotifyEvicted PROVE ScreenTypeOK'
  <2>1. /\ thread[Game].id \in WindowIds /\ thread[Game].window \in Windows
    BY <1>1, ThreadParts, StepParts, GameIsThread DEF NotifyEvicted, IsAt
  <2>2. ThreadsOK'
    BY <1>1, <2>1, BecomeOK, SimpleSteps, GameIsThread DEF NotifyEvicted
  <2>3. HistoriesOK'
    BY <1>1, <2>1, NotifyOK, IdsOfWindows DEF NotifyEvicted, HistoriesOK
  <2>4. ContentsOK' /\ WindowsOK'
    BY <1>1 DEF NotifyEvicted, contents, ContentsOK, WindowsOK
  <2>5. QED
    BY <2>2, <2>3, <2>4
<1>2. ASSUME InstallWindow PROVE ScreenTypeOK'
  <2>1. /\ thread[Game].id \in WindowIds /\ thread[Game].window \in Windows
    BY <1>2, ThreadParts, StepParts, GameIsThread DEF InstallWindow, IsAt
  <2>2. ThreadsOK'
    BY <1>2, <2>1, BecomeOK, SimpleSteps, GameIsThread DEF InstallWindow
  <2>3. WindowsOK'
    BY <1>2, <2>1, InstallOK DEF InstallWindow
  <2>4. ContentsOK' /\ HistoriesOK'
    BY <1>2 DEF InstallWindow, contents, ContentsOK, HistoriesOK
  <2>5. QED
    BY <2>2, <2>3, <2>4
<1>3. ASSUME NotifyOpen PROVE ScreenTypeOK'
  <2>1. ThreadsOK'
    BY <1>3, HandlerReturnsOK DEF NotifyOpen
  <2>2. HistoriesOK'
    <3>1. thread[Game].id \in WindowIds
      BY <1>3, ThreadParts, StepParts, GameIsThread DEF NotifyOpen, IsAt
    <3>2. QED
      BY <1>3, <3>1, NotifyOK, IdsOfWindows DEF NotifyOpen, HistoriesOK
  <2>3. ContentsOK' /\ WindowsOK'
    BY <1>3 DEF NotifyOpen, contents, ContentsOK, WindowsOK
  <2>4. QED
    BY <2>1, <2>2, <2>3
<1>4. ASSUME NEW t \in Threads, NotifyClose(t) PROVE ScreenTypeOK'
  <2>1. ThreadsOK'
    BY <1>4, HandlerReturnsOK, ReturnsOK DEF NotifyClose
  <2>2. HistoriesOK'
    <3>1. thread[t].id \in Ids
      BY <1>4, ThreadParts, StepParts DEF NotifyClose, IsAt
    <3>2. QED
      BY <1>4, <3>1, NotifyOK DEF NotifyClose, HistoriesOK
  <2>3. ContentsOK' /\ WindowsOK'
    BY <1>4 DEF NotifyClose, contents, ContentsOK, WindowsOK
  <2>4. QED
    BY <2>1, <2>2, <2>3
<1> QED
  BY <1>1, <1>2, <1>3, <1>4 DEF Notifications

(* A closed window keeps the types.                                        *)
LEMMA ClosesType ==
    ASSUME ScreenTypeOK, NEW t \in Threads, NEW id \in WindowIds,
           Remove(id), Become(t, Closing(id)),
           UNCHANGED <<contents, stateID, balance, declared>>
    PROVE  ScreenTypeOK'
<1>1. ThreadsOK'
  BY BecomeOK, SimpleSteps, IdsOfWindows DEF ScreenTypeOK
<1>2. WindowsOK'
  BY RemoveOK DEF ScreenTypeOK
<1>3. ContentsOK' /\ HistoriesOK'
  BY DEF ScreenTypeOK, contents, ContentsOK, HistoriesOK
<1>4. QED
  BY <1>1, <1>2, <1>3 DEF ScreenTypeOK

(* The three steps of a click keep the types.                              *)
LEMMA ClicksType ==
    ASSUME ScreenTypeOK, NEW t \in Clickers, Clicks(t)
    PROVE  ScreenTypeOK'
<1> USE DEF ScreenTypeOK
<1>1. t \in Threads
  BY ScreenAssumption
<1>2. WindowsOK' /\ balance' = balance /\ UNCHANGED contents
  BY DEF Clicks, ClickRead, ClickSend, ClickAdvance, WindowsOK
<1>3. CASE ClickRead(t)
  <2>1. ThreadsOK'
    BY <1>1, <1>3, BecomeOK, SimpleSteps DEF ClickRead, ContentsOK
  <2>2. QED
    BY <1>2, <1>3, <2>1 DEF ClickRead, contents, ContentsOK, HistoriesOK
<1>4. CASE ClickSend(t)
  <2>1. ThreadsOK'
    BY <1>1, <1>4, BecomeOK, SimpleSteps DEF ClickSend
  <2>2. thread[t].state \in Nat
    BY <1>1, <1>4, ThreadParts, StepParts DEF ClickSend, IsAt
  <2>3. declared' \in Seq(Nat)
    <3>1. declared \in Seq(Nat)
      BY DEF HistoriesOK
    <3>2. Append(declared, thread[t].state) \in Seq(Nat)
      BY <2>2, <3>1, AppendProperties
    <3>3. QED
      BY <1>4, <3>1, <3>2 DEF ClickSend
  <2>4. QED
    BY <1>2, <1>4, <2>1, <2>3 DEF ClickSend, contents, ContentsOK, HistoriesOK
<1>5. CASE ClickAdvance(t)
  <2>1. ThreadsOK'
    BY <1>1, <1>5, ReturnsOK DEF ClickAdvance
  <2>2. QED
    BY <1>2, <1>5, <2>1 DEF ClickAdvance, contents, ContentsOK, HistoriesOK
<1>6. QED
  BY <1>3, <1>4, <1>5 DEF Clicks

(* The types hold at the start,                                            *)
LEMMA TypeInit == Init => ScreenTypeOK
<1> SUFFICES ASSUME Init PROVE ScreenTypeOK
  OBVIOUS
<1>1. ContentsOK
  BY ScreenAssumption DEF Init, ContentsOK
<1>2. WindowsOK
  <2>1. screens \in [{} -> Windows] /\ {} \in SUBSET WindowIds
    BY DEF Init
  <2>2. QED
    BY <2>1 DEF Init, WindowsOK
<1>3. ThreadsOK
  <2>1. \A t \in Threads : thread[t] = Idle
    BY DEF Init
  <2>2. thread \in [Threads -> Steps]
    BY SimpleSteps DEF Init
  <2>3. QED
    BY <2>1, <2>2, SimpleSteps, GameIsThread DEF ThreadsOK
<1>4. HistoriesOK
  BY EmptySeq DEF Init, HistoriesOK
<1>5. QED
  BY <1>1, <1>2, <1>3, <1>4 DEF ScreenTypeOK

(* and every step keeps them.                                              *)
LEMMA TypeStep == ScreenTypeOK /\ [Next]_vars => ScreenTypeOK'
<1> SUFFICES ASSUME ScreenTypeOK, [Next]_vars PROVE ScreenTypeOK'
  OBVIOUS
<1>1. CASE OpenPackets
  <2>1. ASSUME PacketRefused PROVE ScreenTypeOK'
    <3>1. ThreadsOK'
      BY <2>1, ReturnsOK, GameIsThread DEF PacketRefused, ScreenTypeOK
    <3>2. ContentsOK' /\ WindowsOK' /\ HistoriesOK'
      BY <2>1 DEF PacketRefused, ScreenTypeOK, contents, ContentsOK, WindowsOK, HistoriesOK
    <3>3. QED
      BY <3>1, <3>2 DEF ScreenTypeOK
  <2>2. QED
    BY <1>1, <2>1, OpensType, OpensWindow DEF OpenPackets, OnOpenHorseScreen
<1>2. CASE ClosePackets
  <2>1. ASSUME OnCloseInventory PROVE ScreenTypeOK'
    <3>1. ThreadsOK'
      BY <2>1, BecomeOK, SimpleSteps, GameIsThread DEF OnCloseInventory, ScreenTypeOK, Ids
    <3>2. ContentsOK' /\ WindowsOK' /\ HistoriesOK'
      BY <2>1 DEF OnCloseInventory, ScreenTypeOK, contents, ContentsOK, WindowsOK, HistoriesOK
    <3>3. QED
      BY <3>1, <3>2 DEF ScreenTypeOK
  <2>2. QED
    BY <1>2, <2>1, ClosesType, GameIsThread DEF ClosePackets, OnCloseScreen
<1>3. CASE ContentPackets
  BY <1>3, ContentsType
<1>4. CASE Notifications
  BY <1>4, NotificationsType
<1>5. ASSUME NEW t \in Threads, NEW id \in WindowIds, ForceCloseScreen(t, id)
      PROVE  ScreenTypeOK'
  BY <1>5, ClosesType DEF ForceCloseScreen
<1>6. ASSUME NEW t \in Threads, NEW v \in Items, SetCursor(t, v)
      PROVE  ScreenTypeOK'
  BY <1>6 DEF SetCursor, ScreenTypeOK, ContentsOK, WindowsOK, ThreadsOK, HistoriesOK
<1>7. ASSUME NEW t \in Clickers, Clicks(t)
      PROVE  ScreenTypeOK'
  BY <1>7, ClicksType
<1>8. CASE UNCHANGED vars
  BY <1>8 DEF vars, contents, ScreenTypeOK, ContentsOK, WindowsOK, ThreadsOK, HistoriesOK
<1>9. QED
  BY <1>1, <1>2, <1>3, <1>4, <1>5, <1>6, <1>7, <1>8 DEF Next

-----------------------------------------------------------------------------
(* The balance of notifications *)

(* A window about to be installed has a free place: nobody else opens      *)
(* windows, so what onOpenScreen removed or did not find stays out while   *)
(* the lock is released.                                                   *)
SlotFree == thread[Game].at \in {"evicted", "install"} => thread[Game].id \notin DOMAIN screens

(* The inductive invariant.                                                *)
BalanceInv == BalanceIsExplained /\ SlotFree

(* The steps at which a close has yet to be told; the open of id has yet   *)
(* to be told; the balance of id is explained.                             *)
ToTell == {"closing", "evicted"}
Pending(id) == thread[Game].at = "announce" /\ thread[Game].id = id
Explained(id) ==
    balance[id] = (IF Open(id) THEN 1 ELSE 0) + Cardinality(Told(id))
                    - (IF Pending(id) THEN 1 ELSE 0)

AllExplained == \A id \in Ids : Explained(id)

(* This is BalanceIsExplained.                                             *)
LEMMA ExplainedMeans == ThreadsOK => (BalanceIsExplained <=> AllExplained)
<1> SUFFICES ASSUME ThreadsOK PROVE BalanceIsExplained <=> AllExplained
  OBVIOUS
<1>1. \A id \in Ids : thread[Game] = Announce(id) <=> Pending(id)
  BY ThreadParts, StepParts, GameIsThread DEF Announce, Pending
<1>2. QED
  BY <1>1 DEF BalanceIsExplained, AllExplained, Explained

(* Finitely many goroutines have a close to tell.                          *)
LEMMA ToldFinite == \A id : IsFiniteSet(Told(id)) /\ Cardinality(Told(id)) \in Nat
<1>1. IsFiniteSet(Threads)
  BY ScreenAssumption, FS_Singleton, FS_Union DEF Threads
<1>2. \A id : Told(id) \in SUBSET Threads
  BY DEF Told
<1>3. QED
  BY <1>1, <1>2, FS_Subset, FS_CardinalityType

(* A goroutine that goes on to tell a close adds one,                      *)
LEMMA TellsMore ==
    ASSUME ThreadsOK, NEW t \in Threads, NEW p \in Steps, Become(t, p), NEW id,
           thread[t].at \notin ToTell, p.at \in ToTell
    PROVE  Cardinality(Told(id)') = Cardinality(Told(id)) + (IF p.id = id THEN 1 ELSE 0)
<1>1. \A u \in Threads : thread'[u] = IF u = t THEN p ELSE thread[u]
  BY DEF ThreadsOK, Become
<1>2. Told(id)' = IF p.id = id THEN Told(id) \union {t} ELSE Told(id)
  BY <1>1 DEF Told, ToTell
<1>3. t \notin Told(id)
  BY DEF Told, ToTell
<1>4. /\ IsFiniteSet(Told(id)) /\ Cardinality(Told(id)) \in Nat
  BY ToldFinite
<1>5. CASE p.id = id
  <2>1. Cardinality(Told(id) \union {t}) = Cardinality(Told(id)) + 1
    BY <1>3, <1>4, <1>5, FS_AddElement
  <2>2. QED
    BY <1>2, <1>5, <2>1
<1>6. CASE p.id # id
  BY <1>2, <1>4, <1>6
<1>7. QED
  BY <1>5, <1>6

(* one that has told it takes one away,                                    *)
LEMMA TellsLess ==
    ASSUME ThreadsOK, NEW t \in Threads, NEW p \in Steps, Become(t, p), NEW id,
           thread[t].at \in ToTell, p.at \notin ToTell
    PROVE  Cardinality(Told(id)') = Cardinality(Told(id)) - (IF thread[t].id = id THEN 1 ELSE 0)
<1>1. \A u \in Threads : thread'[u] = IF u = t THEN p ELSE thread[u]
  BY DEF ThreadsOK, Become
<1>2. Told(id)' = IF thread[t].id = id THEN Told(id) \ {t} ELSE Told(id)
  BY <1>1 DEF Told, ToTell
<1>3. thread[t].id = id => t \in Told(id)
  BY DEF Told, ToTell
<1>4. /\ IsFiniteSet(Told(id)) /\ Cardinality(Told(id)) \in Nat
  BY ToldFinite
<1>5. CASE thread[t].id = id
  <2>1. Cardinality(Told(id) \ {t}) = Cardinality(Told(id)) - 1
    BY <1>3, <1>4, <1>5, FS_RemoveElement
  <2>2. QED
    BY <1>2, <1>5, <2>1
<1>6. CASE thread[t].id # id
  BY <1>2, <1>4, <1>6
<1>7. QED
  BY <1>5, <1>6

(* and others change nothing.                                              *)
LEMMA TellsSame ==
    ASSUME ThreadsOK, NEW t \in Threads, NEW p \in Steps, Become(t, p), NEW id,
           thread[t].at \notin ToTell, p.at \notin ToTell
    PROVE  Told(id)' = Told(id)
<1>1. \A u \in Threads : thread'[u] = IF u = t THEN p ELSE thread[u]
  BY DEF ThreadsOK, Become
<1>2. QED
  BY <1>1 DEF Told, ToTell

(* Where the game goroutine is after a step of goroutine t.                *)
LEMMA GameMoves ==
    ASSUME ThreadsOK, NEW t \in Threads, NEW p \in Steps, Become(t, p)
    PROVE  thread'[Game] = IF t = Game THEN p ELSE thread[Game]
  BY GameIsThread DEF ThreadsOK, Become

(* A step that leaves the listener and the windows alone.                  *)
LEMMA BalanceStays ==
    ASSUME ThreadsOK, SlotFree, NEW i \in Ids, Explained(i),
           NEW t \in Threads, NEW p \in Steps, Become(t, p),
           thread[t].at \notin ToTell, p.at \notin ToTell,
           thread[t].at # "announce", p.at # "announce",
           DOMAIN screens' = DOMAIN screens, listed' = listed, balance' = balance
    PROVE  Explained(i)'
<1>1. Told(i)' = Told(i)
  BY TellsSame
<1>2. Pending(i)' <=> Pending(i)
  BY GameMoves DEF Pending
<1>3. Open(i)' <=> Open(i)
  BY DEF Open
<1>4. QED
  BY <1>1, <1>2, <1>3 DEF Explained

(* The free place stays free when no window comes.                         *)
LEMMA FreeStays ==
    ASSUME ThreadsOK, SlotFree, NEW t \in Threads, NEW p \in Steps, Become(t, p),
           p.at \in {"evicted", "install"} => p.id \notin DOMAIN screens',
           t # Game => DOMAIN screens' \subseteq DOMAIN screens
    PROVE  SlotFree'
<1>1. thread'[Game] = IF t = Game THEN p ELSE thread[Game]
  BY GameMoves
<1>2. QED
  BY <1>1 DEF SlotFree

(* A window is removed and its close is to be told: as much is explained.  *)
LEMMA BalanceCloses ==
    ASSUME ThreadsOK, NEW i \in Ids, Explained(i),
           NEW t \in Threads, NEW p \in Steps, Become(t, p), NEW id,
           IsAt(t, "idle"), p.at \in ToTell, p.id = id, Open(id),
           \A j \in Ids : Open(j)' <=> Open(j) /\ j # id, balance' = balance
    PROVE  Explained(i)'
<1>1. Cardinality(Told(i)') = Cardinality(Told(i)) + (IF id = i THEN 1 ELSE 0)
  BY TellsMore DEF IsAt, ToTell
<1>2. Cardinality(Told(i)) \in Nat
  BY ToldFinite
<1>3. Pending(i)' <=> Pending(i)
  BY GameMoves DEF Pending, IsAt, ToTell
<1>4. balance'[i] = balance[i]
  OBVIOUS
<1>5. Open(i)' <=> Open(i) /\ i # id
  OBVIOUS
<1> DEFINE c == Cardinality(Told(i))
<1>6. PICK d : d = Cardinality(Told(i)')
  OBVIOUS
<1> HIDE DEF c
<1>7. QED
  BY <1>1, <1>2, <1>3, <1>4, <1>5, <1>6 DEF Explained, c

(* A close is told: the balance goes down with the closes to tell.         *)
LEMMA BalanceTells ==
    ASSUME ThreadsOK, HistoriesOK, NEW i \in Ids, Explained(i),
           NEW t \in Threads, NEW p \in Steps, Become(t, p),
           thread[t].at \in ToTell, p.at \notin ToTell, p.at # "announce",
           thread[t].id \in Ids, Notify(thread[t].id, -1),
           DOMAIN screens' = DOMAIN screens, listed' = listed
    PROVE  Explained(i)'
<1>1. Cardinality(Told(i)') = Cardinality(Told(i)) - (IF thread[t].id = i THEN 1 ELSE 0)
  BY TellsLess
<1>2. Cardinality(Told(i)) \in Nat
  BY ToldFinite
<1>3. Pending(i)' <=> Pending(i)
  BY GameMoves DEF Pending, ToTell
<1>4. balance'[i] = balance[i] + (IF i = thread[t].id THEN -1 ELSE 0)
  BY NotifyOK
<1>5. Open(i)' <=> Open(i)
  BY DEF Open
<1>6. QED
  BY <1>1, <1>2, <1>3, <1>4, <1>5 DEF Explained

(* A window is installed where there was none, with the open to tell.      *)
LEMMA BalanceInstall ==
    ASSUME ThreadsOK, SlotFree, NEW i \in Ids, Explained(i), InstallWindow
    PROVE  Explained(i)'
<1> DEFINE id == thread[Game].id
<1>1. id \in WindowIds /\ id # 0 /\ Announce(id) \in Steps /\ Announce(id).at = "announce"
  BY ThreadParts, StepParts, GameIsThread, SimpleSteps, ScreenAssumption
     DEF InstallWindow, IsAt
<1>2. Told(i)' = Told(i)
  BY <1>1, TellsSame, GameIsThread DEF InstallWindow, IsAt, ToTell
<1>3. thread'[Game] = Announce(id)
  BY <1>1, GameMoves, GameIsThread DEF InstallWindow
<1>4. Pending(i)' <=> i = id
  BY <1>1, <1>3 DEF Pending, Announce
<1>5. ~Pending(i)
  BY DEF Pending, InstallWindow, IsAt
<1>6. Open(i)' <=> Open(i) \/ i = id
  BY <1>1 DEF Open, InstallWindow
<1>7. ~Open(id)
  BY <1>1 DEF Open, SlotFree, InstallWindow, IsAt
<1>8. balance' = balance
  BY DEF InstallWindow
<1>9. Cardinality(Told(i)) \in Nat
  BY ToldFinite
<1> HIDE DEF id
<1>10. QED
  BY <1>2, <1>4, <1>5, <1>6, <1>7, <1>8, <1>9 DEF Explained

(* The open is told.                                                       *)
LEMMA BalanceAnnounced ==
    ASSUME ThreadsOK, HistoriesOK, NEW i \in Ids, Explained(i), NotifyOpen
    PROVE  Explained(i)'
<1> DEFINE id == thread[Game].id
<1>1. id \in WindowIds /\ id \in Ids
  BY ThreadParts, StepParts, GameIsThread, IdsOfWindows DEF NotifyOpen, IsAt
<1>2. PICK p \in {Idle, Stopped} : Become(Game, p)
  BY DEF NotifyOpen, HandlerReturns
<1>3. p \in Steps /\ p.at \notin ToTell /\ p.at # "announce"
  BY SimpleSteps DEF ToTell
<1>4. Told(i)' = Told(i)
  BY <1>2, <1>3, TellsSame, GameIsThread DEF NotifyOpen, IsAt, ToTell
<1>5. ~Pending(i)'
  BY <1>2, <1>3, GameMoves, GameIsThread DEF Pending
<1>6. Pending(i) <=> i = id
  BY DEF Pending, NotifyOpen, IsAt
<1>7. balance'[i] = balance[i] + (IF i = id THEN 1 ELSE 0)
  BY <1>1, NotifyOK DEF NotifyOpen
<1>8. Open(i)' <=> Open(i)
  BY DEF Open, NotifyOpen
<1>9. Cardinality(Told(i)) \in Nat
  BY ToldFinite
<1> HIDE DEF id
<1>10. QED
  BY <1>4, <1>5, <1>6, <1>7, <1>8, <1>9 DEF Explained

(* The handlers of contents open and close nothing.                        *)
LEMMA ContentsHandled ==
    ASSUME ContentPackets
    PROVE  /\ IsAt(Game, "idle") /\ HandlerReturns
           /\ DOMAIN screens' = DOMAIN screens
           /\ UNCHANGED <<listed, balance, declared>>
<1>1. Become(Game, Idle) \/ Become(Game, Stopped) => HandlerReturns
  BY DEF HandlerReturns
<1>2. \A id, data : WritesWindow(id, data) => HandlerReturns /\ DOMAIN screens' = DOMAIN screens
  BY <1>1 DEF WritesWindow
<1>3. ASSUME NEW s, NEW v, NEW data, OnSetInventoryContent(s, data, v)
      PROVE  /\ IsAt(Game, "idle") /\ HandlerReturns
             /\ DOMAIN screens' = DOMAIN screens
             /\ UNCHANGED <<listed, balance, declared>>
  BY <1>1, <1>3 DEF OnSetInventoryContent
<1>4. ASSUME NEW s, NEW v, NEW id, NEW data, OnSetWindowContent(id, s, data, v)
      PROVE  /\ IsAt(Game, "idle") /\ HandlerReturns
             /\ DOMAIN screens' = DOMAIN screens
             /\ UNCHANGED <<listed, balance, declared>>
  BY <1>2, <1>4 DEF OnSetWindowContent, WritesWindow
<1>5. ASSUME NEW s, NEW v, OnSetSlotCursor(s, v)
      PROVE  /\ IsAt(Game, "idle") /\ HandlerReturns
             /\ DOMAIN screens' = DOMAIN screens
             /\ UNCHANGED <<listed, balance, declared>>
  BY <1>5 DEF OnSetSlotCursor
<1>6. ASSUME NEW s, NEW v, NEW i, OnSetSlotInventory(s, i, v)
      PROVE  /\ IsAt(Game, "idle") /\ HandlerReturns
             /\ DOMAIN screens' = DOMAIN screens
             /\ UNCHANGED <<listed, balance, declared>>
  BY <1>1, <1>6 DEF OnSetSlotInventory
<1>7. ASSUME NEW s, NEW v, NEW id, NEW i, OnSetSlotWindow(id, s, i, v)
      PROVE  /\ IsAt(Game, "idle") /\ HandlerReturns
             /\ DOMAIN screens' = DOMAIN screens
             /\ UNCHANGED <<listed, balance, declared>>
  <2>1. HandlerReturns /\ DOMAIN screens' = DOMAIN screens
    BY <1>1, <1>7 DEF OnSetSlotWindow
  <2>2. QED
    BY <1>7, <2>1 DEF OnSetSlotWindow
<1>8. ASSUME NEW s, NEW id, OnSetSlotClosed(id, s)
      PROVE  /\ IsAt(Game, "idle") /\ HandlerReturns
             /\ DOMAIN screens' = DOMAIN screens
             /\ UNCHANGED <<listed, balance, declared>>
  BY <1>8 DEF OnSetSlotClosed
<1>9. ASSUME NEW i, NEW v, OnSetPlayerInventory(i, v)
      PROVE  /\ IsAt(Game, "idle") /\ HandlerReturns
             /\ DOMAIN screens' = DOMAIN screens
             /\ UNCHANGED <<listed, balance, declared>>
  BY <1>1, <1>9 DEF OnSetPlayerInventory
<1>10. QED
  BY <1>3, <1>4, <1>5, <1>6, <1>7, <1>8, <1>9 DEF ContentPackets

(* So they keep the invariant.                                             *)
LEMMA BalanceHandled ==
    ASSUME ScreenTypeOK, SlotFree, NEW i \in Ids, Explained(i),
           IsAt(Game, "idle"), HandlerReturns,
           DOMAIN screens' = DOMAIN screens, UNCHANGED <<listed, balance>>
    PROVE  Explained(i)' /\ SlotFree'
<1>1. PICK p \in {Idle, Stopped} : Become(Game, p)
  BY DEF HandlerReturns
<1>2. p \in Steps /\ p.at \notin ToTell /\ p.at \notin {"announce", "evicted", "install"}
  BY SimpleSteps DEF ToTell
<1>3. Explained(i)'
  BY <1>1, <1>2, BalanceStays, GameIsThread DEF ScreenTypeOK, IsAt, ToTell
<1>4. SlotFree'
  BY <1>1, <1>2, FreeStays, GameIsThread DEF ScreenTypeOK
<1>5. QED
  BY <1>3, <1>4

(* After Remove only this window is not open.                              *)
LEMMA OpenAfterRemove ==
    ASSUME WindowsOK, NEW id \in WindowIds, Remove(id)
    PROVE  /\ \A j \in Ids : Open(j)' <=> Open(j) /\ j # id
           /\ DOMAIN screens' = DOMAIN screens \ {id}
  BY ScreenAssumption DEF Remove, Open

(* OnOpenScreen, with a stale window under the ID or without.              *)
LEMMA BalanceOpen ==
    ASSUME ScreenTypeOK, SlotFree, NEW i \in Ids, Explained(i),
           NEW id \in WindowIds, NEW layout, NewWindow(layout) \in Windows,
           OnOpenScreen(id, layout)
    PROVE  Explained(i)' /\ SlotFree'
<1> DEFINE w == NewWindow(layout)
<1>1. IsAt(Game, "idle") /\ balance' = balance
  BY DEF OnOpenScreen
<1>2. \/ id \in DOMAIN screens /\ Remove(id) /\ Become(Game, Evicted(id, w))
      \/ id \notin DOMAIN screens /\ Become(Game, Install(id, w)) /\ UNCHANGED <<screens, listed>>
  BY Zenon DEF OnOpenScreen
<1> HIDE DEF w
<1>3. w \in Windows /\ WindowsOK /\ ThreadsOK
  BY DEF w, ScreenTypeOK
<1>4. CASE id \in DOMAIN screens /\ Remove(id) /\ Become(Game, Evicted(id, w))
  <2>1. Evicted(id, w) \in Steps /\ Evicted(id, w).at = "evicted" /\ Evicted(id, w).id = id
    BY <1>3, SimpleSteps DEF Evicted
  <2>2. Open(id) /\ id # 0
    BY <1>4, ScreenAssumption DEF Open
  <2>3. Explained(i)'
    BY <1>1, <1>3, <1>4, <2>1, <2>2, OpenAfterRemove, BalanceCloses, GameIsThread DEF ToTell
  <2>4. SlotFree'
    BY <1>3, <1>4, <2>1, OpenAfterRemove, FreeStays, GameIsThread
  <2>5. QED
    BY <2>3, <2>4
<1>5. CASE id \notin DOMAIN screens /\ Become(Game, Install(id, w)) /\ UNCHANGED <<screens, listed>>
  <2>1. Install(id, w) \in Steps /\ Install(id, w).at = "install" /\ Install(id, w).id = id
    BY <1>3, SimpleSteps DEF Install
  <2>2. Explained(i)'
    BY <1>1, <1>3, <1>5, <2>1, BalanceStays, GameIsThread DEF ToTell, IsAt
  <2>3. SlotFree'
    BY <1>3, <1>5, <2>1, FreeStays, GameIsThread
  <2>4. QED
    BY <2>2, <2>3
<1>6. QED
  BY <1>2, <1>4, <1>5

(* A close by the server or by ForceCloseScreen.                           *)
LEMMA BalanceClose ==
    ASSUME ScreenTypeOK, SlotFree, NEW i \in Ids, Explained(i),
           NEW t \in Threads, NEW id \in WindowIds, IsAt(t, "idle"), id \in DOMAIN screens,
           Remove(id), Become(t, Closing(id)), balance' = balance
    PROVE  Explained(i)' /\ SlotFree'
<1>1. ThreadsOK /\ WindowsOK
  BY DEF ScreenTypeOK
<1>2. /\ Closing(id) \in Steps /\ Closing(id).at = "closing" /\ Closing(id).id = id
  BY SimpleSteps, IdsOfWindows DEF Closing
<1>3. Open(id)
  BY ScreenAssumption DEF Open
<1>4. Explained(i)'
  BY <1>1, <1>2, <1>3, OpenAfterRemove, BalanceCloses DEF ToTell
<1>5. SlotFree'
  BY <1>1, <1>2, OpenAfterRemove, FreeStays
<1>6. QED
  BY <1>4, <1>5

(* A close of window 0.                                                    *)
LEMMA BalanceCloseInventory ==
    ASSUME ScreenTypeOK, SlotFree, NEW i \in Ids, Explained(i), OnCloseInventory
    PROVE  Explained(i)' /\ SlotFree'
<1>1. ThreadsOK /\ WindowsOK
  BY DEF ScreenTypeOK
<1>2. /\ Closing(0) \in Steps /\ Closing(0).at = "closing" /\ Closing(0).id = 0
  BY SimpleSteps DEF Closing, Ids
<1>3. Open(0) /\ \A j \in Ids : Open(j)' <=> Open(j) /\ j # 0
  BY DEF Open, OnCloseInventory
<1>4. Explained(i)'
  BY <1>1, <1>2, <1>3, BalanceCloses, GameIsThread DEF ToTell, OnCloseInventory
<1>5. SlotFree'
  BY <1>1, <1>2, FreeStays, GameIsThread DEF OnCloseInventory
<1>6. QED
  BY <1>4, <1>5

(* The close of a stale window is told.                                    *)
LEMMA BalanceEvicted ==
    ASSUME ScreenTypeOK, SlotFree, NEW i \in Ids, Explained(i), NotifyEvicted
    PROVE  Explained(i)' /\ SlotFree'
<1> DEFINE id == thread[Game].id
           w == thread[Game].window
<1>1. ThreadsOK /\ HistoriesOK
  BY DEF ScreenTypeOK
<1>2. id \in WindowIds /\ id \in Ids /\ w \in Windows
  BY <1>1, ThreadParts, StepParts, GameIsThread, IdsOfWindows DEF NotifyEvicted, IsAt
<1>3. id \notin DOMAIN screens
  BY DEF SlotFree, NotifyEvicted, IsAt
<1>4. PICK p \in {Install(id, w), Stopped} : Become(Game, p)
  BY DEF NotifyEvicted
<1>5. /\ p \in Steps /\ p.at \in {"install", "stopped"}
      /\ p.at = "install" => p.id = id
  BY <1>2, SimpleSteps DEF Install
<1>6. Explained(i)'
  BY <1>1, <1>2, <1>4, <1>5, BalanceTells, GameIsThread DEF ToTell, NotifyEvicted, IsAt
<1>7. SlotFree'
  BY <1>1, <1>3, <1>4, <1>5, FreeStays, GameIsThread DEF NotifyEvicted
<1>8. QED
  BY <1>6, <1>7

(* The close of another window is told.                                    *)
LEMMA BalanceNotified ==
    ASSUME ScreenTypeOK, SlotFree, NEW i \in Ids, Explained(i),
           NEW t \in Threads, NotifyClose(t)
    PROVE  Explained(i)' /\ SlotFree'
<1>1. ThreadsOK /\ HistoriesOK
  BY DEF ScreenTypeOK
<1>2. thread[t].id \in Ids
  BY <1>1, ThreadParts, StepParts DEF NotifyClose, IsAt
<1>3. PICK p \in {Idle, Stopped} : Become(t, p)
  BY DEF NotifyClose, HandlerReturns
<1>4. p \in Steps /\ p.at \in {"idle", "stopped"}
  BY SimpleSteps
<1>5. Explained(i)'
  BY <1>1, <1>2, <1>3, <1>4, BalanceTells DEF ToTell, NotifyClose, IsAt
<1>6. SlotFree'
  BY <1>1, <1>3, <1>4, FreeStays DEF NotifyClose
<1>7. QED
  BY <1>5, <1>6

(* Clicks open and close nothing.                                          *)
LEMMA BalanceClicks ==
    ASSUME ScreenTypeOK, SlotFree, NEW i \in Ids, Explained(i),
           NEW t \in Clickers, Clicks(t)
    PROVE  Explained(i)' /\ SlotFree'
<1>1. ThreadsOK /\ t \in Threads
  BY ScreenAssumption DEF ScreenTypeOK
<1>2. /\ UNCHANGED <<screens, listed, balance>>
      /\ thread[t].at \in {"idle", "click", "sent"}
      /\ Become(t, Click(stateID)) \/ Become(t, Sent) \/ Become(t, Idle)
  BY DEF Clicks, ClickRead, ClickSend, ClickAdvance, IsAt
<1>3. PICK p \in Steps : Become(t, p) /\ p.at \in {"idle", "click", "sent"}
  BY <1>2, SimpleSteps DEF ScreenTypeOK, ContentsOK
<1>4. Explained(i)'
  BY <1>1, <1>2, <1>3, BalanceStays DEF ToTell
<1>5. SlotFree'
  BY <1>1, <1>2, <1>3, FreeStays
<1>6. QED
  BY <1>4, <1>5

(* The invariant holds at the start,                                       *)
LEMMA BalanceInit == Init => BalanceInv
<1> SUFFICES ASSUME Init PROVE BalanceInv
  OBVIOUS
<1>1. thread[Game] = Idle /\ SlotFree
  BY GameIsThread DEF Init, SlotFree, Idle
<1>2. ThreadsOK
  BY TypeInit DEF ScreenTypeOK
<1>3. ASSUME NEW i \in Ids PROVE Explained(i)
  <2>1. Told(i) = {}
    BY DEF Init, Told, Idle
  <2>2. Cardinality(Told(i)) = 0
    BY <2>1, FS_EmptySet
  <2>3. ~Pending(i)
    BY <1>1 DEF Pending, Idle
  <2>4. balance[i] = IF Open(i) THEN 1 ELSE 0
    BY DEF Init, Open
  <2>5. QED
    BY <2>2, <2>3, <2>4 DEF Explained
<1>4. QED
  BY <1>1, <1>2, <1>3, ExplainedMeans DEF BalanceInv, AllExplained

(* and every step keeps it.                                                *)
LEMMA BalanceStep == ScreenTypeOK /\ BalanceInv /\ [Next]_vars => BalanceInv'
<1> SUFFICES ASSUME ScreenTypeOK, BalanceInv, [Next]_vars PROVE BalanceInv'
  OBVIOUS
<1>1. ScreenTypeOK' /\ ThreadsOK'
  BY TypeStep DEF ScreenTypeOK
<1>2. SlotFree /\ \A i \in Ids : Explained(i)
  BY ExplainedMeans DEF BalanceInv, ScreenTypeOK, AllExplained
<1> SUFFICES ASSUME NEW i \in Ids PROVE Explained(i)' /\ SlotFree'
  <2>1. BalanceIsExplained' <=> AllExplained'
    BY <1>1, ExplainedMeans, PTL
  <2>2. QED
    BY <2>1, IdsOfWindows DEF BalanceInv, AllExplained, Ids
<1>3. Explained(i)
  BY <1>2
<1>4. CASE OpenPackets
  <2>1. ASSUME PacketRefused PROVE Explained(i)' /\ SlotFree'
    <3>1. HandlerReturns
      BY <2>1 DEF PacketRefused, HandlerReturns
    <3>2. QED
      BY <1>2, <1>3, <2>1, <3>1, BalanceHandled DEF PacketRefused
  <2>2. QED
    BY <1>2, <1>3, <1>4, <2>1, BalanceOpen, OpensWindow DEF OpenPackets, OnOpenHorseScreen
<1>5. CASE ClosePackets
  BY <1>2, <1>3, <1>5, BalanceClose, BalanceCloseInventory, GameIsThread
     DEF ClosePackets, OnCloseScreen
<1>6. CASE ContentPackets
  BY <1>2, <1>3, <1>6, ContentsHandled, BalanceHandled
<1>7. CASE Notifications
  <2>1. ASSUME InstallWindow PROVE Explained(i)' /\ SlotFree'
    <3>1. thread'[Game].at = "announce"
      BY <2>1, GameIsThread DEF InstallWindow, Become, ScreenTypeOK, ThreadsOK, Announce
    <3>2. QED
      BY <1>2, <1>3, <2>1, <3>1, BalanceInstall DEF ScreenTypeOK, SlotFree
  <2>2. ASSUME NotifyOpen PROVE Explained(i)' /\ SlotFree'
    <3>1. thread'[Game].at \in {"idle", "stopped"}
      BY <2>2, GameIsThread
         DEF NotifyOpen, HandlerReturns, Become, ScreenTypeOK, ThreadsOK, Idle, Stopped
    <3>2. QED
      BY <1>2, <1>3, <2>2, <3>1, BalanceAnnounced DEF ScreenTypeOK, SlotFree
  <2>3. QED
    BY <1>2, <1>3, <1>7, <2>1, <2>2, BalanceEvicted, BalanceNotified DEF Notifications
<1>8. ASSUME NEW t \in Threads, NEW id \in WindowIds, ForceCloseScreen(t, id)
      PROVE  Explained(i)' /\ SlotFree'
  BY <1>2, <1>3, <1>8, BalanceClose DEF ForceCloseScreen
<1>9. ASSUME NEW t \in Threads, NEW v \in Items, SetCursor(t, v)
      PROVE  Explained(i)' /\ SlotFree'
  BY <1>2, <1>3, <1>9 DEF SetCursor, Explained, SlotFree, Told, Pending, Open
<1>10. ASSUME NEW t \in Clickers, Clicks(t)
       PROVE  Explained(i)' /\ SlotFree'
  BY <1>2, <1>3, <1>10, BalanceClicks
<1>11. CASE UNCHANGED vars
  BY <1>2, <1>3, <1>11 DEF vars, Explained, SlotFree, Told, Pending, Open
<1>12. QED
  BY <1>4, <1>5, <1>6, <1>7, <1>8, <1>9, <1>10, <1>11 DEF Next

(* The state of the manager has its types: every open window is a window   *)
(* under an ID other than 0, and the inventory keeps its 46 slots, in      *)
(* every state.                                                            *)
THEOREM ScreenTypeCorrect == Spec => []ScreenTypeOK
  BY TypeInit, TypeStep, PTL DEF Spec

(* In every state what the listener was told of a window, opens less       *)
(* closes, is what is open, but for the closes still to be told and the    *)
(* open still to be told (screen.go:452-804), however the evictions of     *)
(* onOpenScreen, the server's closes and ForceCloseScreen interleave.      *)
THEOREM BalanceCorrect == Spec => []BalanceIsExplained
<1>1. BalanceInv => BalanceIsExplained
  BY DEF BalanceInv
<1>2. QED
  BY <1>1, TypeInit, TypeStep, BalanceInit, BalanceStep, PTL DEF Spec
-----------------------------------------------------------------------------
(* What packets change *)

(* No window changes that is open before and after, nor the inventory.     *)
SameWindows ==
    \A id \in DOMAIN screens \intersect DOMAIN screens' : screens'[id] = screens[id]

(* Steps other than content handlers leave contents and windows alone.     *)
LEMMA OthersKeep ==
    ASSUME ScreenTypeOK, SlotFree, [Next]_vars, ~ContentPackets
    PROVE  inventory' = inventory /\ SameWindows
<1>1. \A id \in WindowIds : Remove(id) => SameWindows
  BY DEF Remove, SameWindows
<1>2. UNCHANGED screens => SameWindows
  BY DEF SameWindows
<1>3. CASE OpenPackets
  <2>1. ASSUME NEW id \in WindowIds, NEW layout, OnOpenScreen(id, layout)
        PROVE  inventory' = inventory /\ SameWindows
    <3>1. Remove(id) \/ UNCHANGED screens
      BY <2>1, Zenon DEF OnOpenScreen
    <3>2. QED
      BY <1>1, <1>2, <2>1, <3>1 DEF OnOpenScreen, contents
  <2>2. ASSUME PacketRefused PROVE inventory' = inventory /\ SameWindows
    BY <1>2, <2>2 DEF PacketRefused, contents
  <2>3. QED
    BY <1>3, <2>1, <2>2 DEF OpenPackets, OnOpenHorseScreen
<1>4. CASE ClosePackets
  BY <1>1, <1>2, <1>4 DEF ClosePackets, OnCloseInventory, OnCloseScreen, contents
<1>5. CASE Notifications
  <2>1. ASSUME InstallWindow PROVE inventory' = inventory /\ SameWindows
    <3>1. thread[Game].id \notin DOMAIN screens
      BY <2>1 DEF InstallWindow, SlotFree, IsAt
    <3>2. QED
      BY <2>1, <3>1 DEF InstallWindow, SameWindows, contents
  <2>2. ASSUME NotifyEvicted \/ NotifyOpen \/ \E t \in Threads : NotifyClose(t)
        PROVE  UNCHANGED <<screens, inventory>>
    BY <2>2 DEF NotifyEvicted, NotifyOpen, NotifyClose, contents
  <2>3. QED
    BY <1>2, <1>5, <2>1, <2>2 DEF Notifications
<1>6. ASSUME NEW t \in Threads, NEW id \in WindowIds, ForceCloseScreen(t, id)
      PROVE  inventory' = inventory /\ SameWindows
  BY <1>1, <1>6 DEF ForceCloseScreen, contents
<1>7. ASSUME NEW t \in Threads, NEW v \in Items, SetCursor(t, v)
      PROVE  inventory' = inventory /\ SameWindows
  BY <1>2, <1>7 DEF SetCursor
<1>8. ASSUME NEW t \in Clickers, Clicks(t)
      PROVE  inventory' = inventory /\ SameWindows
  BY <1>2, <1>8 DEF Clicks, ClickRead, ClickSend, ClickAdvance, contents
<1>9. CASE UNCHANGED vars
  BY <1>2, <1>9 DEF vars, contents
<1>10. QED
  BY <1>3, <1>4, <1>5, <1>6, <1>7, <1>8, <1>9 DEF Next

(* What a packet with contents does to the slots:                          *)
TouchesRows ==
    \/ UNCHANGED screens
    \/ \E id \in DOMAIN screens, w \in Windows :
          /\ screens' = [screens EXCEPT ![id] = w]
          /\ w.own = screens[id].own /\ DOMAIN w.slots = DOMAIN screens[id].slots
          /\ inventory' \in {inventory, Mirrored(w)}

(* A handler that writes a window does so.                                 *)
LEMMA WritesTouch ==
    ASSUME ScreenTypeOK, NEW id \in DOMAIN screens, NEW data, OfItems(data),
           WritesWindow(id, data)
    PROVE  TouchesRows
<1> DEFINE w == WriteWindow(screens[id], data)
<1>1. /\ w \in Windows
      /\ w.own = screens[id].own /\ DOMAIN w.slots = DOMAIN screens[id].slots
  BY WindowsParts, WriteWindowType DEF ScreenTypeOK
<1>2. screens' = [screens EXCEPT ![id] = w]
  BY DEF WritesWindow, WriteWindow
<1>3. inventory' \in {inventory, Mirrored(w)}
  BY DEF WritesWindow, WriteWindow
<1> HIDE DEF w
<1>4. QED
  BY <1>1, <1>2, <1>3 DEF TouchesRows

(* So does every content handler, and it counts itself.                    *)
LEMMA ContentsTouch ==
    ASSUME ScreenTypeOK, ContentPackets
    PROVE  TouchesRows /\ RecordServerUpdate
<1>1. ASSUME NEW s, NEW v, NEW data, OnSetInventoryContent(s, data, v)
      PROVE  TouchesRows /\ RecordServerUpdate
  BY <1>1 DEF OnSetInventoryContent, TouchesRows
<1>2. ASSUME NEW s, NEW v, NEW id \in DOMAIN screens, NEW n, NEW data \in Data(n),
             OnSetWindowContent(id, s, data, v)
      PROVE  TouchesRows /\ RecordServerUpdate
  <2>1. WritesWindow(id, data) /\ RecordServerUpdate
    BY <1>2 DEF OnSetWindowContent, WritesWindow
  <2>2. QED
    BY <2>1, WritesTouch, DataItems
<1>3. ASSUME NEW s, NEW v, OnSetSlotCursor(s, v)
      PROVE  TouchesRows /\ RecordServerUpdate
  BY <1>3 DEF OnSetSlotCursor, TouchesRows
<1>4. ASSUME NEW s, NEW v, NEW i, OnSetSlotInventory(s, i, v)
      PROVE  TouchesRows /\ RecordServerUpdate
  BY <1>4 DEF OnSetSlotInventory, TouchesRows
<1>5. ASSUME NEW s, NEW v \in Items, NEW id \in DOMAIN screens, NEW i,
             OnSetSlotWindow(id, s, i, v)
      PROVE  TouchesRows /\ RecordServerUpdate
  <2> DEFINE data == [j \in {i} |-> v]
  <2>1. WritesWindow(id, data) /\ RecordServerUpdate
    <3>1. \A f : Fits(f, data) <=> i \in DOMAIN f
      BY DEF Fits
    <3> HIDE DEF data
    <3>2. QED
      BY <1>5, <3>1 DEF OnSetSlotWindow, WritesWindow, data
  <2>2. QED
    BY <2>1, WritesTouch, SlotItems
<1>6. ASSUME NEW s, NEW id, OnSetSlotClosed(id, s)
      PROVE  TouchesRows /\ RecordServerUpdate
  BY <1>6 DEF OnSetSlotClosed, TouchesRows
<1>7. ASSUME NEW i, NEW v, OnSetPlayerInventory(i, v)
      PROVE  TouchesRows /\ RecordServerUpdate
  BY <1>7 DEF OnSetPlayerInventory, TouchesRows
<1>8. QED
  BY <1>1, <1>2, <1>3, <1>4, <1>5, <1>6, <1>7 DEF ContentPackets

(* No packet changes the inventory or an open window without advancing     *)
(* serverUpdateVersion (screen.go:258-265): a caller that waits for it     *)
(* misses nothing.                                                         *)
THEOREM ChangesCorrect == Spec => ChangesAreCounted
<1>1. ASSUME ScreenTypeOK, BalanceInv, [Next]_vars
      PROVE  (\/ inventory' # inventory
              \/ \E id \in DOMAIN screens \intersect DOMAIN screens' :
                    screens'[id] # screens[id])
                => serverUpdateVersion' > serverUpdateVersion
  <2>1. CASE ContentPackets
    <3>1. serverUpdateVersion \in Nat /\ serverUpdateVersion' = serverUpdateVersion + 1
      BY <1>1, <2>1, ContentsTouch DEF RecordServerUpdate, ScreenTypeOK, ContentsOK
    <3>2. QED
      BY <3>1
  <2>2. CASE ~ContentPackets
    BY <1>1, <2>2, OthersKeep DEF SameWindows, BalanceInv
  <2>3. QED
    BY <2>1, <2>2
<1>2. QED
  BY <1>1, TypeInit, TypeStep, BalanceInit, BalanceStep, PTL DEF Spec, ChangesAreCounted

(* A packet for a window reaches the rows of that window in the inventory  *)
(* and no other slot, and makes neither longer, whatever the layout        *)
(* (mirrorPlayerInventory, screen.go:340-368).                             *)
THEOREM RowsCorrect == Spec => WindowsTouchOnlyRows
<1>1. ASSUME ScreenTypeOK, BalanceInv, [Next]_vars
      PROVE  /\ DOMAIN inventory' = DOMAIN inventory
             /\ \A id \in DOMAIN screens \intersect DOMAIN screens' :
                   screens'[id] # screens[id] =>
                       /\ DOMAIN screens'[id].slots = DOMAIN screens[id].slots
                       /\ \A i \in DOMAIN inventory :
                             inventory'[i] # inventory[i] => i \in Rows(screens[id])
  <2>1. DOMAIN inventory' = DOMAIN inventory
    BY <1>1, TypeStep DEF ScreenTypeOK, ContentsOK
  <2>2. SUFFICES ASSUME NEW id \in DOMAIN screens \intersect DOMAIN screens',
                        screens'[id] # screens[id]
                 PROVE  /\ DOMAIN screens'[id].slots = DOMAIN screens[id].slots
                        /\ \A i \in DOMAIN inventory :
                              inventory'[i] # inventory[i] => i \in Rows(screens[id])
    BY <2>1
  <2>3. ContentPackets
    BY <1>1, <2>2, OthersKeep DEF SameWindows, BalanceInv
  <2>4. PICK d \in DOMAIN screens, w \in Windows :
          /\ screens' = [screens EXCEPT ![d] = w]
          /\ w.own = screens[d].own /\ DOMAIN w.slots = DOMAIN screens[d].slots
          /\ inventory' \in {inventory, Mirrored(w)}
    BY <1>1, <2>2, <2>3, ContentsTouch DEF TouchesRows
  <2>5. d = id /\ screens'[id] = w
    BY <1>1, <2>2, <2>4, WindowsParts DEF ScreenTypeOK
  <2>6. Rows(w) = Rows(screens[id])
    BY <2>4, <2>5 DEF Rows, HasMain, HasHotbar
  <2>7. ASSUME NEW i \in DOMAIN inventory, inventory'[i] # inventory[i]
        PROVE  i \in Rows(screens[id])
    BY <2>4, <2>6, <2>7 DEF Mirrored
  <2>8. QED
    BY <2>4, <2>5, <2>7
<1>2. QED
  BY <1>1, TypeInit, TypeStep, BalanceInit, BalanceStep, PTL DEF Spec, WindowsTouchOnlyRows
-----------------------------------------------------------------------------
(* Clicks *)

(* A goroutine is inside ContainerClick.                                   *)
InClick == {"click", "sent"}

(* Every declared state ID is behind n.                                    *)
DeclaredBelow(n) == \A i \in DOMAIN declared : declared[i] < n

(* The inductive invariant: what was declared is behind the state ID, and  *)
(* so is what a click built but not sent; one sent but not advanced is     *)
(* level with it.                                                          *)
ClickInv ==
    /\ ClicksAreDistinct
    /\ DeclaredBelow(stateID + 1)
    /\ (\A t \in Clickers : thread[t].at # "sent") => DeclaredBelow(stateID)
    /\ \A t \in Clickers : thread[t].at = "click" =>
          thread[t].state <= stateID /\ DeclaredBelow(thread[t].state)

(* A step that sends no click: the state ID does not go back.              *)
Aside ==
    /\ declared' = declared
    /\ stateID' \in Nat /\ stateID' >= stateID
    /\ \A t \in Threads : \/ thread'[t] = thread[t]
                          \/ thread[t].at \notin InClick /\ thread'[t].at \notin InClick

(* Such a step of a goroutine outside a click.                             *)
LEMMA AsideBy ==
    ASSUME ThreadsOK, NEW t \in Threads, NEW p, Become(t, p),
           thread[t].at \notin InClick, p.at \notin InClick,
           declared' = declared, stateID' \in Nat, stateID' >= stateID
    PROVE  Aside
  BY DEF ThreadsOK, Become, Aside

(* Packets do not take the state ID back.                                  *)
LEMMA ContentsAdvance ==
    ASSUME ContentsOK, ContentPackets
    PROVE  stateID' \in Nat /\ stateID' >= stateID
<1>1. ASSUME NEW s \in StateIds, ApplyServerStateID(s)
      PROVE  stateID' \in Nat /\ stateID' >= stateID
  BY <1>1, ScreenAssumption DEF ApplyServerStateID, ContentsOK
<1>2. stateID' = stateID => stateID' \in Nat /\ stateID' >= stateID
  BY DEF ContentsOK
<1>3. UNCHANGED stateID \/ \E s \in StateIds : ApplyServerStateID(s)
  <2>1. ASSUME NEW s \in StateIds,
               \/ \E v, data : OnSetInventoryContent(s, data, v)
               \/ \E v, id, data : OnSetWindowContent(id, s, data, v)
               \/ \E v : OnSetSlotCursor(s, v)
               \/ \E v, i : OnSetSlotInventory(s, i, v)
               \/ \E v, id, i : OnSetSlotWindow(id, s, i, v)
               \/ \E id : OnSetSlotClosed(id, s)
        PROVE  ApplyServerStateID(s)
    BY <2>1 DEF OnSetInventoryContent, OnSetWindowContent, OnSetSlotCursor,
                OnSetSlotInventory, OnSetSlotWindow, OnSetSlotClosed
  <2>2. ASSUME NEW i, NEW v, OnSetPlayerInventory(i, v)
        PROVE  UNCHANGED stateID
    BY <2>2 DEF OnSetPlayerInventory
  <2>3. QED
    BY <2>1, <2>2 DEF ContentPackets
<1>4. QED
  BY <1>1, <1>2, <1>3

(* Every action but the clicks is aside.                                   *)
LEMMA NotClicking ==
    ASSUME ScreenTypeOK, [Next]_vars
    PROVE  Aside \/ \E t \in Clickers : Clicks(t)
<1>1. ThreadsOK /\ stateID \in Nat
  BY DEF ScreenTypeOK, ContentsOK
<1>2. UNCHANGED stateID => stateID' \in Nat /\ stateID' >= stateID
  BY <1>1
<1>3. /\ Idle.at \notin InClick /\ Stopped.at \notin InClick
      /\ \A id : Closing(id).at \notin InClick /\ Announce(id).at \notin InClick
      /\ \A id, w : Evicted(id, w).at \notin InClick /\ Install(id, w).at \notin InClick
  BY DEF Idle, Stopped, Closing, Announce, Evicted, Install, InClick
<1>4. ASSUME NEW t \in Threads, IsAt(t, "idle") \/ IsAt(t, "closing") \/ IsAt(t, "evicted")
                                  \/ IsAt(t, "install") \/ IsAt(t, "announce")
      PROVE  thread[t].at \notin InClick
  BY <1>4 DEF IsAt, InClick
<1>5. CASE OpenPackets
  <2>1. ASSUME NEW id, NEW layout, OnOpenScreen(id, layout) PROVE Aside
    <3>1. IsAt(Game, "idle") /\ UNCHANGED <<stateID, declared>>
      BY <2>1 DEF OnOpenScreen
    <3>2. PICK p : Become(Game, p) /\ p.at \notin InClick
      BY <1>3, <2>1, Zenon DEF OnOpenScreen
    <3>3. QED
      BY <1>1, <1>2, <1>4, <3>1, <3>2, AsideBy, GameIsThread
  <2>2. ASSUME PacketRefused PROVE Aside
    BY <1>1, <1>2, <1>3, <1>4, <2>2, AsideBy, GameIsThread DEF PacketRefused
  <2>3. QED
    BY <1>5, <2>1, <2>2 DEF OpenPackets, OnOpenHorseScreen
<1>6. CASE ClosePackets
  <2>1. /\ IsAt(Game, "idle") /\ UNCHANGED <<stateID, declared>>
        /\ \E id : Become(Game, Closing(id))
    BY <1>6 DEF ClosePackets, OnCloseInventory, OnCloseScreen
  <2>2. QED
    BY <1>1, <1>2, <1>3, <1>4, <2>1, AsideBy, GameIsThread
<1>7. CASE ContentPackets
  <2>1. IsAt(Game, "idle") /\ HandlerReturns /\ declared' = declared
    BY <1>7, ContentsHandled
  <2>2. stateID' \in Nat /\ stateID' >= stateID
    BY <1>7, ContentsAdvance DEF ScreenTypeOK
  <2>3. PICK p \in {Idle, Stopped} : Become(Game, p)
    BY <2>1 DEF HandlerReturns
  <2>4. QED
    BY <1>1, <1>3, <1>4, <2>1, <2>2, <2>3, AsideBy, GameIsThread
<1>8. CASE Notifications
  <2>1. PICK t \in Threads :
          /\ IsAt(t, "closing") \/ IsAt(t, "evicted") \/ IsAt(t, "install") \/ IsAt(t, "announce")
          /\ \E p : Become(t, p) /\ p.at \notin InClick
    BY <1>3, <1>8, GameIsThread
       DEF Notifications, NotifyEvicted, InstallWindow, NotifyOpen, NotifyClose, HandlerReturns
  <2>2. UNCHANGED <<stateID, declared>>
    BY <1>8 DEF Notifications, NotifyEvicted, InstallWindow, NotifyOpen, NotifyClose
  <2>3. QED
    BY <1>1, <1>2, <1>4, <2>1, <2>2, AsideBy
<1>9. ASSUME NEW t \in Threads, NEW id, ForceCloseScreen(t, id) PROVE Aside
  BY <1>1, <1>2, <1>3, <1>4, <1>9, AsideBy DEF ForceCloseScreen
<1>10. ASSUME NEW t \in Threads, NEW v, SetCursor(t, v) PROVE Aside
  BY <1>1, <1>2, <1>10 DEF SetCursor, Aside
<1>11. CASE UNCHANGED vars
  BY <1>1, <1>2, <1>11 DEF vars, Aside
<1>12. QED
  BY <1>5, <1>6, <1>7, <1>8, <1>9, <1>10, <1>11 DEF Next

(* The invariant holds at the start,                                       *)
LEMMA ClickInit == Init => ClickInv
<1> SUFFICES ASSUME Init PROVE ClickInv
  OBVIOUS
<1>1. DOMAIN declared = {}
  BY DEF Init
<1>2. \A t \in Clickers : thread[t] = Idle
  BY ScreenAssumption DEF Init
<1>3. QED
  BY <1>1, <1>2 DEF ClickInv, ClicksAreDistinct, DeclaredBelow, Idle

(* steps aside keep it,                                                    *)
LEMMA ClickAside ==
    ASSUME ScreenTypeOK, ClickInv, Aside
    PROVE  ClickInv'
<1>1. /\ declared \in Seq(Nat) /\ stateID \in Nat /\ declared' = declared
      /\ stateID' \in Nat /\ stateID' >= stateID
      /\ \A i \in DOMAIN declared : declared[i] \in Nat
  BY ElementOfSeq, LenProperties DEF ScreenTypeOK, HistoriesOK, ContentsOK, Aside
<1>2. ClicksAreDistinct'
  BY <1>1 DEF ClickInv, ClicksAreDistinct
<1>3. DeclaredBelow(stateID + 1)'
  BY <1>1 DEF ClickInv, DeclaredBelow
<1>4. ASSUME \A t \in Clickers : thread'[t].at # "sent" PROVE DeclaredBelow(stateID)'
  <2>1. \A t \in Clickers : thread[t].at # "sent"
    BY <1>4, ScreenAssumption DEF Aside, InClick
  <2>2. QED
    BY <1>1, <2>1 DEF ClickInv, DeclaredBelow
<1>5. ASSUME NEW t \in Clickers, thread'[t].at = "click"
      PROVE  thread'[t].state <= stateID' /\ DeclaredBelow(thread[t].state)'
  <2>1. thread'[t] = thread[t]
    BY <1>5, ScreenAssumption DEF Aside, InClick
  <2>2. thread[t].state \in Nat
    BY <1>5, <2>1, ThreadParts, StepParts, ScreenAssumption DEF ScreenTypeOK
  <2>3. QED
    BY <1>1, <1>5, <2>1, <2>2 DEF ClickInv, DeclaredBelow
<1>6. QED
  BY <1>2, <1>3, <1>4, <1>5 DEF ClickInv

(* and so do the steps of the one clicker.                                 *)
LEMMA ClickStep ==
    ASSUME \A s, t \in Clickers : s = t
    PROVE  ScreenTypeOK /\ ClickInv /\ [Next]_vars => ClickInv'
<1> SUFFICES ASSUME ScreenTypeOK, ClickInv, [Next]_vars PROVE ClickInv'
  OBVIOUS
<1>1. /\ declared \in Seq(Nat) /\ stateID \in Nat
      /\ \A i \in DOMAIN declared : declared[i] \in Nat
      /\ DOMAIN declared = 1 .. Len(declared) /\ Len(declared) \in Nat
  BY ElementOfSeq, LenProperties DEF ScreenTypeOK, HistoriesOK, ContentsOK
<1>2. ASSUME NEW t \in Clickers, Clicks(t) PROVE ClickInv'
  <2>1. t \in Threads /\ Clickers = {t}
    BY ScreenAssumption
  <2>2. CASE ClickRead(t)
    <3>1. thread'[t] = Click(stateID) /\ UNCHANGED <<stateID, declared>>
      BY <2>1, <2>2 DEF ClickRead, Become, ScreenTypeOK, ThreadsOK
    <3>2. DeclaredBelow(stateID)
      BY <2>1, <2>2 DEF ClickInv, ClickRead, IsAt
    <3>3. thread'[t].at = "click" /\ thread'[t].state = stateID
      BY <3>1 DEF Click
    <3>4. QED
      BY <1>1, <2>1, <3>1, <3>2, <3>3 DEF ClickInv, ClicksAreDistinct, DeclaredBelow
  <2>3. CASE ClickSend(t)
    <3>1. /\ thread[t].state \in Nat /\ thread[t].state <= stateID
          /\ DeclaredBelow(thread[t].state) /\ stateID' = stateID
      BY <2>1, <2>3, ThreadParts, StepParts DEF ClickSend, IsAt, ClickInv, ScreenTypeOK
    <3>2. CASE declared' = Append(declared, thread[t].state) /\ Become(t, Sent)
      <4>1. thread'[t].at = "sent"
        BY <2>1, <3>2 DEF Become, ScreenTypeOK, ThreadsOK, Sent
      <4>2. /\ DOMAIN declared' = 1 .. (Len(declared) + 1)
            /\ declared'[Len(declared) + 1] = thread[t].state
            /\ \A i \in 1 .. Len(declared) : declared'[i] = declared[i]
        BY <1>1, <3>1, <3>2, AppendProperties, LenProperties
      <4>3. ClicksAreDistinct'
        BY <1>1, <3>1, <4>2 DEF ClickInv, ClicksAreDistinct, DeclaredBelow
      <4>4. DeclaredBelow(stateID + 1)'
        BY <1>1, <3>1, <4>2 DEF DeclaredBelow
      <4>5. QED
        BY <2>1, <4>1, <4>3, <4>4 DEF ClickInv
    <3>3. CASE declared' = declared /\ Become(t, Idle)
      <4>1. thread'[t].at = "idle"
        BY <2>1, <3>3 DEF Become, ScreenTypeOK, ThreadsOK, Idle
      <4>2. DeclaredBelow(stateID)
        BY <1>1, <3>1 DEF DeclaredBelow
      <4>3. QED
        BY <1>1, <2>1, <3>1, <3>3, <4>1, <4>2 DEF ClickInv, ClicksAreDistinct, DeclaredBelow
    <3>4. QED
      BY <2>3, <3>2, <3>3 DEF ClickSend
  <2>4. CASE ClickAdvance(t)
    <3>1. thread'[t].at = "idle" /\ stateID' = stateID + 1 /\ declared' = declared
      BY <2>1, <2>4 DEF ClickAdvance, Become, ScreenTypeOK, ThreadsOK, Idle
    <3>2. DeclaredBelow(stateID + 1)
      BY DEF ClickInv
    <3>3. QED
      BY <1>1, <2>1, <3>1, <3>2 DEF ClickInv, ClicksAreDistinct, DeclaredBelow
  <2>5. QED
    BY <1>2, <2>2, <2>3, <2>4 DEF Clicks
<1>3. QED
  BY <1>2, NotClicking, ClickAside

(* With one clicking goroutine no two clicks declare the same state ID,    *)
(* and each declares a later one than the clicks before                    *)
(* (screen.go:914-917), whatever the server's packets do to the state ID   *)
(* between the steps of a click.                                           *)
THEOREM ClicksCorrect ==
    ASSUME \A s, t \in Clickers : s = t
    PROVE  Spec => []ClicksAreDistinct
<1>1. ScreenTypeOK /\ ClickInv /\ [Next]_vars => ClickInv'
  BY ClickStep
<1>2. ClickInv => ClicksAreDistinct
  BY DEF ClickInv
<1>3. QED
  BY <1>1, <1>2, TypeInit, TypeStep, ClickInit, PTL DEF Spec

-----------------------------------------------------------------------------
(* The session: types *)

(* Slot data of any window; the packets to the client and to the server.   *)
Contents == UNION { [Slots(n) -> Items] : n \in Nat }

Packets ==
    [type : {"open"}, id : WindowIds, layout : Layouts]
        \union [type : {"content"}, id : WindowIds, state : Nat, data : Contents]
        \union [type : {"slot"}, id : Ids, state : Nat, slot : Int, item : Items]
        \union [type : {"close"}, id : WindowIds]

Answers ==
    [type : {"click"}, state : Nat] \union [type : {"close"}, id : WindowIds]

(* The server's state and the links have their types.                      *)
ServerOK ==
    /\ truth \in [Slots(InventorySize) -> Items]
    /\ win \in Ids
    /\ winLayout \in Layouts
    /\ serverState \in Nat

LinksOK ==
    /\ link \in Seq(Packets)
    /\ uplink \in Seq(Answers)

SessionTypeOK == ScreenTypeOK /\ ServerOK /\ LinksOK

(* The layout shows the player's rows, row i in the slot RowAt.            *)
HasRows(layout) == layout.total # layout.own
RowAt(layout, i) == layout.own + (i - MainStart)

-----------------------------------------------------------------------------
(* What the packets are made of *)

(* What a packet carries, by its type.                                     *)
LEMMA PacketParts ==
    ASSUME NEW p \in Packets
    PROVE  /\ p.type \in {"open", "content", "slot", "close"}
           /\ p.type = "open" => p.id \in WindowIds /\ p.layout \in Layouts
           /\ p.type = "content" => p.id \in WindowIds /\ p.state \in Nat /\ p.data \in Contents
           /\ p.type = "slot" => /\ p.id \in Ids /\ p.state \in Nat
                                 /\ p.slot \in Int /\ p.item \in Items
           /\ p.type = "close" => p.id \in WindowIds
  BY DEF Packets

(* What the client sends.                                                  *)
LEMMA AnswerParts ==
    ASSUME NEW p \in Answers
    PROVE  /\ p.type \in {"click", "close"}
           /\ p.type = "close" => p.id \in WindowIds
  BY DEF Answers

(* A layout, and the window made of it.                                    *)
LEMMA LayoutParts ==
    ASSUME NEW layout \in Layouts
    PROVE  /\ layout.own \in Nat /\ layout.total \in Nat
           /\ HasRows(layout) => layout.total = layout.own + MainLength + HotbarLength
           /\ NewWindow(layout) \in Windows
           /\ NewWindow(layout).own = layout.own
           /\ DOMAIN NewWindow(layout).slots = Slots(layout.total)
<1>1. layout \in [own : Nat, total : Nat]
  BY ScreenAssumption
<1>2. QED
  BY <1>1, SessionAssumption, OpensWindow DEF HasRows, NewWindow

(* The rows are slots of the inventory, counted from MainStart.            *)
LEMMA AllRowsInside ==
    /\ AllRows \subseteq Slots(InventorySize)
    /\ MainStart \in AllRows
    /\ \A i \in AllRows : i \in Nat /\ MainStart <= i /\ i - MainStart < MainLength + HotbarLength
    /\ \A k \in Nat : k < MainLength + HotbarLength => MainStart + k \in AllRows
  BY ScreenAssumption, SessionAssumption DEF AllRows, Slots, HotbarStart

(* What a content packet carries is slot data.                             *)
LEMMA ContentItems == \A data \in Contents : OfItems(data)
  BY DEF Contents, OfItems

(* The server and the client make packets.                                 *)
LEMMA PacketsMade ==
    /\ \A id \in WindowIds, l \in Layouts : OpenPacket(id, l) \in Packets
    /\ \A id \in WindowIds, s \in Nat, d \in Contents : ContentPacket(id, s, d) \in Packets
    /\ \A id \in WindowIds : ClosePacket(id) \in Packets /\ ClosePacket(id) \in Answers
    /\ \A s \in Nat : ClickPacket(s) \in Answers
<1>1. \A id \in WindowIds, l \in Layouts : OpenPacket(id, l) \in Packets
  BY DEF OpenPacket, Packets
<1>2. \A id \in WindowIds, s \in Nat, d \in Contents : ContentPacket(id, s, d) \in Packets
  BY DEF ContentPacket, Packets
<1>3. \A id \in WindowIds : ClosePacket(id) \in Packets /\ ClosePacket(id) \in Answers
  BY DEF ClosePacket, Packets, Answers
<1>4. \A s \in Nat : ClickPacket(s) \in Answers
  BY DEF ClickPacket, Answers
<1>5. QED
  BY <1>1, <1>2, <1>3, <1>4

(* A slot packet is a packet.                                              *)
LEMMA SlotPacketMade ==
    ASSUME NEW id \in Ids, NEW s \in Nat, NEW i \in Int, NEW v \in Items
    PROVE  SlotPacket(id, s, i, v) \in Packets
  BY DEF SlotPacket, Packets

(* The update of a row is a packet.                                        *)
LEMMA UpdateMade ==
    ASSUME ServerOK, NEW s \in Nat, NEW i \in AllRows, NEW v \in Items
    PROVE  RowUpdate(s, i, v) \in Packets
<1>1. i \in Int /\ winLayout.own + (i - MainStart) \in Int
  BY AllRowsInside, LayoutParts, ScreenAssumption DEF ServerOK
<1>2. 0 \in Ids
  BY DEF Ids
<1>3. QED
  BY <1>1, <1>2, SlotPacketMade DEF RowUpdate, ServerOK

(* The content of a window has the window's length.                        *)
LEMMA ContentMade ==
    ASSUME ServerOK, NEW layout \in Layouts
    PROVE  /\ WindowContent(layout) \in [Slots(layout.total) -> Items]
           /\ WindowContent(layout) \in Contents
<1>1. ASSUME NEW j \in Slots(layout.total), ~(j < layout.own)
      PROVE  truth[MainStart + (j - layout.own)] \in Items
  <2>1. HasRows(layout) /\ j - layout.own \in Nat /\ j - layout.own < MainLength + HotbarLength
    BY <1>1, LayoutParts, ScreenAssumption DEF HasRows, Slots
  <2>2. MainStart + (j - layout.own) \in Slots(InventorySize)
    BY <2>1, AllRowsInside
  <2>3. QED
    BY <2>2 DEF ServerOK
<1>2. WindowContent(layout) \in [Slots(layout.total) -> Items]
  BY <1>1, ScreenAssumption DEF WindowContent
<1>3. QED
  BY <1>2, LayoutParts DEF Contents

(* Handling a packet keeps the manager's types.                            *)
LEMMA PacketType ==
    ASSUME ScreenTypeOK, NEW p \in Packets, OnPacket(p)
    PROVE  ScreenTypeOK'
<1>1. UNCHANGED vars => ScreenTypeOK'
  BY TypeStep
<1>2. CASE p.type = "open"
  BY <1>2, OpensType, OpensWindow, PacketParts DEF OnPacket
<1>3. CASE p.type = "content"
  BY <1>1, <1>3, SetWindowContentType, ContentItems, PacketParts, ScreenAssumption
     DEF OnPacket, OnSetWindowContent
<1>4. CASE p.type = "slot"
  <2>1. p.state \in Nat /\ p.item \in Items
    BY <1>4, PacketParts
  <2>2. \/ OnSetSlotInventory(p.state, p.slot, p.item)
        \/ p.id \in DOMAIN screens /\ OnSetSlotWindow(p.id, p.state, p.slot, p.item)
        \/ OnSetSlotClosed(p.id, p.state)
    BY <1>4 DEF OnPacket, OnSetSlotWindow
  <2>3. QED
    BY <2>1, <2>2, SetSlotInventoryType, SetSlotWindowType, SetSlotClosedType
<1>5. CASE p.type = "close"
  BY <1>1, <1>5, ClosesType, PacketParts, GameIsThread DEF OnPacket, OnCloseScreen
<1>6. QED
  BY <1>2, <1>3, <1>4, <1>5, PacketParts

(* The first packet of the link and the others.                            *)
LEMMA FirstPacket ==
    ASSUME SessionTypeOK, link # <<>>
    PROVE  /\ Head(link) \in Packets /\ Head(link) = link[1]
           /\ Tail(link) \in Seq(Packets)
           /\ Len(link) \in Nat \ {0} /\ Len(Tail(link)) = Len(link) - 1
           /\ \A k \in 1 .. Len(Tail(link)) : Tail(link)[k] = link[k + 1]
  BY HeadTailProperties, LenProperties DEF SessionTypeOK, LinksOK

(* Opening a window keeps the server's types.                              *)
LEMMA ServerOpenType ==
    ASSUME ServerOK, LinksOK, NEW id \in WindowIds, NEW layout \in Layouts, ServerOpen(id, layout)
    PROVE  ServerOK' /\ LinksOK'
<1> DEFINE p == OpenPacket(id, layout)
           q == ContentPacket(id, serverState + 1, WindowContent(layout))
<1>1. p \in Packets /\ q \in Packets
  BY PacketsMade, ContentMade DEF ServerOK
<1>2. link' = link \o <<p, q>>
  BY DEF ServerOpen
<1> HIDE DEF p, q
<1>3. link' \in Seq(Packets)
  BY <1>1, <1>2, ConcatProperties DEF LinksOK
<1>4. QED
  BY <1>3, IdsOfWindows DEF ServerOpen, ServerOK, LinksOK

(* Every step of the server does.                                          *)
LEMMA ServerType ==
    ASSUME ServerOK, LinksOK, Server
    PROVE  ServerOK' /\ LinksOK'
<1>1. ASSUME ServerClose PROVE ServerOK' /\ LinksOK'
  <2>1. ClosePacket(win) \in Packets /\ 0 \in Ids
    BY <1>1, PacketsMade DEF ServerClose, ServerOK, Ids
  <2>2. link' \in Seq(Packets)
    BY <1>1, <2>1, AppendProperties DEF ServerClose, LinksOK
  <2>3. QED
    BY <1>1, <2>1, <2>2 DEF ServerClose, ServerOK, LinksOK
<1>2. ASSUME NEW i \in AllRows, NEW v \in Items, ServerChange(i, v)
      PROVE  ServerOK' /\ LinksOK'
  <2>1. serverState + 1 \in Nat
    BY DEF ServerOK
  <2>2. link' = Append(link, RowUpdate(serverState + 1, i, v))
    BY <1>2 DEF ServerChange
  <2>3. link' \in Seq(Packets)
    BY <2>1, <2>2, UpdateMade, AppendProperties DEF LinksOK
  <2>4. truth' \in [Slots(InventorySize) -> Items]
    BY <1>2 DEF ServerChange, ServerOK
  <2>5. QED
    BY <1>2, <2>1, <2>3, <2>4 DEF ServerChange, ServerOK, LinksOK
<1>3. ASSUME ServerReceive PROVE ServerOK' /\ LinksOK'
  <2>1. Head(uplink) \in Answers /\ Tail(uplink) \in Seq(Answers)
    BY <1>3, HeadTailProperties DEF ServerReceive, LinksOK
  <2>2. uplink' \in Seq(Answers) /\ truth' = truth /\ winLayout' = winLayout
    BY <1>3, <2>1 DEF ServerReceive
  <2>3. CASE Head(uplink).type = "click"
    <3>1. serverState + 1 \in Nat /\ truth[MainStart] \in Items
      BY AllRowsInside DEF ServerOK
    <3>2. /\ link' = Append(link, RowUpdate(serverState + 1, MainStart, truth[MainStart]))
          /\ serverState' = serverState + 1 /\ win' = win
      BY <1>3, <2>3 DEF ServerReceive
    <3>3. link' \in Seq(Packets)
      BY <3>1, <3>2, AllRowsInside, UpdateMade, AppendProperties DEF LinksOK
    <3>4. QED
      BY <2>2, <3>1, <3>2, <3>3 DEF ServerOK, LinksOK
  <2>4. CASE Head(uplink).type = "close"
    <3>1. win' \in Ids /\ serverState' = serverState /\ link' = link
      BY <1>3, <2>4 DEF ServerReceive, ServerOK, Ids
    <3>2. QED
      BY <2>2, <3>1 DEF ServerOK, LinksOK
  <2>5. QED
    BY <2>1, <2>3, <2>4, AnswerParts
<1>4. QED
  BY <1>1, <1>2, <1>3, ServerOpenType DEF Server

(* A click keeps the types: it writes the state ID it declared.            *)
LEMMA ClientClickType ==
    ASSUME SessionTypeOK, NEW t \in Clickers, ClientClick(t)
    PROVE  SessionTypeOK'
<1>1. ScreenTypeOK'
  BY ClicksType DEF ClientClick, SessionTypeOK
<1>2. CASE declared' = declared
  BY <1>1, <1>2 DEF ClientClick, SessionTypeOK, serverVars, ServerOK, LinksOK
<1>3. CASE declared' # declared
  <2>1. declared' = Append(declared, thread[t].state) /\ declared \in Seq(Nat)
    BY <1>3 DEF ClientClick, Clicks, ClickRead, ClickSend, ClickAdvance,
                SessionTypeOK, ScreenTypeOK, HistoriesOK
  <2>2. declared' \in Seq(Nat)
    BY <1>1 DEF ScreenTypeOK, HistoriesOK
  <2>3. Len(declared') \in 1 .. Len(declared') /\ Len(declared') \in Nat
    <3>1. PICK d : d = declared'
      OBVIOUS
    <3>2. d = Append(declared, thread[t].state) /\ d \in Seq(Nat)
      BY <2>1, <2>2, <3>1
    <3>3. d # <<>> /\ Len(d) \in Nat
      BY <3>2, <2>1, AppendProperties, LenProperties
    <3>4. Len(d) # 0
      BY <3>2, <3>3, EmptySeq
    <3>5. QED
      BY <3>1, <3>3, <3>4
  <2>4. declared'[Len(declared')] \in Nat
    BY <2>2, <2>3, ElementOfSeq
  <2>5. uplink' = Append(uplink, ClickPacket(declared'[Len(declared')]))
    BY <1>3 DEF ClientClick
  <2>6. uplink' \in Seq(Answers)
    BY <2>4, <2>5, PacketsMade, AppendProperties DEF SessionTypeOK, LinksOK
  <2>7. QED
    BY <1>1, <2>6 DEF ClientClick, SessionTypeOK, serverVars, ServerOK, LinksOK
<1>4. QED
  BY <1>2, <1>3

(* The types hold at the start,                                            *)
LEMMA SessionTypeInit == SessionInit => SessionTypeOK
<1> SUFFICES ASSUME SessionInit PROVE SessionTypeOK
  OBVIOUS
<1>1. ScreenTypeOK
  BY TypeInit DEF SessionInit
<1>2. ServerOK
  BY <1>1 DEF SessionInit, ServerOK, Ids, ScreenTypeOK, ContentsOK
<1>3. LinksOK
  BY EmptySeq DEF SessionInit, LinksOK
<1>4. QED
  BY <1>1, <1>2, <1>3 DEF SessionTypeOK

(* and every step of the session keeps them.                               *)
LEMMA SessionTypeStep == SessionTypeOK /\ [SessionNext]_sessionVars => SessionTypeOK'
<1> SUFFICES ASSUME SessionTypeOK, [SessionNext]_sessionVars PROVE SessionTypeOK'
  OBVIOUS
<1>1. UNCHANGED vars => ScreenTypeOK'
  BY TypeStep DEF SessionTypeOK
<1>2. CASE Server
  <2>1. UNCHANGED vars
    BY <1>2 DEF Server, ServerOpen, ServerClose, ServerChange, ServerReceive
  <2>2. QED
    BY <1>1, <1>2, <2>1, ServerType DEF SessionTypeOK
<1>3. CASE ClientReceive
  <2>1. ScreenTypeOK'
    BY <1>3, FirstPacket, PacketType DEF ClientReceive, SessionTypeOK
  <2>2. link' \in Seq(Packets)
    BY <1>3, FirstPacket DEF ClientReceive
  <2>3. QED
    BY <1>3, <2>1, <2>2 DEF ClientReceive, SessionTypeOK, serverVars, ServerOK, LinksOK
<1>4. CASE ClientNotify
  <2>1. ScreenTypeOK'
    BY <1>4, NotificationsType DEF ClientNotify, SessionTypeOK
  <2>2. QED
    BY <1>4, <2>1 DEF ClientNotify, SessionTypeOK, serverVars, ServerOK, LinksOK
<1>5. ASSUME NEW t \in Clickers, ClientClick(t) PROVE SessionTypeOK'
  BY <1>5, ClientClickType
<1>6. ASSUME NEW id \in WindowIds, ClientAsksClose(id) PROVE SessionTypeOK'
  <2>1. uplink' \in Seq(Answers)
    BY <1>6, PacketsMade, AppendProperties DEF ClientAsksClose, SessionTypeOK, LinksOK
  <2>2. QED
    BY <1>1, <1>6, <2>1 DEF ClientAsksClose, SessionTypeOK, serverVars, ServerOK, LinksOK
<1>7. ASSUME NEW id \in WindowIds, NEW t \in Closers, ClientForceClose(t, id)
      PROVE  SessionTypeOK'
  <2>1. t \in Threads
    BY SessionAssumption DEF Threads
  <2>2. ScreenTypeOK'
    BY <1>1, <1>7, <2>1, ClosesType DEF ClientForceClose, ForceCloseScreen, SessionTypeOK
  <2>3. QED
    BY <1>7, <2>2 DEF ClientForceClose, SessionTypeOK, serverVars, ServerOK, LinksOK
<1>8. CASE UNCHANGED sessionVars
  BY <1>1, <1>8 DEF sessionVars, SessionTypeOK, serverVars, ServerOK, LinksOK
<1>9. QED
  BY <1>2, <1>3, <1>4, <1>5, <1>6, <1>7, <1>8 DEF SessionNext, Client
-----------------------------------------------------------------------------
(* The state IDs of the session *)

(* The packet carries the server's state ID.                               *)
Numbered(p) == p.type \in {"content", "slot"}

(* The client is level, or a packet with the server's state ID is on its   *)
(* way.                                                                    *)
BehindInv ==
    \/ dropped
    \/ stateID >= serverState
    \/ \E k \in 1 .. Len(link) : Numbered(link[k]) /\ link[k].state = serverState

(* Taking over a state ID goes up to it at least.                          *)
LEMMA Applied ==
    ASSUME stateID \in Nat, NEW s \in Nat, ApplyServerStateID(s)
    PROVE  stateID' \in Nat /\ stateID' >= stateID /\ stateID' >= s
  BY DEF ApplyServerStateID

(* A packet that is not dropped does so with the one it carries.           *)
LEMMA PacketAdvances ==
    ASSUME ScreenTypeOK, NEW p \in Packets, OnPacket(p)
    PROVE  /\ stateID' >= stateID
           /\ Numbered(p) => stateID' >= p.state \/ MeetsClosedWindow(p)
<1>1. stateID \in Nat /\ 0 \notin DOMAIN screens
  BY WindowsParts, ScreenAssumption DEF ScreenTypeOK, ContentsOK
<1>2. UNCHANGED stateID => stateID' >= stateID
  BY <1>1
<1>3. CASE p.type \in {"open", "close"}
  <2>1. UNCHANGED stateID
    BY <1>3 DEF OnPacket, OnOpenScreen, OnCloseScreen, vars
  <2>2. QED
    BY <1>2, <1>3, <2>1 DEF Numbered
<1>4. CASE p.type = "content"
  <2>1. p.state \in Nat /\ p.id # 0
    BY <1>4, PacketParts, ScreenAssumption
  <2>2. CASE ApplyServerStateID(p.state)
    BY <1>1, <2>1, <2>2, Applied
  <2>3. CASE p.id \notin DOMAIN screens /\ UNCHANGED vars
    BY <1>2, <1>4, <2>1, <2>3 DEF vars, MeetsClosedWindow
  <2>4. QED
    BY <1>4, <2>2, <2>3 DEF OnPacket, OnSetWindowContent
<1>5. CASE p.type = "slot"
  <2>1. p.state \in Nat
    BY <1>5, PacketParts
  <2>2. ApplyServerStateID(p.state)
    BY <1>5 DEF OnPacket, OnSetSlotInventory, OnSetSlotWindow, OnSetSlotClosed
  <2>3. QED
    BY <1>1, <2>1, <2>2, Applied
<1>6. QED
  BY <1>3, <1>4, <1>5, PacketParts

(* A packet with the new state ID is sent last.                            *)
LEMMA BehindAppend ==
    ASSUME SessionTypeOK, NEW p \in Packets, Numbered(p), p.state = serverState',
           link' = Append(link, p)
    PROVE  BehindInv'
<1>1. /\ Len(link') = Len(link) + 1 /\ Len(link) \in Nat
      /\ link'[Len(link) + 1] = p
  BY AppendProperties, LenProperties DEF SessionTypeOK, LinksOK
<1>2. QED
  BY <1>1 DEF BehindInv

(* Whenever the server advances it sends one,                              *)
LEMMA BehindServer ==
    ASSUME SessionTypeOK, BehindInv, Server
    PROVE  BehindInv'
<1>1. /\ serverState + 1 \in Nat /\ link \in Seq(Packets) /\ Len(link) \in Nat
      /\ UNCHANGED <<stateID, dropped>>
  <2>1. serverState + 1 \in Nat /\ link \in Seq(Packets)
    BY DEF SessionTypeOK, ServerOK, LinksOK
  <2>2. UNCHANGED vars /\ UNCHANGED closing
    BY DEF Server, ServerOpen, ServerClose, ServerChange, ServerReceive
  <2>3. QED
    BY <2>1, <2>2, LenProperties DEF vars, closing
<1>2. ASSUME NEW id \in WindowIds, NEW layout \in Layouts, ServerOpen(id, layout)
      PROVE  BehindInv'
  <2> DEFINE p == OpenPacket(id, layout)
             q == ContentPacket(id, serverState + 1, WindowContent(layout))
  <2>1. p \in Packets /\ q \in Packets
    BY <1>1, PacketsMade, ContentMade DEF SessionTypeOK
  <2>2. link' = link \o <<p, q>> /\ serverState' = serverState + 1
    BY <1>2 DEF ServerOpen
  <2>3. Numbered(q) /\ q.state = serverState + 1
    BY DEF ContentPacket, Numbered
  <2> HIDE DEF p, q
  <2>4. Len(link') = Len(link) + 2 /\ link'[Len(link) + 2] = q
    BY <1>1, <2>1, <2>2, ConcatProperties
  <2>5. PICK k \in 1 .. Len(link') : link'[k] = q
    BY <1>1, <2>4
  <2>6. Numbered(link'[k]) /\ link'[k].state = serverState'
    BY <2>2, <2>3, <2>5
  <2>7. QED
    BY <2>6 DEF BehindInv
<1>3. ASSUME ServerClose PROVE BehindInv'
  <2>1. link' = Append(link, ClosePacket(win)) /\ serverState' = serverState
    BY <1>3 DEF ServerClose
  <2>2. ClosePacket(win) \in Packets
    BY <1>3, PacketsMade DEF ServerClose, SessionTypeOK, ServerOK, Ids
  <2>3. Len(link') = Len(link) + 1 /\ \A k \in 1 .. Len(link) : link'[k] = link[k]
    BY <1>1, <2>1, <2>2, AppendProperties, LenProperties
  <2>4. QED
    BY <1>1, <2>1, <2>3 DEF BehindInv
<1>4. \A s, i, v : Numbered(RowUpdate(s, i, v)) /\ RowUpdate(s, i, v).state = s
  BY DEF RowUpdate, SlotPacket, Numbered
<1>5. ASSUME NEW i \in AllRows, NEW v \in Items, ServerChange(i, v)
      PROVE  BehindInv'
  <2>1. /\ link' = Append(link, RowUpdate(serverState + 1, i, v))
        /\ serverState' = serverState + 1
    BY <1>5 DEF ServerChange
  <2>2. QED
    BY <1>1, <1>4, <2>1, UpdateMade, BehindAppend DEF SessionTypeOK
<1>6. ASSUME ServerReceive PROVE BehindInv'
  <2>1. CASE Head(uplink).type = "click"
    <3>1. /\ link' = Append(link, RowUpdate(serverState + 1, MainStart, truth[MainStart]))
          /\ serverState' = serverState + 1
      BY <1>6, <2>1 DEF ServerReceive
    <3>2. truth[MainStart] \in Items /\ MainStart \in AllRows
      BY AllRowsInside DEF SessionTypeOK, ServerOK
    <3>3. QED
      BY <1>1, <1>4, <3>1, <3>2, UpdateMade, BehindAppend DEF SessionTypeOK
  <2>2. CASE Head(uplink).type = "close"
    BY <1>1, <1>6, <2>2 DEF ServerReceive, BehindInv
  <2>3. QED
    BY <1>6, <2>1, <2>2 DEF ServerReceive
<1>7. QED
  BY <1>2, <1>3, <1>5, <1>6 DEF Server

(* and the client takes it over.                                           *)
LEMMA BehindReceive ==
    ASSUME SessionTypeOK, BehindInv, ClientReceive
    PROVE  BehindInv'
<1> DEFINE p == Head(link)
<1>1. /\ link' = Tail(link) /\ link # <<>> /\ OnPacket(p) /\ serverState' = serverState
      /\ dropped' = (dropped \/ MeetsClosedWindow(p))
  BY DEF ClientReceive, serverVars
<1>2. /\ p \in Packets /\ p = link[1]
      /\ Len(link) \in Nat \ {0} /\ Len(link') = Len(link) - 1
      /\ \A k \in 1 .. Len(link') : link'[k] = link[k + 1]
  BY <1>1, FirstPacket
<1>3. /\ stateID' >= stateID
      /\ Numbered(p) => stateID' >= p.state \/ MeetsClosedWindow(p)
  BY <1>1, <1>2, PacketAdvances DEF SessionTypeOK
<1>4. stateID \in Nat /\ serverState \in Nat /\ stateID' \in Nat
  BY <1>1, <1>2, PacketType DEF SessionTypeOK, ScreenTypeOK, ContentsOK, ServerOK
<1> HIDE DEF p
<1>5. CASE dropped
  BY <1>1, <1>5 DEF BehindInv
<1>6. CASE stateID >= serverState
  BY <1>1, <1>3, <1>4, <1>6 DEF BehindInv
<1>7. ASSUME NEW k \in 1 .. Len(link), Numbered(link[k]), link[k].state = serverState
      PROVE  BehindInv'
  <2>1. CASE k = 1
    BY <1>1, <1>2, <1>3, <1>7, <2>1 DEF BehindInv
  <2>2. CASE k # 1
    <3>1. k - 1 \in 1 .. Len(link') /\ link'[k - 1] = link[k]
      BY <1>2, <2>2
    <3>2. QED
      BY <1>1, <1>7, <3>1 DEF BehindInv
  <2>3. QED
    BY <2>1, <2>2
<1>8. QED
  BY <1>5, <1>6, <1>7 DEF BehindInv

(* The invariant holds at the start,                                       *)
LEMMA BehindInit == SessionInit => BehindInv
  BY DEF SessionInit, Init, BehindInv

(* and every step keeps it.                                                *)
LEMMA BehindStep == SessionTypeOK /\ BehindInv /\ [SessionNext]_sessionVars => BehindInv'
<1> SUFFICES ASSUME SessionTypeOK, BehindInv, [SessionNext]_sessionVars PROVE BehindInv'
  OBVIOUS
<1>1. stateID \in Nat /\ stateID' \in Nat /\ serverState \in Nat
  BY SessionTypeStep DEF SessionTypeOK, ScreenTypeOK, ContentsOK, ServerOK
<1>2. CASE UNCHANGED <<link, dropped, serverState>> /\ stateID' >= stateID
  BY <1>1, <1>2 DEF BehindInv
<1>3. CASE ClientNotify
  <2>1. UNCHANGED stateID
    BY <1>3 DEF ClientNotify, Notifications, NotifyEvicted, InstallWindow, NotifyOpen, NotifyClose
  <2>2. QED
    BY <1>1, <1>2, <1>3, <2>1 DEF ClientNotify, serverVars, closing
<1>4. ASSUME NEW t \in Clickers, ClientClick(t) PROVE BehindInv'
  BY <1>1, <1>2, <1>4 DEF ClientClick, Clicks, ClickRead, ClickSend, ClickAdvance,
                         serverVars, closing
<1>5. ASSUME NEW id, ClientAsksClose(id) PROVE BehindInv'
  BY <1>1, <1>2, <1>5 DEF ClientAsksClose, serverVars, vars
<1>6. ASSUME NEW id, NEW t, ClientForceClose(t, id) PROVE BehindInv'
  BY <1>1, <1>2, <1>6 DEF ClientForceClose, ForceCloseScreen, serverVars, vars
<1>7. CASE UNCHANGED sessionVars
  BY <1>1, <1>2, <1>7 DEF sessionVars, serverVars, vars, closing
<1>8. QED
  BY <1>3, <1>4, <1>5, <1>6, <1>7, BehindServer, BehindReceive DEF SessionNext, Client

(* With every packet handled and none dropped the client's state ID is not *)
(* behind the server's (screen.go:252-257), for any number of windows,     *)
(* clicks and packets.                                                     *)
THEOREM NeverBehindCorrect == SessionSpec => []NeverBehind
<1>1. SessionTypeOK /\ BehindInv => NeverBehind
  BY DEF BehindInv, NeverBehind, Settled
<1>2. QED
  BY <1>1, SessionTypeInit, SessionTypeStep, BehindInit, BehindStep, PTL DEF SessionSpec
-----------------------------------------------------------------------------
(* Paths *)

(* Values v[0], ..., v[Len(s)] lead from a to b along s, each element of s *)
(* taking one to the next by R.  It is stated by the values, without       *)
(* recursion.                                                              *)
Path(s, V, R, a, b) ==
    \E v \in [0 .. Len(s) -> V] :
        /\ v[0] = a /\ v[Len(s)] = b
        /\ \A k \in 1 .. Len(s) : <<s[k], v[k - 1], v[k]>> \in R

(* Along nothing a leads to a.                                             *)
LEMMA PathEmpty ==
    ASSUME NEW S, NEW V, NEW R, NEW a \in V, NEW b
    PROVE  Path(<<>>, V, R, a, b) <=> a = b
<1>1. PICK s \in Seq(S) : s = <<>> /\ Len(s) = 0
  BY EmptySeq
<1>2. a = b => Path(s, V, R, a, b)
  <2> DEFINE v == [k \in 0 .. 0 |-> a]
  <2>1. v \in [0 .. Len(s) -> V] /\ v[0] = a /\ v[Len(s)] = a
    BY <1>1
  <2> HIDE DEF v
  <2>2. \A k \in 1 .. Len(s) : <<s[k], v[k - 1], v[k]>> \in R
    BY <1>1
  <2>3. QED
    BY <2>1, <2>2 DEF Path
<1>3. Path(s, V, R, a, b) => a = b
  BY <1>1 DEF Path
<1>4. QED
  BY <1>1, <1>2, <1>3

(* A path goes on with a step at its end,                                  *)
LEMMA PathAppend ==
    ASSUME NEW S, NEW s \in Seq(S), NEW p \in S, NEW V, NEW R, NEW a, NEW b \in V, NEW c \in V,
           Path(s, V, R, a, b), <<p, b, c>> \in R
    PROVE  Path(Append(s, p), V, R, a, c)
<1>1. PICK v \in [0 .. Len(s) -> V] :
        /\ v[0] = a /\ v[Len(s)] = b
        /\ \A k \in 1 .. Len(s) : <<s[k], v[k - 1], v[k]>> \in R
  BY DEF Path
<1> DEFINE t == Append(s, p)
           w == [k \in 0 .. (Len(s) + 1) |-> IF k <= Len(s) THEN v[k] ELSE c]
<1>2. /\ Len(s) \in Nat /\ Len(t) = Len(s) + 1 /\ t[Len(s) + 1] = p
      /\ \A k \in 1 .. Len(s) : t[k] = s[k]
  BY AppendProperties, LenProperties
<1>3. w \in [0 .. (Len(s) + 1) -> V]
  BY <1>1, <1>2
<1>4. w[0] = a /\ w[Len(s)] = b /\ w[Len(s) + 1] = c
  BY <1>1, <1>2
<1>5. \A k \in 1 .. Len(s) : w[k] = v[k] /\ w[k - 1] = v[k - 1]
  BY <1>2
<1> HIDE DEF t, w
<1>6. ASSUME NEW k \in 1 .. Len(t) PROVE <<t[k], w[k - 1], w[k]>> \in R
  <2>1. CASE k = Len(s) + 1
    <3>1. t[k] = p /\ w[k] = c /\ w[k - 1] = b
      BY <1>2, <1>4, <2>1
    <3>2. QED
      BY <3>1
  <2>2. CASE k # Len(s) + 1
    BY <1>1, <1>2, <1>5, <2>2
  <2>3. QED
    BY <2>1, <2>2
<1>7. QED
  BY <1>2, <1>3, <1>4, <1>6 DEF Path, t

(* and is left with the others after its first.                            *)
LEMMA PathTail ==
    ASSUME NEW S, NEW s \in Seq(S), s # <<>>, NEW V, NEW R, NEW a, NEW c,
           Path(s, V, R, a, c)
    PROVE  \E b \in V : <<Head(s), a, b>> \in R /\ Path(Tail(s), V, R, b, c)
<1>1. PICK v \in [0 .. Len(s) -> V] :
        /\ v[0] = a /\ v[Len(s)] = c
        /\ \A k \in 1 .. Len(s) : <<s[k], v[k - 1], v[k]>> \in R
  BY DEF Path
<1> DEFINE t == Tail(s)
           w == [k \in 0 .. (Len(s) - 1) |-> v[k + 1]]
<1>2. /\ Len(s) \in Nat \ {0} /\ Len(t) = Len(s) - 1 /\ Head(s) = s[1]
      /\ \A k \in 1 .. Len(t) : t[k] = s[k + 1]
  BY HeadTailProperties, LenProperties
<1>3. w \in [0 .. Len(t) -> V]
  BY <1>1, <1>2
<1>4. /\ w[0] = v[1] /\ w[Len(t)] = c
      /\ \A k \in 1 .. Len(t) : w[k] = v[k + 1] /\ w[k - 1] = v[k]
  BY <1>1, <1>2
<1> HIDE DEF t, w
<1>5. ASSUME NEW k \in 1 .. Len(t) PROVE <<t[k], w[k - 1], w[k]>> \in R
  <2>1. k + 1 \in 1 .. Len(s) /\ (k + 1) - 1 = k
    BY <1>2
  <2>2. <<s[k + 1], v[k], v[k + 1]>> \in R
    BY <1>1, <2>1
  <2>3. QED
    BY <1>2, <1>4, <2>2
<1>6. Path(t, V, R, v[1], c)
  BY <1>3, <1>4, <1>5 DEF Path
<1>7. v[1] \in V /\ <<Head(s), a, v[1]>> \in R
  <2>1. 1 \in 1 .. Len(s) /\ 1 - 1 = 0
    BY <1>2
  <2>2. <<s[1], v[0], v[1]>> \in R
    BY <1>1, <2>1
  <2>3. QED
    BY <1>1, <1>2, <2>2
<1>8. QED
  BY <1>6, <1>7 DEF t
-----------------------------------------------------------------------------
(* What the server does *)

(* Two at a time are one after the other.                                  *)
LEMMA TwoAppended ==
    ASSUME NEW S, NEW s \in Seq(S), NEW p \in S, NEW q \in S
    PROVE  s \o <<p, q>> = Append(Append(s, p), q)
<1> DEFINE a == Append(s, p)
           t == Append(a, q)
           u == s \o <<p, q>>
<1>1. a \in Seq(S) /\ Len(s) \in Nat /\ <<p, q>> \in Seq(S) /\ Len(<<p, q>>) = 2
  BY AppendProperties, LenProperties
<1>2. /\ Len(a) = Len(s) + 1 /\ a[Len(s) + 1] = p
      /\ \A k \in 1 .. Len(s) : a[k] = s[k]
  BY <1>1, AppendProperties, LenProperties
<1>3. /\ t \in Seq(S) /\ Len(t) = Len(s) + 2 /\ t[Len(s) + 2] = q
      /\ \A k \in 1 .. (Len(s) + 1) : t[k] = a[k]
  <2> HIDE DEF a
  <2>1. /\ t \in Seq(S) /\ Len(t) = Len(a) + 1 /\ t[Len(a) + 1] = q
        /\ \A k \in 1 .. Len(a) : t[k] = a[k]
    BY <1>1, AppendProperties, LenProperties
  <2>2. QED
    BY <1>1, <1>2, <2>1
<1>4. /\ u \in Seq(S) /\ Len(u) = Len(s) + 2
      /\ u[Len(s) + 1] = p /\ u[Len(s) + 2] = q
      /\ \A k \in 1 .. Len(s) : u[k] = s[k]
  BY <1>1, ConcatProperties, LenProperties
<1> HIDE DEF a, t, u
<1>5. \A k \in 1 .. Len(u) : u[k] = t[k]
  BY <1>1, <1>2, <1>3, <1>4
<1>6. u = t
  BY <1>3, <1>4, <1>5, SeqEqual
<1>7. QED
  BY <1>6 DEF u, t, a

(* What the server does that the client will see: it opens, it closes, it  *)
(* updates a row, or it takes note of a close.                             *)
Opens(id, layout) ==
    /\ win = 0 /\ win' = id
    /\ winLayout' = layout /\ truth' = truth
    /\ link' = Append(Append(link, OpenPacket(id, layout)),
                      ContentPacket(id, serverState', WindowContent(layout)))

Closes ==
    /\ win # 0 /\ win' = 0
    /\ UNCHANGED <<winLayout, truth>>
    /\ link' = Append(link, ClosePacket(win))

Updates(i, v) ==
    /\ truth' = [truth EXCEPT ![i] = v]
    /\ UNCHANGED <<win, winLayout>>
    /\ link' = Append(link, RowUpdate(serverState', i, v))

Forgets ==
    /\ UNCHANGED <<truth, winLayout, link>>
    /\ \/ win' = win
       \/ win' = 0 /\ \E k \in 1 .. Len(uplink) : uplink[k].type = "close"

(* A step of the server is one of these and leaves the client alone.       *)
LEMMA ServerMoves ==
    ASSUME SessionTypeOK, Server
    PROVE  /\ UNCHANGED vars /\ UNCHANGED closing /\ serverState' \in Nat
           /\ \/ \E id \in WindowIds, layout \in Layouts : Opens(id, layout)
              \/ Closes
              \/ \E i \in AllRows, v \in Items : Updates(i, v)
              \/ Forgets
<1>1. UNCHANGED vars /\ UNCHANGED closing
  BY DEF Server, ServerOpen, ServerClose, ServerChange, ServerReceive
<1>2. ServerOK /\ LinksOK /\ ServerOK' /\ serverState' \in Nat
  BY ServerType DEF SessionTypeOK, ServerOK
<1>3. ASSUME NEW id \in WindowIds, NEW layout \in Layouts, ServerOpen(id, layout)
      PROVE  Opens(id, layout)
  <2> DEFINE p == OpenPacket(id, layout)
             q == ContentPacket(id, serverState', WindowContent(layout))
  <2>1. p \in Packets /\ q \in Packets
    BY <1>2, PacketsMade, ContentMade
  <2>2. link' = link \o <<p, q>>
    BY <1>3 DEF ServerOpen
  <2>3. link' = Append(Append(link, p), q)
    <3> HIDE DEF p, q
    <3>1. QED
      BY <1>2, <2>1, <2>2, TwoAppended DEF LinksOK
  <2>4. QED
    BY <1>3, <2>3 DEF ServerOpen, Opens
<1>4. ASSUME ServerClose PROVE Closes
  BY <1>4 DEF ServerClose, Closes
<1>5. ASSUME NEW i \in AllRows, NEW v \in Items, ServerChange(i, v)
      PROVE  Updates(i, v)
  BY <1>5 DEF ServerChange, Updates
<1>6. ASSUME ServerReceive
      PROVE  Forgets \/ \E i \in AllRows, v \in Items : Updates(i, v)
  <2>1. CASE Head(uplink).type = "click"
    <3>1. truth[MainStart] \in Items /\ MainStart \in AllRows
      BY <1>2, AllRowsInside DEF ServerOK
    <3>2. truth = [truth EXCEPT ![MainStart] = truth[MainStart]]
      BY <1>2 DEF ServerOK
    <3>3. Updates(MainStart, truth[MainStart])
      BY <1>6, <2>1, <3>2 DEF ServerReceive, Updates
    <3>4. QED
      BY <3>1, <3>3
  <2>2. CASE Head(uplink).type = "close"
    <3>1. uplink # <<>> /\ uplink \in Seq(Answers)
      BY <1>2, <1>6 DEF ServerReceive, LinksOK
    <3>2. 1 \in 1 .. Len(uplink) /\ uplink[1] = Head(uplink)
      BY <3>1, HeadTailProperties, LenProperties
    <3>3. QED
      BY <1>6, <2>2, <3>2 DEF ServerReceive, Forgets
  <2>3. QED
    BY <1>6, <2>1, <2>2 DEF ServerReceive
<1>7. QED
  BY <1>1, <1>2, <1>3, <1>4, <1>5, <1>6 DEF Server

-----------------------------------------------------------------------------
(* The order of the packets *)

(* Packet q may come right after p: content after its open, a slot of a    *)
(* window after content or slot of that window.                            *)
Follows(p, q) ==
    /\ (p.type = "open" \/ q.type = "content") =>
          p.type = "open" /\ q.type = "content" /\ q.id = p.id
    /\ (q.type = "slot" /\ q.id # 0) => Numbered(p) /\ p.id = q.id

(* Packet p may be the last: the window open at the server was the last    *)
(* addressed.                                                              *)
Current(p) == p.type # "open" /\ ((win # 0 /\ HasRows(winLayout)) => Numbered(p) /\ p.id = win)

Chained(s) == \A k \in 1 .. (Len(s) - 1) : Follows(s[k], s[k + 1])

OrderInv == Chained(link) /\ (link # <<>> => Current(link[Len(link)]))

(* A sequence stays in order with one more.                                *)
LEMMA ChainedAppend ==
    ASSUME NEW s \in Seq(Packets), Chained(s), NEW p \in Packets,
           s # <<>> => Follows(s[Len(s)], p)
    PROVE  /\ Append(s, p) \in Seq(Packets) /\ Append(s, p) # <<>>
           /\ Append(s, p)[Len(Append(s, p))] = p
           /\ Chained(Append(s, p))
<1> DEFINE t == Append(s, p)
<1>1. /\ t \in Seq(Packets) /\ t # <<>> /\ Len(s) \in Nat /\ Len(t) = Len(s) + 1
      /\ t[Len(s) + 1] = p /\ \A k \in 1 .. Len(s) : t[k] = s[k]
      /\ (Len(s) # 0 => s # <<>>)
  BY AppendProperties, LenProperties, EmptySeq
<1> HIDE DEF t
<1>2. ASSUME NEW k \in 1 .. (Len(t) - 1) PROVE Follows(t[k], t[k + 1])
  <2>1. CASE k = Len(s)
    BY <1>1, <2>1
  <2>2. CASE k # Len(s)
    <3>1. k \in 1 .. (Len(s) - 1) /\ k + 1 \in 1 .. Len(s) /\ k \in 1 .. Len(s)
      BY <1>1, <2>2
    <3>2. QED
      BY <1>1, <3>1 DEF Chained
  <2>3. QED
    BY <2>1, <2>2
<1>3. QED
  BY <1>1, <1>2 DEF Chained, t

(* Where an update is addressed.                                           *)
LEMMA RowUpdateParts ==
    ASSUME NEW s, NEW i, NEW v
    PROVE  /\ RowUpdate(s, i, v).type = "slot" /\ RowUpdate(s, i, v).item = v
           /\ RowUpdate(s, i, v).id = IF win # 0 /\ HasRows(winLayout) THEN win ELSE 0
           /\ RowUpdate(s, i, v).slot =
                IF win # 0 /\ HasRows(winLayout) THEN RowAt(winLayout, i) ELSE i
  BY DEF RowUpdate, SlotPacket, HasRows, RowAt

(* The server sends in this order,                                         *)
LEMMA OrderServer ==
    ASSUME SessionTypeOK, OrderInv, Server
    PROVE  OrderInv'
<1>1. link \in Seq(Packets) /\ Chained(link) /\ (link # <<>> => Current(link[Len(link)]))
  BY DEF SessionTypeOK, LinksOK, OrderInv, Chained
<1>2. Chained(link') /\ (link' # <<>> => Current(link[Len(link)])') => OrderInv'
  BY DEF OrderInv, Chained
<1>3. ASSUME NEW id \in WindowIds, NEW layout \in Layouts, Opens(id, layout) PROVE OrderInv'
  <2> DEFINE p == OpenPacket(id, layout)
             q == ContentPacket(id, serverState', WindowContent(layout))
  <2>1. p \in Packets /\ q \in Packets
    BY PacketsMade, ContentMade, ServerMoves DEF SessionTypeOK
  <2>2. link' = Append(Append(link, p), q)
    BY <1>3 DEF Opens
  <2>3. /\ p.type = "open" /\ p.id = id
        /\ q.type = "content" /\ q.id = id
    BY DEF OpenPacket, ContentPacket
  <2> HIDE DEF p, q
  <2>4. link # <<>> => Follows(link[Len(link)], p)
    BY <1>1, <2>3 DEF Follows, Current
  <2>5. Follows(p, q)
    BY <2>3 DEF Follows
  <2>6. /\ Append(link, p) \in Seq(Packets) /\ Append(link, p)[Len(Append(link, p))] = p
        /\ Chained(Append(link, p))
    BY <1>1, <2>1, <2>4, ChainedAppend
  <2>7. /\ link'[Len(link')] = q
        /\ Chained(link')
    BY <2>1, <2>2, <2>5, <2>6, ChainedAppend
  <2>8. Current(link[Len(link)])'
    BY <1>3, <2>3, <2>7 DEF Current, Opens, Numbered
  <2>9. QED
    BY <1>2, <2>7, <2>8
<1>4. ASSUME Closes PROVE OrderInv'
  <2>1. ClosePacket(win) \in Packets /\ ClosePacket(win).type = "close"
    BY <1>4, PacketsMade DEF Closes, SessionTypeOK, ServerOK, Ids, ClosePacket
  <2>2. link # <<>> => Follows(link[Len(link)], ClosePacket(win))
    BY <1>1, <2>1 DEF Follows, Current
  <2>3. link'[Len(link')] = ClosePacket(win) /\ Chained(link')
    BY <1>1, <1>4, <2>1, <2>2, ChainedAppend DEF Closes
  <2>4. Current(link[Len(link)])'
    BY <1>4, <2>1, <2>3 DEF Current, Closes
  <2>5. QED
    BY <1>2, <2>3, <2>4
<1>5. ASSUME NEW i \in AllRows, NEW v \in Items, Updates(i, v) PROVE OrderInv'
  <2>1. PICK p \in Packets :
          /\ link' = Append(link, p) /\ p.type = "slot"
          /\ p.id = IF win # 0 /\ HasRows(winLayout) THEN win ELSE 0
    BY <1>5, ServerMoves, UpdateMade, RowUpdateParts DEF Updates, SessionTypeOK
  <2>2. link # <<>> => Follows(link[Len(link)], p)
    BY <1>1, <2>1 DEF Follows, Current
  <2>3. link'[Len(link')] = p /\ Chained(link')
    BY <1>1, <2>1, <2>2, ChainedAppend
  <2>4. Current(link[Len(link)])'
    BY <1>5, <2>1, <2>3 DEF Current, Updates, Numbered
  <2>5. QED
    BY <1>2, <2>3, <2>4
<1>6. ASSUME Forgets PROVE OrderInv'
  BY <1>6 DEF Forgets, OrderInv, Chained, Current
<1>7. QED
  BY <1>3, <1>4, <1>5, <1>6, ServerMoves

(* and what is left after the first is in order.                           *)
LEMMA OrderTail ==
    ASSUME SessionTypeOK, OrderInv, link # <<>>, link' = Tail(link),
           UNCHANGED <<win, winLayout>>
    PROVE  /\ OrderInv'
           /\ link' # <<>> => Follows(Head(link), link'[1])
           /\ link' = <<>> => Current(Head(link))
<1>1. /\ Head(link) = link[1] /\ Len(link) \in Nat \ {0} /\ Len(link') = Len(link) - 1
      /\ link' \in Seq(Packets)
      /\ \A k \in 1 .. Len(link') : link'[k] = link[k + 1]
  BY FirstPacket
<1>2. link' = <<>> <=> Len(link) = 1
  <2>1. PICK s \in Seq(Packets) : s = link' /\ Len(s) = Len(link) - 1
    BY <1>1
  <2>2. s = <<>> <=> Len(s) = 0
    BY EmptySeq
  <2>3. QED
    BY <1>1, <2>1, <2>2
<1>3. ASSUME NEW k \in 1 .. (Len(link') - 1) PROVE Follows(link'[k], link'[k + 1])
  <2>1. k + 1 \in 1 .. (Len(link) - 1) /\ k \in 1 .. Len(link') /\ k + 1 \in 1 .. Len(link')
    BY <1>1
  <2>2. Follows(link[k + 1], link[(k + 1) + 1])
    BY <2>1 DEF OrderInv, Chained
  <2>3. QED
    BY <1>1, <2>1, <2>2
<1>4. link' # <<>> => Current(link[Len(link)])'
  <2>1. link' # <<>> => link'[Len(link')] = link[Len(link)]
    BY <1>1, <1>2
  <2>2. QED
    BY <2>1 DEF OrderInv, Chained, Current
<1>5. OrderInv'
  BY <1>3, <1>4 DEF OrderInv, Chained
<1>6. link' # <<>> => Follows(Head(link), link'[1])
  <2>1. ASSUME link' # <<>> PROVE Follows(link[1], link[1 + 1])
    BY <1>1, <1>2, <2>1 DEF OrderInv, Chained
  <2>2. QED
    BY <1>1, <1>2, <2>1
<1>7. link' = <<>> => Current(Head(link))
  BY <1>1, <1>2 DEF OrderInv, Chained
<1>8. QED
  BY <1>5, <1>6, <1>7

(* The order holds at the start,                                           *)
LEMMA OrderInit == SessionInit => OrderInv
  BY DEF SessionInit, OrderInv, Chained

(* and every step keeps it.                                                *)
LEMMA OrderStep == SessionTypeOK /\ OrderInv /\ [SessionNext]_sessionVars => OrderInv'
<1> SUFFICES ASSUME SessionTypeOK, OrderInv, [SessionNext]_sessionVars PROVE OrderInv'
  OBVIOUS
<1>1. CASE UNCHANGED <<link, win, winLayout>>
  BY <1>1 DEF OrderInv, Chained, Current
<1>2. CASE ClientReceive
  BY <1>2, OrderTail DEF ClientReceive, serverVars
<1>3. ClientNotify \/ (\E t \in Clickers : ClientClick(t))
        \/ (\E id \in WindowIds : ClientAsksClose(id) \/ \E t \in Closers : ClientForceClose(t, id))
        \/ UNCHANGED sessionVars
      => UNCHANGED <<link, win, winLayout>>
  BY DEF ClientNotify, ClientClick, ClientAsksClose, ClientForceClose, sessionVars, serverVars
<1>4. QED
  BY <1>1, <1>2, <1>3, OrderServer DEF SessionNext, Client

-----------------------------------------------------------------------------
(* The player's rows *)

(* The layout last opened with the player's rows; and one row changed.     *)
Views == [layout : Layouts, rows : [AllRows -> Items]]
WithRow(a, i, v) == [a EXCEPT !.rows[i] = v]

(* What packet p does to a view: an open sets the layout, content says     *)
(* what is there, a slot sets a row, a close nothing.                      *)
Rewrites(p, a, b) ==
    \/ p.type = "open" /\ b = [a EXCEPT !.layout = p.layout]
    \/ /\ p.type = "content" /\ b = a
       /\ p.data \in [Slots(a.layout.total) -> Items]
       /\ HasRows(a.layout) => \A i \in AllRows : p.data[RowAt(a.layout, i)] = a.rows[i]
    \/ /\ p.type = "slot"
       /\ p.id # 0 => HasRows(a.layout)
       /\ \E i \in AllRows :
             /\ p.slot = IF p.id = 0 THEN i ELSE RowAt(a.layout, i)
             /\ b = WithRow(a, i, p.item)
    \/ p.type = "close" /\ b = a

Rewriting == { x \in Packets \X Views \X Views : Rewrites(x[1], x[2], x[3]) }

(* The view of an inventory f, with the layout last opened.                *)
PlayerRows(f) == [i \in AllRows |-> f[i]]
ViewOf(layout, f) == [layout |-> layout, rows |-> PlayerRows(f)]

(* Window w has the layout; and it shows the rows of the inventory.        *)
ShapeIs(w, layout) == w.own = layout.own /\ DOMAIN w.slots = Slots(layout.total)

Shows(w, layout) ==
    /\ ShapeIs(w, layout)
    /\ HasRows(layout) => \A i \in AllRows : w.slots[RowAt(layout, i)] = inventory[i]

(* The next update may address window id: the packet at hand does, or the  *)
(* server would.                                                           *)
Addressed(id) ==
    IF link = <<>> THEN win = id /\ HasRows(winLayout)
                   ELSE link[1].type = "slot" /\ link[1].id = id

(* The client is between the two locked sections of onOpenScreen; and the  *)
(* next packet is the content of id.                                       *)
Opening == thread[Game].at \in {"evicted", "install"}

FillsNext(id) == link # <<>> /\ link[1].type = "content" /\ link[1].id = id

(* The client can do what the packets say: a window being opened has the   *)
(* layout and its content is next; the window whose content is next has    *)
(* the layout; the window an update addresses shows the rows.              *)
Ready(layout) ==
    /\ Opening => thread[Game].window = NewWindow(layout) /\ FillsNext(thread[Game].id)
    /\ \A id \in DOMAIN screens : FillsNext(id) => ShapeIs(screens[id], layout)
    /\ \A id \in DOMAIN screens : Addressed(id) => Shows(screens[id], layout)

(* The link takes what the client has to what the server has.              *)
Script ==
    \E layout \in Layouts :
        /\ Path(link, Views, Rewriting, ViewOf(layout, inventory), ViewOf(winLayout, truth))
        /\ Ready(layout)

(* Unless a packet was dropped, or an error of the listener ended          *)
(* HandleGame.                                                             *)
ScriptInv == dropped \/ IsAt(Game, "stopped") \/ Script

(* A view of an inventory is a view.                                       *)
LEMMA ViewType ==
    ASSUME NEW layout \in Layouts, NEW f \in [Slots(InventorySize) -> Items]
    PROVE  ViewOf(layout, f) \in Views
  BY AllRowsInside DEF ViewOf, PlayerRows, Views

(* The views of two inventories agree where the rows do.                   *)
LEMMA ViewEqual ==
    ASSUME NEW l, NEW m, NEW f, NEW g
    PROVE  /\ ViewOf(l, f).layout = l
           /\ \A i \in AllRows : ViewOf(l, f).rows[i] = f[i]
           /\ ViewOf(l, f) = ViewOf(m, g) => l = m /\ \A i \in AllRows : f[i] = g[i]
<1>1. ViewOf(l, f) = ViewOf(m, g) => l = m /\ PlayerRows(f) = PlayerRows(g)
  BY DEF ViewOf
<1>2. PlayerRows(f) = PlayerRows(g) => \A i \in AllRows : f[i] = g[i]
  <2>1. \A i \in AllRows : PlayerRows(f)[i] = f[i] /\ PlayerRows(g)[i] = g[i]
    BY DEF PlayerRows
  <2>2. QED
    BY <2>1
<1>3. ViewOf(l, f).layout = l /\ ViewOf(l, f).rows = PlayerRows(f)
  BY DEF ViewOf
<1>4. \A i \in AllRows : PlayerRows(f)[i] = f[i]
  BY DEF PlayerRows
<1>5. QED
  BY <1>1, <1>2, <1>3, <1>4

(* A row changed in the inventory is a row changed in the view.            *)
LEMMA SlotRewrites ==
    ASSUME NEW layout \in Layouts, NEW f \in [Slots(InventorySize) -> Items], NEW i \in AllRows,
           NEW v \in Items
    PROVE  ViewOf(layout, [f EXCEPT ![i] = v]) = WithRow(ViewOf(layout, f), i, v)
<1> DEFINE g == [f EXCEPT ![i] = v]
<1>1. \A j \in AllRows : g[j] = IF j = i THEN v ELSE f[j]
  BY AllRowsInside
<1> HIDE DEF g
<1>2. PlayerRows(g) = [PlayerRows(f) EXCEPT ![i] = v]
  BY <1>1 DEF PlayerRows
<1>3. WithRow(ViewOf(layout, f), i, v)
        = [layout |-> layout, rows |-> [PlayerRows(f) EXCEPT ![i] = v]]
  BY DEF ViewOf, WithRow
<1>4. QED
  BY <1>2, <1>3 DEF ViewOf, g

(* Rewriting is Rewrites.                                                  *)
LEMMA RewritingIs ==
    ASSUME NEW p \in Packets, NEW a \in Views, NEW b \in Views
    PROVE  <<p, a, b>> \in Rewriting <=> Rewrites(p, a, b)
  BY DEF Rewriting

(* A packet sent that does what the server did continues the path.         *)
LEMMA RewritesAppend ==
    ASSUME LinksOK, NEW a, NEW b \in Views, NEW c \in Views, NEW p \in Packets,
           Path(link, Views, Rewriting, a, b), Rewrites(p, b, c)
    PROVE  Append(link, p) \in Seq(Packets) /\ Path(Append(link, p), Views, Rewriting, a, c)
<1>1. <<p, b, c>> \in Rewriting
  BY RewritingIs
<1>2. link \in Seq(Packets)
  BY DEF LinksOK
<1>3. Append(link, p) \in Seq(Packets)
  BY <1>2, AppendProperties
<1>4. QED
  BY <1>1, <1>2, <1>3, PathAppend

(* The first of a sequence with one more.                                  *)
LEMMA FirstOfAppend ==
    ASSUME NEW s \in Seq(Packets), NEW p \in Packets
    PROVE  /\ Append(s, p) # <<>> /\ Append(s, p) \in Seq(Packets)
           /\ Append(s, p)[1] = IF s = <<>> THEN p ELSE s[1]
<1>1. /\ Append(s, p) # <<>> /\ Append(s, p) \in Seq(Packets)
      /\ Append(s, p)[Len(s) + 1] = p /\ Len(s) \in Nat
      /\ \A k \in 1 .. Len(s) : Append(s, p)[k] = s[k]
  BY AppendProperties, LenProperties
<1>2. s = <<>> <=> Len(s) = 0
  BY EmptySeq
<1>3. QED
  BY <1>1, <1>2

(* Packets sent behind others do not concern the client yet.               *)
LEMMA ReadyAppend ==
    ASSUME ScreenTypeOK, NEW layout, Ready(layout), UNCHANGED vars, link' # <<>>,
           link # <<>> => link'[1] = link[1],
           link = <<>> =>
              /\ link'[1].type # "content"
              /\ (link'[1].type = "slot" /\ link'[1].id # 0)
                    => win = link'[1].id /\ HasRows(winLayout)
    PROVE  Ready(layout)'
<1>1. /\ UNCHANGED <<screens, thread, inventory>> /\ 0 \notin DOMAIN screens
  BY WindowsParts, ScreenAssumption DEF vars, contents, ScreenTypeOK
<1>2. \A id : FillsNext(id)' <=> FillsNext(id)
  BY DEF FillsNext
<1>3. \A id \in DOMAIN screens : Addressed(id)' => Addressed(id)
  BY <1>1 DEF Addressed
<1>4. Opening' <=> Opening
  BY <1>1 DEF Opening
<1>5. \A id \in DOMAIN screens : Shows(screens[id], layout)' <=> Shows(screens[id], layout)
  BY <1>1 DEF Shows
<1>6. QED
  BY <1>1, <1>2, <1>3, <1>4, <1>5 DEF Ready

(* The content of a window is what its rows are.                           *)
LEMMA ContentShows ==
    ASSUME ServerOK, NEW layout \in Layouts, NEW id, NEW s
    PROVE  LET p == ContentPacket(id, s, WindowContent(layout))
           IN  Rewrites(p, ViewOf(layout, truth), ViewOf(layout, truth))
<1> DEFINE d == WindowContent(layout)
           p == ContentPacket(id, s, d)
           a == ViewOf(layout, truth)
<1>1. p.type = "content" /\ p.data = d
  BY DEF ContentPacket
<1>2. d \in [Slots(layout.total) -> Items]
  BY ContentMade
<1>3. a.layout = layout /\ \A i \in AllRows : a.rows[i] = truth[i]
  BY ViewEqual
<1>4. ASSUME HasRows(layout), NEW i \in AllRows PROVE d[RowAt(layout, i)] = truth[i]
  <2>1. /\ RowAt(layout, i) \in Slots(layout.total) /\ ~(RowAt(layout, i) < layout.own)
        /\ MainStart + (RowAt(layout, i) - layout.own) = i
    BY <1>4, LayoutParts, AllRowsInside, ScreenAssumption DEF RowAt, Slots
  <2>2. QED
    BY <2>1 DEF WindowContent
<1> HIDE DEF a, p, d
<1>5. Rewrites(p, a, a)
  BY <1>1, <1>2, <1>3, <1>4 DEF Rewrites
<1>6. QED
  BY <1>5 DEF a, p, d

(* The server sends what it does.                                          *)
LEMMA ScriptServer ==
    ASSUME SessionTypeOK, OrderInv, Script, Server
    PROVE  Script'
<1> DEFINE z == ViewOf(winLayout, truth)
<1>1. PICK layout \in Layouts :
        Path(link, Views, Rewriting, ViewOf(layout, inventory), z) /\ Ready(layout)
  BY DEF Script
<1>2. UNCHANGED vars /\ inventory' = inventory /\ serverState' \in Nat
  BY ServerMoves DEF vars, contents
<1>3. ServerOK /\ ServerOK' /\ LinksOK /\ ScreenTypeOK
  BY ServerType DEF SessionTypeOK
<1>4. z \in Views /\ ViewOf(winLayout', truth') \in Views
  BY <1>3, ViewType DEF ServerOK
<1> DEFINE a == ViewOf(layout, inventory)
<1>5. Path(link', Views, Rewriting, a, ViewOf(winLayout', truth')) /\ Ready(layout)' => Script'
  BY <1>2 DEF Script
<1> HIDE DEF z, a
<1>6. ASSUME NEW id \in WindowIds, NEW m \in Layouts, Opens(id, m) PROVE Script'
  <2> DEFINE p == OpenPacket(id, m)
             q == ContentPacket(id, serverState', WindowContent(m))
             y == ViewOf(m, truth)
  <2>1. p \in Packets /\ q \in Packets /\ y \in Views
    BY <1>2, <1>3, PacketsMade, ContentMade, ViewType DEF ServerOK
  <2>2. Rewrites(p, z, y)
    <3>1. p.type = "open" /\ p.layout = m
      BY DEF OpenPacket
    <3>2. y = [z EXCEPT !.layout = m]
      BY DEF z, ViewOf
    <3>3. QED
      BY <3>1, <3>2 DEF Rewrites
  <2>3. Rewrites(q, y, y)
    BY <1>3, ContentShows
  <2>4. link' = Append(Append(link, p), q) /\ ViewOf(winLayout', truth') = y
    BY <1>6 DEF Opens
  <2>5. p.type = "open"
    BY DEF OpenPacket
  <2> HIDE DEF p, q, y
  <2>6. Append(link, p) \in Seq(Packets) /\ Path(Append(link, p), Views, Rewriting, a, y)
    BY <1>1, <1>3, <1>4, <2>1, <2>2, RewritesAppend DEF a
  <2>7. <<q, y, y>> \in Rewriting
    BY <2>1, <2>3, RewritingIs
  <2>8. Path(link', Views, Rewriting, a, ViewOf(winLayout', truth'))
    BY <2>1, <2>4, <2>6, <2>7, PathAppend
  <2>9. link' # <<>> /\ link'[1] = IF link = <<>> THEN p ELSE link[1]
    <3>1. link \in Seq(Packets)
      BY <1>3 DEF LinksOK
    <3>2. Append(link, p) # <<>> /\ Append(link, p)[1] = IF link = <<>> THEN p ELSE link[1]
      BY <2>1, <3>1, FirstOfAppend
    <3>3. QED
      BY <2>1, <2>4, <2>6, <3>2, FirstOfAppend
  <2>10. Ready(layout)'
    BY <1>1, <1>2, <1>3, <2>5, <2>9, ReadyAppend
  <2>11. QED
    BY <1>5, <2>8, <2>10
<1>7. ASSUME NEW p \in Packets, link' = Append(link, p),
             Rewrites(p, z, ViewOf(winLayout', truth')),
             p.type # "content",
             (p.type = "slot" /\ p.id # 0) => win = p.id /\ HasRows(winLayout)
      PROVE  Script'
  <2>1. Path(link', Views, Rewriting, a, ViewOf(winLayout', truth'))
    BY <1>1, <1>3, <1>4, <1>7, RewritesAppend DEF a
  <2>2. link' # <<>> /\ link'[1] = IF link = <<>> THEN p ELSE link[1]
    BY <1>3, <1>7, FirstOfAppend DEF LinksOK
  <2>3. Ready(layout)'
    BY <1>1, <1>2, <1>3, <1>7, <2>2, ReadyAppend
  <2>4. QED
    BY <1>5, <2>1, <2>3
<1>8. ASSUME Closes PROVE Script'
  <2>1. ClosePacket(win) \in Packets /\ ClosePacket(win).type = "close"
    BY <1>3, <1>8, PacketsMade DEF Closes, ServerOK, Ids, ClosePacket
  <2>2. ViewOf(winLayout', truth') = z /\ link' = Append(link, ClosePacket(win))
    BY <1>8 DEF Closes, z
  <2>3. QED
    BY <1>7, <2>1, <2>2 DEF Rewrites
<1>9. ASSUME NEW i \in AllRows, NEW v \in Items, Updates(i, v) PROVE Script'
  <2>1. PICK p \in Packets :
          /\ link' = Append(link, p) /\ p.type = "slot" /\ p.item = v
          /\ p.id = IF win # 0 /\ HasRows(winLayout) THEN win ELSE 0
          /\ p.slot = IF win # 0 /\ HasRows(winLayout) THEN RowAt(winLayout, i) ELSE i
    BY <1>2, <1>3, <1>9, UpdateMade, RowUpdateParts DEF Updates
  <2>2. ViewOf(winLayout', truth') = WithRow(z, i, v)
    <3>1. winLayout \in Layouts /\ truth \in [Slots(InventorySize) -> Items]
      BY <1>3 DEF ServerOK
    <3>2. ViewOf(winLayout, [truth EXCEPT ![i] = v]) = WithRow(ViewOf(winLayout, truth), i, v)
      BY <1>9, <3>1, SlotRewrites
    <3>3. winLayout' = winLayout /\ truth' = [truth EXCEPT ![i] = v]
      BY <1>9 DEF Updates
    <3>4. QED
      BY <3>2, <3>3 DEF z
  <2>3. z.layout = winLayout
    BY ViewEqual DEF z
  <2>4. Rewrites(p, z, ViewOf(winLayout', truth'))
    BY <2>1, <2>2, <2>3 DEF Rewrites
  <2>5. QED
    BY <1>7, <2>1, <2>4
<1>10. ASSUME Forgets PROVE Script'
  <2>1. Path(link', Views, Rewriting, a, ViewOf(winLayout', truth'))
    BY <1>1, <1>10 DEF Forgets, z, a
  <2>2. 0 \notin DOMAIN screens
    BY <1>3, WindowsParts, ScreenAssumption DEF ScreenTypeOK
  <2>3. Ready(layout)'
    BY <1>1, <1>2, <1>10, <2>2
       DEF Forgets, vars, contents, Ready, Opening, FillsNext, Addressed, Shows, ShapeIs
  <2>4. QED
    BY <1>5, <2>1, <2>3
<1>11. QED
  BY <1>6, <1>8, <1>9, <1>10, ServerMoves

(* After a packet that opens nothing the client is ready for the next if   *)
(* the packet's window shows the rows.                                     *)
LEMMA ReadyHandled ==
    ASSUME SessionTypeOK, OrderInv, ScreenTypeOK', link # <<>>, link' = Tail(link),
           UNCHANGED <<win, winLayout>>, NEW layout, NEW p, p = Head(link),
           p.type # "open", ~(Opening'),
           (Numbered(p) /\ p.id \in DOMAIN screens') => Shows(screens[p.id], layout)'
    PROVE  Ready(layout)'
<1>1. /\ link' # <<>> => Follows(p, link'[1])
      /\ link' = <<>> => Current(p)
  BY OrderTail
<1>2. 0 \notin DOMAIN screens'
  <2>1. WindowsOK'
    BY DEF ScreenTypeOK
  <2>2. PICK D \in SUBSET WindowIds : screens' \in [D -> Windows]
    BY <2>1 DEF WindowsOK
  <2>3. QED
    BY <2>2, ScreenAssumption
<1>3. ASSUME NEW id \in DOMAIN screens' PROVE ~(FillsNext(id)')
  BY <1>1 DEF FillsNext, Follows
<1>4. ASSUME NEW id \in DOMAIN screens', Addressed(id)' PROVE Numbered(p) /\ p.id = id
  <2>1. id # 0
    BY <1>2, <1>4
  <2>2. CASE link' = <<>>
    BY <1>1, <1>4, <2>1, <2>2 DEF Addressed, Current
  <2>3. CASE link' # <<>>
    BY <1>1, <1>4, <2>1, <2>3 DEF Addressed, Follows
  <2>4. QED
    BY <2>2, <2>3
<1>5. ASSUME NEW id \in DOMAIN screens', Addressed(id)' PROVE Shows(screens[id], layout)'
  BY <1>4, <1>5
<1>6. QED
  BY <1>3, <1>5 DEF Ready

(* The rows of a window are the layout's.                                  *)
LEMMA RowsOf ==
    ASSUME NEW w \in Windows, NEW layout \in Layouts, ShapeIs(w, layout)
    PROVE  /\ HasRows(layout) => Rows(w) = AllRows
           /\ ~HasRows(layout) => Rows(w) = {}
           /\ \A i \in AllRows : RowSlot(w, i) = RowAt(layout, i)
           /\ HasRows(layout) => \A i \in AllRows : RowAt(layout, i) \in Slots(layout.total)
           /\ \A i, j \in AllRows : RowAt(layout, i) = RowAt(layout, j) => i = j
<1>1. layout.own \in Nat /\ layout.total \in Nat /\ w.own = layout.own
  BY LayoutParts DEF ShapeIs
<1>2. \A i \in AllRows : i \in Nat
  BY AllRowsInside
<1>3. \A i \in AllRows : RowSlot(w, i) = RowAt(layout, i)
  BY <1>1 DEF RowSlot, RowAt
<1>4. \A i, j \in AllRows : RowAt(layout, i) = RowAt(layout, j) => i = j
  BY <1>1, <1>2, ScreenAssumption DEF RowAt
<1>5. ASSUME HasRows(layout)
      PROVE  Rows(w) = AllRows /\ \A i \in AllRows : RowAt(layout, i) \in Slots(layout.total)
  <2>1. layout.total = layout.own + MainLength + HotbarLength
    BY <1>5, LayoutParts
  <2>2. HasMain(w) /\ HasHotbar(w)
    BY <1>1, <2>1, ScreenAssumption, SessionAssumption DEF ShapeIs, HasMain, HasHotbar, Slots
  <2>3. Rows(w) = AllRows
    BY <2>2, ScreenAssumption DEF Rows, AllRows, HotbarStart
  <2>4. \A i \in AllRows : RowAt(layout, i) \in Slots(layout.total)
    BY <1>1, <2>1, AllRowsInside, ScreenAssumption DEF RowAt, Slots
  <2>5. QED
    BY <2>3, <2>4
<1>6. ASSUME ~HasRows(layout) PROVE Rows(w) = {}
  BY <1>1, <1>6, ScreenAssumption, SessionAssumption
     DEF ShapeIs, HasRows, Rows, HasMain, HasHotbar, Slots
<1>7. QED
  BY <1>3, <1>4, <1>5, <1>6

(* What writing a window does to it and to the inventory.                  *)
LEMMA RowsWritten ==
    ASSUME ScreenTypeOK, NEW id \in DOMAIN screens, NEW layout \in Layouts,
           ShapeIs(screens[id], layout), NEW data, OfItems(data),
           DOMAIN data \subseteq Slots(layout.total), WritesWindow(id, data)
    PROVE  /\ HandlerReturns /\ ShapeIs(screens'[id], layout)
           /\ \A j \in Slots(layout.total) :
                 screens'[id].slots[j] = IF j \in DOMAIN data THEN data[j] ELSE screens[id].slots[j]
           /\ \A i \in AllRows :
                 inventory'[i] = IF HasRows(layout) THEN screens'[id].slots[RowAt(layout, i)]
                                                    ELSE inventory[i]
<1> DEFINE w == WriteWindow(screens[id], data)
<1>1. screens[id] \in Windows
  BY WindowsParts DEF ScreenTypeOK
<1>2. w \in Windows /\ ShapeIs(w, layout)
  BY <1>1, WriteWindowType DEF ShapeIs
<1>3. Fits(w.slots, data)
  BY <1>2 DEF ShapeIs, Fits
<1>4. screens'[id] = w
  <2>1. screens' = [screens EXCEPT ![id] = w]
    BY DEF WritesWindow, WriteWindow
  <2> HIDE DEF w
  <2>2. QED
    BY <2>1
<1>5. HandlerReturns /\ inventory' = Mirrored(w)
  BY <1>3 DEF WritesWindow, WriteWindow
<1>6. w.slots = Written(screens[id].slots, data) /\ DOMAIN screens[id].slots = Slots(layout.total)
  BY <1>1, WindowParts DEF WriteWindow, ShapeIs
<1> HIDE DEF w
<1>7. \A j \in Slots(layout.total) :
         w.slots[j] = IF j \in DOMAIN data THEN data[j] ELSE screens[id].slots[j]
  BY <1>6 DEF Written
<1>8. \A i \in AllRows :
         inventory'[i] = IF i \in Rows(w) THEN w.slots[RowSlot(w, i)] ELSE inventory[i]
  BY <1>5, AllRowsInside DEF Mirrored, ScreenTypeOK, ContentsOK
<1>9. \A i \in AllRows :
         inventory'[i] = IF HasRows(layout) THEN w.slots[RowAt(layout, i)] ELSE inventory[i]
  BY <1>2, <1>8, RowsOf
<1>10. QED
  BY <1>2, <1>4, <1>5, <1>7, <1>9

(* Content that says what the rows are leaves them, and the window shows   *)
(* them.                                                                   *)
LEMMA ContentTaken ==
    ASSUME ScreenTypeOK, NEW id \in DOMAIN screens, NEW layout \in Layouts,
           ShapeIs(screens[id], layout), NEW data \in [Slots(layout.total) -> Items],
           HasRows(layout) => \A i \in AllRows : data[RowAt(layout, i)] = inventory[i],
           WritesWindow(id, data)
    PROVE  /\ HandlerReturns
           /\ \A i \in AllRows : inventory'[i] = inventory[i]
           /\ Shows(screens[id], layout)'
<1>1. OfItems(data) /\ DOMAIN data = Slots(layout.total)
  BY DEF OfItems
<1>2. /\ HandlerReturns /\ ShapeIs(screens'[id], layout)
      /\ \A j \in Slots(layout.total) : screens'[id].slots[j] = data[j]
      /\ \A i \in AllRows :
            inventory'[i] = IF HasRows(layout) THEN screens'[id].slots[RowAt(layout, i)]
                                               ELSE inventory[i]
  BY <1>1, RowsWritten
<1>3. HasRows(layout) => \A i \in AllRows : RowAt(layout, i) \in Slots(layout.total)
  BY WindowsParts, RowsOf DEF ScreenTypeOK
<1>4. \A i \in AllRows : inventory'[i] = inventory[i]
  BY <1>2, <1>3
<1>5. QED
  BY <1>2, <1>3, <1>4 DEF Shows

(* The handler of a slot of window id.                                     *)
WritesSlot(id, i, v) == WritesWindow(id, [j \in {i} |-> v])

(* A slot that is a row changes this row, in the window and in the         *)
(* inventory.                                                              *)
LEMMA SlotTaken ==
    ASSUME ScreenTypeOK, NEW id \in DOMAIN screens, NEW layout \in Layouts, HasRows(layout),
           Shows(screens[id], layout), NEW i \in AllRows, NEW v \in Items,
           WritesSlot(id, RowAt(layout, i), v)
    PROVE  /\ HandlerReturns
           /\ \A k \in AllRows : inventory'[k] = IF k = i THEN v ELSE inventory[k]
           /\ Shows(screens[id], layout)'
<1> DEFINE data == [j \in {RowAt(layout, i)} |-> v]
<1>1. /\ \A k \in AllRows : RowAt(layout, k) \in Slots(layout.total)
      /\ \A k \in AllRows : RowAt(layout, k) = RowAt(layout, i) => k = i
  BY WindowsParts, RowsOf DEF ScreenTypeOK, Shows
<1>2. OfItems(data) /\ DOMAIN data = {RowAt(layout, i)} /\ data[RowAt(layout, i)] = v
  BY DEF OfItems
<1>3. WritesWindow(id, data) /\ ShapeIs(screens[id], layout)
  BY DEF Shows, WritesSlot
<1> HIDE DEF data
<1>4. DOMAIN data \subseteq Slots(layout.total)
  BY <1>1, <1>2
<1>5. /\ HandlerReturns /\ ShapeIs(screens'[id], layout)
      /\ \A j \in Slots(layout.total) :
            screens'[id].slots[j] = IF j \in DOMAIN data THEN data[j] ELSE screens[id].slots[j]
      /\ \A k \in AllRows : inventory'[k] = screens'[id].slots[RowAt(layout, k)]
  BY <1>2, <1>3, <1>4, RowsWritten
<1>6. ASSUME NEW k \in AllRows PROVE inventory'[k] = IF k = i THEN v ELSE inventory[k]
  <2>1. screens[id].slots[RowAt(layout, k)] = inventory[k]
    BY DEF Shows
  <2>2. QED
    BY <1>1, <1>2, <1>5, <2>1
<1>7. QED
  BY <1>5, <1>6 DEF Shows

(* Only the rows are in the view.                                          *)
LEMMA SameRows ==
    ASSUME NEW l, NEW f, NEW g, \A i \in AllRows : f[i] = g[i]
    PROVE  ViewOf(l, f) = ViewOf(l, g)
<1>1. PlayerRows(f) = PlayerRows(g)
  BY DEF PlayerRows
<1>2. QED
  BY <1>1 DEF ViewOf

(* A handler has returned: HandleGame stops or opens nothing.              *)
LEMMA HandledStep ==
    ASSUME ThreadsOK, HandlerReturns
    PROVE  IsAt(Game, "stopped")' \/ ~(Opening')
<1>1. PICK p \in {Idle, Stopped} : Become(Game, p)
  BY DEF HandlerReturns
<1>2. thread'[Game] = p
  BY <1>1, GameIsThread DEF Become, ThreadsOK
<1>3. QED
  BY <1>2, SimpleSteps DEF IsAt, Opening

(* OnOpenScreen takes a stale window out and goes on to its second         *)
(* section.                                                                *)
LEMMA OpenHandled ==
    ASSUME ScreenTypeOK, NEW id \in WindowIds, NEW layout \in Layouts, OnOpenScreen(id, layout)
    PROVE  /\ thread'[Game].window = NewWindow(layout) /\ thread'[Game].id = id
           /\ id \notin DOMAIN screens' /\ inventory' = inventory
           /\ \A x : x \in DOMAIN screens' => x \in DOMAIN screens
           /\ thread'[Game].at = IF id \in DOMAIN screens THEN "evicted" ELSE "install"
<1> DEFINE w == NewWindow(layout)
<1>1. CASE id \in DOMAIN screens
  <2>1. Remove(id) /\ Become(Game, Evicted(id, w)) /\ inventory' = inventory
    BY <1>1 DEF OnOpenScreen, contents
  <2>2. thread'[Game] = Evicted(id, w)
    BY <2>1, GameIsThread DEF Become, ScreenTypeOK, ThreadsOK
  <2> HIDE DEF w
  <2>3. thread'[Game].window = w /\ thread'[Game].id = id /\ thread'[Game].at = "evicted"
    BY <2>2 DEF Evicted
  <2>4. DOMAIN screens' = DOMAIN screens \ {id}
    BY <2>1 DEF Remove
  <2>5. QED
    BY <1>1, <2>1, <2>3, <2>4 DEF w
<1>2. CASE id \notin DOMAIN screens
  <2>1. screens' = screens /\ Become(Game, Install(id, w)) /\ inventory' = inventory
    BY <1>2 DEF OnOpenScreen, contents
  <2>2. thread'[Game] = Install(id, w)
    BY <2>1, GameIsThread DEF Become, ScreenTypeOK, ThreadsOK
  <2> HIDE DEF w
  <2>3. thread'[Game].window = w /\ thread'[Game].id = id /\ thread'[Game].at = "install"
    BY <2>2 DEF Install
  <2>4. QED
    BY <1>2, <2>1, <2>3 DEF w
<1>3. QED
  BY <1>1, <1>2

(* There the client is ready for the content.                              *)
LEMMA ReadyOpened ==
    ASSUME SessionTypeOK, OrderInv, link # <<>>, link' = Tail(link),
           UNCHANGED <<win, winLayout>>, NEW layout \in Layouts, NEW p \in Packets, p = Head(link),
           p.type = "open", OnOpenScreen(p.id, layout)
    PROVE  Ready(layout)'
<1>1. /\ link' # <<>> => Follows(p, link'[1])
      /\ link' = <<>> => Current(p)
  BY OrderTail
<1>2. link' # <<>> /\ link'[1].type = "content" /\ link'[1].id = p.id
  BY <1>1 DEF Current, Follows
<1>3. /\ thread'[Game].window = NewWindow(layout) /\ thread'[Game].id = p.id
      /\ p.id \notin DOMAIN screens'
  BY OpenHandled, PacketParts DEF SessionTypeOK
<1>4. \A id \in DOMAIN screens' : ~(FillsNext(id)') /\ ~(Addressed(id)')
  BY <1>2, <1>3 DEF FillsNext, Addressed
<1>5. FillsNext(thread[Game].id)'
  BY <1>2, <1>3 DEF FillsNext
<1>6. QED
  BY <1>3, <1>4, <1>5 DEF Ready

(* OnSetSlotWindow is such a handler.                                      *)
LEMMA SlotWindowWrites ==
    ASSUME NEW id, NEW s, NEW i, NEW v, OnSetSlotWindow(id, s, i, v)
    PROVE  WritesSlot(id, i, v)
<1> DEFINE data == [j \in {i} |-> v]
<1>1. \A f : Fits(f, data) <=> i \in DOMAIN f
  BY DEF Fits
<1> HIDE DEF data
<1>2. QED
  BY <1>1 DEF OnSetSlotWindow, WritesWindow, WritesSlot, data

(* The client does what it receives.                                       *)
LEMMA ScriptReceive ==
    ASSUME SessionTypeOK, OrderInv, Script, ClientReceive
    PROVE  ScriptInv'
<1>1. PICK p \in Packets : p = Head(link) /\ p = link[1]
  BY FirstPacket DEF ClientReceive
<1>2. /\ link # <<>> /\ link' = Tail(link) /\ OnPacket(p)
      /\ UNCHANGED <<win, winLayout, truth>>
      /\ dropped' = (dropped \/ MeetsClosedWindow(p))
  BY <1>1 DEF ClientReceive, serverVars
<1>3. ScreenTypeOK /\ ScreenTypeOK' /\ LinksOK /\ ThreadsOK
  BY <1>2, PacketType DEF SessionTypeOK, ScreenTypeOK
<1>4. inventory \in [Slots(InventorySize) -> Items]
  BY <1>3 DEF ScreenTypeOK, ContentsOK
<1>5. PICK layout, a, z :
        /\ layout \in Layouts /\ a = ViewOf(layout, inventory) /\ z = ViewOf(winLayout, truth)
        /\ Path(link, Views, Rewriting, a, z) /\ Ready(layout)
  BY DEF Script
<1>6. a \in Views /\ a.layout = layout /\ \A i \in AllRows : a.rows[i] = inventory[i]
  BY <1>4, <1>5, ViewType, ViewEqual
<1>7. PICK b \in Views : Rewrites(p, a, b) /\ Path(link', Views, Rewriting, b, z)
  <2>1. PICK b \in Views : <<p, a, b>> \in Rewriting /\ Path(link', Views, Rewriting, b, z)
    BY <1>1, <1>2, <1>3, <1>5, PathTail DEF LinksOK
  <2>2. QED
    BY <1>6, <2>1, RewritingIs
<1>8. ASSUME NEW m \in Layouts, b = ViewOf(m, inventory'), Ready(m)' PROVE Script'
  <2>1. z = ViewOf(winLayout', truth')
    BY <1>2, <1>5
  <2>2. Path(link', Views, Rewriting, ViewOf(m, inventory'), ViewOf(winLayout', truth'))
    BY <1>7, <1>8, <2>1
  <2>3. QED
    BY <1>8, <2>2 DEF Script
<1>9. ASSUME b = ViewOf(layout, inventory'), p.type # "open", ~(Opening'),
             (Numbered(p) /\ p.id \in DOMAIN screens') => Shows(screens[p.id], layout)'
      PROVE  Script'
  <2>1. Ready(layout)'
    BY <1>1, <1>2, <1>3, <1>9, ReadyHandled
  <2>2. QED
    BY <1>5, <1>8, <1>9, <2>1
<1>10. CASE MeetsClosedWindow(p)
  BY <1>2, <1>10 DEF ScriptInv
<1>11. CASE p.type = "open"
  <2>1. p.layout \in Layouts /\ p.id \in WindowIds /\ OnOpenScreen(p.id, p.layout)
    BY <1>2, <1>11, PacketParts DEF OnPacket
  <2>2. Ready(p.layout)'
    BY <1>1, <1>2, <1>11, <2>1, ReadyOpened
  <2>3. b = [a EXCEPT !.layout = p.layout] /\ inventory' = inventory
    BY <1>7, <1>11, <2>1 DEF Rewrites, OnOpenScreen, contents
  <2>4. b = ViewOf(p.layout, inventory')
    BY <1>5, <2>3 DEF ViewOf
  <2>5. QED
    BY <1>8, <2>1, <2>2, <2>4 DEF ScriptInv
<1>12. CASE p.type = "content" /\ ~MeetsClosedWindow(p)
  <2>1. p.id \in DOMAIN screens /\ p.id # 0
    BY <1>12, PacketParts, ScreenAssumption DEF MeetsClosedWindow
  <2>2. WritesWindow(p.id, p.data)
    BY <1>2, <1>12, <2>1 DEF OnPacket, OnSetWindowContent, WritesWindow
  <2>3. ShapeIs(screens[p.id], layout)
    BY <1>1, <1>2, <1>5, <1>12, <2>1 DEF Ready, FillsNext
  <2>4. /\ b = a /\ p.data \in [Slots(layout.total) -> Items]
        /\ HasRows(layout) => \A i \in AllRows : p.data[RowAt(layout, i)] = inventory[i]
    BY <1>6, <1>7, <1>12 DEF Rewrites
  <2>5. /\ HandlerReturns
        /\ \A i \in AllRows : inventory'[i] = inventory[i]
        /\ Shows(screens[p.id], layout)'
    BY <1>3, <1>5, <2>1, <2>2, <2>3, <2>4, ContentTaken
  <2>6. b = ViewOf(layout, inventory')
    BY <1>5, <2>4, <2>5, SameRows
  <2>7. IsAt(Game, "stopped")' \/ ~(Opening')
    BY <1>3, <2>5, HandledStep
  <2>8. QED
    BY <1>9, <1>12, <2>5, <2>6, <2>7 DEF ScriptInv
<1>13. CASE p.type = "slot" /\ p.id = 0
  <2>1. PICK i \in AllRows : p.slot = i /\ b = WithRow(a, i, p.item)
    BY <1>7, <1>13 DEF Rewrites
  <2>2. 0 \notin DOMAIN screens /\ i \in Slots(InventorySize) /\ p.item \in Items
    BY <1>3, <1>13, <2>1, WindowsParts, AllRowsInside, PacketParts, ScreenAssumption
       DEF ScreenTypeOK
  <2>3. OnSetSlotInventory(p.state, i, p.item)
    BY <1>2, <1>13, <2>1, <2>2 DEF OnPacket, OnSetSlotWindow
  <2>4. /\ HandlerReturns /\ screens' = screens
        /\ inventory' = Written(inventory, [j \in {i} |-> p.item])
    BY <1>4, <2>2, <2>3 DEF OnSetSlotInventory
  <2>5. inventory' = [inventory EXCEPT ![i] = p.item]
    BY <1>4, <2>2, <2>4 DEF Written
  <2>6. b = ViewOf(layout, inventory')
    BY <1>4, <1>5, <2>1, <2>2, <2>5, SlotRewrites
  <2>7. IsAt(Game, "stopped")' \/ ~(Opening')
    BY <1>3, <2>4, HandledStep
  <2>8. QED
    BY <1>9, <1>13, <2>2, <2>4, <2>6, <2>7 DEF ScriptInv
<1>14. CASE p.type = "slot" /\ p.id # 0 /\ ~MeetsClosedWindow(p)
  <2>1. p.id \in DOMAIN screens
    BY <1>14 DEF MeetsClosedWindow
  <2>2. PICK i \in AllRows :
          HasRows(layout) /\ p.slot = RowAt(layout, i) /\ b = WithRow(a, i, p.item)
    BY <1>6, <1>7, <1>14 DEF Rewrites
  <2>3. p.item \in Items /\ OnSetSlotWindow(p.id, p.state, RowAt(layout, i), p.item)
    BY <1>2, <1>14, <2>1, <2>2, PacketParts DEF OnPacket, OnSetSlotClosed
  <2>4. Shows(screens[p.id], layout)
    BY <1>1, <1>2, <1>5, <1>14, <2>1 DEF Ready, Addressed
  <2>5. WritesSlot(p.id, RowAt(layout, i), p.item)
    BY <2>3, SlotWindowWrites
  <2>6. /\ HandlerReturns
        /\ \A k \in AllRows : inventory'[k] = IF k = i THEN p.item ELSE inventory[k]
        /\ Shows(screens[p.id], layout)'
    BY <1>3, <1>5, <2>1, <2>2, <2>3, <2>4, <2>5, SlotTaken
  <2>7. b = ViewOf(layout, inventory')
    <3>1. \A k \in AllRows : inventory'[k] = [inventory EXCEPT ![i] = p.item][k]
      BY <1>4, <2>6, AllRowsInside
    <3>2. ViewOf(layout, inventory') = ViewOf(layout, [inventory EXCEPT ![i] = p.item])
      BY <3>1, SameRows
    <3>3. QED
      BY <1>4, <1>5, <2>2, <2>3, <3>2, SlotRewrites
  <2>8. IsAt(Game, "stopped")' \/ ~(Opening')
    BY <1>3, <2>6, HandledStep
  <2>9. QED
    BY <1>9, <1>14, <2>6, <2>7, <2>8 DEF ScriptInv
<1>15. CASE p.type = "close"
  <2>1. b = a /\ inventory' = inventory
    BY <1>2, <1>7, <1>15 DEF Rewrites, OnPacket, OnCloseScreen, vars, contents
  <2>2. Become(Game, Closing(p.id)) \/ (thread' = thread /\ IsAt(Game, "idle"))
    BY <1>2, <1>15 DEF OnPacket, OnCloseScreen, vars
  <2>3. thread'[Game] = Closing(p.id) \/ thread'[Game].at = "idle"
    BY <1>3, <2>2, GameIsThread DEF Become, IsAt, ThreadsOK
  <2>4. ~(Opening')
    BY <2>3 DEF Opening, Closing
  <2>5. QED
    BY <1>5, <1>9, <1>15, <2>1, <2>4 DEF Numbered, ScriptInv
<1>16. QED
  BY <1>10, <1>11, <1>12, <1>13, <1>14, <1>15, PacketParts

-----------------------------------------------------------------------------
(* Steps that do not receive *)

(* A goroutine moves and the others stay.                                  *)
LEMMA BecomeMoves ==
    ASSUME ThreadsOK, NEW t \in Threads, NEW p, Become(t, p)
    PROVE  thread'[t] = p /\ \A u \in Threads \ {t} : thread'[u] = thread[u]
  BY DEF ThreadsOK, Become

(* The game goroutine stops, opens nothing, goes on with what it opens, or *)
(* is not concerned.                                                       *)
GameStays ==
    \/ IsAt(Game, "stopped")'
    \/ ~(Opening') /\ ~IsAt(Game, "stopped")
    \/ /\ thread'[Game].id = thread[Game].id /\ thread'[Game].window = thread[Game].window
       /\ Opening' => Opening
       /\ ~IsAt(Game, "stopped")
    \/ thread'[Game] = thread[Game]

(* Then the client stays ready if no window comes or changes,              *)
LEMMA ReadyStays ==
    ASSUME NEW layout, Ready(layout), GameStays,
           UNCHANGED <<link, win, winLayout, inventory>>,
           DOMAIN screens' \subseteq DOMAIN screens,
           \A id \in DOMAIN screens' : screens'[id] = screens[id]
    PROVE  IsAt(Game, "stopped")' \/ Ready(layout)'
<1>1. \A id : (FillsNext(id)' <=> FillsNext(id)) /\ (Addressed(id)' <=> Addressed(id))
  BY DEF FillsNext, Addressed
<1>2. CASE Opening'
  <2>1. CASE ~IsAt(Game, "stopped")'
    <3>1. /\ Opening /\ thread'[Game].id = thread[Game].id
          /\ thread'[Game].window = thread[Game].window
      BY <1>2, <2>1 DEF GameStays, Opening
    <3>2. QED
      BY <1>1, <1>2, <3>1 DEF Ready, Shows
  <2>2. QED
    BY <2>1
<1>3. CASE ~(Opening')
  BY <1>1, <1>3 DEF Ready, Shows
<1>4. QED
  BY <1>2, <1>3

(* and the link still takes what it has to what the server has.            *)
LEMMA ScriptStays ==
    ASSUME ScriptInv, GameStays, UNCHANGED <<link, win, winLayout, truth, inventory>>,
           dropped => dropped',
           DOMAIN screens' \subseteq DOMAIN screens,
           \A id \in DOMAIN screens' : screens'[id] = screens[id]
    PROVE  ScriptInv'
<1>1. CASE dropped
  BY <1>1 DEF ScriptInv
<1>2. CASE IsAt(Game, "stopped")
  BY <1>2 DEF ScriptInv, GameStays, IsAt
<1>3. CASE Script
  <2>1. PICK layout \in Layouts :
          /\ Path(link, Views, Rewriting, ViewOf(layout, inventory), ViewOf(winLayout, truth))
          /\ Ready(layout)
    BY <1>3 DEF Script
  <2>2. Path(link', Views, Rewriting, ViewOf(layout, inventory'), ViewOf(winLayout', truth'))
    BY <2>1
  <2>3. IsAt(Game, "stopped")' \/ Ready(layout)'
    BY <2>1, ReadyStays
  <2>4. QED
    BY <2>2, <2>3 DEF Script, ScriptInv
<1>4. QED
  BY <1>1, <1>2, <1>3 DEF ScriptInv

(* A handler that returns opens nothing.                                   *)
LEMMA GameReturns ==
    ASSUME ThreadsOK, HandlerReturns, ~IsAt(Game, "stopped")
    PROVE  GameStays
  BY HandledStep DEF GameStays

(* A step of another goroutine does not concern the game goroutine.        *)
LEMMA OthersMove ==
    ASSUME ThreadsOK, NEW t \in Threads, NEW p, Become(t, p),
           t # Game \/ (p.at \notin {"evicted", "install"} /\ ~IsAt(Game, "stopped"))
    PROVE  GameStays
<1>1. CASE t = Game
  <2>1. thread'[Game] = p
    BY <1>1, BecomeMoves
  <2>2. ~(Opening')
    BY <1>1, <2>1 DEF Opening
  <2>3. QED
    BY <1>1, <2>2 DEF GameStays
<1>2. CASE t # Game
  <2>1. thread'[Game] = thread[Game]
    BY <1>2, BecomeMoves, GameIsThread
  <2>2. QED
    BY <2>1 DEF GameStays
<1>3. QED
  BY <1>1, <1>2

(* The window installed is as empty as its layout says, and its content is *)
(* next.                                                                   *)
LEMMA ScriptInstall ==
    ASSUME SessionTypeOK, Script, InstallWindow, UNCHANGED <<link, win, winLayout, truth>>
    PROVE  Script'
<1>1. PICK layout \in Layouts :
        /\ Path(link, Views, Rewriting, ViewOf(layout, inventory), ViewOf(winLayout, truth))
        /\ Ready(layout)
  BY DEF Script
<1>2. Path(link', Views, Rewriting, ViewOf(layout, inventory'), ViewOf(winLayout', truth'))
  BY <1>1 DEF InstallWindow, contents
<1>3. /\ thread[Game].window = NewWindow(layout) /\ FillsNext(thread[Game].id)
      /\ \A id \in DOMAIN screens : FillsNext(id) => ShapeIs(screens[id], layout)
  BY <1>1 DEF InstallWindow, IsAt, Ready, Opening
<1>4. ShapeIs(NewWindow(layout), layout)
  BY LayoutParts DEF ShapeIs
<1>5. ASSUME NEW id \in DOMAIN screens', FillsNext(id)' PROVE ShapeIs(screens'[id], layout)
  BY <1>3, <1>4, <1>5 DEF InstallWindow, FillsNext
<1>6. \A id \in DOMAIN screens' : ~(Addressed(id)')
  BY <1>3 DEF FillsNext, Addressed
<1>7. ~(Opening')
  <2>1. thread'[Game] = Announce(thread[Game].id)
    BY BecomeMoves, GameIsThread DEF InstallWindow, SessionTypeOK, ScreenTypeOK
  <2>2. QED
    BY <2>1 DEF Announce, Opening
<1>8. Ready(layout)'
  BY <1>5, <1>6, <1>7 DEF Ready
<1>9. QED
  BY <1>2, <1>8 DEF Script

(* The steps between the locked sections keep the invariant.               *)
LEMMA ScriptNotify ==
    ASSUME SessionTypeOK, ScriptInv, ClientNotify
    PROVE  ScriptInv'
<1>1. /\ UNCHANGED <<link, win, winLayout, truth, dropped>> /\ ThreadsOK
  BY DEF ClientNotify, serverVars, closing, SessionTypeOK, ScreenTypeOK
<1>2. CASE InstallWindow
  BY <1>1, <1>2, ScriptInstall DEF ScriptInv, InstallWindow, IsAt
<1>3. ASSUME UNCHANGED <<screens, inventory>>, GameStays PROVE ScriptInv'
  BY <1>1, <1>3, ScriptStays
<1>4. CASE NotifyEvicted
  <2>1. PICK p \in {Install(thread[Game].id, thread[Game].window), Stopped} : Become(Game, p)
    BY <1>4 DEF NotifyEvicted
  <2>2. thread'[Game] = p
    BY <1>1, <2>1, BecomeMoves, GameIsThread
  <2>3. Opening /\ ~IsAt(Game, "stopped")
    BY <1>4 DEF NotifyEvicted, IsAt, Opening
  <2>4. GameStays
    BY <2>1, <2>2, <2>3 DEF GameStays, Install, Stopped, IsAt
  <2>5. QED
    BY <1>3, <1>4, <2>4 DEF NotifyEvicted, contents
<1>5. CASE NotifyOpen
  <2>1. GameStays
    BY <1>1, <1>5, GameReturns DEF NotifyOpen, IsAt
  <2>2. QED
    BY <1>3, <1>5, <2>1 DEF NotifyOpen, contents
<1>6. ASSUME NEW t \in Threads, NotifyClose(t) PROVE ScriptInv'
  <2>1. CASE t = Game
    <3>1. GameStays
      BY <1>1, <1>6, <2>1, GameReturns DEF NotifyClose, IsAt
    <3>2. QED
      BY <1>3, <1>6, <3>1 DEF NotifyClose, contents
  <2>2. CASE t # Game
    <3>1. GameStays
      BY <1>1, <1>6, <2>2, OthersMove DEF NotifyClose
    <3>2. QED
      BY <1>3, <1>6, <3>1 DEF NotifyClose, contents
  <2>3. QED
    BY <2>1, <2>2
<1>7. QED
  BY <1>2, <1>4, <1>5, <1>6 DEF ClientNotify, Notifications

(* A click changes no window.                                              *)
LEMMA ClickStays ==
    ASSUME ThreadsOK, NEW t \in Clickers, Clicks(t)
    PROVE  GameStays /\ UNCHANGED <<screens, inventory>>
<1>1. t \in Threads
  BY ScreenAssumption
<1>2. ~IsAt(t, "stopped")
  BY DEF Clicks, ClickRead, ClickSend, ClickAdvance, IsAt
<1>3. \E p \in {Click(stateID), Sent, Idle} : Become(t, p)
  BY DEF Clicks, ClickRead, ClickSend, ClickAdvance
<1>4. \A p \in {Click(stateID), Sent, Idle} : p.at \notin {"evicted", "install"}
  BY DEF Click, Sent, Idle
<1>5. GameStays
  <2>1. PICK p \in {Click(stateID), Sent, Idle} : Become(t, p)
    BY <1>3
  <2>2. QED
    BY <1>1, <1>2, <1>4, <2>1, OthersMove
<1>6. UNCHANGED <<screens, inventory>>
  BY DEF Clicks, ClickRead, ClickSend, ClickAdvance, contents
<1>7. QED
  BY <1>5, <1>6

(* ForceCloseScreen takes a window out at most.                            *)
LEMMA ForceStays ==
    ASSUME ThreadsOK, NEW t \in Closers, NEW id, ClientForceClose(t, id)
    PROVE  /\ GameStays /\ inventory' = inventory
           /\ DOMAIN screens' \subseteq DOMAIN screens
           /\ \A i \in DOMAIN screens' : screens'[i] = screens[i]
<1>1. t \in Threads /\ t # Game
  BY SessionAssumption, ScreenAssumption, GameIsThread
<1>2. CASE ForceCloseScreen(t, id)
  <2>1. Become(t, Closing(id)) /\ Remove(id) /\ inventory' = inventory
    BY <1>2 DEF ForceCloseScreen, contents
  <2>2. QED
    BY <1>1, <2>1, OthersMove DEF Remove
<1>3. CASE UNCHANGED vars
  BY <1>3 DEF vars, contents, GameStays
<1>4. QED
  BY <1>2, <1>3 DEF ClientForceClose

(* The invariant holds at the start,                                       *)
LEMMA ScriptInit == SessionInit => ScriptInv
<1> SUFFICES ASSUME SessionInit PROVE Script
  BY DEF ScriptInv
<1>1. SessionTypeOK
  BY SessionTypeInit
<1>2. winLayout \in Layouts /\ ViewOf(winLayout, inventory) \in Views
  BY <1>1, ViewType DEF SessionTypeOK, ScreenTypeOK, ContentsOK, ServerOK
<1>3. Path(link, Views, Rewriting, ViewOf(winLayout, inventory), ViewOf(winLayout, truth))
  <2>1. link = <<>> /\ truth = inventory
    BY DEF SessionInit
  <2>2. QED
    BY <1>2, <2>1, PathEmpty
<1>4. DOMAIN screens = {} /\ ~Opening
  BY GameIsThread DEF SessionInit, Init, Opening, Idle
<1>5. Ready(winLayout)
  BY <1>4 DEF Ready
<1>6. QED
  BY <1>2, <1>3, <1>5 DEF Script

(* and every step keeps it.                                                *)
LEMMA ScriptStep ==
    SessionTypeOK /\ OrderInv /\ ScriptInv /\ [SessionNext]_sessionVars => ScriptInv'
<1> SUFFICES ASSUME SessionTypeOK, OrderInv, ScriptInv, [SessionNext]_sessionVars PROVE ScriptInv'
  OBVIOUS
<1>1. ThreadsOK
  BY DEF SessionTypeOK, ScreenTypeOK
<1>2. CASE Server
  <2>1. dropped' = dropped /\ thread' = thread
    BY <1>2, ServerMoves DEF closing, vars
  <2>2. QED
    BY <1>2, <2>1, ScriptServer DEF ScriptInv, IsAt
<1>3. CASE ClientReceive
  <2>1. dropped => dropped'
    BY <1>3 DEF ClientReceive
  <2>2. ~IsAt(Game, "stopped")
    <3>1. OnPacket(Head(link))
      BY <1>3 DEF ClientReceive
    <3>2. IsAt(Game, "idle")
      BY <3>1 DEF OnPacket, OnOpenScreen, OnSetWindowContent, OnSetSlotInventory,
                  OnSetSlotWindow, OnSetSlotClosed, OnCloseScreen
    <3>3. QED
      BY <3>2 DEF IsAt
  <2>3. QED
    BY <1>3, <2>1, <2>2, ScriptReceive DEF ScriptInv
<1>4. CASE ClientNotify
  BY <1>4, ScriptNotify
<1>5. ASSUME NEW t \in Clickers, ClientClick(t) PROVE ScriptInv'
  BY <1>1, <1>5, ClickStays, ScriptStays DEF ClientClick, serverVars, closing
<1>6. ASSUME UNCHANGED vars, UNCHANGED <<link, win, winLayout, truth, dropped>> PROVE ScriptInv'
  BY <1>6, ScriptStays DEF vars, contents, GameStays
<1>7. ASSUME NEW id \in WindowIds, ClientAsksClose(id) PROVE ScriptInv'
  BY <1>6, <1>7 DEF ClientAsksClose, serverVars
<1>8. ASSUME NEW id \in WindowIds, NEW t \in Closers, ClientForceClose(t, id)
      PROVE  ScriptInv'
  <2>1. UNCHANGED <<link, win, winLayout, truth, dropped>>
    BY <1>8 DEF ClientForceClose, serverVars
  <2>2. QED
    BY <1>1, <1>8, <2>1, ForceStays, ScriptStays
<1>9. CASE UNCHANGED sessionVars
  BY <1>6, <1>9 DEF sessionVars, serverVars, closing
<1>10. QED
  BY <1>2, <1>3, <1>4, <1>5, <1>7, <1>8, <1>9 DEF SessionNext, Client

(* With every packet handled and none dropped the player's rows are the    *)
(* server's (screen.go:1121-1128), whichever windows the changes went      *)
(* through, for any number of windows, rows and changes, with clicks and   *)
(* closes by the client at any moment.                                     *)
THEOREM FreshCorrect == SessionSpec => []InventoryFresh
<1>1. SessionTypeOK /\ ScriptInv => InventoryFresh
  <2> SUFFICES ASSUME SessionTypeOK, ScriptInv, Settled, ~dropped PROVE Fresh
    BY DEF InventoryFresh
  <2>1. link = <<>> /\ ~IsAt(Game, "stopped")
    BY GameIsThread DEF Settled, IsAt
  <2>2. PICK layout \in Layouts :
          Path(link, Views, Rewriting, ViewOf(layout, inventory), ViewOf(winLayout, truth))
    BY <2>1 DEF ScriptInv, Script
  <2>3. ViewOf(layout, inventory) \in Views
    BY ViewType DEF SessionTypeOK, ScreenTypeOK, ContentsOK
  <2>4. ViewOf(layout, inventory) = ViewOf(winLayout, truth)
    BY <2>1, <2>2, <2>3, PathEmpty
  <2>5. QED
    BY <2>4, ViewEqual DEF Fresh
<1>2. QED
  BY <1>1, SessionTypeInit, SessionTypeStep, OrderInit, OrderStep, ScriptInit, ScriptStep, PTL
     DEF SessionSpec

-----------------------------------------------------------------------------
(* The open windows *)

(* What packet p does to the open window: a was open, b is.                *)
Switches(p, a, b) ==
    \/ p.type = "open" /\ a = 0 /\ b = p.id
    \/ p.type = "close" /\ a = p.id /\ b = 0
    \/ Numbered(p) /\ b = a

Switching == { x \in Packets \X Ids \X Ids : Switches(x[1], x[2], x[3]) }

(* The client has window w open, or nothing if w is 0, or is about to      *)
(* install it.                                                             *)
Holds(w) ==
    /\ thread[Game].at # "evicted"
    /\ IF thread[Game].at = "install"
       THEN DOMAIN screens = {} /\ w = thread[Game].id
       ELSE DOMAIN screens = IF w = 0 THEN {} ELSE {w}

(* The link takes the client's window to the server's.                     *)
Reaches == \E w \in Ids : Path(link, Ids, Switching, w, win) /\ Holds(w)

(* The client sends nothing but clicks.                                    *)
ClicksOnly == asked = {} /\ \A k \in 1 .. Len(uplink) : uplink[k].type = "click"

(* Unless the client has closed a window.                                  *)
AgreeInv == clientCloses \/ (ClicksOnly /\ (IsAt(Game, "stopped") \/ Reaches))

(* A packet sent that does what the server did continues the path.         *)
LEMMA SwitchesAppend ==
    ASSUME LinksOK, NEW w, NEW a \in Ids, NEW b \in Ids, NEW p \in Packets,
           Path(link, Ids, Switching, w, a), Switches(p, a, b)
    PROVE  Append(link, p) \in Seq(Packets) /\ Path(Append(link, p), Ids, Switching, w, b)
<1>1. <<p, a, b>> \in Switching
  BY DEF Switching
<1>2. link \in Seq(Packets) /\ Append(link, p) \in Seq(Packets)
  BY AppendProperties DEF LinksOK
<1>3. QED
  BY <1>1, <1>2, PathAppend

(* The server adds nothing to what the client sent.                        *)
LEMMA UplinkServer ==
    ASSUME SessionTypeOK, ClicksOnly, Server
    PROVE  ClicksOnly'
<1>1. uplink \in Seq(Answers) /\ asked' = asked
  BY ServerMoves DEF SessionTypeOK, LinksOK, closing
<1>2. uplink' = uplink \/ (uplink # <<>> /\ uplink' = Tail(uplink))
  BY DEF Server, ServerOpen, ServerClose, ServerChange, ServerReceive
<1>3. CASE uplink # <<>> /\ uplink' = Tail(uplink)
  <2>1. /\ Len(uplink) \in Nat \ {0} /\ Len(uplink') = Len(uplink) - 1
        /\ \A k \in 1 .. Len(uplink') : uplink'[k] = uplink[k + 1]
    BY <1>1, <1>3, HeadTailProperties, LenProperties
  <2>2. QED
    BY <1>1, <2>1 DEF ClicksOnly
<1>4. QED
  BY <1>1, <1>2, <1>3 DEF ClicksOnly

(* The server sends what it does.                                          *)
LEMMA ReachesServer ==
    ASSUME SessionTypeOK, ClicksOnly, Reaches, Server
    PROVE  Reaches'
<1>1. PICK w \in Ids : Path(link, Ids, Switching, w, win) /\ Holds(w)
  BY DEF Reaches
<1>2. Holds(w)'
  BY <1>1, ServerMoves DEF Holds, vars
<1>3. Path(link', Ids, Switching, w, win') => Reaches'
  BY <1>2 DEF Reaches
<1>4. LinksOK /\ ServerOK /\ win \in Ids /\ 0 \in Ids
  BY DEF SessionTypeOK, ServerOK, Ids
<1>5. ASSUME NEW id \in WindowIds, NEW m \in Layouts, Opens(id, m) PROVE Reaches'
  <2> DEFINE p == OpenPacket(id, m)
             q == ContentPacket(id, serverState', WindowContent(m))
  <2>1. p \in Packets /\ q \in Packets /\ id \in Ids
    BY <1>4, ServerMoves, PacketsMade, ContentMade, IdsOfWindows
  <2>2. Switches(p, win, id) /\ Switches(q, id, id)
    BY <1>5 DEF Opens, Switches, OpenPacket, ContentPacket, Numbered
  <2>3. link' = Append(Append(link, p), q) /\ win' = id
    BY <1>5 DEF Opens
  <2> HIDE DEF p, q
  <2>4. Append(link, p) \in Seq(Packets) /\ Path(Append(link, p), Ids, Switching, w, id)
    BY <1>1, <1>4, <2>1, <2>2, SwitchesAppend
  <2>5. <<q, id, id>> \in Switching
    BY <2>1, <2>2 DEF Switching
  <2>6. Path(link', Ids, Switching, w, win')
    BY <2>1, <2>3, <2>4, <2>5, PathAppend
  <2>7. QED
    BY <1>3, <2>6
<1>6. ASSUME Closes PROVE Reaches'
  <2>1. ClosePacket(win) \in Packets
    BY <1>4, <1>6, PacketsMade DEF Closes, Ids
  <2>2. Switches(ClosePacket(win), win, 0)
    BY DEF Switches, ClosePacket
  <2>3. Path(link', Ids, Switching, w, win')
    BY <1>1, <1>4, <1>6, <2>1, <2>2, SwitchesAppend DEF Closes
  <2>4. QED
    BY <1>3, <2>3
<1>7. ASSUME NEW i \in AllRows, NEW v \in Items, Updates(i, v) PROVE Reaches'
  <2>1. PICK p \in Packets : link' = Append(link, p) /\ p.type = "slot" /\ win' = win
    BY <1>4, <1>7, ServerMoves, UpdateMade, RowUpdateParts DEF Updates
  <2>2. Switches(p, win, win)
    BY <2>1 DEF Switches, Numbered
  <2>3. Path(link', Ids, Switching, w, win')
    BY <1>1, <1>4, <2>1, <2>2, SwitchesAppend
  <2>4. QED
    BY <1>3, <2>3
<1>8. ASSUME Forgets PROVE Reaches'
  BY <1>1, <1>3, <1>8 DEF Forgets, ClicksOnly
<1>9. QED
  BY <1>5, <1>6, <1>7, <1>8, ServerMoves

(* The client opens and closes what it is told to; what has the ID of a    *)
(* window that is opened is closed by then.                                *)
LEMMA HoldsReceive ==
    ASSUME ScreenTypeOK, NEW p \in Packets, OnPacket(p), NEW a \in Ids, NEW b \in Ids,
           Switches(p, a, b), Holds(a)
    PROVE  IsAt(Game, "stopped")' \/ Holds(b)'
<1>1. IsAt(Game, "idle") /\ ThreadsOK
  BY DEF OnPacket, OnOpenScreen, OnSetWindowContent, OnSetSlotInventory, OnSetSlotWindow,
         OnSetSlotClosed, OnCloseScreen, ScreenTypeOK
<1>2. DOMAIN screens = IF a = 0 THEN {} ELSE {a}
  BY <1>1 DEF Holds, IsAt
<1>3. CASE p.type = "open"
  <2>1. p.id \in WindowIds /\ p.layout \in Layouts /\ OnOpenScreen(p.id, p.layout)
    BY <1>3, PacketParts DEF OnPacket
  <2>2. a = 0 /\ b = p.id /\ p.id \notin DOMAIN screens
    BY <1>2, <1>3 DEF Switches, Numbered
  <2>3. thread'[Game].at = "install" /\ thread'[Game].id = p.id
    BY <2>1, <2>2, OpenHandled
  <2>4. screens' = screens
    BY <2>1, <2>2 DEF OnOpenScreen
  <2>5. QED
    BY <1>2, <2>2, <2>3, <2>4 DEF Holds
<1>4. CASE p.type = "close"
  <2>1. a = p.id /\ b = 0 /\ p.id \in WindowIds /\ p.id # 0
    BY <1>4, PacketParts, ScreenAssumption DEF Switches, Numbered
  <2>2. OnCloseScreen(p.id)
    BY <1>2, <1>4, <2>1 DEF OnPacket
  <2>3. thread'[Game] = Closing(p.id)
    BY <1>1, <2>2, BecomeMoves, GameIsThread DEF OnCloseScreen
  <2>4. DOMAIN screens' = {}
    BY <1>2, <2>1, <2>2 DEF OnCloseScreen, Remove
  <2>5. QED
    BY <2>1, <2>3, <2>4 DEF Holds, Closing
<1>5. CASE Numbered(p)
  <2>1. b = a
    BY <1>5 DEF Switches, Numbered
  <2>2. DOMAIN screens' = DOMAIN screens
    <3>1. \A id, data : WritesWindow(id, data) => DOMAIN screens' = DOMAIN screens
      BY DEF WritesWindow
    <3>2. \A id, s, d, v : OnSetWindowContent(id, s, d, v) => WritesWindow(id, d)
      BY DEF OnSetWindowContent, WritesWindow
    <3>3. \A id, s, i, v : OnSetSlotWindow(id, s, i, v) => DOMAIN screens' = DOMAIN screens
      BY DEF OnSetSlotWindow
    <3>4. QED
      BY <1>5, <3>1, <3>2, <3>3
         DEF OnPacket, OnSetSlotInventory, OnSetSlotClosed, Numbered, vars
  <2>3. HandlerReturns \/ Become(Game, Stopped) \/ thread' = thread
    BY <1>5 DEF OnPacket, OnSetWindowContent, OnSetSlotInventory, OnSetSlotWindow,
                OnSetSlotClosed, Numbered, vars
  <2>4. thread'[Game] \in {Idle, Stopped} \/ thread'[Game] = thread[Game]
    BY <1>1, <2>3, BecomeMoves, GameIsThread DEF HandlerReturns
  <2>5. IsAt(Game, "stopped")' \/ IsAt(Game, "idle")'
    BY <1>1, <2>4, SimpleSteps DEF IsAt
  <2>6. QED
    BY <1>2, <2>1, <2>2, <2>5 DEF Holds, IsAt
<1>6. QED
  BY <1>3, <1>4, <1>5, PacketParts DEF Numbered

(* So it does what it receives.                                            *)
LEMMA ReachesReceive ==
    ASSUME SessionTypeOK, Reaches, ClientReceive
    PROVE  IsAt(Game, "stopped")' \/ Reaches'
<1>1. PICK p \in Packets : p = Head(link) /\ p = link[1]
  BY FirstPacket DEF ClientReceive
<1>2. /\ link # <<>> /\ link' = Tail(link) /\ OnPacket(p) /\ win' = win
      /\ link \in Seq(Packets)
  BY <1>1 DEF ClientReceive, serverVars, SessionTypeOK, LinksOK
<1>3. PICK a \in Ids : Path(link, Ids, Switching, a, win) /\ Holds(a)
  BY DEF Reaches
<1>4. PICK b \in Ids : <<p, a, b>> \in Switching /\ Path(link', Ids, Switching, b, win)
  BY <1>1, <1>2, <1>3, PathTail
<1>5. Switches(p, a, b)
  BY <1>4 DEF Switching
<1>6. IsAt(Game, "stopped")' \/ Holds(b)'
  BY <1>2, <1>3, <1>5, HoldsReceive DEF SessionTypeOK
<1>7. QED
  BY <1>2, <1>4, <1>6 DEF Reaches

(* Other steps that open and close nothing keep this.                      *)
LEMMA ReachesStays ==
    ASSUME ThreadsOK, Reaches, NEW t \in Threads, NEW p \in Steps, Become(t, p),
           t = Game => p.at \notin {"evicted", "install"} /\ ~IsAt(Game, "install"),
           DOMAIN screens' = DOMAIN screens, UNCHANGED <<link, win>>
    PROVE  Reaches'
<1>1. PICK w \in Ids : Path(link, Ids, Switching, w, win) /\ Holds(w)
  BY DEF Reaches
<1>2. thread'[Game] = IF t = Game THEN p ELSE thread[Game]
  BY GameMoves
<1>3. Holds(w)'
  BY <1>1, <1>2 DEF Holds, IsAt
<1>4. QED
  BY <1>1, <1>3 DEF Reaches

(* Among them a handler that returns,                                      *)
LEMMA ReachesReturns ==
    ASSUME ThreadsOK, Reaches, HandlerReturns, ~IsAt(Game, "install"),
           DOMAIN screens' = DOMAIN screens, UNCHANGED <<link, win>>
    PROVE  Reaches'
<1>1. PICK p \in {Idle, Stopped} : Become(Game, p)
  BY DEF HandlerReturns
<1>2. QED
  BY <1>1, ReachesStays, GameIsThread, SimpleSteps

(* the steps between the locked sections,                                  *)
LEMMA ReachesNotify ==
    ASSUME SessionTypeOK, Reaches, ClientNotify
    PROVE  Reaches'
<1>1. UNCHANGED <<link, win>> /\ ThreadsOK
  BY DEF ClientNotify, serverVars, SessionTypeOK, ScreenTypeOK
<1>2. PICK w \in Ids : Path(link, Ids, Switching, w, win) /\ Holds(w)
  BY DEF Reaches
<1>3. ~NotifyEvicted
  BY <1>2 DEF Holds, NotifyEvicted, IsAt
<1>4. CASE InstallWindow
  <2>1. thread'[Game] = Announce(thread[Game].id)
    BY <1>1, <1>4, BecomeMoves, GameIsThread DEF InstallWindow
  <2>2. thread[Game].id \in WindowIds
    BY <1>1, <1>4, ThreadParts, StepParts, GameIsThread DEF InstallWindow, IsAt
  <2>3. DOMAIN screens' = {w} /\ w # 0
    BY <1>2, <1>4, <2>2, ScreenAssumption DEF Holds, InstallWindow, IsAt
  <2>4. Holds(w)'
    BY <2>1, <2>3 DEF Holds, Announce
  <2>5. QED
    BY <1>1, <1>2, <2>4 DEF Reaches
<1>5. CASE NotifyOpen
  BY <1>1, <1>5, ReachesReturns DEF NotifyOpen, IsAt
<1>6. ASSUME NEW t \in Threads, NotifyClose(t) PROVE Reaches'
  <2>1. CASE t = Game
    BY <1>1, <1>6, <2>1, ReachesReturns DEF NotifyClose, IsAt
  <2>2. CASE t # Game
    BY <1>1, <1>6, <2>2, ReachesStays, SimpleSteps DEF NotifyClose
  <2>3. QED
    BY <2>1, <2>2
<1>7. QED
  BY <1>3, <1>4, <1>5, <1>6 DEF ClientNotify, Notifications

(* and clicks.                                                             *)
LEMMA ReachesClick ==
    ASSUME SessionTypeOK, NEW t \in Clickers, Clicks(t), UNCHANGED <<link, win>>, Reaches
    PROVE  Reaches'
<1>1. t \in Threads /\ ThreadsOK /\ stateID \in Nat
  BY ScreenAssumption DEF SessionTypeOK, ScreenTypeOK, ContentsOK
<1>2. \E p \in {Click(stateID), Sent, Idle} : Become(t, p)
  BY DEF Clicks, ClickRead, ClickSend, ClickAdvance
<1>3. ~IsAt(t, "install") /\ screens' = screens
  BY DEF Clicks, ClickRead, ClickSend, ClickAdvance, IsAt
<1>4. \A p \in {Click(stateID), Sent, Idle} : p \in Steps /\ p.at \notin {"evicted", "install"}
  BY <1>1, SimpleSteps
<1>5. PICK p \in {Click(stateID), Sent, Idle} : Become(t, p)
  BY <1>2
<1>6. QED
  BY <1>1, <1>3, <1>4, <1>5, ReachesStays

(* HandleGame that stopped does not come back.                             *)
LEMMA StoppedStays ==
    ASSUME ThreadsOK, IsAt(Game, "stopped"),
           ClientNotify \/ \E t \in Clickers : Clicks(t)
    PROVE  IsAt(Game, "stopped")'
<1>1. ASSUME NEW t \in Threads, t # Game, NEW p, Become(t, p) PROVE IsAt(Game, "stopped")'
  BY <1>1, BecomeMoves, GameIsThread DEF IsAt
<1>2. ASSUME NEW t \in Clickers, Clicks(t) PROVE IsAt(Game, "stopped")'
  <2>1. t # Game /\ t \in Threads
    BY <1>2, ScreenAssumption DEF Clicks, ClickRead, ClickSend, ClickAdvance, IsAt
  <2>2. \E p : Become(t, p)
    BY <1>2 DEF Clicks, ClickRead, ClickSend, ClickAdvance
  <2>3. QED
    BY <1>1, <2>1, <2>2
<1>3. ASSUME NEW t \in Threads, NotifyClose(t) PROVE IsAt(Game, "stopped")'
  BY <1>1, <1>3 DEF NotifyClose, IsAt
<1>4. QED
  BY <1>2, <1>3 DEF ClientNotify, Notifications, NotifyEvicted, InstallWindow, NotifyOpen, IsAt

(* A click is a click.                                                     *)
LEMMA ClicksOnlyClick ==
    ASSUME SessionTypeOK, ClicksOnly, NEW t \in Clickers, ClientClick(t)
    PROVE  ClicksOnly'
<1>1. CASE uplink' = uplink
  BY <1>1 DEF ClicksOnly, ClientClick, closing
<1>2. CASE declared' # declared
  <2>2. PICK s : uplink' = Append(uplink, ClickPacket(s))
    BY <1>2 DEF ClientClick
  <2>3. PICK u \in Seq(Answers) : u = uplink
    BY DEF SessionTypeOK, LinksOK
  <2>4. PICK c : c = ClickPacket(s) /\ c.type = "click"
    <3>1. ClickPacket(s).type = "click"
      BY DEF ClickPacket
    <3>2. QED
      BY <3>1
  <2>5. /\ Len(Append(u, c)) = Len(u) + 1 /\ Len(u) \in Nat /\ Append(u, c)[Len(u) + 1] = c
        /\ \A k \in 1 .. Len(u) : Append(u, c)[k] = u[k]
    <3>1. u \in Seq(Answers \union {c})
      BY <2>3
    <3>2. QED
      BY <3>1, AppendProperties, LenProperties
  <2>6. \A k \in 1 .. Len(uplink') : uplink'[k].type = "click"
    BY <2>2, <2>3, <2>4, <2>5 DEF ClicksOnly
  <2>7. QED
    BY <2>6 DEF ClicksOnly, ClientClick, closing
<1>3. QED
  BY <1>1, <1>2 DEF ClientClick

(* The invariant holds at the start,                                       *)
LEMMA AgreeInit == SessionInit => AgreeInv
<1> SUFFICES ASSUME SessionInit PROVE ClicksOnly /\ Reaches
  BY DEF AgreeInv
<1>1. ClicksOnly
  BY EmptySeq DEF SessionInit, ClicksOnly
<1>2. Path(link, Ids, Switching, 0, win) /\ 0 \in Ids
  BY PathEmpty DEF SessionInit, Ids
<1>3. Holds(0)
  BY GameIsThread DEF SessionInit, Init, Holds, Idle
<1>4. QED
  BY <1>1, <1>2, <1>3 DEF Reaches

(* and every step keeps it.                                                *)
LEMMA AgreeStep == SessionTypeOK /\ AgreeInv /\ [SessionNext]_sessionVars => AgreeInv'
<1> SUFFICES ASSUME SessionTypeOK, AgreeInv, [SessionNext]_sessionVars, ~(clientCloses')
             PROVE  AgreeInv'
  BY DEF AgreeInv
<1>1. ~clientCloses
  BY DEF SessionNext, Server, Client, ServerOpen, ServerClose, ServerChange, ServerReceive,
         ClientReceive, ClientNotify, ClientClick, ClientAsksClose, ClientForceClose,
         sessionVars, closing
<1>2. ClicksOnly /\ (IsAt(Game, "stopped") \/ Reaches) /\ ThreadsOK
  BY <1>1 DEF AgreeInv, SessionTypeOK, ScreenTypeOK
<1>3. CASE Server
  BY <1>2, <1>3, ServerMoves, UplinkServer, ReachesServer DEF AgreeInv, IsAt, vars
<1>4. CASE ClientReceive
  <2>1. ClicksOnly'
    BY <1>2, <1>4 DEF ClientReceive, ClicksOnly
  <2>2. ~IsAt(Game, "stopped")
    BY <1>4 DEF ClientReceive, OnPacket, OnOpenScreen, OnSetWindowContent, OnSetSlotInventory,
                OnSetSlotWindow, OnSetSlotClosed, OnCloseScreen, IsAt
  <2>3. QED
    BY <1>2, <1>4, <2>1, <2>2, ReachesReceive DEF AgreeInv
<1>5. CASE ClientNotify
  <2>1. ClicksOnly'
    BY <1>2, <1>5 DEF ClientNotify, ClicksOnly, closing
  <2>2. QED
    BY <1>2, <1>5, <2>1, StoppedStays, ReachesNotify DEF AgreeInv
<1>6. ASSUME NEW t \in Clickers, ClientClick(t) PROVE AgreeInv'
  <2>1. Clicks(t) /\ UNCHANGED <<link, win>>
    BY <1>6 DEF ClientClick, serverVars
  <2>2. QED
    BY <1>2, <1>6, <2>1, ClicksOnlyClick, StoppedStays, ReachesClick DEF AgreeInv
<1>7. \A id \in WindowIds : ~ClientAsksClose(id)
  BY DEF ClientAsksClose
<1>8. \A id \in WindowIds, t \in Closers : ~ClientForceClose(t, id)
  BY <1>2 DEF ClientForceClose, ClicksOnly
<1>9. CASE UNCHANGED sessionVars
  BY <1>2, <1>9 DEF sessionVars, serverVars, closing, vars, AgreeInv, ClicksOnly, IsAt,
                    Reaches, Holds
<1>10. QED
  BY <1>3, <1>4, <1>5, <1>6, <1>7, <1>8, <1>9 DEF SessionNext, Client

(* While only the server closes windows, once every packet has been        *)
(* handled the client has open the window the server has, and no other     *)
(* (screen.go:452-804), for any number of windows opened and closed.       *)
THEOREM AgreeCorrect == SessionSpec => []WindowsAgree
<1>1. SessionTypeOK /\ AgreeInv => WindowsAgree
  <2> SUFFICES ASSUME SessionTypeOK, AgreeInv, Settled, ~clientCloses
               PROVE  DOMAIN screens = IF win = 0 THEN {} ELSE {win}
    BY DEF WindowsAgree
  <2>1. link = <<>> /\ IsAt(Game, "idle")
    BY GameIsThread DEF Settled
  <2>2. PICK w \in Ids : Path(link, Ids, Switching, w, win) /\ Holds(w)
    BY <2>1 DEF AgreeInv, Reaches, IsAt
  <2>3. w = win
    BY <2>1, <2>2, PathEmpty
  <2>4. QED
    BY <2>1, <2>2, <2>3 DEF Holds, IsAt
<1>2. QED
  BY <1>1, SessionTypeInit, SessionTypeStep, AgreeInit, AgreeStep, PTL DEF SessionSpec

=============================================================================
