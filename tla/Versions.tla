------------------------------ MODULE Versions ------------------------------
(***************************************************************************)
(* What bot/screen makes of the server's version: the numbers of container *)
(* types (registry_loader.go, generic_container.go) and of the components  *)
(* of an item (hashops.go, Slot in screen.go, slot_codec.go).  Several     *)
(* bots run in one process, each with a client and a manager of its own;   *)
(* they share containerTypeRegistry and the choice of a component table.   *)
(*                                                                         *)
(* A bot's packetMgr is of an era, before or since 1.21.5; it joins only   *)
(* servers of that era, which may differ in their menus.  A slot has one   *)
(* component, a window is known by its slots.                              *)
(***************************************************************************)
EXTENDS Integers, FiniteSets, Functions

CONSTANTS
    Bots,
    Servers,          (* [era, ids, slots, sends]: the number of each of    *)
                      (* its menus, the slots it has, [own, total], and     *)
                      (* whether the server sends the numbers               *)
    Metadata,         (* containerMetadata: name -> ContainerTypeInfo       *)
    Snapshot,         (* containerTypeRegistry at the start: ID ->          *)
                      (* ContainerTypeInfo, counts of its own               *)
    ChestTypes,       (* 6: IDs below are chests of ID + 1 rows             *)
    RowLength,        (* 9                                                  *)
    PreIds, PostIds,  (* SlotComponentTypeMappings of 1.21.1 and 1.21.5     *)
    MaxJoins,         (* bound: joins of all the bots                       *)
    MaxLoads,         (* bound: calls that change containerTypeRegistry     *)
    None

Eras == {"pre", "post"}
Names == DOMAIN Metadata

(* Its own slots, whether the player's are in the window too, and how many *)
(* those are.                                                              *)
ContainerTypeInfos == [own : Nat, includesPlayer : BOOLEAN, player : Nat]

(* No two names of a server have one number: a registry's numbers are the  *)
(* positions of its entries (configuration.go:215-220).  A component table *)
(* has a name once.                                                        *)
ASSUME VersionsAssumption ==
    /\ \A s \in Servers : s.era \in Eras /\ s.sends \in BOOLEAN
    /\ None \notin Servers
    /\ \A s \in Servers : s.ids # None /\ IsInjective(s.ids) /\ DOMAIN s.slots = DOMAIN s.ids
    /\ Metadata \in [Names -> ContainerTypeInfos]
    /\ DOMAIN Snapshot \subseteq Nat /\ \A i \in DOMAIN Snapshot : Snapshot[i] \in ContainerTypeInfos
    /\ IsInjective(PreIds) /\ IsInjective(PostIds)
    /\ MaxJoins \in Nat /\ MaxLoads \in Nat

VARIABLES
    era,           (* of each bot's packetMgr                               *)
    codec,         (* whether the bot's version handler is a SlotCodec      *)
    manager,       (* manager.registrySyncOnce and liveContainerTypes, the  *)
                   (* server they are of and the slot received last, or     *)
                   (* None before NewManager                                *)
    server,        (* the server the bot has joined last, or None           *)
    menu,          (* client.registryData["minecraft:menu"], or None        *)
    fallback,      (* containerTypeRegistry: ID -> ContainerTypeInfo        *)
    loading,       (* names LoadContainerTypesFromRegistry has yet to do    *)
    table,         (* currentSlotComponentUsesHashedTable                   *)
    window,        (* history: the window, if the bot's last act opened one *)
    click,         (* history: the component, if its last act was a click   *)
    joins,
    loads

perBot == <<manager, server, menu, window, click>>
versionVars == <<era, codec, perBot, fallback, loading, table, joins, loads>>

-----------------------------------------------------------------------------

Empty == [i \in {} |-> None]

(* What came of the bot's last act.                                        *)
Outcome(b, w, c) ==
    /\ window' = [window EXCEPT ![b] = w]
    /\ click' = [click EXCEPT ![b] = c]

VersionsInit ==
    /\ era \in [Bots -> Eras] /\ codec \in [Bots -> BOOLEAN]
    /\ manager = [b \in Bots |-> None]
    /\ server = [b \in Bots |-> None] /\ menu = [b \in Bots |-> None]
    /\ window = [b \in Bots |-> None] /\ click = [b \in Bots |-> None]
    /\ fallback = Snapshot /\ loading = Empty
    /\ table = "unset"
    /\ joins = 0 /\ loads = 0

(* SetCurrentSlotComponentEncoding is called before the version handler is *)
(* looked at: a codec does not keep the table from being chosen.           *)
NewManager(b) ==
    /\ manager[b] = None
    /\ manager' = [manager EXCEPT ![b] =
                      [synced |-> FALSE, live |-> Empty, builtFor |-> None, held |-> None]]
    /\ table' = era[b]
    /\ UNCHANGED <<era, codec, server, menu, window, click, fallback, loading, joins, loads>>

(* The configuration stores the registries the server sends over the ones  *)
(* of the server before.                                                   *)
Join(b, s) ==
    /\ joins < MaxJoins
    /\ s.era = era[b]
    /\ joins' = joins + 1
    /\ server' = [server EXCEPT ![b] = s]
    /\ menu' = IF s.sends THEN [menu EXCEPT ![b] = s.ids] ELSE menu
    /\ manager' = IF manager[b] = None THEN manager ELSE [manager EXCEPT ![b].held = None]
    /\ Outcome(b, None, None)
    /\ UNCHANGED <<era, codec, fallback, loading, table, loads>>

-----------------------------------------------------------------------------
(* Container types *)

(* buildContainerTypesFromRegistryEntries: names of no known shape are     *)
(* left out.                                                               *)
BuildContainerTypes(entries) ==
    [ i \in { entries[n] : n \in DOMAIN entries \intersect Names } |->
        Metadata[CHOOSE n \in DOMAIN entries \intersect Names : entries[n] = i] ]

(* populateContainerTypesFromLiveRegistry, through registrySyncOnce.       *)
Populated(b) ==
    IF manager[b].synced THEN manager[b]
    ELSE LET built == IF menu[b] = None THEN Empty ELSE BuildContainerTypes(menu[b])
         IN  [manager[b] EXCEPT !.synced = TRUE, !.live = built,
                                !.builtFor = IF server[b].sends THEN server[b] ELSE None]

(* Mutant: the process-wide table is asked first.                          *)
ContainerTypeInfoFallbackFirst(m, id) ==
    IF id \in DOMAIN fallback THEN fallback[id]
    ELSE IF id \in DOMAIN m.live THEN m.live[id] ELSE None

(* getContainerTypeInfo *)
ContainerTypeInfo(m, id) ==
    IF id \in DOMAIN m.live THEN m.live[id]
    ELSE IF id \in DOMAIN fallback THEN fallback[id] ELSE None

TotalSlots(info) == info.own + (IF info.includesPlayer THEN info.player ELSE 0)

(* The slots of a window: a Chest has its own slots by its ID, whatever    *)
(* the type found is.                                                      *)
NewContainer(id, info) ==
    [own |-> IF id < ChestTypes THEN (id + 1) * RowLength ELSE info.own,
     total |-> TotalSlots(info)]

(* The server opens a menu by the number it has for it.  One whose shape   *)
(* is not found is an error, which ends HandleGame.                        *)
OnOpenScreen(b, name) ==
    /\ manager[b] # None /\ server[b] # None
    /\ name \in DOMAIN server[b].ids
    /\ LET m == Populated(b)
           id == server[b].ids[name]
           info == ContainerTypeInfo(m, id)
       IN  /\ manager' = [manager EXCEPT ![b] = m]
           /\ Outcome(b, IF info = None THEN None
                         ELSE [name |-> name, slots |-> NewContainer(id, info)], None)
           /\ server' = IF info = None THEN [server EXCEPT ![b] = None] ELSE server
    /\ UNCHANGED <<era, codec, menu, fallback, loading, table, joins, loads>>

(* RegisterContainerType, by a program that knows another type's number.   *)
RegisterContainerType(id, info) ==
    /\ loads < MaxLoads
    /\ loads' = loads + 1
    /\ fallback' = [i \in DOMAIN fallback \union {id} |-> IF i = id THEN info ELSE fallback[i]]
    /\ UNCHANGED <<era, codec, perBot, loading, table, joins>>

(* LoadContainerTypesFromRegistry reads the numbers of some version, and   *)
(* registers them one by one, in the order of a Go map.                    *)
LoadContainerTypes(ids) ==
    /\ loading = Empty
    /\ loads < MaxLoads
    /\ loads' = loads + 1
    /\ loading' = ids
    /\ UNCHANGED <<era, codec, perBot, fallback, table, joins>>

LoadNext(name) ==
    /\ name \in DOMAIN loading
    /\ loading' = [n \in DOMAIN loading \ {name} |-> loading[n]]
    /\ fallback' = IF name \notin Names THEN fallback
                   ELSE [i \in DOMAIN fallback \union {loading[name]} |->
                            IF i = loading[name] THEN Metadata[name] ELSE fallback[i]]
    /\ UNCHANGED <<era, codec, perBot, table, joins, loads>>

-----------------------------------------------------------------------------
(* Components of a slot *)

Table == IF table = "pre" THEN PreIds ELSE PostIds

(* componentTypeID, componentTypeName *)
ComponentTypeID(name) ==
    IF \E i \in DOMAIN Table : Table[i] = name
    THEN CHOOSE i \in DOMAIN Table : Table[i] = name ELSE None

ComponentTypeName(id) == IF id \in DOMAIN Table THEN Table[id] ELSE None

ServerIds(b) == IF era[b] = "pre" THEN PreIds ELSE PostIds

(* Slot.ReadFrom reads a component with the types of 1.21.5, whose number  *)
(* also says how the data is read, and keeps the number its name has in    *)
(* the table.  A codec reads what the server has sent.  under is history.  *)
ReadSlot(b, sent) ==
    IF codec[b]
    THEN [sent |-> sent, type |-> sent, data |-> ServerIds(b)[sent], under |-> table]
    ELSE IF sent \notin DOMAIN PostIds \/ ComponentTypeID(PostIds[sent]) = None THEN None
    ELSE [sent |-> sent, type |-> ComponentTypeID(PostIds[sent]),
          data |-> PostIds[sent], under |-> table]

(* The slot is kept; one that cannot be read ends the session.             *)
OnSetSlot(b, sent) ==
    /\ manager[b] # None /\ server[b] # None
    /\ sent \in DOMAIN ServerIds(b)
    /\ manager' = [manager EXCEPT ![b].held = ReadSlot(b, sent)]
    /\ server' = IF ReadSlot(b, sent) = None THEN [server EXCEPT ![b] = None] ELSE server
    /\ Outcome(b, None, None)
    /\ UNCHANGED <<era, codec, menu, fallback, loading, table, joins, loads>>

(* Mutant: the number is written as it is kept.                            *)
HashedSlotByNumber(slot) == [id |-> slot.type, hash |-> slot.data]

(* hashedSlotFromSlot: the component by its name, as 1.21.5 numbers it,    *)
(* and the hash of its data.                                               *)
HashedSlot(slot) ==
    LET name == ComponentTypeName(slot.type)
    IN  IF \E i \in DOMAIN PostIds : PostIds[i] = name
        THEN [id |-> CHOOSE i \in DOMAIN PostIds : PostIds[i] = name, hash |-> slot.data]
        ELSE None

(* ContainerClick with the slot: usesHashedItemSlots goes by the manager's *)
(* own packetMgr; the plain format refuses components.                     *)
ContainerClick(b) ==
    /\ manager[b] # None /\ server[b] # None
    /\ manager[b].held # None
    /\ LET held == manager[b].held
           sent == IF codec[b] THEN [id |-> held.sent, hash |-> held.data]
                   ELSE IF era[b] = "post" THEN HashedSlot(held) ELSE None
       IN  Outcome(b, None, IF sent = None THEN None
                            ELSE [id |-> sent.id, hash |-> sent.hash,
                                  sameTable |-> codec[b] \/ table = held.under])
    /\ UNCHANGED <<era, codec, manager, server, menu, fallback, loading, table, joins, loads>>

-----------------------------------------------------------------------------

(* What a program may register: a number of some server, and counts that   *)
(* one of the code's tables has.                                           *)
Registered == Range(Metadata) \union Range(Snapshot)

VersionsNext ==
    \/ \E b \in Bots :
          \/ NewManager(b)
          \/ \E s \in Servers : Join(b, s)
          \/ \E n \in UNION { DOMAIN s.ids : s \in Servers } : OnOpenScreen(b, n)
          \/ \E i \in DOMAIN PreIds \union DOMAIN PostIds : OnSetSlot(b, i)
          \/ ContainerClick(b)
    \/ \E s \in Servers :
          \/ \E n \in DOMAIN s.ids, info \in Registered : RegisterContainerType(s.ids[n], info)
          \/ LoadContainerTypes(s.ids)
    \/ \E n \in DOMAIN loading : LoadNext(n)

VersionsSpec == VersionsInit /\ [][VersionsNext]_versionVars

-----------------------------------------------------------------------------
(* Properties *)

(* containerMetadata has the slots the server gives the menu.  A beacon's  *)
(* window has 1 slot by registry_loader.go:41, 37 by the process-wide      *)
(* table (generic_container.go:132) and 28 by CONTAINER_TYPES.md:71: it is *)
(* known to no more than one of the servers that would give it these.      *)
KnowsMenu(s, name) ==
    /\ name \in Names
    /\ s.slots[name] = [own |-> Metadata[name].own, total |-> TotalSlots(Metadata[name])]

(* The server's first numbers are those of chests, of a row more each.     *)
KeepsChests(s) ==
    \A n \in DOMAIN s.ids : s.ids[n] < ChestTypes => s.slots[n].own = (s.ids[n] + 1) * RowLength

(* A window has the slots the server gives the menu it opened, if          *)
(* containerMetadata knows them, the types were built from this server's   *)
(* registry and it numbers the chests as the code expects: whatever        *)
(* programs and other bots have put into the process-wide table, whose     *)
(* counts are other ones, and at whatever moment.                          *)
WindowsHaveTheirSlots ==
    \A b \in Bots :
        (/\ window[b] # None /\ server[b] # None /\ manager[b].builtFor = server[b]
         /\ KnowsMenu(server[b], window[b].name) /\ KeepsChests(server[b]))
            => window[b].slots = server[b].slots[window[b].name]

(* CONTAINER_TYPES.md:54-56 "each manager's live registry data (the common *)
(* case) is already per-connection and correct": a window opened by a      *)
(* server that sends its menus has the slots of that menu, on every        *)
(* connection of a manager with live types, if containerMetadata knows     *)
(* them.                                                                   *)
LiveTypesArePerConnection ==
    \A b \in Bots :
        (/\ window[b] # None /\ server[b] # None /\ server[b].sends
         /\ manager[b].builtFor # None
         /\ KnowsMenu(server[b], window[b].name) /\ KeepsChests(server[b]))
            => window[b].slots = server[b].slots[window[b].name]

(* A click names the component the server sent, with the hash of its data, *)
(* unless a manager of the other era was made between the slot and the     *)
(* click: for a slot read under the other era's table too.  A codec's      *)
(* click always does.                                                      *)
ClickNamesTheComponent ==
    \A b \in Bots :
        (click[b] # None /\ click[b].sameTable)
            => /\ click[b].id = manager[b].held.sent
               /\ click[b].hash = ServerIds(b)[click[b].id]

=============================================================================
