---------------------------- MODULE FormatProofs ----------------------------
(***************************************************************************)
(* What the bot makes of the server's numbers, proved.  Of Versions: any   *)
(* bots that share a process, any servers, tables and joins.  Of           *)
(* BlockLookup: any edge of a section, any longs, and any data that holds  *)
(* the sections a server sends, or the beginning of such data.             *)
(***************************************************************************)
EXTENDS Versions, BlockLookup, FilterProofs

(* A manager with its parts.                                               *)
IsManager(m) ==
    m = [synced |-> m.synced, live |-> m.live, builtFor |-> m.builtFor, held |-> m.held]

(* The live types are those of the server they were built for; and the     *)
(* menus of a server that sent them are the client's registry.             *)
LiveInv(b) ==
    /\ manager[b] # None => IsManager(manager[b])
    /\ (manager[b] # None /\ manager[b].builtFor # None) =>
          /\ manager[b].builtFor \in Servers
          /\ manager[b].live = BuildContainerTypes(manager[b].builtFor.ids)
    /\ server[b] # None => server[b] \in Servers
    /\ (server[b] # None /\ server[b].sends) => menu[b] = server[b].ids

(* The slot held is the one the server sent, as the table it was read      *)
(* under numbers it.                                                       *)
TableOf(t) == IF t = "pre" THEN PreIds ELSE PostIds

HeldInv(b) ==
    (manager[b] # None /\ manager[b].held # None) =>
        LET held == manager[b].held
        IN  IF codec[b]
            THEN held.data = ServerIds(b)[held.sent]
            ELSE /\ held.sent \in DOMAIN PostIds /\ held.data = PostIds[held.sent]
                 /\ held.type \in DOMAIN TableOf(held.under)
                 /\ TableOf(held.under)[held.type] = PostIds[held.sent]

(* A window and a click are right; who clicks has a manager.               *)
WindowInv(b) ==
    (/\ window[b] # None /\ server[b] # None /\ manager[b].builtFor = server[b]
     /\ KnowsMenu(server[b], window[b].name) /\ KeepsChests(server[b]))
        => window[b].slots = server[b].slots[window[b].name]

ClickInv(b) ==
    (click[b] # None) =>
        /\ manager[b] # None
        /\ click[b].sameTable => /\ click[b].id = manager[b].held.sent
                                 /\ click[b].hash = ServerIds(b)[click[b].id]

(* Functions of the bots.                                                  *)
PerBot(f) == f = [b \in Bots |-> f[b]]
BotsOK ==
    /\ PerBot(manager) /\ PerBot(server) /\ PerBot(menu) /\ PerBot(window) /\ PerBot(click)
    /\ era \in [Bots -> Eras] /\ codec \in [Bots -> BOOLEAN]

VersionsInv ==
    BotsOK /\ \A b \in Bots : LiveInv(b) /\ HeldInv(b) /\ WindowInv(b) /\ ClickInv(b)

BotInv(b) == LiveInv(b) /\ HeldInv(b) /\ WindowInv(b) /\ ClickInv(b)

-----------------------------------------------------------------------------

(* What a bot's invariant is about.                                        *)
SameBot(c) ==
    /\ manager'[c] = manager[c] /\ server'[c] = server[c] /\ menu'[c] = menu[c]
    /\ window'[c] = window[c] /\ click'[c] = click[c]
    /\ era'[c] = era[c] /\ codec'[c] = codec[c]

(* A bot that nothing happens to keeps its invariant.                      *)
LEMMA SameBotInv ==
    ASSUME NEW c \in Bots, BotInv(c), SameBot(c)
    PROVE  BotInv(c)'
<1>1. LiveInv(c)'
  BY DEF BotInv, SameBot, LiveInv, IsManager
<1>2. HeldInv(c)'
  BY DEF BotInv, SameBot, HeldInv, ServerIds
<1>3. WindowInv(c)'
  BY DEF BotInv, SameBot, WindowInv
<1>4. ClickInv(c)'
  BY DEF BotInv, SameBot, ClickInv, ServerIds
<1>5. QED
  BY <1>1, <1>2, <1>3, <1>4 DEF BotInv

(* A function with another value at b.                                     *)
With(f, b, v) == [f EXCEPT ![b] = v]

LEMMA WithParts ==
    ASSUME NEW f, PerBot(f), NEW b \in Bots, NEW v
    PROVE  LET g == With(f, b, v)
           IN  PerBot(g) /\ g[b] = v /\ \A c \in Bots \ {b} : g[c] = f[c]
<1>1. DOMAIN f = Bots
  BY DEF PerBot
<1>2. With(f, b, v) = [c \in Bots |-> IF c = b THEN v ELSE f[c]]
  BY <1>1 DEF With
<1>3. QED
  BY <1>2 DEF PerBot

(* A window opened of the types of its server has the slots of its menu,   *)
(* if containerMetadata knows them.                                        *)
LEMMA BuiltShape ==
    ASSUME NEW s \in Servers, NEW name, name \in DOMAIN s.ids,
           KnowsMenu(s, name), KeepsChests(s),
           NEW m, m.live = BuildContainerTypes(s.ids)
    PROVE  NewContainer(s.ids[name], ContainerTypeInfo(m, s.ids[name])) = s.slots[name]
<1> DEFINE id == s.ids[name]
           numbered == { s.ids[n] : n \in DOMAIN s.ids \intersect Names }
           named(i) == CHOOSE n \in DOMAIN s.ids \intersect Names : s.ids[n] = i
<1>1. m.live = [i \in numbered |-> Metadata[named(i)]]
  BY DEF BuildContainerTypes
<1>2. id \in numbered
  BY DEF KnowsMenu
<1>3. named(id) \in DOMAIN s.ids \intersect Names /\ s.ids[named(id)] = id
  BY DEF KnowsMenu
<1>4. named(id) = name
  BY <1>3, VersionsAssumption DEF IsInjective
<1> HIDE DEF named
<1>5. ContainerTypeInfo(m, id) = Metadata[name]
  BY <1>1, <1>2, <1>4 DEF ContainerTypeInfo
<1>6. s.slots[name] = [own |-> Metadata[name].own, total |-> TotalSlots(Metadata[name])]
  BY DEF KnowsMenu
<1>7. id < ChestTypes => s.slots[name].own = (id + 1) * RowLength
  BY DEF KeepsChests
<1> HIDE DEF id
<1>8. NewContainer(id, Metadata[name]) =
         [own |-> s.slots[name].own, total |-> TotalSlots(Metadata[name])]
  BY <1>6, <1>7 DEF NewContainer
<1>9. QED
  BY <1>5, <1>6, <1>8 DEF id

-----------------------------------------------------------------------------
(* Steps *)

(* A step of one bot: the others stay as they are.                         *)
LEMMA OneBot ==
    ASSUME VersionsInv, NEW b \in Bots, BotsOK', BotInv(b)',
           \A c \in Bots \ {b} : SameBot(c)
    PROVE  VersionsInv'
  BY SameBotInv DEF VersionsInv, BotInv

LEMMA NewManagerStep ==
    ASSUME VersionsInv, NEW b \in Bots, NewManager(b)
    PROVE  VersionsInv'
<1> DEFINE m == [synced |-> FALSE, live |-> Empty, builtFor |-> None, held |-> None]
<1>1. manager' = With(manager, b, m)
  BY DEF NewManager, With
<1>2. PerBot(manager') /\ manager'[b] = m /\ \A c \in Bots \ {b} : manager'[c] = manager[c]
  BY <1>1, WithParts DEF VersionsInv, BotsOK
<1>3. click[b] = None
  BY DEF NewManager, VersionsInv, ClickInv
<1>4. BotsOK' /\ \A c \in Bots \ {b} : SameBot(c)
  BY <1>2 DEF VersionsInv, BotsOK, NewManager, SameBot, PerBot
<1>5. LiveInv(b)'
  <2>1. LiveInv(b) /\ server' = server /\ menu' = menu
    BY DEF NewManager, VersionsInv
  <2>2. IsManager(m) /\ m.builtFor = None
    BY DEF IsManager
  <2> HIDE DEF m
  <2>3. QED
    BY <1>2, <2>1, <2>2 DEF LiveInv
<1>6. HeldInv(b)' /\ WindowInv(b)' /\ ClickInv(b)'
  BY <1>2, <1>3 DEF NewManager, HeldInv, WindowInv, ClickInv
<1>7. QED
  BY <1>4, <1>5, <1>6, OneBot DEF BotInv

(* What an act of bot b that ends in window w and click k changes.         *)
LEMMA OutcomeParts ==
    ASSUME VersionsInv, NEW b \in Bots, NEW w, NEW k, Outcome(b, w, k)
    PROVE  /\ PerBot(window') /\ window'[b] = w /\ \A c \in Bots \ {b} : window'[c] = window[c]
           /\ PerBot(click') /\ click'[b] = k /\ \A c \in Bots \ {b} : click'[c] = click[c]
<1>1. window' = With(window, b, w) /\ click' = With(click, b, k)
  BY DEF Outcome, With
<1>2. PerBot(window) /\ PerBot(click)
  BY DEF VersionsInv, BotsOK
<1>3. QED
  BY <1>1, <1>2, WithParts

LEMMA JoinStep ==
    ASSUME VersionsInv, NEW b \in Bots, NEW s \in Servers, Join(b, s)
    PROVE  VersionsInv'
<1> DEFINE m == IF manager[b] = None THEN manager[b] ELSE [manager[b] EXCEPT !.held = None]
           r == IF s.sends THEN s.ids ELSE menu[b]
<1>1. PerBot(manager) /\ PerBot(server) /\ PerBot(menu)
  BY DEF VersionsInv, BotsOK
<1>2. PerBot(manager') /\ manager'[b] = m /\ \A c \in Bots \ {b} : manager'[c] = manager[c]
  <2>1. CASE manager[b] = None
    BY <1>1, <2>1 DEF Join
  <2>2. CASE manager[b] # None
    <3>1. manager' = With(manager, b, [manager[b] EXCEPT !.held = None])
      BY <1>1, <2>2 DEF Join, PerBot, With
    <3>2. QED
      BY <1>1, <2>2, <3>1, WithParts
  <2>3. QED
    BY <2>1, <2>2
<1>3. PerBot(server') /\ server'[b] = s /\ \A c \in Bots \ {b} : server'[c] = server[c]
  <2>1. server' = With(server, b, s)
    BY DEF Join, With
  <2>2. QED
    BY <1>1, <2>1, WithParts
<1>4. PerBot(menu') /\ menu'[b] = r /\ \A c \in Bots \ {b} : menu'[c] = menu[c]
  <2>1. CASE s.sends
    <3>1. menu' = With(menu, b, s.ids)
      BY <2>1 DEF Join, With
    <3>2. QED
      BY <1>1, <2>1, <3>1, WithParts
  <2>2. CASE ~s.sends
    BY <1>1, <2>2 DEF Join
  <2>3. QED
    BY <2>1, <2>2
<1>5. /\ PerBot(window') /\ window'[b] = None /\ \A c \in Bots \ {b} : window'[c] = window[c]
      /\ PerBot(click') /\ click'[b] = None /\ \A c \in Bots \ {b} : click'[c] = click[c]
  BY OutcomeParts DEF Join
<1>6. era' = era /\ codec' = codec
  BY DEF Join
<1>7. BotsOK' /\ \A c \in Bots \ {b} : SameBot(c)
  BY <1>2, <1>3, <1>4, <1>5, <1>6 DEF VersionsInv, BotsOK, SameBot
<1>8. LiveInv(b)
  BY DEF VersionsInv
<1>9. manager[b] # None =>
          m = [synced |-> manager[b].synced, live |-> manager[b].live,
               builtFor |-> manager[b].builtFor, held |-> None]
  BY <1>8 DEF LiveInv, IsManager
<1>10. LiveInv(b)'
  BY <1>2, <1>3, <1>4, <1>8, <1>9 DEF LiveInv, IsManager
<1>11. HeldInv(b)' /\ WindowInv(b)' /\ ClickInv(b)'
  BY <1>2, <1>5, <1>9 DEF HeldInv, WindowInv, ClickInv
<1>12. QED
  BY <1>7, <1>10, <1>11, OneBot DEF BotInv

LEMMA OnOpenScreenStep ==
    ASSUME VersionsInv, NEW b \in Bots, NEW name, OnOpenScreen(b, name)
    PROVE  VersionsInv'
<1> DEFINE m == Populated(b)
           id == server[b].ids[name]
           info == ContainerTypeInfo(m, id)
           w == IF info = None THEN None
                ELSE [name |-> name, slots |-> NewContainer(id, info)]
           s == IF info = None THEN None ELSE server[b]
<1>1. PerBot(manager) /\ PerBot(server) /\ PerBot(menu) /\ LiveInv(b) /\ HeldInv(b)
  BY DEF VersionsInv, BotsOK
<1>2. /\ manager' = With(manager, b, m)
      /\ Outcome(b, w, None)
      /\ server' = IF info = None THEN With(server, b, None) ELSE server
      /\ era' = era /\ codec' = codec /\ menu' = menu
      /\ manager[b] # None /\ server[b] # None /\ name \in DOMAIN server[b].ids
  BY DEF OnOpenScreen, With
<1>3. m.held = manager[b].held /\ IsManager(m)
  BY <1>1, <1>2 DEF Populated, LiveInv, IsManager
<1>4. m.builtFor # None =>
          m.builtFor \in Servers /\ m.live = BuildContainerTypes(m.builtFor.ids)
  <2>1. CASE manager[b].synced
    BY <1>1, <1>2, <2>1 DEF Populated, LiveInv
  <2>2. CASE ~manager[b].synced
    <3>1. m.builtFor = IF server[b].sends THEN server[b] ELSE None
      BY <1>1, <1>2, <2>2 DEF Populated, LiveInv, IsManager
    <3>2. m.live = IF menu[b] = None THEN Empty ELSE BuildContainerTypes(menu[b])
      BY <1>1, <1>2, <2>2 DEF Populated, LiveInv, IsManager
    <3>3. QED
      BY <1>1, <1>2, <3>1, <3>2, VersionsAssumption DEF LiveInv
  <2>3. QED
    BY <2>1, <2>2
<1> HIDE DEF m
<1>5. PerBot(manager') /\ manager'[b] = m /\ \A c \in Bots \ {b} : manager'[c] = manager[c]
  BY <1>1, <1>2, WithParts
<1>6. /\ PerBot(window') /\ window'[b] = w /\ \A c \in Bots \ {b} : window'[c] = window[c]
      /\ PerBot(click') /\ click'[b] = None /\ \A c \in Bots \ {b} : click'[c] = click[c]
  BY <1>2, OutcomeParts
<1>7. PerBot(server') /\ server'[b] = s /\ \A c \in Bots \ {b} : server'[c] = server[c]
  <2>1. CASE info = None
    BY <1>1, <1>2, <2>1, WithParts
  <2>2. CASE info # None
    BY <1>1, <1>2, <2>2
  <2>3. QED
    BY <2>1, <2>2
<1>8. BotsOK' /\ \A c \in Bots \ {b} : SameBot(c)
  BY <1>1, <1>2, <1>5, <1>6, <1>7 DEF VersionsInv, BotsOK, SameBot
<1>9. LiveInv(b)'
  BY <1>1, <1>2, <1>3, <1>4, <1>5, <1>7 DEF LiveInv
<1>10. HeldInv(b)'
  BY <1>1, <1>2, <1>3, <1>5 DEF HeldInv, ServerIds
<1>11. ASSUME info # None, m.builtFor = server[b],
              KnowsMenu(server[b], name), KeepsChests(server[b])
       PROVE  NewContainer(id, info) = server[b].slots[name]
  <2>1. server[b] \in Servers /\ m.live = BuildContainerTypes(server[b].ids)
    BY <1>1, <1>2, <1>4, <1>11
  <2>2. QED
    BY <1>2, <1>11, <2>1, BuiltShape
<1>12. window'[b] # None =>
           info # None /\ window'[b].name = name /\ window'[b].slots = NewContainer(id, info)
  BY <1>6
<1>13. WindowInv(b)'
  BY <1>2, <1>5, <1>7, <1>11, <1>12 DEF WindowInv
<1>14. QED
  BY <1>5, <1>6, <1>8, <1>9, <1>10, <1>13, OneBot DEF BotInv, ClickInv

(* A slot that could be read is what the server sent.                      *)
LEMMA ReadSlotHeld ==
    ASSUME NEW b \in Bots, NEW i \in DOMAIN ServerIds(b), NEW held, held = ReadSlot(b, i), held # None
    PROVE  IF codec[b]
           THEN held.data = ServerIds(b)[held.sent]
           ELSE /\ held.sent \in DOMAIN PostIds /\ held.data = PostIds[held.sent]
                /\ held.type \in DOMAIN TableOf(held.under)
                /\ TableOf(held.under)[held.type] = PostIds[held.sent]
<1>1. CASE codec[b]
  BY <1>1 DEF ReadSlot
<1>2. CASE ~codec[b]
  <2> DEFINE type == ComponentTypeID(PostIds[i])
  <2>1. i \in DOMAIN PostIds /\ type # None
    BY <1>2 DEF ReadSlot
  <2>2. held = [sent |-> i, type |-> type, data |-> PostIds[i], under |-> table]
    BY <1>2 DEF ReadSlot
  <2>3. type \in DOMAIN Table /\ Table[type] = PostIds[i]
    BY <2>1 DEF ComponentTypeID
  <2> HIDE DEF type
  <2>4. QED
    BY <1>2, <2>1, <2>2, <2>3 DEF Table, TableOf
<1>3. QED
  BY <1>1, <1>2

LEMMA OnSetSlotStep ==
    ASSUME VersionsInv, NEW b \in Bots, NEW i, OnSetSlot(b, i)
    PROVE  VersionsInv'
<1> DEFINE held == ReadSlot(b, i)
           m == [manager[b] EXCEPT !.held = held]
           s == IF held = None THEN None ELSE server[b]
<1>1. PerBot(manager) /\ PerBot(server) /\ PerBot(menu) /\ LiveInv(b)
  BY DEF VersionsInv, BotsOK
<1>2. /\ server' = IF held = None THEN With(server, b, None) ELSE server
      /\ Outcome(b, None, None)
      /\ era' = era /\ codec' = codec /\ menu' = menu
      /\ manager[b] # None /\ server[b] # None /\ i \in DOMAIN ServerIds(b)
  BY DEF OnSetSlot, With
<1>3. manager' = With(manager, b, m)
  BY <1>1 DEF OnSetSlot, With, PerBot
<1>4. PerBot(manager') /\ manager'[b] = m /\ \A c \in Bots \ {b} : manager'[c] = manager[c]
  BY <1>1, <1>3, WithParts
<1>5. m = [synced |-> manager[b].synced, live |-> manager[b].live,
           builtFor |-> manager[b].builtFor, held |-> held]
  BY <1>1, <1>2 DEF LiveInv, IsManager
<1>6. /\ PerBot(window') /\ window'[b] = None /\ \A c \in Bots \ {b} : window'[c] = window[c]
      /\ PerBot(click') /\ click'[b] = None /\ \A c \in Bots \ {b} : click'[c] = click[c]
  BY <1>2, OutcomeParts
<1>7. held # None =>
          IF codec[b]
          THEN held.data = ServerIds(b)[held.sent]
          ELSE /\ held.sent \in DOMAIN PostIds /\ held.data = PostIds[held.sent]
               /\ held.type \in DOMAIN TableOf(held.under)
               /\ TableOf(held.under)[held.type] = PostIds[held.sent]
  BY <1>2, ReadSlotHeld
<1> HIDE DEF held
<1>8. PerBot(server') /\ server'[b] = s /\ \A c \in Bots \ {b} : server'[c] = server[c]
  <2>1. CASE held = None
    BY <1>1, <1>2, <2>1, WithParts
  <2>2. CASE held # None
    BY <1>1, <1>2, <2>2
  <2>3. QED
    BY <2>1, <2>2
<1>9. IsManager(m) /\ m.held = held /\ m.builtFor = manager[b].builtFor /\ m.live = manager[b].live
  BY <1>5 DEF IsManager
<1> HIDE DEF m
<1>10. BotsOK' /\ \A c \in Bots \ {b} : SameBot(c)
  BY <1>1, <1>2, <1>4, <1>6, <1>8 DEF VersionsInv, BotsOK, SameBot
<1>11. LiveInv(b)'
  BY <1>1, <1>2, <1>4, <1>8, <1>9 DEF LiveInv
<1>12. HeldInv(b)'
  BY <1>2, <1>4, <1>7, <1>9 DEF HeldInv, ServerIds
<1>13. WindowInv(b)' /\ ClickInv(b)'
  BY <1>6 DEF WindowInv, ClickInv
<1>14. QED
  BY <1>10, <1>11, <1>12, <1>13, OneBot DEF BotInv

(* A slot read under the table in force is named as the server named it.   *)
LEMMA HashedSlotNames ==
    ASSUME NEW held, held.sent \in DOMAIN PostIds, held.data = PostIds[held.sent],
           held.type \in DOMAIN Table, Table[held.type] = PostIds[held.sent]
    PROVE  HashedSlot(held) = [id |-> held.sent, hash |-> held.data]
<1> DEFINE first == CHOOSE i \in DOMAIN PostIds : PostIds[i] = PostIds[held.sent]
<1>1. ComponentTypeName(held.type) = PostIds[held.sent]
  BY DEF ComponentTypeName
<1>2. first \in DOMAIN PostIds /\ PostIds[first] = PostIds[held.sent]
  OBVIOUS
<1>3. first = held.sent
  BY <1>2, VersionsAssumption DEF IsInjective
<1>4. \E i \in DOMAIN PostIds : PostIds[i] = PostIds[held.sent]
  OBVIOUS
<1>5. QED
  BY <1>1, <1>3, <1>4 DEF HashedSlot

LEMMA ContainerClickStep ==
    ASSUME VersionsInv, NEW b \in Bots, ContainerClick(b)
    PROVE  VersionsInv'
<1> DEFINE held == manager[b].held
           sent == IF codec[b] THEN [id |-> held.sent, hash |-> held.data]
                   ELSE IF era[b] = "post" THEN HashedSlot(held) ELSE None
           k == IF sent = None THEN None
                ELSE [id |-> sent.id, hash |-> sent.hash,
                      sameTable |-> codec[b] \/ table = held.under]
<1>1. LiveInv(b) /\ HeldInv(b)
  BY DEF VersionsInv
<1>2. /\ Outcome(b, None, k)
      /\ era' = era /\ codec' = codec /\ menu' = menu /\ server' = server /\ manager' = manager
      /\ manager[b] # None /\ held # None
  BY DEF ContainerClick
<1>3. /\ PerBot(window') /\ window'[b] = None /\ \A c \in Bots \ {b} : window'[c] = window[c]
      /\ PerBot(click') /\ click'[b] = k /\ \A c \in Bots \ {b} : click'[c] = click[c]
  BY <1>2, OutcomeParts
<1>4. BotsOK' /\ \A c \in Bots \ {b} : SameBot(c)
  BY <1>2, <1>3 DEF VersionsInv, BotsOK, SameBot
<1>5. LiveInv(b)' /\ HeldInv(b)' /\ WindowInv(b)'
  BY <1>1, <1>2, <1>3 DEF LiveInv, HeldInv, WindowInv, ServerIds, IsManager
<1>6. ASSUME sent # None, codec[b] \/ table = held.under
      PROVE  sent.id = held.sent /\ sent.hash = ServerIds(b)[sent.id]
  <2>1. CASE codec[b]
    BY <1>1, <1>2, <2>1 DEF HeldInv
  <2>2. CASE ~codec[b]
    <3>1. era[b] = "post" /\ table = held.under
      BY <1>6, <2>2
    <3>2. TableOf(held.under) = Table
      BY <3>1 DEF TableOf, Table
    <3>3. HashedSlot(held) = [id |-> held.sent, hash |-> held.data]
      BY <1>1, <1>2, <2>2, <3>2, HashedSlotNames DEF HeldInv
    <3>4. held.data = PostIds[held.sent]
      BY <1>1, <1>2, <2>2 DEF HeldInv
    <3>5. QED
      BY <2>2, <3>1, <3>3, <3>4 DEF ServerIds
  <2>3. QED
    BY <2>1, <2>2
<1> HIDE DEF sent
<1> DEFINE known == codec[b] \/ table = held.under
<1>7. sent # None => k.sameTable = known /\ k.id = sent.id /\ k.hash = sent.hash
  <2> HIDE DEF known
  <2>1. known = (codec[b] \/ table = held.under)
    BY DEF known
  <2>2. QED
    BY <2>1
<1>8. sent = None => k = None
  OBVIOUS
<1> HIDE DEF k
<1>9. ASSUME k # None, k.sameTable
      PROVE  k.id = held.sent /\ k.hash = ServerIds(b)[k.id]
  <2>1. sent # None
    BY <1>8, <1>9
  <2>2. known
    BY <1>7, <1>9, <2>1, Zenon
  <2>3. QED
    BY <1>6, <1>7, <2>1, <2>2
<1>10. ClickInv(b)'
  BY <1>2, <1>3, <1>9 DEF ClickInv, ServerIds
<1>11. QED
  BY <1>4, <1>5, <1>10, OneBot DEF BotInv

-----------------------------------------------------------------------------

LEMMA VersionsInvInit == VersionsInit => VersionsInv
<1> SUFFICES ASSUME VersionsInit PROVE VersionsInv
  OBVIOUS
<1>1. BotsOK
  BY DEF VersionsInit, BotsOK, PerBot
<1>2. \A b \in Bots : manager[b] = None /\ server[b] = None /\ window[b] = None /\ click[b] = None
  BY DEF VersionsInit
<1>3. QED
  BY <1>1, <1>2 DEF VersionsInv, LiveInv, HeldInv, WindowInv, ClickInv

LEMMA VersionsInvStep == VersionsInv /\ [VersionsNext]_versionVars => VersionsInv'
<1> SUFFICES ASSUME VersionsInv, [VersionsNext]_versionVars PROVE VersionsInv'
  OBVIOUS
<1>1. ASSUME UNCHANGED <<perBot, era, codec>> PROVE VersionsInv'
  <2>1. BotsOK' /\ \A c \in Bots : SameBot(c) /\ BotInv(c)
    BY <1>1 DEF VersionsInv, BotInv, BotsOK, SameBot, perBot, PerBot
  <2>2. QED
    BY <2>1, SameBotInv DEF VersionsInv, BotInv
<1>2. ASSUME NEW i, NEW n, RegisterContainerType(i, n) PROVE VersionsInv'
  BY <1>1, <1>2 DEF RegisterContainerType
<1>3. ASSUME NEW ids, LoadContainerTypes(ids) PROVE VersionsInv'
  BY <1>1, <1>3 DEF LoadContainerTypes
<1>4. ASSUME NEW n, LoadNext(n) PROVE VersionsInv'
  BY <1>1, <1>4 DEF LoadNext
<1>5. CASE UNCHANGED versionVars
  BY <1>1, <1>5 DEF versionVars
<1>6. QED
  BY <1>2, <1>3, <1>4, <1>5, NewManagerStep, JoinStep, OnOpenScreenStep, OnSetSlotStep,
     ContainerClickStep DEF VersionsNext

(* A window has the slots the server gives the menu it opened, once the    *)
(* types were built from that server's registry and if containerMetadata   *)
(* has those slots (registry_loader.go:31-57: it has not for a beacon),    *)
(* whatever other bots and the program do to the process-wide table        *)
(* (registry_loader.go:65-140), for any bots, servers, menus, tables and   *)
(* joins.                                                                  *)
THEOREM WindowsCorrect == VersionsSpec => []WindowsHaveTheirSlots
<1>1. VersionsInv => WindowsHaveTheirSlots
  BY DEF VersionsInv, WindowInv, WindowsHaveTheirSlots
<1>2. QED
  BY <1>1, VersionsInvInit, VersionsInvStep, PTL DEF VersionsSpec

(* A click names the component the server sent, with the hash of its data, *)
(* if the table in force is the one the slot was read under                *)
(* (hashops.go:50-115, screen.go:341-431), for any tables and any bots     *)
(* that choose them.                                                       *)
THEOREM ClickNameCorrect == VersionsSpec => []ClickNamesTheComponent
<1>1. VersionsInv => ClickNamesTheComponent
  BY DEF VersionsInv, ClickInv, ClickNamesTheComponent
<1>2. QED
  BY <1>1, VersionsInvInit, VersionsInvStep, PTL DEF VersionsSpec

-----------------------------------------------------------------------------
(* Arithmetic *)

(* Division with a rest, as SMT knows it.                                  *)
LEMMA Divided ==
    ASSUME NEW n \in Nat \ {0}, NEW a \in Int
    PROVE  a \div n \in Int /\ a % n \in 0 .. n - 1 /\ a = n * (a \div n) + (a % n)
<1> n \in Nat /\ n > 0
  OBVIOUS
<1>1. a \div n \in Int
  OBVIOUS
<1>2. a % n \in 0 .. n - 1
  OBVIOUS
<1>3. a = n * (a \div n) + (a % n)
  OBVIOUS
<1>4. QED
  BY <1>1, <1>2, <1>3

(* A positive multiple of a number is no smaller.                          *)
LEMMA Scaled ==
    ASSUME NEW n \in Nat \ {0}, NEW d \in Int, d >= 1
    PROVE  n * d >= n
<1>1. n * (d - 1) >= 0
  <2>1. d - 1 \in Nat /\ n \in Nat
    OBVIOUS
  <2>2. QED
    BY <2>1
<1>2. n * (d - 1) = n * d - n
  OBVIOUS
<1>3. QED
  BY <1>1, <1>2

(* Quotient and rest are the only such numbers.                            *)
LEMMA DivMod ==
    ASSUME NEW n \in Nat \ {0}, NEW a \in Int, NEW q \in Int, NEW r \in 0 .. n - 1,
           a = n * q + r
    PROVE  a \div n = q /\ a % n = r
<1>2. PICK p \in Int, s \in 0 .. n - 1 : p = a \div n /\ s = a % n /\ a = n * p + s
  BY Divided
<1>3. n * (q - p) = s - r /\ n * (p - q) = r - s
  BY <1>2
<1>4. ~(q - p >= 1)
  BY <1>3, Scaled
<1>5. ~(p - q >= 1)
  BY <1>3, Scaled
<1>6. p = q
  BY <1>4, <1>5
<1>7. QED
  BY <1>2, <1>3, <1>6

(* A number of two digits to the base n.                                   *)
LEMMA TwoDigits ==
    ASSUME NEW n \in Nat \ {0}, NEW m \in Nat \ {0}, NEW i \in 0 .. m - 1, NEW j \in 0 .. n - 1
    PROVE  n * i + j \in 0 .. m * n - 1
<1>1. n * i >= 0
  OBVIOUS
<1>2. n * (m - i) >= n
  BY Scaled
<1>3. n * (m - i) = m * n - n * i
  OBVIOUS
<1>4. QED
  BY <1>1, <1>2, <1>3

(* A record decodes to the change it was made of.                          *)
LEMMA RecordDecodes ==
    ASSUME NEW state \in Nat, NEW off \in Offsets
    PROVE  DecodeMultiBlockRecord(Record(state, off)) = [state |-> state, off |-> off]
<1> DEFINE low == Edge * off[1] + off[3]
           r == Record(state, off)
<1>1. /\ Edge \in Nat \ {0} /\ Edge * Edge \in Nat \ {0} /\ Size \in Nat \ {0}
      /\ off[1] \in 0 .. Edge - 1 /\ off[2] \in 0 .. Edge - 1 /\ off[3] \in 0 .. Edge - 1
  BY BlockLookupAssumption DEF Size, Offsets
<1>2. low \in 0 .. Edge * Edge - 1
  BY <1>1, TwoDigits
<1>3. Edge * low + off[2] \in 0 .. Size - 1
  BY <1>1, <1>2, TwoDigits DEF Size
<1>4. r = Size * state + (Edge * low + off[2])
  BY <1>1 DEF Record, Size
<1>5. r \div Size = state /\ r % Size = Edge * low + off[2]
  <2> DEFINE rest == Edge * low + off[2]
  <2>1. rest \in 0 .. Size - 1 /\ r = Size * state + rest /\ r \in Int
    BY <1>1, <1>3, <1>4
  <2> HIDE DEF rest, r
  <2>2. Size \in Nat \ {0} /\ state \in Int
    BY <1>1
  <2>3. r \div Size = state /\ r % Size = rest
    BY <2>1, <2>2, DivMod
  <2>4. QED
    BY <2>3 DEF rest
<1>6. (r % Size) \div (Edge * Edge) = off[1]
  <2> DEFINE rest == Edge * off[3] + off[2]
             square == Edge * Edge
             a == r % Size
  <2>1. rest \in 0 .. square - 1
    BY <1>1, TwoDigits
  <2>2. a = square * off[1] + rest /\ a \in Int /\ square \in Nat \ {0}
    BY <1>1, <1>5
  <2> HIDE DEF rest, a, square
  <2>3. off[1] \in Int
    BY <1>1
  <2>4. a \div square = off[1]
    BY <2>1, <2>2, <2>3, DivMod
  <2>5. QED
    BY <2>4 DEF a, square
<1> DEFINE high == Edge * (Edge * state) + low
<1>7. r = Edge * high + off[2] /\ high \in Int
  BY <1>1, <1>2, <1>4 DEF Size
<1>8. r % Edge = off[2] /\ r \div Edge = high
  <2> HIDE DEF high, r
  <2>1. Edge * high + off[2] \in Int
    BY <1>1, <1>7
  <2>2. QED
    BY <1>1, <1>7, <2>1, DivMod
<1>9. high % Edge = off[3]
  <2> DEFINE q == Edge * state + off[1]
  <2>1. high = Edge * q + off[3] /\ q \in Int
    BY <1>1
  <2> HIDE DEF high, q
  <2>2. high \in Int
    BY <1>7
  <2>3. QED
    BY <1>1, <2>1, <2>2, DivMod
<1>10. off = <<off[1], off[2], off[3]>>
  BY DEF Offsets
<1>11. QED
  BY <1>5, <1>6, <1>8, <1>9, <1>10 DEF DecodeMultiBlockRecord

-----------------------------------------------------------------------------

(* A half block lies in the block that its floor is.                       *)
LEMMA FloorIs ==
    ASSUME NEW half \in Int
    PROVE  Floor(half) \in Int /\ 2 * Floor(half) <= half /\ half <= 2 * Floor(half) + 1
BY DEF Floor

(* A set of some of the numbers from 1 to n has a greatest one.            *)
LEMMA MaxIsIn ==
    ASSUME NEW n \in Nat, NEW T \in SUBSET (1 .. n), T # {}
    PROVE  Max(T) \in T
<1> DEFINE U == { m \in 0 .. n : n - m \in T }
<1>1. U \in SUBSET Nat
  OBVIOUS
<1>2. U # {}
  <2>1. PICK t : t \in T
    OBVIOUS
  <2>2. n - t \in U
    BY <2>1
  <2>3. QED
    BY <2>2
<1>3. PICK m \in U : \A k \in U : m <= k
  <2> HIDE DEF U
  <2>1. QED
    BY <1>1, <1>2, Smallest
<1>4. \A t \in T : n - m >= t
  <2>1. SUFFICES ASSUME NEW t \in T PROVE n - m >= t
    OBVIOUS
  <2>2. n - t \in U
    OBVIOUS
  <2>3. m <= n - t
    BY <1>3, <2>2
  <2>4. m \in 0 .. n /\ t \in 1 .. n
    OBVIOUS
  <2>5. QED
    BY <2>3, <2>4
<1>5. n - m \in T
  OBVIOUS
<1>6. QED
  BY <1>4, <1>5 DEF Max

(* A block of the world, and the changes of it.                            *)
Place(section, off) == [d \in 1 .. 3 |-> section[d] * Edge + off[d]]
Here(section, changes, b) == { i \in DOMAIN changes : Place(section, changes[i].off) = b }

Change == [state : Nat, off : Offsets]
Changes == Seq(Change)

(* The parts of a change.                                                  *)
LEMMA ChangesAre ==
    ASSUME NEW changes \in Changes
    PROVE  \A i \in DOMAIN changes :
              /\ changes[i].state \in Nat /\ changes[i].off \in Offsets
              /\ changes[i] = [state |-> changes[i].state, off |-> changes[i].off]
<1>1. \A i \in DOMAIN changes : changes[i] \in Change
  BY DEF Changes
<1>2. QED
  BY <1>1 DEF Change

(* What the handler makes of the records of changes.                       *)
LEMMA Overrides ==
    ASSUME NEW section, NEW changes \in Changes
    PROVE  HandleMultiBlockChange(section, RecordsOf(changes)) =
               [b \in { Place(section, changes[i].off) : i \in DOMAIN changes } |->
                    changes[Max(Here(section, changes, b))].state]
<1> DEFINE records == RecordsOf(changes)
           D == DOMAIN changes
<1>1. DOMAIN records = D
  BY DEF RecordsOf
<1>2. \A i \in D : /\ records[i] = Record(changes[i].state, changes[i].off)
                   /\ changes[i].state \in Nat /\ changes[i].off \in Offsets
                   /\ changes[i] = [state |-> changes[i].state, off |-> changes[i].off]
  BY ChangesAre DEF RecordsOf
<1>3. \A i \in D : DecodeMultiBlockRecord(records[i]) = changes[i]
  BY <1>2, RecordDecodes
<1> HIDE DEF records
<1> DEFINE Pos(i) == LET off == DecodeMultiBlockRecord(records[i]).off
                     IN  [d \in 1..3 |-> section[d] * Edge + off[d]]
<1>4. HandleMultiBlockChange(section, records) =
        [b \in { Pos(i) : i \in DOMAIN records } |->
            DecodeMultiBlockRecord(records[Max({ i \in DOMAIN records : Pos(i) = b })]).state]
  BY DEF HandleMultiBlockChange
<1>5. \A i \in D : Pos(i) = Place(section, changes[i].off)
  BY <1>3 DEF Place
<1> HIDE DEF Pos
<1>6. { Pos(i) : i \in DOMAIN records } = { Place(section, changes[i].off) : i \in D }
  BY <1>1, <1>5
<1>7. ASSUME NEW b, b \in { Place(section, changes[i].off) : i \in D }
      PROVE  DecodeMultiBlockRecord(records[Max({ i \in DOMAIN records : Pos(i) = b })]).state
             = changes[Max(Here(section, changes, b))].state
  <2>1. { i \in DOMAIN records : Pos(i) = b } = Here(section, changes, b)
    BY <1>1, <1>5 DEF Here
  <2>2. Here(section, changes, b) # {} /\ Here(section, changes, b) \subseteq D
    BY <1>7 DEF Here
  <2>3. Len(changes) \in Nat /\ D = 1 .. Len(changes)
    BY DEF Changes
  <2>4. Max(Here(section, changes, b)) \in D
    BY <2>2, <2>3, MaxIsIn
  <2>5. QED
    BY <1>3, <2>1, <2>4
<1>8. QED
  BY <1>4, <1>6, <1>7 DEF records

(* Two places of a section are the same only for the same offset.          *)
LEMMA PlacesDiffer ==
    ASSUME NEW section \in Int \X Int \X Int, NEW off \in Offsets, NEW b \in Int \X Int \X Int
    PROVE  Place(section, off) = b
           <=> off = <<b[1] - section[1] * Edge, b[2] - section[2] * Edge, b[3] - section[3] * Edge>>
<1>1. /\ off = <<off[1], off[2], off[3]>> /\ b = <<b[1], b[2], b[3]>>
      /\ off[1] \in Int /\ off[2] \in Int /\ off[3] \in Int
      /\ b[1] \in Int /\ b[2] \in Int /\ b[3] \in Int
      /\ section[1] * Edge \in Int /\ section[2] * Edge \in Int /\ section[3] * Edge \in Int
  BY BlockLookupAssumption DEF Offsets
<1>2. Place(section, off) = b <=> \A d \in 1 .. 3 : section[d] * Edge + off[d] = b[d]
  <2>1. b = [d \in 1 .. 3 |-> b[d]]
    BY <1>1
  <2>2. QED
    BY <2>1 DEF Place
<1>3. (\A d \in 1 .. 3 : section[d] * Edge + off[d] = b[d])
      <=> (/\ section[1] * Edge + off[1] = b[1]
           /\ section[2] * Edge + off[2] = b[2]
           /\ section[3] * Edge + off[3] = b[3])
  <2>1. 1 .. 3 = {1, 2, 3}
    OBVIOUS
  <2>2. QED
    BY <2>1
<1>4. QED
  BY <1>1, <1>2, <1>3

(* Lookups after a packet of block changes, at every point of its section  *)
(* and for any changes: the last change of the block of the point, and no  *)
(* other block's (handleMultiBlockChangePacket, decodeMultiBlockRecord,    *)
(* setBlockOverride and World.GetBlockAt).                                 *)
THEOREM ChangedBlocksFound ==
    \A section \in Int \X Int \X Int : \A changes \in Changes : ChangesAreFound(section, changes)
<1> SUFFICES ASSUME NEW section \in Int \X Int \X Int, NEW changes \in Changes
             PROVE  ChangesAreFound(section, changes)
  OBVIOUS
<1> DEFINE overrides == HandleMultiBlockChange(section, RecordsOf(changes))
<1> DEFINE Off(x, y, z) == <<Floor(x) - section[1] * Edge, Floor(y) - section[2] * Edge,
                             Floor(z) - section[3] * Edge>>
           At(x, y, z) == { i \in DOMAIN changes : changes[i].off = Off(x, y, z) }
<1>1. SUFFICES ASSUME NEW x \in HalfBlocks(section[1] * Edge, Edge),
                      NEW y \in HalfBlocks(section[2] * Edge, Edge),
                      NEW z \in HalfBlocks(section[3] * Edge, Edge)
               PROVE  GetBlockAt([c \in {} |-> NoSection], overrides, x, y, z) =
                        IF At(x, y, z) = {} THEN NotLoaded ELSE changes[Max(At(x, y, z))].state
  BY DEF ChangesAreFound
<1> DEFINE off == Off(x, y, z)
           here == At(x, y, z)
<1> DEFINE b == ToBlockCoords(x, y, z)
<1>2. b = <<Floor(x), Floor(y), Floor(z)>> /\ b \in Int \X Int \X Int
  <2>1. x \in Int /\ y \in Int /\ z \in Int
    BY DEF HalfBlocks
  <2>2. QED
    BY <2>1, FloorIs DEF ToBlockCoords
<1>3. \A i \in DOMAIN changes : Place(section, changes[i].off) = b <=> changes[i].off = off
  <2>1. \A i \in DOMAIN changes : changes[i].off \in Offsets
    BY ChangesAre
  <2>2. off = <<b[1] - section[1] * Edge, b[2] - section[2] * Edge, b[3] - section[3] * Edge>>
    BY <1>1, <1>2
  <2> HIDE DEF b
  <2>3. QED
    BY <1>2, <2>1, <2>2, PlacesDiffer
<1>4. Here(section, changes, b) = here
  BY <1>1, <1>3 DEF Here
<1>o. overrides = [a \in { Place(section, changes[i].off) : i \in DOMAIN changes } |->
                      changes[Max(Here(section, changes, a))].state]
  BY Overrides
<1> HIDE DEF b, overrides
<1>5. b \in DOMAIN overrides <=> here # {}
  BY <1>4, <1>o DEF Here
<1> HIDE DEF here
<1>6. here # {} => overrides[b] = changes[Max(here)].state
  BY <1>4, <1>5, <1>o
<1>7. GetBlockAt([c \in {} |-> NoSection], overrides, x, y, z)
        = IF b \in DOMAIN overrides THEN overrides[b] ELSE NotLoaded
  BY DEF GetBlockAt, b
<1>8. QED
  BY <1>5, <1>6, <1>7 DEF here

-----------------------------------------------------------------------------

(* Powers of two: a function that solves the equation.                     *)
PowerAt(f, n) == IF n = 0 THEN 1 ELSE 2 * f[n - 1]
ArePowers(f, m) == f = [n \in 0 .. m |-> PowerAt(f, n)]

(* There is a list of powers.                                              *)
LEMMA PowersExist ==
    ASSUME NEW m \in Nat
    PROVE  \E f : ArePowers(f, m)
<1> DEFINE T == { n \in Nat : \E f : ArePowers(f, n) }
<1>1. 0 \in T
  <2> DEFINE f == [n \in 0 .. 0 |-> 1]
  <2>1. ArePowers(f, 0)
    BY DEF ArePowers, PowerAt
  <2>2. QED
    BY <2>1
<1>2. ASSUME NEW n \in Nat, n \in T PROVE n + 1 \in T
  <2>1. PICK f : ArePowers(f, n)
    BY <1>2
  <2>2. f = [i \in 0 .. n |-> IF i = 0 THEN 1 ELSE 2 * f[i - 1]]
    BY <2>1 DEF ArePowers, PowerAt
  <2> DEFINE g == [i \in 0 .. n + 1 |-> IF i = 0 THEN 1 ELSE 2 * f[i - 1]]
  <2>3. \A i \in 0 .. n : f[i] = IF i = 0 THEN 1 ELSE 2 * f[i - 1]
    BY <2>2
  <2>4. \A i \in 0 .. n + 1 : i # 0 => g[i - 1] = f[i - 1]
    BY <2>3
  <2>5. g = [i \in 0 .. n + 1 |-> IF i = 0 THEN 1 ELSE 2 * g[i - 1]]
    <3> DEFINE h == [i \in 0 .. n + 1 |-> IF i = 0 THEN 1 ELSE 2 * g[i - 1]]
    <3>1. \A i \in 0 .. n + 1 : g[i] = h[i]
      BY <2>4
    <3>2. g = [i \in 0 .. n + 1 |-> g[i]] /\ h = [i \in 0 .. n + 1 |-> h[i]]
      OBVIOUS
    <3> HIDE DEF g, h
    <3>3. g = h
      BY <3>1, <3>2
    <3>4. QED
      BY <3>3 DEF h
  <2> HIDE DEF g
  <2>6. ArePowers(g, n + 1)
    BY <2>5 DEF ArePowers, PowerAt
  <2>7. QED
    BY <2>6
<1>3. Nat \subseteq T
  <2> HIDE DEF T
  <2>1. QED
    BY <1>1, <1>2, Induction
<1>4. QED
  BY <1>3

(* A power of two is a positive number.                                    *)
LEMMA PowerIsPositive ==
    ASSUME NEW m \in Nat
    PROVE  Pow2(m) \in Nat \ {0}
<1> DEFINE f == PowersTo(m)
<1>1. f = CHOOSE g : ArePowers(g, m)
  BY DEF PowersTo, ArePowers, PowerAt
<1>2. ArePowers(f, m)
  BY <1>1, PowersExist
<1>3. \A n \in 0 .. m : f[n] = IF n = 0 THEN 1 ELSE 2 * f[n - 1]
  <2> HIDE DEF f
  <2>1. f = [n \in 0 .. m |-> IF n = 0 THEN 1 ELSE 2 * f[n - 1]]
    BY <1>2 DEF ArePowers, PowerAt
  <2>2. QED
    BY <2>1
<1> HIDE DEF f
<1> DEFINE T == { n \in Nat : n <= m => f[n] \in Nat \ {0} }
<1>4. 0 \in T
  BY <1>3
<1>5. ASSUME NEW n \in Nat, n \in T PROVE n + 1 \in T
  <2> SUFFICES ASSUME n + 1 <= m PROVE f[n + 1] \in Nat \ {0}
    OBVIOUS
  <2>1. f[n] \in Nat \ {0}
    BY <1>5
  <2>2. f[n + 1] = 2 * f[n]
    BY <1>3
  <2>3. QED
    BY <2>1, <2>2
<1>6. Nat \subseteq T
  <2> HIDE DEF T
  <2>1. QED
    BY <1>4, <1>5, Induction
<1>7. f[m] \in Nat \ {0}
  BY <1>6
<1>8. QED
  BY <1>7 DEF f, Pow2

-----------------------------------------------------------------------------
(* A palette container of n entries, as a server has it: entry i is in the *)
(* state palette[index[i] + 1], and its index in bits of a long, at the    *)
(* place the protocol gives it; the longs are as many as it takes.         *)

HasBits(w, shift, bits, v) ==
    \E high, low \in Nat : /\ v < Pow2(bits) /\ low < Pow2(shift)
                           /\ w = Pow2(shift) * (Pow2(bits) * high + v) + low

Containers(n) ==
    [bits : 0 .. LongBits, palette : Seq(Nat), index : [0 .. n - 1 -> Nat], longs : Seq(Nat)]

IsContainer(k, n) ==
    /\ k \in Containers(n)
    /\ \A i \in 0 .. n - 1 : k.index[i] < Len(k.palette)
    /\ k.bits = 0 => Len(k.palette) = 1
    /\ k.bits # 0 =>
          LET per == LongBits \div k.bits
          IN  /\ per * (Len(k.longs) - 1) < n /\ n <= per * Len(k.longs)
              /\ \A i \in 0 .. n - 1 :
                    HasBits(k.longs[(i \div per) + 1], (i % per) * k.bits, k.bits, k.index[i])

StateOf(k, i) == k.palette[k.index[i] + 1]

(* Its numbers in the data, from the one after p on.                       *)
ContainerLength(k) == IF k.bits = 0 THEN 2 ELSE 2 + Len(k.palette) + Len(k.longs)

IsContainerAt(data, p, k) ==
    /\ p + ContainerLength(k) <= Len(data)
    /\ data[p + 1] = k.bits
    /\ k.bits = 0 => data[p + 2] = k.palette[1]
    /\ k.bits # 0 =>
          /\ data[p + 2] = Len(k.palette)
          /\ \A i \in 1 .. Len(k.palette) : data[p + 2 + i] = k.palette[i]
          /\ \A i \in 1 .. Len(k.longs) : data[p + 2 + Len(k.palette) + i] = k.longs[i]

-----------------------------------------------------------------------------

(* A long holds at least one index.                                        *)
LEMMA PerLong ==
    ASSUME NEW bits \in 1 .. LongBits
    PROVE  ValuesPerLong(bits) \in Nat \ {0}
<1>1. bits \in Nat \ {0} /\ LongBits \in Int /\ LongBits >= bits
  BY BlockLookupAssumption
<1>2. LongBits \div bits \in Int /\ LongBits % bits \in 0 .. bits - 1
      /\ LongBits = bits * (LongBits \div bits) + (LongBits % bits)
  BY <1>1, Divided
<1> DEFINE q == LongBits \div bits
<1>3. q >= 1
  <2> SUFFICES ASSUME q <= 0 PROVE FALSE
    BY <1>2
  <2>1. q \in Int /\ bits * q <= 0
    <3>1. q \in Int /\ -q \in Nat /\ bits \in Nat
      BY <1>1, <1>2
    <3> HIDE DEF q
    <3>2. bits * (-q) >= 0
      BY <3>1
    <3>3. QED
      BY <3>1, <3>2
  <2> HIDE DEF q
  <2>2. LongBits = bits * q + (LongBits % bits)
    BY <1>2 DEF q
  <2>3. QED
    BY <1>1, <1>2, <2>1, <2>2
<1>4. QED
  BY <1>2, <1>3 DEF ValuesPerLong

(* The bot counts the longs as the server does.                            *)
LEMMA LongsCounted ==
    ASSUME NEW n \in Nat, NEW bits \in 1 .. LongBits, NEW m \in Nat,
           ValuesPerLong(bits) * (m - 1) < n, n <= ValuesPerLong(bits) * m
    PROVE  DataLength(n, bits) = m
<1> DEFINE per == ValuesPerLong(bits)
<1>1. per \in Nat \ {0}
  BY PerLong
<1> HIDE DEF per
<1> DEFINE r == n - per * (m - 1) - 1
<1>2. per * (m - 1) = per * m - per
  BY <1>1
<1>3. r \in 0 .. per - 1 /\ n + per - 1 = per * m + r /\ n + per - 1 \in Int
  BY <1>1, <1>2 DEF per
<1> HIDE DEF r
<1>4. m \in Int
  OBVIOUS
<1>5. (n + per - 1) \div per = m
  <2> DEFINE a == n + per - 1
  <2>1. a \in Int /\ a = per * m + r
    BY <1>3
  <2> HIDE DEF a
  <2>2. a \div per = m
    BY <1>1, <1>3, <1>4, <2>1, DivMod
  <2>3. QED
    BY <2>2 DEF a
<1>6. QED
  BY <1>5 DEF DataLength, per

(* The reader moves on inside the data.                                    *)
LEMMA AdvanceIn ==
    ASSUME NEW S, NEW data \in Seq(S), NEW p \in Nat, NEW n \in Nat, p + n <= Len(data)
    PROVE  Advance(data, p, n) = p + n
BY DEF Advance, Eof

(* The types of the parts of a container, and the count of its longs.      *)
LEMMA ContainerParts ==
    ASSUME NEW n \in Nat, NEW k, IsContainer(k, n)
    PROVE  /\ k.bits \in 0 .. LongBits /\ k.palette \in Seq(Nat) /\ k.longs \in Seq(Nat)
           /\ k.index \in [0 .. n - 1 -> Nat]
           /\ Len(k.palette) \in Nat /\ Len(k.longs) \in Nat
           /\ ContainerLength(k) \in Nat /\ ContainerLength(k) >= 2
           /\ k.bits # 0 => k.bits \in 1 .. LongBits /\ DataLength(n, k.bits) = Len(k.longs)
<1>1. /\ k.bits \in 0 .. LongBits /\ k.palette \in Seq(Nat) /\ k.longs \in Seq(Nat)
      /\ k.index \in [0 .. n - 1 -> Nat]
  BY DEF IsContainer, Containers
<1>2. Len(k.palette) \in Nat /\ Len(k.longs) \in Nat
  BY <1>1, LenProperties
<1>3. ASSUME k.bits # 0 PROVE k.bits \in 1 .. LongBits /\ DataLength(n, k.bits) = Len(k.longs)
  <2>1. k.bits \in 1 .. LongBits
    BY <1>1, <1>3
  <2>2. /\ ValuesPerLong(k.bits) * (Len(k.longs) - 1) < n
        /\ n <= ValuesPerLong(k.bits) * Len(k.longs)
    BY <1>3 DEF IsContainer, ValuesPerLong
  <2>3. QED
    BY <1>2, <2>1, <2>2, LongsCounted
<1>4. ContainerLength(k) \in Nat /\ ContainerLength(k) >= 2
  <2>1. CASE k.bits = 0
    BY <2>1 DEF ContainerLength
  <2>2. CASE k.bits # 0
    <3> DEFINE a == Len(k.palette)
               b == Len(k.longs)
    <3>1. ContainerLength(k) = 2 + a + b /\ a \in Nat /\ b \in Nat
      BY <1>2, <2>2 DEF ContainerLength
    <3> HIDE DEF a, b
    <3>2. QED
      BY <3>1
  <2>3. QED
    BY <2>1, <2>2
<1>5. QED
  BY <1>1, <1>2, <1>3, <1>4

(* A container in the data is skipped as a whole.                          *)
LEMMA ContainerSkipped ==
    ASSUME NEW n \in Nat, NEW k, IsContainer(k, n),
           NEW data \in Seq(Nat), NEW p \in Nat, IsContainerAt(data, p, k)
    PROVE  SkipPaletteContainer(data, p, n) = p + ContainerLength(k)
<1> DEFINE q == p + 2
           a == Len(k.palette)
           b == Len(k.longs)
           m == a + b
<1>0. /\ a \in Nat /\ b \in Nat /\ k.bits \in Nat
      /\ ContainerLength(k) \in Nat /\ ContainerLength(k) >= 2 /\ Len(data) \in Nat
      /\ k.bits # 0 => DataLength(n, k.bits) = b
  BY ContainerParts, LenProperties, BlockLookupAssumption
<1>1. p + ContainerLength(k) <= Len(data)
  BY DEF IsContainerAt
<1>2. Advance(data, p, 2) = q /\ q # Eof /\ q - 1 = p + 1
  <2>1. p + 2 <= Len(data)
    BY <1>0, <1>1
  <2>2. QED
    BY <2>1, AdvanceIn DEF Eof
<1>3. data[q - 1] = k.bits
  BY <1>2 DEF IsContainerAt
<1>4. CASE k.bits = 0
  BY <1>2, <1>3, <1>4 DEF SkipPaletteContainer, ContainerLength
<1>5. CASE k.bits # 0
  <2>0. data[q] = a /\ ContainerLength(k) = 2 + a + b
    BY <1>5 DEF IsContainerAt, ContainerLength
  <2> HIDE DEF a, b
  <2>2. q + m <= Len(data) /\ m \in Nat /\ q \in Nat
    BY <1>0, <1>1, <2>0
  <2>3. Advance(data, q, m) = q + m
    <3> HIDE DEF q, m
    <3>1. QED
      BY <2>2, AdvanceIn
  <2>4. SkipPaletteContainer(data, p, n) = Advance(data, q, m)
    <3> HIDE DEF q
    <3>1. QED
      BY <1>0, <1>2, <1>3, <1>5, <2>0 DEF SkipPaletteContainer
  <2>5. QED
    BY <1>0, <2>0, <2>3, <2>4
<1>6. QED
  BY <1>4, <1>5

-----------------------------------------------------------------------------
(* A section is a count, a container of blocks and one of biomes; a chunk  *)
(* is its sections, from the lowest up.                                    *)

IsSection(s) == IsContainer(s.blocks, Size) /\ IsContainer(s.biomes, BiomeSize)

SectionLength(s) == 1 + (ContainerLength(s.blocks) + ContainerLength(s.biomes))

IsSectionAt(data, p, s) ==
    /\ IsContainerAt(data, p + 1, s.blocks)
    /\ IsContainerAt(data, p + 1 + ContainerLength(s.blocks), s.biomes)

Slots == 0 .. SectionCount - 1

IsChunk(data, column, at) ==
    /\ at \in [0 .. SectionCount -> Nat] /\ at[0] = 0
    /\ \A slot \in Slots : /\ IsSection(column[slot])
                           /\ at[slot + 1] = at[slot] + SectionLength(column[slot])
                           /\ IsSectionAt(data, at[slot], column[slot])

(* Data that ends after n numbers.                                         *)
First(data, n) == SubSeq(data, 1, n)

(* A section and its biomes are not empty.                                 *)
LEMMA Sizes == Size \in Nat \ {0} /\ BiomeSize \in Nat \ {0} /\ Edge \in Nat \ {0}
BY BlockLookupAssumption DEF Size

(* After the end there is nothing.                                         *)
LEMMA EofSkipped ==
    ASSUME NEW data, NEW m
    PROVE  /\ Advance(data, Eof, m) = Eof
           /\ SkipPaletteContainer(data, Eof, m) = Eof
           /\ LoadPaletteContainer(data, Eof) = NoSection
<1>1. \A j : Advance(data, Eof, j) = Eof
  BY DEF Advance
<1>2. QED
  BY <1>1 DEF SkipPaletteContainer, LoadPaletteContainer

(* The first n numbers of the data.                                        *)
LEMMA FirstIs ==
    ASSUME NEW data \in Seq(Nat), NEW n \in 0 .. Len(data)
    PROVE  /\ First(data, n) \in Seq(Nat) /\ Len(First(data, n)) = n
           /\ \A i \in 1 .. n : First(data, n)[i] = data[i]
<1>1. Len(data) \in Nat
  BY LenProperties
<1>2. \A i \in 1 .. n : data[i] \in Nat
  BY <1>1, ElementOfSeq
<1>3. 1 \in Int /\ n \in Int
  BY <1>1
<1> DEFINE t == SubSeq(data, 1, n)
<1>4. /\ t \in Seq(Nat) /\ Len(t) = IF 1 <= n THEN n - 1 + 1 ELSE 0
      /\ \A i \in 1 .. n - 1 + 1 : t[i] = data[1 + i - 1]
  BY <1>2, <1>3, SubSeqProperties
<1> HIDE DEF t
<1>5. Len(t) = n /\ \A i \in 1 .. n : t[i] = data[i]
  <2>1. n - 1 + 1 = n /\ \A i \in 1 .. n : 1 + i - 1 = i
    BY <1>1
  <2>2. QED
    BY <1>1, <1>4, <2>1
<1>6. QED
  BY <1>4, <1>5 DEF First, t

(* A container that ends in time is still there.                           *)
LEMMA ContainerKept ==
    ASSUME NEW m \in Nat, NEW k, IsContainer(k, m),
           NEW data \in Seq(Nat), NEW n \in 0 .. Len(data), NEW p \in Nat,
           IsContainerAt(data, p, k), p + ContainerLength(k) <= n
    PROVE  IsContainerAt(First(data, n), p, k)
<1> DEFINE cut == First(data, n)
           palette == k.palette
           longs == k.longs
           a == Len(palette)
           b == Len(longs)
           c == ContainerLength(k)
<1>1. a \in Nat /\ b \in Nat /\ c \in Nat /\ c >= 2 /\ n \in Nat
  <2>1. a \in Nat /\ b \in Nat /\ c \in Nat /\ c >= 2
    BY ContainerParts
  <2>2. Len(data) \in Nat
    BY LenProperties
  <2>3. QED
    BY <2>1, <2>2
<1>2. Len(cut) = n /\ \A i \in 1 .. n : cut[i] = data[i]
  BY FirstIs
<1>3. k.bits # 0 => c = 2 + a + b
  BY DEF ContainerLength
<1>4. /\ data[p + 1] = k.bits
      /\ k.bits = 0 => data[p + 2] = palette[1]
      /\ k.bits # 0 => /\ data[p + 2] = a
                       /\ \A i \in 1 .. a : data[p + 2 + i] = palette[i]
                       /\ \A i \in 1 .. b : data[p + 2 + a + i] = longs[i]
  BY DEF IsContainerAt
<1>5. p + c <= n
  OBVIOUS
<1> HIDE DEF cut, palette, longs, a, b, c
<1>6. cut[p + 1] = data[p + 1] /\ cut[p + 2] = data[p + 2]
  BY <1>1, <1>2, <1>5
<1>7. ASSUME k.bits # 0
      PROVE  /\ \A i \in 1 .. a : cut[p + 2 + i] = palette[i]
             /\ \A i \in 1 .. b : cut[p + 2 + a + i] = longs[i]
  <2>1. c = 2 + a + b
    BY <1>3, <1>7
  <2>2. \A i \in 1 .. a : p + 2 + i \in 1 .. n
    BY <1>1, <1>5, <2>1
  <2>3. \A i \in 1 .. b : p + 2 + a + i \in 1 .. n
    BY <1>1, <1>5, <2>1
  <2>4. QED
    BY <1>2, <1>4, <1>7, <2>2, <2>3
<1>8. QED
  BY <1>2, <1>4, <1>5, <1>6, <1>7 DEF IsContainerAt, cut, palette, longs, a, b, c

(* One that does not is not read at all.                                   *)
LEMMA ContainerCut ==
    ASSUME NEW m \in Nat, NEW k, IsContainer(k, m),
           NEW data \in Seq(Nat), NEW n \in 0 .. Len(data), NEW p \in Nat,
           IsContainerAt(data, p, k), p + ContainerLength(k) > n
    PROVE  /\ SkipPaletteContainer(First(data, n), p, m) = Eof
           /\ m = Size => LoadPaletteContainer(First(data, n), p) = NoSection
<1> DEFINE cut == First(data, n)
           bits == k.bits
           a == Len(k.palette)
           b == Len(k.longs)
           c == ContainerLength(k)
           q == p + 2
<1>1. /\ a \in Nat /\ b \in Nat /\ c \in Nat /\ c >= 2 /\ n \in Nat
      /\ bits # 0 => DataLength(m, bits) = b
  <2>1. /\ a \in Nat /\ b \in Nat /\ c \in Nat /\ c >= 2
        /\ bits # 0 => DataLength(m, bits) = b
    BY ContainerParts
  <2>2. Len(data) \in Nat
    BY LenProperties
  <2>3. QED
    BY <2>1, <2>2
<1>2. Len(cut) = n /\ \A i \in 1 .. n : cut[i] = data[i]
  BY FirstIs
<1>3. /\ bits = 0 => c = 2
      /\ bits # 0 => c = 2 + a + b
  BY DEF ContainerLength
<1>4. data[p + 1] = bits /\ (bits # 0 => data[p + 2] = a)
  BY DEF IsContainerAt
<1>5. p + c > n
  OBVIOUS
<1> HIDE DEF cut, bits, a, b, c
<1>6. CASE q > n
  <2>1. Advance(cut, p, 2) = Eof
    BY <1>2, <1>6 DEF Advance
  <2>2. QED
    BY <2>1 DEF SkipPaletteContainer, LoadPaletteContainer, cut
<1>7. CASE q <= n
  <2>1. Advance(cut, p, 2) = q /\ q # Eof /\ q - 1 = p + 1
    BY <1>1, <1>2, <1>7 DEF Advance, Eof
  <2>2. bits # 0 /\ c = 2 + a + b
    BY <1>1, <1>3, <1>5, <1>7
  <2>3. cut[q - 1] = bits /\ cut[q] = a
    BY <1>1, <1>2, <1>4, <1>7, <2>1, <2>2
  <2>4. Advance(cut, q, a + b) = Eof
    <3>1. q + (a + b) > n
      BY <1>1, <1>5, <2>2
    <3> HIDE DEF q
    <3>2. QED
      BY <1>2, <3>1 DEF Advance
  <2> HIDE DEF q
  <2>5. SkipPaletteContainer(cut, p, m) = Eof
    BY <1>1, <2>1, <2>2, <2>3, <2>4 DEF SkipPaletteContainer
  <2>6. m = Size => LoadPaletteContainer(cut, p) = NoSection
    BY <1>1, <2>1, <2>2, <2>3, <2>4 DEF LoadPaletteContainer
  <2>7. QED
    BY <2>5, <2>6 DEF cut
<1>8. QED
  BY <1>1, <1>6, <1>7

(* So it is skipped if it is there.                                        *)
LEMMA ContainerSkippedIn ==
    ASSUME NEW m \in Nat, NEW k, IsContainer(k, m),
           NEW data \in Seq(Nat), NEW n \in 0 .. Len(data), NEW p \in Nat, IsContainerAt(data, p, k)
    PROVE  SkipPaletteContainer(First(data, n), p, m) =
               IF p + ContainerLength(k) <= n THEN p + ContainerLength(k) ELSE Eof
<1>1. ContainerLength(k) \in Nat /\ n \in Nat
  <2>1. ContainerLength(k) \in Nat
    BY ContainerParts
  <2>2. Len(data) \in Nat
    BY LenProperties
  <2>3. QED
    BY <2>1, <2>2
<1>2. CASE p + ContainerLength(k) <= n
  BY <1>2, FirstIs, ContainerKept, ContainerSkipped
<1>3. CASE p + ContainerLength(k) > n
  BY <1>1, <1>3, ContainerCut
<1>4. QED
  BY <1>1, <1>2, <1>3

(* And so is a section.                                                    *)
LEMMA SectionSkipped ==
    ASSUME NEW s, IsSection(s), NEW data \in Seq(Nat), NEW n \in 0 .. Len(data), NEW p \in Nat,
           IsSectionAt(data, p, s)
    PROVE  /\ SectionLength(s) \in Nat
           /\ SkipSection(First(data, n), p) =
                 IF p + SectionLength(s) <= n THEN p + SectionLength(s) ELSE Eof
<1> DEFINE a == ContainerLength(s.blocks)
           b == ContainerLength(s.biomes)
           k == s.blocks
           l == s.biomes
           cut == First(data, n)
           length == SectionLength(s)
<1>1. /\ IsContainer(k, Size) /\ IsContainer(l, BiomeSize)
      /\ IsContainerAt(data, p + 1, k) /\ IsContainerAt(data, p + 1 + a, l)
  BY DEF IsSection, IsSectionAt
<1>2. a = ContainerLength(k) /\ b = ContainerLength(l)
  OBVIOUS
<1>s. length = 1 + (a + b)
  BY DEF SectionLength
<1> HIDE DEF a, b, k, l, length
<1>3. a \in Nat /\ b \in Nat /\ n \in Nat /\ Len(cut) = n
  BY <1>1, <1>2, Sizes, ContainerParts, LenProperties, FirstIs
<1>4. Advance(cut, p, 1) = IF p + 1 <= n THEN p + 1 ELSE Eof
  <2> HIDE DEF cut
  <2>1. QED
    BY <1>3 DEF Advance, Eof
<1>5. SkipPaletteContainer(cut, p + 1, Size) = IF p + 1 + a <= n THEN p + 1 + a ELSE Eof
  <2>1. p + 1 \in Nat
    OBVIOUS
  <2>2. QED
    BY <1>1, <1>2, <2>1, Sizes, ContainerSkippedIn
<1>6. SkipPaletteContainer(cut, p + 1 + a, BiomeSize) =
         IF p + 1 + a + b <= n THEN p + 1 + a + b ELSE Eof
  <2>1. p + 1 + a \in Nat
    BY <1>3
  <2>2. QED
    BY <1>1, <1>2, <2>1, Sizes, ContainerSkippedIn
<1> HIDE DEF cut
<1>7. SkipSection(cut, p) =
         SkipPaletteContainer(cut, SkipPaletteContainer(cut, Advance(cut, p, 1), Size), BiomeSize)
  BY DEF SkipSection
<1>8. \A m : SkipPaletteContainer(cut, Eof, m) = Eof
  BY EofSkipped
<1>9. CASE p + 1 > n
  BY <1>s, <1>3, <1>4, <1>7, <1>8, <1>9 DEF cut, length
<1>10. CASE p + 1 <= n /\ p + 1 + a > n
  <2>1. ~(p + 1 + a <= n) /\ ~(p + length <= n)
    BY <1>s, <1>3, <1>10
  <2>2. SkipSection(cut, p) = Eof
    BY <1>4, <1>5, <1>7, <1>8, <1>10, <2>1
  <2>3. QED
    BY <1>s, <1>3, <2>1, <2>2 DEF cut, length
<1>11. CASE p + 1 <= n /\ p + 1 + a <= n
  <2>1. SkipSection(cut, p) = SkipPaletteContainer(cut, p + 1 + a, BiomeSize)
    BY <1>4, <1>5, <1>7, <1>11
  <2>2. p + 1 + a + b = p + length
    BY <1>s, <1>3
  <2>3. QED
    BY <1>s, <1>3, <1>6, <2>1, <2>2 DEF cut, length
<1>12. length \in Nat
  BY <1>s, <1>3
<1>13. QED
  BY <1>3, <1>9, <1>10, <1>11, <1>12 DEF length, cut

-----------------------------------------------------------------------------

(* Starts of sections: a function that solves the equation.                *)
StartAt(f, data, i) == IF i = 0 THEN 0 ELSE SkipSection(data, f[i - 1])
AreStarts(f, data, m) == f = [i \in 0 .. m |-> StartAt(f, data, i)]

(* There is a list of starts.                                              *)
LEMMA StartsExist ==
    ASSUME NEW data, NEW m \in Nat
    PROVE  \E f : AreStarts(f, data, m)
<1> DEFINE T == { n \in Nat : \E f : AreStarts(f, data, n) }
<1>1. 0 \in T
  <2> DEFINE f == [i \in 0 .. 0 |-> 0]
  <2>1. AreStarts(f, data, 0)
    BY DEF AreStarts, StartAt
  <2>2. QED
    BY <2>1
<1>2. ASSUME NEW n \in Nat, n \in T PROVE n + 1 \in T
  <2>1. PICK f : AreStarts(f, data, n)
    BY <1>2
  <2>2. f = [i \in 0 .. n |-> StartAt(f, data, i)]
    BY <2>1 DEF AreStarts
  <2> DEFINE g == [i \in 0 .. n + 1 |-> StartAt(f, data, i)]
  <2>3. \A i \in 0 .. n : f[i] = StartAt(f, data, i)
    BY <2>2
  <2>4. \A i \in 0 .. n + 1 : i # 0 => g[i - 1] = f[i - 1]
    BY <2>3
  <2>5. g = [i \in 0 .. n + 1 |-> StartAt(g, data, i)]
    <3> DEFINE h == [i \in 0 .. n + 1 |-> StartAt(g, data, i)]
    <3>1. \A i \in 0 .. n + 1 : g[i] = h[i]
      BY <2>4 DEF StartAt
    <3>2. g = [i \in 0 .. n + 1 |-> g[i]] /\ h = [i \in 0 .. n + 1 |-> h[i]]
      OBVIOUS
    <3> HIDE DEF g, h
    <3>3. g = h
      BY <3>1, <3>2
    <3>4. QED
      BY <3>3 DEF h
  <2> HIDE DEF g
  <2>6. AreStarts(g, data, n + 1)
    BY <2>5 DEF AreStarts
  <2>7. QED
    BY <2>6
<1>3. Nat \subseteq T
  <2> HIDE DEF T
  <2>1. QED
    BY <1>1, <1>2, Induction
<1>4. QED
  BY <1>3

(* Each section starts where the one below it ends.                        *)
LEMMA StartsPoints ==
    ASSUME NEW data, NEW m \in Nat
    PROVE  /\ SectionStarts(data, m)[0] = 0
           /\ \A i \in 1 .. m :
                 SectionStarts(data, m)[i] = SkipSection(data, SectionStarts(data, m)[i - 1])
<1> DEFINE f == SectionStarts(data, m)
<1>1. f = CHOOSE g : AreStarts(g, data, m)
  BY DEF SectionStarts, AreStarts, StartAt
<1>2. AreStarts(f, data, m)
  BY <1>1, StartsExist
<1> HIDE DEF f
<1>3. f = [i \in 0 .. m |-> StartAt(f, data, i)]
  BY <1>2 DEF AreStarts
<1>4. \A i \in 0 .. m : f[i] = StartAt(f, data, i)
  BY <1>3
<1>5. f[0] = 0 /\ \A i \in 1 .. m : f[i] = SkipSection(data, f[i - 1])
  BY <1>4 DEF StartAt
<1>6. QED
  BY <1>5 DEF f

(* The starts the bot finds are those of the server, up to the cut.        *)
LEMMA ChunkStarts ==
    ASSUME NEW data \in Seq(Nat), NEW n \in 0 .. Len(data),
           NEW column, NEW at, IsChunk(data, column, at), NEW slot \in Slots
    PROVE  /\ at[slot] \in Nat
           /\ SectionStarts(First(data, n), slot)[slot] = IF at[slot] <= n THEN at[slot] ELSE Eof
<1> DEFINE cut == First(data, n)
<1>1. /\ at \in [0 .. SectionCount -> Nat] /\ at[0] = 0
      /\ \A s \in Slots : /\ IsSection(column[s])
                          /\ at[s + 1] = at[s] + SectionLength(column[s])
                          /\ IsSectionAt(data, at[s], column[s])
  BY DEF IsChunk
<1>2. /\ slot \in Nat /\ SectionCount \in Nat /\ slot < SectionCount /\ n \in Nat
  BY BlockLookupAssumption, LenProperties DEF Slots
<1> DEFINE f == SectionStarts(cut, slot)
           T == { i \in Nat : i <= slot => f[i] = IF at[i] <= n THEN at[i] ELSE Eof }
<1>3. f[0] = 0 /\ \A i \in 1 .. slot : f[i] = SkipSection(cut, f[i - 1])
  BY <1>2, StartsPoints
<1> HIDE DEF f
<1>4. 0 \in T
  BY <1>1, <1>2, <1>3
<1>5. ASSUME NEW i \in Nat, i \in T PROVE i + 1 \in T
  <2> SUFFICES ASSUME i + 1 <= slot
               PROVE  f[i + 1] = IF at[i + 1] <= n THEN at[i + 1] ELSE Eof
    OBVIOUS
  <2>1. i \in Slots /\ at[i] \in Nat
    BY <1>1, <1>2 DEF Slots
  <2>2. f[i + 1] = SkipSection(cut, f[i]) /\ f[i] = IF at[i] <= n THEN at[i] ELSE Eof
    BY <1>2, <1>3, <1>5
  <2> DEFINE p == at[i]
             c == SectionLength(column[i])
  <2>3. c \in Nat /\ SkipSection(cut, p) = IF p + c <= n THEN p + c ELSE Eof
    BY <1>1, <2>1, SectionSkipped
  <2>4. SkipSection(cut, Eof) = Eof
    BY EofSkipped DEF SkipSection
  <2>5. at[i + 1] = p + c
    BY <1>1, <2>1
  <2> HIDE DEF c, p, cut
  <2>6. CASE p <= n
    BY <2>2, <2>3, <2>5, <2>6 DEF p
  <2>7. CASE p > n
    <3>1. ~(p <= n) /\ ~(p + c <= n)
      BY <1>2, <2>1, <2>3, <2>7 DEF p
    <3>2. QED
      BY <2>2, <2>4, <2>5, <3>1 DEF p
  <2>8. QED
    BY <1>2, <2>1, <2>6, <2>7 DEF p
<1>6. Nat \subseteq T
  <2> HIDE DEF T
  <2>1. QED
    BY <1>4, <1>5, Induction
<1>7. f[slot] = (IF at[slot] <= n THEN at[slot] ELSE Eof) /\ at[slot] \in Nat
  <2>1. slot \in T
    BY <1>2, <1>6
  <2>2. slot \in 0 .. SectionCount
    BY <1>2
  <2>3. QED
    BY <1>1, <1>2, <2>1, <2>2
<1>8. QED
  BY <1>7 DEF f

-----------------------------------------------------------------------------

(* What the bot keeps of a container.                                      *)
Loaded(k, end) ==
    IF k.bits = 0 THEN [bits |-> 0, value |-> k.palette[1], end |-> end]
    ELSE [bits |-> k.bits, palette |-> k.palette, longs |-> k.longs, end |-> end]

(* A part of the data that is a sequence.                                  *)
LEMMA PartOf ==
    ASSUME NEW data \in Seq(Nat), NEW q \in Nat, NEW s \in Seq(Nat),
           q + Len(s) <= Len(data), \A i \in 1 .. Len(s) : data[q + i] = s[i]
    PROVE  SubSeq(data, q + 1, q + Len(s)) = s
<1>1. Len(s) \in Nat /\ Len(data) \in Nat
  BY LenProperties
<1>2. \A i \in q + 1 .. q + Len(s) : data[i] \in Nat
  <2>1. \A i \in q + 1 .. q + Len(s) : i \in 1 .. Len(data)
    BY <1>1
  <2>2. QED
    BY <2>1, ElementOfSeq
<1> DEFINE m == q + 1
           n == q + Len(s)
           t == SubSeq(data, m, n)
<1>3. m \in Int /\ n \in Int /\ n - m + 1 = Len(s) /\ (m <= n <=> Len(s) # 0)
  BY <1>1
<1>4. /\ t \in Seq(Nat) /\ Len(t) = IF m <= n THEN n - m + 1 ELSE 0
      /\ \A i \in 1 .. n - m + 1 : t[i] = data[m + i - 1]
  BY <1>2, <1>3, SubSeqProperties
<1>5. Len(t) = Len(s)
  BY <1>1, <1>3, <1>4
<1>6. \A i \in 1 .. Len(s) : t[i] = s[i]
  <2>1. \A i \in 1 .. Len(s) : i \in 1 .. n - m + 1 /\ m + i - 1 = q + i
    BY <1>1
  <2> HIDE DEF t, m, n
  <2>2. QED
    BY <1>4, <2>1
<1>7. QED
  BY <1>4, <1>5, <1>6, SeqEqual

(* A container in the data is read as it is.                               *)
LEMMA ContainerLoaded ==
    ASSUME NEW k, IsContainer(k, Size),
           NEW data \in Seq(Nat), NEW p \in Nat, IsContainerAt(data, p, k)
    PROVE  LoadPaletteContainer(data, p) = Loaded(k, p + ContainerLength(k))
<1> DEFINE q == p + 2
           palette == k.palette
           longs == k.longs
           bits == k.bits
           a == Len(palette)
           b == Len(longs)
           m == a + b
<1>0. /\ a \in Nat /\ b \in Nat /\ bits \in Nat
      /\ ContainerLength(k) \in Nat /\ ContainerLength(k) >= 2 /\ Len(data) \in Nat
      /\ bits # 0 => DataLength(Size, bits) = b
  BY ContainerParts, LenProperties, BlockLookupAssumption, Sizes
<1>t. palette \in Seq(Nat) /\ longs \in Seq(Nat)
  BY ContainerParts, Sizes
<1>1. p + ContainerLength(k) <= Len(data)
  BY DEF IsContainerAt
<1>2. Advance(data, p, 2) = q /\ q # Eof /\ q - 1 = p + 1
  <2>1. p + 2 <= Len(data)
    BY <1>0, <1>1
  <2>2. QED
    BY <2>1, AdvanceIn DEF Eof
<1>3. data[q - 1] = bits
  BY <1>2 DEF IsContainerAt
<1>4. CASE bits = 0
  <2>1. data[q] = palette[1] /\ ContainerLength(k) = 2
    BY <1>4 DEF IsContainerAt, ContainerLength
  <2>2. LoadPaletteContainer(data, p) = [bits |-> 0, value |-> data[q], end |-> q]
    BY <1>2, <1>3, <1>4 DEF LoadPaletteContainer
  <2>3. Loaded(k, p + ContainerLength(k)) = [bits |-> 0, value |-> palette[1], end |-> q]
    BY <1>4, <2>1 DEF Loaded
  <2>4. QED
    BY <2>1, <2>2, <2>3
<1>5. CASE bits # 0
  <2>0. data[q] = a /\ ContainerLength(k) = 2 + a + b
    BY <1>5 DEF IsContainerAt, ContainerLength
  <2>1. /\ \A i \in 1 .. a : data[q + i] = palette[i]
        /\ \A i \in 1 .. b : data[q + a + i] = longs[i]
    BY <1>5 DEF IsContainerAt
  <2>r. Loaded(k, p + ContainerLength(k)) =
           [bits |-> bits, palette |-> palette, longs |-> longs, end |-> p + ContainerLength(k)]
    BY <1>5 DEF Loaded
  <2> HIDE DEF palette, longs, bits
  <2> DEFINE c == ContainerLength(k)
  <2>2. c = 2 + a + b /\ p + c <= Len(data)
    BY <1>1, <2>0
  <2> HIDE DEF a, b, c
  <2>3. q + m <= Len(data) /\ m \in Nat /\ q \in Nat /\ q + a \in Nat /\ q + m = p + c
        /\ q + a <= Len(data) /\ q + m = (q + a) + b
    BY <1>0, <2>2
  <2>4. Advance(data, q, m) = q + m /\ q + m # Eof
    <3> HIDE DEF q, m
    <3>1. QED
      BY <2>3, AdvanceIn DEF Eof
  <2>5. SubSeq(data, q + 1, q + a) = palette
    <3> HIDE DEF q
    <3>1. QED
      BY <1>t, <2>1, <2>3, PartOf DEF a
  <2>6. SubSeq(data, q + a + 1, q + m) = longs
    <3> DEFINE r == q + a
    <3>1. r \in Nat /\ r + b <= Len(data) /\ q + m = r + b
      BY <2>3
    <3>2. \A i \in 1 .. b : data[r + i] = longs[i]
      BY <2>1
    <3> HIDE DEF r
    <3>3. SubSeq(data, r + 1, r + b) = longs
      BY <1>t, <3>1, <3>2, PartOf DEF b
    <3>4. QED
      BY <3>1, <3>3 DEF r
  <2>7. LoadPaletteContainer(data, p) =
           [bits |-> bits, palette |-> SubSeq(data, q + 1, q + a),
            longs |-> SubSeq(data, q + a + 1, q + m), end |-> q + m]
    <3> HIDE DEF q
    <3>1. QED
      BY <1>0, <1>2, <1>3, <1>5, <2>0, <2>4 DEF LoadPaletteContainer
  <2>8. QED
    BY <2>r, <2>3, <2>5, <2>6, <2>7 DEF c
<1>6. QED
  BY <1>4, <1>5

(* A section that is there as a whole is read, another one is not.         *)
LEMMA SectionLoaded ==
    ASSUME NEW data \in Seq(Nat), NEW n \in 0 .. Len(data),
           NEW column, NEW at, IsChunk(data, column, at), NEW slot \in Slots
    PROVE  \E end \in Nat :
              LoadSection(First(data, n), slot) =
                  IF at[slot + 1] <= n THEN Loaded(column[slot].blocks, end) ELSE NoSection
<1> DEFINE k == column[slot].blocks
           l == column[slot].biomes
           a == ContainerLength(k)
           b == ContainerLength(l)
           p == at[slot]
           cut == First(data, n)
<1>1. p \in Nat /\ SectionStarts(cut, slot)[slot] = IF p <= n THEN p ELSE Eof
  BY ChunkStarts
<1>2. IsContainer(k, Size) /\ IsContainer(l, BiomeSize)
  BY DEF IsChunk, IsSection
<1>3. /\ IsContainerAt(data, p + 1, k) /\ IsContainerAt(data, p + 1 + a, l)
      /\ at[slot + 1] = p + (1 + (a + b))
  BY DEF IsChunk, IsSectionAt, SectionLength
<1> HIDE DEF k, l, p
<1>4. a \in Nat /\ b \in Nat /\ k.bits \in Nat /\ n \in Nat
      /\ cut \in Seq(Nat) /\ Len(cut) = n
  <2>1. n \in Nat
    <3>1. Len(data) \in Nat
      BY LenProperties
    <3>2. QED
      BY <3>1
  <2>2. cut \in Seq(Nat) /\ Len(cut) = n
    BY FirstIs
  <2>3. a \in Nat /\ k.bits \in Nat
    BY <1>2, Sizes, ContainerParts, BlockLookupAssumption
  <2>4. b \in Nat
    BY <1>2, Sizes, ContainerParts
  <2>5. QED
    BY <2>1, <2>2, <2>3, <2>4
<1>5. p + 1 \in Nat /\ p + 1 + a \in Nat
  BY <1>1, <1>4
<1>6. p + 1 + a <= n => LoadPaletteContainer(cut, p + 1) = Loaded(k, p + 1 + a)
  <2> SUFFICES ASSUME p + 1 + a <= n
               PROVE  LoadPaletteContainer(cut, p + 1) = Loaded(k, p + 1 + a)
    OBVIOUS
  <2>1. IsContainerAt(cut, p + 1, k)
    BY <1>2, <1>3, <1>5, Sizes, ContainerKept
  <2> HIDE DEF cut
  <2>2. QED
    BY <1>2, <1>4, <1>5, <2>1, ContainerLoaded
<1>7. p + 1 + a > n => LoadPaletteContainer(cut, p + 1) = NoSection
  BY <1>2, <1>3, <1>5, Sizes, ContainerCut
<1>8. SkipPaletteContainer(cut, p + 1 + a, BiomeSize) =
         IF p + 1 + a + b <= n THEN p + 1 + a + b ELSE Eof
  BY <1>2, <1>3, <1>5, Sizes, ContainerSkippedIn
<1> HIDE DEF a, b
<1>9. /\ Advance(cut, p, 1) = IF p + 1 <= n THEN p + 1 ELSE Eof
      /\ Advance(cut, Eof, 1) = Eof /\ LoadPaletteContainer(cut, Eof) = NoSection
  <2>1. Advance(cut, p, 1) = IF p + 1 <= n THEN p + 1 ELSE Eof
    <3> HIDE DEF cut
    <3>1. QED
      BY <1>1, <1>4 DEF Advance, Eof
  <2>2. QED
    BY <2>1, EofSkipped
<1> DEFINE section == Loaded(k, p + 1 + a)
<1>10. section.bits = k.bits /\ section.end = p + 1 + a
  BY DEF Loaded
<1>11. section # NoSection
  BY <1>4, <1>10 DEF NoSection, Eof
<1> DEFINE start == SectionStarts(cut, slot)[slot]
           read == LoadPaletteContainer(cut, Advance(cut, start, 1))
<1>12. LoadSection(cut, slot) =
          IF read = NoSection \/ SkipPaletteContainer(cut, read.end, BiomeSize) = Eof
          THEN NoSection ELSE read
  BY DEF LoadSection
<1>13. read = IF p + 1 + a <= n THEN section ELSE NoSection
  <2> HIDE DEF section, cut
  <2>1. CASE p > n
    BY <1>1, <1>4, <1>9, <2>1
  <2>2. CASE p <= n /\ p + 1 > n
    BY <1>1, <1>4, <1>9, <2>2
  <2>3. CASE p + 1 <= n
    <3>1. read = LoadPaletteContainer(cut, p + 1)
      BY <1>1, <1>4, <1>9, <2>3
    <3>2. QED
      BY <1>1, <1>4, <1>6, <1>7, <3>1 DEF section
  <2>4. QED
    BY <1>1, <1>4, <2>1, <2>2, <2>3
<1> HIDE DEF read, section, cut
<1>14. LoadSection(cut, slot) = IF at[slot + 1] <= n THEN section ELSE NoSection
  <2>1. CASE p + 1 + a > n
    <3>1. read = NoSection /\ ~(at[slot + 1] <= n)
      BY <1>1, <1>3, <1>4, <1>13, <2>1
    <3>2. QED
      BY <1>12, <3>1
  <2>2. CASE p + 1 + a <= n
    <3>1. read = section
      BY <1>13, <2>2
    <3>2. SkipPaletteContainer(cut, read.end, BiomeSize) = Eof <=> ~(at[slot + 1] <= n)
      BY <1>1, <1>3, <1>4, <1>8, <1>10, <3>1 DEF Eof
    <3>3. QED
      BY <1>11, <1>12, <3>1, <3>2
  <2>3. QED
    BY <1>1, <1>4, <2>1, <2>2
<1>15. QED
  BY <1>5, <1>14 DEF section, cut, k

-----------------------------------------------------------------------------

(* The index of a block is one of the container.                           *)
LEMMA BlockIndexIn ==
    ASSUME NEW x \in 0 .. Edge - 1, NEW y \in 0 .. Edge - 1, NEW z \in 0 .. Edge - 1
    PROVE  BlockIndex(x, y, z) \in 0 .. Size - 1
<1>1. Edge \in Nat \ {0} /\ Edge * Edge \in Nat \ {0}
  BY BlockLookupAssumption
<1> DEFINE row == Edge * y + z
<1>2. row \in 0 .. Edge * Edge - 1
  BY <1>1, TwoDigits
<1>3. BlockIndex(x, y, z) = Edge * row + x
  BY <1>1 DEF BlockIndex
<1>4. Edge * row + x \in 0 .. (Edge * Edge) * Edge - 1
  <2> DEFINE square == Edge * Edge
  <2> HIDE DEF row, square
  <2>1. square \in Nat \ {0} /\ row \in 0 .. square - 1
    BY <1>1, <1>2 DEF square
  <2>2. Edge * row + x \in 0 .. square * Edge - 1
    BY <1>1, <2>1, TwoDigits
  <2>3. QED
    BY <2>2 DEF square
<1>5. QED
  BY <1>3, <1>4 DEF Size

(* Shift and mask take a value out of its bits.                            *)
LEMMA BitsTaken ==
    ASSUME NEW w, NEW shift \in Nat, NEW bits \in Nat, NEW v \in Nat, HasBits(w, shift, bits, v)
    PROVE  (w \div Pow2(shift)) % Pow2(bits) = v
<1> DEFINE a == Pow2(shift)
           b == Pow2(bits)
<1>1. a \in Nat \ {0} /\ b \in Nat \ {0}
  BY PowerIsPositive
<1>2. PICK high, low \in Nat : v < b /\ low < a /\ w = a * (b * high + v) + low
  BY DEF HasBits
<1> HIDE DEF a, b
<1> DEFINE q == b * high + v
<1>3. q \in Int /\ low \in 0 .. a - 1 /\ v \in 0 .. b - 1 /\ high \in Int
  BY <1>1, <1>2
<1>4. w = a * q + low
  BY <1>2
<1>5. q = b * high + v
  OBVIOUS
<1> HIDE DEF q
<1>6. w \in Int
  BY <1>1, <1>3, <1>4
<1>7. w \div a = q
  BY <1>1, <1>3, <1>4, <1>6, DivMod
<1>8. q % b = v
  BY <1>1, <1>3, <1>5, DivMod
<1>9. QED
  BY <1>7, <1>8 DEF a, b

(* A block of a container that was read: its long and its bits.            *)
LEMMA BlockFound ==
    ASSUME NEW k, IsContainer(k, Size), NEW end,
           NEW x \in 0 .. Edge - 1, NEW y \in 0 .. Edge - 1, NEW z \in 0 .. Edge - 1
    PROVE  GetBlockFromSection(Loaded(k, end), x, y, z) = StateOf(k, BlockIndex(x, y, z))
<1> DEFINE palette == k.palette
           longs == k.longs
           bits == k.bits
           index == k.index
           i == BlockIndex(x, y, z)
           v == index[i]
           per == ValuesPerLong(bits)
           long == i \div per
           shift == (i % per) * bits
           section == Loaded(k, end)
<1>1. i \in 0 .. Size - 1
  BY BlockIndexIn
<1>2. /\ bits \in Nat /\ palette \in Seq(Nat) /\ longs \in Seq(Nat) /\ index \in [0 .. Size - 1 -> Nat]
      /\ Len(palette) \in Nat /\ Len(longs) \in Nat
      /\ bits # 0 => bits \in 1 .. LongBits
  BY Sizes, ContainerParts, BlockLookupAssumption
<1>3. v \in Nat /\ v < Len(palette)
  BY <1>1, <1>2 DEF IsContainer
<1>4. StateOf(k, i) = palette[v + 1]
  BY DEF StateOf
<1>5. CASE bits = 0
  <2>1. Len(palette) = 1
    BY <1>5 DEF IsContainer
  <2>2. v = 0
    <3> HIDE DEF v, palette
    <3>1. QED
      BY <1>3, <2>1
  <2>3. section.bits = 0 /\ section.value = palette[1]
    BY <1>5 DEF Loaded
  <2>4. GetBlockFromSection(section, x, y, z) = palette[1]
    BY <2>3 DEF GetBlockFromSection
  <2>5. QED
    BY <1>4, <2>2, <2>4
<1>6. CASE bits # 0
  <2>1. /\ per * (Len(longs) - 1) < Size /\ Size <= per * Len(longs)
        /\ HasBits(longs[long + 1], shift, bits, v)
    BY <1>1, <1>6 DEF IsContainer, ValuesPerLong
  <2>2. section.bits = bits /\ section.palette = palette /\ section.longs = longs
    BY <1>6 DEF Loaded
  <2>3. per \in Nat \ {0}
    BY <1>2, <1>6, PerLong
  <2> DEFINE value == (longs[long + 1] \div Pow2(shift)) % Pow2(bits)
  <2>4. GetBlockFromSection(section, x, y, z) =
          IF long >= Len(longs) \/ value >= Len(palette) THEN Air ELSE palette[value + 1]
    <3>1. ValuesPerLong(section.bits) # 0 /\ section.bits # 0
      BY <1>6, <2>2, <2>3
    <3> HIDE DEF section, palette, longs, bits
    <3>2. QED
      BY <2>2, <3>1 DEF GetBlockFromSection
  <2> HIDE DEF i, per, palette, longs, bits, index, section
  <2>5. long \in Int /\ i % per \in 0 .. per - 1 /\ i = per * long + (i % per) /\ i \in Int
    BY <1>1, <2>3, Divided
  <2>6. shift \in Nat
    <3>1. i % per \in Nat
      BY <2>3, <2>5
    <3>2. QED
      BY <1>2, <3>1
  <2>7. long < Len(longs)
    <3> DEFINE b == Len(longs)
    <3>1. b \in Int /\ i < per * b
      BY <1>1, <1>2, <2>1, <2>3, <2>5, Sizes
    <3> HIDE DEF long, b
    <3> SUFFICES ASSUME long - b >= 0 PROVE FALSE
      BY <2>5, <3>1 DEF b
    <3>2. per * (long - b) >= 0
      <4>1. long - b \in Nat /\ per \in Nat
        BY <2>3, <2>5, <3>1
      <4> DEFINE d == long - b
      <4>2. d \in Nat
        BY <4>1
      <4> HIDE DEF d
      <4>3. per * d >= 0
        BY <4>1, <4>2
      <4>4. QED
        BY <4>3 DEF d
    <3>3. per * (long - b) = per * long - per * b
      BY <2>3, <2>5, <3>1
    <3>4. QED
      BY <2>3, <2>5, <3>1, <3>2, <3>3
  <2>8. value = v
    <3> HIDE DEF shift, v, long
    <3>1. QED
      BY <1>2, <1>3, <2>1, <2>6, BitsTaken
  <2>9. QED
    <3> HIDE DEF value, v, long
    <3>1. ~(long >= Len(longs)) /\ ~(value >= Len(palette))
      BY <1>2, <1>3, <2>5, <2>7, <2>8
    <3>2. QED
      BY <1>4, <2>4, <2>8, <3>1 DEF i, section
<1>7. QED
  BY <1>5, <1>6

-----------------------------------------------------------------------------

(* The world's lowest and highest blocks.                                  *)
MinY == MinSection * Edge
MaxY == MinY + SectionCount * Edge - 1

(* The state of a block of a chunk, x and z relative to the chunk.         *)
ServersBlock(column, x, y, z) ==
    StateOf(column[(y \div Edge) - MinSection].blocks,
            (((y % Edge) * Edge) + z) * Edge + x)

(* The section of a height, and the height in it.                          *)
LEMMA SectionOf ==
    ASSUME NEW y \in Int
    PROVE  /\ (y \div Edge) - MinSection \in Slots <=> y \in MinY .. MaxY
           /\ y - (y \div Edge) * Edge = y % Edge
           /\ y % Edge \in 0 .. Edge - 1
<1> DEFINE q == y \div Edge
           r == y % Edge
<1>1. Edge \in Nat \ {0} /\ q \in Int /\ r \in 0 .. Edge - 1 /\ y = Edge * q + r
  BY BlockLookupAssumption, Divided
<1> DEFINE a == MinSection
           n == SectionCount
<1>2. a \in Int /\ n \in Nat
  BY BlockLookupAssumption DEF MinSection
<1> HIDE DEF q, r, a, n
<1>3. q - a >= 0 <=> y >= a * Edge
  <2>1. CASE q - a >= 0
    <3> DEFINE d == q - a
    <3>1. d \in Nat /\ Edge \in Nat
      BY <1>1, <1>2, <2>1
    <3> HIDE DEF d
    <3>2. Edge * d >= 0
      BY <3>1
    <3>3. Edge * d = Edge * q - Edge * a
      BY <1>1, <1>2 DEF d
    <3>4. QED
      BY <1>1, <1>2, <2>1, <3>2, <3>3
  <2>2. CASE q - a < 0
    <3> DEFINE d == a - q
    <3>1. d \in Int /\ d >= 1
      BY <1>1, <1>2, <2>2
    <3> HIDE DEF d
    <3>2. Edge * d >= Edge
      BY <1>1, <3>1, Scaled
    <3>3. Edge * d = Edge * a - Edge * q
      BY <1>1, <1>2 DEF d
    <3>4. QED
      BY <1>1, <1>2, <2>2, <3>2, <3>3
  <2>3. QED
    BY <1>1, <1>2, <2>1, <2>2
<1>4. q - a < n <=> y < a * Edge + n * Edge
  <2>1. CASE q - a < n
    <3> DEFINE d == n + a - q
    <3>1. d \in Int /\ d >= 1
      BY <1>1, <1>2, <2>1
    <3> HIDE DEF d
    <3>2. Edge * d >= Edge
      BY <1>1, <3>1, Scaled
    <3>3. Edge * d = Edge * n + Edge * a - Edge * q
      BY <1>1, <1>2 DEF d
    <3>4. QED
      BY <1>1, <1>2, <2>1, <3>2, <3>3
  <2>2. CASE q - a >= n
    <3> DEFINE d == q - a - n
    <3>1. d \in Nat /\ Edge \in Nat
      BY <1>1, <1>2, <2>2
    <3> HIDE DEF d
    <3>2. Edge * d >= 0
      BY <3>1
    <3>3. Edge * d = Edge * q - Edge * a - Edge * n
      BY <1>1, <1>2 DEF d
    <3>4. QED
      BY <1>1, <1>2, <2>2, <3>2, <3>3
  <2>3. QED
    BY <1>1, <1>2, <2>1, <2>2
<1>5. q - a \in Slots <=> y \in MinY .. MaxY
  <2>1. Slots = 0 .. n - 1 /\ MinY = a * Edge /\ MaxY = a * Edge + n * Edge - 1
    BY DEF Slots, MinY, MaxY, a, n
  <2>2. a * Edge \in Int /\ n * Edge \in Int
    BY <1>1, <1>2
  <2>3. QED
    BY <1>1, <1>2, <1>3, <1>4, <2>1, <2>2
<1>6. y - q * Edge = r
  BY <1>1
<1>7. QED
  BY <1>1, <1>5, <1>6 DEF q, r, a

(* The sections as a lookup has them.                                      *)
LoadedSections(data) == [slot \in Slots |-> LoadSection(data, slot)]

(* A block of a chunk, by its place in the chunk.                          *)
LEMMA ChunkBlockFound ==
    ASSUME NEW data \in Seq(Nat), NEW n \in 0 .. Len(data),
           NEW column, NEW at, IsChunk(data, column, at),
           NEW x \in 0 .. Edge - 1, NEW y \in Int, NEW z \in 0 .. Edge - 1
    PROVE  ChunkGetBlockAt(LoadedSections(First(data, n)), x, y, z) =
               IF y \in MinY .. MaxY /\ at[(y \div Edge) - MinSection + 1] <= n
               THEN ServersBlock(column, x, y, z) ELSE Air
<1> DEFINE slot == (y \div Edge) - MinSection
           cut == First(data, n)
           sections == LoadedSections(cut)
           r == y % Edge
<1>1. /\ slot \in Slots <=> y \in MinY .. MaxY
      /\ y - (y \div Edge) * Edge = r
      /\ r \in 0 .. Edge - 1
  BY SectionOf
<1>2. ChunkGetBlockAt(sections, x, y, z) =
         IF slot \notin Slots \/ sections[slot] = NoSection THEN Air
         ELSE GetBlockFromSection(sections[slot], x, r, z)
  BY <1>1 DEF ChunkGetBlockAt, Slots
<1>3. CASE slot \notin Slots
  BY <1>1, <1>2, <1>3
<1>4. CASE slot \in Slots
  <2> DEFINE k == column[slot].blocks
             whole == at[slot + 1] <= n
  <2>1. PICK end \in Nat : LoadSection(cut, slot) = IF whole THEN Loaded(k, end) ELSE NoSection
    BY <1>4, SectionLoaded
  <2>2. sections[slot] = IF whole THEN Loaded(k, end) ELSE NoSection
    BY <1>4, <2>1 DEF LoadedSections
  <2>3. IsContainer(k, Size)
    BY <1>4 DEF IsChunk, IsSection
  <2>4. ServersBlock(column, x, y, z) = StateOf(k, BlockIndex(x, r, z))
    BY DEF ServersBlock, BlockIndex
  <2>5. y \in MinY .. MaxY
    BY <1>1, <1>4
  <2> HIDE DEF k, slot, sections, r, cut, whole
  <2>6. Loaded(k, end) # NoSection
    <3>1. k.bits \in Nat
      BY <2>3, Sizes, ContainerParts, BlockLookupAssumption
    <3>2. Loaded(k, end).bits = k.bits
      BY DEF Loaded
    <3>3. QED
      BY <3>1, <3>2 DEF NoSection, Eof
  <2>7. GetBlockFromSection(Loaded(k, end), x, r, z) = StateOf(k, BlockIndex(x, r, z))
    BY <1>1, <2>3, BlockFound
  <2>8. CASE whole
    <3>1. ChunkGetBlockAt(sections, x, y, z) = GetBlockFromSection(Loaded(k, end), x, r, z)
      BY <1>2, <1>4, <2>2, <2>6, <2>8
    <3>2. QED
      BY <2>4, <2>5, <2>7, <2>8, <3>1 DEF sections, cut, whole, slot
  <2>9. CASE ~whole
    <3>1. ChunkGetBlockAt(sections, x, y, z) = Air
      BY <1>2, <2>2, <2>9
    <3>2. QED
      BY <2>9, <3>1 DEF sections, cut, whole, slot
  <2>10. QED
    BY <2>8, <2>9
<1>5. QED
  BY <1>3, <1>4

NoChanges == [b \in {} |-> NotLoaded]

(* The one loaded chunk is that of a point.                                *)
ChunkOf(x, z) == <<Floor(x) \div Edge, Floor(z) \div Edge>>

(* Lookups in a loaded chunk (World.GetBlockAt, ChunkData.GetBlockAt,      *)
(* loadSection and what it parses): of data that holds the sections a      *)
(* server sends, with any edge, longs, palettes and bits, the first n      *)
(* numbers have arrived.  A lookup at any point of the chunk finds the     *)
(* server's block if its section has arrived as a whole, and air if it     *)
(* has not, and above and below the world: never another block.  y is      *)
(* whole, or not negative: below zero a fraction is cut off where it       *)
(* should be rounded down.                                                 *)
THEOREM LoadedBlocksFound ==
    ASSUME NEW data \in Seq(Nat), NEW n \in 0 .. Len(data),
           NEW column, NEW at, IsChunk(data, column, at),
           NEW x \in Int, NEW y \in Int, NEW z \in Int, y >= 0 \/ y % 2 = 0
    PROVE  GetBlockAt([c \in {ChunkOf(x, z)} |-> LoadedSections(First(data, n))],
                      NoChanges, x, y, z) =
               IF Floor(y) \in MinY .. MaxY /\ at[(Floor(y) \div Edge) - MinSection + 1] <= n
               THEN ServersBlock(column, Floor(x) % Edge, Floor(y), Floor(z) % Edge)
               ELSE Air
<1> DEFINE a == Floor(x)
           b == Floor(y)
           d == Floor(z)
           cut == First(data, n)
           chunk == <<a \div Edge, d \div Edge>>
           columns == [c \in {chunk} |-> LoadedSections(cut)]
<1>1. a \in Int /\ b \in Int /\ d \in Int
  BY FloorIs
<1>2. Truncate(y) = b
  BY DEF Truncate, Floor
<1>3. a % Edge \in 0 .. Edge - 1 /\ d % Edge \in 0 .. Edge - 1
  BY <1>1, Sizes, Divided
<1>4. ToBlockCoords(x, y, z) = <<a, b, d>> /\ ChunkOf(x, z) = chunk
  BY DEF ToBlockCoords, ChunkOf
<1> HIDE DEF a, b, d
<1>5. columns[chunk] = LoadedSections(cut) /\ chunk \in DOMAIN columns
  OBVIOUS
<1>6. GetBlockAt(columns, NoChanges, x, y, z) =
         ChunkGetBlockAt(LoadedSections(cut), a % Edge, b, d % Edge)
  BY <1>2, <1>4, <1>5 DEF GetBlockAt, NoChanges
<1>7. ChunkGetBlockAt(LoadedSections(cut), a % Edge, b, d % Edge) =
         IF b \in MinY .. MaxY /\ at[(b \div Edge) - MinSection + 1] <= n
         THEN ServersBlock(column, a % Edge, b, d % Edge) ELSE Air
  BY <1>1, <1>3, ChunkBlockFound
<1>8. QED
  BY <1>4, <1>6, <1>7 DEF a, b, d

=============================================================================
