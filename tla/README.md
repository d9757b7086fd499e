# mc-bot-go: specifications and proofs

TLA+ models of mc-bot-go, a Go library of Minecraft bots, the TLC runs that
check them on small instances, and TLAPS proofs about every part that is
modelled but the hash of an item. The models are written from the code under
`src/`. `PROJECT.json`
gives, for every definition that models code, the file and the lines it models,
and lists the runs, the mutated definitions each property is tried against, the
findings, the theorems, and the hazards with the properties that cover them.

    tlc -workers 2 -config MCConn.cfg MCConn     a run
    tlapm GameLoopProofs.tla                     the proofs

## 1. The system

A program creates a `bot.Client`, joins a server with `JoinServer`, then calls
`HandleGame`, which reads packets until an error. Packages register handlers
with `Events`; each keeps a piece of the game's state. Any other goroutine may
write packets and look at that state while `HandleGame` runs.

| part | code | state | operations |
|---|---|---|---|
| connection | `bot/client.go`, type `Conn` | socket, queues `recv` and `send`, `rerr`, `closed`, context | `ReadLoop`, `WriteLoop` (a goroutine each), `ReadPacket`, `WritePacket`, `Close` |
| play loop | `bot/ingame.go`, `bot/replay.go` | the packet in hand, the open bundle, the buffer pool, the replay | `HandleGame`, `handleBundlePackets`, `handlePacket`, `recordClientbound` |
| handler registry | `bot/event.go` | handlers by packet ID and priority | `AddListener`, `AddGeneric`; read by `handlePacket` |
| join | `bot/mcbot.go`, `bot/login.go`, `bot/configuration.go` | phase, cipher, compression; cookies, registries, report details, resource packs of the client | `join`, `joinLogin`, `joinConfiguration` |
| screen manager | `bot/screen/screen.go` and the containers | open windows, inventory, cursor, state ID, update counter | eight packet handlers, `ForceCloseScreen`, `ContainerClick`, `SetCursor`, `OpenScreen` |
| container types | `bot/screen/registry_loader.go`, `generic_container.go` | the live registry of a manager; a process-wide table | built at the first window, registered, loaded entry by entry |
| slots and hashes | `bot/screen/hashops.go`, `slot_codec.go` | the component table, chosen process-wide | reading a slot, writing it into a click, hashing its data |
| world | `bot/world` | chunk columns, each with a cache of parsed sections; block overrides | seven packet handlers, `GetBlockAt` |
| player | `bot/basic` | player and world info, settings, cookies, the read deadline | login, respawn, keep-alive, ping, health, teleport, cookies, events |
| player list, chat | `bot/playerlist`, `bot/msg` | players by UUID | update and remove; chat of listed players |
| server list ping | `bot/pinglist.go`, `utils/checkServerVersion.go` | none | one request and its answer, under a deadline |

### How the parts interact

- `JoinServer` reads and writes the socket alone, on one goroutine. When it is
  through, `wrapConn` hands the socket to `ReadLoop` and `WriteLoop`, and
  nobody else touches it, but for the read deadline: keep-alive handling sets it.
- `ReadLoop` and `HandleGame` share `recv` and the buffer pool: a payload
  goes from the pool to a packet in the queue, to the handler, and back.
- All packet handlers run on the goroutine of `HandleGame`, one at a time, in
  the order of the registry. They call `WritePacket` and the user's listeners,
  and may register more handlers.
- The user's goroutines call `WritePacket`, `ForceCloseScreen`,
  `ContainerClick` and `GetBlockAt` at any moment. Locks make single sections
  atomic; most operations have two or three sections.
- Replay and movement mirror are callbacks, called on the goroutine that reads,
  respectively writes, a packet.
- Client, handlers, player and player list outlive a session: another
  `JoinServer` goes on with them.
- All managers of a process share the container table and the component table.
- Chat looks its senders up in the player list.

### What is hard

- *Ends.* A socket that fails, a full queue, a cancelled context and `Close`
  end the loops at any point. What was queued before has to come out in order,
  and the reader has to be told why. `JoinServer` and `HandleGame` are given a
  context each.
- *Sections.* `onOpenScreen` and `ContainerClick` take their lock twice,
  every notification is sent after the lock was released, `GetBlockAt` takes
  three locks one after the other.
- *Ownership.* Payload buffers are reused, across packets held back by a
  bundle. A handler slice is appended to and sorted while a loop runs over it.
- *Delay.* The server's packets answer a state the client has left: state IDs
  lag behind clicks, updates are addressed to windows already closed. A slow
  handler delays the renewal of the deadline by all that waits in the queue,
  and the default queue has no limit.
- *Partial failure.* A handler fails in the middle of a bundle; a join fails
  half way and the client joins again; an error is assigned to a shadowed
  variable; a chunk's data ends in the middle of a section.
- *Staleness.* Tables built from the first server serve the second one, or
  change under a slot between its reading and a click with it. What is known of
  a menu is written down in two tables that differ.
- *Arithmetic.* Floors and masks of negative coordinates, indices packed into
  longs, hashes that must not depend on the order of a Go map.

The hazards, with file and line, are in `PROJECT.json`.

### What makes each part correct

| part | properties |
|---|---|
| connection | nothing lost, doubled or reordered in either direction; the end is reported after the last packet, with its cause, for good; an accepted packet is written unless the connection breaks; `Close` ends both goroutines |
| play loop | a buffer belongs to one packet at a time; packets are handled in the order received, those of a bundle not before its end; the replay is what was received; a dead socket ends the loop |
| handler registry | each packet runs the handlers due for it, each once, by priority and then by age |
| join | every request answered in order; cipher and compression from the right packet on; the cookies answered are the last stored; the replay misses nothing from the login success on |
| screen manager | what the listener was told adds up to what is open; each change is counted; a window's update changes only rows it shows; clicks declare distinct state IDs; once all packets are handled, client and server agree |
| container types, slots | a window has the slots of the server's menu, which the code has to know; a click names the component the server sent, and its hash stands for the whole item |
| world | a lookup gives a value that was current during it; an unloaded or respawned world leaves nothing behind; a listener told of a chunk finds it; a lookup finds the block the server packed |
| player, player list, chat | player and list are what the server said; requests are answered once; a listed player's message is heard, once and in order |
| deadlines | a server that sends keep-alives in time is not timed out while the queue can be cleared in time, one that falls silent ends the game; a ping returns, and success means the server answered |

## 2. Modules

    PacketChannel      abstract: a bounded queue that can break
    Conn               bot/client.go, implements PacketChannel twice
      GameLoop           EXTENDS Conn: play loop, pool, replay
        GameLoopProofs     theorems about Conn and GameLoop
    Events             bot/event.go and the loops of handlePacket
      PlaySession        EXTENDS Events: bot/basic, playerlist, msg over several sessions
        PlaySessionProofs  theorems about both
    KeepAlive          bot/basic/keepalive.go and the goroutines around it
    ServerPing         bot/pinglist.go, utils/checkServerVersion.go
      Deadlines          EXTENDS both, on one clock
        DeadlineProofs     theorems about Deadlines
    Join               login and configuration
      JoinProofs         theorems about Join
    ScreenManager      bot/screen
      ScreenSession      EXTENDS ScreenManager: with a server and two links
        ScreenProofs       theorems about both
    Versions           container types and component tables
    BlockLookup        the arithmetic and the parsing of a block lookup
    ItemHash           the hash of an item's data
      Formats            EXTENDS the three
      FormatProofs       theorems about Versions and BlockLookup
    World              bot/world, at the grain of its locks
      WorldProofs        theorems about World
    Filters            the elements of a sequence that are in a set
      FilterProofs       lemmas about them, for the proofs about GameLoop and
                         PlaySession, and induction, which JoinProofs and
                         FormatProofs use too

`MCConn`, `MCGameLoop`, `MCScreenManager`, `MCScreenSession`, `MCWorld`,
`MCPlaySession` and `MCFormats` give values to the constants that a `.cfg`
cannot write, or name model values and symmetries; `Join` and `Deadlines` are
checked as they stand.
Operators whose names say what they break (`ReadLoopPacketDrops`,
`ForceCloseSilently`, ...) stand before the definition they are a wrong form
of, and no specification uses them: each property is violated when one of
them replaces its definition.

**PacketChannel.** A queue of packets, the packets handed over and whether the
receiving end is alive. `Put`, `Get`, `Break`; a broken channel takes packets
and hands none over.

**Filters.** `Kept(s, S)`: properties that compare two histories of different
grain (all packets received and the ordinary ones handled; all that was said and
the requests) keep of one what the other has, and `Events` puts a handler among
the others by the priorities it keeps before and behind it. It is a recursive
function, so that it can be reasoned about.

**Conn.** One action for each step between two points where another goroutine
can get in: `ReadLoopSelect` (the context is looked at), `ReadLoopPacket` and
`ReadLoopFail` (the socket read, then the push), `ReadLoopClose` (the deferred
close of `recv`); the same for `WriteLoop`; `WritePacketCheck` (`closed`),
`WritePacketMirror`, `WritePacketPush`; `CloseFlag`, `CloseSend`, `CloseSocket`;
`ReadPacketTake`, `ReadPacketError`. `SocketDown` and `Cancel` are the
environment. The queues are `mc-net`'s: what `Push`, `Pull` and `Close` do is taken
from how `client.go` uses them.

**GameLoop.** `HandleGame` joined with the receive side of `Conn`. A packet is
an ID and a payload buffer; `ReadLoopGet` takes a buffer from the pool and
`ReadLoopFill` receives into it. `zeroId` is the ID whose number is 0, chosen in
`GameInit`, because the zero packet that `ReadPacket` returns with a nil error
after a cancellation is handled as a packet with that ID. There are two
contexts: `ctxDone`, of `Conn`, is the one given to `JoinServer`, at which
`ReadLoop` looks; `gameCtxDone` is the one given to `HandleGame`. `CancelGame` ends
the latter, and `ReadsNothing` is where `HandleGame` is left when only the former
has ended: every read is a zero packet, which it handles. `MaxPhantoms` bounds how
many of them there are. A packet's handlers are one handler that may fail; the
loops over them are in `Events`.

**Events.** A Go slice is `[list, cap]`. A `for range` takes array and length
once; `append` writes into the array while it has room, and the sort then
reorders what a running loop reads. So a handler that registers another one for
the packet being dispatched may make the loop run a handler twice and leave out
the last. `loop.shifted` remembers that this happened.

**PlaySession.** The handlers of `NewPlayer`, `EventsListener`,
`World.onPlayerSpawn`, the player list and the chat, registered in any order the
user makes them, each run by `HandlePacketSpecific` in the order of the
registry. The user's listeners do what the comments of `EventsListener` say:
`Death` asks for a respawn, `Teleported` accepts, `GameStart` may make a `World`
or add a listener. The client goes on through `MaxJoins` sessions. A session's
first packet is its login; otherwise the server sends anything.
`truth`, `asked` and `said` are the histories of what it said.

**KeepAlive, ServerPing, Deadlines.** `capacity` is what the receive queue of the
connection takes: `JoinOptions.QueueRead` may be bounded, and is not if none is
given (`mcbot.go:77-78`). `longest` remembers the most that has waited in it.
Discrete time: every timer is the number
of ticks left, and `Tick` may only happen when no goroutine has a step to take
(`KeepMayTick`, `PingMayTick`); only a handler may take time, up to
`HandlerTime`. The two components run one after the other on one clock, as a
program that asks a server for its status and then plays there.

**Join.** `Dial` to `OnFinishConfiguration`, one action per packet type, each
reading, recording, handling and answering; each may fail, which ends the join
with an error; another `Dial` may follow. `handler` is whether
`SetVersionHandler` was called, which chooses between two ways to acknowledge
the login. `trail` is the history of packets read and written that the
properties speak of, and `recorded` the places in it of what the replay was
given. A packet of report details may fail to parse part way; the entries before
that stay.

**ScreenManager.** `thread` says where each goroutine is between two sections.
`OnOpenScreen` evicts, `NotifyEvicted`, `InstallWindow` and `NotifyOpen` follow;
`OnCloseScreen` and `ForceCloseScreen` remove under the lock and notify after
it. Content packets carry too much data or indices out of bounds as well
(`Data`): the handler then returns an error part way. An error, its own or a
listener's, ends `HandleGame` (`Stopped`). `balance[id]` counts opens minus
closes the listener heard.

**ScreenSession.** `ScreenManager` fed by a server through `link`, and answered
through `uplink`. The server does what comments in `screen.go` say of it (lines
252-257, 724-726, 1121-1128); it is not in the repository. `clientCloses` and
`dropped` remember that the client closed a window and that a packet met a
closed one.

**Versions.** Bots of two eras, before and since 1.21.5, in one process.
`NewManager` chooses the component table for all of them; `OnOpenScreen` builds
the manager's menus from the registry of the server it is on, once, with the slot
counts of `Metadata` (`containerMetadata`); the process-wide table, with counts of
its own (`Snapshot`), is the fallback and is changed by `RegisterContainerType`
and, entry by entry, by `LoadContainerTypes`. How many slots a menu really has is
the server's (`slots`) and need not be what either table says: for a beacon the
tables differ from one another, and from the document. `KnowsMenu` is that
`Metadata` has it as the server has. `OnSetSlot` keeps a slot's
component under the number the table in force gives it, `ContainerClick` writes
it back. `window` and `click` record what came of a bot's last act, for the
properties only.

**BlockLookup, ItemHash.** Pure operators: floors, chunk and section of a point,
the skipping of sections, the unpacking of indices; the hash of a tree of values.
`BlockLookup` is written with functions and is proved about; the hash follows a
tree, with RECURSIVE operators, and is not.

**Formats.** A behaviour either is one of `Versions`, or takes one probe, an
input of the pure operators, so that the two add up and do not multiply. `Cut`
shortens a chunk's data by one number at a time. What a server packs
(`SectionData`, `Packed`) is written from the protocol and is the reference
the lookups are compared with.

**World.** Each locked section is a step, of a handler or of a lookup. A chunk
has one section. `view` is what every block is after the last handler that
ended, `next` after the one that runs, and `legal` what a running lookup may
still answer.

## 3. Runs

A passing run finishes without error; between them the passing runs take every
action of the next-state relations. A run that is to find a violation checks
one property, what a comment or a document of the repository says; they are in
section 6.

| run | what it shows | bounds |
|---|---|---|
| `conn` | `PerWriterOrder` and `SendIsChannel`: with the socket failing, the context cancelled and `Close` at any step, the packets of one goroutine reach the socket in the order of its calls, after the mirror was shown them, and nothing follows a lost one. With fairness `AcceptedIsWritten`, `CloseEndsLoops`. `TypeOK`. | 2 writers of 2 calls, queue of 2: it overflows, and two calls of one goroutine can be queued; 1 inbound packet |
| `game_loop` | `ReadInOrder` and `RecvIsChannel`: what `ReadPacket` returned and what waits is what came off the socket, less the one packet that may find the queue full. `ErrorTellsTheCause`. `BufferHasOneOwner`, `HandledInOrder`, `BundleIsHeldBack`, `ReplayMatchesHandling`, with a handler that fails or a cancellation of either context at any step. With fairness `DeadSocketEndsGame`, also from inside a bundle: `HandleGame` returns, or is left in `ReadsNothing` until its own context ends. | 5 packets, of one plain ID or delimiters (their buffers tell them apart), queue of 1: it overflows; bundle limit 3: an empty bundle, one of two packets, one cut off at the limit, a bundle before and after plain packets; 6 buffers, as many as can be out at once; 1 packet nobody sent while nothing tells `HandleGame` to stop, any number after |
| `screens` | `BalanceIsExplained` at every step. `ClicksAreDistinct`, whatever state IDs the server's packets carry. `ChangesAreCounted`, `WindowsTouchOnlyRows`. | one window ID, a layout with the player's rows and one without, so that a reopened ID meets evictions and late notifications; 2 user goroutines beside the game goroutine; an inventory of 4 slots; data one too long, indices out of bounds; state IDs 0 and 1, behind, level and ahead; 2 updates, 2 clicks |
| `session_server` | When the links are empty and all goroutines idle: `InventoryFresh` and `NeverBehind`, unless a packet met a window that was closed; `WindowsAgree`, if the client has closed none. | one window ID, opened twice: the packets of its first life meet its second; 1 change and 2 clicks, each answered; a goroutine that clicks and closes |
| `join` | With and without a version handler: `RequestsAreAnswered`, with the replay complete from the login success on, in order, without `SetCompression`; `CookiesAreLatest`, `FramesAgree`. | 4 packets over 2 joins, 2 cookie keys of 2 values: a cookie stored in one session and asked for, or replaced, in the next |
| `world` | `MapFollowsPackets` between handlers, and for a chunk that is announced; `LookupIsCurrent`: the answer of `GetBlockAt` was right at some moment of the call. `SectionParsedOnce`. | 3 packets, any of them: load, change, load again; load, change, forget; load, change, respawn. One chunk of 2 blocks, so that one packet changes two; 2 readers, any lookups; readers and blocks are symmetric |
| `play_session` | `DispatchRunsAll`, `RegistryInOrder`: what each packet ran, with handlers that register while it runs. `PlayerFollowsPackets`, `RequestsAreAnswered`, `PlayersFollowServer`, `ListedPlayersAreHeard` after each packet. | 4 packets over 2 joins, 2 players, 2 dimensions; a late listener of priority 0, 64 or 100, before, among and behind the others; player list and chat always made, the rest in any order; the players are symmetric |
| `deadlines` | `LiveServerIsKept`, `PingIsHonest`; with fairness `SilentServerEndsGame`, `PingReturns`. | a deadline of 6 ticks, keep-alives 2 apart, handlers of 1 tick: 2 packets can wait and be cleared in time, 2 + 3 < 6, and 3 cannot. A queue of 2, which overflows, and one without limit, in which the server lets up to 4 packets wait that it need not send: there a live server is timed out; a ping with a deadline of 2 ticks or none, 2 answers |
| `formats` | `WindowsHaveTheirSlots`, of menus that `containerMetadata` knows as the server does, and `ClickNamesTheComponent` while the shared tables change under two bots. `LookupIsTheBlock` at every half block of a chunk, one block above and below it included, from whole data and from data cut at every number; `HashIsOfTheWhole`. | 2 bots, 2 joins, 1 change of the process-wide table; servers of both eras, one with other numbers and a menu that is unknown; the code's slots of a chest, a hopper and a beacon; sections of edge 2, longs of 5 bits with up to 3 bits an index, so that an index never fills a long evenly; 2 sections, chunks at negative positions; checksums to 0..6, so that keys collide |

Sizes are parameters of the code's formulas: Edge 2 for 16, LongBits 5 for 64,
one main and one hotbar slot between two others for the 27 and 9. They are only
compared, shifted, divided and multiplied, and the small ones meet the same
cases: an index that straddles no two longs, a remainder that stays unused, the
first and the last row.

### Deadlock

Every run has `CHECK_DEADLOCK FALSE`: connections end, games return, joins fail
or succeed, and the bounds on packets and calls are used up. That nobody waits
for ever is left to the liveness properties.

## 4. Fairness

`conn`, `game_loop` and `deadlines` check liveness. The Go scheduler runs
every runnable goroutine, hence weak fairness of each goroutine's own steps.
Nothing else is assumed:

- a read on a live socket may block for ever, so `ReadLoop` owes a result only
  once the socket is down (`~socketUp /\ ReadLoopFail`) or its deadline has
  passed (`ReadLoopTimesOut`);
- a write succeeds or fails, as TCP does in the end (`WF_vars(WriteLoop)`);
- nobody has to call `WritePacket`, `Close` or cancel, or lose the socket; a
  call that was begun goes on;
- the user's reader calls `ReadPacket` again, as `HandleGame` does in its loop;
- handlers return (`WF_allVars(HandleGame)`, and in `Deadlines` within
  `HandlerTime`);
- in `Deadlines` time goes on (`WF_vars(Tick)`) and a dial ends. No server owes
  anything. `Backlog` bounds how many packets may wait when the server sends what
  it need not send; it sends its keep-alives whatever waits.

`AcceptedIsWritten` allows for the end of `WriteLoop`: after a failed write or a
cancellation `WritePacket` goes on accepting packets that are never sent, and
neither `closed` nor an error tells its caller. And there is no property that a
cancellation ends `HandleGame`. Its own context is only looked at between two
reads, so a `HandleGame` blocked in `ReadPacket` waits until `ReadLoop` is done
with a read of its own, which may be never: a program has to close the
connection as well. The context of `JoinServer` ends `ReadLoop` without an error,
and then `ReadPacket` neither waits nor fails: `HandleGame` handles zero packets,
for ever if its own context does not end, though the socket is dead
(`ReadsNothing`; `client.go:221`, `client.go:268`, `ingame.go:20`).
`DeadSocketEndsGame` says that this is the only way it goes on. Likewise `SilentServerEndsGame` is about a server that falls
silent after its login: before the login is handled there is no deadline.

## 5. Proofs

A theorem holds for every value of the constants that its module's assumption
admits. The assumptions ask for what the code has:

| module | for any | assuming |
|---|---|---|
| `GameLoopProofs`, of `Conn` | writers, packets, capacities and bounds | capacities of at least 1 (`ConnAssumption`) |
| `GameLoopProofs`, of `GameLoop` | packet IDs, buffers, bundle limit of at least 1 and bound on zero packets as well | a packet is an ID and a buffer (`GameAssumption`) |
| `PlaySessionProofs` | players, dimensions, late listeners, sessions, packets | priorities are natural numbers (`EventsAssumption`); the protocol has the IDs that are listened for (`PlayAssumption`) |
| `DeadlineProofs` | deadline, period, handler time, queues with and without limit, timeouts | they are at least 1; "no limit" and "no deadline" are not numbers (`KeepAliveAssumption`, `PingAssumption`) |
| `JoinProofs` | cookie keys, values, titles, registries, packets and joins | "no cookie" is not a cookie's value (`JoinAssumption`) |
| `WorldProofs` | chunks, blocks, states, readers and packets | "not loaded" is not a block state, air is one (`WorldAssumption`) |
| `ScreenProofs` | window IDs, layouts, items, goroutines, state IDs and bounds | the inventory has room for the player's rows; finitely many goroutines (`ScreenAssumption`). With the server: a layout has its own slots alone, or the player's rows after them, as each of `containerTypeRegistry` has (`SessionAssumption`, `generic_container.go:119-147`) |
| `FormatProofs`, of `Versions` | bots, servers and their menus' slots, both tables of container types, joins and changes of the process-wide tables | no two names of a server have one number, a registry's numbers being positions (`configuration.go:215-220`), and none of a component table has (`VersionsAssumption`). That a server's slots are the code's is no assumption but a condition of the property, `KnowsMenu` |
| `FormatProofs`, of `BlockLookup` | edge, bits of a long, biomes, height of the world | they are at least 1, heights at least 0 (`BlockLookupAssumption`) |

`ClicksCorrect` has a hypothesis of its own, that at most one goroutine clicks, as
in the run `screens`. Without it the property is false: `ContainerClick` builds the
click under one lock and advances the state ID under the next, and two goroutines
that click at once declare the same state.

| theorem | says |
|---|---|
| `TypeCorrect` | `Spec => []TypeOK` of `Conn`; with it, that neither queue exceeds its capacity |
| `OrderCorrect` | `Spec => []ReadInOrder` |
| `ErrorCorrect` | `Spec => []ErrorTellsTheCause` |
| `ErrorStays` | `Spec => ErrorIsFinal` |
| `RecvRefines`, `SendRefines` | `Spec => RecvIsChannel`, `Spec => SendIsChannel`: both directions implement `PacketChannel` |
| `WriterOrderCorrect` | `Spec => []PerWriterOrder` |
| `GameRunsConn` | `GameSpec => Spec`: the play loop uses the connection as `Conn` says |
| `GameOrderCorrect`, `GameErrorCorrect`, `GameRecvRefines` | what is proved of `Spec`, of `GameSpec` |
| `BufferCorrect` | `GameSpec => []BufferHasOneOwner` |
| `HandledCorrect` | `GameSpec => []HandledInOrder` |
| `ReplayCorrect` | `GameSpec => []ReplayMatchesHandling` |
| `HeldCorrect` | `GameSpec => []BundleIsHeldBack` |
| `StructureAlways` | `Spec => []StructInv` of `PlaySession`, the shape of registry and loop |
| `RegistryCorrect` | `Spec => []RegistryInOrder` |
| `DispatchCorrect` | `Spec => []DispatchRunsAll` |
| `PlayerCorrect` | `Spec => []PlayerFollowsPackets` |
| `RequestsCorrect` | `Spec => []RequestsAreAnswered` |
| `ListCorrect` | `Spec => []PlayersFollowServer` |
| `ChatCorrect` | `Spec => []ListedPlayersAreHeard` |
| `KeptCorrect`, `HonestCorrect` | `[]LiveServerIsKept` and `[]PingIsHonest` of `Deadlines` |
| `RequestsCorrect` | `Spec => []RequestsAreAnswered` of `Join` |
| `FramesCorrect` | `Spec => []FramesAgree` |
| `CookiesCorrect` | `Spec => []CookiesAreLatest` |
| `InvCorrect` | `Spec => []Inv` of `World`, the inductive invariant |
| `LookupCorrect` | `Spec => []LookupIsCurrent` |
| `MapCorrect` | `Spec => []MapFollowsPackets` |
| `ParsedOnceCorrect` | `Spec => []SectionParsedOnce` |
| `ScreenTypeCorrect` | `Spec => []ScreenTypeOK` of `ScreenManager` |
| `BalanceCorrect` | `Spec => []BalanceIsExplained` |
| `ChangesCorrect`, `RowsCorrect` | `Spec => ChangesAreCounted`, `Spec => WindowsTouchOnlyRows` |
| `ClicksCorrect` | `Spec => []ClicksAreDistinct`, for one clicking goroutine |
| `NeverBehindCorrect` | `SessionSpec => []NeverBehind` |
| `FreshCorrect` | `SessionSpec => []InventoryFresh` |
| `AgreeCorrect` | `SessionSpec => []WindowsAgree` |
| `WindowsCorrect` | `VersionsSpec => []WindowsHaveTheirSlots` |
| `ClickNameCorrect` | `VersionsSpec => []ClickNamesTheComponent` |
| `ChangedBlocksFound` | for any section and any changes of it, `ChangesAreFound(section, changes)`: what `LookupIsTheBlock` says of block changes |
| `LoadedBlocksFound` | from the first n numbers of any data that holds the sections of a chunk, `GetBlockAt` finds the server's block if its section ends within n, and air otherwise: what `LookupIsTheBlock` says of chunks, whole or cut |

### Connection

1. `TypeInv == TypeOK /\ WriterInv /\ HandInv`. `TypeOK` alone is not
   inductive: that the packet pushed is one of `Outbound` needs `WriterInv` (past
   its check a call has been counted), and that a written packet exists needs
   `HandInv` (`WriteLoop` holds a packet exactly while it writes it).
2. `RecvInv == LoopInv /\ AnswerInv /\ ReadInOrder`. `LoopInv` is the order of
   `ReadLoop`'s last statements: the error is in `rerr` before `recv` is closed,
   and there is no error only after a cancellation. `AnswerInv` says that what
   `ReadPacket` once found closed and empty stays so. They are inductive without
   the types; `ReadInOrder` needs both, because a push after `rerr = "full"` would
   make up for the lost packet in the wrong place.
3. `ErrorTellsTheCause` follows: with `recv` empty, `ReadInOrder` says that all was
   delivered. `ErrorIsFinal` follows from `AnswerInv` and the step.
4. For the refinements, `RecvFrame` and `SendFrame` list the steps of a side and
   say that all others leave it alone. The send side's abstract queue is
   `hand \o send`, so `WriteLoopPull` is a stutter (`MoveHead`), `WriteLoopWrite` the
   channel's `Get` (`HandSplit`) and a push its `Put` (`AppendRight`).
5. `PerWriterOrder` is about the wire, and the wire alone says nothing about the
   packets still to come. `WriteInv == CallsInv /\ MirrorInv /\ WireInv`: packets
   of one goroutine are accepted in the order of its calls, each before the next
   call begins; the mirror was shown each; and the wire is the beginning of
   `accepted`, with `hand \o send` as the rest while `WriteLoop` runs.

### Play loop

6. `GameRunsConn`: each step of `GameLoop` is a step of `Conn` or leaves it alone
   (`ConnSteps`), so the theorems about `Conn` hold of the play loop. What comes
   on top is `GameTypeInv == TypeInv /\ RecvInv /\ GameTypeOK /\ ControlInv /\
   LimitInv`: what `HandleGame` and `ReadLoop` hold at each point of their code,
   and that a bundle stops growing at the limit.
7. `OwnInv`: a buffer is in at most one of the queue, the packet at hand, the
   opening delimiter, the bundle and `ReadLoop`'s hand, and is in the pool at most
   once, and only if it is in none of them. Two packets of a queue or a bundle
   have different buffers. A step moves one buffer from one place to another.
8. `Line == handled \o bundle \o current` is what was and what will be handled.
   The steps of a bundle move packets along the line and leave it as it is; the
   ordinary packets on it are those delivered (`OrderInv`), and the replay is
   what it records of the line (`ReplayInv`). `PhantomInv`: the zero packet
   that `ReadPacket` returns for a nil error is on it after a cancellation only.
9. `HeldInv`, for `BundleIsHeldBack`: a bundle is open exactly while an odd number
   of delimiters was read, and then no more ordinary packets were handled than
   came before the last of them.

### Deadlines

10. `KeepInv`. While a live server is played on, for every n that clears in time
    and that the queue has not exceeded (`KeptWith(n)`): the deadline is further
    away than the next keep-alive and its wait behind n packets,
    `left > due + (n + 1) * HandlerTime`, or a packet that renews it is in hand or in
    the queue and its turn comes before the deadline (`Renewal`). A tick takes one
    from each side; a handler that returns brings every packet behind it one
    place nearer (`Times`); a keep-alive that is read goes behind fewer than n, for
    with it the queue still has at most n (`RoomIsTime`). The invariant is for
    every n because the most that waits is not known before it has: a queue that
    grows past n leaves those n behind and keeps to the larger ones. `EarlyInv`:
    there is no deadline before the login. At `left = 0` neither alternative can
    hold, so with n = `longest` a timeout means that `longest` does not clear in time:
    `LiveServerIsKept`.
11. `PingInv`. The packets on the link are the server's answers after the first
    so many, and how many have been read, and what has been asked, follows from
    the step; so the status is the first answer and the pong the second.

### Join

12. Every step is one of five (`Moves`): it dials, it leaves the history alone, or
    it adds to it something said, something heard, or a packet and its answer.
    Each invariant is proved against these and not against each action.
    `AskedInv` is about the last packet too: it is answered in the same step, or
    the join has failed. `FrameInv` and `CookieInv` tie the cipher, the threshold
    and the cookies held to the history (`Seen`, `LatestOf`). `ReplayInv`: the
    places the replay has are in order and are those of all that was heard, but of
    `SetCompression` (`IsReplay`); that is more than `RequestsAreAnswered` asks, which
    leaves open what comes before the login success.

### World

13. `Inv == TypeInv /\ CacheInv /\ MapInv /\ \A r \in Readers : ReaderInv(r)`.
    `MapInv` says for each step of the running handler which blocks answer as
    before and which as they will (`Settled`, `Covered`, `ChunkInv`, `ChangeInv`). A
    handler is not atomic for a lookup, and this is what a lookup can meet.
    `ReaderInv` says for each step of a lookup that what it holds so far was right at
    some moment since the call: past the overrides, that the chunk's own block was
    (`Stored`); past the columns, that the content of the chunk it holds was,
    although the world may have forgotten that chunk since. `CacheInv`, that a
    section in the cache is the one parsed, gives `SectionParsedOnce`.

### Screens

14. `BalanceInv == BalanceIsExplained /\ SlotFree`. The balance counts goroutines that
    are between a change and its notification, hence the lemmas on cardinalities.
    `SlotFree` is what `onOpenScreen` relies on when it releases the lock: a window
    about to be installed has a free place, for only the game goroutine opens
    windows.
15. `ClickInv`: what was declared is below the state ID, or level with it while a
    click is sent and not advanced; what a click has built and not sent is above
    all declared.
16. With the server, `BehindInv`: the client is level, or a packet with the server's
    state ID is on the link.
17. `InventoryFresh` speaks of an empty link; its invariant of any link. `Path`
    says that what the client has, changed by one packet after the other, becomes
    what the server has. It is stated by the values in between, without
    recursion. A packet sent continues the path and a packet received takes its
    first step, if the handler does what the packet says. That takes an open
    window of the right layout, with the player's rows in it as the inventory has
    them (`Ready`), which in turn depends on the packets to come (`OrderInv`):
    content follows its open, a window's updates follow its content.
18. `AgreeInv` does the same with the open window in the place of the rows
    (`Reaches`, `Holds`), as long as the client sends nothing but clicks.

### Handlers, player, list and chat

19. `StructInv == PlayTypeOK /\ RegistryInv /\ LoopInv`. The registry is the one of
    those who registered (`RegistryOf`): each list is ordered, has what was
    registered under its ID once and nothing else, and the IDs nobody shares have
    the one handler of their owner. Sorting a list that was sorted before is
    putting the new handler in its place, which is what `Kept` before and behind
    it gives (`SplitPoint`). The loop runs over the list itself, or over an array
    the list has outgrown.
20. `DispatchInv`: what ran is what is due up to the place of the loop. It is
    inductive because a handler that registers for the ID of the loop either
    gets an array of its own, which the loop does not see, or shifts the one
    that is looped over, and `shifted` says so.
21. A property that compares state with what the server said holds between packets
    only. The invariant says what holds within one: they agree, or the handler
    that will make them agree is still to run, `Pending`, or is the one that
    failed. That the handler is there to run comes from `RegistryInv`, that it
    has not been passed from `LoopInv`. So `PlayerInv` and `ChunksInv` (`SpawnAhead`:
    a listener that `GameStart` adds may stand before it, but the loop is long
    enough to reach it), `AskedInv` (what was asked is what was answered and what
    the packet in hand asks for, `Owed`) and `HeardInv`.
22. `ListInv` says of the list what it will be after the packet in hand
    (`ListAfter`). `ChatInv` needs it: who is listed is in the list under the same
    name when the chat handler looks, because of what the list has handled by then;
    and that nothing heard before has the number of the packet in hand, from
    `HeardInv`.

### Numbers of the version and blocks

23. `VersionsInv`: for each bot, its menus are those of the server they were built for
    (`LiveInv`), hence a window of theirs has the slots `containerMetadata` gives its
    menu, which are the server's if it knows them (`BuiltShape`); the slot it holds is the one sent, under the number of the table it
    was read by (`HeldInv`), and the last window and click are right (`WindowInv`,
    `ClickInv`). A step changes one bot or a table (`OneBot`); what the process shares
    appears in no part but through what a bot has taken from it.
24. `DivMod`: quotient and rest are the only numbers of their kind. With it the masks
    and shifts of `decodeMultiBlockRecord` give back the three digits and the state a
    record is made of (`RecordDecodes`), so the last record of a block is its last
    change (`Overrides`, `PlacesDiffer`).
25. `IsChunk(data, column, at)` says what a server sends without saying how it is
    packed: each container is its bits, its palette and as many longs as it takes,
    and the index of block i is a number in the bits of a long, with any numbers
    above and below it (`HasBits`). `ContainerSkipped`, `ContainerLoaded` and their
    forms for data that ends early say what is read of it; by induction on the
    sections (`ChunkStarts`) each is looked for where it is, or not at all. Of a
    section read, the index of a block is inside it (`BlockIndexIn`), its long is
    one that was read, and shift and mask take the index out of it (`BitsTaken`).
    The chunks of `Formats` are such data.

### Sequences

`Kept` keeps the elements of a sequence that are in a set. `FilterProofs` proves by
induction on the length what it does of one more element, of two sequences one
after the other, of two sets, and of a set that has all or none of them
(`KeptAppend`, `KeptConcat`, `KeptAll`, ...). The library's induction
theorem takes a predicate, which the provers cannot instantiate; `Induction` is
the same for a set of numbers, from `NatLessThanWellFounded` and `WFMin`.

### What is left to TLC

TLC checks what is proved too, in the runs of section 3, but for the types of
`ScreenManager`, `ErrorIsFinal`, `GameRunsConn` and the inductive invariants; of
`ChangedBlocksFound` and `LoadedBlocksFound` it checks the cases `LookupIsTheBlock` has.
Only model-checked are

- liveness, out of the prover's reach: `AcceptedIsWritten`, `CloseEndsLoops`,
  `DeadSocketEndsGame`, `SilentServerEndsGame`, `PingReturns`;
- `HashIsOfTheWhole`: `ItemHash` follows a tree with RECURSIVE operators, which the
  provers do not take;
- that the chunks `Formats` packs are data as `IsChunk` has it, which are built there
  by sums over sets: `LookupIsTheBlock` checks the bytes themselves, the theorems any bytes
  of that form.

## 6. Findings

Where the code does something else than its texts say, a run has the
statement as its property and TLC finds a behaviour against it. `PROJECT.json`
quotes the lines.

| run, property | what happens |
|---|---|
| `screen_race`, `CloseBeforeOpen` | A window opened under an ID still held comes after the close of the stale one, for the listener. `ForceCloseScreen` takes the window out under the lock and tells after it: in between `onOpenScreen` finds nothing to evict, and announces the second window before the first one's close is told. |
| `join_ack`, `SuccessIsAcknowledged` | Without a version handler, a login acknowledgement that was not written goes unnoticed: its error is assigned to a shadowed variable. |
| `menus_stale`, `LiveTypesArePerConnection` | A manager builds its container types once. After a second join it opens the new server's windows with the first one's menus. |

The models also follow the code where it parts from a text, or from what its
caller would expect, in these places, which have no run:

*Connection, play loop and handlers*
- a bundle is not atomic: a handler that fails leaves the packets before it
  handled and the rest not (`HandleGameFail`; `docs/PROJECT_OVERVIEW.md:297`);
- a handler registered for the packet being dispatched may rerun a handler of
  that packet and leave out the last one (`Events`);
- `GameStart` has priority 64 and is told before `handleLoginPacket`, priority 0,
  has filled in the player (against `basic/events.go:14-18`, "ready to play");
- a Disconnect packet tells the listener and does not end `HandleGame`;
- with the default queue a server that sends its keep-alives is timed out when it
  sends enough other packets for slow handlers to fall behind (`LiveServerIsKept`
  says how many);
- a `HandleGame` whose own context is alive does not return when the context of
  `JoinServer` ends (`ReadsNothing`);
- a respawn changes the dimension's name and keeps the old type;
- registries and the player list outlive the session they came from; the
  list is cleared by no one.

*Join*
- a replay has what the server sent before the login success, `SetCompression`
  excepted: encryption requests, cookie requests, custom queries, disconnects
  (`Read`; against `login.go:73`, "ReplayMod expects recordings to start from Login
  Success"). `RequestsAreAnswered` asks for the packets from the success on, and
  leaves the earlier ones open;
- `RegistryDataCallback` is called with each registry in the middle of
  configuration (`OnRegistryData`; against `mcbot.go:49-50`).

*Screens*
- the close of a window may be told before its own open, when `ForceCloseScreen`
  comes between the installation and `events.Open` (`BalanceIsExplained` counts it as
  a notification to come);
- `OnSetSlot` applies the state ID of a packet for a window that is not open
  (`OnSetSlotClosed`; against `screen.go:614-616`);
- `onCloseScreen` removes the inventory when the server closes window 0
  (`OnCloseInventory`; against `screen.go:729`);
- the answer to a click, handled between the click's write and its increment,
  leaves the client's state ID one ahead of the server's (`ClientClick`; against
  `screen.go:255-257`);
- an update on its way to a window closed by `ForceCloseScreen` is lost, and the
  inventory stays stale until the server sends the row again;
- an unknown container type returns an error and ends `HandleGame`, though the
  comment at `screen.go:472-476` says "log warning but don't fail";
- a beacon's window has 1 slot if its type comes from the server's registry:
  `containerMetadata` has `{1, false, 27}` (`registry_loader.go:41`) and `TotalSlots`
  counts the player's slots only where they are included. The process-wide table
  makes it 37 (`generic_container.go:132`), and `CONTAINER_TYPES.md:71` says 28. Content
  for a slot the window lacks is an error, which ends `HandleGame`.
  `WindowsHaveTheirSlots` holds of the menus whose slots `containerMetadata` has as
  the server has them (`KnowsMenu`), which leaves the beacon out unless the server
  gives it 1;
- component numbers of servers before 1.21.5 are read with the types of 1.21.5
  and kept under the numbers of 1.21.1 (`hashops.go:42-56`), and the table is
  chosen for the whole process.

*World and hashes*
- y is truncated where overrides are floored (`chunks.go:309`): for a negative
  fraction of y the lookup is one block too high;
- 24 sections from y = -64 are assumed, so that the Nether's and the End's
  sections are read at the wrong height;
- direct palettes (more than 8 bits) are parsed as if a palette's length
  followed, and more than 64 bits divide by zero (`skipPaletteContainer`);
- an unsupported scalar inside a slice makes `sliceHashValues` panic; a struct
  without present fields is an error; an Array is hashed as a map.

*Ping*
- the errors are formatted with `%v`, so the mapping at `pinglist.go:81` never
  applies; `GetServerInfo` replaces the ping's error by the decoder's; the
  sockets are never closed.

## 7. Not modelled

- *Data.* Packet encoding, NBT and text are values without structure. Of a chunk
  only its sections are parsed; a palette is one state or a list.
- *Session authentication* against Mojang and the key exchange: I/O;
  whether they fail is an outcome of `OnEncryptionRequest`.
- *A deadline of the join.* The code has none: a server that stops in the middle
  of login or configuration keeps `JoinServer` waiting.
- *Data races.* `Chest` and `HorseContainer` have no lock, and `RegistryData` and
  the player list hand out their maps: readers of these see what the memory
  model lets them see. They are listed as hazards without a property.
- *State IDs that wrap* at 2^15: a hazard without a property, out of a run's
  reach. *`SetPlayerInventory` while a window is open*: `ScreenManager` has the
  action, but the server modelled in `ScreenSession` does not send it, so no
  property sees the stale row it leaves in the window.
- *Setters* (`SetScreens`, `SetInventory`, `SetReplay`, ...): plain assignments
  by a caller before or instead of what is modelled. `readBlockStateFromSection`
  has no caller.
- *Writers without state*: `SendMessage`, `SendCommand`; readers without state:
  `GetContainerTypeIDByIdentifier`, world time, tags.
- *The examples* under `cmd/`.

## 8. Plan

Everything planned is modelled and proved but for one step:

| step | what | why it is not there yet |
|---|---|---|
| `ScreenSession` | state IDs of a small width that wrap; `SetPlayerInventory` with a window open | needs a server whose behaviour the repository describes |
