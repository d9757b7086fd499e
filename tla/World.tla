------------------------------- MODULE World -------------------------------
(***************************************************************************)
(* bot/world: the loaded chunks and the blocks changed since.  The game    *)
(* goroutine runs the packet handlers one at a time; any other goroutine   *)
(* may call GetBlockAt.  Columns and blockOverrides have a lock each, and  *)
(* a chunk's sections a third, so a handler and a lookup are sequences of  *)
(* locked sections that interleave: these are the steps here.              *)
(*                                                                         *)
(* A chunk has one section, whose blocks are the Offsets; its raw data     *)
(* says what each of them is, or does not parse.  view and next are the    *)
(* promise the lookups are measured against: what each block is after the  *)
(* last handler that has ended, and after the one that is running.         *)
(***************************************************************************)
EXTENDS Naturals, Sequences

CONSTANTS
    Chunks,        (* chunk positions                                       *)
    Offsets,       (* blocks of a section                                   *)
    States,        (* block states                                          *)
    Air,           (* state 0, also the answer for a section in error       *)
    Corrupt,       (* raw data that does not parse                          *)
    NotLoaded,     (* GetBlockAt's second result is false                   *)
    Readers,       (* goroutines that call GetBlockAt                       *)
    MaxPackets     (* bound: packets handled                                *)

ASSUME WorldAssumption ==
    /\ Air \in States
    /\ NotLoaded \notin States
    /\ MaxPackets \in Nat

VARIABLES
    columns,         (* World.Columns: position -> index in chunks, or 0    *)
    chunks,          (* every ChunkData made: raw data and section cache    *)
    overrides,       (* World.blockOverrides                                *)
    chunkBatchCount, (* World.chunkBatchCount                               *)
    game,            (* step of the running handler                         *)
    reader,          (* per goroutine: step of its GetBlockAt               *)
    packets,         (* packets handled                                     *)
    view,            (* history                                             *)
    next,            (* history                                             *)
    legal            (* history: answers that were current during a lookup  *)

mapVars == <<columns, chunks, overrides>>
countVars == <<chunkBatchCount, packets>>
vars == <<mapVars, countVars, game, reader, view, next, legal>>

-----------------------------------------------------------------------------

Blocks == Chunks \X Offsets
ChunkOf(b) == b[1]
InChunk(c) == {c} \X Offsets
Answers == States \union {NotLoaded}
RawData == [Offsets -> States] \union {Corrupt}

NoSection == <<>>
Section(raw) == IF raw = Corrupt THEN NoSection ELSE <<raw>>

(* ChunkData.GetBlockAt on a section that did or did not load.             *)
BlockOf(section, b) == IF section = NoSection THEN Air ELSE section[1][b[2]]

(* What a chunk says of a block, what the chunk stored for it does, and    *)
(* what an undisturbed lookup answers.                                     *)
Content(h, b) == BlockOf(Section(chunks[h].raw), b)
Stored(b) ==
    IF columns[ChunkOf(b)] = 0 THEN NotLoaded ELSE Content(columns[ChunkOf(b)], b)
Lookup(b) == IF b \in DOMAIN overrides THEN overrides[b] ELSE Stored(b)

Idle == [pc |-> "idle"]

HandleNext ==
    /\ game.pc = "idle"
    /\ packets < MaxPackets
    /\ packets' = packets + 1

(* A handler begins with the promise of what it will have done; a lookup   *)
(* under way may answer with the old or the new.                           *)
Begin(promised, step) ==
    /\ HandleNext
    /\ game' = step
    /\ next' = promised
    /\ legal' = [r \in Readers |->
                    IF reader[r].pc = "idle" THEN {} ELSE legal[r] \union {promised[reader[r].block]}]
    /\ UNCHANGED view

(* It ends with nil, or with the listener's error, which stops HandleGame. *)
End ==
    /\ game' \in {Idle, [pc |-> "stopped"]}
    /\ view' = next
    /\ UNCHANGED <<next, legal>>

Proceed(step) == game' = step /\ UNCHANGED <<view, next, legal>>

Without(f, S) == [x \in DOMAIN f \ S |-> f[x]]
With(f, x, y) == [z \in DOMAIN f \union {x} |-> IF z = x THEN y ELSE f[z]]

Init ==
    /\ columns = [c \in Chunks |-> 0]
    /\ chunks = <<>>
    /\ overrides = [b \in {} |-> Air]
    /\ chunkBatchCount = 0 /\ packets = 0
    /\ game = Idle
    /\ reader = [r \in Readers |-> Idle]
    /\ view = [b \in Blocks |-> NotLoaded]
    /\ next = view
    /\ legal = [r \in Readers |-> {}]

-----------------------------------------------------------------------------
(* handleLevelChunkWithLightPacket: store, clear overrides, tell           *)

OnLevelChunk(c, raw) ==
    /\ Begin([b \in Blocks |-> IF ChunkOf(b) = c THEN BlockOf(Section(raw), b) ELSE view[b]],
             [pc |-> "stored", chunk |-> c])
    /\ chunks' = Append(chunks, [raw |-> raw, section |-> NoSection, loads |-> 0])
    /\ columns' = [columns EXCEPT ![c] = Len(chunks')]
    /\ UNCHANGED <<overrides, chunkBatchCount, reader>>

(* Mutant: the changes of a forgotten chunk are kept.                      *)
ClearOnlyLoaded ==
    /\ game.pc \in {"stored", "deleted"}
    /\ IF game.pc = "stored"
       THEN overrides' = Without(overrides, InChunk(game.chunk)) /\ Proceed([game EXCEPT !.pc = "loaded"])
       ELSE UNCHANGED overrides /\ End
    /\ UNCHANGED <<columns, chunks, countVars, reader>>

(* clearOverridesForChunk, after a store or a delete.                      *)
ClearOverridesForChunk ==
    /\ game.pc \in {"stored", "deleted"}
    /\ overrides' = Without(overrides, InChunk(game.chunk))
    /\ IF game.pc = "stored" THEN Proceed([game EXCEPT !.pc = "loaded"]) ELSE End
    /\ UNCHANGED <<columns, chunks, countVars, reader>>

LoadChunkEvent ==
    /\ game.pc = "loaded"
    /\ End
    /\ UNCHANGED <<mapVars, countVars, reader>>

(* handleForgetLevelChunkPacket: the listener is told first.               *)
OnForgetLevelChunk(c) ==
    /\ Begin([b \in Blocks |-> IF ChunkOf(b) = c THEN NotLoaded ELSE view[b]],
             [pc |-> "unloading", chunk |-> c])
    /\ UNCHANGED <<mapVars, chunkBatchCount, reader>>

DeleteColumn ==
    /\ game.pc = "unloading"
    /\ columns' = [columns EXCEPT ![game.chunk] = 0]
    /\ Proceed([game EXCEPT !.pc = "deleted"])
    /\ UNCHANGED <<chunks, overrides, countVars, reader>>

(* Mutant: the chunks of the old world stay loaded.                        *)
SpawnKeepsChunks ==
    /\ Begin([b \in Blocks |-> NotLoaded], [pc |-> "spawned"])
    /\ UNCHANGED <<mapVars, chunkBatchCount, reader>>

(* onPlayerSpawn: a new Columns, then a new blockOverrides.                *)
OnPlayerSpawn ==
    /\ Begin([b \in Blocks |-> NotLoaded], [pc |-> "spawned"])
    /\ columns' = [c \in Chunks |-> 0]
    /\ UNCHANGED <<chunks, overrides, chunkBatchCount, reader>>

ClearAllOverrides ==
    /\ game.pc = "spawned"
    /\ overrides' = [b \in {} |-> Air]
    /\ chunkBatchCount' = 0
    /\ game' = Idle
    /\ view' = next
    /\ UNCHANGED <<columns, chunks, packets, reader, next, legal>>

(* handleBlockChangePacket and handleMultiBlockChangePacket: one override  *)
(* after the other, whether the chunk is loaded or not.                    *)
OnBlockChanges(records) ==
    /\ Begin([b \in Blocks |->
                LET mine == { i \in DOMAIN records : records[i].block = b }
                IN  IF mine = {} THEN view[b]
                    ELSE records[CHOOSE i \in mine : \A j \in mine : j <= i].state],
             [pc |-> "changing", records |-> records])
    /\ UNCHANGED <<mapVars, chunkBatchCount, reader>>

SetBlockOverride ==
    /\ game.pc = "changing"
    /\ LET record == Head(game.records)
       IN  overrides' = With(overrides, record.block, record.state)
    /\ IF Len(game.records) = 1
       THEN game' = Idle /\ view' = next /\ UNCHANGED <<next, legal>>
       ELSE Proceed([game EXCEPT !.records = Tail(@)])
    /\ UNCHANGED <<columns, chunks, countVars, reader>>

(* handleChunkBatchFinished: counted, then acknowledged, or not written.   *)
OnChunkBatchFinished ==
    /\ HandleNext
    /\ chunkBatchCount' = chunkBatchCount + 1
    /\ game' \in {Idle, [pc |-> "stopped"]}
    /\ UNCHANGED <<mapVars, reader, view, next, legal>>

(* A packet that does not parse: an error, before anything changes.        *)
PacketRefused ==
    /\ HandleNext
    /\ game' = [pc |-> "stopped"]
    /\ UNCHANGED <<mapVars, chunkBatchCount, reader, view, next, legal>>

-----------------------------------------------------------------------------
(* GetBlockAt *)

Step(r, step) == reader' = [reader EXCEPT ![r] = step]
Answer(r, a) == Step(r, [reader[r] EXCEPT !.pc = "done", !.answer = a])

GetBlockAt(r, b) ==
    /\ reader[r].pc = "idle"
    /\ Step(r, [pc |-> "override", block |-> b, chunk |-> 0, answer |-> NotLoaded])
    /\ legal' = [legal EXCEPT ![r] = {view[b], next[b]}]
    /\ UNCHANGED <<mapVars, countVars, game, view, next>>

GetBlockOverride(r) ==
    /\ reader[r].pc = "override"
    /\ IF reader[r].block \in DOMAIN overrides
       THEN Answer(r, overrides[reader[r].block])
       ELSE Step(r, [reader[r] EXCEPT !.pc = "column"])
    /\ UNCHANGED <<mapVars, countVars, game, view, next, legal>>

GetColumn(r) ==
    /\ reader[r].pc = "column"
    /\ LET h == columns[ChunkOf(reader[r].block)]
       IN  IF h = 0 THEN Answer(r, NotLoaded)
           ELSE Step(r, [reader[r] EXCEPT !.pc = "cache", !.chunk = h])
    /\ UNCHANGED <<mapVars, countVars, game, view, next, legal>>

(* getOrLoadSection, under the read lock.                                  *)
CheckCache(r) ==
    /\ reader[r].pc = "cache"
    /\ LET section == chunks[reader[r].chunk].section
       IN  IF section # NoSection THEN Answer(r, BlockOf(section, reader[r].block))
           ELSE Step(r, [reader[r] EXCEPT !.pc = "load"])
    /\ UNCHANGED <<mapVars, countVars, game, view, next, legal>>

(* Mutant: the cache is not looked at again under the write lock.          *)
LoadSectionUnchecked(r) ==
    /\ reader[r].pc = "load"
    /\ LET h == reader[r].chunk
           section == Section(chunks[h].raw)
       IN  /\ chunks' = IF section = NoSection THEN chunks
                        ELSE [chunks EXCEPT ![h].section = section, ![h].loads = @ + 1]
           /\ Answer(r, BlockOf(section, reader[r].block))
    /\ UNCHANGED <<columns, overrides, countVars, game, view, next, legal>>

(* getOrLoadSection, under the write lock: looked at again, then parsed; a *)
(* section that does not parse is not cached, and answers Air.             *)
LoadSection(r) ==
    /\ reader[r].pc = "load"
    /\ LET h == reader[r].chunk
           section == IF chunks[h].section # NoSection
                      THEN chunks[h].section ELSE Section(chunks[h].raw)
       IN  /\ chunks' = IF chunks[h].section # NoSection \/ section = NoSection
                        THEN chunks
                        ELSE [chunks EXCEPT ![h].section = section, ![h].loads = @ + 1]
           /\ Answer(r, BlockOf(section, reader[r].block))
    /\ UNCHANGED <<columns, overrides, countVars, game, view, next, legal>>

Return(r) ==
    /\ reader[r].pc = "done"
    /\ Step(r, Idle)
    /\ legal' = [legal EXCEPT ![r] = {}]
    /\ UNCHANGED <<mapVars, countVars, game, view, next>>

-----------------------------------------------------------------------------

(* The records of one multi-block packet: blocks of one section, each once *)
(* (the server sends the positions as a set).                              *)
Records == [block : Blocks, state : States]
SameSection(a, b) == ChunkOf(a.block) = ChunkOf(b.block) /\ a.block # b.block

Handlers ==
    \/ \E c \in Chunks, raw \in RawData : OnLevelChunk(c, raw)
    \/ \E c \in Chunks : OnForgetLevelChunk(c)
    \/ OnPlayerSpawn
    \/ \E a \in Records : OnBlockChanges(<<a>>)
    \/ \E a, b \in Records : SameSection(a, b) /\ OnBlockChanges(<<a, b>>)
    \/ OnChunkBatchFinished
    \/ PacketRefused

HandlerSteps ==
    \/ ClearOverridesForChunk \/ LoadChunkEvent
    \/ DeleteColumn \/ ClearAllOverrides \/ SetBlockOverride

Lookups(r) ==
    \/ \E b \in Blocks : GetBlockAt(r, b)
    \/ GetBlockOverride(r) \/ GetColumn(r) \/ CheckCache(r) \/ LoadSection(r)
    \/ Return(r)

Next ==
    \/ Handlers
    \/ HandlerSteps
    \/ \E r \in Readers : Lookups(r)

Spec == Init /\ [][Next]_vars

-----------------------------------------------------------------------------
(* Properties *)

(* Between two handlers the map is what the packets said, in their order:  *)
(* a block is what its chunk's latest packet, or a later change, made it,  *)
(* and a forgotten chunk leaves nothing behind.  When a listener is told   *)
(* of a chunk, lookups already answer from it: no override of the chunk    *)
(* that was there before is left.                                          *)
MapFollowsPackets ==
    /\ game.pc \in {"idle", "stopped"} => \A b \in Blocks : Lookup(b) = view[b]
    /\ game.pc = "loaded" => \A b \in InChunk(game.chunk) : Lookup(b) = next[b]

(* GetBlockAt never answers with what the block was before the lookup      *)
(* began, nor with what it never was: although it looks at the overrides   *)
(* and at the chunk in two locked sections, and the handlers change them   *)
(* in two, its answer was current at some moment of the lookup.            *)
LookupIsCurrent ==
    \A r \in Readers : reader[r].pc = "done" => reader[r].answer \in legal[r]

(* A section is parsed once, however many lookups miss the cache at the    *)
(* same time (getOrLoadSection, "double-checked locking").                 *)
SectionParsedOnce == \A h \in DOMAIN chunks : chunks[h].loads <= 1

=============================================================================
