----------------------------- MODULE WorldProofs -----------------------------
(***************************************************************************)
(* What World promises for any chunks, blocks, lookups and handlers that   *)
(* interleave: a lookup answers with what the block was at some moment of  *)
(* the call, the map between two handlers is what the packets said, and a  *)
(* section is parsed once.                                                 *)
(***************************************************************************)
EXTENDS World, SequenceTheorems, TLAPS

-----------------------------------------------------------------------------
(* The invariant *)

(* The values chunks, steps of handlers and lookups can have.              *)
Sections == { Section(raw) : raw \in RawData }
ChunkRecords == [raw : RawData, section : Sections, loads : {0, 1}]

ChunkSteps == [pc : {"stored", "loaded", "unloading", "deleted"}, chunk : Chunks]
ChangeSteps == [pc : {"changing"}, records : Seq(Records)]
OtherSteps == {Idle, [pc |-> "stopped"], [pc |-> "spawned"]}
ReaderSteps ==
    [pc : {"override", "column", "cache", "load", "done"},
     block : Blocks, chunk : Nat, answer : Answers]

(* Each part of the state has its type.                                    *)
ChunksOK == chunks \in Seq(ChunkRecords) /\ columns \in [Chunks -> 0 .. Len(chunks)]
GameOK == game \in OtherSteps \/ game \in ChunkSteps \/ game \in ChangeSteps
ReadersOK ==
    /\ reader \in [Readers -> {Idle} \union ReaderSteps]
    /\ legal = [r \in Readers |-> legal[r]]
    /\ view \in [Blocks -> Answers] /\ next \in [Blocks -> Answers]
    /\ \A b \in DOMAIN overrides : b \in Blocks
TypeInv == ChunksOK /\ GameOK /\ ReadersOK

(* A section is cached when it has been parsed, and holds what was parsed. *)
CacheInv ==
    \A h \in DOMAIN chunks :
        \/ chunks[h].section = NoSection /\ chunks[h].loads = 0
        \/ chunks[h].section = Section(chunks[h].raw) /\ chunks[h].loads = 1

(* What the running handler has done and has not done to a block: nothing  *)
(* and nothing to do; the chunk done, an old override left.                *)
Settled(b) == Lookup(b) = view[b] /\ next[b] = view[b]
Covered(b) == Stored(b) = next[b] /\ (b \in DOMAIN overrides => overrides[b] = view[b])

(* A list of records has one for the block.                                *)
Changes(records, b) == \E i \in DOMAIN records : records[i].block = b

(* A handler of block changes has yet to change the blocks of its records  *)
(* and has changed all others it was to change.                            *)
ChangeInv(records) ==
    /\ records # <<>>
    /\ \A i, j \in DOMAIN records : records[i].block = records[j].block => i = j
    /\ \A i \in DOMAIN records : next[records[i].block] = records[i].state
    /\ \A b \in Blocks : Lookup(b) = IF Changes(records, b) THEN view[b] ELSE next[b]

(* A handler of a chunk has changed the chunk's blocks as far as its       *)
(* program counter says, and no other block.                               *)
ChunkInv(c) ==
    /\ \A b \in Blocks : ChunkOf(b) # c => Settled(b)
    /\ \A b \in Blocks : ChunkOf(b) = c =>
          /\ game.pc \in {"stored", "deleted"} => Covered(b)
          /\ game.pc = "loaded" => Lookup(b) = next[b]
          /\ game.pc = "unloading" => Lookup(b) = view[b]
          /\ game.pc \in {"unloading", "deleted"} => next[b] = NotLoaded

(* What lookups answer, by the step the running handler is at.             *)
MapInv ==
    /\ game.pc \in {"idle", "stopped"} => \A b \in Blocks : Settled(b)
    /\ game \in ChunkSteps => ChunkInv(game.chunk)
    /\ game.pc = "spawned" => \A b \in Blocks : Covered(b)
    /\ game.pc = "spawned" => \A b \in Blocks : next[b] = NotLoaded
    /\ game \in ChangeSteps => ChangeInv(game.records)

(* A lookup past the overrides answers with what the chunk says: that may  *)
(* have been overridden since, but was current when no override was found  *)
(* or when the chunk was stored or forgotten.                              *)
ReaderInv(r) ==
    LET b == reader[r].block IN
    reader[r].pc # "idle" =>
        /\ view[b] \in legal[r] /\ next[b] \in legal[r]
        /\ reader[r].pc = "column" => Stored(b) \in legal[r]
        /\ reader[r].pc \in {"cache", "load"} =>
              reader[r].chunk \in DOMAIN chunks /\ Content(reader[r].chunk, b) \in legal[r]
        /\ reader[r].pc = "done" => reader[r].answer \in legal[r]

(* The inductive invariant.                                                *)
Inv == TypeInv /\ CacheInv /\ MapInv /\ \A r \in Readers : ReaderInv(r)

-----------------------------------------------------------------------------
(* Types *)

(* A parsed section is a section, and what it says of a block is an        *)
(* answer.                                                                 *)
LEMMA SectionType ==
    ASSUME NEW raw \in RawData, NEW b \in Blocks
    PROVE  BlockOf(Section(raw), b) \in States
<1>1. b[2] \in Offsets
  BY DEF Blocks
<1>2. CASE raw = Corrupt
  BY <1>2, WorldAssumption DEF BlockOf, Section, NoSection
<1>3. CASE raw # Corrupt
  BY <1>1, <1>3 DEF BlockOf, Section, NoSection, RawData
<1>4. QED
  BY <1>2, <1>3

(* Every block is in a chunk.                                              *)
LEMMA ChunkOfBlock == \A b \in Blocks : ChunkOf(b) \in Chunks
  BY DEF Blocks, ChunkOf

(* The program counter tells the kinds of steps apart.                     *)
LEMMA StepDomains ==
    /\ \A g \in OtherSteps : g.pc \in {"idle", "stopped", "spawned"}
    /\ \A g \in ChunkSteps : g.pc \in {"stored", "loaded", "unloading", "deleted"} /\ g.chunk \in Chunks
    /\ \A g \in ChangeSteps : g.pc = "changing" /\ g.records \in Seq(Records)
  BY DEF OtherSteps, ChunkSteps, ChangeSteps, Idle

(* The step a handler is at tells what it keeps.                           *)
LEMMA GameCases ==
    ASSUME GameOK
    PROVE  /\ game.pc \in {"stored", "loaded", "unloading", "deleted"} <=> game \in ChunkSteps
           /\ game.pc = "changing" <=> game \in ChangeSteps
           /\ game.pc \in {"idle", "stopped", "spawned"} <=> game \in OtherSteps
  BY StepDomains DEF GameOK

(* A chunk that was made keeps its raw data.                               *)
RawKept == \A h \in DOMAIN chunks : h \in DOMAIN chunks' /\ chunks'[h].raw = chunks[h].raw

(* A chunk says of a block what it said before.                            *)
LEMMA ContentKept ==
    ASSUME RawKept
    PROVE  \A h \in DOMAIN chunks : \A b : Content(h, b)' = Content(h, b)
  BY DEF RawKept, Content, BlockOf, Section, NoSection

(* A column in use is a chunk that was made.                               *)
LEMMA ColumnType ==
    ASSUME ChunksOK
    PROVE  /\ DOMAIN chunks = 1 .. Len(chunks) /\ Len(chunks) \in Nat
           /\ \A b \in Blocks : columns[ChunkOf(b)] # 0 => columns[ChunkOf(b)] \in DOMAIN chunks
           /\ \A h \in DOMAIN chunks : chunks[h] \in ChunkRecords
<1>1. DOMAIN chunks = 1 .. Len(chunks) /\ Len(chunks) \in Nat
  BY LenProperties DEF ChunksOK
<1>2. \A h \in DOMAIN chunks : chunks[h] \in ChunkRecords
  BY <1>1, ElementOfSeq DEF ChunksOK
<1>3. \A b \in Blocks : columns[ChunkOf(b)] \in 0 .. Len(chunks)
  BY ChunkOfBlock DEF ChunksOK
<1>4. QED
  BY <1>1, <1>2, <1>3

(* With the columns as they were, so is what is stored for each block.     *)
LEMMA StoredKept ==
    ASSUME ChunksOK, RawKept
    PROVE  \A b \in Blocks : columns'[ChunkOf(b)] = columns[ChunkOf(b)] => Stored(b)' = Stored(b)
<1> SUFFICES ASSUME NEW b \in Blocks, columns'[ChunkOf(b)] = columns[ChunkOf(b)]
             PROVE  Stored(b)' = Stored(b)
  OBVIOUS
<1>1. ChunkOf(b)' = ChunkOf(b)
  BY DEF ChunkOf
<1>2. CASE columns[ChunkOf(b)] = 0
  BY <1>1, <1>2 DEF Stored
<1>3. CASE columns[ChunkOf(b)] # 0
  <2> DEFINE h == columns[ChunkOf(b)]
  <2>1. h \in DOMAIN chunks
    BY <1>3, ColumnType
  <2>2. Stored(b) = Content(h, b)
    BY <1>3 DEF Stored
  <2>3. Stored(b)' = BlockOf(Section(chunks'[h].raw), b)
    BY <1>1, <1>3 DEF Stored, Content, BlockOf, Section, NoSection
  <2>4. chunks'[h].raw = chunks[h].raw
    BY <2>1 DEF RawKept
  <2>5. QED
    BY <2>2, <2>3, <2>4 DEF Content
<1>4. QED
  BY <1>2, <1>3

-----------------------------------------------------------------------------
(* What the handlers do to the lookups under way: the old and the new are *)
(* both legal, and what is stored for a block becomes what was promised.   *)
LEMMA HandlerReaders ==
    ASSUME Inv, UNCHANGED reader, RawKept,
           view' = view \/ view' = next,
           \A r \in Readers : reader[r].pc # "idle" =>
               \/ legal'[r] = legal[r] \union {next'[reader[r].block]}
               \/ legal'[r] = legal[r] /\ next' = next,
           \A b \in Blocks : Stored(b)' = Stored(b) \/ Stored(b)' = next'[b]
    PROVE  \A r \in Readers : ReaderInv(r)'
<1> SUFFICES ASSUME NEW r \in Readers, reader[r].pc # "idle"
             PROVE  ReaderInv(r)'
  BY DEF ReaderInv
<1> DEFINE b == reader[r].block
<1>1. b \in Blocks
  BY DEF Inv, TypeInv, ReadersOK, ReaderSteps, Idle
<1>2. ReaderInv(r)
  BY DEF Inv
<1>3. legal[r] \subseteq legal'[r] /\ next'[b] \in legal'[r] /\ view'[b] \in legal'[r]
  BY <1>2 DEF ReaderInv
<1>4. reader[r].pc = "column" => Stored(b)' \in legal'[r]
  BY <1>1, <1>2, <1>3 DEF ReaderInv
<1>5. reader[r].pc \in {"cache", "load"} =>
          /\ reader[r].chunk \in DOMAIN chunks'
          /\ Content(reader[r].chunk, b)' \in legal'[r]
  <2> SUFFICES ASSUME reader[r].pc \in {"cache", "load"}
               PROVE  reader[r].chunk \in DOMAIN chunks' /\ Content(reader[r].chunk, b)' \in legal'[r]
    OBVIOUS
  <2>1. reader[r].chunk \in DOMAIN chunks /\ Content(reader[r].chunk, b) \in legal[r]
    BY <1>2 DEF ReaderInv
  <2>2. Content(reader[r].chunk, b)' = Content(reader[r].chunk, b)
    BY <2>1 DEF RawKept, Content, BlockOf, Section, NoSection
  <2>3. QED
    BY <1>3, <2>1, <2>2 DEF RawKept
<1>6. reader[r].pc = "done" => reader[r].answer \in legal'[r]
  BY <1>2, <1>3 DEF ReaderInv
<1>7. QED
  BY <1>3, <1>4, <1>5, <1>6 DEF ReaderInv

(* A handler begins between two handlers, so nothing is left to be done.   *)
LEMMA BeginsSettled ==
    ASSUME Inv, game.pc = "idle"
    PROVE  \A b \in Blocks : Settled(b)
  BY DEF Inv, MapInv

(* A new chunk takes the column's place; the old overrides are still       *)
(* there.                                                                  *)
LEMMA LevelChunkStep ==
    ASSUME Inv, NEW c \in Chunks, NEW raw \in RawData, OnLevelChunk(c, raw)
    PROVE  Inv'
<1> DEFINE rec == [raw |-> raw, section |-> NoSection, loads |-> 0]
           n == Len(chunks) + 1
           promised == [b \in Blocks |-> IF ChunkOf(b) = c THEN BlockOf(Section(raw), b) ELSE view[b]]
<1>1. rec \in ChunkRecords
  <2>1. NoSection \in Sections
    BY DEF Sections, Section, RawData
  <2>2. QED
    BY <2>1 DEF ChunkRecords
<1>2. /\ chunks' \in Seq(ChunkRecords) /\ Len(chunks') = n /\ n \in Nat \ {0}
      /\ \A h \in DOMAIN chunks : h \in DOMAIN chunks' /\ chunks'[h] = chunks[h]
      /\ DOMAIN chunks' = DOMAIN chunks \union {n} /\ n \notin DOMAIN chunks
      /\ chunks'[n] = rec
  <2>1. chunks \in Seq(ChunkRecords) /\ chunks' = Append(chunks, rec)
    BY DEF Inv, TypeInv, ChunksOK, OnLevelChunk
  <2> HIDE DEF rec
  <2>2. DOMAIN chunks = 1 .. Len(chunks) /\ Len(chunks) \in Nat
    BY <2>1, LenProperties
  <2>3. /\ chunks' \in Seq(ChunkRecords) /\ Len(chunks') = n
        /\ \A h \in 1 .. Len(chunks) : chunks'[h] = chunks[h]
        /\ chunks'[n] = rec
    BY <1>1, <2>1, AppendProperties
  <2>4. DOMAIN chunks' = 1 .. n
    BY <2>3, LenProperties
  <2>5. QED
    BY <2>2, <2>3, <2>4
<1> HIDE DEF n
<1>3. RawKept
  BY <1>2 DEF RawKept
<1>4. columns' = [columns EXCEPT ![c] = n] /\ columns \in [Chunks -> 0 .. Len(chunks)]
  BY <1>2 DEF OnLevelChunk, Inv, TypeInv, ChunksOK
<1>5. ChunksOK'
  <2>1. columns' \in [Chunks -> 0 .. n]
    <3>1. Len(chunks) \in Nat
      BY LenProperties DEF Inv, TypeInv, ChunksOK
    <3>2. n = Len(chunks) + 1
      BY DEF n
    <3>3. n \in 0 .. n /\ \A x \in 0 .. Len(chunks) : x \in 0 .. n
      BY <3>1, <3>2
    <3>4. QED
      BY <1>4, <3>3
  <2>2. QED
    BY <1>2, <2>1 DEF ChunksOK
<1>6. /\ next' = promised /\ view' = view
      /\ game' = [pc |-> "stored", chunk |-> c] /\ game.pc = "idle"
      /\ \A r \in Readers : reader[r].pc # "idle" =>
            legal'[r] = legal[r] \union {promised[reader[r].block]}
      /\ legal' = [r \in Readers |-> legal'[r]]
  BY DEF OnLevelChunk, Begin, HandleNext
<1>7. game' \in ChunkSteps
  BY <1>6 DEF ChunkSteps
<1>8. promised \in [Blocks -> Answers]
  BY SectionType DEF Answers, Inv, TypeInv, ReadersOK
<1>9. TypeInv'
  BY <1>5, <1>6, <1>7, <1>8 DEF TypeInv, Inv, GameOK, ReadersOK, OnLevelChunk
<1>10. CacheInv'
  BY <1>2 DEF CacheInv, Inv
<1>11. \A b \in Blocks : Stored(b)' = IF ChunkOf(b) = c THEN promised[b] ELSE Stored(b)
  <2> SUFFICES ASSUME NEW b \in Blocks
               PROVE  Stored(b)' = IF ChunkOf(b) = c THEN promised[b] ELSE Stored(b)
    OBVIOUS
  <2>1. ChunkOf(b)' = ChunkOf(b) /\ ChunkOf(b) \in Chunks
    BY ChunkOfBlock DEF ChunkOf
  <2>2. CASE ChunkOf(b) = c
    <3>1. columns'[c] = n /\ n # 0
      BY <1>2, <1>4
    <3>2. Stored(b)' = BlockOf(Section(chunks'[n].raw), b)
      BY <2>1, <2>2, <3>1 DEF Stored, Content, BlockOf, Section, NoSection
    <3>3. QED
      BY <1>2, <2>2, <3>2
  <2>3. CASE ChunkOf(b) # c
    <3>1. columns'[ChunkOf(b)] = columns[ChunkOf(b)]
      BY <1>4, <2>1, <2>3
    <3>2. QED
      BY <1>3, <2>3, <3>1, StoredKept DEF Inv, TypeInv
  <2>4. QED
    BY <2>2, <2>3
<1>12. overrides' = overrides /\ reader' = reader
  BY DEF OnLevelChunk
<1>13. MapInv'
  <2>1. \A b \in Blocks : Settled(b)
    BY <1>6, BeginsSettled
  <2>2. ASSUME NEW b \in Blocks, ChunkOf(b) # c PROVE Settled(b)'
    BY <1>6, <1>11, <1>12, <2>1, <2>2 DEF Settled, Lookup
  <2>3. ASSUME NEW b \in Blocks, ChunkOf(b) = c PROVE Covered(b)'
    <3>1. Stored(b)' = next'[b]
      BY <1>6, <1>11, <2>3
    <3>2. b \in DOMAIN overrides => overrides[b] = view[b]
      BY <2>1 DEF Settled, Lookup
    <3>3. QED
      BY <1>6, <1>12, <3>1, <3>2 DEF Covered
  <2>4. ChunkInv(c)'
    BY <1>6, <2>2, <2>3 DEF ChunkInv, ChunkOf
  <2>5. QED
    BY <1>6, <2>4, StepDomains DEF MapInv
<1>14. \A r \in Readers : ReaderInv(r)'
  <2>1. \A b \in Blocks : Stored(b)' = Stored(b) \/ Stored(b)' = next'[b]
    BY <1>6, <1>11
  <2>2. QED
    BY <1>3, <1>6, <1>12, <2>1, HandlerReaders
<1>15. QED
  BY <1>9, <1>10, <1>13, <1>14 DEF Inv

(* The cached sections stay right while the chunks stay as they are.       *)
LEMMA CacheFrame ==
    ASSUME Inv, UNCHANGED chunks
    PROVE  CacheInv' /\ RawKept
  BY DEF Inv, CacheInv, RawKept

(* The handler of a forgotten chunk starts, and has done nothing yet.      *)
LEMMA ForgetLevelChunkStep ==
    ASSUME Inv, NEW c \in Chunks, OnForgetLevelChunk(c)
    PROVE  Inv'
<1> DEFINE promised == [b \in Blocks |-> IF ChunkOf(b) = c THEN NotLoaded ELSE view[b]]
<1>1. /\ next' = promised /\ view' = view
      /\ game' = [pc |-> "unloading", chunk |-> c] /\ game.pc = "idle"
      /\ \A r \in Readers : reader[r].pc # "idle" =>
            legal'[r] = legal[r] \union {promised[reader[r].block]}
      /\ legal' = [r \in Readers |-> legal'[r]]
      /\ columns' = columns /\ chunks' = chunks /\ overrides' = overrides /\ reader' = reader
  BY DEF OnForgetLevelChunk, Begin, HandleNext, mapVars
<1>2. game' \in ChunkSteps
  BY <1>1 DEF ChunkSteps
<1>3. promised \in [Blocks -> Answers]
  BY DEF Answers, Inv, TypeInv, ReadersOK
<1>4. TypeInv'
  BY <1>1, <1>2, <1>3 DEF TypeInv, Inv, GameOK, ReadersOK, ChunksOK
<1>5. CacheInv' /\ RawKept
  BY <1>1, CacheFrame
<1>6. \A b \in Blocks : Stored(b)' = Stored(b) /\ Lookup(b)' = Lookup(b)
  BY <1>1 DEF Stored, Content, Lookup
<1>7. \A b \in Blocks : Settled(b)
  BY <1>1, BeginsSettled
<1>8. ChunkInv(c)'
  BY <1>1, <1>6, <1>7 DEF ChunkInv, ChunkOf, Settled
<1>9. MapInv'
  BY <1>1, <1>8, StepDomains DEF MapInv
<1>10. \A r \in Readers : ReaderInv(r)'
  BY <1>1, <1>5, <1>6, HandlerReaders
<1>11. QED
  BY <1>4, <1>5, <1>9, <1>10 DEF Inv

(* The column is gone; overrides of its blocks are still there.            *)
LEMMA DeleteColumnStep ==
    ASSUME Inv, DeleteColumn
    PROVE  Inv'
<1> DEFINE c == game.chunk
<1>1. game \in ChunkSteps /\ game.pc = "unloading" /\ c \in Chunks
  BY GameCases, StepDomains DEF DeleteColumn, Inv, TypeInv
<1>2. /\ game' = [pc |-> "deleted", chunk |-> c]
      /\ view' = view /\ next' = next /\ legal' = legal /\ reader' = reader
      /\ chunks' = chunks /\ overrides' = overrides
      /\ columns' = [columns EXCEPT ![c] = 0]
  BY <1>1 DEF DeleteColumn, Proceed, ChunkSteps
<1>3. game' \in ChunkSteps
  BY <1>1, <1>2 DEF ChunkSteps
<1>4. ChunksOK'
  BY <1>1, <1>2, ColumnType DEF Inv, TypeInv, ChunksOK
<1>5. TypeInv'
  BY <1>2, <1>3, <1>4 DEF TypeInv, Inv, GameOK, ReadersOK
<1>6. CacheInv' /\ RawKept
  BY <1>2, CacheFrame
<1>7. \A b \in Blocks : Stored(b)' = IF ChunkOf(b) = c THEN NotLoaded ELSE Stored(b)
  <2> SUFFICES ASSUME NEW b \in Blocks
               PROVE  Stored(b)' = IF ChunkOf(b) = c THEN NotLoaded ELSE Stored(b)
    OBVIOUS
  <2>1. ChunkOf(b)' = ChunkOf(b) /\ ChunkOf(b) \in Chunks
    BY ChunkOfBlock DEF ChunkOf
  <2>2. CASE ChunkOf(b) = c
    BY <1>2, <2>1, <2>2 DEF Stored, Inv, TypeInv, ChunksOK
  <2>3. CASE ChunkOf(b) # c
    <3>1. columns'[ChunkOf(b)] = columns[ChunkOf(b)]
      BY <1>2, <2>1, <2>3
    <3>2. QED
      BY <1>6, <2>3, <3>1, StoredKept DEF Inv, TypeInv
  <2>4. QED
    BY <2>2, <2>3
<1>8. ChunkInv(c)
  BY <1>1 DEF Inv, MapInv
<1>9. ChunkInv(c)'
  <2>1. ASSUME NEW b \in Blocks, ChunkOf(b) # c PROVE Settled(b)'
    <3>1. Settled(b)
      BY <1>8, <2>1 DEF ChunkInv
    <3>2. QED
      BY <1>2, <1>7, <2>1, <3>1 DEF Settled, Lookup
  <2>2. ASSUME NEW b \in Blocks, ChunkOf(b) = c PROVE Covered(b)' /\ next'[b] = NotLoaded
    <3>1. Lookup(b) = view[b] /\ next[b] = NotLoaded
      BY <1>1, <1>8, <2>2 DEF ChunkInv
    <3>2. QED
      BY <1>2, <1>7, <2>2, <3>1 DEF Covered, Lookup
  <2>3. QED
    BY <1>2, <2>1, <2>2 DEF ChunkInv, ChunkOf
<1>10. MapInv'
  BY <1>2, <1>3, <1>9, StepDomains DEF MapInv
<1>11. \A r \in Readers : ReaderInv(r)'
  <2>1. \A b \in Blocks : Stored(b)' = Stored(b) \/ Stored(b)' = next'[b]
    <3>1. \A b \in Blocks : ChunkOf(b) = c => next[b] = NotLoaded
      BY <1>1, <1>8 DEF ChunkInv
    <3>2. QED
      BY <1>2, <1>7, <3>1
  <2>2. QED
    BY <1>2, <1>6, <2>1, HandlerReaders
<1>12. QED
  BY <1>5, <1>6, <1>10, <1>11 DEF Inv

(* With the overrides of the chunk gone, the chunk's blocks are what the   *)
(* packet said.                                                            *)
LEMMA ClearOverridesStep ==
    ASSUME Inv, ClearOverridesForChunk
    PROVE  Inv'
<1> DEFINE c == game.chunk
<1>1. game \in ChunkSteps /\ game.pc \in {"stored", "deleted"} /\ c \in Chunks
  BY GameCases, StepDomains DEF ClearOverridesForChunk, Inv, TypeInv
<1>2. /\ next' = next /\ legal' = legal /\ reader' = reader
      /\ chunks' = chunks /\ columns' = columns
      /\ overrides' = Without(overrides, InChunk(c))
      /\ \/ /\ game.pc = "stored" /\ view' = view
            /\ game' = [pc |-> "loaded", chunk |-> c]
         \/ /\ game.pc = "deleted" /\ view' = next
            /\ game' \in {Idle, [pc |-> "stopped"]}
  BY <1>1 DEF ClearOverridesForChunk, Proceed, End, ChunkSteps
<1>3. GameOK'
  BY <1>1, <1>2 DEF GameOK, ChunkSteps, OtherSteps
<1>4. /\ \A b \in DOMAIN overrides' : b \in DOMAIN overrides
      /\ \A b \in Blocks : b \in DOMAIN overrides' <=> b \in DOMAIN overrides /\ ChunkOf(b) # c
      /\ \A b \in DOMAIN overrides' : overrides'[b] = overrides[b]
  BY <1>2 DEF Without, InChunk, Blocks, ChunkOf
<1>5. TypeInv'
  BY <1>2, <1>3, <1>4 DEF TypeInv, Inv, ReadersOK, ChunksOK
<1>6. CacheInv' /\ RawKept
  BY <1>2, CacheFrame
<1>7. \A b \in Blocks : Stored(b)' = Stored(b)
  BY <1>2 DEF Stored, Content
<1>8. ChunkInv(c)
  BY <1>1 DEF Inv, MapInv
<1>9. ASSUME NEW b \in Blocks, ChunkOf(b) # c PROVE Lookup(b)' = next[b] /\ next[b] = view[b]
  <2>1. Settled(b)
    BY <1>8, <1>9 DEF ChunkInv
  <2>2. Lookup(b)' = Lookup(b)
    BY <1>4, <1>7, <1>9 DEF Lookup
  <2>3. QED
    BY <2>1, <2>2 DEF Settled
<1>10. ASSUME NEW b \in Blocks, ChunkOf(b) = c PROVE Lookup(b)' = next[b]
  <2>1. Covered(b)
    BY <1>1, <1>8, <1>10 DEF ChunkInv
  <2>2. Lookup(b)' = Stored(b)
    BY <1>4, <1>7, <1>10 DEF Lookup
  <2>3. QED
    BY <2>1, <2>2 DEF Covered
<1>11. MapInv'
  <2>1. CASE game.pc = "stored"
    <3>1. ChunkInv(c)'
      BY <1>2, <1>9, <1>10, <2>1 DEF ChunkInv, Settled, ChunkOf
    <3>2. QED
      BY <1>2, <2>1, <3>1, StepDomains DEF MapInv
  <2>2. CASE game.pc = "deleted"
    <3>1. \A b \in Blocks : Settled(b)'
      BY <1>2, <1>9, <1>10, <2>2 DEF Settled
    <3>2. QED
      BY <1>2, <2>2, <3>1, StepDomains DEF MapInv, Idle
  <2>3. QED
    BY <1>1, <2>1, <2>2
<1>12. \A r \in Readers : ReaderInv(r)'
  BY <1>2, <1>6, <1>7, HandlerReaders
<1>13. QED
  BY <1>5, <1>6, <1>11, <1>12 DEF Inv

(* The listeners of a chunk are told when the lookups answer from it.      *)
LEMMA LoadChunkEventStep ==
    ASSUME Inv, LoadChunkEvent
    PROVE  Inv'
<1> DEFINE c == game.chunk
<1>1. game \in ChunkSteps /\ game.pc = "loaded"
  BY GameCases DEF LoadChunkEvent, Inv, TypeInv
<1>2. /\ view' = next /\ next' = next /\ legal' = legal /\ reader' = reader
      /\ game' \in {Idle, [pc |-> "stopped"]}
      /\ chunks' = chunks /\ columns' = columns /\ overrides' = overrides
  BY DEF LoadChunkEvent, End, mapVars
<1>3. TypeInv'
  BY <1>2 DEF TypeInv, Inv, ReadersOK, ChunksOK, GameOK, OtherSteps
<1>4. CacheInv' /\ RawKept
  BY <1>2, CacheFrame
<1>5. \A b \in Blocks : Stored(b)' = Stored(b) /\ Lookup(b)' = Lookup(b)
  BY <1>2 DEF Stored, Content, Lookup
<1>6. \A b \in Blocks : Lookup(b) = next[b]
  BY <1>1 DEF Inv, MapInv, ChunkInv, Settled
<1>7. MapInv'
  BY <1>2, <1>5, <1>6, StepDomains DEF MapInv, Settled, Idle
<1>8. \A r \in Readers : ReaderInv(r)'
  BY <1>2, <1>4, <1>5, HandlerReaders
<1>9. QED
  BY <1>3, <1>4, <1>7, <1>8 DEF Inv

(* The columns are gone; the overrides are still there.                    *)
LEMMA PlayerSpawnStep ==
    ASSUME Inv, OnPlayerSpawn
    PROVE  Inv'
<1> DEFINE promised == [b \in Blocks |-> NotLoaded]
<1>1. /\ next' = promised /\ view' = view
      /\ game' = [pc |-> "spawned"] /\ game.pc = "idle"
      /\ \A r \in Readers : reader[r].pc # "idle" =>
            legal'[r] = legal[r] \union {promised[reader[r].block]}
      /\ legal' = [r \in Readers |-> legal'[r]]
      /\ columns' = [c \in Chunks |-> 0]
      /\ chunks' = chunks /\ overrides' = overrides /\ reader' = reader
  BY DEF OnPlayerSpawn, Begin, HandleNext
<1>2. TypeInv'
  <2>1. ChunksOK'
    BY <1>1, ColumnType DEF Inv, TypeInv, ChunksOK
  <2>2. promised \in [Blocks -> Answers]
    BY DEF Answers
  <2>3. QED
    BY <1>1, <2>1, <2>2 DEF TypeInv, Inv, ReadersOK, GameOK, OtherSteps
<1>3. CacheInv' /\ RawKept
  BY <1>1, CacheFrame
<1>4. \A b \in Blocks : Stored(b)' = NotLoaded
  BY <1>1, ChunkOfBlock DEF Stored, ChunkOf
<1>5. \A b \in Blocks : Settled(b)
  BY <1>1, BeginsSettled
<1>6. \A b \in Blocks : Covered(b)' /\ next'[b] = NotLoaded
  BY <1>1, <1>4, <1>5 DEF Covered, Settled, Lookup
<1>7. MapInv'
  BY <1>1, <1>6, StepDomains DEF MapInv
<1>8. \A r \in Readers : ReaderInv(r)'
  <2>1. \A b \in Blocks : Stored(b)' = next'[b]
    BY <1>1, <1>4
  <2>2. QED
    BY <1>1, <1>3, <2>1, HandlerReaders
<1>9. QED
  BY <1>2, <1>3, <1>7, <1>8 DEF Inv

(* With all overrides gone no block is loaded.                             *)
LEMMA ClearAllOverridesStep ==
    ASSUME Inv, ClearAllOverrides
    PROVE  Inv'
<1>1. /\ view' = next /\ next' = next /\ legal' = legal /\ reader' = reader
      /\ game' = Idle /\ game.pc = "spawned"
      /\ chunks' = chunks /\ columns' = columns /\ overrides' = [b \in {} |-> Air]
  BY DEF ClearAllOverrides
<1>2. TypeInv'
  BY <1>1 DEF TypeInv, Inv, ReadersOK, ChunksOK, GameOK, OtherSteps
<1>3. CacheInv' /\ RawKept
  BY <1>1, CacheFrame
<1>4. \A b \in Blocks : Stored(b)' = Stored(b)
  BY <1>1 DEF Stored, Content
<1>5. \A b \in Blocks : Lookup(b)' = next[b]
  <2>1. \A b \in Blocks : Covered(b)
    BY <1>1 DEF Inv, MapInv
  <2>2. QED
    BY <1>1, <1>4, <2>1 DEF Covered, Lookup
<1>6. MapInv'
  BY <1>1, <1>5, StepDomains DEF MapInv, Settled, Idle
<1>7. \A r \in Readers : ReaderInv(r)'
  BY <1>1, <1>3, <1>4, HandlerReaders
<1>8. QED
  BY <1>2, <1>3, <1>6, <1>7 DEF Inv

(* A packet changes each of its blocks once.                               *)
LEMMA BlockChangesStep ==
    ASSUME Inv, NEW records \in Seq(Records), records # <<>>,
           \A i, j \in DOMAIN records : records[i].block = records[j].block => i = j,
           OnBlockChanges(records)
    PROVE  Inv'
<1> DEFINE mine(b) == { i \in DOMAIN records : records[i].block = b }
           promised == [b \in Blocks |->
                IF mine(b) = {} THEN view[b]
                ELSE records[CHOOSE i \in mine(b) : \A j \in mine(b) : j <= i].state]
<1>1. /\ next' = promised /\ view' = view
      /\ game' = [pc |-> "changing", records |-> records] /\ game.pc = "idle"
      /\ \A r \in Readers : reader[r].pc # "idle" =>
            legal'[r] = legal[r] \union {promised[reader[r].block]}
      /\ legal' = [r \in Readers |-> legal'[r]]
      /\ columns' = columns /\ chunks' = chunks /\ overrides' = overrides /\ reader' = reader
  BY DEF OnBlockChanges, Begin, HandleNext, mapVars
<1>2. \A i \in DOMAIN records : records[i] \in Records
  BY LenProperties, ElementOfSeq
<1>3. \A b \in Blocks : promised[b] =
          IF mine(b) = {} THEN view[b]
          ELSE records[CHOOSE i \in mine(b) : \A j \in mine(b) : j <= i].state
  OBVIOUS
<1>4. ASSUME NEW i \in DOMAIN records
      PROVE  promised[records[i].block] = records[i].state
  <2> DEFINE b == records[i].block
             k == CHOOSE x \in mine(b) : \A y \in mine(b) : y <= x
  <2>1. b \in Blocks
    BY <1>2 DEF Records
  <2>2. mine(b) = {i} /\ i \in Nat
    BY LenProperties
  <2>3. k = i
    BY <2>2
  <2>4. promised[b] = records[k].state
    BY <1>3, <2>1, <2>2, Zenon
  <2>5. QED
    BY <2>3, <2>4
<1>5. \A b \in Blocks : ~Changes(records, b) => promised[b] = view[b]
  <2> SUFFICES ASSUME NEW b \in Blocks, ~Changes(records, b) PROVE promised[b] = view[b]
    OBVIOUS
  <2>1. mine(b) = {}
    BY DEF Changes
  <2>2. QED
    BY <1>3, <2>1, Zenon
<1>6. promised = [b \in Blocks |-> promised[b]]
  OBVIOUS
<1>7. promised \in [Blocks -> Answers]
  <2> SUFFICES ASSUME NEW b \in Blocks PROVE promised[b] \in Answers
    BY <1>6
  <2>1. CASE Changes(records, b)
    <3>1. PICK i \in DOMAIN records : records[i].block = b
      BY <2>1 DEF Changes
    <3>2. promised[b] = records[i].state
      BY <1>4, <3>1
    <3>3. QED
      BY <1>2, <3>2 DEF Records, Answers
  <2>2. CASE ~Changes(records, b)
    BY <1>5, <2>2 DEF Inv, TypeInv, ReadersOK
  <2>3. QED
    BY <2>1, <2>2
<1> HIDE DEF promised
<1>8. game' \in ChangeSteps /\ game'.records = records
  BY <1>1 DEF ChangeSteps
<1>9. TypeInv'
  BY <1>1, <1>7, <1>8 DEF TypeInv, Inv, GameOK, ReadersOK, ChunksOK
<1>10. CacheInv' /\ RawKept
  BY <1>1, CacheFrame
<1>11. \A b \in Blocks : Stored(b)' = Stored(b) /\ Lookup(b)' = Lookup(b)
  BY <1>1 DEF Stored, Content, Lookup
<1>12. \A b \in Blocks : Settled(b)
  BY <1>1, BeginsSettled
<1>13. ChangeInv(records)'
  BY <1>1, <1>4, <1>5, <1>11, <1>12 DEF ChangeInv, Settled, Changes
<1>14. MapInv'
  BY <1>1, <1>8, <1>13, StepDomains DEF MapInv
<1>15. \A r \in Readers : ReaderInv(r)'
  BY <1>1, <1>10, <1>11, HandlerReaders
<1>16. QED
  BY <1>9, <1>10, <1>14, <1>15 DEF Inv

(* Without its first record a packet changes the blocks it did but one.    *)
LEMMA RestOfRecords ==
    ASSUME NEW records \in Seq(Records), records # <<>>,
           \A i, j \in DOMAIN records : records[i].block = records[j].block => i = j
    PROVE  /\ Head(records) = records[1] /\ 1 \in DOMAIN records /\ Head(records) \in Records
           /\ Tail(records) \in Seq(Records)
           /\ Tail(records) = <<>> <=> Len(records) = 1
           /\ \A i, j \in DOMAIN Tail(records) :
                 Tail(records)[i].block = Tail(records)[j].block => i = j
           /\ \A i \in DOMAIN Tail(records) : \E j \in DOMAIN records : Tail(records)[i] = records[j]
           /\ \A b : Changes(Tail(records), b) <=> Changes(records, b) /\ b # Head(records).block
<1> DEFINE rest == Tail(records)
<1>1. /\ Head(records) = records[1] /\ 1 \in DOMAIN records /\ Head(records) \in Records
      /\ rest \in Seq(Records) /\ Len(records) \in Nat \ {0}
      /\ Len(rest) = Len(records) - 1 /\ DOMAIN rest = 1 .. Len(rest)
      /\ DOMAIN records = 1 .. Len(records)
      /\ \A i \in DOMAIN rest : rest[i] = records[i + 1]
  <2>1. /\ rest \in Seq(Records) /\ Len(rest) = Len(records) - 1 /\ Head(records) \in Records
        /\ \A i \in 1 .. Len(rest) : rest[i] = records[i + 1]
    BY HeadTailProperties
  <2>2. Len(records) \in Nat \ {0} /\ DOMAIN records = 1 .. Len(records) /\ DOMAIN rest = 1 .. Len(rest)
    BY <2>1, LenProperties, EmptySeq
  <2>3. Head(records) = records[1]
    OBVIOUS
  <2>4. QED
    BY <2>1, <2>2, <2>3
<1>2. rest = <<>> <=> Len(records) = 1
  BY <1>1, EmptySeq
<1> HIDE DEF rest
<1>3. \A i \in DOMAIN rest : i + 1 \in DOMAIN records /\ i + 1 # 1 /\ i \in Nat
  BY <1>1
<1>4. \A i, j \in DOMAIN rest : rest[i].block = rest[j].block => i = j
  <2> SUFFICES ASSUME NEW i \in DOMAIN rest, NEW j \in DOMAIN rest, rest[i].block = rest[j].block
               PROVE  i = j
    OBVIOUS
  <2>1. i + 1 = j + 1
    BY <1>1, <1>3
  <2>2. QED
    BY <1>3, <2>1
<1>5. \A i \in DOMAIN rest : \E j \in DOMAIN records : rest[i] = records[j]
  BY <1>1, <1>3
<1>6. ASSUME NEW b, Changes(records, b), b # Head(records).block
      PROVE  Changes(rest, b)
  <2>1. PICK i \in DOMAIN records : records[i].block = b
    BY <1>6 DEF Changes
  <2>2. i - 1 \in DOMAIN rest /\ (i - 1) + 1 = i
    BY <1>1, <1>6, <2>1
  <2>3. rest[i - 1] = records[i]
    BY <1>1, <2>2
  <2>4. QED
    BY <2>1, <2>2, <2>3 DEF Changes
<1>7. ASSUME NEW b, Changes(rest, b)
      PROVE  Changes(records, b) /\ b # Head(records).block
  <2>1. PICK i \in DOMAIN rest : rest[i].block = b
    BY <1>7 DEF Changes
  <2>2. i + 1 \in DOMAIN records /\ records[i + 1].block = b /\ i + 1 # 1
    BY <1>1, <1>3, <2>1
  <2>3. QED
    BY <1>1, <2>2 DEF Changes
<1>8. QED
  BY <1>1, <1>2, <1>4, <1>5, <1>6, <1>7 DEF rest

(* The handler of a block change sets the override of its first record.    *)
LEMMA SetBlockOverrideStep ==
    ASSUME Inv, SetBlockOverride
    PROVE  Inv'
<1>1. /\ game \in ChangeSteps /\ game.pc = "changing" /\ game.records \in Seq(Records)
      /\ ChangeInv(game.records)
  BY GameCases, StepDomains DEF SetBlockOverride, Inv, TypeInv, MapInv
<1>2. PICK records \in Seq(Records) : records = game.records
  BY <1>1
<1>3. ChangeInv(records) /\ records # <<>>
  BY <1>1, <1>2 DEF ChangeInv
<1> DEFINE b0 == Head(records).block
           rest == Tail(records)
<1>4. /\ Head(records) = records[1] /\ 1 \in DOMAIN records /\ Head(records) \in Records
      /\ rest \in Seq(Records)
      /\ rest = <<>> <=> Len(records) = 1
      /\ \A i, j \in DOMAIN rest : rest[i].block = rest[j].block => i = j
      /\ \A i \in DOMAIN rest : \E j \in DOMAIN records : rest[i] = records[j]
      /\ \A b : Changes(rest, b) <=> Changes(records, b) /\ b # b0
  BY <1>3, RestOfRecords DEF ChangeInv
<1>5. /\ next' = next /\ legal' = legal /\ reader' = reader
      /\ chunks' = chunks /\ columns' = columns
      /\ overrides' = With(overrides, b0, Head(records).state)
      /\ \/ /\ Len(records) = 1 /\ view' = next /\ game' = Idle
         \/ /\ Len(records) # 1 /\ view' = view
            /\ game' = [pc |-> "changing", records |-> rest]
  BY <1>1, <1>2 DEF SetBlockOverride, Proceed, ChangeSteps
<1>6. b0 \in Blocks /\ next[b0] = Head(records).state
  BY <1>3, <1>4 DEF Records, ChangeInv
<1>7. /\ DOMAIN overrides' = DOMAIN overrides \union {b0}
      /\ overrides'[b0] = Head(records).state
      /\ \A b \in DOMAIN overrides : b # b0 => overrides'[b] = overrides[b]
  BY <1>5 DEF With
<1>8. TypeInv'
  <2>1. GameOK'
    BY <1>4, <1>5 DEF GameOK, ChangeSteps, OtherSteps
  <2>2. QED
    BY <1>5, <1>6, <1>7, <2>1 DEF TypeInv, Inv, ReadersOK, ChunksOK
<1>9. CacheInv' /\ RawKept
  BY <1>5, CacheFrame
<1>10. \A b \in Blocks : Stored(b)' = Stored(b)
  BY <1>5 DEF Stored, Content
<1> HIDE DEF b0, rest
<1>11. Lookup(b0)' = next[b0]
  BY <1>6, <1>7 DEF Lookup
<1>12. \A b \in Blocks : b # b0 => Lookup(b)' = Lookup(b)
  BY <1>7, <1>10 DEF Lookup
<1>13. \A b \in Blocks : Lookup(b) = IF Changes(records, b) THEN view[b] ELSE next[b]
  BY <1>3 DEF ChangeInv
<1>14. \A b \in Blocks : Lookup(b)' = IF Changes(rest, b) THEN view[b] ELSE next[b]
  BY <1>4, <1>11, <1>12, <1>13
<1>15. MapInv'
  <2>1. CASE Len(records) = 1
    <3>1. \A b : ~Changes(rest, b)
      BY <1>4, <2>1 DEF Changes
    <3>2. \A b \in Blocks : Settled(b)'
      BY <1>5, <1>14, <2>1, <3>1 DEF Settled
    <3>3. QED
      BY <1>5, <2>1, <3>2, StepDomains DEF MapInv, Idle
  <2>2. CASE Len(records) # 1
    <3>1. \A i \in DOMAIN rest : next[rest[i].block] = rest[i].state
      BY <1>3, <1>4 DEF ChangeInv
    <3>2. game'.records = rest /\ game'.pc = "changing"
      BY <1>5, <2>2
    <3>3. view' = view /\ next' = next
      BY <1>5, <2>2
    <3>4. ChangeInv(game.records)'
      BY <1>4, <1>14, <2>2, <3>1, <3>2, <3>3 DEF ChangeInv, Changes
    <3>5. QED
      BY <3>2, <3>4, StepDomains DEF MapInv
  <2>3. QED
    BY <2>1, <2>2
<1>16. \A r \in Readers : ReaderInv(r)'
  BY <1>5, <1>9, <1>10, HandlerReaders
<1>17. QED
  BY <1>8, <1>9, <1>15, <1>16 DEF Inv

(* Packets that change nothing of the map.                                 *)
LEMMA OtherPacketsStep ==
    ASSUME Inv, OnChunkBatchFinished \/ PacketRefused
    PROVE  Inv'
<1>1. /\ game.pc = "idle" /\ game' \in {Idle, [pc |-> "stopped"]}
      /\ view' = view /\ next' = next /\ legal' = legal /\ reader' = reader
      /\ chunks' = chunks /\ columns' = columns /\ overrides' = overrides
  BY DEF OnChunkBatchFinished, PacketRefused, HandleNext, mapVars
<1>2. TypeInv'
  BY <1>1 DEF TypeInv, Inv, ReadersOK, ChunksOK, GameOK, OtherSteps
<1>3. CacheInv' /\ RawKept
  BY <1>1, CacheFrame
<1>4. \A b \in Blocks : Stored(b)' = Stored(b) /\ Settled(b)' = Settled(b)
  BY <1>1 DEF Stored, Content, Lookup, Settled
<1>5. MapInv'
  BY <1>1, <1>4, BeginsSettled, StepDomains DEF MapInv, Idle
<1>6. \A r \in Readers : ReaderInv(r)'
  BY <1>1, <1>3, <1>4, HandlerReaders
<1>7. QED
  BY <1>2, <1>3, <1>5, <1>6 DEF Inv

-----------------------------------------------------------------------------
(* What a lookup does: to the map nothing but a section cached, to another *)
(* lookup nothing.                                                         *)
LookupFrame(r, step) ==
    /\ columns' = columns /\ overrides' = overrides
    /\ game' = game /\ view' = view /\ next' = next
    /\ reader' = [reader EXCEPT ![r] = step]
    /\ legal' = [legal EXCEPT ![r] = legal'[r]]
    /\ chunks' \in Seq(ChunkRecords) /\ Len(chunks') = Len(chunks)
    /\ RawKept /\ CacheInv'

(* A step of a lookup that keeps to its frame keeps the invariant.         *)
LEMMA LookupStep ==
    ASSUME Inv, NEW r \in Readers, NEW step \in {Idle} \union ReaderSteps,
           LookupFrame(r, step), ReaderInv(r)'
    PROVE  Inv'
<1>1. TypeInv'
  <2>1. ChunksOK'
    BY DEF LookupFrame, Inv, TypeInv, ChunksOK
  <2>2. ReadersOK'
    BY DEF LookupFrame, Inv, TypeInv, ReadersOK
  <2>3. GameOK'
    BY DEF LookupFrame, Inv, TypeInv, GameOK
  <2>4. QED
    BY <2>1, <2>2, <2>3 DEF TypeInv
<1>2. \A b \in Blocks : Stored(b)' = Stored(b)
  BY StoredKept DEF LookupFrame, Inv, TypeInv
<1>3. \A b \in Blocks : Lookup(b)' = Lookup(b)
  BY <1>2 DEF LookupFrame, Lookup
<1>4. \A b \in Blocks : (Settled(b)' <=> Settled(b)) /\ (Covered(b)' <=> Covered(b))
  BY <1>2, <1>3 DEF LookupFrame, Settled, Covered
<1>5. MapInv'
  <2>1. game' = game /\ next' = next /\ view' = view /\ MapInv
    BY DEF LookupFrame, Inv
  <2>2. game \in ChunkSteps => ChunkInv(game.chunk)'
    BY <1>3, <1>4, <2>1 DEF MapInv, ChunkInv, ChunkOf
  <2>3. game \in ChangeSteps => ChangeInv(game.records)'
    BY <1>3, <2>1 DEF MapInv, ChangeInv, Changes
  <2>4. QED
    BY <1>4, <2>1, <2>2, <2>3 DEF MapInv
<1>6. ASSUME NEW q \in Readers, q # r PROVE ReaderInv(q)'
  <2>1. reader'[q] = reader[q] /\ legal'[q] = legal[q] /\ ReaderInv(q)
    BY <1>6 DEF LookupFrame, Inv, TypeInv, ReadersOK
  <2> SUFFICES ASSUME reader[q].pc # "idle" PROVE ReaderInv(q)'
    BY <2>1 DEF ReaderInv
  <2>2. PICK b \in Blocks : b = reader[q].block
    BY DEF Inv, TypeInv, ReadersOK, ReaderSteps, Idle
  <2>3. next'[b] = next[b] /\ view'[b] = view[b] /\ Stored(b)' = Stored(b)
    BY <1>2, <2>2 DEF LookupFrame
  <2>4. \A h \in DOMAIN chunks : h \in DOMAIN chunks' /\ Content(h, b)' = Content(h, b)
    BY DEF LookupFrame, RawKept, Content, BlockOf, Section, NoSection
  <2>5. QED
    BY <2>1, <2>2, <2>3, <2>4 DEF ReaderInv
<1>7. QED
  BY <1>1, <1>5, <1>6 DEF LookupFrame, Inv

(* The steps that leave the chunks alone.                                  *)
LEMMA LookupUnchanged ==
    ASSUME Inv, NEW r \in Readers, NEW step, UNCHANGED <<mapVars, game, view, next>>,
           Step(r, step), legal' = [legal EXCEPT ![r] = legal'[r]]
    PROVE  LookupFrame(r, step)
<1>1. columns' = columns /\ chunks' = chunks /\ overrides' = overrides
  BY DEF mapVars
<1>2. CacheInv' /\ RawKept
  BY <1>1, CacheFrame
<1>3. QED
  BY <1>1, <1>2 DEF LookupFrame, Step, Inv, TypeInv, ChunksOK

(* What the invariant says of a lookup that has begun.                     *)
LEMMA ReaderFacts ==
    ASSUME Inv, NEW r \in Readers, reader[r].pc # "idle"
    PROVE  /\ reader[r] \in ReaderSteps /\ reader[r].block \in Blocks
           /\ ReaderInv(r)
           /\ \A s \in Answers : [reader[r] EXCEPT !.pc = "done", !.answer = s] \in ReaderSteps
<1>1. reader[r] \in ReaderSteps
  BY DEF Inv, TypeInv, ReadersOK, Idle
<1>2. QED
  BY <1>1 DEF Inv, ReaderSteps

(* A lookup starts; what the block is now is a legal answer.               *)
LEMMA GetBlockAtStep ==
    ASSUME Inv, NEW r \in Readers, NEW b \in Blocks, GetBlockAt(r, b)
    PROVE  Inv'
<1> DEFINE step == [pc |-> "override", block |-> b, chunk |-> 0, answer |-> NotLoaded]
<1>1. step \in ReaderSteps
  BY DEF ReaderSteps, Answers
<1>2. LookupFrame(r, step)
  BY LookupUnchanged DEF GetBlockAt, Inv, TypeInv, ReadersOK
<1>3. ReaderInv(r)'
  BY <1>2 DEF LookupFrame, GetBlockAt, ReaderInv, Inv, TypeInv, ReadersOK
<1>4. QED
  BY <1>1, <1>2, <1>3, LookupStep

(* What a lookup would answer at any moment is the old or the new.         *)
LEMMA LookupIsEither ==
    ASSUME Inv, NEW b \in Blocks
    PROVE  Lookup(b) \in {view[b], next[b]}
<1>1. MapInv /\ GameOK
  BY DEF Inv, TypeInv
<1>2. CASE game \in ChunkSteps
  <2>1. ChunkInv(game.chunk) /\ game.pc \in {"stored", "loaded", "unloading", "deleted"}
    BY <1>1, <1>2, StepDomains DEF MapInv
  <2>2. Settled(b) \/ Covered(b) \/ Lookup(b) \in {view[b], next[b]}
    BY <2>1 DEF ChunkInv
  <2>3. QED
    BY <2>2 DEF Settled, Covered, Lookup
<1>3. CASE game \in ChangeSteps
  BY <1>1, <1>3 DEF MapInv, ChangeInv
<1>4. CASE game \in OtherSteps
  BY <1>1, <1>4, StepDomains DEF MapInv, Settled, Covered, Lookup
<1>5. QED
  BY <1>1, <1>2, <1>3, <1>4 DEF GameOK

(* A lookup finds an override, which is a legal answer, or none: what is   *)
(* stored for the block is legal then.                                     *)
LEMMA GetBlockOverrideStep ==
    ASSUME Inv, NEW r \in Readers, GetBlockOverride(r)
    PROVE  Inv'
<1>1. PICK b \in Blocks : b = reader[r].block
  BY ReaderFacts DEF GetBlockOverride
<1>2. /\ reader[r].pc = "override" /\ ReaderInv(r) /\ reader[r] \in ReaderSteps
      /\ UNCHANGED <<mapVars, game, view, next>> /\ legal' = legal
      /\ legal' = [legal EXCEPT ![r] = legal'[r]]
  BY ReaderFacts DEF GetBlockOverride, Inv, TypeInv, ReadersOK
<1>3. Lookup(b) \in legal[r] /\ Lookup(b) \in Answers
  BY <1>1, <1>2, LookupIsEither DEF ReaderInv, Inv, TypeInv, ReadersOK
<1>4. CASE b \in DOMAIN overrides
  <2> DEFINE step == [reader[r] EXCEPT !.pc = "done", !.answer = overrides[b]]
  <2>1. Step(r, step)
    BY <1>1, <1>4 DEF GetBlockOverride, Answer
  <2>2. step \in ReaderSteps
    BY <1>2, <1>3, <1>4 DEF ReaderSteps, Lookup
  <2>3. LookupFrame(r, step)
    BY <1>2, <2>1, LookupUnchanged
  <2>4. ReaderInv(r)'
    BY <1>1, <1>2, <1>3, <1>4, <2>1, <2>2 DEF ReaderInv, Step, Lookup, Inv, TypeInv, ReadersOK, ReaderSteps
  <2>5. QED
    BY <2>2, <2>3, <2>4, LookupStep
<1>5. CASE b \notin DOMAIN overrides
  <2> DEFINE step == [reader[r] EXCEPT !.pc = "column"]
  <2>1. Step(r, step)
    BY <1>1, <1>5 DEF GetBlockOverride
  <2>2. step \in ReaderSteps
    BY <1>2 DEF ReaderSteps
  <2>3. LookupFrame(r, step)
    BY <1>2, <2>1, LookupUnchanged
  <2>4. reader'[r] = step /\ step.block = b /\ step.pc = "column"
    BY <1>1, <1>2, <2>1 DEF Step, Inv, TypeInv, ReadersOK, ReaderSteps
  <2>5. Stored(b)' \in legal[r]
    BY <1>2, <1>3, <1>5 DEF Stored, Content, Lookup, mapVars
  <2>6. ReaderInv(r)'
    BY <1>1, <1>2, <2>4, <2>5 DEF ReaderInv
  <2>7. QED
    BY <2>2, <2>3, <2>6, LookupStep
<1>6. QED
  BY <1>4, <1>5

(* A lookup takes the chunk: what it says of the block is legal, and will  *)
(* be, whatever replaces it.                                               *)
LEMMA GetColumnStep ==
    ASSUME Inv, NEW r \in Readers, GetColumn(r)
    PROVE  Inv'
<1>1. PICK b \in Blocks : b = reader[r].block
  BY ReaderFacts DEF GetColumn
<1>2. PICK h \in Nat : h = columns[ChunkOf(b)] /\ (h # 0 => h \in DOMAIN chunks)
  BY ColumnType, ChunkOfBlock DEF Inv, TypeInv, ChunksOK
<1> DEFINE step == IF h = 0 THEN [reader[r] EXCEPT !.pc = "done", !.answer = NotLoaded]
                   ELSE [reader[r] EXCEPT !.pc = "cache", !.chunk = h]
<1>3. /\ reader[r].pc = "column" /\ ReaderInv(r) /\ reader[r] \in ReaderSteps
      /\ UNCHANGED <<mapVars, game, view, next>> /\ legal' = legal
      /\ legal' = [legal EXCEPT ![r] = legal'[r]]
  BY ReaderFacts DEF GetColumn, Inv, TypeInv, ReadersOK
<1>4. Step(r, step)
  BY <1>1, <1>3, <1>2 DEF GetColumn, Answer
<1>5. step \in ReaderSteps
  BY <1>3, <1>2 DEF ReaderSteps, Answers
<1>6. LookupFrame(r, step)
  BY <1>3, <1>4, LookupUnchanged
<1>7. Stored(b) \in legal[r]
  BY <1>1, <1>3 DEF ReaderInv
<1>8. /\ reader'[r] = step /\ reader'[r].block = b
      /\ h = 0 => step.pc = "done" /\ step.answer = NotLoaded /\ Stored(b) = NotLoaded
      /\ h # 0 => step.pc = "cache" /\ step.chunk = h /\ Stored(b) = Content(h, b)
  <2>1. reader'[r] = step
    BY <1>4 DEF Step, Inv, TypeInv, ReadersOK
  <2>2. QED
    BY <1>1, <1>3, <1>2, <2>1 DEF Stored, ReaderSteps
<1>9. h # 0 => h \in DOMAIN chunks' /\ Content(h, b)' = Stored(b)
  BY <1>3, <1>2, <1>8 DEF mapVars, Content
<1> HIDE DEF step
<1>10. ReaderInv(r)'
  BY <1>1, <1>3, <1>7, <1>8, <1>9 DEF ReaderInv
<1>11. QED
  BY <1>5, <1>6, <1>10, LookupStep

(* A lookup finds the chunk's section in the cache, or not.                *)
LEMMA CheckCacheStep ==
    ASSUME Inv, NEW r \in Readers, CheckCache(r)
    PROVE  Inv'
<1>1. PICK b \in Blocks, h \in DOMAIN chunks : b = reader[r].block /\ h = reader[r].chunk
  BY ReaderFacts DEF CheckCache, ReaderInv
<1> DEFINE section == chunks[h].section
           step == IF section # NoSection
                   THEN [reader[r] EXCEPT !.pc = "done", !.answer = BlockOf(section, b)]
                   ELSE [reader[r] EXCEPT !.pc = "load"]
<1>2. /\ reader[r].pc = "cache" /\ ReaderInv(r) /\ reader[r] \in ReaderSteps
      /\ UNCHANGED <<mapVars, game, view, next>> /\ legal' = legal
      /\ legal' = [legal EXCEPT ![r] = legal'[r]]
  BY ReaderFacts DEF CheckCache, Inv, TypeInv, ReadersOK
<1>3. Step(r, step)
  BY <1>1 DEF CheckCache, Answer
<1>4. section # NoSection => BlockOf(section, b) = Content(h, b) /\ Content(h, b) \in States
  <2>1. chunks[h].raw \in RawData
    BY ColumnType DEF Inv, TypeInv, ChunkRecords
  <2>2. section # NoSection => section = Section(chunks[h].raw)
    BY DEF Inv, CacheInv
  <2>3. QED
    BY <2>1, <2>2, SectionType DEF Content
<1>5. step \in ReaderSteps
  BY <1>2, <1>4 DEF ReaderSteps, Answers
<1>6. LookupFrame(r, step)
  BY <1>2, <1>3, LookupUnchanged
<1>7. Content(h, b) \in legal[r]
  BY <1>1, <1>2 DEF ReaderInv
<1>8. reader'[r] = step
  BY <1>3 DEF Step, Inv, TypeInv, ReadersOK
<1>9. h \in DOMAIN chunks' /\ Content(h, b)' = Content(h, b)
  BY <1>2 DEF mapVars, Content
<1>10. /\ reader'[r].block = b
       /\ section # NoSection => step.pc = "done" /\ step.answer = Content(h, b)
       /\ section = NoSection => step.pc = "load" /\ step.chunk = h
  BY <1>1, <1>2, <1>4, <1>8 DEF ReaderSteps
<1> HIDE DEF section, step
<1>11. ReaderInv(r)'
  BY <1>1, <1>2, <1>7, <1>8, <1>9, <1>10 DEF ReaderInv
<1>12. QED
  BY <1>5, <1>6, <1>11, LookupStep

(* A lookup parses the section, unless another did meanwhile.              *)
LEMMA LoadSectionStep ==
    ASSUME Inv, NEW r \in Readers, LoadSection(r)
    PROVE  Inv'
<1>1. PICK b \in Blocks, h \in DOMAIN chunks : b = reader[r].block /\ h = reader[r].chunk
  BY ReaderFacts DEF LoadSection, ReaderInv
<1>2. /\ reader[r].pc = "load" /\ ReaderInv(r) /\ reader[r] \in ReaderSteps
      /\ columns' = columns /\ overrides' = overrides
      /\ game' = game /\ view' = view /\ next' = next /\ legal' = legal
      /\ legal' = [legal EXCEPT ![r] = legal'[r]]
  BY ReaderFacts DEF LoadSection, Inv, TypeInv, ReadersOK
<1>3. /\ chunks[h] \in ChunkRecords /\ chunks \in Seq(ChunkRecords)
      /\ \/ chunks[h].section = NoSection /\ chunks[h].loads = 0
         \/ chunks[h].section = Section(chunks[h].raw) /\ chunks[h].loads = 1
  BY ColumnType DEF Inv, TypeInv, ChunksOK, CacheInv
<1>4. PICK section : section = Section(chunks[h].raw)
  OBVIOUS
<1> DEFINE loaded == [chunks[h] EXCEPT !.section = section, !.loads = @ + 1]
           step == [reader[r] EXCEPT !.pc = "done", !.answer = BlockOf(section, b)]
<1>5. Step(r, step)
  BY <1>1, <1>3, <1>4 DEF LoadSection, Answer
<1>6. \/ chunks' = chunks
      \/ /\ chunks' = [chunks EXCEPT ![h] = loaded]
         /\ chunks[h].section = NoSection /\ chunks[h].loads = 0
  BY <1>1, <1>3, <1>4 DEF LoadSection
<1>7. /\ chunks[h].loads = 0 => loaded \in ChunkRecords /\ loaded.loads = 1
      /\ loaded.raw = chunks[h].raw /\ loaded.section = section
  <2>1. chunks[h].raw \in RawData /\ section \in Sections
    BY <1>3, <1>4 DEF ChunkRecords, Sections
  <2>2. /\ loaded.raw = chunks[h].raw /\ loaded.section = section
        /\ loaded.loads = chunks[h].loads + 1
    BY <1>3 DEF ChunkRecords
  <2>3. ASSUME chunks[h].loads = 0 PROVE loaded \in ChunkRecords
    <3>1. loaded = [chunks[h] EXCEPT !.section = section, !.loads = 1]
      BY <1>3, <2>3 DEF ChunkRecords
    <3>2. [chunks[h] EXCEPT !.section = section, !.loads = 1] \in ChunkRecords
      BY <1>3, <2>1 DEF ChunkRecords
    <3>3. QED
      BY <3>1, <3>2
  <2>4. QED
    BY <1>3, <2>2, <2>3
<1> HIDE DEF loaded
<1>8. chunks' \in Seq(ChunkRecords) /\ Len(chunks') = Len(chunks) /\ DOMAIN chunks' = DOMAIN chunks
  BY <1>3, <1>6, <1>7, ExceptSeq, ColumnType DEF Inv, TypeInv
<1>9. \A k \in DOMAIN chunks : chunks'[k] = chunks[k] \/ (k = h /\ chunks'[k] = loaded /\ chunks[h].loads = 0)
  BY <1>3, <1>6
<1>10. RawKept /\ CacheInv'
  <2>1. \A k \in DOMAIN chunks : chunks'[k].raw = chunks[k].raw
    BY <1>7, <1>9
  <2>2. CacheInv'
    BY <1>4, <1>7, <1>8, <1>9, <2>1 DEF Inv, CacheInv, Section, NoSection
  <2>3. QED
    BY <1>8, <2>1, <2>2 DEF RawKept
<1>11. Content(h, b) \in legal[r] /\ Content(h, b) = BlockOf(section, b) /\ Content(h, b) \in Answers
  <2>1. chunks[h].raw \in RawData
    BY <1>3 DEF ChunkRecords
  <2>2. QED
    BY <1>1, <1>2, <1>4, <2>1, SectionType DEF ReaderInv, Content, Answers
<1>12. step \in ReaderSteps
  BY <1>2, <1>11 DEF ReaderSteps
<1>13. LookupFrame(r, step)
  BY <1>2, <1>5, <1>8, <1>10 DEF LookupFrame, Step
<1>14. reader'[r] = step
  BY <1>5 DEF Step, Inv, TypeInv, ReadersOK
<1>15. step.pc = "done" /\ step.block = b /\ step.answer = Content(h, b)
  BY <1>1, <1>2, <1>11 DEF ReaderSteps
<1> HIDE DEF step
<1>16. ReaderInv(r)'
  BY <1>1, <1>2, <1>11, <1>14, <1>15 DEF ReaderInv
<1>17. QED
  BY <1>12, <1>13, <1>16, LookupStep

(* A lookup returns.                                                       *)
LEMMA ReturnStep ==
    ASSUME Inv, NEW r \in Readers, Return(r)
    PROVE  Inv'
<1>1. LookupFrame(r, Idle)
  BY LookupUnchanged DEF Return, Inv, TypeInv, ReadersOK
<1>2. ReaderInv(r)'
  BY <1>1 DEF LookupFrame, ReaderInv, Idle, Inv, TypeInv, ReadersOK
<1>3. QED
  BY <1>1, <1>2, LookupStep

-----------------------------------------------------------------------------
(* The theorems *)

(* The first state: no chunk, no override, no lookup.                      *)
LEMMA InitInv ==
    ASSUME Init
    PROVE  Inv
<1>1. TypeInv
  BY EmptySeq DEF Init, TypeInv, ChunksOK, GameOK, ReadersOK, OtherSteps, Answers
<1>2. CacheInv
  BY DEF Init, CacheInv
<1>3. MapInv
  BY ChunkOfBlock, StepDomains DEF Init, MapInv, Settled, Lookup, Stored, Idle
<1>4. \A r \in Readers : ReaderInv(r)
  BY DEF Init, ReaderInv, Idle
<1>5. QED
  BY <1>1, <1>2, <1>3, <1>4 DEF Inv

(* A section update changes two different blocks.                          *)
LEMMA TwoChangesStep ==
    ASSUME Inv, NEW a \in Records, NEW b \in Records, SameSection(a, b), OnBlockChanges(<<a, b>>)
    PROVE  Inv'
<1>1. \A i, j \in DOMAIN <<a, b>> : <<a, b>>[i].block = <<a, b>>[j].block => i = j
  BY DEF SameSection
<1>2. <<a, b>> \in Seq(Records) /\ <<a, b>> # <<>>
  OBVIOUS
<1>3. QED
  BY <1>1, <1>2, BlockChangesStep

(* A step that changes nothing.                                            *)
LEMMA Unchanged ==
    ASSUME Inv, UNCHANGED vars
    PROVE  Inv'
<1>1. /\ game' = game /\ view' = view /\ next' = next /\ legal' = legal /\ reader' = reader
      /\ chunks' = chunks /\ columns' = columns /\ overrides' = overrides
  BY DEF vars, mapVars
<1>2. TypeInv'
  BY <1>1 DEF TypeInv, Inv, ReadersOK, ChunksOK, GameOK
<1>3. CacheInv'
  BY <1>1, CacheFrame
<1>4. \A b : Stored(b)' = Stored(b) /\ Lookup(b)' = Lookup(b) /\ Settled(b)' = Settled(b) /\ Covered(b)' = Covered(b)
  BY <1>1 DEF Stored, Content, Lookup, Settled, Covered
<1>5. MapInv'
  BY <1>1, <1>4 DEF Inv, MapInv, ChunkInv, ChangeInv, ChunkOf, Changes
<1>6. \A r \in Readers : ReaderInv(r)'
  BY <1>1, <1>4 DEF Inv, ReaderInv, Content
<1>7. QED
  BY <1>2, <1>3, <1>5, <1>6 DEF Inv

(* Every step keeps the invariant.                                         *)
LEMMA NextInv ==
    ASSUME Inv, [Next]_vars
    PROVE  Inv'
<1>1. CASE Handlers
  <2>1. ASSUME NEW a \in Records, OnBlockChanges(<<a>>) PROVE Inv'
    <3>1. <<a>> \in Seq(Records) /\ <<a>> # <<>>
      OBVIOUS
    <3>2. \A i, j \in DOMAIN <<a>> : <<a>>[i].block = <<a>>[j].block => i = j
      OBVIOUS
    <3>3. QED
      BY <2>1, <3>1, <3>2, BlockChangesStep
  <2>2. QED
    BY <1>1, <2>1, LevelChunkStep, ForgetLevelChunkStep, PlayerSpawnStep, TwoChangesStep, OtherPacketsStep
    DEF Handlers
<1>2. CASE HandlerSteps
  BY <1>2, ClearOverridesStep, LoadChunkEventStep, DeleteColumnStep, ClearAllOverridesStep, SetBlockOverrideStep
  DEF HandlerSteps
<1>3. ASSUME NEW r \in Readers, Lookups(r) PROVE Inv'
  BY <1>3, GetBlockAtStep, GetBlockOverrideStep, GetColumnStep, CheckCacheStep, LoadSectionStep, ReturnStep
  DEF Lookups
<1>4. CASE UNCHANGED vars
  BY <1>4, Unchanged
<1>5. QED
  BY <1>1, <1>2, <1>3, <1>4 DEF Next

(* The invariant holds of every state, whatever chunks, blocks, states,    *)
(* lookups and number of packets there are.                                *)
THEOREM InvCorrect == Spec => []Inv
<1>1. Init => Inv
  BY InitInv
<1>2. Inv /\ [Next]_vars => Inv'
  BY NextInv
<1>3. QED
  BY <1>1, <1>2, PTL DEF Spec

(* GetBlockAt's answer was current at some moment of the call, although it *)
(* takes up to four locked sections and the handlers change the map in two.*)
THEOREM LookupCorrect == Spec => []LookupIsCurrent
<1>1. Inv => LookupIsCurrent
  BY DEF Inv, ReaderInv, LookupIsCurrent
<1>2. QED
  BY <1>1, InvCorrect, PTL

(* Between two handlers the map is what the packets said; and when a       *)
(* listener is told of a chunk, lookups already answer from it.            *)
THEOREM MapCorrect == Spec => []MapFollowsPackets
<1>1. Inv => MapFollowsPackets
  <2> SUFFICES ASSUME Inv PROVE MapFollowsPackets
    OBVIOUS
  <2>1. game.pc \in {"idle", "stopped"} => \A b \in Blocks : Lookup(b) = view[b]
    BY DEF Inv, MapInv, Settled
  <2>2. ASSUME game.pc = "loaded", NEW b \in InChunk(game.chunk) PROVE Lookup(b) = next[b]
    <3>1. ChunkInv(game.chunk) /\ game.chunk \in Chunks
      BY <2>2, GameCases, StepDomains DEF Inv, TypeInv, MapInv
    <3>2. b \in Blocks /\ ChunkOf(b) = game.chunk
      BY <3>1 DEF InChunk, Blocks, ChunkOf
    <3>3. QED
      BY <2>2, <3>1, <3>2 DEF ChunkInv
  <2>3. QED
    BY <2>1, <2>2 DEF MapFollowsPackets
<1>2. QED
  BY <1>1, InvCorrect, PTL

(* A section is parsed once, however many lookups miss the cache.          *)
THEOREM ParsedOnceCorrect == Spec => []SectionParsedOnce
<1>1. Inv => SectionParsedOnce
  BY DEF Inv, CacheInv, SectionParsedOnce
<1>2. QED
  BY <1>1, InvCorrect, PTL

=============================================================================
