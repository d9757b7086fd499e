---------------------------- MODULE BlockLookup ----------------------------
(***************************************************************************)
(* bot/world, the arithmetic of a lookup: from a point to a block of a     *)
(* section (chunks.go), and from the bytes of a chunk to the block's state *)
(* (chunk_storage.go).  World has the steps and the locks of a lookup.     *)
(*                                                                         *)
(* A stream is the sequence of the numbers read from it: counts, VarInts   *)
(* and longs; a cut between two of them stands for one inside the second.  *)
(* Edge, LongBits and the limits of the world are parameters; a coordinate *)
(* of a point is given in half blocks.  What the server sends is section   *)
(* data with a palette: one state for all, or bits that index a list.      *)
(***************************************************************************)
EXTENDS Integers, Sequences, FiniteSetsExt

CONSTANTS
    Edge,            (* 16: blocks in the edge of a section                 *)
    LongBits,        (* 64                                                  *)
    BiomeSize,       (* 64: biomes of a section                             *)
    SectionCount,    (* 24                                                  *)
    SectionsBelow    (* 4: sections below y = 0                             *)

ASSUME BlockLookupAssumption ==
    /\ Edge \in Nat \ {0} /\ LongBits \in Nat \ {0} /\ BiomeSize \in Nat \ {0}
    /\ SectionCount \in Nat /\ SectionsBelow \in Nat

Air == 0
Size == Edge * Edge * Edge
MinSection == -SectionsBelow

-----------------------------------------------------------------------------
(* Reading.  A reader is a position in the data, or Eof.                   *)

Eof == -1

Advance(data, p, n) == IF p = Eof \/ p + n > Len(data) THEN Eof ELSE p + n

ValuesPerLong(bits) == LongBits \div bits
DataLength(size, bits) == (size + ValuesPerLong(bits) - 1) \div ValuesPerLong(bits)

(* skipPaletteContainer: bits and a value, or bits, a palette and longs.   *)
SkipPaletteContainer(data, p, size) ==
    LET q == Advance(data, p, 2)
    IN  IF q = Eof THEN Eof
        ELSE IF data[q - 1] = 0 THEN q
        ELSE Advance(data, q, data[q] + DataLength(size, data[q - 1]))

SkipSection(data, p) ==
    SkipPaletteContainer(data, SkipPaletteContainer(data, Advance(data, p, 1), Size), BiomeSize)

NoSection == [bits |-> Eof]

(* loadPaletteContainer *)
LoadPaletteContainer(data, p) ==
    LET q == Advance(data, p, 2)
    IN  IF q = Eof THEN NoSection
        ELSE IF data[q - 1] = 0 THEN [bits |-> 0, value |-> data[q], end |-> q]
        ELSE LET bits == data[q - 1]
                 end == Advance(data, q, data[q] + DataLength(Size, bits))
             IN  IF end = Eof THEN NoSection
                 ELSE [bits |-> bits,
                       palette |-> SubSeq(data, q + 1, q + data[q]),
                       longs |-> SubSeq(data, q + data[q] + 1, end),
                       end |-> end]

(* loadSection: the sections below are skipped, and so are its biomes.     *)
SectionStarts(data, slot) ==
    LET start[i \in 0..slot] == IF i = 0 THEN 0 ELSE SkipSection(data, start[i - 1])
    IN  start

LoadSection(data, slot) ==
    LET section == LoadPaletteContainer(data, Advance(data, SectionStarts(data, slot)[slot], 1))
    IN  IF section = NoSection \/ SkipPaletteContainer(data, section.end, BiomeSize) = Eof
        THEN NoSection ELSE section

-----------------------------------------------------------------------------
(* The block of a section                                                  *)

(* Mutant: x and y change places, as in a record of block changes.         *)
BlockIndexAsRecord(x, y, z) == (x * Edge + z) * Edge + y

BlockIndex(x, y, z) == (y * Edge + z) * Edge + x

PowersTo(n) == LET power[i \in 0..n] == IF i = 0 THEN 1 ELSE 2 * power[i - 1] IN power
Pow2(n) == PowersTo(n)[n]

(* getBlockFromSection: shift and mask of the long that holds the index.   *)
GetBlockFromSection(section, x, y, z) ==
    IF section.bits = 0 THEN section.value
    ELSE IF ValuesPerLong(section.bits) = 0 THEN Air
    ELSE LET i == BlockIndex(x, y, z)
             per == ValuesPerLong(section.bits)
             long == i \div per
             paletteIndex == (section.longs[long + 1] \div Pow2((i % per) * section.bits))
                                % Pow2(section.bits)
         IN  IF long >= Len(section.longs) \/ paletteIndex >= Len(section.palette) THEN Air
             ELSE section.palette[paletteIndex + 1]

(* ChunkData.GetBlockAt, x and z relative to the chunk; the sections are   *)
(* those getOrLoadSection has for the chunk.                               *)
ChunkGetBlockAt(sections, x, y, z) ==
    LET slot == y \div Edge - MinSection
    IN  IF slot \notin 0..(SectionCount - 1) \/ sections[slot] = NoSection THEN Air
        ELSE GetBlockFromSection(sections[slot], x, y - (y \div Edge) * Edge, z)

-----------------------------------------------------------------------------
(* The block of a point                                                    *)

NotLoaded == -1

Floor(half) == half \div 2
Truncate(half) == IF half >= 0 THEN half \div 2 ELSE -((-half) \div 2)

ToBlockCoords(x, y, z) == <<Floor(x), Floor(y), Floor(z)>>

(* World.GetBlockAt: x and z are floored; y is floored for the changed     *)
(* blocks and truncated for the chunk.                                     *)
GetBlockAt(columns, overrides, x, y, z) ==
    LET b == ToBlockCoords(x, y, z)
        c == <<b[1] \div Edge, b[3] \div Edge>>
    IN  IF b \in DOMAIN overrides THEN overrides[b]
        ELSE IF c \notin DOMAIN columns THEN NotLoaded
        ELSE ChunkGetBlockAt(columns[c], b[1] % Edge, Truncate(y), b[3] % Edge)

(* decodeMultiBlockRecord: state, x, z, y.                                 *)
DecodeMultiBlockRecord(record) ==
    [state |-> record \div Size,
     off |-> <<(record % Size) \div (Edge * Edge), record % Edge, (record \div Edge) % Edge>>]

(* handleMultiBlockChangePacket: later records of a block win.             *)
HandleMultiBlockChange(section, records) ==
    LET Pos(i) == LET off == DecodeMultiBlockRecord(records[i]).off
                  IN  [d \in 1..3 |-> section[d] * Edge + off[d]]
    IN  [b \in { Pos(i) : i \in DOMAIN records } |->
            DecodeMultiBlockRecord(records[Max({ i \in DOMAIN records : Pos(i) = b })]).state]

-----------------------------------------------------------------------------
(* What the server means by its changes                                    *)

Offsets == (0..(Edge - 1)) \X (0..(Edge - 1)) \X (0..(Edge - 1))

Record(state, off) == state * Size + (off[1] * Edge + off[3]) * Edge + off[2]

RecordsOf(changes) == [i \in DOMAIN changes |-> Record(changes[i].state, changes[i].off)]

HalfBlocks(first, blocks) == (2 * first)..(2 * (first + blocks) - 1)

(* At every point of a section a lookup finds the last of the changes      *)
(* [state, off] of the block there, and no change of another block.        *)
ChangesAreFound(section, changes) ==
    LET overrides == HandleMultiBlockChange(section, RecordsOf(changes))
        Axis(d) == HalfBlocks(section[d] * Edge, Edge)
    IN  \A x \in Axis(1), y \in Axis(2), z \in Axis(3) :
            LET off == <<Floor(x) - section[1] * Edge, Floor(y) - section[2] * Edge,
                         Floor(z) - section[3] * Edge>>
                here == { i \in DOMAIN changes : changes[i].off = off }
            IN  GetBlockAt([c \in {} |-> NoSection], overrides, x, y, z) =
                    IF here = {} THEN NotLoaded ELSE changes[Max(here)].state

=============================================================================
