------------------------------ MODULE Formats ------------------------------
(***************************************************************************)
(* What the bot makes of the server's numbers: Versions as it runs, and    *)
(* the pure parts, BlockLookup and ItemHash, on the inputs of one probe    *)
(* each.  A behaviour is one of Versions or takes one probe, so that the   *)
(* two add up and do not multiply.                                         *)
(*                                                                         *)
(* What a server sends is written here from the protocol, as the code      *)
(* that reads it takes it to be.                                           *)
(***************************************************************************)
EXTENDS Versions, BlockLookup, ItemHash

CONSTANTS
    MaxBits,        (* bound: bits of a palette's index                     *)
    LeafValues,     (* bound: leaves of an item's data                      *)
    Keys            (* keys of the entries of a map, in some order          *)

VARIABLE probe      (* input of the pure parts, or NoProbe                  *)

vars == <<versionVars, probe>>

NoProbe == [kind |-> "none"]

-----------------------------------------------------------------------------
(* Chunks as the server sends them                                         *)

(* A section is [bits, biomeBits, short, shift]: short palettes do not use *)
(* every index, and shift tells the blocks of two sections apart.          *)
SectionKinds == [bits : 0..MaxBits, biomeBits : 0..1, short : BOOLEAN, shift : 0..1]

PaletteOf(section, slot) ==
    [i \in 1..(IF section.short /\ section.bits > 0 THEN Pow2(section.bits) - 1
               ELSE Pow2(section.bits)) |-> 100 * (slot + 1) + i]

IndexOf(section, slot, i) == (3 * i + section.shift) % Len(PaletteOf(section, slot))

(* Index i begins at bit bits * (i % per) of long i \div per.              *)
Packed(n, bits, Index(_)) ==
    LET per == LongBits \div bits
    IN  [j \in 1..((n + per - 1) \div per) |->
            FoldSet(LAMBDA i, sum : sum + Index(i) * Pow2(bits * (i % per)), 0,
                    { i \in 0..(n - 1) : i \div per = j - 1 })]

PaletteContainer(n, bits, palette, Index(_)) ==
    IF bits = 0 THEN <<0, palette[1]>>
    ELSE <<bits, Len(palette)>> \o palette \o Packed(n, bits, Index)

SectionData(section, slot) ==
    LET Block(i) == IndexOf(section, slot, i)
        Biome(i) == i % 2
    IN  <<Size>> \o PaletteContainer(Size, section.bits, PaletteOf(section, slot), Block)
                 \o PaletteContainer(BiomeSize, section.biomeBits, <<7, 8>>, Biome)

RECURSIVE ChunkBytes(_, _)
ChunkBytes(sections, slot) ==
    IF slot = SectionCount THEN <<>>
    ELSE SectionData(sections[slot], slot) \o ChunkBytes(sections, slot + 1)

Slots == 0..(SectionCount - 1)

(* A chunk's data, cut short by cut numbers.                               *)
Data(p) == LET bytes == ChunkBytes(p.sections, 0)
           IN  SubSeq(bytes, 1, Len(bytes) - p.cut)

(* The state of a block, relative to the chunk, in the server's world.     *)
ServersBlock(p, x, y, z) ==
    LET slot == y \div Edge - MinSection
        section == p.sections[slot]
    IN  PaletteOf(section, slot)[IndexOf(section, slot, ((y % Edge) * Edge + z) * Edge + x) + 1]

ChunkProbes ==
    { [kind |-> "chunk", pos |-> c, sections |-> s, cut |-> 0] :
          c \in {<<0, 0>>, <<-1, 0>>, <<0, -1>>},
          s \in { f \in [Slots -> SectionKinds] : \A slot \in Slots :
                     f[slot] = [f[0] EXCEPT !.bits = f[slot].bits] } }

IsCut(p) == p.kind = "chunk" /\ p.cut > 0

-----------------------------------------------------------------------------
(* Block changes and items as the server sends them                        *)

RecordProbes ==
    { [kind |-> "records", section |-> s, changes |-> <<[state |-> 5, off |-> o], [state |-> 6, off |-> q]>>] :
          s \in {-1, 0} \X {-1, 0} \X {-1, 0}, o \in Offsets, q \in Offsets }

Leaves == { [kind |-> "leaf", tag |-> 8, n |-> n] : n \in LeafValues } \union {[kind |-> "nil"]}
Simple == Leaves \union {[kind |-> "opaque"]}

Maps(kind, values) ==
    { [kind |-> kind, entries |-> [i \in DOMAIN Keys |-> [key |-> Keys[i], value |-> f[i]]]] :
          f \in [DOMAIN Keys -> values] }
Structs(values) ==
    { [kind |-> "struct", fields |-> <<[key |-> Keys[1], exported |-> e, value |-> v],
                                       [key |-> Keys[2], exported |-> TRUE, value |-> w]>>] :
          e \in BOOLEAN, v \in values, w \in values }
Options(values) == { [kind |-> "option", has |-> h, val |-> v] : h \in BOOLEAN, v \in values }
NBT(values) == { [kind |-> "nbt", value |-> v] : v \in values }
Slices(values) == { [kind |-> "slice", elems |-> <<v, w>>] : v \in values, w \in values }

SomeMaps == { m \in Maps("map", Leaves) : \A i \in 2..Len(Keys) : m.entries[i].value.kind = "leaf" }

Items ==
    Maps("map", Simple)
    \union NBT(Maps("compound", Simple))
    \union Structs(Simple \union Options(Simple))
    \union Slices(Simple \union SomeMaps)
    \union Structs(Options(SomeMaps))

ItemProbes == { [kind |-> "item", value |-> v] : v \in Items }

-----------------------------------------------------------------------------

Init == VersionsInit /\ probe = NoProbe

(* Probes are taken from one initial state of Versions.                    *)
Unused ==
    /\ \A b \in Bots : era[b] = "post" /\ ~codec[b] /\ manager[b] = None
    /\ joins = 0 /\ loads = 0

Probe(p) ==
    /\ probe' = p
    /\ UNCHANGED versionVars

(* A chunk's data ends earlier and earlier.                                *)
Cut ==
    /\ probe.kind = "chunk" /\ probe.pos = <<0, 0>>
    /\ Data(probe) # <<>>
    /\ probe' = [probe EXCEPT !.cut = @ + 1]
    /\ UNCHANGED versionVars

Next ==
    \/ probe = NoProbe /\ VersionsNext /\ UNCHANGED probe
    \/ probe = NoProbe /\ Unused /\ \E p \in ChunkProbes \union RecordProbes \union ItemProbes : Probe(p)
    \/ Cut

Spec == Init /\ [][Next]_vars

-----------------------------------------------------------------------------
(* Properties *)

Sections(p) == LET data == Data(p) IN [slot \in Slots |-> LoadSection(data, slot)]

ChunkLookups ==
    (probe.kind = "chunk" /\ probe.cut = 0) =>
        LET columns == [c \in {probe.pos} |-> Sections(probe)]
            minY == MinSection * Edge
            height == SectionCount * Edge
        IN  \A x \in HalfBlocks(probe.pos[1] * Edge, Edge),
               z \in HalfBlocks(probe.pos[2] * Edge, Edge),
               y \in { h \in HalfBlocks(minY - 1, height + 2) : h >= 0 \/ h % 2 = 0 } :
                  GetBlockAt(columns, Empty, x, y, z) =
                      IF Floor(y) \in minY..(minY + height - 1)
                      THEN ServersBlock(probe, Floor(x) % Edge, Floor(y), Floor(z) % Edge)
                      ELSE Air

CutLookups ==
    IsCut(probe) =>
        LET sections == Sections(probe)
            end[slot \in Slots] == Len(SectionData(probe.sections[slot], slot))
                                   + (IF slot = 0 THEN 0 ELSE end[slot - 1])
        IN  \A x \in 0..(Edge - 1), z \in 0..(Edge - 1), slot \in Slots, i \in 0..(Edge - 1) :
                LET y == (MinSection + slot) * Edge + i
                    found == ChunkGetBlockAt(sections, x, y, z)
                IN  \/ found = ServersBlock(probe, x, y, z)
                    \/ found = Air /\ end[slot] > Len(Data(probe))

ChangedLookups == probe.kind = "records" => ChangesAreFound(probe.section, probe.changes)

(* A lookup at any point of a loaded chunk finds the state of the block    *)
(* there in the server's world: the chunk of the point, the section, its   *)
(* number of bits, the long and the bits in it; above and below the world  *)
(* it finds air (y is whole or not negative).  From data that ends early,  *)
(* at whatever number, it finds the block that is there or air, never      *)
(* another one, and every section that is there as a whole.  Of changed    *)
(* blocks it finds each where it is, the later change of two for one       *)
(* block, and none at another block of the section.                        *)
LookupIsTheBlock == ChunkLookups /\ CutLookups /\ ChangedLookups

(* The same data, its maps walked in another order.                        *)
RECURSIVE Reordered(_)
Reordered(v) ==
    CASE v.kind \in {"map", "compound"} ->
            { [v EXCEPT !.entries = [i \in DOMAIN v.entries |-> v.entries[perm[i]]]] :
                  perm \in { f \in [DOMAIN v.entries -> DOMAIN v.entries] :
                                \A i, j \in DOMAIN f : f[i] = f[j] => i = j } }
      [] v.kind = "nbt" -> { [v EXCEPT !.value = w] : w \in Reordered(v.value) }
      [] v.kind = "option" -> { [v EXCEPT !.val = w] : w \in Reordered(v.val) }
      [] v.kind = "slice" -> { [v EXCEPT !.elems[1] = w] : w \in Reordered(v.elems[1]) }
      [] v.kind = "struct" -> { [v EXCEPT !.fields[2].value = w] : w \in Reordered(v.fields[2].value) }
      [] OTHER -> {v}

RECURSIVE Parts(_)
Parts(v) ==
    CASE v.kind \in {"map", "compound"} -> UNION { Parts(v.entries[i].value) : i \in DOMAIN v.entries }
      [] v.kind = "nbt" -> Parts(v.value)
      [] v.kind = "option" -> IF v.has THEN Parts(v.val) ELSE {}
      [] v.kind = "slice" -> UNION { Parts(v.elems[i]) : i \in DOMAIN v.elems }
      [] v.kind = "struct" ->
            UNION { Parts(v.fields[i].value) : i \in { j \in DOMAIN v.fields : v.fields[j].exported } }
      [] OTHER -> {v}

(* A click with an item has one hash for the whole of the item's data: a   *)
(* map hashes to the same number on every walk, with keys whose hashes     *)
(* collide too, and data with a part the code has no hash for gets an      *)
(* error, or ends the program, never a hash of the rest.  The server would *)
(* take any other number for another item.                                 *)
HashIsOfTheWhole ==
    probe.kind = "item" =>
        /\ \A v \in Reordered(probe.value) : HashValue(v) = HashValue(probe.value)
        /\ IsHash(HashValue(probe.value)) => [kind |-> "opaque"] \notin Parts(probe.value)

=============================================================================
