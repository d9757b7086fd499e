------------------------------ MODULE ItemHash ------------------------------
(***************************************************************************)
(* bot/screen/hashops.go: the hash by which a click since 1.21.5 names the *)
(* data of a component.  The server compares it with a hash of its own, so *)
(* it must not depend on the order in which Go walks a map, and must not   *)
(* leave out a part.                                                       *)
(*                                                                         *)
(* A component's data is a tree: nil, numbers and strings (leaves), values *)
(* with Has and Val (options), maps, structs, slices and NBT.  A field of  *)
(* a struct is known by toLowerSnake of its name.  The checksum is some    *)
(* function to 0..(HashRange - 1): CRC-32C has collisions too, only fewer. *)
(***************************************************************************)
EXTENDS Integers, Sequences, SequencesExt

CONSTANT HashRange      (* 2^32 *)

ASSUME HashAssumption == HashRange \in Nat \ {0}

(* What a hash function returns, besides a hash: an error, or no return.   *)
Error == -1
Panic == -2
IsHash(h) == h >= 0

Checksum(bytes) == FoldLeft(LAMBDA sum, b : (31 * sum + b + 1) % HashRange, 0, bytes)

-----------------------------------------------------------------------------
(* hashOps: tags tell an empty map from an empty list, an int from a byte. *)

MapStart == 2
MapEnd == 3
ListStart == 4
ListEnd == 5
StringTag == 12

EmptyHash == Checksum(<<1>>)
CreateLeaf(tag, n) == Checksum(<<tag, n>>)
CreateString(key) == CreateLeaf(StringTag, key)
CreateList(hashes) == Checksum(<<ListStart>> \o hashes \o <<ListEnd>>)

Flat(entries) == FoldLeft(LAMBDA bytes, e : bytes \o e, <<>>, entries)

(* Mutant: entries with equal keys stay in the order they came in.         *)
CreateMapByKey(entries) ==
    LET before(e, f) == e[1] < f[1]
    IN  Checksum(<<MapStart>> \o Flat(SortSeq(entries, before)) \o <<MapEnd>>)

(* createMap sorts by the hash of the key, then by that of the value.      *)
CreateMap(entries) ==
    LET before(e, f) == e[1] < f[1] \/ (e[1] = f[1] /\ e[2] < f[2])
    IN  Checksum(<<MapStart>> \o Flat(SortSeq(entries, before)) \o <<MapEnd>>)

-----------------------------------------------------------------------------
(* hashValue                                                               *)

(* The failure of the first part, in their order, that has one.            *)
FirstFailure(hashes) == hashes[CHOOSE i \in DOMAIN hashes :
                            ~IsHash(hashes[i]) /\ \A j \in 1..(i - 1) : IsHash(hashes[j])]
AllHashed(hashes) == \A i \in DOMAIN hashes : IsHash(hashes[i])

Pair(keys, hashes) == [i \in DOMAIN hashes |-> <<CreateString(keys[i]), hashes[i]>>]

(* A field with Has and Val is left out when it has no value, and is its   *)
(* value otherwise; fields of other packages cannot be read.               *)
Present(field) == field.exported /\ (field.value.kind = "option" => field.value.has)
Unwrapped(value) == IF value.kind = "option" THEN value.val ELSE value

RECURSIVE HashValue(_), HashNBTValue(_)

(* mapHashEntries of a Go map; if a part fails, sliceHashValues looks for  *)
(* a field of the map, and panics.                                         *)
HashMap(v) ==
    LET hashes == [i \in DOMAIN v.entries |-> HashValue(v.entries[i].value)]
        keys == [i \in DOMAIN v.entries |-> v.entries[i].key]
    IN  IF AllHashed(hashes) THEN CreateMap(Pair(keys, hashes)) ELSE Panic

(* mapHashEntries of a struct; one with no field present is unsupported.   *)
HashStruct(v) ==
    LET fields == SelectSeq(v.fields, Present)
        hashes == [i \in DOMAIN fields |-> HashValue(Unwrapped(fields[i].value))]
    IN  IF fields = <<>> THEN Error
        ELSE IF ~AllHashed(hashes) THEN FirstFailure(hashes)
        ELSE CreateMap(Pair([i \in DOMAIN fields |-> fields[i].key], hashes))

(* sliceHashValues *)
HashSlice(v) ==
    LET hashes == [i \in DOMAIN v.elems |-> HashValue(v.elems[i])]
    IN  IF ~AllHashed(hashes) THEN FirstFailure(hashes) ELSE CreateList(hashes)

(* hashNBTCompound, hashNBTList *)
HashNBTValue(v) ==
    CASE v.kind = "nil" -> EmptyHash
      [] v.kind = "leaf" -> CreateLeaf(v.tag, v.n)
      [] v.kind = "compound" ->
            LET hashes == [i \in DOMAIN v.entries |-> HashNBTValue(v.entries[i].value)]
            IN  IF ~AllHashed(hashes) THEN Error
                ELSE CreateMap(Pair([i \in DOMAIN v.entries |-> v.entries[i].key], hashes))
      [] v.kind = "nbtlist" ->
            LET hashes == [i \in DOMAIN v.elems |-> HashNBTValue(v.elems[i])]
            IN  IF ~AllHashed(hashes) THEN Error ELSE CreateList(hashes)
      [] OTHER -> Error

(* hashValue, hashOption.  Of a value of any other type sliceHashValues    *)
(* asks for a field, which panics unless it is a struct.                   *)
HashValue(v) ==
    CASE v.kind = "nil" -> EmptyHash
      [] v.kind = "option" -> IF v.has THEN HashValue(v.val) ELSE EmptyHash
      [] v.kind = "leaf" -> CreateLeaf(v.tag, v.n)
      [] v.kind = "nbt" -> HashNBTValue(v.value)
      [] v.kind = "map" -> HashMap(v)
      [] v.kind = "struct" -> HashStruct(v)
      [] v.kind = "slice" -> HashSlice(v)
      [] OTHER -> Panic

=============================================================================
