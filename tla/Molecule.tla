------------------------------ MODULE Molecule ------------------------------
(***************************************************************************)
(* The molecule encoding of dag::Data (src/dev_utils/dag.rs): how each     *)
(* type is written by its builder, verified by its reader, and read back   *)
(* through its accessors.                                                  *)
(*                                                                         *)
(* A slice is a sequence of bytes, positions in it count from 0 as in the  *)
(* code.  There are four shapes: an array of IndexSize bytes, a vector of  *)
(* items of one size (fixvec), a vector of items of any size (dynvec), and *)
(* a table.  A dynvec and a table begin with their total size and the      *)
(* offset of each part.                                                    *)
(***************************************************************************)
EXTENDS Integers, Sequences, SequencesExt

CONSTANTS
    NUMBER_SIZE,  \* bytes of a number: 4, or fewer
    Base,         \* values of a byte: 256, or fewer
    IndexSize     \* bytes of a VmIndex or a PipeIndex: 8, or fewer

ASSUME MoleculeAssumption ==
    /\ {NUMBER_SIZE, IndexSize} \subseteq Nat \ {0}
    /\ Base \in Nat \ {0, 1}

-----------------------------------------------------------------------------
(* Numbers, little-endian; what does not fit is cut off *)

pack_number(n) ==
    LET rest[k \in 0 .. NUMBER_SIZE] == IF k = 0 THEN n ELSE rest[k - 1] \div Base
    IN  [k \in 1 .. NUMBER_SIZE |-> rest[k - 1] % Base]

unpack_number(s, at) ==
    LET high[k \in 0 .. NUMBER_SIZE] ==
            IF k = 0 THEN 0 ELSE high[k - 1] * Base + s[at + NUMBER_SIZE + 1 - k]
    IN  high[NUMBER_SIZE]

(* How many numbers there are. *)
Numbers ==
    LET count[k \in 0 .. NUMBER_SIZE] == IF k = 0 THEN 1 ELSE count[k - 1] * Base
    IN  count[NUMBER_SIZE]

Slice(s, start, end) == SubSeq(s, start + 1, end)

-----------------------------------------------------------------------------
(* What a builder writes *)

fixvec_write(items) == pack_number(Len(items)) \o FlattenSeq(items)

(* Mutant of Offset: the parts are taken to follow the total size. *)
Offset_NoHeader(parts, i) == NUMBER_SIZE + Len(FlattenSeq(SubSeq(parts, 1, i - 1)))

(* Where part i begins; the total size, for the one after the last. *)
Offset(parts, i) ==
    NUMBER_SIZE * (Len(parts) + 1) + Len(FlattenSeq(SubSeq(parts, 1, i - 1)))

table_write(parts) ==
    pack_number(Offset(parts, Len(parts) + 1))
      \o FlattenSeq([i \in DOMAIN parts |-> pack_number(Offset(parts, i))])
      \o FlattenSeq(parts)

(* A dynvec is written like a table; with no items, it is its size alone. *)
dynvec_write(items) == table_write(items)

-----------------------------------------------------------------------------
(* What a reader verifies *)

(* Mutant of FixvecOk: there may be more than the items. *)
FixvecOk_AtLeast(s, size) ==
    Len(s) >= NUMBER_SIZE /\ Len(s) >= NUMBER_SIZE + size * unpack_number(s, 0)

(* Mutant of FixvecOk: the items are not counted. *)
FixvecOk_Header(s, size) == Len(s) >= NUMBER_SIZE

FixvecOk(s, size) ==
    Len(s) >= NUMBER_SIZE /\ Len(s) = NUMBER_SIZE + size * unpack_number(s, 0)

SizeOk(s) == Len(s) >= NUMBER_SIZE /\ Len(s) = unpack_number(s, 0)

OffsetFirst(s) == unpack_number(s, NUMBER_SIZE)

HeaderOk(s) ==
    /\ Len(s) >= NUMBER_SIZE * 2
    /\ OffsetFirst(s) % NUMBER_SIZE = 0
    /\ OffsetFirst(s) >= NUMBER_SIZE * 2
    /\ Len(s) >= OffsetFirst(s)

(* The number of parts, from the offset of the first. *)
Count(s) == OffsetFirst(s) \div NUMBER_SIZE - 1

(* offsets, with the total size at its end. *)
offsets(s) == Append([i \in 1 .. Count(s) |-> unpack_number(s, NUMBER_SIZE * i)], Len(s))

Rising(s) == \A i \in 1 .. Count(s) : offsets(s)[i] <= offsets(s)[i + 1]

Part(s, i) == Slice(s, offsets(s)[i], offsets(s)[i + 1])

(* A dynvec, up to its items, and whether it has any. *)
DynvecOk(s) == SizeOk(s) /\ (Len(s) = NUMBER_SIZE \/ (HeaderOk(s) /\ Rising(s)))
Items(s) == IF Len(s) = NUMBER_SIZE THEN {} ELSE {Part(s, i) : i \in 1 .. Count(s)}

FieldsOk(s, fields, compatible) ==
    Count(s) = fields \/ (compatible /\ Count(s) > fields)

(* A table of that many fields, up to the fields themselves. *)
TableOk(s, fields, compatible) ==
    SizeOk(s) /\ HeaderOk(s) /\ FieldsOk(s, fields, compatible) /\ Rising(s)

-----------------------------------------------------------------------------
(* What the accessors return *)

(* item_count and field_count *)
ItemCount(s) == IF unpack_number(s, 0) = NUMBER_SIZE THEN 0 ELSE Count(s)

(* Field i of a table: the last field ends where an extra one begins, if   *)
(* there is one, or else with the table.                                   *)
FieldEnd(s, fields, i) ==
    IF i < fields \/ ItemCount(s) # fields THEN unpack_number(s, NUMBER_SIZE * (i + 1))
    ELSE Len(s)
field(s, fields, i) ==
    Slice(s, unpack_number(s, NUMBER_SIZE * i), FieldEnd(s, fields, i))

(* get_unchecked, with idx from 0: of a dynvec and of a fixvec. *)
ItemEnd(s, idx) ==
    IF idx = ItemCount(s) - 1 THEN Len(s) ELSE unpack_number(s, NUMBER_SIZE * (2 + idx))
get_unchecked(s, idx) ==
    Slice(s, unpack_number(s, NUMBER_SIZE * (1 + idx)), ItemEnd(s, idx))
get_fixed(s, size, idx) ==
    Slice(s, NUMBER_SIZE + size * idx, NUMBER_SIZE + size * (idx + 1))

AllItems(s) == [i \in 1 .. ItemCount(s) |-> get_unchecked(s, i - 1)]
AllFixed(s, size) == [i \in 1 .. unpack_number(s, 0) |-> get_fixed(s, size, i - 1)]

=============================================================================
