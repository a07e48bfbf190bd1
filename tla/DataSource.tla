----------------------------- MODULE DataSource -----------------------------
(***************************************************************************)
(* Where cell data comes from: DataPieceId and TxData::load_data of        *)
(* src/types.rs.                                                           *)
(*                                                                         *)
(* A transaction is the lists load_data looks into.  The data of a cell is *)
(* a sequence of bytes, or Missing when the data loader has none.          *)
(***************************************************************************)
EXTENDS Integers, Sequences

CONSTANTS
    U32Max,   \* the largest u32, shrunk
    U64Max,   \* the largest u64, shrunk
    Missing   \* load_cell_data of the data loader returned None

ASSUME DataAssumption == U32Max \in Nat /\ U64Max \in Nat /\ U32Max < U64Max

(* The source values of a syscall, 1, 2, 3 and the two with the group bit  *)
(* set; "other" stands for all the rest.                                   *)
TagOf == [input |-> "Input", output |-> "Output", cell_dep |-> "CellDep",
          group_input |-> "GroupInput", group_output |-> "GroupOutput",
          other |-> "none"]
Source == DOMAIN TagOf

NoPiece == [tag |-> "none", index |-> 0]
ProgramPiece == [tag |-> "Program", index |-> 0]

(* DataPieceId::try_from: an index that is no u32 is an error. *)
try_from(source, index) ==
    IF index > U32Max \/ source = "other" THEN NoPiece
    ELSE [tag |-> TagOf[source], index |-> index]

-----------------------------------------------------------------------------

(* What get() finds in a list at an index from 0: at most one. *)
GetAt(s, i) == IF i < Len(s) THEN {s[i + 1]} ELSE {}

(* Mutant of ViaGroup: the index is taken for one of the list. *)
ViaGroup_Direct(s, group, i) == GetAt(s, i)

(* An index of a script group: the group has the index into the list. *)
ViaGroup(s, group, i) == UNION {GetAt(s, gi) : gi \in GetAt(group, i)}

(* The cell data behind a DataPieceId, none if an index is out of bound. *)
piece(tx, id) ==
    CASE id.tag = "Program"     -> {tx.program}
      [] id.tag = "Input"       -> GetAt(tx.resolved_inputs, id.index)
      [] id.tag = "Output"      -> GetAt(tx.outputs_data, id.index)
      [] id.tag = "CellDep"     -> GetAt(tx.resolved_cell_deps, id.index)
      [] id.tag = "GroupInput"  -> ViaGroup(tx.resolved_inputs, tx.input_indices, id.index)
      [] id.tag = "GroupOutput" -> ViaGroup(tx.outputs_data, tx.output_indices, id.index)

Least(x, y) == IF x < y THEN x ELSE y

(* Mutant of SliceLength: the length is taken for the end. *)
SliceLength_End(len, offset, length) ==
    IF length > 0 THEN Least(len, length) - offset ELSE len - offset

(* A length of 0 asks for all there is. *)
SliceLength(len, offset, length) ==
    IF length > 0 THEN Least(len - offset, length) ELSE len - offset

(* load_data: the bytes, and the length from offset to the end of the      *)
(* cell, or the error.                                                     *)
load_data(tx, id, offset, length) ==
    IF piece(tx, id) = {} THEN [error |-> "INDEX_OUT_OF_BOUND"]
    ELSE LET data == CHOOSE d \in piece(tx, id) : TRUE
             o == Least(offset, Len(data))
         IN  IF data = Missing THEN [error |-> "Unexpected"]
             ELSE [error |-> "none", full_length |-> Len(data) - o,
                   bytes |-> SubSeq(data, o + 1, o + SliceLength(Len(data), o, length))]

=============================================================================
