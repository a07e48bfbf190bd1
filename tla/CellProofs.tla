---------------------------- MODULE CellProofs ----------------------------
(***************************************************************************)
(* What guests get of a cell, proved for any transaction, any cells, and   *)
(* any indices, offsets and sizes.                                         *)
(***************************************************************************)
EXTENDS CellSyscalls, SequenceTheorems, TLAPS

Where == [source : Source, index : Indices]

(* The call at x finds a cell and the cell has data. *)
Found(x) ==
    /\ Exists(x)
    /\ x.index <= U32Max
    /\ Cell(x) # Missing

(* What is known while a guest reads a cell or has a spawn under way: the  *)
(* cell is there, the bytes so far are its first ones, and the arguments   *)
(* of the message were checked against it.                                 *)
Progress ==
    /\ tx \in Tx
    /\ cpc \in {"idle", "reading", "read", "spawning", "booted"}
    /\ cpc # "idle" => at \in Where /\ Found(at)
    /\ cpc = "idle" => cursor = 0 /\ got = <<>>
    /\ cpc = "reading" => cursor \in 0 .. Len(Cell(at))
    /\ cpc \in {"spawning", "booted"} =>
          /\ args.offset \in Nat /\ args.length \in Nat
          /\ ~BoundsRefused(args.offset, args.length, Len(Cell(at)))
    /\ cpc \in {"spawning", "booted"} => cursor = 0 /\ got = <<>>

CellInv == Progress /\ ChunksMakeTheCell /\ BootsWhatWasChecked /\ OnlyRealCells

-----------------------------------------------------------------------------
(* load_data *)

LEMMA ItemOf ==
    ASSUME NEW S, NEW s \in Seq(S), NEW i \in Nat, i < Len(s)
    PROVE  s[i + 1] \in S
  <1>1. i + 1 \in 1 .. Len(s)
    OBVIOUS
  <1> QED BY <1>1

(* What ViaGroup finds: the cell the group's index points to. *)
LEMMA ViaIs ==
    ASSUME NEW s, NEW g, NEW i
    PROVE  ViaGroup(s, g, i) = IF i < Len(g) /\ g[i + 1] < Len(s) THEN {s[g[i + 1] + 1]} ELSE {}
  <1>1. CASE i < Len(g)
    <2>1. GetAt(g, i) = {g[i + 1]}
      BY <1>1 DEF GetAt
    <2>2. ViaGroup(s, g, i) = GetAt(s, g[i + 1])
      BY <2>1 DEF ViaGroup
    <2> QED BY <1>1, <2>2 DEF GetAt
  <1>2. CASE ~(i < Len(g))
    <2>1. GetAt(g, i) = {}
      BY <1>2 DEF GetAt
    <2>2. ViaGroup(s, g, i) = {}
      BY <2>1 DEF ViaGroup
    <2> QED BY <1>2, <2>2
  <1> QED BY <1>1, <1>2

(* A part of len bytes never ends beyond them. *)
LEMMA SliceFits ==
    ASSUME NEW len \in Nat, NEW o \in Nat, NEW n \in Nat
    PROVE  /\ Least(o, len) \in 0 .. len
           /\ SliceLength(len, Least(o, len), n) \in Nat
           /\ Least(o, len) + SliceLength(len, Least(o, len), n) <= len
  <1>1. Least(o, len) \in 0 .. len
    BY DEF Least
  <1>2. ASSUME NEW k \in 0 .. len
        PROVE  SliceLength(len, k, n) \in Nat /\ k + SliceLength(len, k, n) <= len
    BY DEF SliceLength, Least
  <1> QED BY <1>1, <1>2

(* The cell data behind the DataPieceId of a call is the cell the call     *)
(* names, if there is one.                                                 *)
LEMMA PieceIs ==
    ASSUME tx \in Tx, NEW x \in Where, Id(x) # NoPiece
    PROVE  /\ piece(tx, Id(x)) = IF Exists(x) THEN {Cell(x)} ELSE {}
           /\ Exists(x) => Cell(x) \in CellData
  <1> DEFINE id == Id(x)
             Ok == /\ piece(tx, id) = IF Exists(x) THEN {Cell(x)} ELSE {}
                   /\ Exists(x) => Cell(x) \in CellData
  <1>1. /\ x.index \in Nat /\ x.source \in {"input", "output", "cell_dep", "group_input", "group_output"}
        /\ id = [tag |-> TagOf[x.source], index |-> x.index]
    BY CellAssumption, DataAssumption DEF Where, Id, try_from, Source, TagOf, NoPiece
  <1>2. /\ tx.resolved_inputs \in Seq(CellData) /\ tx.outputs_data \in Seq(CellData)
        /\ tx.resolved_cell_deps \in Seq(CellData)
        /\ tx.input_indices \in Seq(Nat) /\ tx.output_indices \in Seq(Nat)
    BY DEF Tx
  <1>3. ASSUME x.source = "input" PROVE Ok
    <2>1. id.tag = "Input" /\ id.index = x.index
      BY <1>1, <1>3 DEF TagOf
    <2> HIDE DEF id
    <2>2. piece(tx, id) = IF x.index < Len(tx.resolved_inputs) THEN {tx.resolved_inputs[x.index + 1]} ELSE {}
      BY <2>1 DEF piece, GetAt
    <2>3. x.source \in DOMAIN CellsOf /\ x.source \notin DOMAIN GroupOf /\ CellsOf[x.source] = tx.resolved_inputs
      BY <1>3 DEF CellsOf, GroupOf
    <2>4. /\ Exists(x) <=> x.index < Len(tx.resolved_inputs)
          /\ Cell(x) = tx.resolved_inputs[x.index + 1]
      BY <2>3 DEF Exists, Cell, Position
    <2>5. x.index < Len(tx.resolved_inputs) => tx.resolved_inputs[x.index + 1] \in CellData
      BY <1>1, <1>2, ItemOf
    <2> QED BY <2>2, <2>4, <2>5
  <1>4. ASSUME x.source = "output" PROVE Ok
    <2>1. id.tag = "Output" /\ id.index = x.index
      BY <1>1, <1>4 DEF TagOf
    <2> HIDE DEF id
    <2>2. piece(tx, id) = IF x.index < Len(tx.outputs_data) THEN {tx.outputs_data[x.index + 1]} ELSE {}
      BY <2>1 DEF piece, GetAt
    <2>3. x.source \in DOMAIN CellsOf /\ x.source \notin DOMAIN GroupOf /\ CellsOf[x.source] = tx.outputs_data
      BY <1>4 DEF CellsOf, GroupOf
    <2>4. /\ Exists(x) <=> x.index < Len(tx.outputs_data)
          /\ Cell(x) = tx.outputs_data[x.index + 1]
      BY <2>3 DEF Exists, Cell, Position
    <2>5. x.index < Len(tx.outputs_data) => tx.outputs_data[x.index + 1] \in CellData
      BY <1>1, <1>2, ItemOf
    <2> QED BY <2>2, <2>4, <2>5
  <1>5. ASSUME x.source = "cell_dep" PROVE Ok
    <2>1. id.tag = "CellDep" /\ id.index = x.index
      BY <1>1, <1>5 DEF TagOf
    <2> HIDE DEF id
    <2>2. piece(tx, id) = IF x.index < Len(tx.resolved_cell_deps) THEN {tx.resolved_cell_deps[x.index + 1]} ELSE {}
      BY <2>1 DEF piece, GetAt
    <2>3. x.source \in DOMAIN CellsOf /\ x.source \notin DOMAIN GroupOf /\ CellsOf[x.source] = tx.resolved_cell_deps
      BY <1>5 DEF CellsOf, GroupOf
    <2>4. /\ Exists(x) <=> x.index < Len(tx.resolved_cell_deps)
          /\ Cell(x) = tx.resolved_cell_deps[x.index + 1]
      BY <2>3 DEF Exists, Cell, Position
    <2>5. x.index < Len(tx.resolved_cell_deps) => tx.resolved_cell_deps[x.index + 1] \in CellData
      BY <1>1, <1>2, ItemOf
    <2> QED BY <2>2, <2>4, <2>5
  <1>6. ASSUME x.source = "group_input" PROVE Ok
    <2>1. id.tag = "GroupInput" /\ id.index = x.index
      BY <1>1, <1>6 DEF TagOf
    <2> HIDE DEF id
    <2>2. piece(tx, id) = ViaGroup(tx.resolved_inputs, tx.input_indices, x.index)
      BY <2>1 DEF piece
    <2>3. /\ x.source \in DOMAIN CellsOf /\ x.source \in DOMAIN GroupOf
          /\ CellsOf[x.source] = tx.resolved_inputs /\ GroupOf[x.source] = tx.input_indices
      BY <1>6 DEF CellsOf, GroupOf
    <2>4. /\ Exists(x) <=> x.index < Len(tx.input_indices) /\ tx.input_indices[x.index + 1] < Len(tx.resolved_inputs)
          /\ Cell(x) = tx.resolved_inputs[tx.input_indices[x.index + 1] + 1]
      BY <2>3 DEF Exists, Cell, Position
    <2>5. x.index < Len(tx.input_indices) => tx.input_indices[x.index + 1] \in Nat
      BY <1>1, <1>2, ItemOf
    <2>6. Exists(x) => Cell(x) \in CellData
      BY <1>2, <2>4, <2>5, ItemOf
    <2> QED BY <2>2, <2>4, <2>6, ViaIs
  <1>7. ASSUME x.source = "group_output" PROVE Ok
    <2>1. id.tag = "GroupOutput" /\ id.index = x.index
      BY <1>1, <1>7 DEF TagOf
    <2> HIDE DEF id
    <2>2. piece(tx, id) = ViaGroup(tx.outputs_data, tx.output_indices, x.index)
      BY <2>1 DEF piece
    <2>3. /\ x.source \in DOMAIN CellsOf /\ x.source \in DOMAIN GroupOf
          /\ CellsOf[x.source] = tx.outputs_data /\ GroupOf[x.source] = tx.output_indices
      BY <1>7 DEF CellsOf, GroupOf
    <2>4. /\ Exists(x) <=> x.index < Len(tx.output_indices) /\ tx.output_indices[x.index + 1] < Len(tx.outputs_data)
          /\ Cell(x) = tx.outputs_data[tx.output_indices[x.index + 1] + 1]
      BY <2>3 DEF Exists, Cell, Position
    <2>5. x.index < Len(tx.output_indices) => tx.output_indices[x.index + 1] \in Nat
      BY <1>1, <1>2, ItemOf
    <2>6. Exists(x) => Cell(x) \in CellData
      BY <1>2, <2>4, <2>5, ItemOf
    <2> QED BY <2>2, <2>4, <2>6, ViaIs
  <1> QED BY <1>1, <1>3, <1>4, <1>5, <1>6, <1>7

LEMMA IdIs ==
    ASSUME NEW x \in Where
    PROVE  /\ Exists(x) /\ x.index <= U32Max => Id(x) # NoPiece
           /\ Id(x) # NoPiece => x.index <= U32Max
  <1>1. x.index \in Nat /\ x.source \in Source
    BY CellAssumption, DataAssumption DEF Where
  <1>2. Exists(x) => x.source # "other"
    BY DEF Exists, CellsOf
  <1>3. x.source \in {"input", "output", "cell_dep", "group_input", "group_output"} =>
          TagOf[x.source] # "none"
    BY DEF TagOf
  <1> QED BY <1>1, <1>2, <1>3, DataAssumption DEF Id, try_from, NoPiece, Source, TagOf

(* A call finds the cell it names, and fails on its index if there is none. *)
LEMMA LoadedAt ==
    ASSUME tx \in Tx, NEW x \in Where, NEW o, NEW n
    PROVE  /\ Loaded(x, o, n).error = "none" <=> Found(x)
           /\ Loaded(x, o, n).error \in {"none", "Unexpected"} \/ ~Exists(x) \/ x.index > U32Max
           /\ Found(x) => Loaded(x, o, n) = 
                [error |-> "none", full_length |-> Len(Cell(x)) - Least(o, Len(Cell(x))),
                 bytes |-> SubSeq(Cell(x), Least(o, Len(Cell(x))) + 1, Least(o, Len(Cell(x))) +
                                  SliceLength(Len(Cell(x)), Least(o, Len(Cell(x))), n))]
  <1>0. x.index \in Nat /\ U32Max \in Nat
    BY CellAssumption, DataAssumption DEF Where
  <1>1. CASE Id(x) = NoPiece
    BY <1>0, <1>1, IdIs DEF Loaded, Found
  <1>2. CASE Id(x) # NoPiece /\ ~Exists(x)
    <2>1. piece(tx, Id(x)) = {}
      BY <1>2, PieceIs
    <2> QED BY <1>2, <2>1 DEF Loaded, load_data, Found
  <1>3. CASE Id(x) # NoPiece /\ Exists(x)
    <2>1. piece(tx, Id(x)) = {Cell(x)} /\ x.index <= U32Max
      BY <1>3, PieceIs, IdIs
    <2>2. (CHOOSE d \in piece(tx, Id(x)) : TRUE) = Cell(x)
      BY <2>1
    <2>3. Found(x) <=> Cell(x) # Missing
      BY <1>3, <2>1 DEF Found
    <2> HIDE DEF Found, Cell
    <2> QED BY <1>3, <2>1, <2>2, <2>3 DEF Loaded, load_data
  <1> QED BY <1>1, <1>2, <1>3

LEMMA CellFound ==
    ASSUME tx \in Tx, NEW x \in Where, Found(x)
    PROVE  Cell(x) \in Seq(Byte) /\ Len(Cell(x)) \in Nat
  <1>1. Cell(x) \in Seq(Byte)
    BY PieceIs, IdIs DEF Found, CellData
  <1> QED BY <1>1

(* Whether a call finds its cell does not depend on offset and length. *)
LEMMA LoadedFound ==
    ASSUME tx \in Tx, NEW x \in Where, NEW o, NEW n
    PROVE  Loaded(x, o, n).error = "none" <=> Found(x)
  BY LoadedAt

LEMMA PartOf ==
    ASSUME NEW d \in Seq(Byte), NEW from \in Nat, NEW m \in Nat, from + m <= Len(d)
    PROVE  /\ SubSeq(d, from + 1, from + m) \in Seq(Byte)
           /\ Len(SubSeq(d, from + 1, from + m)) = m
           /\ \A i \in 1 .. m : SubSeq(d, from + 1, from + m)[i] = d[from + i]
  <1>0. \A i \in from + 1 .. from + m : i \in 1 .. Len(d)
    OBVIOUS
  <1>1. \A i \in from + 1 .. from + m : d[i] \in Byte
    BY <1>0
  <1> QED BY <1>1, SubSeqProperties

(* What it gets is the part of the cell from an offset inside it: the      *)
(* bytes that there are of those it asked for.                             *)
LEMMA LoadedIs ==
    ASSUME tx \in Tx, NEW x \in Where, Found(x), NEW o \in Nat, NEW n \in Nat,
           o <= Len(Cell(x))
    PROVE  /\ Loaded(x, o, n).full_length = Len(Cell(x)) - o
           /\ Loaded(x, o, n).bytes = SubSeq(Cell(x), o + 1, o + SliceLength(Len(Cell(x)), o, n))
           /\ Loaded(x, o, n).bytes \in Seq(Byte)
           /\ Len(Loaded(x, o, n).bytes) = SliceLength(Len(Cell(x)), o, n)
           /\ \A i \in 1 .. SliceLength(Len(Cell(x)), o, n) :
                 Loaded(x, o, n).bytes[i] = Cell(x)[o + i]
           /\ SliceLength(Len(Cell(x)), o, n) \in Nat
           /\ o + SliceLength(Len(Cell(x)), o, n) <= Len(Cell(x))
  <1> DEFINE d == Cell(x)
             r == Loaded(x, o, n)
             m == SliceLength(Len(d), o, n)
  <1>1. d \in Seq(Byte) /\ Len(d) \in Nat
    BY CellFound
  <1>2. Least(o, Len(d)) = o /\ m \in Nat /\ o + m <= Len(d)
    <2>1. Least(o, Len(d)) = o
      BY <1>1 DEF Least
    <2> QED BY <1>1, <2>1, SliceFits
  <1>3. r = [error |-> "none", full_length |-> Len(d) - o, bytes |-> SubSeq(d, o + 1, o + m)]
    BY <1>2, LoadedAt
  <1> HIDE DEF d, r, m
  <1>4. r.full_length = Len(d) - o /\ r.bytes = SubSeq(d, o + 1, o + m)
    BY <1>3
  <1>5. /\ SubSeq(d, o + 1, o + m) \in Seq(Byte)
        /\ Len(SubSeq(d, o + 1, o + m)) = m
        /\ \A i \in 1 .. m : SubSeq(d, o + 1, o + m)[i] = d[o + i]
    BY ONLY <1>1, <1>2, o \in Nat, PartOf
  <1> QED BY <1>2, <1>4, <1>5 DEF d, r, m

(* Two parts of a sequence that follow each other. *)
LEMMA PartsJoin ==
    ASSUME NEW d \in Seq(Byte), NEW c \in Nat, NEW n \in Nat, c + n <= Len(d)
    PROVE  SubSeq(d, 1, c) \o SubSeq(d, c + 1, c + n) = SubSeq(d, 1, c + n)
  BY SMT

-----------------------------------------------------------------------------
(* The invariant *)

(* What OnlyRealCells says of one call. *)
Real(l) ==
    /\ l.call # "none" /\ l.code = SUCCESS =>
          /\ Exists(l.at) /\ l.at.index <= U32Max /\ Cell(l.at) # Missing
          /\ \A i \in 1 .. Len(l.bytes) :
                /\ l.offset + i <= Len(Cell(l.at))
                /\ l.bytes[i] = Cell(l.at)[l.offset + i]
          /\ l.stored = IF l.call = "as_code" THEN Len(l.bytes)
                        ELSE Len(Cell(l.at)) - Least(l.offset, Len(Cell(l.at)))
    /\ l.code = INDEX_OUT_OF_BOUND => ~Exists(l.at) \/ l.at.index > U32Max

LEMMA RealKept == ASSUME UNCHANGED tx, Real(last') PROVE OnlyRealCells'
  <1>1. Cell(last.at)' = Cell((last').at) /\ (Exists(last.at)' <=> Exists((last').at))
    BY DEF Exists, Cell, Position, CellsOf, GroupOf
  <1> QED BY <1>1 DEF Real, OnlyRealCells

(* What a call that succeeds wrote came from its cell. *)
LEMMA RealLoaded ==
    ASSUME tx \in Tx, NEW x \in Where, Found(x), NEW o \in Nat, NEW n \in Nat,
           NEW call \in {"load_cell_data", "boot"}, NEW size
    PROVE  Real(Wrote(call, x, o, size, Loaded(x, o, n).bytes, Loaded(x, o, n).full_length))
  <1> DEFINE d == Cell(x)
             r == Loaded(x, o, n)
             l == Wrote(call, x, o, size, r.bytes, r.full_length)
  <1>1. d \in Seq(Byte) /\ Len(d) \in Nat
    BY CellFound
  <1>2. r.full_length = Len(d) - Least(o, Len(d))
    BY LoadedAt
  <1>3. \A i \in 1 .. Len(r.bytes) : o + i <= Len(d) /\ r.bytes[i] = d[o + i]
    <2>1. CASE o <= Len(d)
      <3> DEFINE m == SliceLength(Len(d), o, n)
      <3>1. /\ Len(r.bytes) = m /\ m \in Nat /\ o + m <= Len(d)
            /\ \A i \in 1 .. m : r.bytes[i] = d[o + i]
        BY <2>1, LoadedIs
      <3> HIDE DEF m, r, d
      <3> QED BY <1>1, <3>1
    <2>2. CASE ~(o <= Len(d))
      <3>1. Least(o, Len(d)) = Len(d) /\ SliceLength(Len(d), Len(d), n) = 0
        BY <1>1, <2>2 DEF Least, SliceLength
      <3>2. r.bytes = SubSeq(d, Len(d) + 1, Len(d) + 0)
        BY <3>1, LoadedAt
      <3> HIDE DEF d, r
      <3>3. Len(r.bytes) = 0
        BY <1>1, <3>2
      <3> QED BY <3>3
    <2> QED BY <2>1, <2>2
  <1>4. /\ l.call = call /\ call # "as_code" /\ l.code = SUCCESS /\ l.at = x /\ l.offset = o
        /\ l.bytes = r.bytes /\ l.stored = r.full_length
    BY DEF Wrote
  <1>5. /\ Exists(x) /\ x.index <= U32Max /\ d # Missing
    BY DEF Found
  <1>6. SUCCESS # INDEX_OUT_OF_BOUND
    BY DEF SUCCESS, INDEX_OUT_OF_BOUND
  <1>7. \A i \in 1 .. Len(l.bytes) :
          l.offset + i <= Len(Cell(l.at)) /\ l.bytes[i] = Cell(l.at)[l.offset + i]
    <2> HIDE DEF l, r
    <2> QED BY <1>3, <1>4
  <1>8. l.stored = IF l.call = "as_code" THEN Len(l.bytes)
                   ELSE Len(Cell(l.at)) - Least(l.offset, Len(Cell(l.at)))
    <2> HIDE DEF l, r
    <2> QED BY <1>2, <1>4
  <1>9. Real(l)
    <2> HIDE DEF l, r
    <2> QED BY <1>4, <1>5, <1>6, <1>7, <1>8 DEF Real
  <1> QED BY <1>9

LEMMA CellKept ==
    ASSUME UNCHANGED tx
    PROVE  Cell(at)' = Cell(at') /\ (Found(at)' <=> Found(at'))
  BY DEF Cell, Found, Exists, Position, CellsOf, GroupOf

(* A call that leaves nothing under way. *)
LEMMA DoneKept ==
    ASSUME CellInv, cpc = "idle", NEW r, Done(r), Real(r)
    PROVE  CellInv'
  <1>1. last' = r /\ UNCHANGED <<tx, cpc, at, cursor, got, args>>
    BY DEF Done
  <1>2. Progress'
    BY <1>1 DEF CellInv, Progress
  <1>3. ChunksMakeTheCell' /\ BootsWhatWasChecked'
    BY <1>1 DEF ChunksMakeTheCell, BootsWhatWasChecked
  <1>4. OnlyRealCells'
    BY <1>1, RealKept
  <1> QED BY <1>2, <1>3, <1>4 DEF CellInv

LEMMA FailedKept ==
    ASSUME CellInv, cpc = "idle", NEW call, NEW x \in Where, NEW o, NEW n,
           Failed(call, x, Loaded(x, o, n))
    PROVE  CellInv'
  <1> DEFINE r == Loaded(x, o, n)
             c == IF r.error = "Unexpected" THEN FAULT ELSE INDEX_OUT_OF_BOUND
  <1>1. r.error # "none" /\ Done(Did(call, x, c)) /\ tx \in Tx
    BY DEF Failed, CellInv, Progress
  <1>2. c = INDEX_OUT_OF_BOUND => ~Exists(x) \/ x.index > U32Max
    BY <1>1, LoadedAt DEF FAULT, INDEX_OUT_OF_BOUND
  <1>3. c \in {FAULT, INDEX_OUT_OF_BOUND}
    OBVIOUS
  <1> HIDE DEF c
  <1>4. Real(Did(call, x, c))
    BY <1>2, <1>3 DEF Did, Real, FAULT, INDEX_OUT_OF_BOUND, SUCCESS
  <1> QED BY <1>1, <1>4, DoneKept

LEMMA LoadKept ==
    ASSUME CellInv, NEW x \in Where, NEW o \in Nat, NEW n \in Nat, load_cell_data(x, o, n)
    PROVE  CellInv'
  <1> DEFINE r == Loaded(x, o, n)
             l == Wrote("load_cell_data", x, o, n, r.bytes, r.full_length)
  <1>1. cpc = "idle" /\ tx \in Tx
    BY DEF load_cell_data, CellInv, Progress
  <1>2. CASE Failed("load_cell_data", x, r)
    BY <1>1, <1>2, FailedKept
  <1>3. CASE r.error = "none" /\ Done(l)
    <2>1. Found(x)
      BY <1>1, <1>3, LoadedFound
    <2>2. Real(l)
      BY <1>1, <2>1, RealLoaded
    <2> HIDE DEF l
    <2> QED BY <1>1, <1>3, <2>2, DoneKept
  <1> QED BY <1>2, <1>3 DEF load_cell_data

LEMMA CodeKept ==
    ASSUME CellInv, NEW x \in Where, NEW o \in Nat, NEW n \in Nat, NEW m \in Nat,
           load_cell_data_as_code(x, o, n, m)
    PROVE  CellInv'
  <1> DEFINE r == Loaded(x, 0, U64Max)
             l == Wrote("as_code", x, o, m, SubSeq(r.bytes, o + 1, o + n), n)
  <1>1. cpc = "idle" /\ tx \in Tx
    BY DEF load_cell_data_as_code, CellInv, Progress
  <1>2. CASE Failed("as_code", x, r)
    BY <1>1, <1>2, FailedKept
  <1>3. CASE \E c \in {FAULT, SLICE_OUT_OF_BOUND} : Done(Did("as_code", x, c))
    <2>1. PICK c \in {FAULT, SLICE_OUT_OF_BOUND} : Done(Did("as_code", x, c))
      BY <1>3
    <2>2. Real(Did("as_code", x, c))
      BY <2>1 DEF Did, Real, FAULT, SLICE_OUT_OF_BOUND, INDEX_OUT_OF_BOUND, SUCCESS
    <2> QED BY <1>1, <2>1, <2>2, DoneKept
  <1>4. CASE r.error = "none" /\ ~CodeRefused(Len(r.bytes), o, n, m) /\ Done(l)
    <2>1. Found(x) /\ Cell(x) \in Seq(Byte) /\ Len(Cell(x)) \in Nat /\ U64Max \in Nat
      BY <1>1, <1>4, LoadedFound, CellFound, DataAssumption
    <2>2. /\ r.bytes \in Seq(Byte) /\ Len(r.bytes) \in Nat /\ Len(r.bytes) <= Len(Cell(x))
          /\ \A i \in 1 .. Len(r.bytes) : r.bytes[i] = Cell(x)[i]
      <3> DEFINE k == SliceLength(Len(Cell(x)), 0, U64Max)
      <3>1. 0 \in Nat /\ 0 <= Len(Cell(x))
        BY <2>1
      <3>2. /\ r.bytes \in Seq(Byte) /\ Len(r.bytes) = k /\ k \in Nat /\ 0 + k <= Len(Cell(x))
            /\ \A i \in 1 .. k : r.bytes[i] = Cell(x)[0 + i]
        BY ONLY x \in Where, <1>1, <2>1, <3>1, LoadedIs
      <3> HIDE DEF r, k
      <3> QED BY <2>1, <3>2
    <2> DEFINE b == SubSeq(r.bytes, o + 1, o + n)
    <2>3. o + n <= Len(r.bytes)
      BY <1>4, <2>2 DEF CodeRefused
    <2>4. Len(b) = n /\ \A i \in 1 .. n : b[i] = r.bytes[o + i]
      <3> HIDE DEF r
      <3> QED BY <2>2, <2>3, PartOf
    <2>5. \A i \in 1 .. Len(b) : o + i <= Len(Cell(x)) /\ b[i] = Cell(x)[o + i]
      <3> HIDE DEF r, b
      <3>1. TAKE i \in 1 .. Len(b)
      <3>2. i \in 1 .. n /\ o + i \in 1 .. Len(r.bytes) /\ o + i <= Len(Cell(x))
        BY <2>1, <2>2, <2>3, <2>4
      <3> QED BY <2>2, <2>4, <3>2
    <2>6. /\ l.call = "as_code" /\ l.code = SUCCESS /\ l.at = x /\ l.offset = o
          /\ l.bytes = b /\ l.stored = n
      BY DEF Wrote
    <2>7. Exists(x) /\ x.index <= U32Max /\ Cell(x) # Missing
      BY <2>1 DEF Found
    <2> HIDE DEF l, b
    <2>8. Real(l)
      BY <2>4, <2>5, <2>6, <2>7 DEF Real, SUCCESS, INDEX_OUT_OF_BOUND
    <2> QED BY <1>1, <1>4, <2>8, DoneKept
  <1> QED BY <1>2, <1>3, <1>4 DEF load_cell_data_as_code

LEMMA BeginsKept ==
    ASSUME CellInv, NEW x \in Where, read_begins(x)
    PROVE  CellInv'
  <1>1. /\ cpc = "idle" /\ cpc' = "reading" /\ at' = x /\ last' = NoCall
        /\ UNCHANGED <<tx, cursor, got, args>> /\ tx \in Tx /\ cursor = 0 /\ got = <<>>
    BY DEF read_begins, CellInv, Progress
  <1>2. Found(x) /\ Cell(x) \in Seq(Byte)
    BY <1>1, LoadedFound, CellFound DEF read_begins
  <1>3. Found(at)' /\ Cell(at)' = Cell(x)
    BY <1>1, <1>2, CellKept
  <1>4. Progress'
    BY <1>1, <1>2, <1>3 DEF Progress
  <1>5. ChunksMakeTheCell'
    <2>1. SubSeq(Cell(x), 1, 0) = <<>>
      BY SubSeqEmpty
    <2> QED BY <1>1, <1>3, <2>1 DEF ChunksMakeTheCell
  <1>6. BootsWhatWasChecked' /\ OnlyRealCells'
    BY <1>1 DEF BootsWhatWasChecked, OnlyRealCells, NoCall, Did, SUCCESS, INDEX_OUT_OF_BOUND
  <1> QED BY <1>4, <1>5, <1>6 DEF CellInv

LEMMA ChunkKept ==
    ASSUME CellInv, NEW n \in Nat, read_chunk(n)
    PROVE  CellInv'
  <1> DEFINE r == Loaded(at, cursor, n)
             d == Cell(at)
             k == Len(r.bytes)
             l == Wrote("load_cell_data", at, cursor, n, r.bytes, r.full_length)
  <1>1. /\ cpc = "reading" /\ n > 0 /\ last' = l /\ got' = got \o r.bytes
        /\ cursor' = cursor + k
        /\ cpc' = IF r.full_length <= n THEN "read" ELSE "reading"
        /\ UNCHANGED <<tx, at, args>>
    BY DEF read_chunk
  <1>2. /\ tx \in Tx /\ at \in Where /\ Found(at) /\ cursor \in 0 .. Len(d)
        /\ got = SubSeq(d, 1, cursor)
    BY <1>1 DEF CellInv, Progress, ChunksMakeTheCell
  <1>3. /\ d \in Seq(Byte) /\ Len(d) \in Nat /\ cursor \in Nat
        /\ r.full_length = Len(d) - cursor
        /\ r.bytes = SubSeq(d, cursor + 1, cursor + SliceLength(Len(d), cursor, n))
        /\ k = SliceLength(Len(d), cursor, n) /\ k \in Nat /\ cursor + k <= Len(d)
    <2>1. d \in Seq(Byte) /\ Len(d) \in Nat
      BY <1>2, CellFound
    <2>2. cursor \in Nat /\ cursor <= Len(d)
      BY <1>2, <2>1
    <2> QED BY <1>2, <2>1, <2>2, LoadedIs
  <1>4. r.full_length <= n => cursor + k = Len(d)
    <2> HIDE DEF d, k, r
    <2> QED BY <1>1, <1>3 DEF SliceLength, Least
  <1>5. got' = SubSeq(d, 1, cursor + k)
    <2> HIDE DEF d, k, r
    <2>1. r.bytes = SubSeq(d, cursor + 1, cursor + k)
      BY <1>3
    <2>2. SubSeq(d, 1, cursor) \o SubSeq(d, cursor + 1, cursor + k) = SubSeq(d, 1, cursor + k)
      BY ONLY <1>3, PartsJoin
    <2> QED BY <1>1, <1>2, <2>1, <2>2
  <1>6. Found(at)' /\ Cell(at)' = d
    BY <1>1, <1>2, CellKept
  <1>7. Progress'
    <2> HIDE DEF d, k, r
    <2>0. /\ cursor' = cursor + k /\ cursor + k <= Len(d)
          /\ k \in Nat /\ cursor \in Nat /\ Len(d) \in Nat
      BY <1>1, <1>3
    <2>1. cursor' \in 0 .. Len(d)
      BY ONLY <2>0
    <2>2. cpc' \in {"read", "reading"}
      BY <1>1
    <2> QED BY <1>1, <1>2, <1>6, <2>1, <2>2 DEF Progress
  <1>8. ChunksMakeTheCell'
    <2>1. SubSeq(d, 1, Len(d)) = d
      BY <1>3, SubSeqFull
    <2> HIDE DEF d, k, r
    <2> QED BY <1>1, <1>4, <1>5, <1>6, <2>1 DEF ChunksMakeTheCell
  <1>9. BootsWhatWasChecked'
    BY <1>1 DEF BootsWhatWasChecked
  <1>10. OnlyRealCells'
    <2>1. Real(l)
      BY <1>2, <1>3, RealLoaded
    <2> HIDE DEF l
    <2> QED BY <1>1, <2>1, RealKept
  <1> QED BY <1>7, <1>8, <1>9, <1>10 DEF CellInv

LEMMA GoesOnKept ==
    ASSUME CellInv, goes_on
    PROVE  CellInv'
  BY DEF CellInv, Progress, goes_on, ChunksMakeTheCell, BootsWhatWasChecked, OnlyRealCells, NoCall, Did, SUCCESS, INDEX_OUT_OF_BOUND

LEMMA SpawnKept ==
    ASSUME CellInv, NEW x \in Where, NEW o \in Nat, NEW n \in Nat, spawn(x, o, n)
    PROVE  CellInv'
  <1> DEFINE r == Loaded(x, 0, 0)
  <1>1. cpc = "idle" /\ tx \in Tx /\ cursor = 0 /\ got = <<>>
    BY DEF spawn, CellInv, Progress
  <1>2. CASE Failed("spawn", x, r)
    BY <1>1, <1>2, FailedKept
  <1>3. CASE Done(Did("spawn", x, SLICE_OUT_OF_BOUND))
    <2>1. Real(Did("spawn", x, SLICE_OUT_OF_BOUND))
      BY DEF Did, Real, SLICE_OUT_OF_BOUND, INDEX_OUT_OF_BOUND, SUCCESS
    <2> QED BY <1>1, <1>3, <2>1, DoneKept
  <1>4. CASE /\ r.error = "none" /\ ~BoundsRefused(o, n, r.full_length)
             /\ cpc' = "spawning" /\ at' = x /\ args' = [offset |-> o, length |-> n]
             /\ last' = NoCall /\ UNCHANGED <<tx, cursor, got>>
    <2>1. Found(x) /\ Cell(x) \in Seq(Byte) /\ r.full_length = Len(Cell(x))
      <3>1. Found(x) /\ Cell(x) \in Seq(Byte)
        BY <1>1, <1>4, LoadedFound, CellFound
      <3>2. Len(Cell(x)) \in Nat /\ 0 <= Len(Cell(x))
        BY <3>1
      <3>3. Loaded(x, 0, 0).full_length = Len(Cell(x)) - 0
        <4>1. tx \in Tx /\ Found(x) /\ 0 \in Nat
          BY <1>1, <3>1
        <4> QED BY ONLY <3>2, <4>1, x \in Where, LoadedIs
      <3> QED BY <3>1, <3>2, <3>3
    <2>2. Found(at)' /\ Cell(at)' = Cell(x)
      BY <1>4, <2>1, CellKept
    <2>3. /\ args.offset' = o /\ args.length' = n
          /\ ~BoundsRefused(o, n, Len(Cell(x)))
      BY <1>4, <2>1
    <2>4. Progress'
      BY <1>1, <1>4, <2>2, <2>3 DEF Progress, BoundsRefused
    <2>5. ChunksMakeTheCell' /\ BootsWhatWasChecked' /\ OnlyRealCells'
      BY <1>4 DEF ChunksMakeTheCell, BootsWhatWasChecked, OnlyRealCells, NoCall, Did, SUCCESS, INDEX_OUT_OF_BOUND
    <2> QED BY <2>4, <2>5 DEF CellInv
  <1> QED BY <1>2, <1>3, <1>4 DEF spawn

LEMMA BootKept ==
    ASSUME CellInv, boot_vm
    PROVE  CellInv'
  <1> DEFINE o == args.offset
             n == args.length
             r == Loaded(at, o, n)
             d == Cell(at)
             l == Wrote("boot", at, o, n, r.bytes, r.full_length)
             end == IF n > 0 THEN o + n ELSE Len(d)
  <1>1. /\ cpc = "spawning" /\ cpc' = "booted" /\ UNCHANGED <<tx, at, cursor, got, args>>
        /\ last' = IF r.error # "none" THEN Did("boot", at, FAULT) ELSE l
    BY DEF boot_vm
  <1>2. /\ tx \in Tx /\ at \in Where /\ Found(at) /\ o \in Nat /\ n \in Nat
        /\ ~BoundsRefused(o, n, Len(d)) /\ cursor = 0 /\ got = <<>>
    BY <1>1 DEF CellInv, Progress
  <1>3. /\ d \in Seq(Byte) /\ r.error = "none"
    BY <1>2, LoadedFound, CellFound
  <1>4. /\ o < Len(d) /\ end <= Len(d) /\ end > o /\ end \in Nat /\ Len(d) \in Nat
        /\ SliceLength(Len(d), o, n) = end - o
    BY <1>2, <1>3 DEF BoundsRefused, Least, SliceLength
  <1>5. /\ Len(r.bytes) = end - o
        /\ \A i \in 1 .. Len(r.bytes) : r.bytes[i] = d[o + i]
    <2>1. /\ Len(r.bytes) = SliceLength(Len(d), o, n)
          /\ \A i \in 1 .. SliceLength(Len(d), o, n) : r.bytes[i] = d[o + i]
      <3>1. tx \in Tx /\ at \in Where /\ Found(at) /\ o \in Nat /\ n \in Nat /\ o <= Len(d)
        BY <1>2, <1>4
      <3> HIDE DEF o, n
      <3> QED BY ONLY <3>1, LoadedIs
    <2> HIDE DEF d, r, o, n, end
    <2> QED BY <1>4, <2>1
  <1>6. Found(at)' /\ Cell(at)' = d
    BY <1>1, <1>2, CellKept
  <1>7. Progress'
    BY <1>1, <1>2, <1>6 DEF Progress, BoundsRefused
  <1>8. ChunksMakeTheCell'
    BY <1>1 DEF ChunksMakeTheCell
  <1>9. last' = l /\ l.at = at /\ l.call = "boot" /\ l.code = SUCCESS /\ l.bytes = r.bytes
    BY <1>1, <1>3 DEF Wrote
  <1>10. BootsWhatWasChecked'
    <2>1. r.bytes # <<>>
      <3>1. Len(<<>>) = 0
        OBVIOUS
      <3> HIDE DEF r, end, o
      <3> QED BY <1>2, <1>4, <1>5, <3>1
    <2>2. o' = o /\ n' = n /\ end' = end
      BY <1>1, <1>6
    <2> HIDE DEF l, r, d
    <2> QED BY <1>1, <1>5, <1>6, <1>9, <2>1 DEF BootsWhatWasChecked
  <1>11. OnlyRealCells'
    <2>1. Real(l)
      BY <1>2, RealLoaded
    <2> HIDE DEF l
    <2> QED BY <1>1, <1>9, <2>1, RealKept
  <1> QED BY <1>7, <1>8, <1>10, <1>11 DEF CellInv

LEMMA NextCell == CellInv /\ [CellNext]_cell_vars => CellInv'
  <1> SUFFICES ASSUME CellInv, [CellNext]_cell_vars PROVE CellInv' OBVIOUS
  <1>0. Offsets \subseteq Nat /\ Sizes \subseteq Nat
    BY CellAssumption, DataAssumption
  <1>1. ASSUME NEW x \in Where, read_begins(x) PROVE CellInv'
    BY <1>1, BeginsKept
  <1>2. ASSUME NEW x \in Where, NEW o \in Offsets, NEW n \in Sizes,
               load_cell_data(x, o, n) \/ spawn(x, o, n)
        PROVE  CellInv'
    BY <1>0, <1>2, LoadKept, SpawnKept
  <1>3. ASSUME NEW x \in Where, NEW o \in Offsets, NEW n \in Sizes, NEW m \in Sizes,
               load_cell_data_as_code(x, o, n, m)
        PROVE  CellInv'
    BY <1>0, <1>3, CodeKept
  <1>4. ASSUME NEW n \in Sizes, read_chunk(n) PROVE CellInv'
    BY <1>0, <1>4, ChunkKept
  <1>5. CASE UNCHANGED cell_vars
    <2>1. UNCHANGED <<tx, cpc, at, cursor, got, args, last>>
      BY <1>5 DEF cell_vars
    <2>2. Cell(at)' = Cell(at) /\ (Found(at)' <=> Found(at))
      BY <2>1, CellKept
    <2>3. OnlyRealCells'
      <3>1. Real(last) /\ last' = last
        BY <2>1 DEF CellInv, OnlyRealCells, Real
      <3> QED BY <2>1, <3>1, RealKept
    <2> QED BY <2>1, <2>2, <2>3 DEF CellInv, Progress, ChunksMakeTheCell, BootsWhatWasChecked
  <1> QED BY <1>1, <1>2, <1>3, <1>4, <1>5, GoesOnKept, BootKept DEF CellNext, Where

LEMMA InitCell == CellInit => CellInv
  BY CellAssumption
  DEF CellInit, CellInv, Progress, ChunksMakeTheCell, BootsWhatWasChecked, OnlyRealCells, NoCall, Did, SUCCESS, INDEX_OUT_OF_BOUND

(* What is under way is about a cell that is there, and has been checked. *)
THEOREM CellInvHolds == CellSpec => []CellInv
  BY InitCell, NextCell, PTL DEF CellSpec

(* A guest that reads a cell with load_cell_data, in chunks of any sizes,  *)
(* until the size stored back is no more than it asked for, has the cell.  *)
THEOREM WholeCell == CellSpec => []ChunksMakeTheCell
  <1>1. CellInv => ChunksMakeTheCell
    BY DEF CellInv
  <1> QED BY <1>1, CellInvHolds, PTL

(* boot_vm never fails on the bounds that spawn let through, and loads     *)
(* exactly the bytes spawn was asked for, for any cell and any bounds.     *)
THEOREM BootsTheChecked == CellSpec => []BootsWhatWasChecked
  <1>1. CellInv => BootsWhatWasChecked
    BY DEF CellInv
  <1> QED BY <1>1, CellInvHolds, PTL

(* A call that succeeds has read the cell its source and index stand for,  *)
(* followed through the indices of the script group, and its bytes from    *)
(* the offset given; it is refused for its index only if there is no such  *)
(* cell.  For any transaction, any 64 bit index and any script group.      *)
THEOREM RealCells == CellSpec => []OnlyRealCells
  <1>1. CellInv => OnlyRealCells
    BY DEF CellInv
  <1> QED BY <1>1, CellInvHolds, PTL
==========================================================================
