------------------------------ MODULE DagData ------------------------------
(***************************************************************************)
(* The types of test-contracts/dag.mol as src/dev_utils/dag.rs has them.   *)
(* A value is a record of its fields, a vector the sequence of its items,  *)
(* an index or a byte the sequence of its bytes.  X_write is X's builder,  *)
(* X_verify and X_read its reader.                                         *)
(***************************************************************************)
EXTENDS Molecule

VmIndex_write(v) == v
VmIndex_verify(s) == Len(s) = IndexSize
VmIndex_read(s) == s

PipeIndex_write(v) == v
PipeIndex_verify(s) == Len(s) = IndexSize
PipeIndex_read(s) == s

PipeIndices_write(v) == fixvec_write([i \in DOMAIN v |-> PipeIndex_write(v[i])])
PipeIndices_verify(s) == FixvecOk(s, IndexSize)
PipeIndices_read(s) == [i \in DOMAIN AllFixed(s, IndexSize) |->
                            PipeIndex_read(AllFixed(s, IndexSize)[i])]

Bytes_write(v) == fixvec_write([i \in DOMAIN v |-> <<v[i]>>])
Bytes_verify(s) == FixvecOk(s, 1)
Bytes_read(s) == FlattenSeq(AllFixed(s, 1))

Pipe_write(v) ==
    table_write(<<VmIndex_write(v.vm), PipeIndex_write(v.read_pipe),
                  PipeIndex_write(v.write_pipe)>>)
Pipe_verify(s, compatible) ==
    /\ TableOk(s, 3, compatible)
    /\ VmIndex_verify(Part(s, 1)) /\ PipeIndex_verify(Part(s, 2))
    /\ PipeIndex_verify(Part(s, 3))
Pipe_read(s) ==
    [vm |-> VmIndex_read(field(s, 3, 1)), read_pipe |-> PipeIndex_read(field(s, 3, 2)),
     write_pipe |-> PipeIndex_read(field(s, 3, 3))]

Pipes_write(v) == dynvec_write([i \in DOMAIN v |-> Pipe_write(v[i])])
Pipes_verify(s, compatible) ==
    DynvecOk(s) /\ \A x \in Items(s) : Pipe_verify(x, compatible)
Pipes_read(s) == [i \in DOMAIN AllItems(s) |-> Pipe_read(AllItems(s)[i])]

Write_write(v) ==
    table_write(<<VmIndex_write(v.from), PipeIndex_write(v.from_pipe),
                  VmIndex_write(v.to), PipeIndex_write(v.to_pipe), Bytes_write(v.data)>>)
Write_verify(s, compatible) ==
    /\ TableOk(s, 5, compatible)
    /\ VmIndex_verify(Part(s, 1)) /\ PipeIndex_verify(Part(s, 2))
    /\ VmIndex_verify(Part(s, 3)) /\ PipeIndex_verify(Part(s, 4))
    /\ Bytes_verify(Part(s, 5))
Write_read(s) ==
    [from |-> VmIndex_read(field(s, 5, 1)), from_pipe |-> PipeIndex_read(field(s, 5, 2)),
     to |-> VmIndex_read(field(s, 5, 3)), to_pipe |-> PipeIndex_read(field(s, 5, 4)),
     data |-> Bytes_read(field(s, 5, 5))]

Writes_write(v) == dynvec_write([i \in DOMAIN v |-> Write_write(v[i])])
Writes_verify(s, compatible) ==
    DynvecOk(s) /\ \A x \in Items(s) : Write_verify(x, compatible)
Writes_read(s) == [i \in DOMAIN AllItems(s) |-> Write_read(AllItems(s)[i])]

Spawn_write(v) ==
    table_write(<<VmIndex_write(v.from), VmIndex_write(v.child),
                  PipeIndices_write(v.pipes)>>)
Spawn_verify(s, compatible) ==
    /\ TableOk(s, 3, compatible)
    /\ VmIndex_verify(Part(s, 1)) /\ VmIndex_verify(Part(s, 2))
    /\ PipeIndices_verify(Part(s, 3))
Spawn_read(s) ==
    [from |-> VmIndex_read(field(s, 3, 1)), child |-> VmIndex_read(field(s, 3, 2)),
     pipes |-> PipeIndices_read(field(s, 3, 3))]

Spawns_write(v) == dynvec_write([i \in DOMAIN v |-> Spawn_write(v[i])])
Spawns_verify(s, compatible) ==
    DynvecOk(s) /\ \A x \in Items(s) : Spawn_verify(x, compatible)
Spawns_read(s) == [i \in DOMAIN AllItems(s) |-> Spawn_read(AllItems(s)[i])]

Data_write(v) ==
    table_write(<<Spawns_write(v.spawns), Pipes_write(v.pipes), Writes_write(v.writes)>>)
Data_verify(s, compatible) ==
    /\ TableOk(s, 3, compatible)
    /\ Spawns_verify(Part(s, 1), compatible) /\ Pipes_verify(Part(s, 2), compatible)
    /\ Writes_verify(Part(s, 3), compatible)
Data_read(s) ==
    [spawns |-> Spawns_read(field(s, 3, 1)), pipes |-> Pipes_read(field(s, 3, 2)),
     writes |-> Writes_read(field(s, 3, 3))]

-----------------------------------------------------------------------------
(* What it takes for the accessors not to panic *)

CanUnpack(s, at) == at + NUMBER_SIZE <= Len(s)
InRange(s, start, end) == start <= end /\ end <= Len(s)

TableSafe(s, fields) ==
    /\ CanUnpack(s, NUMBER_SIZE * fields)
    /\ ItemCount(s) # fields => CanUnpack(s, NUMBER_SIZE * (fields + 1))
    /\ \A i \in 1 .. fields :
          InRange(s, unpack_number(s, NUMBER_SIZE * i), FieldEnd(s, fields, i))

DynvecSafe(s) ==
    /\ CanUnpack(s, 0)
    /\ unpack_number(s, 0) # NUMBER_SIZE => CanUnpack(s, NUMBER_SIZE)
    /\ CanUnpack(s, NUMBER_SIZE * ItemCount(s))
    /\ \A i \in 0 .. ItemCount(s) - 1 :
          InRange(s, unpack_number(s, NUMBER_SIZE * (1 + i)), ItemEnd(s, i))

FixvecSafe(s, size) ==
    CanUnpack(s, 0) /\ InRange(s, 0, NUMBER_SIZE + size * unpack_number(s, 0))

IndexSafe(s) == Len(s) = IndexSize
Indices(s, fields, which) == \A i \in which : IndexSafe(field(s, fields, i))
EachItem(s, Safe(_)) == DynvecSafe(s) /\ \A i \in DOMAIN AllItems(s) : Safe(AllItems(s)[i])

SpawnSafe(s) ==
    /\ TableSafe(s, 3) /\ Indices(s, 3, {1, 2})
    /\ FixvecSafe(field(s, 3, 3), IndexSize)
PipeSafe(s) == TableSafe(s, 3) /\ Indices(s, 3, {1, 2, 3})
WriteSafe(s) ==
    TableSafe(s, 5) /\ Indices(s, 5, 1 .. 4) /\ FixvecSafe(field(s, 5, 5), 1)
DataSafe(s) ==
    /\ TableSafe(s, 3)
    /\ EachItem(field(s, 3, 1), SpawnSafe)
    /\ EachItem(field(s, 3, 2), PipeSafe)
    /\ EachItem(field(s, 3, 3), WriteSafe)

=============================================================================
