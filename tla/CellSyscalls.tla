---------------------------- MODULE CellSyscalls ----------------------------
(***************************************************************************)
(* The system calls of src/syscalls.rs that read cells: load_cell_data,    *)
(* load_cell_data_as_code, and the checks spawn makes before it leaves its *)
(* message, with the loading boot_vm of src/lib.rs does when the message   *)
(* is handled.  Of a VM's memory there is the buffer a call writes to and  *)
(* the size it stores back.                                                *)
(*                                                                         *)
(* A guest loads a cell the way the calls are made for: chunk by chunk, at *)
(* rising offsets, until the size it is told is no more than what it got.  *)
(***************************************************************************)
EXTENDS DataSource

CONSTANTS
    Txs,     \* the transactions explored
    Indices, \* the cell indices guests pass, u64
    Offsets, \* the offsets guests pass, u64
    Sizes    \* the sizes and lengths guests pass, u64

(* A transaction: any number of cells, each of any bytes or missing, and   *)
(* script groups whose indices may point anywhere.                         *)
Byte == 0 .. 255
CellData == {Missing} \cup Seq(Byte)
Tx == [program : Seq(Byte), resolved_inputs : Seq(CellData), outputs_data : Seq(CellData),
       resolved_cell_deps : Seq(CellData), input_indices : Seq(Nat),
       output_indices : Seq(Nat)]

ASSUME CellAssumption ==
    /\ Indices \cup Offsets \cup Sizes \subseteq 0 .. U64Max
    /\ Txs \subseteq Tx

SUCCESS == 0
INDEX_OUT_OF_BOUND == 1
SLICE_OUT_OF_BOUND == 3

FAULT == -1   \* the call ends with an error of the VM

VARIABLES
    tx,
    cpc,    \* "idle"; "reading" a cell in chunks, "read" when it is whole;
            \* "spawning" when the message is left, "booted" when it is handled
    at,     \* the source and index of the call, or calls, in progress
    cursor, \* reading: where the guest is in the cell
    got,    \* reading: the bytes it has so far
    args,   \* spawning: offset and length of the message
    last    \* what the last call did: its code in A0, the offset it was given,
            \* the bytes it wrote to the guest's buffer, the size of that, and
            \* the size stored back

cell_vars == <<tx, cpc, at, cursor, got, args, last>>

At(source, index) == [source |-> source, index |-> index]
Id(x) == try_from(x.source, x.index)
Did(call, x, code) == [call |-> call, at |-> x, code |-> code]
Wrote(call, x, offset, size, bytes, stored) ==
    [call |-> call, at |-> x, code |-> SUCCESS, offset |-> offset, size |-> size,
     bytes |-> bytes, stored |-> stored]

Nowhere == At("other", 0)
NoCall == Did("none", Nowhere, SUCCESS)
NoArgs == [offset |-> 0, length |-> 0]

CellInit ==
    /\ tx \in Txs
    /\ cpc = "idle"
    /\ at = Nowhere
    /\ cursor = 0
    /\ got = <<>>
    /\ args = NoArgs
    /\ last = NoCall

Done(r) == last' = r /\ UNCHANGED <<tx, cpc, at, cursor, got, args>>

(* The calls first make a DataPieceId and load with it: a failure is a     *)
(* code in A0 if an index is out of bound, an error of the VM otherwise.   *)
Loaded(x, offset, length) ==
    IF Id(x) = NoPiece THEN [error |-> "INDEX_OUT_OF_BOUND"]
    ELSE load_data(tx, Id(x), offset, length)

Failed(call, x, r) ==
    /\ r.error # "none"
    /\ Done(Did(call, x, IF r.error = "Unexpected" THEN FAULT ELSE INDEX_OUT_OF_BOUND))

-----------------------------------------------------------------------------
(* load_cell_data: Snapshot2Context::store_bytes writes what load_data     *)
(* returns, given the size the guest keeps at size_addr.                   *)

load_cell_data(x, offset, size) ==
    /\ cpc = "idle"
    /\ LET r == Loaded(x, offset, size)
       IN \/ Failed("load_cell_data", x, r)
          \/ /\ r.error = "none"
             /\ Done(Wrote("load_cell_data", x, offset, size, r.bytes, r.full_length))

(* A guest starts on a cell that exists, and takes the next chunk. *)
read_begins(x) ==
    /\ cpc = "idle"
    /\ Loaded(x, 0, 1).error = "none"
    /\ cpc' = "reading"
    /\ at' = x
    /\ last' = NoCall
    /\ UNCHANGED <<tx, cursor, got, args>>

read_chunk(size) ==
    /\ cpc = "reading"
    /\ size > 0
    /\ LET r == Loaded(at, cursor, size)
       IN /\ last' = Wrote("load_cell_data", at, cursor, size, r.bytes, r.full_length)
          /\ got' = got \o r.bytes
          /\ cursor' = cursor + Len(r.bytes)
          /\ cpc' = IF r.full_length <= size THEN "read" ELSE "reading"
    /\ UNCHANGED <<tx, at, args>>

(* The guest goes on to something else. *)
goes_on ==
    /\ cpc \in {"read", "booted"}
    /\ cpc' = "idle"
    /\ at' = Nowhere
    /\ cursor' = 0
    /\ got' = <<>>
    /\ args' = NoArgs
    /\ last' = NoCall
    /\ UNCHANGED tx

-----------------------------------------------------------------------------
(* load_cell_data_as_code *)

CodeRefused(cell, content_offset, content_size, memory_size) ==
    \/ content_offset >= cell
    \/ content_offset + content_size > cell
    \/ content_size > memory_size

load_cell_data_as_code(x, offset, size, memory_size) ==
    /\ cpc = "idle"
    /\ LET r == Loaded(x, 0, U64Max)
       IN \/ Failed("as_code", x, r)
          \/ /\ r.error = "none" /\ offset + size > U64Max    \* checked_add
             /\ Done(Did("as_code", x, FAULT))
          \/ /\ r.error = "none" /\ offset + size <= U64Max
             /\ CodeRefused(Len(r.bytes), offset, size, memory_size)
             /\ Done(Did("as_code", x, SLICE_OUT_OF_BOUND))
          \/ /\ r.error = "none" /\ offset + size <= U64Max
             /\ ~CodeRefused(Len(r.bytes), offset, size, memory_size)
             /\ Done(Wrote("as_code", x, offset, memory_size,
                           SubSeq(r.bytes, offset + 1, offset + size), size))

-----------------------------------------------------------------------------
(* spawn, up to its message, and boot_vm *)

(* Mutant of BoundsRefused: the end may lie past the cell. *)
BoundsRefused_Start(offset, length, full_length) == offset >= full_length

BoundsRefused(offset, length, full_length) ==
    \/ offset >= full_length
    \/ length > 0 /\ offset + length > full_length

(* offset and length are the two halves of one register, so their sum does *)
(* not overflow.                                                           *)
spawn(x, offset, length) ==
    /\ cpc = "idle"
    /\ {offset, length} \subseteq 0 .. U32Max
    /\ LET r == Loaded(x, 0, 0)
       IN \/ Failed("spawn", x, r)
          \/ /\ r.error = "none" /\ BoundsRefused(offset, length, r.full_length)
             /\ Done(Did("spawn", x, SLICE_OUT_OF_BOUND))
          \/ /\ r.error = "none" /\ ~BoundsRefused(offset, length, r.full_length)
             /\ cpc' = "spawning"
             /\ at' = x
             /\ args' = [offset |-> offset, length |-> length]
             /\ last' = NoCall
             /\ UNCHANGED <<tx, cursor, got>>

(* boot_vm loads the program with the arguments of the message. *)
boot_vm ==
    /\ cpc = "spawning"
    /\ LET r == Loaded(at, args.offset, args.length)
       IN last' = IF r.error # "none" THEN Did("boot", at, FAULT)
                  ELSE Wrote("boot", at, args.offset, args.length, r.bytes, r.full_length)
    /\ cpc' = "booted"
    /\ UNCHANGED <<tx, at, cursor, got, args>>

-----------------------------------------------------------------------------

CellNext ==
    \/ \E x \in [source : Source, index : Indices] :
        \/ read_begins(x)
        \/ \E o \in Offsets, n \in Sizes : load_cell_data(x, o, n) \/ spawn(x, o, n)
        \/ \E o \in Offsets, n, m \in Sizes : load_cell_data_as_code(x, o, n, m)
    \/ \E n \in Sizes : read_chunk(n)
    \/ goes_on
    \/ boot_vm

CellSpec == CellInit /\ [][CellNext]_cell_vars

-----------------------------------------------------------------------------
(* Properties *)

(* The cell a source and an index stand for, said without load_data: the   *)
(* list of the transaction a source is about, and where in it a cell is.   *)
CellsOf == [input |-> tx.resolved_inputs, group_input |-> tx.resolved_inputs,
            output |-> tx.outputs_data, group_output |-> tx.outputs_data,
            cell_dep |-> tx.resolved_cell_deps]
GroupOf == [group_input |-> tx.input_indices, group_output |-> tx.output_indices]

Position(x) ==
    IF x.source \in DOMAIN GroupOf THEN GroupOf[x.source][x.index + 1] ELSE x.index
Exists(x) ==
    /\ x.source \in DOMAIN CellsOf
    /\ x.source \in DOMAIN GroupOf => x.index < Len(GroupOf[x.source])
    /\ Position(x) < Len(CellsOf[x.source])
Cell(x) == CellsOf[x.source][Position(x) + 1]

(* However a guest cuts a cell into chunks, it ends with the cell: the     *)
(* size stored back always tells whether there is more.                    *)
ChunksMakeTheCell ==
    /\ cpc = "reading" => got = SubSeq(Cell(at), 1, cursor)
    /\ cpc = "read" => got = Cell(at)

(* The part of the cell a spawned VM is booted from is the part its        *)
(* spawner asked for and spawn checked, never less: the check and the      *)
(* loading are two calls of load_data with different arguments.            *)
BootsWhatWasChecked ==
    cpc = "booted" =>
        LET end == IF args.length > 0 THEN args.offset + args.length ELSE Len(Cell(at))
        IN  /\ last.code = SUCCESS
            /\ Len(last.bytes) = end - args.offset
            /\ \A i \in 1 .. Len(last.bytes) : last.bytes[i] = Cell(at)[args.offset + i]
            /\ last.bytes # <<>>

(* A call that succeeds named a cell that exists, by a u32, and what it    *)
(* wrote is that cell's: the bytes from the offset on, the size of the     *)
(* rest of the cell, and for code all that was asked for.  A script        *)
(* group's index is followed to the cell it points to; one that points     *)
(* nowhere is never taken for another's.  And a call is refused for its    *)
(* index only if there is no such cell.                                    *)
OnlyRealCells ==
    /\ last.call # "none" /\ last.code = SUCCESS =>
          /\ Exists(last.at) /\ last.at.index <= U32Max /\ Cell(last.at) # Missing
          /\ \A i \in 1 .. Len(last.bytes) :
                /\ last.offset + i <= Len(Cell(last.at))
                /\ last.bytes[i] = Cell(last.at)[last.offset + i]
          /\ last.stored = IF last.call = "as_code" THEN Len(last.bytes)
                           ELSE Len(Cell(last.at)) - Least(last.offset, Len(Cell(last.at)))
    /\ last.code = INDEX_OUT_OF_BOUND => ~Exists(last.at) \/ last.at.index > U32Max

(* The comment on load_cell_data calls it a reimplementation of the system *)
(* call of that name, which is given the size of the guest's buffer and    *)
(* fills no more than that.  A size of 0 gets the rest of the cell.        *)
BufferRespected ==
    last.call = "load_cell_data" /\ last.code = SUCCESS => Len(last.bytes) <= last.size

=============================================================================
