---------------------------- MODULE DagContract ----------------------------
(***************************************************************************)
(* test-contracts/main.c, the program every VM of the repository's tests   *)
(* runs: it finds its own part of the dag::Data in the witness, creates    *)
(* its pipes, spawns its children, makes its reads and writes in the       *)
(* order of the list, joins its children, last spawned first, and exits    *)
(* with 0, or with the first error it meets.                               *)
(*                                                                         *)
(* It takes the place of Guest, the arbitrary guest of module Syscalls.    *)
(* Before each system call it executes Work traces of instructions.  The   *)
(* bytes written are not modelled, only how many there are.                *)
(***************************************************************************)
EXTENDS Scheduler, DataGraph, EscapeEncoding, SequencesExt

CONSTANTS
    Work,            \* the traces of instructions before a system call
    MAX_PIPE_COUNT,  \* the room for pipes, and
    MAX_SPAWNED_VMS  \* for children

ASSUME ContractAssumption == {Work, MAX_PIPE_COUNT, MAX_SPAWNED_VMS} \subseteq Nat \ {0}

ESCAPE_ERROR_ENCODING == 1
ERROR_NO_SPACE_FOR_PIPES == 43
ERROR_NOT_FOUND == 44
ERROR_ARGV == 46
ERROR_TOO_MANY_SPAWNS == 47
ERROR_PIPE_CLOSED == 48

VARIABLE guest  \* the memory and registers of every VM

(* argv is <<>> for argc = 0, as the root VM is booted. *)
Booting(argv) ==
    [argv |-> argv,
     vm_index |-> 0,
     current_pipes |-> <<>>, \* pipes_t: pairs of an index and an id
     spawned_vms |-> <<>>,
     at |-> 0,               \* calls done, the first being load_witness
     moved |-> 0,            \* written, or read: bytes of the call it is at
     joined |-> 0,
     done |-> 0,             \* traces executed towards the next call
     ret |-> 0]

ContractInit == guest = [v \in VmId |-> Booting(<<>>)]

-----------------------------------------------------------------------------
(* pipes_t *)

(* pipes_add for each of more: it fails when there is no room for one. *)
AddFails(held, more) == Len(held) + Len(more) > MAX_PIPE_COUNT
pipes_add(g, more) ==
    IF AddFails(g.current_pipes, more) THEN [g EXCEPT !.ret = ERROR_NO_SPACE_FOR_PIPES]
    ELSE [g EXCEPT !.current_pipes = @ \o more]

(* pipes_find: the first one with that index. *)
Found(held, index) == \E i \in DOMAIN held : held[i][1] = index
pipes_find(held, index) == SelectSeq(held, LAMBDA x : x[1] = index)[1][2]

-----------------------------------------------------------------------------
(* argv: a u64 is 8 bytes, little-endian, of which ids and indices use two *)

to_le_bytes(n) == <<n % 256, n \div 256, 0, 0, 0, 0, 0, 0>>
from_le_bytes(s) == s[1] + 256 * s[2]

(* What the spawner encodes, and the scheduler copies to the child. *)
Encoded(numbers) ==
    LET src == FlattenSeq([i \in DOMAIN numbers |-> to_le_bytes(numbers[i])])
        e == ee_encode(src, ee_maximum_encoding_length(Len(src)))
    IN  load_c_string(Append(e.dst, 0))

(* ee_decode_char_string_in_place to n numbers, or the code main returns:  *)
(* the decoder's own, or that of a wrong length.                           *)
Decoded(string, n) ==
    LET bytes == ee_decode_char_string_in_place(string).bytes
    IN  [i \in 1 .. n |-> from_le_bytes(SubSeq(bytes, 8 * i - 7, 8 * i))]
DecodeError(string, n) ==
    LET d == ee_decode_char_string_in_place(string)
    IN  IF d.error THEN ESCAPE_ERROR_ENCODING
        ELSE IF Len(d.bytes) # 8 * n THEN ERROR_ARGV ELSE 0

(* A spawned VM takes its index and its pipes from argv; how many pipes    *)
(* there are, and their indices, from its entry in spawns.                 *)
ReadArgv(g) ==
    LET index == Decoded(g.argv[1], 1)[1]
        own == SelectSeq(data.spawns, LAMBDA s : s.child = index)
        passed == own[1].pipes
        ids == Decoded(g.argv[2], Len(passed))
        error == IF DecodeError(g.argv[1], 1) # 0 THEN DecodeError(g.argv[1], 1)
                 ELSE IF own = <<>> THEN ERROR_ARGV
                 ELSE DecodeError(g.argv[2], Len(passed))
    IN  IF g.argv = <<>> THEN g
        ELSE IF error # 0 THEN [g EXCEPT !.ret = error]
        ELSE pipes_add([g EXCEPT !.vm_index = index],
                       [i \in DOMAIN passed |-> <<passed[i], ids[i]>>])

-----------------------------------------------------------------------------
(* The calls a VM makes, in order *)

PipesOf(i) == SelectSeq(data.pipes, LAMBDA x : x.vm = i)
SpawnsOf(i) == SelectSeq(data.spawns, LAMBDA x : x.from = i)
WritesOf(i) == SelectSeq(data.writes, LAMBDA x : i \in {x.from, x.to} /\ x.length > 0)

Tagged(op, list) == [i \in DOMAIN list |-> [op |-> op, arg |-> list[i]]]

(* Mutant of Ops: reads and writes before the children are spawned. *)
Ops_SpawnLate(i) ==
    Tagged("pipe", PipesOf(i)) \o Tagged("io", WritesOf(i)) \o Tagged("spawn", SpawnsOf(i))

Ops(i) ==
    Tagged("pipe", PipesOf(i)) \o Tagged("spawn", SpawnsOf(i)) \o Tagged("io", WritesOf(i))

(* The pipe a write uses at this VM's end. *)
IsWriter(g, w) == w.from = g.vm_index
IoIndex(g, w) == IF IsWriter(g, w) THEN w.from_pipe ELSE w.to_pipe

(* What stops the program before it makes the call. *)
Obstacle(g, o) ==
    CASE o.op = "pipe" -> 0
      [] o.op = "spawn" ->
            IF Len(g.spawned_vms) >= MAX_SPAWNED_VMS THEN ERROR_TOO_MANY_SPAWNS
            ELSE IF \E p \in Listed(o.arg.pipes) : ~Found(g.current_pipes, p)
            THEN ERROR_NOT_FOUND
            ELSE IF AddFails(<<>>, o.arg.pipes) THEN ERROR_NO_SPACE_FOR_PIPES ELSE 0
      [] o.op = "io" ->
            IF Found(g.current_pipes, IoIndex(g, o.arg)) THEN 0 ELSE ERROR_NOT_FOUND

Exit(code) == [op |-> "exit", code |-> code]

NextCall(g) ==
    LET ops == Ops(g.vm_index)
    IN  IF g.ret # 0 THEN Exit(g.ret)
        ELSE IF g.at = 0 THEN [op |-> "load_witness"]
        ELSE IF g.at <= Len(ops)
        THEN LET o == ops[g.at]
             IN  IF Obstacle(g, o) = 0 THEN o ELSE Exit(Obstacle(g, o))
        ELSE IF g.joined < Len(g.spawned_vms)
        THEN [op |-> "join", target |-> g.spawned_vms[Len(g.spawned_vms) - g.joined]]
        ELSE Exit(0)

PassedIds(g, s) == [i \in DOMAIN s.pipes |-> pipes_find(g.current_pipes, s.pipes[i])]

-----------------------------------------------------------------------------
(* One slice of machine.run() *)

me == guest[self]
Traces(n) == n * MaxTrace
Left == Work - me.done

(* The traces that fit in the limit, of those left before the next call. *)
Room == {n \in 0 .. Left - 1 : (n = 0 \/ Fits(Traces(n))) /\ ~Fits(Traces(n + 1))}

preempted ==
    \E n \in Room :
        /\ exceed(Traces(n))
        /\ guest' = [guest EXCEPT ![self].done = @ + n]

IoMessageOf(tag, w) ==
    [tag |-> tag, vm |-> self,
     pipe |-> pipes_find(me.current_pipes, IoIndex(me, w)),
     length |-> w.length - me.moved, addr |-> "ok"]

SpawnMessageOf(s) ==
    [tag |-> "Spawn", vm |-> self, pipes |-> Listed(PassedIds(me, s)),
     program |-> "elf", addr |-> "ok"]

call ==
    LET c == NextCall(me)
        k == Traces(Left)
    IN
    /\ \/ c.op = "load_witness" /\ inline(k)
       \/ c.op = "pipe" /\ Yield("pipe", k, [tag |-> "Pipe", vm |-> self, addr |-> "ok"])
       \/ c.op = "spawn" /\ Yield("spawn", k, SpawnMessageOf(c.arg))
       \/ /\ c.op = "io"
          /\ \/ IsWriter(me, c.arg) /\ Yield("pipe_write", k, IoMessageOf("PipeWrite", c.arg))
             \/ ~IsWriter(me, c.arg) /\ Yield("pipe_read", k, IoMessageOf("PipeRead", c.arg))
       \/ c.op = "join" /\ Yield("join", k, [tag |-> "Join", vm |-> self,
                                             target |-> c.target, addr |-> "ok"])
       \/ c.op = "exit" /\ exit(k) /\ result' = [tag |-> "Ok", code |-> c.code]
    /\ guest' = [guest EXCEPT ![self] =
                    IF c.op = "load_witness" THEN [ReadArgv(@) EXCEPT !.at = 1, !.done = 0]
                    ELSE [@ EXCEPT !.done = 0]]

Contract == pc = "machine" /\ (preempted \/ call)

-----------------------------------------------------------------------------
(* What iterate() changes in the memory and registers of the guests *)

(* Back from a system call. *)
Resumed(g, r) ==
    CASE r.op = "none" -> g
      [] r.op \in {"spawn", "pipe"} -> [g EXCEPT !.at = @ + 1]
      [] r.op \in {"read", "write"} ->
            IF r.code # SUCCESS THEN [g EXCEPT !.ret = r.code]
            ELSE IF r.length = 0 THEN [g EXCEPT !.ret = ERROR_PIPE_CLOSED]
            ELSE IF r.length < r.asked THEN [g EXCEPT !.moved = @ + r.length]
            ELSE [g EXCEPT !.moved = 0, !.at = @ + 1]
      [] r.op = "join" ->
            IF r.code # SUCCESS THEN [g EXCEPT !.ret = r.code]
            ELSE IF r.exit # 0 THEN [g EXCEPT !.ret = r.exit]
            ELSE [g EXCEPT !.joined = @ + 1]

(* A VM is spawned: argv is copied to it, its id to the spawner. *)
AfterSpawn ==
    LET s == NextCall(me).arg
    IN  [guest EXCEPT
            ![next_vm_id] = Booting(<<Encoded(<<s.child>>), Encoded(PassedIds(me, s))>>),
            ![self].spawned_vms = Append(@, next_vm_id)]

AfterPipe ==
    LET x == NextCall(me).arg
        ends == create(next_pipe_slot)
    IN  [guest EXCEPT ![self] =
            pipes_add(@, << <<x.read_pipe, ends[1]>>, <<x.write_pipe, ends[2]>> >>)]

AfterPick(v) == [guest EXCEPT ![v] = Resumed(@, machine[v].reply)]

hosted ==
    /\ host
    /\ guest' = CASE pc = "messages" /\ next_vm_id' # next_vm_id -> AfterSpawn
                  [] next_pipe_slot' # next_pipe_slot -> AfterPipe
                  [] pc' = "machine" -> AfterPick(vm_id_to_run')
                  [] OTHER -> guest

=============================================================================
