------------------------------- MODULE Types -------------------------------
(***************************************************************************)
(* The data types of src/types.rs: VM ids, pipe ids, the state a VM is in, *)
(* the messages a VM sends the scheduler, and the replies a VM finds in    *)
(* its registers and memory when a system call returns.                    *)
(*                                                                         *)
(* Guest addresses are abstracted to whether the scheduler's accesses      *)
(* through them succeed ("ok"), fail on the data buffer ("bad_buffer") or  *)
(* fail on the address results are stored to ("bad_result": length_addr,   *)
(* exit_code_addr, instance_id_addr, pipe1_addr and pipe2_addr).           *)
(***************************************************************************)
EXTENDS Integers, Sequences

CONSTANTS
    MaxVms,        \* bound: how many VMs are ever booted
    MaxPipePairs,  \* bound: how many pipe pairs are ever created
    MaxLength,     \* bound: the largest length given to pipe_read / pipe_write
    ExitCode,      \* the exit codes guests use (an i8 in the code)
    NotTerminated, \* "no entry in terminated_vms"
    Addr,          \* the guest addresses explored, a subset of AddrKind
    Program        \* the cells explored for a spawn, a subset of ProgramKind

AddrKind == {"ok", "bad_buffer", "bad_result"}
ProgramKind == {"elf", "garbage"}

ASSUME TypesAssumption ==
    /\ MaxVms \in Nat \ {0}
    /\ MaxPipePairs \in Nat
    /\ MaxLength \in Nat
    /\ NotTerminated \notin ExitCode
    /\ Addr \subseteq AddrKind
    /\ Program \subseteq ProgramKind

-----------------------------------------------------------------------------
(* VM ids and pipe ids *)

FIRST_VM_ID == 0
ROOT_VM_ID == FIRST_VM_ID
FIRST_PIPE_SLOT == 2

VmId == FIRST_VM_ID .. MaxVms - 1
NoVm == -1   \* "no entry in pipes": the pipe was never created, or is closed

(* A join may name any id; one that was never given to a VM stands for all. *)
JoinTarget == FIRST_VM_ID .. MaxVms

PipeId == FIRST_PIPE_SLOT .. FIRST_PIPE_SLOT + 2 * MaxPipePairs - 1

(* Mutant of create: the slots are not used up. *)
create_Reuse(slot) == <<slot, slot + 1, slot>>

(* PipeId::create: the read end, the write end, the next free slot. *)
create(slot) == <<slot, slot + 1, slot + 2>>

is_read(p) == p % 2 = 0
is_write(p) == p % 2 = 1

(* Mutant of other_pipe: adds one instead of flipping the lowest bit, which *)
(* is right for read ends only.                                             *)
other_pipe_Next(p) == p + 1

(* PipeId::other_pipe, p ^ 1. *)
other_pipe(p) == IF is_read(p) THEN p + 1 ELSE p - 1

-----------------------------------------------------------------------------
(* VmState; "Absent" is "no entry in states" *)

Length == 0 .. MaxLength

Absent == [tag |-> "Absent"]
Runnable == [tag |-> "Runnable"]
Terminated == [tag |-> "Terminated"]

JoinState == [tag : {"Join"}, target : VmId, addr : Addr]
ReadState == [tag : {"WaitForRead"}, pipe : PipeId, length : Length, addr : Addr]

(* consumed never passes length, so length - consumed does not underflow. *)
WriteState ==
    {s \in [tag : {"WaitForWrite"}, pipe : PipeId, consumed : Length,
            length : Length, addr : Addr] : s.consumed <= s.length}

VmState == {Absent, Runnable, Terminated} \cup JoinState \cup ReadState
             \cup WriteState

-----------------------------------------------------------------------------
(* Message.  A spawn names the cell to boot; what matters of it is whether  *)
(* it holds a loadable ELF.  The pipe list is the set of ids in it.         *)

SpawnMessage == [tag : {"Spawn"}, vm : VmId, pipes : SUBSET PipeId,
                 program : Program, addr : Addr]
JoinMessage == [tag : {"Join"}, vm : VmId, target : JoinTarget, addr : Addr]
PipeMessage == [tag : {"Pipe"}, vm : VmId, addr : Addr]
IoMessage == [tag : {"PipeRead", "PipeWrite"}, vm : VmId, pipe : PipeId,
              length : Length, addr : Addr]

Message == SpawnMessage \cup JoinMessage \cup PipeMessage \cup IoMessage

-----------------------------------------------------------------------------
(* What a guest sees when a system call returns: the code in A0, and what   *)
(* was stored through the result address.                                   *)

SUCCESS == 0
JOIN_FAILURE == 5
INVALID_PIPE == 6
OTHER_END_CLOSED == 7

NoReply == [op |-> "none"]
PlainReply == [op : {"spawn", "pipe"}, code : {SUCCESS}]
JoinReply == [op : {"join"}, code : {SUCCESS}, target : VmId, exit : ExitCode]
              \cup [op : {"join"}, code : {JOIN_FAILURE}]
IoReply == [op : {"read", "write"}, code : {SUCCESS}, pipe : PipeId,
            asked : Length, length : Length]
            \cup [op : {"read", "write"}, code : {INVALID_PIPE, OTHER_END_CLOSED}]

Reply == {NoReply} \cup PlainReply \cup JoinReply \cup IoReply

=============================================================================
