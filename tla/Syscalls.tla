------------------------------ MODULE Syscalls ------------------------------
(***************************************************************************)
(* One slice of machine.run(): what the guest of the VM being run does     *)
(* until the machine stops, through MachineContext::ecall of               *)
(* src/syscalls.rs.  The guest program is arbitrary: at every point it may *)
(* make any call with any arguments, exit, or fault.                       *)
(*                                                                         *)
(* A guest executes k cycles of instructions before its next call.  The    *)
(* machine (ckb-vm, external) runs a trace of instructions only if the     *)
(* cycles counted so far plus the trace's fit in max_cycles; cycles added  *)
(* by a system call are not checked.                                       *)
(***************************************************************************)
EXTENDS SchedulerState

self == vm_id_to_run
Counted(k) == machine[self].cycles + k
Fits(k) == Counted(k) <= limit_cycles

(* Mutant of SliceEnds: the addition is not checked. *)
SliceEnds_Unchecked(r, msgs, c) ==
    /\ message_box' = message_box \o msgs
    /\ result' = r
    /\ machine' = [machine EXCEPT ![self].cycles = 0]
    /\ total_cycles' = total_cycles + c
    /\ consumed_cycles' = c
    /\ pc' = "messages"
    /\ UNCHANGED outcome

(* machine.run() returned r: its cycles are taken off the machine and      *)
(* added to the total.  An overflow ends run() there and then, with the    *)
(* message of the slice still in the box.                                  *)
SliceEnds(r, msgs, c) ==
    /\ message_box' = message_box \o msgs
    /\ result' = r
    /\ machine' = [machine EXCEPT ![self].cycles = 0]
    /\ \/ /\ total_cycles + c <= CycleMax
          /\ total_cycles' = total_cycles + c
          /\ consumed_cycles' = c
          /\ pc' = "messages"
          /\ UNCHANGED outcome
       \/ /\ total_cycles + c > CycleMax
          /\ pc' = "idle"
          /\ outcome' = "CyclesOverflow"
          /\ UNCHANGED <<total_cycles, consumed_cycles>>

Sliced == <<next_vm_id, next_pipe_slot, states, pipes, instantiated, suspended,
            terminated_vms, mode, limit_cycles, vm_id_to_run, joining_vms,
            closed_pipes, pairs, history>>

Executing(call, k) == pc = "machine" /\ call \in Calls /\ Fits(k)

(* A call that must wait for the scheduler leaves a message and stops the  *)
(* machine with the error "YIELD".                                         *)
Yield(call, k, m) ==
    /\ Executing(call, k)
    /\ SliceEnds([tag |-> "YIELD"], <<m>>, Counted(k))
    /\ UNCHANGED Sliced

-----------------------------------------------------------------------------

(* bound: no spawn once MaxVms VMs were booted. *)
spawn(k) ==
    /\ next_vm_id < MaxVms
    /\ \E ps \in SUBSET PipeId, program \in Program, a \in Addr :
        /\ Cardinality(ps) <= MaxPassed
        /\ Yield("spawn", k, [tag |-> "Spawn", vm |-> self, pipes |-> ps,
                              program |-> program, addr |-> a])

join(k) ==
    \E t \in JoinTarget, a \in Addr :
        Yield("join", k, [tag |-> "Join", vm |-> self, target |-> t, addr |-> a])

(* bound: no pipe once MaxPipePairs pairs were created. *)
pipe(k) ==
    /\ next_pipe_slot \in PipeId
    /\ \E a \in Addr : Yield("pipe", k, [tag |-> "Pipe", vm |-> self, addr |-> a])

IoArgs(tag) == [tag : {tag}, vm : {self}, pipe : PipeId, length : Length, addr : Addr]

pipe_write(k) ==
    \E m \in IoArgs("PipeWrite") : is_write(m.pipe) /\ Yield("pipe_write", k, m)

pipe_read(k) ==
    \E m \in IoArgs("PipeRead") : is_read(m.pipe) /\ Yield("pipe_read", k, m)

(* The calls that return to the guest at once: current_cycles,             *)
(* load_cell_data, load_cell_data_as_code, debug and instance_id, and      *)
(* spawn, pipe_read and pipe_write when they reject their arguments.  All  *)
(* they leave behind in the scheduler is the cycles they took.             *)
inline(k) ==
    /\ Executing("inline", k)
    /\ \E c \in Charges :
        /\ Counted(k + c) <= CycleMax
        /\ machine' = [machine EXCEPT ![self].cycles = Counted(k + c)]
    /\ UNCHANGED <<scheduler, pc, outcome, locals, history>>

exit(k) ==
    \E code \in ExitCode :
        /\ Executing("exit", k)
        /\ SliceEnds([tag |-> "Ok", code |-> code], <<>>, Counted(k))
        /\ UNCHANGED Sliced

(* Anything that stops the machine with another error: a memory access     *)
(* that fails in the guest or in a system call reading its arguments, an   *)
(* overflow of the cycle counter, an invalid instruction.                  *)
fault(k) ==
    /\ Executing("fault", k)
    /\ SliceEnds([tag |-> "Error"], <<>>, Counted(k))
    /\ UNCHANGED Sliced

(* The next trace would not fit in limit_cycles. *)
exceed(k) ==
    /\ pc = "machine"
    /\ k = 0 \/ Fits(k)
    /\ Counted(k) + MaxTrace > limit_cycles
    /\ SliceEnds([tag |-> "CyclesExceeded"], <<>>, Counted(k))
    /\ UNCHANGED Sliced

(* Another thread has triggered the Pause that run() was given. *)
interrupt(k) ==
    /\ pc = "machine"
    /\ mode = "Pause"
    /\ k = 0 \/ Fits(k)
    /\ SliceEnds([tag |-> "Pause"], <<>>, Counted(k))
    /\ UNCHANGED Sliced

Guest ==
    \/ \E k \in 1 .. MaxSlice :
        \/ spawn(k) \/ join(k) \/ pipe(k) \/ pipe_write(k) \/ pipe_read(k)
        \/ inline(k) \/ exit(k) \/ fault(k)
    \/ \E k \in 0 .. MaxSlice : exceed(k) \/ interrupt(k)

=============================================================================
