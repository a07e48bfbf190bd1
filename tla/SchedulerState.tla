--------------------------- MODULE SchedulerState ---------------------------
(***************************************************************************)
(* The state of one Scheduler (src/lib.rs), of the machines it holds, and  *)
(* of the locals of the run() call in progress.                            *)
(*                                                                         *)
(* A map of the code is a total function with a value for "no entry"       *)
(* (Absent, NoVm, NotTerminated); the maps of machines and of snapshots    *)
(* are sets of ids (instantiated, suspended), since a machine's contents,  *)
(* machine[v], survive snapshotting unchanged.                             *)
(***************************************************************************)
EXTENDS Types, FiniteSets

CONSTANTS
    MAX_INSTANTIATED_VMS, \* how many VMs are held as machines at once
    CycleMax,             \* the largest u64, shrunk: it bounds every run
    LoadCycles,           \* what loading a program costs
    MaxTrace,             \* the largest cost of a trace of instructions
    MaxSlice,             \* bound: instructions executed between system calls
    Charges,              \* bound: cycles an inline system call may add
    MaxPassed,            \* bound: how many pipes are passed to a spawn
    Calls,                \* bound: what guests do, a subset of AllCalls
    Limits,               \* the arguments explored of RunMode::LimitCycles
    RunModes              \* the run modes explored

AllCalls == {"spawn", "join", "pipe", "pipe_write", "pipe_read", "inline",
             "exit", "fault"}

ASSUME StateAssumption ==
    /\ MAX_INSTANTIATED_VMS \in Nat \ {0, 1}
    /\ CycleMax \in Nat
    /\ LoadCycles \in 0 .. CycleMax
    /\ MaxTrace \in Nat \ {0}
    /\ MaxSlice \in Nat \ {0}
    /\ Charges \subseteq Nat
    /\ MaxPassed \in Nat
    /\ Calls \subseteq AllCalls
    /\ Limits \subseteq 0 .. CycleMax
    /\ RunModes \subseteq {"LimitCycles", "Pause"}

VARIABLES
    (* the fields of Scheduler *)
    total_cycles, next_vm_id, next_pipe_slot, states, pipes, instantiated,
    suspended, terminated_vms, message_box,
    (* per VM: the cycles its machine has counted since it last stopped, and *)
    (* what it finds in A0 and at the result address when it next runs       *)
    machine,
    (* where run() is, and what its last call returned *)
    pc, outcome,
    (* locals of run(): mode and limit_cycles; of iterate(): the VM that is  *)
    (* run, what machine.run() returned and the cycles it took, and the VMs  *)
    (* still to be woken from a join; of process_io(): the waiters whose     *)
    (* other end is closed, and the reader / writer pairs, both still to do  *)
    mode, limit_cycles, vm_id_to_run, result, consumed_cycles, joining_vms,
    closed_pipes, pairs,
    (* history: per write end, the bytes readers were told of and the writer *)
    (* was not; and what total_cycles may reach in this call of run()        *)
    unacked, budget

scheduler == <<total_cycles, next_vm_id, next_pipe_slot, states, pipes,
               instantiated, suspended, terminated_vms, message_box>>
locals == <<mode, limit_cycles, vm_id_to_run, result, consumed_cycles,
            joining_vms, closed_pipes, pairs>>
history == <<unacked, budget>>
vars == <<scheduler, machine, pc, outcome, locals, history>>

-----------------------------------------------------------------------------
(* The points run() is modelled to stop at:                                *)
(*   idle        no call in progress                                       *)
(*   stored      the scheduler is a FullSuspendedState                     *)
(*   process_io  at the top of iterate()                                   *)
(*   transfer    in process_io(), lists made; then the choice of a VM      *)
(*   machine     in machine.run()                                          *)
(*   messages    in process_message_box(); then the match on result        *)
(*   joiners     in the loop over joining_vms                              *)
(*   panicked    the thread has panicked                                   *)

Pc == {"idle", "stored", "process_io", "transfer", "machine", "messages",
       "joiners", "panicked"}

(* What machine.run() returns: an exit code, or one of these errors. *)
RunError == {"YIELD", "CyclesExceeded", "Pause", "Error"}
RunResult == {[tag |-> e] : e \in RunError \cup {"none"}}
               \cup [tag : {"Ok"}, code : ExitCode]

(* What run() returns. *)
Outcome == {"none", "Ok", "CyclesExceeded", "Pause", "CyclesOverflow",
            "Deadlock", "Error"}

(* The caller goes on using a scheduler after these. *)
Resumable == {"none", "Ok", "CyclesExceeded", "Pause"}

Pair == [reader : VmId, rs : ReadState, writer : VmId, ws : WriteState]

Live(v) == states[v] # Absent
owns(v, p) == p \in PipeId /\ pipes[p] = v
contains(p) == p \in PipeId /\ pipes[p] # NoVm

Init ==
    /\ total_cycles = 0
    /\ next_vm_id = FIRST_VM_ID
    /\ next_pipe_slot = FIRST_PIPE_SLOT
    /\ states = [v \in VmId |-> Absent]
    /\ pipes = [p \in PipeId |-> NoVm]
    /\ instantiated = {}
    /\ suspended = {}
    /\ terminated_vms = [v \in VmId |-> NotTerminated]
    /\ message_box = <<>>
    /\ machine = [v \in VmId |-> [cycles |-> 0, reply |-> NoReply]]
    /\ pc = "idle"
    /\ outcome = "none"
    /\ mode = "none"
    /\ limit_cycles = 0
    /\ vm_id_to_run = NoVm
    /\ result = [tag |-> "none"]
    /\ consumed_cycles = 0
    /\ joining_vms = {}
    /\ closed_pipes = {}
    /\ pairs = {}
    /\ unacked = [p \in PipeId |-> 0]
    /\ budget = 0

-----------------------------------------------------------------------------
(* Residency: which VMs are machines and which are snapshots *)

Lowest(S) == CHOOSE x \in S : \A y \in S : x <= y

(* Mutant of Admit: the VM that makes room may be one that was asked for. *)
Admit_AnyVictim(I, v, ids) ==
    IF v \in I THEN I
    ELSE IF Cardinality(I) < MAX_INSTANTIATED_VMS THEN I \cup {v}
    ELSE (I \ {Lowest(I)}) \cup {v}

(* Mutant of Admit: a full set of machines still takes one more. *)
Admit_OneTooMany(I, v, ids) ==
    IF v \in I THEN I
    ELSE IF Cardinality(I) <= MAX_INSTANTIATED_VMS THEN I \cup {v}
    ELSE (I \ {Lowest(I \ ids)}) \cup {v}

(* ensure_vms_instantiated(ids), for one id v of ids: if there is no room, *)
(* the lowest VM that was not asked for is suspended.                      *)
Admit(I, v, ids) ==
    IF v \in I THEN I
    ELSE IF Cardinality(I) < MAX_INSTANTIATED_VMS THEN I \cup {v}
    ELSE (I \ {Lowest(I \ ids)}) \cup {v}

(* With two ids the last one is taken first (it is popped off the list). *)
Ensure1(v) == Admit(instantiated, v, {v})
Ensure2(r, w) == Admit(Admit(instantiated, w, {r, w}), r, {r, w})

(* boot_vm suspends the lowest VM, whoever it is, until there is room. *)
MakeRoom(I) ==
    IF Cardinality(I) < MAX_INSTANTIATED_VMS THEN I ELSE I \ {Lowest(I)}

(* suspend_vm and resume_vm for the VMs that leave and join the machines. *)
Swap(I) ==
    /\ instantiated' = I
    /\ suspended' = (suspended \cup (instantiated \ I)) \ I

=============================================================================
