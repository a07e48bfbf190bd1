------------------------ MODULE SchedulerProperties ------------------------
(***************************************************************************)
(* What the scheduler has to guarantee: to the guests (pipes, joins), to   *)
(* its caller (cycles, suspension, deadlock reports), and to itself (the   *)
(* machines it holds, the lists it works from).                            *)
(***************************************************************************)
EXTENDS Scheduler

Machine == [cycles : 0 .. CycleMax, reply : Reply]

(* Every variable has its type. *)
TypeOK ==
    /\ total_cycles \in 0 .. CycleMax
    /\ next_vm_id \in 0 .. MaxVms
    /\ next_pipe_slot \in Nat
    /\ states \in [VmId -> VmState]
    /\ pipes \in [PipeId -> VmId \cup {NoVm}]
    /\ instantiated \subseteq VmId
    /\ suspended \subseteq VmId
    /\ terminated_vms \in [VmId -> ExitCode \cup {NotTerminated}]
    /\ message_box \in Seq(Message)
    /\ machine \in [VmId -> Machine]
    /\ pc \in Pc
    /\ outcome \in Outcome
    /\ mode \in {"none", "LimitCycles", "Pause"}
    /\ limit_cycles \in 0 .. CycleMax
    /\ vm_id_to_run \in VmId \cup {NoVm}
    /\ result \in RunResult
    /\ consumed_cycles \in 0 .. CycleMax
    /\ joining_vms \subseteq VmId
    /\ closed_pipes \subseteq VmId
    /\ pairs \subseteq Pair
    /\ unacked \in [PipeId -> Int]
    /\ budget \in Nat

(* A run that failed leaves its scheduler as it was at that point; the     *)
(* caller drops it.                                                        *)
Usable == outcome \in Resumable

-----------------------------------------------------------------------------
(* The machines *)

(* Every VM in states is a machine or a snapshot, never both and never     *)
(* neither, nothing else is kept, and at most MAX_INSTANTIATED_VMS are     *)
(* machines: whatever the order in which boot_vm, process_io, joins and    *)
(* suspend() move VMs in and out.  The unwrap of suspend(), the assert of  *)
(* ensure_vms_instantiated and the error of resume_vm rest on it.          *)
Residency ==
    /\ instantiated \cap suspended = {}
    /\ instantiated \cup suspended = {v \in VmId : Live(v)}
    /\ Cardinality(instantiated) <= MAX_INSTANTIATED_VMS

(* The two ends of a transfer are machines at the time: making room for    *)
(* one never pushes out the other.                                         *)
BothEndsResident ==
    [][\A x \in pairs : pc = "transfer" /\ x \notin pairs' =>
          {x.reader, x.writer} \subseteq instantiated']_vars

-----------------------------------------------------------------------------
(* Pipes *)

(* A VM waits only on an end it owns, of the right direction, and no pipe  *)
(* has an owner that is gone: spawn cannot move an end away from under a   *)
(* waiter, and an exit closes all that the VM owned.  (The root VM's exit  *)
(* drops every VM and leaves pipes alone.)                                 *)
PipeOwnership ==
    /\ \A v \in VmId : /\ Reading(v) => owns(v, states[v].pipe) /\ is_read(states[v].pipe)
                       /\ Writing(v) => owns(v, states[v].pipe) /\ is_write(states[v].pipe)
    /\ states[ROOT_VM_ID] # Terminated =>
          \A p \in PipeId : pipes[p] # NoVm => Live(pipes[p])

(* process_io() works from states cloned before the first transfer: they   *)
(* are still those of the VMs when their turn comes.  A pass is never left *)
(* with a pair it did not create: each has the VM that ran last on one     *)
(* side, and none appears in the pass that follows an exit.                *)
PairsFresh ==
    pc = "transfer" =>
        \A x \in pairs :
            /\ states[x.reader] = x.rs /\ states[x.writer] = x.ws
            /\ x.reader # x.writer
            /\ vm_id_to_run \in {x.reader, x.writer}
            /\ closed_pipes = {}

(* A pass of process_io() leaves nothing it could have served: no VM waits *)
(* on an end whose other end is closed, and no two wait on the two ends of *)
(* one pipe, so a VM that can go on never sits through another slice.      *)
IoPassComplete ==
    IoFinished \/ pc = "machine" => \A v \in VmId :
        Reading(v) \/ Writing(v) =>
            /\ contains(other_pipe(states[v].pipe))
            /\ \A u \in VmId : Reading(u) \/ Writing(u) =>
                  states[u].pipe # other_pipe(states[v].pipe)

(* Every byte a reader was given is acknowledged to the writer exactly     *)
(* once: what readers have and the writer does not know of yet is what the *)
(* waiting writer's state counts as consumed, however the write is cut     *)
(* into reads and however it ends (unless the root VM's exit ends it).     *)
NoByteLost ==
    Usable /\ states[ROOT_VM_ID] # Terminated => \A p \in PipeId :
        LET waiting == {w \in VmId : Writing(w) /\ states[w].pipe = p}
        IN  /\ waiting = {} => unacked[p] = 0
            /\ \A w \in waiting : unacked[p] = states[w].consumed

(* A write that returns having written less than asked means that the read *)
(* end is closed.                                                          *)
ShortWriteMeansClosed ==
    \A v \in VmId :
        LET r == machine[v].reply
        IN  r.op = "write" /\ r.code = SUCCESS /\ r.length < r.asked
              => ~contains(other_pipe(r.pipe))

(* A blocked read that asked for bytes returns none of them only at the    *)
(* end of the pipe, or with a write of no bytes, which ends with it: a     *)
(* write that is finished, or was empty, never stays to wake more readers  *)
(* with nothing, which they would take for the end.                        *)
EmptyReadExplained ==
    [][\A v \in VmId :
          Reading(v) /\ states[v].length > 0 /\ states'[v] = Runnable
                     /\ machine'[v].reply.length = 0 =>
              LET q == other_pipe(states[v].pipe)
              IN  \/ ~contains(q)
                  \/ \E w \in VmId : /\ Writing(w) /\ states[w].pipe = q /\ states[w].length = 0
                                     /\ states'[w] = Runnable \/ ~Usable']_vars

(* An end that is closed is never opened again, and an end in use never    *)
(* changes hands except from the VM that is spawning to the VM it spawns.  *)
PipesChangeHands ==
    [][\A p \in PipeId : pipes[p] # pipes'[p] =>
          \/ pipes[p] = NoVm /\ p >= next_pipe_slot /\ pipes'[p] = vm_id_to_run
          \/ pipes[p] = vm_id_to_run /\ pipes'[p] \in {NoVm, next_vm_id}]_vars

(* The messages of a slice are handled, or dropped with an error, before   *)
(* run() returns: none is left to be taken for one of a later slice.  The  *)
(* exception is an overflow of total_cycles.                               *)
MessageBoxDrained ==
    /\ \A i \in DOMAIN message_box : message_box[i].vm = vm_id_to_run
    /\ pc \in {"idle", "stored"} /\ outcome # "CyclesOverflow" => message_box = <<>>
    /\ message_box # <<>> => result.tag = "YIELD" /\ Len(message_box) = 1

-----------------------------------------------------------------------------
(* Joins *)

(* No wake-up is lost: a VM in a join waits for a VM that has not exited,  *)
(* or is on the list of the exit in progress.                              *)
JoinTargetLive ==
    Usable => \A v \in VmId : states[v].tag = "Join" =>
        LET t == states[v].target
        IN  IF terminated_vms[t] = NotTerminated THEN Live(t)
            ELSE pc = "joiners" /\ t = vm_id_to_run /\ v \in joining_vms

(* A join that succeeds returns the exit code of the VM it named. *)
JoinReturnsExitCode ==
    \A v \in VmId :
        LET r == machine[v].reply
        IN  r.op = "join" /\ r.code = SUCCESS => terminated_vms[r.target] = r.exit

-----------------------------------------------------------------------------
(* The caller's view: cycles, preemption, deadlock *)

(* A call of run() with a limit spends no more than the limit, give or     *)
(* take one unchecked charge or the loading of the VM spawned last: what   *)
(* passes the limit never adds up over the iterations of a call.           *)
LimitRespected ==
    mode = "LimitCycles" =>
        \E c \in Charges \cup {LoadCycles} : total_cycles <= budget + c

(* Cycles not yet added to the total are on the VM that runs next: the     *)
(* cost of loading a VM is charged before any other VM goes on, so the     *)
(* root VM cannot exit with loads unpaid.                                  *)
UnchargedRunsNext ==
    Usable => \A v \in VmId : machine[v].cycles > 0 => ToRun(v)

(* Where a slice is cut short does not change the schedule: the VM that    *)
(* ran out of cycles, or was paused, is the one that runs next, in the     *)
(* same scheduler or in one resumed from its FullSuspendedState, and no IO *)
(* happens in between.                                                     *)
PreemptedRunsNext ==
    [][result.tag \in {"CyclesExceeded", "Pause"} =>
          /\ pc = "transfer" => closed_pipes = {} /\ pairs = {}
          /\ pc' = "machine" => vm_id_to_run' = vm_id_to_run]_vars

(* When a deadlock is reported, every VM really waits for ever: each       *)
(* waits to join a VM that itself waits, or on a pipe whose other end is   *)
(* owned by a VM that waits for something else.                            *)
DeadlockIsReal ==
    outcome = "Deadlock" =>
        \A v \in VmId : Live(v) =>
            \/ states[v].tag = "Join" /\ Live(states[v].target)
            \/ /\ Reading(v) \/ Writing(v)
               /\ LET q == other_pipe(states[v].pipe)
                  IN  /\ contains(q)
                      /\ ~ \E u \in VmId : (Reading(u) \/ Writing(u)) /\ states[u].pipe = q

(* Every call of run() returns (or panics): whatever the guests do, the    *)
(* loops over lists end and the limit stops the guest.                     *)
RunReturns == (pc \notin {"idle", "stored", "panicked"}) ~> (pc \in {"idle", "panicked"})

(* run() is never called on a scheduler whose root VM has terminated and   *)
(* is a snapshot: it would panic at instantiated[&ROOT_VM_ID].  resume()   *)
(* allows it ("root VM cannot be suspended" is not so after a resume), the *)
(* caller has to avoid it; a run of one that still has it returns.         *)
FinishedRunReturns == states[ROOT_VM_ID] = Terminated => pc # "panicked"

-----------------------------------------------------------------------------
(* Claims of the comments and the documents that the code does not keep *)

(* docs/notes.md: a pipe closed during a read or a write makes it return   *)
(* SUCCESS.  process_io() unwraps the waiter's machine, which may be a     *)
(* snapshot at the time.                                                   *)
ClosedWaiterReturns ==
    pc = "panicked" =>
        ~ \E v \in VmId : (Reading(v) \/ Writing(v)) /\ ~OtherEndOpen(v)

(* run(): CyclesExceeded is for "Cycle limit reached".  After the first    *)
(* iterate() the limit is consumed - consumed, 0, whatever was given.      *)
ExceededMeansSpent == outcome = "CyclesExceeded" => total_cycles + MaxTrace > budget

=============================================================================
