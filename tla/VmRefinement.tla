---------------------------- MODULE VmRefinement ----------------------------
(***************************************************************************)
(* The scheduler implements VmSystem: cycles, slices, suspension, the      *)
(* moving of VMs in and out of memory, the message box and the lists of    *)
(* process_io() are invisible to the VMs.                                  *)
(*                                                                         *)
(* An exit is a step per joiner here and one step there: while it is in    *)
(* progress the VMs still to be woken, the VM that exits and its pipes are *)
(* shown as they will be at its end.                                       *)
(***************************************************************************)
EXTENDS SchedulerProperties

Failed == pc = "panicked" \/ outcome \notin Resumable \cup {"Deadlock"}

Exiting(v) == pc = "joiners" /\ v = vm_id_to_run
ToWake(v) == pc = "joiners" /\ v \in joining_vms

(* A VmState as VmSystem has it, without the guest's addresses. *)
StatusOf(s) ==
    CASE s.tag = "Absent" -> [is |-> "absent"]
      [] s.tag = "Runnable" -> [is |-> "ready"]
      [] s.tag = "Terminated" -> [is |-> "finished"]
      [] s.tag = "Join" -> [is |-> "joining", target |-> s.target]
      [] s.tag = "WaitForRead" -> [is |-> "reading", pipe |-> s.pipe, length |-> s.length]
      [] s.tag = "WaitForWrite" -> [is |-> "writing", pipe |-> s.pipe,
                                    consumed |-> s.consumed, length |-> s.length]

StatusSeen ==
    [v \in VmId |-> IF Failed \/ Exiting(v) THEN StatusOf(Absent)
                    ELSE IF ToWake(v) THEN StatusOf(Runnable)
                    ELSE StatusOf(states[v])]

ReplySeen ==
    [v \in VmId |-> IF Failed THEN NoReply
                    ELSE IF ToWake(v)
                    THEN [op |-> "join", code |-> SUCCESS, target |-> vm_id_to_run,
                          exit |-> result.code]
                    ELSE machine[v].reply]

OwnerSeen ==
    [p \in PipeId |-> IF Failed \/ (pc = "joiners" /\ pipes[p] = vm_id_to_run)
                      THEN NoVm ELSE pipes[p]]

ExitsSeen == [v \in VmId |-> IF Failed THEN NotTerminated ELSE terminated_vms[v]]

System ==
    INSTANCE VmSystem WITH
        status <- StatusSeen,
        reply <- ReplySeen,
        owner <- OwnerSeen,
        exits <- ExitsSeen,
        next_vm <- IF Failed THEN FIRST_VM_ID ELSE next_vm_id,
        next_end <- IF Failed THEN FIRST_PIPE_SLOT ELSE next_pipe_slot,
        over <- IF Failed THEN "failed"
                ELSE IF outcome = "Deadlock" THEN "deadlock" ELSE "no"

(* Every behaviour of the scheduler is one of VmSystem: whatever the       *)
(* caller's limits, pauses and suspensions, and however few machines there *)
(* are, the VMs see transfers, ends of pipes, joins and exits happen in    *)
(* one step each, and take their turns in an order that depends on nothing *)
(* but what they do.                                                       *)
ImplementsVmSystem == System!SystemSpec

=============================================================================
