------------------------------ MODULE VerifyTx ------------------------------
(***************************************************************************)
(* verify_tx of src/dev_utils/mod.rs: the caller the repository gives the  *)
(* scheduler.  It runs the script groups of a transaction one after the    *)
(* other, each in a scheduler of its own, in slices of cycles_per_iterate, *)
(* with a full suspend and resume every cycles_per_suspend cycles, and     *)
(* gives up above max_cycles.                                              *)
(*                                                                         *)
(* It replaces Caller, the arbitrary caller of module Scheduler.  Building *)
(* the resolved transaction and grouping its scripts is ckb-script's work. *)
(***************************************************************************)
EXTENDS SchedulerProperties

CONSTANTS
    Groups,      \* how many script groups the transaction has
    MaxCycles,   \* the arguments explored: max_cycles,
    PerIterate,  \* cycles_per_iterate
    PerSuspend   \* and cycles_per_suspend

ASSUME VerifyAssumption ==
    /\ Groups \in Nat \ {0}
    /\ MaxCycles \subseteq 0 .. CycleMax
    /\ PerIterate \subseteq Limits
    /\ PerSuspend \subseteq 0 .. CycleMax

VARIABLES
    args,       \* max_cycles, cycles_per_iterate, cycles_per_suspend
    vpc,        \* where verify_tx is
    group,      \* the script group being run
    consumed,   \* consumed_cycles: of the groups that have finished
    last_suspended_cycles,
    verdict,    \* what verify_tx returned
    spent       \* history: the total_cycles of the finished groups, added up

driver == <<args, vpc, group, consumed, last_suspended_cycles, verdict, spent>>
verify_vars == <<vars, driver>>

(* The points verify_tx is modelled to stop at: the top of the loop, after *)
(* suspend(), before run(), inside run() or at the match on its result.    *)
VerifyPc == {"loop", "resume", "run", "match", "returned"}

VerifyInit ==
    /\ Init
    /\ args \in [max : MaxCycles, iterate : PerIterate, suspend : PerSuspend]
    /\ vpc = "loop"
    /\ group = 1
    /\ consumed = 0
    /\ last_suspended_cycles = 0
    /\ verdict = "none"
    /\ spent = 0

Ended(v) ==
    /\ vpc' = "returned"
    /\ verdict' = v
    /\ UNCHANGED <<args, group, last_suspended_cycles>>

At(p) == vpc' = p /\ UNCHANGED <<args, group, consumed, verdict, spent>>

-----------------------------------------------------------------------------
(* The top of the loop *)

(* Mutant of OutOfCycles: never. *)
OutOfCycles_Never == FALSE

OutOfCycles == total_cycles > args.max

SuspendDue == total_cycles - last_suspended_cycles >= args.suspend

out_of_cycles ==
    /\ vpc = "loop"
    /\ OutOfCycles
    /\ Ended("Error")
    /\ UNCHANGED <<vars, consumed, spent>>

full_suspend ==
    /\ vpc = "loop"
    /\ ~OutOfCycles /\ SuspendDue
    /\ suspend
    /\ At("resume")
    /\ UNCHANGED last_suspended_cycles

full_resume ==
    /\ vpc = "resume"
    /\ resume
    /\ last_suspended_cycles' = total_cycles
    /\ At("run")

no_suspend ==
    /\ vpc = "loop"
    /\ ~OutOfCycles /\ ~SuspendDue
    /\ At("run")
    /\ UNCHANGED <<vars, last_suspended_cycles>>

(* Mutant of slice: the limit left over from the last slice is used. *)
slice_Leftover ==
    /\ vpc = "run"
    /\ run_boot("LimitCycles", args.iterate) \/ run_on("LimitCycles", limit_cycles)
    /\ At("match")
    /\ UNCHANGED last_suspended_cycles

slice ==
    /\ vpc = "run"
    /\ run_boot("LimitCycles", args.iterate) \/ run_on("LimitCycles", args.iterate)
    /\ At("match")
    /\ UNCHANGED last_suspended_cycles

-----------------------------------------------------------------------------
(* The match on what run() returned *)

Returned(o) == vpc = "match" /\ pc = "idle" /\ outcome = o

(* Mutant of slice_exceeded: goes on after an overflow, too. *)
slice_exceeded_Overflow ==
    /\ Returned("CyclesExceeded") \/ Returned("CyclesOverflow")
    /\ At("loop")
    /\ UNCHANGED <<vars, last_suspended_cycles>>

slice_exceeded ==
    /\ Returned("CyclesExceeded")
    /\ At("loop")
    /\ UNCHANGED <<vars, last_suspended_cycles>>

slice_failed ==
    /\ \E o \in Outcome \ {"none", "Ok", "CyclesExceeded"} : Returned(o)
    /\ Ended("Error")
    /\ UNCHANGED <<vars, consumed, spent>>

exit_code == terminated_vms[ROOT_VM_ID]

script_failed ==
    /\ Returned("Ok")
    /\ exit_code # 0
    /\ Ended("Error")
    /\ UNCHANGED <<vars, consumed, spent>>

(* Scheduler::new, for the next group. *)
NewScheduler ==
    /\ total_cycles' = 0
    /\ next_vm_id' = FIRST_VM_ID
    /\ next_pipe_slot' = FIRST_PIPE_SLOT
    /\ states' = [v \in VmId |-> Absent]
    /\ pipes' = [p \in PipeId |-> NoVm]
    /\ instantiated' = {}
    /\ suspended' = {}
    /\ terminated_vms' = [v \in VmId |-> NotTerminated]
    /\ message_box' = <<>>
    /\ machine' = [v \in VmId |-> NoMachine]
    /\ pc' = "idle"
    /\ outcome' = "none"
    /\ mode' = "none"
    /\ limit_cycles' = 0
    /\ vm_id_to_run' = NoVm
    /\ result' = [tag |-> "none"]
    /\ consumed_cycles' = 0
    /\ joining_vms' = {}
    /\ closed_pipes' = {}
    /\ pairs' = {}
    /\ unacked' = [p \in PipeId |-> 0]
    /\ budget' = 0

(* A u64 addition that is not checked wraps in a release build. *)
Add(a, b) == (a + b) % (CycleMax + 1)

(* Mutant of NextGroup: last_suspended_cycles is not declared per group. *)
NextGroup_KeepsSuspended ==
    /\ group' = group + 1
    /\ NewScheduler
    /\ vpc' = "loop"
    /\ UNCHANGED <<args, verdict, last_suspended_cycles>>

(* Mutant of NextGroup: the loop goes on with the finished scheduler. *)
NextGroup_SameScheduler ==
    /\ group' = group + 1
    /\ last_suspended_cycles' = 0
    /\ vpc' = "loop"
    /\ UNCHANGED <<args, verdict, vars>>

NextGroup ==
    /\ group' = group + 1
    /\ NewScheduler
    /\ last_suspended_cycles' = 0
    /\ vpc' = "loop"
    /\ UNCHANGED <<args, verdict>>

(* Mutant of TooMany: only the group's own cycles are looked at. *)
TooMany_Own(sum) == total_cycles > args.max

TooMany(sum) == total_cycles > args.max \/ sum > args.max

LastGroup == group = Groups

script_succeeded ==
    /\ Returned("Ok")
    /\ exit_code = 0
    /\ consumed' = Add(consumed, total_cycles)
    /\ spent' = spent + total_cycles
    /\ \/ TooMany(consumed') /\ Ended("Error") /\ UNCHANGED vars
       \/ ~TooMany(consumed') /\ LastGroup /\ Ended("Ok") /\ UNCHANGED vars
       \/ ~TooMany(consumed') /\ ~LastGroup /\ NextGroup

(* verify_tx has returned, or its thread has panicked. *)
finished ==
    /\ vpc = "returned" \/ pc = "panicked"
    /\ UNCHANGED verify_vars

-----------------------------------------------------------------------------

verify_tx ==
    \/ out_of_cycles \/ full_suspend \/ full_resume \/ no_suspend \/ slice
    \/ slice_exceeded \/ slice_failed \/ script_failed \/ script_succeeded

VerifyNext ==
    \/ iterate /\ UNCHANGED driver
    \/ verify_tx
    \/ finished

VerifySpec == VerifyInit /\ [][VerifyNext]_verify_vars

(* verify_tx and the run() it calls are one thread: as long as one of them *)
(* has a step to take, it is taken.                                        *)
FairVerifySpec == VerifySpec /\ WF_verify_vars(VerifyNext)

-----------------------------------------------------------------------------
(* Properties *)

VerifyTypeOK ==
    /\ TypeOK
    /\ vpc \in VerifyPc
    /\ group \in 1 .. Groups
    /\ {consumed, last_suspended_cycles} \subseteq 0 .. CycleMax
    /\ verdict \in {"none", "Ok", "Error"}

(* What one call of run() may spend beyond what it is asked to: see        *)
(* LimitRespected.                                                         *)
Slack(n, bound) == \E c \in Charges \cup {LoadCycles} : n <= bound + c

(* A script that never ends is stopped: verify_tx lets a group run past    *)
(* max_cycles by one slice at most, whatever the guests do and wherever    *)
(* the slices are cut.                                                     *)
OvershootBounded == Slack(total_cycles, args.max + args.iterate)

(* The u64 subtraction consumed_cycles() - last_suspended_cycles never     *)
(* underflows, and what is lost if the process dies between two full       *)
(* suspensions is less than cycles_per_suspend and one slice.              *)
SuspendedOften ==
    /\ last_suspended_cycles <= total_cycles
    /\ vpc \in {"run", "match"} =>
          LET window == args.iterate + (IF args.suspend = 0 THEN 0 ELSE args.suspend - 1)
          IN  Slack(total_cycles - last_suspended_cycles, window)

(* Ok is an account of every group: the cycles returned are the cycles the *)
(* groups took together, at most max_cycles, and no group's root VM exited *)
(* with anything but 0.                                                    *)
OkAccountsForAll ==
    verdict = "Ok" => /\ group = Groups
                      /\ consumed = spent
                      /\ spent <= args.max
                      /\ exit_code = 0

(* verify_tx goes on only with a scheduler that is whole: wherever it may  *)
(* suspend, resume or run, the last run() ended in a way that leaves one,  *)
(* and no message of an earlier slice is in the box.  It is what run()     *)
(* itself does not check: an overflow of total_cycles, or an error in the  *)
(* middle of a transfer, leaves a scheduler half way through a step.       *)
FailedIsDropped ==
    vpc \in {"loop", "resume", "run"} => outcome \in Resumable /\ message_box = <<>>

(* verify_tx returns: every slice makes progress, so a script that does    *)
(* not end runs out of max_cycles.  (A thread that panics does not return: *)
(* see ClosedWaiterReturns.)                                               *)
VerifyReturns == <>(vpc = "returned" \/ pc = "panicked")

=============================================================================
