----------------------------- MODULE VerifyProofs -----------------------------
(***************************************************************************)
(* verify_tx, proved for any number of groups, any arguments and any       *)
(* guests.  Each of its steps is a step of the scheduler or makes a new    *)
(* one, so the invariants of the scheduler hold in all its groups; what is *)
(* added here is where the loop is and what it knows of the cycles there.  *)
(***************************************************************************)
EXTENDS CycleProofs, VerifyTx

(* What a full suspension may leave unsaved when run() is called. *)
Unsaved == IF args.suspend = 0 THEN 0 ELSE args.suspend - 1

VerifyTypes ==
    /\ args \in [max : MaxCycles, iterate : PerIterate, suspend : PerSuspend]
    /\ vpc \in VerifyPc
    /\ group \in 1 .. Groups
    /\ {consumed, last_suspended_cycles} \subseteq 0 .. CycleMax
    /\ verdict \in {"none", "Ok", "Error"}
    /\ spent \in Nat

(* Where the scheduler is at each point of the loop: verify_tx goes round  *)
(* it only with a scheduler whose root VM still runs.                      *)
Places ==
    /\ vpc \in {"loop", "run", "returned"} => pc = "idle"
    /\ vpc = "resume" => pc = "stored"
    /\ vpc \in {"loop", "resume", "run"} => states[ROOT_VM_ID] # Terminated
    /\ vpc = "match" /\ states[ROOT_VM_ID] = Terminated => pc = "idle" /\ outcome = "Ok"

(* How far each point is from max_cycles and from the last suspension. *)
Spending ==
    /\ last_suspended_cycles <= total_cycles
    /\ vpc # "match" => Slack(total_cycles, args.max + args.iterate)
    /\ vpc \in {"resume", "run"} => total_cycles <= args.max
    /\ vpc = "run" => total_cycles <= last_suspended_cycles + Unsaved
    /\ vpc = "match" =>
          /\ mode = "LimitCycles"
          /\ budget <= args.max + args.iterate
          /\ budget <= last_suspended_cycles + Unsaved + args.iterate

(* The invariants of the scheduler that verify_tx relies on. *)
Underneath == Inv2 /\ Charged /\ Within /\ RootDone

VerifyInv == Underneath /\ VerifyTypes /\ Places /\ Spending

-----------------------------------------------------------------------------
(* The scheduler under verify_tx *)

LEMMA NewIsInit == NewScheduler => Init'
  BY DEF NewScheduler, Init, NoMachine

(* verify_tx calls the scheduler as any caller may. *)
LEMMA StepBelow == [VerifyNext]_verify_vars => [Next]_vars \/ Init'
  <1>1. CASE slice
    <2>1. \E md, l : (run_boot(md, l) \/ run_on(md, l)) /\ Called(md, l)
      BY <1>1 DEF slice, run_boot, run_on
    <2>2. \E md \in RunModes, l \in Limits \cup {CycleMax} : run_boot(md, l) \/ run_on(md, l)
      BY <2>1 DEF Called
    <2> QED BY <2>2 DEF Next, Caller
  <1>2. CASE script_succeeded
    BY <1>2, NewIsInit DEF script_succeeded, NextGroup
  <1>3. CASE full_suspend \/ full_resume \/ (iterate /\ UNCHANGED driver)
    BY <1>3 DEF full_suspend, full_resume, Next, Caller
  <1>4. CASE \/ out_of_cycles \/ no_suspend \/ slice_exceeded \/ slice_failed \/ script_failed
             \/ finished \/ UNCHANGED verify_vars
    BY <1>4 DEF out_of_cycles, no_suspend, slice_exceeded, slice_failed, script_failed, finished,
                verify_vars
  <1> QED BY <1>1, <1>2, <1>3, <1>4 DEF VerifyNext, verify_tx

LEMMA InitUnderneath == Init => Underneath
  <1> SUFFICES ASSUME Init PROVE Underneath OBVIOUS
  <1>1. RootDone
    BY StateValues DEF Init, RootDone
  <1>2. Within
    BY DEF Init, Within
  <1> QED BY <1>1, <1>2, InitInv2, InitCharged DEF Underneath

LEMMA NextUnderneath == Underneath /\ [VerifyNext]_verify_vars => Underneath'
  <1>1. CASE [Next]_vars
    BY <1>1, NextInv2, NextCharged, NextWithin, NextRootDone DEF Underneath, Inv2
  <1>2. Init' => Underneath'
    BY InitUnderneath, PTL
  <1> QED BY <1>1, <1>2, StepBelow

-----------------------------------------------------------------------------
(* The driver *)

(* run() in progress: the limit it was given stays, cycles only grow. *)
LEMMA IterateKeeps ==
    ASSUME Inv1, iterate
    PROVE  /\ UNCHANGED <<mode, budget>>
           /\ total_cycles <= total_cycles'
           /\ pc \notin {"idle", "stored"} /\ pc' # "stored"
  <1>1. CASE Guest
    <2>1. pc = "machine" /\ vm_id_to_run \in VmId
      BY <1>1, GuestCycles, GuestSteps
    <2>2. ASSUME NEW r, NEW msgs, NEW k \in 0 .. MaxSlice, SliceEnds(r, msgs, Counted(k))
          PROVE  total_cycles <= total_cycles' /\ pc' # "stored"
      <3>1. Counted(k) \in Nat
        BY <2>1, CycleTypes DEF Counted, self
      <3>2. total_cycles' \in {total_cycles, total_cycles + Counted(k)} /\ pc' # "stored"
        BY <2>2 DEF SliceEnds
      <3>3. total_cycles \in Nat
        BY CycleTypes
      <3> QED BY <3>1, <3>2, <3>3
    <2>3. \/ UNCHANGED <<scheduler, pc, outcome, locals, history>>
          \/ UNCHANGED Sliced /\ total_cycles <= total_cycles' /\ pc' # "stored"
      BY <1>1, <2>2, GuestSteps DEF inline
    <2> QED BY <2>1, <2>3, CycleTypes DEF scheduler, locals, history, Sliced
  <1>2. CASE \/ process_io \/ (\E v \in VmId : finish_closed(v) \/ pick(v) \/ wake_joiner(v))
             \/ (\E x \in pairs : transfer(x)) \/ deadlock \/ yielded \/ stopped
             \/ exit_root \/ exit_begins \/ exit_ends
    <2>1. UNCHANGED <<mode, budget, total_cycles>> /\ pc' # "stored"
      BY <1>2 DEF process_io, finish_closed, pick, wake_joiner, transfer, deadlock, yielded, stopped,
                  exit_root, exit_begins, exit_ends, NextIteration, Return, WriterFails, Goto, scheduler, locals,
                  history
    <2> QED BY <2>1, CycleTypes, IterateRuns
  <1>3. CASE \/ spawn_refused \/ spawn_fails \/ join_terminated \/ join_unknown \/ join_waits
             \/ pipe_create \/ io_not_owner \/ io_other_end_closed \/ io_waits \/ spawn_done
    <2>1. UNCHANGED <<mode, budget, total_cycles>> /\ pc' # "stored"
      BY <1>3
      DEF spawn_refused, spawn_fails, spawn_done, join_terminated, join_unknown, join_waits,
          pipe_create, io_not_owner, io_other_end_closed, io_waits, Answer, Refuse, Handled, Dropped,
          Return, Goto, locals, history
    <2> QED BY <2>1, CycleTypes, IterateRuns
  <1> QED BY <1>1, <1>2, <1>3 DEF iterate, host

LEMMA Arguments ==
    ASSUME Inv1, VerifyTypes
    PROVE  /\ args.max \in Nat /\ args.iterate \in Nat /\ args.suspend \in Nat
           /\ args.max <= CycleMax
           /\ Unsaved \in Nat /\ last_suspended_cycles \in Nat /\ consumed \in Nat
           /\ total_cycles \in 0 .. CycleMax
  <1>1. args.max \in MaxCycles /\ args.iterate \in PerIterate /\ args.suspend \in PerSuspend
    BY DEF VerifyTypes
  <1>2. /\ args.max \in 0 .. CycleMax /\ args.iterate \in 0 .. CycleMax
        /\ args.suspend \in 0 .. CycleMax /\ CycleMax \in Nat
    BY <1>1, VerifyAssumption, StateAssumption
  <1>3. Unsaved \in Nat
    BY <1>2 DEF Unsaved
  <1>4. last_suspended_cycles \in 0 .. CycleMax /\ consumed \in 0 .. CycleMax
    BY DEF VerifyTypes
  <1>5. total_cycles \in 0 .. CycleMax
    BY DEF Inv1, TypeOK
  <1> QED BY <1>2, <1>3, <1>4, <1>5

(* In the match on run()'s result, what it could spend is known. *)
LEMMA MatchSpent ==
    ASSUME Inv1, Within, VerifyTypes, Spending, vpc = "match"
    PROVE  /\ Slack(total_cycles, args.max + args.iterate)
           /\ Slack(total_cycles - last_suspended_cycles, Unsaved + args.iterate)
  <1>1. PICK c \in Unchecked : total_cycles <= budget + c
    BY DEF Within, Spending
  <1>2. /\ total_cycles <= args.max + args.iterate + c
        /\ total_cycles - last_suspended_cycles <= Unsaved + args.iterate + c
    BY <1>1, CycleTypes, Arguments DEF Spending
  <1> QED BY <1>1, <1>2 DEF Slack, Unchecked

(* A step inside run(). *)
LEMMA RunVerify ==
    ASSUME VerifyInv, Underneath', iterate, UNCHANGED driver
    PROVE  VerifyInv'
  <1>0. Inv1 /\ Inv1' /\ vpc = "match"
    <2>1. Inv1 /\ Inv1'
      BY DEF VerifyInv, Underneath, Inv2
    <2> QED BY <2>1, IterateKeeps DEF VerifyInv, Places, VerifyTypes, VerifyPc
  <1>1. VerifyTypes'
    BY DEF VerifyInv, VerifyTypes, driver
  <1>2. Places'
    <2>1. CASE exit_root
      BY <1>0, <2>1 DEF exit_root, Return, Places, driver
    <2>2. CASE ~exit_root
      <3>1. states[ROOT_VM_ID] # Terminated
        BY <1>0, IterateKeeps DEF VerifyInv, Places
      <3>2. states'[ROOT_VM_ID] # Terminated
        BY <2>2, <3>1, NoneTerminates, Root DEF VerifyInv, Underneath
      <3> QED BY <1>0, <3>2 DEF Places, driver
    <2> QED BY <2>1, <2>2
  <1>3. Spending'
    <2>1. UNCHANGED <<mode, budget>> /\ total_cycles <= total_cycles'
      BY <1>0, IterateKeeps
    <2>2. last_suspended_cycles <= total_cycles'
      <3>1. last_suspended_cycles \in Nat /\ total_cycles \in Nat
        BY <1>0, CycleTypes, Arguments DEF VerifyInv
      <3>2. total_cycles' \in 0 .. CycleMax
        BY <1>0 DEF Inv1, TypeOK
      <3>3. last_suspended_cycles <= total_cycles
        BY DEF VerifyInv, Spending
      <3> QED BY <2>1, <3>1, <3>2, <3>3
    <2> QED BY <1>0, <2>1, <2>2 DEF VerifyInv, Spending, Unsaved, driver
  <1> QED BY <1>1, <1>2, <1>3 DEF VerifyInv

(* The top of the loop: full suspension and resumption. *)
LEMMA LoopVerify ==
    ASSUME VerifyInv, Underneath', out_of_cycles \/ full_suspend \/ full_resume \/ no_suspend
    PROVE  VerifyInv'
  <1>0. Inv1
    BY DEF VerifyInv, Underneath, Inv2
  <1>1. /\ UNCHANGED <<args, group, consumed, spent, total_cycles, states>>
        /\ vpc' \in VerifyPc /\ vpc' # "match"
        /\ verdict' \in {verdict, "Error"}
        /\ last_suspended_cycles' \in {last_suspended_cycles, total_cycles}
        /\ vpc # "match"
    BY DEF out_of_cycles, full_suspend, full_resume, no_suspend, Ended, At, suspend, resume, vars,
           scheduler, VerifyPc
  <1>2. VerifyTypes'
    <2>1. last_suspended_cycles' \in 0 .. CycleMax
      BY <1>0, <1>1, Arguments DEF VerifyInv, VerifyTypes
    <2> QED BY <1>1, <2>1 DEF VerifyInv, VerifyTypes
  <1>3. Places'
    <2>1. states[ROOT_VM_ID] # Terminated
      BY DEF out_of_cycles, full_suspend, full_resume, no_suspend, VerifyInv, Places
    <2>2. /\ vpc' = "resume" => pc' = "stored"
          /\ vpc' # "resume" => pc' = "idle"
      BY DEF out_of_cycles, full_suspend, full_resume, no_suspend, Ended, At, suspend, resume, Goto,
             vars, VerifyInv, Places
    <2> QED BY <1>1, <2>1, <2>2 DEF Places
  <1>4. Spending'
    <2>1. last_suspended_cycles' <= total_cycles
      BY <1>0, <1>1, Arguments DEF VerifyInv, Spending
    <2>2. Slack(total_cycles, args.max + args.iterate)'
      BY <1>1 DEF VerifyInv, Spending, Slack
    <2>3. vpc' \in {"resume", "run"} => total_cycles <= args.max
      <3>1. CASE full_resume
        BY <3>1 DEF full_resume, VerifyInv, Spending
      <3>2. CASE ~full_resume
        <4>1. vpc' \in {"resume", "run"} => ~(total_cycles > args.max)
          BY <3>2 DEF out_of_cycles, full_suspend, no_suspend, Ended, OutOfCycles
        <4> QED BY <1>0, <4>1, Arguments DEF VerifyInv
      <3> QED BY <3>1, <3>2
    <2>4. vpc' = "run" => total_cycles <= last_suspended_cycles' + Unsaved
      <3>1. CASE no_suspend
        <4>1. ~(total_cycles - last_suspended_cycles >= args.suspend)
              /\ UNCHANGED last_suspended_cycles
          BY <3>1 DEF no_suspend, SuspendDue
        <4>2. last_suspended_cycles <= total_cycles
          BY DEF VerifyInv, Spending
        <4> QED BY <1>0, <4>1, <4>2, Arguments DEF VerifyInv, Unsaved
      <3>2. CASE full_resume
        BY <1>0, <3>2, Arguments DEF full_resume, VerifyInv
      <3>3. CASE out_of_cycles \/ full_suspend
        BY <3>3 DEF out_of_cycles, full_suspend, Ended, At
      <3> QED BY <3>1, <3>2, <3>3
    <2> QED BY <1>1, <2>1, <2>2, <2>3, <2>4 DEF Spending, Unsaved
  <1> QED BY <1>2, <1>3, <1>4 DEF VerifyInv

(* The call of run(). *)
LEMMA SliceVerify ==
    ASSUME VerifyInv, Underneath', slice
    PROVE  VerifyInv'
  <1>0. Inv1 /\ vpc = "run" /\ vpc' = "match"
    BY DEF VerifyInv, Underneath, Inv2, slice, At
  <1>1. /\ UNCHANGED <<args, group, consumed, spent, verdict, last_suspended_cycles, total_cycles>>
        /\ mode' = "LimitCycles" /\ budget' = total_cycles + args.iterate
    BY DEF slice, At, run_boot, run_on, Called, scheduler
  <1>2. VerifyTypes'
    BY <1>0, <1>1 DEF VerifyInv, VerifyTypes, VerifyPc
  <1>3. Places'
    <2>1. states[ROOT_VM_ID] # Terminated
      BY <1>0 DEF VerifyInv, Places
    <2>2. states' = states \/ states' = [states EXCEPT ![next_vm_id] = Runnable]
      BY DEF slice, run_boot, run_on, Booted, scheduler
    <2>3. states'[ROOT_VM_ID] # Terminated
      BY <1>0, <2>1, <2>2, StateValues, Root DEF Inv1, TypeOK
    <2> QED BY <1>0, <2>3 DEF Places
  <1>4. Spending'
    <2>1. /\ total_cycles <= args.max
          /\ total_cycles <= last_suspended_cycles + Unsaved
          /\ last_suspended_cycles <= total_cycles
      BY <1>0 DEF VerifyInv, Spending
    <2>2. /\ total_cycles + args.iterate <= args.max + args.iterate
          /\ total_cycles + args.iterate <= last_suspended_cycles + Unsaved + args.iterate
      BY <1>0, <2>1, Arguments DEF VerifyInv
    <2> QED BY <1>0, <1>1, <2>1, <2>2 DEF Spending, Unsaved
  <1> QED BY <1>2, <1>3, <1>4 DEF VerifyInv

AtStart == Init /\ VerifyTypes /\ vpc = "loop" /\ last_suspended_cycles = 0

LEMMA InitPlaces == AtStart => Places /\ Spending
  <1> SUFFICES ASSUME AtStart PROVE Places /\ Spending OBVIOUS
  <1> USE DEF AtStart
  <1>1. Inv1
    BY InitInv1
  <1>2. Places
    BY StateValues, Root DEF Init, Places
  <1>3. LoadCycles \in Charges \cup {LoadCycles} /\ 0 <= args.max + args.iterate + LoadCycles
    BY <1>1, Arguments, StateAssumption
  <1>4. Slack(total_cycles, args.max + args.iterate)
    BY <1>3 DEF Init, Slack
  <1> QED BY <1>2, <1>4 DEF Spending, Init

(* The match on what run() returned. *)
LEMMA MatchVerify ==
    ASSUME VerifyInv, Underneath',
           slice_exceeded \/ slice_failed \/ script_failed \/ script_succeeded
    PROVE  VerifyInv'
  <1>0. /\ Inv1 /\ vpc = "match" /\ pc = "idle" /\ UNCHANGED args
        /\ Slack(total_cycles, args.max + args.iterate)
    BY MatchSpent DEF VerifyInv, Underneath, Inv2, slice_exceeded, slice_failed, script_failed,
                      script_succeeded, Returned, At, Ended, NextGroup
  <1>1. consumed' \in 0 .. CycleMax /\ spent' \in Nat
    <2>1. CASE script_succeeded
      <3>1. consumed + total_cycles \in Nat /\ spent + total_cycles \in Nat
        BY <1>0, Arguments DEF VerifyInv, VerifyTypes
      <3>2. (consumed + total_cycles) % (CycleMax + 1) \in 0 .. CycleMax
        BY <3>1, StateAssumption
      <3> QED BY <2>1, <3>1, <3>2 DEF script_succeeded, Add
    <2>2. CASE slice_exceeded \/ slice_failed \/ script_failed
      BY <2>2 DEF slice_exceeded, slice_failed, script_failed, At, VerifyInv, VerifyTypes
    <2> QED BY <2>1, <2>2
  <1>2. CASE NextGroup /\ script_succeeded
    <2>1. Init' /\ vpc' = "loop" /\ last_suspended_cycles' = 0
      BY <1>2, NewIsInit DEF NextGroup
    <2>2. group' \in 1 .. Groups /\ UNCHANGED verdict
      <3>1. group' = group + 1 /\ group # Groups /\ group \in 1 .. Groups /\ UNCHANGED verdict
        BY <1>2 DEF NextGroup, script_succeeded, LastGroup, Ended, VerifyInv, VerifyTypes
      <3> QED BY <3>1, VerifyAssumption
    <2>3. VerifyTypes'
      BY <1>0, <1>1, <2>1, <2>2, StateAssumption DEF VerifyInv, VerifyTypes, VerifyPc
    <2>4. AtStart' => Places' /\ Spending'
      BY InitPlaces, PTL
    <2> QED BY <2>1, <2>3, <2>4 DEF VerifyInv, AtStart
  <1>3. CASE ~(NextGroup /\ script_succeeded)
    <2>1. /\ UNCHANGED <<vars, group, last_suspended_cycles>>
          /\ vpc' \in {"loop", "returned"} /\ verdict' \in {verdict, "Ok", "Error"}
          /\ vpc' = "loop" => outcome = "CyclesExceeded"
      BY <1>3 DEF slice_exceeded, slice_failed, script_failed, script_succeeded, At, Ended, Returned
    <2>2. UNCHANGED <<pc, outcome, states, total_cycles>>
      BY <2>1 DEF vars, scheduler
    <2>3. VerifyTypes'
      BY <1>0, <1>1, <2>1 DEF VerifyInv, VerifyTypes, VerifyPc
    <2>4. Places'
      BY <1>0, <2>1, <2>2 DEF VerifyInv, Places
    <2>5. Spending'
      BY <1>0, <2>1, <2>2 DEF VerifyInv, Spending, Slack
    <2> QED BY <2>3, <2>4, <2>5 DEF VerifyInv
  <1> QED BY <1>2, <1>3

LEMMA InitVerify == VerifyInit => VerifyInv
  <1> SUFFICES ASSUME VerifyInit PROVE VerifyInv OBVIOUS
  <1>1. VerifyTypes
    BY VerifyAssumption, StateAssumption DEF VerifyInit, VerifyTypes, VerifyPc
  <1> QED BY <1>1, InitUnderneath, InitPlaces DEF VerifyInit, VerifyInv, AtStart

LEMMA NextVerify == VerifyInv /\ [VerifyNext]_verify_vars => VerifyInv'
  <1> SUFFICES ASSUME VerifyInv, [VerifyNext]_verify_vars PROVE VerifyInv' OBVIOUS
  <1>1. Underneath'
    BY NextUnderneath DEF VerifyInv
  <1>2. CASE iterate /\ UNCHANGED driver
    BY <1>1, <1>2, RunVerify
  <1>3. CASE verify_tx
    BY <1>1, <1>3, LoopVerify, SliceVerify, MatchVerify DEF verify_tx
  <1>4. CASE finished \/ UNCHANGED verify_vars
    BY <1>1, <1>4
    DEF finished, verify_vars, vars, scheduler, locals, history, driver, VerifyInv, VerifyTypes, Places,
        Spending, Slack, Unsaved
  <1> QED BY <1>2, <1>3, <1>4 DEF VerifyNext

(* The invariant that everything said of verify_tx follows from: where its *)
(* loop is, what the scheduler is doing then and how far it has spent.     *)
THEOREM VerifyInvHolds == VerifySpec => []VerifyInv
  BY InitVerify, NextVerify, PTL DEF VerifySpec

(* verify_tx's variables and those of each group's scheduler keep their    *)
(* types: consumed_cycles and last_suspended_cycles stay u64 values and no *)
(* group beyond the last is ever started.                                  *)
THEOREM VerifyTyped == VerifySpec => []VerifyTypeOK
  <1>1. VerifyInv => VerifyTypeOK
    BY DEF VerifyInv, Underneath, Inv2, Inv1, VerifyTypes, VerifyTypeOK
  <1> QED BY <1>1, VerifyInvHolds, PTL

(* A group that never ends is stopped: for any guests and any arguments,   *)
(* verify_tx never lets a group go further past max_cycles than one slice  *)
(* of cycles_per_iterate and one charge that is not checked.               *)
THEOREM Stopped == VerifySpec => []OvershootBounded
  <1>1. VerifyInv => OvershootBounded
    BY MatchSpent DEF VerifyInv, Underneath, Inv2, Spending, OvershootBounded
  <1> QED BY <1>1, VerifyInvHolds, PTL

(* The subtraction consumed_cycles() - last_suspended_cycles at the top of *)
(* the loop never underflows, and every call of run() starts less than     *)
(* cycles_per_suspend after a full suspension.                             *)
THEOREM Suspends == VerifySpec => []SuspendedOften
  <1>1. ASSUME VerifyInv PROVE SuspendedOften
    <2>0. Inv1 /\ Within /\ VerifyTypes /\ Spending
      BY <1>1 DEF VerifyInv, Underneath, Inv2
    <2> DEFINE window == args.iterate + (IF args.suspend = 0 THEN 0 ELSE args.suspend - 1)
    <2>1. window = Unsaved + args.iterate /\ window \in Nat /\ Unsaved <= window
      BY <2>0, Arguments DEF Unsaved
    <2>2. CASE vpc = "match"
      BY <2>0, <2>1, <2>2, MatchSpent DEF Spending, SuspendedOften
    <2>3. CASE vpc = "run"
      <3>1. total_cycles <= last_suspended_cycles + Unsaved
            /\ last_suspended_cycles <= total_cycles
        BY <2>0, <2>3 DEF Spending
      <3>2. LoadCycles \in Nat /\ LoadCycles \in Charges \cup {LoadCycles}
        BY StateAssumption
      <3> HIDE DEF window
      <3>3. total_cycles - last_suspended_cycles <= window + LoadCycles
        BY <2>0, <2>1, <3>1, <3>2, Arguments
      <3>4. Slack(total_cycles - last_suspended_cycles, window)
        BY <3>2, <3>3 DEF Slack
      <3> QED BY <2>3, <3>1, <3>4 DEF SuspendedOften, window
    <2>4. CASE vpc \notin {"match", "run"}
      BY <2>0, <2>4 DEF Spending, SuspendedOften
    <2> QED BY <2>2, <2>3, <2>4
  <1> QED BY <1>1, VerifyInvHolds, PTL

(* verify_tx never calls run() on a scheduler whose root VM has exited:    *)
(* the panic at instantiated[&ROOT_VM_ID], which a suspend() after the     *)
(* exit would lead to, cannot happen under this caller.                    *)
THEOREM FinishedReturns == VerifySpec => []FinishedRunReturns
  <1>1. VerifyInv => FinishedRunReturns
    BY DEF VerifyInv, VerifyTypes, VerifyPc, Places, FinishedRunReturns
  <1> QED BY <1>1, VerifyInvHolds, PTL

(* The driver goes on only after an outcome that leaves a scheduler whole. *)
GoesOn == vpc \in {"loop", "resume", "run"} => outcome \in Resumable

LEMMA NextGoesOn == VerifyInv /\ GoesOn /\ [VerifyNext]_verify_vars => GoesOn'
  <1> SUFFICES ASSUME VerifyInv, GoesOn, [VerifyNext]_verify_vars PROVE GoesOn' OBVIOUS
  <1>1. CASE iterate /\ UNCHANGED driver
    <2>1. vpc = "match"
      BY <1>1, IterateKeeps DEF VerifyInv, Underneath, Inv2, Places, VerifyTypes, VerifyPc
    <2> QED BY <1>1, <2>1 DEF driver, GoesOn
  <1>2. CASE full_suspend \/ full_resume
    BY <1>2 DEF full_suspend, full_resume, suspend, resume, Goto, At, GoesOn
  <1>3. CASE no_suspend \/ slice_exceeded
    BY <1>3 DEF no_suspend, slice_exceeded, Returned, At, GoesOn, Resumable, vars
  <1>4. CASE slice \/ out_of_cycles \/ slice_failed \/ script_failed
    BY <1>4 DEF slice, out_of_cycles, slice_failed, script_failed, At, Ended, GoesOn
  <1>5. CASE script_succeeded
    BY <1>5 DEF script_succeeded, Ended, NextGroup, NewScheduler, GoesOn, Resumable
  <1>6. CASE finished \/ UNCHANGED verify_vars
    BY <1>6 DEF finished, verify_vars, vars, driver, GoesOn
  <1> QED BY <1>1, <1>2, <1>3, <1>4, <1>5, <1>6 DEF VerifyNext, verify_tx

(* A scheduler that failed, in the middle of a step perhaps and with a     *)
(* message of that slice in its box, is never suspended nor run again by   *)
(* verify_tx, whatever the guests did.                                     *)
THEOREM NeverAgain == VerifySpec => []FailedIsDropped
  <1>1. VerifyInit => GoesOn
    BY DEF VerifyInit, Init, GoesOn, Resumable
  <1>2. VerifyInv /\ GoesOn => FailedIsDropped
    <2> SUFFICES ASSUME VerifyInv, GoesOn, vpc \in {"loop", "resume", "run"}
                 PROVE  outcome \in Resumable /\ message_box = <<>>
      BY DEF FailedIsDropped
    <2>1. outcome \in Resumable /\ outcome # "CyclesOverflow" /\ pc \in {"idle", "stored"}
      BY DEF VerifyInv, Places, GoesOn, Resumable
    <2>2. MessageBoxDrained
      BY Inv1Drained DEF VerifyInv, Underneath, Inv2
    <2> QED BY <2>1, <2>2 DEF MessageBoxDrained
  <1> QED BY <1>1, <1>2, NextGoesOn, VerifyInvHolds, PTL DEF VerifySpec

-----------------------------------------------------------------------------
(* What Ok means *)

(* max_cycles is small enough for a sum of two counts within it to be one  *)
(* of a u64.                                                               *)
SumFits == 2 * args.max <= CycleMax

(* Until verify_tx returns, the groups before this one are accounted for;  *)
(* when it returns Ok, this one is too.                                    *)
Accounts ==
    /\ vpc # "returned" => verdict = "none"
    /\ vpc # "returned" \/ verdict = "Ok" => (SumFits => consumed = spent /\ spent <= args.max)
    /\ verdict = "Ok" => group = Groups /\ exit_code = 0

LEMMA SmallSums ==
    ASSUME NEW n \in Nat, NEW a \in 0 .. n
    PROVE  a % (n + 1) = a
  OBVIOUS

LEMMA NextAccounts == VerifyInv /\ Accounts /\ [VerifyNext]_verify_vars => Accounts'
  <1> SUFFICES ASSUME VerifyInv, Accounts, [VerifyNext]_verify_vars PROVE Accounts' OBVIOUS
  <1>0. Inv1 /\ VerifyTypes
    BY DEF VerifyInv, Underneath, Inv2
  <1>1. CASE script_succeeded
    <2>1. /\ vpc = "match" /\ exit_code = 0 /\ verdict = "none" /\ UNCHANGED args
          /\ consumed' = Add(consumed, total_cycles) /\ spent' = spent + total_cycles
          /\ vpc' \in {"loop", "returned"}
      BY <1>1 DEF script_succeeded, Returned, Ended, NextGroup, Accounts
    <2>2. CASE TooMany(consumed') /\ Ended("Error")
      BY <2>2 DEF Ended, Accounts
    <2>3. CASE ~TooMany(consumed')
      <3>1. ASSUME SumFits PROVE consumed' = spent' /\ spent' <= args.max
        <4>1. /\ consumed = spent /\ spent <= args.max
              /\ ~(total_cycles > args.max) /\ ~(consumed' > args.max)
          BY <2>1, <2>3, <3>1 DEF Accounts, TooMany
        <4>2. consumed + total_cycles \in 0 .. CycleMax
          BY <1>0, <3>1, <4>1, Arguments, StateAssumption DEF SumFits
        <4>3. consumed' = consumed + total_cycles
          BY <2>1, <4>2, SmallSums, StateAssumption DEF Add
        <4> QED BY <1>0, <2>1, <4>1, <4>2, <4>3, Arguments
      <3>2. CASE LastGroup /\ Ended("Ok") /\ UNCHANGED vars
        BY <2>1, <3>1, <3>2 DEF LastGroup, Ended, Accounts, SumFits, exit_code, vars, scheduler
      <3>3. CASE NextGroup
        BY <2>1, <3>1, <3>3 DEF NextGroup, Accounts, SumFits
      <3> QED BY <1>1, <2>3, <3>2, <3>3 DEF script_succeeded
    <2> QED BY <1>1, <2>2, <2>3 DEF script_succeeded
  <1>2. CASE \/ out_of_cycles \/ slice_failed \/ script_failed
    BY <1>2 DEF out_of_cycles, slice_failed, script_failed, Ended, Accounts
  <1>3. CASE full_suspend \/ full_resume \/ no_suspend \/ slice \/ slice_exceeded
    <2>1. /\ vpc # "returned" /\ vpc' # "returned" /\ UNCHANGED <<args, consumed, spent, verdict>>
      BY <1>3 DEF full_suspend, full_resume, no_suspend, slice, slice_exceeded, Returned, At
    <2> QED BY <2>1 DEF Accounts, SumFits
  <1>4. CASE iterate /\ UNCHANGED driver
    <2>1. vpc = "match"
      BY <1>0, <1>4, IterateKeeps DEF VerifyInv, Places, VerifyTypes, VerifyPc
    <2> QED BY <1>4, <2>1 DEF driver, Accounts, SumFits
  <1>5. CASE finished \/ UNCHANGED verify_vars
    BY <1>5 DEF finished, verify_vars, vars, scheduler, driver, Accounts, SumFits, exit_code
  <1> QED BY <1>1, <1>2, <1>3, <1>4, <1>5 DEF VerifyNext, verify_tx

(* Ok accounts for every group: the cycles returned are those the groups   *)
(* took together, at most max_cycles, and every root VM exited with 0.     *)
(* The sum consumed_cycles + scheduler.consumed_cycles() is not checked    *)
(* for overflow: this needs a max_cycles of at most half of u64::MAX.      *)
THEOREM OkAccounts == VerifySpec => [](SumFits => OkAccountsForAll)
  <1>1. VerifyInit => Accounts
    <2>1. ASSUME VerifyInit PROVE 0 <= args.max
      BY <2>1, InitVerify, Arguments DEF VerifyInv, Underneath, Inv2
    <2> QED BY <2>1 DEF VerifyInit, Accounts
  <1>2. Accounts => (SumFits => OkAccountsForAll)
    BY DEF Accounts, OkAccountsForAll
  <1> QED BY <1>1, <1>2, NextAccounts, VerifyInvHolds, PTL DEF VerifySpec

=============================================================================
