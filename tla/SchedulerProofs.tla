-------------------------- MODULE SchedulerProofs ---------------------------
(***************************************************************************)
(* Proofs about the scheduler, for any number of VMs, pipes and cycles:    *)
(* its types, what VMs wait for, and where they live.                      *)
(***************************************************************************)
EXTENDS SchedulerProperties, TLAPS, FiniteSetTheorems, WellFoundedInduction

-----------------------------------------------------------------------------
(* The strengthening that makes the type invariant inductive *)

(* What each point of run() knows of the VM it runs and of its lists. *)
Phases ==
    /\ pc \in {"machine", "messages", "joiners"} => vm_id_to_run \in VmId
    /\ pc = "machine" => states[vm_id_to_run] = Runnable
    /\ pc = "messages" /\ (message_box # <<>> \/ result.tag # "YIELD")
          => states[vm_id_to_run] = Runnable
    /\ pc = "joiners" =>
          /\ vm_id_to_run # ROOT_VM_ID
          /\ result.tag = "Ok"
          /\ states[vm_id_to_run] = Runnable
          /\ \A v \in joining_vms :
                states[v].tag = "Join" /\ states[v].target = vm_id_to_run
    /\ pc = "transfer" =>
          /\ \A v \in closed_pipes : Reading(v) \/ Writing(v)
          /\ \A x \in pairs : states[x.reader] # Absent /\ states[x.writer] # Absent
    /\ outcome \notin Resumable => pc = "idle"

(* A message comes from the VM that is run and was checked by its call. *)
Checked(m) ==
    /\ m.vm = vm_id_to_run
    /\ m.tag = "Spawn" => next_vm_id < MaxVms
    /\ m.tag = "PipeRead" => is_read(m.pipe)
    /\ m.tag = "PipeWrite" => is_write(m.pipe)

(* The message box holds at most the message of the slice that just ended. *)
Messages ==
    /\ message_box = <<>> \/ \E m \in Message : message_box = <<m>>
    /\ message_box # <<>> => Checked(Head(message_box)) /\ result.tag = "YIELD"
    /\ pc # "messages" /\ outcome # "CyclesOverflow" => message_box = <<>>

(* Ids are given out in order, and the root VM stays. *)
Ids ==
    /\ \A v \in VmId : v >= next_vm_id => states[v] = Absent
    /\ next_vm_id > 0 /\ outcome \in Resumable => states[ROOT_VM_ID] # Absent

Inv1 == TypeOK /\ Phases /\ Messages /\ Ids

-----------------------------------------------------------------------------
(* Lemmas about the types *)

LEMMA OneMessage ==
    ASSUME NEW m
    PROVE  /\ <<m>> # <<>>
           /\ Head(<<m>>) = m
           /\ Tail(<<m>>) = <<>>
           /\ <<>> \o <<m>> = <<m>>
           /\ <<>> \o <<>> = <<>>
  OBVIOUS

LEMMA StateKinds ==
    ASSUME NEW s \in VmState
    PROVE  /\ s.tag = "WaitForRead" => s \in ReadState
           /\ s.tag = "WaitForWrite" => s \in WriteState
           /\ s.tag = "Join" => s \in JoinState
  BY DEF VmState, ReadState, WriteState, JoinState, Absent, Runnable, Terminated

LEMMA StateValues ==
    /\ {Absent, Runnable, Terminated} \subseteq VmState
    /\ Absent # Runnable /\ Absent # Terminated /\ Runnable # Terminated
    /\ Runnable.tag = "Runnable" /\ Absent.tag = "Absent" /\ Terminated.tag = "Terminated"
  BY DEF VmState, Absent, Runnable, Terminated

LEMMA WaitersAreLive ==
    ASSUME NEW s \in VmState, s.tag \in {"WaitForRead", "WaitForWrite", "Join"}
    PROVE  s \notin {Absent, Runnable, Terminated}
  BY StateValues

LEMMA PlainReplies ==
    /\ NoReply \in Reply
    /\ [op |-> "spawn", code |-> SUCCESS] \in Reply
    /\ [op |-> "pipe", code |-> SUCCESS] \in Reply
    /\ [op |-> "join", code |-> JOIN_FAILURE] \in Reply
    /\ \A o \in {"read", "write"} :
          /\ [op |-> o, code |-> INVALID_PIPE] \in Reply
          /\ [op |-> o, code |-> OTHER_END_CLOSED] \in Reply
  BY DEF Reply, NoReply, PlainReply, JoinReply, IoReply

LEMMA JoinReplies ==
    ASSUME NEW t \in VmId, NEW e \in ExitCode
    PROVE  [op |-> "join", code |-> SUCCESS, target |-> t, exit |-> e] \in Reply
  BY DEF Reply, JoinReply

LEMMA IoReplies ==
    ASSUME NEW s \in ReadState \cup WriteState, NEW n \in Length,
           NEW o \in {"read", "write"}
    PROVE  IoDone(o, s, n) \in Reply
  BY DEF Reply, IoReply, IoDone, ReadState, WriteState

LEMMA Copies ==
    ASSUME NEW x \in Pair
    PROVE  /\ copiable(x) \in Length
           /\ x.ws.consumed + copiable(x) \in Length
           /\ x.ws.consumed + copiable(x) <= x.ws.length
           /\ Written(x, x.ws.consumed + copiable(x)) \in {Runnable} \cup WriteState
  BY TypesAssumption DEF Pair, copiable, Written, ReadState, WriteState, Length

-----------------------------------------------------------------------------
(* Types and phases: one lemma per group of actions *)

LEMMA InitInv1 == Init => Inv1
  BY TypesAssumption, StateAssumption, StateValues, PlainReplies
  DEF Init, Inv1, TypeOK, Phases, Messages, Ids, Pc, Outcome, RunResult, RunError, Machine,
      VmId, NoVm, FIRST_VM_ID, ROOT_VM_ID, FIRST_PIPE_SLOT, Resumable

(* The end of a slice, whatever ended it. *)
LEMMA SliceInv1 ==
    ASSUME Inv1, pc = "machine",
           NEW r \in RunResult, NEW c \in Nat, NEW msgs,
           \/ msgs = <<>>
           \/ r.tag = "YIELD" /\ \E m \in Message : msgs = <<m>> /\ Checked(m),
           SliceEnds(r, msgs, c), UNCHANGED Sliced
    PROVE  Inv1'
  <1> USE DEF Inv1, Sliced
  <1>1. message_box = <<>> /\ outcome \in Resumable
    BY DEF Messages, Phases, Resumable
  <1>2. message_box' = msgs /\ msgs \in Seq(Message)
    <2>1. message_box' = <<>> \o msgs
      BY <1>1 DEF SliceEnds
    <2>2. CASE msgs = <<>>
      BY <2>1, <2>2, OneMessage
    <2>3. CASE \E m \in Message : msgs = <<m>> /\ Checked(m)
      <3>1. PICK m \in Message : msgs = <<m>>
        BY <2>3
      <3>2. <<m>> \in Seq(Message)
        OBVIOUS
      <3> QED BY <2>1, <3>1, <3>2, OneMessage
    <2> QED BY <2>2, <2>3
  <1>3. TypeOK'
    <2>1. machine' \in [VmId -> Machine]
      <3>1. machine' = [machine EXCEPT ![self].cycles = 0]
        BY DEF SliceEnds
      <3>2. machine \in [VmId -> Machine] /\ 0 \in 0 .. CycleMax
        BY StateAssumption DEF TypeOK
      <3> QED BY <3>1, <3>2 DEF Machine
    <2>2. total_cycles' \in 0 .. CycleMax /\ consumed_cycles' \in 0 .. CycleMax
      <3>1. \/ total_cycles + c <= CycleMax /\ total_cycles' = total_cycles + c /\ consumed_cycles' = c
            \/ total_cycles' = total_cycles /\ consumed_cycles' = consumed_cycles
        BY DEF SliceEnds
      <3>2. /\ total_cycles \in 0 .. CycleMax /\ consumed_cycles \in 0 .. CycleMax
            /\ CycleMax \in Nat
        BY StateAssumption DEF TypeOK
      <3> QED BY <3>1, <3>2
    <2>3. pc' \in Pc /\ outcome' \in Outcome /\ result' \in RunResult
      BY DEF SliceEnds, TypeOK, Pc, Outcome
    <2> QED BY <1>2, <2>1, <2>2, <2>3 DEF TypeOK, history
  <1>4. Phases'
    BY <1>1 DEF Phases, SliceEnds, Reading, Writing
  <1>5. Messages'
    BY <1>1, <1>2, OneMessage DEF Messages, SliceEnds, Checked, Resumable
  <1>6. Ids'
    BY <1>1 DEF Ids, SliceEnds
  <1> QED BY <1>3, <1>4, <1>5, <1>6

(* A step of the guest is an inline call or ends the slice; only a slice   *)
(* that its limit or a pause cuts short may have passed the limit.         *)
LEMMA GuestSteps ==
    ASSUME Guest
    PROVE  /\ pc = "machine"
           /\ \/ \E k \in 1 .. MaxSlice : inline(k)
              \/ \E r \in RunResult, k \in 0 .. MaxSlice : \E msgs :
                    /\ SliceEnds(r, msgs, Counted(k)) /\ UNCHANGED Sliced
                    /\ Fits(k) \/ (k = 0 /\ r.tag \in {"CyclesExceeded", "Pause"})
                    /\ msgs = <<>> \/ (r.tag = "YIELD" /\ \E m : msgs = <<m>>)
                    /\ r.tag \in {"YIELD", "Ok", "Error", "CyclesExceeded", "Pause"}
                    /\ r.tag = "YIELD" => msgs # <<>>
  <1> DEFINE Ends == \E r \in RunResult, k \in 0 .. MaxSlice : \E msgs :
                       /\ SliceEnds(r, msgs, Counted(k)) /\ UNCHANGED Sliced
                       /\ Fits(k) \/ (k = 0 /\ r.tag \in {"CyclesExceeded", "Pause"})
                       /\ msgs = <<>> \/ (r.tag = "YIELD" /\ \E m : msgs = <<m>>)
                       /\ r.tag \in {"YIELD", "Ok", "Error", "CyclesExceeded", "Pause"}
                       /\ r.tag = "YIELD" => msgs # <<>>
  <1>1. \A k \in 1 .. MaxSlice : k \in 0 .. MaxSlice
    BY StateAssumption
  <1>2. ASSUME NEW k \in 1 .. MaxSlice, NEW call, NEW m, Yield(call, k, m)
        PROVE  pc = "machine" /\ Ends
    <2>1. [tag |-> "YIELD"] \in RunResult /\ <<m>> # <<>>
      BY DEF RunResult, RunError
    <2> QED BY <1>1, <1>2, <2>1 DEF Yield, Executing
  <1>3. ASSUME NEW k \in 1 .. MaxSlice,
               spawn(k) \/ join(k) \/ pipe(k) \/ pipe_write(k) \/ pipe_read(k)
        PROVE  pc = "machine" /\ Ends
    BY <1>2, <1>3 DEF spawn, join, pipe, pipe_write, pipe_read
  <1>4. ASSUME NEW k \in 1 .. MaxSlice, exit(k) \/ fault(k)
        PROVE  pc = "machine" /\ Ends
    <2>1. CASE fault(k)
      <3>1. [tag |-> "Error"] \in RunResult
        BY DEF RunResult, RunError
      <3> QED BY <1>1, <2>1, <3>1 DEF fault, Executing
    <2>2. CASE exit(k)
      <3>1. \A code \in ExitCode : [tag |-> "Ok", code |-> code] \in RunResult
        BY DEF RunResult
      <3> QED BY <1>1, <2>2, <3>1 DEF exit, Executing
    <2> QED BY <1>4, <2>1, <2>2
  <1>5. ASSUME NEW k \in 0 .. MaxSlice, exceed(k) \/ interrupt(k)
        PROVE  pc = "machine" /\ Ends
    <2>1. [tag |-> "CyclesExceeded"] \in RunResult /\ [tag |-> "Pause"] \in RunResult
      BY DEF RunResult, RunError
    <2> QED BY <1>5, <2>1 DEF exceed, interrupt
  <1>6. ASSUME NEW k \in 1 .. MaxSlice, inline(k) PROVE pc = "machine"
    BY <1>6 DEF inline, Executing
  <1> QED BY <1>3, <1>4, <1>5, <1>6 DEF Guest

LEMMA GuestInv1 == Inv1 /\ Guest => Inv1'
  <1> SUFFICES ASSUME Inv1, Guest PROVE Inv1' OBVIOUS
  <1> USE StateAssumption
  <1> DEFINE Ends == \E r \in RunResult, c \in Nat : \E msgs :
                        /\ pc = "machine"
                        /\ \/ msgs = <<>>
                           \/ /\ r.tag = "YIELD"
                              /\ \E m \in Message : msgs = <<m>> /\ Checked(m)
                        /\ SliceEnds(r, msgs, c) /\ UNCHANGED Sliced
  <1>0. Ends => Inv1'
    BY SliceInv1
  <1>c. ASSUME pc = "machine" PROVE self \in VmId /\ \A k \in Nat : Counted(k) \in Nat
    BY <1>c DEF Inv1, TypeOK, Machine, Phases, self, Counted
  <1>y. ASSUME NEW call, NEW k \in Nat, NEW m \in Message, Checked(m), Yield(call, k, m)
        PROVE  Inv1'
    <2>1. [tag |-> "YIELD"] \in RunResult
      BY DEF RunResult, RunError
    <2>2. Ends
      BY <1>y, <1>c, <2>1 DEF Yield, Executing
    <2> QED BY <2>2, <1>0
  <1>s. ASSUME NEW k \in 0 .. MaxSlice, NEW r \in RunResult, pc = "machine",
               SliceEnds(r, <<>>, Counted(k)), UNCHANGED Sliced
        PROVE  Inv1'
    <2>1. Counted(k) \in Nat
      BY <1>s, <1>c
    <2> QED BY <1>s, <2>1, <1>0
  <1>1. ASSUME NEW k \in 1 .. MaxSlice, spawn(k) PROVE Inv1'
    <2>1. PICK ps \in SUBSET PipeId, program \in Program, a \in Addr :
            Yield("spawn", k, [tag |-> "Spawn", vm |-> self, pipes |-> ps,
                               program |-> program, addr |-> a])
      BY <1>1 DEF spawn
    <2> DEFINE m == [tag |-> "Spawn", vm |-> self, pipes |-> ps,
                     program |-> program, addr |-> a]
    <2>2. m \in Message
      BY <2>1, <1>c DEF Yield, Executing, Message, SpawnMessage
    <2>3. Checked(m)
      BY <1>1 DEF spawn, Checked, self
    <2> QED BY <2>1, <2>2, <2>3, <1>y
  <1>2. ASSUME NEW k \in 1 .. MaxSlice, join(k) PROVE Inv1'
    <2>1. PICK t \in JoinTarget, a \in Addr :
            Yield("join", k, [tag |-> "Join", vm |-> self, target |-> t, addr |-> a])
      BY <1>2 DEF join
    <2> DEFINE m == [tag |-> "Join", vm |-> self, target |-> t, addr |-> a]
    <2>2. m \in Message
      BY <2>1, <1>c DEF Yield, Executing, Message, JoinMessage
    <2>3. Checked(m)
      BY DEF Checked, self
    <2> QED BY <2>1, <2>2, <2>3, <1>y
  <1>3. ASSUME NEW k \in 1 .. MaxSlice, pipe(k) PROVE Inv1'
    <2>1. PICK a \in Addr : Yield("pipe", k, [tag |-> "Pipe", vm |-> self, addr |-> a])
      BY <1>3 DEF pipe
    <2> DEFINE m == [tag |-> "Pipe", vm |-> self, addr |-> a]
    <2>2. m \in Message
      BY <2>1, <1>c DEF Yield, Executing, Message, PipeMessage
    <2>3. Checked(m)
      BY DEF Checked, self
    <2> QED BY <2>1, <2>2, <2>3, <1>y
  <1>4. ASSUME NEW k \in 1 .. MaxSlice, pipe_write(k) PROVE Inv1'
    <2>1. PICK m \in IoArgs("PipeWrite") : is_write(m.pipe) /\ Yield("pipe_write", k, m)
      BY <1>4 DEF pipe_write
    <2>2. m \in Message
      BY <2>1, <1>c DEF Yield, Executing, Message, IoMessage, IoArgs
    <2>3. Checked(m)
      BY <2>1 DEF Checked, self, IoArgs
    <2> QED BY <2>1, <2>2, <2>3, <1>y
  <1>5. ASSUME NEW k \in 1 .. MaxSlice, pipe_read(k) PROVE Inv1'
    <2>1. PICK m \in IoArgs("PipeRead") : is_read(m.pipe) /\ Yield("pipe_read", k, m)
      BY <1>5 DEF pipe_read
    <2>2. m \in Message
      BY <2>1, <1>c DEF Yield, Executing, Message, IoMessage, IoArgs
    <2>3. Checked(m)
      BY <2>1 DEF Checked, self, IoArgs
    <2> QED BY <2>1, <2>2, <2>3, <1>y
  <1>6. ASSUME NEW k \in 1 .. MaxSlice, inline(k) PROVE Inv1'
    <2>1. PICK c \in Charges :
            /\ Counted(k + c) <= CycleMax
            /\ machine' = [machine EXCEPT ![self].cycles = Counted(k + c)]
      BY <1>6 DEF inline
    <2>2. Counted(k + c) \in 0 .. CycleMax
      BY <2>1, <1>6, <1>c DEF inline, Executing
    <2>3. machine' \in [VmId -> Machine]
      BY <2>1, <2>2 DEF Inv1, TypeOK, Machine
    <2>4. UNCHANGED <<scheduler, pc, outcome, locals, history>>
      BY <1>6 DEF inline
    <2>5. TypeOK'
      BY <2>3, <2>4 DEF scheduler, locals, history, Inv1, TypeOK
    <2>6. Phases'
      BY <2>4 DEF scheduler, locals, Inv1, Phases, Reading, Writing
    <2>7. Messages' /\ Ids'
      BY <2>4 DEF scheduler, locals, Inv1, Messages, Checked, Ids
    <2> QED BY <2>5, <2>6, <2>7 DEF Inv1
  <1>7. ASSUME NEW k \in 1 .. MaxSlice, exit(k) PROVE Inv1'
    BY <1>7, <1>s DEF exit, Executing, RunResult
  <1>8. ASSUME NEW k \in 1 .. MaxSlice, fault(k) PROVE Inv1'
    BY <1>8, <1>s DEF fault, Executing, RunResult, RunError
  <1>9. ASSUME NEW k \in 0 .. MaxSlice, exceed(k) PROVE Inv1'
    BY <1>9, <1>s DEF exceed, RunResult, RunError
  <1>10. ASSUME NEW k \in 0 .. MaxSlice, interrupt(k) PROVE Inv1'
    BY <1>10, <1>s DEF interrupt, RunResult, RunError
  <1> QED
    BY <1>1, <1>2, <1>3, <1>4, <1>5, <1>6, <1>7, <1>8, <1>9, <1>10 DEF Guest

(* Results stored to a machine, and VMs made machines, have their types. *)
LEMMA ReplyTyped ==
    ASSUME machine \in [VmId -> Machine], NEW v, NEW reply \in Reply
    PROVE  [machine EXCEPT ![v].reply = reply] \in [VmId -> Machine]
  BY DEF Machine

LEMMA TwoRepliesTyped ==
    ASSUME NEW mc \in [VmId -> Machine], NEW v, NEW w, NEW a \in Reply, NEW b \in Reply,
           NEW done \in BOOLEAN
    PROVE  [mc EXCEPT ![v].reply = a, ![w].reply = IF done THEN b ELSE @] \in [VmId -> Machine]
  BY DEF Machine

LEMMA CountTyped ==
    ASSUME NEW f \in [PipeId -> Int], NEW p \in PipeId, NEW c \in Int, NEW n \in Int, NEW done \in BOOLEAN
    PROVE  /\ [f EXCEPT ![p] = @ + c] \in [PipeId -> Int]
           /\ [f EXCEPT ![p] = IF done THEN @ + c - n ELSE @ + c] \in [PipeId -> Int]
  OBVIOUS

LEMMA AdmitTyped ==
    ASSUME NEW I \in SUBSET VmId, NEW v \in VmId, NEW ids
    PROVE  Admit(I, v, ids) \in SUBSET VmId
  BY DEF Admit

LEMMA SwapTyped ==
    ASSUME TypeOK, NEW I \in SUBSET VmId, Swap(I)
    PROVE  instantiated' \subseteq VmId /\ suspended' \subseteq VmId
  BY DEF Swap, TypeOK

LEMMA EnsureTyped ==
    ASSUME TypeOK, NEW v \in VmId, NEW w \in VmId
    PROVE  Ensure1(v) \in SUBSET VmId /\ Ensure2(v, w) \in SUBSET VmId
  BY AdmitTyped DEF TypeOK, Ensure1, Ensure2

-----------------------------------------------------------------------------
(* run() *)

LEMMA Root == ROOT_VM_ID \in VmId /\ ROOT_VM_ID = 0 /\ VmId \subseteq Nat
  BY TypesAssumption DEF ROOT_VM_ID, FIRST_VM_ID, VmId

LEMMA CalledTyped ==
    ASSUME TypeOK, NEW md, NEW l, Called(md, l)
    PROVE  /\ mode' \in {"none", "LimitCycles", "Pause"}
           /\ limit_cycles' \in 0 .. CycleMax
           /\ budget' \in Nat
           /\ unacked' \in [PipeId -> Int]
  BY StateAssumption DEF Called, TypeOK

LEMMA BootInv1 ==
    ASSUME Inv1, NEW md, NEW l, run_boot(md, l)
    PROVE  Inv1'
  <1> USE DEF Inv1
  <1>1. next_vm_id = 0 /\ outcome \in Resumable /\ message_box = <<>> /\ pc = "idle"
    BY Root DEF run_boot, Called, Ids, Live, TypeOK, Messages, Resumable
  <1>2. next_vm_id' = 1 /\ 1 <= MaxVms
    BY <1>1, TypesAssumption DEF run_boot, Booted
  <1>3. /\ machine' \in [VmId -> Machine]
        /\ states' \in [VmId -> VmState]
        /\ instantiated' \subseteq VmId /\ suspended' \subseteq VmId
        /\ pc' \in Pc /\ outcome' \in Outcome
    <2>1. CASE /\ Booted(next_vm_id) /\ Swap({next_vm_id})
               /\ pc' = "process_io" /\ outcome' = "none"
      <3>1. [cycles |-> LoadCycles, reply |-> NoReply] \in Machine
        BY StateAssumption, PlainReplies DEF Machine
      <3>2. {next_vm_id} \in SUBSET VmId
        BY <1>1, Root
      <3> QED BY <2>1, <3>1, <3>2, SwapTyped, StateValues DEF Booted, TypeOK, Pc, Outcome
    <2>2. CASE /\ Return("Error")
               /\ UNCHANGED <<states, machine, instantiated, suspended>>
      BY <2>2 DEF TypeOK, Return, Pc, Outcome
    <2> QED BY <2>1, <2>2 DEF run_boot
  <1>4. TypeOK'
    BY <1>2, <1>3, CalledTyped, TypesAssumption DEF run_boot, TypeOK
  <1>5. Phases'
    BY <1>1 DEF Phases, run_boot, Return, Resumable
  <1>6. Messages'
    BY <1>1 DEF Messages, run_boot, Return
  <1>7. Ids'
    <2>1. \A v \in VmId : v >= 1 => states'[v] = Absent
      BY <1>1, Root DEF run_boot, Booted, Ids, TypeOK
    <2>2. outcome' \in Resumable => states'[ROOT_VM_ID] # Absent
      BY <1>1, Root, StateValues DEF run_boot, Booted, Return, Resumable, TypeOK
    <2> QED BY <1>2, <2>1, <2>2 DEF Ids
  <1> QED BY <1>4, <1>5, <1>6, <1>7

LEMMA RunInv1 ==
    ASSUME Inv1, NEW md, NEW l, run_on(md, l)
    PROVE  Inv1'
  <1> USE DEF Inv1
  <1>1. pc = "idle" /\ outcome \in Resumable
    BY DEF run_on, Called
  <1>2. TypeOK'
    BY CalledTyped DEF run_on, TypeOK, scheduler, Return, Goto, Pc, Outcome
  <1>3. Phases'
    BY <1>1 DEF run_on, Phases, scheduler, Return, Goto, Resumable
  <1>4. Messages' /\ Ids'
    BY <1>1 DEF run_on, Messages, Ids, scheduler, Return, Goto, Resumable
  <1> QED BY <1>2, <1>3, <1>4

LEMMA CallerInv1 == Inv1 /\ (suspend \/ resume \/ dropped) => Inv1'
  <1> SUFFICES ASSUME Inv1, suspend \/ resume \/ dropped PROVE Inv1' OBVIOUS
  <1> USE DEF Inv1
  <1>1. CASE suspend
    BY <1>1 DEF suspend, Goto, TypeOK, Phases, Messages, Ids, locals, history, Pc, Resumable
  <1>2. CASE resume
    BY <1>2 DEF resume, Goto, TypeOK, Phases, Messages, Ids, scheduler, locals, history, Pc,
                Resumable
  <1>3. CASE dropped
    BY <1>3 DEF dropped, vars, TypeOK, Phases, Messages, Ids, scheduler, locals, history,
                Checked, Reading, Writing
  <1> QED BY <1>1, <1>2, <1>3

-----------------------------------------------------------------------------
(* process_io() and the choice of the VM *)

LEMMA CollectInv1 == Inv1 /\ process_io => Inv1'
  <1> SUFFICES ASSUME Inv1, process_io PROVE Inv1' OBVIOUS
  <1> USE DEF Inv1
  <1>1. pairs' \subseteq Pair
    <2> SUFFICES ASSUME NEW r \in VmId, NEW w \in VmId, Matched(r, w)
                 PROVE  [reader |-> r, rs |-> states[r], writer |-> w, ws |-> states[w]] \in Pair
      BY DEF process_io
    <2>1. states[r] \in ReadState /\ states[w] \in WriteState
      BY StateKinds DEF Matched, Reads, Reading, Writing, TypeOK
    <2> QED BY <2>1 DEF Pair
  <1>2. TypeOK'
    BY <1>1 DEF process_io, TypeOK, scheduler, Goto, Pc, history
  <1>3. \A x \in pairs' : states[x.reader] # Absent /\ states[x.writer] # Absent
    BY StateValues DEF process_io, Matched, Reads, Reading, Writing
  <1>5. Phases'
    BY <1>3 DEF process_io, Phases, scheduler, Goto, Reading, Writing
  <1>4. Messages' /\ Ids'
    BY DEF process_io, Messages, Phases, Ids, scheduler, Goto, Resumable
  <1> QED BY <1>2, <1>4, <1>5

LEMMA ClosedInv1 ==
    ASSUME Inv1, NEW v \in VmId, finish_closed(v)
    PROVE  Inv1'
  <1> USE DEF Inv1
  <1>0. /\ pc = "transfer" /\ v \in closed_pipes /\ (Reading(v) \/ Writing(v))
        /\ outcome \in Resumable
    BY DEF finish_closed, FirstClosed, Phases
  <1>1. states[v] \in ReadState \cup WriteState
    BY <1>0, StateKinds DEF Reading, Writing, TypeOK
  <1>2. EofReply(states[v]) \in Reply
    <2>1. states[v].tag # "WaitForRead" => states[v] \in WriteState
      BY <1>1 DEF ReadState
    <2>2. 0 \in Length /\ (states[v].tag # "WaitForRead" => states[v].consumed \in Length)
      BY <2>1, TypesAssumption DEF WriteState, Length
    <2> QED BY <1>1, <2>2, IoReplies DEF EofReply
  <1>3. CASE /\ Wake(v, EofReply(states[v]))
             /\ closed_pipes' = closed_pipes \ {v}
             /\ Goto("transfer")
    <2>1. machine' \in [VmId -> Machine] /\ states' \in [VmId -> VmState]
      BY <1>2, <1>3, ReplyTyped, StateValues DEF Wake, TypeOK
    <2>2. unacked' \in [PipeId -> Int]
      <3>1. Writing(v) => EofReply(states[v]).length \in Int
        BY <1>1 DEF EofReply, IoDone, Writing, ReadState, WriteState, Length
      <3> QED BY <3>1, <1>0, <1>3 DEF finish_closed, TypeOK, Goto
    <2>3. TypeOK'
      BY <2>1, <2>2, <1>3 DEF finish_closed, TypeOK, Goto
    <2>4. Phases'
      <3>1. \A u \in VmId : states[u] # Absent => states'[u] # Absent
        BY <1>3, StateValues DEF Wake, TypeOK
      <3>2. \A u \in closed_pipes' : states'[u] = states[u]
        BY <1>3 DEF Wake, TypeOK
      <3>3. \A x \in pairs : x.reader \in VmId /\ x.writer \in VmId
        BY DEF TypeOK, Pair
      <3> QED BY <1>0, <1>3, <3>1, <3>2, <3>3
              DEF finish_closed, Phases, Goto, Reading, Writing
    <2>5. Messages' /\ Ids'
      BY <1>0, <1>3, StateValues, Root
      DEF finish_closed, Messages, Ids, Wake, Goto, TypeOK, Reading, Writing, Resumable
    <2> QED BY <2>3, <2>4, <2>5
  <1>4. CASE /\ Return("Error") \/ Goto("panicked")
             /\ UNCHANGED <<states, machine, closed_pipes, unacked>>
    <2>1. TypeOK'
      BY <1>4 DEF finish_closed, TypeOK, Return, Goto, Pc, Outcome
    <2>2. Phases' /\ Messages' /\ Ids'
      BY <1>0, <1>4 DEF finish_closed, Phases, Messages, Ids, Return, Goto, Resumable
    <2> QED BY <2>1, <2>2
  <1> QED BY <1>3, <1>4 DEF finish_closed

LEMMA TransferInv1 ==
    ASSUME Inv1, NEW x \in pairs, transfer(x)
    PROVE  Inv1'
  <1> USE DEF Inv1
  <1> DEFINE n == x.ws.consumed + copiable(x)
             Read == IoDone("read", x.rs, copiable(x))
  <1>0. /\ pc = "transfer" /\ closed_pipes = {} /\ x \in Pair
        /\ outcome \in Resumable /\ message_box = <<>>
    BY DEF transfer, TypeOK, Phases, Messages, Resumable
  <1>1. /\ x.reader \in VmId /\ x.writer \in VmId /\ x.rs \in ReadState /\ x.ws \in WriteState
    BY <1>0 DEF Pair
  <1>2. /\ Read \in Reply /\ IoDone("write", x.ws, n) \in Reply
        /\ Written(x, n) \in VmState /\ Written(x, n) # Absent
        /\ n \in Int /\ copiable(x) \in Int
    <2>1. copiable(x) \in Length /\ n \in Length /\ Written(x, n) \in {Runnable} \cup WriteState
      BY <1>0, Copies
    <2>2. Read \in Reply /\ IoDone("write", x.ws, n) \in Reply
      BY <1>1, <2>1, IoReplies
    <2>3. \A s \in WriteState : s \in VmState /\ s # Absent
      BY DEF VmState, WriteState, Absent
    <2> QED BY <2>1, <2>2, <2>3, StateValues DEF Length
  <1>3. instantiated' \subseteq VmId /\ suspended' \subseteq VmId
    BY <1>1, EnsureTyped, SwapTyped DEF transfer
  <1>m. /\ machine \in [VmId -> Machine] /\ unacked \in [PipeId -> Int]
        /\ x.ws.pipe \in PipeId
    BY <1>1 DEF TypeOK, WriteState
  <1> HIDE DEF n, Read
  <1>4. CASE /\ states' = [states EXCEPT ![x.reader] = Runnable, ![x.writer] = Written(x, n)]
             /\ machine' = [machine EXCEPT
                   ![x.reader].reply = Read,
                   ![x.writer].reply = IF n = x.ws.length THEN IoDone("write", x.ws, n) ELSE @]
             /\ unacked' = [unacked EXCEPT ![x.ws.pipe] =
                               IF n = x.ws.length THEN @ + copiable(x) - n ELSE @ + copiable(x)]
             /\ pairs' = pairs \ {x}
             /\ Goto("transfer")
    <2>1. machine' \in [VmId -> Machine]
      BY <1>2, <1>4, <1>m, TwoRepliesTyped
    <2>2. states' \in [VmId -> VmState]
      BY <1>2, <1>4, StateValues DEF TypeOK
    <2>3. unacked' \in [PipeId -> Int]
      BY <1>2, <1>4, <1>m, CountTyped
    <2>4. TypeOK'
      BY <2>1, <2>2, <2>3, <1>3, <1>4 DEF transfer, TypeOK, Goto
    <2>5. \A v \in VmId : states'[v] = Absent <=> states[v] = Absent
      BY <1>0, <1>1, <1>2, <1>4, StateValues DEF TypeOK, Phases
    <2>6. Phases' /\ Messages'
      BY <1>0, <1>4, <2>5 DEF transfer, Phases, Messages, Goto, TypeOK, Pair
    <2>7. Ids'
      BY <1>0, <1>4, <2>5, Root DEF transfer, Ids, Goto
    <2> QED BY <2>4, <2>6, <2>7
  <1>5. CASE /\ Wake(x.reader, Read)
             /\ unacked' = [unacked EXCEPT ![x.ws.pipe] = @ + copiable(x)]
             /\ Return("Error")
             /\ UNCHANGED pairs
    <2>1. machine' \in [VmId -> Machine] /\ states' \in [VmId -> VmState]
      BY <1>2, <1>5, ReplyTyped, StateValues DEF TypeOK, Wake
    <2>2. unacked' \in [PipeId -> Int]
      BY <1>2, <1>5, <1>m, CountTyped
    <2>3. TypeOK'
      BY <2>1, <2>2, <1>3, <1>5 DEF transfer, TypeOK, Return, Pc, Outcome
    <2>4. Phases' /\ Messages'
      BY <1>0, <1>5 DEF transfer, Phases, Messages, Return
    <2>5. \A v \in VmId : states'[v] = Absent <=> states[v] = Absent
      BY <1>0, <1>1, <1>5, StateValues DEF TypeOK, Phases, Wake
    <2>6. Ids'
      BY <1>0, <1>5, <2>5, Root DEF transfer, Ids, Return, Resumable
    <2> QED BY <2>3, <2>4, <2>6
  <1>6. CASE /\ Return("Error")
             /\ UNCHANGED <<states, machine, unacked, pairs>>
    BY <1>0, <1>3, <1>6
    DEF transfer, TypeOK, Phases, Messages, Ids, Return, Pc, Outcome, Resumable
  <1> QED BY <1>4, <1>5, <1>6 DEF transfer, WriterFails, n, Read

LEMMA PickInv1 ==
    ASSUME Inv1, NEW v \in VmId, pick(v)
    PROVE  Inv1'
  <1> USE DEF Inv1
  <1>1. machine' \in [VmId -> Machine] /\ instantiated' \subseteq VmId /\ suspended' \subseteq VmId
    BY ReplyTyped, PlainReplies, EnsureTyped, SwapTyped DEF pick, TypeOK
  <1>2. TypeOK'
    BY <1>1 DEF pick, TypeOK, Goto, Pc, history
  <1>3. Phases' /\ Messages' /\ Ids'
    BY DEF pick, IoFinished, ToRun, Phases, Messages, Ids, Goto, Resumable
  <1> QED BY <1>2, <1>3

LEMMA DeadlockInv1 == Inv1 /\ deadlock => Inv1'
  BY DEF Inv1, deadlock, IoFinished, Return, TypeOK, Phases, Messages, Ids, scheduler, locals,
         history, Pc, Outcome, Resumable

-----------------------------------------------------------------------------
(* process_message_box() *)

LEMMA HandlingFacts ==
    ASSUME Inv1, pc = "messages", message_box # <<>>
    PROVE  /\ Head(message_box) \in Message
           /\ Tail(message_box) = <<>>
           /\ Checked(Head(message_box))
           /\ Head(message_box).vm = vm_id_to_run
           /\ vm_id_to_run \in VmId /\ states[vm_id_to_run] = Runnable
           /\ result.tag = "YIELD"
           /\ outcome \in Resumable
  <1>1. PICK m \in Message : message_box = <<m>>
    BY DEF Inv1, Messages
  <1> QED BY <1>1, OneMessage DEF Inv1, Messages, Phases, Checked

(* A handler ends with the box empty, and either goes on or fails. *)
LEMMA HandlerInv1 ==
    ASSUME Inv1, pc = "messages", message_box # <<>>,
           UNCHANGED <<total_cycles, terminated_vms, locals, history>>,
           message_box' = <<>>,
           Goto("messages") \/ Return("Error"),
           machine' \in [VmId -> Machine],
           instantiated' \subseteq VmId, suspended' \subseteq VmId,
           next_pipe_slot' \in Nat,
           pipes' \in [PipeId -> VmId \cup {NoVm}],
           states' \in [VmId -> VmState],
           next_vm_id' \in 0 .. MaxVms,
           Ids'
    PROVE  Inv1'
  <1> USE DEF Inv1
  <1>1. TypeOK'
    BY DEF TypeOK, locals, history, Goto, Return, Pc, Outcome
  <1>2. Phases' /\ Messages'
    BY HandlingFacts DEF Phases, Messages, locals, Goto, Return
  <1> QED BY <1>1, <1>2

(* The handlers that leave states, ids and pipes alone. *)
LEMMA QuietInv1 ==
    ASSUME Inv1, pc = "messages", message_box # <<>>,
           UNCHANGED <<total_cycles, terminated_vms, locals, history>>,
           message_box' = <<>>,
           Goto("messages") \/ Return("Error"),
           machine' \in [VmId -> Machine],
           instantiated' \subseteq VmId, suspended' \subseteq VmId,
           next_pipe_slot' \in Nat,
           pipes' \in [PipeId -> VmId \cup {NoVm}],
           UNCHANGED <<next_vm_id, states>>
    PROVE  Inv1'
  <1>1. Ids'
    BY HandlingFacts DEF Inv1, Ids, Goto, Return, Resumable
  <1> QED BY <1>1, HandlerInv1 DEF Inv1, TypeOK

LEMMA AnswerFacts ==
    ASSUME Inv1, pc = "messages", message_box # <<>>,
           NEW reply \in Reply, Answer(Head(message_box), reply)
    PROVE  /\ UNCHANGED <<total_cycles, terminated_vms, locals, history>>
           /\ message_box' = <<>>
           /\ Goto("messages") \/ Return("Error")
           /\ machine' \in [VmId -> Machine]
  <1>1. machine \in [VmId -> Machine] /\ Tail(message_box) = <<>>
    BY HandlingFacts DEF Inv1, TypeOK
  <1>2. machine' = machine \/ machine' = [machine EXCEPT ![Head(message_box).vm].reply = reply]
    BY DEF Answer
  <1>3. machine' \in [VmId -> Machine]
    BY <1>1, <1>2, ReplyTyped
  <1>4. /\ UNCHANGED <<total_cycles, terminated_vms, locals, history>>
        /\ message_box' = <<>>
        /\ Goto("messages") \/ Return("Error")
    BY <1>1 DEF Answer, Handled, Dropped
  <1> QED BY <1>3, <1>4

LEMMA RefuseInv1 ==
    ASSUME Inv1, pc = "messages", message_box # <<>>,
           NEW reply \in Reply, Refuse(Head(message_box), reply)
    PROVE  Inv1'
  <1>1. instantiated' \subseteq VmId /\ suspended' \subseteq VmId
    BY HandlingFacts, EnsureTyped, SwapTyped DEF Refuse, Inv1
  <1>2. machine' \in [VmId -> Machine] /\ message_box' = <<>>
    BY HandlingFacts, ReplyTyped DEF Refuse, Handled, Inv1, TypeOK
  <1> QED BY <1>1, <1>2, QuietInv1 DEF Refuse, Handled, Inv1, TypeOK

LEMMA SpawnInv1 == Inv1 /\ (spawn_refused \/ spawn_fails \/ spawn_done) => Inv1'
  <1> SUFFICES ASSUME Inv1, spawn_refused \/ spawn_fails \/ spawn_done PROVE Inv1'
    OBVIOUS
  <1>0. /\ pc = "messages" /\ message_box # <<>> /\ Head(message_box).tag = "Spawn"
        /\ next_vm_id \in VmId /\ next_vm_id + 1 \in 0 .. MaxVms /\ next_vm_id \in Nat
        /\ vm_id_to_run \in VmId /\ Head(message_box).vm = vm_id_to_run
        /\ states[vm_id_to_run] = Runnable /\ outcome \in Resumable
        /\ Tail(message_box) = <<>>
    <2>1. pc = "messages" /\ message_box # <<>> /\ Head(message_box).tag = "Spawn"
      BY DEF spawn_refused, spawn_fails, spawn_done, Handling
    <2>2. next_vm_id < MaxVms
      BY <2>1, HandlingFacts DEF Checked
    <2>3. next_vm_id \in VmId /\ next_vm_id + 1 \in 0 .. MaxVms /\ next_vm_id \in Nat
      BY <2>2, TypesAssumption DEF Inv1, TypeOK, VmId, FIRST_VM_ID
    <2> QED BY <2>1, <2>3, HandlingFacts
  <1>1. CASE spawn_refused
    BY <1>0, <1>1, QuietInv1 DEF spawn_refused, Dropped, Inv1, TypeOK
  <1>2. CASE spawn_fails
    <2>1. instantiated' \subseteq VmId /\ suspended' \subseteq VmId
      <3>1. MakeRoom(instantiated) \in SUBSET VmId
        BY DEF MakeRoom, Inv1, TypeOK
      <3> QED BY <3>1, <1>2, SwapTyped DEF spawn_fails, Inv1
    <2>2. Ids'
      BY <1>0, <1>2, Root DEF spawn_fails, Ids, Inv1, Dropped, Return, Resumable
    <2> QED BY <1>0, <1>2, <2>1, <2>2, HandlerInv1 DEF spawn_fails, Dropped, Inv1, TypeOK
  <1>3. CASE spawn_done
    <2> DEFINE m == Head(message_box)
    <2>1. instantiated' \subseteq VmId /\ suspended' \subseteq VmId
      <3>1. MakeRoom(instantiated) \cup {next_vm_id} \in SUBSET VmId
        BY <1>0 DEF MakeRoom, Inv1, TypeOK
      <3>2. Admit(MakeRoom(instantiated) \cup {next_vm_id}, m.vm, {m.vm}) \in SUBSET VmId
        BY <3>1, <1>0, AdmitTyped
      <3> QED BY <3>2, <1>3, SwapTyped DEF spawn_done, Inv1
    <2>2. states' = [states EXCEPT ![next_vm_id] = Runnable] /\ next_vm_id' = next_vm_id + 1
      BY <1>3 DEF spawn_done
    <2>3. states' \in [VmId -> VmState]
      BY <2>2, StateValues DEF Inv1, TypeOK
    <2>4. pipes' \in [PipeId -> VmId \cup {NoVm}]
      BY <1>0, <1>3 DEF spawn_done, Passed, Inv1, TypeOK
    <2>5. Ids'
      <3>1. \A v \in VmId : v >= next_vm_id' => states'[v] = Absent
        BY <1>0, <2>2, Root DEF Ids, Inv1, TypeOK
      <3>2. states'[ROOT_VM_ID] # Absent
        BY <1>0, <2>2, Root, StateValues DEF Ids, Inv1, TypeOK
      <3> QED BY <3>1, <3>2 DEF Ids
    <2>6. /\ UNCHANGED <<total_cycles, terminated_vms, locals, history>>
          /\ message_box' = <<>>
          /\ Goto("messages") \/ Return("Error")
          /\ next_pipe_slot' \in Nat
      BY <1>0, <1>3 DEF spawn_done, Handled, Dropped, Inv1, TypeOK
    <2>7. machine' \in [VmId -> Machine]
      <3> DEFINE new == [cycles |-> LoadCycles, reply |-> NoReply]
                 mc == [machine EXCEPT ![next_vm_id] = new]
                 ok == [op |-> "spawn", code |-> SUCCESS]
      <3>1. new \in Machine /\ ok \in Reply
        BY StateAssumption, PlainReplies DEF Machine
      <3>2. mc \in [VmId -> Machine]
        BY <3>1 DEF Inv1, TypeOK
      <3>3. machine' = mc \/ machine' = [mc EXCEPT ![m.vm].reply = ok]
        BY <1>3 DEF spawn_done
      <3> HIDE DEF mc, ok, new
      <3>4. [mc EXCEPT ![m.vm].reply = ok] \in [VmId -> Machine]
        BY <3>1, <3>2 DEF Machine
      <3> QED BY <3>2, <3>3, <3>4
    <2> QED BY <1>0, <2>1, <2>2, <2>3, <2>4, <2>5, <2>6, <2>7, HandlerInv1
  <1> QED BY <1>1, <1>2, <1>3

LEMMA JoinInv1 == Inv1 /\ (join_terminated \/ join_unknown \/ join_waits) => Inv1'
  <1> SUFFICES ASSUME Inv1, join_terminated \/ join_unknown \/ join_waits PROVE Inv1'
    OBVIOUS
  <1> DEFINE m == Head(message_box)
  <1>0. /\ pc = "messages" /\ message_box # <<>> /\ m.tag = "Join" /\ m \in Message
        /\ vm_id_to_run \in VmId /\ m.vm = vm_id_to_run
        /\ states[vm_id_to_run] = Runnable /\ outcome \in Resumable
        /\ Tail(message_box) = <<>>
    BY HandlingFacts DEF join_terminated, join_unknown, join_waits, Handling
  <1>1. CASE join_terminated
    <2>1. JoinDone(m.target) \in Reply
      BY <1>1, JoinReplies DEF join_terminated, JoinDone, Inv1, TypeOK
    <2>2. instantiated' \subseteq VmId /\ suspended' \subseteq VmId
      BY <1>0, <1>1, EnsureTyped, SwapTyped DEF join_terminated, Inv1
    <2>3. Answer(m, JoinDone(m.target)) /\ UNCHANGED <<next_vm_id, next_pipe_slot, states, pipes>>
      BY <1>1 DEF join_terminated
    <2> QED BY <1>0, <2>1, <2>2, <2>3, AnswerFacts, QuietInv1 DEF Inv1, TypeOK
  <1>2. CASE join_unknown
    BY <1>0, <1>2, PlainReplies, RefuseInv1 DEF join_unknown
  <1>3. CASE join_waits
    <2> DEFINE s == [tag |-> "Join", target |-> m.target, addr |-> m.addr]
    <2>1. states' = [states EXCEPT ![m.vm] = s] /\ m.target \in VmId
      BY <1>3 DEF join_waits
    <2>2. s \in VmState /\ s # Absent
      <3>1. m \in JoinMessage
        BY <1>0 DEF Message, SpawnMessage, JoinMessage, PipeMessage, IoMessage
      <3> QED BY <2>1, <3>1, StateValues DEF JoinMessage, VmState, JoinState
    <2> HIDE DEF s
    <2>3. states' \in [VmId -> VmState]
      BY <2>1, <2>2 DEF Inv1, TypeOK
    <2>4. Ids'
      BY <1>0, <1>3, <2>1, <2>2, Root, StateValues
      DEF join_waits, Ids, Inv1, TypeOK, Goto
    <2> QED BY <1>0, <1>3, <2>3, <2>4, HandlerInv1 DEF join_waits, Handled, Inv1, TypeOK
  <1> QED BY <1>1, <1>2, <1>3

LEMMA TwoEndsTyped ==
    ASSUME NEW f \in [PipeId -> VmId \cup {NoVm}], NEW a, NEW b, NEW v \in VmId
    PROVE  [f EXCEPT ![a] = v, ![b] = v] \in [PipeId -> VmId \cup {NoVm}]
  OBVIOUS

LEMMA PipeInv1 == Inv1 /\ pipe_create => Inv1'
  <1> SUFFICES ASSUME Inv1, pipe_create PROVE Inv1'
    OBVIOUS
  <1> DEFINE m == Head(message_box)
             ok == [op |-> "pipe", code |-> SUCCESS]
  <1>0. /\ pc = "messages" /\ message_box # <<>>
        /\ vm_id_to_run \in VmId /\ m.vm = vm_id_to_run
    BY HandlingFacts DEF pipe_create, Handling
  <1>1. pipes' \in [PipeId -> VmId \cup {NoVm}] /\ next_pipe_slot' \in Nat
    <2>1. /\ pipes' = [pipes EXCEPT ![next_pipe_slot] = m.vm, ![next_pipe_slot + 1] = m.vm]
          /\ next_pipe_slot' = next_pipe_slot + 2
      BY DEF pipe_create, create
    <2>2. pipes \in [PipeId -> VmId \cup {NoVm}] /\ next_pipe_slot \in Nat
      BY DEF Inv1, TypeOK
    <2>3. pipes' \in [PipeId -> VmId \cup {NoVm}]
      BY <1>0, <2>1, <2>2, TwoEndsTyped
    <2> QED BY <2>1, <2>2, <2>3
  <1>2. instantiated' \subseteq VmId /\ suspended' \subseteq VmId
    BY <1>0, EnsureTyped, SwapTyped DEF pipe_create, Inv1
  <1>3. Answer(m, ok) /\ UNCHANGED <<next_vm_id, states>> /\ ok \in Reply
    BY PlainReplies DEF pipe_create
  <1> QED BY <1>0, <1>1, <1>2, <1>3, AnswerFacts, QuietInv1

LEMMA IoInv1 == Inv1 /\ (io_not_owner \/ io_other_end_closed \/ io_waits) => Inv1'
  <1> SUFFICES ASSUME Inv1, io_not_owner \/ io_other_end_closed \/ io_waits PROVE Inv1'
    OBVIOUS
  <1> DEFINE m == Head(message_box)
  <1>0. /\ pc = "messages" /\ message_box # <<>> /\ m.tag \in {"PipeRead", "PipeWrite"}
        /\ m \in Message /\ vm_id_to_run \in VmId /\ m.vm = vm_id_to_run
        /\ states[vm_id_to_run] = Runnable /\ outcome \in Resumable
        /\ Tail(message_box) = <<>>
    BY HandlingFacts DEF io_not_owner, io_other_end_closed, io_waits, HandlingIo, Handling
  <1>1. CASE io_not_owner
    BY <1>0, <1>1, PlainReplies, RefuseInv1 DEF io_not_owner, Op
  <1>2. CASE io_other_end_closed
    BY <1>0, <1>2, PlainReplies, RefuseInv1 DEF io_other_end_closed, Op
  <1>3. CASE io_waits
    <2>1. states' = [states EXCEPT ![m.vm] = Waiting(m)]
      BY <1>3 DEF io_waits
    <2>2. Waiting(m) \in VmState /\ Waiting(m) # Absent
      <3>1. m \in IoMessage
        BY <1>0 DEF Message, SpawnMessage, JoinMessage, PipeMessage, IoMessage
      <3>2. Waiting(m) \in ReadState \cup WriteState
        BY <3>1, TypesAssumption DEF Waiting, IoMessage, ReadState, WriteState, Length
      <3> QED BY <3>2, StateValues DEF VmState, ReadState, WriteState
    <2>3. states' \in [VmId -> VmState]
      BY <2>1, <2>2 DEF Inv1, TypeOK
    <2>4. Ids'
      BY <1>0, <1>3, <2>1, <2>2, Root, StateValues
      DEF io_waits, Ids, Inv1, TypeOK, Goto
    <2> QED BY <1>0, <1>3, <2>3, <2>4, HandlerInv1 DEF io_waits, Handled, Inv1, TypeOK
  <1> QED BY <1>1, <1>2, <1>3

-----------------------------------------------------------------------------
(* The match on the result, and the exit of a VM *)

LEMMA SettleInv1 == Inv1 /\ (yielded \/ stopped) => Inv1'
  <1> SUFFICES ASSUME Inv1, yielded \/ stopped PROVE Inv1' OBVIOUS
  <1> USE DEF Inv1
  <1>1. CASE yielded
    BY <1>1, StateAssumption
    DEF yielded, Settling, NextIteration, NextLimit, Goto, TypeOK, Phases, Messages, Ids,
        scheduler, history, Pc
  <1>2. CASE stopped
    <2>1. TypeOK'
      BY <1>2, StateAssumption
      DEF stopped, Settling, Return, TypeOK, scheduler, history, Pc, Outcome
    <2>2. Phases' /\ Messages' /\ Ids'
      BY <1>2 DEF stopped, Settling, Return, Phases, Messages, Ids, scheduler, Resumable
    <2> QED BY <2>1, <2>2
  <1> QED BY <1>1, <1>2

LEMMA OkResult ==
    ASSUME TypeOK, result.tag = "Ok"
    PROVE  result.code \in ExitCode
  BY DEF TypeOK, RunResult, RunError

LEMMA ExitRootInv1 == Inv1 /\ exit_root => Inv1'
  <1> SUFFICES ASSUME Inv1, exit_root PROVE Inv1' OBVIOUS
  <1> USE DEF Inv1
  <1>1. terminated_vms' \in [VmId -> ExitCode \cup {NotTerminated}]
    BY OkResult DEF exit_root, Settling, TypeOK
  <1>2. machine' \in [VmId -> Machine]
    BY StateAssumption, PlainReplies DEF exit_root, NoMachine, Machine, TypeOK
  <1>3. states' \in [VmId -> VmState] /\ instantiated' \subseteq VmId
    BY StateValues, Root DEF exit_root
  <1>4. TypeOK'
    BY <1>1, <1>2, <1>3, StateAssumption
    DEF exit_root, TypeOK, Return, NextLimit, history, Pc, Outcome
  <1>5. Phases' /\ Messages'
    BY DEF exit_root, Settling, Phases, Messages, Return, Resumable
  <1>6. next_vm_id > 0
    BY Root, StateValues DEF exit_root, Settling, Ids, Phases, TypeOK
  <1>7. Ids'
    BY <1>6, Root, StateValues DEF exit_root, Ids, TypeOK
  <1> QED BY <1>4, <1>5, <1>7

LEMMA ExitInv1 == Inv1 /\ (exit_begins \/ exit_ends) => Inv1'
  <1> SUFFICES ASSUME Inv1, exit_begins \/ exit_ends PROVE Inv1' OBVIOUS
  <1> USE DEF Inv1
  <1>1. CASE exit_begins
    <2>1. terminated_vms' \in [VmId -> ExitCode \cup {NotTerminated}]
      BY <1>1, OkResult DEF exit_begins, Settling, TypeOK
    <2>2. TypeOK'
      BY <1>1, <2>1 DEF exit_begins, TypeOK, Joiners, Goto, history, Pc
    <2>3. Phases'
      BY <1>1 DEF exit_begins, Settling, Phases, Joiners, Goto
    <2>4. Messages' /\ Ids'
      BY <1>1 DEF exit_begins, Settling, Messages, Ids, Goto
    <2> QED BY <2>2, <2>3, <2>4
  <1>2. CASE exit_ends
    <2>1. machine' \in [VmId -> Machine]
      <3>1. NoMachine \in Machine
        BY StateAssumption, PlainReplies DEF NoMachine, Machine
      <3>2. machine' = [machine EXCEPT ![vm_id_to_run] = NoMachine]
        BY <1>2 DEF exit_ends
      <3>3. machine \in [VmId -> Machine]
        BY DEF TypeOK
      <3> QED BY <3>1, <3>2, <3>3
    <2>2. /\ states' \in [VmId -> VmState] /\ pipes' \in [PipeId -> VmId \cup {NoVm}]
          /\ instantiated' \subseteq VmId /\ suspended' \subseteq VmId
      BY <1>2, StateValues DEF exit_ends, PipesLeft, TypeOK
    <2>3. TypeOK'
      BY <1>2, <2>1, <2>2, StateAssumption
      DEF exit_ends, TypeOK, NextIteration, NextLimit, Goto, history, Pc
    <2>4. Phases' /\ Messages'
      BY <1>2 DEF exit_ends, Phases, Messages, NextIteration, Goto
    <2>5. Ids'
      BY <1>2, Root DEF exit_ends, Phases, Ids, NextIteration, Goto, TypeOK
    <2> QED BY <2>3, <2>4, <2>5
  <1> QED BY <1>1, <1>2

LEMMA WakeInv1 ==
    ASSUME Inv1, NEW v \in VmId, wake_joiner(v)
    PROVE  Inv1'
  <1> USE DEF Inv1
  <1> DEFINE reply == [op |-> "join", code |-> SUCCESS, target |-> states[v].target,
                       exit |-> result.code]
  <1>0. /\ pc = "joiners" /\ v \in joining_vms /\ states[v].tag = "Join"
        /\ states[v].target = vm_id_to_run /\ vm_id_to_run \in VmId
        /\ v # vm_id_to_run /\ outcome \in Resumable
    BY StateValues DEF wake_joiner, FirstJoiner, Phases
  <1>1. reply \in Reply
    BY <1>0, OkResult, JoinReplies DEF Phases
  <1> HIDE DEF reply
  <1>2. instantiated' \subseteq VmId /\ suspended' \subseteq VmId
    BY EnsureTyped, SwapTyped DEF wake_joiner
  <1>3. CASE Wake(v, reply) /\ joining_vms' = joining_vms \ {v} /\ Goto("joiners")
    <2>1. machine' \in [VmId -> Machine] /\ states' \in [VmId -> VmState]
      BY <1>1, <1>3, ReplyTyped, StateValues DEF Wake, TypeOK
    <2>2. TypeOK'
      BY <2>1, <1>2, <1>3 DEF wake_joiner, TypeOK, Goto, history
    <2>3. \A u \in VmId : /\ u # v => states'[u] = states[u]
                          /\ states'[u] = Absent <=> states[u] = Absent
      BY <1>0, <1>3, StateValues DEF Wake, TypeOK
    <2>4. Phases'
      <3>1. joining_vms' \subseteq VmId \ {v} /\ joining_vms' \subseteq joining_vms
        BY <1>3 DEF TypeOK
      <3> QED BY <1>0, <1>3, <2>3, <3>1 DEF wake_joiner, Phases, Goto
    <2>5. Messages' /\ Ids'
      BY <1>0, <1>3, <2>3, Root DEF wake_joiner, Messages, Ids, Goto, Resumable
    <2> QED BY <2>2, <2>4, <2>5
  <1>4. CASE Return("Error") /\ UNCHANGED <<states, machine, joining_vms>>
    <2>1. TypeOK'
      BY <1>2, <1>4 DEF wake_joiner, TypeOK, Return, Pc, Outcome, history
    <2>2. Phases' /\ Messages' /\ Ids'
      BY <1>0, <1>4 DEF wake_joiner, Phases, Messages, Ids, Return, Resumable
    <2> QED BY <2>1, <2>2
  <1> QED BY <1>3, <1>4 DEF wake_joiner, reply

-----------------------------------------------------------------------------
(* Every step *)

LEMMA NextInv1 == Inv1 /\ [Next]_vars => Inv1'
  <1> SUFFICES ASSUME Inv1, [Next]_vars PROVE Inv1' OBVIOUS
  <1>1. CASE iterate
    BY <1>1, CollectInv1, ClosedInv1, PickInv1, WakeInv1, TransferInv1, DeadlockInv1,
       GuestInv1, SpawnInv1, JoinInv1, PipeInv1, IoInv1, SettleInv1, ExitRootInv1, ExitInv1
    DEF iterate, host
  <1>2. CASE Caller
    BY <1>2, BootInv1, RunInv1, CallerInv1 DEF Caller
  <1>3. CASE UNCHANGED vars
    BY <1>3 DEF vars, Inv1, TypeOK, Phases, Messages, Ids, scheduler, locals, history,
                Checked, Reading, Writing
  <1> QED BY <1>1, <1>2, <1>3 DEF Next

(* Inv1 holds in every state of the scheduler: at every point run() stops  *)
(* at, the VM it runs, its lists and the message box are as that point of  *)
(* iterate() needs them.                                                   *)
THEOREM Inv1Holds == Spec => []Inv1
  BY InitInv1, NextInv1, PTL DEF Spec

(* Every variable of the scheduler keeps its type: in particular ids and   *)
(* cycles stay in range, and what a writer has had consumed never passes   *)
(* what it asked to write.                                                 *)
THEOREM TypeCorrect == Spec => []TypeOK
  BY Inv1Holds, PTL DEF Inv1

LEMMA Inv1Drained == Inv1 => MessageBoxDrained
  <1> SUFFICES ASSUME Inv1 PROVE MessageBoxDrained OBVIOUS
  <1>1. CASE message_box = <<>>
    BY <1>1 DEF MessageBoxDrained
  <1>2. CASE message_box # <<>>
    <2>1. PICK m \in Message : message_box = <<m>>
      BY <1>2 DEF Inv1, Messages
    <2>2. m.vm = vm_id_to_run /\ result.tag = "YIELD"
      BY <1>2, <2>1, OneMessage DEF Inv1, Messages, Checked
    <2>3. Len(message_box) = 1 /\ \A i \in DOMAIN message_box : message_box[i] = m
      BY <2>1
    <2> QED BY <1>2, <2>2, <2>3 DEF MessageBoxDrained, Inv1, Messages
  <1> QED BY <1>1, <1>2

(* Whatever guests send and however run() ends, the message box is empty   *)
(* again when run() returns, except on an overflow of total_cycles: the    *)
(* assert after process_message_box() holds, and a scheduler that is run   *)
(* again never takes an old message for a new one.                         *)
THEOREM BoxDrained == Spec => []MessageBoxDrained
  BY Inv1Holds, Inv1Drained, PTL

-----------------------------------------------------------------------------
(***************************************************************************)
(* What VMs wait for, proved for any number of VMs and pipes: who owns     *)
(* which end of a pipe, and that no join is lost or answered wrongly.      *)
(***************************************************************************)

-----------------------------------------------------------------------------
(* Pipes *)

(* The slots not yet given out have no owner: a new pipe takes nothing     *)
(* from anyone.                                                            *)
SlotsFree == \A p \in PipeId : p >= next_pipe_slot => pipes[p] = NoVm

(* What process_io() holds of its two lists: the states it cloned are the  *)
(* current ones, the two sides of a pair are the two ends of one pipe, and *)
(* the VMs on the other list have lost the other end.                      *)
ListsFresh ==
    pc = "transfer" =>
        /\ \A v \in closed_pipes : ~OtherEndOpen(v)
        /\ \A x \in pairs : /\ states[x.reader] = x.rs
                            /\ states[x.writer] = x.ws
                            /\ x.rs.pipe = other_pipe(x.ws.pipe)

Inv2 == Inv1 /\ PipeOwnership /\ SlotsFree /\ ListsFresh

-----------------------------------------------------------------------------

LEMMA OtherEnd ==
    ASSUME NEW p \in PipeId
    PROVE  /\ p \in Nat
           /\ other_pipe(p) \in Nat
           /\ other_pipe(other_pipe(p)) = p
           /\ is_read(p) => is_write(other_pipe(p))
           /\ is_write(p) => is_read(other_pipe(p))
           /\ is_read(p) # is_write(p)
  BY TypesAssumption DEF PipeId, FIRST_PIPE_SLOT, other_pipe, is_read, is_write

LEMMA InitInv2 == Init => Inv2
  BY InitInv1, StateValues
  DEF Init, Inv2, PipeOwnership, SlotsFree, ListsFresh, Reading, Writing

(* Steps that leave states and pipes alone and are not in process_io(). *)
LEMMA QuietInv2 ==
    ASSUME Inv2, Inv1', UNCHANGED <<states, pipes, next_pipe_slot>>, pc' # "transfer"
    PROVE  Inv2'
  BY DEF Inv2, PipeOwnership, SlotsFree, ListsFresh, Reading, Writing, owns, Live

(* Steps that change the state of VMs only, to a state that waits on the   *)
(* same end or on none, or on an end the VM owns.                          *)
LEMMA StatesInv2 ==
    ASSUME Inv2, Inv1', UNCHANGED <<pipes, next_pipe_slot>>,
           \A v \in VmId : \/ states'[v] = states[v]
                           \/ /\ states[v] # Terminated /\ states'[v] # Absent
                              /\ Reading(v)' => owns(v, states'[v].pipe) /\ is_read(states'[v].pipe)
                              /\ Writing(v)' => owns(v, states'[v].pipe) /\ is_write(states'[v].pipe),
           ListsFresh'
    PROVE  Inv2'
  <1> USE DEF Inv2
  <1>1. SlotsFree'
    BY DEF SlotsFree
  <1>2. (\A v \in VmId : /\ Reading(v) => owns(v, states[v].pipe) /\ is_read(states[v].pipe)
                         /\ Writing(v) => owns(v, states[v].pipe) /\ is_write(states[v].pipe))'
    BY DEF PipeOwnership, Reading, Writing, owns
  <1>3. ASSUME (states[ROOT_VM_ID] # Terminated)', NEW p \in PipeId, pipes'[p] # NoVm
        PROVE  Live(pipes[p])'
    <2>1. states[ROOT_VM_ID] # Terminated
      BY <1>3, Root
    <2>2. pipes[p] \in VmId /\ Live(pipes[p])
      BY <1>3, <2>1 DEF PipeOwnership, Inv1, TypeOK
    <2> QED BY <2>2, WaitersAreLive DEF Live
  <1> QED BY <1>1, <1>2, <1>3 DEF PipeOwnership

-----------------------------------------------------------------------------
(* process_io() *)

LEMMA CollectInv2 == Inv2 /\ process_io => Inv2'
  <1> SUFFICES ASSUME Inv2, process_io PROVE Inv2' OBVIOUS
  <1>1. Inv1'
    BY CollectInv1 DEF Inv2
  <1>2. UNCHANGED <<states, pipes, next_pipe_slot>>
    BY DEF process_io, scheduler
  <1>3. ListsFresh'
    <2>1. \A v \in closed_pipes' : ~OtherEndOpen(v)
      BY DEF process_io
    <2>2. \A x \in pairs' : /\ states[x.reader] = x.rs /\ states[x.writer] = x.ws
                            /\ x.rs.pipe = other_pipe(x.ws.pipe)
      BY DEF process_io, Matched, Reads
    <2>3. (\A v \in closed_pipes : ~OtherEndOpen(v))'
      BY <2>1, <1>2 DEF OtherEndOpen, contains
    <2> QED BY <1>2, <2>2, <2>3 DEF ListsFresh
  <1> QED BY <1>1, <1>2, <1>3, StatesInv2

LEMMA PairEnds ==
    ASSUME Inv2, pc = "transfer", NEW x \in pairs
    PROVE  /\ x.reader \in VmId /\ x.writer \in VmId /\ x \in Pair
           /\ x.rs.pipe \in PipeId /\ x.ws.pipe \in PipeId
           /\ states[x.reader] = x.rs /\ states[x.writer] = x.ws
           /\ Reading(x.reader) /\ Writing(x.writer)
           /\ pipes[x.rs.pipe] = x.reader /\ pipes[x.ws.pipe] = x.writer
           /\ OtherEndOpen(x.reader) /\ OtherEndOpen(x.writer)
           /\ x.reader # x.writer
  <1>1. /\ x.reader \in VmId /\ x.writer \in VmId /\ x \in Pair
        /\ x.rs \in ReadState /\ x.ws \in WriteState
    BY DEF Inv2, Inv1, TypeOK, Pair
  <1>2. /\ x.rs.pipe \in PipeId /\ x.ws.pipe \in PipeId
        /\ x.rs.tag = "WaitForRead" /\ x.ws.tag = "WaitForWrite"
    BY <1>1 DEF ReadState, WriteState
  <1>3. /\ states[x.reader] = x.rs /\ states[x.writer] = x.ws
        /\ x.rs.pipe = other_pipe(x.ws.pipe)
    BY DEF Inv2, ListsFresh
  <1>4. Reading(x.reader) /\ Writing(x.writer) /\ x.reader # x.writer
    BY <1>2, <1>3 DEF Reading, Writing
  <1>5. pipes[x.rs.pipe] = x.reader /\ pipes[x.ws.pipe] = x.writer
    BY <1>1, <1>3, <1>4 DEF Inv2, PipeOwnership, owns
  <1>6. x.ws.pipe = other_pipe(x.rs.pipe)
    BY <1>2, <1>3, OtherEnd
  <1>7. x.reader # NoVm /\ x.writer # NoVm
    BY <1>1, Root DEF NoVm
  <1> QED BY <1>1, <1>2, <1>3, <1>4, <1>5, <1>6, <1>7 DEF OtherEndOpen, contains

(* Each VM is in one pair at most, since an end has one owner. *)
LEMMA PairsApart ==
    ASSUME Inv2, pc = "transfer", NEW x \in pairs, NEW y \in pairs, x # y
    PROVE  /\ x.reader # y.reader /\ x.writer # y.writer
           /\ x.reader # y.writer /\ x.writer # y.reader
  <1>1. x.rs.pipe = other_pipe(x.ws.pipe) /\ y.rs.pipe = other_pipe(y.ws.pipe)
    BY DEF Inv2, ListsFresh
  <1>2. x.reader # y.writer /\ x.writer # y.reader
    BY PairEnds DEF Reading, Writing
  <1>3. x.reader = y.reader <=> x.writer = y.writer
    BY <1>1, PairEnds, OtherEnd
  <1>4. x.reader = y.reader /\ x.writer = y.writer => x = y
    <2>1. x \in Pair /\ y \in Pair
      BY PairEnds
    <2>2. x.reader = y.reader /\ x.writer = y.writer => x.rs = y.rs /\ x.ws = y.ws
      BY PairEnds
    <2> QED BY <2>1, <2>2 DEF Pair
  <1> QED BY <1>2, <1>3, <1>4

LEMMA ClosedInv2 ==
    ASSUME Inv2, NEW v \in VmId, finish_closed(v)
    PROVE  Inv2'
  <1>1. Inv1'
    BY ClosedInv1 DEF Inv2
  <1>2. UNCHANGED <<pipes, next_pipe_slot, pairs>> /\ v \in closed_pipes /\ pc = "transfer"
    BY DEF finish_closed, FirstClosed
  <1>3. CASE UNCHANGED states /\ pc' # "transfer"
    BY <1>1, <1>2, <1>3, QuietInv2
  <1>4. CASE /\ states' = [states EXCEPT ![v] = Runnable]
             /\ closed_pipes' = closed_pipes \ {v}
    <2>1. \A u \in VmId : u # v => states'[u] = states[u]
      BY <1>4 DEF Inv2, Inv1, TypeOK
    <2>2. states'[v] = Runnable /\ states[v] # Terminated
      BY <1>2, <1>4, StateValues DEF Inv2, Inv1, TypeOK, Phases, Reading, Writing
    <2>3. ListsFresh'
      <3>1. (\A u \in closed_pipes : ~OtherEndOpen(u))'
        BY <1>2, <1>4, <2>1 DEF Inv2, Inv1, TypeOK, ListsFresh, OtherEndOpen, contains
      <3>2. \A x \in pairs : x.reader # v /\ x.writer # v
        BY <1>2, PairEnds DEF Inv2, ListsFresh
      <3> QED BY <1>2, <2>1, <3>1, <3>2, PairEnds DEF Inv2, ListsFresh
    <2> QED BY <1>1, <1>2, <2>1, <2>2, <2>3, StatesInv2, StateValues DEF Reading, Writing
  <1> QED BY <1>3, <1>4 DEF finish_closed, Wake, Return, Goto

LEMMA TransferInv2 ==
    ASSUME Inv2, NEW x \in pairs, transfer(x)
    PROVE  Inv2'
  <1> DEFINE n == x.ws.consumed + copiable(x)
  <1>1. Inv1'
    BY TransferInv1 DEF Inv2
  <1>2. UNCHANGED <<pipes, next_pipe_slot, closed_pipes>> /\ pc = "transfer" /\ closed_pipes = {}
    BY DEF transfer
  <1>3. CASE UNCHANGED states /\ pc' # "transfer"
    BY <1>1, <1>2, <1>3, QuietInv2
  <1>4. CASE states' = [states EXCEPT ![x.reader] = Runnable] /\ pc' # "transfer"
    <2>1. \A u \in VmId : u # x.reader => states'[u] = states[u]
      BY <1>4 DEF Inv2, Inv1, TypeOK
    <2>2. states'[x.reader] = Runnable /\ states[x.reader] # Terminated
      BY <1>2, <1>4, PairEnds, StateValues DEF Inv2, Inv1, TypeOK, Reading
    <2>3. ListsFresh'
      BY <1>4 DEF ListsFresh
    <2> QED BY <1>1, <1>2, <2>1, <2>2, <2>3, StatesInv2, StateValues DEF Reading, Writing
  <1>5. CASE /\ states' = [states EXCEPT ![x.reader] = Runnable, ![x.writer] = Written(x, n)]
             /\ pairs' = pairs \ {x}
    <2>1. \A u \in VmId : u \notin {x.reader, x.writer} => states'[u] = states[u]
      BY <1>5 DEF Inv2, Inv1, TypeOK
    <2>2. states'[x.reader] = Runnable /\ states'[x.writer] = Written(x, n)
      BY <1>2, <1>5, PairEnds DEF Inv2, Inv1, TypeOK
    <2>3. states[x.reader] # Terminated /\ states[x.writer] # Terminated
      BY <1>2, PairEnds, StateValues DEF Reading, Writing
    <2>4. ListsFresh'
      <3>1. \A y \in pairs' : y.reader \notin {x.reader, x.writer} /\ y.writer \notin {x.reader, x.writer}
        BY <1>2, <1>5, PairsApart
      <3> QED BY <1>2, <1>5, <2>1, <3>1, PairEnds DEF Inv2, ListsFresh
    <2>5. \/ Written(x, n) = Runnable
          \/ Written(x, n).tag = "WaitForWrite" /\ Written(x, n).pipe = x.ws.pipe
      BY <1>2, PairEnds DEF Written, Pair, WriteState
    <2>6. owns(x.writer, x.ws.pipe) /\ is_write(x.ws.pipe)
      BY <1>2, PairEnds DEF Inv2, PipeOwnership
    <2> HIDE DEF n
    <2>7. Written(x, n) # Absent /\ Written(x, n).tag # "WaitForRead"
      BY <2>5, StateValues
    <2> QED
      <3>1. ASSUME NEW u \in VmId
            PROVE  \/ states'[u] = states[u]
                   \/ /\ states[u] # Terminated /\ states'[u] # Absent
                      /\ Reading(u)' => owns(u, states'[u].pipe) /\ is_read(states'[u].pipe)
                      /\ Writing(u)' => owns(u, states'[u].pipe) /\ is_write(states'[u].pipe)
        <4>1. CASE u = x.reader
          BY <4>1, <2>2, <2>3, StateValues DEF Reading, Writing
        <4>2. CASE u = x.writer
          BY <4>2, <2>2, <2>3, <2>5, <2>6, <2>7, StateValues DEF Reading, Writing
        <4> QED BY <4>1, <4>2, <2>1
      <3> QED BY <1>1, <1>2, <2>4, <3>1, StatesInv2
  <1> QED BY <1>3, <1>4, <1>5 DEF transfer, Wake, Return, WriterFails, Goto

-----------------------------------------------------------------------------
(* The rest of iterate() *)

(* A step of run() outside of the handlers and exits moves no VM and no    *)
(* pipe.                                                                   *)
Still ==
    \/ \E v \in VmId : pick(v)
    \/ deadlock \/ Guest \/ spawn_refused \/ spawn_fails
    \/ join_terminated \/ join_unknown \/ io_not_owner \/ io_other_end_closed
    \/ yielded \/ stopped \/ exit_begins
    \/ \E md, l : run_on(md, l)
    \/ suspend \/ resume \/ dropped

LEMMA StillFacts ==
    ASSUME Inv1, Still
    PROVE  UNCHANGED <<states, pipes, next_pipe_slot>> /\ pc' # "transfer"
  <1>1. CASE Guest
    BY <1>1, GuestSteps DEF inline, SliceEnds, Sliced, scheduler
  <1>2. CASE \/ join_terminated \/ join_unknown \/ io_not_owner \/ io_other_end_closed
             \/ spawn_refused \/ spawn_fails
    BY <1>2
    DEF join_terminated, join_unknown, io_not_owner, io_other_end_closed, spawn_refused,
        spawn_fails, Answer, Refuse, Dropped, Handled, Return, Goto
  <1>3. CASE (\E v \in VmId : pick(v)) \/ deadlock \/ yielded \/ stopped \/ exit_begins
    BY <1>3
    DEF pick, deadlock, yielded, stopped, exit_begins, NextIteration, Return, Goto, scheduler
  <1>4. CASE (\E md, l : run_on(md, l)) \/ suspend \/ resume \/ dropped
    BY <1>4
    DEF run_on, Called, suspend, resume, dropped, Return, Goto, scheduler, vars
  <1> QED BY <1>1, <1>2, <1>3, <1>4 DEF Still

LEMMA BootInv2 ==
    ASSUME Inv2, NEW md, NEW l, run_boot(md, l)
    PROVE  Inv2'
  <1>1. Inv1'
    BY BootInv1 DEF Inv2
  <1>2. UNCHANGED <<pipes, next_pipe_slot>> /\ pc' # "transfer"
    BY DEF run_boot, Return
  <1>3. CASE UNCHANGED states
    BY <1>1, <1>2, <1>3, QuietInv2
  <1>4. CASE states' = [states EXCEPT ![next_vm_id] = Runnable]
    <2>1. \A v \in VmId : states[v] # Terminated
      BY StateValues DEF run_boot, Live
    <2>2. \A v \in VmId : states'[v] = states[v] \/ states'[v] = Runnable
      BY <1>4 DEF Inv2, Inv1, TypeOK
    <2>3. ListsFresh'
      BY <1>2 DEF ListsFresh
    <2> QED BY <1>1, <1>2, <2>1, <2>2, <2>3, StatesInv2, StateValues DEF Reading, Writing
  <1> QED BY <1>3, <1>4 DEF run_boot, Booted

(* The state of one VM changes, to s. *)
LEMMA OneStateInv2 ==
    ASSUME Inv2, Inv1', UNCHANGED <<pipes, next_pipe_slot>>, pc' # "transfer",
           NEW v \in VmId, states[v] # Terminated, NEW s, s # Absent,
           s.tag = "WaitForRead" => owns(v, s.pipe) /\ is_read(s.pipe),
           s.tag = "WaitForWrite" => owns(v, s.pipe) /\ is_write(s.pipe),
           states' = [states EXCEPT ![v] = s]
    PROVE  Inv2'
  <1>1. \A u \in VmId : states'[u] = states[u] \/ (u = v /\ states'[u] = s)
    BY DEF Inv2, Inv1, TypeOK
  <1>2. ListsFresh'
    BY DEF ListsFresh
  <1> QED BY <1>1, <1>2, StatesInv2 DEF Reading, Writing

LEMMA WaitsInv2 == Inv2 /\ (join_waits \/ io_waits) => Inv2'
  <1> SUFFICES ASSUME Inv2, join_waits \/ io_waits PROVE Inv2' OBVIOUS
  <1> DEFINE m == Head(message_box)
  <1>0. Inv1'
    BY JoinInv1, IoInv1 DEF Inv2
  <1>1. pc = "messages" /\ message_box # <<>>
    BY DEF join_waits, io_waits, HandlingIo, Handling
  <1>2. /\ m.vm \in VmId /\ states[m.vm] # Terminated /\ Checked(m)
    BY <1>1, HandlingFacts, StateValues DEF Inv2
  <1>3. UNCHANGED <<pipes, next_pipe_slot>> /\ pc' # "transfer"
    BY DEF join_waits, io_waits, Goto
  <1>4. CASE join_waits
    <2> DEFINE s == [tag |-> "Join", target |-> m.target, addr |-> m.addr]
    <2>1. states' = [states EXCEPT ![m.vm] = s]
      BY <1>4 DEF join_waits
    <2>2. s.tag = "Join" /\ s # Absent
      BY StateValues
    <2> HIDE DEF s, m
    <2> QED BY <1>0, <1>2, <1>3, <2>1, <2>2, OneStateInv2
  <1>5. CASE io_waits
    <2>1. states' = [states EXCEPT ![m.vm] = Waiting(m)] /\ owns(m.vm, m.pipe)
      BY <1>5 DEF io_waits
    <2>2. /\ Waiting(m).pipe = m.pipe
          /\ Waiting(m).tag = IF m.tag = "PipeRead" THEN "WaitForRead" ELSE "WaitForWrite"
      BY DEF Waiting
    <2>3. Waiting(m) # Absent
      BY <2>2, StateValues
    <2>4. m.tag \in {"PipeRead", "PipeWrite"}
      BY <1>5 DEF io_waits, HandlingIo, Handling
    <2> HIDE DEF m
    <2> QED BY <1>0, <1>2, <1>3, <2>1, <2>2, <2>3, <2>4, OneStateInv2 DEF Checked
  <1> QED BY <1>4, <1>5

LEMMA WakeInv2 ==
    ASSUME Inv2, NEW v \in VmId, wake_joiner(v)
    PROVE  Inv2'
  <1>1. Inv1'
    BY WakeInv1 DEF Inv2
  <1>2. UNCHANGED <<pipes, next_pipe_slot>> /\ pc' # "transfer"
    BY DEF wake_joiner, Goto, Return
  <1>3. states[v] # Terminated
    BY StateValues DEF Inv2, Inv1, Phases, wake_joiner, FirstJoiner
  <1>4. CASE UNCHANGED states
    BY <1>1, <1>2, <1>4, QuietInv2
  <1>5. CASE states' = [states EXCEPT ![v] = Runnable]
    BY <1>1, <1>2, <1>3, <1>5, OneStateInv2, StateValues
  <1> QED BY <1>4, <1>5 DEF wake_joiner, Wake

-----------------------------------------------------------------------------
(* The steps that change owners *)

(* How owners change in one step: to a new pipe's creator, from a spawner  *)
(* to the VM it spawns, or to nobody when a VM exits.                      *)
Moves ==
    \A p \in PipeId : pipes[p] # pipes'[p] =>
        \/ pipes[p] = NoVm /\ p >= next_pipe_slot /\ pipes'[p] = vm_id_to_run
        \/ pipes[p] = vm_id_to_run /\ pipes'[p] \in {NoVm, next_vm_id}

LEMMA SpawnInv2 == Inv2 /\ spawn_done => Inv2' /\ Moves
  <1> SUFFICES ASSUME Inv2, spawn_done PROVE Inv2' /\ Moves OBVIOUS
  <1> DEFINE m == Head(message_box)
             v == next_vm_id
  <1>0. Inv1'
    BY SpawnInv1 DEF Inv2
  <1>1. /\ pc = "messages" /\ message_box # <<>> /\ m.tag = "Spawn"
        /\ pipes' = Passed(m, v) /\ MayPass(m) /\ states' = [states EXCEPT ![v] = Runnable]
        /\ next_pipe_slot' = next_pipe_slot /\ pc' # "transfer"
    BY DEF spawn_done, Handling, Return, Goto, Dropped
  <1>2. /\ m.vm = vm_id_to_run /\ vm_id_to_run \in VmId /\ states[vm_id_to_run] = Runnable
        /\ v < MaxVms
    BY <1>1, HandlingFacts DEF Inv2, Checked
  <1>3. v \in VmId /\ states[v] = Absent /\ v # vm_id_to_run /\ v # NoVm /\ v # ROOT_VM_ID
    <2>1. v \in VmId
      BY <1>2, TypesAssumption DEF Inv2, Inv1, TypeOK, VmId, FIRST_VM_ID
    <2>2. states[v] = Absent /\ v # vm_id_to_run
      <3>1. v >= next_vm_id
        BY <2>1, Root
      <3> QED BY <1>2, <2>1, <3>1, StateValues DEF Inv2, Inv1, Ids
    <2>3. vm_id_to_run < v
      BY <1>2, <2>1, Root, StateValues DEF Inv2, Inv1, Ids
    <2> QED BY <1>2, <2>1, <2>2, <2>3, Root DEF NoVm
  <1> HIDE DEF m, v
  <1>4. \A p \in PipeId : IF p \in m.pipes THEN pipes[p] = vm_id_to_run /\ pipes'[p] = v
                                           ELSE pipes'[p] = pipes[p]
    BY <1>1, <1>2 DEF Passed, MayPass, owns
  <1>5. states'[v] = Runnable /\ \A u \in VmId : u # v => states'[u] = states[u]
    BY <1>1, <1>3 DEF Inv2, Inv1, TypeOK
  <1>6. PipeOwnership'
    <2>1. ASSUME NEW u \in VmId, (Reading(u) \/ Writing(u))'
          PROVE  /\ states'[u] = states[u] /\ owns(u, states[u].pipe) /\ u # vm_id_to_run
                 /\ pipes'[states[u].pipe] = u
      <3>1. u # v /\ states'[u] = states[u] /\ u # vm_id_to_run
        BY <1>2, <1>3, <1>5, <2>1, StateValues DEF Reading, Writing
      <3>2. owns(u, states[u].pipe)
        BY <2>1, <3>1 DEF Inv2, PipeOwnership, Reading, Writing
      <3> QED BY <1>4, <3>1, <3>2 DEF owns
    <2>2. (\A u \in VmId : /\ Reading(u) => owns(u, states[u].pipe) /\ is_read(states[u].pipe)
                           /\ Writing(u) => owns(u, states[u].pipe) /\ is_write(states[u].pipe))'
      BY <2>1 DEF Inv2, PipeOwnership, Reading, Writing, owns
    <2>3. ASSUME states'[ROOT_VM_ID] # Terminated, NEW p \in PipeId, pipes'[p] # NoVm
          PROVE  states'[pipes'[p]] # Absent
      <3>1. states[ROOT_VM_ID] # Terminated
        BY <2>3, <1>3, <1>5, Root
      <3>2. CASE pipes'[p] = v
        BY <3>2, <1>5, StateValues
      <3>3. CASE pipes'[p] # v
        BY <3>1, <3>3, <1>4, <1>5, <2>3 DEF Inv2, Inv1, TypeOK, PipeOwnership, Live
      <3> QED BY <3>2, <3>3
    <2> QED BY <2>2, <2>3 DEF PipeOwnership, Live
  <1>7. SlotsFree'
    BY <1>1, <1>2, <1>4, Root DEF Inv2, SlotsFree, NoVm
  <1>8. ListsFresh' /\ Moves
    BY <1>1, <1>4 DEF ListsFresh, Moves, v
  <1> QED BY <1>0, <1>6, <1>7, <1>8 DEF Inv2

LEMMA CreateInv2 == Inv2 /\ pipe_create => Inv2' /\ Moves
  <1> SUFFICES ASSUME Inv2, pipe_create PROVE Inv2' /\ Moves OBVIOUS
  <1> DEFINE m == Head(message_box)
             slot == next_pipe_slot
  <1>0. Inv1'
    BY PipeInv1 DEF Inv2
  <1>1. /\ pc = "messages" /\ message_box # <<>>
        /\ pipes' = [pipes EXCEPT ![slot] = m.vm, ![slot + 1] = m.vm]
        /\ next_pipe_slot' = slot + 2 /\ states' = states /\ pc' # "transfer"
    BY DEF pipe_create, Handling, create, Answer, Dropped, Return, Goto
  <1>2. m.vm = vm_id_to_run /\ vm_id_to_run \in VmId /\ states[vm_id_to_run] = Runnable
    BY <1>1, HandlingFacts DEF Inv2
  <1>3. slot \in Nat /\ pipes \in [PipeId -> VmId \cup {NoVm}]
    BY DEF Inv2, Inv1, TypeOK
  <1> HIDE DEF m, slot
  <1>4. \A p \in PipeId : \/ pipes'[p] = pipes[p] /\ p \notin {slot, slot + 1}
                          \/ pipes'[p] = vm_id_to_run /\ p \in {slot, slot + 1}
    BY <1>1, <1>2, <1>3
  <1>5. \A p \in PipeId : p \in {slot, slot + 1} => pipes[p] = NoVm /\ p >= slot
    BY <1>3, OtherEnd DEF Inv2, SlotsFree, slot
  <1>6. PipeOwnership'
    <2>1. (\A u \in VmId : /\ Reading(u) => owns(u, states[u].pipe) /\ is_read(states[u].pipe)
                           /\ Writing(u) => owns(u, states[u].pipe) /\ is_write(states[u].pipe))'
      <3>1. ASSUME NEW u \in VmId, Reading(u) \/ Writing(u)
            PROVE  owns(u, states[u].pipe) /\ pipes'[states[u].pipe] = u
        <4>1. owns(u, states[u].pipe) /\ u # NoVm
          BY <3>1, Root DEF Inv2, PipeOwnership, NoVm
        <4> QED BY <1>4, <1>5, <4>1 DEF owns
      <3> QED BY <1>1, <3>1 DEF Inv2, PipeOwnership, Reading, Writing, owns
    <2>2. ASSUME states'[ROOT_VM_ID] # Terminated, NEW p \in PipeId, pipes'[p] # NoVm
          PROVE  states'[pipes'[p]] # Absent
      BY <1>1, <1>2, <1>4, <2>2, StateValues DEF Inv2, PipeOwnership, Live
    <2> QED BY <2>1, <2>2 DEF PipeOwnership, Live
  <1>7. SlotsFree'
    BY <1>1, <1>3, <1>4, OtherEnd DEF Inv2, SlotsFree, slot
  <1>8. ListsFresh' /\ Moves
    BY <1>1, <1>4, <1>5 DEF ListsFresh, Moves, slot
  <1> QED BY <1>0, <1>6, <1>7, <1>8 DEF Inv2

LEMMA ExitInv2 == Inv2 /\ (exit_ends \/ exit_root) => Inv2' /\ Moves
  <1> SUFFICES ASSUME Inv2, exit_ends \/ exit_root PROVE Inv2' /\ Moves OBVIOUS
  <1>0. Inv1'
    BY ExitInv1, ExitRootInv1 DEF Inv2
  <1>1. CASE exit_ends
    <2>1. /\ vm_id_to_run \in VmId /\ states[vm_id_to_run] = Runnable
          /\ vm_id_to_run # ROOT_VM_ID
      BY <1>1 DEF exit_ends, Inv2, Inv1, Phases
    <2>2. /\ states' = [states EXCEPT ![vm_id_to_run] = Absent] /\ pipes' = PipesLeft(vm_id_to_run)
          /\ next_pipe_slot' = next_pipe_slot /\ pc' # "transfer"
      BY <1>1 DEF exit_ends, NextIteration, Goto
    <2>3. \A p \in PipeId : IF pipes[p] = vm_id_to_run THEN pipes'[p] = NoVm ELSE pipes'[p] = pipes[p]
      BY <2>2 DEF PipesLeft
    <2>4. /\ states'[vm_id_to_run] = Absent
          /\ \A u \in VmId : u # vm_id_to_run => states'[u] = states[u]
      BY <2>1, <2>2 DEF Inv2, Inv1, TypeOK
    <2>5. (\A u \in VmId : /\ Reading(u) => owns(u, states[u].pipe) /\ is_read(states[u].pipe)
                           /\ Writing(u) => owns(u, states[u].pipe) /\ is_write(states[u].pipe))'
      <3>1. ASSUME NEW u \in VmId, (Reading(u) \/ Writing(u))'
            PROVE  u # vm_id_to_run /\ states'[u] = states[u]
        BY <2>4, <3>1, StateValues DEF Reading, Writing
      <3> QED BY <2>3, <3>1 DEF Inv2, PipeOwnership, Reading, Writing, owns
    <2>6. ASSUME states'[ROOT_VM_ID] # Terminated, NEW p \in PipeId, pipes'[p] # NoVm
          PROVE  states'[pipes'[p]] # Absent
      <3>1. pipes[p] # vm_id_to_run /\ pipes'[p] = pipes[p] /\ pipes[p] # NoVm
        BY <2>3, <2>6
      <3>2. pipes[p] \in VmId
        BY <3>1 DEF Inv2, Inv1, TypeOK
      <3>3. states[ROOT_VM_ID] # Terminated
        BY <2>1, <2>4, <2>6, Root
      <3> QED BY <2>4, <3>1, <3>2, <3>3 DEF Inv2, PipeOwnership, Live
    <2>7. PipeOwnership'
      BY <2>5, <2>6 DEF PipeOwnership, Live
    <2>8. SlotsFree' /\ ListsFresh' /\ Moves
      BY <2>2, <2>3 DEF Inv2, SlotsFree, ListsFresh, Moves
    <2> QED BY <1>0, <2>7, <2>8 DEF Inv2
  <1>2. CASE exit_root
    <2>1. /\ states' = [v \in VmId |-> IF v = ROOT_VM_ID THEN Terminated ELSE Absent]
          /\ UNCHANGED <<pipes, next_pipe_slot>> /\ pc' # "transfer"
      BY <1>2 DEF exit_root, Return
    <2>2. \A v \in VmId : ~(Reading(v) \/ Writing(v))'
      BY <2>1, StateValues DEF Reading, Writing
    <2>3. states'[ROOT_VM_ID] = Terminated
      BY <2>1, Root
    <2> QED BY <1>0, <2>1, <2>2, <2>3 DEF Inv2, PipeOwnership, SlotsFree, ListsFresh, Moves
  <1> QED BY <1>1, <1>2

-----------------------------------------------------------------------------

LEMMA NextInv2 == Inv2 /\ [Next]_vars => Inv2' /\ Moves
  <1> SUFFICES ASSUME Inv2, [Next]_vars PROVE Inv2' /\ Moves OBVIOUS
  <1>0. Inv1 /\ Inv1'
    BY NextInv1 DEF Inv2
  <1>1. CASE Still
    BY <1>0, <1>1, StillFacts, QuietInv2 DEF Moves
  <1>2. CASE \/ process_io \/ (\E v \in VmId : finish_closed(v) \/ wake_joiner(v))
             \/ (\E x \in pairs : transfer(x)) \/ join_waits \/ io_waits
             \/ \E md, l : run_boot(md, l)
    <2>1. Inv2'
      BY <1>2, CollectInv2, ClosedInv2, WakeInv2, TransferInv2, WaitsInv2, BootInv2
    <2>2. UNCHANGED pipes
      BY <1>2 DEF process_io, finish_closed, wake_joiner, transfer, join_waits, io_waits, run_boot,
                  scheduler
    <2> QED BY <2>1, <2>2 DEF Moves
  <1>3. CASE spawn_done \/ pipe_create \/ exit_ends \/ exit_root
    BY <1>3, SpawnInv2, CreateInv2, ExitInv2
  <1>4. CASE UNCHANGED vars
    BY <1>0, <1>4 DEF vars, scheduler, locals, Inv2, PipeOwnership, SlotsFree, ListsFresh, Moves,
                      Reading, Writing, owns, contains, Live, OtherEndOpen
  <1> QED BY <1>1, <1>2, <1>3, <1>4 DEF Next, iterate, host, Caller, Still

(* Inv2 holds in every state: besides the ownership of pipes, the states   *)
(* process_io() cloned are still current when their turn comes.            *)
THEOREM Inv2Holds == Spec => []Inv2
  <1>1. Inv2 /\ [Next]_vars => Inv2'
    BY NextInv2
  <1> QED BY InitInv2, <1>1, PTL DEF Spec

(* A VM blocked in pipe_read or pipe_write owns the end it waits on, and   *)
(* every end in use belongs to a VM that exists: for any number of VMs and *)
(* pipes, however ends are passed on by spawn and closed by exits.         *)
THEOREM Ownership == Spec => []PipeOwnership
  <1>1. Inv2 => PipeOwnership
    BY DEF Inv2
  <1> QED BY Inv2Holds, <1>1, PTL

(* No step of the scheduler reopens a closed end, and none takes an end    *)
(* from a VM other than the one that was run.                              *)
THEOREM ChangeHands == Spec => PipesChangeHands
  <1>1. Inv2 /\ [Next]_vars => [Moves]_vars
    BY NextInv2
  <1> QED BY Inv2Holds, <1>1, PTL DEF Spec, PipesChangeHands, Moves

-----------------------------------------------------------------------------
(* Joins *)

(* A VM has an exit code only once it has run, and a VM that can still run *)
(* has none, except the one whose exit is in progress.                     *)
Exited ==
    /\ \A v \in VmId : v >= next_vm_id => terminated_vms[v] = NotTerminated
    /\ Usable => \A v \in VmId : states[v] \notin {Absent, Terminated} =>
          terminated_vms[v] = NotTerminated \/ (pc = "joiners" /\ v = vm_id_to_run)
    /\ pc = "joiners" => terminated_vms[vm_id_to_run] = result.code

Inv3 == Inv1 /\ JoinTargetLive /\ JoinReturnsExitCode /\ Exited

(* What JoinReturnsExitCode says of one reply. *)
JoinOk(r) == r.op = "join" /\ r.code = SUCCESS => terminated_vms[r.target] = r.exit

(* A step stores no reply that is not right. *)
RepliesKept ==
    \A v \in VmId : machine'[v].reply = machine[v].reply \/ JoinOk(machine'[v].reply)

(* A VM's state stays, or changes to one it may have while no exit is in   *)
(* progress.                                                               *)
StatesKept ==
    \A v \in VmId :
        \/ states'[v] = states[v]
        \/ /\ states'[v] # Absent /\ states[v] # Terminated
           /\ states[v] # Absent \/ terminated_vms[v] = NotTerminated
           /\ states'[v].tag = "Join" =>
                /\ states'[v].target \in VmId
                /\ terminated_vms[states'[v].target] = NotTerminated
                /\ states[states'[v].target] # Absent

-----------------------------------------------------------------------------

LEMMA OneReply ==
    ASSUME NEW mc \in [VmId -> Machine], NEW v, NEW reply
    PROVE  \A u \in VmId : [mc EXCEPT ![v].reply = reply][u].reply \in {mc[u].reply, reply}
  BY DEF Machine

LEMMA TwoReplies ==
    ASSUME NEW mc \in [VmId -> Machine], NEW v, NEW w, NEW a, NEW b, NEW done
    PROVE  \A u \in VmId :
              [mc EXCEPT ![v].reply = a, ![w].reply = IF done THEN b ELSE @][u].reply
                \in {mc[u].reply, a, b}
  BY DEF Machine

LEMMA OneCount ==
    ASSUME NEW mc \in [VmId -> Machine], NEW v, NEW c
    PROVE  \A u \in VmId : [mc EXCEPT ![v].cycles = c][u].reply = mc[u].reply
  BY DEF Machine

LEMMA JoinTargets ==
    ASSUME TypeOK, NEW v \in VmId, states[v].tag = "Join"
    PROVE  states[v].target \in VmId
  BY StateKinds DEF TypeOK, JoinState

LEMMA InitInv3 == Init => Inv3
  BY InitInv1, StateValues
  DEF Init, Inv3, JoinTargetLive, JoinReturnsExitCode, Exited, NoReply

LEMMA KeptInv3 ==
    ASSUME Inv3, Inv1', UNCHANGED terminated_vms, pc # "joiners", pc' # "joiners",
           Usable' => Usable, next_vm_id' \in {next_vm_id, next_vm_id + 1},
           StatesKept, RepliesKept
    PROVE  Inv3'
  <1> USE DEF Inv3
  <1>1. JoinReturnsExitCode'
    BY DEF JoinReturnsExitCode, RepliesKept, JoinOk
  <1>2. JoinTargetLive'
    <2>1. ASSUME Usable', NEW v \in VmId, states'[v].tag = "Join"
          PROVE  /\ states'[v].target \in VmId
                 /\ terminated_vms[states'[v].target] = NotTerminated
                 /\ states[states'[v].target] # Absent
      <3>1. CASE states'[v] = states[v]
        BY <2>1, <3>1, JoinTargets DEF JoinTargetLive, Live, Inv1
      <3> QED BY <2>1, <3>1 DEF StatesKept
    <2>2. \A t \in VmId : states[t] # Absent => states'[t] # Absent
      BY DEF StatesKept
    <2> QED BY <2>1, <2>2 DEF JoinTargetLive, Live
  <1>3. Exited'
    <2>1. \A v \in VmId : v >= next_vm_id' => terminated_vms'[v] = NotTerminated
      <3>1. next_vm_id \in Int
        BY DEF Inv1, TypeOK
      <3>2. \A v \in VmId : v >= next_vm_id' => v >= next_vm_id
        BY <3>1, Root
      <3> QED BY <3>2 DEF Exited
    <2>2. ASSUME Usable', NEW v \in VmId, states'[v] \notin {Absent, Terminated}
          PROVE  terminated_vms[v] = NotTerminated
      BY <2>2 DEF Exited, StatesKept
    <2> QED BY <2>1, <2>2 DEF Exited
  <1> QED BY <1>1, <1>2, <1>3

-----------------------------------------------------------------------------
(* Steps with no exit in progress *)

LEMMA InRun ==
    ASSUME Inv1, pc # "idle"
    PROVE  Usable
  BY DEF Inv1, Phases, Usable

LEMMA GuestKept ==
    ASSUME Inv3, Inv1', Guest
    PROVE  Inv3'
  <1>1. /\ pc = "machine" /\ pc' # "joiners"
        /\ UNCHANGED <<terminated_vms, next_vm_id, states>>
        /\ \E c : machine' = [machine EXCEPT ![self].cycles = c]
    BY GuestSteps DEF inline, SliceEnds, Sliced, scheduler
  <1>2. PICK c : machine' = [machine EXCEPT ![self].cycles = c]
    BY <1>1
  <1>3. RepliesKept
    BY <1>2, OneCount DEF Inv3, Inv1, TypeOK, RepliesKept
  <1>4. StatesKept
    BY <1>1 DEF StatesKept
  <1> QED BY <1>1, <1>3, <1>4, KeptInv3, InRun DEF Inv3

(* Steps that store at most a reply to v. *)
LEMMA ReplyInv3 ==
    ASSUME Inv3, Inv1', UNCHANGED <<terminated_vms, states>>, pc # "joiners", pc' # "joiners",
           Usable' => Usable, next_vm_id' \in {next_vm_id, next_vm_id + 1},
           NEW v, NEW reply, JoinOk(reply),
           machine' \in {machine, [machine EXCEPT ![v].reply = reply]}
    PROVE  Inv3'
  <1>1. RepliesKept
    <2>1. machine \in [VmId -> Machine]
      BY DEF Inv3, Inv1, TypeOK
    <2>2. CASE machine' = machine
      BY <2>2 DEF RepliesKept
    <2>3. CASE machine' = [machine EXCEPT ![v].reply = reply]
      <3>1. \A u \in VmId : machine'[u].reply \in {machine[u].reply, reply}
        BY <2>1, <2>3, OneReply
      <3> QED BY <3>1 DEF RepliesKept
    <2> QED BY <2>2, <2>3
  <1>2. StatesKept
    BY DEF StatesKept
  <1> QED BY <1>1, <1>2, KeptInv3

LEMMA IterateKept ==
    ASSUME Inv3, Inv1',
           process_io \/ (\E v \in VmId : pick(v)) \/ deadlock \/ yielded \/ stopped
    PROVE  Inv3'
  <1>0. JoinOk(NoReply)
    BY DEF JoinOk, NoReply
  <1>1. CASE process_io \/ deadlock \/ yielded \/ stopped
    <2>1. /\ UNCHANGED <<terminated_vms, states, next_vm_id, machine>>
          /\ pc \notin {"joiners", "idle"} /\ pc' # "joiners"
      BY <1>1 DEF process_io, deadlock, yielded, stopped, IoFinished, Settling, Return, Goto,
                  NextIteration, scheduler
    <2> QED BY <1>0, <2>1, ReplyInv3, InRun DEF Inv3
  <1>2. ASSUME NEW v \in VmId, pick(v) PROVE Inv3'
    <2>1. /\ UNCHANGED <<terminated_vms, states, next_vm_id>>
          /\ machine' = [machine EXCEPT ![v].reply = NoReply]
          /\ pc = "transfer" /\ pc' # "joiners"
      BY <1>2 DEF pick, IoFinished, Goto
    <2> QED BY <1>0, <2>1, ReplyInv3, InRun DEF Inv3
  <1> QED BY <1>1, <1>2

LEMMA CallerKept ==
    ASSUME Inv3, Inv1', (\E md, l : run_on(md, l)) \/ suspend \/ resume
    PROVE  Inv3'
  <1>0. JoinOk(NoReply)
    BY DEF JoinOk, NoReply
  <1>1. /\ UNCHANGED <<terminated_vms, states, next_vm_id, machine>>
        /\ pc # "joiners" /\ pc' # "joiners"
    BY DEF run_on, Called, suspend, resume, Return, Goto, scheduler
  <1>2. Usable
    BY InRun DEF run_on, Called, suspend, resume, Usable, Inv3
  <1> QED BY <1>0, <1>1, <1>2, ReplyInv3

LEMMA BootKept ==
    ASSUME Inv3, Inv1', NEW md, NEW l, run_boot(md, l)
    PROVE  Inv3'
  <1>1. /\ pc = "idle" /\ pc' # "joiners" /\ Usable /\ UNCHANGED terminated_vms
        /\ next_vm_id' = next_vm_id + 1
    BY DEF run_boot, Called, Return, Booted, Usable
  <1>2. CASE UNCHANGED <<states, machine>>
    <2>1. StatesKept /\ RepliesKept
      BY <1>2 DEF StatesKept, RepliesKept
    <2> QED BY <1>1, <2>1, KeptInv3
  <1>3. CASE Booted(next_vm_id)
    <2>1. RepliesKept
      BY <1>3 DEF Booted, RepliesKept, JoinOk, NoReply, Inv3, Inv1, TypeOK
    <2>2. \A v \in VmId : states'[v] = states[v] \/ (v = next_vm_id /\ states'[v] = Runnable)
      BY <1>3 DEF Booted, Inv3, Inv1, TypeOK
    <2>3. \A v \in VmId : states[v] = Absent
      BY DEF run_boot, Live
    <2>4. StatesKept
      BY <2>2, <2>3, StateValues, Root DEF StatesKept, Inv3, Exited, Inv1, TypeOK
    <2> QED BY <1>1, <2>1, <2>4, KeptInv3
  <1> QED BY <1>2, <1>3 DEF run_boot

LEMMA IoKept ==
    ASSUME Inv2, Inv3, Inv1', (\E v \in VmId : finish_closed(v)) \/ (\E x \in pairs : transfer(x))
    PROVE  Inv3'
  <1>0. \A o \in {"read", "write"} : \A st, k : JoinOk(IoDone(o, st, k))
    BY DEF JoinOk, IoDone
  <1>1. ASSUME NEW v \in VmId, finish_closed(v) PROVE Inv3'
    <2>1. /\ pc = "transfer" /\ pc' # "joiners" /\ UNCHANGED <<terminated_vms, next_vm_id>>
          /\ v \in closed_pipes
      BY <1>1 DEF finish_closed, FirstClosed, Return, Goto
    <2>2. \/ UNCHANGED <<states, machine>>
          \/ Wake(v, EofReply(states[v]))
      BY <1>1 DEF finish_closed
    <2>3. JoinOk(EofReply(states[v]))
      BY <1>0 DEF EofReply
    <2>4. states[v] \notin {Absent, Terminated}
      BY <2>1, StateValues DEF Inv3, Inv1, Phases, Reading, Writing
    <2>5. StatesKept
      BY <2>2, <2>4, StateValues DEF StatesKept, Wake, Inv3, Inv1, TypeOK
    <2>6. RepliesKept
      <3>1. CASE Wake(v, EofReply(states[v]))
        <4>1. machine' = [machine EXCEPT ![v].reply = EofReply(states[v])]
          BY <3>1 DEF Wake
        <4>2. machine \in [VmId -> Machine]
          BY DEF Inv3, Inv1, TypeOK
        <4>3. \A u \in VmId : machine'[u].reply \in {machine[u].reply, EofReply(states[v])}
          BY <4>1, <4>2, OneReply
        <4> QED BY <2>3, <4>3 DEF RepliesKept
      <3>2. CASE UNCHANGED machine
        BY <3>2 DEF RepliesKept
      <3> QED BY <2>2, <3>1, <3>2
    <2> QED BY <2>1, <2>5, <2>6, KeptInv3, InRun DEF Inv3
  <1>2. ASSUME NEW x \in pairs, transfer(x) PROVE Inv3'
    <2> DEFINE n == x.ws.consumed + copiable(x)
               Read == IoDone("read", x.rs, copiable(x))
               Wrote == IoDone("write", x.ws, n)
               w == Written(x, n)
               all == n = x.ws.length
    <2>1. /\ pc = "transfer" /\ pc' # "joiners" /\ UNCHANGED <<terminated_vms, next_vm_id>>
      BY <1>2 DEF transfer, Return, WriterFails, Goto
    <2>2. JoinOk(Read) /\ JoinOk(Wrote)
      BY <1>0
    <2>3. x \in Pair /\ x.reader \in VmId /\ x.writer \in VmId
      BY DEF Inv3, Inv1, TypeOK, Pair
    <2>4. w # Absent /\ w.tag # "Join"
      BY <2>3, Copies, StateValues DEF WriteState
    <2>5. states[x.reader] \notin {Absent, Terminated} /\ states[x.writer] \notin {Absent, Terminated}
      BY <2>1, PairEnds, StateValues DEF Reading, Writing
    <2>6. machine \in [VmId -> Machine] /\ states \in [VmId -> VmState]
      BY DEF Inv3, Inv1, TypeOK
    <2>7. \/ UNCHANGED states
          \/ states' = [states EXCEPT ![x.reader] = Runnable]
          \/ states' = [states EXCEPT ![x.reader] = Runnable, ![x.writer] = w]
      BY <1>2 DEF transfer, Wake
    <2>8. \/ UNCHANGED machine
          \/ machine' = [machine EXCEPT ![x.reader].reply = Read]
          \/ machine' = [machine EXCEPT ![x.reader].reply = Read,
                           ![x.writer].reply = IF all THEN Wrote ELSE @]
      BY <1>2 DEF transfer, Wake
    <2> HIDE DEF Read, Wrote, w, all
    <2>9. StatesKept
      <3>1. \A v \in VmId : \/ states'[v] = states[v]
                            \/ v = x.reader /\ states'[v] = Runnable
                            \/ v = x.writer /\ states'[v] = w
        BY <2>6, <2>7
      <3> QED BY <2>4, <2>5, <3>1, StateValues DEF StatesKept
    <2>10. RepliesKept
      <3>1. \A v \in VmId : machine'[v].reply \in {machine[v].reply, Read, Wrote}
        <4>1. CASE UNCHANGED machine
          BY <4>1
        <4>2. CASE machine' = [machine EXCEPT ![x.reader].reply = Read]
          BY <2>6, <4>2, OneReply
        <4>3. CASE machine' = [machine EXCEPT ![x.reader].reply = Read,
                                 ![x.writer].reply = IF all THEN Wrote ELSE @]
          BY <2>6, <4>3, TwoReplies
        <4> QED BY <2>8, <4>1, <4>2, <4>3
      <3> QED BY <2>2, <3>1 DEF RepliesKept
    <2> QED BY <2>1, <2>9, <2>10, KeptInv3, InRun DEF Inv3
  <1> QED BY <1>1, <1>2

-----------------------------------------------------------------------------
(* process_message_box() *)

LEMMA HandlerKept ==
    ASSUME Inv3, Inv1',
           \/ spawn_refused \/ spawn_fails
           \/ join_terminated \/ join_unknown \/ pipe_create
           \/ io_not_owner \/ io_other_end_closed
    PROVE  Inv3'
  <1> DEFINE m == Head(message_box)
  <1>0. /\ JoinOk(NoReply) /\ JoinOk(JoinDone(m.target))
        /\ JoinOk([op |-> "join", code |-> JOIN_FAILURE])
        /\ JoinOk([op |-> "pipe", code |-> SUCCESS])
        /\ \A c : JoinOk([op |-> Op(m), code |-> c])
    BY DEF JoinOk, JoinDone, NoReply, JOIN_FAILURE, SUCCESS, Op
  <1>1. /\ pc = "messages" /\ pc' # "joiners" /\ UNCHANGED <<terminated_vms, states>>
        /\ next_vm_id' \in {next_vm_id, next_vm_id + 1}
    BY DEF spawn_refused, spawn_fails, join_terminated, join_unknown, pipe_create, io_not_owner,
           io_other_end_closed, HandlingIo, Handling, Answer, Refuse, Handled, Dropped, Return, Goto
  <1>2. \E reply : JoinOk(reply) /\ machine' \in {machine, [machine EXCEPT ![m.vm].reply = reply]}
    BY <1>0 DEF spawn_refused, spawn_fails, join_terminated, join_unknown, pipe_create, io_not_owner,
                io_other_end_closed, Answer, Refuse
  <1>3. PICK reply : JoinOk(reply) /\ machine' \in {machine, [machine EXCEPT ![m.vm].reply = reply]}
    BY <1>2
  <1> QED BY <1>1, <1>3, ReplyInv3, InRun DEF Inv3

LEMMA WaitsKept ==
    ASSUME Inv3, Inv1', join_waits \/ io_waits
    PROVE  Inv3'
  <1> DEFINE m == Head(message_box)
  <1>1. /\ pc = "messages" /\ message_box # <<>> /\ pc' # "joiners"
        /\ UNCHANGED <<terminated_vms, next_vm_id, machine>>
    BY DEF join_waits, io_waits, HandlingIo, Handling, Handled, Goto
  <1>2. m.vm \in VmId /\ states[m.vm] = Runnable
    BY <1>1, HandlingFacts DEF Inv3
  <1>3. RepliesKept
    BY <1>1 DEF RepliesKept
  <1>4. PICK s : /\ states' = [states EXCEPT ![m.vm] = s] /\ s.tag # "Absent"
                 /\ s.tag = "Join" => /\ s.target \in VmId
                                      /\ terminated_vms[s.target] = NotTerminated
                                      /\ states[s.target] # Absent
    <2>1. CASE join_waits
      <3> DEFINE s == [tag |-> "Join", target |-> m.target, addr |-> m.addr]
      <3> WITNESS s
      <3> QED BY <2>1 DEF join_waits, Live
    <2>2. CASE io_waits
      <3>1. Waiting(m).tag \in {"WaitForRead", "WaitForWrite"}
        BY DEF Waiting
      <3> QED BY <2>2, <3>1 DEF io_waits
    <2> QED BY <2>1, <2>2
  <1>5. StatesKept
    <2>1. \A v \in VmId : states'[v] = states[v] \/ (v = m.vm /\ states'[v] = s)
      BY <1>4 DEF Inv3, Inv1, TypeOK
    <2> QED BY <1>2, <1>4, <2>1, StateValues DEF StatesKept
  <1> QED BY <1>1, <1>3, <1>5, KeptInv3, InRun DEF Inv3

LEMMA SpawnKept ==
    ASSUME Inv3, Inv1', spawn_done
    PROVE  Inv3'
  <1> DEFINE m == Head(message_box)
             new == [cycles |-> LoadCycles, reply |-> NoReply]
             mc == [machine EXCEPT ![next_vm_id] = new]
             ok == [op |-> "spawn", code |-> SUCCESS]
  <1>1. /\ pc = "messages" /\ pc' # "joiners" /\ UNCHANGED terminated_vms
        /\ next_vm_id' = next_vm_id + 1 /\ states' = [states EXCEPT ![next_vm_id] = Runnable]
        /\ machine' = mc \/ machine' = [mc EXCEPT ![m.vm].reply = ok]
    BY DEF spawn_done, Handling, Handled, Dropped, Return, Goto
  <1>2. \A v \in VmId : states'[v] = states[v] \/ (v = next_vm_id /\ states'[v] = Runnable)
    BY <1>1 DEF Inv3, Inv1, TypeOK
  <1>3. StatesKept
    <2>1. \A v \in VmId : v = next_vm_id => states[v] = Absent /\ terminated_vms[v] = NotTerminated
      BY Root DEF Inv3, Inv1, Ids, Exited
    <2> QED BY <1>2, <2>1, StateValues DEF StatesKept
  <1>4. new \in Machine /\ mc \in [VmId -> Machine]
    BY StateAssumption, PlainReplies DEF Machine, Inv3, Inv1, TypeOK
  <1>5. \A v \in VmId : mc[v].reply \in {machine[v].reply, NoReply}
    BY DEF Inv3, Inv1, TypeOK
  <1>6. JoinOk(ok) /\ JoinOk(NoReply)
    BY DEF JoinOk, NoReply
  <1> HIDE DEF mc, new, ok
  <1>7. \A v \in VmId : machine'[v].reply \in {machine[v].reply, NoReply, ok}
    <2>1. CASE machine' = mc
      BY <1>5, <2>1
    <2>2. CASE machine' = [mc EXCEPT ![m.vm].reply = ok]
      BY <1>4, <1>5, <2>2, OneReply
    <2> QED BY <1>1, <2>1, <2>2
  <1>8. RepliesKept
    BY <1>6, <1>7 DEF RepliesKept
  <1> QED BY <1>1, <1>3, <1>8, KeptInv3, InRun DEF Inv3

-----------------------------------------------------------------------------
(* Exits *)

(* A VM that exits has not exited before, and no reply has told of it. *)
LEMMA ExitIsFirst ==
    ASSUME Inv3, Settling("Ok")
    PROVE  /\ vm_id_to_run \in VmId /\ states[vm_id_to_run] = Runnable
           /\ terminated_vms[vm_id_to_run] = NotTerminated
           /\ result.code \in ExitCode /\ result.code # NotTerminated
           /\ pc = "messages" /\ Usable
           /\ vm_id_to_run < next_vm_id
           /\ \A v \in VmId : LET r == machine[v].reply
                              IN  r.op = "join" /\ r.code = SUCCESS => r.target # vm_id_to_run
  <1>1. pc = "messages" /\ result.tag = "Ok" /\ Usable
    BY InRun DEF Settling, Inv3
  <1>2. vm_id_to_run \in VmId /\ states[vm_id_to_run] = Runnable
    BY <1>1 DEF Inv3, Inv1, Phases
  <1>3. terminated_vms[vm_id_to_run] = NotTerminated
    BY <1>1, <1>2, StateValues DEF Inv3, Exited
  <1>4. result.code \in ExitCode /\ result.code # NotTerminated
    BY <1>1, OkResult, TypesAssumption DEF Inv3, Inv1
  <1>5. vm_id_to_run < next_vm_id
    BY <1>2, StateValues, Root DEF Inv3, Inv1, Ids, TypeOK
  <1>6. ASSUME NEW v \in VmId, machine[v].reply.op = "join", machine[v].reply.code = SUCCESS
        PROVE  machine[v].reply.target # vm_id_to_run
    <2>1. machine[v].reply \in Reply
      BY DEF Inv3, Inv1, TypeOK, Machine
    <2>2. machine[v].reply.exit \in ExitCode
      BY <2>1, <1>6 DEF Reply, NoReply, PlainReply, JoinReply, IoReply, SUCCESS, JOIN_FAILURE
    <2> QED BY <1>3, <1>6, <2>2, TypesAssumption DEF Inv3, JoinReturnsExitCode
  <1> QED BY <1>1, <1>2, <1>3, <1>4, <1>5, <1>6

LEMMA ReplyTargets ==
    ASSUME Inv1, NEW v \in VmId, machine[v].reply.op = "join", machine[v].reply.code = SUCCESS
    PROVE  machine[v].reply.target \in VmId
  <1>1. machine[v].reply \in Reply
    BY DEF Inv1, TypeOK, Machine
  <1> QED BY <1>1 DEF Reply, NoReply, PlainReply, JoinReply, IoReply, SUCCESS, JOIN_FAILURE

LEMMA ExitBeginsKept ==
    ASSUME Inv3, Inv1', exit_begins
    PROVE  Inv3'
  <1>0. Settling("Ok") /\ pc' = "joiners" /\ joining_vms' = Joiners(vm_id_to_run)
        /\ UNCHANGED <<states, machine, next_vm_id, vm_id_to_run, result, outcome>>
    BY DEF exit_begins, Goto
  <1>1. /\ terminated_vms'[vm_id_to_run] = result.code
        /\ \A u \in VmId : u # vm_id_to_run => terminated_vms'[u] = terminated_vms[u]
    BY <1>0, ExitIsFirst DEF exit_begins, Inv3, Inv1, TypeOK
  <1>2. JoinReturnsExitCode'
    BY <1>0, <1>1, ExitIsFirst, ReplyTargets DEF Inv3, JoinReturnsExitCode
  <1>3. JoinTargetLive'
    <2>1. ASSUME NEW v \in VmId, states[v].tag = "Join"
          PROVE  /\ states[v].target \in VmId /\ Live(states[v].target)
                 /\ terminated_vms[states[v].target] = NotTerminated
      BY <1>0, <2>1, ExitIsFirst, JoinTargets DEF Inv3, Inv1, JoinTargetLive
    <2>2. ASSUME NEW v \in VmId, states[v].tag = "Join", states[v].target = vm_id_to_run
          PROVE  v \in joining_vms'
      BY <1>0, <2>2 DEF Joiners
    <2> QED BY <1>0, <1>1, <2>1, <2>2, ExitIsFirst DEF JoinTargetLive, Live
  <1>4. Exited'
    <2>1. \A v \in VmId : v >= next_vm_id' => terminated_vms'[v] = NotTerminated
      <3>1. vm_id_to_run < next_vm_id /\ vm_id_to_run \in VmId
        BY <1>0, ExitIsFirst
      <3>2. \A v \in VmId : v >= next_vm_id => v # vm_id_to_run
        BY <3>1, Root DEF Inv3, Inv1, TypeOK
      <3> QED BY <1>0, <1>1, <3>2 DEF Inv3, Exited
    <2>2. ASSUME NEW v \in VmId, states[v] \notin {Absent, Terminated}
          PROVE  terminated_vms'[v] = NotTerminated \/ v = vm_id_to_run
      BY <1>0, <1>1, <2>2, ExitIsFirst DEF Inv3, Exited
    <2> QED BY <1>0, <1>1, <2>1, <2>2 DEF Exited
  <1> QED BY <1>2, <1>3, <1>4 DEF Inv3

LEMMA ExitRootKept ==
    ASSUME Inv3, Inv1', exit_root
    PROVE  Inv3'
  <1>0. /\ Settling("Ok") /\ vm_id_to_run = ROOT_VM_ID /\ pc' = "idle"
        /\ states' = [v \in VmId |-> IF v = ROOT_VM_ID THEN Terminated ELSE Absent]
        /\ machine' = [v \in VmId |-> IF v = ROOT_VM_ID THEN machine[v] ELSE NoMachine]
        /\ UNCHANGED next_vm_id
    BY DEF exit_root, Return
  <1>1. \A u \in VmId : u # ROOT_VM_ID => terminated_vms'[u] = terminated_vms[u]
    BY DEF exit_root, Inv3, Inv1, TypeOK
  <1>2. JoinReturnsExitCode'
    <2>1. ASSUME NEW v \in VmId, machine'[v].reply.op = "join", machine'[v].reply.code = SUCCESS
          PROVE  terminated_vms'[machine'[v].reply.target] = machine'[v].reply.exit
      <3>1. machine'[v].reply = machine[v].reply
        BY <1>0, <2>1 DEF NoMachine, NoReply
      <3>2. machine[v].reply.target \in VmId /\ machine[v].reply.target # ROOT_VM_ID
        BY <1>0, <2>1, <3>1, ExitIsFirst, ReplyTargets DEF Inv3
      <3> QED BY <1>1, <2>1, <3>1, <3>2 DEF Inv3, JoinReturnsExitCode
    <2> QED BY <2>1 DEF JoinReturnsExitCode
  <1>3. \A v \in VmId : states'[v] \in {Absent, Terminated} /\ states'[v].tag # "Join"
    BY <1>0, StateValues
  <1>4. \A v \in VmId : v >= next_vm_id' => terminated_vms'[v] = NotTerminated
    BY <1>0, <1>1, ExitIsFirst, Root DEF Inv3, Inv1, TypeOK, Exited
  <1> QED BY <1>0, <1>2, <1>3, <1>4 DEF Inv3, JoinTargetLive, Exited

LEMMA WakeKept ==
    ASSUME Inv3, Inv1', NEW v \in VmId, wake_joiner(v)
    PROVE  Inv3'
  <1> USE DEF Inv3
  <1> DEFINE reply == [op |-> "join", code |-> SUCCESS, target |-> states[v].target,
                       exit |-> result.code]
  <1>0. /\ pc = "joiners" /\ v \in joining_vms /\ states[v].tag = "Join"
        /\ states[v].target = vm_id_to_run /\ vm_id_to_run \in VmId
        /\ v # vm_id_to_run /\ Usable
        /\ UNCHANGED <<terminated_vms, vm_id_to_run, result, next_vm_id>>
    BY StateValues, InRun DEF wake_joiner, FirstJoiner, Inv1, Phases
  <1>1. CASE Return("Error") /\ UNCHANGED <<states, machine, joining_vms>>
    BY <1>0, <1>1 DEF Return, JoinTargetLive, JoinReturnsExitCode, Exited, Usable, Resumable
  <1>2. CASE Wake(v, reply) /\ joining_vms' = joining_vms \ {v} /\ Goto("joiners")
    <2>1. JoinOk(reply)
      BY <1>0 DEF JoinOk, Exited
    <2> HIDE DEF reply
    <2>2. JoinReturnsExitCode'
      <3>1. \A u \in VmId : machine'[u].reply \in {machine[u].reply, reply}
        <4>1. machine' = [machine EXCEPT ![v].reply = reply] /\ machine \in [VmId -> Machine]
          BY <1>2 DEF Wake, Inv1, TypeOK
        <4> QED BY <4>1, OneReply
      <3> QED BY <1>0, <2>1, <3>1 DEF JoinReturnsExitCode, JoinOk
    <2>3. states'[v] = Runnable /\ \A u \in VmId : u # v => states'[u] = states[u]
      BY <1>2 DEF Wake, Inv1, TypeOK
    <2>4. JoinTargetLive'
      <3>1. ASSUME NEW u \in VmId, states'[u].tag = "Join"
            PROVE  /\ u # v /\ states'[u] = states[u] /\ states[u].target \in VmId
                   /\ IF terminated_vms[states[u].target] = NotTerminated
                      THEN states'[states[u].target] # Absent
                      ELSE states[u].target = vm_id_to_run /\ u \in joining_vms'
        <4>1. u # v /\ states'[u] = states[u]
          BY <2>3, <3>1, StateValues
        <4>2. states[u].target \in VmId
          BY <3>1, <4>1, JoinTargets DEF Inv1
        <4>3. IF terminated_vms[states[u].target] = NotTerminated
              THEN Live(states[u].target)
              ELSE states[u].target = vm_id_to_run /\ u \in joining_vms
          BY <1>0, <3>1, <4>1 DEF JoinTargetLive
        <4> QED BY <1>2, <2>3, <4>1, <4>2, <4>3, StateValues DEF Live
      <3> QED BY <1>0, <1>2, <3>1 DEF JoinTargetLive, Live, Goto
    <2>5. Exited'
      <3>1. states[v] \notin {Absent, Terminated}
        BY <1>0, StateValues
      <3> QED BY <1>0, <1>2, <2>3, <3>1 DEF Exited, Goto, Usable
    <2> QED BY <2>2, <2>4, <2>5
  <1> QED BY <1>1, <1>2 DEF wake_joiner, reply

LEMMA ExitEndsKept ==
    ASSUME Inv3, Inv1', exit_ends
    PROVE  Inv3'
  <1> USE DEF Inv3
  <1>0. /\ pc = "joiners" /\ joining_vms = {} /\ pc' = "process_io" /\ Usable
        /\ vm_id_to_run \in VmId
        /\ UNCHANGED <<terminated_vms, next_vm_id>>
        /\ machine' = [machine EXCEPT ![vm_id_to_run] = NoMachine]
        /\ states' = [states EXCEPT ![vm_id_to_run] = Absent]
    BY InRun DEF exit_ends, NextIteration, Goto, Inv1, Phases
  <1>1. terminated_vms[vm_id_to_run] # NotTerminated
    BY <1>0, OkResult, TypesAssumption DEF Exited, Inv1, Phases
  <1>2. states'[vm_id_to_run] = Absent /\ \A u \in VmId : u # vm_id_to_run => states'[u] = states[u]
    BY <1>0 DEF Inv1, TypeOK
  <1>3. JoinReturnsExitCode'
    <2>1. \A u \in VmId : machine'[u].reply \in {machine[u].reply, NoReply}
      BY <1>0 DEF Inv1, TypeOK, NoMachine
    <2> QED BY <1>0, <2>1 DEF JoinReturnsExitCode, NoReply
  <1>4. JoinTargetLive'
    <2>1. ASSUME NEW u \in VmId, states'[u].tag = "Join"
          PROVE  /\ states'[u] = states[u] /\ states[u].target \in VmId
                 /\ terminated_vms[states[u].target] = NotTerminated
                 /\ states'[states[u].target] # Absent
      <3>1. u # vm_id_to_run /\ states'[u] = states[u]
        BY <1>2, <2>1, StateValues
      <3>2. states[u].target \in VmId
        BY <2>1, <3>1, JoinTargets DEF Inv1
      <3>3. terminated_vms[states[u].target] = NotTerminated /\ Live(states[u].target)
        BY <1>0, <2>1, <3>1 DEF JoinTargetLive
      <3> QED BY <1>1, <1>2, <3>1, <3>2, <3>3 DEF Live
    <2> QED BY <1>0, <2>1 DEF JoinTargetLive, Live
  <1>5. Exited'
    BY <1>0, <1>2 DEF Exited
  <1> QED BY <1>3, <1>4, <1>5

-----------------------------------------------------------------------------

LEMMA NextInv3 == Inv2 /\ Inv3 /\ [Next]_vars => Inv3'
  <1> SUFFICES ASSUME Inv2, Inv3, [Next]_vars PROVE Inv3' OBVIOUS
  <1>0. Inv1'
    BY NextInv1 DEF Inv3
  <1>1. CASE iterate
    BY <1>0, <1>1, IterateKept, IoKept, WakeKept, GuestKept, SpawnKept, HandlerKept, WaitsKept,
       ExitBeginsKept, ExitRootKept, ExitEndsKept
    DEF iterate, host
  <1>2. CASE Caller
    <2>1. CASE dropped
      BY <1>0, <2>1
      DEF dropped, vars, scheduler, locals, Inv3, JoinTargetLive, JoinReturnsExitCode, Exited,
          Usable, Live
    <2> QED BY <1>0, <1>2, <2>1, BootKept, CallerKept DEF Caller
  <1>3. CASE UNCHANGED vars
    BY <1>0, <1>3
    DEF vars, scheduler, locals, Inv3, JoinTargetLive, JoinReturnsExitCode, Exited, Usable, Live
  <1> QED BY <1>1, <1>2, <1>3 DEF Next

(* Inv3 holds in every state: joins, replies to joins and exit codes agree *)
(* with each other.                                                        *)
THEOREM Inv3Holds == Spec => []Inv3
  BY InitInv3, Inv2Holds, NextInv3, PTL DEF Spec

(* A VM blocked in a join waits for a VM that has not exited yet, or is on *)
(* the list the exit in progress is working through: for any number of     *)
(* VMs, no exit leaves one of its joiners behind.                          *)
THEOREM NoLostWakeUp == Spec => []JoinTargetLive
  <1>1. Inv3 => JoinTargetLive
    BY DEF Inv3
  <1> QED BY Inv3Holds, <1>1, PTL

(* The exit code a join returns is that of the VM it named, whether it had *)
(* exited before the join or exited later.                                 *)
THEOREM RightExitCode == Spec => []JoinReturnsExitCode
  <1>1. Inv3 => JoinReturnsExitCode
    BY DEF Inv3
  <1> QED BY Inv3Holds, <1>1, PTL

-----------------------------------------------------------------------------
(***************************************************************************)
(* Machines and snapshots: every VM is exactly one of the two, and no more *)
(* than MAX_INSTANTIATED_VMS are machines.                                 *)
(***************************************************************************)

Inv4 == Inv1 /\ Residency

-----------------------------------------------------------------------------
(* Finite sets of ids *)

LEMMA LowestIs ==
    ASSUME NEW S \in SUBSET VmId, S # {}
    PROVE  Lowest(S) \in S /\ \A y \in S : Lowest(S) <= y
  <1> DEFINE R == OpToRel(<, Nat)
  <1>1. PICK x \in S : \A y \in S : ~(<<y, x>> \in R)
    <2>1. IsWellFoundedOn(R, Nat)
      BY NatLessThanWellFounded, Zenon
    <2>2. S \subseteq Nat
      BY Root
    <2> HIDE DEF R
    <2> QED BY <2>1, <2>2, WFMin
  <1>2. \A y \in S : x <= y
    <2>1. ASSUME NEW y \in S, y < x PROVE <<y, x>> \in R
      <3>1. <<y, x>> \in Nat \X Nat /\ <<y, x>>[1] < <<y, x>>[2]
        BY <2>1, Root
      <3> QED BY <3>1 DEF OpToRel
    <2> HIDE DEF R
    <2>2. \A y \in S : ~(y < x)
      BY <1>1, <2>1
    <2>3. x \in Nat /\ S \subseteq Nat
      BY Root
    <2> QED BY <2>2, <2>3
  <1> QED BY <1>2 DEF Lowest

LEMMA IdsFinite ==
    ASSUME NEW S \in SUBSET VmId
    PROVE  IsFiniteSet(S) /\ Cardinality(S) \in Nat
  <1>1. IsFiniteSet(VmId)
    BY FS_Interval, TypesAssumption DEF VmId, FIRST_VM_ID
  <1> QED BY <1>1, FS_Subset, FS_CardinalityType

(* ensure_vms_instantiated, for one of at most two ids: the limit holds,   *)
(* the id is a machine, and those asked for with it stay machines.         *)
LEMMA AdmitFacts ==
    ASSUME NEW I \in SUBSET VmId, Cardinality(I) <= MAX_INSTANTIATED_VMS,
           NEW v \in VmId, NEW w \in VmId
    PROVE  LET J == Admit(I, v, {v, w})
           IN  /\ J \in SUBSET VmId /\ Cardinality(J) <= MAX_INSTANTIATED_VMS
               /\ v \in J /\ J \subseteq I \cup {v} /\ (w \in I => w \in J)
               /\ J = I \/ J = I \cup {v}
                  \/ \E x \in I \ {v, w} : J = (I \ {x}) \cup {v} /\ \A y \in I \ {v, w} : x <= y
  <1>0. IsFiniteSet(I) /\ Cardinality(I) \in Nat /\ MAX_INSTANTIATED_VMS \in Nat
    BY IdsFinite, StateAssumption
  <1>1. CASE v \in I
    BY <1>1 DEF Admit
  <1>2. CASE v \notin I /\ Cardinality(I) < MAX_INSTANTIATED_VMS
    <2>1. Admit(I, v, {v, w}) = I \cup {v}
      BY <1>2 DEF Admit
    <2>2. Cardinality(I \cup {v}) = Cardinality(I) + 1
      BY <1>0, <1>2, FS_AddElement
    <2>3. Cardinality(I \cup {v}) <= MAX_INSTANTIATED_VMS
      BY <1>0, <1>2, <2>2
    <2> QED BY <2>1, <2>3
  <1>3. CASE v \notin I /\ ~(Cardinality(I) < MAX_INSTANTIATED_VMS)
    <2> DEFINE x == Lowest(I \ {v, w})
    <2>1. Admit(I, v, {v, w}) = (I \ {x}) \cup {v}
      BY <1>3 DEF Admit
    <2>2. I \ {v, w} # {}
      <3>1. Cardinality(I) >= 2
        BY <1>0, <1>3, StateAssumption
      <3>2. Cardinality(I \ {w}) >= 1 /\ IsFiniteSet(I \ {w})
        BY <1>0, <3>1, FS_RemoveElement
      <3>3. I \ {w} # {}
        BY <3>2, FS_EmptySet
      <3> QED BY <1>3, <3>3
    <2>3. x \in I \ {v, w} /\ \A y \in I \ {v, w} : x <= y
      BY <2>2, LowestIs
    <2> HIDE DEF x
    <2>4. IsFiniteSet(I \ {x}) /\ Cardinality(I \ {x}) = Cardinality(I) - 1
      BY <1>0, <2>3, FS_RemoveElement
    <2>5. Cardinality((I \ {x}) \cup {v}) = Cardinality(I)
      <3>1. v \notin I \ {x}
        BY <1>3
      <3>2. Cardinality((I \ {x}) \cup {v}) = Cardinality(I \ {x}) + 1
        BY <2>4, <3>1, FS_AddElement
      <3> QED BY <1>0, <2>4, <3>2
    <2> QED BY <1>3, <2>1, <2>3, <2>5
  <1> QED BY <1>1, <1>2, <1>3

(* boot_vm: there is room for one more. *)
LEMMA MakeRoomFacts ==
    ASSUME NEW I \in SUBSET VmId, Cardinality(I) <= MAX_INSTANTIATED_VMS
    PROVE  /\ MakeRoom(I) \in SUBSET I
           /\ Cardinality(MakeRoom(I)) < MAX_INSTANTIATED_VMS
           /\ Cardinality(MakeRoom(I)) >= 1 \/ MakeRoom(I) = {}
  <1>0. IsFiniteSet(I) /\ Cardinality(I) \in Nat /\ MAX_INSTANTIATED_VMS \in Nat
    BY IdsFinite, StateAssumption
  <1>1. CASE Cardinality(I) < MAX_INSTANTIATED_VMS
    <2>1. Cardinality(I) >= 1 \/ I = {}
      BY <1>0, FS_EmptySet
    <2> QED BY <1>1, <2>1 DEF MakeRoom
  <1>2. CASE ~(Cardinality(I) < MAX_INSTANTIATED_VMS)
    <2>1. MakeRoom(I) = I \ {Lowest(I)}
      BY <1>2 DEF MakeRoom
    <2>2. Cardinality(I) = MAX_INSTANTIATED_VMS /\ Cardinality(I) >= 2
      BY <1>0, <1>2, StateAssumption
    <2>3. Lowest(I) \in I
      BY <1>0, <2>2, FS_EmptySet, LowestIs
    <2>4. Cardinality(I \ {Lowest(I)}) = Cardinality(I) - 1
      BY <1>0, <2>3, FS_RemoveElement
    <2> QED BY <1>0, <2>1, <2>2, <2>4
  <1> QED BY <1>1, <1>2

(* suspend_vm and resume_vm: nothing is lost or kept twice. *)
LEMMA SwapFacts ==
    ASSUME NEW J \in SUBSET VmId, Swap(J), instantiated \cap suspended = {}
    PROVE  /\ instantiated' = J /\ instantiated' \cap suspended' = {}
           /\ instantiated' \cup suspended' = instantiated \cup suspended \cup J
  BY DEF Swap

LEMMA EnsureOne ==
    ASSUME Inv4, NEW v \in VmId, Live(v), Swap(Ensure1(v))
    PROVE  /\ instantiated' \cap suspended' = {}
           /\ instantiated' \cup suspended' = {u \in VmId : Live(u)}
           /\ Cardinality(instantiated') <= MAX_INSTANTIATED_VMS
           /\ v \in instantiated'
  <1>1. /\ Ensure1(v) \in SUBSET VmId /\ Cardinality(Ensure1(v)) <= MAX_INSTANTIATED_VMS
        /\ v \in Ensure1(v) /\ Ensure1(v) \subseteq instantiated \cup {v}
    <2>1. instantiated \in SUBSET VmId /\ {v, v} = {v}
      BY DEF Inv4, Inv1, TypeOK
    <2>2. Admit(instantiated, v, {v, v}) = Ensure1(v)
      BY <2>1 DEF Ensure1
    <2> QED BY <2>1, <2>2, AdmitFacts DEF Inv4, Residency
  <1>2. /\ instantiated \cap suspended = {}
        /\ instantiated \cup suspended = {u \in VmId : Live(u)}
    BY DEF Inv4, Residency
  <1> QED BY <1>1, <1>2, SwapFacts

LEMMA EnsureTwo ==
    ASSUME Inv4, NEW r \in VmId, NEW w \in VmId, Live(r), Live(w), Swap(Ensure2(r, w))
    PROVE  /\ instantiated' \cap suspended' = {}
           /\ instantiated' \cup suspended' = {u \in VmId : Live(u)}
           /\ Cardinality(instantiated') <= MAX_INSTANTIATED_VMS
           /\ {r, w} \subseteq instantiated'
  <1> DEFINE J == Admit(instantiated, w, {r, w})
             K == Admit(J, r, {r, w})
  <1>1. /\ J \in SUBSET VmId /\ Cardinality(J) <= MAX_INSTANTIATED_VMS
        /\ w \in J /\ J \subseteq instantiated \cup {w}
    <2>1. instantiated \in SUBSET VmId /\ {w, r} = {r, w}
      BY DEF Inv4, Inv1, TypeOK
    <2> QED BY <2>1, AdmitFacts DEF Inv4, Residency
  <1> HIDE DEF J
  <1>2. /\ K \in SUBSET VmId /\ Cardinality(K) <= MAX_INSTANTIATED_VMS
        /\ r \in K /\ w \in K /\ K \subseteq J \cup {r}
    BY <1>1, AdmitFacts
  <1>3. Swap(K)
    BY DEF Ensure2, J
  <1> HIDE DEF K
  <1>4. /\ instantiated \cap suspended = {}
        /\ instantiated \cup suspended = {u \in VmId : Live(u)}
    BY DEF Inv4, Residency
  <1> QED BY <1>1, <1>2, <1>3, <1>4, SwapFacts

-----------------------------------------------------------------------------
(* The steps *)

LEMMA InitInv4 == Init => Inv4
  <1> SUFFICES ASSUME Init PROVE Inv4 OBVIOUS
  <1>1. instantiated = {} /\ suspended = {} /\ \A v \in VmId : ~Live(v)
    BY DEF Init, Live
  <1>2. Cardinality(instantiated) <= MAX_INSTANTIATED_VMS
    BY <1>1, FS_EmptySet, StateAssumption
  <1> QED BY <1>1, <1>2, InitInv1 DEF Inv4, Residency

(* Steps after which the same VMs exist. *)
LEMMA SameVms ==
    ASSUME Inv4, Inv1',
           instantiated' \cap suspended' = {},
           instantiated' \cup suspended' = {v \in VmId : Live(v)},
           Cardinality(instantiated') <= MAX_INSTANTIATED_VMS,
           \A v \in VmId : states'[v] = Absent <=> states[v] = Absent
    PROVE  Inv4'
  BY DEF Inv4, Residency, Live

LEMMA SameMachines ==
    ASSUME Inv4, Inv1', UNCHANGED <<instantiated, suspended>>,
           \A v \in VmId : states'[v] = Absent <=> states[v] = Absent
    PROVE  Inv4'
  BY DEF Inv4, Residency, Live

(* The steps that move no VM in or out. *)
Resting ==
    \/ process_io \/ deadlock \/ Guest \/ spawn_refused \/ join_waits \/ io_waits
    \/ yielded \/ stopped \/ exit_begins \/ (\E v \in VmId : finish_closed(v))
    \/ (\E md, l : run_on(md, l)) \/ resume \/ dropped

LEMMA RestingInv4 ==
    ASSUME Inv4, Inv1', Resting
    PROVE  Inv4' /\ (pc = "transfer" => UNCHANGED pairs)
  <1>1. CASE Guest
    <2>1. UNCHANGED <<instantiated, suspended, states, pairs>>
      BY <1>1, GuestSteps DEF inline, SliceEnds, Sliced, scheduler, locals
    <2> QED BY <2>1, SameMachines
  <1>2. CASE join_waits \/ io_waits
    <2> DEFINE m == Head(message_box)
    <2>1. /\ UNCHANGED <<instantiated, suspended, pairs>> /\ pc = "messages" /\ message_box # <<>>
      BY <1>2 DEF join_waits, io_waits, HandlingIo, Handling, Handled, locals
    <2>2. PICK s : states' = [states EXCEPT ![m.vm] = s] /\ s.tag # "Absent"
      <3>1. Waiting(m).tag \in {"WaitForRead", "WaitForWrite"}
        BY DEF Waiting
      <3> QED BY <1>2, <3>1 DEF join_waits, io_waits
    <2>3. m.vm \in VmId /\ states[m.vm] = Runnable
      BY <2>1, HandlingFacts DEF Inv4
    <2>4. \A v \in VmId : states'[v] = Absent <=> states[v] = Absent
      BY <2>2, <2>3, StateValues DEF Inv4, Inv1, TypeOK
    <2> QED BY <2>1, <2>4, SameMachines
  <1>3. ASSUME NEW v \in VmId, finish_closed(v) PROVE Inv4' /\ UNCHANGED pairs
    <2>1. /\ UNCHANGED <<instantiated, suspended, pairs>> /\ pc = "transfer" /\ v \in closed_pipes
          /\ UNCHANGED states \/ states' = [states EXCEPT ![v] = Runnable]
      BY <1>3 DEF finish_closed, FirstClosed, Wake
    <2>2. states[v] # Absent
      BY <2>1, StateValues DEF Inv4, Inv1, Phases, Reading, Writing
    <2>3. \A u \in VmId : states'[u] = Absent <=> states[u] = Absent
      BY <2>1, <2>2, StateValues DEF Inv4, Inv1, TypeOK
    <2> QED BY <2>1, <2>3, SameMachines
  <1>4. CASE \/ process_io \/ deadlock \/ spawn_refused \/ yielded \/ stopped \/ exit_begins
             \/ (\E md, l : run_on(md, l)) \/ resume \/ dropped
    <2>1. UNCHANGED <<instantiated, suspended, states>> /\ (pc = "transfer" => UNCHANGED pairs)
      BY <1>4 DEF process_io, deadlock, spawn_refused, yielded, stopped, exit_begins, run_on, resume,
                  dropped, Dropped, scheduler, locals, vars
    <2> QED BY <2>1, SameMachines
  <1> QED BY <1>1, <1>2, <1>3, <1>4 DEF Resting

(* The steps that make one VM a machine. *)
LEMMA EnsuringInv4 ==
    ASSUME Inv4, Inv1', \/ \E v \in VmId : pick(v) \/ wake_joiner(v)
                        \/ join_terminated \/ join_unknown \/ pipe_create
                        \/ io_not_owner \/ io_other_end_closed
    PROVE  Inv4' /\ UNCHANGED pairs
  <1>1. ASSUME NEW v \in VmId, pick(v) PROVE Inv4' /\ UNCHANGED pairs
    <2>1. UNCHANGED <<states, pairs>> /\ Live(v) /\ Swap(Ensure1(v))
      BY <1>1, StateValues DEF pick, ToRun, Live
    <2> QED BY <2>1, EnsureOne, SameVms
  <1>2. ASSUME NEW v \in VmId, wake_joiner(v) PROVE Inv4' /\ UNCHANGED pairs
    <2>1. /\ UNCHANGED pairs /\ Swap(Ensure1(v)) /\ pc = "joiners" /\ v \in joining_vms
          /\ UNCHANGED states \/ states' = [states EXCEPT ![v] = Runnable]
      BY <1>2 DEF wake_joiner, FirstJoiner, Wake
    <2>2. Live(v)
      BY <2>1, StateValues DEF Inv4, Inv1, Phases, Live
    <2>3. \A u \in VmId : states'[u] = Absent <=> states[u] = Absent
      BY <2>1, <2>2, StateValues DEF Inv4, Inv1, TypeOK, Live
    <2> QED BY <2>1, <2>2, <2>3, EnsureOne, SameVms
  <1>3. CASE \/ join_terminated \/ join_unknown \/ pipe_create
             \/ io_not_owner \/ io_other_end_closed
    <2> DEFINE m == Head(message_box)
    <2>1. /\ UNCHANGED <<states, pairs>> /\ pc = "messages" /\ message_box # <<>>
          /\ Swap(Ensure1(m.vm))
      BY <1>3
      DEF join_terminated, join_unknown, pipe_create, io_not_owner, io_other_end_closed, HandlingIo,
          Handling, Answer, Refuse, Handled, Dropped, locals
    <2>2. m.vm \in VmId /\ Live(m.vm)
      BY <2>1, HandlingFacts, StateValues DEF Inv4, Live
    <2> QED BY <2>1, <2>2, EnsureOne, SameVms
  <1> QED BY <1>1, <1>2, <1>3

LEMMA TransferInv4 ==
    ASSUME Inv4, Inv1', NEW x \in pairs, transfer(x)
    PROVE  Inv4' /\ {x.reader, x.writer} \subseteq instantiated' /\ pairs \ {x} \subseteq pairs'
  <1> DEFINE w == Written(x, x.ws.consumed + copiable(x))
  <1>1. /\ Swap(Ensure2(x.reader, x.writer)) /\ pc = "transfer"
        /\ pairs \ {x} \subseteq pairs'
        /\ \/ UNCHANGED states
           \/ states' = [states EXCEPT ![x.reader] = Runnable]
           \/ states' = [states EXCEPT ![x.reader] = Runnable, ![x.writer] = w]
    BY DEF transfer, Wake
  <1>2. x \in Pair /\ x.reader \in VmId /\ x.writer \in VmId
    BY DEF Inv4, Inv1, TypeOK, Pair
  <1>3. Live(x.reader) /\ Live(x.writer)
    BY <1>1 DEF Inv4, Inv1, Phases, Live
  <1>4. w # Absent
    BY <1>2, Copies, StateValues DEF WriteState
  <1> HIDE DEF w
  <1>5. \A v \in VmId : states'[v] = Absent <=> states[v] = Absent
    BY <1>1, <1>2, <1>3, <1>4, StateValues DEF Inv4, Inv1, TypeOK, Live
  <1> QED BY <1>1, <1>2, <1>3, <1>5, EnsureTwo, SameVms

LEMMA BootInv4 ==
    ASSUME Inv4, Inv1', NEW md, NEW l, run_boot(md, l)
    PROVE  Inv4' /\ pc # "transfer"
  <1>0. pc = "idle"
    BY DEF run_boot, Called
  <1>1. CASE UNCHANGED <<states, instantiated, suspended>>
    BY <1>0, <1>1, SameMachines
  <1>2. CASE Booted(next_vm_id) /\ Swap({next_vm_id})
    <2>1. next_vm_id = 0 /\ 0 \in VmId
      BY Root DEF run_boot, Called, Live, Inv4, Inv1, Ids, TypeOK
    <2>2. \A v \in VmId : ~Live(v)
      BY DEF run_boot
    <2>3. instantiated = {} /\ suspended = {}
      BY <2>2 DEF Inv4, Residency
    <2>4. instantiated' = {0} /\ suspended' = {}
      BY <1>2, <2>1, <2>3 DEF Swap
    <2>5. \A v \in VmId : states'[v] # Absent <=> v = 0
      BY <1>2, <2>1, <2>2, StateValues DEF Booted, Live, Inv4, Inv1, TypeOK
    <2>6. Cardinality({0}) = 1
      BY FS_Singleton
    <2>7. Cardinality(instantiated') <= MAX_INSTANTIATED_VMS
      BY <2>4, <2>6, StateAssumption
    <2> QED BY <1>0, <2>1, <2>4, <2>5, <2>7 DEF Inv4, Residency, Live
  <1> QED BY <1>1, <1>2 DEF run_boot

LEMMA SpawnFailsInv4 ==
    ASSUME Inv4, Inv1', spawn_fails
    PROVE  Inv4' /\ pc # "transfer"
  <1>1. pc = "messages" /\ UNCHANGED states /\ Swap(MakeRoom(instantiated))
    BY DEF spawn_fails, Handling
  <1>2. /\ instantiated \in SUBSET VmId /\ instantiated \cap suspended = {}
        /\ Cardinality(instantiated) <= MAX_INSTANTIATED_VMS
        /\ instantiated \cup suspended = {v \in VmId : Live(v)}
    BY DEF Inv4, Residency, Inv1, TypeOK
  <1>3. /\ MakeRoom(instantiated) \subseteq instantiated
        /\ Cardinality(MakeRoom(instantiated)) < MAX_INSTANTIATED_VMS
    BY <1>2, MakeRoomFacts
  <1>4. /\ instantiated' = MakeRoom(instantiated) /\ instantiated' \cap suspended' = {}
        /\ instantiated' \cup suspended' = {v \in VmId : Live(v)}
    BY <1>1, <1>2, <1>3, SwapFacts
  <1>5. Cardinality(instantiated') <= MAX_INSTANTIATED_VMS
    <2>1. Cardinality(instantiated') \in Nat /\ MAX_INSTANTIATED_VMS \in Nat
      BY <1>2, <1>3, <1>4, IdsFinite, StateAssumption
    <2> QED BY <1>3, <1>4, <2>1
  <1> QED BY <1>1, <1>4, <1>5, SameVms

(* The VM that is spawned has the largest id, so that making room for the  *)
(* spawner does not push it out again.                                     *)
LEMMA SpawnInv4 ==
    ASSUME Inv4, Inv1', spawn_done
    PROVE  Inv4' /\ pc # "transfer"
  <1> DEFINE m == Head(message_box)
             v == next_vm_id
             J == MakeRoom(instantiated) \cup {v}
             K == Admit(J, m.vm, {m.vm})
  <1>1. /\ pc = "messages" /\ message_box # <<>> /\ m.tag = "Spawn"
        /\ states' = [states EXCEPT ![v] = Runnable] /\ Swap(K)
    BY DEF spawn_done, Handling
  <1>2. m.vm \in VmId /\ Live(m.vm) /\ v < MaxVms /\ m.vm = vm_id_to_run
    BY <1>1, HandlingFacts, StateValues DEF Inv4, Live, Checked
  <1>3. v \in VmId /\ v \in Nat /\ ~Live(v) /\ \A u \in VmId : Live(u) => u < v
    <2>1. v \in VmId /\ v \in Nat
      BY <1>2, TypesAssumption DEF Inv4, Inv1, TypeOK, VmId, FIRST_VM_ID
    <2>2. \A u \in VmId : u >= v => ~Live(u)
      BY DEF Inv4, Inv1, Ids, Live
    <2> QED BY <2>1, <2>2, Root
  <1>4. /\ instantiated \in SUBSET VmId /\ instantiated \cap suspended = {}
        /\ Cardinality(instantiated) <= MAX_INSTANTIATED_VMS
        /\ instantiated \cup suspended = {u \in VmId : Live(u)}
    BY DEF Inv4, Residency, Inv1, TypeOK
  <1>5. /\ MakeRoom(instantiated) \subseteq instantiated
        /\ Cardinality(MakeRoom(instantiated)) < MAX_INSTANTIATED_VMS
    BY <1>4, MakeRoomFacts
  <1> HIDE DEF m, v
  <1>6. J \in SUBSET VmId /\ Cardinality(J) <= MAX_INSTANTIATED_VMS
    <2>1. /\ MakeRoom(instantiated) \in SUBSET VmId
          /\ IsFiniteSet(MakeRoom(instantiated)) /\ Cardinality(MakeRoom(instantiated)) \in Nat
      BY <1>4, <1>5, IdsFinite
    <2>2. Cardinality(J) = Cardinality(MakeRoom(instantiated)) + 1
      <3>1. v \notin MakeRoom(instantiated)
        BY <1>3, <1>4, <1>5
      <3> QED BY <2>1, <3>1, FS_AddElement
    <2>3. J \in SUBSET VmId /\ Cardinality(J) \in Nat
      BY <1>3, <2>1, IdsFinite
    <2> QED BY <1>5, <2>1, <2>2, <2>3, StateAssumption
  <1>7. v \in J /\ J \subseteq instantiated \cup {v} /\ \A u \in J : u # v => u < v
    BY <1>3, <1>4, <1>5
  <1> HIDE DEF J
  <1>8. /\ K \in SUBSET VmId /\ Cardinality(K) <= MAX_INSTANTIATED_VMS
        /\ m.vm \in K /\ K \subseteq J \cup {m.vm}
        /\ \/ K = J \/ K = J \cup {m.vm}
           \/ \E x \in J \ {m.vm} : K = (J \ {x}) \cup {m.vm} /\ \A y \in J \ {m.vm} : x <= y
    <2>1. {m.vm, m.vm} = {m.vm}
      OBVIOUS
    <2>2. Admit(J, m.vm, {m.vm, m.vm}) = K
      BY <2>1
    <2> HIDE DEF K
    <2>3. /\ K \in SUBSET VmId /\ Cardinality(K) <= MAX_INSTANTIATED_VMS
          /\ m.vm \in K /\ K \subseteq J \cup {m.vm}
          /\ \/ K = J \/ K = J \cup {m.vm}
             \/ \E x \in J \ {m.vm, m.vm} : /\ K = (J \ {x}) \cup {m.vm}
                                            /\ \A y \in J \ {m.vm, m.vm} : x <= y
      BY <1>2, <1>6, <2>2, AdmitFacts
    <2> QED BY <2>1, <2>3
  <1>9. v \in K
    <2>1. ASSUME v \notin K PROVE FALSE
      <3>1. PICK x \in J \ {m.vm} : K = (J \ {x}) \cup {m.vm} /\ \A y \in J \ {m.vm} : x <= y
        BY <1>7, <1>8, <2>1
      <3>2. x = v /\ v # m.vm
        BY <1>7, <2>1, <3>1
      <3>3. J \ {m.vm} = {v}
        <4>1. ASSUME NEW y \in J \ {m.vm}, y # v PROVE FALSE
          <5>1. y < v /\ v <= y
            BY <1>7, <3>1, <3>2, <4>1
          <5>2. y \in Nat /\ v \in Nat
            BY <1>3, <1>6, Root
          <5> QED BY <5>1, <5>2
        <4> QED BY <1>7, <3>2, <4>1
      <3>4. CASE m.vm \in J
        <4>1. K = J
          BY <3>4 DEF Admit
        <4> QED BY <1>7, <2>1, <4>1
      <3>5. CASE m.vm \notin J
        <4>1. J = {v}
          BY <3>3, <3>5
        <4>2. Cardinality(J) = 1
          BY <4>1, FS_Singleton
        <4>3. K = J \cup {m.vm}
          BY <1>2, <3>5, <4>2, StateAssumption DEF Admit
        <4> QED BY <1>7, <2>1, <4>3
      <3> QED BY <3>4, <3>5
    <2> QED BY <2>1
  <1> HIDE DEF K
  <1>10. /\ instantiated' = K /\ instantiated' \cap suspended' = {}
         /\ instantiated' \cup suspended' = instantiated \cup suspended \cup K
    BY <1>1, <1>4, <1>8, SwapFacts
  <1>11. \A u \in VmId : states'[u] # Absent <=> Live(u) \/ u = v
    BY <1>1, <1>3, StateValues DEF Live, Inv4, Inv1, TypeOK
  <1>12. instantiated' \cup suspended' = {u \in VmId : states'[u] # Absent}
    BY <1>2, <1>3, <1>4, <1>7, <1>8, <1>9, <1>10, <1>11
  <1> QED BY <1>1, <1>8, <1>10, <1>12 DEF Inv4, Residency, Live

LEMMA ExitInv4 ==
    ASSUME Inv4, Inv1', exit_ends \/ exit_root \/ suspend
    PROVE  Inv4' /\ pc # "transfer"
  <1>0. /\ instantiated \in SUBSET VmId /\ instantiated \cap suspended = {}
        /\ Cardinality(instantiated) <= MAX_INSTANTIATED_VMS
        /\ instantiated \cup suspended = {u \in VmId : Live(u)}
    BY DEF Inv4, Residency, Inv1, TypeOK
  <1>1. CASE exit_ends
    <2>1. /\ pc = "joiners" /\ vm_id_to_run \in VmId
          /\ instantiated' = instantiated \ {vm_id_to_run}
          /\ suspended' = suspended \ {vm_id_to_run}
          /\ states' = [states EXCEPT ![vm_id_to_run] = Absent]
      BY <1>1 DEF exit_ends, Inv4, Inv1, Phases
    <2>2. \A u \in VmId : states'[u] # Absent <=> Live(u) /\ u # vm_id_to_run
      BY <2>1 DEF Live, Inv4, Inv1, TypeOK
    <2>3. Cardinality(instantiated') <= MAX_INSTANTIATED_VMS
      <3>1. IsFiniteSet(instantiated) /\ instantiated' \in SUBSET instantiated
        BY <1>0, <2>1, IdsFinite
      <3>2. /\ Cardinality(instantiated') <= Cardinality(instantiated)
            /\ Cardinality(instantiated') \in Nat /\ Cardinality(instantiated) \in Nat
        BY <1>0, <3>1, FS_Subset, IdsFinite
      <3> QED BY <1>0, <3>2, StateAssumption
    <2> QED BY <1>0, <2>1, <2>2, <2>3 DEF Inv4, Residency, Live
  <1>2. CASE exit_root
    <2>1. /\ pc = "messages" /\ vm_id_to_run = ROOT_VM_ID /\ result.tag = "Ok"
          /\ instantiated' = Ensure1(ROOT_VM_ID) \cap {ROOT_VM_ID} /\ suspended' = {}
          /\ states' = [v \in VmId |-> IF v = ROOT_VM_ID THEN Terminated ELSE Absent]
      BY <1>2 DEF exit_root, Settling
    <2>2. ROOT_VM_ID \in Ensure1(ROOT_VM_ID)
      <3>1. {ROOT_VM_ID, ROOT_VM_ID} = {ROOT_VM_ID}
        OBVIOUS
      <3> QED BY <1>0, <3>1, Root, AdmitFacts DEF Ensure1
    <2>3. instantiated' = {ROOT_VM_ID}
      BY <2>1, <2>2
    <2>4. Cardinality({ROOT_VM_ID}) = 1
      BY FS_Singleton
    <2>5. Cardinality(instantiated') <= MAX_INSTANTIATED_VMS
      BY <2>3, <2>4, StateAssumption
    <2>6. {v \in VmId : states'[v] # Absent} = {ROOT_VM_ID}
      BY <2>1, Root, StateValues
    <2> QED BY <2>1, <2>3, <2>5, <2>6 DEF Inv4, Residency, Live
  <1>3. CASE suspend
    <2>1. /\ pc = "idle" /\ instantiated' = {} /\ suspended' = {v \in VmId : Live(v)}
          /\ states' = states
      BY <1>3 DEF suspend
    <2>2. Cardinality(instantiated') <= MAX_INSTANTIATED_VMS
      BY <2>1, FS_EmptySet, StateAssumption
    <2> QED BY <2>1, <2>2, SameVms
  <1> QED BY <1>1, <1>2, <1>3

-----------------------------------------------------------------------------

(* What a step does to the pairs of process_io(). *)
ServedResident ==
    \A x \in pairs : pc = "transfer" /\ x \notin pairs' =>
        {x.reader, x.writer} \subseteq instantiated'

LEMMA NextInv4 == Inv4 /\ [Next]_vars => Inv4' /\ ServedResident
  <1> SUFFICES ASSUME Inv4, [Next]_vars PROVE Inv4' /\ ServedResident OBVIOUS
  <1>0. Inv1'
    BY NextInv1 DEF Inv4
  <1>1. CASE Resting
    BY <1>0, <1>1, RestingInv4 DEF ServedResident
  <1>2. CASE \/ \E v \in VmId : pick(v) \/ wake_joiner(v)
             \/ join_terminated \/ join_unknown \/ pipe_create
             \/ io_not_owner \/ io_other_end_closed
    BY <1>0, <1>2, EnsuringInv4 DEF ServedResident
  <1>3. ASSUME NEW x \in pairs, transfer(x) PROVE Inv4' /\ ServedResident
    BY <1>0, <1>3, TransferInv4 DEF ServedResident
  <1>4. CASE \/ (\E md, l : run_boot(md, l)) \/ spawn_fails \/ spawn_done
             \/ exit_ends \/ exit_root \/ suspend
    BY <1>0, <1>4, BootInv4, SpawnFailsInv4, SpawnInv4, ExitInv4 DEF ServedResident
  <1>5. CASE UNCHANGED vars
    BY <1>0, <1>5, SameMachines DEF vars, scheduler, locals, ServedResident
  <1> QED BY <1>1, <1>2, <1>3, <1>4, <1>5 DEF Next, iterate, host, Caller, Resting

(* Every VM is a machine or a snapshot, not both, nothing else is kept,    *)
(* and the limit on machines holds: for any limit of at least two, the     *)
(* least for which the two ends of a transfer fit.                         *)
THEOREM ResidencyHolds == Spec => []Residency
  <1>1. Inv4 /\ [Next]_vars => Inv4'
    BY NextInv4
  <1>2. Inv4 => Residency
    BY DEF Inv4
  <1> QED BY InitInv4, <1>1, <1>2, PTL DEF Spec

(* When process_io() moves bytes, both ends are machines: the unwraps of   *)
(* the transfer never fail.                                                *)
THEOREM EndsResident == Spec => BothEndsResident
  <1>1. Inv4 /\ [Next]_vars => Inv4' /\ [ServedResident]_vars
    BY NextInv4
  <1> QED BY InitInv4, <1>1, PTL DEF Spec, BothEndsResident, ServedResident

=============================================================================
