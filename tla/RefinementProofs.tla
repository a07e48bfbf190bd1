--------------------------- MODULE RefinementProofs ---------------------------
(***************************************************************************)
(* The scheduler implements VmSystem, proved for any number of VMs, pipes, *)
(* bytes and machines in memory, and any limits: every step of the         *)
(* scheduler is a step of VmSystem or none at all.                         *)
(***************************************************************************)
EXTENDS CycleProofs, VmRefinement

Replies == [v \in VmId |-> machine[v].reply]
Statuses == [v \in VmId |-> StatusOf(states[v])]

(* The VM that runs goes on with nothing left of its last call, and when   *)
(* its own call is handled it is still the one whose turn it is.           *)
Turns ==
    Usable =>
        /\ \A v \in VmId : states[v] = Absent => Replies[v] = NoReply
        /\ pc = "machine" \/ SliceOver => Replies[vm_id_to_run] = NoReply
        /\ pc = "messages" /\ SliceOver => ToRun(vm_id_to_run)
        /\ message_box # <<>> /\ Head(message_box).tag = "Pipe" => next_pipe_slot \in PipeId

-----------------------------------------------------------------------------
(* What steps do to the replies *)

LEMMA OneAnswered ==
    ASSUME machine \in [VmId -> Machine], NEW v \in VmId, NEW r,
           machine' = [machine EXCEPT ![v].reply = r]
    PROVE  Replies' = [Replies EXCEPT ![v] = r]
  BY DEF Machine, Replies

LEMMA NoneAnswered ==
    ASSUME Inv1,
           \/ Guest \/ process_io \/ deadlock \/ spawn_refused \/ spawn_fails \/ join_waits
           \/ io_waits \/ yielded \/ stopped \/ exit_begins \/ (\E md, l : run_on(md, l))
           \/ suspend \/ resume \/ dropped \/ UNCHANGED vars
    PROVE  Replies' = Replies
  <1>0. machine \in [VmId -> Machine]
    BY DEF Inv1, TypeOK
  <1>1. CASE Guest
    <2>1. \E c : machine' = [machine EXCEPT ![self].cycles = c]
      BY <1>1, GuestSteps DEF inline, SliceEnds
    <2>2. \A u \in VmId : machine'[u].reply = machine[u].reply
      BY <1>0, <2>1, OneCount
    <2> QED BY <2>2 DEF Replies
  <1>2. CASE ~Guest
    <2>1. UNCHANGED machine
      BY <1>2 DEF process_io, deadlock, spawn_refused, spawn_fails, join_waits, io_waits, yielded,
                  stopped, exit_begins, run_on, suspend, resume, dropped, vars
    <2> QED BY <2>1 DEF Replies
  <1> QED BY <1>1, <1>2

(* A message that is answered. *)
LEMMA Answered ==
    ASSUME Inv1, Usable', NEW r, pc = "messages", message_box # <<>>,
           Answer(Head(message_box), r) \/ Refuse(Head(message_box), r)
    PROVE  /\ Replies' = [Replies EXCEPT ![vm_id_to_run] = r]
           /\ pc' = "messages" /\ message_box' = <<>> /\ UNCHANGED <<terminated_vms, outcome>>
           /\ UNCHANGED <<vm_id_to_run, result>>
  <1>1. /\ machine' = [machine EXCEPT ![Head(message_box).vm].reply = r]
        /\ Handled /\ Goto("messages")
    BY DEF Answer, Refuse, Dropped, Return, Usable, Resumable
  <1>2. /\ Head(message_box).vm = vm_id_to_run /\ vm_id_to_run \in VmId
        /\ Tail(message_box) = <<>>
    BY HandlingFacts
  <1>3. Replies' = [Replies EXCEPT ![vm_id_to_run] = r]
    <2>1. machine' = [machine EXCEPT ![vm_id_to_run].reply = r]
      BY <1>1, <1>2
    <2> QED BY <1>2, <2>1, OneAnswered DEF Inv1, TypeOK
  <1> QED BY <1>1, <1>2, <1>3 DEF Handled, Goto, locals

LEMMA BootAnswers ==
    ASSUME Inv1, Usable', NEW md, NEW l, run_boot(md, l)
    PROVE  /\ next_vm_id = ROOT_VM_ID /\ next_vm_id' = next_vm_id + 1
           /\ states' = [states EXCEPT ![ROOT_VM_ID] = Runnable]
           /\ Replies' = [Replies EXCEPT ![ROOT_VM_ID] = NoReply]
           /\ UNCHANGED <<next_pipe_slot, pipes, terminated_vms, message_box>>
           /\ pc = "idle" /\ pc' = "process_io" /\ outcome' = "none"
  <1>1. next_vm_id = ROOT_VM_ID
    <2>1. Usable /\ states[ROOT_VM_ID] = Absent
      BY Root DEF run_boot, Called, Live, Usable
    <2> QED BY <2>1, Root DEF Inv1, Ids, TypeOK, Usable
  <1>2. /\ next_vm_id' = next_vm_id + 1 /\ pc' = "process_io" /\ outcome' = "none"
        /\ states' = [states EXCEPT ![ROOT_VM_ID] = Runnable]
        /\ machine' = [machine EXCEPT ![ROOT_VM_ID] = [cycles |-> LoadCycles, reply |-> NoReply]]
        /\ UNCHANGED <<next_pipe_slot, pipes, terminated_vms, message_box>> /\ pc = "idle"
    BY <1>1 DEF run_boot, Called, Booted, Return, Usable, Resumable
  <1>3. Replies' = [Replies EXCEPT ![ROOT_VM_ID] = NoReply]
    BY <1>2, Root DEF Replies, Inv1, TypeOK, Machine
  <1> QED BY <1>1, <1>2, <1>3

LEMMA SpawnAnswers ==
    ASSUME Inv1, Usable', spawn_done
    PROVE  LET m == Head(message_box)
           IN  /\ pc = "messages" /\ message_box # <<>> /\ MayPass(m)
               /\ next_vm_id \in VmId /\ next_vm_id # vm_id_to_run /\ next_vm_id' = next_vm_id + 1
               /\ states' = [states EXCEPT ![next_vm_id] = Runnable]
               /\ pipes' = Passed(m, next_vm_id)
               /\ Replies' = [Replies EXCEPT ![next_vm_id] = NoReply,
                                 ![vm_id_to_run] = [op |-> "spawn", code |-> SUCCESS]]
               /\ pc' = "messages" /\ message_box' = <<>>
               /\ UNCHANGED <<next_pipe_slot, terminated_vms, outcome, vm_id_to_run, result>>
  <1> DEFINE m == Head(message_box)
             new == [cycles |-> LoadCycles, reply |-> NoReply]
             ok == [op |-> "spawn", code |-> SUCCESS]
  <1>1. /\ pc = "messages" /\ message_box # <<>> /\ MayPass(m) /\ m.tag = "Spawn"
        /\ next_vm_id' = next_vm_id + 1
        /\ states' = [states EXCEPT ![next_vm_id] = Runnable]
        /\ pipes' = Passed(m, next_vm_id)
        /\ machine' = [machine EXCEPT ![next_vm_id] = new, ![m.vm].reply = ok]
        /\ Handled /\ Goto("messages") /\ UNCHANGED next_pipe_slot
    BY DEF spawn_done, Handling, Dropped, Return, Usable, Resumable
  <1>2. m.vm = vm_id_to_run /\ vm_id_to_run \in VmId /\ Tail(message_box) = <<>>
        /\ states[vm_id_to_run] = Runnable
    BY <1>1, HandlingFacts
  <1>3. next_vm_id \in VmId
    <2>1. next_vm_id < MaxVms
      BY <1>1, HandlingFacts DEF Checked
    <2> QED BY <2>1, TypesAssumption DEF Inv1, TypeOK, VmId, FIRST_VM_ID
  <1>4. next_vm_id # vm_id_to_run
    <2>1. states[next_vm_id] = Absent
      BY <1>3, Root DEF Inv1, Ids
    <2> QED BY <1>2, <2>1, StateValues
  <1>5. Replies' = [Replies EXCEPT ![next_vm_id] = NoReply, ![vm_id_to_run] = ok]
    <2>1. machine' = [machine EXCEPT ![next_vm_id] = new, ![vm_id_to_run].reply = ok]
      BY <1>1, <1>2
    <2> QED BY <1>2, <1>3, <1>4, <2>1 DEF Replies, Inv1, TypeOK, Machine
  <1> QED BY <1>1, <1>2, <1>3, <1>4, <1>5 DEF Handled, Goto, locals

LEMMA WakeAnswers ==
    ASSUME Inv1, Usable', NEW v \in VmId, wake_joiner(v)
    PROVE  /\ pc = "joiners" /\ pc' = "joiners" /\ v \in joining_vms /\ v # vm_id_to_run
           /\ joining_vms' = joining_vms \ {v}
           /\ states' = [states EXCEPT ![v] = Runnable]
           /\ Replies' = [Replies EXCEPT ![v] = [op |-> "join", code |-> SUCCESS,
                                                target |-> vm_id_to_run, exit |-> result.code]]
           /\ UNCHANGED <<next_vm_id, next_pipe_slot, pipes, terminated_vms, message_box, outcome,
                          vm_id_to_run, result>>
  <1> DEFINE j == [op |-> "join", code |-> SUCCESS, target |-> states[v].target, exit |-> result.code]
  <1>1. /\ pc = "joiners" /\ v \in joining_vms
        /\ UNCHANGED <<next_vm_id, next_pipe_slot, pipes, terminated_vms, message_box,
                       vm_id_to_run, result>>
    BY DEF wake_joiner, FirstJoiner
  <1>2. /\ pc' = "joiners" /\ UNCHANGED outcome /\ joining_vms' = joining_vms \ {v}
        /\ states' = [states EXCEPT ![v] = Runnable]
        /\ machine' = [machine EXCEPT ![v].reply = j]
    BY DEF wake_joiner, Wake, Goto, Return, Usable, Resumable
  <1>3. states[v].tag = "Join" /\ states[v].target = vm_id_to_run /\ states[vm_id_to_run] = Runnable
    BY <1>1 DEF Inv1, Phases
  <1>4. v # vm_id_to_run
    BY <1>3, StateValues
  <1>5. Replies' = [Replies EXCEPT ![v] = j]
    <2> HIDE DEF j
    <2> QED BY <1>2, OneAnswered DEF Inv1, TypeOK
  <1> QED BY <1>1, <1>2, <1>3, <1>4, <1>5

LEMMA ClosedAnswers ==
    ASSUME Inv1, Usable', NEW v \in VmId, finish_closed(v), pc' # "panicked"
    PROVE  /\ pc = "transfer" /\ pc' = "transfer" /\ v \in closed_pipes
           /\ states' = [states EXCEPT ![v] = Runnable]
           /\ Replies' = [Replies EXCEPT ![v] = EofReply(states[v])]
           /\ UNCHANGED <<next_vm_id, next_pipe_slot, pipes, terminated_vms, message_box, outcome>>
  <1>1. /\ pc = "transfer" /\ v \in closed_pipes
        /\ UNCHANGED <<next_vm_id, next_pipe_slot, pipes, terminated_vms, message_box>>
    BY DEF finish_closed, FirstClosed
  <1>2. /\ pc' = "transfer" /\ UNCHANGED outcome
        /\ states' = [states EXCEPT ![v] = Runnable]
        /\ machine' = [machine EXCEPT ![v].reply = EofReply(states[v])]
    BY DEF finish_closed, Wake, Goto, Return, Usable, Resumable
  <1>3. Replies' = [Replies EXCEPT ![v] = EofReply(states[v])]
    BY <1>2, OneAnswered DEF Inv1, TypeOK
  <1> QED BY <1>1, <1>2, <1>3

LEMMA TransferAnswers ==
    ASSUME Inv1, Usable', NEW x \in pairs, transfer(x)
    PROVE  LET n == x.ws.consumed + copiable(x)
           IN  /\ pc = "transfer" /\ pc' = "transfer"
               /\ states' = [states EXCEPT ![x.reader] = Runnable, ![x.writer] = Written(x, n)]
               /\ Replies' = [Replies EXCEPT ![x.reader] = IoDone("read", x.rs, copiable(x)),
                     ![x.writer] = IF n = x.ws.length THEN IoDone("write", x.ws, n) ELSE @]
               /\ UNCHANGED <<next_vm_id, next_pipe_slot, pipes, terminated_vms, message_box, outcome>>
  <1> DEFINE n == x.ws.consumed + copiable(x)
             Read == IoDone("read", x.rs, copiable(x))
             Wrote == IoDone("write", x.ws, n)
             all == n = x.ws.length
  <1>1. /\ pc = "transfer"
        /\ UNCHANGED <<next_vm_id, next_pipe_slot, pipes, terminated_vms, message_box>>
    BY DEF transfer
  <1>2. /\ pc' = "transfer" /\ UNCHANGED outcome
        /\ states' = [states EXCEPT ![x.reader] = Runnable, ![x.writer] = Written(x, n)]
        /\ machine' = [machine EXCEPT ![x.reader].reply = Read,
                          ![x.writer].reply = IF all THEN Wrote ELSE @]
    BY DEF transfer, Goto, Return, WriterFails, Usable, Resumable
  <1>3. x.reader \in VmId /\ x.writer \in VmId /\ machine \in [VmId -> Machine]
    BY DEF Inv1, TypeOK, Pair
  <1>4. Replies' = [Replies EXCEPT ![x.reader] = Read, ![x.writer] = IF all THEN Wrote ELSE @]
    <2> HIDE DEF Read, Wrote, all
    <2> QED BY <1>2, <1>3 DEF Replies, Machine
  <1> QED BY <1>1, <1>2, <1>4

LEMMA PickAnswers ==
    ASSUME Inv1, NEW v \in VmId, pick(v)
    PROVE  /\ IoFinished /\ ToRun(v) /\ pc' = "machine" /\ vm_id_to_run' = v
           /\ Replies' = [Replies EXCEPT ![v] = NoReply]
           /\ UNCHANGED <<next_vm_id, next_pipe_slot, states, pipes, terminated_vms, message_box,
                          outcome>>
  <1>1. Replies' = [Replies EXCEPT ![v] = NoReply]
    BY OneAnswered DEF pick, Inv1, TypeOK
  <1> QED BY <1>1 DEF pick, Goto

LEMMA ExitAnswers ==
    ASSUME Inv1, exit_ends
    PROVE  /\ pc = "joiners" /\ pc' = "process_io" /\ joining_vms = {} /\ vm_id_to_run \in VmId
           /\ states' = [states EXCEPT ![vm_id_to_run] = Absent]
           /\ Replies' = [Replies EXCEPT ![vm_id_to_run] = NoReply]
           /\ pipes' = PipesLeft(vm_id_to_run)
           /\ UNCHANGED <<next_vm_id, next_pipe_slot, terminated_vms, message_box, outcome>>
  <1>1. vm_id_to_run \in VmId /\ machine' = [machine EXCEPT ![vm_id_to_run] = NoMachine]
    BY DEF exit_ends, Inv1, Phases
  <1>2. Replies' = [Replies EXCEPT ![vm_id_to_run] = NoReply]
    BY <1>1 DEF Replies, Inv1, TypeOK, Machine, NoMachine
  <1> QED BY <1>1, <1>2 DEF exit_ends, NextIteration, Goto

-----------------------------------------------------------------------------
(* Turns is inductive *)

LEMMA InitTurns == Init => Turns
  BY DEF Init, Turns, Replies, SliceOver

LEMMA GuestTurns ==
    ASSUME Inv1, Charged, Turns, Guest
    PROVE  Turns'
  <1> SUFFICES ASSUME Usable' PROVE Turns' BY DEF Turns
  <1>1. /\ pc = "machine" /\ Usable /\ message_box = <<>> /\ vm_id_to_run \in VmId
        /\ UNCHANGED <<states, next_pipe_slot, vm_id_to_run>> /\ Replies' = Replies
    <2>1. pc = "machine" /\ UNCHANGED <<states, next_pipe_slot, vm_id_to_run>>
      BY GuestSteps DEF inline, Sliced, scheduler, locals
    <2>2. Usable
      BY <2>1, InRun
    <2>3. message_box = <<>> /\ vm_id_to_run \in VmId
      BY <2>1, <2>2 DEF Inv1, Messages, Phases, Usable, Resumable
    <2> QED BY <2>1, <2>2, <2>3, NoneAnswered
  <1>2. Replies[vm_id_to_run] = NoReply /\ ToRun(vm_id_to_run)
    BY <1>1 DEF Turns, Charged
  <1>3. message_box' # <<>> /\ Head(message_box').tag = "Pipe" => next_pipe_slot \in PipeId
    <2>1. CASE \E k \in 1 .. MaxSlice : pipe(k)
      BY <2>1 DEF pipe
    <2>2. CASE \/ \E k \in 1 .. MaxSlice : inline(k) \/ exit(k) \/ fault(k)
               \/ \E k \in 0 .. MaxSlice : exceed(k) \/ interrupt(k)
      <3>1. message_box' = message_box \/ message_box' = message_box \o <<>>
        BY <2>2 DEF inline, exit, fault, exceed, interrupt, SliceEnds, scheduler
      <3> QED BY <1>1, <3>1, OneMessage
    <2>3. CASE \E k \in 1 .. MaxSlice : spawn(k) \/ join(k) \/ pipe_write(k) \/ pipe_read(k)
      <3>0. ASSUME NEW call, NEW k, NEW m, Yield(call, k, m), m.tag # "Pipe"
            PROVE  Head(message_box').tag # "Pipe"
        BY <1>1, <3>0, OneMessage DEF Yield, SliceEnds
      <3>1. CASE \E k \in 1 .. MaxSlice : spawn(k)
        BY <3>0, <3>1 DEF spawn
      <3>2. CASE \E k \in 1 .. MaxSlice : join(k)
        BY <3>0, <3>2 DEF join
      <3>3. CASE \E k \in 1 .. MaxSlice : pipe_write(k)
        BY <3>0, <3>3 DEF pipe_write, IoArgs
      <3>4. CASE \E k \in 1 .. MaxSlice : pipe_read(k)
        BY <3>0, <3>4 DEF pipe_read, IoArgs
      <3> QED BY <2>3, <3>1, <3>2, <3>3, <3>4
    <2> QED BY <2>1, <2>2, <2>3 DEF Guest
  <1>4. Turns'
    BY <1>1, <1>2, <1>3 DEF Turns, ToRun
  <1> QED BY <1>4

(* Steps that leave no VM about to run or to be answered. *)
LEMMA KeptTurns ==
    ASSUME Inv1, Turns, Usable, ~(pc' = "machine" \/ SliceOver'),
           message_box' = <<>>,
           \A u \in VmId : states'[u] = Absent =>
               \/ Replies'[u] = NoReply
               \/ states[u] = Absent /\ Replies'[u] = Replies[u]
    PROVE  Turns'
  BY DEF Turns

LEMMA HandlerTurns ==
    ASSUME Inv1, Turns,
           \/ spawn_refused \/ spawn_fails \/ spawn_done \/ join_terminated \/ join_unknown
           \/ join_waits \/ pipe_create \/ io_not_owner \/ io_other_end_closed \/ io_waits
    PROVE  Turns'
  <1> DEFINE m == Head(message_box)
  <1> SUFFICES ASSUME Usable' PROVE Turns' BY DEF Turns
  <1>0. outcome' # "Error"
    BY DEF Usable, Resumable
  <1>1. /\ pc = "messages" /\ message_box # <<>> /\ Usable
    BY InRun
    DEF spawn_refused, spawn_fails, spawn_done, join_terminated, join_unknown, join_waits,
        pipe_create, io_not_owner, io_other_end_closed, io_waits, HandlingIo, Handling
  <1>2. /\ result.tag = "YIELD" /\ vm_id_to_run \in VmId /\ states[vm_id_to_run] = Runnable
        /\ m.vm = vm_id_to_run /\ Tail(message_box) = <<>>
    BY <1>1, HandlingFacts
  <1>3. Replies \in [VmId -> Reply] /\ states \in [VmId -> VmState]
    BY DEF Replies, Inv1, TypeOK, Machine
  <1>4. ASSUME NEW r, Answer(m, r) \/ Refuse(m, r), UNCHANGED states PROVE Turns'
    <2>1. /\ Replies' = [Replies EXCEPT ![vm_id_to_run] = r]
          /\ pc' = "messages" /\ message_box' = <<>> /\ UNCHANGED result
      BY <1>1, <1>4, Answered
    <2>2. \A u \in VmId : states'[u] = Absent => u # vm_id_to_run
      BY <1>2, <1>4, StateValues
    <2>3. \A u \in VmId : states'[u] = Absent => states[u] = Absent /\ Replies'[u] = Replies[u]
      BY <1>3, <1>4, <2>1, <2>2
    <2> QED BY <1>1, <1>2, <2>1, <2>3, KeptTurns DEF SliceOver
  <1>5. CASE \/ join_terminated \/ join_unknown \/ pipe_create \/ io_not_owner
             \/ io_other_end_closed
    BY <1>4, <1>5 DEF join_terminated, join_unknown, pipe_create, io_not_owner, io_other_end_closed,
                      Refuse
  <1>6. CASE spawn_refused \/ spawn_fails
    BY <1>0, <1>6 DEF spawn_refused, spawn_fails, Dropped, Return
  <1>7. CASE join_waits \/ io_waits
    <2>1. Replies' = Replies /\ pc' = "messages" /\ message_box' = <<>> /\ UNCHANGED result
      BY <1>2, <1>7, NoneAnswered DEF join_waits, io_waits, Handled, Goto, locals
    <2>2. \E s : states' = [states EXCEPT ![m.vm] = s]
      BY <1>7 DEF join_waits, io_waits
    <2>3. states'[vm_id_to_run] # Absent
      <3>1. CASE join_waits
        <4>1. states'[vm_id_to_run] = [tag |-> "Join", target |-> m.target, addr |-> m.addr]
          BY <1>2, <1>3, <3>1 DEF join_waits
        <4> QED BY <4>1, StateValues
      <3>2. CASE io_waits
        <4>1. states'[vm_id_to_run] = Waiting(m)
          BY <1>2, <1>3, <3>2 DEF io_waits
        <4>2. Waiting(m).tag \in {"WaitForRead", "WaitForWrite"}
          BY DEF Waiting
        <4> QED BY <4>1, <4>2, StateValues
      <3> QED BY <1>7, <3>1, <3>2
    <2>4. \A u \in VmId : u # vm_id_to_run => states'[u] = states[u]
      BY <1>2, <1>3, <2>2
    <2> QED BY <1>1, <1>2, <2>1, <2>3, <2>4, KeptTurns DEF SliceOver
  <1>8. CASE spawn_done
    <2>1. /\ next_vm_id \in VmId /\ states' = [states EXCEPT ![next_vm_id] = Runnable]
          /\ Replies' = [Replies EXCEPT ![next_vm_id] = NoReply,
                           ![vm_id_to_run] = [op |-> "spawn", code |-> SUCCESS]]
          /\ pc' = "messages" /\ message_box' = <<>> /\ UNCHANGED result
          /\ next_vm_id # vm_id_to_run
      BY <1>8, SpawnAnswers
    <2>2. \A u \in VmId : states'[u] = Absent => u \notin {next_vm_id, vm_id_to_run}
      BY <1>2, <1>3, <2>1, StateValues
    <2>3. \A u \in VmId : states'[u] = Absent => states[u] = Absent /\ Replies'[u] = Replies[u]
      BY <1>3, <2>1, <2>2
    <2> QED BY <1>1, <1>2, <2>1, <2>3, KeptTurns DEF SliceOver
  <1> QED BY <1>5, <1>6, <1>7, <1>8

LEMMA IoTurns ==
    ASSUME Inv2, Turns, (\E v \in VmId : finish_closed(v) \/ pick(v)) \/ (\E x \in pairs : transfer(x))
    PROVE  Turns'
  <1> SUFFICES ASSUME Usable' PROVE Turns' BY DEF Turns
  <1>0. Inv1 /\ Replies \in [VmId -> Reply] /\ states \in [VmId -> VmState]
    BY DEF Replies, Inv2, Inv1, TypeOK, Machine
  <1>1. pc = "transfer" /\ Usable /\ message_box = <<>>
    <2>1. pc = "transfer"
      BY DEF finish_closed, pick, transfer, IoFinished
    <2>2. Usable
      BY <1>0, <2>1, InRun
    <2> QED BY <1>0, <2>1, <2>2 DEF Inv1, Messages, Usable, Resumable
  <1>2. ASSUME NEW v \in VmId, pick(v) PROVE Turns'
    <2>1. /\ pc' = "machine" /\ vm_id_to_run' = v /\ Replies' = [Replies EXCEPT ![v] = NoReply]
          /\ UNCHANGED <<states, message_box>>
      BY <1>0, <1>2, PickAnswers
    <2>2. Replies'[v] = NoReply /\ \A u \in VmId : Replies'[u] \in {Replies[u], NoReply}
      BY <1>0, <2>1
    <2>3. PICK u \in VmId : u = v
      OBVIOUS
    <2>4. Replies'[u] = NoReply /\ vm_id_to_run' = u
      BY <2>1, <2>2, <2>3
    <2> QED BY <1>1, <2>1, <2>2, <2>4 DEF Turns, SliceOver
  <1>3. ASSUME NEW v \in VmId, finish_closed(v) PROVE Turns'
    <2>1. CASE pc' = "panicked"
      <3>1. UNCHANGED <<states, machine, message_box>>
        BY <1>3, <2>1 DEF finish_closed, Goto, Return
      <3> QED BY <1>0, <1>1, <2>1, <3>1, KeptTurns DEF SliceOver, Replies
    <2>2. CASE pc' # "panicked"
      <3>1. /\ pc' = "transfer" /\ states' = [states EXCEPT ![v] = Runnable]
            /\ Replies' = [Replies EXCEPT ![v] = EofReply(states[v])] /\ UNCHANGED message_box
        BY <1>0, <1>3, <2>2, ClosedAnswers
      <3>2. \A u \in VmId : states'[u] = Absent => u # v
        BY <1>0, <3>1, StateValues
      <3>3. \A u \in VmId : states'[u] = Absent => states[u] = Absent /\ Replies'[u] = Replies[u]
        BY <1>0, <3>1, <3>2
      <3> QED BY <1>0, <1>1, <3>1, <3>3, KeptTurns DEF SliceOver
    <2> QED BY <2>1, <2>2
  <1>4. ASSUME NEW x \in pairs, transfer(x) PROVE Turns'
    <2> DEFINE n == x.ws.consumed + copiable(x)
               w == Written(x, n)
    <2>1. /\ pc' = "transfer" /\ UNCHANGED message_box
          /\ states' = [states EXCEPT ![x.reader] = Runnable, ![x.writer] = w]
          /\ \E a, b : Replies' = [Replies EXCEPT ![x.reader] = a, ![x.writer] = b]
      BY <1>0, <1>4, TransferAnswers
    <2>2. x \in Pair /\ x.reader \in VmId /\ x.writer \in VmId
      BY <1>0 DEF Inv1, TypeOK, Pair
    <2>3. w # Absent
      BY <2>2, Copies, StateValues DEF WriteState
    <2> HIDE DEF w
    <2>4. \A u \in VmId : states'[u] = Absent => u \notin {x.reader, x.writer}
      BY <1>0, <2>1, <2>3, StateValues
    <2>5. \A u \in VmId : states'[u] = Absent => states[u] = Absent /\ Replies'[u] = Replies[u]
      BY <1>0, <2>1, <2>4
    <2> QED BY <1>0, <1>1, <2>1, <2>5, KeptTurns DEF SliceOver
  <1> QED BY <1>2, <1>3, <1>4

LEMMA ExitTurns ==
    ASSUME Inv1, Turns, exit_root \/ exit_begins \/ exit_ends \/ (\E v \in VmId : wake_joiner(v))
    PROVE  Turns'
  <1> SUFFICES ASSUME Usable' PROVE Turns' BY DEF Turns
  <1>0. Replies \in [VmId -> Reply] /\ states \in [VmId -> VmState]
    BY DEF Replies, Inv1, TypeOK, Machine
  <1>1. Usable /\ message_box = <<>> /\ pc \in {"messages", "joiners"}
    <2>1. pc = "joiners" \/ (pc = "messages" /\ message_box = <<>>)
      BY DEF exit_root, exit_begins, exit_ends, wake_joiner, Settling
    <2>2. Usable
      BY <2>1, InRun
    <2> QED BY <2>1, <2>2 DEF Inv1, Messages, Usable, Resumable
  <1>2. CASE exit_root
    <2>1. /\ pc' = "idle" /\ UNCHANGED message_box
          /\ \A u \in VmId : states'[u] = Absent => machine'[u] = NoMachine
      BY <1>2, StateValues DEF exit_root, Return
    <2> QED BY <1>1, <2>1, KeptTurns DEF SliceOver, Replies, NoMachine
  <1>3. CASE exit_begins
    <2>1. /\ pc = "messages" /\ message_box = <<>> /\ result.tag = "Ok" /\ pc' = "joiners"
          /\ UNCHANGED <<states, message_box, vm_id_to_run>> /\ Replies' = Replies
          /\ vm_id_to_run \in VmId
      BY <1>3, NoneAnswered DEF exit_begins, Settling, Goto, Inv1, Phases
    <2>2. Replies[vm_id_to_run] = NoReply
      BY <1>1, <2>1 DEF Turns, SliceOver
    <2> QED BY <1>1, <2>1, <2>2 DEF Turns
  <1>4. CASE exit_ends
    <2>1. /\ pc' = "process_io" /\ vm_id_to_run \in VmId /\ UNCHANGED message_box
          /\ states' = [states EXCEPT ![vm_id_to_run] = Absent]
          /\ Replies' = [Replies EXCEPT ![vm_id_to_run] = NoReply]
      BY <1>4, ExitAnswers
    <2>2. \A u \in VmId : \/ Replies'[u] = NoReply
                          \/ states'[u] = states[u] /\ Replies'[u] = Replies[u]
      BY <1>0, <2>1
    <2> QED BY <1>1, <2>1, <2>2, KeptTurns DEF SliceOver
  <1>5. ASSUME NEW v \in VmId, wake_joiner(v) PROVE Turns'
    <2>1. /\ pc = "joiners" /\ pc' = "joiners" /\ v # vm_id_to_run /\ UNCHANGED <<message_box, vm_id_to_run>>
          /\ states' = [states EXCEPT ![v] = Runnable]
          /\ \E r : Replies' = [Replies EXCEPT ![v] = r]
      BY <1>5, WakeAnswers
    <2>2. /\ states'[v] # Absent
          /\ \A u \in VmId : u # v => states'[u] = states[u] /\ Replies'[u] = Replies[u]
      BY <1>0, <2>1, StateValues
    <2>3. vm_id_to_run \in VmId /\ Replies[vm_id_to_run] = NoReply
      BY <1>1, <2>1 DEF Turns, SliceOver, Inv1, Phases
    <2> QED BY <1>1, <2>1, <2>2, <2>3 DEF Turns
  <1> QED BY <1>2, <1>3, <1>4, <1>5

LEMMA NextTurns == Inv2 /\ Charged /\ Turns /\ [Next]_vars => Turns'
  <1> SUFFICES ASSUME Inv2, Charged, Turns, [Next]_vars PROVE Turns' OBVIOUS
  <1>0. Inv1
    BY DEF Inv2
  <1>1. CASE Guest
    BY <1>0, <1>1, GuestTurns
  <1>2. CASE (\E v \in VmId : finish_closed(v) \/ pick(v)) \/ (\E x \in pairs : transfer(x))
    BY <1>2, IoTurns
  <1>3. CASE \/ spawn_refused \/ spawn_fails \/ spawn_done \/ join_terminated \/ join_unknown
             \/ join_waits \/ pipe_create \/ io_not_owner \/ io_other_end_closed \/ io_waits
    BY <1>0, <1>3, HandlerTurns
  <1>4. CASE exit_root \/ exit_begins \/ exit_ends \/ (\E v \in VmId : wake_joiner(v))
    BY <1>0, <1>4, ExitTurns
  <1>5. CASE process_io \/ deadlock \/ yielded \/ stopped \/ suspend \/ resume
             \/ \E md, l : run_on(md, l)
    <2> SUFFICES ASSUME Usable' PROVE Turns' BY DEF Turns
    <2>1. /\ pc' \in {"idle", "stored", "process_io", "transfer", "panicked"}
          /\ UNCHANGED states /\ message_box' \in {message_box, <<>>}
          /\ pc \in {"idle", "stored", "process_io", "transfer"} \/ message_box = <<>>
      BY <1>5 DEF process_io, deadlock, IoFinished, yielded, stopped, suspend, resume, run_on, Called,
                  Settling, NextIteration, Return, Goto, scheduler, locals
    <2>2. Usable
      BY <1>0, <1>5, InRun DEF process_io, deadlock, IoFinished, yielded, stopped, suspend, resume,
                          run_on, Called, Settling, Usable
    <2>3. message_box = <<>>
      BY <1>0, <2>1, <2>2 DEF Inv1, Messages, Usable, Resumable
    <2>4. Replies' = Replies
      BY <1>0, <1>5, NoneAnswered
    <2> QED BY <1>0, <2>1, <2>2, <2>3, <2>4, KeptTurns DEF SliceOver
  <1>6. CASE \E md, l : run_boot(md, l)
    <2> SUFFICES ASSUME Usable' PROVE Turns' BY DEF Turns
    <2>1. /\ pc = "idle" /\ pc' = "process_io" /\ UNCHANGED message_box /\ outcome \in Resumable
          /\ states' = [states EXCEPT ![ROOT_VM_ID] = Runnable]
          /\ Replies' = [Replies EXCEPT ![ROOT_VM_ID] = NoReply]
      BY <1>0, <1>6, BootAnswers DEF run_boot, Called
    <2>2. \A u \in VmId : \/ Replies'[u] = NoReply
                          \/ states'[u] = states[u] /\ Replies'[u] = Replies[u]
      BY <1>0, <2>1, Root DEF Replies, Inv1, TypeOK
    <2>3. message_box = <<>>
      BY <1>0, <2>1 DEF Inv1, Messages, Resumable
    <2> QED BY <1>0, <2>1, <2>2, <2>3, KeptTurns DEF SliceOver, Usable
  <1>7. CASE dropped \/ UNCHANGED vars
    BY <1>7 DEF dropped, vars, scheduler, locals, Turns, Replies, SliceOver, Usable, ToRun
  <1> QED BY <1>1, <1>2, <1>3, <1>4, <1>5, <1>6, <1>7 DEF Next, iterate, host, Caller
-----------------------------------------------------------------------------
(* What VmSystem sees *)

(* VmSystem has the types of the scheduler. *)
LEMMA SameTypes ==
    /\ System!VmId = VmId /\ System!NoVm = NoVm
    /\ System!PipeId = PipeId /\ System!Length = Length /\ System!JoinTarget = JoinTarget
    /\ System!FIRST_VM_ID = FIRST_VM_ID /\ System!ROOT_VM_ID = ROOT_VM_ID
    /\ System!FIRST_PIPE_SLOT = FIRST_PIPE_SLOT
    /\ System!NoReply = NoReply /\ System!SUCCESS = SUCCESS
    /\ System!JOIN_FAILURE = JOIN_FAILURE /\ System!INVALID_PIPE = INVALID_PIPE
    /\ System!OTHER_END_CLOSED = OTHER_END_CLOSED
    /\ \A p : /\ System!other_pipe(p) = other_pipe(p)
              /\ System!is_read(p) <=> is_read(p)
              /\ System!is_write(p) <=> is_write(p)
  BY DEF System!VmId, VmId, System!NoVm, NoVm, System!PipeId, PipeId, System!Length, Length,
         System!JoinTarget, JoinTarget, System!FIRST_VM_ID, FIRST_VM_ID, System!ROOT_VM_ID,
         ROOT_VM_ID, System!FIRST_PIPE_SLOT, FIRST_PIPE_SLOT, System!NoReply, NoReply,
         System!SUCCESS, SUCCESS, System!JOIN_FAILURE, JOIN_FAILURE, System!INVALID_PIPE,
         INVALID_PIPE, System!OTHER_END_CLOSED, OTHER_END_CLOSED, System!other_pipe, other_pipe,
         System!is_read, is_read, System!is_write, is_write

(* No exit is in progress, and nothing has failed. *)
InPlain == Inv1 /\ Usable /\ pc \notin {"panicked", "joiners"}

PlainView ==
    /\ ~Failed /\ outcome # "Deadlock"
    /\ StatusSeen = Statuses
    /\ ReplySeen = Replies
    /\ OwnerSeen = pipes
    /\ ExitsSeen = terminated_vms

LEMMA PlainSeen == InPlain => PlainView
  <1> SUFFICES ASSUME InPlain PROVE PlainView OBVIOUS
  <1>1. ~Failed /\ outcome # "Deadlock"
    BY DEF InPlain, Failed, Usable, Resumable
  <1>2. \A v \in VmId : ~Exiting(v) /\ ~ToWake(v)
    BY DEF InPlain, Exiting, ToWake
  <1>3. StatusSeen = Statuses
    BY <1>1, <1>2 DEF StatusSeen, Statuses
  <1>4. ReplySeen = Replies
    BY <1>1, <1>2 DEF ReplySeen, Replies
  <1>5. OwnerSeen = pipes
    BY <1>1 DEF OwnerSeen, InPlain, Inv1, TypeOK
  <1>6. ExitsSeen = terminated_vms
    BY <1>1 DEF ExitsSeen, InPlain, Inv1, TypeOK
  <1> QED BY <1>1, <1>3, <1>4, <1>5, <1>6 DEF PlainView

LEMMA StatusOfPlain ==
    /\ StatusOf(Absent) = System!None
    /\ StatusOf(Runnable) = System!Ready
    /\ StatusOf(Terminated) = System!Finished
  BY DEF StatusOf, Absent, Runnable, Terminated, System!None, System!Ready, System!Finished

LEMMA StatusOfWaiting ==
    ASSUME NEW s
    PROVE  /\ s.tag = "Join" => StatusOf(s) = System!Joining(s.target)
           /\ s.tag = "WaitForRead" => StatusOf(s) = System!Receiving(s.pipe, s.length)
           /\ s.tag = "WaitForWrite" => StatusOf(s) = System!Sending(s.pipe, s.consumed, s.length)
  BY DEF StatusOf, System!Joining, System!Receiving, System!Sending

(* Nothing is lost that VmSystem tells apart. *)
LEMMA StatusKinds ==
    ASSUME NEW s \in VmState
    PROVE  /\ StatusOf(s) = System!Ready <=> s = Runnable
           /\ StatusOf(s) = System!None <=> s = Absent
           /\ StatusOf(s) = System!Finished <=> s = Terminated
           /\ StatusOf(s).is = "reading" <=> s.tag = "WaitForRead"
           /\ StatusOf(s).is = "writing" <=> s.tag = "WaitForWrite"
           /\ \A t : StatusOf(s) = System!Joining(t) <=> s.tag = "Join" /\ s.target = t
           /\ s.tag \in {"WaitForRead", "WaitForWrite"} =>
                 StatusOf(s).pipe = s.pipe /\ StatusOf(s).length = s.length
           /\ s.tag = "WaitForWrite" => StatusOf(s).consumed = s.consumed
  <1> USE DEF System!Ready, System!None, System!Finished, System!Joining, System!Receiving,
              System!Sending
  <1>1. CASE s \in {Absent, Runnable, Terminated}
    BY <1>1, StatusOfPlain, StateValues
  <1>2. CASE s \in JoinState
    <2>1. s.tag = "Join" /\ s \notin {Absent, Runnable, Terminated}
      BY <1>2, StateValues DEF JoinState
    <2>2. StatusOf(s) = System!Joining(s.target)
      BY <2>1, StatusOfWaiting
    <2> QED BY <2>1, <2>2
  <1>3. CASE s \in ReadState
    <2>1. s.tag = "WaitForRead" /\ s \notin {Absent, Runnable, Terminated}
      BY <1>3, StateValues DEF ReadState
    <2>2. StatusOf(s) = System!Receiving(s.pipe, s.length)
      BY <2>1, StatusOfWaiting
    <2> QED BY <2>1, <2>2
  <1>4. CASE s \in WriteState
    <2>1. s.tag = "WaitForWrite" /\ s \notin {Absent, Runnable, Terminated}
      BY <1>4, StateValues DEF WriteState
    <2>2. StatusOf(s) = System!Sending(s.pipe, s.consumed, s.length)
      BY <2>1, StatusOfWaiting
    <2> QED BY <2>1, <2>2
  <1> QED BY <1>1, <1>2, <1>3, <1>4 DEF VmState

LEMMA OneStatus ==
    ASSUME states \in [VmId -> VmState], NEW v \in VmId, NEW s, states' = [states EXCEPT ![v] = s]
    PROVE  Statuses' = [Statuses EXCEPT ![v] = StatusOf(s)]
  BY DEF Statuses

(* process_io() has nothing left to do: nor has VmSystem. *)
LEMMA QuietNow ==
    ASSUME InPlain, Served
    PROVE  System!Quiet
  <1>0. StatusSeen = Statuses /\ OwnerSeen = pipes
    BY PlainSeen DEF PlainView
  <1>1. \A v \in VmId : Statuses[v] = StatusOf(states[v]) /\ states[v] \in VmState
    BY DEF Statuses, InPlain, Inv1, TypeOK
  <1>2. ASSUME NEW v \in VmId PROVE ~System!Cut(v)
    <2>1. SUFFICES ASSUME System!Cut(v) PROVE FALSE
      OBVIOUS
    <2>2. Waiter(v) /\ StatusSeen[v].pipe = states[v].pipe
      BY <1>0, <1>1, <2>1, StatusKinds DEF System!Cut, System!Io, Waiter, Reading, Writing
    <2>3. ~contains(other_pipe(states[v].pipe))
      BY <1>0, <2>1, <2>2, SameTypes DEF System!Cut, System!Open, contains
    <2> QED BY <2>2, <2>3 DEF Served, AllOpen, OtherEndOpen
  <1>3. ASSUME NEW v \in VmId, NEW u \in VmId PROVE ~System!Meet(v, u)
    <2>1. SUFFICES ASSUME System!Meet(v, u) PROVE FALSE
      OBVIOUS
    <2>2. /\ Reading(v) /\ StatusSeen[v].pipe = states[v].pipe
          /\ Writing(u) /\ StatusSeen[u].pipe = states[u].pipe
      BY <1>0, <1>1, <2>1, StatusKinds DEF System!Meet, Reading, Writing
    <2>3. Meeting(v, u)
      BY <2>1, <2>2, SameTypes DEF System!Meet, Meeting, Waiter
    <2> QED BY <2>3 DEF Served, NoMeeting
  <1> QED BY <1>2, <1>3, SameTypes DEF System!Quiet

(* The turn of the VM that runs. *)
LEMMA TurnNow ==
    ASSUME InPlain, Served, NEW v \in VmId, ToRun(v)
    PROVE  System!Turn(v)
  <1>0. StatusSeen = Statuses /\ ~Failed /\ outcome # "Deadlock"
    BY PlainSeen DEF PlainView
  <1>1. \A u \in VmId : StatusSeen[u] = System!Ready <=> states[u] = Runnable
    BY <1>0, StatusKinds DEF Statuses, InPlain, Inv1, TypeOK
  <1> QED BY <1>0, <1>1, QuietNow, SameTypes DEF System!Turn, ToRun

(* The call of the VM that runs is a step of VmSystem when it is handled. *)
LEMMA CallNow ==
    ASSUME Inv2, IoInv, Turns, pc = "messages", SliceOver
    PROVE  /\ InPlain /\ vm_id_to_run \in VmId
           /\ ReplySeen[vm_id_to_run] = NoReply
           /\ System!Turn(vm_id_to_run)
  <1>1. Usable /\ InPlain
    BY InRun DEF Inv2, InPlain
  <1>2. vm_id_to_run \in VmId /\ states[vm_id_to_run] = Runnable
    BY DEF Inv2, Inv1, Phases, SliceOver
  <1>3. Replies[vm_id_to_run] = NoReply /\ ToRun(vm_id_to_run)
    BY <1>1 DEF Turns
  <1>4. Served
    BY <1>1, <1>2, LastRuns DEF IoInv, Served
  <1> QED BY <1>1, <1>2, <1>3, <1>4, TurnNow, PlainSeen DEF PlainView

(* While an exit is in progress. *)
InExit == Inv1 /\ pc = "joiners"

ExitTold == [op |-> "join", code |-> SUCCESS, target |-> vm_id_to_run, exit |-> result.code]

ExitView ==
    /\ ~Failed /\ outcome # "Deadlock"
    /\ StatusSeen = [v \in VmId |-> IF v = vm_id_to_run THEN System!None
                                    ELSE IF v \in joining_vms THEN System!Ready ELSE Statuses[v]]
    /\ ReplySeen = [v \in VmId |-> IF v \in joining_vms THEN ExitTold ELSE Replies[v]]
    /\ OwnerSeen = PipesLeft(vm_id_to_run)
    /\ ExitsSeen = terminated_vms

LEMMA ExitSeen == InExit => ExitView
  <1> SUFFICES ASSUME InExit PROVE ExitView OBVIOUS
  <1>1. ~Failed /\ outcome # "Deadlock"
    <2>1. Usable /\ pc # "panicked"
      BY InRun DEF InExit
    <2> QED BY <2>1 DEF Failed, Usable, Resumable
  <1>2. \A v \in VmId : /\ Exiting(v) <=> v = vm_id_to_run
                        /\ ToWake(v) <=> v \in joining_vms
    BY DEF InExit, Exiting, ToWake
  <1>3. StatusSeen = [v \in VmId |-> IF v = vm_id_to_run THEN System!None
                                     ELSE IF v \in joining_vms THEN System!Ready ELSE Statuses[v]]
    BY <1>1, <1>2, StatusOfPlain DEF StatusSeen, Statuses
  <1>4. ReplySeen = [v \in VmId |-> IF v \in joining_vms THEN ExitTold ELSE Replies[v]]
    BY <1>1, <1>2 DEF ReplySeen, Replies, ExitTold
  <1>5. OwnerSeen = PipesLeft(vm_id_to_run)
    BY <1>1 DEF OwnerSeen, PipesLeft, InExit
  <1>6. ExitsSeen = terminated_vms
    BY <1>1 DEF ExitsSeen, InExit, Inv1, TypeOK
  <1> QED BY <1>1, <1>3, <1>4, <1>5, <1>6 DEF ExitView

LEMMA NextSeen == (InPlain' => PlainView') /\ (InExit' => ExitView')
  BY PlainSeen, ExitSeen, PTL

-----------------------------------------------------------------------------
(* The steps of the scheduler, as steps of VmSystem *)

(* Whatever fails, VmSystem fails. *)
LEMMA FailStep ==
    ASSUME Usable, pc # "panicked", Failed'
    PROVE  System!Fail
  <1>1. ~Failed /\ outcome # "Deadlock"
    BY DEF Failed, Usable, Resumable
  <1>2. /\ StatusSeen' = [v \in VmId |-> System!None]
        /\ ReplySeen' = [v \in VmId |-> NoReply]
        /\ OwnerSeen' = [p \in PipeId |-> NoVm]
        /\ ExitsSeen' = [v \in VmId |-> NotTerminated]
    BY StatusOfPlain DEF StatusSeen, ReplySeen, OwnerSeen, ExitsSeen
  <1> QED BY <1>1, <1>2, SameTypes DEF System!Fail, System!Nothing

(* Steps that no VM sees. *)
LEMMA Unseen ==
    ASSUME InPlain, InPlain', Replies' = Replies,
           UNCHANGED <<next_vm_id, next_pipe_slot, states, pipes, terminated_vms>>
    PROVE  UNCHANGED System!abstract
  <1>1. Statuses' = Statuses
    BY DEF Statuses
  <1> QED BY <1>1, PlainSeen, NextSeen DEF PlainView, System!abstract

LEMMA ClosedStep ==
    ASSUME Inv2, InPlain, InPlain', NEW v \in VmId, finish_closed(v)
    PROVE  System!EndOfPipe(v)
  <1>1. /\ pc = "transfer" /\ v \in closed_pipes
        /\ states' = [states EXCEPT ![v] = Runnable]
        /\ Replies' = [Replies EXCEPT ![v] = EofReply(states[v])]
        /\ UNCHANGED <<next_vm_id, next_pipe_slot, pipes, terminated_vms>>
    BY ClosedAnswers DEF InPlain
  <1>2. Waiter(v) /\ ~contains(other_pipe(states[v].pipe)) /\ states[v] \in VmState
    BY <1>1 DEF Inv2, Inv1, Phases, TypeOK, ListsFresh, OtherEndOpen, Waiter
  <1>3. Statuses' = [Statuses EXCEPT ![v] = System!Ready]
    BY <1>1, OneStatus, StatusOfPlain DEF Inv2, Inv1, TypeOK
  <1>4. /\ StatusSeen = Statuses /\ Statuses[v] = StatusOf(states[v])
        /\ ReplySeen = Replies /\ OwnerSeen = pipes /\ ExitsSeen = terminated_vms
        /\ StatusSeen' = Statuses' /\ ReplySeen' = Replies' /\ OwnerSeen' = pipes'
        /\ ExitsSeen' = terminated_vms'
        /\ ~Failed /\ outcome # "Deadlock" /\ ~Failed' /\ outcome' # "Deadlock"
    BY PlainSeen, NextSeen DEF PlainView, Statuses
  <1>5. System!Cut(v)
    BY <1>2, <1>4, StatusKinds, SameTypes
    DEF System!Cut, System!Io, System!Open, Waiter, Reading, Writing, contains
  <1>6. EofReply(states[v]) =
          IF StatusSeen[v].is = "reading" THEN System!Told("read", StatusSeen[v], 0)
          ELSE System!Told("write", StatusSeen[v], StatusSeen[v].consumed)
    BY <1>2, <1>4, StatusKinds, SameTypes
    DEF EofReply, IoDone, System!Told, Waiter, Reading, Writing
  <1> QED BY <1>1, <1>3, <1>4, <1>5, <1>6 DEF System!EndOfPipe

LEMMA TransferStep ==
    ASSUME Inv2, InPlain, InPlain', NEW x \in pairs, transfer(x)
    PROVE  x.reader \in VmId /\ x.writer \in VmId /\ System!Transfer(x.reader, x.writer)
  <1> DEFINE r == x.reader
             w == x.writer
             n == x.ws.consumed + copiable(x)
             whole == n = x.ws.length
  <1>1. /\ pc = "transfer"
        /\ states' = [states EXCEPT ![r] = Runnable, ![w] = Written(x, n)]
        /\ Replies' = [Replies EXCEPT ![r] = IoDone("read", x.rs, copiable(x)),
              ![w] = IF whole THEN IoDone("write", x.ws, n) ELSE @]
        /\ UNCHANGED <<next_vm_id, next_pipe_slot, pipes, terminated_vms>>
    BY TransferAnswers DEF InPlain
  <1>2. /\ r \in VmId /\ w \in VmId /\ x.rs \in ReadState /\ x.ws \in WriteState
        /\ states[r] = x.rs /\ states[w] = x.ws /\ x.rs.pipe = other_pipe(x.ws.pipe)
    BY <1>1 DEF Inv2, Inv1, TypeOK, Pair, ListsFresh
  <1>3. /\ x.rs.tag = "WaitForRead" /\ x.ws.tag = "WaitForWrite" /\ x.ws.pipe = other_pipe(x.rs.pipe)
        /\ x.rs \in VmState /\ x.ws \in VmState
    BY <1>2, OtherEnd DEF ReadState, WriteState, VmState
  <1>4. /\ StatusSeen = Statuses
        /\ ReplySeen = Replies /\ OwnerSeen = pipes /\ ExitsSeen = terminated_vms
        /\ StatusSeen' = Statuses' /\ ReplySeen' = Replies' /\ OwnerSeen' = pipes'
        /\ ExitsSeen' = terminated_vms'
        /\ ~Failed /\ outcome # "Deadlock" /\ ~Failed' /\ outcome' # "Deadlock"
    BY PlainSeen, NextSeen DEF PlainView
  <1>5. /\ StatusSeen[r] = System!Receiving(x.rs.pipe, x.rs.length)
        /\ StatusSeen[w] = System!Sending(x.ws.pipe, x.ws.consumed, x.ws.length)
    BY <1>2, <1>3, <1>4, StatusOfWaiting DEF Statuses
  <1>6. System!Meet(r, w)
    BY <1>3, <1>5, SameTypes DEF System!Meet, System!Receiving, System!Sending
  <1>7. StatusOf(Written(x, n)) = IF whole THEN System!Ready
                                  ELSE System!Sending(x.ws.pipe, n, x.ws.length)
    <2>1. CASE whole
      BY <2>1, StatusOfPlain DEF Written
    <2>2. CASE ~whole
      <3>1. /\ Written(x, n) = [x.ws EXCEPT !.consumed = n]
        BY <2>2 DEF Written
      <3>2. /\ Written(x, n).tag = "WaitForWrite" /\ Written(x, n).pipe = x.ws.pipe
            /\ Written(x, n).consumed = n /\ Written(x, n).length = x.ws.length
        BY <1>2, <3>1 DEF WriteState
      <3> QED BY <2>2, <3>2, StatusOfWaiting
    <2> QED BY <2>1, <2>2
  <1>8. Statuses' = [Statuses EXCEPT ![r] = System!Ready, ![w] = StatusOf(Written(x, n))]
    BY <1>1, <1>2, StatusOfPlain DEF Statuses, Inv2, Inv1, TypeOK
  <1>9. r # w
    BY <1>2, <1>3
  <1>10. /\ StatusSeen[r].length = x.rs.length
         /\ StatusSeen[w].length = x.ws.length /\ StatusSeen[w].consumed = x.ws.consumed
         /\ [StatusSeen[w] EXCEPT !.consumed = n] = System!Sending(x.ws.pipe, n, x.ws.length)
         /\ IoDone("read", x.rs, copiable(x)) = System!Told("read", StatusSeen[r], copiable(x))
         /\ IoDone("write", x.ws, n) = System!Told("write", StatusSeen[w], n)
    BY <1>5, SameTypes DEF System!Receiving, System!Sending, System!Told, IoDone
  <1> DEFINE there == StatusSeen[w].length - StatusSeen[w].consumed
             k == IF StatusSeen[r].length < there THEN StatusSeen[r].length ELSE there
             sum == StatusSeen[w].consumed + k
  <1>11. k = copiable(x) /\ sum = n /\ (sum = StatusSeen[w].length <=> whole)
    BY <1>10 DEF copiable
  <1>12. StatusSeen' = [StatusSeen EXCEPT ![r] = System!Ready,
                          ![w] = IF sum = StatusSeen[w].length THEN System!Ready
                                 ELSE [@ EXCEPT !.consumed = sum]]
    <2> HIDE DEF sum, k, n, whole, r, w
    <2> QED BY <1>2, <1>4, <1>7, <1>8, <1>9, <1>10, <1>11
  <1>13. ReplySeen' = [ReplySeen EXCEPT ![r] = System!Told("read", StatusSeen[r], k),
                         ![w] = IF sum = StatusSeen[w].length
                                THEN System!Told("write", StatusSeen[w], sum) ELSE @]
    <2> HIDE DEF sum, k, n, whole, r, w
    <2> QED BY <1>1, <1>4, <1>10, <1>11
  <1>14. System!Transfer(r, w)
    <2> HIDE DEF r, w
    <2> QED BY <1>1, <1>4, <1>6, <1>12, <1>13 DEF System!Transfer
  <1> QED BY <1>2, <1>14

LEMMA FinishedServed ==
    ASSUME Inv2, IoInv, IoFinished
    PROVE  Served
  <1>1. ListsComplete /\ closed_pipes = {} /\ pairs = {}
    BY InRun DEF Inv2, IoInv, IoFinished
  <1>2. AllOpen
    BY <1>1 DEF ListsComplete, AllOpen
  <1>3. NoMeeting
    <2>1. SUFFICES ASSUME NEW v \in VmId, NEW u \in VmId, Meeting(v, u) PROVE FALSE
      BY DEF NoMeeting
    <2>2. \/ Reading(v) /\ Writing(u) /\ Meeting(v, u)
          \/ Reading(u) /\ Writing(v) /\ Meeting(u, v)
      BY <2>1, MeetingFacts
    <2> QED BY <1>1, <2>2 DEF ListsComplete
  <1> QED BY <1>2, <1>3 DEF Served

LEMMA PickStep ==
    ASSUME Inv2, IoInv, InPlain, InPlain', NEW v \in VmId, pick(v)
    PROVE  System!Goes(v) \/ UNCHANGED System!abstract
  <1>1. /\ IoFinished /\ ToRun(v) /\ Replies' = [Replies EXCEPT ![v] = NoReply]
        /\ UNCHANGED <<next_vm_id, next_pipe_slot, states, pipes, terminated_vms>>
    BY PickAnswers DEF InPlain
  <1>2. CASE Replies[v] = NoReply
    <2>1. Replies' = Replies
      BY <1>1, <1>2 DEF Replies
    <2> QED BY <1>1, <2>1, Unseen
  <1>3. CASE Replies[v] # NoReply
    <2>1. System!Turn(v)
      BY <1>1, FinishedServed, TurnNow
    <2>2. Statuses' = Statuses
      BY <1>1 DEF Statuses
    <2> QED BY <1>1, <1>3, <2>1, <2>2, PlainSeen, NextSeen, SameTypes DEF PlainView, System!Goes
  <1> QED BY <1>2, <1>3

(* A call that is answered at once. *)
LEMMA AnswerStep ==
    ASSUME Inv1, InPlain, InPlain', NEW r, message_box # <<>>, pc = "messages",
           Answer(Head(message_box), r) \/ Refuse(Head(message_box), r),
           UNCHANGED <<next_vm_id, next_pipe_slot, states, pipes>>
    PROVE  System!Returns(vm_id_to_run, r)
  <1>1. Replies' = [Replies EXCEPT ![vm_id_to_run] = r] /\ UNCHANGED terminated_vms
    BY Answered DEF InPlain
  <1>2. Statuses' = Statuses
    BY DEF Statuses
  <1> QED BY <1>1, <1>2, PlainSeen, NextSeen DEF PlainView, System!Returns

(* A call that has to wait. *)
LEMMA WaitStep ==
    ASSUME InPlain, InPlain', NEW s, vm_id_to_run \in VmId,
           states' = [states EXCEPT ![vm_id_to_run] = s], Replies' = Replies,
           UNCHANGED <<next_vm_id, next_pipe_slot, pipes, terminated_vms>>
    PROVE  System!Waits(vm_id_to_run, StatusOf(s))
  <1>1. Statuses' = [Statuses EXCEPT ![vm_id_to_run] = StatusOf(s)]
    BY OneStatus DEF InPlain, Inv1, TypeOK
  <1> QED BY <1>1, PlainSeen, NextSeen DEF PlainView, System!Waits

LEMMA JoinStep ==
    ASSUME Inv2, IoInv, Turns, InPlain', join_terminated \/ join_unknown \/ join_waits
    PROVE  vm_id_to_run \in VmId /\ System!Step(vm_id_to_run)
  <1> DEFINE m == Head(message_box)
             t == m.target
  <1>1. pc = "messages" /\ message_box # <<>> /\ m.tag = "Join" /\ SliceOver
    BY DEF join_terminated, join_unknown, join_waits, Handling, SliceOver
  <1>2. m.vm = vm_id_to_run /\ t \in JoinTarget
    BY <1>1, HandlingFacts
    DEF Inv2, Message, SpawnMessage, JoinMessage, PipeMessage, IoMessage
  <1>3. /\ InPlain /\ vm_id_to_run \in VmId /\ ReplySeen[vm_id_to_run] = NoReply
        /\ System!Turn(vm_id_to_run)
    BY <1>1, CallNow
  <1>4. /\ ExitsSeen = terminated_vms
        /\ t \in VmId => (StatusSeen[t] = System!None <=> states[t] = Absent)
    BY <1>3, PlainSeen, StatusKinds DEF PlainView, Statuses, InPlain, Inv1, TypeOK
  <1>5. System!Join(vm_id_to_run, t)
    <2>1. CASE join_terminated
      <3>1. t \in VmId /\ terminated_vms[t] # NotTerminated
        BY <2>1 DEF join_terminated
      <3>2. System!Returns(vm_id_to_run, JoinDone(t))
        BY <1>1, <1>3, <2>1, AnswerStep DEF join_terminated, Inv2
      <3>3. JoinDone(t) = [op |-> "join", code |-> System!SUCCESS, target |-> t,
                           exit |-> ExitsSeen[t]]
        BY <1>4, SameTypes DEF JoinDone
      <3> HIDE DEF t
      <3> QED BY <1>4, <3>1, <3>2, <3>3, SameTypes DEF System!Join
    <2>2. CASE join_unknown
      <3>1. t \in VmId => terminated_vms[t] = NotTerminated /\ states[t] = Absent
        BY <2>2 DEF join_unknown, Live
      <3>2. System!Returns(vm_id_to_run, [op |-> "join", code |-> JOIN_FAILURE])
        BY <1>1, <1>3, <2>2, AnswerStep DEF join_unknown, Refuse, Inv2
      <3> HIDE DEF t
      <3> QED BY <1>4, <3>1, <3>2, SameTypes DEF System!Join
    <2>3. CASE join_waits
      <3> DEFINE s == [tag |-> "Join", target |-> t, addr |-> m.addr]
      <3>1. /\ t \in VmId /\ terminated_vms[t] = NotTerminated /\ states[t] # Absent
            /\ states' = [states EXCEPT ![vm_id_to_run] = s]
            /\ UNCHANGED <<next_vm_id, next_pipe_slot, pipes, terminated_vms>>
        BY <1>2, <2>3 DEF join_waits, Live, Handled
      <3>2. Replies' = Replies
        BY <2>3, NoneAnswered DEF Inv2
      <3>3. StatusOf(s) = System!Joining(t)
        BY StatusOfWaiting
      <3> HIDE DEF s
      <3>4. System!Waits(vm_id_to_run, StatusOf(s))
        BY <1>3, <3>1, <3>2, WaitStep
      <3> HIDE DEF t
      <3> QED BY <1>4, <3>1, <3>3, <3>4, SameTypes DEF System!Join
    <2> QED BY <2>1, <2>2, <2>3
  <1> HIDE DEF t
  <1> QED BY <1>2, <1>3, <1>5, SameTypes DEF System!Step

LEMMA PipeStep ==
    ASSUME Inv2, IoInv, Turns, InPlain', pipe_create
    PROVE  vm_id_to_run \in VmId /\ System!Step(vm_id_to_run)
  <1> DEFINE m == Head(message_box)
  <1>1. pc = "messages" /\ message_box # <<>> /\ m.tag = "Pipe" /\ SliceOver
    BY DEF pipe_create, Handling, SliceOver
  <1>2. /\ InPlain /\ vm_id_to_run \in VmId /\ ReplySeen[vm_id_to_run] = NoReply
        /\ System!Turn(vm_id_to_run)
    BY <1>1, CallNow
  <1>3. m.vm = vm_id_to_run /\ next_pipe_slot \in PipeId
    BY <1>1, <1>2, HandlingFacts DEF Inv2, Turns, InPlain
  <1>4. /\ pipes' = [pipes EXCEPT ![next_pipe_slot] = vm_id_to_run,
                                  ![next_pipe_slot + 1] = vm_id_to_run]
        /\ next_pipe_slot' = next_pipe_slot + 2
        /\ UNCHANGED <<next_vm_id, states>>
    BY <1>3 DEF pipe_create, create
  <1>5. /\ Replies' = [Replies EXCEPT ![vm_id_to_run] = [op |-> "pipe", code |-> SUCCESS]]
        /\ UNCHANGED terminated_vms
    BY <1>1, Answered DEF pipe_create, Inv2, InPlain
  <1>6. Statuses' = Statuses
    BY <1>4 DEF Statuses
  <1>7. System!Pipe(vm_id_to_run)
    BY <1>2, <1>3, <1>4, <1>5, <1>6, PlainSeen, NextSeen, SameTypes DEF PlainView, System!Pipe
  <1> QED BY <1>2, <1>7, SameTypes DEF System!Step

LEMMA SpawnStep ==
    ASSUME Inv2, IoInv, Turns, InPlain', spawn_done
    PROVE  vm_id_to_run \in VmId /\ System!Step(vm_id_to_run)
  <1> DEFINE m == Head(message_box)
             ok == [op |-> "spawn", code |-> SUCCESS]
  <1>1. /\ pc = "messages" /\ message_box # <<>> /\ m.tag = "Spawn" /\ SliceOver
        /\ MayPass(m) /\ next_vm_id \in VmId /\ next_vm_id # vm_id_to_run
        /\ next_vm_id' = next_vm_id + 1
        /\ states' = [states EXCEPT ![next_vm_id] = Runnable]
        /\ pipes' = Passed(m, next_vm_id)
        /\ Replies' = [Replies EXCEPT ![next_vm_id] = NoReply, ![vm_id_to_run] = ok]
        /\ UNCHANGED <<next_pipe_slot, terminated_vms>>
    BY SpawnAnswers DEF spawn_done, Handling, SliceOver, Inv2, InPlain
  <1>2. m.vm = vm_id_to_run /\ m.pipes \in SUBSET PipeId
    BY <1>1, HandlingFacts
    DEF Inv2, Message, SpawnMessage, JoinMessage, PipeMessage, IoMessage
  <1>3. /\ InPlain /\ vm_id_to_run \in VmId /\ ReplySeen[vm_id_to_run] = NoReply
        /\ System!Turn(vm_id_to_run)
    BY <1>1, CallNow
  <1>4. Statuses' = [Statuses EXCEPT ![next_vm_id] = System!Ready]
    BY <1>1, OneStatus, StatusOfPlain DEF Inv2, Inv1, TypeOK
  <1>5. Replies' = [Replies EXCEPT ![vm_id_to_run] = ok]
    <2>1. states[next_vm_id] = Absent
      BY <1>1, Root DEF Inv2, Inv1, Ids
    <2>2. Replies[next_vm_id] = NoReply
      BY <1>1, <1>3, <2>1 DEF Turns, InPlain
    <2> HIDE DEF ok
    <2> QED BY <1>1, <2>2 DEF Replies
  <1>6. \A p \in m.pipes : pipes[p] = vm_id_to_run
    BY <1>1, <1>2 DEF MayPass, owns
  <1>7. pipes' = [p \in PipeId |-> IF p \in m.pipes THEN next_vm_id ELSE pipes[p]]
    BY <1>1 DEF Passed
  <1>8. System!Spawn(vm_id_to_run, m.pipes)
    <2> HIDE DEF m
    <2> QED BY <1>1, <1>3, <1>4, <1>5, <1>6, <1>7, PlainSeen, NextSeen, SameTypes
            DEF PlainView, System!Spawn
  <1> HIDE DEF m
  <1> QED BY <1>2, <1>3, <1>8, SameTypes DEF System!Step

LEMMA IoStep ==
    ASSUME Inv2, IoInv, Turns, InPlain', io_not_owner \/ io_other_end_closed \/ io_waits
    PROVE  vm_id_to_run \in VmId /\ System!Step(vm_id_to_run)
  <1> DEFINE m == Head(message_box)
             s == StatusOf(Waiting(m))
  <1>1. /\ pc = "messages" /\ message_box # <<>> /\ m.tag \in {"PipeRead", "PipeWrite"} /\ SliceOver
    BY DEF io_not_owner, io_other_end_closed, io_waits, HandlingIo, Handling, SliceOver
  <1>2. /\ m.vm = vm_id_to_run /\ m.pipe \in PipeId /\ m.length \in Length
        /\ m.tag = "PipeRead" => is_read(m.pipe)
        /\ m.tag = "PipeWrite" => is_write(m.pipe)
    BY <1>1, HandlingFacts
    DEF Inv2, Checked, Message, SpawnMessage, JoinMessage, PipeMessage, IoMessage
  <1>3. /\ InPlain /\ vm_id_to_run \in VmId /\ ReplySeen[vm_id_to_run] = NoReply
        /\ System!Turn(vm_id_to_run)
    BY <1>1, CallNow
  <1>4. OwnerSeen = pipes
    BY <1>3, PlainSeen DEF PlainView
  <1>5. /\ m.tag = "PipeRead" => s = System!Receiving(m.pipe, m.length) /\ Op(m) = "read"
        /\ m.tag = "PipeWrite" => s = System!Sending(m.pipe, 0, m.length) /\ Op(m) = "write"
        /\ s.pipe = m.pipe
    <2>1. CASE m.tag = "PipeRead"
      BY <2>1, StatusOfWaiting DEF Waiting, Op, System!Receiving
    <2>2. CASE m.tag = "PipeWrite"
      BY <2>2, StatusOfWaiting DEF Waiting, Op, System!Sending
    <2> QED BY <1>1, <2>1, <2>2
  <1>6. /\ owns(vm_id_to_run, m.pipe) <=> OwnerSeen[s.pipe] = vm_id_to_run
        /\ contains(other_pipe(m.pipe)) <=> System!Open(System!other_pipe(s.pipe))
    BY <1>2, <1>4, <1>5, SameTypes DEF owns, contains, System!Open
  <1>7. System!ReadWrite(vm_id_to_run, Op(m), s)
    <2>1. CASE io_not_owner
      <3>1. ~owns(vm_id_to_run, m.pipe)
        BY <1>2, <2>1 DEF io_not_owner
      <3>2. System!Returns(vm_id_to_run, [op |-> Op(m), code |-> INVALID_PIPE])
        BY <1>1, <1>3, <2>1, AnswerStep DEF io_not_owner, Refuse, Inv2
      <3> HIDE DEF s
      <3> QED BY <1>6, <3>1, <3>2, SameTypes DEF System!ReadWrite
    <2>2. CASE io_other_end_closed
      <3>1. owns(vm_id_to_run, m.pipe) /\ ~contains(other_pipe(m.pipe))
        BY <1>2, <2>2 DEF io_other_end_closed
      <3>2. System!Returns(vm_id_to_run, [op |-> Op(m), code |-> OTHER_END_CLOSED])
        BY <1>1, <1>3, <2>2, AnswerStep DEF io_other_end_closed, Refuse, Inv2
      <3> HIDE DEF s
      <3> QED BY <1>6, <3>1, <3>2, SameTypes DEF System!ReadWrite
    <2>3. CASE io_waits
      <3>1. /\ owns(vm_id_to_run, m.pipe) /\ contains(other_pipe(m.pipe))
            /\ states' = [states EXCEPT ![vm_id_to_run] = Waiting(m)]
            /\ UNCHANGED <<next_vm_id, next_pipe_slot, pipes, terminated_vms>>
        BY <1>2, <2>3 DEF io_waits, Handled
      <3>2. Replies' = Replies
        BY <2>3, NoneAnswered DEF Inv2
      <3>3. System!Waits(vm_id_to_run, s)
        BY <1>3, <3>1, <3>2, WaitStep
      <3> HIDE DEF s
      <3> QED BY <1>6, <3>1, <3>3 DEF System!ReadWrite
    <2> QED BY <2>1, <2>2, <2>3
  <1>8. \E p \in PipeId, n \in Length :
           \/ System!is_read(p) /\ System!ReadWrite(vm_id_to_run, "read", System!Receiving(p, n))
           \/ System!is_write(p) /\ System!ReadWrite(vm_id_to_run, "write", System!Sending(p, 0, n))
    BY <1>1, <1>2, <1>5, <1>7, SameTypes
  <1> HIDE DEF m, s
  <1> QED BY <1>3, <1>8, SameTypes DEF System!Step

LEMMA ExitStep ==
    ASSUME Inv2, IoInv, Turns, InExit', exit_begins
    PROVE  vm_id_to_run \in VmId /\ System!Step(vm_id_to_run)
  <1> DEFINE v == vm_id_to_run
             code == result.code
  <1>1. /\ pc = "messages" /\ SliceOver /\ v # ROOT_VM_ID /\ code \in ExitCode
        /\ terminated_vms' = [terminated_vms EXCEPT ![v] = code]
        /\ joining_vms' = Joiners(v)
        /\ UNCHANGED <<next_vm_id, next_pipe_slot, states, pipes, vm_id_to_run, result>>
    BY OkResult DEF exit_begins, Settling, SliceOver, Inv2, Inv1, TypeOK
  <1>2. /\ InPlain /\ v \in VmId /\ ReplySeen[v] = NoReply /\ System!Turn(v)
    BY <1>1, CallNow
  <1>3. Replies' = Replies /\ Statuses' = Statuses
    BY <1>1, NoneAnswered DEF Statuses, Inv2
  <1>4. /\ StatusSeen = Statuses /\ ReplySeen = Replies /\ OwnerSeen = pipes
        /\ ExitsSeen = terminated_vms /\ ~Failed /\ outcome # "Deadlock"
    BY <1>2, PlainSeen DEF PlainView
  <1>5. Joiners(v) = {u \in VmId : StatusSeen[u] = System!Joining(v)}
    <2>1. \A u \in VmId : /\ states[u] \in VmState /\ StatusSeen[u] = StatusOf(states[u])
      BY <1>4 DEF Statuses, Inv2, Inv1, TypeOK
    <2> HIDE DEF v
    <2> QED BY <2>1, StatusKinds DEF Joiners
  <1>6. ExitView'
    BY NextSeen
  <1>7. StatusSeen' = [u \in VmId |-> IF u = v THEN System!None
                                      ELSE IF u \in Joiners(v) THEN System!Ready ELSE StatusSeen[u]]
    BY <1>1, <1>3, <1>4, <1>6 DEF ExitView
  <1>8. ReplySeen' = [u \in VmId |-> IF u \in Joiners(v)
                                     THEN [op |-> "join", code |-> SUCCESS, target |-> v, exit |-> code]
                                     ELSE ReplySeen[u]]
    BY <1>1, <1>3, <1>4, <1>6 DEF ExitView, ExitTold
  <1>9. OwnerSeen' = [p \in PipeId |-> IF OwnerSeen[p] = v THEN NoVm ELSE OwnerSeen[p]]
    BY <1>1, <1>4, <1>6 DEF ExitView, PipesLeft
  <1>10. ExitsSeen' = [ExitsSeen EXCEPT ![v] = code] /\ ~Failed' /\ outcome' # "Deadlock"
    BY <1>1, <1>4, <1>6 DEF ExitView
  <1> HIDE DEF v, code
  <1>11. System!Exit(v, code)
    BY <1>1, <1>4, <1>5, <1>7, <1>8, <1>9, <1>10, SameTypes DEF System!Exit
  <1>12. System!Step(v)
    BY <1>1, <1>2, <1>11, SameTypes DEF System!Step
  <1> QED BY <1>2, <1>12 DEF v

(* Once the exit has begun, VmSystem is where the exit will end. *)
LEMMA WakeUnseen ==
    ASSUME Inv2, InExit', NEW v \in VmId, wake_joiner(v)
    PROVE  UNCHANGED System!abstract
  <1>1. /\ pc = "joiners" /\ v \in joining_vms /\ v # vm_id_to_run
        /\ joining_vms' = joining_vms \ {v}
        /\ states' = [states EXCEPT ![v] = Runnable]
        /\ Replies' = [Replies EXCEPT ![v] = ExitTold]
        /\ UNCHANGED <<next_vm_id, next_pipe_slot, pipes, terminated_vms, vm_id_to_run, result>>
    <2>1. Usable'
      BY DEF InExit, Inv1, Phases, Usable
    <2> QED BY <2>1, WakeAnswers DEF Inv2, ExitTold
  <1>2. ExitView /\ ExitView'
    BY <1>1, ExitSeen, NextSeen DEF InExit, Inv2
  <1>3. Statuses' = [Statuses EXCEPT ![v] = System!Ready]
    BY <1>1, OneStatus, StatusOfPlain DEF Inv2, Inv1, TypeOK
  <1>4. /\ Statuses = [u \in VmId |-> Statuses[u]] /\ Replies = [u \in VmId |-> Replies[u]]
        /\ ExitTold' = ExitTold
    BY <1>1 DEF Statuses, Replies, ExitTold
  <1>5. StatusSeen' = StatusSeen
    BY <1>1, <1>2, <1>3, <1>4 DEF ExitView
  <1>6. ReplySeen' = ReplySeen
    BY <1>1, <1>2, <1>4 DEF ExitView
  <1>7. OwnerSeen' = OwnerSeen /\ ExitsSeen' = ExitsSeen
    BY <1>1, <1>2 DEF ExitView, PipesLeft
  <1> QED BY <1>1, <1>2, <1>5, <1>6, <1>7 DEF ExitView, System!abstract

LEMMA ExitEndUnseen ==
    ASSUME Inv2, Turns, InPlain', exit_ends
    PROVE  UNCHANGED System!abstract
  <1>1. /\ pc = "joiners" /\ joining_vms = {} /\ vm_id_to_run \in VmId
        /\ states' = [states EXCEPT ![vm_id_to_run] = Absent]
        /\ Replies' = [Replies EXCEPT ![vm_id_to_run] = NoReply]
        /\ pipes' = PipesLeft(vm_id_to_run)
        /\ UNCHANGED <<next_vm_id, next_pipe_slot, terminated_vms>>
    BY ExitAnswers DEF Inv2
  <1>2. ExitView /\ PlainView'
    BY <1>1, ExitSeen, NextSeen DEF InExit, Inv2
  <1>3. Statuses' = [Statuses EXCEPT ![vm_id_to_run] = System!None]
    BY <1>1, OneStatus, StatusOfPlain DEF Inv2, Inv1, TypeOK
  <1>4. Replies[vm_id_to_run] = NoReply
    BY <1>1, InRun DEF Turns, SliceOver, Inv2
  <1>5. Statuses = [u \in VmId |-> Statuses[u]] /\ Replies = [u \in VmId |-> Replies[u]]
    BY DEF Statuses, Replies
  <1>6. StatusSeen' = StatusSeen
    BY <1>1, <1>2, <1>3, <1>5 DEF ExitView, PlainView
  <1>7. ReplySeen' = ReplySeen
    BY <1>1, <1>2, <1>4, <1>5 DEF ExitView, PlainView
  <1> QED BY <1>1, <1>2, <1>6, <1>7 DEF ExitView, PlainView, System!abstract

LEMMA RootExitStep ==
    ASSUME Inv2, IoInv, Turns, InPlain', exit_root
    PROVE  vm_id_to_run \in VmId /\ System!Step(vm_id_to_run)
  <1> DEFINE code == result.code
  <1>1. /\ pc = "messages" /\ SliceOver /\ vm_id_to_run = ROOT_VM_ID /\ code \in ExitCode
        /\ terminated_vms' = [terminated_vms EXCEPT ![ROOT_VM_ID] = code]
        /\ states' = [v \in VmId |-> IF v = ROOT_VM_ID THEN Terminated ELSE Absent]
        /\ machine' = [v \in VmId |-> IF v = ROOT_VM_ID THEN machine[v] ELSE NoMachine]
        /\ UNCHANGED <<next_vm_id, next_pipe_slot, pipes>>
    BY OkResult DEF exit_root, Settling, SliceOver, Inv2, Inv1, TypeOK
  <1>2. /\ InPlain /\ vm_id_to_run \in VmId /\ ReplySeen[vm_id_to_run] = NoReply
        /\ System!Turn(vm_id_to_run)
    BY <1>1, CallNow
  <1>3. PlainView /\ PlainView'
    BY <1>2, PlainSeen, NextSeen
  <1>4. Statuses' = [u \in VmId |-> IF u = ROOT_VM_ID THEN System!Finished ELSE System!None]
    BY <1>1, StatusOfPlain DEF Statuses
  <1>5. Replies' = [u \in VmId |-> NoReply]
    <2>1. machine[ROOT_VM_ID].reply = NoReply
      BY <1>1, <1>2, <1>3 DEF PlainView, Replies
    <2>2. \A u \in VmId : machine'[u].reply = NoReply
      BY <1>1, <2>1 DEF NoMachine
    <2> QED BY <2>2 DEF Replies
  <1> HIDE DEF code
  <1>6. System!RootExit(vm_id_to_run, code)
    BY <1>1, <1>3, <1>4, <1>5, SameTypes DEF PlainView, System!RootExit
  <1> QED BY <1>1, <1>2, <1>6, SameTypes DEF System!Step

LEMMA BootStep ==
    ASSUME Inv2, Turns, InPlain', NEW md, NEW l, run_boot(md, l)
    PROVE  System!Boot
  <1>1. /\ next_vm_id = ROOT_VM_ID /\ next_vm_id' = next_vm_id + 1
        /\ states' = [states EXCEPT ![ROOT_VM_ID] = Runnable]
        /\ Replies' = [Replies EXCEPT ![ROOT_VM_ID] = NoReply]
        /\ UNCHANGED <<next_pipe_slot, pipes, terminated_vms>> /\ pc = "idle"
    BY BootAnswers DEF Inv2, InPlain
  <1>2. InPlain /\ states[ROOT_VM_ID] = Absent /\ Inv1
    BY <1>1, Root DEF run_boot, Called, Live, Usable, InPlain, Inv2
  <1>3. PlainView /\ PlainView'
    BY <1>2, PlainSeen, NextSeen
  <1>4. Statuses' = [Statuses EXCEPT ![ROOT_VM_ID] = System!Ready]
    BY <1>1, Root, OneStatus, StatusOfPlain DEF Inv2, Inv1, TypeOK
  <1>5. Replies' = Replies
    <2>1. Replies[ROOT_VM_ID] = NoReply
      BY <1>2, Root DEF Turns, InPlain
    <2> QED BY <1>1, <2>1 DEF Replies
  <1> QED BY <1>1, <1>3, <1>4, <1>5, SameTypes DEF PlainView, System!Boot, ROOT_VM_ID, FIRST_VM_ID

LEMMA DeadlockStep ==
    ASSUME Inv2, IoInv, RootDone, deadlock
    PROVE  System!Deadlock
  <1>1. /\ IoFinished /\ pc = "transfer" /\ pc' = "idle" /\ outcome' = "Deadlock"
        /\ \A v \in VmId : states[v] # Runnable
        /\ UNCHANGED <<next_vm_id, next_pipe_slot, states, pipes, terminated_vms, machine>>
    BY DEF deadlock, IoFinished, Return, scheduler
  <1>2. InPlain
    BY <1>1, InRun DEF Inv2, InPlain
  <1>3. PlainView
    BY <1>2, PlainSeen
  <1>4. System!Quiet
    BY <1>1, <1>2, FinishedServed, QuietNow
  <1>5. \A v \in VmId : states[v] \notin {Runnable, Terminated} /\ states[v] \in VmState
    BY <1>1 DEF RootDone, Inv2, Inv1, TypeOK
  <1>6. \A v \in VmId : StatusSeen[v] \notin {System!Ready, System!Finished}
    BY <1>3, <1>5, StatusKinds DEF PlainView, Statuses
  <1>7. ~Failed'
    BY <1>1 DEF Failed
  <1>8. /\ StatusSeen' = Statuses /\ ReplySeen' = Replies /\ OwnerSeen' = pipes
        /\ ExitsSeen' = terminated_vms
    BY <1>1, <1>7 DEF StatusSeen, Statuses, ReplySeen, Replies, OwnerSeen, ExitsSeen, Exiting, ToWake,
                      Inv2, Inv1, TypeOK
  <1> QED BY <1>1, <1>3, <1>4, <1>6, <1>7, <1>8, SameTypes DEF PlainView, System!Deadlock

(* Whatever VmSystem sees is in the scheduler's variables. *)
LEMMA StutterUnseen == UNCHANGED vars => UNCHANGED System!abstract
  <1> SUFFICES ASSUME UNCHANGED vars PROVE UNCHANGED System!abstract OBVIOUS
  <1>1. UNCHANGED <<next_vm_id, next_pipe_slot, states, pipes, terminated_vms, machine, pc, outcome,
                    vm_id_to_run, result, joining_vms>>
    BY DEF vars, scheduler, locals
  <1>2. Failed' = Failed /\ StatusSeen' = StatusSeen /\ ReplySeen' = ReplySeen
    BY <1>1 DEF Failed, StatusSeen, ReplySeen, Exiting, ToWake
  <1>3. OwnerSeen' = OwnerSeen /\ ExitsSeen' = ExitsSeen
    BY <1>1, <1>2 DEF OwnerSeen, ExitsSeen
  <1> QED BY <1>1, <1>2, <1>3 DEF System!abstract

(* Cycles, slices, the lists of process_io(), pauses and suspension are    *)
(* nothing that a VM sees.                                                 *)
LEMMA QuietUnseen ==
    ASSUME Inv2, InPlain',
           \/ Guest \/ process_io \/ yielded \/ stopped \/ suspend \/ resume
           \/ \E md, l : run_on(md, l)
    PROVE  UNCHANGED System!abstract
  <1>1. /\ pc \notin {"panicked", "joiners"}
        /\ UNCHANGED <<next_vm_id, next_pipe_slot, states, pipes, terminated_vms>>
    <2>1. CASE Guest
      BY <2>1, GuestSteps DEF inline, Sliced, scheduler
    <2>2. CASE ~Guest
      BY <2>2 DEF process_io, yielded, stopped, suspend, resume, run_on, Called, Settling, scheduler
    <2> QED BY <2>1, <2>2
  <1>2. InPlain
    <2>1. Usable
      <3>1. CASE pc # "idle"
        BY <3>1, InRun DEF Inv2
      <3>2. CASE pc = "idle"
        BY <3>2, GuestSteps DEF process_io, yielded, stopped, suspend, resume, run_on, Called,
                                Settling, Usable
      <3> QED BY <3>1, <3>2
    <2> QED BY <1>1, <2>1 DEF InPlain, Inv2
  <1>3. Replies' = Replies
    BY NoneAnswered DEF Inv2
  <1> QED BY <1>1, <1>2, <1>3, Unseen

(* What the scheduler is in after a step that neither fails nor finds a    *)
(* deadlock.                                                               *)
LEMMA GoesOn ==
    ASSUME Inv2, Inv2', [Next]_vars, Usable, ~deadlock, ~Failed'
    PROVE  InPlain' \/ InExit'
  <1>1. outcome' # "Deadlock" /\ Inv1'
    BY OnlyDeadlock DEF Inv2
  <1>2. Usable' /\ pc' # "panicked"
    BY <1>1 DEF Failed, Usable
  <1> QED BY <1>1, <1>2 DEF InPlain, InExit

(* Only the exit of a VM gets the scheduler to wake the VMs that join it.  *)
LEMMA OnlyExits ==
    ASSUME Inv2, Next, pc # "panicked", Usable, ~exit_begins, ~\E v \in VmId : wake_joiner(v)
    PROVE  pc' # "joiners"
  <1>1. CASE Guest
    BY <1>1, GuestSteps DEF inline, SliceEnds
  <1>2. CASE host
    <2>1. CASE \/ process_io \/ (\E v \in VmId : finish_closed(v) \/ pick(v))
               \/ (\E x \in pairs : transfer(x)) \/ deadlock
      BY <2>1 DEF process_io, finish_closed, pick, transfer, deadlock, Return, WriterFails, Goto
    <2>2. CASE \/ spawn_refused \/ spawn_fails \/ spawn_done \/ join_terminated \/ join_unknown
               \/ join_waits \/ pipe_create \/ io_not_owner \/ io_other_end_closed \/ io_waits
      BY <2>2 DEF spawn_refused, spawn_fails, spawn_done, join_terminated, join_unknown, join_waits,
                  pipe_create, io_not_owner, io_other_end_closed, io_waits, Answer, Refuse, Dropped,
                  Return, Goto
    <2>3. CASE yielded \/ stopped \/ exit_root \/ exit_ends
      BY <2>3 DEF yielded, stopped, exit_root, exit_ends, NextIteration, Return, Goto
    <2> QED BY <1>2, <2>1, <2>2, <2>3 DEF host
  <1>3. CASE Caller
    BY <1>3 DEF Caller, run_boot, run_on, suspend, resume, dropped, Return, Goto, Usable, vars
  <1> QED BY <1>1, <1>2, <1>3 DEF Next, iterate

(* The errors of a guest's spawn. *)
LEMMA SpawnErrors ==
    ASSUME spawn_refused \/ spawn_fails
    PROVE  Failed'
  BY DEF spawn_refused, spawn_fails, Dropped, Return, Failed, Resumable

(* A step of iterate() that goes on, while no exit is in progress. *)
LEMMA IterateSeen ==
    ASSUME Inv2, IoInv, Turns, InPlain', Usable, iterate, ~deadlock,
           ~exit_begins, ~\E v \in VmId : wake_joiner(v)
    PROVE  System!SystemNext \/ UNCHANGED System!abstract
  <1>1. CASE Guest \/ process_io \/ yielded \/ stopped
    BY <1>1, QuietUnseen
  <1>2. CASE (\E v \in VmId : finish_closed(v) \/ pick(v)) \/ (\E x \in pairs : transfer(x))
    <2>1. InPlain
      BY <1>2 DEF finish_closed, pick, transfer, IoFinished, Inv2, InPlain
    <2>2. CASE \E v \in VmId : finish_closed(v)
      <3>1. PICK v \in VmId : finish_closed(v)
        BY <2>2
      <3>2. System!EndOfPipe(v)
        BY <2>1, <3>1, ClosedStep
      <3> QED BY <3>2, SameTypes DEF System!SystemNext
    <2>3. CASE \E v \in VmId : pick(v)
      <3>1. PICK v \in VmId : pick(v)
        BY <2>3
      <3>2. System!Goes(v) \/ UNCHANGED System!abstract
        BY <2>1, <3>1, PickStep
      <3> QED BY <3>2, SameTypes DEF System!SystemNext
    <2>4. CASE \E x \in pairs : transfer(x)
      <3>1. PICK x \in pairs : transfer(x)
        BY <2>4
      <3>2. x.reader \in VmId /\ x.writer \in VmId /\ System!Transfer(x.reader, x.writer)
        BY <2>1, <3>1, TransferStep
      <3> QED BY <3>2, SameTypes DEF System!SystemNext
    <2> QED BY <1>2, <2>2, <2>3, <2>4
  <1>3. CASE \/ spawn_done \/ join_terminated \/ join_unknown \/ join_waits \/ pipe_create
             \/ io_not_owner \/ io_other_end_closed \/ io_waits \/ exit_root
    <2>1. vm_id_to_run \in VmId /\ System!Step(vm_id_to_run)
      BY <1>3, SpawnStep, JoinStep, PipeStep, IoStep, RootExitStep
    <2> QED BY <2>1, SameTypes DEF System!SystemNext
  <1>4. CASE spawn_refused \/ spawn_fails
    BY <1>4, SpawnErrors, NextSeen DEF PlainView
  <1>5. CASE exit_ends
    BY <1>5, ExitEndUnseen
  <1> QED BY <1>1, <1>2, <1>3, <1>4, <1>5 DEF iterate, host

(* Every step of the scheduler is a step of VmSystem, or one it does not   *)
(* see.                                                                    *)
LEMMA NextSystem ==
    Inv2 /\ Inv2' /\ IoInv /\ Turns /\ RootDone /\ [Next]_vars
        => [System!SystemNext]_(System!abstract)
  <1> SUFFICES ASSUME Inv2, Inv2', IoInv, Turns, RootDone, [Next]_vars
               PROVE  System!SystemNext \/ UNCHANGED System!abstract
    OBVIOUS
  <1>1. CASE UNCHANGED vars
    BY <1>1, StutterUnseen
  <1>2. CASE ~Usable
    BY <1>2, FailedStays, StutterUnseen DEF Inv2
  <1>3. CASE pc = "panicked"
    <2>1. ~iterate /\ ~UNCHANGED vars => dropped
      BY <1>3, IterateRuns DEF Next, Caller, run_boot, run_on, Called, suspend, resume
    <2>2. ~iterate
      BY <1>3, IterateRuns
    <2> QED BY <2>1, <2>2, StutterUnseen DEF dropped
  <1>4. CASE Usable /\ pc # "panicked" /\ Failed'
    BY <1>4, FailStep DEF System!SystemNext
  <1>5. CASE deadlock
    BY <1>5, DeadlockStep DEF System!SystemNext
  <1>6. CASE Next /\ Usable /\ pc # "panicked" /\ ~Failed' /\ ~deadlock
    <2>1. InPlain' \/ InExit'
      BY <1>6, GoesOn
    <2>2. CASE exit_begins
      <3>1. InExit'
        BY <2>1, <2>2 DEF exit_begins, Goto, InPlain
      <3>2. vm_id_to_run \in VmId /\ System!Step(vm_id_to_run)
        BY <2>2, <3>1, ExitStep
      <3> QED BY <3>2, SameTypes DEF System!SystemNext
    <2>3. CASE \E v \in VmId : wake_joiner(v)
      <3>1. PICK v \in VmId : wake_joiner(v)
        BY <2>3
      <3>2. pc' = "joiners"
        BY <1>6, <3>1 DEF wake_joiner, Goto, Return, Failed, Resumable
      <3> QED BY <2>1, <3>1, <3>2, WakeUnseen DEF InPlain
    <2>4. CASE ~exit_begins /\ ~\E v \in VmId : wake_joiner(v)
      <3>1. InPlain'
        BY <1>6, <2>1, <2>4, OnlyExits DEF InExit
      <3>2. CASE iterate
        BY <1>6, <2>4, <3>1, <3>2, IterateSeen
      <3>3. CASE Caller
        <4>1. CASE \E md, l : run_boot(md, l)
          BY <3>1, <4>1, BootStep DEF System!SystemNext
        <4>2. CASE suspend \/ resume \/ \E md, l : run_on(md, l)
          BY <3>1, <4>2, QuietUnseen
        <4>3. CASE dropped
          BY <4>3, StutterUnseen DEF dropped
        <4> QED BY <3>3, <4>1, <4>2, <4>3 DEF Caller
      <3> QED BY <1>6, <3>2, <3>3 DEF Next
    <2> QED BY <2>2, <2>3, <2>4
  <1> QED BY <1>1, <1>2, <1>3, <1>4, <1>5, <1>6

(* A new scheduler is a system in which nothing is there. *)
LEMMA InitSystem == Init => System!SystemInit
  <1> SUFFICES ASSUME Init PROVE System!SystemInit OBVIOUS
  <1>1. ~Failed /\ outcome # "Deadlock" /\ \A v : ~Exiting(v) /\ ~ToWake(v)
    BY DEF Init, Failed, Exiting, ToWake, Resumable
  <1>2. StatusSeen = [v \in VmId |-> System!None]
    BY <1>1, StatusOfPlain DEF Init, StatusSeen
  <1>3. ReplySeen = [v \in VmId |-> NoReply]
    BY <1>1 DEF Init, ReplySeen
  <1>4. OwnerSeen = [p \in PipeId |-> NoVm] /\ ExitsSeen = [v \in VmId |-> NotTerminated]
    BY <1>1 DEF Init, OwnerSeen, ExitsSeen
  <1>5. next_vm_id = FIRST_VM_ID /\ next_pipe_slot = FIRST_PIPE_SLOT
    BY DEF Init
  <1> QED BY <1>1, <1>2, <1>3, <1>4, <1>5, SameTypes DEF System!SystemInit, System!Nothing

LEMMA InitRootDone == Init => RootDone
  BY StateValues DEF Init, RootDone

(* The scheduler of src/lib.rs implements VmSystem, for any number of VMs, *)
(* pipes, bytes and machines in memory and any limits: limit_cycles,       *)
(* pauses, suspend() and resume(), the moving of VMs between machines and  *)
(* snapshots, the message box and the two lists of process_io() cannot be  *)
(* told by the VMs, which see the transfers, the ends of pipes, the joins  *)
(* and the exits of the abstract system, each in one step, and whose turns *)
(* come in the order VmSystem gives.                                       *)
THEOREM Implements == Spec => ImplementsVmSystem
  <1>1. Inv2 /\ Charged /\ Turns /\ [Next]_vars => Turns'
    BY NextTurns
  <1>2. Inv2 /\ Charged /\ [Next]_vars => Charged'
    BY NextCharged
  <1>3. Inv2 /\ RootDone /\ [Next]_vars => RootDone'
    BY NextRootDone
  <1>4. Inv2 /\ Inv2' /\ IoInv /\ Turns /\ RootDone /\ [Next]_vars
            => [System!SystemNext]_(System!abstract)
    BY NextSystem
  <1> QED BY <1>1, <1>2, <1>3, <1>4, InitSystem, InitRootDone, InitCharged, InitTurns,
             Inv2Holds, IoInvHolds, PTL
          DEF Spec, ImplementsVmSystem, System!SystemSpec
=============================================================================
