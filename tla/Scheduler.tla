----------------------------- MODULE Scheduler -----------------------------
(***************************************************************************)
(* Scheduler of src/lib.rs: run(), the iterate() loop with process_io()    *)
(* and process_message_box(), and suspend() / resume() between runs.       *)
(*                                                                         *)
(* Loops over a list are one step per element, in the list's order.  An    *)
(* error path that ends run() sets outcome; the caller then drops the      *)
(* scheduler, unless the error is CyclesExceeded or Pause.                 *)
(***************************************************************************)
EXTENDS Syscalls

Return(o) == pc' = "idle" /\ outcome' = o
Goto(p) == pc' = p /\ UNCHANGED outcome

-----------------------------------------------------------------------------
(* run(): entry, and the ways it returns without iterating *)

Called(md, l) ==
    /\ pc = "idle"
    /\ outcome \in Resumable
    /\ md \in RunModes
    /\ l \in IF md = "Pause" THEN {CycleMax} ELSE Limits
    /\ mode' = md
    /\ limit_cycles' = l
    /\ budget' = total_cycles + l
    /\ UNCHANGED unacked

(* boot_vm, once the program has loaded. *)
Booted(v) ==
    /\ next_vm_id' = v + 1
    /\ machine' = [machine EXCEPT ![v] = [cycles |-> LoadCycles, reply |-> NoReply]]
    /\ states' = [states EXCEPT ![v] = Runnable]

run_boot(md, l) ==
    /\ Called(md, l)
    /\ \A v \in VmId : ~Live(v)
    /\ \/ /\ Booted(next_vm_id)
          /\ Swap({next_vm_id})
          /\ pc' = "process_io"
          /\ outcome' = "none"
       \/ /\ next_vm_id' = next_vm_id + 1     \* the program does not load
          /\ Return("Error")
          /\ UNCHANGED <<states, machine, instantiated, suspended>>
    /\ UNCHANGED <<total_cycles, next_pipe_slot, pipes, terminated_vms,
                   message_box, vm_id_to_run, result, consumed_cycles,
                   joining_vms, closed_pipes, pairs>>

run_on(md, l) ==
    /\ Called(md, l)
    /\ Live(ROOT_VM_ID)
    /\ \/ /\ states[ROOT_VM_ID] # Terminated
          /\ pc' = "process_io"
          /\ outcome' = "none"
       \/ /\ states[ROOT_VM_ID] = Terminated
          /\ ROOT_VM_ID \in instantiated
          /\ Return("Ok")
       \/ /\ states[ROOT_VM_ID] = Terminated
          /\ ROOT_VM_ID \notin instantiated   \* self.instantiated[&ROOT_VM_ID]
          /\ Goto("panicked")
    /\ UNCHANGED <<scheduler, machine, vm_id_to_run, result, consumed_cycles,
                   joining_vms, closed_pipes, pairs>>

(* Mutant of NextLimit: the limit is never spent. *)
NextLimit_Whole(limit, consumed) == limit

(* The limit left for the next iterate() of the same run. *)
NextLimit(limit, consumed) == consumed - consumed

(* iterate() returned Ok and the root VM has not terminated. *)
NextIteration ==
    /\ Goto("process_io")
    /\ limit_cycles' = NextLimit(limit_cycles, consumed_cycles)
    /\ consumed_cycles' = 0

-----------------------------------------------------------------------------
(* iterate(), part 1: process_io() *)

Reading(v) == states[v].tag = "WaitForRead"
Writing(v) == states[v].tag = "WaitForWrite"

(* Mutant of OtherEndOpen: looks at the waiter's own end. *)
OtherEndOpen_Own(v) == contains(states[v].pipe)

(* Mutant of OtherEndOpen: an owner that is suspended counts as gone. *)
OtherEndOpen_Resident(v) ==
    LET p == other_pipe(states[v].pipe)
    IN  contains(p) /\ pipes[p] \in instantiated

OtherEndOpen(v) == contains(other_pipe(states[v].pipe))

(* The entry of reads for p: of several readers the last one stays. *)
Reads(r, p) ==
    /\ Reading(r) /\ states[r].pipe = p /\ OtherEndOpen(r)
    /\ \A v \in VmId : Reading(v) /\ states[v].pipe = p => v <= r

Matched(r, w) ==
    Writing(w) /\ OtherEndOpen(w) /\ Reads(r, other_pipe(states[w].pipe))

process_io ==
    /\ pc = "process_io"
    /\ closed_pipes' = {v \in VmId : (Reading(v) \/ Writing(v)) /\ ~OtherEndOpen(v)}
    /\ pairs' = {[reader |-> x[1], rs |-> states[x[1]],
                  writer |-> x[2], ws |-> states[x[2]]] :
                 x \in {y \in VmId \X VmId : Matched(y[1], y[2])}}
    /\ Goto("transfer")
    /\ UNCHANGED <<scheduler, machine, mode, limit_cycles, vm_id_to_run, result,
                   consumed_cycles, joining_vms, history>>

(* closed_pipes lists the readers first, each kind by id. *)
FirstClosed(v) ==
    /\ v \in closed_pipes
    /\ \A u \in closed_pipes : \/ Reading(v) /\ Writing(u)
                               \/ states[u].tag = states[v].tag /\ v <= u

IoDone(op, s, n) ==
    [op |-> op, code |-> SUCCESS, pipe |-> s.pipe, asked |-> s.length, length |-> n]

Wake(v, reply) ==
    /\ states' = [states EXCEPT ![v] = Runnable]
    /\ machine' = [machine EXCEPT ![v].reply = reply]

(* Mutant of EofReply: a writer is told that everything was written. *)
EofReply_Whole(s) ==
    IF s.tag = "WaitForRead" THEN IoDone("read", s, 0) ELSE IoDone("write", s, s.length)

(* The reply when the other end is closed: a reader gets 0 bytes, a writer *)
(* the number of bytes that were read before.                              *)
EofReply(s) ==
    IF s.tag = "WaitForRead" THEN IoDone("read", s, 0) ELSE IoDone("write", s, s.consumed)

finish_closed(v) ==
    /\ pc = "transfer"
    /\ FirstClosed(v)
    /\ \/ /\ v \in instantiated
          /\ states[v].addr # "bad_result"
          /\ Wake(v, EofReply(states[v]))
          /\ closed_pipes' = closed_pipes \ {v}
          /\ unacked' = IF Writing(v)
                        THEN [unacked EXCEPT ![states[v].pipe] = @ - EofReply(states[v]).length]
                        ELSE unacked
          /\ Goto("transfer")
       \/ /\ v \in instantiated
          /\ states[v].addr = "bad_result"
          /\ Return("Error")
          /\ UNCHANGED <<states, machine, closed_pipes, unacked>>
       \/ /\ v \notin instantiated            \* get_mut(&vm_id).unwrap()
          /\ Goto("panicked")
          /\ UNCHANGED <<states, machine, closed_pipes, unacked>>
    /\ UNCHANGED <<total_cycles, next_vm_id, next_pipe_slot, pipes, instantiated,
                   suspended, terminated_vms, message_box, mode, limit_cycles,
                   vm_id_to_run, result, consumed_cycles, joining_vms, pairs,
                   budget>>

copiable(x) ==
    LET consumable == x.ws.length - x.ws.consumed
    IN  IF x.rs.length < consumable THEN x.rs.length ELSE consumable

FirstPair(x) == x \in pairs /\ \A y \in pairs : x.writer <= y.writer

(* A buffer may be bad in part: then a copy that touches it may fail. *)
CopyMayFail(x) == copiable(x) > 0 /\ "bad_buffer" \in {x.rs.addr, x.ws.addr}

(* Mutant of Written: a writer goes on waiting when all has been read. *)
Written_Waits(x, n) == [x.ws EXCEPT !.consumed = n]

(* The state of the writer, once n of its bytes have been read. *)
Written(x, n) ==
    IF n = x.ws.length THEN Runnable ELSE [x.ws EXCEPT !.consumed = n]

(* Mutant of WriterFails: the error is not passed on. *)
WriterFails_Ignored == Goto("transfer")

(* The writer's result cannot be stored: the reader, already runnable and  *)
(* with its bytes, stays so, the writer still waits as before.             *)
WriterFails == Return("Error")

transfer(x) ==
    /\ pc = "transfer"
    /\ closed_pipes = {}
    /\ FirstPair(x)
    /\ Swap(Ensure2(x.reader, x.writer))
    /\ LET n == x.ws.consumed + copiable(x)
           Read == IoDone("read", x.rs, copiable(x))
       IN
       \/ /\ x.rs.addr # "bad_result"
          /\ ~(n = x.ws.length /\ x.ws.addr = "bad_result")
          /\ states' = [states EXCEPT ![x.reader] = Runnable, ![x.writer] = Written(x, n)]
          /\ machine' = [machine EXCEPT
                ![x.reader].reply = Read,
                ![x.writer].reply = IF n = x.ws.length THEN IoDone("write", x.ws, n) ELSE @]
          /\ unacked' = [unacked EXCEPT ![x.ws.pipe] =
                            IF n = x.ws.length THEN @ + copiable(x) - n ELSE @ + copiable(x)]
          /\ pairs' = pairs \ {x}
          /\ Goto("transfer")
       \/ /\ x.rs.addr # "bad_result"
          /\ n = x.ws.length /\ x.ws.addr = "bad_result"
          /\ Wake(x.reader, Read)
          /\ unacked' = [unacked EXCEPT ![x.ws.pipe] = @ + copiable(x)]
          /\ WriterFails
          /\ UNCHANGED pairs
       \/ /\ x.rs.addr = "bad_result" \/ CopyMayFail(x)
          /\ Return("Error")
          /\ UNCHANGED <<states, machine, unacked, pairs>>
    /\ UNCHANGED <<total_cycles, next_vm_id, next_pipe_slot, pipes,
                   terminated_vms, message_box, mode, limit_cycles, vm_id_to_run,
                   result, consumed_cycles, joining_vms, closed_pipes, budget>>

-----------------------------------------------------------------------------
(* iterate(), part 2: the choice of the VM to run *)

IoFinished == pc = "transfer" /\ closed_pipes = {} /\ pairs = {}

(* Mutant of ToRun: the lowest id runs first. *)
ToRun_Lowest(v) ==
    states[v] = Runnable /\ \A u \in VmId : states[u] = Runnable => v <= u

(* Mutant of ToRun: VMs take turns. *)
ToRun_Turns(v) ==
    /\ states[v] = Runnable
    /\ v = vm_id_to_run => \A u \in VmId : states[u] = Runnable => u = v

(* The runnable VM with the largest id. *)
ToRun(v) ==
    states[v] = Runnable /\ \A u \in VmId : states[u] = Runnable => u <= v

pick(v) ==
    /\ IoFinished
    /\ ToRun(v)
    /\ Swap(Ensure1(v))
    /\ vm_id_to_run' = v
    /\ machine' = [machine EXCEPT ![v].reply = NoReply]
    /\ Goto("machine")
    /\ UNCHANGED <<total_cycles, next_vm_id, next_pipe_slot, states, pipes,
                   terminated_vms, message_box, mode, limit_cycles, result,
                   consumed_cycles, joining_vms, closed_pipes, pairs, history>>

deadlock ==
    /\ IoFinished
    /\ \A v \in VmId : states[v] # Runnable
    /\ Return("Deadlock")
    /\ UNCHANGED <<scheduler, machine, locals, history>>

-----------------------------------------------------------------------------
(* iterate(), part 3: process_message_box() *)

Handling(tag) == pc = "messages" /\ message_box # <<>> /\ Head(message_box).tag = tag

(* The message is done with; the rest of iterate()'s locals stay. *)
Handled ==
    /\ message_box' = Tail(message_box)
    /\ UNCHANGED <<total_cycles, terminated_vms, locals, history>>

(* Mutant of Dropped: the message is left in the box. *)
Dropped_Left ==
    /\ Return("Error")
    /\ UNCHANGED <<total_cycles, terminated_vms, message_box, locals, history>>

(* Any error drops the messages that were drained with this one. *)
Dropped ==
    /\ message_box' = <<>>
    /\ Return("Error")
    /\ UNCHANGED <<total_cycles, terminated_vms, locals, history>>

(* The result of m is stored to its VM's memory, or that fails. *)
Answer(m, reply) ==
    \/ /\ m.addr # "bad_result"
       /\ machine' = [machine EXCEPT ![m.vm].reply = reply]
       /\ Handled /\ Goto("messages")
    \/ m.addr = "bad_result" /\ UNCHANGED machine /\ Dropped

(* The answer is a code in A0 alone: nothing to store. *)
Refuse(m, reply) ==
    /\ machine' = [machine EXCEPT ![m.vm].reply = reply]
    /\ Swap(Ensure1(m.vm))
    /\ Handled /\ Goto("messages")
    /\ UNCHANGED <<next_vm_id, next_pipe_slot, states, pipes>>

(* Mutant of MayPass: pipes need not belong to the spawner. *)
MayPass_Any(m) == \A p \in m.pipes : contains(p)

MayPass(m) == \A p \in m.pipes : owns(m.vm, p)

Passed(m, v) == [p \in PipeId |-> IF p \in m.pipes THEN v ELSE pipes[p]]

spawn_refused ==
    /\ Handling("Spawn")
    /\ ~MayPass(Head(message_box))
    /\ Dropped
    /\ UNCHANGED <<next_vm_id, next_pipe_slot, states, pipes, instantiated,
                   suspended, machine>>

spawn_fails ==
    /\ Handling("Spawn")
    /\ MayPass(Head(message_box))
    /\ Head(message_box).program = "garbage"
    /\ next_vm_id' = next_vm_id + 1
    /\ Swap(MakeRoom(instantiated))
    /\ Dropped
    /\ UNCHANGED <<next_pipe_slot, states, pipes, machine>>

spawn_done ==
    /\ Handling("Spawn")
    /\ LET m == Head(message_box)
           v == next_vm_id
       IN
       /\ MayPass(m)
       /\ m.program = "elf"
       /\ next_vm_id' = v + 1
       /\ states' = [states EXCEPT ![v] = Runnable]
       /\ pipes' = Passed(m, v)
       /\ Swap(Admit(MakeRoom(instantiated) \cup {v}, m.vm, {m.vm}))
       /\ \/ /\ m.addr # "bad_result"
             /\ machine' = [machine EXCEPT
                    ![v] = [cycles |-> LoadCycles, reply |-> NoReply],
                    ![m.vm].reply = [op |-> "spawn", code |-> SUCCESS]]
             /\ Handled /\ Goto("messages")
          \/ /\ m.addr = "bad_result"
             /\ machine' = [machine EXCEPT ![v] = [cycles |-> LoadCycles, reply |-> NoReply]]
             /\ Dropped
    /\ UNCHANGED next_pipe_slot

JoinDone(t) == [op |-> "join", code |-> SUCCESS, target |-> t, exit |-> terminated_vms[t]]

join_terminated ==
    /\ Handling("Join")
    /\ LET m == Head(message_box)
       IN /\ m.target \in VmId /\ terminated_vms[m.target] # NotTerminated
          /\ Swap(Ensure1(m.vm))
          /\ Answer(m, JoinDone(m.target))
    /\ UNCHANGED <<next_vm_id, next_pipe_slot, states, pipes>>

join_unknown ==
    /\ Handling("Join")
    /\ LET m == Head(message_box)
       IN /\ m.target \in VmId => /\ terminated_vms[m.target] = NotTerminated
                                  /\ ~Live(m.target)
          /\ Refuse(m, [op |-> "join", code |-> JOIN_FAILURE])

join_waits ==
    /\ Handling("Join")
    /\ LET m == Head(message_box)
       IN /\ m.target \in VmId /\ terminated_vms[m.target] = NotTerminated
          /\ Live(m.target)
          /\ states' = [states EXCEPT ![m.vm] =
                            [tag |-> "Join", target |-> m.target, addr |-> m.addr]]
    /\ Handled /\ Goto("messages")
    /\ UNCHANGED <<next_vm_id, next_pipe_slot, pipes, instantiated, suspended, machine>>

pipe_create ==
    /\ Handling("Pipe")
    /\ LET m == Head(message_box)
           ends == create(next_pipe_slot)
       IN /\ pipes' = [pipes EXCEPT ![ends[1]] = m.vm, ![ends[2]] = m.vm]
          /\ next_pipe_slot' = ends[3]
          /\ Swap(Ensure1(m.vm))
          /\ Answer(m, [op |-> "pipe", code |-> SUCCESS])
    /\ UNCHANGED <<next_vm_id, states>>

HandlingIo == Handling("PipeRead") \/ Handling("PipeWrite")
Op(m) == IF m.tag = "PipeRead" THEN "read" ELSE "write"

Waiting(m) ==
    IF m.tag = "PipeRead"
    THEN [tag |-> "WaitForRead", pipe |-> m.pipe, length |-> m.length, addr |-> m.addr]
    ELSE [tag |-> "WaitForWrite", pipe |-> m.pipe, consumed |-> 0,
          length |-> m.length, addr |-> m.addr]

io_not_owner ==
    /\ HandlingIo
    /\ LET m == Head(message_box)
       IN ~owns(m.vm, m.pipe) /\ Refuse(m, [op |-> Op(m), code |-> INVALID_PIPE])

io_other_end_closed ==
    /\ HandlingIo
    /\ LET m == Head(message_box)
       IN /\ owns(m.vm, m.pipe) /\ ~contains(other_pipe(m.pipe))
          /\ Refuse(m, [op |-> Op(m), code |-> OTHER_END_CLOSED])

io_waits ==
    /\ HandlingIo
    /\ LET m == Head(message_box)
       IN /\ owns(m.vm, m.pipe) /\ contains(other_pipe(m.pipe))
          /\ states' = [states EXCEPT ![m.vm] = Waiting(m)]
    /\ Handled /\ Goto("messages")
    /\ UNCHANGED <<next_vm_id, next_pipe_slot, pipes, instantiated, suspended, machine>>

-----------------------------------------------------------------------------
(* iterate(), part 4: the match on result *)

Settling(tag) == pc = "messages" /\ message_box = <<>> /\ result.tag = tag

yielded ==
    /\ Settling("YIELD")
    /\ NextIteration
    /\ UNCHANGED <<scheduler, machine, mode, vm_id_to_run, result, joining_vms,
                   closed_pipes, pairs, history>>

(* Mutant of stopped: any error is taken for a yield. *)
stopped_Retried ==
    /\ \E e \in {"CyclesExceeded", "Pause", "Error"} : Settling(e)
    /\ NextIteration
    /\ UNCHANGED <<scheduler, machine, mode, vm_id_to_run, result, joining_vms,
                   closed_pipes, pairs, history>>

stopped ==
    /\ \E e \in {"CyclesExceeded", "Pause", "Error"} : Settling(e)
    /\ Return(result.tag)
    /\ consumed_cycles' = 0
    /\ UNCHANGED <<scheduler, machine, mode, limit_cycles, vm_id_to_run, result,
                   joining_vms, closed_pipes, pairs, history>>

NoMachine == [cycles |-> 0, reply |-> NoReply]

(* The root VM exits: every other VM is purged, and run() returns. *)
exit_root ==
    /\ Settling("Ok")
    /\ vm_id_to_run = ROOT_VM_ID
    /\ terminated_vms' = [terminated_vms EXCEPT ![ROOT_VM_ID] = result.code]
    /\ instantiated' = Ensure1(ROOT_VM_ID) \cap {ROOT_VM_ID}
    /\ suspended' = {}
    /\ states' = [v \in VmId |-> IF v = ROOT_VM_ID THEN Terminated ELSE Absent]
    /\ machine' = [v \in VmId |-> IF v = ROOT_VM_ID THEN machine[v] ELSE NoMachine]
    /\ limit_cycles' = NextLimit(limit_cycles, consumed_cycles)
    /\ consumed_cycles' = 0
    /\ Return("Ok")
    /\ UNCHANGED <<total_cycles, next_vm_id, next_pipe_slot, pipes, message_box,
                   mode, vm_id_to_run, result, joining_vms, closed_pipes, pairs,
                   history>>

(* Mutant of Joiners: every VM in a join is woken. *)
Joiners_All(t) == {v \in VmId : states[v].tag = "Join"}

(* Mutant of Joiners: only the first VM that joined is woken. *)
Joiners_One(t) ==
    {v \in VmId : /\ states[v].tag = "Join" /\ states[v].target = t
                  /\ \A u \in VmId : states[u].tag = "Join" /\ states[u].target = t
                                        => v <= u}

Joiners(t) == {v \in VmId : states[v].tag = "Join" /\ states[v].target = t}

exit_begins ==
    /\ Settling("Ok")
    /\ vm_id_to_run # ROOT_VM_ID
    /\ terminated_vms' = [terminated_vms EXCEPT ![vm_id_to_run] = result.code]
    /\ joining_vms' = Joiners(vm_id_to_run)
    /\ Goto("joiners")
    /\ UNCHANGED <<total_cycles, next_vm_id, next_pipe_slot, states, pipes,
                   instantiated, suspended, message_box, machine, mode,
                   limit_cycles, vm_id_to_run, result, consumed_cycles,
                   closed_pipes, pairs, history>>

FirstJoiner(v) == v \in joining_vms /\ \A u \in joining_vms : v <= u

wake_joiner(v) ==
    /\ pc = "joiners"
    /\ FirstJoiner(v)
    /\ Swap(Ensure1(v))
    /\ \/ /\ states[v].addr # "bad_result"
          /\ Wake(v, [op |-> "join", code |-> SUCCESS, target |-> states[v].target,
                      exit |-> result.code])
          /\ joining_vms' = joining_vms \ {v}
          /\ Goto("joiners")
       \/ /\ states[v].addr = "bad_result"
          /\ Return("Error")
          /\ UNCHANGED <<states, machine, joining_vms>>
    /\ UNCHANGED <<total_cycles, next_vm_id, next_pipe_slot, pipes,
                   terminated_vms, message_box, mode, limit_cycles, vm_id_to_run,
                   result, consumed_cycles, closed_pipes, pairs, history>>

PipesLeft(v) == [p \in PipeId |-> IF pipes[p] = v THEN NoVm ELSE pipes[p]]

exit_ends ==
    /\ pc = "joiners"
    /\ joining_vms = {}
    /\ pipes' = PipesLeft(vm_id_to_run)
    /\ states' = [states EXCEPT ![vm_id_to_run] = Absent]
    /\ machine' = [machine EXCEPT ![vm_id_to_run] = NoMachine]
    /\ instantiated' = instantiated \ {vm_id_to_run}
    /\ suspended' = suspended \ {vm_id_to_run}
    /\ NextIteration
    /\ UNCHANGED <<total_cycles, next_vm_id, next_pipe_slot, terminated_vms,
                   message_box, mode, vm_id_to_run, result, joining_vms,
                   closed_pipes, pairs, history>>

-----------------------------------------------------------------------------
(* suspend() and resume(), by the caller of run() *)

suspend ==
    /\ pc = "idle"
    /\ outcome \in Resumable
    /\ suspended' = {v \in VmId : Live(v)}    \* remove(&id).unwrap() for each
    /\ instantiated' = {}
    /\ message_box' = <<>>                    \* not part of FullSuspendedState
    /\ Goto("stored")
    /\ UNCHANGED <<total_cycles, next_vm_id, next_pipe_slot, states, pipes,
                   terminated_vms, machine, locals, history>>

resume ==
    /\ pc = "stored"
    /\ Goto("idle")
    /\ UNCHANGED <<scheduler, machine, locals, history>>

(* The caller drops the scheduler. *)
dropped ==
    /\ pc = "panicked" \/ (pc = "idle" /\ outcome \notin Resumable)
    /\ UNCHANGED vars

-----------------------------------------------------------------------------

(* The steps of iterate() outside machine.run(). *)
host ==
    \/ process_io
    \/ \E v \in VmId : finish_closed(v) \/ pick(v) \/ wake_joiner(v)
    \/ \E x \in pairs : transfer(x)
    \/ deadlock
    \/ spawn_refused \/ spawn_fails \/ spawn_done
    \/ join_terminated \/ join_unknown \/ join_waits
    \/ pipe_create
    \/ io_not_owner \/ io_other_end_closed \/ io_waits
    \/ yielded \/ stopped \/ exit_root \/ exit_begins \/ exit_ends

iterate == host \/ Guest

Caller ==
    \/ \E md \in RunModes, l \in Limits \cup {CycleMax} : run_boot(md, l) \/ run_on(md, l)
    \/ suspend \/ resume \/ dropped

Next == iterate \/ Caller

Spec == Init /\ [][Next]_vars

=============================================================================
