------------------------------ MODULE VmSystem ------------------------------
(***************************************************************************)
(* What the scheduler promises the VMs it runs: a deterministic system of  *)
(* VMs that spawn, join, and talk through pipes, in which a transfer, the  *)
(* end of a pipe and an exit are single steps, and in which there are no   *)
(* cycles, no slices, no snapshots and no messages.                        *)
(*                                                                         *)
(* All that a guest can do there is in the step of the VM whose turn it    *)
(* is: the one with the largest id of those that can go on, once nothing   *)
(* is left to be transferred.  Only the order of transfers is left open.   *)
(***************************************************************************)
EXTENDS Types

VARIABLES
    status,     \* per VM: absent, ready, waiting for something, or finished
    reply,      \* per VM: what its last call returned, until it goes on
    owner,      \* per pipe end: the VM that has it
    exits,      \* per VM: its exit code
    next_vm, next_end,
    over        \* how the system has ended, if it has

abstract == <<status, reply, owner, exits, next_vm, next_end, over>>

Ready == [is |-> "ready"]
None == [is |-> "absent"]
Finished == [is |-> "finished"]
Joining(t) == [is |-> "joining", target |-> t]
Receiving(p, n) == [is |-> "reading", pipe |-> p, length |-> n]
Sending(p, m, n) == [is |-> "writing", pipe |-> p, consumed |-> m, length |-> n]

(* Nothing is there: before the start, and when the scheduler is dropped. *)
Nothing ==
    /\ status = [v \in VmId |-> None]
    /\ reply = [v \in VmId |-> NoReply]
    /\ owner = [p \in PipeId |-> NoVm]
    /\ exits = [v \in VmId |-> NotTerminated]
    /\ next_vm = FIRST_VM_ID
    /\ next_end = FIRST_PIPE_SLOT

SystemInit == Nothing /\ over = "no"

Open(p) == p \in PipeId /\ owner[p] # NoVm
Io(v) == status[v].is \in {"reading", "writing"}

-----------------------------------------------------------------------------
(* Transfers *)

Meet(r, w) ==
    /\ status[r].is = "reading" /\ status[w].is = "writing"
    /\ status[w].pipe = other_pipe(status[r].pipe)

Told(op, s, n) ==
    [op |-> op, code |-> SUCCESS, pipe |-> s.pipe, asked |-> s.length, length |-> n]

(* The reader gets what there is, and goes on; the writer goes on when all *)
(* it had has been read.                                                   *)
Transfer(r, w) ==
    /\ over = "no"
    /\ Meet(r, w)
    /\ LET there == status[w].length - status[w].consumed
           n == IF status[r].length < there THEN status[r].length ELSE there
           sum == status[w].consumed + n
           whole == sum = status[w].length
       IN /\ status' = [status EXCEPT
                ![r] = Ready,
                ![w] = IF whole THEN Ready ELSE [@ EXCEPT !.consumed = sum]]
          /\ reply' = [reply EXCEPT
                ![r] = Told("read", status[r], n),
                ![w] = IF whole THEN Told("write", status[w], sum) ELSE @]
    /\ UNCHANGED <<owner, exits, next_vm, next_end, over>>

Cut(v) == Io(v) /\ ~Open(other_pipe(status[v].pipe))

(* The other end is closed: the call returns with what it has done. *)
EndOfPipe(v) ==
    /\ over = "no"
    /\ Cut(v)
    /\ status' = [status EXCEPT ![v] = Ready]
    /\ reply' = [reply EXCEPT ![v] =
                    IF status[v].is = "reading" THEN Told("read", status[v], 0)
                    ELSE Told("write", status[v], status[v].consumed)]
    /\ UNCHANGED <<owner, exits, next_vm, next_end, over>>

Quiet == \A v, u \in VmId : ~Cut(v) /\ ~Meet(v, u)

-----------------------------------------------------------------------------
(* The step of the VM whose turn it is *)

Turn(v) ==
    /\ over = "no"
    /\ status[v] = Ready
    /\ \A u \in VmId : status[u] = Ready => u <= v
    /\ Quiet

(* It goes on with what its last call returned. *)
Goes(v) ==
    /\ reply[v] # NoReply
    /\ Turn(v)
    /\ reply' = [reply EXCEPT ![v] = NoReply]
    /\ UNCHANGED <<status, owner, exits, next_vm, next_end, over>>

(* Only ends that the VM has may be passed on, and it has them no more. *)
Spawn(v, ps) ==
    /\ \A p \in ps : owner[p] = v
    /\ next_vm \in VmId
    /\ status' = [status EXCEPT ![next_vm] = Ready]
    /\ owner' = [p \in PipeId |-> IF p \in ps THEN next_vm ELSE owner[p]]
    /\ reply' = [reply EXCEPT ![v] = [op |-> "spawn", code |-> SUCCESS]]
    /\ next_vm' = next_vm + 1
    /\ UNCHANGED <<exits, next_end, over>>

Pipe(v) ==
    /\ next_end \in PipeId
    /\ owner' = [owner EXCEPT ![next_end] = v, ![next_end + 1] = v]
    /\ next_end' = next_end + 2
    /\ reply' = [reply EXCEPT ![v] = [op |-> "pipe", code |-> SUCCESS]]
    /\ UNCHANGED <<status, exits, next_vm, over>>

Returns(v, r) ==
    /\ reply' = [reply EXCEPT ![v] = r]
    /\ UNCHANGED <<status, owner, exits, next_vm, next_end, over>>

Waits(v, s) ==
    /\ status' = [status EXCEPT ![v] = s]
    /\ UNCHANGED <<reply, owner, exits, next_vm, next_end, over>>

Join(v, t) ==
    \/ /\ t \in VmId /\ exits[t] # NotTerminated
       /\ Returns(v, [op |-> "join", code |-> SUCCESS, target |-> t, exit |-> exits[t]])
    \/ /\ t \in VmId /\ exits[t] = NotTerminated /\ status[t] # None
       /\ Waits(v, Joining(t))
    \/ /\ t \in VmId => exits[t] = NotTerminated /\ status[t] = None
       /\ Returns(v, [op |-> "join", code |-> JOIN_FAILURE])

(* A read or a write, s being what the VM waits for if it has to. *)
ReadWrite(v, op, s) ==
    \/ /\ owner[s.pipe] # v
       /\ Returns(v, [op |-> op, code |-> INVALID_PIPE])
    \/ /\ owner[s.pipe] = v /\ ~Open(other_pipe(s.pipe))
       /\ Returns(v, [op |-> op, code |-> OTHER_END_CLOSED])
    \/ /\ owner[s.pipe] = v /\ Open(other_pipe(s.pipe))
       /\ Waits(v, s)

(* In one step the VM is gone, its pipe ends are closed, and every VM that *)
(* waits to join it has its exit code.                                     *)
Exit(v, code) ==
    LET joiners == {u \in VmId : status[u] = Joining(v)}
    IN  /\ v # ROOT_VM_ID
        /\ exits' = [exits EXCEPT ![v] = code]
        /\ status' = [u \in VmId |-> IF u = v THEN None
                                     ELSE IF u \in joiners THEN Ready ELSE status[u]]
        /\ reply' = [u \in VmId |->
                        IF u \in joiners
                        THEN [op |-> "join", code |-> SUCCESS, target |-> v, exit |-> code]
                        ELSE reply[u]]
        /\ owner' = [p \in PipeId |-> IF owner[p] = v THEN NoVm ELSE owner[p]]
        /\ UNCHANGED <<next_vm, next_end, over>>

(* The root VM's exit is everyone's. *)
RootExit(v, code) ==
    /\ v = ROOT_VM_ID
    /\ exits' = [exits EXCEPT ![ROOT_VM_ID] = code]
    /\ status' = [u \in VmId |-> IF u = ROOT_VM_ID THEN Finished ELSE None]
    /\ reply' = [u \in VmId |-> NoReply]
    /\ UNCHANGED <<owner, next_vm, next_end, over>>

Step(v) ==
    /\ reply[v] = NoReply
    /\ Turn(v)
    /\ \/ Pipe(v)
       \/ \E ps \in SUBSET PipeId : Spawn(v, ps)
       \/ \E t \in JoinTarget : Join(v, t)
       \/ \E p \in PipeId, n \in Length :
            \/ is_read(p) /\ ReadWrite(v, "read", Receiving(p, n))
            \/ is_write(p) /\ ReadWrite(v, "write", Sending(p, 0, n))
       \/ \E code \in ExitCode : Exit(v, code) \/ RootExit(v, code)

-----------------------------------------------------------------------------
(* The start, and the ways to end early *)

Boot ==
    /\ over = "no"
    /\ next_vm = FIRST_VM_ID
    /\ status' = [status EXCEPT ![ROOT_VM_ID] = Ready]
    /\ next_vm' = next_vm + 1
    /\ UNCHANGED <<reply, owner, exits, next_end, over>>

(* No one can go on, and no one ever will. *)
Deadlock ==
    /\ over = "no"
    /\ Quiet
    /\ \A v \in VmId : status[v] \notin {Ready, Finished}
    /\ over' = "deadlock"
    /\ UNCHANGED <<status, reply, owner, exits, next_vm, next_end>>

(* An error of a guest or of the scheduler: everything is dropped. *)
Fail ==
    /\ over = "no"
    /\ over' = "failed"
    /\ Nothing'

SystemNext ==
    \/ \E v, u \in VmId : Transfer(v, u)
    \/ \E v \in VmId : EndOfPipe(v) \/ Goes(v) \/ Step(v)
    \/ Boot \/ Deadlock \/ Fail

SystemSpec == SystemInit /\ [][SystemNext]_abstract

=============================================================================
