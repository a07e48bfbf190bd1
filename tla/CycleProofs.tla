---------------------------- MODULE CycleProofs -----------------------------
(***************************************************************************)
(* Proofs about what the scheduler owes the VMs it runs and its caller:    *)
(* every pipe served, every cycle charged, every limit kept.               *)
(***************************************************************************)
EXTENDS SchedulerProofs

(***************************************************************************)
(* What process_io() owes the VMs that wait on pipes, proved for any       *)
(* number of VMs, pipes and bytes: it serves all that can be served, it    *)
(* counts every byte, and when it finds nothing and nobody can run, that   *)
(* is a deadlock.                                                          *)
(***************************************************************************)

-----------------------------------------------------------------------------
(* Who can be served, at each point of run() *)

Waiter(v) == Reading(v) \/ Writing(v)
Meeting(v, u) == Waiter(v) /\ Waiter(u) /\ states[u].pipe = other_pipe(states[v].pipe)

AllOpen == \A v \in VmId : Waiter(v) => OtherEndOpen(v)
NoMeeting == \A v, u \in VmId : ~Meeting(v, u)

(* Of two VMs that wait on the ends of one pipe, one is the VM that ran    *)
(* last: only its call can have made them meet.                            *)
LastMeets == \A v, u \in VmId : Meeting(v, u) => vm_id_to_run \in {v, u}

(* Nothing is left for process_io() to do. *)
Served == AllOpen /\ NoMeeting

(* The lists of process_io() hold all there is to do, and one is empty: an *)
(* exit closes ends and makes no one wait, any other call does the         *)
(* opposite.                                                               *)
ListsComplete ==
    /\ \A v \in VmId : Waiter(v) /\ ~OtherEndOpen(v) => v \in closed_pipes
    /\ \A r, w \in VmId : Reading(r) /\ Writing(w) /\ Meeting(r, w) =>
          \E x \in pairs : x.reader = r /\ x.writer = w
    /\ closed_pipes = {} \/ pairs = {}
    /\ \A x \in pairs : vm_id_to_run \in {x.reader, x.writer}

IoInv ==
    Usable =>
        /\ pc \in {"idle", "stored", "machine", "joiners"} => Served
        /\ pc = "messages" => AllOpen /\ LastMeets
        /\ pc = "process_io" => (AllOpen /\ LastMeets) \/ NoMeeting
        /\ pc = "transfer" => ListsComplete

-----------------------------------------------------------------------------

(* Steps in which nobody starts to wait and no end is closed. *)
LEMMA NobodyWaits ==
    ASSUME \A v \in VmId : Waiter(v)' => Waiter(v) /\ states'[v].pipe = states[v].pipe
    PROVE  /\ NoMeeting => NoMeeting'
           /\ LastMeets /\ vm_id_to_run' = vm_id_to_run => LastMeets'
           /\ AllOpen /\ (\A p \in PipeId : contains(p) => contains(p)') => AllOpen'
  <1>1. \A v, u \in VmId : Meeting(v, u)' => Meeting(v, u)
    BY DEF Meeting
  <1>2. NoMeeting => NoMeeting'
    BY <1>1 DEF NoMeeting
  <1>3. LastMeets /\ vm_id_to_run' = vm_id_to_run => LastMeets'
    BY <1>1 DEF LastMeets
  <1>4. AllOpen /\ (\A p \in PipeId : contains(p) => contains(p)') => AllOpen'
    BY DEF AllOpen, OtherEndOpen, contains
  <1> QED BY <1>2, <1>3, <1>4

(* The VM that ran last can go on, so it is not one of two that meet. *)
LEMMA LastRuns ==
    ASSUME LastMeets, vm_id_to_run \in VmId, states[vm_id_to_run] = Runnable
    PROVE  NoMeeting
  BY StateValues DEF LastMeets, NoMeeting, Meeting, Waiter, Reading, Writing

LEMMA InitIo == Init => IoInv
  BY StateValues DEF Init, IoInv, Served, AllOpen, NoMeeting, Meeting, Waiter, Reading, Writing

(* The steps that move no VM and no pipe. *)
LEMMA StillIo ==
    ASSUME Inv1, IoInv, Still, ~ \E v \in VmId : pick(v)
    PROVE  IoInv'
  <1>1. UNCHANGED <<states, pipes>> /\ pc' # "transfer"
    BY StillFacts
  <1>2. \A v \in VmId : Waiter(v)' => Waiter(v) /\ states'[v].pipe = states[v].pipe
    BY <1>1 DEF Waiter, Reading, Writing
  <1>3. \A p \in PipeId : contains(p) => contains(p)'
    BY <1>1 DEF contains
  <1>4. /\ NoMeeting => NoMeeting'
        /\ LastMeets /\ vm_id_to_run' = vm_id_to_run => LastMeets'
        /\ AllOpen => AllOpen'
    BY <1>2, <1>3, NobodyWaits
  <1>5. CASE Guest
    <2>1. pc = "machine" /\ vm_id_to_run' = vm_id_to_run /\ pc' \in {"machine", "messages", "idle"}
          /\ (pc' = "idle" => outcome' = "CyclesOverflow")
      BY <1>5, GuestSteps DEF inline, Executing, SliceEnds, Sliced, locals
    <2>2. Usable
      BY <2>1, InRun
    <2>3. Served /\ (NoMeeting => LastMeets)
      BY <2>1, <2>2 DEF IoInv, NoMeeting, LastMeets
    <2> QED BY <1>4, <2>1, <2>3 DEF IoInv, Served, Usable, Resumable
  <1>6. CASE \/ join_terminated \/ join_unknown \/ io_not_owner \/ io_other_end_closed
             \/ spawn_refused \/ spawn_fails
    <2>1. pc = "messages" /\ vm_id_to_run' = vm_id_to_run
          /\ (pc' = "messages" \/ (pc' = "idle" /\ outcome' = "Error"))
      BY <1>6
      DEF join_terminated, join_unknown, io_not_owner, io_other_end_closed, spawn_refused,
          spawn_fails, Answer, Refuse, Dropped, Handled, Return, Goto, locals, HandlingIo, Handling
    <2>2. Usable
      BY <2>1, InRun
    <2> QED BY <1>4, <2>1, <2>2 DEF IoInv, Served, Usable, Resumable
  <1>7. CASE yielded \/ stopped \/ exit_begins
    <2>1. pc = "messages" /\ vm_id_to_run' = vm_id_to_run /\ message_box = <<>>
      BY <1>7 DEF yielded, stopped, exit_begins, Settling
    <2>2. Usable /\ AllOpen /\ LastMeets
      BY <2>1, InRun DEF IoInv
    <2>3. CASE yielded
      <3>1. pc' = "process_io"
        BY <2>3 DEF yielded, NextIteration, Goto
      <3> QED BY <3>1, <2>1, <2>2, <1>4 DEF IoInv
    <2>4. CASE stopped \/ exit_begins
      <3>1. result.tag # "YIELD" /\ pc' \in {"idle", "joiners"}
        BY <2>4 DEF stopped, exit_begins, Settling, Return, Goto
      <3>2. NoMeeting
        BY <2>1, <2>2, <3>1, LastRuns DEF Inv1, Phases
      <3> QED BY <3>1, <3>2, <2>2, <1>4 DEF IoInv, Served
    <2> QED BY <1>7, <2>3, <2>4
  <1>8. CASE (\E md, l : run_on(md, l)) \/ suspend \/ resume
    <2>1. pc \in {"idle", "stored"} /\ pc' \in {"idle", "stored", "process_io", "panicked"}
      BY <1>8 DEF run_on, Called, suspend, resume, Return, Goto
    <2>2. Usable
      BY <1>8, InRun, <2>1 DEF run_on, Called, suspend, resume, Usable
    <2> QED BY <2>1, <2>2, <1>4 DEF IoInv, Served
  <1>9. CASE deadlock
    BY <1>9 DEF deadlock, Return, IoInv, Usable, Resumable
  <1>10. CASE dropped
    <2>1. UNCHANGED <<pc, outcome>>
      BY <1>10 DEF dropped, vars
    <2> QED BY <1>10, <2>1 DEF dropped, IoInv, Usable
  <1> QED BY <1>5, <1>6, <1>7, <1>8, <1>9, <1>10 DEF Still

-----------------------------------------------------------------------------
(* process_io() *)

LEMMA WaiterFacts ==
    ASSUME Inv2, NEW v \in VmId, Waiter(v)
    PROVE  /\ states[v].pipe \in PipeId /\ pipes[states[v].pipe] = v
           /\ Reading(v) => is_read(states[v].pipe)
           /\ Writing(v) => is_write(states[v].pipe)
           /\ states[v] \notin {Absent, Runnable, Terminated}
  <1>1. states[v] \notin {Absent, Runnable, Terminated}
    BY StateValues DEF Waiter, Reading, Writing
  <1> QED BY <1>1 DEF Inv2, PipeOwnership, Waiter, owns

(* Two VMs that meet are a reader and a writer, and keep the pipe open. *)
LEMMA MeetingFacts ==
    ASSUME Inv2, NEW v \in VmId, NEW u \in VmId, Meeting(v, u)
    PROVE  /\ Meeting(u, v)
           /\ OtherEndOpen(v) /\ OtherEndOpen(u)
           /\ \/ Reading(v) /\ Writing(u)
              \/ Writing(v) /\ Reading(u)
  <1>1. /\ Waiter(v) /\ Waiter(u) /\ states[u].pipe = other_pipe(states[v].pipe)
        /\ states[v].pipe \in PipeId /\ states[u].pipe \in PipeId
    BY WaiterFacts DEF Meeting
  <1>2. states[v].pipe = other_pipe(states[u].pipe)
    BY <1>1, OtherEnd
  <1>3. /\ pipes[states[v].pipe] = v /\ pipes[states[u].pipe] = u
        /\ v # NoVm /\ u # NoVm
    BY <1>1, WaiterFacts, Root DEF NoVm
  <1>4. OtherEndOpen(v) /\ OtherEndOpen(u)
    BY <1>1, <1>2, <1>3 DEF OtherEndOpen, contains
  <1>5. \/ Reading(v) /\ Writing(u)
        \/ Writing(v) /\ Reading(u)
    <2>1. \A p \in PipeId : ~(is_read(p) /\ is_write(p))
      BY OtherEnd DEF is_read, is_write
    <2>2. is_read(states[v].pipe) \/ is_write(states[v].pipe)
      BY <1>1, WaiterFacts DEF Waiter
    <2> QED BY <1>1, <2>1, <2>2, WaiterFacts, OtherEnd DEF Waiter
  <1> QED BY <1>1, <1>2, <1>4, <1>5 DEF Meeting

LEMMA PickIo ==
    ASSUME Inv2, IoInv, NEW v \in VmId, pick(v)
    PROVE  IoInv'
  <1>1. /\ pc = "transfer" /\ closed_pipes = {} /\ pairs = {} /\ pc' = "machine"
        /\ UNCHANGED <<states, pipes>>
    BY DEF pick, IoFinished, Goto
  <1>2. ListsComplete
    BY <1>1, InRun DEF Inv2, IoInv
  <1>3. AllOpen
    BY <1>1, <1>2 DEF AllOpen, ListsComplete
  <1>4. NoMeeting
    BY <1>1, <1>2, MeetingFacts DEF NoMeeting, ListsComplete
  <1>5. AllOpen' /\ NoMeeting'
    BY <1>1, <1>3, <1>4
    DEF AllOpen, NoMeeting, Meeting, Waiter, Reading, Writing, OtherEndOpen, contains
  <1> QED BY <1>1, <1>5 DEF IoInv, Served

LEMMA CollectIo ==
    ASSUME Inv2, IoInv, process_io
    PROVE  IoInv'
  <1>1. /\ pc = "process_io" /\ pc' = "transfer"
        /\ UNCHANGED <<states, pipes, vm_id_to_run>>
        /\ closed_pipes' = {v \in VmId : (Reading(v) \/ Writing(v)) /\ ~OtherEndOpen(v)}
        /\ pairs' = {[reader |-> x[1], rs |-> states[x[1]],
                      writer |-> x[2], ws |-> states[x[2]]] :
                     x \in {y \in VmId \X VmId : Matched(y[1], y[2])}}
    BY DEF process_io, Goto, scheduler
  <1>2. (AllOpen /\ LastMeets) \/ NoMeeting
    BY <1>1, InRun DEF Inv2, IoInv
  <1>3. \A v \in VmId : Waiter(v) /\ ~OtherEndOpen(v) => v \in closed_pipes'
    BY <1>1 DEF Waiter
  <1>4. ASSUME NEW r \in VmId, NEW w \in VmId, Reading(r), Writing(w), Meeting(r, w)
        PROVE  \E x \in pairs' : x.reader = r /\ x.writer = w
    <2>1. OtherEndOpen(r) /\ OtherEndOpen(w) /\ states[r].pipe = other_pipe(states[w].pipe)
      BY <1>4, MeetingFacts DEF Meeting
    <2>2. \A v \in VmId : Reading(v) /\ states[v].pipe = states[r].pipe => v = r
      BY <1>4, WaiterFacts DEF Waiter
    <2>3. Matched(r, w)
      BY <1>4, <2>1, <2>2, Root DEF Matched, Reads
    <2>4. [reader |-> r, rs |-> states[r], writer |-> w, ws |-> states[w]] \in pairs'
      <3>1. <<r, w>> \in {y \in VmId \X VmId : Matched(y[1], y[2])}
        BY <2>3
      <3> QED BY <1>1, <3>1
    <2> QED BY <2>4
  <1>5. ASSUME NEW x \in pairs'
        PROVE  /\ x.reader \in VmId /\ x.writer \in VmId
               /\ Meeting(x.writer, x.reader)
    <2>1. PICK y \in VmId \X VmId :
            /\ Matched(y[1], y[2])
            /\ x = [reader |-> y[1], rs |-> states[y[1]], writer |-> y[2], ws |-> states[y[2]]]
      BY <1>1
    <2> QED BY <2>1 DEF Matched, Reads, Meeting, Waiter
  <1>6. closed_pipes' = {} \/ pairs' = {}
    BY <1>1, <1>2, <1>5 DEF AllOpen, NoMeeting, Waiter
  <1>7. \A x \in pairs' : vm_id_to_run \in {x.reader, x.writer}
    BY <1>2, <1>5 DEF LastMeets, NoMeeting
  <1>8. ListsComplete'
    <2>1. \A v, u \in VmId : /\ Waiter(v)' = Waiter(v) /\ OtherEndOpen(v)' = OtherEndOpen(v)
                             /\ Meeting(v, u)' = Meeting(v, u)
                             /\ (Reading(v)' <=> Reading(v)) /\ (Writing(v)' <=> Writing(v))
      BY <1>1 DEF Waiter, OtherEndOpen, contains, Meeting, Reading, Writing
    <2> QED BY <1>1, <1>3, <1>4, <1>6, <1>7, <2>1 DEF ListsComplete
  <1> QED BY <1>1, <1>8 DEF IoInv

(* The VMs in S, and no others, stop waiting or wait on the same end; what *)
(* the lists name outside of S stays.                                      *)
LEMMA ListsShrink ==
    ASSUME ListsComplete, UNCHANGED <<pipes, vm_id_to_run>>,
           \A v \in VmId : Waiter(v)' => /\ Waiter(v) /\ states'[v].pipe = states[v].pipe
                                         /\ (Reading(v)' <=> Reading(v)) /\ (Writing(v)' <=> Writing(v)),
           closed_pipes' \subseteq closed_pipes, pairs' \subseteq pairs,
           \A v \in closed_pipes : v \in closed_pipes' \/ ~Waiter(v)',
           \A x \in pairs : x \in pairs' \/ ~Waiter(x.reader)'
    PROVE  ListsComplete'
  <1>1. \A v \in VmId : Waiter(v)' /\ ~OtherEndOpen(v)' => v \in closed_pipes'
    BY DEF ListsComplete, OtherEndOpen, contains
  <1>2. ASSUME NEW r \in VmId, NEW w \in VmId, Reading(r)', Writing(w)', Meeting(r, w)'
        PROVE  \E x \in pairs' : x.reader = r /\ x.writer = w
    <2>1. Reading(r) /\ Writing(w) /\ Meeting(r, w) /\ Waiter(r)'
      BY <1>2 DEF Meeting
    <2> QED BY <2>1 DEF ListsComplete
  <1> QED BY <1>1, <1>2 DEF ListsComplete

LEMMA ClosedIo ==
    ASSUME Inv2, IoInv, NEW v \in VmId, finish_closed(v)
    PROVE  IoInv'
  <1>1. /\ pc = "transfer" /\ v \in closed_pipes
        /\ UNCHANGED <<pipes, vm_id_to_run, pairs>>
    BY DEF finish_closed, FirstClosed
  <1>2. ListsComplete
    BY <1>1, InRun DEF Inv2, IoInv
  <1>3. CASE (pc' = "idle" /\ outcome' = "Error") \/ pc' = "panicked"
    BY <1>3 DEF IoInv, Usable, Resumable
  <1>4. CASE /\ states' = [states EXCEPT ![v] = Runnable]
             /\ closed_pipes' = closed_pipes \ {v} /\ pc' = "transfer"
    <2>1. states'[v] = Runnable /\ \A u \in VmId : u # v => states'[u] = states[u]
      BY <1>4 DEF Inv2, Inv1, TypeOK
    <2>2. ~Waiter(v)' /\ pairs = {}
      BY <1>1, <1>2, <2>1, StateValues DEF ListsComplete, Waiter, Reading, Writing
    <2>3. \A u \in VmId : Waiter(u)' => /\ Waiter(u) /\ states'[u].pipe = states[u].pipe
                                        /\ (Reading(u)' <=> Reading(u)) /\ (Writing(u)' <=> Writing(u))
      BY <2>1, <2>2 DEF Waiter, Reading, Writing
    <2>4. ListsComplete'
      BY <1>1, <1>2, <1>4, <2>2, <2>3, ListsShrink
    <2> QED BY <1>4, <2>4 DEF IoInv
  <1> QED BY <1>3, <1>4 DEF finish_closed, Wake, Return, Goto

LEMMA TransferIo ==
    ASSUME Inv2, IoInv, NEW x \in pairs, transfer(x)
    PROVE  IoInv'
  <1> DEFINE n == x.ws.consumed + copiable(x)
  <1>1. /\ pc = "transfer" /\ closed_pipes = {}
        /\ UNCHANGED <<pipes, vm_id_to_run, closed_pipes>>
    BY DEF transfer
  <1>2. ListsComplete
    BY <1>1, InRun DEF Inv2, IoInv
  <1>3. CASE pc' = "idle" /\ outcome' = "Error"
    BY <1>3 DEF IoInv, Usable, Resumable
  <1>4. CASE /\ states' = [states EXCEPT ![x.reader] = Runnable, ![x.writer] = Written(x, n)]
             /\ pairs' = pairs \ {x} /\ pc' = "transfer"
    <2>1. /\ x.reader \in VmId /\ x.writer \in VmId /\ x.reader # x.writer
          /\ states[x.writer] = x.ws /\ Writing(x.writer) /\ ~Reading(x.writer)
      BY <1>1, PairEnds DEF Reading, Writing
    <2>2. /\ \A u \in VmId : u \notin {x.reader, x.writer} => states'[u] = states[u]
          /\ states'[x.reader] = Runnable /\ states'[x.writer] = Written(x, n)
      BY <1>4, <2>1 DEF Inv2, Inv1, TypeOK
    <2>3. \/ Written(x, n) = Runnable
          \/ Written(x, n).tag = "WaitForWrite" /\ Written(x, n).pipe = x.ws.pipe
      BY <1>1, PairEnds DEF Written, Pair, WriteState
    <2> HIDE DEF n
    <2>4. ~Waiter(x.reader)'
      BY <2>2, StateValues DEF Waiter, Reading, Writing
    <2>5. \A u \in VmId : Waiter(u)' => /\ Waiter(u) /\ states'[u].pipe = states[u].pipe
                                        /\ (Reading(u)' <=> Reading(u)) /\ (Writing(u)' <=> Writing(u))
      <3>1. Waiter(x.writer)' => /\ Waiter(x.writer) /\ states'[x.writer].pipe = states[x.writer].pipe
                                 /\ ~Reading(x.writer)' /\ Writing(x.writer)'
        BY <2>1, <2>2, <2>3, StateValues DEF Waiter, Reading, Writing
      <3>2. \A u \in VmId \ {x.reader, x.writer} :
               (Waiter(u)' <=> Waiter(u)) /\ (Reading(u)' <=> Reading(u)) /\ (Writing(u)' <=> Writing(u))
        BY <2>2 DEF Waiter, Reading, Writing
      <3> QED BY <2>1, <2>2, <2>4, <3>1, <3>2
    <2>6. ListsComplete'
      BY <1>1, <1>2, <1>4, <2>4, <2>5, ListsShrink
    <2> QED BY <1>4, <2>6 DEF IoInv
  <1> QED BY <1>3, <1>4 DEF transfer, Wake, Return, WriterFails, Goto

-----------------------------------------------------------------------------
(* The steps that move VMs and pipes *)

LEMMA BootIo ==
    ASSUME Inv2, NEW md, NEW l, run_boot(md, l)
    PROVE  IoInv'
  <1>1. CASE pc' = "idle" /\ outcome' = "Error"
    BY <1>1 DEF IoInv, Usable, Resumable
  <1>2. CASE states' = [states EXCEPT ![next_vm_id] = Runnable] /\ pc' = "process_io"
    <2>1. \A v \in VmId : states'[v] = Runnable \/ states'[v] = Absent
      BY <1>2 DEF Inv2, Inv1, TypeOK, run_boot, Live
    <2>2. \A v \in VmId : ~Waiter(v)'
      BY <2>1, StateValues DEF Waiter, Reading, Writing
    <2>3. NoMeeting'
      BY <2>2 DEF NoMeeting, Meeting
    <2> QED BY <1>2, <2>3 DEF IoInv
  <1> QED BY <1>1, <1>2 DEF run_boot, Booted, Return

LEMMA WakeIo ==
    ASSUME Inv2, IoInv, NEW v \in VmId, wake_joiner(v)
    PROVE  IoInv'
  <1>1. pc = "joiners" /\ UNCHANGED pipes
    BY DEF wake_joiner
  <1>2. AllOpen /\ NoMeeting
    BY <1>1, InRun DEF Inv2, IoInv, Served
  <1>3. CASE pc' = "idle" /\ outcome' = "Error"
    BY <1>3 DEF IoInv, Usable, Resumable
  <1>4. CASE states' = [states EXCEPT ![v] = Runnable] /\ pc' = "joiners"
    <2>1. states'[v] = Runnable /\ \A u \in VmId : u # v => states'[u] = states[u]
      BY <1>4 DEF Inv2, Inv1, TypeOK
    <2>2. \A u \in VmId : Waiter(u)' => Waiter(u) /\ states'[u].pipe = states[u].pipe
      BY <2>1, StateValues DEF Waiter, Reading, Writing
    <2>3. \A p \in PipeId : contains(p) => contains(p)'
      BY <1>1 DEF contains
    <2>4. AllOpen' /\ NoMeeting'
      BY <1>2, <2>2, <2>3, NobodyWaits
    <2> QED BY <1>4, <2>4 DEF IoInv, Served
  <1> QED BY <1>3, <1>4 DEF wake_joiner, Wake, Return, Goto

(* A spawn and a new pipe close no end, and nobody starts to wait. *)
LEMMA GrowIo ==
    ASSUME Inv2, IoInv, spawn_done \/ pipe_create
    PROVE  IoInv'
  <1>1. /\ pc = "messages" /\ message_box # <<>> /\ vm_id_to_run' = vm_id_to_run
        /\ pc' = "messages" \/ (pc' = "idle" /\ outcome' = "Error")
    BY DEF spawn_done, pipe_create, Handling, Answer, Handled, Dropped, Return, Goto, locals
  <1>2. AllOpen /\ LastMeets
    BY <1>1, InRun DEF Inv2, IoInv
  <1>3. \A u \in VmId : Waiter(u)' => Waiter(u) /\ states'[u].pipe = states[u].pipe
    <2>1. \A u \in VmId : states'[u] = states[u] \/ states'[u] = Runnable
      <3>1. states' = states \/ states' = [states EXCEPT ![next_vm_id] = Runnable]
        BY DEF spawn_done, pipe_create
      <3> QED BY <3>1 DEF Inv2, Inv1, TypeOK
    <2> QED BY <2>1, StateValues DEF Waiter, Reading, Writing
  <1>4. ASSUME NEW p \in PipeId, contains(p) PROVE contains(p)'
    <2>1. /\ next_vm_id # NoVm /\ pipes \in [PipeId -> VmId \cup {NoVm}]
          /\ vm_id_to_run # NoVm
      <3>1. vm_id_to_run \in Nat /\ next_vm_id \in Nat
        BY <1>1, Root, HandlingFacts, TypesAssumption DEF Inv2, Inv1, TypeOK
      <3> QED BY <3>1 DEF NoVm, Inv2, Inv1, TypeOK
    <2>2. CASE spawn_done
      <3>1. pipes' = Passed(Head(message_box), next_vm_id)
        BY <2>2 DEF spawn_done
      <3> QED BY <1>4, <2>1, <3>1 DEF Passed, contains
    <2>3. CASE pipe_create
      <3> DEFINE m == Head(message_box)
      <3>1. \E a, b : pipes' = [pipes EXCEPT ![a] = m.vm, ![b] = m.vm]
        BY <2>3 DEF pipe_create
      <3>2. m.vm = vm_id_to_run
        BY <1>1, HandlingFacts DEF Inv2
      <3> HIDE DEF m
      <3> QED BY <1>4, <2>1, <3>1, <3>2 DEF contains
    <2> QED BY <2>2, <2>3
  <1>5. AllOpen' /\ LastMeets'
    BY <1>1, <1>2, <1>3, <1>4, NobodyWaits
  <1> QED BY <1>1, <1>5 DEF IoInv, Usable, Resumable

LEMMA WaitsIo ==
    ASSUME Inv2, IoInv, join_waits \/ io_waits
    PROVE  IoInv'
  <1> DEFINE m == Head(message_box)
  <1>1. /\ pc = "messages" /\ message_box # <<>> /\ pc' = "messages"
        /\ UNCHANGED <<pipes, vm_id_to_run>>
    BY DEF join_waits, io_waits, HandlingIo, Handling, Handled, Goto, locals
  <1>2. m.vm = vm_id_to_run /\ vm_id_to_run \in VmId
    BY <1>1, HandlingFacts DEF Inv2
  <1>3. AllOpen /\ LastMeets
    BY <1>1, InRun DEF Inv2, IoInv
  <1>4. \E s : /\ states' = [states EXCEPT ![m.vm] = s]
               /\ s.tag = "Join" \/ contains(other_pipe(s.pipe))
    <2>1. CASE join_waits
      <3> DEFINE s == [tag |-> "Join", target |-> m.target, addr |-> m.addr]
      <3>1. states' = [states EXCEPT ![m.vm] = s] /\ s.tag = "Join"
        BY <2>1 DEF join_waits
      <3> QED BY <3>1
    <2>2. CASE io_waits
      <3>1. Waiting(m).pipe = m.pipe
        BY DEF Waiting
      <3> QED BY <2>2, <3>1 DEF io_waits
    <2> QED BY <2>1, <2>2
  <1>5. PICK s : /\ states' = [states EXCEPT ![m.vm] = s]
                 /\ s.tag = "Join" \/ contains(other_pipe(s.pipe))
    BY <1>4
  <1> HIDE DEF m
  <1>6. /\ states'[vm_id_to_run] = s
        /\ \A u \in VmId : u # vm_id_to_run => states'[u] = states[u]
    BY <1>2, <1>5 DEF Inv2, Inv1, TypeOK
  <1>7. AllOpen'
    BY <1>1, <1>3, <1>5, <1>6 DEF AllOpen, Waiter, Reading, Writing, OtherEndOpen, contains
  <1>8. LastMeets'
    BY <1>1, <1>3, <1>6 DEF LastMeets, Meeting, Waiter, Reading, Writing
  <1> QED BY <1>1, <1>7, <1>8 DEF IoInv

LEMMA ExitIo ==
    ASSUME Inv2, IoInv, exit_ends \/ exit_root
    PROVE  IoInv'
  <1>1. CASE exit_ends
    <2>1. /\ pc = "joiners" /\ pc' = "process_io" /\ vm_id_to_run \in VmId
          /\ states' = [states EXCEPT ![vm_id_to_run] = Absent]
      BY <1>1 DEF exit_ends, NextIteration, Goto, Inv2, Inv1, Phases
    <2>2. NoMeeting
      BY <2>1, InRun DEF Inv2, IoInv, Served
    <2>3. /\ states'[vm_id_to_run] = Absent
          /\ \A u \in VmId : u # vm_id_to_run => states'[u] = states[u]
      BY <2>1 DEF Inv2, Inv1, TypeOK
    <2>4. \A u \in VmId : Waiter(u)' => Waiter(u) /\ states'[u].pipe = states[u].pipe
      BY <2>3, StateValues DEF Waiter, Reading, Writing
    <2>5. NoMeeting'
      BY <2>2, <2>4, NobodyWaits
    <2> QED BY <2>1, <2>5 DEF IoInv
  <1>2. CASE exit_root
    <2>1. pc' = "idle" /\ \A v \in VmId : states'[v] = Terminated \/ states'[v] = Absent
      BY <1>2 DEF exit_root, Return
    <2>2. \A v \in VmId : ~Waiter(v)'
      BY <2>1, StateValues DEF Waiter, Reading, Writing
    <2>3. AllOpen' /\ NoMeeting'
      BY <2>2 DEF AllOpen, NoMeeting, Meeting
    <2> QED BY <2>1, <2>3 DEF IoInv, Served
  <1> QED BY <1>1, <1>2

LEMMA NextIo == Inv2 /\ IoInv /\ [Next]_vars => IoInv'
  <1> SUFFICES ASSUME Inv2, IoInv, [Next]_vars PROVE IoInv' OBVIOUS
  <1>1. CASE \E v \in VmId : pick(v)
    BY <1>1, PickIo
  <1>2. CASE Still /\ ~ \E v \in VmId : pick(v)
    BY <1>2, StillIo DEF Inv2
  <1>3. CASE \/ process_io \/ (\E v \in VmId : finish_closed(v) \/ wake_joiner(v))
             \/ (\E x \in pairs : transfer(x)) \/ join_waits \/ io_waits
             \/ \E md, l : run_boot(md, l)
    BY <1>3, CollectIo, ClosedIo, WakeIo, TransferIo, WaitsIo, BootIo
  <1>4. CASE spawn_done \/ pipe_create \/ exit_ends \/ exit_root
    BY <1>4, GrowIo, ExitIo
  <1>5. CASE UNCHANGED vars
    BY <1>5 DEF vars, scheduler, locals, IoInv, Usable, Served, AllOpen, NoMeeting, LastMeets,
                ListsComplete, Meeting, Waiter, Reading, Writing, OtherEndOpen, contains
  <1> QED BY <1>1, <1>2, <1>3, <1>4, <1>5 DEF Next, iterate, host, Caller, Still

(* At each point of run(), what is left to serve is what the point says:   *)
(* nothing while a guest runs and between calls, and during process_io()   *)
(* exactly what is on its lists.                                           *)
THEOREM IoInvHolds == Spec => []IoInv
  <1>1. Inv2 /\ IoInv /\ [Next]_vars => IoInv'
    BY NextIo
  <1> QED BY InitIo, <1>1, Inv2Holds, PTL DEF Spec

(* A pass of process_io() leaves no waiter it could have served, for any   *)
(* number of VMs and pipes.                                                *)
THEOREM PassComplete == Spec => []IoPassComplete
  <1>1. Inv2 /\ IoInv => IoPassComplete
    <2> SUFFICES ASSUME Inv2, IoInv, IoFinished \/ pc = "machine" PROVE AllOpen /\ NoMeeting
      BY DEF IoPassComplete, AllOpen, NoMeeting, Meeting, Waiter, OtherEndOpen
    <2>1. Usable
      BY InRun DEF Inv2, IoFinished
    <2>2. CASE IoFinished
      <3>1. ListsComplete /\ closed_pipes = {} /\ pairs = {}
        BY <2>1, <2>2 DEF IoFinished, IoInv
      <3> QED BY <3>1, MeetingFacts DEF ListsComplete, AllOpen, NoMeeting
    <2>3. CASE pc = "machine"
      BY <2>1, <2>3 DEF IoInv, Served
    <2> QED BY <2>2, <2>3
  <1> QED BY IoInvHolds, Inv2Holds, <1>1, PTL

(* The states process_io() cloned are current when their turn comes, and   *)
(* a pass has only pairs that the VM that ran last is part of.             *)
THEOREM FreshPairs == Spec => []PairsFresh
  <1>1. Inv2 /\ IoInv => PairsFresh
    <2> SUFFICES ASSUME Inv2, IoInv, pc = "transfer", NEW x \in pairs
                 PROVE  /\ states[x.reader] = x.rs /\ states[x.writer] = x.ws
                        /\ x.reader # x.writer
                        /\ vm_id_to_run \in {x.reader, x.writer}
                        /\ closed_pipes = {}
      BY DEF PairsFresh
    <2>1. ListsComplete
      BY InRun DEF Inv2, IoInv
    <2> QED BY <2>1, PairEnds DEF ListsComplete
  <1> QED BY IoInvHolds, Inv2Holds, <1>1, PTL

-----------------------------------------------------------------------------
(* Bytes *)

(* A scheduler whose run failed is left as it is. *)
LEMMA FailedStays == Inv1 /\ [Next]_vars /\ ~Usable => UNCHANGED vars
  <1> SUFFICES ASSUME Inv1, [Next]_vars, ~Usable PROVE UNCHANGED vars OBVIOUS
  <1>1. pc = "idle" /\ outcome \notin Resumable
    BY InRun DEF Usable
  <1>2. ~Guest
    BY <1>1, GuestSteps
  <1>3. ~host
    BY <1>1
    DEF host, process_io, finish_closed, pick, wake_joiner, transfer, deadlock, IoFinished,
        spawn_refused, spawn_fails, spawn_done, join_terminated, join_unknown, join_waits,
        pipe_create, io_not_owner, io_other_end_closed, io_waits, HandlingIo, Handling,
        yielded, stopped, exit_root, exit_begins, exit_ends, Settling
  <1> QED BY <1>1, <1>2, <1>3 DEF Next, iterate, Caller, run_boot, run_on, Called, suspend, resume,
                                  dropped

Waits(w, p) == Writing(w) /\ states[w].pipe = p

(* NoByteLost for one write end. *)
Counted1(p) ==
    /\ (\A w \in VmId : ~Waits(w, p)) => unacked[p] = 0
    /\ \A w \in VmId : Waits(w, p) => unacked[p] = states[w].consumed

LEMMA ByteLaw ==
    NoByteLost <=> (Usable /\ states[ROOT_VM_ID] # Terminated => \A p \in PipeId : Counted1(p))
  BY DEF NoByteLost, Counted1, Waits

(* Steps that leave the waiting writers and the counts alone. *)
LEMMA WritersKept ==
    ASSUME NoByteLost, UNCHANGED unacked, Usable' => Usable,
           \A v \in VmId : \/ states'[v] = states[v]
                           \/ /\ ~Writing(v) /\ ~Writing(v)' /\ states[v] # Terminated
    PROVE  NoByteLost'
  <1> SUFFICES ASSUME Usable', states'[ROOT_VM_ID] # Terminated, NEW p \in PipeId
               PROVE  Counted1(p)'
    BY ByteLaw DEF NoByteLost, Counted1, Waits
  <1>1. states[ROOT_VM_ID] # Terminated
    BY Root
  <1>2. Counted1(p)
    BY <1>1, ByteLaw
  <1>3. \A w \in VmId : /\ Waits(w, p) <=> Waits(w, p)'
                        /\ Waits(w, p) => states'[w] = states[w]
    BY DEF Waits, Writing
  <1> QED BY <1>2, <1>3 DEF Counted1

(* The count of one end q and the state of its writer w change together. *)
LEMMA WriterServed ==
    ASSUME Inv2, NoByteLost, Usable, states[ROOT_VM_ID] # Terminated,
           NEW w \in VmId, NEW q, Waits(w, q), NEW n,
           unacked' = [unacked EXCEPT ![q] = n],
           \/ ~Writing(w)' /\ n = 0
           \/ Waits(w, q)' /\ states'[w].consumed = n,
           \A v \in VmId \ {w} : states'[v] = states[v] \/ (~Writing(v) /\ ~Writing(v)')
    PROVE  NoByteLost'
  <1>1. q \in PipeId /\ pipes[q] = w /\ unacked \in [PipeId -> Int]
    BY WaiterFacts DEF Waits, Waiter, Inv2, Inv1, TypeOK
  <1> SUFFICES ASSUME NEW p \in PipeId PROVE Counted1(p)'
    BY ByteLaw DEF NoByteLost, Counted1, Waits
  <1>2. Counted1(p)
    BY ByteLaw
  <1>3. \A v \in VmId \ {w} : /\ Waits(v, p) <=> Waits(v, p)'
                              /\ Waits(v, p) => states'[v] = states[v]
    BY DEF Waits, Writing
  <1>4. CASE p = q
    <2>1. \A v \in VmId \ {w} : ~Waits(v, p)'
      BY <1>1, <1>3, <1>4, WaiterFacts DEF Waits, Waiter
    <2>2. unacked'[p] = n
      BY <1>1, <1>4
    <2> QED BY <1>4, <2>1, <2>2 DEF Counted1, Waits
  <1>5. CASE p # q
    <2>1. unacked'[p] = unacked[p] /\ ~Waits(w, p) /\ ~Waits(w, p)'
      BY <1>1, <1>5 DEF Waits
    <2> QED BY <1>2, <1>3, <2>1 DEF Counted1
  <1> QED BY <1>4, <1>5

LEMMA ClosedBytes ==
    ASSUME Inv2, NoByteLost, NEW v \in VmId, finish_closed(v)
    PROVE  NoByteLost'
  <1>1. pc = "transfer" /\ v \in closed_pipes
    BY DEF finish_closed, FirstClosed
  <1>2. Usable /\ Waiter(v)
    BY <1>1, InRun DEF Inv2, Inv1, Phases, Waiter
  <1>3. CASE UNCHANGED <<states, unacked>>
    BY <1>2, <1>3, WritersKept
  <1>4. CASE /\ states' = [states EXCEPT ![v] = Runnable]
             /\ unacked' = IF Writing(v)
                           THEN [unacked EXCEPT ![states[v].pipe] = @ - EofReply(states[v]).length]
                           ELSE unacked
    <2>1. states'[v] = Runnable /\ \A u \in VmId : u # v => states'[u] = states[u]
      BY <1>4 DEF Inv2, Inv1, TypeOK
    <2>2. ~Writing(v)' /\ states[v] # Terminated
      BY <1>2, <2>1, StateValues, WaiterFacts DEF Writing
    <2>3. CASE ~Writing(v)
      BY <1>2, <1>4, <2>1, <2>2, <2>3, WritersKept
    <2>4. CASE Writing(v)
      <3> DEFINE q == states[v].pipe
      <3>1. EofReply(states[v]).length = states[v].consumed /\ states[v] \in WriteState
        BY <2>4, StateKinds DEF EofReply, IoDone, Writing, Inv2, Inv1, TypeOK
      <3>2. CASE states[ROOT_VM_ID] = Terminated
        <4>1. states'[ROOT_VM_ID] = Terminated
          BY <2>1, <2>2, <3>2, Root
        <4> QED BY <4>1 DEF NoByteLost
      <3>3. CASE states[ROOT_VM_ID] # Terminated
        <4>1. q \in PipeId /\ Waits(v, q)
          BY <1>2, <2>4, WaiterFacts DEF Waits
        <4>2. unacked[q] = states[v].consumed
          BY <1>2, <3>3, <4>1, ByteLaw DEF Counted1
        <4>3. unacked[q] - EofReply(states[v]).length = 0
          BY <3>1, <4>2 DEF WriteState, Length
        <4>4. unacked' = [unacked EXCEPT ![q] = 0]
          BY <1>4, <2>4, <4>1, <4>3 DEF Inv2, Inv1, TypeOK
        <4> HIDE DEF q
        <4> QED BY <1>2, <2>1, <2>2, <3>3, <4>1, <4>4, WriterServed
      <3> QED BY <3>2, <3>3
    <2> QED BY <2>3, <2>4
  <1> QED BY <1>3, <1>4 DEF finish_closed, Wake

LEMMA TransferBytes ==
    ASSUME Inv2, NoByteLost, NEW x \in pairs, transfer(x)
    PROVE  NoByteLost'
  <1> DEFINE n == x.ws.consumed + copiable(x)
             q == x.ws.pipe
  <1>1. pc = "transfer" /\ Usable
    BY InRun DEF transfer, Inv2
  <1>2. CASE outcome' = "Error"
    BY <1>2 DEF NoByteLost, Usable, Resumable
  <1>3. CASE /\ states' = [states EXCEPT ![x.reader] = Runnable, ![x.writer] = Written(x, n)]
             /\ unacked' = [unacked EXCEPT ![q] =
                              IF n = x.ws.length THEN @ + copiable(x) - n ELSE @ + copiable(x)]
    <2>1. /\ x.reader \in VmId /\ x.writer \in VmId /\ x.reader # x.writer /\ x \in Pair
          /\ states[x.writer] = x.ws /\ Reading(x.reader) /\ Waits(x.writer, q) /\ q \in PipeId
      BY <1>1, PairEnds DEF Waits
    <2>2. /\ \A u \in VmId : u \notin {x.reader, x.writer} => states'[u] = states[u]
          /\ states'[x.reader] = Runnable /\ states'[x.writer] = Written(x, n)
      BY <1>3, <2>1 DEF Inv2, Inv1, TypeOK
    <2>3. /\ ~Writing(x.reader) /\ ~Writing(x.reader)'
          /\ states[x.reader] # Terminated /\ states[x.writer] # Terminated
      BY <2>1, <2>2, StateValues DEF Reading, Writing, Waits
    <2>4. copiable(x) \in Nat /\ x.ws.consumed \in Nat /\ n \in Nat
      BY <2>1, Copies DEF Pair, WriteState, Length
    <2>5. CASE states[ROOT_VM_ID] = Terminated
      <3>1. states'[ROOT_VM_ID] = Terminated
        BY <2>2, <2>3, <2>5, Root
      <3> QED BY <3>1 DEF NoByteLost
    <2>6. CASE states[ROOT_VM_ID] # Terminated
      <3>1. unacked[q] = x.ws.consumed
        BY <1>1, <2>1, <2>6, ByteLaw DEF Counted1
      <3>2. CASE n = x.ws.length
        <4>1. ~Writing(x.writer)'
          BY <2>2, <3>2, StateValues DEF Written, Writing
        <4>2. unacked[q] + copiable(x) - n = 0
          BY <2>4, <3>1
        <4>3. unacked' = [unacked EXCEPT ![q] = 0]
          BY <1>3, <2>1, <3>2, <4>2 DEF Inv2, Inv1, TypeOK
        <4> HIDE DEF n, q
        <4> QED BY <1>1, <2>1, <2>2, <2>3, <2>6, <4>1, <4>3, WriterServed
      <3>3. CASE n # x.ws.length
        <4>1. /\ Written(x, n).tag = "WaitForWrite" /\ Written(x, n).pipe = q
              /\ Written(x, n).consumed = n
          BY <2>1, <3>3 DEF Written, Pair, WriteState
        <4>2. unacked' = [unacked EXCEPT ![q] = n]
          BY <1>3, <2>1, <2>4, <3>1, <3>3 DEF Inv2, Inv1, TypeOK
        <4> HIDE DEF n, q
        <4>3. Waits(x.writer, q)' /\ states'[x.writer].consumed = n
          BY <2>2, <4>1 DEF Waits, Writing
        <4> QED BY <1>1, <2>1, <2>2, <2>3, <2>6, <4>2, <4>3, WriterServed
      <3> QED BY <3>2, <3>3
    <2> QED BY <2>5, <2>6
  <1> QED BY <1>2, <1>3 DEF transfer, Return, WriterFails, Goto

LEMMA WaitsBytes ==
    ASSUME Inv2, NoByteLost, join_waits \/ io_waits
    PROVE  NoByteLost'
  <1> DEFINE m == Head(message_box)
  <1>1. /\ pc = "messages" /\ message_box # <<>> /\ UNCHANGED <<unacked, outcome>>
    BY DEF join_waits, io_waits, HandlingIo, Handling, Handled, Goto, history
  <1>2. PICK me \in VmId : m.vm = me /\ states[me] = Runnable /\ Checked(m) /\ Usable
    BY <1>1, HandlingFacts DEF Inv2, Usable
  <1>3. ~Writing(me) /\ states[me] # Terminated
    BY <1>2, StateValues DEF Writing
  <1>4. CASE join_waits \/ m.tag = "PipeRead"
    <2>1. \E s : states' = [states EXCEPT ![m.vm] = s] /\ s.tag # "WaitForWrite"
      <3>1. CASE join_waits
        <4> DEFINE s == [tag |-> "Join", target |-> m.target, addr |-> m.addr]
        <4>1. states' = [states EXCEPT ![m.vm] = s] /\ s.tag # "WaitForWrite"
          BY <3>1 DEF join_waits
        <4> QED BY <4>1
      <3>2. CASE io_waits /\ m.tag = "PipeRead"
        <4>1. Waiting(m).tag # "WaitForWrite"
          BY <3>2 DEF Waiting
        <4> QED BY <3>2, <4>1 DEF io_waits
      <3> QED BY <1>4, <3>1, <3>2
    <2>2. PICK s : states' = [states EXCEPT ![m.vm] = s] /\ s.tag # "WaitForWrite"
      BY <2>1
    <2> HIDE DEF m
    <2>3. \A u \in VmId : states'[u] = states[u] \/ (u = me /\ ~Writing(u)')
      BY <1>2, <2>2 DEF Inv2, Inv1, TypeOK, Writing
    <2> QED BY <1>1, <1>2, <1>3, <2>3, WritersKept
  <1>5. CASE io_waits /\ m.tag # "PipeRead"
    <2>1. /\ states' = [states EXCEPT ![m.vm] = Waiting(m)] /\ owns(me, m.pipe)
          /\ Waiting(m).tag = "WaitForWrite" /\ Waiting(m).pipe = m.pipe /\ Waiting(m).consumed = 0
      BY <1>2, <1>5 DEF io_waits, Waiting
    <2>2. /\ states'[me] = Waiting(m)
          /\ \A u \in VmId : u # me => states'[u] = states[u]
      BY <1>2, <2>1 DEF Inv2, Inv1, TypeOK
    <2> SUFFICES ASSUME states'[ROOT_VM_ID] # Terminated, NEW p \in PipeId
                 PROVE  Counted1(p)'
      BY DEF NoByteLost, Counted1, Waits
    <2>3. states[ROOT_VM_ID] # Terminated
      BY <1>3, <2>2, Root
    <2>4. Counted1(p)
      BY <1>2, <2>3, ByteLaw
    <2> HIDE DEF m
    <2>5. \A u \in VmId : u # me => /\ Waits(u, p) <=> Waits(u, p)'
                                    /\ Waits(u, p) => states'[u] = states[u]
      BY <2>2 DEF Waits, Writing
    <2>6. ~Waits(me, p)
      BY <1>3 DEF Waits
    <2>7. CASE p = m.pipe
      <3>1. \A u \in VmId : ~Waits(u, p)
        BY <2>1, <2>6, <2>7, WaiterFacts DEF Waits, Waiter, owns
      <3>2. unacked[p] = 0
        BY <2>4, <3>1 DEF Counted1
      <3>3. Waits(me, p)' /\ states'[me].consumed = 0 /\ \A u \in VmId : u # me => ~Waits(u, p)'
        BY <2>1, <2>2, <2>5, <2>7, <3>1 DEF Waits, Writing
      <3> QED BY <1>1, <1>2, <3>2, <3>3 DEF Counted1
    <2>8. CASE p # m.pipe
      <3>1. ~Waits(me, p)'
        BY <2>1, <2>2, <2>8 DEF Waits
      <3> QED BY <1>1, <2>4, <2>5, <2>6, <3>1 DEF Counted1
    <2> QED BY <2>7, <2>8
  <1> QED BY <1>4, <1>5

LEMMA StillBytes ==
    ASSUME Inv2, NoByteLost, Usable, Still
    PROVE  NoByteLost'
  <1>1. UNCHANGED states
    BY StillFacts DEF Inv2
  <1>2. UNCHANGED unacked
    <2>1. CASE Guest
      BY <2>1, GuestSteps DEF inline, Sliced, history
    <2>2. CASE \/ join_terminated \/ join_unknown \/ io_not_owner \/ io_other_end_closed
               \/ spawn_refused \/ spawn_fails
      BY <2>2
      DEF join_terminated, join_unknown, io_not_owner, io_other_end_closed, spawn_refused,
          spawn_fails, Answer, Refuse, Dropped, Handled, history
    <2>3. CASE (\E v \in VmId : pick(v)) \/ deadlock \/ yielded \/ stopped \/ exit_begins
      BY <2>3 DEF pick, deadlock, yielded, stopped, exit_begins, history
    <2>4. CASE (\E md, l : run_on(md, l)) \/ suspend \/ resume \/ dropped
      BY <2>4 DEF run_on, Called, suspend, resume, dropped, history, vars
    <2> QED BY <2>1, <2>2, <2>3, <2>4 DEF Still
  <1> QED BY <1>1, <1>2, WritersKept

LEMMA NextBytes == Inv2 /\ NoByteLost /\ [Next]_vars => NoByteLost'
  <1> SUFFICES ASSUME Inv2, NoByteLost, [Next]_vars PROVE NoByteLost' OBVIOUS
  <1>1. CASE ~Usable
    <2>1. UNCHANGED outcome
      BY <1>1, FailedStays DEF Inv2, vars
    <2> QED BY <1>1, <2>1 DEF NoByteLost, Usable
  <1>2. CASE UNCHANGED vars
    BY <1>2 DEF vars, scheduler, history, NoByteLost, Usable, Writing
  <1>3. CASE Usable /\ Still
    BY <1>3, StillBytes
  <1>4. CASE \/ (\E v \in VmId : finish_closed(v)) \/ (\E x \in pairs : transfer(x))
             \/ join_waits \/ io_waits
    BY <1>4, ClosedBytes, TransferBytes, WaitsBytes
  <1>5. CASE exit_root
    <2>1. states'[ROOT_VM_ID] = Terminated
      BY <1>5, Root DEF exit_root
    <2> QED BY <2>1 DEF NoByteLost
  <1>6. CASE /\ Usable
             /\ \/ process_io \/ (\E v \in VmId : wake_joiner(v))
                \/ spawn_done \/ pipe_create \/ exit_ends \/ \E md, l : run_boot(md, l)
    <2>1. UNCHANGED unacked
      BY <1>6 DEF process_io, wake_joiner, spawn_done, pipe_create, exit_ends, run_boot, Called,
                  Answer, Handled, Dropped, history
    <2>2. \E v, s : /\ states' = states \/ states' = [states EXCEPT ![v] = s]
                    /\ v \in VmId => states[v].tag # "WaitForWrite" /\ states[v] # Terminated
                    /\ s.tag # "WaitForWrite"
      <3>1. CASE process_io \/ pipe_create
        <4>1. states' = states
          BY <3>1 DEF process_io, pipe_create, scheduler
        <4>2. NoVm \notin VmId
          BY Root DEF NoVm
        <4> QED BY <4>1, <4>2, StateValues
      <3>0. next_vm_id \in VmId => states[next_vm_id] = Absent
        BY Root DEF Inv2, Inv1, Ids
      <3>2. ASSUME NEW v \in VmId, wake_joiner(v)
            PROVE  /\ states' = states \/ states' = [states EXCEPT ![v] = Runnable]
                   /\ states[v].tag # "WaitForWrite" /\ states[v] # Terminated
        <4>1. states' = states \/ states' = [states EXCEPT ![v] = Runnable]
          BY <3>2 DEF wake_joiner, Wake
        <4>2. pc = "joiners" /\ v \in joining_vms
          BY <3>2 DEF wake_joiner, FirstJoiner
        <4>3. states[v].tag = "Join"
          BY <4>2 DEF Inv2, Inv1, Phases
        <4> QED BY <4>1, <4>3, StateValues
      <3>3. CASE spawn_done
        <4>1. states' = [states EXCEPT ![next_vm_id] = Runnable]
          BY <3>3 DEF spawn_done
        <4>2. next_vm_id \in VmId => states[next_vm_id] = Absent
          BY <3>0
        <4> QED BY <4>1, <4>2, StateValues
      <3>4. CASE exit_ends
        <4>1. states' = [states EXCEPT ![vm_id_to_run] = Absent] /\ states[vm_id_to_run] = Runnable
          BY <3>4 DEF exit_ends, Inv2, Inv1, Phases
        <4> QED BY <4>1, StateValues
      <3>5. CASE \E md, l : run_boot(md, l)
        <4>1. states' = states \/ states' = [states EXCEPT ![next_vm_id] = Runnable]
          BY <3>5 DEF run_boot, Booted
        <4>2. next_vm_id \in VmId => states[next_vm_id] = Absent
          BY <3>0
        <4> QED BY <4>1, <4>2, StateValues
      <3> QED BY <1>6, <3>1, <3>2, <3>3, <3>4, <3>5, StateValues
    <2>3. PICK v, s : /\ states' = states \/ states' = [states EXCEPT ![v] = s]
                      /\ v \in VmId => states[v].tag # "WaitForWrite" /\ states[v] # Terminated
                      /\ s.tag # "WaitForWrite"
      BY <2>2
    <2>4. \A u \in VmId : states'[u] = states[u] \/ (u = v /\ states'[u] = s)
      BY <2>3 DEF Inv2, Inv1, TypeOK
    <2> QED BY <1>6, <2>1, <2>3, <2>4, WritersKept DEF Writing
  <1> QED BY <1>1, <1>2, <1>3, <1>4, <1>5, <1>6 DEF Next, iterate, host, Caller, Still

(* Every byte given to a reader is acknowledged to the writer exactly      *)
(* once, for writes of any length cut into any reads.                      *)
THEOREM BytesKept == Spec => []NoByteLost
  <1>1. Init => NoByteLost
    BY StateValues DEF Init, NoByteLost, Writing
  <1>2. Inv2 /\ NoByteLost /\ [Next]_vars => NoByteLost'
    BY NextBytes
  <1> QED BY <1>1, <1>2, Inv2Holds, PTL DEF Spec

-----------------------------------------------------------------------------
(* Short writes *)

(* A write that has returned was on a pipe that was created, and if it     *)
(* wrote less than it was asked to, the read end is gone for good.         *)
WriteOk(r) ==
    r.op = "write" /\ r.code = SUCCESS =>
        /\ r.pipe \in PipeId /\ is_write(r.pipe) /\ r.pipe < next_pipe_slot
        /\ r.length < r.asked => ~contains(other_pipe(r.pipe))

WritesOk == \A v \in VmId : WriteOk(machine[v].reply)

NotWrite(r) == ~(r.op = "write" /\ r.code = SUCCESS)

LEMMA OtherReplies ==
    /\ NotWrite(NoReply)
    /\ NotWrite([op |-> "spawn", code |-> SUCCESS])
    /\ NotWrite([op |-> "pipe", code |-> SUCCESS])
    /\ NotWrite([op |-> "join", code |-> JOIN_FAILURE])
    /\ \A t, e : NotWrite([op |-> "join", code |-> SUCCESS, target |-> t, exit |-> e])
    /\ \A o : /\ NotWrite([op |-> o, code |-> INVALID_PIPE])
              /\ NotWrite([op |-> o, code |-> OTHER_END_CLOSED])
    /\ \A s, n : NotWrite(IoDone("read", s, n))
    /\ \A r : NotWrite(r) => WriteOk(r) /\ WriteOk(r)'
  BY DEF NotWrite, WriteOk, NoReply, SUCCESS, INVALID_PIPE, OTHER_END_CLOSED, IoDone

LEMMA OwnedSlots ==
    ASSUME Inv2, NEW p \in PipeId, pipes[p] \in VmId
    PROVE  p < next_pipe_slot
  <1>1. p \in Nat /\ next_pipe_slot \in Nat
    BY OtherEnd DEF Inv2, Inv1, TypeOK
  <1>2. pipes[p] # NoVm
    BY Root DEF NoVm
  <1> QED BY <1>1, <1>2 DEF Inv2, SlotsFree

LEMMA FirstReply ==
    ASSUME NEW mc \in [VmId -> Machine], NEW v, NEW w, NEW a, NEW b, NEW done, ~done
    PROVE  \A u \in VmId :
              [mc EXCEPT ![v].reply = a, ![w].reply = IF done THEN b ELSE @][u].reply
                \in {mc[u].reply, a}
  BY DEF Machine

(* What process_io() tells a writer is true when it tells it. *)
LEMMA ClosedWrites ==
    ASSUME Inv2, NEW v \in VmId, finish_closed(v), NEW u \in VmId
    PROVE  machine'[u].reply = machine[u].reply \/ WriteOk(machine'[u].reply)
  <1>1. pc = "transfer" /\ v \in closed_pipes
    BY DEF finish_closed, FirstClosed
  <1>2. Waiter(v) /\ ~OtherEndOpen(v)
    BY <1>1 DEF Inv2, Inv1, Phases, ListsFresh, Waiter
  <1>3. UNCHANGED machine \/ machine' = [machine EXCEPT ![v].reply = EofReply(states[v])]
    BY DEF finish_closed, Wake
  <1>4. WriteOk(EofReply(states[v]))
    <2>1. CASE Reading(v)
      BY <2>1, OtherReplies DEF EofReply, Reading
    <2>2. CASE Writing(v)
      <3>1. states[v].pipe \in PipeId /\ pipes[states[v].pipe] = v /\ is_write(states[v].pipe)
        BY <1>2, <2>2, WaiterFacts
      <3>2. states[v].pipe < next_pipe_slot
        BY <3>1, OwnedSlots
      <3>3. EofReply(states[v]).pipe = states[v].pipe
        BY DEF EofReply, IoDone
      <3> QED BY <1>2, <3>1, <3>2, <3>3 DEF WriteOk, OtherEndOpen
    <2> QED BY <1>2, <2>1, <2>2 DEF Waiter
  <1> QED
    <2>1. CASE machine' = [machine EXCEPT ![v].reply = EofReply(states[v])]
      <3>1. machine'[u].reply \in {machine[u].reply, EofReply(states[v])}
        BY <2>1, OneReply DEF Inv2, Inv1, TypeOK
      <3> QED BY <1>4, <3>1
    <2> QED BY <1>3, <2>1

LEMMA TransferWrites ==
    ASSUME Inv2, NEW x \in pairs, transfer(x), NEW u \in VmId
    PROVE  machine'[u].reply = machine[u].reply \/ WriteOk(machine'[u].reply)
  <1> DEFINE n == x.ws.consumed + copiable(x)
             Read == IoDone("read", x.rs, copiable(x))
             Wrote == IoDone("write", x.ws, n)
  <1>1. pc = "transfer"
    BY DEF transfer
  <1>2. \/ UNCHANGED machine
        \/ machine' = [machine EXCEPT ![x.reader].reply = Read]
        \/ machine' = [machine EXCEPT ![x.reader].reply = Read,
                         ![x.writer].reply = IF n = x.ws.length THEN Wrote ELSE @]
    BY DEF transfer, Wake
  <1>3. WriteOk(Read)
    BY OtherReplies
  <1>4. n = x.ws.length => WriteOk(Wrote)
    <2>1. /\ x.ws.pipe \in PipeId /\ pipes[x.ws.pipe] = x.writer /\ x.writer \in VmId
          /\ states[x.writer] = x.ws /\ Writing(x.writer) /\ x \in Pair
      BY <1>1, PairEnds
    <2>2. is_write(x.ws.pipe)
      BY <2>1 DEF Inv2, PipeOwnership
    <2>3. x.ws.pipe < next_pipe_slot
      BY <2>1, OwnedSlots
    <2>4. Wrote.pipe = x.ws.pipe /\ Wrote.length = n /\ Wrote.asked = x.ws.length /\ n \in Nat
      BY <2>1, Copies DEF IoDone, Length
    <2> QED BY <2>1, <2>2, <2>3, <2>4 DEF WriteOk
  <1>5. machine \in [VmId -> Machine]
    BY DEF Inv2, Inv1, TypeOK
  <1> HIDE DEF Read, Wrote, n
  <1>6. CASE machine' = [machine EXCEPT ![x.reader].reply = Read]
    <2>1. machine'[u].reply \in {machine[u].reply, Read}
      BY <1>5, <1>6, OneReply
    <2> QED BY <1>3, <2>1
  <1>7. CASE /\ machine' = [machine EXCEPT ![x.reader].reply = Read,
                              ![x.writer].reply = IF n = x.ws.length THEN Wrote ELSE @]
             /\ n = x.ws.length
    <2>1. machine'[u].reply \in {machine[u].reply, Read, Wrote}
      BY <1>5, <1>7, TwoReplies
    <2> QED BY <1>3, <1>4, <1>7, <2>1
  <1>8. CASE /\ machine' = [machine EXCEPT ![x.reader].reply = Read,
                              ![x.writer].reply = IF n = x.ws.length THEN Wrote ELSE @]
             /\ n # x.ws.length
    <2>1. machine'[u].reply \in {machine[u].reply, Read}
      BY <1>5, <1>8, FirstReply
    <2> QED BY <1>3, <2>1
  <1> QED BY <1>2, <1>6, <1>7, <1>8

(* No other step tells anyone of a write that succeeded. *)
LEMMA NoOtherWrites ==
    ASSUME Inv2, [Next]_vars,
           ~ \E v \in VmId : finish_closed(v), ~ \E x \in pairs : transfer(x), NEW u \in VmId
    PROVE  machine'[u].reply = machine[u].reply \/ NotWrite(machine'[u].reply)
  <1> DEFINE m == Head(message_box)
             new == [cycles |-> LoadCycles, reply |-> NoReply]
             ok == [op |-> "spawn", code |-> SUCCESS]
  <1>0. machine \in [VmId -> Machine]
    BY DEF Inv2, Inv1, TypeOK
  <1>1. ASSUME NEW v, NEW reply, NotWrite(reply),
               machine' \in {machine, [machine EXCEPT ![v].reply = reply]}
        PROVE  machine'[u].reply = machine[u].reply \/ NotWrite(machine'[u].reply)
    <2>1. CASE machine' = [machine EXCEPT ![v].reply = reply]
      <3>1. machine'[u].reply \in {machine[u].reply, reply}
        BY <1>0, <2>1, OneReply
      <3> QED BY <1>1, <3>1
    <2> QED BY <1>1, <2>1
  <1>2. CASE UNCHANGED machine
    BY <1>2
  <1>3. CASE Guest
    <2>1. \E c : machine' = [machine EXCEPT ![self].cycles = c]
      BY <1>3, GuestSteps DEF inline, SliceEnds
    <2> QED BY <1>0, <2>1, OneCount
  <1>4. ASSUME NEW v \in VmId, pick(v) \/ wake_joiner(v)
        PROVE  machine'[u].reply = machine[u].reply \/ NotWrite(machine'[u].reply)
    <2> DEFINE j == [op |-> "join", code |-> SUCCESS, target |-> states[v].target, exit |-> result.code]
    <2>1. machine' \in {machine, [machine EXCEPT ![v].reply = NoReply],
                        [machine EXCEPT ![v].reply = j]}
      BY <1>4 DEF pick, wake_joiner, Wake
    <2>2. NotWrite(NoReply) /\ NotWrite(j)
      BY OtherReplies
    <2> HIDE DEF j
    <2> QED BY <1>1, <2>1, <2>2
  <1>5. CASE \/ join_terminated \/ join_unknown \/ pipe_create
             \/ io_not_owner \/ io_other_end_closed
    <2>1. \E reply : NotWrite(reply) /\ machine' \in {machine, [machine EXCEPT ![m.vm].reply = reply]}
      BY <1>5, OtherReplies DEF join_terminated, join_unknown, pipe_create, io_not_owner,
                  io_other_end_closed, Answer, Refuse, JoinDone
    <2> QED BY <1>1, <2>1
  <1>6. CASE spawn_done \/ \E md, l : run_boot(md, l)
    <2> DEFINE mc == [machine EXCEPT ![next_vm_id] = new]
    <2>1. UNCHANGED machine \/ machine' = mc \/ machine' = [mc EXCEPT ![m.vm].reply = ok]
      BY <1>6 DEF spawn_done, run_boot, Booted
    <2>2. new \in Machine /\ mc \in [VmId -> Machine]
      BY <1>0, StateAssumption, PlainReplies DEF Machine
    <2>3. mc[u].reply \in {machine[u].reply, NoReply}
      BY <1>0
    <2>4. NotWrite(NoReply) /\ NotWrite(ok)
      BY OtherReplies
    <2> HIDE DEF mc, ok
    <2>5. machine' = [mc EXCEPT ![m.vm].reply = ok] => machine'[u].reply \in {mc[u].reply, ok}
      BY <2>2, OneReply
    <2> QED BY <2>1, <2>3, <2>4, <2>5
  <1>7. CASE exit_root
    <2>1. machine'[u] \in {machine[u], NoMachine}
      BY <1>7 DEF exit_root
    <2> QED BY <2>1, OtherReplies DEF NoMachine
  <1>8. CASE exit_ends
    <2>1. machine' = [machine EXCEPT ![vm_id_to_run] = NoMachine]
      BY <1>8 DEF exit_ends
    <2>2. machine'[u] \in {machine[u], NoMachine}
      BY <1>0, <2>1
    <2> QED BY <2>2, OtherReplies DEF NoMachine
  <1>9. CASE \/ process_io \/ deadlock \/ spawn_refused \/ spawn_fails \/ join_waits \/ io_waits
             \/ yielded \/ stopped \/ exit_begins \/ (\E md, l : run_on(md, l))
             \/ suspend \/ resume \/ dropped
    <2>1. UNCHANGED machine
      BY <1>9 DEF process_io, deadlock, spawn_refused, spawn_fails, join_waits, io_waits, yielded,
                  stopped, exit_begins, run_on, suspend, resume, dropped, vars
    <2> QED BY <1>2, <2>1
  <1>10. UNCHANGED vars => UNCHANGED machine
    BY DEF vars
  <1> QED BY <1>2, <1>3, <1>4, <1>5, <1>6, <1>7, <1>8, <1>9, <1>10 DEF Next, iterate, host, Caller

LEMMA SlotsGrow == Inv1 /\ [Next]_vars => next_pipe_slot' \in {next_pipe_slot, next_pipe_slot + 2}
  <1> SUFFICES ASSUME Inv1, [Next]_vars PROVE next_pipe_slot' \in {next_pipe_slot, next_pipe_slot + 2}
    OBVIOUS
  <1>1. CASE Still
    BY <1>1, StillFacts
  <1>2. CASE \/ process_io \/ (\E v \in VmId : finish_closed(v) \/ wake_joiner(v))
             \/ (\E x \in pairs : transfer(x)) \/ join_waits \/ io_waits
             \/ spawn_done \/ exit_ends \/ exit_root \/ \E md, l : run_boot(md, l)
    BY <1>2 DEF process_io, finish_closed, wake_joiner, transfer, join_waits, io_waits, run_boot,
                spawn_done, exit_ends, exit_root, scheduler
  <1>3. CASE pipe_create
    BY <1>3 DEF pipe_create, create
  <1> QED BY <1>1, <1>2, <1>3 DEF Next, iterate, host, Caller, Still, vars, scheduler

LEMMA NextWrites == Inv2 /\ WritesOk /\ [Next]_vars => WritesOk'
  <1> SUFFICES ASSUME Inv2, WritesOk, [Next]_vars PROVE WritesOk' OBVIOUS
  <1>1. Moves /\ next_pipe_slot' \in {next_pipe_slot, next_pipe_slot + 2} /\ next_pipe_slot \in Nat
    BY NextInv2, SlotsGrow DEF Inv2, Inv1, TypeOK
  <1>2. ASSUME NEW p \in PipeId, is_write(p), p < next_pipe_slot
        PROVE  /\ p < next_pipe_slot'
               /\ ~contains(other_pipe(p)) => ~contains(other_pipe(p))'
    <2>1. p \in Nat /\ other_pipe(p) = p - 1
      BY <1>2, OtherEnd DEF other_pipe, is_read, is_write
    <2>2. vm_id_to_run # NoVm \/ UNCHANGED pipes
      <3>1. CASE pc \in {"machine", "messages", "joiners"}
        BY <3>1, Root DEF Inv2, Inv1, Phases, NoVm
      <3>2. CASE pc \notin {"machine", "messages", "joiners"}
        <4>1. CASE Still
          BY <4>1, StillFacts DEF Inv2
        <4>2. ~(spawn_done \/ pipe_create \/ exit_ends \/ exit_root)
          BY <3>2 DEF spawn_done, pipe_create, exit_ends, exit_root, Handling, Settling
        <4> QED
          BY <4>1, <4>2
          DEF Next, iterate, host, Caller, Still, process_io, finish_closed, wake_joiner, transfer,
              join_waits, io_waits, run_boot, scheduler, vars
      <3> QED BY <3>1, <3>2
    <2> QED BY <1>1, <1>2, <2>1, <2>2 DEF contains, Moves
  <1>3. ASSUME NEW r, WriteOk(r) PROVE WriteOk(r)'
    BY <1>2, <1>3 DEF WriteOk
  <1>4. ASSUME NEW u \in VmId PROVE WriteOk(machine'[u].reply)
    <2>1. CASE (\E v \in VmId : finish_closed(v)) \/ (\E x \in pairs : transfer(x))
      BY <2>1, ClosedWrites, TransferWrites DEF WritesOk
    <2>2. CASE ~((\E v \in VmId : finish_closed(v)) \/ (\E x \in pairs : transfer(x)))
      BY <2>2, NoOtherWrites, OtherReplies DEF WritesOk
    <2> QED BY <2>1, <2>2
  <1>5. ASSUME NEW u \in VmId PROVE WriteOk(machine[u].reply)'
    <2>1. PICK r : r = machine'[u].reply
      OBVIOUS
    <2>2. WriteOk(r)'
      BY <1>3, <1>4, <2>1
    <2> QED BY <2>1, <2>2
  <1> QED BY <1>5 DEF WritesOk

(* A write told that it wrote less than it asked for has lost its reader:  *)
(* the read end is closed then and is never opened again.                  *)
THEOREM ShortWrites == Spec => []ShortWriteMeansClosed
  <1>1. Init => WritesOk
    BY OtherReplies DEF Init, WritesOk
  <1>2. Inv2 /\ WritesOk /\ [Next]_vars => WritesOk'
    BY NextWrites
  <1>3. WritesOk => ShortWriteMeansClosed
    BY DEF WritesOk, WriteOk, ShortWriteMeansClosed
  <1> QED BY <1>1, <1>2, <1>3, Inv2Holds, PTL DEF Spec

-----------------------------------------------------------------------------
(* Empty reads *)

(* A writer that waits has bytes left, or had none from the start. *)
Pending(s) == s.tag = "WaitForWrite" => s.length = 0 \/ s.consumed < s.length

Unfinished == \A w \in VmId : Pending(states[w])

(* The steps outside process_io() wake no reader, and a write begins with  *)
(* nothing consumed.                                                       *)
LEMMA OtherStates ==
    ASSUME Inv2, [Next]_vars,
           ~ \E v \in VmId : finish_closed(v), ~ \E x \in pairs : transfer(x), NEW u \in VmId
    PROVE  \/ states'[u] = states[u]
           \/ Pending(states'[u]) /\ (Reading(u) => states'[u] # Runnable)
  <1> DEFINE m == Head(message_box)
             Fine == \/ states'[u] = states[u]
                     \/ Pending(states'[u]) /\ (Reading(u) => states'[u] # Runnable)
  <1>0. states \in [VmId -> VmState] /\ \A s \in {Absent, Runnable, Terminated} : Pending(s)
    BY StateValues DEF Inv2, Inv1, TypeOK, Pending
  <1>1. ASSUME NEW v, NEW s, states' \in {states, [states EXCEPT ![v] = s]},
               v \in VmId => states[v].tag # "WaitForRead", Pending(s)
        PROVE  Fine
    <2>1. states'[u] = states[u] \/ (u = v /\ states'[u] = s)
      BY <1>0, <1>1
    <2> QED BY <1>1, <2>1 DEF Reading
  <1>2. CASE UNCHANGED states
    BY <1>2
  <1>3. CASE Still \/ process_io \/ pipe_create \/ UNCHANGED vars
    <2>1. UNCHANGED states
      BY <1>3, StillFacts DEF Inv2, process_io, pipe_create, scheduler, vars
    <2> QED BY <2>1
  <1>4. CASE spawn_done \/ \E md, l : run_boot(md, l)
    <2>1. states' \in {states, [states EXCEPT ![next_vm_id] = Runnable]}
      BY <1>4 DEF spawn_done, run_boot, Booted
    <2>2. next_vm_id \in VmId => states[next_vm_id] = Absent
      BY Root DEF Inv2, Inv1, Ids
    <2>3. states'[u] = states[u] \/ (u = next_vm_id /\ states'[u] = Runnable)
      BY <1>0, <2>1
    <2> QED BY <1>0, <2>2, <2>3, StateValues DEF Reading
  <1>5. ASSUME NEW v \in VmId, wake_joiner(v) PROVE Fine
    <2>1. states' \in {states, [states EXCEPT ![v] = Runnable]}
      BY <1>5 DEF wake_joiner, Wake
    <2>2. states[v].tag = "Join"
      BY <1>5 DEF wake_joiner, FirstJoiner, Inv2, Inv1, Phases
    <2> HIDE DEF Fine
    <2> QED BY <1>0, <1>1, <2>1, <2>2
  <1>6. CASE exit_ends
    <2>1. states' = [states EXCEPT ![vm_id_to_run] = Absent] /\ states[vm_id_to_run] = Runnable
      BY <1>6 DEF exit_ends, Inv2, Inv1, Phases
    <2> HIDE DEF Fine
    <2> QED BY <1>0, <1>1, <2>1, StateValues
  <1>7. CASE exit_root
    <2>1. states'[u] \in {Absent, Terminated}
      BY <1>7 DEF exit_root
    <2> QED BY <1>0, <2>1, StateValues
  <1>8. CASE join_waits \/ io_waits
    <2>1. pc = "messages" /\ message_box # <<>>
      BY <1>8 DEF join_waits, io_waits, HandlingIo, Handling
    <2>2. PICK me \in VmId : m.vm = me /\ states[me] = Runnable /\ m \in Message
      BY <2>1, HandlingFacts DEF Inv2
    <2>3. CASE join_waits
      <3> DEFINE s == [tag |-> "Join", target |-> m.target, addr |-> m.addr]
      <3>1. states' = [states EXCEPT ![m.vm] = s] /\ Pending(s)
        BY <2>3 DEF join_waits, Pending
      <3> HIDE DEF s, m, Fine
      <3> QED BY <1>1, <2>2, <3>1, StateValues
    <2>4. CASE io_waits
      <3>1. m.tag \in {"PipeRead", "PipeWrite"} /\ states' = [states EXCEPT ![m.vm] = Waiting(m)]
        BY <2>4 DEF io_waits, HandlingIo, Handling
      <3>2. m.length \in Nat
        BY <2>2, <3>1 DEF Message, SpawnMessage, JoinMessage, PipeMessage, IoMessage, Length
      <3>3. Pending(Waiting(m))
        BY <3>1, <3>2 DEF Pending, Waiting
      <3> HIDE DEF m, Fine
      <3> QED BY <1>1, <2>2, <3>1, <3>3, StateValues
    <2> QED BY <1>8, <2>3, <2>4
  <1> QED
    BY <1>3, <1>4, <1>5, <1>6, <1>7, <1>8 DEF Next, iterate, host, Caller, Still

(* What a transfer does to the two VMs, and to no other. *)
LEMMA TransferStates ==
    ASSUME Inv2, NEW x \in pairs, transfer(x)
    PROVE  /\ \A u \in VmId : u \notin {x.reader, x.writer} => states'[u] = states[u]
           /\ \/ /\ states'[x.reader] = Runnable
                 /\ states'[x.writer] = Written(x, x.ws.consumed + copiable(x))
              \/ ~Usable' /\ states'[x.writer] = x.ws
           /\ states'[x.reader] = Runnable => machine'[x.reader].reply = IoDone("read", x.rs, copiable(x))
  <1> DEFINE n == x.ws.consumed + copiable(x)
             Read == IoDone("read", x.rs, copiable(x))
             Wrote == IoDone("write", x.ws, n)
  <1>1. /\ x.reader \in VmId /\ x.writer \in VmId /\ x.reader # x.writer
        /\ states[x.reader] = x.rs /\ states[x.writer] = x.ws /\ x.rs # Runnable
    BY PairEnds, StateValues DEF transfer, Reading
  <1>2. states \in [VmId -> VmState] /\ machine \in [VmId -> Machine]
    BY DEF Inv2, Inv1, TypeOK
  <1>3. CASE /\ states' = [states EXCEPT ![x.reader] = Runnable, ![x.writer] = Written(x, n)]
             /\ machine' = [machine EXCEPT ![x.reader].reply = Read,
                              ![x.writer].reply = IF n = x.ws.length THEN Wrote ELSE @]
    <2> HIDE DEF Read, Wrote, n
    <2>1. machine'[x.reader].reply = Read
      BY <1>1, <1>2, <1>3 DEF Machine
    <2> QED BY <1>1, <1>2, <1>3, <2>1 DEF n, Read
  <1>4. CASE /\ states' = [states EXCEPT ![x.reader] = Runnable]
             /\ machine' = [machine EXCEPT ![x.reader].reply = Read]
             /\ outcome' = "Error"
    <2> HIDE DEF Read
    <2>1. machine'[x.reader].reply = Read
      BY <1>1, <1>2, <1>4 DEF Machine
    <2> QED BY <1>1, <1>2, <1>4, <2>1 DEF Read, Usable, Resumable
  <1>5. CASE UNCHANGED states /\ outcome' = "Error"
    BY <1>1, <1>5 DEF Usable, Resumable
  <1> QED BY <1>3, <1>4, <1>5 DEF transfer, Wake, WriterFails, Return

(* What finish_closed() does: it wakes one VM, whose other end is closed. *)
LEMMA ClosedStates ==
    ASSUME Inv2, NEW v \in VmId, finish_closed(v), NEW u \in VmId
    PROVE  states'[u] = states[u] \/ (states'[u] = Runnable /\ ~OtherEndOpen(u))
  <1>1. pc = "transfer" /\ v \in closed_pipes
    BY DEF finish_closed, FirstClosed
  <1>2. ~OtherEndOpen(v) /\ states \in [VmId -> VmState]
    BY <1>1 DEF Inv2, Inv1, TypeOK, ListsFresh
  <1>3. states' \in {states, [states EXCEPT ![v] = Runnable]}
    BY DEF finish_closed, Wake
  <1> QED BY <1>2, <1>3

LEMMA NextUnfinished == Inv2 /\ Unfinished /\ [Next]_vars => Unfinished'
  <1> SUFFICES ASSUME Inv2, Unfinished, [Next]_vars, NEW u \in VmId PROVE Pending(states'[u])
    BY DEF Unfinished, Pending
  <1>0. Pending(Runnable)
    BY StateValues DEF Pending
  <1>1. ASSUME NEW v \in VmId, finish_closed(v) PROVE Pending(states'[u])
    BY <1>0, <1>1, ClosedStates DEF Unfinished
  <1>2. ASSUME NEW x \in pairs, transfer(x) PROVE Pending(states'[u])
    <2> DEFINE n == x.ws.consumed + copiable(x)
    <2>1. x \in Pair /\ states[x.writer] = x.ws /\ x.writer \in VmId /\ x.reader \in VmId
      BY <1>2, PairEnds DEF transfer
    <2>2. Pending(Written(x, n))
      <3>1. CASE n = x.ws.length
        BY <1>0, <3>1 DEF Written
      <3>2. CASE n # x.ws.length
        <4>1. n \in Nat /\ n <= x.ws.length /\ x.ws \in WriteState /\ x.ws.length \in Nat
          BY <2>1, Copies DEF Pair, WriteState, Length
        <4>2. Written(x, n).length = x.ws.length /\ Written(x, n).consumed = n
          BY <3>2, <4>1 DEF Written, WriteState
        <4> HIDE DEF n
        <4> QED BY <3>2, <4>1, <4>2 DEF Pending
      <3> QED BY <3>1, <3>2
    <2>3. \/ states'[u] \in {states[u], Runnable, Written(x, n), x.ws}
      <3>1. CASE u = x.reader
        BY <1>2, <2>1, <3>1 DEF transfer, Wake, Inv2, Inv1, TypeOK
      <3>2. CASE u # x.reader
        BY <1>2, <2>1, <3>2, TransferStates
      <3> QED BY <3>1, <3>2
    <2> QED BY <1>0, <2>1, <2>2, <2>3 DEF Unfinished
  <1>3. CASE ~((\E v \in VmId : finish_closed(v)) \/ (\E x \in pairs : transfer(x)))
    BY <1>3, OtherStates DEF Unfinished
  <1> QED BY <1>1, <1>2, <1>3

(* A read that asked for bytes returns none only at the end of the pipe,   *)
(* or with a write of none that ends with it, for any lengths: a write     *)
(* whose bytes have all been read has returned.                            *)
THEOREM EmptyReads == Spec => EmptyReadExplained
  <1> DEFINE Explained ==
        \A v \in VmId :
          Reading(v) /\ states[v].length > 0 /\ states'[v] = Runnable
                     /\ machine'[v].reply.length = 0 =>
              LET q == other_pipe(states[v].pipe)
              IN  \/ ~contains(q)
                  \/ \E w \in VmId : /\ Writing(w) /\ states[w].pipe = q /\ states[w].length = 0
                                     /\ states'[w] = Runnable \/ ~Usable'
  <1>1. Init => Unfinished
    BY StateValues DEF Init, Unfinished, Pending
  <1>2. Inv2 /\ Unfinished /\ [Next]_vars => Unfinished'
    BY NextUnfinished
  <1>3. Inv2 /\ Unfinished /\ [Next]_vars => Explained
    <2> SUFFICES ASSUME Inv2, Unfinished, [Next]_vars, NEW v \in VmId, Reading(v),
                        states[v].length > 0, states'[v] = Runnable,
                        machine'[v].reply.length = 0, contains(other_pipe(states[v].pipe))
                 PROVE  \E w \in VmId : /\ Writing(w) /\ states[w].pipe = other_pipe(states[v].pipe)
                                        /\ states[w].length = 0
                                        /\ states'[w] = Runnable \/ ~Usable'
      OBVIOUS
    <2>1. states[v] # Runnable
      BY StateValues DEF Reading
    <2>2. ~ \E u \in VmId : finish_closed(u)
      BY <2>1, ClosedStates DEF OtherEndOpen
    <2>3. PICK x \in pairs : transfer(x)
      BY <2>1, <2>2, OtherStates
    <2>4. /\ x.reader \in VmId /\ x.writer \in VmId /\ x \in Pair /\ Writing(x.writer)
          /\ states[x.reader] = x.rs /\ states[x.writer] = x.ws
          /\ x.rs.pipe = other_pipe(x.ws.pipe) /\ x.ws.pipe \in PipeId
      BY <2>3, PairEnds DEF transfer, Inv2, ListsFresh
    <2>5. v = x.reader
      <3>1. v # x.writer
        BY <2>4 DEF Reading, Writing
      <3> QED BY <2>1, <2>3, <3>1, TransferStates
    <2>6. machine'[v].reply = IoDone("read", x.rs, copiable(x))
      BY <2>3, <2>5, TransferStates
    <2>7. copiable(x) = 0 /\ x.rs.length > 0
      BY <2>4, <2>5, <2>6 DEF IoDone
    <2>8. x.ws.length = x.ws.consumed
      BY <2>4, <2>7 DEF copiable, Pair, ReadState, WriteState, Length
    <2>9. x.ws.length = 0
      BY <2>4, <2>8 DEF Unfinished, Pending, Writing, Pair, WriteState, Length
    <2>10. states'[x.writer] = Runnable \/ ~Usable'
      <3>1. x.ws.consumed + copiable(x) = x.ws.length
        BY <2>7, <2>8, <2>9
      <3> QED BY <2>3, <3>1, TransferStates DEF Written
    <2>11. x.ws.pipe = other_pipe(states[v].pipe)
      BY <2>4, <2>5, OtherEnd
    <2> QED BY <2>4, <2>9, <2>10, <2>11
  <1>4. [Explained]_vars <=> Explained \/ UNCHANGED vars
    OBVIOUS
  <1> HIDE DEF Explained
  <1>5. Inv2 /\ Unfinished /\ [Next]_vars => [Explained]_vars
    BY <1>3
  <1>6. Spec => [][Explained]_vars
    BY <1>1, <1>2, <1>5, Inv2Holds, PTL DEF Spec
  <1> QED BY <1>6 DEF EmptyReadExplained, Explained

-----------------------------------------------------------------------------
(* Deadlock *)

(* Only the root VM is ever left as Terminated, and then run() is over. *)
RootDone ==
    \A v \in VmId : states[v] = Terminated =>
        v = ROOT_VM_ID /\ pc \in {"idle", "stored", "panicked"} /\ Usable

(* A step of iterate() that does not end the root VM leaves no VM as       *)
(* Terminated that was not before.                                         *)
LEMMA NoneTerminates ==
    ASSUME Inv2, iterate, ~exit_root, NEW v \in VmId, states'[v] = Terminated
    PROVE  states[v] = Terminated
  <1> DEFINE m == Head(message_box)
  <1>1. CASE Still
    BY <1>1, StillFacts DEF Inv2
  <1>2. CASE process_io \/ pipe_create
    BY <1>2 DEF process_io, pipe_create, scheduler
  <1>3. CASE \/ (\E u \in VmId : finish_closed(u) \/ wake_joiner(u)) \/ spawn_done \/ exit_ends
    <2>1. \E u : states' \in {states, [states EXCEPT ![u] = Runnable], [states EXCEPT ![u] = Absent]}
      BY <1>3 DEF finish_closed, wake_joiner, Wake, spawn_done, exit_ends
    <2>2. states'[v] \in {states[v], Runnable, Absent}
      BY <2>1 DEF Inv2, Inv1, TypeOK
    <2> QED BY <2>2, StateValues
  <1>4. ASSUME NEW x \in pairs, transfer(x) PROVE states[v] = Terminated
    <2> DEFINE w == Written(x, x.ws.consumed + copiable(x))
    <2>1. states' \in {states, [states EXCEPT ![x.reader] = Runnable],
                       [states EXCEPT ![x.reader] = Runnable, ![x.writer] = w]}
      BY <1>4 DEF transfer, Wake
    <2>2. w # Terminated
      <3>1. x \in Pair
        BY DEF Inv2, Inv1, TypeOK
      <3> QED BY <3>1, Copies, StateValues DEF WriteState
    <2> HIDE DEF w
    <2>3. states'[v] \in {states[v], Runnable, w}
      BY <2>1 DEF Inv2, Inv1, TypeOK
    <2> QED BY <2>2, <2>3, StateValues
  <1>5. CASE join_waits \/ io_waits
    <2> DEFINE s == [tag |-> "Join", target |-> m.target, addr |-> m.addr]
    <2>1. states' \in {[states EXCEPT ![m.vm] = s], [states EXCEPT ![m.vm] = Waiting(m)]}
      BY <1>5 DEF join_waits, io_waits
    <2>2. s # Terminated /\ Waiting(m) # Terminated
      BY StateValues DEF Waiting
    <2> HIDE DEF s, m
    <2>3. states'[v] \in {states[v], s, Waiting(m)}
      BY <2>1 DEF Inv2, Inv1, TypeOK
    <2> QED BY <2>2, <2>3
  <1> QED BY <1>1, <1>2, <1>3, <1>4, <1>5 DEF iterate, host, Still

LEMMA IterateRuns == iterate => pc \in {"process_io", "transfer", "machine", "messages", "joiners"}
  BY GuestSteps
  DEF iterate, host, process_io, finish_closed, pick, wake_joiner, transfer, deadlock, IoFinished,
      spawn_refused, spawn_fails, spawn_done, join_terminated, join_unknown, join_waits,
      pipe_create, io_not_owner, io_other_end_closed, io_waits, HandlingIo, Handling,
      yielded, stopped, exit_root, exit_begins, exit_ends, Settling

LEMMA NextRootDone == Inv2 /\ RootDone /\ [Next]_vars => RootDone'
  <1> SUFFICES ASSUME Inv2, RootDone, [Next]_vars PROVE RootDone' OBVIOUS
  <1>1. CASE exit_root
    <2>1. /\ pc' = "idle" /\ outcome' = "Ok"
          /\ states' = [v \in VmId |-> IF v = ROOT_VM_ID THEN Terminated ELSE Absent]
      BY <1>1 DEF exit_root, Return
    <2>2. \A v \in VmId : states'[v] = Terminated => v = ROOT_VM_ID
      BY <2>1, StateValues
    <2> QED BY <2>1, <2>2 DEF RootDone, Usable, Resumable
  <1>2. CASE iterate /\ ~exit_root
    BY <1>2, NoneTerminates, IterateRuns DEF RootDone
  <1>3. CASE UNCHANGED vars \/ dropped
    BY <1>3 DEF dropped, vars, scheduler, RootDone, Usable
  <1>4. CASE suspend \/ resume
    BY <1>4 DEF suspend, resume, Goto, scheduler, RootDone, Usable
  <1>5. CASE \E md, l : run_on(md, l)
    BY <1>5, Root DEF run_on, Called, Return, Goto, scheduler, RootDone, Usable, Resumable
  <1>6. CASE \E md, l : run_boot(md, l)
    <2>1. states' = states \/ states' = [states EXCEPT ![next_vm_id] = Runnable]
      BY <1>6 DEF run_boot, Booted
    <2>2. \A v \in VmId : states[v] = Absent
      BY <1>6 DEF run_boot, Live
    <2>3. \A v \in VmId : states'[v] # Terminated
      BY <2>1, <2>2, StateValues DEF Inv2, Inv1, TypeOK
    <2> QED BY <2>3 DEF RootDone
  <1> QED BY <1>1, <1>2, <1>3, <1>4, <1>5, <1>6 DEF Next, Caller

(* At the end of a pass of process_io() with nobody to run, every VM waits *)
(* for another that waits.                                                 *)
LEMMA StuckForEver ==
    ASSUME Inv2, Inv3, IoInv, RootDone, deadlock
    PROVE  DeadlockIsReal'
  <1>1. /\ pc = "transfer" /\ closed_pipes = {} /\ pairs = {}
        /\ UNCHANGED <<states, pipes>> /\ \A v \in VmId : states[v] # Runnable
    BY DEF deadlock, IoFinished, scheduler
  <1>2. Usable /\ ListsComplete
    BY <1>1, InRun DEF Inv2, IoInv
  <1>3. AllOpen /\ NoMeeting
    BY <1>1, <1>2, MeetingFacts DEF ListsComplete, AllOpen, NoMeeting
  <1>4. ASSUME NEW v \in VmId, states[v] # Absent
        PROVE  \/ states[v].tag = "Join" /\ states[states[v].target] # Absent
               \/ /\ Reading(v) \/ Writing(v)
                  /\ LET q == other_pipe(states[v].pipe)
                     IN  /\ contains(q)
                         /\ ~ \E u \in VmId : (Reading(u) \/ Writing(u)) /\ states[u].pipe = q
    <2>1. states[v] # Terminated /\ states[v] # Runnable
      BY <1>1 DEF RootDone
    <2>2. states[v].tag = "Join" \/ Waiter(v)
      BY <1>4, <2>1 DEF Inv2, Inv1, TypeOK, VmState, JoinState, ReadState, WriteState, Waiter,
                        Reading, Writing
    <2>3. CASE states[v].tag = "Join"
      BY <1>1, <1>2, <2>3 DEF Inv3, JoinTargetLive, Live
    <2>4. CASE Waiter(v)
      BY <1>3, <2>4 DEF AllOpen, OtherEndOpen, NoMeeting, Meeting, Waiter
    <2> QED BY <2>2, <2>3, <2>4
  <1> QED BY <1>1, <1>4 DEF DeadlockIsReal, Live, Reading, Writing, contains

(* Nothing else makes run() return Deadlock. *)
LEMMA OnlyDeadlock ==
    ASSUME Inv1, [Next]_vars, Usable, ~deadlock
    PROVE  outcome' # "Deadlock"
  <1>0. outcome # "Deadlock"
    BY DEF Usable, Resumable
  <1>1. CASE Guest
    BY <1>0, <1>1, GuestSteps DEF inline, SliceEnds
  <1>2. CASE UNCHANGED vars \/ dropped
    BY <1>0, <1>2 DEF vars, dropped
  <1>3. CASE suspend \/ resume \/ \E md, l : run_boot(md, l) \/ run_on(md, l)
    BY <1>0, <1>3 DEF suspend, resume, run_boot, run_on, Return, Goto
  <1>4. CASE \/ process_io \/ (\E v \in VmId : finish_closed(v) \/ pick(v) \/ wake_joiner(v))
             \/ (\E x \in pairs : transfer(x))
    <2>1. outcome' \in {outcome, "Error"}
      <3>1. CASE process_io \/ (\E v \in VmId : finish_closed(v) \/ pick(v))
        BY <3>1 DEF process_io, finish_closed, pick, Return, Goto
      <3>2. CASE \E v \in VmId : wake_joiner(v)
        BY <3>2 DEF wake_joiner, Return, Goto
      <3>3. CASE \E x \in pairs : transfer(x)
        BY <3>3 DEF transfer, Return, WriterFails, Goto
      <3> QED BY <1>4, <3>1, <3>2, <3>3
    <2> QED BY <1>0, <2>1
  <1>5. CASE \/ spawn_refused \/ spawn_fails \/ spawn_done \/ join_terminated \/ join_unknown
             \/ join_waits \/ pipe_create \/ io_not_owner \/ io_other_end_closed \/ io_waits
    BY <1>0, <1>5
    DEF spawn_refused, spawn_fails, spawn_done, join_terminated, join_unknown, join_waits,
        pipe_create, io_not_owner, io_other_end_closed, io_waits, Answer, Refuse, Dropped,
        Return, Goto
  <1>6. CASE yielded \/ stopped \/ exit_root \/ exit_begins \/ exit_ends
    BY <1>0, <1>6
    DEF yielded, stopped, exit_root, exit_begins, exit_ends, NextIteration, Settling, Return, Goto
  <1> QED BY <1>1, <1>2, <1>3, <1>4, <1>5, <1>6 DEF Next, iterate, host, Caller

(* A deadlock that run() reports is one: every VM waits for a VM that      *)
(* waits, and will for ever, whatever the programs are.                    *)
THEOREM RealDeadlocks == Spec => []DeadlockIsReal
  <1>1. Init => RootDone /\ DeadlockIsReal
    BY StateValues DEF Init, RootDone, DeadlockIsReal
  <1>2. Inv2 /\ RootDone /\ [Next]_vars => RootDone'
    BY NextRootDone
  <1>3. Inv2 /\ Inv3 /\ IoInv /\ RootDone /\ DeadlockIsReal /\ [Next]_vars => DeadlockIsReal'
    <2> SUFFICES ASSUME Inv2, Inv3, IoInv, RootDone, DeadlockIsReal, [Next]_vars
                 PROVE  DeadlockIsReal'
      OBVIOUS
    <2>1. CASE deadlock
      BY <2>1, StuckForEver
    <2>2. CASE Usable /\ ~deadlock
      BY <2>2, OnlyDeadlock DEF Inv2, DeadlockIsReal
    <2>3. CASE ~Usable
      <3>1. UNCHANGED <<outcome, states, pipes>>
        BY <2>3, FailedStays DEF Inv2, vars, scheduler
      <3> QED BY <3>1 DEF DeadlockIsReal, Live, Reading, Writing, contains
    <2> QED BY <2>1, <2>2, <2>3
  <1> QED BY <1>1, <1>2, <1>3, Inv2Holds, Inv3Holds, IoInvHolds, PTL DEF Spec

-----------------------------------------------------------------------------
(***************************************************************************)
(* The caller's view, proved for any number of VMs and any limits: cycles  *)
(* are charged to the VM that runs next, a limit is kept to within one     *)
(* charge, and a preempted VM is the one that goes on.                     *)
(***************************************************************************)

Owed(v) == machine[v].cycles > 0

(* The slice has been charged, and no VM was spawned since. *)
SliceOver ==
    \/ pc = "joiners"
    \/ pc = "messages" /\ (message_box # <<>> \/ result.tag # "YIELD")

(* Who may have cycles that are not in total_cycles yet: the VM that is    *)
(* running, and otherwise the VM that was spawned last and has not run.    *)
Charged ==
    Usable =>
        /\ pc = "machine" => /\ ToRun(vm_id_to_run)
                             /\ \A v \in VmId : Owed(v) => v = vm_id_to_run
        /\ pc # "machine" => \A v \in VmId : Owed(v) =>
              machine[v].cycles = LoadCycles /\ v = next_vm_id - 1 /\ states[v] = Runnable
        /\ SliceOver => \A v \in VmId : ~Owed(v)

Unchecked == Charges \cup {LoadCycles}

(* Where each point of a call with a limit is with respect to its budget. *)
Within ==
    mode = "LimitCycles" =>
        /\ \E c \in Unchecked : total_cycles <= budget + c
        /\ pc \in {"process_io", "transfer", "machine"} => total_cycles + limit_cycles <= budget
        /\ pc = "machine" =>
              \E c \in Unchecked : machine[vm_id_to_run].cycles <= limit_cycles + c
        /\ pc = "joiners" \/ (pc = "messages" /\ result.tag \in {"YIELD", "Ok"}) =>
              total_cycles <= budget

Preempted == result.tag \in {"CyclesExceeded", "Pause"}

(* Between a preemption and the next slice nothing can happen: the VM that *)
(* was preempted is the one to run, and process_io() finds nothing to do.  *)
OnHold ==
    Preempted /\ Usable =>
        /\ vm_id_to_run \in VmId /\ ToRun(vm_id_to_run)
        /\ Served
        /\ pc = "transfer" => closed_pipes = {} /\ pairs = {}

-----------------------------------------------------------------------------
(* What steps do to the cycles a machine has counted *)

LEMMA ReplyCycles ==
    ASSUME NEW mc \in [VmId -> Machine], NEW v, NEW reply
    PROVE  \A u \in VmId : [mc EXCEPT ![v].reply = reply][u].cycles = mc[u].cycles
  BY DEF Machine

LEMMA CountCycles ==
    ASSUME NEW mc \in [VmId -> Machine], NEW v \in VmId, NEW c
    PROVE  /\ [mc EXCEPT ![v].cycles = c][v].cycles = c
           /\ \A u \in VmId : u # v => [mc EXCEPT ![v].cycles = c][u] = mc[u]
  BY DEF Machine

CyclesSame == \A u \in VmId : machine'[u].cycles = machine[u].cycles

(* Storing replies moves no cycles. *)
LEMMA SameCycles ==
    ASSUME Inv1,
           \/ process_io \/ (\E v \in VmId : finish_closed(v) \/ pick(v) \/ wake_joiner(v))
           \/ (\E x \in pairs : transfer(x)) \/ deadlock
           \/ spawn_refused \/ spawn_fails \/ join_terminated \/ join_unknown \/ join_waits
           \/ pipe_create \/ io_not_owner \/ io_other_end_closed \/ io_waits
           \/ yielded \/ stopped \/ exit_begins \/ (\E md, l : run_on(md, l)) \/ suspend \/ resume
    PROVE  CyclesSame
  <1>0. machine \in [VmId -> Machine]
    BY DEF Inv1, TypeOK
  <1>1. CASE \E v, reply : machine' \in {machine, [machine EXCEPT ![v].reply = reply]}
    <2>1. PICK v, reply : machine' = machine \/ machine' = [machine EXCEPT ![v].reply = reply]
      BY <1>1
    <2>2. CASE machine' = [machine EXCEPT ![v].reply = reply]
      BY <1>0, <2>2, ReplyCycles DEF CyclesSame
    <2> QED BY <2>1, <2>2 DEF CyclesSame
  <1>2. CASE \/ process_io \/ deadlock \/ spawn_refused \/ spawn_fails \/ join_waits \/ io_waits
             \/ yielded \/ stopped \/ exit_begins \/ (\E md, l : run_on(md, l)) \/ suspend \/ resume
    <2>1. UNCHANGED machine
      BY <1>2 DEF process_io, deadlock, spawn_refused, spawn_fails, join_waits, io_waits, yielded,
                  stopped, exit_begins, run_on, suspend, resume
    <2> QED BY <1>1, <2>1
  <1>3. CASE \E v \in VmId : finish_closed(v) \/ pick(v) \/ wake_joiner(v)
    <2>1. \E v, reply : machine' \in {machine, [machine EXCEPT ![v].reply = reply]}
      BY <1>3 DEF finish_closed, pick, wake_joiner, Wake
    <2> QED BY <1>1, <2>1
  <1>4. CASE \/ join_terminated \/ join_unknown \/ pipe_create
             \/ io_not_owner \/ io_other_end_closed
    <2>1. \E v, reply : machine' \in {machine, [machine EXCEPT ![v].reply = reply]}
      BY <1>4 DEF join_terminated, join_unknown, pipe_create, io_not_owner, io_other_end_closed,
                  Answer, Refuse
    <2> QED BY <1>1, <2>1
  <1>5. ASSUME NEW x \in pairs, transfer(x) PROVE CyclesSame
    <2> DEFINE Read == IoDone("read", x.rs, copiable(x))
               n == x.ws.consumed + copiable(x)
               Wrote == IoDone("write", x.ws, n)
               all == n = x.ws.length
    <2>1. \/ machine' \in {machine, [machine EXCEPT ![x.reader].reply = Read]}
          \/ machine' = [machine EXCEPT ![x.reader].reply = Read,
                           ![x.writer].reply = IF all THEN Wrote ELSE @]
      BY <1>5 DEF transfer, Wake
    <2> HIDE DEF Read, Wrote, all
    <2>2. CASE machine' = [machine EXCEPT ![x.reader].reply = Read,
                             ![x.writer].reply = IF all THEN Wrote ELSE @]
      <3>1. \A u \in VmId : [machine EXCEPT ![x.reader].reply = Read,
                               ![x.writer].reply = IF all THEN Wrote ELSE @][u].cycles
                                 = machine[u].cycles
        BY <1>0 DEF Machine
      <3> QED BY <2>2, <3>1 DEF CyclesSame
    <2> QED BY <1>1, <2>1, <2>2
  <1> QED BY <1>2, <1>3, <1>4, <1>5

(* The steps of a guest. *)
LEMMA GuestCycles ==
    ASSUME Inv1, Guest
    PROVE  /\ vm_id_to_run \in VmId /\ UNCHANGED <<states, pipes, next_vm_id, vm_id_to_run>>
           /\ \A u \in VmId : u # vm_id_to_run => machine'[u].cycles = machine[u].cycles
           /\ pc' # "machine" => machine'[vm_id_to_run].cycles = 0
  <1>1. pc = "machine" /\ vm_id_to_run \in VmId /\ machine \in [VmId -> Machine]
    BY GuestSteps DEF Inv1, Phases, TypeOK
  <1>2. UNCHANGED <<states, pipes, next_vm_id, vm_id_to_run>>
    BY GuestSteps DEF inline, Sliced, scheduler, locals
  <1>3. \E c : /\ machine' = [machine EXCEPT ![vm_id_to_run].cycles = c]
               /\ pc' # "machine" => c = 0
    BY <1>1, GuestSteps DEF inline, SliceEnds, self
  <1> QED BY <1>1, <1>2, <1>3, CountCycles

-----------------------------------------------------------------------------
(* Cycles are on the VM that runs next *)

LEMMA AllPaid ==
    ASSUME (\A v \in VmId : ~Owed(v))', pc' # "machine"
    PROVE  Charged'
  BY DEF Charged

LEMMA PaidStays ==
    ASSUME CyclesSame, \A v \in VmId : ~Owed(v)
    PROVE  (\A v \in VmId : ~Owed(v))'
  BY DEF CyclesSame, Owed

(* Steps outside the slice that stop no VM from running. *)
LEMMA KeptCharged ==
    ASSUME Charged, Usable, CyclesSame, pc # "machine", pc' # "machine", ~SliceOver',
           UNCHANGED next_vm_id,
           \A v \in VmId : states[v] = Runnable => states'[v] = Runnable
    PROVE  Charged'
  BY DEF Charged, CyclesSame, Owed

LEMMA PickCharged ==
    ASSUME Inv1, Charged, NEW v \in VmId, pick(v)
    PROVE  Charged'
  <1>1. /\ pc = "transfer" /\ pc' = "machine" /\ ToRun(v) /\ vm_id_to_run' = v
        /\ UNCHANGED <<states, next_vm_id>>
    BY DEF pick, IoFinished, Goto
  <1>2. CyclesSame /\ Usable
    BY <1>1, SameCycles, InRun
  <1>3. ASSUME NEW u \in VmId, Owed(u) PROVE u = v
    <2>1. u = next_vm_id - 1 /\ states[u] = Runnable
      BY <1>1, <1>2, <1>3 DEF Charged
    <2>2. u <= v /\ states[v] = Runnable
      BY <1>1, <2>1 DEF ToRun
    <2>3. v < next_vm_id
      BY <2>2, StateValues, Root DEF Inv1, Ids, TypeOK
    <2> QED BY <2>1, <2>2, <2>3, Root DEF Inv1, TypeOK
  <1>4. ToRun(vm_id_to_run)'
    BY <1>1 DEF ToRun
  <1> QED BY <1>1, <1>2, <1>3, <1>4 DEF Charged, CyclesSame, Owed, SliceOver

LEMMA GuestCharged ==
    ASSUME Inv1, Charged, Guest
    PROVE  Charged'
  <1>1. /\ pc = "machine" /\ Usable /\ ToRun(vm_id_to_run)
        /\ \A v \in VmId : Owed(v) => v = vm_id_to_run
    BY GuestSteps, InRun DEF Charged
  <1>2. CASE pc' = "machine"
    BY <1>1, <1>2, GuestCycles DEF Charged, ToRun, Owed, SliceOver
  <1>3. CASE pc' # "machine"
    <2>1. (\A v \in VmId : ~Owed(v))'
      <3>1. \A v \in VmId : machine'[v].cycles = 0 \/ machine'[v].cycles = machine[v].cycles
        BY <1>3, GuestCycles
      <3> QED BY <1>1, <1>3, <3>1, GuestCycles DEF Owed
    <2> QED BY <1>3, <2>1, AllPaid
  <1> QED BY <1>2, <1>3

LEMMA IoCharged ==
    ASSUME Inv2, Charged,
           process_io \/ (\E v \in VmId : finish_closed(v)) \/ (\E x \in pairs : transfer(x))
    PROVE  Charged'
  <1>1. /\ pc \in {"process_io", "transfer"} /\ pc' \in {"transfer", "idle", "panicked"}
        /\ UNCHANGED next_vm_id
    BY DEF process_io, finish_closed, transfer, Return, WriterFails, Goto, scheduler
  <1>2. CyclesSame /\ Usable
    BY <1>1, SameCycles, InRun DEF Inv2
  <1>3. \A v \in VmId : states[v] = Runnable => states'[v] = Runnable
    <2>1. CASE process_io
      BY <2>1 DEF process_io, scheduler
    <2>2. ASSUME NEW v \in VmId, finish_closed(v)
          PROVE  \A u \in VmId : states[u] = Runnable => states'[u] = Runnable
      BY <2>2 DEF finish_closed, Wake, Inv2, Inv1, TypeOK
    <2>3. ASSUME NEW x \in pairs, transfer(x)
          PROVE  \A u \in VmId : states[u] = Runnable => states'[u] = Runnable
      <3> DEFINE w == Written(x, x.ws.consumed + copiable(x))
      <3>1. states' \in {states, [states EXCEPT ![x.reader] = Runnable],
                         [states EXCEPT ![x.reader] = Runnable, ![x.writer] = w]}
        BY <2>3 DEF transfer, Wake
      <3>2. x.writer \in VmId /\ states[x.writer] # Runnable
        BY <2>3, PairEnds, StateValues DEF transfer, Writing
      <3> HIDE DEF w
      <3> QED BY <3>1, <3>2 DEF Inv2, Inv1, TypeOK
    <2> QED BY <2>1, <2>2, <2>3
  <1>4. ~SliceOver'
    BY <1>1 DEF SliceOver
  <1> QED BY <1>1, <1>2, <1>3, <1>4, KeptCharged

LEMMA HandlerCharged ==
    ASSUME Inv2, Charged,
           \/ spawn_refused \/ spawn_fails \/ join_terminated \/ join_unknown \/ join_waits
           \/ pipe_create \/ io_not_owner \/ io_other_end_closed \/ io_waits
    PROVE  Charged'
  <1>1. pc = "messages" /\ message_box # <<>> /\ pc' # "machine"
    BY DEF spawn_refused, spawn_fails, join_terminated, join_unknown, join_waits, pipe_create,
           io_not_owner, io_other_end_closed, io_waits, HandlingIo, Handling, Answer, Refuse,
           Dropped, Return, Goto
  <1>2. \A v \in VmId : ~Owed(v)
    BY <1>1, InRun DEF Inv2, Charged, SliceOver
  <1>3. CyclesSame
    BY SameCycles DEF Inv2
  <1> QED BY <1>1, <1>2, <1>3, PaidStays, AllPaid

(* A VM that has just been loaded: it alone has cycles to pay. *)
LEMMA NewCharged ==
    ASSUME Inv1, \A v \in VmId : ~Owed(v), NEW w,
           \A u \in VmId : u # w => machine'[u].cycles = machine[u].cycles,
           w \in VmId => machine'[w].cycles = LoadCycles /\ states'[w] = Runnable,
           w = next_vm_id, next_vm_id' = w + 1, pc' # "machine", ~SliceOver'
    PROVE  Charged'
  <1>1. \A v \in VmId : Owed(v)' => v = w
    BY DEF Owed
  <1>2. w \in VmId => w = next_vm_id' - 1
    BY Root DEF Inv1, TypeOK
  <1> QED BY <1>1, <1>2 DEF Charged, Owed

LEMMA SpawnCharged ==
    ASSUME Inv2, Charged, spawn_done
    PROVE  Charged'
  <1> DEFINE m == Head(message_box)
             new == [cycles |-> LoadCycles, reply |-> NoReply]
             mc == [machine EXCEPT ![next_vm_id] = new]
             ok == [op |-> "spawn", code |-> SUCCESS]
  <1>1. /\ pc = "messages" /\ message_box # <<>> /\ m.tag = "Spawn"
        /\ next_vm_id' = next_vm_id + 1 /\ states' = [states EXCEPT ![next_vm_id] = Runnable]
        /\ machine' = mc \/ machine' = [mc EXCEPT ![m.vm].reply = ok]
        /\ pc' = "idle" \/ (pc' = "messages" /\ message_box' = Tail(message_box) /\ result' = result)
    BY DEF spawn_done, Handling, Handled, Dropped, Return, Goto, locals
  <1>2. \A v \in VmId : ~Owed(v)
    BY <1>1, InRun DEF Inv2, Charged, SliceOver
  <1>3. ~SliceOver' /\ pc' # "machine"
    BY <1>1, HandlingFacts DEF Inv2, SliceOver
  <1>4. new \in Machine /\ mc \in [VmId -> Machine]
    BY StateAssumption, PlainReplies DEF Machine, Inv2, Inv1, TypeOK
  <1>5. /\ \A u \in VmId : u # next_vm_id => mc[u] = machine[u]
        /\ next_vm_id \in VmId => mc[next_vm_id].cycles = LoadCycles
    BY DEF Inv2, Inv1, TypeOK
  <1> HIDE DEF mc, ok, m
  <1>6. \A u \in VmId : machine'[u].cycles = mc[u].cycles
    <2>1. CASE machine' = [mc EXCEPT ![m.vm].reply = ok]
      BY <1>4, <2>1, ReplyCycles
    <2> QED BY <1>1, <2>1
  <1>7. next_vm_id \in VmId => states'[next_vm_id] = Runnable
    BY <1>1 DEF Inv2, Inv1, TypeOK
  <1>8. PICK w : w = next_vm_id
    OBVIOUS
  <1> QED BY <1>1, <1>2, <1>3, <1>5, <1>6, <1>7, <1>8, NewCharged DEF Inv2

LEMMA BootCharged ==
    ASSUME Inv1, Charged, NEW md, NEW l, run_boot(md, l)
    PROVE  Charged'
  <1> DEFINE new == [cycles |-> LoadCycles, reply |-> NoReply]
  <1>1. pc = "idle" /\ Usable /\ \A v \in VmId : states[v] = Absent
    BY DEF run_boot, Called, Live, Usable
  <1>2. \A v \in VmId : ~Owed(v)
    BY <1>1, StateValues DEF Charged
  <1>3. CASE outcome' = "Error"
    BY <1>3 DEF Charged, Usable, Resumable
  <1>4. CASE Booted(next_vm_id) /\ pc' = "process_io"
    <2>1. /\ machine' = [machine EXCEPT ![next_vm_id] = new] /\ next_vm_id' = next_vm_id + 1
          /\ states' = [states EXCEPT ![next_vm_id] = Runnable]
      BY <1>4 DEF Booted
    <2>2. /\ \A u \in VmId : u # next_vm_id => machine'[u] = machine[u]
          /\ next_vm_id \in VmId => /\ machine'[next_vm_id].cycles = LoadCycles
                                    /\ states'[next_vm_id] = Runnable
      BY <2>1 DEF Inv1, TypeOK
    <2>3. ~SliceOver'
      BY <1>4 DEF SliceOver
    <2>4. PICK w : w = next_vm_id
      OBVIOUS
    <2> QED BY <1>2, <1>4, <2>1, <2>2, <2>3, <2>4, NewCharged
  <1> QED BY <1>3, <1>4 DEF run_boot, Return

LEMMA SettleCharged ==
    ASSUME Inv2, Charged, yielded \/ stopped \/ exit_begins
    PROVE  Charged'
  <1>1. /\ pc = "messages" /\ message_box = <<>>
        /\ UNCHANGED <<next_vm_id, states>>
        /\ pc' \in {"process_io", "idle", "joiners"}
    BY DEF yielded, stopped, exit_begins, Settling, NextIteration, Return, Goto, scheduler
  <1>2. CyclesSame /\ Usable
    BY <1>1, SameCycles, InRun DEF Inv2
  <1>3. CASE pc' # "joiners"
    <2>1. ~SliceOver'
      BY <1>1, <1>3 DEF SliceOver
    <2> QED BY <1>1, <1>2, <2>1, KeptCharged
  <1>4. CASE pc' = "joiners"
    <2>1. exit_begins
      BY <1>4 DEF yielded, stopped, NextIteration, Return, Goto
    <2>2. \A v \in VmId : ~Owed(v)
      BY <1>1, <1>2, <2>1 DEF exit_begins, Settling, Charged, SliceOver
    <2> QED BY <1>2, <1>4, <2>2, PaidStays, AllPaid
  <1> QED BY <1>3, <1>4

LEMMA ExitCharged ==
    ASSUME Inv2, Charged, (\E v \in VmId : wake_joiner(v)) \/ exit_ends \/ exit_root
    PROVE  Charged'
  <1>1. SliceOver /\ pc' # "machine"
    BY DEF wake_joiner, exit_ends, exit_root, Settling, NextIteration, Return, Goto, SliceOver
  <1>2. \A v \in VmId : ~Owed(v)
    BY <1>1, InRun DEF Inv2, Charged, SliceOver
  <1>3. CASE \E v \in VmId : wake_joiner(v)
    <2>1. CyclesSame
      BY <1>3, SameCycles DEF Inv2
    <2> QED BY <1>1, <1>2, <2>1, PaidStays, AllPaid
  <1>4. CASE exit_ends \/ exit_root
    <2>1. \A u \in VmId : machine'[u] \in {machine[u], NoMachine}
      BY <1>4 DEF exit_ends, exit_root, Inv2, Inv1, TypeOK
    <2>2. (\A v \in VmId : ~Owed(v))'
      BY <1>2, <2>1 DEF Owed, NoMachine
    <2> QED BY <1>1, <2>2, AllPaid
  <1> QED BY <1>3, <1>4

LEMMA CallerCharged ==
    ASSUME Inv2, Charged, (\E md, l : run_on(md, l)) \/ suspend \/ resume
    PROVE  Charged'
  <1>1. /\ pc \in {"idle", "stored"} /\ UNCHANGED <<next_vm_id, states>>
        /\ pc' \in {"idle", "stored", "process_io", "panicked"}
    BY DEF run_on, Called, suspend, resume, Return, Goto, scheduler
  <1>2. CyclesSame
    BY SameCycles DEF Inv2
  <1>3. Usable
    BY <1>1, InRun DEF run_on, Called, suspend, resume, Usable, Inv2
  <1>4. ~SliceOver'
    BY <1>1 DEF SliceOver
  <1> QED BY <1>1, <1>2, <1>3, <1>4, KeptCharged

LEMMA NextCharged == Inv2 /\ Charged /\ [Next]_vars => Charged'
  <1> SUFFICES ASSUME Inv2, Charged, [Next]_vars PROVE Charged' OBVIOUS
  <1>0. Inv1
    BY DEF Inv2
  <1>1. CASE Guest \/ (\E v \in VmId : pick(v)) \/ \E md, l : run_boot(md, l)
    BY <1>0, <1>1, GuestCharged, PickCharged, BootCharged
  <1>2. CASE process_io \/ (\E v \in VmId : finish_closed(v)) \/ (\E x \in pairs : transfer(x))
    BY <1>2, IoCharged
  <1>3. CASE \/ spawn_refused \/ spawn_fails \/ join_terminated \/ join_unknown \/ join_waits
             \/ pipe_create \/ io_not_owner \/ io_other_end_closed \/ io_waits
    BY <1>3, HandlerCharged
  <1>4. CASE spawn_done \/ yielded \/ stopped \/ exit_begins
    BY <1>4, SpawnCharged, SettleCharged
  <1>5. CASE (\E v \in VmId : wake_joiner(v)) \/ exit_ends \/ exit_root
    BY <1>5, ExitCharged
  <1>6. CASE (\E md, l : run_on(md, l)) \/ suspend \/ resume
    BY <1>6, CallerCharged
  <1>7. CASE deadlock
    BY <1>7 DEF deadlock, Return, Charged, Usable, Resumable
  <1>8. CASE dropped \/ UNCHANGED vars
    BY <1>8 DEF dropped, vars, scheduler, locals, Charged, Usable, ToRun, Owed, SliceOver
  <1> QED BY <1>1, <1>2, <1>3, <1>4, <1>5, <1>6, <1>7, <1>8 DEF Next, iterate, host, Caller

LEMMA InitCharged == Init => Charged
  BY DEF Init, Charged, Owed, SliceOver

(* Cycles that are not yet in total_cycles are always on the VM that runs  *)
(* next, so that no other VM, and no exit of the root VM, comes before     *)
(* they are charged.                                                       *)
THEOREM UnchargedIsNext == Spec => []UnchargedRunsNext
  <1>1. Inv2 /\ Charged /\ [Next]_vars => Charged'
    BY NextCharged
  <1>2. Inv1 /\ Charged => UnchargedRunsNext
    <2> SUFFICES ASSUME Inv1, Charged, Usable, NEW v \in VmId, Owed(v) PROVE ToRun(v)
      BY DEF UnchargedRunsNext, Owed
    <2>1. CASE pc = "machine"
      BY <2>1 DEF Charged
    <2>2. CASE pc # "machine"
      <3>1. v = next_vm_id - 1 /\ states[v] = Runnable
        BY <2>2 DEF Charged
      <3>2. ASSUME NEW u \in VmId, states[u] = Runnable PROVE u <= v
        <4>1. u < next_vm_id
          BY <3>2, StateValues, Root DEF Inv1, Ids, TypeOK
        <4> QED BY <3>1, <4>1, Root DEF Inv1, TypeOK
      <3> QED BY <3>1, <3>2 DEF ToRun
    <2> QED BY <2>1, <2>2
  <1>3. Inv2 => Inv1
    BY DEF Inv2
  <1> QED BY InitCharged, <1>1, <1>2, <1>3, Inv2Holds, PTL DEF Spec

-----------------------------------------------------------------------------
(* Limits *)

LEMMA CycleTypes ==
    ASSUME Inv1
    PROVE  /\ total_cycles \in Nat /\ budget \in Nat /\ limit_cycles \in Nat
           /\ consumed_cycles \in Nat /\ CycleMax \in Nat
           /\ \A v \in VmId : machine[v].cycles \in Nat
           /\ Unchecked \subseteq Nat /\ LoadCycles \in Unchecked
           /\ \A k \in 0 .. MaxSlice : k \in Nat
  BY StateAssumption DEF Inv1, TypeOK, Machine, Unchecked

(* Steps that spend nothing. *)
LEMMA KeptWithin ==
    ASSUME Within, UNCHANGED <<total_cycles, budget, mode>>,
           \/ pc' \notin {"process_io", "transfer", "machine", "messages", "joiners"}
           \/ /\ pc' \in {"process_io", "transfer"}
              /\ mode = "LimitCycles" => total_cycles + limit_cycles' <= budget
           \/ /\ pc' \in {"messages", "joiners"}
              /\ pc = "messages" \/ (pc = "joiners" /\ pc' = "joiners")
              /\ pc = "messages" /\ pc' = "joiners" => result.tag = "Ok"
              /\ UNCHANGED result
    PROVE  Within'
  BY DEF Within

LEMMA GuestWithin ==
    ASSUME Inv1, Within, Guest
    PROVE  Within'
  <1> SUFFICES ASSUME mode' = "LimitCycles" PROVE Within'
    BY DEF Within
  <1>1. pc = "machine" /\ UNCHANGED <<mode, budget, limit_cycles, vm_id_to_run>> /\ self \in VmId
    BY GuestSteps DEF inline, Sliced, locals, history, Inv1, Phases, self
  <1>2. /\ total_cycles + limit_cycles <= budget
        /\ \E c \in Unchecked : machine[self].cycles <= limit_cycles + c
        /\ \E c \in Unchecked : total_cycles <= budget + c
    BY <1>1 DEF Within, self
  <1>3. ASSUME NEW k \in 1 .. MaxSlice, inline(k) PROVE Within'
    <2>1. PICK c \in Charges : machine' = [machine EXCEPT ![self].cycles = Counted(k + c)]
      BY <1>3 DEF inline
    <2>2. Fits(k) /\ UNCHANGED <<total_cycles, pc>> /\ c \in Unchecked
      BY <1>3 DEF inline, Executing, scheduler, Unchecked
    <2>3. machine'[self].cycles = Counted(k + c)
      BY <1>1, <2>1, CountCycles DEF Inv1, TypeOK
    <2>4. machine'[self].cycles <= limit_cycles + c
      BY <1>1, <2>2, <2>3, CycleTypes, StateAssumption DEF Fits, Counted
    <2>5. PICK v \in VmId : v = self
      BY <1>1
    <2>6. machine'[v].cycles <= limit_cycles + c /\ vm_id_to_run' = v
      BY <1>1, <2>4, <2>5 DEF self
    <2> QED BY <1>1, <1>2, <2>2, <2>6 DEF Within
  <1>4. ASSUME NEW r \in RunResult, NEW k \in 0 .. MaxSlice, NEW msgs,
               SliceEnds(r, msgs, Counted(k)),
               Fits(k) \/ (k = 0 /\ r.tag \in {"CyclesExceeded", "Pause"})
        PROVE  Within'
    <2>1. \/ pc' = "idle" /\ UNCHANGED total_cycles
          \/ pc' = "messages" /\ total_cycles' = total_cycles + Counted(k) /\ result' = r
      BY <1>4 DEF SliceEnds
    <2>2. PICK c \in Unchecked : machine[self].cycles <= limit_cycles + c
      BY <1>2
    <2>3. Counted(k) \in Nat /\ Counted(k) = machine[self].cycles + k /\ k \in Nat
      BY <1>1, CycleTypes DEF Counted
    <2>4. Fits(k) => total_cycles + Counted(k) <= budget
      BY <1>2, <2>3, CycleTypes DEF Fits
    <2>5. k = 0 => total_cycles + Counted(k) <= budget + c
      BY <1>1, <1>2, <2>2, <2>3, CycleTypes
    <2>6. total_cycles + Counted(k) <= budget => total_cycles + Counted(k) <= budget + c
      BY <2>2, <2>3, CycleTypes
    <2> QED BY <1>1, <1>2, <1>4, <2>1, <2>4, <2>5, <2>6 DEF Within
  <1> QED BY <1>3, <1>4, GuestSteps

LEMMA PickWithin ==
    ASSUME Inv1, Charged, Within, NEW v \in VmId, pick(v)
    PROVE  Within'
  <1>1. /\ pc = "transfer" /\ pc' = "machine" /\ vm_id_to_run' = v
        /\ UNCHANGED <<total_cycles, budget, mode, limit_cycles>>
    BY DEF pick, IoFinished, Goto, history
  <1>2. CyclesSame /\ Usable
    BY <1>1, SameCycles, InRun
  <1>3. machine'[v].cycles \in {0, LoadCycles}
    <2>1. machine[v].cycles \in Nat
      BY CycleTypes
    <2>2. Owed(v) => machine[v].cycles = LoadCycles
      BY <1>1, <1>2 DEF Charged
    <2> QED BY <1>2, <2>1, <2>2 DEF Owed, CyclesSame
  <1>4. machine'[v].cycles <= limit_cycles + LoadCycles /\ LoadCycles \in Unchecked
    BY <1>3, CycleTypes
  <1> QED BY <1>1, <1>4 DEF Within

LEMMA CalledWithin ==
    ASSUME Inv1, (\E md, l : run_boot(md, l) \/ run_on(md, l))
    PROVE  Within'
  <1>0. PICK md, l : run_boot(md, l) \/ run_on(md, l)
    OBVIOUS
  <1>1. /\ limit_cycles' = l /\ budget' = total_cycles + l /\ l \in Nat
        /\ UNCHANGED total_cycles
        /\ pc' \in {"idle", "process_io", "panicked"}
    <2>1. Called(md, l)
      BY <1>0 DEF run_boot, run_on
    <2>2. limit_cycles' = l /\ budget' = total_cycles + l /\ l \in Nat
      BY <2>1, StateAssumption DEF Called
    <2> QED BY <1>0, <2>2 DEF run_boot, run_on, Return, Goto, scheduler
  <1>2. total_cycles' <= budget' + LoadCycles /\ LoadCycles \in Unchecked
        /\ total_cycles' + limit_cycles' <= budget'
    BY <1>1, CycleTypes
  <1> QED BY <1>1, <1>2 DEF Within

LEMMA NextIterationWithin ==
    ASSUME Inv1, Within, yielded \/ exit_ends \/ exit_root
    PROVE  Within'
  <1>1. /\ pc' \in {"process_io", "idle"} /\ UNCHANGED <<total_cycles, budget, mode>>
        /\ limit_cycles' = consumed_cycles - consumed_cycles
    BY DEF yielded, exit_ends, exit_root, NextIteration, NextLimit, Return, Goto, scheduler, history
  <1>2. pc = "joiners" \/ (pc = "messages" /\ result.tag \in {"YIELD", "Ok"})
    BY DEF yielded, exit_ends, exit_root, Settling
  <1>3. mode = "LimitCycles" => total_cycles + limit_cycles' <= budget
    BY <1>1, <1>2, CycleTypes DEF Within
  <1> QED BY <1>1, <1>3, KeptWithin

LEMMA NextWithin == Inv1 /\ Charged /\ Within /\ [Next]_vars => Within'
  <1> SUFFICES ASSUME Inv1, Charged, Within, [Next]_vars PROVE Within' OBVIOUS
  <1>1. CASE Guest \/ (\E v \in VmId : pick(v)) \/ (\E md, l : run_boot(md, l) \/ run_on(md, l))
             \/ yielded \/ exit_ends \/ exit_root
    BY <1>1, GuestWithin, PickWithin, CalledWithin, NextIterationWithin
  <1>2. CASE process_io \/ (\E v \in VmId : finish_closed(v)) \/ (\E x \in pairs : transfer(x))
    <2>1. /\ pc \in {"process_io", "transfer"} /\ pc' \in {"transfer", "idle", "panicked"}
          /\ UNCHANGED <<total_cycles, budget, mode, limit_cycles>>
      BY <1>2 DEF process_io, finish_closed, transfer, Return, WriterFails, Goto, scheduler, history
    <2> QED BY <2>1, KeptWithin DEF Within
  <1>3. CASE \/ spawn_refused \/ spawn_fails \/ join_terminated \/ join_unknown \/ join_waits
             \/ pipe_create \/ io_not_owner \/ io_other_end_closed \/ io_waits \/ spawn_done
    <2>1. /\ pc = "messages" /\ pc' \in {"messages", "idle"}
          /\ UNCHANGED <<total_cycles, budget, mode, result>>
      BY <1>3
      DEF spawn_refused, spawn_fails, spawn_done, join_terminated, join_unknown, join_waits,
          pipe_create, io_not_owner, io_other_end_closed, io_waits, HandlingIo, Handling, Answer,
          Refuse, Handled, Dropped, Return, Goto, locals, history
    <2> QED BY <2>1, KeptWithin
  <1>4. CASE stopped \/ exit_begins \/ (\E v \in VmId : wake_joiner(v)) \/ deadlock
             \/ suspend \/ resume
    <2>1. /\ UNCHANGED <<total_cycles, budget, mode, result>>
          /\ \/ pc' \in {"idle", "stored"}
             \/ pc = "messages" /\ pc' = "joiners" /\ result.tag = "Ok"
             \/ pc = "joiners" /\ pc' = "joiners"
      BY <1>4 DEF stopped, exit_begins, wake_joiner, deadlock, suspend, resume, Settling, Return, Goto,
                  scheduler, locals, history
    <2> QED BY <2>1, KeptWithin
  <1>5. CASE dropped \/ UNCHANGED vars
    BY <1>5 DEF dropped, vars, scheduler, locals, history, Within
  <1> QED BY <1>1, <1>2, <1>3, <1>4, <1>5 DEF Next, iterate, host, Caller

(* A call of run() spends its limit and at most one charge that machine    *)
(* and scheduler do not check, for any limits, charges and programs: the   *)
(* calls after the first iterate() start from a limit of 0 and add         *)
(* nothing beyond that.                                                    *)
THEOREM LimitKept == Spec => []LimitRespected
  <1>1. Init => Within
    BY DEF Init, Within
  <1>2. Inv2 /\ Charged /\ [Next]_vars => Charged'
    BY NextCharged
  <1>3. Inv1 /\ Charged /\ Within /\ [Next]_vars => Within'
    BY NextWithin
  <1>4. Within => LimitRespected
    BY DEF Within, LimitRespected, Unchecked
  <1>5. Inv2 => Inv1
    BY DEF Inv2
  <1> QED BY <1>1, InitCharged, <1>2, <1>3, <1>4, <1>5, Inv2Holds, PTL DEF Spec

-----------------------------------------------------------------------------
(* Preemption *)

(* Steps that move no VM and no pipe keep the preempted VM on hold. *)
LEMMA KeptOnHold ==
    ASSUME OnHold, Usable, Preempted' => Preempted, UNCHANGED <<states, pipes, vm_id_to_run>>,
           pc' # "transfer"
    PROVE  OnHold'
  BY DEF OnHold, ToRun, Served, AllOpen, NoMeeting, Meeting, Waiter, Reading, Writing, OtherEndOpen,
         contains

LEMMA GuestOnHold ==
    ASSUME Inv2, Charged, IoInv, Guest
    PROVE  OnHold'
  <1>1. /\ pc = "machine" /\ pc' # "transfer"
        /\ UNCHANGED <<states, pipes, vm_id_to_run>> /\ vm_id_to_run \in VmId
    BY GuestSteps, GuestCycles DEF Inv2, inline, SliceEnds
  <1>2. ToRun(vm_id_to_run) /\ Served
    BY <1>1, InRun DEF Inv2, Charged, IoInv
  <1> QED BY <1>1, <1>2
    DEF OnHold, ToRun, Served, AllOpen, NoMeeting, Meeting, Waiter, Reading, Writing, OtherEndOpen,
        contains

LEMMA PickOnHold ==
    ASSUME Inv2, OnHold, NEW v \in VmId, pick(v)
    PROVE  /\ OnHold'
           /\ Preempted => vm_id_to_run' = vm_id_to_run
  <1>1. /\ pc = "transfer" /\ pc' = "machine" /\ ToRun(v) /\ vm_id_to_run' = v
        /\ UNCHANGED <<states, pipes, result>>
    BY DEF pick, IoFinished, Goto
  <1>2. Usable
    BY <1>1, InRun DEF Inv2
  <1>3. ASSUME Preempted PROVE v = vm_id_to_run
    <2>1. ToRun(vm_id_to_run) /\ vm_id_to_run \in VmId
      BY <1>2, <1>3 DEF OnHold
    <2>2. v <= vm_id_to_run /\ vm_id_to_run <= v
      BY <1>1, <2>1 DEF ToRun
    <2> QED BY <2>1, <2>2, Root
  <1>4. CASE Preempted
    BY <1>1, <1>2, <1>3, <1>4, KeptOnHold
  <1>5. CASE ~Preempted
    BY <1>1, <1>5 DEF OnHold, Preempted
  <1> QED BY <1>3, <1>4, <1>5

LEMMA CollectOnHold ==
    ASSUME Inv2, OnHold, process_io
    PROVE  OnHold'
  <1>1. /\ pc = "process_io" /\ pc' = "transfer"
        /\ UNCHANGED <<states, pipes, vm_id_to_run, result>>
        /\ closed_pipes' = {v \in VmId : (Reading(v) \/ Writing(v)) /\ ~OtherEndOpen(v)}
        /\ pairs' = {[reader |-> x[1], rs |-> states[x[1]],
                      writer |-> x[2], ws |-> states[x[2]]] :
                     x \in {y \in VmId \X VmId : Matched(y[1], y[2])}}
    BY DEF process_io, Goto, scheduler
  <1>2. CASE ~Preempted
    BY <1>1, <1>2 DEF OnHold, Preempted
  <1>3. CASE Preempted
    <2>1. ToRun(vm_id_to_run) /\ Served /\ vm_id_to_run \in VmId
      BY <1>1, <1>3, InRun DEF OnHold, Inv2
    <2>2. closed_pipes' = {}
      BY <1>1, <2>1 DEF Served, AllOpen, Waiter
    <2>3. \A r, w \in VmId : ~Matched(r, w)
      BY <2>1 DEF Served, NoMeeting, Meeting, Waiter, Matched, Reads
    <2>4. pairs' = {}
      BY <1>1, <2>3
    <2> QED BY <1>1, <2>1, <2>2, <2>4
      DEF OnHold, ToRun, Served, AllOpen, NoMeeting, Meeting, Waiter, Reading, Writing, OtherEndOpen,
          contains
  <1> QED BY <1>2, <1>3

(* The other steps of iterate() do not happen while a VM is on hold. *)
LEMMA NotOnHold ==
    ASSUME Inv2, OnHold,
           \/ (\E v \in VmId : finish_closed(v) \/ wake_joiner(v)) \/ (\E x \in pairs : transfer(x))
           \/ deadlock \/ spawn_refused \/ spawn_fails \/ spawn_done \/ join_terminated
           \/ join_unknown \/ join_waits \/ pipe_create \/ io_not_owner \/ io_other_end_closed
           \/ io_waits \/ yielded \/ exit_root \/ exit_begins \/ exit_ends
    PROVE  ~Preempted /\ UNCHANGED result
  <1>1. CASE (\E v \in VmId : finish_closed(v)) \/ (\E x \in pairs : transfer(x)) \/ deadlock
    <2>1. CASE \E v \in VmId : finish_closed(v)
      <3>1. pc = "transfer" /\ UNCHANGED result /\ closed_pipes # {}
        BY <2>1 DEF finish_closed, FirstClosed
      <3> QED BY <3>1, InRun DEF Inv2, OnHold
    <2>2. CASE \E x \in pairs : transfer(x)
      <3>1. pc = "transfer" /\ UNCHANGED result /\ pairs # {}
        BY <2>2 DEF transfer
      <3> QED BY <3>1, InRun DEF Inv2, OnHold
    <2>3. CASE deadlock
      <3>1. pc = "transfer" /\ UNCHANGED result /\ \A v \in VmId : states[v] # Runnable
        BY <2>3 DEF deadlock, IoFinished, locals
      <3> QED BY <3>1, InRun DEF Inv2, OnHold, ToRun
    <2> QED BY <1>1, <2>1, <2>2, <2>3
  <1>2. CASE \/ spawn_refused \/ spawn_fails \/ spawn_done \/ join_terminated
             \/ join_unknown \/ join_waits \/ pipe_create \/ io_not_owner \/ io_other_end_closed
             \/ io_waits
    <2>1. pc = "messages" /\ message_box # <<>>
      BY <1>2
      DEF spawn_refused, spawn_fails, spawn_done, join_terminated, join_unknown, join_waits,
          pipe_create, io_not_owner, io_other_end_closed, io_waits, HandlingIo, Handling
    <2>2. CASE spawn_refused \/ spawn_fails \/ spawn_done \/ join_waits \/ io_waits
      BY <2>1, <2>2, HandlingFacts
      DEF spawn_refused, spawn_fails, spawn_done, join_waits, io_waits, Handled, Dropped, locals,
          Inv2, Preempted
    <2>3. CASE join_terminated \/ join_unknown \/ pipe_create \/ io_not_owner
               \/ io_other_end_closed
      BY <2>1, <2>3, HandlingFacts
      DEF join_terminated, join_unknown, pipe_create, io_not_owner, io_other_end_closed, Answer,
          Refuse, Handled, Dropped, locals, Inv2, Preempted
    <2> QED BY <1>2, <2>2, <2>3
  <1>3. CASE (\E v \in VmId : wake_joiner(v)) \/ exit_ends
    <2>1. pc = "joiners" /\ UNCHANGED result
      BY <1>3 DEF wake_joiner, exit_ends
    <2> QED BY <2>1 DEF Inv2, Inv1, Phases, Preempted
  <1>4. CASE yielded \/ exit_root \/ exit_begins
    BY <1>4 DEF yielded, exit_root, exit_begins, Settling, Preempted
  <1> QED BY <1>1, <1>2, <1>3, <1>4

LEMMA NextOnHold ==
    Inv2 /\ Charged /\ IoInv /\ OnHold /\ [Next]_vars =>
        /\ OnHold'
        /\ Preempted => /\ pc = "transfer" => closed_pipes = {} /\ pairs = {}
                        /\ pc' = "machine" => vm_id_to_run' = vm_id_to_run
  <1> SUFFICES ASSUME Inv2, Charged, IoInv, OnHold, [Next]_vars
               PROVE  /\ OnHold'
                      /\ Preempted => /\ pc = "transfer" => closed_pipes = {} /\ pairs = {}
                                      /\ pc' = "machine" => vm_id_to_run' = vm_id_to_run
    OBVIOUS
  <1>0. Preempted /\ pc = "transfer" => closed_pipes = {} /\ pairs = {}
    BY InRun DEF OnHold, Inv2
  <1> SUFFICES OnHold' /\ (Preempted /\ pc' = "machine" => vm_id_to_run' = vm_id_to_run)
    BY <1>0
  <1>1. CASE Guest
    BY <1>1, GuestOnHold, GuestCycles DEF Inv2
  <1>2. CASE \E v \in VmId : pick(v)
    BY <1>2, PickOnHold
  <1>3. CASE process_io
    BY <1>3, CollectOnHold DEF process_io
  <1>4. CASE \/ (\E v \in VmId : finish_closed(v) \/ wake_joiner(v)) \/ (\E x \in pairs : transfer(x))
             \/ deadlock \/ spawn_refused \/ spawn_fails \/ spawn_done \/ join_terminated
             \/ join_unknown \/ join_waits \/ pipe_create \/ io_not_owner \/ io_other_end_closed
             \/ io_waits \/ yielded \/ exit_root \/ exit_begins \/ exit_ends
    BY <1>4, NotOnHold DEF OnHold, Preempted
  <1>5. CASE stopped \/ suspend \/ resume \/ \E md, l : run_on(md, l)
    <2>1. /\ UNCHANGED <<states, pipes, vm_id_to_run, result>>
          /\ pc' \in {"idle", "stored", "process_io", "panicked"}
      BY <1>5 DEF stopped, suspend, resume, run_on, Return, Goto, scheduler, locals
    <2>2. Usable
      BY <1>5, InRun DEF Inv2, stopped, suspend, resume, run_on, Called, Settling, Usable
    <2> QED BY <2>1, <2>2, KeptOnHold DEF Preempted
  <1>6. CASE \E md, l : run_boot(md, l)
    <2>1. Usable /\ (\A v \in VmId : states[v] = Absent) /\ UNCHANGED result
      BY <1>6 DEF run_boot, Called, Live, Usable
    <2>2. ~Preempted
      BY <2>1, StateValues DEF OnHold, ToRun
    <2> QED BY <2>1, <2>2 DEF OnHold, Preempted
  <1>7. CASE dropped \/ UNCHANGED vars
    BY <1>7 DEF dropped, vars, scheduler, locals, OnHold, Preempted, Usable, ToRun, Served, AllOpen,
                NoMeeting, Meeting, Waiter, Reading, Writing, OtherEndOpen, contains
  <1> QED BY <1>1, <1>2, <1>3, <1>4, <1>5, <1>6, <1>7 DEF Next, iterate, host, Caller

(* Wherever a limit or a pause cuts a slice, the schedule goes on with the *)
(* VM that was cut, and no IO happens in between: in the same scheduler or *)
(* in one resumed from its FullSuspendedState.                             *)
THEOREM PreemptionIsTransparent == Spec => PreemptedRunsNext
  <1>1. Init => OnHold
    BY DEF Init, OnHold, Preempted
  <1>2. Inv2 /\ Charged /\ [Next]_vars => Charged'
    BY NextCharged
  <1>3. Inv2 /\ Charged /\ IoInv /\ OnHold /\ [Next]_vars => OnHold'
    BY NextOnHold
  <1>4. Inv2 /\ Charged /\ IoInv /\ OnHold /\ [Next]_vars =>
          [result.tag \in {"CyclesExceeded", "Pause"} =>
              /\ pc = "transfer" => closed_pipes = {} /\ pairs = {}
              /\ pc' = "machine" => vm_id_to_run' = vm_id_to_run]_vars
    BY NextOnHold DEF Preempted
  <1> QED BY <1>1, InitCharged, <1>2, <1>3, <1>4, Inv2Holds, IoInvHolds, PTL
          DEF Spec, PreemptedRunsNext

=============================================================================
