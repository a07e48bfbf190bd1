# ckb-vm-deterministic-scheduler in TLA+

The program schedules a set of RISC-V virtual machines that belong to one
script of a CKB transaction. VMs spawn each other, join each other and talk
over pipes; exactly one of them runs at a time, and which one is a function of
the state alone, so every node that verifies the transaction sees the same run.
This directory models the scheduler, the system calls that reach it, the driver
that calls it, and the generator and contract it is tested with, up to the
encoding of their data. It checks the models on small instances with TLC, and
proves with TLAPS, for any number of VMs, pipes and cycles, every safety
property of the scheduler, of its driver and of the calls that read cells, and
that the scheduler implements an abstract system of VMs.

Paths below are relative to the repository (`src/lib.rs` is the scheduler).

## 1. Inventory

| component | state | operations | model |
|---|---|---|---|
| types (`src/types.rs`) | `VmId`, `PipeId`, `VmState`, `Message`, `RunMode` | id creation, `other_pipe`, `is_read` / `is_write` | `Types` |
| scheduler (`src/lib.rs`) | `total_cycles`, `next_vm_id`, `next_pipe_slot`, `states`, `pipes`, `instantiated`, `suspended`, `terminated_vms`, `message_box` | `run`, `iterate`, `process_io`, `process_message_box`, `ensure_vms_instantiated`, `boot_vm`, `suspend_vm`, `resume_vm`, `suspend`, `resume` | `SchedulerState`, `Scheduler` |
| system calls (`src/syscalls.rs`) | base cycles, the shared message box | `spawn`, `join`, `pipe`, `pipe_read`, `pipe_write` (stop the machine); `current_cycles`, `load_cell_data`, `load_cell_data_as_code`, `debug`, `instance_id` (return at once) | `Syscalls`, `CellSyscalls` |
| ckb-vm (external) | registers, memory, cycle counter of a machine | `run`, snapshots, `set_max_cycles`, pause | the parts `Syscalls` uses |
| data source (`src/types.rs`, `TxData`) | none | `DataPieceId::try_from`, `load_data` | `DataSource` |
| driver (`src/dev_utils/mod.rs`, `verify_tx`) | `consumed_cycles`, `last_suspended_cycles` | loop of `run` / `suspend` / `resume` over script groups | `VerifyTx`; the caller in `Scheduler` may do all it does, and more |
| data graph generator (`src/dev_utils/mod.rs`) | two graphs, the pipes per node and per spawn | `generate_data_graph` | `DataGraph` |
| mock transaction (`src/dev_utils/mod.rs`) | none | `build_mock_tx` | in `DagRun`: the cells a guest can load |
| test contract (`test-contracts/main.c`) | its pipes and children, how far it is | create pipes, spawn children, read and write, join | `DagContract`; the guests in `Syscalls` may do all it does, and more |
| escape encoding (`test-contracts/escape_encoding.h`) | none | encode, decode in place | `EscapeEncoding` |
| molecule bindings (`src/dev_utils/dag.rs`) | none | builders, verification, accessors | `Molecule`, `DagData` |
| examples (`examples/`) | none | `dag_generator`: generate, build, verify; `tx_verifier`: read a file, verify | `DagRun` is the first; the second is I/O |

How they interact. The caller calls `run(mode)`. `run` loops over `iterate`,
which (1) serves pending IO, (2) runs the runnable VM with the largest id until
it stops, (3) handles the message it left in the box it shares with the
scheduler, (4) settles how it stopped: a yield goes on with the next
`iterate`, an exit wakes joiners and closes pipes, anything else ends `run`.
Guests see the scheduler only through the registers and memory it writes into
their machines. After `CyclesExceeded` or `Pause` the caller may call `run`
again, or turn the scheduler into a `FullSuspendedState` and resume it elsewhere.
`verify_tx` is such a caller: it runs every script group in slices of
`cycles_per_iterate`, with a suspension and a resumption every
`cycles_per_suspend`. In the tests `generate_data_graph` draws a tree of spawns
and an acyclic graph of writes; the result, encoded by the molecule builders,
is the witness of the transaction `build_mock_tx` makes; every VM runs the
contract, which finds its own part in that witness by the index its spawner
passed it in `argv`.

What is hard here. There are no threads (apart from the one that triggers a
`Pause`), but every VM is a process, and the scheduler interleaves them at
every system call and at every cycle limit:

* `process_io` works from copies of states made before it starts changing them;
* at most four VMs are machines, the others are snapshots, and every access has
  to bring its VM in without pushing out another that is needed at once;
* pipe ends change hands at `spawn` and close at exits, while other VMs wait on
  the far ends;
* a write is acknowledged once, though it may have been cut into many reads;
* a run is cut anywhere by limits, and everything not in `FullSuspendedState`
  is lost on suspension;
* each handler stores its results through guest addresses, and each such store
  may fail between two updates of the scheduler's own state;
* the driver cuts and suspends a run anywhere, and the result must not show it;
* a pipe end travels through a chain of spawns before it is used, each of which
  takes it from the spawner;
* cell bounds, `argv` and the witness come from guests and transactions, and
  are checked in one place and used in another.

`PROJECT.json` lists these hazards line by line with the properties aimed at them.

## 2. Modules

| module | contents |
|---|---|
| `Types` | ids, VM states, messages, replies (what a guest finds when a call returns) |
| `SchedulerState` | constants, variables, `Init`, residency (`Admit`, `MakeRoom`, `Swap`) |
| `Syscalls` | one slice of `machine.run()`: everything an arbitrary guest can do |
| `Scheduler` | `run`, `iterate`, `suspend`, `resume`; `Next`, `Spec` |
| `SchedulerProperties` | the properties, and the documents' claims that fail |
| `VmSystem` | what the scheduler promises: VMs, pipes and joins without cycles, slices, snapshots or messages |
| `VmRefinement` | the mapping under which `Scheduler` implements `VmSystem` |
| `VerifyTx` | `verify_tx` in place of the arbitrary caller |
| `DataSource`, `CellSyscalls` | `load_data`; the system calls that read cells, and the loading of a spawned VM |
| `DataGraph` | `generate_data_graph`, one step per round of each of its loops |
| `EscapeEncoding` | the encoding of `argv`, as functions |
| `DagContract` | `main.c` in place of the arbitrary guest |
| `DagRun` | `DataGraph`, `VerifyTx`, `DagContract` and `DataSource` composed: `examples/dag_generator.rs` |
| `Molecule`, `DagData` | the encoding of `dag::Data`: the shapes, and the eleven types |
| `MC...` | the modules TLC runs, with the cfgs and, for the functions, the inputs |
| `SchedulerProofs` | types, control and the message box, proved; who owns a pipe end; what a join waits for; machines and snapshots |
| `CycleProofs` | rests on it: passes of `process_io`, bytes, short writes and deadlocks; cycles, limits and preemption |
| `VerifyProofs` | the theorems about `VerifyTx` |
| `RefinementProofs` | that `Scheduler` implements `VmSystem` |
| `CellProofs` | the theorems about `CellSyscalls`; stands alone |
| `InductionProofs` | induction and recursion over the naturals, for the two modules below |
| `GraphProofs` | the theorems about `DataGraph` |
| `CodecProofs` | the theorems about `EscapeEncoding`, `Molecule` and `DagData` |

Correspondence with the code:

* **Maps** are total functions with a value for "no entry": `Absent` in
  `states`, `NoVm` in `pipes`, `NotTerminated` in `terminated_vms`. The maps
  of machines and snapshots are the sets `instantiated` and `suspended`;
  `machine[v]` is what a machine holds that the scheduler touches (its cycle
  counter, and the reply stored in `A0` and at the result address).
* **Control.** `pc` says where `run` is. Loops over a list take one step per
  element, in the list's order (`finish_closed`, `transfer`, `wake_joiner`),
  so the state between elements is visible to the invariants. The handlers of
  messages and each way of settling a slice are one action each. `run` does not
  interleave with anything but the guest's own steps, so no other action can
  come between.
* **Guests** are arbitrary. Each slice of a guest is a number of cycles
  followed by a call with any arguments, an exit, a fault, the cycle limit or
  a pause. This covers every program, including `test-contracts/main.c`.
* **Guest memory** is abstracted to whether accesses succeed: an address is
  `"ok"`, a `"bad_buffer"` (a copy that touches it may fail) or `"bad_result"`
  (storing the result fails). Each store in the code has its failing branch.
* **Bytes** are counted, not stored: a transfer moves `copiable` bytes. The
  history variable `unacked[p]` counts the bytes readers got through write end
  `p` that the writer has not been told of; `budget` is what `total_cycles` may
  reach in this call of `run`.
* **Cycles** have a largest value `CycleMax` standing for `u64::MAX`. Guest
  instructions run only if they fit in `limit_cycles` (as ckb-vm does, per
  trace of at most `MaxTrace` cycles); charges of system calls are not checked.
  `NextLimit` is the code's `consumed_cycles.checked_sub(consumed_cycles)`: 0.
* **Errors.** `outcome` is what `run` returned. `CyclesExceeded` and `Pause`
  can be continued from (`Resumable`); after any other error the caller drops
  the scheduler, which then only stutters (`dropped`). `panicked` is a failed
  `unwrap` or index in the code.
* **Driver.** In `VerifyTx` `vpc` says where `verify_tx` is; while it is inside
  `run`, the steps are those of `iterate` with its arbitrary guests. The `u64`
  sum over script groups wraps, as in a release build. `spent` is a history
  variable: the true sum.
* **Cells.** Bytes are there as sequences in `CellSyscalls`, since which bytes
  a guest gets is the point. `u32` and `u64` keep their limits, shrunk.
  `Snapshot2Context::store_bytes`, external, writes what `load_data` returns.
* **Generator.** A random number is a choice. `daggy`'s `add_edge`, external,
  refuses an edge that closes a cycle. The two searches for parents are
  functions on the tree; each round of the search for the common ancestor is a
  step.
* **Contract.** `guest[v]` is the memory of VM `v`. `NextCall` is what the
  program does next, given that; `Resumed` what it makes of a reply. Each call
  is preceded by `Work` traces, of which as many run as fit in the limit:
  where a slice is cut depends on the driver only. `hosted` is a step of
  `iterate` with what it writes to guests.
* **Molecule.** Numbers have `NUMBER_SIZE` bytes of `Base` values and indices
  `IndexSize` bytes, all of them smaller in the run than in the code.

## 3. Runs

`CHECK_DEADLOCK` is on everywhere: the only ways to stop are `dropped`, for a
scheduler, and `finished` and its like, for a function that has returned. All
runs of the scheduler include preemption by the limit at any point and
suspension and resumption by the caller.

| run | instance | what it shows |
|---|---|---|
| `pipes` | 3 VMs, room for 2 machines, 1 pipe, lengths 0..2 | ownership of ends, freshness of the cloned states, exact acknowledgement, truthful short writes, empty reads and deadlock reports, residency of both ends of a transfer; every step is a step of `VmSystem` or none (`ImplementsVmSystem`, section 6) |
| `closing` | 4 VMs, 2 pipes, room for 4 | an exit that closes several ends releases all waiters in one pass (`IoPassComplete`) |
| `joins` | 5 VMs, room for 2, no pipes, 2 exit codes | `Residency` under heavy swapping; no join lost or answered wrongly |
| `cycles` | 3 VMs, 1 pipe, limits 0, 1 and 3, pause mode, loads and charges that cost, every kind of address, programs that do not load, faults, overflow | what a call may overspend; loads are charged before anyone else runs; where a slice is cut does not change the schedule; `TypeOK` and `MessageBoxDrained` on every error path; bytes are accounted for where stores fail, too |
| `verify_tx` | 2 script groups, 3 VMs, 1 pipe, slices of 2 and 6, suspension every 0 or 3 cycles, loads and charges that cost, `FairVerifySpec` | the overshoot beyond `max_cycles` is one slice; suspensions are as frequent as asked; `Ok` accounts for every group; `run` is never called on a finished scheduler, nor on one that an overflow or an error left half way through a step; every call of `run`, and `verify_tx`, returns |
| `cells` | 3 transactions with missing, empty and dangling cells; indices, offsets and sizes at and around every limit | chunks add up to the cell; a spawned VM boots from what was checked; an index, through the script group too, leads to its own cell and to the bytes of it, and is refused only if there is none |
| `data_graph` | all trees of 4 VMs, all lists of up to 3 writes, 2 attempts at an edge | the ancestor found is the lowest; pipes reach their users; each VM is spawned once; the generator ends |
| `codecs` | all sources of up to 4 bytes of 0, 1, 253, 254, 255; 3 values of `dag::Data`, with and without an extra field, 2 edits of any bytes | round trip through `argv`, short buffers hold whole escapes; what is built reads back, what is verified can be read, strictly verified slices are canonical |
| `dag_run` | all graphs of 4 VMs and up to 2 writes; slices of 1 and 3; suspension in every slice or every 9 cycles; too few and enough cycles | the verdict and the cycles are the graph's alone; no guest meets an error |
| `closed_waiter`, `limit`, `size_zero` | as small as the behaviour allows | violations, see section 4 |

Why these bounds. Two machines for three VMs is the smallest instance in which
making room can hit a VM that is needed; five VMs let two of them join a third
while two more swap. One pipe with lengths up to 2 already cuts a write into
several reads, with zero-length reads and writes between them; two pipes and
four VMs let one exit close a read end and a write end with a waiter on each.
`CycleMax` bounds the length of a behaviour: each slice costs at least one
cycle, so a run of `CycleMax` = 12 (`pipes`; 8 in `cycles`, where limits and
faults multiply) is any schedule of as many slices, after which
`total_cycles` overflows (an error path of the code, not an artificial stop).
The constants `MaxVms`, `MaxPipePairs`, `MaxLength`, `MaxSlice`, `MaxPassed`
and `Charges` bound what guests do; they appear in guards in `Syscalls` only.
In `verify_tx` two groups make the second start from the first one's sum, and
the limits lie on both sides of what a group costs; `CycleMax` is just twice
the larger `max_cycles`, so that a slice can overflow `total_cycles`, with a
message left in the box, and the sum over groups can reach the top. Four VMs are the smallest
tree with two branches of different depth, so that writer and reader climb
different distances to their ancestor; two writes let a VM use, pass on and
keep pipes at once. In `dag_run` a graph costs less than 100 cycles and many
cost more than 50, the two values of `max_cycles`. Two edits of an encoding
suffice to change a size and an offset, or an offset and its neighbour,
consistently. `BuiltReadsBack` needs sizes below `Base ^ NUMBER_SIZE`, as in
the code they are below 2^32.

Fairness. `FairVerifySpec` is weak fairness of the one thread that executes
`verify_tx` and the `run` it is in: sequential code, which keeps taking steps
while it can. Nothing is assumed of the guest's choice among its possible
steps. A call of `run` returns because every list shrinks, and because every
system call, the ones answered inline included, is preceded by instructions
that count against the limit. `verify_tx` returns because a slice with room
for a trace, or for the cycles of a load, always adds to `total_cycles`, which
`max_cycles` bounds. `FairGraphSpec` is weak fairness of the generator; it does not assume
that a random choice is ever lucky, only (in the inner loop of the code, which
draws a second node until it differs from the first) that one that must come
comes.

No symmetry is used: ids are ordered, and the order decides who runs.

## 4. What the code does not keep

* **`closed_waiter`** `process_io` answers a waiter whose other end is closed
  through `instantiated.get_mut(..).unwrap()`, without bringing it in first. If
  the waiter is a snapshot at the time (four other VMs ran in between, or the
  scheduler was suspended and resumed) `run` panics. `docs/notes.md` promises
  `SUCCESS` with a short length.
* **`limit`** The rest of the limit is computed as consumed minus consumed. A
  call of `run` therefore stops with `CyclesExceeded` at the second slice,
  whatever the limit, and in pause mode too. Callers that just call `run` again
  (as `verify_tx` does) do not notice.
* **`size_zero`** `load_cell_data` passes the size of the guest's buffer on to
  `load_data`, where 0 means "all the rest": a guest that passes 0 has the rest
  of the cell written to its address.

Three more were met while modelling; no run is kept for them.

* A write of zero bytes completes a blocked read with zero bytes
  (`src/lib.rs:508`), though `docs/notes.md` says a read blocks until data is
  available and guests take a zero length for a closed pipe. It is the only
  such case (`EmptyReadExplained`).
* `run` on a scheduler resumed from a finished one panics at
  `self.instantiated[&ROOT_VM_ID]`, under the comment "root VM cannot be
  suspended". `verify_tx` never gets there (`FinishedRunReturns`).
* `verify_tx` repeats a slice that returned `CyclesExceeded` without asking
  whether it did anything. If `cycles_per_iterate` is less than the next trace
  costs, it repeats it for ever, and `max_cycles` does not help. The slices of
  run `verify_tx` have room for a trace.

## 5. Proofs

The theorems hold for every value of the constants allowed by the assumptions
that the modules declare and every run evaluates: `TypesAssumption` and
`StateAssumption` (at least one VM, room for at least two machines, `LoadCycles`
at most `CycleMax`, and so on), the range of the driver's arguments, for cells
`CellAssumption` (a transaction is a `TxData`: lists of cells, each missing or a
sequence of bytes), for the generator `GraphAssumption` (its arguments are
naturals, and no write is empty), and for the codecs `MoleculeAssumption` and
`CodecsAssumption` (a number and an index have at least one byte, which has more
than three values; what is escaped are bytes). `SizesFit`, that the encodings of
the values a run starts from are short enough for their size to be a number (4
GB in molecule), is used by `BuiltReadsBackHolds` alone; without it the builder
cuts its sizes off. None of them bounds the number of VMs, pipes, cells or
bytes.

* `SchedulerProofs` proves `Inv1`, which is `TypeOK` with what makes it
  inductive. `Phases`: at each point of `run`, what is known of the VM being
  run (runnable while it runs and while its message is handled), of the lists,
  and that an error outcome only occurs outside `run`. `Messages`: the box
  holds at most one message, which the running VM sent and its system call
  checked. `Ids`: ids at or above `next_vm_id` are unused, and the root VM
  stays. Without them `TypeOK` is not inductive: a spawn could pass `MaxVms`,
  a wake-up could store an exit code that is none, a handler could index a VM
  that is none. `TypeCorrect` and `BoxDrained` follow.
* It proves two more over `Inv1`. `Inv2` is `PipeOwnership` with
  `SlotsFree` (slots not given out have no owner, so a new pipe takes nothing
  from anyone) and `ListsFresh` (the states `process_io` cloned are the current
  ones, a pair is the two ends of one pipe, closed waiters really have lost the
  other end). `ListsFresh` is needed because a partial write puts the *cloned*
  state back. It holds because an end has one owner, hence a VM is in one pair
  at most (`PairsApart`) and never in both lists. `Ownership` and the action
  property `ChangeHands` follow. `Inv3` is `JoinTargetLive` and
  `JoinReturnsExitCode` with `Exited` (a VM that can still run has no exit code,
  except the one whose exit is in progress). A VM exits once, so an exit code a
  guest was told of never changes, and the list of joiners made at the exit is
  complete: `NoLostWakeUp` and `RightExitCode`.
* And `Inv4`: `Inv1` with `Residency`, which is inductive
  as it stands. The arithmetic is in `AdmitFacts`: with room for at least two
  machines there is always one that was not asked for, the lowest of those
  exists (`LowestIs`, from well-foundedness of `<`), and replacing it keeps the
  count. A spawn needs more: the new VM is neither machine nor snapshot before,
  so it must not be the one pushed out for its spawner; it is not, because it
  has the largest id. `ResidencyHolds` and `EndsResident` follow.
* `CycleProofs` first proves `IoInv` over `Inv2`: at each point of `run`, how much IO is
  outstanding. While a VM runs, none (`Served`): every waiter's other end is
  open and no two waiters meet. When its call has been handled, at most the two
  that it brought together (`LastMeets`); when it has exited, only waiters that
  lost their other end. Hence the lists of a pass are complete and one of them
  is empty (`ListsComplete`), one transfer is enough, and a pass ends with
  nothing to do: `PassComplete`. `FreshPairs` follows. `BytesKept` adds what is
  counted at each write end against what its writer has been told. `ShortWrites`
  adds that pipes named in a reply were created, so that an end closed once
  cannot be a new one. `EmptyReads` adds that a writer that waits has bytes left
  or had none from the start (`Unfinished`). `RealDeadlocks` combines `Served` with `Inv3`, and with
  `RootDone`: only the root VM is ever left `Terminated`, after which `run` is
  over.
* It goes on to cycles with three invariants. `Charged`: cycles not yet in the total
  are the running VM's, or the load of the VM spawned last, which has the
  largest id and is runnable: `UnchargedIsNext`. `Within`: `total_cycles` and
  what is left of the limit stay within the budget until a slice passes it by
  one unchecked charge, and such a slice is the last of its call: `LimitKept`.
  `OnHold`: a VM that was cut is still the next to run, with nothing to
  transfer, through any suspension: the action property
  `PreemptionIsTransparent`.
* `VerifyProofs` proves `VerifyInv`: the invariants above, `VerifyTypes`,
  `Places` (the driver goes round its loop only with a scheduler whose root VM
  still runs) and `Spending` (how far each point is from `max_cycles` and from
  the last suspension). `StepBelow` carries the scheduler's invariants over: a
  step of the driver is a step any caller could take, or replaces the scheduler
  by a new one. `VerifyTyped` (which no run repeats), `Stopped`, `Suspends` and `FinishedReturns`
  follow. `NeverAgain` adds `GoesOn`: the driver goes round its loop only after
  an outcome that leaves a scheduler whole, and in such a one
  `MessageBoxDrained` says that the box is empty. `OkAccounts` says that the
  cycles returned with `Ok` are those of all groups only if `2 * max_cycles`
  fits in a `u64` (`SumFits`): the sum of `src/dev_utils/mod.rs:143` is not
  checked, and for larger limits it may wrap to a value that is accepted. Run
  `verify_tx` is just at that bound.
* `RefinementProofs` proves `Implements`, section 6.
* `CellProofs` proves `CellInv`: the three properties of `CellSyscalls` with
  `Progress` (where a guest is that loads a cell in chunks, and that the bounds
  of a spawn in progress were checked against its cell). The work is in
  `LoadedAt`, that `load_data` finds the cell which the definitions `GroupOf`,
  `Position` and `Cell`, stated without it, give for a source and an index, and
  returns its bytes from the offset on, and in that adjoining parts of a
  sequence make up the part from the first to the last. `WholeCell`,
  `BootsTheChecked` and `RealCells` follow.
* `InductionProofs`: the library's induction theorems take an operator, which
  no prover here can instantiate. `Induct` and `Iterates` are their form for
  sets: what is proved by induction is membership in a set, and a recursive
  function is shown to exist as a member of a set of functions. Both rest on
  `LeastOf`, every set of naturals having a least element.
* `GraphProofs` proves `GraphInv` for every tree and all writes. `Shape`: the
  parent of a node is a smaller node, so going up ends at the root. `Walk`:
  every node is visited, queued or not met yet; `SpawnedOnceHolds` follows, as
  the least node not reached would have a parent that is. `Search`: after `k`
  rounds the two sets are the nodes met in `k` steps up from either side, and
  are disjoint, so the first node met twice is the lowest common ancestor:
  `LowestAncestorHolds`. `Pipes` and `Lists`: what is passed at each spawn is
  what the edges done so far account for, along the path down from each
  ancestor; `PipesReachTheirUsersHolds` follows, since a path hands an end down
  one spawn at a time, and indices of ends are all different.
* `CodecProofs`, for `ee_encode` and its decoder: bytes are encoded to one or
  two that are not zero; decoding in place stays behind what it reads, since
  each round writes one byte for the one or two it took. `ArgvRoundTripHolds`
  and `ShortBufferIsPrefixHolds` follow, the latter because an escape is written
  whole or not at all.
* `CodecProofs`, for molecule: `DataIsSafe` and `DataCanonical` speak of every
  sequence of bytes, `DataBuilt` of every value; the theorems about `codecs`
  follow with the invariant that a slice stays a sequence of bytes. A verified
  header has offsets that rise and end at the size (`Rising`), so the parts tile
  the slice (`Tiled`) and every accessor stays inside. For strict readers the
  parts are all there is, so writing them again gives the same bytes, the
  numbers in the header included (`PackUnpack`). In the other direction, the
  offsets that the builder packs are at most the size, so they are unpacked as
  they were packed when the size is (`UnpackPack`, `TableBuilt`); each type is
  then built from those in it, from `PipeIndices` up to `Data`.

Each proof has one lemma per action or group of actions. Lemmas about
`EXCEPT` on machines (`ReplyTyped`, `OneReply`, ...) are stated for constants
and cited; `GuestSteps` reduces the many things a guest can do to two.

Only model-checked:

* `RunReturns`, `VerifyReturns` and `GraphGenerated`: liveness is out of the
  prover's reach;
* `ResultIsTheGraphs` and `NoGuestFails` of the composed `DagRun`. They hold
  where the limits leave room for the graph: ids, pipes, the contract's own
  `MAX_PIPE_COUNT` and `MAX_SPAWNED_VMS`. A proof has to order all calls of all
  guests, from the spawn that brings a pipe end to the exit that closes it.

## 6. The refinement

`VmSystem` is the scheduler as a guest would describe it. A VM is absent,
ready, or waiting to join, to read or to write; the ready VM with the largest
id takes the next step, once nothing is left to be transferred. There, an exit
with all its wake-ups and closings is one step, as is a transfer; cycles,
limits, suspension, machines and messages do not exist. What can be seen of a
run in `VmSystem` is therefore the same wherever `verify_tx` cuts and suspends
it.

`VmRefinement` maps a state of the scheduler to one of `VmSystem`. Most of it
renames (`StatusOf`). While an exit is in progress (`pc = "joiners"`) the VM
that exits, its pipes and the joiners not yet woken are shown as they will be
at its end, so that the first step of an exit is the abstract one and the rest
stutter. A failed scheduler is shown as one that has ended with nothing left:
what a failure leaves half done is never seen, because the caller drops it.

TLC checks the mapping on the instance of run `pipes`; `Implements` proves it
for all. Beyond the invariants of section 5 the proof needs `Turns`: a VM that
runs has nothing left of its last call, and when its own call is handled, or its
exit, it is still the VM whose turn it is: its slice changed no state of a VM.
That a transfer and the end of an exit come in the abstract order is `Served`
and `LastMeets` of `IoInv`. The mapping has three cases, and so has the proof:
a plain state (`InPlain`), an exit in progress (`InExit`) and a failed
scheduler. For each action one lemma says which abstract step it is
(`TransferStep`, `SpawnStep`, `ExitStep`, ...) or that it is not seen
(`WakeUnseen`, `QuietUnseen`, ...).

`VmSystem`'s definitions are stated from what the handlers promise and are not
in the map.

## 7. Not modelled

* Contents of guest memory, except what `DagContract` keeps of its own; hence
  not what snapshots restore (`track_pages`, `mark_program`), which is inside
  ckb-vm, and not the comparison of the bytes read in `main.c`.
* `create_dummy_vm` (it wires ckb-vm together), the wording of errors, logging,
  `FullSuspendedState::size` (only logged), formatting in `dag.rs`.
* `ee_decode` (nothing calls it), `dag.h` (generated from the same schema as
  `dag.rs`), `tx_verifier.rs` (reads a file and calls `verify_tx`).
* Resolving a transaction and grouping its scripts (ckb-script); the random
  hashes in `build_mock_tx`, which nothing reads.
* Liveness of the composed `DagRun`: `verify_tx` shows it for arbitrary
  guests, of which the contract is one.

## 8. Plan

What is left concerns `DagRun`. First, that its steps on the scheduler are steps
of `VerifyTx`, so that the theorems of section 5 hold for it too. This needs an
invariant on the contract's memory: the ids it holds are of pipes, of the
direction their index in `dag::Data` says (`PipesReachTheirUsersHolds`), through
`argv` too (`ArgvRoundTripHolds`); and `SelectSeq`, a recursive function, written
as `children_upto` is in `DataGraph`. Then `NoGuestFails`, under limits stated as
assumptions.
