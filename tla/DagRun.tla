------------------------------- MODULE DagRun -------------------------------
(***************************************************************************)
(* The whole system as examples/dag_generator.rs and the tests put it      *)
(* together: generate_data_graph makes a dag::Data, build_mock_tx puts it  *)
(* in a transaction with the test contract, and verify_tx runs that.       *)
(***************************************************************************)
EXTENDS VerifyTx, DagContract, DataSource

Elf == <<127>>   \* the test contract

(* What load_data can see of the transaction: one cell dep, the program;   *)
(* one input, locked by it; one output.  Neither has data.                 *)
build_mock_tx(program) ==
    [program |-> program, resolved_inputs |-> << <<>> >>, outputs_data |-> << <<>> >>,
     resolved_cell_deps |-> <<program>>, input_indices |-> <<0>>, output_indices |-> <<>>]

mock_tx == build_mock_tx(Elf)

(* The contract's spawn(0, CKB_SOURCE_CELL_DEP, 0) names the program. *)
ASSUME SpawnsItself == load_data(mock_tx, try_from("cell_dep", 0), 0, 0).bytes = Elf

(* The input's lock is the only script that runs. *)
ASSUME OneGroup == Groups = 1

run_vars == <<verify_vars, graph_vars, guest>>

RunInit == VerifyInit /\ GraphInit /\ ContractInit

(* The program is an ELF, so it loads. *)
verify == verify_tx /\ (vpc = "run" => outcome' # "Error")

RunNext ==
    \/ generate_data_graph /\ UNCHANGED <<verify_vars, guest>>
    \/ Generated /\ verify /\ UNCHANGED <<graph_vars, guest>>
    \/ (Contract \/ hosted) /\ UNCHANGED <<driver, graph_vars>>
    \/ finished /\ UNCHANGED <<graph_vars, guest>>

RunSpec == RunInit /\ [][RunNext]_run_vars

-----------------------------------------------------------------------------
(* Properties *)

(* What the calls of all VMs together cost: for each VM its loading, the   *)
(* witness and its exit; for each pipe pair, spawn with its join, and      *)
(* write with its read, the instructions before them.                      *)
Cost ==
    LET step == Work * MaxTrace
        charge == CHOOSE c \in Charges : TRUE
    IN  (GraphSpawns + 1) * (LoadCycles + charge + 2 * step)
          + step * (Len(data.pipes) + 2 * Len(data.spawns) + 2 * Len(data.writes))

(* The tests assert that every generated graph succeeds.  More than that,  *)
(* the result is the graph's alone: the verdict and the cycles returned    *)
(* do not depend on where verify_tx cuts the slices, how often it suspends *)
(* and resumes the scheduler, or which VMs are snapshots when.             *)
ResultIsTheGraphs ==
    /\ pc # "panicked"
    /\ vpc = "returned" => /\ verdict = "Ok" <=> Cost <= args.max
                           /\ verdict = "Ok" => consumed = Cost

(* A VM of the contract never finds a pipe it needs missing, closed or in  *)
(* another VM's hands, nor a child that failed, while the rest goes on.    *)
NoGuestFails == \A v \in VmId : Live(v) => guest[v].ret = 0

=============================================================================
