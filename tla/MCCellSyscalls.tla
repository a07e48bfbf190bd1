--------------------------- MODULE MCCellSyscalls ---------------------------
(* Model checking of CellSyscalls: the transactions explored.  Their bytes *)
(* are all different, so that a byte shows where it was read from.         *)
EXTENDS CellSyscalls

McTx(inputs, outputs, in_group, out_group) ==
    [program |-> <<7, 8>>, resolved_inputs |-> inputs, outputs_data |-> outputs,
     resolved_cell_deps |-> << <<1, 2, 3>> >>,
     input_indices |-> in_group, output_indices |-> out_group]

(* Script groups that name a cell, none, the second of two, and one that   *)
(* is not there; cells that are empty, and one the data loader has not.    *)
McTxs ==
    {McTx(<< <<>>, <<4, 5>> >>, << <<6>> >>, <<1>>, <<>>),
     McTx(<< <<4, 5, 6, 9>>, Missing >>, << <<>>, <<10, 11>> >>, <<0, 1>>, <<1>>),
     McTx(<< >>, << <<12, 13, 14>> >>, <<0>>, <<2, 0>>)}

=============================================================================
