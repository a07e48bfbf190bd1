---------------------------- MODULE MCDataGraph ----------------------------
(* Model checking of DataGraph; the constants are in DataGraph.cfg. *)
EXTENDS DataGraph

=============================================================================
