------------------------------ MODULE MCDagRun ------------------------------
(* Model checking of DagRun; the constants are in DagRun.cfg. *)
EXTENDS DagRun

=============================================================================
