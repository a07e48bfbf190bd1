---------------------------- MODULE MCScheduler ----------------------------
(***************************************************************************)
(* Small instances of the scheduler for TLC; the constants are in the cfgs.*)
(***************************************************************************)
EXTENDS VmRefinement

=============================================================================
