----------------------------- MODULE MCVerifyTx -----------------------------
(* Model checking of VerifyTx; the constants are in VerifyTx*.cfg. *)
EXTENDS VerifyTx

=============================================================================
