------------------------------ MODULE MCLifecycle ------------------------------
(* The instance of Lifecycle.                                              *)
EXTENDS Lifecycle
CONSTANTS m1, m2
=============================================================================
