----------------------------- MODULE MCKalshiFeed -----------------------------
(* The instance of KalshiFeed: one ticker, two changes, two connections.   *)
EXTENDS KalshiFeed, TLC
CONSTANTS t1, t2
=============================================================================
