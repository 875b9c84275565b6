-------------------------- MODULE MCPairedExecution --------------------------
(* Instances of PairedExecution for TLC.                                   *)
EXTENDS PairedExecutionInv, TLC

CONSTANTS a1, a2, s1, s2

\* every attempt on its own market, or both on one
OwnSlug == [a \in Attempts |-> IF a = a1 THEN s1 ELSE s2]
OneSlug == [a \in Attempts |-> s1]
=============================================================================
