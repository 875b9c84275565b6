------------------------------ MODULE MCTracking ------------------------------
(* The instance of Tracking.                                               *)
EXTENDS Tracking, TLC
CONSTANTS m1, m2, kalshi, poly, t1

Alike == Permutations({m1, m2}) \cup Permutations({kalshi, poly})
=============================================================================
