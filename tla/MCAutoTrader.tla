---------------------------- MODULE MCAutoTrader ----------------------------
(* Instances of AutoTrader for TLC.                                        *)
EXTENDS AutoTrader, TLC

CONSTANTS k1, k2, m1

TwoMarkets == <<k2, k1>>
SecondMarket == [m \in Manual |-> k2]
=============================================================================
