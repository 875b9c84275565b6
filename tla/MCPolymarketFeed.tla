--------------------------- MODULE MCPolymarketFeed ---------------------------
(* The instances of PolymarketFeed: s1 is quoted, s2 and s3 only subscribe.  *)
EXTENDS PolymarketFeed, TLC
CONSTANTS s1, s2, s3
OthersAlike == Permutations({s2, s3})
=============================================================================
