--------------------------- MODULE MCMentionTrading ---------------------------
(* The instance of MentionTrading: one market, two positions, two orders.  *)
EXTENDS MentionTrading, TLC
CONSTANTS k1, p1, p2, o1, o2

OneEvent == k1 :> "event"
TightCaps == [market |-> 4, event |-> 6, day |-> 6, total |-> 6, rows |-> 2]
Losing == {-1}
Renamed == Permutations({p1, p2}) \cup Permutations({o1, o2})
=============================================================================
