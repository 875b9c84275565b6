------------------------ MODULE MentionTradingProofs ------------------------
(***************************************************************************)
(* Proofs about MentionTrading, for any markets, positions, orders, caps,  *)
(* loss limit and bounds.                                                  *)
(***************************************************************************)
EXTENDS MentionTrading, FiniteSetTheorems, WellFoundedInduction, TLAPS

-----------------------------------------------------------------------------
(* Sums over finite sets.  What SumFunctionOnSet computes is proved with a  *)
(* least set for which it would be false.                                  *)

\* Every set of finite sets has a least one.
LEMMA LeastSet ==
  ASSUME NEW S, IsFiniteSet(S), NEW B, B \subseteq SUBSET S, B # {}
  PROVE  \E T \in B : \A U \in SUBSET T : U # T => U \notin B
<1>1. IsWellFoundedOn(StrictSubsetOrdering(S), FiniteSubsetsOf(S))
  BY FS_StrictSubsetOrderingWellFounded
<1>2. B \subseteq FiniteSubsetsOf(S)
  BY FS_FiniteSubsetsOfFinite
<1>3. PICK T \in B : \A U \in B : <<U, T>> \notin StrictSubsetOrdering(S)
  BY <1>1, <1>2, WFMin
<1>4. \A U \in SUBSET T : U # T => U \notin B
  BY <1>3 DEF StrictSubsetOrdering
<1> QED BY <1>4

\* The recursion of a sum over the subsets of S.
First(T) == CHOOSE x \in T : TRUE
Adds(g, f, S) ==
  g = [T \in SUBSET S |-> IF T = {} THEN 0 ELSE f[First(T)] + g[T \ {First(T)}]]

LEMMA FirstIsElement == ASSUME NEW T, T # {} PROVE First(T) \in T
BY DEF First

LEMMA SumIsChosen ==
  ASSUME NEW f, NEW S
  PROVE  SumFunctionOnSet(f, S) = (CHOOSE g : Adds(g, f, S))[S]
BY DEF SumFunctionOnSet, FoldFunctionOnSet, MapThenFoldSet, Adds, First

LEMMA AddsStep ==
  ASSUME NEW f, NEW S, NEW g, Adds(g, f, S), NEW T \in SUBSET S
  PROVE  g[T] = IF T = {} THEN 0 ELSE f[First(T)] + g[T \ {First(T)}]
BY DEF Adds

LEMMA AddsUnique ==
  ASSUME NEW f, NEW S, NEW T, NEW g, NEW h, Adds(g, f, S), Adds(h, f, T),
         NEW U, U \subseteq S, U \subseteq T, IsFiniteSet(U)
  PROVE  g[U] = h[U]
<1> DEFINE B == {V \in SUBSET U : g[V] # h[V]}
<1>1. SUFFICES ASSUME B # {} PROVE FALSE
  OBVIOUS
<1>2. B \subseteq SUBSET U
  OBVIOUS
<1>3. PICK V \in B : \A W \in SUBSET V : W # V => W \notin B
  <2> HIDE DEF B
  <2> QED BY <1>1, <1>2, LeastSet
<1>4. V \in SUBSET S /\ V \in SUBSET T /\ V \in SUBSET U
  BY <1>3
<1>5. g[V] = IF V = {} THEN 0 ELSE f[First(V)] + g[V \ {First(V)}]
  BY <1>4, AddsStep
<1>6. h[V] = IF V = {} THEN 0 ELSE f[First(V)] + h[V \ {First(V)}]
  BY <1>4, AddsStep
<1>7. V # {} => g[V \ {First(V)}] = h[V \ {First(V)}]
  BY <1>3, <1>4, FirstIsElement
<1> QED BY <1>3, <1>5, <1>6, <1>7

LEMMA AddsExists ==
  ASSUME NEW f, NEW S, IsFiniteSet(S)
  PROVE  \E g : Adds(g, f, S)
<1> DEFINE B == {T \in SUBSET S : ~ \E g : Adds(g, f, T)}
<1>1. SUFFICES ASSUME B # {} PROVE FALSE
  OBVIOUS
<1>2. B \subseteq SUBSET S
  OBVIOUS
<1>3. PICK T \in B : \A U \in SUBSET T : U # T => U \notin B
  <2> HIDE DEF B
  <2> QED BY <1>1, <1>2, LeastSet
<1>4. IsFiniteSet(T)
  BY <1>2, FS_Subset
<1> DEFINE G(U) == CHOOSE g : Adds(g, f, U)
           r(U) == U \ {First(U)}
           h == [U \in SUBSET T |-> IF U = {} THEN 0 ELSE f[First(U)] + G(r(U))[r(U)]]
<1>5. \A U \in SUBSET T : U # T => Adds(G(U), f, U)
  BY <1>2, <1>3
<1>6. \A U \in SUBSET T : h[U] = IF U = {} THEN 0 ELSE f[First(U)] + G(r(U))[r(U)]
  OBVIOUS
<1>7. \A U \in SUBSET T : U # {} => r(U) \in SUBSET T /\ r(U) # T /\ IsFiniteSet(r(U))
  BY <1>4, FirstIsElement, FS_Subset
<1>8. h = [U \in SUBSET T |-> h[U]]
  OBVIOUS
<1> HIDE DEF G, h
<1>9. ASSUME NEW V \in SUBSET T, V # T PROVE h[V] = G(V)[V]
  <2>1. G(V)[V] = IF V = {} THEN 0 ELSE f[First(V)] + G(V)[r(V)]
    BY <1>5, <1>9, AddsStep
  <2>2. ASSUME V # {} PROVE G(V)[r(V)] = G(r(V))[r(V)]
    <3>1. Adds(G(V), f, V) /\ Adds(G(r(V)), f, r(V)) /\ r(V) \subseteq V /\ IsFiniteSet(r(V))
      BY <1>5, <1>7, <1>9, <2>2
    <3> QED BY <3>1, AddsUnique
  <2> QED BY <1>6, <2>1, <2>2
<1>10. \A U \in SUBSET T : h[U] = IF U = {} THEN 0 ELSE f[First(U)] + h[r(U)]
  BY <1>6, <1>7, <1>9
<1>11. h = [U \in SUBSET T |-> IF U = {} THEN 0 ELSE f[First(U)] + h[r(U)]]
  BY <1>8, <1>10
<1>12. Adds(h, f, T)
  BY <1>11 DEF Adds
<1> QED BY <1>3, <1>12

LEMMA SumAdds ==
  ASSUME NEW f, NEW S, IsFiniteSet(S)
  PROVE  \E g : Adds(g, f, S) /\ \A T \in SUBSET S : SumFunctionOnSet(f, T) = g[T]
<1> DEFINE G(U) == CHOOSE g : Adds(g, f, U)
<1>1. \A T \in SUBSET S : Adds(G(T), f, T) /\ IsFiniteSet(T)
  BY AddsExists, FS_Subset
<1>2. \A T \in SUBSET S : SumFunctionOnSet(f, T) = G(T)[T]
  BY SumIsChosen
<1> HIDE DEF G
<1>3. ASSUME NEW T \in SUBSET S PROVE G(T)[T] = G(S)[T]
  BY <1>1, AddsUnique
<1> QED BY <1>1, <1>2, <1>3

LEMMA SumOfNone == ASSUME NEW f PROVE SumFunctionOnSet(f, {}) = 0
<1>1. PICK g : Adds(g, f, {}) /\ \A T \in SUBSET {} : SumFunctionOnSet(f, T) = g[T]
  BY SumAdds, FS_EmptySet
<1> QED BY <1>1, AddsStep

LEMMA SumStep ==
  ASSUME NEW f, NEW S, IsFiniteSet(S), S # {}
  PROVE  SumFunctionOnSet(f, S) = f[First(S)] + SumFunctionOnSet(f, S \ {First(S)})
<1>1. PICK g : Adds(g, f, S) /\ \A T \in SUBSET S : SumFunctionOnSet(f, T) = g[T]
  BY SumAdds
<1>2. S \in SUBSET S /\ S \ {First(S)} \in SUBSET S
  OBVIOUS
<1>3. g[S] = f[First(S)] + g[S \ {First(S)}]
  BY <1>1, <1>2, AddsStep
<1> QED BY <1>1, <1>2, <1>3

LEMMA SumType ==
  ASSUME NEW f, NEW S, IsFiniteSet(S), \A x \in S : f[x] \in Int
  PROVE  SumFunctionOnSet(f, S) \in Int
<1> DEFINE B == {T \in SUBSET S : SumFunctionOnSet(f, T) \notin Int}
<1>1. SUFFICES ASSUME B # {} PROVE FALSE
  OBVIOUS
<1>2. B \subseteq SUBSET S
  OBVIOUS
<1>3. PICK T \in B : \A U \in SUBSET T : U # T => U \notin B
  <2> HIDE DEF B
  <2> QED BY <1>1, <1>2, LeastSet
<1>4. T # {}
  BY <1>3, SumOfNone
<1>5. IsFiniteSet(T) /\ First(T) \in S
  BY <1>2, <1>4, FS_Subset, FirstIsElement
<1>6. SumFunctionOnSet(f, T \ {First(T)}) \in Int
  BY <1>2, <1>3, <1>4, FirstIsElement
<1>7. SumFunctionOnSet(f, T) \in Int
  BY <1>4, <1>5, <1>6, SumStep
<1> QED BY <1>3, <1>7

\* Any element may be taken out first.
LEMMA SumOut ==
  ASSUME NEW f, NEW S, IsFiniteSet(S), \A x \in S : f[x] \in Int, NEW y \in S
  PROVE  SumFunctionOnSet(f, S) = f[y] + SumFunctionOnSet(f, S \ {y})
<1> DEFINE sum(T) == SumFunctionOnSet(f, T)
           B == {T \in SUBSET S : \E z \in T : sum(T) # f[z] + sum(T \ {z})}
<1>1. SUFFICES ASSUME B # {} PROVE FALSE
  OBVIOUS
<1>2. B \subseteq SUBSET S
  OBVIOUS
<1>3. PICK T \in B : \A U \in SUBSET T : U # T => U \notin B
  <2> HIDE DEF B
  <2> QED BY <1>1, <1>2, LeastSet
<1>4. PICK z \in T : sum(T) # f[z] + sum(T \ {z})
  BY <1>3
<1> DEFINE x == First(T)
<1>5. x \in T /\ IsFiniteSet(T) /\ x \in S /\ z \in S
  BY <1>2, <1>4, FirstIsElement, FS_Subset
<1>6. sum(T) = f[x] + sum(T \ {x})
  BY <1>4, <1>5, SumStep
<1>7. x # z
  BY <1>4, <1>6
<1> HIDE DEF x, sum
<1>8. sum(T \ {x}) = f[z] + sum((T \ {x}) \ {z})
  BY <1>2, <1>3, <1>4, <1>5, <1>7
<1>9. sum(T \ {z}) = f[x] + sum((T \ {z}) \ {x})
  BY <1>2, <1>3, <1>4, <1>5, <1>7
<1>10. (T \ {x}) \ {z} = (T \ {z}) \ {x}
  OBVIOUS
<1>11. sum((T \ {x}) \ {z}) \in Int /\ f[x] \in Int /\ f[z] \in Int
  <2>1. (T \ {x}) \ {z} \in SUBSET S
    BY <1>2
  <2>2. \A u \in (T \ {x}) \ {z} : f[u] \in Int
    BY <2>1
  <2> QED BY <1>5, <2>1, <2>2, SumType, FS_Subset DEF sum
<1>12. sum(T \ {z}) = f[x] + sum((T \ {x}) \ {z})
  BY <1>9, <1>10
<1>13. f[z] + sum(T \ {z}) = f[x] + (f[z] + sum((T \ {x}) \ {z}))
  BY <1>11, <1>12
<1>14. sum(T) = f[z] + sum(T \ {z})
  BY <1>6, <1>8, <1>13
<1> QED BY <1>4, <1>14

LEMMA SumIn ==
  ASSUME NEW f, NEW S, IsFiniteSet(S), NEW y, y \notin S, \A x \in S \cup {y} : f[x] \in Int
  PROVE  SumFunctionOnSet(f, S \cup {y}) = f[y] + SumFunctionOnSet(f, S)
<1>1. IsFiniteSet(S \cup {y}) /\ (S \cup {y}) \ {y} = S /\ y \in S \cup {y}
  BY FS_AddElement
<1>2. SumFunctionOnSet(f, S \cup {y}) = f[y] + SumFunctionOnSet(f, (S \cup {y}) \ {y})
  BY <1>1, SumOut
<1> QED BY <1>1, <1>2

LEMMA SumNat ==
  ASSUME NEW f, NEW S, IsFiniteSet(S), \A x \in S : f[x] \in Nat
  PROVE  SumFunctionOnSet(f, S) \in Nat
<1> DEFINE B == {T \in SUBSET S : SumFunctionOnSet(f, T) \notin Nat}
<1>1. SUFFICES ASSUME B # {} PROVE FALSE
  OBVIOUS
<1>2. B \subseteq SUBSET S
  OBVIOUS
<1>3. PICK T \in B : \A U \in SUBSET T : U # T => U \notin B
  <2> HIDE DEF B
  <2> QED BY <1>1, <1>2, LeastSet
<1>4. T # {}
  <2>1. SumFunctionOnSet(f, {}) \in Nat
    BY SumOfNone
  <2> QED BY <1>3, <2>1
<1>5. IsFiniteSet(T) /\ First(T) \in S
  BY <1>2, <1>4, FS_Subset, FirstIsElement
<1>6. SumFunctionOnSet(f, T \ {First(T)}) \in Nat
  BY <1>2, <1>3, <1>4, FirstIsElement
<1>7. SumFunctionOnSet(f, T) \in Nat
  BY <1>4, <1>5, <1>6, SumStep
<1> QED BY <1>3, <1>7

\* Fewer elements with smaller values have a smaller sum.
LEMMA SumGrows ==
  ASSUME NEW g, NEW T, NEW f, NEW S, IsFiniteSet(S), T \subseteq S,
         \A x \in S : f[x] \in Nat, \A x \in T : g[x] \in Nat /\ g[x] <= f[x]
  PROVE  SumFunctionOnSet(g, T) <= SumFunctionOnSet(f, S)
<1> DEFINE small(V) == SumFunctionOnSet(g, T \cap V)
           large(V) == SumFunctionOnSet(f, V)
           B == {V \in SUBSET S : ~(small(V) <= large(V))}
<1>1. SUFFICES ASSUME B # {} PROVE FALSE
  <2>1. T \cap S = T
    OBVIOUS
  <2> QED BY <1>1, <2>1
<1>2. B \subseteq SUBSET S
  OBVIOUS
<1>3. PICK V \in B : \A U \in SUBSET V : U # V => U \notin B
  <2> HIDE DEF B
  <2> QED BY <1>1, <1>2, LeastSet
<1>4. V # {}
  <2>1. small({}) = 0 /\ large({}) = 0
    <3>1. T \cap {} = {}
      OBVIOUS
    <3> QED BY <3>1, SumOfNone
  <2>2. {} \notin B
    BY <2>1
  <2> QED BY <1>3, <2>2
<1>5. PICK y \in V : TRUE
  BY <1>4
<1>6. V \subseteq S /\ ~(small(V) <= large(V)) /\ small(V \ {y}) <= large(V \ {y})
  BY <1>3
<1>7. IsFiniteSet(V) /\ IsFiniteSet(T \cap V) /\ IsFiniteSet(V \ {y}) /\ IsFiniteSet(T \cap (V \ {y}))
  BY <1>6, FS_Subset
<1>8. large(V) = f[y] + large(V \ {y})
  <2>1. \A x \in V : f[x] \in Int
    BY <1>6
  <2> QED BY <1>5, <1>7, <2>1, SumOut
<1>9. large(V \ {y}) \in Nat
  <2>1. \A x \in V \ {y} : f[x] \in Nat
    BY <1>6
  <2> QED BY <1>7, <2>1, SumNat
<1>10. small(V \ {y}) \in Nat
  <2>1. \A x \in T \cap (V \ {y}) : g[x] \in Nat
    BY <1>6
  <2> QED BY <1>7, <2>1, SumNat
<1>11. CASE y \in T
  <2>1. (T \cap V) \ {y} = T \cap (V \ {y}) /\ y \in T \cap V /\ \A x \in T \cap V : g[x] \in Int
    BY <1>5, <1>11
  <2>2. SumFunctionOnSet(g, T \cap V) = g[y] + SumFunctionOnSet(g, (T \cap V) \ {y})
    BY <1>7, <2>1, SumOut
  <2>3. small(V) = g[y] + small(V \ {y})
    BY <2>1, <2>2
  <2>4. g[y] \in Nat /\ f[y] \in Nat /\ g[y] <= f[y]
    BY <1>5, <1>6, <1>11
  <2> HIDE DEF small, large
  <2> QED BY <1>6, <1>8, <1>9, <1>10, <2>3, <2>4
<1>12. CASE y \notin T
  <2>1. T \cap V = T \cap (V \ {y})
    BY <1>12
  <2>2. small(V) = small(V \ {y}) /\ f[y] \in Nat
    BY <1>5, <1>6, <2>1
  <2> HIDE DEF small, large
  <2> QED BY <1>6, <1>8, <1>9, <1>10, <2>2
<1> QED BY <1>11, <1>12

LEMMA SumSame ==
  ASSUME NEW g, NEW f, NEW S, IsFiniteSet(S), \A x \in S : f[x] \in Nat /\ g[x] = f[x]
  PROVE  SumFunctionOnSet(g, S) = SumFunctionOnSet(f, S)
<1>1. /\ S \subseteq S
      /\ \A x \in S : f[x] \in Nat /\ g[x] \in Nat /\ g[x] <= f[x] /\ f[x] <= g[x]
  OBVIOUS
<1>2. SumFunctionOnSet(g, S) <= SumFunctionOnSet(f, S)
  BY <1>1, SumGrows
<1>3. SumFunctionOnSet(f, S) <= SumFunctionOnSet(g, S)
  BY <1>1, SumGrows
<1>4. SumFunctionOnSet(g, S) \in Nat /\ SumFunctionOnSet(f, S) \in Nat
  BY <1>1, SumNat
<1> QED BY <1>2, <1>3, <1>4

LEMMA SumOfOne ==
  ASSUME NEW f, NEW y, f[y] \in Int PROVE SumFunctionOnSet(f, {y}) = f[y]
<1>1. SumFunctionOnSet(f, {} \cup {y}) = f[y] + SumFunctionOnSet(f, {})
  BY SumIn, FS_EmptySet
<1>2. {} \cup {y} = {y}
  OBVIOUS
<1> QED BY <1>1, <1>2, SumOfNone

-----------------------------------------------------------------------------
(* What the program knows while it asks.                                   *)

Used == {o \in Orders : intents[o].status # "none"}
Asking == pc \in {"reply", "confirm"}
Buying == Asking /\ intents[cur].action = "buy"
Selling == Asking /\ intents[cur].action = "sell"
Ended == {"closed", "settled", "rejected"}

\* What the lists of the phases and the intents refer to.
TaskInv ==
  /\ \A o \in Used : intents[o].row \in Ids /\ rows[intents[o].row].status # "none"
  /\ pc = "intents" => todo \subseteq UnresolvedIntents
  /\ pc \in {"rows", "outcomes", "exits"} \/ Selling =>
       todo \subseteq Ids /\ \A p \in todo : rows[p].status # "none"
  /\ Buying => todo \subseteq Markets /\ intents[cur].row \in UnresolvedRows
  /\ Asking => cur \in UnresolvedIntents

\* What is known about the losses of the day while the poll goes on.
LossInv ==
  \/ waived
  \/ /\ pc = "liveLoss" => breaker # "none" \/ pnl["paper"] > -LossLimit
     /\ pc = "policy" => breaker # "none" \/ \A b \in Books : pnl[b] > -LossLimit
     /\ pc = "entries" \/ Buying => \A b \in Books : pnl[b] > -LossLimit

\* What an order whose end is not known says about its row.
AskedRow(o) ==
  LET row == rows[intents[o].row]
  IN  /\ row.market \notin resulted
      /\ intents[o].action = "sell" => row.status = "open"
      /\ intents[o].action = "buy" =>
           \/ row.status \in OpenStatus
           \/ row.status = "rejected" /\ venue[o] = [at |-> "done", filled |-> 0]

BooksInv ==
  /\ \A p \in Ids : rows[p].status \in Ended => rows[p].remaining = 0
  /\ \A o, q \in Used :
       intents[o].row = intents[q].row /\ intents[o].action = "buy"
         /\ intents[q].action = "buy" => o = q
  /\ \A o, q \in UnresolvedIntents : intents[o].row = intents[q].row => o = q
  /\ \A o \in UnresolvedIntents : AskedRow(o)

\* The rows on a list may be written when their turn comes.
ListInv ==
  /\ pc = "rows" => \A p \in todo : rows[p].status \in Pending
  /\ pc = "exits" \/ Selling => \A p \in todo : rows[p].status = "open"
  /\ Selling => intents[cur].row \notin todo

\* ... and those to be sold have no order whose end is not known.
FreeInv ==
  pc = "exits" \/ Selling =>
    \A p \in todo : \A o \in UnresolvedIntents : intents[o].row # p

OrderInv == BooksInv /\ ListInv /\ FreeInv

\* What the program depends on: both writes of an exit are made, a look-up
\* gives the fill, the unresolved orders can be read before the exits, and no
\* market is over while an order in it is unresolved.
SoundAnswers ==
  /\ "exit" \notin Torn /\ "lookup" \notin Garbled /\ "orders" \notin FailOpen
  /\ ~SettlesUnresolved

-----------------------------------------------------------------------------
(* What the writes do to a row and an intent.                              *)

LEMMA SetIntentEffect ==
  ASSUME TypeOK, NEW w, NEW o \in Orders, NEW s \in Pending \cup {"filled", "rejected"},
         SetIntent(w, o, s)
  PROVE  /\ intents' \in [Orders -> Intents]
         /\ \A q \in Orders \ {o} : intents'[q] = intents[q]
         /\ intents'[o].row = intents[o].row /\ intents'[o].action = intents[o].action
         /\ intents'[o].contracts = intents[o].contracts
         /\ intents'[o].status = IF "intent" \in w THEN s ELSE intents[o].status
<1>1. intents \in [Orders -> Intents]
  BY DEF TypeOK
<1>2. intents' = IF "intent" \in w THEN [intents EXCEPT ![o].status = s] ELSE intents
  BY DEF SetIntent
<1>3. QED
  BY <1>1, <1>2 DEF Intents

LEMMA AckRowEffect ==
  ASSUME TypeOK, NEW w, NEW p \in Ids, NEW n \in Nat, NEW s \in OpenStatus \cup {"rejected"},
         AckRow(w, p, n, s)
  PROVE  /\ rows' \in [Ids -> Rows]
         /\ \A q \in Ids \ {p} : rows'[q] = rows[q]
         /\ rows'[p].book = rows[p].book /\ rows'[p].market = rows[p].market
         /\ "row" \in w => rows'[p].status = s
         /\ "row" \in w /\ s \notin Pending => rows'[p].remaining = n /\ rows'[p].contracts = n
         /\ s \in Pending => rows'[p].remaining = rows[p].remaining /\ rows'[p].contracts = rows[p].contracts
         /\ "row" \notin w => rows'[p] = rows[p]
<1>1. rows[p] \in Rows
  BY DEF TypeOK
<1>2. /\ Ack(rows[p], n, s) \in Rows
      /\ Ack(rows[p], n, s).book = rows[p].book /\ Ack(rows[p], n, s).market = rows[p].market
      /\ Ack(rows[p], n, s).status = s
      /\ s \notin Pending => Ack(rows[p], n, s).remaining = n /\ Ack(rows[p], n, s).contracts = n
      /\ s \in Pending => /\ Ack(rows[p], n, s).remaining = rows[p].remaining
                          /\ Ack(rows[p], n, s).contracts = rows[p].contracts
  BY <1>1 DEF Ack, Rows, OpenStatus, Pending
<1>3. rows' = IF "row" \in w THEN [rows EXCEPT ![p] = Ack(rows[p], n, s)] ELSE rows
  BY DEF AckRow
<1>4. QED
  BY <1>1, <1>2, <1>3 DEF TypeOK

Costs == [vwap : Nat, fees : Nat]

LEMMA AckCostEffect ==
  ASSUME TypeOK, NEW w, NEW p \in Ids, NEW s, NEW prices \in SUBSET Nat,
         AckCost(w, p, s, prices)
  PROVE  /\ costs' \in [Ids -> Costs]
         /\ \A q \in Ids \ {p} : costs'[q] = costs[q]
         /\ costs'[p].fees <= costs[p].fees
         /\ "row" \notin w \/ s # "open" \/ prices = KeptPrice(p) => costs'[p].vwap = costs[p].vwap
<1>1. costs \in [Ids -> Costs] /\ costs[p] \in Costs
  BY DEF TypeOK, Costs
<1>2. CASE "row" \notin w
  BY <1>1, <1>2 DEF AckCost, Costs
<1>3. CASE "row" \in w /\ s # "open"
  BY <1>1, <1>3 DEF AckCost, Costs
<1>4. CASE "row" \in w /\ s = "open"
  <2>1. PICK vwap \in prices : costs' = [costs EXCEPT ![p].vwap = vwap]
    BY <1>4 DEF AckCost
  <2>2. prices = KeptPrice(p) => vwap = costs[p].vwap
    BY <2>1 DEF KeptPrice
  <2> QED BY <1>1, <1>4, <2>1, <2>2 DEF Costs
<1> QED BY <1>2, <1>3, <1>4

LEMMA BookEffect ==
  ASSUME TypeOK, NEW p \in Ids, NEW n \in Nat, Book(p, n)
  PROVE  /\ pnl' \in [Books -> Int] /\ booked' \in [Ids -> Nat]
         /\ booked'[p] = booked[p] + n /\ \A q \in Ids \ {p} : booked'[q] = booked[q]
<1>1. /\ booked' \in [Ids -> Nat]
      /\ booked'[p] = booked[p] + n /\ \A q \in Ids \ {p} : booked'[q] = booked[q]
  BY DEF Book, TypeOK
<1>2. PICK g \in Moves : pnl' = [pnl EXCEPT ![rows[p].book] = @ + n * g]
  BY DEF Book
<1>3. rows[p].book \in Books /\ n * g \in Int
  BY <1>2, BooksAssumption DEF TypeOK, Rows
<1>4. pnl' \in [Books -> Int]
  BY <1>2, <1>3 DEF TypeOK
<1>5. QED
  BY <1>1, <1>4

LEMMA CloseRowEffect ==
  ASSUME TypeOK, NEW p \in Ids, NEW n \in Nat, CloseRow(p, n)
  PROVE  /\ rows' \in [Ids -> Rows]
         /\ pnl' \in [Books -> Int] /\ booked' \in [Ids -> Nat]
         /\ \A q \in Ids \ {p} : rows'[q] = rows[q]
         /\ rows'[p].book = rows[p].book /\ rows'[p].market = rows[p].market
         /\ \/ rows'[p].status = "open"
            \/ rows'[p].status = "closed" /\ rows'[p].remaining = 0
         /\ rows'[p].remaining = IF rows[p].remaining > n THEN rows[p].remaining - n ELSE 0
         /\ rows'[p].contracts = rows[p].contracts
         /\ booked'[p] = booked[p] + n /\ \A q \in Ids \ {p} : booked'[q] = booked[q]
<1>1. rows[p] \in Rows /\ rows[p].remaining \in Nat
  BY DEF TypeOK, Rows
<1>2. (IF rows[p].remaining > n THEN rows[p].remaining - n ELSE 0) \in Nat
  BY <1>1
<1>3. /\ pnl' \in [Books -> Int] /\ booked' \in [Ids -> Nat]
      /\ booked'[p] = booked[p] + n /\ \A q \in Ids \ {p} : booked'[q] = booked[q]
  BY BookEffect DEF CloseRow
<1> DEFINE left == IF rows[p].remaining > n THEN rows[p].remaining - n ELSE 0
           state == IF rows[p].remaining = n THEN "closed" ELSE "open"
           row == [rows[p] EXCEPT !.remaining = left, !.status = state]
<1>4. row \in Rows /\ row.book = rows[p].book /\ row.market = rows[p].market
      /\ row.status = state /\ row.remaining = left /\ row.contracts = rows[p].contracts
  BY <1>1, <1>2 DEF Rows, OpenStatus
<1>5. rows' = [rows EXCEPT ![p] = row]
  BY DEF CloseRow, TypeOK
<1>6. state = "open" \/ (state = "closed" /\ left = 0)
  BY <1>1
<1> HIDE DEF row, state
<1>7. QED
  BY <1>3, <1>4, <1>5, <1>6 DEF TypeOK

-----------------------------------------------------------------------------
(* Whatever the program learns about an order, it writes one of these.     *)

\* A fill that is found is no more than the order's, and exactly that unless
\* look-ups may be nonsense.
FilledExactly(o, n) ==
  /\ n <= venue[o].filled
  /\ "lookup" \notin Garbled => venue[o] = [at |-> "done", filled |-> n]

\* What an exit books: the fill, or nothing when the answer was no number.
TellsExit(o, n) ==
  "lookup" \notin Garbled =>
    venue[o].at = "done" /\ (n = venue[o].filled \/ (n = 0 /\ "sell" \in Garbled))

LearnEntry(o) ==
  /\ intents[o].action = "buy"
  /\ \E w \in SUBSET Both :
       \/ \E n \in Nat, prices \in SUBSET Nat :
            FilledExactly(o, n) /\ AcceptEntry(w, o, n, prices)
       \/ /\ intents[o].row \in UnresolvedRows
          /\ AckRow(w, intents[o].row, 0, "unresolved") /\ SetIntent(w, o, "unresolved")
          /\ AckCost(w, intents[o].row, "unresolved", {}) /\ UNCHANGED ledger

LearnExit(o) ==
  /\ intents[o].action = "sell"
  /\ \/ \E w \in SUBSET Both, n \in Nat :
          ("exit" \notin Torn => w = Both) /\ TellsExit(o, n) /\ AcceptExit(w, o, n)
     \/ SetIntent(Both, o, "unresolved") /\ UNCHANGED <<rows, costs, ledger>>

Learn(o) == UNCHANGED <<rows, costs, intents, ledger>> \/ LearnEntry(o) \/ LearnExit(o)

LEMMA PricesAreNumbers ==
  /\ Prices \in SUBSET Nat /\ {} \in SUBSET Nat
  /\ TypeOK => \A p \in Ids : KeptPrice(p) \in SUBSET Nat
BY BooksAssumption DEF TypeOK, KeptPrice

LEMMA WrittenTypes ==
  /\ Written("entry") \subseteq SUBSET Both /\ Chained \subseteq SUBSET Both
  /\ \A w \in Written("exit") : w \in SUBSET Both /\ ("exit" \notin Torn => w = Both)
BY DEF Written, Chained, Both

LEMMA LookupFinds ==
  ASSUME TypeOK, NEW o \in Orders, NEW n \in Lookups({o}), n # NotFound
  PROVE  n \in Nat /\ FilledExactly(o, n) /\ TellsExit(o, n)
<1>1. venue[o] \in [at : {"none", "flying", "done", "lost"}, filled : Nat]
  BY DEF TypeOK
<1>2. venue[o].at = "done"
      /\ n \in {venue[o].filled} \cup IF "lookup" \in Garbled THEN {0} ELSE {}
  BY DEF Lookups
<1>3. CASE n = venue[o].filled
  BY <1>1, <1>2, <1>3 DEF FilledExactly, TellsExit
<1>4. CASE n # venue[o].filled
  BY <1>1, <1>2, <1>4 DEF FilledExactly, TellsExit
<1>5. QED
  BY <1>3, <1>4

\* manage_exit and submit_live_entry after an answer.
LEMMA AcceptIsLearn ==
  ASSUME TypeOK, cur \in Orders, NEW n \in Nat, NEW prices \in SUBSET Nat, Accept(n, prices),
         intents[cur].action = "buy" => FilledExactly(cur, n),
         intents[cur].action = "sell" => TellsExit(cur, n)
  PROVE  Learn(cur)
<1>1. intents[cur].action \in {"buy", "sell"}
  BY DEF TypeOK, Intents
<1>2. CASE intents[cur].action = "buy"
  BY <1>2, WrittenTypes DEF Accept, Learn, LearnEntry
<1>3. CASE intents[cur].action = "sell"
  BY <1>3, WrittenTypes DEF Accept, Learn, LearnExit
<1>4. QED
  BY <1>1, <1>2, <1>3

LEMMA UnresolveIsLearn ==
  ASSUME TypeOK, TaskInv, Asking, Unresolve
  PROVE  Learn(cur)
<1>1. cur \in Orders /\ intents[cur].action \in {"buy", "sell"}
  BY DEF TypeOK, Intents, Asking
<1>2. CASE intents[cur].action = "buy"
  BY <1>2, WrittenTypes DEF Unresolve, Learn, LearnEntry, TaskInv, Buying
<1>3. CASE intents[cur].action = "sell"
  BY <1>3 DEF Unresolve, Learn, LearnExit
<1>4. QED
  BY <1>1, <1>2, <1>3

LEMMA ReconcileIsLearn ==
  ASSUME TypeOK, TaskInv, ReconcileIntent
  PROVE  \E o \in todo : o \in UnresolvedIntents /\ Learn(o) /\ Next1(o)
<1>1. PICK o \in todo :
        /\ \E found \in Lookups({o}) :
             IF found = NotFound THEN UNCHANGED <<rows, costs, intents, ledger>>
             ELSE IF intents[o].action = "buy"
             THEN \E w \in Written("entry") : AcceptEntry(w, o, found, Prices)
             ELSE \E w \in Written("exit") : AcceptExit(w, o, found)
        /\ Next1(o)
  BY DEF ReconcileIntent
<1>2. o \in UnresolvedIntents /\ o \in Orders /\ intents[o].action \in {"buy", "sell"}
  BY DEF ReconcileIntent, At, TaskInv, UnresolvedIntents, TypeOK, Intents
<1>3. PICK found \in Lookups({o}) :
        IF found = NotFound THEN UNCHANGED <<rows, costs, intents, ledger>>
        ELSE IF intents[o].action = "buy"
        THEN \E w \in Written("entry") : AcceptEntry(w, o, found, Prices)
        ELSE \E w \in Written("exit") : AcceptExit(w, o, found)
  BY <1>1
<1>4. found # NotFound => found \in Nat /\ FilledExactly(o, found) /\ TellsExit(o, found)
  BY <1>2, LookupFinds
<1>5. Learn(o)
  <2>1. CASE found = NotFound
    BY <1>3, <2>1 DEF Learn
  <2>2. CASE found # NotFound /\ intents[o].action = "buy"
    BY <1>3, <1>4, <2>2, WrittenTypes, PricesAreNumbers DEF Learn, LearnEntry
  <2>3. CASE found # NotFound /\ intents[o].action = "sell"
    BY <1>3, <1>4, <2>3, WrittenTypes DEF Learn, LearnExit
  <2>4. QED
    BY <1>2, <2>1, <2>2, <2>3
<1>6. QED
  BY <1>1, <1>2, <1>5

\* An order is answered: by a reply that says something, or by the look-up.
Answer == ReplyFilled \/ ReplyNonsense \/ Confirm

LEMMA AnswerIsLearn ==
  ASSUME TypeOK, TaskInv, Answer
  PROVE  Asking /\ cur \in UnresolvedIntents /\ Learn(cur) /\ Answered
<1>1. Asking /\ Answered /\ cur \in UnresolvedIntents /\ cur \in Orders
  BY DEF Answer, ReplyFilled, ReplyNonsense, Confirm, Asking, TaskInv, TypeOK
<1>2. CASE ReplyFilled
  <2>1. /\ venue[cur].filled \in Nat /\ FilledExactly(cur, venue[cur].filled)
        /\ TellsExit(cur, venue[cur].filled)
    BY <1>1, <1>2 DEF ReplyFilled, Replied, FilledExactly, TellsExit, TypeOK
  <2>2. QED
    BY <1>1, <1>2, <2>1, AcceptIsLearn, PricesAreNumbers DEF ReplyFilled
<1>3. CASE ReplyNonsense
  <2>1. PICK kind \in Garbled \ {"lookup"} :
          /\ kind \in {"over", intents[cur].action}
          /\ IF kind = "sell" THEN Accept(0, {}) ELSE Unresolve
    BY <1>3 DEF ReplyNonsense
  <2>2. CASE kind = "sell"
    <3>1. TellsExit(cur, 0) /\ intents[cur].action # "buy"
      BY <1>3, <2>1, <2>2 DEF ReplyNonsense, Replied, TellsExit
    <3> QED BY <1>1, <2>1, <2>2, <3>1, AcceptIsLearn, PricesAreNumbers
  <2>3. CASE kind # "sell"
    BY <1>1, <2>1, <2>3, UnresolveIsLearn
  <2>4. QED
    BY <1>1, <2>2, <2>3
<1>4. CASE Confirm
  <2>1. PICK found \in Lookups({cur}) :
          IF found = NotFound THEN Unresolve ELSE Accept(found, KeptPrice(intents[cur].row))
    BY <1>4 DEF Confirm
  <2>2. CASE found = NotFound
    BY <1>1, <2>1, <2>2, UnresolveIsLearn
  <2>3. CASE found # NotFound
    <3>1. KeptPrice(intents[cur].row) \in SUBSET Nat
      BY <1>1, PricesAreNumbers DEF TaskInv, UnresolvedIntents, Used, Pending
    <3> QED BY <1>1, <2>1, <2>3, <3>1, LookupFinds, AcceptIsLearn
  <2>4. QED
    BY <1>1, <2>2, <2>3
<1>5. QED
  BY <1>2, <1>3, <1>4 DEF Answer

\* What a row of an order may become when the order's end is learnt.
Learnt(o, row) ==
  \/ row = rows[intents[o].row]
  \/ /\ intents[o].action = "buy"
     /\ \/ row.status = "open" /\ ("lookup" \in Garbled \/ venue[o].filled > 0)
        \/ row.status = "rejected" /\ row.remaining = 0 /\ FilledExactly(o, 0)
        \/ row.status = "unresolved" /\ intents[o].row \in UnresolvedRows
  \/ /\ intents[o].action = "sell"
     /\ row.status = "open" \/ (row.status = "closed" /\ row.remaining = 0)
     /\ "exit" \notin Torn => intents'[o].status \notin Pending

\* What the row and the ledger are told: nothing yet, the fill of an entry, or
\* the fill of an exit.
StillAsked(o, old, new) ==
  /\ UNCHANGED ledger /\ intents'[o].status \in Pending
  /\ \/ new = old
     \/ /\ intents[o].action = "buy" /\ old.status \in Pending /\ new.status = "unresolved"
        /\ new.remaining = old.remaining /\ new.contracts = old.contracts
EntryTold(o, old, new) ==
  /\ intents[o].action = "buy" /\ venue[o].at = "done" /\ UNCHANGED ledger
  /\ \/ new = old
     \/ /\ new.remaining = venue[o].filled /\ new.contracts = venue[o].filled
        /\ new.status = IF venue[o].filled > 0 THEN "open" ELSE "rejected"
ExitTold(o, old, new) ==
  /\ intents[o].action = "sell" /\ venue[o].at = "done" /\ intents'[o].status \notin Pending
  /\ \/ /\ new = old /\ UNCHANGED ledger /\ (venue[o].filled = 0 \/ "sell" \in Garbled)
     \/ /\ new.status \in {"open", "closed"} /\ new.contracts = old.contracts
        /\ new.remaining = IF old.remaining > venue[o].filled THEN old.remaining - venue[o].filled ELSE 0
        /\ booked'[intents[o].row] = booked[intents[o].row] + venue[o].filled
        /\ \A q \in Ids \ {intents[o].row} : booked'[q] = booked[q]
\* A row grows, or gets another price, only for what its entry may have filled.
LeftAfter(o, p) ==
  /\ costs'[p].fees <= costs[p].fees
  /\ \/ rows'[p].remaining <= rows[p].remaining /\ costs'[p].vwap = costs[p].vwap
     \/ intents[o].action = "buy" /\ rows'[p].remaining <= venue[o].filled
Told(o, old, new) ==
  SoundAnswers => StillAsked(o, old, new) \/ EntryTold(o, old, new) \/ ExitTold(o, old, new)

LEMMA LearnEffect ==
  ASSUME TypeOK, TaskInv, NEW o \in UnresolvedIntents, Learn(o)
  PROVE  LET r == intents[o].row
         IN  /\ rows' \in [Ids -> Rows] /\ intents' \in [Orders -> Intents]
             /\ pnl' \in [Books -> Int] /\ booked' \in [Ids -> Nat]
             /\ intents[o].action = "buy" => UNCHANGED ledger
             /\ \A q \in Orders \ {o} : intents'[q] = intents[q]
             /\ intents'[o].row = r /\ intents'[o].action = intents[o].action
             /\ intents'[o].contracts = intents[o].contracts
             /\ intents'[o].status # "none"
             /\ \A p \in Ids \ {r} : rows'[p] = rows[p]
             /\ rows'[r].market = rows[r].market /\ rows'[r].book = rows[r].book
             /\ Learnt(o, rows'[r]) /\ Told(o, rows[r], rows'[r])
             /\ costs' \in [Ids -> Costs] /\ \A p \in Ids \ {r} : costs'[p] = costs[p]
             /\ LeftAfter(o, r)
<1> DEFINE r == intents[o].row
<1>1. /\ o \in Orders /\ o \in Used /\ r \in Ids
      /\ rows \in [Ids -> Rows] /\ intents \in [Orders -> Intents]
      /\ pnl \in [Books -> Int] /\ booked \in [Ids -> Nat]
  BY DEF UnresolvedIntents, Used, Pending, TaskInv, TypeOK
<1>6. /\ rows[r].remaining \in Nat /\ costs \in [Ids -> Costs] /\ costs[r].fees \in Nat
      /\ rows'[r].remaining <= rows[r].remaining /\ UNCHANGED costs => LeftAfter(o, r)
  BY <1>1 DEF LeftAfter, Rows, TypeOK, Costs
<1>2. CASE UNCHANGED <<rows, costs, intents, ledger>>
  BY <1>1, <1>2, <1>6 DEF Learnt, ledger, Used, Told, StillAsked, UnresolvedIntents
<1>3. CASE LearnEntry(o)
  <2>1. PICK w \in SUBSET Both :
          \/ \E n \in Nat, prices \in SUBSET Nat :
               FilledExactly(o, n) /\ AcceptEntry(w, o, n, prices)
          \/ /\ r \in UnresolvedRows
             /\ AckRow(w, r, 0, "unresolved") /\ SetIntent(w, o, "unresolved")
             /\ AckCost(w, r, "unresolved", {}) /\ UNCHANGED ledger
    BY <1>3 DEF LearnEntry
  <2>2. intents[o].action = "buy"
    BY <1>3 DEF LearnEntry
  <2>3. CASE \E n \in Nat, prices \in SUBSET Nat :
               FilledExactly(o, n) /\ AcceptEntry(w, o, n, prices)
    <3>1. PICK n \in Nat, prices \in SUBSET Nat :
            FilledExactly(o, n) /\ AcceptEntry(w, o, n, prices)
      BY <2>3
    <3> DEFINE s == IF n > 0 THEN "open" ELSE "rejected"
               t == IF n > 0 THEN "filled" ELSE "rejected"
    <3>2. /\ AckRow(w, r, n, s) /\ SetIntent(w, o, t) /\ UNCHANGED ledger
          /\ AckCost(w, r, s, prices)
      BY <3>1 DEF AcceptEntry
    <3>3. /\ s \in OpenStatus \cup {"rejected"} /\ s \notin Pending
          /\ \/ s = "open" /\ ("lookup" \in Garbled \/ venue[o].filled > 0)
             \/ s = "rejected" /\ n = 0 /\ FilledExactly(o, 0)
          /\ t \in {"filled", "rejected"}
      BY <3>1 DEF OpenStatus, Pending, FilledExactly
    <3> HIDE DEF s, t
    <3>4. /\ intents' \in [Orders -> Intents]
          /\ \A q \in Orders \ {o} : intents'[q] = intents[q]
          /\ intents'[o].row = r /\ intents'[o].action = intents[o].action
          /\ intents'[o].contracts = intents[o].contracts
          /\ intents'[o].status # "none"
      BY <1>1, <3>2, <3>3, SetIntentEffect DEF Used
    <3>5. /\ rows' \in [Ids -> Rows]
          /\ \A p \in Ids \ {r} : rows'[p] = rows[p]
          /\ rows'[r].market = rows[r].market /\ rows'[r].book = rows[r].book
          /\ \/ rows'[r] = rows[r] /\ "row" \notin w
             \/ rows'[r].status = s /\ rows'[r].remaining = n /\ rows'[r].contracts = n
      <4>1. AckRow(w, r, n, s) /\ r \in Ids
        BY <1>1, <3>2
      <4> HIDE DEF r
      <4>2. /\ rows' \in [Ids -> Rows]
            /\ \A p \in Ids \ {r} : rows'[p] = rows[p]
            /\ rows'[r].market = rows[r].market /\ rows'[r].book = rows[r].book
        BY <3>3, <4>1, AckRowEffect
      <4>3. CASE "row" \in w
        BY <3>3, <4>1, <4>2, <4>3, AckRowEffect
      <4>4. CASE "row" \notin w
        BY <3>3, <4>1, <4>2, <4>4, AckRowEffect
      <4>5. QED
        BY <4>3, <4>4
    <3>6. Learnt(o, rows'[r])
      BY <2>2, <3>3, <3>5 DEF Learnt
    <3>7. Told(o, rows[r], rows'[r])
      <4>1. ASSUME SoundAnswers PROVE venue[o].at = "done" /\ n = venue[o].filled
        BY <3>1, <4>1 DEF SoundAnswers, FilledExactly
      <4> QED BY <2>2, <3>2, <3>5, <4>1 DEF Told, EntryTold, s
    <3>8. /\ costs' \in [Ids -> Costs] /\ \A p \in Ids \ {r} : costs'[p] = costs[p]
          /\ costs'[r].fees <= costs[r].fees
          /\ "row" \notin w => costs'[r].vwap = costs[r].vwap
      <4>1. AckCost(w, r, s, prices) /\ r \in Ids /\ prices \in SUBSET Nat
        BY <1>1, <3>1, <3>2
      <4> HIDE DEF r
      <4> QED BY <4>1, AckCostEffect
    <3>9. LeftAfter(o, r)
      BY <1>6, <2>2, <3>1, <3>5, <3>8 DEF LeftAfter, FilledExactly
    <3>10. QED
      BY <1>1, <3>2, <3>4, <3>5, <3>6, <3>7, <3>8, <3>9 DEF ledger
  <2>4. CASE /\ r \in UnresolvedRows
             /\ AckRow(w, r, 0, "unresolved") /\ SetIntent(w, o, "unresolved")
             /\ AckCost(w, r, "unresolved", {}) /\ UNCHANGED ledger
    <3>1. /\ intents' \in [Orders -> Intents]
          /\ \A q \in Orders \ {o} : intents'[q] = intents[q]
          /\ intents'[o].row = r /\ intents'[o].action = intents[o].action
          /\ intents'[o].contracts = intents[o].contracts
          /\ intents'[o].status # "none" /\ intents'[o].status \in Pending
      BY <1>1, <2>4, SetIntentEffect DEF Used, Pending, UnresolvedIntents
    <3>2. /\ rows' \in [Ids -> Rows]
          /\ \A p \in Ids \ {r} : rows'[p] = rows[p]
          /\ rows'[r].market = rows[r].market /\ rows'[r].book = rows[r].book
          /\ \/ rows'[r] = rows[r]
             \/ /\ rows'[r].status = "unresolved" /\ rows'[r].remaining = rows[r].remaining
                /\ rows'[r].contracts = rows[r].contracts
      <4>1. AckRow(w, r, 0, "unresolved") /\ r \in Ids
        BY <1>1, <2>4
      <4>2. "unresolved" \in OpenStatus \cup {"rejected"} /\ "unresolved" \in Pending /\ 0 \in Nat
        BY DEF OpenStatus, Pending
      <4> HIDE DEF r
      <4>3. CASE "row" \in w
        BY <4>1, <4>2, <4>3, AckRowEffect
      <4>4. CASE "row" \notin w
        BY <4>1, <4>2, <4>4, AckRowEffect
      <4>5. QED
        BY <4>3, <4>4
    <3>3. Learnt(o, rows'[r])
      BY <2>2, <2>4, <3>2 DEF Learnt
    <3>4. Told(o, rows[r], rows'[r])
      BY <2>2, <2>4, <3>1, <3>2 DEF Told, StillAsked, UnresolvedRows
    <3>5. /\ costs' \in [Ids -> Costs] /\ \A p \in Ids \ {r} : costs'[p] = costs[p]
          /\ costs'[r].fees <= costs[r].fees /\ costs'[r].vwap = costs[r].vwap
      <4>1. AckCost(w, r, "unresolved", {}) /\ r \in Ids /\ "unresolved" # "open"
        BY <1>1, <2>4
      <4> HIDE DEF r
      <4> QED BY <4>1, AckCostEffect, PricesAreNumbers
    <3>6. LeftAfter(o, r)
      BY <1>6, <3>2, <3>5 DEF LeftAfter
    <3>7. QED
      BY <1>1, <2>4, <3>1, <3>2, <3>3, <3>4, <3>5, <3>6 DEF ledger
  <2>5. QED
    BY <2>1, <2>3, <2>4
<1>4. CASE LearnExit(o)
  <2>1. intents[o].action = "sell"
    BY <1>4 DEF LearnExit
  <2>2. CASE SetIntent(Both, o, "unresolved") /\ UNCHANGED <<rows, costs, ledger>>
    <3>1. /\ intents' \in [Orders -> Intents]
          /\ \A q \in Orders \ {o} : intents'[q] = intents[q]
          /\ intents'[o].row = r /\ intents'[o].action = intents[o].action
          /\ intents'[o].contracts = intents[o].contracts
          /\ intents'[o].status = "unresolved"
      BY <1>1, <2>2, SetIntentEffect DEF Pending, Both
    <3>2. Told(o, rows[r], rows'[r])
      BY <2>2, <3>1 DEF Told, StillAsked, Pending
    <3> QED BY <1>1, <1>6, <2>1, <2>2, <3>1, <3>2 DEF Learnt, ledger
  <2>3. CASE \E w \in SUBSET Both, n \in Nat :
               ("exit" \notin Torn => w = Both) /\ TellsExit(o, n) /\ AcceptExit(w, o, n)
    <3>1. PICK w \in SUBSET Both, n \in Nat :
            ("exit" \notin Torn => w = Both) /\ TellsExit(o, n) /\ AcceptExit(w, o, n)
      BY <2>3
    <3> DEFINE s == IF n > 0 THEN "filled" ELSE "rejected"
    <3>2. SetIntent(w, o, s)
      BY <3>1 DEF AcceptExit
    <3>3. /\ intents' \in [Orders -> Intents]
          /\ \A q \in Orders \ {o} : intents'[q] = intents[q]
          /\ intents'[o].row = r /\ intents'[o].action = intents[o].action
          /\ intents'[o].contracts = intents[o].contracts
          /\ intents'[o].status # "none"
          /\ "exit" \notin Torn => intents'[o].status \notin Pending
      BY <1>1, <3>1, <3>2, SetIntentEffect DEF Used, Pending, Both
    <3>4. ASSUME SoundAnswers
          PROVE  /\ venue[o].at = "done" /\ intents'[o].status \notin Pending /\ w = Both
                 /\ n = venue[o].filled \/ (n = 0 /\ "sell" \in Garbled)
      BY <3>1, <3>3, <3>4 DEF SoundAnswers, TellsExit
    <3>8. UNCHANGED costs
      BY <3>1 DEF AcceptExit
    <3>5. CASE UNCHANGED <<rows, ledger>> /\ (n = 0 \/ w # Both)
      <4>1. Told(o, rows[r], rows'[r])
        BY <2>1, <3>4, <3>5 DEF Told, ExitTold
      <4> QED BY <1>1, <1>6, <2>1, <3>3, <3>5, <3>8, <4>1 DEF Learnt, ledger
    <3>6. CASE CloseRow(r, n) /\ n > 0
      <4>1. Told(o, rows[r], rows'[r])
        BY <1>1, <2>1, <3>4, <3>6, CloseRowEffect DEF Told, ExitTold
      <4>2. rows'[r].remaining = IF rows[r].remaining > n THEN rows[r].remaining - n ELSE 0
        BY <1>1, <3>6, CloseRowEffect
      <4>3. LeftAfter(o, r)
        BY <1>6, <3>8, <4>2 DEF LeftAfter
      <4> QED BY <1>1, <1>6, <2>1, <3>3, <3>6, <3>8, <4>1, <4>3, CloseRowEffect DEF Learnt
    <3>7. QED
      BY <3>1, <3>5, <3>6 DEF AcceptExit, CloseWhen, Both
  <2>4. QED
    BY <1>4, <2>2, <2>3 DEF LearnExit
<1>5. QED
  BY <1>2, <1>3, <1>4 DEF Learn

-----------------------------------------------------------------------------
(* Types, and what the lists of the phases refer to.                       *)

Base == TypeOK /\ TaskInv

LEMMA BaseInit == Init => Base
<1> SUFFICES ASSUME Init PROVE Base
  OBVIOUS
<1>1. NoRow \in Rows /\ NoIntent \in Intents
  BY DEF NoRow, NoIntent, Rows, Intents, Books, Pending
<1>2. rows \in [Ids -> Rows] /\ intents \in [Orders -> Intents]
  BY <1>1 DEF Init
<1>3. /\ pnl \in [Books -> Int] /\ booked \in [Ids -> Nat]
      /\ venue \in [Orders -> [at : {"none", "flying", "done", "lost"}, filled : Nat]]
      /\ costs \in [Ids -> [vwap : Nat, fees : Nat]] /\ planned \in [Ids -> Nat]
  BY DEF Init
<1>4. TypeOK
  <2>1. days \in 0..MaxDays /\ crashes \in 0..MaxCrashes
    BY BooksAssumption DEF Init
  <2>2. /\ mode \in Modes /\ killed \in BOOLEAN /\ waived \in BOOLEAN
        /\ breaker \in {"none", "today", "earlier"}
        /\ pc \in Phases /\ using \in Books /\ cur \in Orders \cup {"none"}
    BY Zenon DEF Init, Modes, Books, Phases
  <2>3. QED
    BY <1>2, <1>3, <2>1, <2>2 DEF Init, TypeOK
<1>5. TaskInv
  BY DEF Init, TaskInv, NoIntent, Used, Asking, Buying, Selling
<1>6. QED
  BY <1>4, <1>5 DEF Base

\* The steps that leave the tables alone.
Control ==
  \/ Tick \/ ReconcileRowsNext \/ OutcomesNext \/ NoOutcome \/ Unbooked \/ ExitsNext \/ Stay
  \/ LossNext \/ Loss("paper", "paperLoss", "liveLoss") \/ Loss("live", "liveLoss", "policy")
  \/ StorageFails \/ Downgrade \/ NoEntries \/ ReadPolicy \/ Reject \/ DowngradeEntry \/ EntriesOver
  \/ ReplyError \/ Crash

LEMMA CheckLossEffect ==
  ASSUME TypeOK, NEW b, NEW profit, CheckLoss(b, profit) \/ LossUnchecked
  PROVE  mode' \in Modes /\ killed' \in BOOLEAN /\ breaker' \in {"none", "today", "earlier"}
<1>1. CASE UNCHANGED policy
  BY <1>1 DEF TypeOK, policy
<1>2. CASE Trip
  BY <1>2 DEF Trip, TypeOK, Modes
<1>3. QED
  BY <1>1, <1>2 DEF CheckLoss, LossUnchecked

LEMMA ControlBase ==
  ASSUME Base, Control
  PROVE  Base'
<1> USE DEF Base, policy, money, ledger, bounds
<1>1. CASE Tick
  BY <1>1 DEF Tick, Begin, TypeOK, TaskInv, Phases, Used, Asking, Buying, Selling,
     UnresolvedIntents, Pending
<1>2. CASE ReconcileRowsNext
  BY <1>2 DEF ReconcileRowsNext, Begin, Over, TypeOK, TaskInv, Phases, Used, Asking, Buying,
     Selling, UnresolvedRows, Pending
<1>3. CASE OutcomesNext
  BY <1>3 DEF OutcomesNext, Begin, Over, TypeOK, TaskInv, Phases, Used, Asking, Buying, Selling
<1>4. CASE NoOutcome
  BY <1>4 DEF NoOutcome, Next1, At, TypeOK, TaskInv, Used, Asking, Buying, Selling
<1>18. CASE Unbooked
  BY <1>18, CheckLossEffect DEF Unbooked, Next1, At, TypeOK, TaskInv, Used, Asking, Buying, Selling
<1>19. CASE StorageFails
  BY <1>19 DEF StorageFails, Stop, TypeOK, TaskInv, Phases, Books, Used, Asking, Buying, Selling
<1>5. CASE ExitsNext
  BY <1>5 DEF ExitsNext, Begin, Over, TypeOK, TaskInv, Phases, Used, Asking, Buying, Selling
<1>6. CASE Stay
  BY <1>6 DEF Stay, Next1, At, TypeOK, TaskInv, Used, Asking, Buying, Selling
<1>7. CASE LossNext
  BY <1>7 DEF LossNext, Begin, Over, TypeOK, TaskInv, Phases, Used, Asking, Buying, Selling
<1>8. CASE Loss("paper", "paperLoss", "liveLoss")
  BY <1>8, CheckLossEffect DEF Loss, Begin, TypeOK, TaskInv, Phases, Used, Asking, Buying, Selling
<1>9. CASE Loss("live", "liveLoss", "policy")
  BY <1>9, CheckLossEffect DEF Loss, Begin, TypeOK, TaskInv, Phases, Used, Asking, Buying, Selling
<1>10. CASE Downgrade \/ NoEntries
  BY <1>10 DEF Downgrade, NoEntries, Stop, TypeOK, TaskInv, Phases, Modes, Books, Used, Asking,
     Buying, Selling
<1>11. CASE ReadPolicy
  BY <1>11 DEF ReadPolicy, TypeOK, TaskInv, Phases, Modes, Books, Used, Asking, Buying, Selling
<1>12. CASE Reject
  BY <1>12 DEF Reject, Next1, At, TypeOK, TaskInv, Used, Asking, Buying, Selling
<1>13. CASE DowngradeEntry
  BY <1>13 DEF DowngradeEntry, Next1, At, TypeOK, TaskInv, Modes, Books, Used, Asking, Buying,
     Selling
<1>14. CASE EntriesOver
  BY <1>14 DEF EntriesOver, Stop, TypeOK, TaskInv, Phases, Books, Used, Asking, Buying, Selling
<1>15. CASE ReplyError
  BY <1>15 DEF ReplyError, TypeOK, TaskInv, Phases, Used, Asking, Buying, Selling,
     UnresolvedIntents, UnresolvedRows
<1>16. CASE Crash
  <2>1. crashes' \in 0..MaxCrashes
    BY <1>16, BooksAssumption DEF Crash, TypeOK
  <2>2. QED
    BY <1>16, <2>1 DEF Crash, Stop, TypeOK, TaskInv, Phases, Books, Used, Asking, Buying, Selling
<1>17. QED
  BY <1>1, <1>2, <1>3, <1>4, <1>5, <1>6, <1>7, <1>8, <1>9, <1>10, <1>11, <1>12, <1>13, <1>14,
     <1>15, <1>16, <1>18, <1>19 DEF Control

LEMMA CreateEffect ==
  ASSUME TypeOK, NEW p \in Free, NEW k \in Markets, NEW n \in Nat,
         NEW status \in OpenStatus, Create(p, k, n, status)
  PROVE  /\ rows' \in [Ids -> Rows] /\ p \in Ids /\ rows[p].status = "none"
         /\ \A q \in Ids \ {p} : rows'[q] = rows[q]
         /\ rows'[p].status = status /\ rows'[p].market = k /\ rows'[p].book = using
         /\ rows'[p].remaining = n /\ rows'[p].contracts = n
<1> DEFINE row == [status |-> status, book |-> using, market |-> k, contracts |-> n,
                   remaining |-> n, today |-> TRUE, outcome |-> FALSE]
<1>1. row \in Rows /\ row.status = status /\ row.market = k /\ row.book = using
      /\ row.remaining = n /\ row.contracts = n
  BY DEF TypeOK, Rows
<1>2. p \in Ids /\ rows[p].status = "none"
  BY DEF Free
<1>3. rows' = [rows EXCEPT ![p] = row]
  BY DEF Create
<1> HIDE DEF row
<1>4. QED
  BY <1>1, <1>2, <1>3 DEF TypeOK

LEMMA SendEffect ==
  ASSUME TypeOK, NEW o \in Unused, NEW p \in Ids, NEW action \in {"buy", "sell"}, NEW n \in Nat,
         Send(o, p, action, n)
  PROVE  /\ intents' \in [Orders -> Intents]
         /\ venue' \in [Orders -> [at : {"none", "flying", "done", "lost"}, filled : Nat]]
         /\ o \in Orders /\ intents[o].status = "none"
         /\ \A q \in Orders \ {o} : intents'[q] = intents[q] /\ venue'[q] = venue[q]
         /\ intents'[o].status = "submitting" /\ intents'[o].row = p
         /\ intents'[o].action = action /\ intents'[o].contracts = n
         /\ venue'[o].at = "flying" /\ venue'[o].filled = venue[o].filled
         /\ pc' = "reply" /\ cur' = o
<1> DEFINE intent == [status |-> "submitting", row |-> p, action |-> action, contracts |-> n]
<1>1. intent \in Intents /\ intent.status = "submitting" /\ intent.row = p
      /\ intent.action = action /\ intent.contracts = n
  BY DEF Intents, Pending
<1>2. o \in Orders /\ intents[o].status = "none"
  BY DEF Unused
<1>3. intents' = [intents EXCEPT ![o] = intent]
  BY DEF Send
<1> HIDE DEF intent
<1>4. /\ venue' \in [Orders -> [at : {"none", "flying", "done", "lost"}, filled : Nat]]
      /\ \A q \in Orders \ {o} : venue'[q] = venue[q]
      /\ venue'[o].at = "flying" /\ venue'[o].filled = venue[o].filled
  BY <1>2 DEF Send, TypeOK
<1>5. QED
  BY <1>1, <1>2, <1>3, <1>4 DEF TypeOK, Send

\* The answer to an order, at once or by a look-up later.
LEMMA LearnBase ==
  ASSUME Base, ReconcileIntent \/ Answer
  PROVE  Base'
<1> USE DEF Base
<1>1. CASE ReconcileIntent
  <2>1. PICK o \in todo : o \in UnresolvedIntents /\ Learn(o) /\ Next1(o)
    BY <1>1, ReconcileIsLearn
  <2> DEFINE r == intents[o].row
  <2>2. /\ rows' \in [Ids -> Rows] /\ intents' \in [Orders -> Intents]
        /\ pnl' \in [Books -> Int] /\ booked' \in [Ids -> Nat]
        /\ \A q \in Orders \ {o} : intents'[q] = intents[q]
        /\ intents'[o].row = r /\ intents'[o].status # "none"
        /\ \A p \in Ids \ {r} : rows'[p] = rows[p]
        /\ Learnt(o, rows'[r]) /\ costs' \in [Ids -> Costs]
    BY <2>1, LearnEffect
  <2>3. o \in Orders /\ o \in Used /\ r \in Ids /\ rows[r].status # "none"
    BY <2>1 DEF UnresolvedIntents, Used, Pending, TaskInv
  <2>4. rows'[r].status # "none"
    BY <2>2, <2>3 DEF Learnt
  <2>5. TypeOK'
    BY <1>1, <2>1, <2>2 DEF ReconcileIntent, Next1, At, TypeOK, policy, bounds, Costs
  <2>6. pc' = "intents" /\ todo' = todo \ {o}
    BY <1>1, <2>1 DEF ReconcileIntent, At, Next1
  <2>7. todo' \subseteq UnresolvedIntents'
    BY <1>1, <2>2, <2>6 DEF ReconcileIntent, At, TaskInv, UnresolvedIntents
  <2>8. \A q \in Used' : intents'[q].row \in Ids /\ rows'[intents'[q].row].status # "none"
    BY <2>2, <2>3, <2>4 DEF Used, TaskInv
  <2>9. QED
    BY <2>5, <2>6, <2>7, <2>8 DEF TaskInv, Asking, Buying, Selling
<1>2. CASE Answer
  <2>1. Asking /\ cur \in UnresolvedIntents /\ Learn(cur) /\ Answered
    BY <1>2, AnswerIsLearn
  <2> DEFINE r == intents[cur].row
  <2>2. /\ rows' \in [Ids -> Rows] /\ intents' \in [Orders -> Intents]
        /\ pnl' \in [Books -> Int] /\ booked' \in [Ids -> Nat]
        /\ \A q \in Orders \ {cur} : intents'[q] = intents[q]
        /\ intents'[cur].row = r /\ intents'[cur].status # "none"
        /\ \A p \in Ids \ {r} : rows'[p] = rows[p]
        /\ Learnt(cur, rows'[r]) /\ costs' \in [Ids -> Costs]
    BY <2>1, LearnEffect
  <2>3. cur \in Orders /\ cur \in Used /\ r \in Ids /\ rows[r].status # "none"
    BY <2>1 DEF UnresolvedIntents, Used, Pending, TaskInv
  <2>4. rows'[r].status # "none"
    BY <2>2, <2>3 DEF Learnt
  <2>5. UNCHANGED <<policy, planned, venue, resulted, waived, bounds>>
    BY <1>2 DEF Answer, ReplyFilled, ReplyNonsense, Confirm
  <2>6. intents[cur].action \in {"buy", "sell"}
    BY <2>3 DEF TypeOK, Intents
  <2>7. /\ todo' = todo /\ cur' = "none" /\ using' = using
        /\ pc' = IF intents[cur].action = "buy" THEN "entries" ELSE "exits"
    BY <2>1 DEF Answered, Back
  <2>8. TypeOK'
    BY <2>1, <2>2, <2>5, <2>6, <2>7 DEF TypeOK, TaskInv, Phases, Buying, Selling, policy, bounds, Costs
  <2>9. \A q \in Used' : intents'[q].row \in Ids /\ rows'[intents'[q].row].status # "none"
    BY <2>2, <2>3, <2>4 DEF Used, TaskInv
  <2>10. intents[cur].action = "sell" => \A p \in todo : p \in Ids /\ rows'[p].status # "none"
    BY <2>1, <2>2, <2>4 DEF TaskInv, Selling
  <2>11. QED
    BY <2>6, <2>7, <2>8, <2>9, <2>10 DEF TaskInv, Asking, Buying, Selling
<1>3. QED
  BY <1>1, <1>2

\* The other steps of run_once: what they do to one row and one intent.
LEMMA ReconcileRowEffect ==
  ASSUME Base, ReconcileRow
  PROVE  \E p \in todo :
           /\ p \in Ids /\ pc = "rows" /\ Next1(p) /\ rows' \in [Ids -> Rows]
           /\ \A q \in Ids \ {p} : rows'[q] = rows[q]
           /\ costs' \in [Ids -> Costs] /\ \A q \in Ids \ {p} : costs'[q] = costs[q]
           /\ costs'[p].vwap = costs[p].vwap /\ costs'[p].fees <= costs[p].fees
           /\ rows'[p].market = rows[p].market /\ rows'[p].book = rows[p].book
           /\ \/ rows'[p] = rows[p]
              \/ rows'[p].status = "open"
              \/ /\ rows'[p].status = "rejected" /\ rows'[p].remaining = 0
                 /\ \E o \in OrdersOf(p, "buy") : FilledExactly(o, 0)
           /\ \/ rows'[p] = rows[p] /\ UNCHANGED costs
              \/ \E o \in OrdersOf(p, "buy"), n \in Nat :
                   /\ FilledExactly(o, n) /\ rows'[p].remaining = n /\ rows'[p].contracts = n
                   /\ rows'[p].status = IF n > 0 THEN "open" ELSE "rejected"
<1> USE DEF Base
<1>1. PICK p \in todo :
        /\ \E found \in Lookups(OrdersOf(p, "buy")) :
             IF found = NotFound THEN UNCHANGED <<rows, costs>>
             ELSE /\ AckRow(Both, p, found, IF found > 0 THEN "open" ELSE "rejected")
                  /\ AckCost(Both, p, IF found > 0 THEN "open" ELSE "rejected", KeptPrice(p))
        /\ Next1(p)
  BY DEF ReconcileRow
<1>2. pc = "rows" /\ p \in Ids
  BY DEF ReconcileRow, At, TypeOK
<1>3. PICK found \in Lookups(OrdersOf(p, "buy")) :
        IF found = NotFound THEN UNCHANGED <<rows, costs>>
        ELSE /\ AckRow(Both, p, found, IF found > 0 THEN "open" ELSE "rejected")
             /\ AckCost(Both, p, IF found > 0 THEN "open" ELSE "rejected", KeptPrice(p))
  BY <1>1
<1>4. CASE found = NotFound
  BY <1>1, <1>2, <1>3, <1>4 DEF TypeOK, Costs
<1>5. CASE found # NotFound
  <2> DEFINE s == IF found > 0 THEN "open" ELSE "rejected"
  <2>1. PICK o \in OrdersOf(p, "buy") : o \in Orders /\ found \in Lookups({o})
    BY <1>5 DEF Lookups, OrdersOf
  <2>2. found \in Nat /\ FilledExactly(o, found)
    BY <1>5, <2>1, LookupFinds
  <2>3. s \in OpenStatus \cup {"rejected"} /\ s \notin Pending /\ "row" \in Both
        /\ AckRow(Both, p, found, s) /\ AckCost(Both, p, s, KeptPrice(p))
    BY <1>3, <1>5 DEF OpenStatus, Pending, Both
  <2>4. s = "open" \/ (s = "rejected" /\ found = 0 /\ FilledExactly(o, 0))
    BY <2>2
  <2> HIDE DEF s
  <2>5. /\ rows' \in [Ids -> Rows]
        /\ \A q \in Ids \ {p} : rows'[q] = rows[q]
        /\ rows'[p].market = rows[p].market /\ rows'[p].book = rows[p].book
        /\ rows'[p].status = s /\ rows'[p].remaining = found /\ rows'[p].contracts = found
    BY <1>2, <2>2, <2>3, AckRowEffect
  <2>7. /\ costs' \in [Ids -> Costs] /\ \A q \in Ids \ {p} : costs'[q] = costs[q]
        /\ costs'[p].vwap = costs[p].vwap /\ costs'[p].fees <= costs[p].fees
    BY <1>2, <2>3, AckCostEffect, PricesAreNumbers
  <2>6. QED
    BY <1>1, <1>2, <2>1, <2>2, <2>4, <2>5, <2>7 DEF s
<1>6. QED
  BY <1>4, <1>5

LEMMA OutcomeFrame == Outcome => UNCHANGED <<money, intents, venue, resulted, waived, bounds>>
BY Zenon DEF Outcome

LEMMA OutcomeEffect ==
  ASSUME Base, Outcome
  PROVE  \E p \in todo :
           /\ p \in Ids /\ pc = "outcomes" /\ Next1(p) /\ rows' \in [Ids -> Rows]
           /\ \A q \in Ids \ {p} : rows'[q] = rows[q]
           /\ rows[p].market \in resulted /\ rows[p].status # "none"
           /\ rows'[p].market = rows[p].market /\ rows'[p].book = rows[p].book
           /\ rows'[p].contracts = rows[p].contracts
           /\ \/ /\ rows[p].remaining > 0
                 /\ rows'[p].status = "settled" /\ rows'[p].remaining = 0
              \/ /\ ~(rows[p].remaining > 0)
                 /\ rows'[p].status = rows[p].status /\ rows'[p].remaining = rows[p].remaining
           /\ booked'[p] + rows'[p].remaining = booked[p] + rows[p].remaining
           /\ \A q \in Ids \ {p} : booked'[q] = booked[q]
           /\ pnl' \in [Books -> Int] /\ booked' \in [Ids -> Nat]
           /\ mode' \in Modes /\ killed' \in BOOLEAN /\ breaker' \in {"none", "today", "earlier"}
<1> USE DEF Base
<1>1. PICK p \in todo :
        /\ rows[p].market \in resulted
        /\ IF rows[p].remaining > 0
           THEN /\ rows' = [rows EXCEPT ![p] = [@ EXCEPT !.outcome = TRUE, !.remaining = 0,
                                                         !.status = "settled"]]
                /\ Book(p, rows[p].remaining)
                /\ CheckLoss(rows[p].book, pnl') \/ LossUnchecked
           ELSE /\ rows' = [rows EXCEPT ![p].outcome = TRUE]
                /\ UNCHANGED <<policy, ledger>>
        /\ Next1(p)
  BY Zenon DEF Outcome
<1>2. pc = "outcomes" /\ p \in Ids
  BY <1>1 DEF Outcome, At, TypeOK
<1>3. rows[p] \in Rows /\ rows[p].remaining \in Nat /\ rows[p].status # "none"
  BY <1>2 DEF TypeOK, Rows, TaskInv
<1>4. CASE rows[p].remaining > 0
  <2> DEFINE row == [rows[p] EXCEPT !.outcome = TRUE, !.remaining = 0, !.status = "settled"]
  <2>1. row \in Rows /\ row.status = "settled" /\ row.remaining = 0 /\ row.contracts = rows[p].contracts
        /\ row.market = rows[p].market /\ row.book = rows[p].book
    BY <1>3 DEF Rows
  <2>2. rows' = [rows EXCEPT ![p] = row]
    BY <1>1, <1>4
  <2> HIDE DEF row
  <2>3. /\ rows' \in [Ids -> Rows] /\ rows'[p] = row
        /\ \A q \in Ids \ {p} : rows'[q] = rows[q]
    BY <1>2, <2>1, <2>2 DEF TypeOK
  <2>4. PICK n \in Nat : n = rows[p].remaining
    BY <1>3
  <2>5. Book(p, n)
    BY <1>1, <1>4, <2>4 DEF Book
  <2>6. /\ pnl' \in [Books -> Int] /\ booked' \in [Ids -> Nat]
        /\ booked'[p] = booked[p] + n /\ \A q \in Ids \ {p} : booked'[q] = booked[q]
    BY <1>2, <2>5, BookEffect
  <2>7. mode' \in Modes /\ killed' \in BOOLEAN /\ breaker' \in {"none", "today", "earlier"}
    BY <1>1, <1>4, CheckLossEffect
  <2>8. QED
    BY <1>1, <1>2, <1>3, <1>4, <2>1, <2>3, <2>4, <2>6, <2>7 DEF TypeOK
<1>5. CASE ~(rows[p].remaining > 0)
  <2> DEFINE row == [rows[p] EXCEPT !.outcome = TRUE]
  <2>1. row \in Rows /\ row.status = rows[p].status /\ row.remaining = rows[p].remaining
        /\ row.contracts = rows[p].contracts /\ row.market = rows[p].market /\ row.book = rows[p].book
    BY <1>3 DEF Rows
  <2>2. rows' = [rows EXCEPT ![p] = row] /\ UNCHANGED <<policy, ledger>>
    BY <1>1, <1>5
  <2> HIDE DEF row
  <2>3. /\ rows' \in [Ids -> Rows] /\ rows'[p] = row
        /\ \A q \in Ids \ {p} : rows'[q] = rows[q]
    BY <1>2, <2>1, <2>2 DEF TypeOK
  <2>4. /\ pnl' \in [Books -> Int] /\ booked' \in [Ids -> Nat]
        /\ mode' \in Modes /\ killed' \in BOOLEAN /\ breaker' \in {"none", "today", "earlier"}
    BY <2>2 DEF TypeOK, policy, ledger
  <2>5. QED
    BY <1>1, <1>2, <1>3, <1>5, <2>1, <2>2, <2>3, <2>4 DEF ledger
<1>6. QED
  BY <1>4, <1>5

LEMMA PaperExitEffect ==
  ASSUME Base, PaperExit
  PROVE  \E p \in todo :
           /\ p \in Ids /\ pc = "exits" /\ Next1(p) /\ rows' \in [Ids -> Rows]
           /\ \A q \in Ids \ {p} : rows'[q] = rows[q]
           /\ rows'[p].market = rows[p].market /\ rows'[p].book = rows[p].book
           /\ \/ rows'[p].status = "open"
              \/ rows'[p].status = "closed" /\ rows'[p].remaining = 0
           /\ rows[p].book = "paper" /\ rows'[p].contracts = rows[p].contracts
           /\ rows'[p].remaining <= rows[p].remaining
           /\ booked'[p] + rows'[p].remaining = booked[p] + rows[p].remaining
           /\ \A q \in Ids \ {p} : booked'[q] = booked[q]
           /\ pnl' \in [Books -> Int] /\ booked' \in [Ids -> Nat]
           /\ mode' \in Modes /\ killed' \in BOOLEAN /\ breaker' \in {"none", "today", "earlier"}
<1> USE DEF Base
<1>1. PICK p \in todo, n \in Nat :
        /\ rows[p].book = "paper" /\ n <= rows[p].remaining
        /\ CloseRow(p, n) /\ (CheckLoss("paper", pnl') \/ LossUnchecked) /\ Next1(p)
  BY DEF PaperExit, At, TypeOK, Rows
<1>2. pc = "exits" /\ p \in Ids
  BY <1>1 DEF PaperExit, At, TypeOK
<1>3. mode' \in Modes /\ killed' \in BOOLEAN /\ breaker' \in {"none", "today", "earlier"}
  BY <1>1, CheckLossEffect
<1>4. rows[p].remaining \in Nat /\ booked[p] \in Nat
  BY <1>2 DEF TypeOK, Rows
<1>5. /\ rows'[p].remaining <= rows[p].remaining
      /\ booked'[p] + rows'[p].remaining = booked[p] + rows[p].remaining
  <2>1. /\ rows'[p].remaining = IF rows[p].remaining > n THEN rows[p].remaining - n ELSE 0
        /\ booked'[p] = booked[p] + n
    BY <1>1, <1>2, CloseRowEffect
  <2> QED BY <1>1, <1>4, <2>1
<1>6. QED
  BY <1>1, <1>2, <1>3, <1>5, CloseRowEffect

LEMMA LiveExitEffect ==
  ASSUME Base, LiveExit
  PROVE  \E p \in todo, o \in Orders :
           /\ p \in Ids /\ pc = "exits" /\ todo' = todo \ {p}
           /\ rows[p].book = "live" /\ rows[p].market \notin resulted
           /\ UNCHANGED <<policy, rows, money, ledger, resulted, using, waived, bounds>>
           /\ intents' \in [Orders -> Intents]
           /\ venue' \in [Orders -> [at : {"none", "flying", "done", "lost"}, filled : Nat]]
           /\ intents[o].status = "none"
           /\ \A q \in Orders \ {o} : intents'[q] = intents[q] /\ venue'[q] = venue[q]
           /\ intents'[o].status = "submitting" /\ intents'[o].row = p
           /\ intents'[o].action = "sell" /\ pc' = "reply" /\ cur' = o
           /\ intents'[o].contracts <= rows[p].remaining
           /\ venue'[o].at = "flying" /\ venue'[o].filled = venue[o].filled
<1> USE DEF Base
<1>1. PICK p \in todo, o \in Unused, n \in Nat :
        /\ n <= rows[p].remaining /\ Send(o, p, "sell", n) /\ todo' = todo \ {p}
        /\ rows[p].book = "live" /\ rows[p].market \notin resulted
  BY DEF LiveExit, At, TypeOK, Rows
<1>2. pc = "exits" /\ p \in Ids
      /\ UNCHANGED <<policy, rows, money, ledger, resulted, using, waived, bounds>>
  BY <1>1 DEF LiveExit, At, TypeOK
<1>3. QED
  BY <1>1, <1>2, SendEffect

\* The row of an entry costs what was planned, and nothing else changes its price.
Fresh(p) ==
  /\ costs' \in [Ids -> Costs] /\ planned' \in [Ids -> Nat]
  /\ planned'[p] = costs'[p].vwap
  /\ \A q \in Ids \ {p} : costs'[q] = costs[q] /\ planned'[q] = planned[q]
Price(p) == Worth(costs'[p].vwap, rows'[p].remaining, costs'[p].fees)

LEMMA ConsideredEffect ==
  ASSUME TypeOK, NEW p \in Ids, NEW k, NEW n, Considered(p, k, n)
  PROVE  Fresh(p) /\ Fits(k, Worth(costs'[p].vwap, n, costs'[p].fees))
<1>1. PICK vwap \in Prices, fees \in Fees :
        /\ Fits(k, Worth(vwap, n, fees))
        /\ costs' = [costs EXCEPT ![p] = [vwap |-> vwap, fees |-> fees]]
        /\ planned' = [planned EXCEPT ![p] = vwap]
  BY DEF Considered
<1>2. vwap \in Nat /\ fees \in Nat
  BY BooksAssumption
<1>3. costs'[p].vwap = vwap /\ costs'[p].fees = fees
  BY <1>1, <1>2 DEF TypeOK
<1>4. Fresh(p)
  BY <1>1, <1>2 DEF TypeOK, Fresh, Costs
<1> QED BY <1>1, <1>3, <1>4

LEMMA EntryEffect ==
  ASSUME Base, PaperEntry \/ EntryWithoutOrder
  PROVE  \E p \in Free, k \in Markets :
           /\ pc = "entries" /\ Next1(k) /\ rows' \in [Ids -> Rows] /\ p \in Ids
           /\ UNCHANGED <<policy, intents, ledger, venue, resulted, waived, bounds>>
           /\ \A q \in Ids \ {p} : rows'[q] = rows[q]
           /\ rows[p].status = "none" /\ rows'[p].book = using
           /\ rows'[p].market = k /\ k \notin resulted
           /\ rows'[p].contracts = rows'[p].remaining /\ Fits(k, Price(p)) /\ Fresh(p)
           /\ \/ rows'[p].status = "open" /\ using = "paper"
              \/ /\ rows'[p].status = "submitting" /\ using = "live"
                 /\ UnresolvedRows = {} /\ GateMayPass
<1> USE DEF Base
<1>1. CASE PaperEntry
  <2>1. PICK p \in Free, k \in Markets, n \in Nat :
          /\ At("entries") /\ Create(p, k, n, "open") /\ Next1(k) /\ k \notin resulted
          /\ Considered(p, k, n)
    <3>1. \A n \in 1..Caps["market"] : n \in Nat
      OBVIOUS
    <3>2. QED
      BY <1>1, <3>1 DEF PaperEntry, Considered
  <2>2. "open" \in OpenStatus
    BY DEF OpenStatus
  <2>3. /\ rows' \in [Ids -> Rows] /\ p \in Ids /\ rows[p].status = "none"
        /\ \A q \in Ids \ {p} : rows'[q] = rows[q]
        /\ rows'[p].status = "open" /\ rows'[p].book = using /\ rows'[p].market = k
        /\ rows'[p].remaining = n /\ rows'[p].contracts = n
    BY <2>1, <2>2, CreateEffect
  <2>5. Fresh(p) /\ Fits(k, Price(p))
    BY <2>1, <2>3, ConsideredEffect DEF Price
  <2>4. QED
    BY <1>1, <2>1, <2>3, <2>5 DEF At, PaperEntry
<1>2. CASE EntryWithoutOrder
  <2>1. PICK p \in Free, k \in Markets, n \in Nat :
          /\ At("entries") /\ Create(p, k, n, "submitting") /\ Next1(k) /\ k \notin resulted
          /\ Considered(p, k, n)
    <3>1. \A n \in 1..Caps["market"] : n \in Nat
      OBVIOUS
    <3>2. QED
      BY <1>2, <3>1 DEF EntryWithoutOrder, Considered
  <2>2. "submitting" \in OpenStatus
    BY DEF OpenStatus, Pending
  <2>3. /\ rows' \in [Ids -> Rows] /\ p \in Ids /\ rows[p].status = "none"
        /\ \A q \in Ids \ {p} : rows'[q] = rows[q]
        /\ rows'[p].status = "submitting" /\ rows'[p].book = using /\ rows'[p].market = k
        /\ rows'[p].remaining = n /\ rows'[p].contracts = n
    BY <2>1, <2>2, CreateEffect
  <2>4. UnresolvedRows = {} /\ GateMayPass
    BY <1>2 DEF EntryWithoutOrder, GateMayPass, HasUnresolved
  <2>5. Fresh(p) /\ Fits(k, Price(p))
    BY <2>1, <2>3, ConsideredEffect DEF Price
  <2>6. QED
    BY <1>2, <2>1, <2>3, <2>4, <2>5 DEF At, EntryWithoutOrder
<1>3. QED
  BY <1>1, <1>2

LEMMA LiveEntryEffect ==
  ASSUME Base, LiveEntry
  PROVE  \E p \in Ids, k \in Markets, o \in Orders :
           /\ pc = "entries" /\ todo' = todo \ {k} /\ using = "live" /\ k \notin resulted
           /\ UNCHANGED <<policy, ledger, resulted, using, waived, bounds>>
           /\ UnresolvedRows = {} /\ UnresolvedIntents = {} /\ GateMayPass
           /\ rows' \in [Ids -> Rows] /\ intents' \in [Orders -> Intents]
           /\ venue' \in [Orders -> [at : {"none", "flying", "done", "lost"}, filled : Nat]]
           /\ \A q \in Ids \ {p} : rows'[q] = rows[q]
           /\ rows[p].status = "none" /\ rows'[p].status = "submitting"
           /\ rows'[p].book = "live" /\ rows'[p].market = k
           /\ intents[o].status = "none"
           /\ \A q \in Orders \ {o} : intents'[q] = intents[q] /\ venue'[q] = venue[q]
           /\ intents'[o].status = "submitting" /\ intents'[o].row = p
           /\ intents'[o].action = "buy" /\ pc' = "reply" /\ cur' = o
           /\ rows'[p].contracts = rows'[p].remaining /\ Fits(k, Price(p)) /\ Fresh(p)
           /\ intents'[o].contracts = rows'[p].remaining
           /\ venue'[o].at = "flying" /\ venue'[o].filled = venue[o].filled
<1> USE DEF Base
<1>1. PICK p \in Free, k \in Markets, n \in Nat, o \in Unused :
        /\ At("entries") /\ Create(p, k, n, "submitting") /\ Send(o, p, "buy", n)
        /\ todo' = todo \ {k} /\ k \notin resulted /\ Considered(p, k, n)
  <2>1. \A n \in 1..Caps["market"] : n \in Nat
    OBVIOUS
  <2>2. QED
    BY <2>1 DEF LiveEntry, Considered
<1>2. "submitting" \in OpenStatus
  BY DEF OpenStatus, Pending
<1>3. /\ pc = "entries" /\ using = "live"
      /\ UNCHANGED <<policy, ledger, resulted, using, waived, bounds>>
      /\ UnresolvedRows = {} /\ UnresolvedIntents = {} /\ GateMayPass
  BY <1>1 DEF At, LiveEntry, GateMayPass, HasUnresolved
<1>4. /\ rows' \in [Ids -> Rows] /\ p \in Ids /\ rows[p].status = "none"
      /\ \A q \in Ids \ {p} : rows'[q] = rows[q]
      /\ rows'[p].status = "submitting" /\ rows'[p].book = using /\ rows'[p].market = k
      /\ rows'[p].remaining = n /\ rows'[p].contracts = n
  BY <1>1, <1>2, CreateEffect
<1>5. Fresh(p) /\ Fits(k, Price(p))
  BY <1>1, <1>4, ConsideredEffect DEF Price
<1>6. QED
  BY <1>1, <1>3, <1>4, <1>5, SendEffect

\* The same steps keep the types and the references.
LEMMA TableBase ==
  ASSUME Base, ReconcileRow \/ Outcome \/ PaperExit
  PROVE  Base'
<1> USE DEF Base
<1>1. PICK p \in todo :
        /\ p \in Ids /\ pc \in {"rows", "outcomes", "exits"} /\ Next1(p)
        /\ rows' \in [Ids -> Rows] /\ pnl' \in [Books -> Int] /\ booked' \in [Ids -> Nat]
        /\ mode' \in Modes /\ killed' \in BOOLEAN /\ breaker' \in {"none", "today", "earlier"}
        /\ \A q \in Ids \ {p} : rows'[q] = rows[q]
        /\ rows'[p].status # "none"
        /\ costs' \in [Ids -> Costs] /\ UNCHANGED planned
        /\ UNCHANGED <<intents, venue, resulted, waived, bounds>>
  <2>1. CASE ReconcileRow
    <3>1. UNCHANGED <<policy, planned, intents, ledger, venue, resulted, waived, bounds>>
      BY <2>1 DEF ReconcileRow
    <3>2. \A p \in todo : pc = "rows" => rows[p].status # "none"
      BY DEF TaskInv
    <3>3. QED
      BY <2>1, <3>1, <3>2, ReconcileRowEffect DEF TypeOK, policy, ledger
  <2>2. CASE Outcome
    <3>1. UNCHANGED <<money, intents, venue, resulted, waived, bounds>>
      BY <2>2, OutcomeFrame
    <3>2. costs' \in [Ids -> Costs] /\ UNCHANGED planned
      BY <3>1 DEF money, TypeOK, Costs
    <3>3. QED
      BY <2>2, <3>1, <3>2, OutcomeEffect
  <2>3. CASE PaperExit
    <3>1. UNCHANGED <<money, intents, venue, resulted, waived, bounds>>
      BY <2>3 DEF PaperExit
    <3>2. costs' \in [Ids -> Costs] /\ UNCHANGED planned
      BY <3>1 DEF money, TypeOK, Costs
    <3>3. QED
      BY <2>3, <3>1, <3>2, PaperExitEffect
  <2>4. QED
    BY <2>1, <2>2, <2>3
<1>2. QED
  BY <1>1 DEF Next1, TypeOK, TaskInv, Used, Asking, Buying, Selling, bounds, Costs

LEMMA LiveExitBase == ASSUME Base, LiveExit PROVE Base'
<1> USE DEF Base
<1>1. PICK p \in todo, o \in Orders :
        /\ p \in Ids /\ pc = "exits" /\ todo' = todo \ {p}
        /\ UNCHANGED <<policy, rows, money, ledger, resulted, using, waived, bounds>>
        /\ intents' \in [Orders -> Intents]
        /\ venue' \in [Orders -> [at : {"none", "flying", "done", "lost"}, filled : Nat]]
        /\ \A q \in Orders \ {o} : intents'[q] = intents[q]
        /\ intents'[o].status = "submitting" /\ intents'[o].row = p
        /\ intents'[o].action = "sell" /\ pc' = "reply" /\ cur' = o
  BY LiveExitEffect
<1>2. TypeOK'
  BY <1>1, BooksAssumption DEF TypeOK, Phases, policy, money, ledger, bounds
<1>3. QED
  BY <1>1, <1>2 DEF TaskInv, Used, Asking, Buying, Selling, UnresolvedIntents, Pending

LEMMA EntryBase == ASSUME Base, PaperEntry \/ EntryWithoutOrder PROVE Base'
<1> USE DEF Base
<1>1. PICK p \in Ids, k \in Markets :
        /\ pc = "entries" /\ Next1(k) /\ rows' \in [Ids -> Rows]
        /\ UNCHANGED <<policy, intents, ledger, venue, resulted, waived, bounds>>
        /\ \A q \in Ids \ {p} : rows'[q] = rows[q]
        /\ rows'[p].status # "none" /\ Fresh(p)
  BY EntryEffect
<1>2. QED
  BY <1>1 DEF Next1, TypeOK, TaskInv, Used, Asking, Buying, Selling, policy, ledger, bounds, Fresh, Costs

LEMMA LiveEntryBase == ASSUME Base, LiveEntry PROVE Base'
<1> USE DEF Base
<1>1. PICK p \in Ids, k \in Markets, o \in Orders :
        /\ pc = "entries" /\ todo' = todo \ {k} /\ using = "live"
        /\ UNCHANGED <<policy, ledger, resulted, using, waived, bounds>>
        /\ rows' \in [Ids -> Rows] /\ intents' \in [Orders -> Intents]
        /\ venue' \in [Orders -> [at : {"none", "flying", "done", "lost"}, filled : Nat]]
        /\ \A q \in Ids \ {p} : rows'[q] = rows[q]
        /\ rows'[p].status = "submitting" /\ rows'[p].book = "live"
        /\ \A q \in Orders \ {o} : intents'[q] = intents[q]
        /\ intents'[o].status = "submitting" /\ intents'[o].row = p
        /\ intents'[o].action = "buy" /\ pc' = "reply" /\ cur' = o /\ Fresh(p)
  BY LiveEntryEffect
<1>2. TypeOK'
  BY <1>1, BooksAssumption DEF TypeOK, Phases, policy, ledger, bounds, Fresh, Costs
<1>3. \A q \in Used' : intents'[q].row \in Ids /\ rows'[intents'[q].row].status # "none"
  BY <1>1 DEF Used, TaskInv
<1>4. todo' \subseteq Markets /\ p \in UnresolvedRows' /\ o \in UnresolvedIntents'
  BY <1>1 DEF TypeOK, UnresolvedRows, UnresolvedIntents, Pending
<1>5. QED
  BY <1>1, <1>2, <1>3, <1>4 DEF TaskInv, Asking, Buying, Selling

\* The exchange, the operator and the clock.
World ==
  \/ \E o \in Orders : VenueSettles(o)
  \/ \E k \in Markets : MarketResolves(k)
  \/ \E m \in Modes : SetMode(m)
  \/ \E enabled \in BOOLEAN : Kill(enabled)
  \/ ResetBreaker \/ NewDay

LEMMA WorldBase == ASSUME Base, World PROVE Base'
<1> USE DEF Base, policy, money, ledger, task, bounds
<1>1. CASE \E o \in Orders : VenueSettles(o)
  <2>1. PICK o \in Orders : VenueSettles(o)
    BY <1>1
  <2>2. venue' \in [Orders -> [at : {"none", "flying", "done", "lost"}, filled : Nat]]
    <3>1. CASE venue' = [venue EXCEPT ![o].at = "lost"]
      BY <3>1 DEF TypeOK
    <3>2. CASE \E f \in 0..intents[o].contracts :
                 venue' = [venue EXCEPT ![o] = [at |-> "done", filled |-> f]]
      BY <3>2 DEF TypeOK, Intents
    <3>3. QED
      BY <2>1, <3>1, <3>2 DEF VenueSettles
  <2>3. QED
    BY <2>1, <2>2 DEF VenueSettles, TypeOK, TaskInv, Used, Asking, Buying, Selling,
       UnresolvedIntents, UnresolvedRows
<1>2. CASE \E k \in Markets : MarketResolves(k)
  BY <1>2 DEF MarketResolves, TypeOK, TaskInv, Used, Asking, Buying, Selling,
     UnresolvedIntents, UnresolvedRows
<1>3. CASE (\E m \in Modes : SetMode(m)) \/ \E enabled \in BOOLEAN : Kill(enabled)
  BY <1>3 DEF SetMode, Kill, TypeOK, TaskInv, Used, Asking, Buying, Selling,
     UnresolvedIntents, UnresolvedRows
<1>4. CASE ResetBreaker
  BY <1>4 DEF ResetBreaker, TypeOK, TaskInv, Used, Asking, Buying, Selling,
     UnresolvedIntents, UnresolvedRows
<1>5. CASE NewDay
  <2>1. /\ rows' \in [Ids -> Rows]
        /\ \A p \in Ids : rows'[p].status = rows[p].status /\ rows'[p].book = rows[p].book
    <3>1. \A p \in Ids : rows[p] \in Rows
      BY DEF TypeOK
    <3>2. \A row \in Rows :
            /\ [row EXCEPT !.today = FALSE] \in Rows
            /\ [row EXCEPT !.today = FALSE].status = row.status
            /\ [row EXCEPT !.today = FALSE].book = row.book
      BY DEF Rows
    <3>3. rows' = [p \in Ids |-> [rows[p] EXCEPT !.today = FALSE]]
      BY <1>5 DEF NewDay
    <3>4. QED
      BY <3>1, <3>2, <3>3
  <2>2. days' \in 0..MaxDays
    BY <1>5, BooksAssumption DEF NewDay, TypeOK
  <2>3. pnl' \in [Books -> Int]
    BY <1>5 DEF NewDay
  <2>4. breaker' \in {"none", "today", "earlier"}
    BY <1>5 DEF NewDay, TypeOK
  <2>5. TypeOK'
    BY <1>5, <2>1, <2>2, <2>3, <2>4 DEF NewDay, TypeOK
  <2>6. TaskInv'
    BY <1>5, <2>1 DEF NewDay, TypeOK, TaskInv, Used, Asking, Buying, Selling,
       UnresolvedIntents, UnresolvedRows
  <2>7. QED
    BY <2>5, <2>6
<1>6. QED
  BY <1>1, <1>2, <1>3, <1>4, <1>5 DEF World

LEMMA NextCases ==
  Next => \/ Control \/ ReconcileIntent \/ Answer \/ ReconcileRow \/ Outcome
          \/ PaperExit \/ LiveExit \/ PaperEntry \/ EntryWithoutOrder \/ LiveEntry \/ World
BY DEF Next, RunOnce, Control, Answer, World

LEMMA BaseStep == Base /\ [Next]_vars => Base'
<1> SUFFICES ASSUME Base, [Next]_vars PROVE Base'
  OBVIOUS
<1>1. CASE Next
  BY <1>1, NextCases, ControlBase, LearnBase, TableBase, LiveExitBase,
     EntryBase, LiveEntryBase, WorldBase
<1>2. CASE UNCHANGED vars
  BY <1>2 DEF vars, policy, money, ledger, task, bounds, Base, TypeOK, TaskInv, Used, Asking, Buying,
     Selling, UnresolvedIntents, UnresolvedRows
<1>3. QED
  BY <1>1, <1>2

\* Every variable keeps its type, for any set of markets, rows and orders,
\* whatever the exchange answers and whichever writes are torn.
THEOREM MentionTypeCorrect == Spec => []TypeOK
<1>1. Base => TypeOK
  BY DEF Base
<1>2. QED
  BY BaseInit, BaseStep, <1>1, PTL DEF Spec

LEMMA AlwaysBase == Spec => []Base
BY BaseInit, BaseStep, PTL DEF Spec

LEMMA ControlFrame == Control => UNCHANGED <<rows, money, intents, ledger, venue, resulted>>
BY DEF Control, Tick, ReconcileRowsNext, OutcomesNext, NoOutcome, Unbooked, ExitsNext, Stay,
   LossNext, Loss, StorageFails, Downgrade, NoEntries, ReadPolicy, Reject, DowngradeEntry, EntriesOver, ReplyError, Crash

\* A step that learns the end of an order, in one form for both ways.
LEMMA LearnStep ==
  ASSUME Base, ReconcileIntent \/ Answer
  PROVE  \E o \in UnresolvedIntents :
           /\ o \in Orders /\ intents[o].row \in Ids /\ rows[intents[o].row].status # "none"
           /\ UNCHANGED <<policy, planned, venue, resulted, waived, bounds>>
           /\ costs' \in [Ids -> Costs]
           /\ \A p \in Ids \ {intents[o].row} : costs'[p] = costs[p]
           /\ intents[o].action = "buy" => UNCHANGED ledger
           /\ \A q \in Orders \ {o} : intents'[q] = intents[q]
           /\ intents'[o].row = intents[o].row /\ intents'[o].action = intents[o].action
           /\ intents'[o].contracts = intents[o].contracts
           /\ intents'[o].status # "none"
           /\ \A p \in Ids \ {intents[o].row} : rows'[p] = rows[p]
           /\ rows'[intents[o].row].market = rows[intents[o].row].market
           /\ rows'[intents[o].row].book = rows[intents[o].row].book
           /\ Learnt(o, rows'[intents[o].row])
           /\ Told(o, rows[intents[o].row], rows'[intents[o].row])
           /\ LeftAfter(o, intents[o].row)
           /\ \/ pc = "intents" /\ Next1(o)
              \/ Asking /\ cur = o /\ Answered
<1> USE DEF Base
<1>1. ASSUME NEW o \in UnresolvedIntents
      PROVE  o \in Orders /\ intents[o].row \in Ids /\ rows[intents[o].row].status # "none"
  BY DEF UnresolvedIntents, Used, Pending, TaskInv
<1>2. CASE ReconcileIntent
  <2>1. PICK o \in todo : o \in UnresolvedIntents /\ Learn(o) /\ Next1(o)
    BY <1>2, ReconcileIsLearn
  <2>2. pc = "intents" /\ UNCHANGED <<policy, planned, venue, resulted, waived, bounds>>
    BY <1>2 DEF ReconcileIntent, At
  <2>3. QED
    BY <1>1, <2>1, <2>2, LearnEffect
<1>3. CASE Answer
  <2>1. Asking /\ cur \in UnresolvedIntents /\ Learn(cur) /\ Answered
    BY <1>3, AnswerIsLearn
  <2>2. UNCHANGED <<policy, planned, venue, resulted, waived, bounds>>
    BY <1>3 DEF Answer, ReplyFilled, ReplyNonsense, Confirm
  <2>3. PICK o \in UnresolvedIntents : o = cur
    BY <2>1
  <2>4. QED
    BY <1>1, <2>1, <2>2, <2>3, LearnEffect
<1>4. QED
  BY <1>2, <1>3

-----------------------------------------------------------------------------
(* One open question at a time.                                            *)

LEMMA QuestionStep == Base /\ OneOpenQuestion /\ [Next]_vars => OneOpenQuestion'
<1> SUFFICES ASSUME Base, OneOpenQuestion, [Next]_vars PROVE OneOpenQuestion'
  OBVIOUS
<1> USE DEF UnresolvedRows
\* It is enough that no row becomes unresolved.
<1>1. ASSUME UnresolvedRows' \subseteq UnresolvedRows PROVE OneOpenQuestion'
  BY <1>1 DEF OneOpenQuestion
<1>2. CASE Control
  BY <1>1, <1>2, ControlFrame
<1>3. CASE ReconcileIntent \/ Answer
  <2>1. PICK o \in UnresolvedIntents :
          /\ \A p \in Ids \ {intents[o].row} : rows'[p] = rows[p]
          /\ rows'[intents[o].row].book = rows[intents[o].row].book
          /\ Learnt(o, rows'[intents[o].row])
    BY <1>3, LearnStep
  <2>2. intents[o].row \in UnresolvedRows' => intents[o].row \in UnresolvedRows
    BY <2>1 DEF Learnt, Pending
  <2>3. QED
    BY <1>1, <2>1, <2>2
<1>4. CASE ReconcileRow
  BY <1>1, <1>4, ReconcileRowEffect DEF Pending
<1>5. CASE Outcome
  BY <1>1, <1>5, OutcomeEffect DEF Pending
<1>6. CASE PaperExit
  BY <1>1, <1>6, PaperExitEffect DEF Pending
<1>7. CASE LiveExit
  BY <1>1, <1>7, LiveExitEffect
<1>8. CASE PaperEntry \/ EntryWithoutOrder
  BY <1>8, EntryEffect DEF OneOpenQuestion, Pending
<1>9. CASE LiveEntry
  BY <1>9, LiveEntryEffect DEF OneOpenQuestion
<1>10. CASE World
  <2>1. \A p \in Ids : rows'[p].book = rows[p].book /\ rows'[p].status = rows[p].status
    BY <1>10 DEF World, VenueSettles, MarketResolves, SetMode, Kill, ResetBreaker, NewDay,
       Base, TypeOK, Rows
  <2>2. QED
    BY <1>1, <2>1
<1>11. CASE UNCHANGED vars
  BY <1>1, <1>11 DEF vars
<1>12. QED
  BY NextCases, <1>2, <1>3, <1>4, <1>5, <1>6, <1>7, <1>8, <1>9, <1>10, <1>11

\* While the end of a live entry is not known no other live entry is sent, so
\* that at most one row is unresolved: the rule submit_live_entry states when
\* it refuses to retry, and validate_live_gate keeps.
THEOREM OneQuestionAtATime == Spec => []OneOpenQuestion
<1>1. Init => OneOpenQuestion
  BY DEF Init, OneOpenQuestion, UnresolvedRows, NoRow
<1>2. QED
  BY AlwaysBase, QuestionStep, <1>1, PTL DEF Spec

-----------------------------------------------------------------------------
(* Losses end the day.                                                     *)

LEMMA CheckLossTrips ==
  ASSUME TypeOK, NEW b \in Books, CheckLoss(b, pnl)
  PROVE  /\ breaker' # "none" \/ pnl[b] > -LossLimit
         /\ breaker # "none" => breaker' # "none"
<1>1. pnl[b] \in Int /\ LossLimit \in Int
  BY BooksAssumption DEF TypeOK
<1>2. pnl[b] <= -LossLimit \/ pnl[b] > -LossLimit
  BY <1>1
<1>3. QED
  BY <1>2 DEF CheckLoss, Trip, policy

LEMMA LossStep == Base /\ LossInv /\ [Next]_vars => LossInv'
<1> SUFFICES ASSUME Base, LossInv, [Next]_vars PROVE LossInv'
  OBVIOUS
\* Only the phases after the exits are looked at.
<1>1. ASSUME pc' \in {"idle", "intents", "rows", "outcomes", "exits", "paperLoss"}
      PROVE  LossInv'
  BY <1>1 DEF LossInv, Asking, Buying
<1>2. ASSUME pc' \in {pc, "confirm"}, pc # "confirm" => pc' = pc \/ pc = "reply",
             cur' = cur, UNCHANGED <<intents, pnl, breaker, waived>>
      PROVE  LossInv'
  BY <1>2 DEF LossInv, Asking, Buying
<1>3. CASE Control
  <2>1. CASE Tick \/ ReconcileRowsNext \/ OutcomesNext \/ NoOutcome \/ Unbooked \/ ExitsNext
             \/ Stay \/ LossNext \/ StorageFails \/ Downgrade \/ NoEntries \/ EntriesOver \/ Crash
    BY <1>1, <2>1 DEF Tick, ReconcileRowsNext, OutcomesNext, NoOutcome, Unbooked, ExitsNext, Stay,
       LossNext, StorageFails, Downgrade, NoEntries, EntriesOver, Crash, Begin, Next1, Stop, At
  <2>2. CASE Reject \/ DowngradeEntry \/ ReplyError
    BY <1>2, <2>2 DEF Reject, DowngradeEntry, ReplyError, Next1, policy, ledger
  <2>7. ASSUME waived' PROVE LossInv'
    BY <2>7 DEF LossInv
  <2>3. CASE Loss("paper", "paperLoss", "liveLoss") /\ ~waived'
    <3>1. /\ pc' = "liveLoss" /\ CheckLoss("paper", pnl) /\ "paper" \in Books /\ TypeOK
          /\ UNCHANGED <<pnl, waived, cur>>
      BY <2>3 DEF Loss, Begin, Books, Base, ledger
    <3>2. breaker' # "none" \/ pnl["paper"] > -LossLimit
      BY <3>1, CheckLossTrips
    <3>3. QED
      BY <3>1, <3>2 DEF LossInv, Asking, Buying
  <2>4. CASE Loss("live", "liveLoss", "policy") /\ ~waived'
    <3>1. /\ pc = "liveLoss" /\ pc' = "policy" /\ CheckLoss("live", pnl) /\ "live" \in Books
          /\ TypeOK /\ UNCHANGED <<pnl, waived, cur>>
      BY <2>4 DEF Loss, Begin, Books, Base, ledger
    <3>2. /\ breaker' # "none" \/ pnl["live"] > -LossLimit
          /\ breaker # "none" => breaker' # "none"
      BY <3>1, CheckLossTrips
    <3>3. QED
      BY <3>1, <3>2 DEF LossInv, Asking, Buying, Books
  <2>5. CASE ReadPolicy
    BY <2>5 DEF ReadPolicy, LossInv, Asking, Buying, ledger
  <2>6. QED
    BY <1>3, <2>1, <2>2, <2>3, <2>4, <2>5, <2>7 DEF Control
<1>4. CASE ReconcileIntent \/ Answer
  <2>1. PICK o \in UnresolvedIntents :
          /\ UNCHANGED <<policy, venue, resulted, waived, bounds>>
          /\ intents[o].action = "buy" => UNCHANGED ledger
          /\ \/ pc = "intents" /\ Next1(o)
             \/ Asking /\ cur = o /\ Answered
    BY <1>4, LearnStep
  <2>2. CASE pc = "intents" /\ Next1(o)
    BY <1>1, <2>2 DEF Next1
  <2>3. CASE Asking /\ cur = o /\ Answered /\ intents[o].action = "buy"
    BY <2>1, <2>3 DEF Answered, Back, LossInv, Asking, Buying, ledger, policy
  <2>4. CASE Asking /\ cur = o /\ Answered /\ intents[o].action # "buy"
    BY <1>1, <2>4 DEF Answered, Back
  <2>5. QED
    BY <2>1, <2>2, <2>3, <2>4
<1>5. CASE ReconcileRow \/ Outcome \/ PaperExit
  BY <1>1, <1>5, ReconcileRowEffect, OutcomeEffect, PaperExitEffect DEF Next1
<1>6. CASE LiveExit
  BY <1>6, LiveExitEffect DEF LossInv, Asking, Buying
<1>7. CASE PaperEntry \/ EntryWithoutOrder
  BY <1>2, <1>7, EntryEffect DEF Next1, policy, ledger
<1>8. CASE LiveEntry
  BY <1>8, LiveEntryEffect DEF LossInv, Asking, Buying, ledger
<1>9. CASE World
  <2>1. CASE NewDay
    <3>1. \A b \in Books : pnl'[b] > -LossLimit
      BY <2>1, BooksAssumption DEF NewDay
    <3>2. "paper" \in Books /\ (breaker' # "none" <=> breaker # "none")
      BY <2>1 DEF NewDay, Books
    <3>3. QED
      BY <2>1, <3>1, <3>2 DEF NewDay, LossInv, Asking, Buying, task
  <2>2. CASE ResetBreaker
    BY <1>1, <2>2 DEF ResetBreaker, LossInv, task
  <2>3. CASE (\E o \in Orders : VenueSettles(o)) \/ (\E k \in Markets : MarketResolves(k))
             \/ (\E m \in Modes : SetMode(m)) \/ (\E enabled \in BOOLEAN : Kill(enabled))
    BY <1>2, <2>3 DEF VenueSettles, MarketResolves, SetMode, Kill, task, policy, ledger
  <2>4. QED
    BY <1>9, <2>1, <2>2, <2>3 DEF World
<1>10. CASE UNCHANGED vars
  BY <1>2, <1>10 DEF vars, task, policy, ledger
<1>11. QED
  BY NextCases, <1>3, <1>4, <1>5, <1>6, <1>7, <1>8, <1>9, <1>10

\* A row appears in the entries of a poll only.
LEMMA OnlyEntriesCreate ==
  ASSUME Base, [Next]_vars, NEW p \in Ids, rows[p].status = "none", rows'[p].status # "none"
  PROVE  pc = "entries"
<1>1. CASE Control
  BY <1>1, ControlFrame
<1>2. CASE ReconcileIntent \/ Answer
  BY <1>2, LearnStep
<1>3. CASE ReconcileRow
  BY <1>3, ReconcileRowEffect DEF Base, TaskInv
<1>4. CASE Outcome
  BY <1>4, OutcomeEffect
<1>5. CASE PaperExit
  BY <1>5, PaperExitEffect DEF Base, TaskInv
<1>6. CASE LiveExit
  BY <1>6, LiveExitEffect
<1>7. CASE PaperEntry \/ EntryWithoutOrder \/ LiveEntry
  BY <1>7, EntryEffect, LiveEntryEffect
<1>8. CASE World
  BY <1>8 DEF World, VenueSettles, MarketResolves, SetMode, Kill, ResetBreaker, NewDay,
     Base, TypeOK, Rows
<1>9. CASE UNCHANGED vars
  BY <1>9 DEF vars
<1>10. QED
  BY NextCases, <1>1, <1>2, <1>3, <1>4, <1>5, <1>6, <1>7, <1>8, <1>9

\* After losses that reach the daily limit in either book no position is
\* entered on that day, but in a poll during which the operator reset the
\* breaker, or in which the check before the entries could not read the profit
\* or write the breaker, which the code takes for no loss
\* (check_daily_loss_breaker before the policy is read in run_once).
THEOREM LossesEndTheDay == Spec => LossStopsEntries
<1>1. Init => LossInv
  BY DEF Init, LossInv, Asking, Buying
<1>2. Base /\ LossInv /\ [Next]_vars =>
        [\A p \in Ids : rows[p].status = "none" /\ rows'[p].status # "none" =>
           waived \/ \A b \in Books : pnl[b] > -LossLimit]_vars
  BY OnlyEntriesCreate DEF LossInv
<1>3. QED
  BY AlwaysBase, LossStep, <1>1, <1>2, PTL DEF Spec, LossStopsEntries

-----------------------------------------------------------------------------
(* What is over stays over.                                                *)

\* The lists of the phases stay good whatever the exchange answers and
\* whichever writes are torn.
LEMMA ListStep ==
  ASSUME Base, ListInv, [Next]_vars
  PROVE  ListInv'
<1>1. CASE Control
  <2>1. UNCHANGED <<rows, intents, venue, resulted>>
    BY <1>1, ControlFrame
  <2>2. CASE ReconcileRowsNext
    BY <2>1, <2>2 DEF ReconcileRowsNext, Begin, ListInv, Asking, Selling, UnresolvedRows, Over,
       Base, TypeOK
  <2>3. CASE ExitsNext
    BY <2>1, <2>3 DEF ExitsNext, Begin, ListInv, Asking, Selling
  <2>4. CASE NoOutcome \/ Unbooked \/ Stay \/ Reject \/ DowngradeEntry
    BY <2>1, <2>4 DEF NoOutcome, Unbooked, Stay, Reject, DowngradeEntry, Next1, ListInv, Asking,
       Selling
  <2>5. CASE ReplyError
    BY <2>1, <2>5 DEF ReplyError, ListInv, Asking, Selling
  <2>6. ASSUME pc' \in {"idle", "intents", "outcomes", "paperLoss", "liveLoss", "policy", "entries"}
        PROVE  ListInv'
    BY <2>6 DEF ListInv, Asking, Selling
  <2>7. CASE Tick \/ OutcomesNext \/ LossNext \/ Loss("paper", "paperLoss", "liveLoss")
             \/ Loss("live", "liveLoss", "policy") \/ StorageFails \/ Downgrade \/ NoEntries
             \/ ReadPolicy \/ EntriesOver \/ Crash
    BY <2>6, <2>7 DEF Tick, OutcomesNext, LossNext, Loss, StorageFails, Downgrade, NoEntries, ReadPolicy,
       EntriesOver, Crash, Begin, Stop
  <2>8. QED
    BY <1>1, <2>2, <2>3, <2>4, <2>5, <2>7 DEF Control
<1>2. CASE ReconcileIntent \/ Answer
  <2>1. PICK o \in UnresolvedIntents :
          /\ o \in Orders /\ intents[o].row \in Ids
          /\ \A q \in Orders \ {o} : intents'[q] = intents[q]
          /\ intents'[o].row = intents[o].row /\ intents'[o].action = intents[o].action
          /\ \A p \in Ids \ {intents[o].row} : rows'[p] = rows[p]
          /\ \/ pc = "intents" /\ Next1(o)
             \/ Asking /\ cur = o /\ Answered
    BY <1>2, LearnStep
  <2>2. PICK r \in Ids : r = intents[o].row
    BY <2>1
  <2>4. CASE pc = "intents" /\ Next1(o)
    BY <2>4 DEF Next1, ListInv, Asking, Selling
  <2>5. CASE Asking /\ cur = o /\ Answered /\ intents[o].action = "buy"
    BY <2>5 DEF Answered, Back, ListInv, Asking, Selling
  <2>6. CASE Asking /\ cur = o /\ Answered /\ intents[o].action # "buy"
    <3>1. Selling /\ pc' = "exits" /\ todo' = todo /\ todo \subseteq Ids
      <4>1. intents[o].action = "sell"
        BY <2>1, <2>6 DEF Base, TypeOK, Intents
      <4>2. QED
        BY <2>6, <4>1 DEF Answered, Back, Selling, Base, TaskInv
    <3>2. r \notin todo
      BY <2>2, <2>6, <3>1 DEF ListInv
    <3>3. \A p \in todo : rows'[p].status = "open"
      BY <2>1, <2>2, <3>1, <3>2 DEF ListInv
    <3>4. QED
      BY <3>1, <3>3 DEF ListInv, Asking, Selling
  <2>7. QED
    BY <2>1, <2>4, <2>5, <2>6
<1>3. CASE ReconcileRow
  BY <1>3, ReconcileRowEffect DEF Next1, ListInv, Asking, Selling, Base, TypeOK
<1>4. CASE Outcome
  BY <1>4, OutcomeEffect DEF Next1, ListInv, Asking, Selling
<1>5. CASE PaperExit
  <2>1. PICK p \in todo :
          /\ p \in Ids /\ pc = "exits" /\ Next1(p)
          /\ \A q \in Ids \ {p} : rows'[q] = rows[q]
    BY <1>5, PaperExitEffect
  <2>2. todo' = todo \ {p} /\ pc' = "exits" /\ todo \subseteq Ids /\ UNCHANGED intents
    BY <1>5, <2>1 DEF Next1, PaperExit, Base, TypeOK
  <2>3. QED
    BY <2>1, <2>2 DEF ListInv, Asking, Selling
<1>6. CASE LiveExit
  <2>1. PICK p \in todo, o \in Orders :
          /\ p \in Ids /\ pc = "exits" /\ todo' = todo \ {p} /\ UNCHANGED rows
          /\ \A q \in Orders \ {o} : intents'[q] = intents[q]
          /\ intents'[o].row = p /\ pc' = "reply" /\ cur' = o
    BY <1>6, LiveExitEffect
  <2>2. \A x \in todo' : x # p /\ x \in todo
    BY <2>1
  <2>3. \A x \in todo' : rows'[x].status = "open"
    BY <2>1, <2>2 DEF ListInv
  <2>4. QED
    BY <2>1, <2>2, <2>3 DEF ListInv, Asking, Selling
<1>7. CASE PaperEntry \/ EntryWithoutOrder
  BY <1>7, EntryEffect DEF Next1, ListInv, Asking, Selling
<1>8. CASE LiveEntry
  BY <1>8, LiveEntryEffect DEF ListInv, Asking, Selling
<1>9. CASE World
  <2>1. /\ UNCHANGED <<intents, task>>
        /\ \A p \in Ids : rows'[p].status = rows[p].status
    BY <1>9 DEF World, VenueSettles, MarketResolves, SetMode, Kill, ResetBreaker, NewDay, Base, TypeOK, Rows
  <2>2. QED
    BY <2>1 DEF ListInv, Asking, Selling, task, Base, TypeOK, TaskInv
<1>10. CASE UNCHANGED vars
  BY <1>10 DEF vars, task, ListInv, Asking, Selling
<1>11. QED
  BY NextCases, <1>1, <1>2, <1>3, <1>4, <1>5, <1>6, <1>7, <1>8, <1>9, <1>10

\* No order becomes unresolved for a row that is still to be sold.
LEMMA FreeStep ==
  ASSUME Base, ListInv, FreeInv, "orders" \notin FailOpen, [Next]_vars
  PROVE  FreeInv'
\* It is enough to look at lists that get shorter and orders that get fewer.
<1>1. ASSUME pc' \notin {"exits", "reply", "confirm"} PROVE FreeInv'
  BY <1>1 DEF FreeInv, Asking, Selling
<1>2. ASSUME pc = "exits" \/ Selling, todo' \subseteq todo,
             \A q \in UnresolvedIntents' : q \in UnresolvedIntents /\ intents'[q].row = intents[q].row
      PROVE  FreeInv'
  BY <1>2 DEF FreeInv
<1>3. CASE Control
  <2>1. UNCHANGED intents
    BY <1>3, ControlFrame
  <2>2. CASE ExitsNext
    BY <2>1, <2>2 DEF ExitsNext, Begin, FreeInv, UnresolvedIntents, Asking, Selling
  <2>3. CASE NoOutcome \/ Unbooked \/ Stay \/ Reject \/ DowngradeEntry
    BY <1>1, <1>2, <2>1, <2>3 DEF NoOutcome, Unbooked, Stay, Reject, DowngradeEntry, Next1, At,
       UnresolvedIntents
  <2>4. CASE ReplyError
    BY <2>1, <2>4 DEF ReplyError, FreeInv, Asking, Selling, UnresolvedIntents
  <2>5. CASE Tick \/ ReconcileRowsNext \/ OutcomesNext \/ LossNext
             \/ Loss("paper", "paperLoss", "liveLoss") \/ Loss("live", "liveLoss", "policy")
             \/ StorageFails \/ Downgrade \/ NoEntries \/ ReadPolicy \/ EntriesOver \/ Crash
    BY <1>1, <2>5 DEF Tick, ReconcileRowsNext, OutcomesNext, LossNext, Loss, StorageFails,
       Downgrade, NoEntries, ReadPolicy, EntriesOver, Crash, Begin, Stop
  <2>6. QED
    BY <1>3, <2>2, <2>3, <2>4, <2>5 DEF Control
<1>4. CASE ReconcileIntent \/ Answer
  <2>1. PICK o \in UnresolvedIntents :
          /\ o \in Orders
          /\ \A q \in Orders \ {o} : intents'[q] = intents[q]
          /\ intents'[o].row = intents[o].row
          /\ \/ pc = "intents" /\ Next1(o)
             \/ Asking /\ cur = o /\ Answered
    BY <1>4, LearnStep
  <2>2. CASE pc = "intents" /\ Next1(o)
    BY <1>1, <2>2 DEF Next1
  <2>3. CASE Asking /\ cur = o /\ Answered /\ intents[o].action = "buy"
    BY <1>1, <2>3 DEF Answered, Back
  <2>4. CASE Asking /\ cur = o /\ Answered /\ intents[o].action # "buy"
    <3>1. Selling /\ todo' = todo
      <4>1. intents[o].action = "sell"
        BY <2>1, <2>4 DEF Base, TypeOK, Intents
      <4>2. QED
        BY <2>4, <4>1 DEF Answered, Selling
    <3>2. \A q \in UnresolvedIntents' : q \in UnresolvedIntents /\ intents'[q].row = intents[q].row
      BY <2>1 DEF UnresolvedIntents
    <3>3. QED
      BY <1>2, <3>1, <3>2
  <2>5. QED
    BY <2>1, <2>2, <2>3, <2>4
<1>5. CASE ReconcileRow \/ Outcome
  BY <1>1, <1>5, ReconcileRowEffect, OutcomeEffect DEF Next1
<1>6. CASE PaperExit
  <2>1. pc = "exits" /\ todo' \subseteq todo /\ UNCHANGED intents
    BY <1>6, PaperExitEffect DEF PaperExit, Next1
  <2>2. QED
    BY <1>2, <2>1 DEF UnresolvedIntents
<1>7. CASE LiveExit
  <2>1. PICK p \in todo, o \in Orders :
          /\ p \in Ids /\ pc = "exits" /\ todo' = todo \ {p}
          /\ \A q \in Orders \ {o} : intents'[q] = intents[q]
          /\ intents'[o].row = p
    BY <1>7, LiveExitEffect
  <2>2. \A q \in UnresolvedIntents' :
          intents'[q].row = p \/ (q \in UnresolvedIntents /\ intents'[q].row = intents[q].row)
    BY <2>1 DEF UnresolvedIntents
  <2>3. QED
    BY <2>1, <2>2 DEF FreeInv
<1>8. CASE PaperEntry \/ EntryWithoutOrder
  BY <1>1, <1>8, EntryEffect DEF Next1
<1>9. CASE LiveEntry
  BY <1>9, LiveEntryEffect DEF FreeInv, Asking, Selling
<1>10. CASE World \/ UNCHANGED vars
  <2>1. UNCHANGED <<intents, pc, todo, cur>>
    BY <1>10 DEF World, VenueSettles, MarketResolves, SetMode, Kill, ResetBreaker, NewDay, task, vars
  <2>2. QED
    BY <2>1 DEF FreeInv, UnresolvedIntents, Asking, Selling
<1>11. QED
  BY NextCases, <1>3, <1>4, <1>5, <1>6, <1>7, <1>8, <1>9, <1>10

LEMMA ControlOrders ==
  ASSUME Base, OrderInv, Control
  PROVE  BooksInv'
<1>1. UNCHANGED <<rows, intents, venue, resulted>>
  BY ControlFrame
<1>2. QED
  BY <1>1 DEF OrderInv, BooksInv, AskedRow, Used, UnresolvedIntents

LEMMA LearnOrders ==
  ASSUME Base, OrderInv, SoundAnswers, ReconcileIntent \/ Answer
  PROVE  BooksInv'
<1>1. PICK o \in UnresolvedIntents :
        /\ o \in Orders /\ intents[o].row \in Ids
        /\ UNCHANGED <<policy, planned, venue, resulted, waived, bounds>>
        /\ \A q \in Orders \ {o} : intents'[q] = intents[q]
        /\ intents'[o].row = intents[o].row /\ intents'[o].action = intents[o].action
        /\ \A p \in Ids \ {intents[o].row} : rows'[p] = rows[p]
        /\ rows'[intents[o].row].market = rows[intents[o].row].market
        /\ Learnt(o, rows'[intents[o].row])
  BY LearnStep
<1>2. PICK r \in Ids : r = intents[o].row
  BY <1>1
<1>3. \A q \in Used : intents[q].row \in Ids
  BY DEF Base, TaskInv
<1>4. UnresolvedIntents' \subseteq UnresolvedIntents /\ Used' \subseteq Used
      /\ \A q \in Orders : intents'[q].row = intents[q].row /\ intents'[q].action = intents[q].action
  BY <1>1 DEF UnresolvedIntents, Used, Pending
<1>5. \A p \in Ids : rows'[p].status \in Ended => rows'[p].remaining = 0
  BY <1>1, <1>2 DEF OrderInv, BooksInv, Learnt, Ended
<1>6. ASSUME NEW q \in UnresolvedIntents' PROVE AskedRow(q)'
  <2>1. q \in UnresolvedIntents /\ q \in Orders /\ AskedRow(q) /\ intents[q].row \in Ids
    BY <1>3, <1>4 DEF OrderInv, BooksInv, UnresolvedIntents, Used, Pending
  <2>2. CASE q # o
    <3>1. intents[q].row # r /\ intents'[q] = intents[q]
      BY <1>1, <1>2, <2>1, <2>2 DEF OrderInv, BooksInv
    <3>2. rows'[intents[q].row] = rows[intents[q].row]
      BY <1>1, <1>2, <2>1, <3>1
    <3>3. QED
      BY <1>1, <2>1, <3>1, <3>2 DEF AskedRow
  <2>3. CASE q = o
    <3>1. intents'[o].status \in Pending
      BY <2>3 DEF UnresolvedIntents
    <3>2. FilledExactly(o, 0) => venue[o] = [at |-> "done", filled |-> 0]
      BY DEF FilledExactly, SoundAnswers
    <3>3. QED
      BY <1>1, <2>1, <2>3, <3>1, <3>2 DEF AskedRow, Learnt, SoundAnswers, OpenStatus, Pending
  <2>4. QED
    BY <2>2, <2>3
<1>7. QED
  BY <1>4, <1>5, <1>6 DEF OrderInv, BooksInv, Used, UnresolvedIntents

LEMMA ReconcileRowOrders ==
  ASSUME Base, OrderInv, SoundAnswers, ReconcileRow
  PROVE  BooksInv'
<1>1. PICK p \in todo :
        /\ p \in Ids /\ pc = "rows" /\ Next1(p)
        /\ \A q \in Ids \ {p} : rows'[q] = rows[q]
        /\ rows'[p].market = rows[p].market
        /\ \/ rows'[p] = rows[p]
           \/ rows'[p].status = "open"
           \/ /\ rows'[p].status = "rejected" /\ rows'[p].remaining = 0
              /\ \E o \in OrdersOf(p, "buy") : FilledExactly(o, 0)
  BY ReconcileRowEffect
<1>2. UNCHANGED <<intents, venue, resulted>>
  BY DEF ReconcileRow
<1>3. rows[p].status \in Pending
  BY <1>1 DEF OrderInv, ListInv
<1>4. UnresolvedIntents' = UnresolvedIntents /\ Used' = Used
  BY <1>2 DEF UnresolvedIntents, Used
<1>5. ASSUME NEW q \in UnresolvedIntents PROVE AskedRow(q)'
  <2>1. AskedRow(q) /\ q \in Used /\ intents[q].row \in Ids
    BY DEF OrderInv, BooksInv, UnresolvedIntents, Used, Pending, Base, TaskInv
  <2>2. CASE intents[q].row # p
    BY <1>1, <1>2, <2>1, <2>2 DEF AskedRow
  <2>3. CASE intents[q].row = p
    <3>1. intents[q].action # "sell"
      BY <1>3, <2>1, <2>3 DEF AskedRow, Pending
    <3>2. intents[q].action = "buy"
      BY <2>1, <3>1 DEF Base, TypeOK, Intents, Used
    <3>3. rows'[p].status = "rejected" /\ rows'[p] # rows[p] =>
            venue[q] = [at |-> "done", filled |-> 0]
      <4>1. \A o \in OrdersOf(p, "buy") : o = q
        BY <2>1, <2>3, <3>2 DEF OrdersOf, OrderInv, BooksInv, Used
      <4>2. QED
        BY <1>1, <4>1 DEF FilledExactly, SoundAnswers
    <3>4. QED
      BY <1>1, <1>2, <1>3, <2>1, <2>3, <3>1, <3>3 DEF AskedRow, OpenStatus, Pending
  <2>4. QED
    BY <2>2, <2>3
<1>6. \A q \in Ids : rows'[q].status \in Ended => rows'[q].remaining = 0
  BY <1>1 DEF OrderInv, BooksInv, Ended
<1>7. QED
  BY <1>2, <1>4, <1>5, <1>6 DEF OrderInv, BooksInv

LEMMA OutcomeOrders ==
  ASSUME Base, OrderInv, Outcome
  PROVE  BooksInv'
<1>1. PICK p \in todo :
        /\ p \in Ids /\ pc = "outcomes" /\ Next1(p)
        /\ \A q \in Ids \ {p} : rows'[q] = rows[q]
        /\ rows[p].market \in resulted
        /\ \/ rows'[p].status = "settled" /\ rows'[p].remaining = 0
           \/ rows'[p].status = rows[p].status /\ rows'[p].remaining = rows[p].remaining
  BY OutcomeEffect
<1>2. UNCHANGED <<intents, venue, resulted>>
  BY DEF Outcome
<1>3. UnresolvedIntents' = UnresolvedIntents /\ Used' = Used
  BY <1>2 DEF UnresolvedIntents, Used
<1>4. ASSUME NEW q \in UnresolvedIntents PROVE AskedRow(q)'
  <2>1. AskedRow(q) /\ intents[q].row \in Ids
    BY DEF OrderInv, BooksInv, UnresolvedIntents, Used, Pending, Base, TaskInv
  <2>2. intents[q].row # p
    BY <1>1, <2>1 DEF AskedRow
  <2>3. QED
    BY <1>1, <1>2, <2>1, <2>2 DEF AskedRow
<1>5. \A q \in Ids : rows'[q].status \in Ended => rows'[q].remaining = 0
  BY <1>1 DEF OrderInv, BooksInv
<1>6. QED
  BY <1>2, <1>3, <1>4, <1>5 DEF OrderInv, BooksInv

LEMMA PaperExitOrders ==
  ASSUME Base, OrderInv, PaperExit
  PROVE  BooksInv'
<1>1. PICK p \in todo :
        /\ p \in Ids /\ pc = "exits" /\ Next1(p)
        /\ \A q \in Ids \ {p} : rows'[q] = rows[q]
        /\ \/ rows'[p].status = "open"
           \/ rows'[p].status = "closed" /\ rows'[p].remaining = 0
  BY PaperExitEffect
<1>2. UNCHANGED <<intents, venue, resulted>>
  BY DEF PaperExit
<1>3. UnresolvedIntents' = UnresolvedIntents /\ Used' = Used
  BY <1>2 DEF UnresolvedIntents, Used
<1>4. ASSUME NEW q \in UnresolvedIntents PROVE AskedRow(q)'
  <2>1. AskedRow(q) /\ intents[q].row \in Ids
    BY DEF OrderInv, BooksInv, UnresolvedIntents, Used, Pending, Base, TaskInv
  <2>2. intents[q].row # p
    BY <1>1 DEF OrderInv, FreeInv
  <2>3. QED
    BY <1>1, <1>2, <2>1, <2>2 DEF AskedRow
<1>5. \A q \in Ids : rows'[q].status \in Ended => rows'[q].remaining = 0
  BY <1>1 DEF OrderInv, BooksInv, Ended
<1>6. QED
  BY <1>2, <1>3, <1>4, <1>5 DEF OrderInv, BooksInv

LEMMA LiveExitOrders ==
  ASSUME Base, OrderInv, LiveExit
  PROVE  BooksInv'
<1>1. PICK p \in todo, o \in Orders :
        /\ p \in Ids /\ pc = "exits" /\ todo' = todo \ {p}
        /\ rows[p].market \notin resulted
        /\ UNCHANGED <<rows, resulted>>
        /\ intents[o].status = "none"
        /\ \A q \in Orders \ {o} : intents'[q] = intents[q] /\ venue'[q] = venue[q]
        /\ intents'[o].status = "submitting" /\ intents'[o].row = p
        /\ intents'[o].action = "sell" /\ pc' = "reply" /\ cur' = o
  BY LiveExitEffect
<1>2. /\ \A q \in UnresolvedIntents' : q = o \/ q \in UnresolvedIntents
      /\ \A q \in Used' : q = o \/ q \in Used
      /\ o \notin Used /\ o \notin UnresolvedIntents
  BY <1>1 DEF UnresolvedIntents, Used, Pending
<1>3. rows[p].status = "open" /\ \A q \in UnresolvedIntents : intents[q].row # p
  BY <1>1 DEF OrderInv, ListInv, FreeInv
<1>4. ASSUME NEW q \in UnresolvedIntents' PROVE AskedRow(q)'
  <2>1. CASE q = o
    BY <1>1, <1>3, <2>1 DEF AskedRow
  <2>2. CASE q # o
    <3>1. q \in UnresolvedIntents /\ q \in Orders \ {o} /\ AskedRow(q)
      BY <1>2, <2>2 DEF OrderInv, BooksInv, UnresolvedIntents
    <3>2. QED
      BY <1>1, <3>1 DEF AskedRow
  <2>3. QED
    BY <2>1, <2>2
<1>5. QED
  <2>1. \A q \in Ids : rows'[q].status \in Ended => rows'[q].remaining = 0
    BY <1>1 DEF OrderInv, BooksInv
  <2>2. \A u, q \in Used' : intents'[u].row = intents'[q].row /\ intents'[u].action = "buy"
                              /\ intents'[q].action = "buy" => u = q
    <3>1. \A q \in Used' : intents'[q].action = "buy" => q \in Used /\ intents'[q] = intents[q]
      BY <1>1, <1>2 DEF Used
    <3>2. QED
      BY <3>1 DEF OrderInv, BooksInv
  <2>3. \A u, q \in UnresolvedIntents' : intents'[u].row = intents'[q].row => u = q
    <3>1. \A q \in UnresolvedIntents : q \in Orders \ {o} /\ intents'[q].row # p
      BY <1>1, <1>2, <1>3 DEF UnresolvedIntents
    <3>2. \A u, q \in UnresolvedIntents : intents'[u].row = intents'[q].row => u = q
      BY <1>1, <3>1 DEF OrderInv, BooksInv
    <3>3. QED
      BY <1>1, <1>2, <3>1, <3>2
  <2>4. QED
    BY <1>4, <2>1, <2>2, <2>3 DEF BooksInv

LEMMA EntryOrders ==
  ASSUME Base, OrderInv, PaperEntry \/ EntryWithoutOrder
  PROVE  BooksInv'
<1>1. PICK p \in Ids, k \in Markets :
        /\ pc = "entries" /\ Next1(k)
        /\ UNCHANGED <<policy, intents, ledger, venue, resulted, waived, bounds>>
        /\ \A q \in Ids \ {p} : rows'[q] = rows[q]
        /\ rows[p].status = "none" /\ rows'[p].status \in {"open", "submitting"}
  BY EntryEffect
<1>2. UnresolvedIntents' = UnresolvedIntents /\ Used' = Used
  BY <1>1 DEF UnresolvedIntents, Used
<1>3. ASSUME NEW q \in UnresolvedIntents PROVE AskedRow(q)'
  <2>1. AskedRow(q) /\ intents[q].row \in Ids /\ rows[intents[q].row].status # "none"
    BY DEF OrderInv, BooksInv, UnresolvedIntents, Used, Pending, Base, TaskInv
  <2>2. rows'[intents[q].row] = rows[intents[q].row]
    BY <1>1, <2>1
  <2>3. QED
    BY <1>1, <2>1, <2>2 DEF AskedRow
<1>4. \A q \in Ids : rows'[q].status \in Ended => rows'[q].remaining = 0
  BY <1>1 DEF OrderInv, BooksInv, Ended
<1>5. QED
  BY <1>1, <1>2, <1>3, <1>4 DEF OrderInv, BooksInv

LEMMA LiveEntryOrders ==
  ASSUME Base, OrderInv, LiveEntry
  PROVE  BooksInv'
<1>1. PICK p \in Ids, k \in Markets, o \in Orders :
        /\ k \notin resulted /\ UNCHANGED resulted
        /\ UnresolvedIntents = {}
        /\ \A q \in Ids \ {p} : rows'[q] = rows[q]
        /\ rows[p].status = "none" /\ rows'[p].status = "submitting"
        /\ rows'[p].market = k
        /\ intents[o].status = "none"
        /\ \A q \in Orders \ {o} : intents'[q] = intents[q]
        /\ intents'[o].status = "submitting" /\ intents'[o].row = p
        /\ intents'[o].action = "buy" /\ pc' = "reply" /\ cur' = o
  BY LiveEntryEffect
<1>2. /\ \A q \in UnresolvedIntents' : q = o
      /\ \A q \in Used' : q = o \/ q \in Used
      /\ o \notin Used
  BY <1>1 DEF UnresolvedIntents, Used, Pending
<1>3. \A q \in Used : intents[q].row # p
  BY <1>1 DEF Base, TaskInv
<1>4. AskedRow(o)'
  BY <1>1 DEF AskedRow, OpenStatus, Pending
<1>5. \A q \in Ids : rows'[q].status \in Ended => rows'[q].remaining = 0
  BY <1>1 DEF OrderInv, BooksInv, Ended
<1>6. \A u, q \in Used' : intents'[u].row = intents'[q].row /\ intents'[u].action = "buy"
                            /\ intents'[q].action = "buy" => u = q
  <2>1. \A q \in Used : q \in Orders \ {o} /\ intents'[q] = intents[q]
    BY <1>1, <1>2 DEF Used
  <2>2. \A u, q \in Used : intents'[u].row = intents'[q].row /\ intents'[u].action = "buy"
                             /\ intents'[q].action = "buy" => u = q
    BY <2>1 DEF OrderInv, BooksInv
  <2>3. QED
    BY <1>1, <1>2, <1>3, <2>1, <2>2
<1>7. QED
  <2>1. \A u, q \in UnresolvedIntents' : u = q
    BY <1>2
  <2>2. \A q \in UnresolvedIntents' : AskedRow(q)'
    BY <1>2, <1>4 DEF AskedRow
  <2>3. QED
    BY <1>5, <1>6, <2>1, <2>2 DEF BooksInv

LEMMA WorldOrders ==
  ASSUME Base, OrderInv, SoundAnswers, World
  PROVE  BooksInv'
<1>1. CASE \E o \in Orders : VenueSettles(o)
  <2>1. PICK o \in Orders : VenueSettles(o)
    BY <1>1
  <2>2. /\ UNCHANGED <<rows, intents, resulted, task>> /\ venue[o].at = "flying"
        /\ \A q \in Orders \ {o} : venue'[q] = venue[q]
    BY <2>1 DEF VenueSettles, Base, TypeOK
  <2>3. ASSUME NEW q \in UnresolvedIntents PROVE AskedRow(q)'
    <3>1. q \in Orders /\ AskedRow(q)
      BY DEF UnresolvedIntents, OrderInv, BooksInv
    <3>2. venue[q] = [at |-> "done", filled |-> 0] => venue'[q] = venue[q]
      BY <2>2, <3>1
    <3>3. QED
      BY <2>2, <3>1, <3>2 DEF AskedRow
  <2>4. QED
    BY <2>2, <2>3 DEF OrderInv, BooksInv, UnresolvedIntents, Used
<1>2. CASE \E k \in Markets : MarketResolves(k)
  <2>1. PICK k \in Markets : MarketResolves(k)
    BY <1>2
  <2>2. /\ UNCHANGED <<rows, intents, venue, task>> /\ resulted' = resulted \cup {k}
        /\ OpenEnds(k) = {}
    BY <2>1 DEF MarketResolves, SoundAnswers
  <2>3. ASSUME NEW q \in UnresolvedIntents PROVE AskedRow(q)'
    <3>1. AskedRow(q) /\ intents[q].row \in Ids
      BY DEF OrderInv, BooksInv, UnresolvedIntents, Used, Pending, Base, TaskInv
    <3>2. rows[intents[q].row].market # k
      BY <2>2, <3>1 DEF OpenEnds
    <3>3. QED
      BY <2>2, <3>1, <3>2 DEF AskedRow
  <2>4. QED
    BY <2>2, <2>3 DEF OrderInv, BooksInv, UnresolvedIntents, Used
<1>3. CASE (\E m \in Modes : SetMode(m)) \/ (\E enabled \in BOOLEAN : Kill(enabled)) \/ ResetBreaker
  BY <1>3 DEF SetMode, Kill, ResetBreaker, OrderInv, BooksInv, AskedRow,
     UnresolvedIntents, Used
<1>4. CASE NewDay
  <2>1. /\ UNCHANGED <<intents, venue, resulted, task>>
        /\ \A p \in Ids : /\ rows'[p].status = rows[p].status /\ rows'[p].market = rows[p].market
                          /\ rows'[p].remaining = rows[p].remaining
    BY <1>4 DEF NewDay, Base, TypeOK, Rows
  <2>2. ASSUME NEW q \in UnresolvedIntents PROVE AskedRow(q)'
    <3>1. AskedRow(q) /\ intents[q].row \in Ids
      BY DEF OrderInv, BooksInv, UnresolvedIntents, Used, Pending, Base, TaskInv
    <3>2. QED
      BY <2>1, <3>1 DEF AskedRow
  <2>3. QED
    BY <2>1, <2>2 DEF OrderInv, BooksInv, UnresolvedIntents, Used
<1>5. QED
  BY <1>1, <1>2, <1>3, <1>4 DEF World

LEMMA OrderStep == Base /\ OrderInv /\ SoundAnswers /\ [Next]_vars => OrderInv'
<1> SUFFICES ASSUME Base, OrderInv, SoundAnswers, [Next]_vars PROVE OrderInv'
  OBVIOUS
<1>1. ASSUME UNCHANGED vars PROVE BooksInv'
  BY <1>1 DEF vars, OrderInv, BooksInv, AskedRow, UnresolvedIntents, Used
<1>2. BooksInv'
  BY <1>1, NextCases, ControlOrders, LearnOrders, ReconcileRowOrders, OutcomeOrders,
     PaperExitOrders, LiveExitOrders, EntryOrders, LiveEntryOrders, WorldOrders
<1>3. QED
  BY <1>2, ListStep, FreeStep DEF OrderInv, SoundAnswers

LEMMA OverStep ==
  ASSUME Base, OrderInv, SoundAnswers, [Next]_vars, NEW p \in Ids, rows[p].status \in Ended
  PROVE  rows'[p].status = rows[p].status /\ rows'[p].remaining = rows[p].remaining
<1>1. rows[p].remaining = 0
  BY DEF OrderInv, BooksInv
<1>2. CASE Control
  BY <1>2, ControlFrame
\* An order that is asked about for such a row was rejected, and is again.
<1>3. CASE ReconcileIntent \/ Answer
  <2>1. PICK o \in UnresolvedIntents :
          /\ o \in Orders
          /\ \A q \in Ids \ {intents[o].row} : rows'[q] = rows[q]
          /\ Learnt(o, rows'[intents[o].row])
    BY <1>3, LearnStep
  <2>2. CASE intents[o].row # p
    BY <2>1, <2>2
  <2>3. CASE intents[o].row = p
    <3>1. AskedRow(o)
      BY DEF OrderInv, BooksInv
    <3>2. intents[o].action = "buy"
      BY <2>1, <2>3, <3>1 DEF AskedRow, Ended, Base, TypeOK, Intents
    <3>3. rows[p].status = "rejected" /\ venue[o].filled = 0
      BY <2>3, <3>1, <3>2 DEF AskedRow, Ended, OpenStatus, Pending
    <3>4. QED
      BY <1>1, <2>1, <2>3, <3>2, <3>3 DEF Learnt, SoundAnswers, UnresolvedRows, Pending
  <2>4. QED
    BY <2>2, <2>3
<1>4. CASE ReconcileRow
  BY <1>4, ReconcileRowEffect DEF OrderInv, ListInv, Ended, Pending
<1>5. CASE Outcome
  BY <1>1, <1>5, OutcomeEffect
<1>6. CASE PaperExit
  BY <1>6, PaperExitEffect DEF OrderInv, ListInv, Ended
<1>7. CASE LiveExit
  BY <1>7, LiveExitEffect
<1>8. CASE PaperEntry \/ EntryWithoutOrder \/ LiveEntry
  BY <1>8, EntryEffect, LiveEntryEffect DEF Ended
<1>9. CASE World
  BY <1>9 DEF World, VenueSettles, MarketResolves, SetMode, Kill, ResetBreaker, NewDay,
     Base, TypeOK, Rows
<1>10. CASE UNCHANGED vars
  BY <1>10 DEF vars
<1>11. QED
  BY NextCases, <1>2, <1>3, <1>4, <1>5, <1>6, <1>7, <1>8, <1>9, <1>10

LEMMA OrderInit == Init => OrderInv
BY DEF Init, NoRow, NoIntent, OrderInv, BooksInv, ListInv, FreeInv, Ended, Used, UnresolvedIntents, Pending,
   Asking, Selling

\* A position that was closed, settled or rejected is never opened again and
\* gets no contracts back, by any answer, look-up or result that comes late,
\* as long as both writes of an exit are made, look-ups give the fill, the
\* unresolved orders can be read and markets wait for the orders in them.
THEOREM OverStaysOver == SoundAnswers => (Spec => OverIsOver)
<1> SUFFICES ASSUME SoundAnswers PROVE Spec => OverIsOver
  OBVIOUS
<1>1. Base /\ OrderInv /\ [Next]_vars => OrderInv'
  BY OrderStep
<1>2. Base /\ OrderInv /\ [Next]_vars =>
        [\A p \in Ids : rows[p].status \in {"closed", "settled", "rejected"} =>
           rows'[p].status = rows[p].status /\ rows'[p].remaining = rows[p].remaining]_vars
  BY OverStep DEF Ended
<1>3. QED
  BY AlwaysBase, OrderInit, <1>1, <1>2, PTL DEF Spec, OverIsOver

-----------------------------------------------------------------------------
(* The accounts: what is bought, sold, left and booked of a row.           *)

BuysOf(p) == OrdersOf(p, "buy")
SellsOf(p) == OrdersOf(p, "sell")

\* Only a known end has a fill, and no more than was asked for.
VenueInv ==
  \A o \in Orders :
    /\ venue[o].at # "done" => venue[o].filled = 0
    /\ venue[o].filled <= intents[o].contracts
    /\ o \in Used \ UnresolvedIntents => venue[o].at = "done"
    /\ o \notin Used => venue[o].at = "none"

OwnInv == \A o \in Used : rows[intents[o].row].book = "live"

\* A row whose entry is not known shows all that was asked for.
AskedAccount(p) ==
  rows[p].status \in Pending =>
    /\ rows[p].book = "live" /\ rows[p].market \notin resulted
    /\ booked[p] = 0 /\ SellsOf(p) = {}
    /\ \A o \in BuysOf(p) : intents[o].contracts = rows[p].remaining

\* What its entry bought is left or booked.
KnownAccount(p) ==
  rows[p].book = "live" /\ rows[p].status \notin Pending \cup {"none"} =>
    \E o \in BuysOf(p) : venue[o].at = "done" /\ venue[o].filled = rows[p].remaining + booked[p]

PaperAccount(p) ==
  rows[p].book = "paper" /\ rows[p].status # "none" => rows[p].contracts = rows[p].remaining + booked[p]

EdgeAccount(p) ==
  /\ rows[p].status = "none" => booked[p] = 0
  /\ rows[p].status = "settled" => rows[p].market \in resulted

RowAccount(p) == AskedAccount(p) /\ KnownAccount(p) /\ PaperAccount(p) /\ EdgeAccount(p)

\* Before the end of its entry is known nothing of a row is sold; an exit asks
\* for no more than is left.
QuestionAccount(o) ==
  LET p == intents[o].row
  IN  /\ intents[o].action = "buy" => booked[p] = 0 /\ SellsOf(p) = {}
      /\ intents[o].action = "sell" => intents[o].contracts <= rows[p].remaining

AccountInv ==
  /\ VenueInv /\ OwnInv
  /\ \A p \in Ids : RowAccount(p)
  /\ \A o \in UnresolvedIntents : QuestionAccount(o)

LEMMA AccountInit == Init => AccountInv
<1> SUFFICES ASSUME Init PROVE AccountInv
  OBVIOUS
<1>1. /\ \A o \in Orders : intents[o].status = "none" /\ intents[o].contracts = 0
                           /\ venue[o].at = "none" /\ venue[o].filled = 0
      /\ \A p \in Ids : rows[p].status = "none" /\ booked[p] = 0
  BY DEF Init, NoRow, NoIntent
<1>2. Used = {} /\ UnresolvedIntents = {}
  BY <1>1 DEF Used, UnresolvedIntents, Pending
<1> QED BY <1>1, <1>2 DEF AccountInv, VenueInv, OwnInv, RowAccount, AskedAccount, KnownAccount,
            PaperAccount, EdgeAccount, Pending

LEMMA RowAccountKept ==
  ASSUME NEW p \in Ids, RowAccount(p), OrdersOf(p, "buy")' = OrdersOf(p, "buy"),
         OrdersOf(p, "sell")' = OrdersOf(p, "sell") \/ rows[p].status \notin Pending,
         rows'[p].status = rows[p].status, rows'[p].book = rows[p].book, rows'[p].market = rows[p].market,
         rows'[p].contracts = rows[p].contracts, rows'[p].remaining = rows[p].remaining,
         booked'[p] = booked[p], resulted \subseteq resulted',
         rows[p].status \in Pending /\ rows[p].book = "live" => rows[p].market \notin resulted' \ resulted,
         \A o \in OrdersOf(p, "buy") : /\ intents'[o].contracts = intents[o].contracts
                                       /\ venue[o].at = "done" => venue'[o] = venue[o]
  PROVE  RowAccount(p)'
<1>1. AskedAccount(p)'
  BY DEF RowAccount, AskedAccount, BuysOf, SellsOf
<1>2. KnownAccount(p)'
  BY DEF RowAccount, KnownAccount, BuysOf
<1>3. PaperAccount(p)' /\ EdgeAccount(p)'
  BY DEF RowAccount, PaperAccount, EdgeAccount
<1> QED BY <1>1, <1>2, <1>3 DEF RowAccount

\* Most steps leave the orders, and all rows but one, alone.
LEMMA OrdersKept ==
  ASSUME UNCHANGED intents
  PROVE  /\ Used' = Used /\ UnresolvedIntents' = UnresolvedIntents
         /\ \A p, a : OrdersOf(p, a)' = OrdersOf(p, a)
BY DEF Used, UnresolvedIntents, OrdersOf

LEMMA OneRowAccounts ==
  ASSUME Base, AccountInv, UNCHANGED <<intents, venue, resulted>>, NEW p \in Ids,
         \A q \in Ids \ {p} : rows'[q] = rows[q] /\ booked'[q] = booked[q],
         rows'[p].book = rows[p].book, RowAccount(p)',
         \A o \in UnresolvedIntents : intents[o].row = p => QuestionAccount(o)'
  PROVE  AccountInv'
<1>1. /\ Used' = Used /\ UnresolvedIntents' = UnresolvedIntents
      /\ \A q, a : OrdersOf(q, a)' = OrdersOf(q, a)
  BY OrdersKept
<1>2. VenueInv'
  BY <1>1 DEF AccountInv, VenueInv
<1>3. OwnInv'
  BY <1>1 DEF AccountInv, OwnInv, Base, TaskInv
<1>4. ASSUME NEW q \in Ids PROVE RowAccount(q)'
  <2>1. CASE q # p
    BY <1>1, <2>1, RowAccountKept DEF AccountInv
  <2> QED BY <2>1
<1>5. ASSUME NEW o \in UnresolvedIntents PROVE QuestionAccount(o)'
  <2>1. QuestionAccount(o) /\ intents[o].row \in Ids
    BY DEF AccountInv, Base, TaskInv, UnresolvedIntents, Used, Pending
  <2>2. CASE intents[o].row # p
    BY <1>1, <2>1, <2>2 DEF QuestionAccount, SellsOf
  <2> QED BY <2>2
<1> QED BY <1>1, <1>2, <1>3, <1>4, <1>5 DEF AccountInv

LEMMA ReconcileRowAccounts ==
  ASSUME Base, OrderInv, AccountInv, SoundAnswers, ReconcileRow
  PROVE  AccountInv'
<1>1. PICK p \in todo :
        /\ p \in Ids /\ pc = "rows"
        /\ \A q \in Ids \ {p} : rows'[q] = rows[q]
        /\ rows'[p].market = rows[p].market /\ rows'[p].book = rows[p].book
        /\ \/ rows'[p] = rows[p]
           \/ \E o \in OrdersOf(p, "buy"), n \in Nat :
                /\ FilledExactly(o, n) /\ rows'[p].remaining = n /\ rows'[p].contracts = n
                /\ rows'[p].status = IF n > 0 THEN "open" ELSE "rejected"
  BY ReconcileRowEffect
<1>2. UNCHANGED <<intents, venue, resulted>> /\ booked' = booked
  BY DEF ReconcileRow, ledger
<1>3. /\ rows[p].status \in Pending /\ AskedAccount(p)
      /\ \A q, a : OrdersOf(q, a)' = OrdersOf(q, a)
  BY <1>1, <1>2, OrdersKept DEF OrderInv, ListInv, AccountInv, RowAccount
<1>4. RowAccount(p)'
  <2>1. CASE rows'[p] = rows[p]
    <3>1. RowAccount(p) /\ UNCHANGED <<intents, venue, resulted>> /\ booked'[p] = booked[p]
      BY <1>1, <1>2 DEF AccountInv
    <3> QED BY <1>1, <1>3, <2>1, <3>1, RowAccountKept
  <2>2. CASE \E o \in OrdersOf(p, "buy"), n \in Nat :
                /\ FilledExactly(o, n) /\ rows'[p].remaining = n /\ rows'[p].contracts = n
                /\ rows'[p].status = IF n > 0 THEN "open" ELSE "rejected"
    <3>1. PICK o \in OrdersOf(p, "buy"), n \in Nat :
                /\ FilledExactly(o, n) /\ rows'[p].remaining = n
                /\ rows'[p].status = IF n > 0 THEN "open" ELSE "rejected"
      BY <2>2
    <3>2. venue[o].at = "done" /\ venue[o].filled = n
      BY <3>1 DEF FilledExactly, SoundAnswers
    <3>3. rows[p].book = "live" /\ booked[p] = 0
      BY <1>3 DEF AskedAccount
    <3>4. rows'[p].status \notin Pending \cup {"none", "settled"}
      BY <3>1 DEF Pending
    <3>5. KnownAccount(p)'
      BY <1>2, <1>3, <3>1, <3>2, <3>3 DEF KnownAccount, BuysOf
    <3> QED BY <1>1, <3>3, <3>4, <3>5 DEF RowAccount, AskedAccount, PaperAccount, EdgeAccount
  <2> QED BY <1>1, <2>1, <2>2
<1>5. ASSUME NEW o \in UnresolvedIntents, intents[o].row = p PROVE QuestionAccount(o)'
  <2>1. AskedRow(o) /\ QuestionAccount(o)
    BY DEF OrderInv, BooksInv, AccountInv
  <2>2. intents[o].action # "sell"
    BY <1>3, <1>5, <2>1 DEF AskedRow, Pending
  <2> QED BY <1>2, <1>3, <2>1, <2>2 DEF QuestionAccount, SellsOf
<1> QED BY <1>1, <1>2, <1>4, <1>5, OneRowAccounts

LEMMA OutcomeAccounts ==
  ASSUME Base, OrderInv, AccountInv, Outcome
  PROVE  AccountInv'
<1>1. PICK p \in todo :
        /\ p \in Ids /\ \A q \in Ids \ {p} : rows'[q] = rows[q] /\ booked'[q] = booked[q]
        /\ rows[p].market \in resulted /\ rows[p].status # "none"
        /\ rows'[p].market = rows[p].market /\ rows'[p].book = rows[p].book
        /\ rows'[p].contracts = rows[p].contracts
        /\ \/ rows'[p].status = "settled"
           \/ rows'[p].status = rows[p].status
        /\ booked'[p] + rows'[p].remaining = booked[p] + rows[p].remaining
        /\ rows' \in [Ids -> Rows] /\ booked' \in [Ids -> Nat]
  BY OutcomeEffect
<1>2. UNCHANGED <<intents, venue, resulted>> /\ \A q, a : OrdersOf(q, a)' = OrdersOf(q, a)
  BY OrdersKept DEF Outcome
<1>3. rows[p].status \notin Pending
  BY <1>1 DEF AccountInv, RowAccount, AskedAccount
<1>4. /\ rows[p].remaining \in Nat /\ rows'[p].remaining \in Nat /\ booked[p] \in Nat /\ booked'[p] \in Nat
  BY <1>1 DEF Base, TypeOK, Rows
<1>5. rows'[p].remaining + booked'[p] = rows[p].remaining + booked[p]
  BY <1>1, <1>4
<1>6. rows'[p].status \notin Pending \cup {"none"}
  BY <1>1, <1>3 DEF Pending
<1>7. RowAccount(p)'
  <2>1. KnownAccount(p)'
    BY <1>1, <1>2, <1>3, <1>5 DEF AccountInv, RowAccount, KnownAccount, BuysOf
  <2>2. PaperAccount(p)'
    BY <1>1, <1>5 DEF AccountInv, RowAccount, PaperAccount
  <2> QED BY <1>1, <1>2, <1>6, <2>1, <2>2 DEF RowAccount, AskedAccount, EdgeAccount
<1>8. \A o \in UnresolvedIntents : intents[o].row # p
  BY <1>1 DEF OrderInv, BooksInv, AskedRow
<1> QED BY <1>1, <1>2, <1>7, <1>8, OneRowAccounts

LEMMA PaperExitAccounts ==
  ASSUME Base, OrderInv, AccountInv, PaperExit
  PROVE  AccountInv'
<1>1. PICK p \in todo :
        /\ p \in Ids /\ \A q \in Ids \ {p} : rows'[q] = rows[q] /\ booked'[q] = booked[q]
        /\ rows'[p].market = rows[p].market /\ rows'[p].book = rows[p].book
        /\ rows[p].book = "paper" /\ rows'[p].contracts = rows[p].contracts
        /\ rows'[p].status \in {"open", "closed"} /\ pc = "exits"
        /\ booked'[p] + rows'[p].remaining = booked[p] + rows[p].remaining
        /\ rows' \in [Ids -> Rows] /\ booked' \in [Ids -> Nat]
  BY PaperExitEffect
<1>2. UNCHANGED <<intents, venue, resulted>> /\ rows[p].status = "open"
  BY <1>1 DEF PaperExit, OrderInv, ListInv
<1>3. /\ rows[p].remaining \in Nat /\ rows'[p].remaining \in Nat /\ booked[p] \in Nat /\ booked'[p] \in Nat
  BY <1>1 DEF Base, TypeOK, Rows
<1>4. rows'[p].remaining + booked'[p] = rows[p].remaining + booked[p]
  BY <1>1, <1>3
<1>5. PaperAccount(p)'
  BY <1>1, <1>2, <1>4 DEF AccountInv, RowAccount, PaperAccount
<1>6. RowAccount(p)'
  BY <1>1, <1>5 DEF RowAccount, AskedAccount, KnownAccount, EdgeAccount, Pending
<1>7. \A o \in UnresolvedIntents : intents[o].row # p
  BY <1>1 DEF AccountInv, OwnInv, Used, UnresolvedIntents, Pending
<1> QED BY <1>1, <1>2, <1>6, <1>7, OneRowAccounts

\* The end of an order is told to its row and to the ledger, or neither.
LEMMA LearnAccounts ==
  ASSUME Base, OrderInv, AccountInv, SoundAnswers, ReconcileIntent \/ Answer
  PROVE  AccountInv'
<1>1. PICK o \in UnresolvedIntents :
        /\ o \in Orders /\ intents[o].row \in Ids /\ UNCHANGED <<venue, resulted>>
        /\ \A q \in Orders \ {o} : intents'[q] = intents[q]
        /\ intents'[o].row = intents[o].row /\ intents'[o].action = intents[o].action
        /\ intents'[o].contracts = intents[o].contracts /\ intents'[o].status # "none"
        /\ \A p \in Ids \ {intents[o].row} : rows'[p] = rows[p]
        /\ rows'[intents[o].row].market = rows[intents[o].row].market
        /\ rows'[intents[o].row].book = rows[intents[o].row].book
        /\ Told(o, rows[intents[o].row], rows'[intents[o].row])
  BY LearnStep
<1>2. PICK r \in Ids : r = intents[o].row
  BY <1>1
<1>3. \A q \in Orders : /\ intents'[q].row = intents[q].row /\ intents'[q].action = intents[q].action
                         /\ intents'[q].contracts = intents[q].contracts
                         /\ (intents'[q].status = "none") = (intents[q].status = "none")
  BY <1>1 DEF UnresolvedIntents, Pending
<1>4. /\ Used' = Used /\ \A p, a : OrdersOf(p, a)' = OrdersOf(p, a)
      /\ UnresolvedIntents' \subseteq UnresolvedIntents
      /\ \A q \in UnresolvedIntents \ {o} : q \in UnresolvedIntents'
  <2>1. Used' = Used
    BY <1>3 DEF Used
  <2>2. ASSUME NEW p, NEW a PROVE OrdersOf(p, a)' = OrdersOf(p, a)
    BY <1>3 DEF OrdersOf
  <2> QED BY <1>1, <2>1, <2>2 DEF UnresolvedIntents
<1>5. /\ StillAsked(o, rows[r], rows'[r]) \/ EntryTold(o, rows[r], rows'[r])
                                         \/ ExitTold(o, rows[r], rows'[r])
      /\ \A p \in Ids \ {r} : rows'[p] = rows[p] /\ booked'[p] = booked[p]
  <2>1. StillAsked(o, rows[r], rows'[r]) \/ EntryTold(o, rows[r], rows'[r])
                                        \/ ExitTold(o, rows[r], rows'[r])
    BY <1>1, <1>2 DEF Told
  <2> QED BY <1>1, <1>2, <2>1 DEF StillAsked, EntryTold, ExitTold, ledger
<1>6. /\ rows[r].book = "live" /\ RowAccount(r) /\ QuestionAccount(o) /\ AskedRow(o)
      /\ venue[o].filled <= intents[o].contracts /\ o \in Used
  BY <1>1, <1>2 DEF AccountInv, OwnInv, VenueInv, OrderInv, BooksInv, UnresolvedIntents, Used, Pending
<1>7. /\ rows[r].remaining \in Nat /\ booked[r] \in Nat /\ venue[o].filled \in Nat
      /\ intents[o].contracts \in Nat
  BY <1>1 DEF Base, TypeOK, Rows, Intents
<1>8. VenueInv'
  <2>1. o \in UnresolvedIntents' \/ venue[o].at = "done"
    BY <1>1, <1>5 DEF StillAsked, EntryTold, ExitTold, UnresolvedIntents
  <2> QED BY <1>1, <1>3, <1>4, <2>1 DEF AccountInv, VenueInv
<1>9. OwnInv'
  BY <1>1, <1>2, <1>3, <1>4 DEF AccountInv, OwnInv, Base, TaskInv, Used
<1>10. ASSUME NEW p \in Ids, rows'[p] = rows[p], booked'[p] = booked[p] PROVE RowAccount(p)'
  <2>1. RowAccount(p) /\ UNCHANGED <<venue, resulted>>
    BY <1>1 DEF AccountInv
  <2>2. \A q \in OrdersOf(p, "buy") : intents'[q].contracts = intents[q].contracts
    BY <1>3 DEF OrdersOf
  <2> QED BY <1>4, <1>10, <2>1, <2>2, RowAccountKept
<1>11. ASSUME StillAsked(o, rows[r], rows'[r])
       PROVE  RowAccount(r)' /\ (o \in UnresolvedIntents' => QuestionAccount(o)')
  <2>1. booked' = booked /\ intents'[o].status \in Pending
    BY <1>11 DEF StillAsked, ledger
  <2>2. RowAccount(r)'
    <3>1. CASE rows'[r] = rows[r]
      BY <1>10, <2>1, <3>1
    <3>2. CASE rows'[r] # rows[r]
      <4>1. /\ rows[r].status \in Pending /\ rows'[r].status = "unresolved"
            /\ rows'[r].remaining = rows[r].remaining
        BY <1>11, <3>2 DEF StillAsked
      <4>2. \A q \in BuysOf(r) : intents'[q].contracts = intents[q].contracts
        BY <1>3 DEF BuysOf, OrdersOf
      <4>3. AskedAccount(r)'
        BY <1>1, <1>2, <1>4, <1>6, <2>1, <4>1, <4>2 DEF RowAccount, AskedAccount, BuysOf, SellsOf
      <4> QED BY <1>1, <1>2, <1>6, <4>1, <4>3 DEF RowAccount, KnownAccount, PaperAccount, EdgeAccount, Pending
    <3> QED BY <3>1, <3>2
  <2>3. QuestionAccount(o)'
    <3>1. intents[o].action = "sell" => rows'[r] = rows[r]
      BY <1>11 DEF StillAsked
    <3> QED BY <1>1, <1>2, <1>4, <1>6, <2>1, <3>1 DEF QuestionAccount, SellsOf
  <2> QED BY <2>2, <2>3
<1>12. ASSUME EntryTold(o, rows[r], rows'[r])
       PROVE  RowAccount(r)' /\ (o \in UnresolvedIntents' => QuestionAccount(o)')
  <2>1. /\ booked' = booked /\ booked[r] = 0 /\ SellsOf(r) = {} /\ o \in BuysOf(r)
        /\ intents[o].action = "buy"
    BY <1>1, <1>2, <1>6, <1>12 DEF EntryTold, ledger, QuestionAccount, BuysOf, OrdersOf, Used
  <2>2. RowAccount(r)'
    <3>1. CASE rows'[r] = rows[r]
      BY <1>10, <2>1, <3>1
    <3>2. CASE rows'[r] # rows[r]
      <4>1. /\ venue[o].at = "done" /\ rows'[r].remaining = venue[o].filled
            /\ rows'[r].status \in {"open", "rejected"}
        BY <1>12, <3>2 DEF EntryTold
      <4>2. KnownAccount(r)'
        <5>1. o \in BuysOf(r)' /\ venue'[o].at = "done"
              /\ venue'[o].filled = rows'[r].remaining + booked'[r]
          BY <1>1, <1>4, <1>7, <2>1, <4>1 DEF BuysOf
        <5> QED BY <5>1 DEF KnownAccount
      <4> QED BY <1>1, <1>2, <1>6, <4>1, <4>2 DEF RowAccount, AskedAccount, PaperAccount, EdgeAccount, Pending
    <3> QED BY <3>1, <3>2
  <2>3. QuestionAccount(o)'
    BY <1>1, <1>2, <1>4, <2>1 DEF QuestionAccount, SellsOf
  <2> QED BY <2>2, <2>3
<1>13. ASSUME ExitTold(o, rows[r], rows'[r])
       PROVE  RowAccount(r)' /\ (o \in UnresolvedIntents' => QuestionAccount(o)')
  <2>1. rows[r].status = "open" /\ venue[o].filled <= rows[r].remaining /\ o \notin UnresolvedIntents'
    BY <1>1, <1>2, <1>6, <1>7, <1>13 DEF ExitTold, AskedRow, QuestionAccount, UnresolvedIntents
  <2>2. RowAccount(r)'
    <3>1. CASE rows'[r] = rows[r] /\ UNCHANGED ledger
      BY <1>10, <3>1 DEF ledger
    <3>2. CASE ~(rows'[r] = rows[r] /\ UNCHANGED ledger)
      <4>1. /\ rows'[r].status \in {"open", "closed"}
            /\ rows'[r].remaining = IF rows[r].remaining > venue[o].filled
                                    THEN rows[r].remaining - venue[o].filled ELSE 0
            /\ booked'[r] = booked[r] + venue[o].filled
        BY <1>2, <1>13, <3>2 DEF ExitTold
      <4>2. rows'[r].remaining + booked'[r] = rows[r].remaining + booked[r]
        BY <1>7, <2>1, <4>1
      <4>3. KnownAccount(r)'
        BY <1>1, <1>4, <1>6, <2>1, <4>2 DEF RowAccount, KnownAccount, BuysOf, Pending
      <4> QED BY <1>1, <1>2, <1>6, <4>1, <4>3 DEF RowAccount, AskedAccount, PaperAccount, EdgeAccount, Pending
    <3> QED BY <3>1, <3>2
  <2> QED BY <2>1, <2>2
<1>14. \A p \in Ids : RowAccount(p)'
  BY <1>5, <1>10, <1>11, <1>12, <1>13
<1>15. ASSUME NEW q \in UnresolvedIntents' PROVE QuestionAccount(q)'
  <2>1. /\ q \in UnresolvedIntents /\ q \in Orders /\ intents[q].row \in Ids /\ QuestionAccount(q)
        /\ q # o => intents[q].row # r
    BY <1>1, <1>2, <1>4 DEF AccountInv, OrderInv, BooksInv, Base, TaskInv, UnresolvedIntents, Used, Pending
  <2>2. CASE q # o
    BY <1>3, <1>4, <1>5, <2>1, <2>2 DEF QuestionAccount, SellsOf
  <2> QED BY <1>5, <1>11, <1>12, <1>13, <2>2
<1> QED BY <1>8, <1>9, <1>14, <1>15 DEF AccountInv

LEMMA LiveExitAccounts ==
  ASSUME Base, OrderInv, AccountInv, LiveExit
  PROVE  AccountInv'
<1>1. PICK p \in todo, o \in Orders :
        /\ p \in Ids /\ pc = "exits" /\ rows[p].book = "live"
        /\ UNCHANGED <<rows, ledger, resulted>>
        /\ intents[o].status = "none"
        /\ \A q \in Orders \ {o} : intents'[q] = intents[q] /\ venue'[q] = venue[q]
        /\ intents'[o].status = "submitting" /\ intents'[o].row = p
        /\ intents'[o].action = "sell" /\ intents'[o].contracts <= rows[p].remaining
        /\ intents' \in [Orders -> Intents]
        /\ venue'[o].at = "flying" /\ venue'[o].filled = venue[o].filled
  BY LiveExitEffect
<1>2. /\ booked' = booked /\ rows[p].status = "open" /\ \A q \in UnresolvedIntents : intents[q].row # p
      /\ o \notin Used /\ o \notin UnresolvedIntents
      /\ venue[o].filled = 0 /\ \A q \in Orders : venue[q].at = "done" => venue'[q] = venue[q]
  BY <1>1 DEF OrderInv, ListInv, FreeInv, ledger, Used, UnresolvedIntents, Pending, AccountInv,
     VenueInv
<1>3. /\ Used' = Used \cup {o} /\ UnresolvedIntents' = UnresolvedIntents \cup {o}
      /\ \A q : OrdersOf(q, "buy")' = OrdersOf(q, "buy")
      /\ \A q : q # p => OrdersOf(q, "sell")' = OrdersOf(q, "sell")
  <2>1. Used' = Used \cup {o}
    BY <1>1 DEF Used
  <2>2. UnresolvedIntents' = UnresolvedIntents \cup {o}
    BY <1>1 DEF UnresolvedIntents, Pending
  <2>3. ASSUME NEW q, NEW a, q # p \/ a # "sell" PROVE OrdersOf(q, a)' = OrdersOf(q, a)
    BY <1>1, <2>3 DEF OrdersOf
  <2> QED BY <2>1, <2>2, <2>3
<1>4. VenueInv'
  <2>1. intents'[o].contracts \in Nat
    BY <1>1 DEF Intents
  <2> QED BY <1>1, <1>2, <1>3, <2>1 DEF AccountInv, VenueInv
<1>5. OwnInv'
  BY <1>1, <1>3 DEF AccountInv, OwnInv, Used
<1>6. ASSUME NEW q \in Ids PROVE RowAccount(q)'
  <2>1. RowAccount(q) /\ rows'[q] = rows[q] /\ resulted' = resulted
    BY <1>1 DEF AccountInv
  <2>2. \A u \in OrdersOf(q, "buy") : u \in Orders /\ intents'[u].contracts = intents[u].contracts
    BY <1>1 DEF OrdersOf
  <2>3. OrdersOf(q, "sell")' = OrdersOf(q, "sell") \/ rows[q].status \notin Pending
    BY <1>2, <1>3 DEF Pending
  <2> QED BY <1>2, <1>3, <2>1, <2>2, <2>3, RowAccountKept
<1>7. ASSUME NEW q \in UnresolvedIntents' PROVE QuestionAccount(q)'
  <2>1. CASE q = o
    BY <1>1, <2>1 DEF QuestionAccount
  <2>2. CASE q # o
    <3>1. q \in UnresolvedIntents /\ q \in Orders \ {o} /\ QuestionAccount(q) /\ intents[q].row # p
      BY <1>2, <1>3, <2>2 DEF AccountInv, UnresolvedIntents
    <3> QED BY <1>1, <1>2, <1>3, <3>1 DEF QuestionAccount, SellsOf
  <2> QED BY <2>1, <2>2
<1> QED BY <1>4, <1>5, <1>6, <1>7 DEF AccountInv

\* A row that is not there yet has no orders.
LEMMA NoOrdersOfNone ==
  ASSUME Base, AccountInv, NEW p \in Ids, rows[p].status = "none"
  PROVE  BuysOf(p) = {} /\ SellsOf(p) = {} /\ booked[p] = 0 /\ \A o \in Used : intents[o].row # p
BY DEF Base, TaskInv, AccountInv, RowAccount, EdgeAccount, BuysOf, SellsOf, OrdersOf, Used

LEMMA EntryAccounts ==
  ASSUME Base, OrderInv, AccountInv, PaperEntry \/ EntryWithoutOrder
  PROVE  AccountInv'
<1>1. PICK p \in Free, k \in Markets :
        /\ p \in Ids /\ UNCHANGED <<policy, intents, ledger, venue, resulted, waived, bounds>>
        /\ \A q \in Ids \ {p} : rows'[q] = rows[q]
        /\ rows[p].status = "none" /\ rows'[p].book = using
        /\ rows'[p].market = k /\ k \notin resulted /\ rows' \in [Ids -> Rows]
        /\ rows'[p].contracts = rows'[p].remaining
        /\ \/ rows'[p].status = "open" /\ using = "paper"
           \/ rows'[p].status = "submitting" /\ using = "live"
  BY EntryEffect
<1>2. /\ booked' = booked /\ Used' = Used /\ UnresolvedIntents' = UnresolvedIntents
      /\ \A q, a : OrdersOf(q, a)' = OrdersOf(q, a)
  BY <1>1, OrdersKept DEF ledger
<1>3. BuysOf(p) = {} /\ SellsOf(p) = {} /\ booked[p] = 0 /\ \A o \in Used : intents[o].row # p
  BY <1>1, NoOrdersOfNone
<1>4. VenueInv'
  BY <1>1, <1>2 DEF AccountInv, VenueInv
<1>5. OwnInv'
  BY <1>1, <1>2, <1>3 DEF AccountInv, OwnInv, Base, TaskInv
<1>6. ASSUME NEW q \in Ids PROVE RowAccount(q)'
  <2>1. CASE q # p
    <3>1. RowAccount(q) /\ rows'[q] = rows[q]
      BY <1>1, <2>1 DEF AccountInv
    <3> QED BY <1>1, <1>2, <3>1, RowAccountKept
  <2>2. CASE q = p
    <3>1. rows'[p].remaining \in Nat /\ booked'[p] = 0
      BY <1>1, <1>2, <1>3 DEF Rows
    <3>2. AskedAccount(p)'
      BY <1>1, <1>2, <1>3 DEF AskedAccount, Pending, BuysOf, SellsOf
    <3>3. PaperAccount(p)'
      BY <1>1, <3>1 DEF PaperAccount
    <3>4. KnownAccount(p)' /\ EdgeAccount(p)'
      BY <1>1 DEF KnownAccount, EdgeAccount, Pending
    <3> QED BY <2>2, <3>2, <3>3, <3>4 DEF RowAccount
  <2> QED BY <2>1, <2>2
<1>7. ASSUME NEW o \in UnresolvedIntents PROVE QuestionAccount(o)'
  <2>1. QuestionAccount(o) /\ intents[o].row \in Ids \ {p}
    BY <1>3 DEF AccountInv, Base, TaskInv, UnresolvedIntents, Used, Pending
  <2> QED BY <1>1, <1>2, <2>1 DEF QuestionAccount, SellsOf
<1> QED BY <1>2, <1>4, <1>5, <1>6, <1>7 DEF AccountInv

LEMMA LiveEntryAccounts ==
  ASSUME Base, OrderInv, AccountInv, LiveEntry
  PROVE  AccountInv'
<1>1. PICK p \in Ids, k \in Markets, o \in Orders :
        /\ k \notin resulted /\ UNCHANGED <<policy, ledger, resulted, using, waived, bounds>>
        /\ UnresolvedIntents = {} /\ intents' \in [Orders -> Intents]
        /\ \A q \in Ids \ {p} : rows'[q] = rows[q]
        /\ rows[p].status = "none" /\ rows'[p].status = "submitting"
        /\ rows'[p].book = "live" /\ rows'[p].market = k
        /\ intents[o].status = "none"
        /\ \A q \in Orders \ {o} : intents'[q] = intents[q] /\ venue'[q] = venue[q]
        /\ intents'[o].status = "submitting" /\ intents'[o].row = p
        /\ intents'[o].action = "buy" /\ intents'[o].contracts = rows'[p].remaining
        /\ venue'[o].at = "flying" /\ venue'[o].filled = venue[o].filled
  BY LiveEntryEffect
<1>2. /\ booked' = booked /\ o \notin Used /\ venue[o].filled = 0 /\ resulted' = resulted
      /\ \A q \in Orders : venue[q].at = "done" => venue'[q] = venue[q]
  BY <1>1 DEF ledger, Used, AccountInv, VenueInv
<1>3. BuysOf(p) = {} /\ SellsOf(p) = {} /\ booked[p] = 0 /\ \A q \in Used : intents[q].row # p
  BY <1>1, NoOrdersOfNone
<1>4. /\ Used' = Used \cup {o} /\ UnresolvedIntents' = {o}
      /\ BuysOf(p)' = {o} /\ SellsOf(p)' = {}
      /\ \A q, a : q # p => OrdersOf(q, a)' = OrdersOf(q, a)
  <2>1. Used' = Used \cup {o}
    BY <1>1 DEF Used
  <2>2. UnresolvedIntents' = {o}
    BY <1>1 DEF UnresolvedIntents, Pending
  <2>3. ASSUME NEW q, NEW a, q # p PROVE OrdersOf(q, a)' = OrdersOf(q, a)
    BY <1>1, <2>3 DEF OrdersOf
  <2>4. BuysOf(p)' = {o} /\ SellsOf(p)' = {}
    BY <1>1, <1>3 DEF BuysOf, SellsOf, OrdersOf, Used
  <2> QED BY <2>1, <2>2, <2>3, <2>4
<1>5. VenueInv'
  <2>1. intents'[o].contracts \in Nat
    BY <1>1 DEF Intents
  <2> QED BY <1>1, <1>2, <1>4, <2>1 DEF AccountInv, VenueInv, Used, UnresolvedIntents
<1>6. OwnInv'
  BY <1>1, <1>3, <1>4 DEF AccountInv, OwnInv, Base, TaskInv, Used
<1>7. ASSUME NEW q \in Ids PROVE RowAccount(q)'
  <2>1. CASE q # p
    <3>1. RowAccount(q) /\ rows'[q] = rows[q]
      BY <1>1, <2>1 DEF AccountInv
    <3>2. \A u \in OrdersOf(q, "buy") : u \in Orders /\ intents'[u].contracts = intents[u].contracts
      BY <1>1 DEF OrdersOf
    <3> QED BY <1>2, <1>4, <2>1, <3>1, <3>2, RowAccountKept
  <2>2. CASE q = p
    <3>1. AskedAccount(p)'
      BY <1>1, <1>2, <1>3, <1>4 DEF AskedAccount
    <3> QED BY <1>1, <2>2, <3>1 DEF RowAccount, KnownAccount, PaperAccount, EdgeAccount, Pending
  <2> QED BY <2>1, <2>2
<1>8. QuestionAccount(o)'
  BY <1>1, <1>2, <1>3, <1>4 DEF QuestionAccount
<1> QED BY <1>4, <1>5, <1>6, <1>7, <1>8 DEF AccountInv

\* Steps that leave the rows' accounts, the intents and the ledger alone.
LEMMA StillAccounts ==
  ASSUME Base, AccountInv, UNCHANGED <<intents, booked>>, resulted \subseteq resulted', VenueInv',
         \A p \in Ids : /\ rows'[p].status = rows[p].status /\ rows'[p].book = rows[p].book
                        /\ rows'[p].market = rows[p].market /\ rows'[p].contracts = rows[p].contracts
                        /\ rows'[p].remaining = rows[p].remaining,
         \A p \in UnresolvedRows : rows[p].market \notin resulted' \ resulted,
         \A o \in Orders : venue[o].at = "done" => venue'[o] = venue[o]
  PROVE  AccountInv'
<1>1. /\ Used' = Used /\ UnresolvedIntents' = UnresolvedIntents
      /\ \A p, a : OrdersOf(p, a)' = OrdersOf(p, a)
  BY OrdersKept
<1>2. OwnInv'
  BY <1>1 DEF AccountInv, OwnInv, Base, TaskInv
<1>3. ASSUME NEW p \in Ids PROVE RowAccount(p)'
  <2>1. RowAccount(p) /\ \A o \in OrdersOf(p, "buy") : o \in Orders
    BY DEF AccountInv, OrdersOf
  <2>2. rows[p].status \in Pending /\ rows[p].book = "live" => rows[p].market \notin resulted' \ resulted
    BY DEF UnresolvedRows
  <2> QED BY <1>1, <2>1, <2>2, RowAccountKept
<1>4. ASSUME NEW o \in UnresolvedIntents PROVE QuestionAccount(o)'
  <2>1. QuestionAccount(o) /\ intents[o].row \in Ids
    BY DEF AccountInv, Base, TaskInv, UnresolvedIntents, Used, Pending
  <2> QED BY <1>1, <2>1 DEF QuestionAccount, SellsOf
<1> QED BY <1>1, <1>2, <1>3, <1>4 DEF AccountInv

LEMMA WorldAccounts ==
  ASSUME Base, OrderInv, AccountInv, SoundAnswers, World
  PROVE  AccountInv'
<1>1. CASE \E o \in Orders : VenueSettles(o)
  <2>1. PICK o \in Orders : VenueSettles(o)
    BY <1>1
  <2>2. /\ UNCHANGED <<rows, intents, booked, resulted>> /\ venue[o].at = "flying"
        /\ \A q \in Orders \ {o} : venue'[q] = venue[q]
    BY <2>1 DEF VenueSettles, ledger, Base, TypeOK
  <2>3. o \in Used /\ o \in UnresolvedIntents /\ venue[o].filled = 0
    BY <2>2 DEF AccountInv, VenueInv
  <2>4. intents[o].contracts \in Nat
    BY DEF Base, TypeOK, Intents
  <2>5. /\ venue'[o].at \in {"done", "lost"} /\ venue'[o].filled <= intents[o].contracts
        /\ venue'[o].at # "done" => venue'[o].filled = 0
    <3>1. CASE venue' = [venue EXCEPT ![o].at = "lost"]
      BY <2>3, <2>4, <3>1 DEF Base, TypeOK
    <3>2. CASE \E f \in 0..intents[o].contracts :
                 venue' = [venue EXCEPT ![o] = [at |-> "done", filled |-> f]]
      BY <2>4, <3>2 DEF Base, TypeOK
    <3> QED BY <2>1, <3>1, <3>2 DEF VenueSettles
  <2>6. VenueInv'
    BY <2>2, <2>3, <2>5 DEF AccountInv, VenueInv, Used, UnresolvedIntents
  <2> QED BY <2>2, <2>6, StillAccounts
<1>2. CASE \E k \in Markets : MarketResolves(k)
  <2>1. PICK k \in Markets : MarketResolves(k)
    BY <1>2
  <2>2. /\ UNCHANGED <<rows, intents, booked, venue>> /\ resulted' = resulted \cup {k}
        /\ OpenEnds(k) = {}
    BY <2>1 DEF MarketResolves, SoundAnswers, ledger
  <2>3. \A p \in UnresolvedRows : rows[p].market \notin resulted' \ resulted
    BY <2>2 DEF OpenEnds
  <2>4. VenueInv'
    BY <2>2 DEF AccountInv, VenueInv, Used, UnresolvedIntents
  <2> QED BY <2>2, <2>3, <2>4, StillAccounts
<1>3. CASE (\E m \in Modes : SetMode(m)) \/ (\E enabled \in BOOLEAN : Kill(enabled)) \/ ResetBreaker
  <2>1. UNCHANGED <<rows, intents, booked, venue, resulted>>
    BY <1>3 DEF SetMode, Kill, ResetBreaker, ledger
  <2>2. VenueInv'
    BY <2>1 DEF AccountInv, VenueInv, Used, UnresolvedIntents
  <2> QED BY <2>1, <2>2, StillAccounts
<1>4. CASE NewDay
  <2>1. /\ UNCHANGED <<intents, booked, venue, resulted>>
        /\ \A p \in Ids : /\ rows'[p].status = rows[p].status /\ rows'[p].market = rows[p].market
                          /\ rows'[p].remaining = rows[p].remaining /\ rows'[p].book = rows[p].book
                          /\ rows'[p].contracts = rows[p].contracts
    BY <1>4 DEF NewDay, Base, TypeOK, Rows
  <2>2. VenueInv'
    BY <2>1 DEF AccountInv, VenueInv, Used, UnresolvedIntents
  <2> QED BY <2>1, <2>2, StillAccounts
<1> QED BY <1>1, <1>2, <1>3, <1>4 DEF World

LEMMA AccountStep == Base /\ OrderInv /\ AccountInv /\ SoundAnswers /\ [Next]_vars => AccountInv'
<1> SUFFICES ASSUME Base, OrderInv, AccountInv, SoundAnswers, [Next]_vars PROVE AccountInv'
  OBVIOUS
<1>1. ASSUME UNCHANGED <<rows, intents, ledger, venue, resulted>> PROVE AccountInv'
  <2>1. VenueInv'
    BY <1>1 DEF AccountInv, VenueInv, Used, UnresolvedIntents
  <2> QED BY <1>1, <2>1, StillAccounts DEF ledger
<1>2. CASE Control
  BY <1>1, <1>2, ControlFrame
<1>3. CASE UNCHANGED vars
  BY <1>1, <1>3 DEF vars
<1> QED BY <1>2, <1>3, NextCases, LearnAccounts, ReconcileRowAccounts, OutcomeAccounts, PaperExitAccounts,
        LiveExitAccounts, EntryAccounts, LiveEntryAccounts, WorldAccounts

\* The fill of the one order a live row was entered with.
LEMMA EntryFill ==
  ASSUME Base, OrderInv, NEW p \in Ids, NEW o \in BuysOf(p)
  PROVE  Filled(p, "buy") = venue[o].filled
<1> DEFINE fills == [u \in Orders |-> venue[u].filled]
<1>1. BuysOf(p) = {o} /\ o \in Orders /\ BuysOf(p) = OrdersOf(p, "buy")
  BY DEF OrderInv, BooksInv, BuysOf, OrdersOf, Used
<1>2. fills[o] = venue[o].filled /\ venue[o].filled \in Int
  BY <1>1 DEF Base, TypeOK
<1>3. SumFunctionOnSet(fills, {o}) = fills[o]
  <2> HIDE DEF fills
  <2> QED BY <1>2, SumOfOne
<1> QED BY <1>1, <1>2, <1>3 DEF Filled

LEMMA BooksBalanced == Base /\ OrderInv /\ AccountInv => BookedOnce
<1> SUFFICES ASSUME Base, OrderInv, AccountInv, NEW p \in Ids, Quiet(p)
             PROVE  Entered(p) = rows[p].remaining + booked[p]
  BY DEF BookedOnce
<1>1. RowAccount(p) /\ rows[p].status \notin Pending \cup {"none"}
  BY DEF Quiet, AccountInv, Pending
<1>2. CASE rows[p].book = "live"
  BY <1>1, <1>2, EntryFill DEF RowAccount, KnownAccount, Entered
<1>3. CASE rows[p].book = "paper"
  BY <1>1, <1>3 DEF RowAccount, PaperAccount, Entered
<1> QED BY <1>2, <1>3 DEF Base, TypeOK, Rows, Books

\* Every contract that was bought is left in its row or booked once, by an
\* exit, by a look-up after a failed exit (reconcile_unresolved) or by the
\* result, as long as both writes of an exit are made, look-ups give the fill
\* and markets wait for the orders in them.
THEOREM BooksBalance == SoundAnswers => (Spec => []BookedOnce)
<1> SUFFICES ASSUME SoundAnswers PROVE Spec => []BookedOnce
  OBVIOUS
<1>1. Base /\ OrderInv /\ AccountInv /\ [Next]_vars => OrderInv' /\ AccountInv'
  BY OrderStep, AccountStep
<1> QED BY AlwaysBase, OrderInit, AccountInit, <1>1, BooksBalanced, PTL DEF Spec

-----------------------------------------------------------------------------
(* What is sold of a live row is what its ledger says.                     *)

Fills == [o \in Orders |-> venue[o].filled]
Sold(p) == SellsOf(p) \ UnresolvedIntents
InTheMarket(p) == rows[p].book = "live" /\ rows[p].status # "none" /\ rows[p].market \notin resulted

SoldAccount(p) == SumFunctionOnSet(Fills, Sold(p)) = booked[p]
SoldInv == \A p \in Ids : InTheMarket(p) => SoldAccount(p)

LEMMA FillTypes ==
  ASSUME Base
  PROVE  /\ \A o \in Orders : Fills[o] = venue[o].filled /\ Fills[o] \in Nat
         /\ \A p, a : OrdersOf(p, a) \subseteq Orders /\ IsFiniteSet(OrdersOf(p, a))
         /\ \A p : Sold(p) \subseteq Orders /\ IsFiniteSet(Sold(p))
<1>1. \A o \in Orders : Fills[o] = venue[o].filled /\ Fills[o] \in Nat
  BY DEF Base, TypeOK, Fills
<1>2. \A p, a : OrdersOf(p, a) \subseteq Orders
  BY DEF OrdersOf
<1>3. \A p : Sold(p) \subseteq Orders
  BY DEF Sold, SellsOf, OrdersOf
<1>4. \A S : S \subseteq Orders => IsFiniteSet(S)
  BY BooksAssumption, FS_Subset
<1> QED BY <1>1, <1>2, <1>3, <1>4

LEMMA SoldKept ==
  ASSUME Base, AccountInv, NEW p \in Ids, SoldAccount(p), Sold(p)' = Sold(p), booked'[p] = booked[p],
         \A o \in Orders : venue[o].at = "done" => venue'[o] = venue[o]
  PROVE  SoldAccount(p)'
<1>1. /\ IsFiniteSet(Sold(p)) /\ Sold(p) \subseteq Orders
      /\ \A o \in Orders : Fills[o] = venue[o].filled /\ Fills[o] \in Nat
  BY FillTypes
<1>2. \A o \in Sold(p) : venue'[o] = venue[o]
  BY <1>1 DEF Sold, SellsOf, OrdersOf, AccountInv, VenueInv, Used
<1>3. \A o \in Sold(p) : Fills[o] \in Nat /\ Fills'[o] = Fills[o]
  BY <1>1, <1>2 DEF Fills
<1>4. SumFunctionOnSet(Fills', Sold(p)) = SumFunctionOnSet(Fills, Sold(p))
  BY <1>1, <1>3, SumSame
<1> QED BY <1>4 DEF SoldAccount

LEMMA SoldInit == Init => SoldInv
BY DEF Init, NoRow, SoldInv, InTheMarket

LEMMA LearnSold ==
  ASSUME Base, OrderInv, AccountInv, SoldInv, SoundAnswers, "sell" \notin Garbled,
         ReconcileIntent \/ Answer
  PROVE  SoldInv'
<1>1. PICK o \in UnresolvedIntents :
        /\ o \in Orders /\ intents[o].row \in Ids /\ UNCHANGED <<venue, resulted>>
        /\ rows[intents[o].row].status # "none"
        /\ \A q \in Orders \ {o} : intents'[q] = intents[q]
        /\ intents'[o].row = intents[o].row /\ intents'[o].action = intents[o].action
        /\ intents'[o].status # "none"
        /\ \A p \in Ids \ {intents[o].row} : rows'[p] = rows[p]
        /\ rows'[intents[o].row].market = rows[intents[o].row].market
        /\ rows'[intents[o].row].book = rows[intents[o].row].book
        /\ Told(o, rows[intents[o].row], rows'[intents[o].row])
  BY LearnStep
<1>2. PICK r \in Ids : r = intents[o].row
  BY <1>1
<1>3. /\ \A p, a : OrdersOf(p, a)' = OrdersOf(p, a)
      /\ \A q \in Orders \ {o} : q \in UnresolvedIntents' <=> q \in UnresolvedIntents
  <2>1. \A q \in Orders : /\ intents'[q].row = intents[q].row /\ intents'[q].action = intents[q].action
                          /\ (intents'[q].status = "none") = (intents[q].status = "none")
    BY <1>1 DEF UnresolvedIntents, Pending
  <2>2. ASSUME NEW p, NEW a PROVE OrdersOf(p, a)' = OrdersOf(p, a)
    BY <2>1 DEF OrdersOf
  <2> QED BY <1>1, <2>2 DEF UnresolvedIntents
<1>4. ASSUME NEW p \in Ids, InTheMarket(p)' PROVE InTheMarket(p)
  BY <1>1, <1>4 DEF InTheMarket
<1>5. ASSUME NEW p \in Ids, o \notin SellsOf(p) \/ o \in UnresolvedIntents' PROVE Sold(p)' = Sold(p)
  BY <1>3, <1>5 DEF Sold, SellsOf, OrdersOf
<1>6. StillAsked(o, rows[r], rows'[r]) \/ EntryTold(o, rows[r], rows'[r])
                                       \/ ExitTold(o, rows[r], rows'[r])
  BY <1>1, <1>2 DEF Told
<1>7. ASSUME NEW p \in Ids, InTheMarket(p), p # r PROVE SoldAccount(p)'
  <2>1. o \notin SellsOf(p) /\ booked'[p] = booked[p]
    BY <1>2, <1>6, <1>7 DEF SellsOf, OrdersOf, StillAsked, EntryTold, ExitTold, ledger
  <2>2. SoldAccount(p)
    BY <1>7 DEF SoldInv
  <2> QED BY <1>1, <1>5, <2>1, <2>2, SoldKept
<1>8. ASSUME InTheMarket(r) PROVE SoldAccount(r)'
  <2>1. SoldAccount(r)
    BY <1>8 DEF SoldInv
  <2>2. CASE StillAsked(o, rows[r], rows'[r]) \/ EntryTold(o, rows[r], rows'[r])
    <3>1. booked'[r] = booked[r] /\ (o \notin SellsOf(r) \/ o \in UnresolvedIntents')
      BY <1>1, <2>2 DEF SellsOf, OrdersOf, StillAsked, EntryTold, ledger, UnresolvedIntents
    <3> QED BY <1>1, <1>5, <2>1, <3>1, SoldKept
  <2>3. CASE ExitTold(o, rows[r], rows'[r])
    <3>1. /\ o \in SellsOf(r) /\ o \notin Sold(r) /\ o \notin UnresolvedIntents'
          /\ Sold(r) \subseteq Orders /\ IsFiniteSet(Sold(r))
          /\ \A q \in Orders : Fills[q] = venue[q].filled /\ Fills[q] \in Nat
      <4>1. o \in SellsOf(r)
        BY <1>1, <1>2, <2>3 DEF SellsOf, OrdersOf, ExitTold, UnresolvedIntents, Pending
      <4>2. o \notin Sold(r) /\ o \notin UnresolvedIntents'
        BY <1>1, <2>3 DEF Sold, ExitTold, UnresolvedIntents
      <4> QED BY <4>1, <4>2, FillTypes
    <3>2. Sold(r)' = Sold(r) \cup {o} /\ Fills' = Fills
      BY <1>1, <1>3, <3>1 DEF Sold, SellsOf, OrdersOf, Fills
    <3>3. booked'[r] = booked[r] + venue[o].filled
      BY <1>2, <2>3, <3>1 DEF ExitTold, ledger, Base, TypeOK
    <3>4. SumFunctionOnSet(Fills, Sold(r) \cup {o}) = Fills[o] + SumFunctionOnSet(Fills, Sold(r))
      <4>1. \A q \in Sold(r) \cup {o} : Fills[q] \in Int
        BY <1>1, <3>1
      <4> QED BY <3>1, <4>1, SumIn
    <3>5. booked[r] \in Nat /\ Fills[o] \in Nat /\ Fills[o] = venue[o].filled
      BY <1>1, <3>1 DEF Base, TypeOK
    <3>6. SumFunctionOnSet(Fills, Sold(r) \cup {o}) = booked'[r]
      BY <2>1, <3>3, <3>4, <3>5 DEF SoldAccount
    <3> QED BY <3>2, <3>6 DEF SoldAccount
  <2> QED BY <1>6, <2>2, <2>3
<1> QED BY <1>4, <1>7, <1>8 DEF SoldInv

LEMMA TableSold ==
  ASSUME Base, OrderInv, AccountInv, SoldInv, ReconcileRow \/ Outcome \/ PaperExit
  PROVE  SoldInv'
<1>1. UNCHANGED <<intents, venue, resulted>> /\ \A p : Sold(p)' = Sold(p)
  <2>1. UNCHANGED <<intents, venue, resulted>>
    BY OutcomeFrame DEF ReconcileRow, PaperExit
  <2> QED BY <2>1, OrdersKept DEF Sold, SellsOf
<1>2. ASSUME NEW p \in Ids, InTheMarket(p)' PROVE InTheMarket(p) /\ booked'[p] = booked[p]
  <2>1. CASE ReconcileRow
    <3>1. booked' = booked
      BY <2>1 DEF ReconcileRow, ledger
    <3>2. PICK q \in todo : /\ q \in Ids /\ \A u \in Ids \ {q} : rows'[u] = rows[u]
                            /\ rows[q].status # "none"
                            /\ rows'[q].market = rows[q].market /\ rows'[q].book = rows[q].book
      BY <2>1, ReconcileRowEffect DEF OrderInv, ListInv, Pending
    <3> QED BY <1>1, <1>2, <3>1, <3>2 DEF InTheMarket
  <2>2. CASE Outcome
    <3>1. PICK q \in todo : /\ q \in Ids /\ \A u \in Ids \ {q} : rows'[u] = rows[u] /\ booked'[u] = booked[u]
                            /\ rows[q].market \in resulted
                            /\ rows'[q].market = rows[q].market
      BY <2>2, OutcomeEffect
    <3> QED BY <1>1, <1>2, <3>1 DEF InTheMarket
  <2>3. CASE PaperExit
    <3>1. PICK q \in todo : /\ q \in Ids /\ \A u \in Ids \ {q} : rows'[u] = rows[u] /\ booked'[u] = booked[u]
                            /\ rows[q].book = "paper" /\ rows'[q].book = rows[q].book
      BY <2>3, PaperExitEffect
    <3> QED BY <1>1, <1>2, <3>1 DEF InTheMarket
  <2> QED BY <2>1, <2>2, <2>3
<1> QED BY <1>1, <1>2, SoldKept DEF SoldInv

LEMMA LiveExitSold ==
  ASSUME Base, AccountInv, SoldInv, LiveExit
  PROVE  SoldInv'
<1>1. PICK p \in todo, o \in Orders :
        /\ UNCHANGED <<policy, rows, money, ledger, resulted, using, waived, bounds>>
        /\ intents[o].status = "none"
        /\ \A q \in Orders \ {o} : intents'[q] = intents[q] /\ venue'[q] = venue[q]
        /\ intents'[o].status = "submitting"
  BY LiveExitEffect
<1>2. /\ UNCHANGED <<rows, booked, resulted>>
      /\ \A q \in Orders : venue[q].at = "done" => venue'[q] = venue[q]
  BY <1>1 DEF ledger, AccountInv, VenueInv, Used
<1>3. ASSUME NEW q PROVE Sold(q)' = Sold(q)
  BY <1>1 DEF Sold, SellsOf, OrdersOf, UnresolvedIntents, Pending
<1> QED BY <1>2, <1>3, SoldKept DEF SoldInv, InTheMarket

LEMMA EntrySold ==
  ASSUME Base, AccountInv, SoldInv, PaperEntry \/ EntryWithoutOrder \/ LiveEntry
  PROVE  SoldInv'
<1>1. PICK p \in Ids :
        /\ rows[p].status = "none" /\ \A q \in Ids \ {p} : rows'[q] = rows[q]
        /\ UNCHANGED <<booked, resulted>>
        /\ \/ UNCHANGED <<intents, venue>>
           \/ \E o \in Orders :
                /\ intents[o].status = "none" /\ intents'[o].action = "buy"
                /\ \A q \in Orders \ {o} : intents'[q] = intents[q] /\ venue'[q] = venue[q]
  <2>1. CASE PaperEntry \/ EntryWithoutOrder
    BY <2>1, EntryEffect DEF ledger
  <2>2. CASE LiveEntry
    BY <2>2, LiveEntryEffect DEF ledger
  <2> QED BY <2>1, <2>2
<1>2. ASSUME NEW q PROVE Sold(q)' = Sold(q)
  <2>1. CASE UNCHANGED intents
    BY <2>1, OrdersKept DEF Sold, SellsOf
  <2>2. CASE \E o \in Orders :
                /\ intents[o].status = "none" /\ intents'[o].action = "buy"
                /\ \A u \in Orders \ {o} : intents'[u] = intents[u]
    BY <2>2 DEF Sold, SellsOf, OrdersOf, UnresolvedIntents
  <2> QED BY <1>1, <2>1, <2>2
<1>3. \A q \in Orders : venue[q].at = "done" => venue'[q] = venue[q]
  BY <1>1 DEF AccountInv, VenueInv, Used
<1>4. SoldAccount(p)
  <2>1. SellsOf(p) = {} /\ booked[p] = 0
    BY <1>1, NoOrdersOfNone
  <2>2. Sold(p) = {} /\ SumFunctionOnSet(Fills, {}) = 0
    BY <2>1, SumOfNone DEF Sold
  <2> QED BY <2>1, <2>2 DEF SoldAccount
<1>5. ASSUME NEW q \in Ids, InTheMarket(q)' PROVE SoldAccount(q)
  BY <1>1, <1>4, <1>5 DEF SoldInv, InTheMarket
<1> QED BY <1>1, <1>2, <1>3, <1>5, SoldKept DEF SoldInv

LEMMA SoldStep ==
  Base /\ OrderInv /\ AccountInv /\ SoldInv /\ SoundAnswers /\ "sell" \notin Garbled /\ [Next]_vars
    => SoldInv'
<1> SUFFICES ASSUME Base, OrderInv, AccountInv, SoldInv, SoundAnswers, "sell" \notin Garbled, [Next]_vars
             PROVE  SoldInv'
  OBVIOUS
<1>1. ASSUME UNCHANGED <<intents, booked>>, resulted \subseteq resulted',
             \A o \in Orders : venue[o].at = "done" => venue'[o] = venue[o],
             \A p \in Ids : /\ rows'[p].status = rows[p].status /\ rows'[p].book = rows[p].book
                            /\ rows'[p].market = rows[p].market
      PROVE  SoldInv'
  <2>1. \A p : Sold(p)' = Sold(p)
    BY <1>1, OrdersKept DEF Sold, SellsOf
  <2>2. \A p \in Ids : InTheMarket(p)' => InTheMarket(p)
    BY <1>1 DEF InTheMarket
  <2> QED BY <1>1, <2>1, <2>2, SoldKept DEF SoldInv
<1>2. CASE Control
  BY <1>1, <1>2, ControlFrame DEF ledger
<1>3. CASE UNCHANGED vars
  BY <1>1, <1>3 DEF vars, ledger
<1>4. CASE World
  <2>1. UNCHANGED <<intents, booked>> /\ resulted \subseteq resulted'
    BY <1>4 DEF World, VenueSettles, MarketResolves, SetMode, Kill, ResetBreaker, NewDay, ledger
  <2>2. \A o \in Orders : venue[o].at = "done" => venue'[o] = venue[o]
    BY <1>4 DEF World, VenueSettles, MarketResolves, SetMode, Kill, ResetBreaker, NewDay, Base, TypeOK
  <2>3. \A p \in Ids : /\ rows'[p].status = rows[p].status /\ rows'[p].book = rows[p].book
                       /\ rows'[p].market = rows[p].market
    BY <1>4 DEF World, VenueSettles, MarketResolves, SetMode, Kill, ResetBreaker, NewDay, Base, TypeOK, Rows
  <2> QED BY <1>1, <2>1, <2>2, <2>3
<1> QED BY <1>2, <1>3, <1>4, NextCases, LearnSold, TableSold, LiveExitSold, EntrySold

LEMMA ExposureCovered ==
  Base /\ OrderInv /\ AccountInv /\ SoldInv => RowsCoverExposure
<1> SUFFICES ASSUME Base, OrderInv, AccountInv, SoldInv, NEW p \in LiveRows
             PROVE  0 <= Held(p) /\ Held(p) <= Shown(p)
  BY DEF RowsCoverExposure
<1>1. /\ p \in Ids /\ rows[p].book = "live" /\ rows[p].status # "none" /\ RowAccount(p)
      /\ rows[p].remaining \in Nat /\ booked[p] \in Nat
      /\ \A o \in Orders : venue[o].filled \in Nat /\ intents[o].contracts \in Nat
  BY DEF LiveRows, AccountInv, Base, TypeOK, Rows, Intents
<1>2. Shown(p) \in Nat
  BY <1>1 DEF Shown
<1>3. CASE rows[p].market \in resulted
  BY <1>2, <1>3 DEF Held
<1> DEFINE bought == Filled(p, "buy")
           sold == Filled(p, "sell")
<1>4. ASSUME rows[p].market \notin resulted, rows[p].status \in Pending
      PROVE  0 <= Held(p) /\ Held(p) <= Shown(p)
  <2>1. SellsOf(p) = {} /\ Shown(p) = rows[p].remaining
    BY <1>1, <1>4 DEF RowAccount, AskedAccount, Shown, OpenStatus
  <2>2. sold = 0
    BY <2>1, SumOfNone DEF Filled, SellsOf
  <2>3. bought \in 0..rows[p].remaining
    <3>1. CASE BuysOf(p) = {}
      <4>1. bought = 0
        BY <3>1, SumOfNone DEF Filled, BuysOf
      <4> QED BY <1>1, <4>1
    <3>2. CASE BuysOf(p) # {}
      <4>1. PICK o \in BuysOf(p) : o \in Orders
        BY <3>2 DEF BuysOf, OrdersOf
      <4>2. bought = venue[o].filled
        BY <1>1, EntryFill
      <4>3. venue[o].filled <= rows[p].remaining
        BY <1>1, <1>4, <4>1 DEF RowAccount, AskedAccount, AccountInv, VenueInv
      <4> QED BY <1>1, <4>1, <4>2, <4>3
    <3> QED BY <3>1, <3>2
  <2> HIDE DEF bought, sold
  <2>4. Held(p) = bought - sold
    BY <1>4 DEF Held, bought, sold
  <2> QED BY <1>1, <2>1, <2>2, <2>3, <2>4
<1>5. ASSUME rows[p].market \notin resulted, rows[p].status \notin Pending
      PROVE  0 <= Held(p) /\ Held(p) <= Shown(p)
  <2>1. bought = rows[p].remaining + booked[p]
    BY <1>1, <1>5, EntryFill DEF RowAccount, KnownAccount
  <2>2. Shown(p) = rows[p].remaining
    BY <1>1, <1>5 DEF Shown, OpenStatus, OrderInv, BooksInv, Ended, RowAccount, EdgeAccount, Pending,
       Base, TypeOK, Rows
  <2>3. /\ SumFunctionOnSet(Fills, Sold(p)) = booked[p] /\ IsFiniteSet(Sold(p)) /\ Sold(p) \subseteq Orders
        /\ \A o \in Orders : Fills[o] = venue[o].filled /\ Fills[o] \in Nat
    BY <1>1, <1>5, FillTypes DEF SoldInv, InTheMarket, SoldAccount
  <2>4. sold - booked[p] \in 0..rows[p].remaining /\ sold \in Int
    <3>1. CASE SellsOf(p) \cap UnresolvedIntents = {}
      <4>1. Sold(p) = OrdersOf(p, "sell")
        BY <3>1 DEF Sold, SellsOf
      <4>2. sold = booked[p]
        BY <2>3, <4>1 DEF Filled, Fills
      <4> HIDE DEF sold
      <4> QED BY <1>1, <4>2
    <3>2. CASE SellsOf(p) \cap UnresolvedIntents # {}
      <4>1. PICK o \in SellsOf(p) : o \in UnresolvedIntents
        BY <3>2
      <4>2. /\ OrdersOf(p, "sell") = Sold(p) \cup {o} /\ o \notin Sold(p) /\ o \in Orders
            /\ intents[o].row = p /\ intents[o].action = "sell"
        BY <4>1 DEF OrderInv, BooksInv, Sold, SellsOf, OrdersOf
      <4>3. SumFunctionOnSet(Fills, Sold(p) \cup {o}) = Fills[o] + SumFunctionOnSet(Fills, Sold(p))
        <5>1. \A u \in Sold(p) \cup {o} : Fills[u] \in Int
          BY <2>3, <4>2
        <5> QED BY <2>3, <4>2, <5>1, SumIn
      <4>4. sold = venue[o].filled + booked[p]
        BY <2>3, <4>2, <4>3 DEF Filled, Fills
      <4>5. venue[o].filled <= rows[p].remaining
        BY <1>1, <4>1, <4>2 DEF AccountInv, VenueInv, QuestionAccount
      <4> HIDE DEF sold
      <4> QED BY <1>1, <4>2, <4>4, <4>5
    <3> QED BY <3>1, <3>2
  <2>5. Held(p) = bought - sold
    BY <1>5 DEF Held
  <2> HIDE DEF bought, sold
  <2> QED BY <1>1, <2>1, <2>2, <2>4, <2>5
<1> QED BY <1>3, <1>4, <1>5

\* The account never holds more of a live position than its row shows, and
\* never less than nothing, whatever call, look-up or write of an entry failed
\* (submit_live_entry, manage_exit, reconcile_unresolved); manage_exit takes an
\* exit whose fill is no number for none, so that the reply has to be a number.
THEOREM AccountIsCovered ==
  SoundAnswers /\ "sell" \notin Garbled => (Spec => []RowsCoverExposure)
<1> SUFFICES ASSUME SoundAnswers, "sell" \notin Garbled PROVE Spec => []RowsCoverExposure
  OBVIOUS
<1>1. Base /\ OrderInv /\ AccountInv /\ SoldInv /\ [Next]_vars => OrderInv' /\ AccountInv' /\ SoldInv'
  BY OrderStep, AccountStep, SoldStep
<1> QED BY AlwaysBase, OrderInit, AccountInit, SoldInit, <1>1, ExposureCovered, PTL DEF Spec

-----------------------------------------------------------------------------
(***************************************************************************)
(* The caps.  A row may grow again: its entry is asked about twice when    *)
(* one of two writes was torn, a look-up that was nonsense is followed by  *)
(* one that is not.  What stays is the most each live row may ever show,   *)
(* fixed when nothing was open; the live rows stay covered by it until the *)
(* next live entry, which finds again that nothing is open.                *)
(***************************************************************************)

FillInv ==
  \A o \in Orders :
    /\ venue[o].filled <= intents[o].contracts
    /\ o \notin Used => venue[o].at = "none" /\ venue[o].filled = 0

Counts == [p \in Ids |-> Counted(p)]
OpenIn(b, k) == {p \in OpenRows(b) : rows[p].market = k}

\* The budgets of rows that may each count for most[p].
Budgeted(most, S) ==
  /\ Cardinality(S) <= Caps["rows"]
  /\ SumFunctionOnSet(most, S) <= Caps["total"]
  /\ \A k \in Markets : SumFunctionOnSet(most, {p \in S : rows[p].market = k}) <= Caps["market"]

\* The orders that may still say what a row shows.
MaySpeak(o) ==
  o \in Used /\ intents[o].action = "buy"
    /\ (o \in UnresolvedIntents \/ intents[o].row \in UnresolvedRows)

\* What the row of an order counts for if the order fills as planned.
Asked(o) ==
  Worth(planned[intents[o].row], intents[o].contracts, costs[intents[o].row].fees)

\* The live rows of S hold all that is open, and count for no more than most,
\* also when an order turns out to have filled at the price it was planned for.
Holds(most, S) ==
  /\ \A p \in S : /\ rows[p].book = "live" /\ rows[p].status # "none"
                  /\ Counted(p) <= most[p]
  /\ OpenRows("live") \subseteq S
  /\ \A o \in UnresolvedIntents : intents[o].row \in S
  /\ \A o \in Orders : MaySpeak(o) => Asked(o) <= most[intents[o].row]

Covered == \E most \in [Ids -> Nat], S \in SUBSET Ids : Budgeted(most, S) /\ Holds(most, S)

\* One book is within its caps.
BookWithin(b) ==
  /\ Cardinality(OpenRows(b)) <= Caps["rows"]
  /\ SumFunctionOnSet(Counts, OpenRows(b)) <= Caps["total"]
  /\ \A k \in Markets : SumFunctionOnSet(Counts, OpenIn(b, k)) <= Caps["market"]

CapsInv == ListInv /\ FillInv /\ OwnInv /\ BookWithin("paper") /\ Covered

\* The row counts for no more than before.
NoGrowth(p) ==
  rows'[p].status \in OpenStatus =>
    /\ rows[p].status \in OpenStatus /\ Counted(p)' <= Counted(p)
    /\ rows'[p].book = rows[p].book /\ rows'[p].market = rows[p].market

Entries == PaperEntry \/ EntryWithoutOrder \/ LiveEntry

LEMMA FillStep ==
  ASSUME Base, FillInv, [Next]_vars
  PROVE  FillInv'
<1>1. \A o \in Orders : venue[o].filled \in Nat /\ intents[o].contracts \in Nat
  BY DEF Base, TypeOK, Intents
<1>2. ASSUME UNCHANGED <<intents, venue>> PROVE FillInv'
  BY <1>2 DEF FillInv, Used
<1>3. CASE Control \/ ReconcileRow \/ Outcome \/ PaperExit \/ PaperEntry \/ EntryWithoutOrder \/ UNCHANGED vars
  BY <1>2, <1>3, ControlFrame, OutcomeFrame DEF ReconcileRow, PaperExit, PaperEntry, EntryWithoutOrder, vars
<1>4. CASE ReconcileIntent \/ Answer
  <2>1. PICK o \in UnresolvedIntents :
          /\ o \in Orders /\ UNCHANGED venue
          /\ \A q \in Orders \ {o} : intents'[q] = intents[q]
          /\ intents'[o].contracts = intents[o].contracts /\ intents'[o].status # "none"
    BY <1>4, LearnStep
  <2> QED BY <2>1 DEF FillInv, Used
<1>5. CASE LiveExit \/ LiveEntry
  <2>1. PICK o \in Orders :
          /\ intents[o].status = "none" /\ intents'[o].status = "submitting"
          /\ intents'[o].contracts \in Nat
          /\ \A q \in Orders \ {o} : intents'[q] = intents[q] /\ venue'[q] = venue[q]
          /\ venue'[o].filled = venue[o].filled
    BY <1>5, LiveExitEffect, LiveEntryEffect DEF Intents
  <2>2. venue[o].filled = 0
    BY <2>1 DEF FillInv, Used
  <2> QED BY <2>1, <2>2 DEF FillInv, Used
<1>6. CASE World
  <2>1. CASE \E o \in Orders : VenueSettles(o)
    <3>1. PICK o \in Orders : VenueSettles(o)
      BY <2>1
    <3>2. /\ UNCHANGED intents /\ o \in Used
          /\ \A q \in Orders \ {o} : venue'[q] = venue[q]
          /\ venue'[o].filled <= intents[o].contracts
      BY <1>1, <3>1 DEF VenueSettles, FillInv, Base, TypeOK
    <3> QED BY <3>2 DEF FillInv, Used
  <2>2. CASE ~\E o \in Orders : VenueSettles(o)
    BY <1>2, <1>6, <2>2 DEF World, MarketResolves, SetMode, Kill, ResetBreaker, NewDay
  <2> QED BY <2>1, <2>2
<1> QED BY <1>3, <1>4, <1>5, <1>6, NextCases

LEMMA OwnStep ==
  ASSUME Base, OwnInv, [Next]_vars
  PROVE  OwnInv'
<1>1. \A o \in Used : intents[o].row \in Ids /\ rows[intents[o].row].status # "none"
  BY DEF Base, TaskInv
<1>2. ASSUME UNCHANGED intents,
             \A p \in Ids : rows'[p].book = rows[p].book \/ rows[p].status = "none"
      PROVE  OwnInv'
  BY <1>1, <1>2 DEF OwnInv, Used
<1>3. CASE Control \/ UNCHANGED vars
  BY <1>2, <1>3, ControlFrame DEF vars
<1>4. CASE ReconcileIntent \/ Answer
  <2>1. PICK o \in UnresolvedIntents :
          /\ o \in Orders /\ intents[o].row \in Ids
          /\ \A q \in Orders \ {o} : intents'[q] = intents[q]
          /\ intents'[o].row = intents[o].row
          /\ \A p \in Ids \ {intents[o].row} : rows'[p] = rows[p]
          /\ rows'[intents[o].row].book = rows[intents[o].row].book
    BY <1>4, LearnStep
  <2>2. \A q \in Used' : q \in Used /\ intents'[q].row = intents[q].row
    BY <2>1 DEF Used, UnresolvedIntents, Pending
  <2>3. \A p \in Ids : rows'[p].book = rows[p].book
    BY <2>1
  <2> QED BY <1>1, <2>2, <2>3 DEF OwnInv
<1>5. CASE ReconcileRow
  BY <1>2, <1>5, ReconcileRowEffect DEF ReconcileRow
<1>6. CASE Outcome
  BY <1>2, <1>6, OutcomeEffect, OutcomeFrame
<1>7. CASE PaperExit
  BY <1>2, <1>7, PaperExitEffect DEF PaperExit
<1>8. CASE LiveExit
  BY <1>8, LiveExitEffect DEF OwnInv, Used
<1>9. CASE PaperEntry \/ EntryWithoutOrder
  BY <1>2, <1>9, EntryEffect
<1>10. CASE LiveEntry
  BY <1>1, <1>10, LiveEntryEffect DEF OwnInv, Used
<1>11. CASE World
  <2>1. UNCHANGED intents /\ \A p \in Ids : rows'[p].book = rows[p].book
    BY <1>11 DEF World, VenueSettles, MarketResolves, SetMode, Kill, ResetBreaker, NewDay, Base, TypeOK, Rows
  <2> QED BY <1>2, <2>1
<1> QED BY <1>3, <1>4, <1>5, <1>6, <1>7, <1>8, <1>9, <1>10, <1>11, NextCases

\* The arithmetic of a cost.
LEMMA WorthGrows ==
  ASSUME NEW u \in Nat, NEW v \in Nat, u <= v, NEW m \in Nat, NEW n \in Nat, m <= n,
         NEW e \in Nat, NEW f \in Nat, e <= f
  PROVE  Worth(u, m, e) <= Worth(v, n, f) /\ Worth(u, m, e) \in Nat
<1>1. u * m \in Nat /\ v * n \in Nat /\ u * m <= v * n
  <2>1. PICK x \in Nat : v = u + x
    <3>1. v - u \in Nat /\ v = u + (v - u)
      OBVIOUS
    <3> QED BY <3>1
  <2>2. PICK y \in Nat : n = m + y
    <3>1. n - m \in Nat /\ n = m + (n - m)
      OBVIOUS
    <3> QED BY <3>1
  <2>3. v * n = u * m + u * y + x * m + x * y
    BY <2>1, <2>2
  <2>4. u * m \in Nat /\ u * y \in Nat /\ x * m \in Nat /\ x * y \in Nat
    BY <2>1, <2>2
  <2> QED BY <2>3, <2>4
<1> QED BY <1>1 DEF Worth

LEMMA WorthType ==
  ASSUME NEW u \in Nat, NEW m \in Nat, NEW e \in Nat
  PROVE  Worth(u, m, e) \in Nat
<1>1. u * m \in Nat
  OBVIOUS
<1> QED BY <1>1 DEF Worth

LEMMA LowerIsLower ==
  ASSUME NEW u \in Nat, NEW v \in Nat
  PROVE  /\ Lower(u, v) \in Nat /\ Lower(u, v) <= u /\ Lower(u, v) <= v
         /\ u = v => Lower(u, v) = v
BY DEF Lower

LEMMA RowTypes ==
  ASSUME TypeOK, NEW p \in Ids
  PROVE  rows[p].remaining \in Nat /\ costs[p].vwap \in Nat /\ costs[p].fees \in Nat /\ planned[p] \in Nat
<1>1. rows[p] \in Rows /\ costs[p] \in Costs /\ planned[p] \in Nat
  BY DEF TypeOK, Costs
<1> QED BY <1>1 DEF Rows, Costs

LEMMA CountedType ==
  ASSUME TypeOK, NEW p \in Ids
  PROVE  Counted(p) \in Nat /\ Counted(p) <= Worth(costs[p].vwap, rows[p].remaining, costs[p].fees)
<1>1. rows[p].remaining \in Nat /\ costs[p].vwap \in Nat /\ costs[p].fees \in Nat /\ planned[p] \in Nat
  BY RowTypes
<1>0. Lower(costs[p].vwap, planned[p]) \in Nat /\ Lower(costs[p].vwap, planned[p]) <= costs[p].vwap
  BY <1>1, LowerIsLower
<1>2. PICK u \in Nat, v \in Nat, m \in Nat, e \in Nat :
        /\ u = Lower(costs[p].vwap, planned[p]) /\ v = costs[p].vwap
        /\ m = rows[p].remaining /\ e = costs[p].fees
  BY <1>0, <1>1
<1>3. Counted(p) = Worth(u, m, e)
  BY <1>2 DEF Counted
<1>4. u <= v /\ m <= m /\ e <= e
  BY <1>0, <1>2
<1>5. Worth(u, m, e) <= Worth(v, m, e) /\ Worth(u, m, e) \in Nat
  BY <1>2, <1>4, WorthGrows
<1> QED BY <1>2, <1>3, <1>5

\* A row counts for no more when it has no more contracts, at the same price and
\* at no higher fees.
LEMMA CountedShrinks ==
  ASSUME TypeOK, TypeOK', NEW p \in Ids, rows'[p].remaining <= rows[p].remaining,
         costs'[p].vwap = costs[p].vwap, costs'[p].fees <= costs[p].fees,
         planned'[p] = planned[p]
  PROVE  Counted(p)' <= Counted(p)
<1>1. /\ rows[p].remaining \in Nat /\ costs[p].vwap \in Nat /\ costs[p].fees \in Nat
      /\ planned[p] \in Nat
  BY RowTypes
<1>2. rows'[p].remaining \in Nat /\ costs'[p].fees \in Nat
  <2>1. rows'[p] \in Rows /\ costs'[p] \in Costs
    BY DEF TypeOK, Costs
  <2> QED BY <2>1 DEF Rows, Costs
<1>3. Lower(costs[p].vwap, planned[p]) \in Nat
      /\ Lower(costs[p].vwap, planned[p]) <= Lower(costs[p].vwap, planned[p])
  BY <1>1, LowerIsLower
<1>4. /\ Counted(p)' = Worth(Lower(costs[p].vwap, planned[p]), rows'[p].remaining, costs'[p].fees)
      /\ Counted(p) = Worth(Lower(costs[p].vwap, planned[p]), rows[p].remaining, costs[p].fees)
  BY DEF Counted
<1>5. PICK u \in Nat, m \in Nat, n \in Nat, e \in Nat, f \in Nat :
        /\ u = Lower(costs[p].vwap, planned[p]) /\ m = rows'[p].remaining /\ n = rows[p].remaining
        /\ e = costs'[p].fees /\ f = costs[p].fees
  BY <1>1, <1>2, <1>3
<1>6. u <= u /\ m <= n /\ e <= f
  BY <1>5
<1>7. Worth(u, m, e) <= Worth(u, n, f)
  BY <1>6, WorthGrows
<1> QED BY <1>4, <1>5, <1>7

\* A row that shows what its order filled counts for no more than was planned.
LEMMA CountedAsPlanned ==
  ASSUME TypeOK, TypeOK', NEW p \in Ids, NEW n \in Nat, rows'[p].remaining <= n,
         costs'[p].fees <= costs[p].fees, planned'[p] = planned[p]
  PROVE  Counted(p)' <= Worth(planned[p], n, costs[p].fees)
<1>1. costs[p].fees \in Nat /\ planned[p] \in Nat
  BY RowTypes
<1>2. rows'[p].remaining \in Nat /\ costs'[p].fees \in Nat /\ costs'[p].vwap \in Nat
  <2>1. rows'[p] \in Rows /\ costs'[p] \in Costs
    BY DEF TypeOK, Costs
  <2> QED BY <2>1 DEF Rows, Costs
<1>3. Lower(costs'[p].vwap, planned[p]) \in Nat /\ Lower(costs'[p].vwap, planned[p]) <= planned[p]
  BY <1>1, <1>2, LowerIsLower
<1>4. Counted(p)' = Worth(Lower(costs'[p].vwap, planned[p]), rows'[p].remaining, costs'[p].fees)
  BY DEF Counted
<1>5. PICK u \in Nat, v \in Nat, m \in Nat, e \in Nat, f \in Nat :
        /\ u = Lower(costs'[p].vwap, planned[p]) /\ v = planned[p] /\ m = rows'[p].remaining
        /\ e = costs'[p].fees /\ f = costs[p].fees
  BY <1>1, <1>2, <1>3
<1>6. u <= v /\ m <= n /\ e <= f
  BY <1>3, <1>5
<1>7. Worth(u, m, e) <= Worth(v, n, f)
  BY <1>6, WorthGrows
<1> QED BY <1>4, <1>5, <1>7

\* What stays the same counts for the same.
LEMMA CountedSame ==
  ASSUME NEW p \in Ids, rows'[p].remaining = rows[p].remaining,
         costs'[p] = costs[p], planned'[p] = planned[p]
  PROVE  Counted(p)' = Counted(p)
BY DEF Counted

LEMMA AskedType ==
  ASSUME Base, NEW o \in Used
  PROVE  Asked(o) \in Nat
<1>1. intents[o].row \in Ids /\ o \in Orders
  BY DEF Base, TaskInv, Used
<1>2. intents[o].contracts \in Nat
  <2>1. intents[o] \in Intents
    BY <1>1 DEF Base, TypeOK
  <2> QED BY <2>1 DEF Intents
<1>3. planned[intents[o].row] \in Nat /\ costs[intents[o].row].fees \in Nat
  BY <1>1, RowTypes DEF Base
<1> QED BY <1>2, <1>3, WorthType DEF Asked

\* Fees only fall, so that an order never comes to ask for more.
LEMMA AskedShrinks ==
  ASSUME Base, Base', NEW o \in Used, intents'[o].row = intents[o].row,
         intents'[o].contracts = intents[o].contracts, UNCHANGED planned,
         \A p \in Ids : costs'[p].fees <= costs[p].fees
  PROVE  Asked(o)' <= Asked(o) /\ Asked(o) \in Nat /\ Asked(o)' \in Nat
<1>1. PICK p \in Ids : p = intents[o].row
  BY DEF Base, TaskInv
<1>2. intents[o].contracts \in Nat
  <2>1. intents[o] \in Intents
    BY DEF Base, TypeOK, Used
  <2> QED BY <2>1 DEF Intents
<1>3. planned[p] \in Nat /\ costs[p].fees \in Nat
  BY RowTypes DEF Base
<1>4. costs'[p].fees \in Nat /\ costs'[p].fees <= costs[p].fees
  <2>1. costs'[p] \in Costs
    BY DEF Base, TypeOK, Costs
  <2> QED BY <2>1 DEF Costs
<1>5. /\ Asked(o) = Worth(planned[p], intents[o].contracts, costs[p].fees)
      /\ Asked(o)' = Worth(planned[p], intents[o].contracts, costs'[p].fees)
  BY <1>1 DEF Asked
<1>6. PICK u \in Nat, m \in Nat, e \in Nat, f \in Nat :
        /\ u = planned[p] /\ m = intents[o].contracts /\ e = costs'[p].fees /\ f = costs[p].fees
  BY <1>2, <1>3, <1>4
<1>7. u <= u /\ m <= m /\ e <= f
  BY <1>4, <1>6
<1>8. Worth(u, m, e) <= Worth(u, m, f) /\ Worth(u, m, e) \in Nat /\ Worth(u, m, f) \in Nat
  BY <1>7, WorthGrows, WorthType
<1> QED BY <1>5, <1>6, <1>8

LEMMA CountsTypes ==
  ASSUME Base
  PROVE  /\ \A p \in Ids : Counts[p] = Counted(p) /\ Counts[p] \in Nat
         /\ \A b : OpenRows(b) \subseteq Ids /\ IsFiniteSet(OpenRows(b))
         /\ \A b, k : OpenIn(b, k) \subseteq Ids /\ IsFiniteSet(OpenIn(b, k))
<1>1. \A p \in Ids : Counts[p] = Counted(p) /\ Counts[p] \in Nat
  BY CountedType DEF Base, Counts
<1>2. \A b : OpenRows(b) \subseteq Ids
  BY DEF OpenRows
<1>3. \A b, k : OpenIn(b, k) \subseteq Ids
  BY DEF OpenIn, OpenRows
<1>4. \A S : S \subseteq Ids => IsFiniteSet(S)
  BY BooksAssumption, FS_Subset
<1> QED BY <1>1, <1>2, <1>3, <1>4

LEMMA CountsNextTypes ==
  ASSUME Base'
  PROVE  \A p \in Ids : Counts'[p] = Counted(p)' /\ Counts'[p] \in Nat
<1>1. ASSUME NEW p \in Ids PROVE Counted(p)' \in Nat
  <2>1. rows'[p] \in Rows /\ costs'[p] \in Costs /\ planned'[p] \in Nat
    BY DEF Base, TypeOK, Costs
  <2>2. rows'[p].remaining \in Nat /\ costs'[p].fees \in Nat /\ costs'[p].vwap \in Nat
    BY <2>1 DEF Rows, Costs
  <2>3. Lower(costs'[p].vwap, planned'[p]) \in Nat
    BY <2>1, <2>2, LowerIsLower
  <2>4. Counted(p)' = Worth(Lower(costs'[p].vwap, planned'[p]), rows'[p].remaining, costs'[p].fees)
    BY DEF Counted
  <2> QED BY <2>2, <2>3, <2>4, WorthType
<1> QED BY <1>1 DEF Counts

LEMMA CapsByBook == WithinCaps <=> \A b \in Books : BookWithin(b)
BY DEF WithinCaps, BookWithin, AsPlanned, Counts, OpenIn

\* Covered rows are within the caps.
LEMMA CoverIsEnough ==
  ASSUME Base, Covered
  PROVE  BookWithin("live")
<1>1. PICK most \in [Ids -> Nat], S \in SUBSET Ids : Budgeted(most, S) /\ Holds(most, S)
  BY DEF Covered
<1>2. ASSUME NEW T, NEW U, T \subseteq U, T \subseteq OpenRows("live"), U \subseteq S
      PROVE  /\ Cardinality(T) <= Cardinality(U)
             /\ Cardinality(T) \in Nat /\ Cardinality(U) \in Nat
             /\ SumFunctionOnSet(Counts, T) <= SumFunctionOnSet(most, U)
             /\ SumFunctionOnSet(Counts, T) \in Nat /\ SumFunctionOnSet(most, U) \in Nat
  <2>1. IsFiniteSet(U) /\ IsFiniteSet(T) /\ U \subseteq Ids
    BY <1>2, BooksAssumption, FS_Subset
  <2>2. \A p \in U : most[p] \in Nat
    BY <2>1
  <2>3. \A p \in T : Counts[p] \in Nat /\ Counts[p] <= most[p]
    BY <1>1, <1>2, <2>1, CountsTypes DEF Holds
  <2>4. SumFunctionOnSet(Counts, T) <= SumFunctionOnSet(most, U)
        /\ SumFunctionOnSet(Counts, T) \in Nat /\ SumFunctionOnSet(most, U) \in Nat
    BY <1>2, <2>1, <2>2, <2>3, SumGrows, SumNat
  <2>5. Cardinality(T) <= Cardinality(U) /\ Cardinality(T) \in Nat /\ Cardinality(U) \in Nat
    BY <1>2, <2>1, FS_Subset, FS_CardinalityType
  <2> QED BY <2>4, <2>5
<1>3. Caps["rows"] \in Nat /\ Caps["total"] \in Nat /\ Caps["market"] \in Nat
  BY BooksAssumption
<1>4. OpenRows("live") \subseteq S
  BY <1>1 DEF Holds
<1>5. /\ Cardinality(OpenRows("live")) <= Caps["rows"]
      /\ SumFunctionOnSet(Counts, OpenRows("live")) <= Caps["total"]
  <2>1. /\ Cardinality(OpenRows("live")) <= Cardinality(S)
        /\ Cardinality(OpenRows("live")) \in Nat /\ Cardinality(S) \in Nat
        /\ SumFunctionOnSet(Counts, OpenRows("live")) <= SumFunctionOnSet(most, S)
        /\ SumFunctionOnSet(Counts, OpenRows("live")) \in Nat /\ SumFunctionOnSet(most, S) \in Nat
    BY <1>2, <1>4
  <2> QED BY <1>1, <1>3, <2>1 DEF Budgeted
<1>6. ASSUME NEW k \in Markets
      PROVE  SumFunctionOnSet(Counts, OpenIn("live", k)) <= Caps["market"]
  <2> DEFINE U == {p \in S : rows[p].market = k}
  <2>1. OpenIn("live", k) \subseteq U /\ OpenIn("live", k) \subseteq OpenRows("live") /\ U \subseteq S
    BY <1>4 DEF OpenIn
  <2>2. SumFunctionOnSet(most, U) <= Caps["market"]
    BY <1>1 DEF Budgeted
  <2> HIDE DEF U
  <2>3. /\ SumFunctionOnSet(Counts, OpenIn("live", k)) <= SumFunctionOnSet(most, U)
        /\ SumFunctionOnSet(Counts, OpenIn("live", k)) \in Nat /\ SumFunctionOnSet(most, U) \in Nat
    BY <1>2, <2>1
  <2> QED BY <1>3, <2>2, <2>3
<1> QED BY <1>5, <1>6 DEF BookWithin

\* A cover lasts as long as what it holds stays what it is.
LEMMA CoverLasts ==
  ASSUME Base, Covered,
         \A most \in [Ids -> Nat], S \in SUBSET Ids : Holds(most, S) =>
           Holds(most, S)' /\ \A p \in S : rows'[p].market = rows[p].market
  PROVE  Covered'
<1>1. PICK most \in [Ids -> Nat], S \in SUBSET Ids : Budgeted(most, S) /\ Holds(most, S)
  BY DEF Covered
<1>2. Holds(most, S)' /\ \A p \in S : rows'[p].market = rows[p].market
  BY <1>1
<1>3. \A k : {p \in S : rows'[p].market = k} = {p \in S : rows[p].market = k}
  BY <1>2
<1>4. Budgeted(most, S)'
  BY <1>1, <1>3 DEF Budgeted
<1> QED BY <1>2, <1>4 DEF Covered

\* When nothing is open but an order for all that its row shows, the rows
\* cover themselves.
LEMMA CoverAnew ==
  ASSUME Base', BookWithin("live")',
         \A o \in UnresolvedIntents' : intents'[o].row \in OpenRows("live")',
         \A o \in Orders : MaySpeak(o)' => Asked(o)' <= Counts'[intents'[o].row]
  PROVE  Covered'
<1>1. \A p \in Ids : Counts'[p] = Counted(p)' /\ Counts'[p] \in Nat
  BY CountsNextTypes
<1>2. PICK most \in [Ids -> Nat], S \in SUBSET Ids : most = Counts' /\ S = OpenRows("live")'
  BY <1>1 DEF Counts, OpenRows
<1>3. \A p \in S : rows'[p].book = "live" /\ rows'[p].status # "none" /\ Counted(p)' <= most[p]
  BY <1>1, <1>2 DEF OpenRows, OpenStatus, Pending
<1>4. \A o \in Orders : MaySpeak(o)' => Asked(o)' <= most[intents'[o].row]
  BY <1>2
<1>5. Holds(most, S)'
  BY <1>2, <1>3, <1>4 DEF Holds
<1>6. Budgeted(most, S)'
  <2>1. \A k : {p \in S : rows'[p].market = k} = OpenIn("live", k)'
    BY <1>2 DEF OpenIn
  <2> QED BY <1>2, <2>1 DEF BookWithin, Budgeted
<1> QED BY <1>2, <1>5, <1>6 DEF Covered

\* A step that changes one row, which stays in its book and its market.
LEMMA OneRowHolds ==
  ASSUME NEW most \in [Ids -> Nat], NEW S \in SUBSET Ids, Holds(most, S), Base,
         Base', UNCHANGED <<intents, planned>>, NEW p \in Ids,
         \A q \in Ids \ {p} : rows'[q] = rows[q] /\ costs'[q] = costs[q],
         costs'[p].fees <= costs[p].fees,
         rows'[p].market = rows[p].market, rows'[p].book = rows[p].book,
         rows'[p].status # "none",
         rows'[p].status \in Pending => rows[p].status \in Pending,
         p \in S => Counted(p)' <= most[p],
         rows[p].book = "live" /\ rows'[p].status \in OpenStatus => p \in S
  PROVE  Holds(most, S)' /\ \A q \in S : rows'[q].market = rows[q].market
<1>1. UnresolvedIntents' = UnresolvedIntents /\ Used' = Used
  BY DEF UnresolvedIntents, Used
<1>2. UnresolvedRows' \subseteq UnresolvedRows
  BY DEF UnresolvedRows
<1>3. OpenRows("live")' \subseteq S
  BY DEF OpenRows, Holds
<1>4. ASSUME NEW q \in S
      PROVE  rows'[q].book = "live" /\ rows'[q].status # "none" /\ Counted(q)' <= most[q]
  <2>1. CASE q = p
    BY <1>4, <2>1 DEF Holds
  <2>2. CASE q # p
    <3>1. rows'[q] = rows[q] /\ Counted(q)' = Counted(q)
      BY <2>2, CountedSame
    <3> QED BY <3>1 DEF Holds
  <2> QED BY <2>1, <2>2
<1>5. ASSUME NEW o \in Orders, MaySpeak(o)' PROVE Asked(o)' <= most[intents'[o].row]
  <2>1. MaySpeak(o) /\ o \in Used
    BY <1>1, <1>2, <1>5 DEF MaySpeak
  <2>2. Asked(o) <= most[intents[o].row] /\ most[intents[o].row] \in Nat
    BY <2>1 DEF Holds, Base, TaskInv
  <2>3. \A q \in Ids : costs'[q].fees <= costs[q].fees
    BY RowTypes DEF Base
  <2>4. Asked(o)' <= Asked(o) /\ Asked(o) \in Nat /\ Asked(o)' \in Nat
    BY <2>1, <2>3, AskedShrinks
  <2> QED BY <2>2, <2>4
<1>6. \A o \in UnresolvedIntents' : intents'[o].row \in S
  BY <1>1 DEF Holds
<1> QED BY <1>3, <1>4, <1>5, <1>6 DEF Holds

LEMMA HoldsStep ==
  ASSUME NEW most \in [Ids -> Nat], NEW S \in SUBSET Ids, Holds(most, S),
         Base, Base', ListInv, FillInv, OwnInv, [Next]_vars, ~(EntryWithoutOrder \/ LiveEntry)
  PROVE  Holds(most, S)' /\ \A q \in S : rows'[q].market = rows[q].market
<1> DEFINE Goal == Holds(most, S)' /\ \A q \in S : rows'[q].market = rows[q].market
<1>1. /\ \A p \in Ids : rows[p].remaining \in Nat /\ most[p] \in Nat
      /\ \A o \in Orders : venue[o].filled \in Nat /\ intents[o].contracts \in Nat
  BY DEF Base, TypeOK, Rows, Intents
<1>2. \A p \in Ids : rows[p].book = "live" /\ rows[p].status \in OpenStatus => p \in S
  BY DEF Holds, OpenRows
<1> DEFINE Same == /\ UNCHANGED <<money, intents>>
                   /\ \A p \in Ids : /\ rows'[p].status = rows[p].status /\ rows'[p].book = rows[p].book
                                     /\ rows'[p].market = rows[p].market
                                     /\ rows'[p].remaining = rows[p].remaining
<1>11. ASSUME Same PROVE Goal
  <2>1. /\ UnresolvedRows' = UnresolvedRows /\ OpenRows("live")' = OpenRows("live")
        /\ UnresolvedIntents' = UnresolvedIntents /\ Used' = Used
    BY <1>11 DEF UnresolvedRows, OpenRows, UnresolvedIntents, Used
  <2>2. \A p \in Ids : Counted(p)' = Counted(p)
    BY <1>11, CountedSame DEF money
  <2>3. \A o : Asked(o)' = Asked(o) /\ MaySpeak(o)' = MaySpeak(o)
    BY <1>11, <2>1 DEF Asked, MaySpeak, money
  <2> QED BY <1>11, <2>1, <2>2, <2>3 DEF Holds
<1>3. CASE Control \/ UNCHANGED vars
  BY <1>3, <1>11, ControlFrame DEF vars, money
<1>4. CASE ReconcileIntent \/ Answer
  <2>1. PICK o \in UnresolvedIntents :
          /\ o \in Orders /\ intents[o].row \in Ids
          /\ \A q \in Orders \ {o} : intents'[q] = intents[q]
          /\ intents'[o].row = intents[o].row /\ intents'[o].action = intents[o].action
          /\ intents'[o].contracts = intents[o].contracts
          /\ \A q \in Ids \ {intents[o].row} : rows'[q] = rows[q]
          /\ rows'[intents[o].row].market = rows[intents[o].row].market
          /\ rows'[intents[o].row].book = rows[intents[o].row].book
          /\ Learnt(o, rows'[intents[o].row])
          /\ UNCHANGED planned /\ \A q \in Ids \ {intents[o].row} : costs'[q] = costs[q]
          /\ LeftAfter(o, intents[o].row)
    BY <1>4, LearnStep
  <2>2. PICK r \in S : r = intents[o].row /\ r \in Ids /\ rows[r].status # "none"
    BY <2>1 DEF Holds, Base, TaskInv, UnresolvedIntents, Used, Pending
  <2>3. o \in Used /\ costs'[r].fees <= costs[r].fees /\ planned'[r] = planned[r]
    BY <2>1, <2>2 DEF UnresolvedIntents, Used, Pending, LeftAfter
  <2>12. Counts[r] = Counted(r) /\ Counts[r] \in Nat /\ Counts'[r] = Counted(r)' /\ Counts'[r] \in Nat
    BY <2>2, CountsTypes, CountsNextTypes
  <2>4. Counted(r)' <= most[r]
    <3>1. rows'[r].remaining \in Nat /\ most[r] \in Nat
      BY <2>2 DEF Base, TypeOK, Rows
    <3>2. CASE rows'[r].remaining <= rows[r].remaining /\ costs'[r].vwap = costs[r].vwap
      <4>1. Counted(r)' <= Counted(r)
        BY <2>2, <2>3, <3>2, CountedShrinks DEF Base
      <4>2. Counted(r) <= most[r]
        BY <2>2 DEF Holds
      <4> QED BY <2>12, <3>1, <4>1, <4>2
    <3>3. CASE intents[o].action = "buy" /\ rows'[r].remaining <= venue[o].filled
      <4>1. intents[o].contracts \in Nat /\ rows'[r].remaining <= intents[o].contracts
        BY <1>1, <2>1, <3>1, <3>3 DEF FillInv
      <4>2. Counted(r)' <= Asked(o)
        BY <2>2, <2>3, <4>1, CountedAsPlanned DEF Base, Asked
      <4>3. Asked(o) <= most[r] /\ Asked(o) \in Nat
        BY <2>1, <2>2, <2>3, <3>3, AskedType DEF Holds, MaySpeak
      <4> QED BY <2>12, <3>1, <4>2, <4>3
    <3> QED BY <2>1, <2>2, <3>2, <3>3 DEF LeftAfter
  <2>5. /\ UnresolvedIntents' \subseteq UnresolvedIntents /\ Used' \subseteq Used
        /\ \A q \in Orders : /\ intents'[q].row = intents[q].row
                             /\ intents'[q].action = intents[q].action
                             /\ intents'[q].contracts = intents[q].contracts
    BY <2>1 DEF UnresolvedIntents, Used, Pending
  <2>6. UnresolvedRows' \subseteq UnresolvedRows
    BY <2>1, <2>2 DEF UnresolvedRows, Learnt, Pending
  <2>7. rows'[r].status # "none"
    BY <2>1, <2>2 DEF Learnt
  <2>8. OpenRows("live")' \subseteq S
    BY <2>1, <2>2 DEF OpenRows, Holds
  <2>9. ASSUME NEW q \in S
        PROVE  rows'[q].book = "live" /\ rows'[q].status # "none" /\ Counted(q)' <= most[q]
    <3>1. CASE q = r
      BY <2>1, <2>2, <2>4, <2>7, <3>1 DEF Holds
    <3>2. CASE q # r
      <4>1. rows'[q] = rows[q] /\ Counted(q)' = Counted(q)
        BY <2>1, <2>2, <3>2, CountedSame
      <4> QED BY <4>1 DEF Holds
    <3> QED BY <3>1, <3>2
  <2>10. ASSUME NEW q \in Orders, MaySpeak(q)' PROVE Asked(q)' <= most[intents'[q].row]
    <3>1. MaySpeak(q) /\ q \in Used
      BY <2>5, <2>6, <2>10 DEF MaySpeak
    <3>2. Asked(q) <= most[intents[q].row] /\ most[intents[q].row] \in Nat
      BY <3>1 DEF Holds, Base, TaskInv
    <3>3. \A p \in Ids : costs'[p].fees <= costs[p].fees
      BY <2>1, <2>2, <2>3, RowTypes DEF Base
    <3>4. Asked(q)' <= Asked(q) /\ Asked(q) \in Nat /\ Asked(q)' \in Nat
      BY <2>1, <2>5, <3>1, <3>3, AskedShrinks
    <3> QED BY <2>5, <3>2, <3>4
  <2>11. \A q \in UnresolvedIntents' : intents'[q].row \in S
    BY <2>5 DEF Holds, UnresolvedIntents
  <2> QED BY <2>1, <2>2, <2>8, <2>9, <2>10, <2>11 DEF Holds
<1>5. CASE ReconcileRow
  <2>1. PICK p \in todo :
          /\ p \in Ids /\ pc = "rows"
          /\ \A q \in Ids \ {p} : rows'[q] = rows[q]
          /\ \A q \in Ids \ {p} : costs'[q] = costs[q]
          /\ costs'[p].fees <= costs[p].fees
          /\ rows'[p].market = rows[p].market /\ rows'[p].book = rows[p].book
          /\ \/ rows'[p] = rows[p] /\ UNCHANGED costs
             \/ \E o \in OrdersOf(p, "buy"), n \in Nat :
                  /\ FilledExactly(o, n) /\ rows'[p].remaining = n
                  /\ rows'[p].status = IF n > 0 THEN "open" ELSE "rejected"
    BY <1>5, ReconcileRowEffect
  <2>2. rows[p].status \in Pending /\ UNCHANGED <<intents, planned>>
    BY <1>5, <2>1 DEF ListInv, ReconcileRow
  <2>3. CASE rows'[p] = rows[p] /\ UNCHANGED costs
    <3>1. \A q \in Ids : rows'[q] = rows[q]
      BY <2>1, <2>3
    <3> QED BY <1>11, <2>2, <2>3, <3>1 DEF money
  <2>4. CASE ~(rows'[p] = rows[p] /\ UNCHANGED costs)
    <3>1. PICK o \in OrdersOf(p, "buy"), n \in Nat :
            /\ FilledExactly(o, n) /\ rows'[p].remaining = n
            /\ rows'[p].status = IF n > 0 THEN "open" ELSE "rejected"
      BY <2>1, <2>4
    <3>2. o \in Orders /\ o \in Used /\ intents[o].row = p /\ intents[o].action = "buy"
      BY DEF OrdersOf, Used
    <3>3. p \in S /\ p \in UnresolvedRows
      BY <1>2, <2>1, <2>2, <3>2 DEF OwnInv, UnresolvedRows, OpenStatus
    <3>4. Counted(p)' <= most[p]
      <4>1. Asked(o) <= most[p] /\ Asked(o) \in Nat /\ most[p] \in Nat
        BY <2>1, <3>2, <3>3, AskedType DEF Holds, MaySpeak
      <4>2. intents[o].contracts \in Nat /\ rows'[p].remaining <= intents[o].contracts
        BY <1>1, <3>1, <3>2 DEF FilledExactly, FillInv
      <4>3. planned'[p] = planned[p]
        BY <2>2
      <4>4. Counted(p)' <= Asked(o)
        BY <2>1, <3>2, <4>2, <4>3, CountedAsPlanned DEF Base, Asked
      <4>5. Counted(p)' \in Nat
        BY <2>1, CountsNextTypes
      <4> QED BY <4>1, <4>4, <4>5
    <3>5. rows'[p].status \notin Pending /\ rows'[p].status # "none"
      BY <3>1 DEF Pending
    <3> QED BY <2>1, <2>2, <3>1, <3>3, <3>4, <3>5, OneRowHolds
  <2> QED BY <2>3, <2>4
<1>6. CASE Outcome
  <2>1. PICK p \in todo :
          /\ p \in Ids /\ \A q \in Ids \ {p} : rows'[q] = rows[q]
          /\ rows'[p].market = rows[p].market /\ rows'[p].book = rows[p].book
          /\ rows[p].status # "none"
          /\ \/ rows'[p].status = "settled" /\ rows'[p].remaining = 0
             \/ rows'[p].status = rows[p].status /\ rows'[p].remaining = rows[p].remaining
    BY <1>6, OutcomeEffect
  <2>2. UNCHANGED <<intents, planned, costs>>
    BY <1>6, OutcomeFrame DEF money
  <2>6. costs[p].fees \in Nat /\ costs'[p] = costs[p] /\ planned'[p] = planned[p]
    BY <2>1, <2>2, RowTypes DEF Base
  <2>3. p \in S => Counted(p)' <= most[p]
    <3>1. Counted(p)' <= Counted(p)
      BY <1>1, <2>1, <2>6, CountedShrinks DEF Base
    <3>2. Counted(p) \in Nat /\ Counted(p)' \in Nat /\ most[p] \in Nat
      BY <2>1, CountsTypes, CountsNextTypes
    <3> QED BY <3>1, <3>2 DEF Holds
  <2>4. rows[p].book = "live" /\ rows'[p].status \in OpenStatus => p \in S
    BY <1>2, <2>1 DEF OpenStatus, Pending
  <2>5. rows'[p].status # "none" /\ (rows'[p].status \in Pending => rows[p].status \in Pending)
    BY <2>1 DEF Pending
  <2> QED BY <2>1, <2>2, <2>3, <2>4, <2>5, <2>6, OneRowHolds
<1>7. CASE PaperExit
  <2>1. PICK p \in todo :
          /\ p \in Ids /\ \A q \in Ids \ {p} : rows'[q] = rows[q]
          /\ rows'[p].market = rows[p].market /\ rows'[p].book = rows[p].book
          /\ rows'[p].status \in {"open", "closed"} /\ rows[p].book = "paper"
    BY <1>7, PaperExitEffect
  <2>2. UNCHANGED <<intents, planned, costs>> /\ p \notin S
    BY <1>7, <2>1 DEF PaperExit, Holds, money
  <2>3. costs[p].fees \in Nat /\ costs'[p] = costs[p]
    BY <2>1, <2>2, RowTypes DEF Base
  <2> QED BY <2>1, <2>2, <2>3, OneRowHolds DEF Pending
<1>8. CASE LiveExit
  <2>1. PICK p \in todo, o \in Orders :
          /\ p \in Ids /\ pc = "exits" /\ rows[p].book = "live" /\ UNCHANGED <<rows, money>>
          /\ \A q \in Orders \ {o} : intents'[q] = intents[q]
          /\ intents'[o].row = p /\ intents'[o].action = "sell"
    BY <1>8, LiveExitEffect
  <2>2. p \in S
    BY <1>2, <2>1 DEF ListInv, OpenStatus
  <2>3. \A q \in UnresolvedIntents' : q = o \/ (q \in UnresolvedIntents /\ intents'[q] = intents[q])
    BY <2>1 DEF UnresolvedIntents
  <2>4. \A q \in Orders : MaySpeak(q)' => MaySpeak(q) /\ intents'[q] = intents[q]
    BY <2>1 DEF MaySpeak, UnresolvedIntents, UnresolvedRows, Used
  <2>5. /\ \A q \in Ids : Counted(q)' = Counted(q)
        /\ \A q \in Orders : intents'[q] = intents[q] => Asked(q)' = Asked(q)
    BY <2>1 DEF Counted, Asked, money
  <2> QED BY <2>1, <2>2, <2>3, <2>4, <2>5 DEF Holds, OpenRows
<1>9. CASE PaperEntry
  <2>1. PICK p \in Ids :
          /\ UNCHANGED intents /\ \A q \in Ids \ {p} : rows'[q] = rows[q]
          /\ rows[p].status = "none" /\ rows'[p].book = "paper" /\ Fresh(p)
    BY <1>9, EntryEffect DEF PaperEntry
  <2>2. p \notin S
    BY <2>1 DEF Holds
  <2>3. UnresolvedRows' \subseteq UnresolvedRows /\ OpenRows("live")' \subseteq OpenRows("live")
    BY <2>1 DEF UnresolvedRows, OpenRows
  <2>4. \A q \in S : q # p /\ rows'[q] = rows[q] /\ Counted(q)' = Counted(q)
    <3>1. \A q \in Ids \ {p} : rows'[q] = rows[q] /\ Counted(q)' = Counted(q)
      BY <2>1, CountedSame DEF Fresh
    <3> QED BY <2>2, <3>1
  <2>5. \A q \in Orders : MaySpeak(q)' => MaySpeak(q) /\ Asked(q)' = Asked(q)
    <3>1. \A q \in Used : intents[q].row \in Ids /\ intents[q].row # p
      BY <2>1 DEF Base, TaskInv
    <3> QED BY <2>1, <2>3, <3>1 DEF MaySpeak, Asked, Fresh, UnresolvedIntents, Used
  <2> QED BY <2>1, <2>3, <2>4, <2>5 DEF Holds, UnresolvedIntents
<1>10. CASE World
  <2>1. /\ UNCHANGED <<money, intents>>
        /\ \A p \in Ids : /\ rows'[p].status = rows[p].status /\ rows'[p].book = rows[p].book
                          /\ rows'[p].market = rows[p].market
                          /\ rows'[p].remaining = rows[p].remaining
    BY <1>10 DEF World, VenueSettles, MarketResolves, SetMode, Kill, ResetBreaker, NewDay, Base, TypeOK, Rows
  <2> QED BY <1>11, <2>1
<1> QED BY <1>3, <1>4, <1>5, <1>6, <1>7, <1>8, <1>9, <1>10, NextCases

\* A live entry finds nothing open, and is alone open afterwards.
LEMMA LiveEntryCovers ==
  ASSUME Base, Base', BookWithin("live")', EntryWithoutOrder \/ LiveEntry
  PROVE  Covered'
<1>1. UnresolvedRows = {} /\ UnresolvedIntents = {}
  BY DEF EntryWithoutOrder, LiveEntry, GateMayPass, HasUnresolved
<1>2. CASE EntryWithoutOrder
  <2>1. PICK p \in Ids :
          /\ UNCHANGED intents /\ \A q \in Ids \ {p} : rows'[q] = rows[q]
          /\ rows[p].status = "none"
    BY <1>2, EntryEffect
  <2>2. UnresolvedIntents' = {} /\ UnresolvedRows' \subseteq {p}
    BY <1>1, <2>1 DEF UnresolvedIntents, UnresolvedRows
  <2>3. \A o \in Orders : ~MaySpeak(o)'
    BY <2>1, <2>2 DEF MaySpeak, Base, TaskInv, Used
  <2> QED BY <2>2, <2>3, CoverAnew
<1>3. CASE LiveEntry
  <2>1. PICK p \in Ids, o \in Orders :
          /\ \A q \in Ids \ {p} : rows'[q] = rows[q]
          /\ rows[p].status = "none" /\ rows'[p].status = "submitting" /\ rows'[p].book = "live"
          /\ \A q \in Orders \ {o} : intents'[q] = intents[q]
          /\ intents'[o].row = p /\ intents'[o].contracts = rows'[p].remaining /\ Fresh(p)
    BY <1>3, LiveEntryEffect
  <2>2. UnresolvedIntents' \subseteq {o} /\ UnresolvedRows' \subseteq {p} /\ p \in OpenRows("live")'
    BY <1>1, <2>1 DEF UnresolvedIntents, UnresolvedRows, OpenRows, OpenStatus, Pending
  <2>3. \A q \in Orders : MaySpeak(q)' => q = o
    BY <2>1, <2>2 DEF MaySpeak, Base, TaskInv, Used
  <2>4. Asked(o)' <= Counts'[p]
    <3>1. Counts'[p] = Counted(p)' /\ Counts'[p] \in Nat
      BY CountsNextTypes
    <3>2. planned'[p] \in Nat /\ planned'[p] = costs'[p].vwap
      BY <2>1 DEF Fresh
    <3>3. Lower(costs'[p].vwap, planned'[p]) = planned'[p]
      BY <3>2, LowerIsLower
    <3>4. Asked(o)' = Counted(p)'
      BY <2>1, <3>3 DEF Asked, Counted
    <3> QED BY <3>1, <3>4
  <2> QED BY <2>1, <2>2, <2>3, <2>4, CoverAnew
<1> QED BY <1>2, <1>3

\* No step but an entry lets a paper row count for more.
LEMMA PaperGrowth ==
  ASSUME Base, Base', ListInv, OwnInv, [Next]_vars, ~Entries, NEW p \in Ids,
         rows'[p].book = "paper"
  PROVE  NoGrowth(p)
<1>1. rows[p].remaining \in Nat /\ costs[p].fees \in Nat /\ Counted(p) \in Nat
  BY RowTypes, CountedType DEF Base
<1>2. ASSUME rows'[p] = rows[p], costs'[p] = costs[p], planned'[p] = planned[p] PROVE NoGrowth(p)
  BY <1>1, <1>2, CountedSame DEF NoGrowth
<1>9. ASSUME UNCHANGED money, rows'[p].remaining <= rows[p].remaining PROVE Counted(p)' <= Counted(p)
  BY <1>1, <1>9, CountedShrinks DEF money, Base
<1>3. CASE Control \/ LiveExit \/ UNCHANGED vars
  BY <1>2, <1>3, ControlFrame, LiveExitEffect DEF vars, money
<1>4. CASE ReconcileIntent \/ Answer
  <2>1. PICK o \in UnresolvedIntents :
          /\ o \in Orders /\ UNCHANGED planned
          /\ \A q \in Ids \ {intents[o].row} : rows'[q] = rows[q] /\ costs'[q] = costs[q]
          /\ rows'[intents[o].row].book = rows[intents[o].row].book
    BY <1>4, LearnStep
  <2>2. rows[intents[o].row].book = "live"
    BY <2>1 DEF OwnInv, UnresolvedIntents, Used, Pending
  <2> QED BY <1>2, <2>1, <2>2
<1>5. CASE ReconcileRow
  <2>1. PICK q \in todo :
          /\ q \in Ids /\ \A u \in Ids \ {q} : rows'[u] = rows[u] /\ costs'[u] = costs[u]
          /\ rows'[q].book = rows[q].book
          /\ (rows'[q] = rows[q] /\ UNCHANGED costs) \/ \E o \in OrdersOf(q, "buy") : TRUE
    BY <1>5, ReconcileRowEffect
  <2>2. \A o \in OrdersOf(q, "buy") : rows[q].book = "live"
    BY DEF OwnInv, OrdersOf, Used
  <2>3. UNCHANGED planned
    BY <1>5 DEF ReconcileRow
  <2> QED BY <1>2, <2>1, <2>2, <2>3
<1>6. CASE Outcome
  <2>1. PICK q \in todo :
          /\ q \in Ids /\ \A u \in Ids \ {q} : rows'[u] = rows[u]
          /\ rows'[q].market = rows[q].market /\ rows'[q].book = rows[q].book
          /\ \/ rows'[q].status = "settled"
             \/ rows'[q].status = rows[q].status /\ rows'[q].remaining = rows[q].remaining
    BY <1>6, OutcomeEffect
  <2>2. UNCHANGED money
    BY <1>6, OutcomeFrame
  <2>3. CASE q # p
    BY <1>2, <2>1, <2>2, <2>3 DEF money
  <2>4. CASE q = p /\ rows'[p].status \in OpenStatus
    <3>1. rows'[p].status = rows[p].status /\ rows'[p].remaining = rows[p].remaining
      BY <2>1, <2>4 DEF OpenStatus, Pending
    <3> QED BY <1>1, <1>9, <2>1, <2>2, <2>4, <3>1 DEF NoGrowth
  <2> QED BY <2>3, <2>4 DEF NoGrowth
<1>7. CASE PaperExit
  <2>1. PICK q \in todo :
          /\ q \in Ids /\ pc = "exits" /\ \A u \in Ids \ {q} : rows'[u] = rows[u]
          /\ rows'[q].market = rows[q].market /\ rows'[q].book = rows[q].book
          /\ rows'[q].remaining <= rows[q].remaining
    BY <1>7, PaperExitEffect
  <2>2. rows[q].status = "open"
    BY <2>1 DEF ListInv
  <2>3. UNCHANGED money
    BY <1>7 DEF PaperExit
  <2> QED BY <1>2, <1>9, <2>1, <2>2, <2>3 DEF NoGrowth, OpenStatus, money
<1>8. CASE World
  <2>1. /\ rows'[p].status = rows[p].status /\ rows'[p].book = rows[p].book
        /\ rows'[p].market = rows[p].market /\ rows'[p].remaining = rows[p].remaining
        /\ UNCHANGED money
    BY <1>8 DEF World, VenueSettles, MarketResolves, SetMode, Kill, ResetBreaker, NewDay, Base, TypeOK, Rows
  <2> QED BY <1>1, <1>9, <2>1 DEF NoGrowth
<1> QED BY <1>3, <1>4, <1>5, <1>6, <1>7, <1>8, NextCases DEF Entries

LEMMA BookShrinks ==
  ASSUME Base, Base', NEW b \in Books, BookWithin(b),
         \A p \in OpenRows(b)' : NoGrowth(p)
  PROVE  BookWithin(b)'
<1>1. /\ OpenRows(b)' \subseteq OpenRows(b)
      /\ \A k : OpenIn(b, k)' \subseteq OpenIn(b, k)
  BY DEF OpenRows, OpenIn, NoGrowth
<1>2. \A p \in OpenRows(b)' : Counts'[p] \in Nat /\ Counts'[p] <= Counts[p]
  <2>1. \A p \in OpenRows(b)' : p \in Ids /\ rows'[p].status \in OpenStatus
    BY DEF OpenRows
  <2> QED BY <2>1, CountsTypes, CountsNextTypes DEF NoGrowth
<1>3. Cardinality(OpenRows(b)') <= Cardinality(OpenRows(b))
      /\ Cardinality(OpenRows(b)') \in Nat /\ Cardinality(OpenRows(b)) \in Nat
  BY <1>1, CountsTypes, FS_Subset, FS_CardinalityType
<1>4. ASSUME NEW T, NEW S, T \subseteq S, T \subseteq OpenRows(b)', S \subseteq Ids, IsFiniteSet(S)
      PROVE  /\ SumFunctionOnSet(Counts', T) <= SumFunctionOnSet(Counts, S)
             /\ SumFunctionOnSet(Counts', T) \in Nat /\ SumFunctionOnSet(Counts, S) \in Nat
  <2>1. \A p \in S : Counts[p] \in Nat
    BY <1>4, CountsTypes
  <2>2. \A p \in T : Counts'[p] \in Nat /\ Counts'[p] <= Counts[p]
    BY <1>2, <1>4
  <2>3. IsFiniteSet(T)
    BY <1>4, FS_Subset
  <2> QED BY <1>4, <2>1, <2>2, <2>3, SumGrows, SumNat
<1>5. Caps["rows"] \in Nat /\ Caps["total"] \in Nat /\ Caps["market"] \in Nat
  BY BooksAssumption
<1>6. SumFunctionOnSet(Counts', OpenRows(b)') <= Caps["total"]
  <2>1. /\ SumFunctionOnSet(Counts', OpenRows(b)') <= SumFunctionOnSet(Counts, OpenRows(b))
        /\ SumFunctionOnSet(Counts', OpenRows(b)') \in Nat /\ SumFunctionOnSet(Counts, OpenRows(b)) \in Nat
    BY <1>1, <1>4, CountsTypes
  <2> QED BY <1>5, <2>1 DEF BookWithin
<1>7. ASSUME NEW k \in Markets PROVE SumFunctionOnSet(Counts', OpenIn(b, k)') <= Caps["market"]
  <2>1. OpenIn(b, k)' \subseteq OpenRows(b)'
    BY DEF OpenIn
  <2>2. /\ SumFunctionOnSet(Counts', OpenIn(b, k)') <= SumFunctionOnSet(Counts, OpenIn(b, k))
        /\ SumFunctionOnSet(Counts', OpenIn(b, k)') \in Nat /\ SumFunctionOnSet(Counts, OpenIn(b, k)) \in Nat
    BY <1>1, <1>4, <2>1, CountsTypes
  <2> QED BY <1>5, <2>2 DEF BookWithin
<1> QED BY <1>3, <1>5, <1>6, <1>7 DEF BookWithin

\* An entry fits: consider_entry reads the totals and directional_risk_totals
\* counts every open row of the book.
LEMMA EntryWithin ==
  ASSUME Base, Base', WithinCaps, Entries
  PROVE  WithinCaps'
<1>1. PICK p \in Ids, k \in Markets :
        /\ \A q \in Ids \ {p} : rows'[q] = rows[q]
        /\ rows[p].status = "none" /\ rows'[p].status \in OpenStatus
        /\ rows'[p].book = using /\ rows'[p].market = k /\ Fits(k, Price(p)) /\ Fresh(p)
  <2>1. CASE PaperEntry \/ EntryWithoutOrder
    BY <2>1, EntryEffect DEF OpenStatus, Pending
  <2>2. CASE LiveEntry
    BY <2>2, LiveEntryEffect DEF OpenStatus, Pending
  <2> QED BY <2>1, <2>2 DEF Entries
<1>2. ASSUME NEW b \in Books, b # using PROVE BookWithin(b)'
  <2>1. \A q \in OpenRows(b)' : NoGrowth(q)
    <3>1. \A q \in OpenRows(b)' : q \in Ids /\ rows'[q] = rows[q]
      BY <1>1, <1>2 DEF OpenRows
    <3>2. \A q \in OpenRows(b)' : q # p
      BY <1>1, <1>2 DEF OpenRows
    <3>3. \A q \in OpenRows(b)' : Counted(q)' = Counted(q) /\ Counted(q) \in Nat
      BY <1>1, <3>1, <3>2, CountedSame, CountedType DEF Fresh, Base
    <3> QED BY <3>1, <3>3 DEF NoGrowth
  <2>2. BookWithin(b)
    BY CapsByBook
  <2> QED BY <2>1, <2>2, BookShrinks
<1>3. using \in Books /\ using' = using
  BY DEF Entries, PaperEntry, EntryWithoutOrder, LiveEntry, Next1, Base, TypeOK
<1>4. \A b \in Books : BookWithin(b)
  BY CapsByBook
<1>5. BookWithin(using)'
  <2> DEFINE n == Price(p)
             Paid == [q \in Ids |-> Worth(costs[q].vwap, rows[q].remaining, costs[q].fees)]
  <2>1. /\ p \notin OpenRows(using) /\ OpenRows(using)' = OpenRows(using) \cup {p}
        /\ p \notin OpenIn(using, k) /\ OpenIn(using, k)' = OpenIn(using, k) \cup {p}
        /\ \A m : m # k => OpenIn(using, m)' = OpenIn(using, m)
    <3>1. p \notin OpenRows(using) /\ p \notin OpenIn(using, k)
      BY <1>1 DEF OpenRows, OpenIn, OpenStatus, Pending
    <3>2. OpenRows(using)' = OpenRows(using) \cup {p}
      <4>1. \A q \in Ids : q \in {u \in Ids : rows'[u].book = using /\ rows'[u].status \in OpenStatus}
                           <=> q \in OpenRows(using) \/ q = p
        BY <1>1 DEF OpenRows
      <4>2. OpenRows(using) \subseteq Ids
        BY DEF OpenRows
      <4>3. OpenRows(using)' = {u \in Ids : rows'[u].book = using /\ rows'[u].status \in OpenStatus}
        BY <1>3 DEF OpenRows
      <4> QED BY <1>1, <4>1, <4>2, <4>3
    <3>3. ASSUME NEW m PROVE /\ m = k => OpenIn(using, m)' = OpenIn(using, m) \cup {p}
                             /\ m # k => OpenIn(using, m)' = OpenIn(using, m)
      <4>1. \A q \in OpenRows(using) : rows'[q] = rows[q] /\ q # p
        BY <1>1, <3>1 DEF OpenRows
      <4>2. OpenIn(using, m)' = {q \in OpenRows(using)' : rows'[q].market = m}
        BY <1>3 DEF OpenIn
      <4> QED BY <1>1, <3>2, <4>1, <4>2 DEF OpenIn
    <3> QED BY <3>1, <3>2, <3>3
  <2>2. n \in Nat /\ Counts'[p] = n /\ \A q \in Ids \ {p} : Counts'[q] = Counts[q]
    <3>1. planned'[p] \in Nat /\ planned'[p] = costs'[p].vwap
      BY <1>1 DEF Fresh
    <3>2. Lower(costs'[p].vwap, planned'[p]) = costs'[p].vwap
      BY <3>1, LowerIsLower
    <3>3. Counted(p)' = n
      BY <3>2 DEF Counted, Price
    <3>4. \A q \in Ids \ {p} : Counted(q)' = Counted(q)
      BY <1>1, CountedSame DEF Fresh
    <3> QED BY <3>3, <3>4, CountsTypes, CountsNextTypes
  <2>8. \A q \in Ids : Paid[q] \in Nat /\ Counts[q] <= Paid[q]
    <3>1. ASSUME NEW q \in Ids PROVE Paid[q] \in Nat /\ Counts[q] <= Paid[q]
      <4>1. Paid[q] = Worth(costs[q].vwap, rows[q].remaining, costs[q].fees)
        OBVIOUS
      <4>2. Paid[q] \in Nat
        BY <4>1, RowTypes, WorthType DEF Base
      <4> QED BY <4>1, <4>2, CountedType, CountsTypes DEF Base
    <3> QED BY <3>1
  <2>9. \A S \in SUBSET Ids : SumFunctionOnSet(Paid, S) = Remaining(S)
    BY DEF Remaining
  <2> HIDE DEF n, Paid
  <2>10. ASSUME NEW S \in SUBSET Ids, IsFiniteSet(S), NEW c \in Nat, n + Remaining(S) <= c
         PROVE  n + SumFunctionOnSet(Counts, S) <= c
    <3>1. \A q \in S : Paid[q] \in Nat /\ Counts[q] \in Nat /\ Counts[q] <= Paid[q]
      BY <2>8, CountsTypes
    <3>2. /\ SumFunctionOnSet(Counts, S) <= SumFunctionOnSet(Paid, S)
          /\ SumFunctionOnSet(Counts, S) \in Nat /\ SumFunctionOnSet(Paid, S) \in Nat
      BY <2>10, <3>1, SumGrows, SumNat
    <3> QED BY <2>2, <2>9, <2>10, <3>2
  <2>3. ASSUME NEW S, S \subseteq Ids, IsFiniteSet(S), p \notin S
        PROVE  /\ SumFunctionOnSet(Counts', S \cup {p}) = n + SumFunctionOnSet(Counts, S)
               /\ SumFunctionOnSet(Counts', S) = SumFunctionOnSet(Counts, S)
    <3>1. \A q \in S : Counts[q] \in Nat /\ Counts'[q] = Counts[q]
      BY <2>2, <2>3, CountsTypes
    <3>2. \A q \in S \cup {p} : Counts'[q] \in Int
      BY <2>2, <3>1
    <3>3. SumFunctionOnSet(Counts', S \cup {p}) = Counts'[p] + SumFunctionOnSet(Counts', S)
      BY <2>3, <3>2, SumIn
    <3>4. SumFunctionOnSet(Counts', S) = SumFunctionOnSet(Counts, S)
      BY <2>3, <3>1, SumSame
    <3> QED BY <2>2, <3>3, <3>4
  <2>4. /\ Cardinality(OpenRows(using)) < Caps["rows"]
        /\ n + SumFunctionOnSet(Counts, OpenIn(using, k)) <= Caps["market"]
        /\ n + SumFunctionOnSet(Counts, OpenRows(using)) <= Caps["total"]
    <3>1. /\ Cardinality(OpenRows(using)) < Caps["rows"]
          /\ n + Remaining(OpenIn(using, k)) <= Caps["market"]
          /\ n + Remaining(OpenRows(using)) <= Caps["total"]
      BY <1>1 DEF Fits, OpenIn, n
    <3> QED BY <2>10, <3>1, CountsTypes, BooksAssumption
  <2>5. Cardinality(OpenRows(using)') <= Caps["rows"]
    <3>1. Cardinality(OpenRows(using) \cup {p}) = Cardinality(OpenRows(using)) + 1
      BY <2>1, CountsTypes, FS_AddElement
    <3>2. Cardinality(OpenRows(using)) \in Nat /\ Caps["rows"] \in Nat
      BY CountsTypes, FS_CardinalityType, BooksAssumption
    <3> QED BY <2>1, <2>4, <3>1, <3>2
  <2>6. SumFunctionOnSet(Counts', OpenRows(using)') <= Caps["total"]
    BY <2>1, <2>3, <2>4, CountsTypes
  <2>7. ASSUME NEW m \in Markets PROVE SumFunctionOnSet(Counts', OpenIn(using, m)') <= Caps["market"]
    <3>1. CASE m = k
      BY <2>1, <2>3, <2>4, <3>1, CountsTypes
    <3>2. CASE m # k
      <4>1. SumFunctionOnSet(Counts', OpenIn(using, m)) = SumFunctionOnSet(Counts, OpenIn(using, m))
        <5>1. p \notin OpenIn(using, m)
          BY <2>1 DEF OpenIn
        <5> QED BY <2>3, <5>1, CountsTypes
      <4>2. SumFunctionOnSet(Counts, OpenIn(using, m)) <= Caps["market"]
        BY <1>3, <1>4 DEF BookWithin
      <4> QED BY <2>1, <3>2, <4>1, <4>2
    <3> QED BY <3>1, <3>2
  <2> QED BY <1>3, <2>5, <2>6, <2>7 DEF BookWithin
<1>6. \A b \in Books : BookWithin(b)'
  BY <1>2, <1>5, <1>3
<1> QED BY <1>6 DEF WithinCaps, BookWithin, AsPlanned, Counts, OpenIn

LEMMA CapsStep == Base /\ Base' /\ CapsInv /\ [Next]_vars => CapsInv'
<1> SUFFICES ASSUME Base, Base', CapsInv, [Next]_vars PROVE CapsInv'
  OBVIOUS
<1>1. ListInv' /\ FillInv' /\ OwnInv'
  BY ListStep, FillStep, OwnStep DEF CapsInv
<1>2. Entries => BookWithin("paper")' /\ BookWithin("live")'
  <2>1. WithinCaps
    BY CoverIsEnough, CapsByBook DEF CapsInv, Books
  <2>2. Entries => WithinCaps'
    BY <2>1, EntryWithin
  <2> QED BY <2>2 DEF WithinCaps, BookWithin, AsPlanned, Counts, OpenIn, Books
<1>3. BookWithin("paper")'
  <2>1. CASE ~Entries
    <3>1. \A p \in OpenRows("paper")' : NoGrowth(p)
      BY <2>1, PaperGrowth DEF CapsInv, OpenRows
    <3> QED BY <3>1, BookShrinks DEF CapsInv, Books
  <2> QED BY <1>2, <2>1
<1>4. Covered'
  <2>1. CASE EntryWithoutOrder \/ LiveEntry
    BY <1>2, <2>1, LiveEntryCovers DEF Entries
  <2>2. CASE ~(EntryWithoutOrder \/ LiveEntry)
    BY <2>2, HoldsStep, CoverLasts DEF CapsInv
  <2> QED BY <2>1, <2>2
<1> QED BY <1>1, <1>3, <1>4 DEF CapsInv

LEMMA CapsInit == Init => CapsInv
<1> SUFFICES ASSUME Init PROVE CapsInv
  OBVIOUS
<1>1. \A b : OpenRows(b) = {}
  BY DEF Init, NoRow, OpenRows, OpenStatus, Pending
<1>2. \A b, k : OpenIn(b, k) = {}
  BY <1>1 DEF OpenIn
<1>3. \A f : SumFunctionOnSet(f, {}) = 0 /\ Cardinality({}) = 0
  BY SumOfNone, FS_EmptySet
<1>4. Caps["rows"] \in Nat /\ Caps["total"] \in Nat /\ Caps["market"] \in Nat
  BY BooksAssumption
<1>5. BookWithin("paper")
  BY <1>1, <1>2, <1>3, <1>4 DEF BookWithin
<1>6. ListInv /\ FillInv /\ OwnInv
  BY DEF Init, NoIntent, ListInv, FillInv, OwnInv, Used, Asking, Selling
<1>7. Covered
  <2> DEFINE most == [p \in Ids |-> 0]
  <2>1. Holds(most, {})
    BY <1>1 DEF Holds, MaySpeak, Used, UnresolvedIntents, Init, NoIntent, Pending
  <2>2. Budgeted(most, {})
    BY <1>3, <1>4 DEF Budgeted
  <2>3. most \in [Ids -> Nat] /\ {} \in SUBSET Ids
    OBVIOUS
  <2> HIDE DEF most
  <2> QED BY <2>1, <2>2, <2>3 DEF Covered
<1> QED BY <1>5, <1>6, <1>7 DEF CapsInv

\* The open rows of a book, those of orders that may have filled included, stay
\* within the number of positions and, at the prices they were planned for, the
\* budgets of the market and of the book, whatever the fills turn out to be and
\* what they cost, whatever a reply or a look-up says, whichever writes are torn
\* or reads fail, and although a market may be over while an order in it is not
\* (consider_entry over directional_risk_totals, behind validate_live_gate). An
\* acknowledgement may rewrite a price to a dearer one, and clears the fees of an
\* order whose end is not known; a row costs more than its budget by that
\* difference and those fees, and by nothing else.
THEOREM CapsHold == Spec => []WithinCaps
<1>1. Base /\ CapsInv => WithinCaps
  BY CoverIsEnough, CapsByBook DEF CapsInv, Books
<1>2. Base /\ Base' /\ CapsInv /\ [Next]_vars => CapsInv'
  BY CapsStep
<1> QED BY AlwaysBase, CapsInit, <1>1, <1>2, PTL DEF Spec

-----------------------------------------------------------------------------
(* The build as it is.                                                     *)

NothingSent ==
  /\ \A o \in Orders : intents[o].status = "none"
  /\ \A p \in Ids : rows[p].book = "paper"

LEMMA LockedStep ==
  ASSUME ~LIVE_ORDER_LOOKUP_CONFIRMED, Base, NothingSent, [Next]_vars
  PROVE  NothingSent'
<1> USE DEF NothingSent
<1>1. CASE Control
  BY <1>1, ControlFrame
<1>2. CASE ReconcileIntent \/ Answer
  BY <1>2, LearnStep DEF UnresolvedIntents, Pending
<1>3. CASE ReconcileRow
  BY <1>3, ReconcileRowEffect DEF ReconcileRow
<1>4. CASE Outcome
  BY <1>4, OutcomeEffect, OutcomeFrame
<1>5. CASE PaperExit
  BY <1>5, PaperExitEffect DEF PaperExit
<1>6. CASE LiveExit
  BY <1>6, LiveExitEffect
<1>7. CASE PaperEntry \/ EntryWithoutOrder
  BY <1>7, EntryEffect DEF GateMayPass
<1>8. CASE LiveEntry
  BY <1>8 DEF LiveEntry, GateMayPass
<1>9. CASE World
  BY <1>9 DEF World, VenueSettles, MarketResolves, SetMode, Kill, ResetBreaker, NewDay,
     Base, TypeOK, Rows
<1>10. CASE UNCHANGED vars
  BY <1>10 DEF vars
<1>11. QED
  BY NextCases, <1>1, <1>2, <1>3, <1>4, <1>5, <1>6, <1>7, <1>8, <1>9, <1>10

\* A build whose order look-up is not confirmed, as this one (the constant at
\* the head of execution.rs), writes no order intent and no live row, whatever
\* mode is stored and whatever the operator does.
THEOREM LockedBuildSendsNothing == ~LIVE_ORDER_LOOKUP_CONFIRMED => (Spec => []NothingSent)
<1> SUFFICES ASSUME ~LIVE_ORDER_LOOKUP_CONFIRMED PROVE Spec => []NothingSent
  OBVIOUS
<1>1. Init => NothingSent
  BY DEF Init, NothingSent, NoRow, NoIntent
<1>2. Base /\ NothingSent /\ [Next]_vars => NothingSent'
  BY LockedStep
<1>3. QED
  BY AlwaysBase, <1>1, <1>2, PTL DEF Spec

=============================================================================
