--------------------------- MODULE OpportunityProofs ------------------------
(***************************************************************************)
(* Proofs about how an opportunity comes to be: Tracking, for any markets, *)
(* tasks, margins, threshold and capacity of the queue, whatever fails;    *)
(* and Matching with the parsers of Listing, for any listings that satisfy *)
(* CataloguesAssumption, any series, and any trades and positions.         *)
(***************************************************************************)
EXTENDS Tracking, Matching, FiniteSetTheorems, WellFoundedInduction, TLAPS

-----------------------------------------------------------------------------
(* Sequences, and functions that are defined from a number to the next.    *)

LEMMA LeastNumber ==
  ASSUME NEW B, B \subseteq Nat, B # {}
  PROVE  \E n \in B : \A k \in Nat : k < n => k \notin B
<1>1. PICK n \in B : \A k \in B : <<k, n>> \notin OpToRel(<, Nat)
  BY NatLessThanWellFounded, WFMin
<1> QED BY <1>1 DEF OpToRel

LEMMA AppendFacts ==
  ASSUME NEW S, NEW s \in Seq(S), NEW e \in S
  PROVE  /\ Append(s, e) \in Seq(S) /\ Len(s) \in Nat /\ Len(Append(s, e)) = Len(s) + 1
         /\ Append(s, e)[Len(s) + 1] = e /\ \A i \in 1..Len(s) : Append(s, e)[i] = s[i]
OBVIOUS

LEMMA TailFacts ==
  ASSUME NEW S, NEW s \in Seq(S), s # <<>>
  PROVE  /\ Head(s) \in S /\ Tail(s) \in Seq(S) /\ Len(s) \in Nat \ {0} /\ Len(Tail(s)) = Len(s) - 1
         /\ Head(s) = s[1] /\ \A i \in 1..Len(Tail(s)) : Tail(s)[i] = s[i + 1]
OBVIOUS

\* The recursion of Without over the first n elements.
Keeps(f, s, keys, n) ==
  f = [i \in 0..n |-> IF i = 0 THEN <<>>
                      ELSE IF s[i] \in keys THEN f[i - 1] ELSE Append(f[i - 1], s[i])]

LEMMA KeepsStep ==
  ASSUME NEW f, NEW s, NEW keys, NEW n \in Nat, Keeps(f, s, keys, n), NEW i \in 0..n
  PROVE  f[i] = IF i = 0 THEN <<>>
                ELSE IF s[i] \in keys THEN f[i - 1] ELSE Append(f[i - 1], s[i])
BY DEF Keeps

LEMMA KeepsExists ==
  ASSUME NEW s, NEW keys, NEW n \in Nat
  PROVE  \E f : Keeps(f, s, keys, n)
<1> DEFINE B == {k \in Nat : ~ \E f : Keeps(f, s, keys, k)}
<1>1. SUFFICES ASSUME B # {} PROVE FALSE
  OBVIOUS
<1>2. PICK k \in Nat : k \in B /\ \A j \in Nat : j < k => j \notin B
  <2>1. B \subseteq Nat
    OBVIOUS
  <2> HIDE DEF B
  <2> QED BY <1>1, <2>1, LeastNumber
<1>3. k # 0
  <2>1. Keeps([i \in 0..0 |-> <<>>], s, keys, 0)
    BY DEF Keeps
  <2> QED BY <1>2, <2>1
<1>4. PICK f : Keeps(f, s, keys, k - 1)
  BY <1>2, <1>3
<1> DEFINE last == IF s[k] \in keys THEN f[k - 1] ELSE Append(f[k - 1], s[k])
           g == [i \in 0..k |-> IF i = k THEN last ELSE f[i]]
<1>5. \A i \in 0..k : g[i] = IF i = 0 THEN <<>>
                             ELSE IF s[i] \in keys THEN g[i - 1] ELSE Append(g[i - 1], s[i])
  <2>1. \A i \in 0..(k - 1) : f[i] = IF i = 0 THEN <<>>
                              ELSE IF s[i] \in keys THEN f[i - 1] ELSE Append(f[i - 1], s[i])
    BY <1>3, <1>4, KeepsStep
  <2> QED BY <1>3, <2>1
<1>6. g = [i \in 0..k |-> g[i]]
  OBVIOUS
<1> HIDE DEF g
<1>7. Keeps(g, s, keys, k)
  BY <1>5, <1>6 DEF Keeps
<1> QED BY <1>2, <1>7

\* What is left of a list without doubles is one, of the same elements.
LEMMA WithoutFacts ==
  ASSUME NEW S, NEW s \in Seq(S), IsInjective(s), NEW keys
  PROVE  Without(s, keys) \in Seq(S) /\ IsInjective(Without(s, keys))
<1> DEFINE f == CHOOSE f : Keeps(f, s, keys, Len(s))
<1>1. Without(s, keys) = f[Len(s)] /\ Len(s) \in Nat
  BY DEF Without, Keeps
<1>2. Keeps(f, s, keys, Len(s))
  BY <1>1, KeepsExists
<1> HIDE DEF f
<1> DEFINE Good(k) == /\ f[k] \in Seq(S) /\ IsInjective(f[k])
                      /\ \A i \in 1..Len(f[k]) : \E j \in 1..k : f[k][i] = s[j]
           B == {k \in Nat : k <= Len(s) /\ ~Good(k)}
<1>3. SUFFICES ASSUME B # {} PROVE FALSE
  BY <1>1
<1>4. PICK k \in Nat : k \in B /\ \A j \in Nat : j < k => j \notin B
  <2>1. B \subseteq Nat
    OBVIOUS
  <2> HIDE DEF B
  <2> QED BY <1>3, <2>1, LeastNumber
<1>5. k <= Len(s) /\ ~Good(k) /\ k \in 0..Len(s)
  BY <1>1, <1>4
<1>6. k # 0
  <2>1. k = 0 => f[k] = <<>>
    BY <1>1, <1>2, <1>5, KeepsStep
  <2>2. IsInjective(<<>>) /\ <<>> \in Seq(S) /\ Len(<<>>) = 0
    BY DEF IsInjective
  <2>3. ASSUME k = 0 PROVE Good(k)
    <3>1. f[k] = <<>>
      BY <2>1, <2>3
    <3>2. \A i \in 1..Len(f[k]) : FALSE
      BY <2>2, <3>1
    <3> QED BY <2>2, <3>1, <3>2
  <2> HIDE DEF Good
  <2> QED BY <1>5, <2>3
<1>7. Good(k - 1)
  <2>1. k - 1 \in Nat /\ k - 1 < k /\ k - 1 <= Len(s)
    BY <1>1, <1>5, <1>6
  <2> HIDE DEF Good
  <2> QED BY <1>4, <2>1
<1>8. f[k] = IF s[k] \in keys THEN f[k - 1] ELSE Append(f[k - 1], s[k])
  BY <1>1, <1>2, <1>5, <1>6, KeepsStep
<1> DEFINE r == f[k - 1]
           e == s[k]
<1>9. /\ r \in Seq(S) /\ IsInjective(r) /\ e \in S
      /\ \A i \in 1..Len(r) : \E j \in 1..(k - 1) : r[i] = s[j]
  BY <1>1, <1>5, <1>6, <1>7
<1>10. CASE e \in keys
  <2>1. f[k] = r
    BY <1>8, <1>10
  <2>2. Good(k)
    BY <1>6, <1>9, <2>1
  <2> QED BY <1>5, <2>2
<1>11. CASE e \notin keys
  <2>1. f[k] = Append(r, e)
    BY <1>8, <1>11
  <2>2. \A i \in 1..Len(r) : r[i] # e
    <3>1. \A j \in 1..(k - 1) : s[j] # s[k]
      BY <1>1, <1>5, <1>6 DEF IsInjective
    <3> QED BY <1>9, <3>1
  <2> HIDE DEF r, e
  <2>3. /\ Append(r, e) \in Seq(S) /\ Len(r) \in Nat /\ Len(Append(r, e)) = Len(r) + 1
        /\ Append(r, e)[Len(r) + 1] = e /\ \A i \in 1..Len(r) : Append(r, e)[i] = r[i]
    BY <1>9, AppendFacts
  <2>4. DOMAIN Append(r, e) = 1..(Len(r) + 1) /\ DOMAIN r = 1..Len(r)
    BY <1>9, <2>3
  <2>5. IsInjective(Append(r, e))
    BY <1>9, <2>2, <2>3, <2>4 DEF IsInjective
  <2>6. \A i \in 1..Len(Append(r, e)) : \E j \in 1..k : Append(r, e)[i] = s[j]
    <3> SUFFICES ASSUME NEW i \in 1..(Len(r) + 1) PROVE \E j \in 1..k : Append(r, e)[i] = s[j]
      BY <2>3
    <3>1. CASE i = Len(r) + 1
      BY <1>5, <1>6, <2>3, <3>1 DEF e
    <3>2. CASE i \in 1..Len(r)
      BY <1>5, <1>6, <1>9, <2>3, <3>2
    <3> QED BY <2>3, <3>1, <3>2
  <2>7. Good(k)
    BY <2>1, <2>3, <2>5, <2>6
  <2> QED BY <1>5, <2>7
<1> QED BY <1>10, <1>11

\* The recursion of Settled over the first n commands of q, for a row that
\* tells of r.
Replays(f, r, q, m, n) ==
  f = [i \in 0..n |-> IF i = 0 THEN r
                      ELSE IF q[i].id = m THEN execute_command(f[i - 1], q[i]) ELSE f[i - 1]]

LEMMA ReplaysStep ==
  ASSUME NEW f, NEW r, NEW q, NEW m, NEW n \in Nat, Replays(f, r, q, m, n), NEW i \in 0..n
  PROVE  f[i] = IF i = 0 THEN r
                ELSE IF q[i].id = m THEN execute_command(f[i - 1], q[i]) ELSE f[i - 1]
BY DEF Replays

LEMMA ReplaysNext ==
  ASSUME NEW f, NEW r, NEW q, NEW m, NEW n \in Nat, Replays(f, r, q, m, n)
  PROVE  \E g : /\ Replays(g, r, q, m, n + 1)
                /\ g[n + 1] = IF q[n + 1].id = m THEN execute_command(f[n], q[n + 1]) ELSE f[n]
<1> DEFINE last == IF q[n + 1].id = m THEN execute_command(f[n], q[n + 1]) ELSE f[n]
           g == [i \in 0..(n + 1) |-> IF i = n + 1 THEN last ELSE f[i]]
<1>1. \A i \in 0..(n + 1) :
        g[i] = IF i = 0 THEN r
               ELSE IF q[i].id = m THEN execute_command(g[i - 1], q[i]) ELSE g[i - 1]
  <2>1. \A i \in 0..n : f[i] = IF i = 0 THEN r
                        ELSE IF q[i].id = m THEN execute_command(f[i - 1], q[i]) ELSE f[i - 1]
    BY ReplaysStep
  <2> QED BY <2>1
<1>2. g = [i \in 0..(n + 1) |-> g[i]] /\ g[n + 1] = last
  OBVIOUS
<1> HIDE DEF g
<1>3. Replays(g, r, q, m, n + 1)
  BY <1>1, <1>2 DEF Replays
<1> QED BY <1>2, <1>3

LEMMA ReplaysExists ==
  ASSUME NEW r, NEW q, NEW m, NEW n \in Nat
  PROVE  \E f : Replays(f, r, q, m, n)
<1> DEFINE B == {k \in Nat : ~ \E f : Replays(f, r, q, m, k)}
<1>1. SUFFICES ASSUME B # {} PROVE FALSE
  OBVIOUS
<1>2. PICK k \in Nat : k \in B /\ \A j \in Nat : j < k => j \notin B
  <2>1. B \subseteq Nat
    OBVIOUS
  <2> HIDE DEF B
  <2> QED BY <1>1, <2>1, LeastNumber
<1>3. k # 0
  <2>1. Replays([i \in 0..0 |-> r], r, q, m, 0)
    BY DEF Replays
  <2> QED BY <1>2, <2>1
<1>4. PICK f : Replays(f, r, q, m, k - 1)
  BY <1>2, <1>3
<1>5. \E g : Replays(g, r, q, m, k)
  <2>1. k - 1 \in Nat /\ (k - 1) + 1 = k
    BY <1>3
  <2>2. \E g : Replays(g, r, q, m, (k - 1) + 1)
    BY <1>4, <2>1, ReplaysNext
  <2> QED BY <2>1, <2>2
<1> QED BY <1>2, <1>5

\* Two replays of the same commands agree, wherever they begin in the queue.
LEMMA ReplaysAgree ==
  ASSUME NEW f, NEW r, NEW q, NEW n \in Nat, NEW m, Replays(f, r, q, m, n),
         NEW g, NEW u, NEW p, NEW l \in Nat, Replays(g, u, p, m, l),
         NEW d \in Nat, l + d = n, g[0] = f[d], \A i \in 1..l : p[i] = q[i + d]
  PROVE  g[l] = f[n]
<1> DEFINE B == {k \in Nat : k <= l /\ g[k] # f[k + d]}
<1>1. SUFFICES ASSUME B # {} PROVE FALSE
  OBVIOUS
<1>2. PICK k \in Nat : k \in B /\ \A j \in Nat : j < k => j \notin B
  <2>1. B \subseteq Nat
    OBVIOUS
  <2> HIDE DEF B
  <2> QED BY <1>1, <2>1, LeastNumber
<1>3. k <= l /\ g[k] # f[k + d] /\ k # 0
  BY <1>2
<1>4. g[k - 1] = f[(k - 1) + d]
  <2>1. k - 1 \in Nat /\ k - 1 < k /\ k - 1 <= l
    BY <1>3
  <2> QED BY <1>2, <2>1
<1>5. g[k] = IF p[k].id = m THEN execute_command(g[k - 1], p[k]) ELSE g[k - 1]
  BY <1>3, ReplaysStep
<1>6. f[k + d] = IF q[k + d].id = m THEN execute_command(f[(k + d) - 1], q[k + d]) ELSE f[(k + d) - 1]
  <2>1. k + d \in 0..n /\ k + d # 0
    BY <1>3
  <2> QED BY <2>1, ReplaysStep
<1>7. p[k] = q[k + d] /\ (k + d) - 1 = (k - 1) + d
  BY <1>3
<1> QED BY <1>3, <1>4, <1>5, <1>6, <1>7

\* Nor does it matter whether the first command is in the queue or in the row.
LEMMA ReplaysTail ==
  ASSUME NEW S, NEW q \in Seq(S), q # <<>>, NEW m,
         NEW f, NEW r, Replays(f, r, q, m, Len(q)),
         NEW g, NEW u, Replays(g, u, Tail(q), m, Len(Tail(q))),
         u = IF Head(q).id = m THEN execute_command(r, Head(q)) ELSE r
  PROVE  g[Len(Tail(q))] = f[Len(q)]
<1>1. PICK p : p = Tail(q)
  OBVIOUS
<1>2. PICK l : l = Len(p)
  OBVIOUS
<1>3. PICK n : n = Len(q)
  OBVIOUS
<1>4. /\ n \in Nat \ {0} /\ l = n - 1 /\ Head(q) = q[1] /\ \A i \in 1..l : p[i] = q[i + 1]
  BY <1>1, <1>2, <1>3, TailFacts
<1>5. n \in Nat /\ l \in Nat /\ 1 \in Nat /\ l + 1 = n
  BY <1>4
<1>6. Replays(f, r, q, m, n) /\ Replays(g, u, p, m, l)
  BY <1>1, <1>2, <1>3
<1>7. f[0] = r /\ g[0] = u
  BY <1>5, <1>6, ReplaysStep
<1>8. f[1] = IF q[1].id = m THEN execute_command(f[0], q[1]) ELSE f[0]
  <2>1. 1 \in 0..n /\ 1 # 0 /\ 1 - 1 = 0
    BY <1>5
  <2> QED BY <1>5, <1>6, <2>1, ReplaysStep
<1>9. g[0] = f[1]
  BY <1>4, <1>7, <1>8
<1>10. g[l] = f[n]
  BY <1>4, <1>5, <1>6, <1>9, ReplaysAgree
<1> QED BY <1>1, <1>2, <1>3, <1>10

\* A replay without its last command is one.
LEMMA ReplaysPrefix ==
  ASSUME NEW f, NEW r, NEW q, NEW m, NEW n \in Nat, Replays(f, r, q, m, n + 1)
  PROVE  \E g : Replays(g, r, q, m, n) /\ g[n] = f[n] /\ g[0] = f[0]
<1> DEFINE g == [i \in 0..n |-> f[i]]
<1>1. \A i \in 0..n : g[i] = IF i = 0 THEN r
                     ELSE IF q[i].id = m THEN execute_command(g[i - 1], q[i]) ELSE g[i - 1]
  <2>1. \A i \in 0..(n + 1) :
          f[i] = IF i = 0 THEN r
                 ELSE IF q[i].id = m THEN execute_command(f[i - 1], q[i]) ELSE f[i - 1]
    BY ReplaysStep
  <2> QED BY <2>1
<1>2. g = [i \in 0..n |-> g[i]] /\ g[n] = f[n] /\ g[0] = f[0]
  OBVIOUS
<1> HIDE DEF g
<1>3. Replays(g, r, q, m, n)
  BY <1>1, <1>2 DEF Replays
<1> QED BY <1>2, <1>3

LEMMA SettledIsReplayed ==
  ASSUME NEW m, NEW f, Len(queue) \in Nat, Replays(f, rows[m], queue, m, Len(queue))
  PROVE  Settled(m) = f[Len(queue)]
<1> DEFINE g == CHOOSE g : Replays(g, rows[m], queue, m, Len(queue))
<1>1. Settled(m) = g[Len(queue)]
  BY DEF Settled, Replays
<1>2. Replays(g, rows[m], queue, m, Len(queue))
  OBVIOUS
<1> HIDE DEF g
<1>3. g[0] = f[0]
  BY <1>2, ReplaysStep
<1>4. g[Len(queue)] = f[Len(queue)]
  <2>1. Len(queue) + 0 = Len(queue) /\ Len(queue) + 0 <= Len(queue)
        /\ \A i \in 1..Len(queue) : queue[i] = queue[i + 0]
    OBVIOUS
  <2> QED BY <1>2, <1>3, <2>1, ReplaysAgree
<1> QED BY <1>1, <1>4

-----------------------------------------------------------------------------
(* Types, and what each step does to the tasks.                              *)

Steps == {"idle", "ready", "prices", "key", "track", "look", "end", "dead"}
Calls == [at : Steps, of : Markets \cup {"none"}, index : Nat,
          key : Markets \cup {"none"}, margin : Margins]
Working(t) == task[t].at \notin {"idle", "dead"}

\* A call has the index of a market; once it is to change a record it has a
\* key, and it tracks nothing below the threshold.
Sound(t) ==
  /\ Working(t) => task[t].index # 0 /\ task[t].of \in Markets
  /\ task[t].at \in {"track", "end"} => task[t].key \in Markets
  /\ task[t].at = "track" => task[t].margin >= Threshold
Base == TypeOK /\ \A t \in Tasks : Sound(t)

LEMMA Numbers == MaxMargin \in Nat /\ Threshold \in 1..MaxMargin /\ QueueSize \in Nat \ {0}
BY TrackingAssumption

LEMMA Resting == Idle \in Calls /\ [Idle EXCEPT !.at = "dead"] \in Calls
              /\ Idle.at = "idle" /\ [Idle EXCEPT !.at = "dead"].at = "dead"
<1>1. 0 \in Margins
  BY Numbers DEF Margins
<1> QED BY <1>1 DEF Idle, Calls, Steps

LEMMA Begun ==
  ASSUME NEW m \in Markets, NEW i \in Nat
  PROVE  LET r == [Idle EXCEPT !.at = "ready", !.of = m, !.index = i]
         IN  r \in Calls /\ r.at = "ready" /\ r.of = m /\ r.index = i
<1>1. 0 \in Margins
  BY Numbers DEF Margins
<1> QED BY <1>1 DEF Idle, Calls, Steps

LEMMA Onwards ==
  ASSUME NEW r \in Calls, NEW a \in Steps
  PROVE  LET s == [r EXCEPT !.at = a]
         IN  s \in Calls /\ s.at = a /\ s.of = r.of /\ s.index = r.index /\ s.key = r.key
             /\ s.margin = r.margin
BY DEF Calls

LEMMA OnwardsWithMargin ==
  ASSUME NEW r \in Calls, NEW a \in Steps, NEW n \in Margins
  PROVE  LET s == [r EXCEPT !.at = a, !.margin = n]
         IN  s \in Calls /\ s.at = a /\ s.of = r.of /\ s.index = r.index /\ s.key = r.key
             /\ s.margin = n
BY DEF Calls

\* Only the call of t changes.
OnlyOf(t) == task' \in [Tasks -> Calls] /\ \A s \in Tasks \ {t} : task'[s] = task[s]

LEMMA StepFacts ==
  ASSUME TypeOK, NEW t \in Tasks, NEW r \in Calls, Step(t, r)
  PROVE  OnlyOf(t) /\ task'[t] = r
<1>1. task \in [Tasks -> Calls]
  BY DEF TypeOK, Calls, Steps
<1> QED BY <1>1 DEF Step, OnlyOf

Left(t) == OnlyOf(t) /\ task'[t] = Idle /\ shrunk' = shrunk \ {t}
Died(t) == OnlyOf(t) /\ task'[t] = [Idle EXCEPT !.at = "dead"] /\ shrunk' = shrunk
Goes(t, a, k, n) ==
  /\ OnlyOf(t) /\ task'[t].at = a /\ task'[t].of = task[t].of /\ task'[t].index = task[t].index
  /\ task'[t].key = k /\ task'[t].margin = n /\ shrunk' = shrunk

LEMMA LeaveFacts ==
  ASSUME TypeOK, NEW t \in Tasks, Leave(t)
  PROVE  Left(t)
BY Resting, StepFacts DEF Leave, Left

LEMMA DieFacts ==
  ASSUME TypeOK, NEW t \in Tasks, Die(t)
  PROVE  Died(t)
BY Resting, StepFacts DEF Die, Died

LEMMA CallType ==
  ASSUME TypeOK, NEW t \in Tasks
  PROVE  task[t] \in Calls /\ task[t].at \in Steps /\ task[t].index \in Nat
         /\ task[t].margin \in Margins
BY DEF TypeOK, Calls, Steps

LEMMA ListedMarket ==
  ASSUME Base, NEW t \in Tasks, Working(t), Listed(t)
  PROVE  At(t) \in Markets /\ task[t].index \in 1..Len(list)
<1>1. list \in Seq(Markets) /\ task[t].index \in Nat \ {0}
  BY CallType DEF Base, Sound, TypeOK
<1>2. task[t].index \in 1..Len(list)
  BY <1>1 DEF Listed
<1> QED BY <1>1, <1>2 DEF At

LEMMA CheckReadyFacts ==
  ASSUME Base, NEW t \in Tasks, CheckReady(t)
  PROVE  /\ task[t].at = "ready"
         /\ \/ Left(t) /\ missed' = missed \cup {task[t].of}
            \/ Goes(t, "prices", task[t].key, task[t].margin) /\ UNCHANGED missed
<1>1. TypeOK /\ task[t] \in Calls
  BY CallType DEF Base
<1>2. ASSUME Step(t, [task[t] EXCEPT !.at = "prices"]), UNCHANGED shrunk
      PROVE  Goes(t, "prices", task[t].key, task[t].margin)
  <2> DEFINE r == [task[t] EXCEPT !.at = "prices"]
  <2>1. r \in Calls /\ r.at = "prices" /\ r.of = task[t].of /\ r.index = task[t].index
        /\ r.key = task[t].key /\ r.margin = task[t].margin
    BY <1>1, Onwards DEF Steps
  <2> HIDE DEF r
  <2>2. Step(t, r)
    BY <1>2 DEF r
  <2> QED BY <1>1, <1>2, <2>1, <2>2, StepFacts DEF Goes
<1> QED BY <1>1, <1>2, LeaveFacts DEF CheckReady, Unready

LEMMA ReadPricesFacts ==
  ASSUME Base, NEW t \in Tasks, ReadPrices(t)
  PROVE  /\ task[t].at = "prices"
         /\ \/ ~Listed(t) /\ Died(t) /\ UNCHANGED missed
            \/ Listed(t) /\ Left(t) /\ missed' = missed \cup {task[t].of}
            \/ Listed(t) /\ Goes(t, "key", task[t].key, margin[At(t)]) /\ UNCHANGED missed
<1>1. TypeOK /\ task[t] \in Calls /\ task[t].at = "prices"
  BY CallType DEF Base, ReadPrices
<1>2. ASSUME Listed(t), Step(t, [task[t] EXCEPT !.at = "key", !.margin = margin[At(t)]]), UNCHANGED shrunk
      PROVE  Goes(t, "key", task[t].key, margin[At(t)])
  <2>1. At(t) \in Markets
    BY <1>1, <1>2, ListedMarket DEF Working
  <2>2. margin[At(t)] \in Margins
    BY <1>1, <2>1 DEF TypeOK
  <2> DEFINE r == [task[t] EXCEPT !.at = "key", !.margin = margin[At(t)]]
  <2>3. r \in Calls /\ r.at = "key" /\ r.of = task[t].of /\ r.index = task[t].index
        /\ r.key = task[t].key /\ r.margin = margin[At(t)]
    <3>1. task[t] \in Calls /\ "key" \in Steps
      BY <1>1 DEF Steps
    <3> DEFINE c == task[t]
               n == margin[At(t)]
    <3>2. c \in Calls /\ n \in Margins
      BY <2>2, <3>1
    <3> HIDE DEF c, n
    <3>3. LET s == [c EXCEPT !.at = "key", !.margin = n]
          IN  s \in Calls /\ s.at = "key" /\ s.of = c.of /\ s.index = c.index /\ s.key = c.key
              /\ s.margin = n
      BY <3>1, <3>2 DEF Calls
    <3> QED BY <3>3 DEF c, n
  <2> HIDE DEF r
  <2>4. Step(t, r)
    BY <1>2 DEF r
  <2> QED BY <1>1, <1>2, <2>1, <2>3, <2>4, StepFacts DEF Goes
<1> QED BY <1>1, <1>2, LeaveFacts, DieFacts DEF ReadPrices, Unready

LEMMA ReadKeyFacts ==
  ASSUME Base, NEW t \in Tasks, ReadKey(t)
  PROVE  /\ task[t].at = "key"
         /\ \/ ~Listed(t) /\ Died(t)
            \/ Listed(t) /\ task[t].margin # 0 /\ task[t].margin < Threshold /\ Left(t)
            \/ Listed(t) /\ task[t].margin = 0 /\ Goes(t, "look", task[t].key, 0)
            \/ /\ Listed(t) /\ task[t].margin >= Threshold /\ At(t) \in Markets
               /\ Goes(t, "track", At(t), task[t].margin)
<1>1. TypeOK /\ task[t] \in Calls /\ task[t].at = "key"
  BY CallType DEF Base, ReadKey
<1>2. ASSUME Listed(t), task[t].margin = 0, Step(t, [task[t] EXCEPT !.at = "look"]), UNCHANGED shrunk
      PROVE  Goes(t, "look", task[t].key, 0)
  <2> DEFINE r == [task[t] EXCEPT !.at = "look"]
  <2>1. r \in Calls /\ r.at = "look" /\ r.of = task[t].of /\ r.index = task[t].index
        /\ r.key = task[t].key /\ r.margin = task[t].margin
    BY <1>1, Onwards DEF Steps
  <2> HIDE DEF r
  <2>2. Step(t, r)
    BY <1>2 DEF r
  <2> QED BY <1>1, <1>2, <2>1, <2>2, StepFacts DEF Goes
<1>3. ASSUME Listed(t), Step(t, [task[t] EXCEPT !.at = "track", !.key = At(t)]), UNCHANGED shrunk
      PROVE  Goes(t, "track", At(t), task[t].margin) /\ At(t) \in Markets
  <2>1. At(t) \in Markets
    BY <1>1, <1>3, ListedMarket DEF Working
  <2> DEFINE k == At(t)
             x == task[t]
             r == [x EXCEPT !.at = "track", !.key = k]
  <2>2. r \in Calls /\ r.at = "track" /\ r.of = task[t].of /\ r.index = task[t].index
        /\ r.key = At(t) /\ r.margin = task[t].margin
    <3>1. k \in Markets /\ x \in Calls /\ "track" \in Steps
      BY <1>1, <2>1 DEF Steps
    <3>2. r = [x EXCEPT !.at = "track", !.key = k]
      OBVIOUS
    <3> HIDE DEF k, x, r
    <3>3. r \in Calls /\ r.at = "track" /\ r.of = x.of /\ r.index = x.index /\ r.key = k
          /\ r.margin = x.margin
      BY <3>1, <3>2 DEF Calls
    <3> QED BY <3>3 DEF k, x
  <2> HIDE DEF r
  <2>3. Step(t, r)
    BY <1>3 DEF r
  <2> QED BY <1>1, <1>3, <2>1, <2>2, <2>3, StepFacts DEF Goes
<1>4. task[t].margin \in 1..(Threshold - 1) => task[t].margin # 0 /\ task[t].margin < Threshold
  BY Numbers
<1> QED BY <1>1, <1>2, <1>3, <1>4, LeaveFacts, DieFacts DEF ReadKey

LEMMA LookAgainFacts ==
  ASSUME Base, NEW t \in Tasks, LookAgain(t)
  PROVE  /\ task[t].at = "look"
         /\ \/ Left(t) /\ ~Listed(t)
            \/ Listed(t) /\ At(t) \in Markets /\ Goes(t, "end", At(t), task[t].margin)
<1>1. TypeOK /\ task[t] \in Calls /\ task[t].at = "look"
  BY CallType DEF Base, LookAgain
<1>2. ASSUME Listed(t), Step(t, [task[t] EXCEPT !.at = "end", !.key = At(t)]), UNCHANGED shrunk
      PROVE  Goes(t, "end", At(t), task[t].margin) /\ At(t) \in Markets
  <2>1. At(t) \in Markets
    BY <1>1, <1>2, ListedMarket DEF Working
  <2> DEFINE k == At(t)
             x == task[t]
             r == [x EXCEPT !.at = "end", !.key = k]
  <2>2. r \in Calls /\ r.at = "end" /\ r.of = task[t].of /\ r.index = task[t].index
        /\ r.key = At(t) /\ r.margin = task[t].margin
    <3>1. k \in Markets /\ x \in Calls /\ "end" \in Steps
      BY <1>1, <2>1 DEF Steps
    <3>2. r = [x EXCEPT !.at = "end", !.key = k]
      OBVIOUS
    <3> HIDE DEF k, x, r
    <3>3. r \in Calls /\ r.at = "end" /\ r.of = x.of /\ r.index = x.index /\ r.key = k
          /\ r.margin = x.margin
      BY <3>1, <3>2 DEF Calls
    <3> QED BY <3>3 DEF k, x
  <2> HIDE DEF r
  <2>3. Step(t, r)
    BY <1>2 DEF r
  <2> QED BY <1>1, <1>2, <2>1, <2>2, <2>3, StepFacts DEF Goes
<1> QED BY <1>1, <1>2, LeaveFacts DEF LookAgain

LEMMA QuoteFacts ==
  ASSUME Base, NEW t \in Tasks, NEW m \in Markets, NEW x \in Platforms, NEW n \in Margins,
         Quote(t, m, x, n)
  PROVE  /\ task[t].at = "idle" /\ OnlyOf(t) /\ task'[t].at = "ready" /\ task'[t].of = m
         /\ task'[t].index \in 1..Len(list) /\ list[task'[t].index] = m
<1>1. Position(m) \in 1..Len(list) /\ list[Position(m)] = m
  <2>1. DOMAIN list = 1..Len(list)
    BY DEF Base, TypeOK
  <2>2. \E i \in DOMAIN list : list[i] = m
    BY <2>1 DEF Quote, ToSet
  <2> QED BY <2>1, <2>2 DEF Position
<1>2. Position(m) \in Nat
  BY <1>1 DEF Base, TypeOK
<1> DEFINE r == [Idle EXCEPT !.at = "ready", !.of = m, !.index = Position(m)]
<1>3. r \in Calls /\ r.at = "ready" /\ r.of = m /\ r.index = Position(m)
  BY <1>2, Begun
<1> HIDE DEF r
<1>4. Step(t, r)
  BY DEF Quote, r
<1>5. TypeOK /\ task[t].at = "idle"
  BY DEF Base, Quote
<1> QED BY <1>1, <1>3, <1>4, <1>5, StepFacts

-----------------------------------------------------------------------------
(* The types hold.                                                           *)

\* The calls, as far as the types go.
CallsSound == task \in [Tasks -> Calls] /\ \A t \in Tasks : Sound(t)

LEMMA BaseParts ==
  ASSUME TypeOK, \A t \in Tasks : Sound(t)
  PROVE  Base
BY DEF Base

LEMMA SoundNext ==
  ASSUME Base, NEW t \in Tasks, OnlyOf(t),
         task'[t].at \notin {"idle", "dead"} => task'[t].index # 0 /\ task'[t].of \in Markets,
         task'[t].at \in {"track", "end"} => task'[t].key \in Markets,
         task'[t].at = "track" => task'[t].margin >= Threshold
  PROVE  CallsSound'
<1>1. \A s \in Tasks \ {t} : Sound(s)'
  BY DEF Base, Sound, Working, OnlyOf
<1>2. Sound(t)'
  BY DEF Sound, Working
<1> QED BY <1>1, <1>2 DEF CallsSound, OnlyOf

LEMMA SoundLeft ==
  ASSUME Base, NEW t \in Tasks, Left(t) \/ Died(t)
  PROVE  CallsSound'
BY SoundNext, Resting DEF Left, Died

LEMMA SoundGoes ==
  ASSUME Base, NEW t \in Tasks, Working(t), NEW a, NEW k, NEW n, Goes(t, a, k, n),
         a \in {"track", "end"} => k \in Markets, a = "track" => n >= Threshold
  PROVE  CallsSound'
BY SoundNext DEF Base, Sound, Goes

LEMMA SendTypes ==
  ASSUME TypeOK, NEW c \in Commands, Send(c)
  PROVE  queue' \in Seq(Commands) /\ Len(queue') <= QueueSize /\ torn' \subseteq Markets
<1>1. queue \in Seq(Commands) /\ Len(queue) \in Nat /\ Len(queue) <= QueueSize /\ QueueSize \in Nat
  BY Numbers DEF TypeOK
<1>2. c.id \in Markets
  BY DEF Commands
<1>3. queue' \in Seq(Commands) /\ Len(queue') <= QueueSize
  BY <1>1, AppendFacts DEF Send, Sent
<1>4. torn' \subseteq Markets
  BY <1>2 DEF TypeOK, Send, TornBy
<1> QED BY <1>3, <1>4

LEMMA EndIsCommand ==
  ASSUME NEW m \in Markets
  PROVE  End(m) \in Commands /\ End(m).id = m /\ End(m).op = "end" /\ End(m).margin = 0
<1>1. 0 \in Margins
  BY Numbers DEF Margins
<1> QED BY <1>1 DEF End, Commands

LEMMA ExecutedMargin ==
  ASSUME NEW n \in Margins, NEW c \in Commands
  PROVE  execute_command(n, c) \in Margins
<1>1. 0 \in Margins
  BY Numbers DEF Margins
<1> QED BY <1>1 DEF execute_command, Commands

\* The types of all but the calls.
Others ==
  /\ list \in Seq(Markets) /\ IsInjective(list)
  /\ margin \in [Markets -> Margins] /\ stale \subseteq Markets \X Platforms
  /\ tracking \in [Markets -> Margins]
  /\ queue \in Seq(Commands) /\ Len(queue) <= QueueSize
  /\ rows \in [Markets -> Margins] /\ cleaning \subseteq Markets
  /\ torn \subseteq Markets /\ shrunk \subseteq Tasks /\ missed \subseteq Markets

LEMMA TypesSplit == TypeOK <=> Others /\ task \in [Tasks -> Calls]
BY DEF TypeOK, Others, Calls, Steps

LEMMA TypesSplitNext == Others' /\ CallsSound' => Base'
BY DEF Base, TypeOK, Others, CallsSound, Calls, Steps

LEMMA InitBase == Init => Base
<1> SUFFICES ASSUME Init PROVE Base
  OBVIOUS
<1>1. 0 \in Margins /\ QueueSize \in Nat
  BY Numbers DEF Margins
<1>2. Others
  <2>1. <<>> \in Seq(Markets) /\ IsInjective(<<>>) /\ <<>> \in Seq(Commands) /\ Len(<<>>) = 0
    BY DEF IsInjective
  <2> QED BY <1>1, <2>1 DEF Init, Others
<1>3. task \in [Tasks -> Calls] /\ \A t \in Tasks : Sound(t)
  BY Resting DEF Init, Sound, Working
<1> QED BY <1>2, <1>3, TypesSplit DEF Base

LEMMA CallsKept ==
  ASSUME Base, UNCHANGED task
  PROVE  CallsSound'
<1>1. task \in [Tasks -> Calls]
  BY TypesSplit DEF Base
<1> QED BY <1>1 DEF Base, CallsSound, Sound, Working

\* What the steps of a detection leave to the rest.
LEMMA DetectionBase ==
  ASSUME Base, NEW t \in Tasks, Detection(t)
  PROVE  Base'
<1>1. Others /\ 0 \in Margins
  BY TypesSplit, Numbers DEF Base, Margins
<1>2. task \in [Tasks -> Calls] /\ Sound(t) /\ TypeOK
  BY TypesSplit DEF Base
<1>3. CASE CheckReady(t)
  <2>1. /\ task[t].at = "ready" /\ (Left(t) \/ Goes(t, "prices", task[t].key, task[t].margin))
        /\ missed' \in {missed, missed \cup {task[t].of}}
    BY <1>3, CheckReadyFacts
  <2>2. CallsSound'
    BY <2>1, SoundLeft, SoundGoes DEF Working
  <2>3. Others'
    BY <1>1, <1>2, <1>3, <2>1 DEF Others, CheckReady, Left, Goes, Sound, Working
  <2> QED BY <2>2, <2>3, TypesSplitNext
<1>4. CASE ReadPrices(t)
  <2>1. /\ task[t].at = "prices"
        /\ (Died(t) \/ Left(t) \/ Goes(t, "key", task[t].key, margin[At(t)]))
        /\ missed' \in {missed, missed \cup {task[t].of}}
    BY <1>4, ReadPricesFacts
  <2>2. CallsSound'
    BY <2>1, SoundLeft, SoundGoes DEF Working
  <2>3. Others'
    BY <1>1, <1>2, <1>4, <2>1 DEF Others, ReadPrices, Left, Died, Goes, Sound, Working
  <2> QED BY <2>2, <2>3, TypesSplitNext
<1>5. CASE ReadKey(t)
  <2>1. task[t].at = "key"
        /\ (Died(t) \/ Left(t) \/ Goes(t, "look", task[t].key, 0)
            \/ (At(t) \in Markets /\ task[t].margin >= Threshold
                /\ Goes(t, "track", At(t), task[t].margin)))
    BY <1>5, ReadKeyFacts
  <2>2. CallsSound'
    BY <2>1, SoundLeft, SoundGoes DEF Working
  <2>3. Others'
    BY <1>1, <1>5, <2>1 DEF Others, ReadKey, Left, Died, Goes
  <2> QED BY <2>2, <2>3, TypesSplitNext
<1>6. CASE LookAgain(t)
  <2>1. task[t].at = "look"
        /\ (Left(t) \/ (At(t) \in Markets /\ Goes(t, "end", At(t), task[t].margin)))
    BY <1>6, LookAgainFacts
  <2>2. CallsSound'
    BY <2>1, SoundLeft, SoundGoes DEF Working
  <2>3. Others'
    BY <1>1, <1>6, <2>1 DEF Others, LookAgain, Left, Goes
  <2> QED BY <2>2, <2>3, TypesSplitNext
<1>7. CASE Track(t)
  <2> DEFINE m == task[t].key
             n == task[t].margin
             c == [op |-> IF tracking[m] = 0 THEN "start" ELSE "update", id |-> m, margin |-> n]
  <2>1. Left(t) /\ m \in Markets /\ n \in Margins
    BY <1>2, <1>7, LeaveFacts, CallType DEF Track, Sound
  <2>2. Send(c) /\ tracking' = [tracking EXCEPT ![m] = IF @ < n THEN n ELSE @]
    BY <1>7 DEF Track
  <2>3. c \in Commands
    BY <2>1 DEF Commands
  <2> HIDE DEF c, m, n
  <2>4. tracking' \in [Markets -> Margins]
    BY <1>1, <2>1, <2>2 DEF Others
  <2>5. Others'
    BY <1>1, <1>2, <1>7, <2>1, <2>2, <2>3, <2>4, SendTypes DEF Others, Track, Left
  <2> QED BY <2>1, <2>5, SoundLeft, TypesSplitNext
<1>8. CASE maybe_end_tracking(t)
  <2> DEFINE m == task[t].key
  <2>1. Left(t) /\ m \in Markets /\ End(m) \in Commands
    BY <1>2, <1>8, LeaveFacts, EndIsCommand DEF maybe_end_tracking, Sound
  <2>2. \/ Send(End(m)) /\ tracking' = [tracking EXCEPT ![m] = 0]
        \/ UNCHANGED <<tracking, queue, torn>>
    BY <1>8 DEF maybe_end_tracking
  <2> HIDE DEF m
  <2>3. tracking' \in [Markets -> Margins]
    BY <1>1, <2>1, <2>2 DEF Others
  <2>4. queue' \in Seq(Commands) /\ Len(queue') <= QueueSize /\ torn' \subseteq Markets
    BY <1>1, <1>2, <2>1, <2>2, SendTypes DEF Others
  <2>5. Others'
    BY <1>1, <1>8, <2>1, <2>3, <2>4 DEF Others, maybe_end_tracking, Left
  <2> QED BY <2>1, <2>5, SoundLeft, TypesSplitNext
<1> QED BY <1>3, <1>4, <1>5, <1>6, <1>7, <1>8 DEF Detection

LEMMA StepBase ==
  ASSUME Base, [Next]_vars
  PROVE  Base'
<1>1. Others /\ 0 \in Margins
  BY TypesSplit, Numbers DEF Base, Margins
<1>2. task \in [Tasks -> Calls] /\ TypeOK
  BY TypesSplit DEF Base
<1>3. CASE UNCHANGED vars
  BY <1>1, <1>3, CallsKept, TypesSplitNext DEF Others, vars
<1>4. CASE \E t \in Tasks : Detection(t)
  BY <1>4, DetectionBase
<1>5. ASSUME NEW t \in Tasks, NEW m \in Markets, NEW x \in Platforms, NEW n \in Margins,
             Quote(t, m, x, n)
      PROVE  Base'
  <2>1. OnlyOf(t) /\ task'[t].at = "ready" /\ task'[t].index \in 1..Len(list) /\ task'[t].of = m
    BY <1>5, QuoteFacts
  <2>2. CallsSound'
    BY <2>1, SoundNext
  <2>3. margin' \in [Markets -> Margins]
    BY <1>1, <1>5 DEF Others, Quote
  <2>4. Others'
    BY <1>1, <1>5, <2>3 DEF Others, Quote
  <2> QED BY <2>2, <2>4, TypesSplitNext
<1>6. ASSUME NEW m \in Markets, NEW x \in Platforms, GoStale(m, x) \/ Restamp(m, x) PROVE Base'
  <2>1. Others'
    BY <1>1, <1>6 DEF Others, GoStale, Restamp
  <2> QED BY <1>6, <2>1, CallsKept, TypesSplitNext DEF GoStale, Restamp
<1>7. ASSUME NEW m \in Markets, NEW n \in Margins, AddMarket(m, n) PROVE Base'
  <2>1. list' = Append(list, m) /\ \A i \in 1..Len(list) : list[i] # m
    BY <1>1, <1>7 DEF AddMarket, ToSet, Others
  <2>2. /\ Append(list, m) \in Seq(Markets) /\ Len(list) \in Nat /\ Len(Append(list, m)) = Len(list) + 1
        /\ Append(list, m)[Len(list) + 1] = m /\ \A i \in 1..Len(list) : Append(list, m)[i] = list[i]
    BY <1>1, AppendFacts DEF Others
  <2>3. DOMAIN Append(list, m) = 1..(Len(list) + 1) /\ DOMAIN list = 1..Len(list)
    BY <1>1, <2>2 DEF Others
  <2>4. IsInjective(Append(list, m))
    BY <1>1, <2>1, <2>2, <2>3 DEF IsInjective, Others
  <2>5. margin' \in [Markets -> Margins]
    BY <1>1, <1>7 DEF Others, AddMarket
  <2>6. Others'
    BY <1>1, <1>7, <2>1, <2>2, <2>4, <2>5 DEF Others, AddMarket
  <2> QED BY <1>7, <2>6, CallsKept, TypesSplitNext DEF AddMarket
<1>8. ASSUME NEW m \in Markets, CleanTracking(m) PROVE Base'
  <2>1. End(m) \in Commands
    BY EndIsCommand
  <2>2. \/ Send(End(m)) /\ tracking' = [tracking EXCEPT ![m] = 0]
        \/ UNCHANGED <<tracking, queue, torn>>
    BY <1>8 DEF CleanTracking
  <2>3. tracking' \in [Markets -> Margins]
    BY <1>1, <2>2 DEF Others
  <2>4. queue' \in Seq(Commands) /\ Len(queue') <= QueueSize /\ torn' \subseteq Markets
    BY <1>1, <1>2, <2>1, <2>2, SendTypes DEF Others
  <2>5. Others'
    BY <1>1, <1>8, <2>3, <2>4 DEF Others, CleanTracking
  <2> QED BY <1>8, <2>5, CallsKept, TypesSplitNext DEF CleanTracking
<1>9. ASSUME NEW keys \in SUBSET ToSet(list), CleanList(keys) PROVE Base'
  <2>1. keys \subseteq Markets
    BY <1>1 DEF Others, ToSet
  <2>2. list' \in Seq(Markets) /\ IsInjective(list')
    BY <1>1, <1>9, WithoutFacts DEF Others, CleanList
  <2>3. margin' \in [Markets -> Margins]
    BY <1>1, <1>9 DEF Others, CleanList
  <2>4. shrunk' \subseteq Tasks /\ missed' \subseteq Markets /\ stale' \subseteq Markets \X Platforms
    BY <1>1, <1>9, <2>1 DEF Others, CleanList, Busy
  <2>5. Others'
    BY <1>1, <1>9, <2>1, <2>2, <2>3, <2>4 DEF Others, CleanList
  <2> QED BY <1>9, <2>5, CallsKept, TypesSplitNext DEF CleanList
<1>10. CASE Write
  <2> DEFINE c == Head(queue)
             r == rows[c.id]
  <2>1. queue \in Seq(Commands) /\ queue # <<>> /\ queue' = Tail(queue)
    BY <1>1, <1>10 DEF Others, Write
  <2>2. c \in Commands /\ queue' \in Seq(Commands) /\ Len(queue') = Len(queue) - 1 /\ Len(queue) \in Nat
    BY <2>1, TailFacts
  <2>3. c.id \in Markets /\ r \in Margins
    BY <1>1, <2>2 DEF Commands, Others
  <2>4. rows' = [rows EXCEPT ![c.id] = execute_command(r, c)]
    BY <1>10 DEF Write
  <2> HIDE DEF c, r
  <2>5. rows' \in [Markets -> Margins]
    BY <1>1, <2>2, <2>3, <2>4, ExecutedMargin DEF Others
  <2>6. Len(queue') <= QueueSize
    BY <1>1, <2>2, Numbers DEF Others
  <2>7. Others'
    BY <1>1, <1>10, <2>2, <2>5, <2>6 DEF Others, Write
  <2> QED BY <1>10, <2>7, CallsKept, TypesSplitNext DEF Write
<1>11. CASE WriteFails
  <2>1. queue \in Seq(Commands) /\ queue # <<>> /\ queue' = Tail(queue)
    BY <1>1, <1>11 DEF Others, WriteFails
  <2>2. Head(queue) \in Commands /\ queue' \in Seq(Commands) /\ Len(queue') = Len(queue) - 1
        /\ Len(queue) \in Nat
    BY <2>1, TailFacts
  <2>3. Head(queue).id \in Markets
    BY <2>2 DEF Commands
  <2>4. Len(queue') <= QueueSize
    BY <1>1, <2>2, Numbers DEF Others
  <2>5. Others'
    BY <1>1, <1>11, <2>2, <2>3, <2>4 DEF Others, WriteFails
  <2> QED BY <1>11, <2>5, CallsKept, TypesSplitNext DEF WriteFails
<1>12. CASE Crash
  <2>1. <<>> \in Seq(Markets) /\ IsInjective(<<>>) /\ <<>> \in Seq(Commands) /\ Len(<<>>) = 0
    BY DEF IsInjective
  <2>2. \A i \in DOMAIN queue : queue[i].id \in Markets
    <3>1. \A i \in DOMAIN queue : queue[i] \in Commands
      BY <1>1 DEF Others
    <3> QED BY <3>1 DEF Commands
  <2>3. torn' \subseteq Markets
    BY <1>1, <1>12, <2>2 DEF Others, Crash
  <2>4. Others'
    BY <1>1, <1>12, <2>1, <2>3, Numbers DEF Others, Crash
  <2>5. CallsSound'
    BY <1>12, Resting DEF Crash, CallsSound, Sound, Working
  <2> QED BY <2>4, <2>5, TypesSplitNext
<1> QED BY <1>3, <1>4, <1>5, <1>6, <1>7, <1>8, <1>9, <1>10, <1>11, <1>12 DEF Next

\* The types of Tracking hold in every reachable state.
THEOREM TrackingTypeCorrect == Spec => []TypeOK
<1>1. Base => TypeOK
  BY DEF Base
<1> QED BY <1>1, InitBase, StepBase, PTL DEF Spec

-----------------------------------------------------------------------------
(* The rows follow the records.                                              *)

\* RowsFollowTracking, said of any function that replays the queue.
RowsInv ==
  \A m \in Markets \ torn : \A f :
    Replays(f, rows[m], queue, m, Len(queue)) => f[Len(queue)] = tracking[m]

\* A command that is sent does to the row what was done to the record; where
\* there is no room, the market is torn.
LEMMA SendKeepsRows ==
  ASSUME Base, RowsInv, NEW c \in Commands, Send(c), UNCHANGED rows,
         tracking' = [tracking EXCEPT ![c.id] = execute_command(tracking[c.id], c)]
  PROVE  RowsInv'
<1>1. /\ queue \in Seq(Commands) /\ Len(queue) \in Nat /\ Len(queue) <= QueueSize
      /\ QueueSize \in Nat /\ tracking \in [Markets -> Margins] /\ c.id \in Markets
  BY Numbers DEF Base, TypeOK, Commands
<1> SUFFICES ASSUME NEW m \in Markets, m \notin torn', NEW g,
                    Replays(g, rows[m], queue', m, Len(queue'))
             PROVE  g[Len(queue')] = tracking'[m]
  BY DEF RowsInv
<1>2. CASE Len(queue) = QueueSize
  <2>1. queue' = queue /\ m \notin torn /\ m # c.id
    BY <1>1, <1>2 DEF Send, Sent, TornBy
  <2>2. tracking'[m] = tracking[m]
    BY <1>1, <2>1
  <2> QED BY <2>1, <2>2 DEF RowsInv
<1>3. CASE Len(queue) # QueueSize
  <2> DEFINE n == Len(queue)
  <2>1. queue' = Append(queue, c) /\ torn' = IF c.op = "start" THEN torn \ {c.id} ELSE torn
    BY <1>1, <1>3 DEF Send, Sent, TornBy
  <2>2. /\ Len(queue') = n + 1 /\ queue'[n + 1] = c /\ \A i \in 1..n : queue'[i] = queue[i]
    BY <1>1, <2>1, AppendFacts
  <2>3. PICK f : Replays(f, rows[m], queue, m, n)
    BY <1>1, ReplaysExists
  <2>4. n \in Nat /\ n + 1 \in Nat
    BY <1>1
  <2> HIDE DEF n
  <2>5. Replays(g, rows[m], queue', m, n + 1)
    BY <2>2
  <2>6. f[0] = rows[m] /\ g[0] = rows[m]
    BY <2>3, <2>4, <2>5, ReplaysStep
  <2>7. g[n] = f[n]
    <3>1. PICK h : Replays(h, rows[m], queue', m, n) /\ h[n] = g[n] /\ h[0] = g[0]
      BY <2>4, <2>5, ReplaysPrefix
    <3>2. n + 0 = n /\ 0 \in Nat /\ h[0] = f[0] /\ \A i \in 1..n : queue'[i] = queue[i + 0]
      BY <2>2, <2>4, <2>6, <3>1
    <3>3. h[n] = f[n]
      BY <2>3, <2>4, <3>1, <3>2, ReplaysAgree
    <3> QED BY <3>1, <3>3
  <2>8. g[n + 1] = IF c.id = m THEN execute_command(g[n], c) ELSE g[n]
    <3>1. n + 1 \in 0..(n + 1) /\ n + 1 # 0 /\ (n + 1) - 1 = n
      BY <2>4
    <3> QED BY <2>2, <2>4, <2>5, <3>1, ReplaysStep
  <2>9. m \notin torn => f[n] = tracking[m]
    BY <2>3 DEF RowsInv, n
  <2>10. CASE m # c.id
    <3>1. m \notin torn /\ tracking'[m] = tracking[m]
      BY <1>1, <2>1, <2>10
    <3> QED BY <2>2, <2>7, <2>8, <2>9, <2>10, <3>1
  <2>11. CASE m = c.id
    <3>1. tracking'[m] = execute_command(tracking[m], c)
      BY <1>1, <2>11
    <3>2. g[n + 1] = execute_command(g[n], c)
      BY <2>8, <2>11
    <3>3. CASE c.op = "start"
      <4>1. execute_command(g[n], c) = execute_command(tracking[m], c)
        BY <3>3 DEF execute_command
      <4> QED BY <2>2, <3>1, <3>2, <4>1
    <3>4. CASE c.op # "start"
      <4>1. m \notin torn
        BY <2>1, <3>4
      <4> QED BY <2>2, <2>7, <2>9, <3>1, <3>2, <4>1
    <3> QED BY <3>3, <3>4
  <2> QED BY <2>10, <2>11
<1> QED BY <1>2, <1>3

\* A command leaves the queue, and its effect is in the row, or is not to be
\* in any that is not torn.
LEMMA TakenKeepsRows ==
  ASSUME Base, RowsInv, queue # <<>>, queue' = Tail(queue), UNCHANGED tracking,
         torn \subseteq torn',
         \A m \in Markets \ torn' :
           rows'[m] = IF Head(queue).id = m THEN execute_command(rows[m], Head(queue)) ELSE rows[m]
  PROVE  RowsInv'
<1> SUFFICES ASSUME NEW m \in Markets, m \notin torn', NEW g,
                    Replays(g, rows'[m], queue', m, Len(queue'))
             PROVE  g[Len(queue')] = tracking[m]
  BY DEF RowsInv
<1>1. queue \in Seq(Commands) /\ Len(queue) \in Nat
  BY DEF Base, TypeOK
<1>2. PICK f : Replays(f, rows[m], queue, m, Len(queue))
  BY <1>1, ReplaysExists
<1>3. f[Len(queue)] = tracking[m]
  BY <1>2 DEF RowsInv
<1>4. rows'[m] = IF Head(queue).id = m THEN execute_command(rows[m], Head(queue)) ELSE rows[m]
  OBVIOUS
<1>5. Replays(g, rows'[m], Tail(queue), m, Len(Tail(queue)))
  OBVIOUS
<1>6. g[Len(Tail(queue))] = f[Len(queue)]
  BY <1>1, <1>2, <1>4, <1>5, ReplaysTail
<1> QED BY <1>3, <1>6

LEMMA RowsKept ==
  ASSUME RowsInv, UNCHANGED <<rows, queue, torn, tracking>>
  PROVE  RowsInv'
BY DEF RowsInv

\* A record that ends, and its command.
LEMMA EndKeepsRows ==
  ASSUME Base, RowsInv, NEW m \in Markets, UNCHANGED rows,
         \/ Send(End(m)) /\ tracking' = [tracking EXCEPT ![m] = 0]
         \/ UNCHANGED <<tracking, queue, torn>>
  PROVE  RowsInv'
<1> DEFINE c == End(m)
<1>1. c \in Commands /\ c.id = m /\ c.op = "end"
  BY EndIsCommand
<1> HIDE DEF c
<1>2. execute_command(tracking[m], c) = 0
  BY <1>1 DEF execute_command
<1>3. ASSUME Send(c), tracking' = [tracking EXCEPT ![m] = 0] PROVE RowsInv'
  BY <1>1, <1>2, <1>3, SendKeepsRows
<1> QED BY <1>3, RowsKept DEF c

LEMMA TrackKeepsRows ==
  ASSUME Base, RowsInv, NEW t \in Tasks, Track(t)
  PROVE  RowsInv'
<1> DEFINE m == task[t].key
           n == task[t].margin
           c == [op |-> IF tracking[m] = 0 THEN "start" ELSE "update", id |-> m, margin |-> n]
<1>1. Sound(t) /\ task[t].at = "track" /\ TypeOK
  BY DEF Base, Track
<1>2. m \in Markets /\ n \in Margins /\ n >= Threshold
  BY <1>1, CallType DEF Sound
<1>3. n \in Nat \ {0} /\ tracking[m] \in Nat
  BY <1>1, <1>2, Numbers DEF Margins, TypeOK
<1>4. Send(c) /\ UNCHANGED rows
      /\ tracking' = [tracking EXCEPT ![m] = IF tracking[m] < n THEN n ELSE tracking[m]]
  BY DEF Track
<1>5. c \in Commands /\ c.id = m /\ c.margin = n
      /\ c.op = IF tracking[m] = 0 THEN "start" ELSE "update"
  BY <1>2 DEF Commands
<1> HIDE DEF c, m, n
<1>6. execute_command(tracking[m], c) = IF tracking[m] < n THEN n ELSE tracking[m]
  <2>1. CASE tracking[m] = 0
    BY <1>3, <1>5, <2>1 DEF execute_command
  <2>2. CASE tracking[m] # 0
    BY <1>3, <1>5, <2>2 DEF execute_command
  <2> QED BY <2>1, <2>2
<1> QED BY <1>4, <1>5, <1>6, SendKeepsRows

LEMMA InitRows == Init => RowsInv
<1> SUFFICES ASSUME Init, NEW m \in Markets, NEW f, Replays(f, rows[m], queue, m, Len(queue))
             PROVE  f[Len(queue)] = tracking[m]
  BY DEF RowsInv
<1>1. Len(queue) = 0 /\ rows[m] = 0 /\ tracking[m] = 0
  BY DEF Init
<1>2. f[0] = rows[m]
  BY <1>1, ReplaysStep
<1> QED BY <1>1, <1>2

LEMMA StepRows ==
  ASSUME Base, RowsInv, [Next]_vars
  PROVE  RowsInv'
<1>1. CASE UNCHANGED vars
  BY <1>1, RowsKept DEF vars
<1>2. ASSUME NEW t \in Tasks, Detection(t) PROVE RowsInv'
  <2>1. CASE CheckReady(t) \/ ReadPrices(t) \/ ReadKey(t) \/ LookAgain(t)
    BY <2>1, RowsKept DEF CheckReady, ReadPrices, ReadKey, LookAgain
  <2>2. CASE Track(t)
    BY <2>2, TrackKeepsRows
  <2>3. CASE maybe_end_tracking(t)
    <3> DEFINE m == task[t].key
    <3>1. m \in Markets
      BY <2>3 DEF Base, Sound, maybe_end_tracking
    <3>2. /\ UNCHANGED rows
          /\ \/ Send(End(m)) /\ tracking' = [tracking EXCEPT ![m] = 0]
             \/ UNCHANGED <<tracking, queue, torn>>
      BY <2>3 DEF maybe_end_tracking
    <3> HIDE DEF m
    <3> QED BY <3>1, <3>2, EndKeepsRows
  <2> QED BY <1>2, <2>1, <2>2, <2>3 DEF Detection
<1>3. ASSUME NEW m \in Markets, NEW x \in Platforms,
             \/ Restamp(m, x) \/ GoStale(m, x) \/ \E t \in Tasks, n \in Margins : Quote(t, m, x, n)
      PROVE  RowsInv'
  BY <1>3, RowsKept DEF Restamp, GoStale, Quote
<1>4. ASSUME NEW m \in Markets, NEW n \in Margins, AddMarket(m, n) PROVE RowsInv'
  BY <1>4, RowsKept DEF AddMarket
<1>5. ASSUME NEW m \in Markets, CleanTracking(m) PROVE RowsInv'
  <2>1. /\ UNCHANGED rows
        /\ \/ Send(End(m)) /\ tracking' = [tracking EXCEPT ![m] = 0]
           \/ UNCHANGED <<tracking, queue, torn>>
    BY <1>5 DEF CleanTracking
  <2> QED BY <2>1, EndKeepsRows
<1>6. ASSUME NEW keys, CleanList(keys) PROVE RowsInv'
  BY <1>6, RowsKept DEF CleanList
<1>7. CASE Write
  <2> DEFINE c == Head(queue)
             r == rows[c.id]
  <2>1. /\ queue # <<>> /\ queue' = Tail(queue) /\ UNCHANGED <<tracking, torn>>
        /\ rows' = [rows EXCEPT ![c.id] = execute_command(r, c)]
    BY <1>7 DEF Write
  <2>2. rows \in [Markets -> Margins]
    BY DEF Base, TypeOK
  <2>3. \A m \in Markets : rows'[m] = IF c.id = m THEN execute_command(rows[m], c) ELSE rows[m]
    <3> HIDE DEF c
    <3> QED BY <2>1, <2>2
  <2> QED BY <2>1, <2>3, TakenKeepsRows
<1>8. CASE WriteFails
  <2>1. /\ queue # <<>> /\ queue' = Tail(queue) /\ UNCHANGED <<tracking, rows>>
        /\ torn' = torn \cup {Head(queue).id}
    BY <1>8 DEF WriteFails
  <2>2. torn \subseteq torn' /\ Head(queue).id \in torn'
    BY <2>1
  <2> QED BY <2>1, <2>2, TakenKeepsRows
<1>9. CASE Crash
  <2> SUFFICES ASSUME NEW m \in Markets, m \notin torn', NEW g,
                      Replays(g, rows'[m], queue', m, Len(queue'))
               PROVE  g[Len(queue')] = tracking'[m]
    BY DEF RowsInv
  <2>1. queue' = <<>> /\ rows' = rows /\ tracking'[m] = 0 /\ rows[m] = 0
    BY <1>9 DEF Crash
  <2>2. Len(queue') = 0
    BY <2>1
  <2>3. g[0] = rows'[m]
    BY <2>2, ReplaysStep
  <2> QED BY <2>1, <2>2, <2>3
<1> QED BY <1>1, <1>2, <1>3, <1>4, <1>5, <1>6, <1>7, <1>8, <1>9 DEF Next

\* Whatever is dropped, fails or dies: the row of a market none of whose
\* commands was lost since its last start will tell of the record in memory,
\* because track_opportunity and maybe_end_tracking send their command under
\* the lock on the records and one task executes the queue in order.
THEOREM RowsTellOfRecords == Spec => []RowsFollowTracking
<1>1. Base /\ RowsInv => RowsFollowTracking
  <2> SUFFICES ASSUME Base, RowsInv, NEW m \in Markets \ torn PROVE Settled(m) = tracking[m]
    BY DEF RowsFollowTracking
  <2>1. Len(queue) \in Nat
    BY DEF Base, TypeOK
  <2>2. PICK f : Replays(f, rows[m], queue, m, Len(queue))
    BY <2>1, ReplaysExists
  <2>3. f[Len(queue)] = tracking[m]
    BY <2>2 DEF RowsInv
  <2> QED BY <2>1, <2>2, <2>3, SettledIsReplayed
<1> QED BY <1>1, InitBase, StepBase, InitRows, StepRows, PTL DEF Spec

-----------------------------------------------------------------------------
(* The index leads to the market of the quote.                               *)

\* While the list did not become shorter under a call, its index leads to its
\* market, and its key is that market's.
Leads(t) ==
  /\ t \in shrunk => task[t].at # "idle"
  /\ t \notin shrunk =>
       /\ task[t].at # "dead"
       /\ Working(t) => Listed(t) /\ At(t) = task[t].of
       /\ task[t].at \in {"track", "end"} => task[t].key = task[t].of
IndexInv == \A t \in Tasks : Leads(t)

LEMMA LeadsKept ==
  ASSUME IndexInv, UNCHANGED <<list, task, shrunk>>
  PROVE  IndexInv'
BY DEF IndexInv, Leads, Working, Listed, At

\* The calls of the other tasks lead where they did.
LEMMA LeadsOthers ==
  ASSUME IndexInv, NEW t \in Tasks, OnlyOf(t), UNCHANGED list, shrunk' \cup {t} = shrunk \cup {t},
         Leads(t)'
  PROVE  IndexInv'
<1>1. ASSUME NEW s \in Tasks, s # t PROVE Leads(s)'
  <2>1. task'[s] = task[s] /\ (s \in shrunk' <=> s \in shrunk) /\ Leads(s)
    BY <1>1 DEF OnlyOf, IndexInv
  <2> QED BY <2>1 DEF Leads, Working, Listed, At
<1> QED BY <1>1 DEF IndexInv

LEMMA LeadsLeft ==
  ASSUME IndexInv, NEW t \in Tasks, UNCHANGED list, Left(t)
  PROVE  IndexInv'
<1>1. Leads(t)'
  BY Resting DEF Left, Leads, Working
<1> QED BY <1>1, LeadsOthers DEF Left

\* Past the end of the list: so the list became shorter.
LEMMA LeadsDied ==
  ASSUME IndexInv, NEW t \in Tasks, UNCHANGED list, Working(t), ~Listed(t), Died(t)
  PROVE  IndexInv'
<1>1. t \in shrunk
  BY DEF IndexInv, Leads
<1>2. Leads(t)'
  BY <1>1, Resting DEF Died, Leads
<1> QED BY <1>2, LeadsOthers DEF Died

LEMMA LeadsGoes ==
  ASSUME IndexInv, NEW t \in Tasks, UNCHANGED list, Working(t), NEW a, NEW k, NEW n, Goes(t, a, k, n),
         a \notin {"idle", "dead"}, a \in {"track", "end"} => k = At(t)
  PROVE  IndexInv'
<1>1. Leads(t)
  BY DEF IndexInv
<1>2. Leads(t)'
  BY <1>1 DEF Goes, Leads, Working, Listed, At
<1> QED BY <1>2, LeadsOthers DEF Goes

LEMMA DetectionLeads ==
  ASSUME Base, IndexInv, NEW t \in Tasks, Detection(t)
  PROVE  IndexInv'
<1>1. TypeOK
  BY DEF Base
<1>2. CASE CheckReady(t)
  <2>1. UNCHANGED list
    BY <1>2 DEF CheckReady
  <2> QED BY <1>2, <2>1, CheckReadyFacts, LeadsLeft, LeadsGoes DEF Working
<1>3. CASE ReadPrices(t)
  <2>1. UNCHANGED list
    BY <1>3 DEF ReadPrices
  <2> QED BY <1>3, <2>1, ReadPricesFacts, LeadsLeft, LeadsDied, LeadsGoes DEF Working
<1>4. CASE ReadKey(t)
  <2>1. UNCHANGED list
    BY <1>4 DEF ReadKey
  <2> QED BY <1>4, <2>1, ReadKeyFacts, LeadsLeft, LeadsDied, LeadsGoes DEF Working
<1>5. CASE LookAgain(t)
  <2>1. UNCHANGED list
    BY <1>5 DEF LookAgain
  <2> QED BY <1>5, <2>1, LookAgainFacts, LeadsLeft, LeadsGoes DEF Working
<1>6. CASE Track(t)
  BY <1>1, <1>6, LeaveFacts, LeadsLeft DEF Track
<1>7. CASE maybe_end_tracking(t)
  BY <1>1, <1>7, LeaveFacts, LeadsLeft DEF maybe_end_tracking
<1> QED BY <1>2, <1>3, <1>4, <1>5, <1>6, <1>7 DEF Detection

LEMMA InitLeads == Init => IndexInv
BY DEF Init, IndexInv, Leads, Working, Idle

LEMMA StepLeads ==
  ASSUME Base, IndexInv, [Next]_vars
  PROVE  IndexInv'
<1>1. CASE UNCHANGED vars
  BY <1>1, LeadsKept DEF vars
<1>2. CASE \E t \in Tasks : Detection(t)
  BY <1>2, DetectionLeads
<1>3. ASSUME NEW t \in Tasks, NEW m \in Markets, NEW x \in Platforms, NEW n \in Margins,
             Quote(t, m, x, n)
      PROVE  IndexInv'
  <2>1. /\ OnlyOf(t) /\ task'[t].at = "ready" /\ task'[t].of = m
        /\ task'[t].index \in 1..Len(list) /\ list[task'[t].index] = m
    BY <1>3, QuoteFacts
  <2>2. UNCHANGED <<list, shrunk>>
    BY <1>3 DEF Quote
  <2>3. task'[t].index <= Len(list)
    BY <2>1
  <2>4. Leads(t)'
    BY <2>1, <2>2, <2>3 DEF Leads, Working, Listed, At
  <2> QED BY <2>1, <2>2, <2>4, LeadsOthers
<1>4. ASSUME NEW m \in Markets, NEW x \in Platforms, GoStale(m, x) \/ Restamp(m, x)
      PROVE  IndexInv'
  BY <1>4, LeadsKept DEF GoStale, Restamp
<1>5. ASSUME NEW m \in Markets, NEW n \in Margins, AddMarket(m, n) PROVE IndexInv'
  <2>1. list' = Append(list, m) /\ UNCHANGED <<task, shrunk>> /\ list \in Seq(Markets)
    BY <1>5 DEF AddMarket, Base, TypeOK
  <2>2. Len(list) \in Nat /\ Len(list') = Len(list) + 1 /\ \A i \in 1..Len(list) : list'[i] = list[i]
    BY <2>1, AppendFacts
  <2> SUFFICES ASSUME NEW t \in Tasks PROVE Leads(t)'
    BY DEF IndexInv
  <2>3. ASSUME Working(t), Listed(t) PROVE Listed(t)' /\ At(t)' = At(t)
    <3>1. task[t].index \in 1..Len(list)
      BY <2>3, ListedMarket
    <3> QED BY <2>1, <2>2, <3>1 DEF Listed, At
  <2>4. Working(t)' <=> Working(t)
    BY <2>1 DEF Working
  <2> QED BY <2>1, <2>3, <2>4 DEF IndexInv, Leads
<1>6. ASSUME NEW m \in Markets, CleanTracking(m) PROVE IndexInv'
  BY <1>6, LeadsKept DEF CleanTracking
<1>7. ASSUME NEW keys, CleanList(keys) PROVE IndexInv'
  <2>1. shrunk' = shrunk \cup Busy /\ UNCHANGED task
    BY <1>7 DEF CleanList
  <2> QED BY <2>1 DEF IndexInv, Leads, Working, Busy
<1>8. CASE Write \/ WriteFails
  BY <1>8, LeadsKept DEF Write, WriteFails
<1>9. CASE Crash
  BY <1>9 DEF Crash, IndexInv, Leads, Working, Idle
<1> QED BY <1>1, <1>2, <1>3, <1>4, <1>5, <1>6, <1>7, <1>8, <1>9 DEF Next

\* calculate_and_notify goes by the index it found when the quote was stored,
\* and takes the lock on the list anew for each look: only a clean-up that
\* shortens the list under the call makes it panic, or changes the record of
\* another market.
THEOREM IndexLeads == Spec => []IndexIsRight
<1>1. IndexInv => IndexIsRight
  BY DEF IndexInv, Leads, IndexIsRight
<1> QED BY <1>1, InitBase, StepBase, InitLeads, StepLeads, PTL DEF Spec

-----------------------------------------------------------------------------
(* What is tracked.                                                          *)

\* The record of a market tells of its quotes.
Told(m) ==
  /\ margin[m] >= Threshold => tracking[m] >= margin[m]
  /\ margin[m] = 0 => tracking[m] = 0

On(t, m) == Working(t) /\ task[t].of = m

\* A call on a market has read what its quotes are now.
Right(t, m) ==
  /\ task[t].at \in {"key", "track"} => task[t].margin = margin[m]
  /\ task[t].at \in {"look", "end"} => margin[m] = 0

\* Either a call is at work on it, one, and on the right quotes, or the record
\* tells of them.
Clear(m) ==
  /\ (\A t \in Tasks : ~On(t, m)) => Told(m)
  /\ \A t \in Tasks : On(t, m) => Right(t, m) /\ \A s \in Tasks : On(s, m) => s = t

WorthInv ==
  /\ (\E t \in shrunk : Working(t)) => missed = Markets
  /\ cleaning \subseteq missed
  /\ \A m \in Markets \ missed : Clear(m)

LEMMA ClearKept ==
  ASSUME NEW m, Clear(m), UNCHANGED task, margin'[m] = margin[m], tracking'[m] = tracking[m]
  PROVE  Clear(m)'
<1>1. /\ \A t \in Tasks : (On(t, m)' <=> On(t, m)) /\ (Right(t, m)' <=> Right(t, m))
      /\ Told(m)' <=> Told(m)
  BY DEF On, Working, Right, Told
<1> QED BY <1>1 DEF Clear

LEMMA WorthKept ==
  ASSUME WorthInv, UNCHANGED <<margin, task, tracking, cleaning, shrunk, missed>>
  PROVE  WorthInv'
<1>1. \A m \in Markets : Clear(m) => Clear(m)'
  BY ClearKept
<1>2. \A t : Working(t)' <=> Working(t)
  BY DEF Working
<1> QED BY <1>1, <1>2 DEF WorthInv

\* A step of a call that is not on a market leaves it clear.
LEMMA ClearElsewhere ==
  ASSUME NEW m, Clear(m), NEW t \in Tasks, OnlyOf(t), ~On(t, m), ~On(t, m)', UNCHANGED margin,
         tracking'[m] = tracking[m]
  PROVE  Clear(m)'
<1>1. \A s \in Tasks \ {t} : (On(s, m)' <=> On(s, m)) /\ (Right(s, m)' <=> Right(s, m))
  BY DEF On, Working, Right, OnlyOf
<1>2. Told(m)' <=> Told(m)
  BY DEF Told
<1>3. (\A s \in Tasks : ~On(s, m)') => (\A s \in Tasks : ~On(s, m))
  BY <1>1
<1> QED BY <1>1, <1>2, <1>3 DEF Clear

\* The call on a market goes on, on the right quotes, or has done its work.
LEMMA ClearHere ==
  ASSUME NEW m, Clear(m), NEW t \in Tasks, OnlyOf(t), On(t, m),
         On(t, m)' => Right(t, m)', ~On(t, m)' => Told(m)'
  PROVE  Clear(m)'
<1>1. \A s \in Tasks \ {t} : ~On(s, m)
  BY DEF Clear
<1>2. \A s \in Tasks \ {t} : ~On(s, m)'
  BY <1>1 DEF On, Working, OnlyOf
<1> QED BY <1>2 DEF Clear

LEMMA LeftIsOff ==
  ASSUME NEW t \in Tasks, Left(t) \/ Died(t), NEW m
  PROVE  ~On(t, m)'
BY Resting DEF Left, Died, On, Working

LEMMA GoesOn ==
  ASSUME NEW t \in Tasks, Working(t), NEW a, NEW k, NEW n, Goes(t, a, k, n), a \notin {"idle", "dead"},
         NEW m
  PROVE  OnlyOf(t) /\ (On(t, m)' <=> On(t, m))
BY DEF Goes, On, Working

\* The steps of a call keep a market clear: where the list did not become
\* shorter they change the record of the market of the quote only.
LEMMA DetectionClear ==
  ASSUME Base, IndexInv, WorthInv, NEW t \in Tasks, Detection(t),
         NEW m \in Markets, m \notin missed, m \notin missed'
  PROVE  Clear(m)'
<1>1. Clear(m) /\ TypeOK
  BY DEF WorthInv, Base
<1>2. ASSUME Working(t)
      PROVE  /\ Listed(t) /\ At(t) = task[t].of
             /\ task[t].at \in {"track", "end"} => task[t].key = task[t].of
  <2>1. t \notin shrunk
    BY <1>2 DEF WorthInv
  <2> QED BY <1>2, <2>1 DEF IndexInv, Leads
<1>3. On(t, m) => Right(t, m)
  BY <1>1 DEF Clear
\* A call leaves without having changed a record.
<1>4. ASSUME Left(t) \/ Died(t), UNCHANGED <<margin, tracking>>, On(t, m) => Told(m)
      PROVE  Clear(m)'
  <2>1. OnlyOf(t) /\ ~On(t, m)'
    BY <1>4, LeftIsOff DEF Left, Died
  <2>2. Told(m)' <=> Told(m)
    BY <1>4 DEF Told
  <2> QED BY <1>1, <1>4, <2>1, <2>2, ClearHere, ClearElsewhere
\* A call goes on.
<1>5. ASSUME Working(t), NEW a, NEW k, NEW n, Goes(t, a, k, n), a \notin {"idle", "dead"},
             UNCHANGED <<margin, tracking>>, On(t, m) => Right(t, m)'
      PROVE  Clear(m)'
  <2>1. OnlyOf(t) /\ (On(t, m)' <=> On(t, m))
    BY <1>5, GoesOn
  <2> QED BY <1>1, <1>5, <2>1, ClearHere, ClearElsewhere
<1>6. CASE CheckReady(t)
  <2>1. /\ Working(t) /\ UNCHANGED <<margin, tracking>>
        /\ \/ Left(t) /\ missed' = missed \cup {task[t].of}
           \/ Goes(t, "prices", task[t].key, task[t].margin)
    BY <1>6, CheckReadyFacts DEF CheckReady, Working
  <2>2. CASE Left(t) /\ missed' = missed \cup {task[t].of}
    <3>1. ~On(t, m)
      BY <2>2 DEF On
    <3> QED BY <1>4, <2>1, <2>2, <3>1
  <2>3. CASE Goes(t, "prices", task[t].key, task[t].margin)
    <3>1. Right(t, m)'
      BY <2>3 DEF Goes, Right
    <3> QED BY <1>5, <2>1, <2>3, <3>1
  <2> QED BY <2>1, <2>2, <2>3
<1>7. CASE ReadPrices(t)
  <2>1. /\ Working(t) /\ UNCHANGED <<margin, tracking>>
        /\ \/ ~Listed(t) /\ Died(t)
           \/ Listed(t) /\ Left(t) /\ missed' = missed \cup {task[t].of}
           \/ Listed(t) /\ Goes(t, "key", task[t].key, margin[At(t)])
    BY <1>7, ReadPricesFacts DEF ReadPrices, Working
  <2>2. CASE Left(t) /\ missed' = missed \cup {task[t].of}
    <3>1. ~On(t, m)
      BY <2>2 DEF On
    <3> QED BY <1>4, <2>1, <2>2, <3>1
  <2>3. CASE Goes(t, "key", task[t].key, margin[At(t)])
    <3>1. On(t, m) => Right(t, m)'
      BY <1>2, <2>1, <2>3 DEF Goes, Right, On
    <3> QED BY <1>5, <2>1, <2>3, <3>1
  <2> QED BY <1>2, <2>1, <2>2, <2>3
<1>8. CASE ReadKey(t)
  <2>1. /\ Working(t) /\ task[t].at = "key" /\ UNCHANGED <<margin, tracking>>
        /\ \/ ~Listed(t) /\ Died(t)
           \/ task[t].margin # 0 /\ task[t].margin < Threshold /\ Left(t)
           \/ task[t].margin = 0 /\ Goes(t, "look", task[t].key, 0)
           \/ Goes(t, "track", At(t), task[t].margin)
    BY <1>8, ReadKeyFacts DEF ReadKey, Working
  <2>2. On(t, m) => task[t].margin = margin[m]
    BY <1>3, <2>1 DEF Right
  <2>3. CASE ~Listed(t) /\ Died(t)
    BY <1>2, <1>4, <2>1, <2>3
  <2>4. CASE task[t].margin # 0 /\ task[t].margin < Threshold /\ Left(t)
    <3>1. On(t, m) => Told(m)
      <4>1. margin[m] \in Nat /\ Threshold \in Nat
        BY <1>1, Numbers DEF TypeOK, Margins
      <4> QED BY <2>2, <2>4, <4>1 DEF Told
    <3> QED BY <1>4, <2>1, <2>4, <3>1
  <2>5. CASE task[t].margin = 0 /\ Goes(t, "look", task[t].key, 0)
    <3>1. On(t, m) => Right(t, m)'
      BY <2>1, <2>2, <2>5 DEF Goes, Right
    <3> QED BY <1>5, <2>1, <2>5, <3>1
  <2>6. CASE Goes(t, "track", At(t), task[t].margin)
    <3>1. On(t, m) => Right(t, m)'
      BY <2>1, <2>2, <2>6 DEF Goes, Right
    <3> QED BY <1>5, <2>1, <2>6, <3>1
  <2> QED BY <2>1, <2>3, <2>4, <2>5, <2>6
<1>9. CASE LookAgain(t)
  <2>1. /\ Working(t) /\ task[t].at = "look" /\ UNCHANGED <<margin, tracking>>
        /\ \/ Left(t) /\ ~Listed(t)
           \/ Goes(t, "end", At(t), task[t].margin)
    BY <1>9, LookAgainFacts DEF LookAgain, Working
  <2>2. CASE Left(t) /\ ~Listed(t)
    BY <1>2, <1>4, <2>1, <2>2
  <2>3. CASE Goes(t, "end", At(t), task[t].margin)
    <3>1. On(t, m) => Right(t, m)'
      BY <1>3, <2>1, <2>3 DEF Goes, Right
    <3> QED BY <1>5, <2>1, <2>3, <3>1
  <2> QED BY <2>1, <2>2, <2>3
<1>10. CASE Track(t)
  <2> DEFINE k == task[t].key
             n == task[t].margin
  <2>1. /\ Left(t) /\ Working(t) /\ task[t].at = "track" /\ UNCHANGED margin
        /\ k = task[t].of
    BY <1>1, <1>2, <1>10, LeaveFacts DEF Track, Working
  <2>2. /\ k \in Markets /\ n \in Nat /\ n >= Threshold /\ tracking \in [Markets -> Nat]
        /\ Threshold \in Nat \ {0}
    <3>1. k \in Markets /\ n >= Threshold
      BY <2>1 DEF Base, Sound
    <3>2. n \in Nat
      BY <1>1, CallType, Numbers DEF Margins
    <3> QED BY <1>1, <3>1, <3>2, Numbers DEF TypeOK, Margins
  <2>3. tracking' = [tracking EXCEPT ![k] = IF tracking[k] < n THEN n ELSE tracking[k]]
    BY <1>10 DEF Track
  <2>4. OnlyOf(t) /\ ~On(t, m)'
    BY <2>1, LeftIsOff DEF Left
  <2>5. CASE On(t, m)
    <3>1. k = m /\ n = margin[m]
      BY <1>3, <2>1, <2>5 DEF On, Right
    <3> HIDE DEF k, n
    <3>2. tracking'[m] >= n
      BY <2>2, <2>3, <3>1
    <3>3. Told(m)'
      BY <2>1, <2>2, <3>1, <3>2 DEF Told
    <3> QED BY <1>1, <2>4, <2>5, <3>3, ClearHere
  <2>6. CASE ~On(t, m)
    <3>1. k # m
      BY <2>1, <2>6 DEF On
    <3>2. tracking'[m] = tracking[m]
      BY <2>2, <2>3, <3>1
    <3> QED BY <1>1, <2>1, <2>4, <2>6, <3>2, ClearElsewhere
  <2> QED BY <2>5, <2>6
<1>11. CASE maybe_end_tracking(t)
  <2> DEFINE k == task[t].key
  <2>1. /\ Left(t) /\ Working(t) /\ task[t].at = "end" /\ UNCHANGED margin
        /\ k = task[t].of
    BY <1>1, <1>2, <1>11, LeaveFacts DEF maybe_end_tracking, Working
  <2>2. tracking \in [Markets -> Nat] /\ Threshold \in Nat \ {0}
    BY <1>1, Numbers DEF TypeOK, Margins
  <2>3. tracking'[m] = IF k = m THEN 0 ELSE tracking[m]
    BY <1>11, <2>2 DEF maybe_end_tracking
  <2>4. OnlyOf(t) /\ ~On(t, m)'
    BY <2>1, LeftIsOff DEF Left
  <2>5. CASE On(t, m)
    <3>1. k = m /\ margin[m] = 0
      BY <1>3, <2>1, <2>5 DEF On, Right
    <3>2. Told(m)'
      BY <2>1, <2>2, <2>3, <3>1 DEF Told
    <3> QED BY <1>1, <2>4, <2>5, <3>2, ClearHere
  <2>6. CASE ~On(t, m)
    <3>1. tracking'[m] = tracking[m]
      BY <2>1, <2>3, <2>6 DEF On
    <3> QED BY <1>1, <2>1, <2>4, <2>6, <3>1, ClearElsewhere
  <2> QED BY <2>5, <2>6
<1> QED BY <1>6, <1>7, <1>8, <1>9, <1>10, <1>11 DEF Detection

LEMMA DetectionWorth ==
  ASSUME Base, IndexInv, WorthInv, NEW t \in Tasks, Detection(t)
  PROVE  WorthInv'
<1>1. UNCHANGED cleaning /\ missed \subseteq missed' /\ missed' \subseteq Markets
  <2>1. missed' \subseteq Markets
    BY DetectionBase DEF Base, TypeOK
  <2> QED BY <2>1 DEF Detection, CheckReady, ReadPrices, Unready, ReadKey, LookAgain, Track,
                      maybe_end_tracking
<1>2. \A m \in Markets \ missed' : Clear(m)'
  BY <1>1, DetectionClear
<1>3. OnlyOf(t) /\ shrunk' \subseteq shrunk /\ Working(t)
  <2>1. TypeOK
    BY DEF Base
  <2>2. CASE CheckReady(t)
    BY <2>2, CheckReadyFacts DEF Left, Goes, Working
  <2>3. CASE ReadPrices(t)
    BY <2>3, ReadPricesFacts DEF Left, Died, Goes, Working
  <2>4. CASE ReadKey(t)
    BY <2>4, ReadKeyFacts DEF Left, Died, Goes, Working
  <2>5. CASE LookAgain(t)
    BY <2>5, LookAgainFacts DEF Left, Goes, Working
  <2>6. CASE Track(t)
    BY <2>1, <2>6, LeaveFacts DEF Track, Left, Working
  <2>7. CASE maybe_end_tracking(t)
    BY <2>1, <2>7, LeaveFacts DEF maybe_end_tracking, Left, Working
  <2> QED BY <2>2, <2>3, <2>4, <2>5, <2>6, <2>7 DEF Detection
<1>4. (\E s \in shrunk' : Working(s)') => \E s \in shrunk : Working(s)
  <2>1. shrunk \subseteq Tasks
    BY DEF Base, TypeOK
  <2>2. \A s \in Tasks \ {t} : Working(s)' <=> Working(s)
    BY <1>3 DEF OnlyOf, Working
  <2> QED BY <1>3, <2>1, <2>2
<1> QED BY <1>1, <1>2, <1>4 DEF WorthInv

LEMMA QuoteWorth ==
  ASSUME Base, IndexInv, WorthInv, NEW t \in Tasks, NEW m \in Markets, NEW x \in Platforms,
         NEW n \in Margins, Quote(t, m, x, n)
  PROVE  WorthInv'
<1>1. /\ task[t].at = "idle" /\ OnlyOf(t) /\ task'[t].at = "ready" /\ task'[t].of = m
  BY QuoteFacts
<1>2. /\ UNCHANGED <<tracking, cleaning, shrunk>>
      /\ missed' = IF Busy = {} /\ m \notin cleaning THEN missed \ {m} ELSE missed \cup {m}
  BY DEF Quote
<1>3. \A k \in Markets \ {m} : margin'[k] = margin[k]
  BY DEF Base, TypeOK, Quote
<1>4. t \notin shrunk /\ shrunk \subseteq Tasks
  BY <1>1 DEF IndexInv, Leads, Base, TypeOK
<1>5. \A s \in Tasks \ {t} : (Working(s)' <=> Working(s)) /\ (On(s, m)' <=> On(s, m))
  BY <1>1 DEF OnlyOf, Working, On
<1>6. (\E s \in shrunk' : Working(s)') => \E s \in shrunk : Working(s)
  BY <1>2, <1>4, <1>5
<1>7. ASSUME NEW k \in Markets, k # m, k \notin missed PROVE Clear(k)'
  <2>1. Clear(k) /\ margin'[k] = margin[k] /\ tracking'[k] = tracking[k]
    BY <1>2, <1>3, <1>7 DEF WorthInv
  <2>2. \A s \in Tasks : (On(s, k)' <=> On(s, k)) /\ (On(s, k) => (Right(s, k)' <=> Right(s, k)))
    BY <1>1, <1>7, <2>1 DEF OnlyOf, On, Working, Right
  <2>3. Told(k)' <=> Told(k)
    BY <2>1 DEF Told
  <2> QED BY <2>1, <2>2, <2>3 DEF Clear
<1>8. CASE Busy = {} /\ m \notin cleaning
  <2>1. missed' = missed \ {m} /\ \A s \in Tasks : ~Working(s)
    BY <1>2, <1>8 DEF Busy, Working
  <2>2. ~ \E s \in shrunk' : Working(s)'
    BY <1>4, <1>6, <2>1
  <2>3. Clear(m)'
    <3>1. \A s \in Tasks \ {t} : ~On(s, m)'
      BY <1>5, <2>1 DEF On
    <3>2. On(t, m)' /\ Right(t, m)'
      BY <1>1 DEF On, Working, Right
    <3> QED BY <3>1, <3>2 DEF Clear
  <2>4. cleaning' \subseteq missed'
    BY <1>2, <1>8, <2>1 DEF WorthInv
  <2>5. \A k \in Markets \ missed' : Clear(k)'
    BY <1>2, <1>7, <2>1, <2>3
  <2> QED BY <2>2, <2>4, <2>5 DEF WorthInv
<1>9. CASE ~(Busy = {} /\ m \notin cleaning)
  <2>1. missed' = missed \cup {m}
    BY <1>2, <1>9
  <2>2. \A k \in Markets \ missed' : Clear(k)'
    BY <1>2, <1>7, <2>1
  <2>3. cleaning' \subseteq missed'
    BY <1>2, <2>1 DEF WorthInv
  <2>4. (\E s \in shrunk' : Working(s)') => missed' = Markets
    BY <1>2, <1>6, <2>1 DEF WorthInv
  <2> QED BY <2>2, <2>3, <2>4 DEF WorthInv
<1> QED BY <1>8, <1>9

LEMMA CleanListWorth ==
  ASSUME Base, WorthInv, NEW keys \in SUBSET ToSet(list), CleanList(keys)
  PROVE  WorthInv'
<1>1. /\ cleaning' = keys /\ shrunk' = shrunk \cup Busy
      /\ missed' = IF Busy = {} THEN missed \cup keys ELSE Markets
      /\ margin' = [k \in Markets |-> IF k \in keys THEN 0 ELSE margin[k]]
      /\ UNCHANGED <<task, tracking>>
  BY DEF CleanList
<1>2. \A s : Working(s)' <=> Working(s)
  BY <1>1 DEF Working
<1>3. cleaning' \subseteq missed'
  BY <1>1 DEF Base, TypeOK, ToSet
<1>4. CASE Busy = {}
  <2>1. ~ \E s \in shrunk' : Working(s)'
    <3>1. shrunk' \subseteq Tasks /\ \A s \in Tasks : ~Working(s)
      BY <1>1, <1>4 DEF Base, TypeOK, Busy, Working
    <3> QED BY <1>2, <3>1
  <2>2. ASSUME NEW m \in Markets, m \notin missed' PROVE Clear(m)'
    <3>1. m \notin keys /\ m \notin missed
      BY <1>1, <1>4, <2>2
    <3>2. Clear(m) /\ margin'[m] = margin[m] /\ tracking'[m] = tracking[m]
      BY <1>1, <3>1 DEF WorthInv
    <3> QED BY <1>1, <3>2, ClearKept
  <2> QED BY <1>3, <2>1, <2>2 DEF WorthInv
<1>5. CASE Busy # {}
  <2>1. missed' = Markets
    BY <1>1, <1>5
  <2> QED BY <1>3, <2>1 DEF WorthInv
<1> QED BY <1>4, <1>5

LEMMA InitWorth == Init => WorthInv
BY DEF Init, WorthInv

LEMMA StepWorth ==
  ASSUME Base, IndexInv, WorthInv, [Next]_vars
  PROVE  WorthInv'
<1>1. CASE UNCHANGED vars
  BY <1>1, WorthKept DEF vars
<1>2. CASE \E t \in Tasks : Detection(t)
  BY <1>2, DetectionWorth
<1>3. CASE \E t \in Tasks, m \in Markets, x \in Platforms, n \in Margins : Quote(t, m, x, n)
  BY <1>3, QuoteWorth
<1>4. ASSUME NEW m \in Markets, NEW x \in Platforms, GoStale(m, x) \/ Restamp(m, x)
      PROVE  WorthInv'
  BY <1>4, WorthKept DEF GoStale, Restamp
<1>5. ASSUME NEW m \in Markets, NEW n \in Margins, AddMarket(m, n) PROVE WorthInv'
  <2>1. missed' = missed \cup {m} /\ UNCHANGED <<task, tracking, cleaning, shrunk>>
    BY <1>5 DEF AddMarket
  <2>2. \A k \in Markets \ {m} : margin'[k] = margin[k]
    BY <1>5 DEF AddMarket, Base, TypeOK
  <2>3. ASSUME NEW k \in Markets, k \notin missed' PROVE Clear(k)'
    <3>1. k # m /\ Clear(k)
      BY <2>1, <2>3 DEF WorthInv
    <3> QED BY <2>1, <2>2, <3>1, ClearKept
  <2>4. \A t : Working(t)' <=> Working(t)
    BY <2>1 DEF Working
  <2> QED BY <2>1, <2>3, <2>4 DEF WorthInv
<1>6. ASSUME NEW m \in Markets, CleanTracking(m) PROVE WorthInv'
  <2>1. /\ m \in cleaning /\ cleaning' = cleaning \ {m}
        /\ UNCHANGED <<margin, task, shrunk, missed>>
    BY <1>6 DEF CleanTracking
  <2>2. \A k \in Markets \ {m} : tracking'[k] = tracking[k]
    BY <1>6 DEF CleanTracking, Base, TypeOK
  <2>3. m \in missed
    BY <2>1 DEF WorthInv
  <2>4. ASSUME NEW k \in Markets, k \notin missed PROVE Clear(k)'
    <3>1. k # m /\ Clear(k)
      BY <2>3, <2>4 DEF WorthInv
    <3> QED BY <2>1, <2>2, <3>1, ClearKept
  <2>5. \A s : Working(s)' <=> Working(s)
    BY <2>1 DEF Working
  <2> QED BY <2>1, <2>4, <2>5 DEF WorthInv
<1>7. CASE \E keys \in SUBSET ToSet(list) : CleanList(keys)
  BY <1>7, CleanListWorth
<1>8. CASE Write \/ WriteFails
  BY <1>8, WorthKept DEF Write, WriteFails
<1>9. CASE Crash
  BY <1>9 DEF Crash, WorthInv
<1> QED BY <1>1, <1>2, <1>3, <1>4, <1>5, <1>6, <1>7, <1>8, <1>9 DEF Next

\* When all is calculated, a listed market is tracked at the margin of its
\* prices or a better one while they reach the threshold, and is not tracked
\* when they give no opportunity, however its quotes went stale and were
\* stamped again, unless no call calculated with its last prices alone: they
\* came out of a scan, a quote was stale at their call, or another call of
\* calculate_and_notify, or remove_ended_markets, was at work on it.
THEOREM WorthIsTracked == Spec => []TrackedWhileWorth
<1>1. Base /\ WorthInv => TrackedWhileWorth
  <2> SUFFICES ASSUME Base, WorthInv, AtRest, NEW m \in ToSet(list) \ missed
               PROVE  Told(m)
    BY DEF TrackedWhileWorth, Told
  <2>1. m \in Markets
    BY DEF Base, TypeOK, ToSet
  <2>2. Clear(m)
    BY <2>1 DEF WorthInv
  <2>3. \A t \in Tasks : ~On(t, m)
    BY DEF AtRest, On, Working
  <2> QED BY <2>2, <2>3 DEF Clear
<1> QED BY <1>1, InitBase, StepBase, InitLeads, StepLeads, InitWorth, StepWorth, PTL DEF Spec

-----------------------------------------------------------------------------
(* Functions that are defined from a number to the next.                   *)

\* f is the recursion of step from s0, up to n, and stays in the sets S[i].
Recurses(f, n, step, s0, S) ==
  /\ DOMAIN f = 0..n
  /\ f = [i \in 0..n |-> IF i = 0 THEN s0 ELSE step[<<i, f[i - 1]>>]]
  /\ \A i \in 0..n : f[i] \in S[i]

\* A step that leads from each set into the next has a recursion.
LEMMA RecursionExists ==
  ASSUME NEW N \in Nat, NEW S, NEW step, NEW s0 \in S[0],
         \A i \in 1..N : \A a \in S[i - 1] : step[<<i, a>>] \in S[i]
  PROVE  \E f : Recurses(f, N, step, s0, S)
<1> DEFINE B == {n \in 0..N : ~ \E f : Recurses(f, n, step, s0, S)}
<1>1. SUFFICES ASSUME B # {} PROVE FALSE
  BY DEF B
<1>2. PICK n \in B : \A k \in Nat : k < n => k \notin B
  <2>1. B \subseteq Nat
    OBVIOUS
  <2> HIDE DEF B
  <2> QED BY <1>1, <2>1, LeastNumber
<1>3. CASE n = 0
  <2>1. Recurses([i \in 0..0 |-> s0], 0, step, s0, S)
    BY DEF Recurses
  <2> QED BY <1>3, <2>1
<1>4. CASE n # 0
  <2>1. n - 1 \in 0..N /\ n \in 1..N /\ n - 1 < n /\ n - 1 \in Nat
    BY <1>4
  <2>2. PICK f : Recurses(f, n - 1, step, s0, S)
    BY <1>2, <2>1
  <2> DEFINE g == [i \in 0..n |-> IF i = n THEN step[<<n, f[n - 1]>>] ELSE f[i]]
  <2>3. f[n - 1] \in S[n - 1]
    BY <2>1, <2>2 DEF Recurses
  <2>4. \A i \in 0..n : g[i] \in S[i]
    BY <2>1, <2>2, <2>3 DEF Recurses
  <2>5. ASSUME NEW i \in 0..n PROVE g[i] = IF i = 0 THEN s0 ELSE step[<<i, g[i - 1]>>]
    <3>1. CASE i = n
      <4>1. g[n - 1] = f[n - 1]
        BY <2>1
      <4> QED BY <1>4, <3>1, <4>1
    <3>2. CASE i # n
      <4>1. i \in 0..(n - 1) /\ g[i] = f[i]
        BY <3>2, <2>1
      <4>2. f[i] = IF i = 0 THEN s0 ELSE step[<<i, f[i - 1]>>]
        <5> HIDE DEF g
        <5> QED BY <2>2, <4>1 DEF Recurses
      <4>3. i # 0 => g[i - 1] = f[i - 1]
        BY <4>1, <2>1
      <4> HIDE DEF g
      <4> QED BY <4>1, <4>2, <4>3
    <3> QED BY <3>1, <3>2
  <2>6. Recurses(g, n, step, s0, S)
    <3>1. DOMAIN g = 0..n /\ g = [i \in 0..n |-> g[i]]
      OBVIOUS
    <3> HIDE DEF g
    <3> QED BY <2>4, <2>5, <3>1 DEF Recurses
  <2> HIDE DEF g
  <2> QED BY <2>6, <2>1
<1> QED BY <1>3, <1>4

LEMMA JoinFacts ==
  ASSUME NEW A, NEW s \in Seq(A), NEW t \in Seq(A)
  PROVE  s \o t \in Seq(A) /\ ToSet(s \o t) = ToSet(s) \cup ToSet(t)
<1>1. \A x : x \in ToSet(s \o t) => x \in ToSet(s) \cup ToSet(t)
  BY DEF ToSet
<1>2. \A j \in DOMAIN s : (s \o t)[j] = s[j] /\ j \in DOMAIN (s \o t)
  OBVIOUS
<1>3. \A j \in DOMAIN t : (s \o t)[Len(s) + j] = t[j] /\ Len(s) + j \in DOMAIN (s \o t)
  OBVIOUS
<1>4. ToSet(s) \subseteq ToSet(s \o t) /\ ToSet(t) \subseteq ToSet(s \o t)
  BY <1>2, <1>3 DEF ToSet
<1> QED BY <1>1, <1>4

\* What the first i of some sequences hold.
Upto(ss, i) == UNION {ToSet(ss[j]) : j \in 1..i}

LEMMA UptoNext ==
  ASSUME NEW ss, NEW i \in Nat \ {0}
  PROVE  Upto(ss, 0) = {} /\ Upto(ss, i) = Upto(ss, i - 1) \cup ToSet(ss[i])
<1>1. \A j \in Nat : j \in 1..i <=> j \in 1..(i - 1) \/ j = i
  OBVIOUS
<1>2. \A x : x \in Upto(ss, i) <=> x \in Upto(ss, i - 1) \/ x \in ToSet(ss[i])
  <2> TAKE x
  <2>1. x \in Upto(ss, i) <=> \E j \in 1..i : x \in ToSet(ss[j])
    BY DEF Upto
  <2>2. x \in Upto(ss, i - 1) <=> \E j \in 1..(i - 1) : x \in ToSet(ss[j])
    BY DEF Upto
  <2>3. i \in 1..i /\ \A j \in 1..i : j \in Nat
    OBVIOUS
  <2> QED BY <1>1, <2>1, <2>2, <2>3
<1>3. 1..0 = {}
  OBVIOUS
<1> QED BY <1>2, <1>3 DEF Upto

LEMMA FlattenFacts ==
  ASSUME NEW A, NEW ss \in Seq(Seq(A))
  PROVE  /\ FlattenSeq(ss) \in Seq(A)
         /\ ToSet(FlattenSeq(ss)) = UNION {ToSet(ss[i]) : i \in DOMAIN ss}
<1>1. CASE ss = <<>>
  BY <1>1 DEF FlattenSeq, ToSet
<1>2. CASE ss # <<>>
  <2> DEFINE n == Len(ss)
             Gets(i) == {s \in Seq(A) : ToSet(s) = Upto(ss, i)}
             S == [i \in 0..n |-> Gets(i)]
             step == [x \in (1..n) \X Seq(A) |-> x[2] \o ss[x[1]]]
  <2>1. n \in Nat \ {0} /\ DOMAIN ss = 1..n /\ \A i \in 1..n : ss[i] \in Seq(A)
    BY <1>2
  <2>2. <<>> \in S[0]
    <3>1. <<>> \in Seq(A) /\ ToSet(<<>>) = {} /\ Upto(ss, 0) = {}
      BY UptoNext, 1 \in Nat \ {0} DEF ToSet
    <3>2. S[0] = Gets(0)
      BY <2>1
    <3> QED BY <3>1, <3>2
  <2>3. ASSUME NEW i \in 1..n, NEW a \in S[i - 1] PROVE step[<<i, a>>] \in S[i]
    <3>1. i - 1 \in 0..n /\ i \in 0..n /\ i \in Nat \ {0} /\ ss[i] \in Seq(A)
      BY <2>1
    <3>2. a \in Seq(A) /\ ToSet(a) = Upto(ss, i - 1)
      BY <3>1
    <3>3. step[<<i, a>>] = a \o ss[i]
      BY <3>2
    <3>4. a \o ss[i] \in Gets(i)
      <4>1. a \o ss[i] \in Seq(A) /\ ToSet(a \o ss[i]) = ToSet(a) \cup ToSet(ss[i])
        BY <3>1, <3>2, JoinFacts
      <4>2. Upto(ss, i) = Upto(ss, i - 1) \cup ToSet(ss[i])
        BY <3>1, UptoNext
      <4> QED BY <3>2, <4>1, <4>2
    <3> QED BY <3>1, <3>3, <3>4
  <2>4. PICK f : Recurses(f, n, step, <<>>, S)
    <3> HIDE DEF S, step
    <3> QED BY <2>1, <2>2, <2>3, RecursionExists
  <2> DEFINE Flat(g) == g = [i \in 1..n |-> IF i = 1 THEN ss[i] ELSE g[i - 1] \o ss[i]]
  <2>5. ASSUME NEW i \in 0..n PROVE f[i] \in Seq(A) /\ ToSet(f[i]) = Upto(ss, i)
    <3>1. f[i] \in S[i] /\ S[i] = Gets(i)
      BY <2>4 DEF Recurses
    <3> QED BY <3>1
  <2>6. ASSUME NEW i \in 1..n PROVE f[i] = f[i - 1] \o ss[i]
    <3>1. i \in 0..n /\ i # 0 /\ i - 1 \in 0..n
      BY <2>1
    <3>2. f[i] = step[<<i, f[i - 1]>>]
      <4> HIDE DEF step, S
      <4> QED BY <2>4, <3>1 DEF Recurses
    <3>3. f[i - 1] \in Seq(A)
      BY <2>5, <3>1
    <3> QED BY <3>2, <3>3
  <2>7. f[0] = <<>>
    <3> HIDE DEF step, S
    <3> QED BY <2>1, <2>4 DEF Recurses
  <2> HIDE DEF S, step
  <2>8. f[1] = ss[1]
    <3>1. f[1] = f[0] \o ss[1] /\ ss[1] \in Seq(A)
      <4>1. 1 \in 1..n /\ 1 - 1 = 0
        BY <2>1
      <4> QED BY <2>1, <2>6, <4>1
    <3> QED BY <2>7, <3>1
  <2>9. \E g : Flat(g)
    <3> DEFINE h == [i \in 1..n |-> f[i]]
    <3>1. ASSUME NEW i \in 1..n PROVE h[i] = IF i = 1 THEN ss[i] ELSE h[i - 1] \o ss[i]
      <4>1. CASE i = 1
        BY <2>8, <4>1
      <4>2. CASE i # 1
        <5>1. i - 1 \in 1..n
          BY <4>2, <2>1
        <5> QED BY <5>1, <4>2, <2>6
      <4> QED BY <4>1, <4>2
    <3>2. h = [i \in 1..n |-> h[i]]
      OBVIOUS
    <3>3. Flat(h)
      <4>1. [i \in 1..n |-> h[i]] = [i \in 1..n |-> IF i = 1 THEN ss[i] ELSE h[i - 1] \o ss[i]]
        <5> HIDE DEF h
        <5> QED BY <3>1
      <4> HIDE DEF h
      <4> QED BY <3>2, <4>1
    <3> QED BY <3>3
  <2> DEFINE g == CHOOSE g : Flat(g)
  <2>10. Flat(g)
    BY <2>9
  <2>11. FlattenSeq(ss) = g[n]
    BY <2>1 DEF FlattenSeq
  <2>12. \A i \in 1..n : g[i] = IF i = 1 THEN ss[i] ELSE g[i - 1] \o ss[i]
    <3> HIDE DEF g
    <3> QED BY <2>10
  <2>13. \A i \in 1..n : g[i] = f[i]
    <3> DEFINE B == {i \in 1..n : g[i] # f[i]}
    <3>1. SUFFICES ASSUME B # {} PROVE FALSE
      OBVIOUS
    <3>2. PICK i \in B : \A k \in Nat : k < i => k \notin B
      <4>1. B \subseteq Nat
        BY <2>1
      <4> HIDE DEF B
      <4> QED BY <3>1, <4>1, LeastNumber
    <3> HIDE DEF g
    <3>3. CASE i = 1
      BY <3>2, <3>3, <2>1, <2>8, <2>12
    <3>4. CASE i # 1
      <4>1. i - 1 \in 1..n /\ i - 1 \in Nat /\ i - 1 < i
        BY <3>4, <2>1
      <4>2. g[i - 1] = f[i - 1]
        BY <3>2, <4>1
      <4> QED BY <3>2, <3>4, <4>1, <4>2, <2>6, <2>12
    <3> QED BY <3>3, <3>4
  <2> HIDE DEF g
  <2>14. n \in 1..n /\ n \in 0..n
    BY <2>1
  <2> QED BY <2>1, <2>5, <2>11, <2>13, <2>14 DEF Upto
<1> QED BY <1>1, <1>2

LEMMA Reaches ==
  ASSUME NEW N \in Nat, NEW F, NEW S, F[0] \in S[0],
         \A i \in 1..N : F[i - 1] \in S[i - 1] => F[i] \in S[i]
  PROVE  \A i \in 0..N : F[i] \in S[i]
<1> DEFINE B == {i \in 0..N : F[i] \notin S[i]}
<1>1. SUFFICES ASSUME B # {} PROVE FALSE
  OBVIOUS
<1>2. PICK i \in B : \A k \in Nat : k < i => k \notin B
  <2>1. B \subseteq Nat
    OBVIOUS
  <2> HIDE DEF B
  <2> QED BY <1>1, <2>1, LeastNumber
<1>3. i # 0 /\ i \in 1..N
  BY <1>2
<1>4. i - 1 \in Nat /\ i - 1 < i /\ i - 1 \in 0..N
  BY <1>3
<1>5. F[i - 1] \in S[i - 1]
  BY <1>2, <1>4
<1> QED BY <1>2, <1>3, <1>5

-----------------------------------------------------------------------------
(* What the matcher returns.                                               *)

Fits(kalshi, poly, j, q) ==
  /\ ~Ambiguous(j, kalshi)
  /\ poly[q].name = kalshi[j].name
  /\ NoOne \in {kalshi[j].date, poly[q].date} \/ poly[q].date = kalshi[j].date

\* j was given q when only events that fit an earlier one had been used.
Chosen(kalshi, poly, j, q) ==
  /\ Fits(kalshi, poly, j, q)
  /\ \E used :
       /\ \A id \in used : \E i \in 1..(j - 1), o \in DOMAIN poly :
            Fits(kalshi, poly, i, o) /\ id = poly[o].id
       /\ poly[q].id \notin used
       /\ ~Several(SameDate(kalshi[j], poly, used))

LEMMA BestMatchFits ==
  ASSUME NEW kalshi, NEW poly, NEW used, NEW j, ~Ambiguous(j, kalshi),
         NEW q \in BestMatch(kalshi[j], poly, used)
  PROVE  q \in DOMAIN poly /\ Fits(kalshi, poly, j, q) /\ poly[q].id \notin used
BY DEF BestMatch, First, SameDate, Undated, Candidates, Fits

LEMMA MatchOneChooses ==
  ASSUME NEW kalshi, NEW poly, NEW matched, NEW i \in Nat \ {0},
         \A x \in matched : \E j \in 1..(i - 1), q \in DOMAIN poly :
            x = <<kalshi[j], poly[q]>> /\ Chosen(kalshi, poly, j, q)
  PROVE  \A x \in MatchOne(matched, i, kalshi, poly) : \E j \in 1..i, q \in DOMAIN poly :
            x = <<kalshi[j], poly[q]>> /\ Chosen(kalshi, poly, j, q)
<1> DEFINE used == {x[2].id : x \in matched}
<1>1. \A id \in used : \E j \in 1..(i - 1), o \in DOMAIN poly :
        Fits(kalshi, poly, j, o) /\ id = poly[o].id
  <2> SUFFICES ASSUME NEW x \in matched
               PROVE  \E j \in 1..(i - 1), o \in DOMAIN poly :
                        Fits(kalshi, poly, j, o) /\ x[2].id = poly[o].id
    OBVIOUS
  <2>1. PICK j \in 1..(i - 1), q \in DOMAIN poly :
          x = <<kalshi[j], poly[q]>> /\ Chosen(kalshi, poly, j, q)
    OBVIOUS
  <2> QED BY <2>1 DEF Chosen
<1> SUFFICES ASSUME NEW x \in MatchOne(matched, i, kalshi, poly)
             PROVE  \E j \in 1..i, q \in DOMAIN poly :
                      x = <<kalshi[j], poly[q]>> /\ Chosen(kalshi, poly, j, q)
  OBVIOUS
<1>2. CASE x \in matched
  <2>1. PICK j \in 1..(i - 1), q \in DOMAIN poly :
          x = <<kalshi[j], poly[q]>> /\ Chosen(kalshi, poly, j, q)
    BY <1>2
  <2>2. j \in 1..i
    OBVIOUS
  <2> QED BY <2>1, <2>2
<1>3. CASE x \notin matched
  <2>1. /\ ~Ambiguous(i, kalshi) /\ ~Several(SameDate(kalshi[i], poly, used))
        /\ \E q \in BestMatch(kalshi[i], poly, used) : x = <<kalshi[i], poly[q]>>
    BY <1>3 DEF MatchOne
  <2>2. PICK q \in BestMatch(kalshi[i], poly, used) : x = <<kalshi[i], poly[q]>>
    BY <2>1
  <2> HIDE DEF used
  <2>3. q \in DOMAIN poly /\ Fits(kalshi, poly, i, q) /\ poly[q].id \notin used
    BY <2>1, BestMatchFits
  <2>4. Chosen(kalshi, poly, i, q)
    BY <1>1, <2>1, <2>3 DEF Chosen
  <2> QED BY <2>2, <2>3, <2>4
<1> QED BY <1>2, <1>3

LEMMA MatchEventsFacts ==
  ASSUME NEW A, NEW kalshi \in Seq(A), NEW poly,
         NEW x \in match_events(kalshi, poly)
  PROVE  \E j \in DOMAIN kalshi, q \in DOMAIN poly :
            x = <<kalshi[j], poly[q]>> /\ Chosen(kalshi, poly, j, q)
<1> DEFINE N == Len(kalshi)
           Good(i) == {m \in SUBSET (ToSet(kalshi) \X ToSet(poly)) :
                         \A y \in m : \E j \in 1..i, q \in DOMAIN poly :
                            y = <<kalshi[j], poly[q]>> /\ Chosen(kalshi, poly, j, q)}
           S == [i \in 0..N |-> Good(i)]
           step == [y \in (1..N) \X SUBSET (ToSet(kalshi) \X ToSet(poly)) |->
                      MatchOne(y[2], y[1], kalshi, poly)]
<1>1. N \in Nat /\ DOMAIN kalshi = 1..N
  OBVIOUS
<1>2. {} \in S[0]
  BY <1>1
<1>3. ASSUME NEW i \in 1..N, NEW m \in S[i - 1]
      PROVE  /\ MatchOne(m, i, kalshi, poly) \in S[i]
             /\ step[<<i, m>>] = MatchOne(m, i, kalshi, poly)
  <2>1. i - 1 \in 0..N /\ i \in 0..N /\ i \in Nat \ {0}
    BY <1>1
  <2>2. m \in Good(i - 1)
    BY <2>1
  <2>3. \A y \in MatchOne(m, i, kalshi, poly) : \E j \in 1..i, q \in DOMAIN poly :
            y = <<kalshi[j], poly[q]>> /\ Chosen(kalshi, poly, j, q)
    BY <2>1, <2>2, MatchOneChooses
  <2>4. MatchOne(m, i, kalshi, poly) \in SUBSET (ToSet(kalshi) \X ToSet(poly))
    <3>1. \A j \in 1..i : kalshi[j] \in ToSet(kalshi)
      BY <1>1 DEF ToSet
    <3>2. \A q \in DOMAIN poly : poly[q] \in ToSet(poly)
      BY DEF ToSet
    <3> QED BY <2>3, <3>1, <3>2
  <2> QED BY <2>1, <2>2, <2>3, <2>4
<1> DEFINE Is(F) == F = [i \in 0..N |-> IF i = 0 THEN {} ELSE MatchOne(F[i - 1], i, kalshi, poly)]
<1> HIDE DEF S, step
<1>4. PICK f : Recurses(f, N, step, {}, S)
  BY <1>1, <1>2, <1>3, RecursionExists
<1>5. \E F : Is(F)
  <2>1. ASSUME NEW i \in 1..N PROVE step[<<i, f[i - 1]>>] = MatchOne(f[i - 1], i, kalshi, poly)
    <3>1. i - 1 \in 0..N
      BY <1>1
    <3> QED BY <1>3, <1>4, <3>1 DEF Recurses
  <2>2. \A i \in 0..N : i = 0 \/ i \in 1..N
    BY <1>1
  <2>3. [i \in 0..N |-> IF i = 0 THEN {} ELSE step[<<i, f[i - 1]>>]]
          = [i \in 0..N |-> IF i = 0 THEN {} ELSE MatchOne(f[i - 1], i, kalshi, poly)]
    BY <2>1, <2>2
  <2>4. f = [i \in 0..N |-> IF i = 0 THEN {} ELSE step[<<i, f[i - 1]>>]]
    BY <1>4 DEF Recurses
  <2> QED BY <2>3, <2>4
<1> DEFINE F == CHOOSE F : Is(F)
<1>6. Is(F)
  BY <1>5
<1>7. match_events(kalshi, poly) = F[N]
  BY DEF match_events
<1>8. F[0] = {} /\ \A i \in 1..N : F[i] = MatchOne(F[i - 1], i, kalshi, poly)
  <2> HIDE DEF F
  <2> QED BY <1>1, <1>6
<1> HIDE DEF F
<1>9. \A i \in 0..N : F[i] \in S[i]
  <2>1. F[0] \in S[0]
    BY <1>2, <1>8
  <2>2. \A i \in 1..N : F[i - 1] \in S[i - 1] => F[i] \in S[i]
    BY <1>3, <1>8
  <2> QED BY <1>1, <2>1, <2>2, Reaches
<1>10. F[N] \in Good(N)
  <2>1. N \in 0..N
    BY <1>1
  <2> QED BY <1>9, <2>1 DEF S
<1> QED BY <1>1, <1>7, <1>10

LEMMA PassFacts ==
  ASSUME NEW A, NEW ks \in Seq(A), NEW held, NEW partners, NEW by, NEW cards, NEW Cards,
         cards \subseteq Cards,
         \A k \in ToSet(ks) : \A p \in partners[k] : [k |-> k, p |-> p, by |-> by] \in Cards
  PROVE  Pass(cards, ks, held, partners, by) \subseteq Cards
<1> DEFINE N == Len(ks)
           S == [i \in 0..N |-> SUBSET Cards]
           step == [y \in (1..N) \X SUBSET Cards |-> Claim(y[2], ks[y[1]], held, partners, by)]
<1>1. N \in Nat /\ DOMAIN ks = 1..N
  OBVIOUS
<1>2. cards \in S[0]
  BY <1>1
<1>3. ASSUME NEW i \in 1..N, NEW m \in S[i - 1]
      PROVE  /\ Claim(m, ks[i], held, partners, by) \in S[i]
             /\ step[<<i, m>>] = Claim(m, ks[i], held, partners, by)
  <2>1. i - 1 \in 0..N /\ i \in 0..N
    BY <1>1
  <2>2. m \in SUBSET Cards
    BY <2>1
  <2> DEFINE free == (partners[ks[i]] \cap held) \ {c.p : c \in m}
  <2>3. free # {} => (CHOOSE p \in free : TRUE) \in partners[ks[i]]
    OBVIOUS
  <2>4. ks[i] \in ToSet(ks)
    BY <1>1 DEF ToSet
  <2>5. free # {} => [k |-> ks[i], p |-> CHOOSE p \in free : TRUE, by |-> by] \in Cards
    BY <2>3, <2>4
  <2>6. Claim(m, ks[i], held, partners, by) \in SUBSET Cards
    BY <2>2, <2>5 DEF Claim
  <2> QED BY <2>1, <2>2, <2>6
<1> DEFINE Is(F) == F = [i \in 0..N |-> IF i = 0 THEN cards ELSE Claim(F[i - 1], ks[i], held, partners, by)]
<1> HIDE DEF S, step
<1>4. PICK f : Recurses(f, N, step, cards, S)
  BY <1>1, <1>2, <1>3, RecursionExists
<1>5. \E F : Is(F)
  <2>1. ASSUME NEW i \in 1..N PROVE step[<<i, f[i - 1]>>] = Claim(f[i - 1], ks[i], held, partners, by)
    <3>1. i - 1 \in 0..N
      BY <1>1
    <3> QED BY <1>3, <1>4, <3>1 DEF Recurses
  <2>2. \A i \in 0..N : i = 0 \/ i \in 1..N
    BY <1>1
  <2>3. [i \in 0..N |-> IF i = 0 THEN cards ELSE step[<<i, f[i - 1]>>]]
          = [i \in 0..N |-> IF i = 0 THEN cards ELSE Claim(f[i - 1], ks[i], held, partners, by)]
    BY <2>1, <2>2
  <2>4. f = [i \in 0..N |-> IF i = 0 THEN cards ELSE step[<<i, f[i - 1]>>]]
    BY <1>4 DEF Recurses
  <2> QED BY <2>3, <2>4
<1> DEFINE F == CHOOSE F : Is(F)
<1>6. Is(F)
  BY <1>5
<1>7. Pass(cards, ks, held, partners, by) = F[N]
  BY DEF Pass
<1>8. F[0] = cards /\ \A i \in 1..N : F[i] = Claim(F[i - 1], ks[i], held, partners, by)
  <2> HIDE DEF F
  <2> QED BY <1>1, <1>6
<1> HIDE DEF F
<1>9. \A i \in 0..N : F[i] \in S[i]
  <2>1. F[0] \in S[0]
    BY <1>2, <1>8
  <2>2. \A i \in 1..N : F[i - 1] \in S[i - 1] => F[i] \in S[i]
    BY <1>3, <1>8
  <2> QED BY <1>1, <2>1, <2>2, Reaches
<1>10. N \in 0..N
  BY <1>1
<1> QED BY <1>7, <1>9, <1>10 DEF S

-----------------------------------------------------------------------------
(* What the parsers return.                                                *)

LEMMA ListFacts ==
  ASSUME NEW s, IsList(s)
  PROVE  Len(s) \in Nat /\ DOMAIN s = 1..Len(s) /\ s = [i \in 1..Len(s) |-> s[i]]
BY DEF IsList

LEMMA TableIsList ==
  ASSUME NEW n \in Nat, NEW s, DOMAIN s = 1..n, s = [i \in 1..n |-> s[i]]
  PROVE  Len(s) = n /\ IsList(s)
<1>1. \A i \in 1..n : s[i] \in ToSet(s)
  BY DEF ToSet
<1>2. s \in [1..n -> ToSet(s)]
  BY <1>1
<1> QED BY <1>2 DEF IsList

LEMMA OneOf ==
  ASSUME NEW x
  PROVE  ToSet(<<x>>) = {x} /\ ToSet(<<>>) = {}
BY DEF ToSet

LEMMA OneIsList ==
  ASSUME NEW A, NEW x \in A
  PROVE  <<x>> \in Seq(A) /\ <<>> \in Seq(A)
OBVIOUS

\* One market, or none.
AtMostOne(s) == s = <<>> \/ \E x : s = <<x>>

LEMMA BuiltKalshi ==
  ASSUME NEW m, NEW team
  PROVE  /\ AtMostOne(build_kalshi_market(m, team))
         /\ \A x \in ToSet(build_kalshi_market(m, team)) : x.ticker = m.ticker
BY OneOf DEF build_kalshi_market, AtMostOne

LEMMA NoneIsList == IsList(<<>>) /\ ToSet(<<>>) = {}
<1>1. \A S : <<>> \in Seq(S)
  OBVIOUS
<1> QED BY <1>1, OneOf DEF IsList

LEMMA OneIsRead ==
  ASSUME NEW s, AtMostOne(s)
  PROVE  IsList(s) /\ \A x, y \in ToSet(s) : x = y
<1>1. CASE s = <<>>
  BY <1>1, NoneIsList
<1>2. CASE s # <<>>
  <2>1. PICK x : s = <<x>>
    BY <1>2 DEF AtMostOne
  <2>2. ToSet(s) = {x}
    BY <2>1, OneOf
  <2>3. s \in Seq(ToSet(s))
    BY <2>1, <2>2, OneIsList
  <2> QED BY <2>2, <2>3 DEF IsList
<1> QED BY <1>1, <1>2

LEMMA FlattenLists ==
  ASSUME NEW n \in Nat, NEW ss, DOMAIN ss = 1..n, ss = [i \in 1..n |-> ss[i]],
         \A i \in 1..n : IsList(ss[i])
  PROVE  IsList(FlattenSeq(ss)) /\ ToSet(FlattenSeq(ss)) = UNION {ToSet(ss[i]) : i \in 1..n}
<1> DEFINE A == UNION {ToSet(ss[i]) : i \in 1..n}
<1>1. ASSUME NEW i \in 1..n PROVE ss[i] \in Seq(A)
  <2>1. ToSet(ss[i]) \subseteq A
    OBVIOUS
  <2>2. ss[i] \in Seq(ToSet(ss[i]))
    BY DEF IsList
  <2> HIDE DEF A
  <2> QED BY <2>1, <2>2
<1>2. ss \in Seq(Seq(A))
  BY <1>1
<1>3. FlattenSeq(ss) \in Seq(A) /\ ToSet(FlattenSeq(ss)) = UNION {ToSet(ss[i]) : i \in DOMAIN ss}
  BY <1>2, FlattenFacts
<1>4. ToSet(FlattenSeq(ss)) = A
  BY <1>3
<1> QED BY <1>3, <1>4 DEF IsList

LEMMA TwoMarkets ==
  ASSUME NEW e, NEW category, NEW names, NEW date, IsList(e.markets),
         DOMAIN names = DOMAIN e.markets, names = [i \in DOMAIN e.markets |-> names[i]]
  PROVE  LET read == TwoMarketEvent(e, category, names, date)
         IN  /\ AtMostOne(read)
             /\ \A k \in ToSet(read) : k.id = e.ticker
             /\ \A k \in ToSet(read) : \A x \in ToSet(k.markets) :
                  \E n \in ToSet(e.markets) : x.ticker = n.ticker
<1> DEFINE read == TwoMarketEvent(e, category, names, date)
           ms == build_kalshi_market(e.markets[1], names[1]) \o build_kalshi_market(e.markets[2], names[2])
           k == [id |-> e.ticker, name |-> event_name(category, names[1], names[2]), date |-> date,
                 markets |-> ms]
<1>1. CASE read = <<>>
  BY <1>1, OneOf DEF AtMostOne
<1>2. CASE read # <<>>
  <2>1. TwoNames(names) /\ read = <<k>>
    BY <1>2 DEF TwoMarketEvent, KalshiEvent
  <2>2. DOMAIN e.markets = 1..2
    <3>1. DOMAIN e.markets = 1..Len(e.markets) /\ Len(e.markets) \in Nat
      BY ListFacts
    <3>2. Len(names) = Len(e.markets)
      BY <3>1, TableIsList
    <3> QED BY <2>1, <3>1, <3>2 DEF TwoNames, Two
  <2>3. e.markets[1] \in ToSet(e.markets) /\ e.markets[2] \in ToSet(e.markets)
    BY <2>2 DEF ToSet
  <2> DEFINE s == build_kalshi_market(e.markets[1], names[1])
             t == build_kalshi_market(e.markets[2], names[2])
  <2>4. /\ AtMostOne(s) /\ \A x \in ToSet(s) : x.ticker = e.markets[1].ticker
        /\ AtMostOne(t) /\ \A x \in ToSet(t) : x.ticker = e.markets[2].ticker
    BY BuiltKalshi
  <2>5. s \in Seq(ToSet(s) \cup ToSet(t)) /\ t \in Seq(ToSet(s) \cup ToSet(t))
    <3> HIDE DEF s, t
    <3>1. ASSUME NEW r, AtMostOne(r) PROVE r \in Seq(ToSet(r))
      <4>1. CASE r = <<>>
        BY <4>1
      <4>2. CASE r # <<>>
        <5>1. PICK x : r = <<x>>
          BY <3>1, <4>2 DEF AtMostOne
        <5>2. x \in ToSet(r)
          BY <5>1, OneOf
        <5> QED BY <5>1, <5>2, OneIsList
      <4> QED BY <4>1, <4>2
    <3>2. s \in Seq(ToSet(s)) /\ t \in Seq(ToSet(t))
      BY <2>4, <3>1
    <3> QED BY <3>2
  <2>6. ToSet(ms) = ToSet(s) \cup ToSet(t)
    <3> HIDE DEF s, t
    <3> QED BY <2>5, JoinFacts DEF s, t
  <2>7. \A x \in ToSet(ms) : \E n \in ToSet(e.markets) : x.ticker = n.ticker
    <3> HIDE DEF s, t, ms
    <3> QED BY <2>3, <2>4, <2>6
  <2>8. ToSet(read) = {k} /\ k.id = e.ticker /\ k.markets = ms
    BY <2>1, OneOf
  <2> HIDE DEF ms
  <2> QED BY <2>1, <2>7, <2>8 DEF AtMostOne
<1> QED BY <1>1, <1>2

\* A Kalshi event is read once or not at all, and its markets are listed.
LEMMA KalshiReading ==
  ASSUME NEW e, IsList(e.markets)
  PROVE  /\ AtMostOne(parse_kalshi_event(e))
         /\ \A k \in ToSet(parse_kalshi_event(e)) : k.id = e.ticker
         /\ \A k \in ToSet(parse_kalshi_event(e)) : \A x \in ToSet(k.markets) :
              \E n \in ToSet(e.markets) : x.ticker = n.ticker
<1> DEFINE Proper(read) ==
             /\ AtMostOne(read)
             /\ \A k \in ToSet(read) : k.id = e.ticker
             /\ \A k \in ToSet(read) : \A x \in ToSet(k.markets) :
                  \E n \in ToSet(e.markets) : x.ticker = n.ticker
<1>1. Proper(<<>>)
  BY OneOf DEF AtMostOne
<1>2. Proper(parse_nba_event(e))
  <2>1. CASE e.codes = NoOne
    BY <1>1, <2>1 DEF parse_nba_event
  <2>2. CASE e.codes # NoOne
    <3> DEFINE ss == [i \in DOMAIN e.markets |->
                        build_kalshi_market(e.markets[i], e.markets[i].ticker[2])]
               k == [id |-> e.ticker, name |-> event_name("NBA", e.codes[1], e.codes[2]),
                     date |-> extract_event_start_time(e), markets |-> FlattenSeq(ss)]
    <3>1. parse_nba_event(e) = <<k>>
      BY <2>2 DEF parse_nba_event, KalshiEvent
    <3>2. Len(e.markets) \in Nat /\ DOMAIN e.markets = 1..Len(e.markets)
      BY ListFacts
    <3>3. \A i \in 1..Len(e.markets) : AtMostOne(ss[i])
      BY <3>2, BuiltKalshi
    <3>4. ToSet(FlattenSeq(ss)) = UNION {ToSet(ss[i]) : i \in 1..Len(e.markets)}
      <4>1. DOMAIN ss = 1..Len(e.markets) /\ ss = [i \in 1..Len(e.markets) |-> ss[i]]
        BY <3>2
      <4> HIDE DEF ss
      <4> QED BY <3>2, <3>3, <4>1, OneIsRead, FlattenLists
    <3>5. \A x \in ToSet(FlattenSeq(ss)) : \E n \in ToSet(e.markets) : x.ticker = n.ticker
      <4> SUFFICES ASSUME NEW i \in 1..Len(e.markets), NEW x \in ToSet(ss[i])
                   PROVE  \E n \in ToSet(e.markets) : x.ticker = n.ticker
        <5> HIDE DEF ss
        <5> QED BY <3>4
      <4>1. x.ticker = e.markets[i].ticker
        BY <3>2, BuiltKalshi
      <4>2. e.markets[i] \in ToSet(e.markets)
        BY <3>2 DEF ToSet
      <4> QED BY <4>1, <4>2
    <3> HIDE DEF ss
    <3>6. ToSet(parse_nba_event(e)) = {k}
      BY <3>1, OneOf
    <3> QED BY <3>1, <3>5, <3>6 DEF AtMostOne
  <2> QED BY <2>1, <2>2
<1>3. Proper(parse_tennis_event(e))
  <2> DEFINE names == Named(e.markets, extract_tennis_competitor)
  <2>1. DOMAIN names = DOMAIN e.markets /\ names = [i \in DOMAIN e.markets |-> names[i]]
    BY DEF Named
  <2> HIDE DEF names
  <2> QED BY <2>1, TwoMarkets DEF parse_tennis_event, names
<1>4. \A category : Proper(parse_team_game_event(e, category))
  <2> TAKE category
  <2> DEFINE team(m) == IF m.ticker[1] = e.ticker THEN canonical_team_code(category, m.ticker[2]) ELSE NoOne
             names == Named(e.markets, team)
  <2>1. DOMAIN names = DOMAIN e.markets /\ names = [i \in DOMAIN e.markets |-> names[i]]
    BY DEF Named
  <2>2. parse_team_game_event(e, category) = TwoMarketEvent(e, category, names, e.coded)
    BY DEF parse_team_game_event
  <2> HIDE DEF names
  <2> QED BY <2>1, <2>2, TwoMarkets
<1>5. Proper(parse_crypto_window_event(e))
  <2> DEFINE m == e.markets[1]
             ms == build_kalshi_market(m, "UP")
             k == [id |-> e.ticker, name |-> crypto_window_event_name(e.index, m.closes),
                   date |-> m.closes, markets |-> ms]
  <2>1. CASE parse_crypto_window_event(e) = <<>>
    BY <1>1, <2>1
  <2>2. CASE parse_crypto_window_event(e) # <<>>
    <3>1. Len(e.markets) = 1 /\ parse_crypto_window_event(e) = <<k>>
      BY <2>2 DEF parse_crypto_window_event, KalshiEvent
    <3>2. m \in ToSet(e.markets)
      BY <3>1, ListFacts DEF ToSet
    <3>3. \A x \in ToSet(ms) : x.ticker = m.ticker
      BY BuiltKalshi
    <3> HIDE DEF ms, m
    <3>4. ToSet(parse_crypto_window_event(e)) = {k}
      BY <3>1, OneOf
    <3> QED BY <3>1, <3>2, <3>3, <3>4 DEF AtMostOne
  <2> QED BY <2>1, <2>2
<1>6. parse_kalshi_event(e) \in {<<>>, parse_nba_event(e), parse_tennis_event(e),
                                 parse_team_game_event(e, e.category), parse_crypto_window_event(e)}
  BY DEF parse_kalshi_event
<1>7. Proper(parse_kalshi_event(e))
  <2> HIDE DEF Proper
  <2> QED BY <1>1, <1>2, <1>3, <1>4, <1>5, <1>6
<1> QED BY <1>7

\* What a category reads of one listed market.
ReadMarket(category, e, m) ==
  CASE category = "NBA" -> parse_nba_market(e, m)
    [] category = "TENNIS" -> parse_tennis_match_winner_market(e, m)
    [] category \in {"NHL", "MLB"} -> parse_team_game_market(category, e, m)
    [] category = "CRYPTO15" -> parse_crypto_window_market(e)

\* p is m with its sides under canonical names.
ReadsAs(category, m, p) ==
  /\ p.id = m.id /\ m.id # NoOne
  /\ TwoSided(m) =>
       LET one == SideName(category, m.sides[1].name)
           other == SideName(category, m.sides[2].name)
       IN  /\ one # other
           /\ p.teams = {one, other}
           /\ p.long = {IF m.sides[1].long THEN one ELSE other}

LEMMA Built ==
  ASSUME NEW m, NEW name, NEW teams, NEW long, NEW date
  PROVE  /\ AtMostOne(build_competitor_market(m, name, teams, long, date))
         /\ \A p \in ToSet(build_competitor_market(m, name, teams, long, date)) :
              p.id = m.id /\ m.id # NoOne /\ p.teams = teams /\ p.long = long
BY OneOf DEF build_competitor_market, AtMostOne

LEMMA TwoSides ==
  ASSUME NEW m, IsList(m.sides), TwoSided(m)
  PROVE  /\ DOMAIN m.sides = {1, 2} /\ ToSet(m.sides) = {m.sides[1], m.sides[2]}
         /\ m.sides[1].long \in BOOLEAN /\ m.sides[2].long = ~m.sides[1].long
         /\ {m.sides[1].is, m.sides[2].is} = {"a", "b"}
<1>1. DOMAIN m.sides = 1..2
  BY ListFacts DEF TwoSided, Two
<1>2. 1..2 = {1, 2}
  OBVIOUS
<1> QED BY <1>1, <1>2 DEF ToSet, TwoSided

\* Sides under other names, of a market of two sides.
LEMMA NormalisedSides ==
  ASSUME NEW m, NEW M, NEW one, NEW other, IsList(m.sides), TwoSided(m), one # other,
         DOMAIN M.sides = DOMAIN m.sides,
         M.sides[1].name = one, M.sides[1].long = m.sides[1].long,
         M.sides[2].name = other, M.sides[2].long = m.sides[2].long
  PROVE  /\ LongOf(M.sides) = {IF m.sides[1].long THEN one ELSE other}
         /\ ToSet(M.sides) = {M.sides[1], M.sides[2]}
<1>1. DOMAIN M.sides = {1, 2} /\ m.sides[1].long \in BOOLEAN /\ m.sides[2].long = ~m.sides[1].long
  BY TwoSides
<1>2. ToSet(M.sides) = {M.sides[1], M.sides[2]}
  BY <1>1 DEF ToSet
<1>3. CASE m.sides[1].long
  BY <1>1, <1>2, <1>3 DEF LongOf
<1>4. CASE ~m.sides[1].long
  BY <1>1, <1>2, <1>4 DEF LongOf
<1> QED BY <1>2, <1>3, <1>4

\* M is m with other names.
Renames(M, m) ==
  /\ IsList(m.outcomes) /\ IsList(m.sides) /\ M.id = m.id
  /\ DOMAIN M.outcomes = DOMAIN m.outcomes /\ M.outcomes = [i \in DOMAIN m.outcomes |-> M.outcomes[i]]
  /\ DOMAIN M.sides = DOMAIN m.sides
  /\ TwoSided(m) => M.sides[1].long = m.sides[1].long /\ M.sides[2].long = m.sides[2].long

LEMMA CompetitorSides ==
  ASSUME NEW m, NEW M, NEW category, NEW date, Renames(M, m)
  PROVE  LET one == M.sides[1].name
             other == M.sides[2].name
         IN  /\ AtMostOne(competitor_sides(M, category, date))
             /\ \A p \in ToSet(competitor_sides(M, category, date)) :
                  /\ p.id = m.id /\ m.id # NoOne
                  /\ TwoSided(m) => /\ one # other /\ p.teams = {one, other}
                                    /\ p.long = {IF m.sides[1].long THEN one ELSE other}
<1> DEFINE one == M.sides[1].name
           other == M.sides[2].name
<1> USE DEF Renames
<1>1. CASE competitor_sides(M, category, date) = <<>>
  BY <1>1, OneOf DEF AtMostOne
<1>2. CASE competitor_sides(M, category, date) # <<>>
  <2> DEFINE sides_of(t) == {i \in DOMAIN M.sides : M.sides[i].name = t}
             name == event_name(category, M.outcomes[1], M.outcomes[2])
             long == LongOf(M.sides) \cap ToSet(M.outcomes)
  <2>1. /\ TwoNames(M.outcomes)
        /\ \A t \in ToSet(M.outcomes) : \E i \in DOMAIN M.sides : sides_of(t) = {i}
        /\ competitor_sides(M, category, date) =
             build_competitor_market(M, name, ToSet(M.outcomes), long, date)
    BY <1>2 DEF competitor_sides
  <2> HIDE DEF name
  <2>2. /\ AtMostOne(competitor_sides(M, category, date))
        /\ \A p \in ToSet(competitor_sides(M, category, date)) :
              p.id = m.id /\ m.id # NoOne /\ p.teams = ToSet(M.outcomes) /\ p.long = long
    BY <2>1, Built
  <2>3. ASSUME TwoSided(m)
        PROVE  /\ one # other /\ ToSet(M.outcomes) = {one, other}
               /\ long = {IF m.sides[1].long THEN one ELSE other}
    <3>1. DOMAIN M.sides = {1, 2}
      BY <2>3, TwoSides
    <3>2. DOMAIN M.outcomes = {1, 2} /\ M.outcomes[1] # M.outcomes[2]
      <4>1. DOMAIN m.outcomes = 1..Len(m.outcomes) /\ Len(m.outcomes) \in Nat
        BY ListFacts
      <4>2. Len(M.outcomes) = Len(m.outcomes)
        BY <4>1, TableIsList
      <4>3. 1..2 = {1, 2}
        OBVIOUS
      <4> QED BY <2>1, <4>1, <4>2, <4>3 DEF TwoNames, Two
    <3>3. ToSet(M.outcomes) = {M.outcomes[1], M.outcomes[2]}
      BY <3>2 DEF ToSet
    <3>4. PICK i \in {1, 2}, j \in {1, 2} : sides_of(M.outcomes[1]) = {i} /\ sides_of(M.outcomes[2]) = {j}
      BY <2>1, <3>1, <3>3
    <3>5. M.sides[i].name = M.outcomes[1] /\ M.sides[j].name = M.outcomes[2]
      BY <3>4
    <3>6. one # other /\ ToSet(M.outcomes) = {one, other}
      BY <2>3, <3>2, <3>3, <3>5
    <3>7. LongOf(M.sides) = {IF m.sides[1].long THEN one ELSE other}
      BY <2>3, <3>6, NormalisedSides
    <3> QED BY <3>6, <3>7
  <2> HIDE DEF long
  <2> QED BY <2>2, <2>3
<1> QED BY <1>1, <1>2

LEMMA ReadOne ==
  ASSUME NEW category \in Categories, NEW e, NEW m, IsList(e.markets), m \in ToSet(e.markets),
         IsList(m.outcomes), IsList(m.sides), category = "CRYPTO15" => m = e.markets[1]
  PROVE  /\ AtMostOne(ReadMarket(category, e, m))
         /\ \A p \in ToSet(ReadMarket(category, e, m)) : ReadsAs(category, m, p)
<1> DEFINE Proper(read) == AtMostOne(read) /\ \A p \in ToSet(read) : ReadsAs(category, m, p)
           one == SideName(category, m.sides[1].name)
           other == SideName(category, m.sides[2].name)
<1>1. Proper(<<>>)
  BY OneOf DEF AtMostOne
<1>2. TwoSided(m) => 1 \in DOMAIN m.sides /\ 2 \in DOMAIN m.sides
  BY TwoSides
<1>3. ASSUME category = "NBA" PROVE Proper(parse_nba_market(e, m))
  <2> DEFINE M == Normalised(m, nba_outcome)
  <2>1. Renames(M, m)
    BY <1>2 DEF Renames, Normalised, Named
  <2>2. ASSUME TwoSided(m) PROVE M.sides[1].name = one /\ M.sides[2].name = other
    BY <1>2, <1>3, <2>2 DEF Normalised, SideName
  <2> HIDE DEF M
  <2> DEFINE read == competitor_sides(M, "NBA", e.slugdate)
  <2>3. /\ AtMostOne(read)
        /\ \A p \in ToSet(read) :
              /\ p.id = m.id /\ m.id # NoOne
              /\ TwoSided(m) => /\ one # other /\ p.teams = {one, other}
                                /\ p.long = {IF m.sides[1].long THEN one ELSE other}
    <3> HIDE DEF one, other
    <3> QED BY <2>1, <2>2, CompetitorSides
  <2>4. Proper(read)
    BY <2>3 DEF ReadsAs
  <2> QED BY <1>1, <2>4 DEF parse_nba_market, M
<1>4. ASSUME category = "TENNIS" PROVE Proper(parse_tennis_match_winner_market(e, m))
  <2> DEFINE M == Normalised(m, normalize_competitor_name)
  <2>1. Renames(M, m)
    BY <1>2 DEF Renames, Normalised, Named
  <2>2. ASSUME TwoSided(m) PROVE M.sides[1].name = one /\ M.sides[2].name = other
    BY <1>2, <1>4, <2>2 DEF Normalised, SideName
  <2> HIDE DEF M
  <2> DEFINE read == competitor_sides(M, "TENNIS", e.slugdate)
  <2>3. /\ AtMostOne(read)
        /\ \A p \in ToSet(read) :
              /\ p.id = m.id /\ m.id # NoOne
              /\ TwoSided(m) => /\ one # other /\ p.teams = {one, other}
                                /\ p.long = {IF m.sides[1].long THEN one ELSE other}
    <3> HIDE DEF one, other
    <3> QED BY <2>1, <2>2, CompetitorSides
  <2>4. Proper(read)
    BY <2>3 DEF ReadsAs
  <2> QED BY <1>1, <2>4 DEF parse_tennis_match_winner_market, M
<1>5. ASSUME category \in {"NHL", "MLB"} PROVE Proper(parse_team_game_market(category, e, m))
  <2> DEFINE code(s) == canonical_team_code(category, s)
             M == Normalised(m, code)
             sides == M.sides
             names == [i \in DOMAIN sides |-> sides[i].name]
             name == event_name(category, names[1], names[2])
             built == build_competitor_market(m, name, ToSet(names), LongOf(sides), e.slugdate)
  <2>1. CASE parse_team_game_market(category, e, m) = <<>>
    BY <1>1, <2>1
  <2>2. CASE parse_team_game_market(category, e, m) # <<>>
    <3>1. parse_team_game_market(category, e, m) = built /\ TwoNames(names)
      BY <2>2 DEF parse_team_game_market
    <3>2. DOMAIN M.sides = DOMAIN m.sides
      BY DEF Normalised
    <3>3. ASSUME TwoSided(m)
          PROVE  /\ M.sides[1].name = one /\ M.sides[1].long = m.sides[1].long
                 /\ M.sides[2].name = other /\ M.sides[2].long = m.sides[2].long
      BY <1>2, <1>5, <3>3 DEF Normalised, SideName
    <3>4. ASSUME TwoSided(m)
          PROVE  /\ one # other /\ ToSet(names) = {one, other}
                 /\ LongOf(sides) = {IF m.sides[1].long THEN one ELSE other}
      <4> HIDE DEF M
      <4>1. DOMAIN names = {1, 2} /\ names[1] = one /\ names[2] = other
        BY <3>2, <3>3, <3>4, TwoSides
      <4>2. names[1] # names[2]
        BY <3>1 DEF TwoNames
      <4>3. ToSet(names) = {names[1], names[2]}
        BY <4>1 DEF ToSet
      <4> HIDE DEF names
      <4>4. LongOf(sides) = {IF m.sides[1].long THEN one ELSE other}
        BY <3>2, <3>3, <3>4, <4>1, <4>2, NormalisedSides
      <4> QED BY <4>1, <4>2, <4>3, <4>4
    <3>5. AtMostOne(built) /\ \A p \in ToSet(built) :
             p.id = m.id /\ m.id # NoOne /\ p.teams = ToSet(names) /\ p.long = LongOf(sides)
      <4> HIDE DEF name, names, M
      <4> QED BY Built
    <3> HIDE DEF built, names, M
    <3> QED BY <3>1, <3>4, <3>5 DEF ReadsAs
  <2> QED BY <2>1, <2>2
<1>6. ASSUME category = "CRYPTO15" PROVE Proper(parse_crypto_window_market(e))
  <2> DEFINE name == crypto_window_event_name(e.index, e.ends)
             built == build_competitor_market(m, name, {"UP", "DOWN"}, {"UP"}, e.ends)
  <2>1. CASE parse_crypto_window_market(e) = <<>>
    BY <1>1, <2>1
  <2>2. CASE parse_crypto_window_market(e) # <<>>
    <3>1. /\ parse_crypto_window_market(e) = built
          /\ {<<s.name, s.long>> : s \in ToSet(m.sides)} = {<<"Yes", TRUE>>, <<"No", FALSE>>}
      BY <1>6, <2>2 DEF parse_crypto_window_market
    <3>2. ASSUME TwoSided(m)
          PROVE  /\ one # other /\ {"UP", "DOWN"} = {one, other}
                 /\ {"UP"} = {IF m.sides[1].long THEN one ELSE other}
      <4>1. ToSet(m.sides) = {m.sides[1], m.sides[2]}
        BY <3>2, TwoSides
      <4>2. {<<m.sides[1].name, m.sides[1].long>>, <<m.sides[2].name, m.sides[2].long>>}
              = {<<"Yes", TRUE>>, <<"No", FALSE>>}
        BY <3>1, <4>1
      <4>3. \/ /\ m.sides[1].name = "Yes" /\ m.sides[1].long = TRUE
               /\ m.sides[2].name = "No" /\ m.sides[2].long = FALSE
            \/ /\ m.sides[1].name = "No" /\ m.sides[1].long = FALSE
               /\ m.sides[2].name = "Yes" /\ m.sides[2].long = TRUE
        <5>1. <<m.sides[1].name, m.sides[1].long>> \in {<<"Yes", TRUE>>, <<"No", FALSE>>}
          BY <4>2
        <5>2. <<m.sides[2].name, m.sides[2].long>> \in {<<"Yes", TRUE>>, <<"No", FALSE>>}
          BY <4>2
        <5>3. m.sides[1].long \in BOOLEAN /\ m.sides[2].long = ~m.sides[1].long
          BY <3>2, TwoSides
        <5> QED BY <5>1, <5>2, <5>3
      <4>4. \A s : SideName(category, s) = IF s = "Yes" THEN "UP" ELSE "DOWN"
        BY <1>6 DEF SideName
      <4> QED BY <4>3, <4>4
    <3>3. AtMostOne(built) /\ \A p \in ToSet(built) :
             p.id = m.id /\ m.id # NoOne /\ p.teams = {"UP", "DOWN"} /\ p.long = {"UP"}
      <4> HIDE DEF name
      <4> QED BY Built
    <3> HIDE DEF built
    <3> QED BY <3>1, <3>2, <3>3 DEF ReadsAs
  <2> QED BY <2>1, <2>2
<1>7. category \in {"NBA", "TENNIS", "NHL", "MLB", "CRYPTO15"}
  BY DEF Categories, Feeds, SportFeeds, CRYPTO_WINDOW_SERIES, ToSet
<1> QED
  <2> HIDE DEF Proper
  <2>1. Proper(ReadMarket(category, e, m))
    BY <1>3, <1>4, <1>5, <1>6, <1>7 DEF ReadMarket
  <2> QED BY <2>1 DEF Proper

-----------------------------------------------------------------------------
(* What a catalogue reads as.                                              *)

LEMMA SeriesAreRead == \A s : ReadAs(s) \subseteq Categories
BY DEF ReadAs, Categories

LEMMA ListedGames ==
  ASSUME NEW c \in DOMAIN Catalogues
  PROVE  /\ DOMAIN Catalogues[c].poly = DOMAIN Catalogues[c].kalshi
         /\ IsFiniteSet(DOMAIN Catalogues[c].kalshi)
         /\ \A g \in DOMAIN Catalogues[c].kalshi :
              /\ IsList(Catalogues[c].kalshi[g].markets) /\ IsList(Catalogues[c].poly[g].markets)
              /\ \A m \in ToSet(Catalogues[c].poly[g].markets) : IsList(m.outcomes) /\ IsList(m.sides)
BY CataloguesAssumption DEF ListsAreLists

LEMMA PolyReading ==
  ASSUME NEW c \in DOMAIN Catalogues, NEW g \in DOMAIN Catalogues[c].poly, NEW category \in Categories
  PROVE  /\ IsList(PolyRead[c][g][category])
         /\ \A p \in ToSet(PolyRead[c][g][category]) : \E m \in ToSet(Catalogues[c].poly[g].markets) :
              p \in ToSet(ReadMarket(category, Catalogues[c].poly[g], m)) /\ ReadsAs(category, m, p)
         /\ \A m \in ToSet(Catalogues[c].poly[g].markets) :
              \/ category = "CRYPTO15" /\ m # Catalogues[c].poly[g].markets[1]
              \/ AtMostOne(ReadMarket(category, Catalogues[c].poly[g], m))
<1> DEFINE e == Catalogues[c].poly[g]
<1>1. /\ PolyRead[c][g][category] = parse_polymarket_event(category, e)
      /\ IsList(e.markets) /\ \A m \in ToSet(e.markets) : IsList(m.outcomes) /\ IsList(m.sides)
  BY ListedGames DEF PolyRead
<1> HIDE DEF e
<1>2. \A m \in ToSet(e.markets) : (category = "CRYPTO15" => m = e.markets[1]) =>
         /\ AtMostOne(ReadMarket(category, e, m))
         /\ \A p \in ToSet(ReadMarket(category, e, m)) : ReadsAs(category, m, p)
  BY <1>1, ReadOne
<1>3. Len(e.markets) \in Nat /\ DOMAIN e.markets = 1..Len(e.markets)
  BY <1>1, ListFacts
<1>4. CASE category = "CRYPTO15"
  <2>1. CASE Len(e.markets) # 1
    <3>1. PolyRead[c][g][category] = <<>>
      BY <1>1, <1>4, <2>1 DEF parse_polymarket_event, parse_crypto_window_market
    <3>2. \A m \in ToSet(e.markets) : (category = "CRYPTO15" /\ m # e.markets[1]) \/ AtMostOne(ReadMarket(category, e, m))
      BY <1>2
    <3> QED BY <3>1, <3>2, NoneIsList DEF e
  <2>2. CASE Len(e.markets) = 1
    <3>1. e.markets[1] \in ToSet(e.markets)
      BY <1>3, <2>2 DEF ToSet
    <3>2. PolyRead[c][g][category] = ReadMarket(category, e, e.markets[1])
      BY <1>1, <1>4 DEF parse_polymarket_event, ReadMarket
    <3> QED BY <1>2, <3>1, <3>2, OneIsRead DEF e
  <2> QED BY <2>1, <2>2
<1>5. CASE category # "CRYPTO15"
  <2> DEFINE ss == [i \in DOMAIN e.markets |-> ReadMarket(category, e, e.markets[i])]
  <2>1. PolyRead[c][g][category] = FlattenSeq(ss)
    <3>1. category \in {"NBA", "TENNIS", "NHL", "MLB"}
      BY <1>5 DEF Categories, Feeds, SportFeeds, CRYPTO_WINDOW_SERIES, ToSet
    <3>2. ss = [i \in DOMAIN e.markets |->
            CASE category = "NBA" -> parse_nba_market(e, e.markets[i])
              [] category = "TENNIS" -> parse_tennis_match_winner_market(e, e.markets[i])
              [] category \in {"NHL", "MLB"} -> parse_team_game_market(category, e, e.markets[i])
              [] OTHER -> <<>>]
      BY <3>1 DEF ReadMarket
    <3> HIDE DEF ss
    <3> QED BY <1>1, <1>5, <3>2 DEF parse_polymarket_event
  <2>2. \A i \in 1..Len(e.markets) : e.markets[i] \in ToSet(e.markets)
    BY <1>3 DEF ToSet
  <2>3. \A i \in 1..Len(e.markets) : IsList(ss[i])
    BY <1>2, <1>3, <1>5, <2>2, OneIsRead
  <2>4. IsList(FlattenSeq(ss)) /\ ToSet(FlattenSeq(ss)) = UNION {ToSet(ss[i]) : i \in 1..Len(e.markets)}
    <3>1. DOMAIN ss = 1..Len(e.markets) /\ ss = [i \in 1..Len(e.markets) |-> ss[i]]
      BY <1>3
    <3> HIDE DEF ss
    <3> QED BY <1>3, <2>3, <3>1, FlattenLists
  <2>5. ASSUME NEW p \in ToSet(FlattenSeq(ss))
        PROVE  \E m \in ToSet(e.markets) : p \in ToSet(ReadMarket(category, e, m)) /\ ReadsAs(category, m, p)
    <3>1. PICK i \in 1..Len(e.markets) : p \in ToSet(ss[i])
      <4> HIDE DEF ss
      <4> QED BY <2>4
    <3>2. ss[i] = ReadMarket(category, e, e.markets[i])
      BY <1>3
    <3> QED BY <1>2, <1>5, <2>2, <3>1, <3>2
  <2> HIDE DEF ss
  <2> QED BY <1>2, <1>5, <2>1, <2>4, <2>5 DEF e
<1> QED BY <1>4, <1>5

\* An event that is read, with the market and the category it is read of.
LEMMA ReadEvent ==
  ASSUME NEW c \in DOMAIN Catalogues, NEW g \in DOMAIN Catalogues[c].poly, NEW p \in PolyEvents(c, g)
  PROVE  \E category \in ReadAs(Catalogues[c].poly[g].series), m \in ToSet(Catalogues[c].poly[g].markets) :
            /\ p \in ToSet(PolyRead[c][g][category])
            /\ p \in ToSet(ReadMarket(category, Catalogues[c].poly[g], m))
            /\ ReadsAs(category, m, p) /\ TwoSided(m)
            /\ \A n \in ToSet(Catalogues[c].kalshi[g].markets), k \in KalshiEvents(c, g), s \in ToSet(m.sides) :
                 \A x \in ToSet(k.markets) :
                    x.ticker = n.ticker /\ x.team = SideName(category, s.name) => n.is = s.is
<1>1. PICK category \in ReadAs(Catalogues[c].poly[g].series) : p \in ToSet(PolyRead[c][g][category])
  BY DEF PolyEvents
<1>2. PICK m \in ToSet(Catalogues[c].poly[g].markets) :
        p \in ToSet(ReadMarket(category, Catalogues[c].poly[g], m)) /\ ReadsAs(category, m, p)
  BY <1>1, PolyReading, SeriesAreRead
<1>3. p.id = m.id
  BY <1>2 DEF ReadsAs
<1>4. SidesTellTheTruth(c)
  BY CataloguesAssumption
<1>5. /\ TwoSided(m)
      /\ \A s \in ToSet(m.sides), n \in ToSet(Catalogues[c].kalshi[g].markets), k \in KalshiEvents(c, g) :
            \A x \in ToSet(k.markets) :
                x.ticker = n.ticker /\ x.team = SideName(category, s.name) => n.is = s.is
  BY <1>2, <1>3, <1>4 DEF SidesTellTheTruth
<1> QED BY <1>1, <1>2, <1>5

\* An id is that of one event of one game.
LEMMA PolyIdentity ==
  ASSUME NEW c \in DOMAIN Catalogues, NEW g \in DOMAIN Catalogues[c].poly, NEW h \in DOMAIN Catalogues[c].poly,
         NEW p \in PolyEvents(c, g), NEW q \in PolyEvents(c, h), p.id = q.id
  PROVE  g = h /\ p = q
<1> DEFINE P == Catalogues[c].poly
<1>1. PICK x \in ReadAs(P[g].series), m \in ToSet(P[g].markets) :
        p \in ToSet(PolyRead[c][g][x]) /\ p \in ToSet(ReadMarket(x, P[g], m)) /\ ReadsAs(x, m, p)
  BY ReadEvent
<1>2. PICK y \in ReadAs(P[h].series), n \in ToSet(P[h].markets) :
        q \in ToSet(ReadMarket(y, P[h], n)) /\ ReadsAs(y, n, q)
  BY ReadEvent
<1>3. m.id = n.id /\ m.id # NoOne
  BY <1>1, <1>2 DEF ReadsAs
<1>4. g = h /\ m = n
  BY <1>3, CataloguesAssumption, ListedGames DEF NamesAreUnique
<1>5. x = y
  <2>1. SidesTellTheTruth(c)
    BY CataloguesAssumption
  <2> QED BY <1>4, <2>1 DEF SidesTellTheTruth
<1>6. ASSUME x = "CRYPTO15" PROVE p = q
  <2>1. AtMostOne(parse_crypto_window_market(P[g]))
    <3>1. parse_crypto_window_market(P[g]) = <<>> \/ Len(P[g].markets) = 1
      BY DEF parse_crypto_window_market
    <3>2. CASE Len(P[g].markets) = 1
      <4>1. IsList(P[g].markets) /\ \A o \in ToSet(P[g].markets) : IsList(o.outcomes) /\ IsList(o.sides)
        BY ListedGames
      <4>2. P[g].markets[1] \in ToSet(P[g].markets)
        BY <3>2, <4>1, ListFacts DEF ToSet
      <4>3. AtMostOne(ReadMarket(x, P[g], P[g].markets[1]))
        BY <4>1, <4>2, ReadOne, SeriesAreRead
      <4> QED BY <1>6, <4>3 DEF ReadMarket
    <3> QED BY <3>1, <3>2 DEF AtMostOne
  <2> QED BY <1>1, <1>2, <1>4, <1>5, <1>6, <2>1, OneIsRead DEF ReadMarket
<1>7. ASSUME x # "CRYPTO15" PROVE p = q
  <2>1. AtMostOne(ReadMarket(x, P[g], m))
    BY <1>7, PolyReading, SeriesAreRead
  <2> QED BY <1>1, <1>2, <1>4, <1>5, <2>1, OneIsRead
<1> QED BY <1>4, <1>6, <1>7

\* An event id is that of one event of one game.
LEMMA KalshiIdentity ==
  ASSUME NEW c \in DOMAIN Catalogues, NEW g \in DOMAIN Catalogues[c].kalshi, NEW h \in DOMAIN Catalogues[c].kalshi,
         NEW k \in KalshiEvents(c, g), NEW l \in KalshiEvents(c, h), g = h \/ k = l
  PROVE  g = h /\ k = l
<1> DEFINE K == Catalogues[c].kalshi
<1>1. KalshiEvents(c, g) = ToSet(parse_kalshi_event(K[g])) /\ KalshiEvents(c, h) = ToSet(parse_kalshi_event(K[h]))
  BY DEF KalshiEvents, KalshiRead
<1>2. k.id = K[g].ticker /\ l.id = K[h].ticker
  BY <1>1, ListedGames, KalshiReading
<1>3. k = l => g = h
  BY <1>2, CataloguesAssumption DEF NamesAreUnique
<1>4. g = h => k = l
  BY <1>1, ListedGames, KalshiReading, OneIsRead
<1> QED BY <1>3, <1>4

LEMMA KMarketIs ==
  ASSUME catalogue \in DOMAIN Catalogues, NEW g \in Games, NEW k \in KalshiEvents(catalogue, g),
         NEW x \in ToSet(k.markets)
  PROVE  /\ x.ticker \in Tickers /\ KMarket(x.ticker).game = g
         /\ \E n \in ToSet(Catalogues[catalogue].kalshi[g].markets) :
              n.ticker = x.ticker /\ KMarket(x.ticker).is = n.is
<1> DEFINE K == Catalogues[catalogue].kalshi
           t == x.ticker
           Row(h, m) == [game |-> h, ticker |-> m.ticker, is |-> m.is]
           Read(h) == {m \in ToSet(K[h].markets) :
                         \E e \in KalshiEvents(catalogue, h) : \E o \in ToSet(e.markets) : o.ticker = m.ticker}
<1>1. KalshiMarkets[catalogue] = UNION {{Row(h, m) : m \in Read(h)} : h \in DOMAIN K}
  BY DEF KalshiMarkets
<1>2. g \in DOMAIN K
  BY DEF Games
<1>3. PICK n \in ToSet(K[g].markets) : t = n.ticker
  <2>1. KalshiEvents(catalogue, g) = ToSet(parse_kalshi_event(K[g]))
    BY <1>2 DEF KalshiEvents, KalshiRead
  <2> QED BY <1>2, <2>1, ListedGames, KalshiReading
<1>4. n \in Read(g)
  BY <1>3
<1>5. Row(g, n) \in KalshiMarkets[catalogue] /\ Row(g, n).ticker = t
  BY <1>1, <1>2, <1>3, <1>4
<1>6. ASSUME NEW r \in KalshiMarkets[catalogue], r.ticker = t PROVE r.game = g /\ r.is = n.is
  <2>1. PICK h \in DOMAIN K : \E m \in Read(h) : r = Row(h, m)
    BY <1>1
  <2>2. PICK m \in Read(h) : r = Row(h, m)
    BY <2>1
  <2>3. m \in ToSet(K[h].markets) /\ m.ticker = n.ticker
    BY <1>3, <1>6, <2>2
  <2>4. h = g /\ m.is = n.is
    BY <1>2, <1>3, <2>3, CataloguesAssumption DEF NamesAreUnique
  <2> QED BY <2>2, <2>4
<1>7. KMarket(t) \in KalshiMarkets[catalogue] /\ KMarket(t).ticker = t
  BY <1>5 DEF KMarket
<1>8. t \in Tickers
  BY <1>5 DEF Tickers
<1> QED BY <1>3, <1>6, <1>7, <1>8

LEMMA PMarketIs ==
  ASSUME catalogue \in DOMAIN Catalogues, NEW g \in Games, NEW p \in PolyEvents(catalogue, g)
  PROVE  /\ p.id \in Ids /\ PMarket(p.id).game = g /\ PMarket(p.id).market = p
         /\ \E m \in ToSet(Catalogues[catalogue].poly[g].markets) :
              m.id = p.id /\ m.id # NoOne /\ PMarket(p.id).is = LongPays(m)
<1> DEFINE P == Catalogues[catalogue].poly
           Row(h, e, m) == [game |-> h, id |-> m.id, market |-> e, is |-> LongPays(m)]
           Read(h, e) == {m \in ToSet(P[h].markets) : m.id = e.id}
<1>1. PolyMarkets[catalogue] =
        UNION {UNION {{Row(h, e, m) : m \in Read(h, e)} : e \in PolyEvents(catalogue, h)} : h \in DOMAIN P}
  BY DEF PolyMarkets
<1>2. g \in DOMAIN P
  BY ListedGames DEF Games
<1>3. PICK n \in ToSet(P[g].markets) : n.id = p.id /\ n.id # NoOne
  BY <1>2, ReadEvent DEF ReadsAs
<1>4. n \in Read(g, p)
  BY <1>3
<1>5. Row(g, p, n) \in PolyMarkets[catalogue] /\ Row(g, p, n).id = p.id
  BY <1>1, <1>2, <1>3, <1>4
<1>6. ASSUME NEW r \in PolyMarkets[catalogue], r.id = p.id
      PROVE  r.game = g /\ r.market = p /\ r.is = LongPays(n)
  <2>1. PICK h \in DOMAIN P : \E e \in PolyEvents(catalogue, h) : \E m \in Read(h, e) : r = Row(h, e, m)
    BY <1>1
  <2>2. PICK e \in PolyEvents(catalogue, h) : \E m \in Read(h, e) : r = Row(h, e, m)
    BY <2>1
  <2>3. PICK m \in Read(h, e) : r = Row(h, e, m)
    BY <2>2
  <2>4. m \in ToSet(P[h].markets) /\ m.id = n.id /\ e.id = p.id
    BY <1>3, <1>6, <2>3
  <2>5. h = g /\ e = p
    BY <1>2, <2>4, PolyIdentity
  <2>6. m = n
    BY <1>2, <1>3, <2>4, <2>5, CataloguesAssumption, ListedGames DEF NamesAreUnique
  <2> QED BY <2>3, <2>5, <2>6
<1>7. PMarket(p.id) \in PolyMarkets[catalogue] /\ PMarket(p.id).id = p.id
  BY <1>5 DEF PMarket
<1>8. p.id \in Ids
  BY <1>5 DEF Ids
<1> QED BY <1>3, <1>6, <1>7, <1>8

\* A competitor of a Polymarket event whose Kalshi market is of the same game: the
\* derived side pays when the Kalshi side does not.
LEMMA SidesHedge ==
  ASSUME catalogue \in DOMAIN Catalogues, NEW g \in Games,
         NEW k \in KalshiEvents(catalogue, g), NEW x \in ToSet(k.markets),
         NEW p \in PolyEvents(catalogue, g), x.team \in p.teams,
         NEW m, m.poly = p.id, m.team = x.team, NEW s \in {"yes", "no"},
         NEW leg, leg.ticker = x.ticker, leg.side = s,
         NEW pleg, pleg.poly = p.id, pleg.pside = HedgeSide(m, s)
  PROVE  Hedged(leg, pleg)
<1> DEFINE P == Catalogues[catalogue].poly
           K == Catalogues[catalogue].kalshi
<1>1. g \in DOMAIN P /\ g \in DOMAIN K
  BY ListedGames DEF Games
<1>2. PICK n \in ToSet(K[g].markets) :
        n.ticker = x.ticker /\ KMarket(x.ticker).game = g /\ KMarket(x.ticker).is = n.is
  BY KMarketIs
<1>3. PICK category \in ReadAs(P[g].series), o \in ToSet(P[g].markets) :
        /\ ReadsAs(category, o, p) /\ TwoSided(o)
        /\ \A i \in ToSet(K[g].markets), l \in KalshiEvents(catalogue, g), z \in ToSet(o.sides) :
             \A y \in ToSet(l.markets) : y.ticker = i.ticker /\ y.team = SideName(category, z.name) => i.is = z.is
  BY <1>1, ReadEvent
<1>4. PMarket(p.id).game = g /\ PMarket(p.id).market = p /\ PMarket(p.id).is = LongPays(o)
  <2>1. PICK q \in ToSet(P[g].markets) : q.id = p.id /\ q.id # NoOne /\ PMarket(p.id).is = LongPays(q)
    BY PMarketIs
  <2>2. q = o
    BY <1>1, <1>3, <2>1, CataloguesAssumption DEF NamesAreUnique, ReadsAs
  <2> QED BY <2>1, <2>2, PMarketIs
<1> DEFINE one == SideName(category, o.sides[1].name)
           other == SideName(category, o.sides[2].name)
           is1 == o.sides[1].is
           is2 == o.sides[2].is
           long1 == o.sides[1].long
<1>5. IsList(o.sides)
  BY <1>1, ListedGames
<1>6. /\ ToSet(o.sides) = {o.sides[1], o.sides[2]} /\ {is1, is2} = {"a", "b"}
      /\ long1 \in BOOLEAN /\ o.sides[2].long = ~long1
  BY <1>3, <1>5, TwoSides
<1>7. LongPays(o) = IF long1 THEN is1 ELSE is2
  <2> DEFINE q == CHOOSE z \in ToSet(o.sides) : z.long
  <2>1. q \in ToSet(o.sides) /\ q.long
    <3>1. \E z \in ToSet(o.sides) : z.long
      BY <1>6
    <3> QED BY <3>1
  <2>2. q.is = IF long1 THEN is1 ELSE is2
    <3> HIDE DEF q
    <3> QED BY <1>6, <2>1
  <2> QED BY <2>2 DEF LongPays
<1>8. one # other /\ p.teams = {one, other} /\ p.long = {IF long1 THEN one ELSE other}
  BY <1>3 DEF ReadsAs
<1>9. n.is = IF x.team = one THEN is1 ELSE is2
  BY <1>2, <1>3, <1>6, <1>8
<1> DEFINE opp == get_opponent(p, x.team)
<1>10. opp = IF x.team = one THEN other ELSE one
  <2>1. \A z : z \in p.teams \ {x.team} <=> z = IF x.team = one THEN other ELSE one
    BY <1>8
  <2>2. opp \in p.teams \ {x.team}
    BY <2>1 DEF get_opponent
  <2> QED BY <2>1, <2>2
<1>11. HedgeSide(m, s) = IF (IF s = "yes" THEN opp ELSE x.team) \in p.long THEN "long" ELSE "short"
  BY <1>4 DEF HedgeSide, us_execution_for_competitor
<1> HIDE DEF opp, one, other, long1
<1>12. SUFFICES ASSUME NEW winner \in [Games -> {"a", "b"}], ~KPays(leg, winner) PROVE PPays(pleg, winner)
  BY DEF Hedged
<1>13. KPays(leg, winner) <=> ((winner[g] = n.is) <=> (s = "yes"))
  BY <1>2 DEF KPays
<1>14. PPays(pleg, winner) <=> ((winner[g] = LongPays(o)) <=> (HedgeSide(m, s) = "long"))
  BY <1>4 DEF PPays
<1>15. winner[g] \in {is1, is2} /\ is1 # is2
  BY <1>6
<1> HIDE DEF is1, is2
<1>16. x.team = one \/ x.team = other
  BY <1>8
<1>17. CASE s = "yes"
  BY <1>6, <1>7, <1>8, <1>9, <1>10, <1>11, <1>12, <1>13, <1>14, <1>15, <1>16, <1>17
<1>18. CASE s = "no"
  BY <1>6, <1>7, <1>8, <1>9, <1>10, <1>11, <1>12, <1>13, <1>14, <1>15, <1>16, <1>18
<1> QED BY <1>17, <1>18

-----------------------------------------------------------------------------
(* What a scan reads.                                                      *)

LEMMA EachOnce ==
  ASSUME NEW S, IsFiniteSet(S), NEW s \in SetToSeqs(S)
  PROVE  /\ Cardinality(S) \in Nat /\ DOMAIN s = 1..Cardinality(S)
         /\ s = [i \in 1..Cardinality(S) |-> s[i]]
         /\ \A i \in DOMAIN s : s[i] \in S
         /\ \A x \in S : \E i \in DOMAIN s : s[i] = x
<1> DEFINE n == Cardinality(S)
<1>1. n \in Nat
  BY FS_CardinalityType
<1>2. s \in [1..n -> S] /\ \A i, j \in 1..n : i # j => s[i] # s[j]
  BY DEF SetToSeqs
<1>3. s \in Injection(1..n, S)
  BY <1>2 DEF Injection, IsInjective
<1>4. Cardinality(1..n) = n
  BY <1>1, FS_Interval
<1>5. s \in Surjection(1..n, S)
  BY <1>3, <1>4, FS_Injection
<1> QED BY <1>1, <1>2, <1>5 DEF Surjection

\* What the exchanges list of each game, one after the other.
LEMMA ReadInOrder ==
  ASSUME NEW S, IsFiniteSet(S), NEW s \in SetToSeqs(S), NEW read, \A g \in S : IsList(read[g])
  PROVE  LET all == FlattenSeq([i \in DOMAIN s |-> read[s[i]]])
         IN  IsList(all) /\ \A x : x \in ToSet(all) <=> \E g \in S : x \in ToSet(read[g])
<1> DEFINE n == Cardinality(S)
           ss == [i \in DOMAIN s |-> read[s[i]]]
<1>1. /\ n \in Nat /\ DOMAIN s = 1..n
      /\ \A i \in DOMAIN s : s[i] \in S
      /\ \A x \in S : \E i \in DOMAIN s : s[i] = x
  BY EachOnce
<1>2. DOMAIN ss = 1..n /\ ss = [i \in 1..n |-> ss[i]] /\ \A i \in 1..n : ss[i] = read[s[i]]
  BY <1>1
<1> HIDE DEF ss
<1>3. \A i \in 1..n : IsList(ss[i])
  BY <1>1, <1>2
<1>4. IsList(FlattenSeq(ss)) /\ ToSet(FlattenSeq(ss)) = UNION {ToSet(ss[i]) : i \in 1..n}
  BY <1>1, <1>2, <1>3, FlattenLists
<1>5. \A x : x \in ToSet(FlattenSeq(ss)) <=> \E i \in 1..n : x \in ToSet(ss[i])
  BY <1>4
<1>6. \A x : x \in ToSet(FlattenSeq(ss)) <=> \E g \in S : x \in ToSet(read[g])
  BY <1>1, <1>2, <1>5
<1> QED BY <1>4, <1>6 DEF ss

LEMMA KalshiList ==
  ASSUME catalogue \in DOMAIN Catalogues, kopen \subseteq Games, NEW ks \in SetToSeqs(kopen)
  PROVE  LET kalshi == FlattenSeq([i \in DOMAIN ks |-> KalshiRead[catalogue][ks[i]]])
         IN  IsList(kalshi) /\ \A k : k \in ToSet(kalshi) <=> \E g \in kopen : k \in KalshiEvents(catalogue, g)
<1>1. IsFiniteSet(kopen)
  BY ListedGames, FS_Subset DEF Games
<1>2. \A g \in kopen : IsList(KalshiRead[catalogue][g])
  <2> TAKE g \in kopen
  <2>1. g \in DOMAIN Catalogues[catalogue].kalshi
    BY DEF Games
  <2>2. KalshiRead[catalogue][g] = parse_kalshi_event(Catalogues[catalogue].kalshi[g])
    BY <2>1 DEF KalshiRead
  <2> QED BY <2>1, <2>2, ListedGames, KalshiReading, OneIsRead
<1> DEFINE read == KalshiRead[catalogue]
<1>3. LET all == FlattenSeq([i \in DOMAIN ks |-> read[ks[i]]])
      IN  IsList(all) /\ \A x : x \in ToSet(all) <=> \E g \in kopen : x \in ToSet(read[g])
  <2> HIDE DEF read
  <2> QED BY <1>1, <1>2, ReadInOrder DEF read
<1> QED BY <1>3 DEF KalshiEvents

\* What each series reads as in each category.
SeriesLists(ps) ==
  [category \in Categories |-> [series \in Range(Series) |->
      FlattenSeq([i \in DOMAIN ps |->
          IF Catalogues[catalogue].poly[ps[i]].series = series
          THEN PolyRead[catalogue][ps[i]][category] ELSE <<>>])]]

LEMMA SeriesListFacts ==
  ASSUME catalogue \in DOMAIN Catalogues, popen \subseteq Games, NEW ps \in SetToSeqs(popen),
         NEW category \in Categories, NEW series \in Range(Series)
  PROVE  /\ IsList(SeriesLists(ps)[category][series])
         /\ \A p : p \in ToSet(SeriesLists(ps)[category][series]) <=>
              \E g \in popen : /\ Catalogues[catalogue].poly[g].series = series
                               /\ p \in ToSet(PolyRead[catalogue][g][category])
<1> DEFINE P == Catalogues[catalogue].poly
           read == [g \in popen |-> IF P[g].series = series THEN PolyRead[catalogue][g][category] ELSE <<>>]
           all == FlattenSeq([i \in DOMAIN ps |-> read[ps[i]]])
<1>1. IsFiniteSet(popen)
  BY ListedGames, FS_Subset DEF Games
<1>2. \A g \in popen : IsList(read[g])
  BY PolyReading, ListedGames, NoneIsList DEF Games
<1>3. IsList(all) /\ \A x : x \in ToSet(all) <=> \E g \in popen : x \in ToSet(read[g])
  <2> HIDE DEF read
  <2> QED BY <1>1, <1>2, ReadInOrder
<1>4. SeriesLists(ps)[category][series] = all
  <2>1. \A i \in DOMAIN ps : ps[i] \in popen
    BY <1>1, EachOnce
  <2>2. [i \in DOMAIN ps |-> read[ps[i]]]
          = [i \in DOMAIN ps |-> IF P[ps[i]].series = series THEN PolyRead[catalogue][ps[i]][category] ELSE <<>>]
    BY <2>1
  <2> QED BY <2>2 DEF SeriesLists
<1>5. \A g \in popen : \A x : x \in ToSet(read[g]) <=> P[g].series = series /\ x \in ToSet(PolyRead[catalogue][g][category])
  BY NoneIsList
<1> HIDE DEF all, read
<1> QED BY <1>3, <1>4, <1>5

LEMMA FeedsAreLists ==
  /\ IsList(SportFeeds) /\ IsList(CRYPTO_WINDOW_SERIES)
  /\ ToSet(SportFeeds) \subseteq ToSet(Feeds) /\ ToSet(CRYPTO_WINDOW_SERIES) \subseteq ToSet(Feeds)
<1> DEFINE A == {<<"nba", "NBA">>, <<"nhl", "NHL">>, <<"mlb", "MLB">>, <<"atp", "TENNIS">>,
                 <<"wta", "TENNIS">>, <<"btc", "CRYPTO15">>, <<"eth", "CRYPTO15">>, <<"sol", "CRYPTO15">>}
<1>1. SportFeeds \in Seq(A) /\ CRYPTO_WINDOW_SERIES \in Seq(A)
  <2>2. /\ <<"nba", "NBA">> \in A /\ <<"nhl", "NHL">> \in A /\ <<"mlb", "MLB">> \in A
        /\ <<"atp", "TENNIS">> \in A /\ <<"wta", "TENNIS">> \in A
        /\ <<"btc", "CRYPTO15">> \in A /\ <<"eth", "CRYPTO15">> \in A /\ <<"sol", "CRYPTO15">> \in A
    OBVIOUS
  <2> HIDE DEF A
  <2>3. \A t, u, v, w, x \in A : <<t, u, v, w, x>> \in Seq(A) /\ <<t, u, v>> \in Seq(A)
    OBVIOUS
  <2> QED BY <2>2, <2>3 DEF SportFeeds, CRYPTO_WINDOW_SERIES
<1>2. ToSet(Feeds) = ToSet(SportFeeds) \cup ToSet(CRYPTO_WINDOW_SERIES)
  <2> HIDE DEF A
  <2> QED BY <1>1, JoinFacts DEF Feeds
<1>3. ASSUME NEW s \in Seq(A) PROVE IsList(s)
  <2>1. \A i \in 1..Len(s) : s[i] \in ToSet(s)
    BY DEF ToSet
  <2> QED BY <2>1 DEF IsList
<1> QED BY <1>1, <1>2, <1>3

\* Whatever is fetched is one of the series that some feed reads, all of it.
LEMMA FetchedFacts ==
  ASSUME NEW fails, NEW parsed,
         \A category \in Categories, series \in Range(Series) : IsList(parsed[category][series])
  PROVE  LET E == get_supported_events_and_markets(Series, fails, parsed).events
         IN  /\ IsList(E)
             /\ \A e \in ToSet(E) : \E category \in Categories, series \in Range(Series) :
                  /\ category \in ReadAs(series)
                  /\ e \in ToSet(parsed[category][series])
                  /\ ToSet(parsed[category][series]) \subseteq ToSet(E)
<1> DEFINE sport(i) == append_series_events_and_markets(i, Series, fails, parsed)
           crypto(i) == get_crypto_window_events_and_markets(CRYPTO_WINDOW_SERIES[i][1], Series, fails, parsed)
           Whole(s) == \/ s = <<>>
                       \/ \E category \in Categories, series \in Range(Series) :
                            category \in ReadAs(series) /\ s = parsed[category][series]
           A == [i \in DOMAIN SportFeeds |-> sport(i)]
           B == [i \in DOMAIN CRYPTO_WINDOW_SERIES |-> crypto(i)]
           E == get_supported_events_and_markets(Series, fails, parsed).events
<1>1. E = FlattenSeq(A) \o FlattenSeq(B)
  BY DEF get_supported_events_and_markets
<1>2. DOMAIN SportFeeds = 1..5 /\ DOMAIN CRYPTO_WINDOW_SERIES = 1..3
  <2>1. Len(SportFeeds) = 5 /\ Len(CRYPTO_WINDOW_SERIES) = 3
    BY DEF SportFeeds, CRYPTO_WINDOW_SERIES
  <2> QED BY <2>1, FeedsAreLists, ListFacts
<1>3. /\ \A i \in 1..5 : SportFeeds[i] \in ToSet(Feeds)
      /\ \A i \in 1..3 : CRYPTO_WINDOW_SERIES[i] \in ToSet(Feeds) /\ CRYPTO_WINDOW_SERIES[i][2] = "CRYPTO15"
  <2>1. \A i \in 1..3 : CRYPTO_WINDOW_SERIES[i][2] = "CRYPTO15"
    BY DEF CRYPTO_WINDOW_SERIES
  <2> QED BY <1>2, <2>1, FeedsAreLists DEF ToSet
<1>4. ASSUME NEW f \in ToSet(Feeds), f[1] \in DOMAIN Series
      PROVE  f[2] \in Categories /\ Series[f[1]] \in Range(Series) /\ f[2] \in ReadAs(Series[f[1]])
  BY <1>4 DEF Categories, ReadAs, Range
<1>5. \A i \in 1..5 : Whole(sport(i))
  BY <1>3, <1>4 DEF append_series_events_and_markets, Fetched
<1>6. \A i \in 1..3 : Whole(crypto(i))
  BY <1>3, <1>4 DEF get_crypto_window_events_and_markets
<1>7. \A s : Whole(s) => IsList(s)
  BY NoneIsList
<1>8. DOMAIN A = 1..5 /\ A = [i \in 1..5 |-> A[i]] /\ \A i \in 1..5 : Whole(A[i])
  BY <1>2, <1>5
<1>9. DOMAIN B = 1..3 /\ B = [i \in 1..3 |-> B[i]] /\ \A i \in 1..3 : Whole(B[i])
  BY <1>2, <1>6
<1> HIDE DEF A, B, Whole
<1>10. IsList(FlattenSeq(A)) /\ ToSet(FlattenSeq(A)) = UNION {ToSet(A[i]) : i \in 1..5}
  BY <1>7, <1>8, FlattenLists
<1>11. IsList(FlattenSeq(B)) /\ ToSet(FlattenSeq(B)) = UNION {ToSet(B[i]) : i \in 1..3}
  BY <1>7, <1>9, FlattenLists
<1>12. IsList(E) /\ ToSet(E) = ToSet(FlattenSeq(A)) \cup ToSet(FlattenSeq(B))
  <2> DEFINE S == ToSet(FlattenSeq(A)) \cup ToSet(FlattenSeq(B))
  <2>1. FlattenSeq(A) \in Seq(S) /\ FlattenSeq(B) \in Seq(S)
    BY <1>10, <1>11 DEF IsList
  <2>2. E \in Seq(S) /\ ToSet(E) = S
    <3> HIDE DEF S
    <3>1. E \in Seq(S) /\ ToSet(E) = ToSet(FlattenSeq(A)) \cup ToSet(FlattenSeq(B))
      BY <1>1, <2>1, JoinFacts
    <3> QED BY <3>1 DEF S
  <2> QED BY <2>2 DEF IsList
<1>13. ASSUME NEW e \in ToSet(E)
       PROVE  \E s : Whole(s) /\ e \in ToSet(s) /\ ToSet(s) \subseteq ToSet(E)
  <2>1. CASE e \in ToSet(FlattenSeq(A))
    <3>1. PICK i \in 1..5 : e \in ToSet(A[i])
      BY <1>10, <2>1
    <3>2. ToSet(A[i]) \subseteq ToSet(E)
      BY <1>10, <1>12
    <3> QED BY <1>8, <3>1, <3>2
  <2>2. CASE e \in ToSet(FlattenSeq(B))
    <3>1. PICK i \in 1..3 : e \in ToSet(B[i])
      BY <1>11, <2>2
    <3>2. ToSet(B[i]) \subseteq ToSet(E)
      BY <1>11, <1>12
    <3> QED BY <1>9, <3>1, <3>2
  <2> QED BY <1>12, <2>1, <2>2
<1> HIDE DEF E
<1>14. \A e \in ToSet(E) : \E category \in Categories, series \in Range(Series) :
                  /\ category \in ReadAs(series)
                  /\ e \in ToSet(parsed[category][series])
                  /\ ToSet(parsed[category][series]) \subseteq ToSet(E)
  BY <1>13, NoneIsList DEF Whole
<1> QED BY <1>12, <1>14 DEF E

\* The Polymarket events of a scan are of open games; and where one event of a
\* series is read, all events of the series are.
LEMMA PolyList ==
  ASSUME catalogue \in DOMAIN Catalogues, popen \subseteq Games, NEW ps \in SetToSeqs(popen), NEW fails
  PROVE  LET E == get_supported_events_and_markets(Series, fails, SeriesLists(ps)).events
             P == Catalogues[catalogue].poly
         IN  /\ IsList(E)
             /\ \A e \in ToSet(E) : \E h \in popen :
                  /\ e \in PolyEvents(catalogue, h)
                  /\ \A g \in popen : P[g].series = P[h].series => PolyEvents(catalogue, g) \subseteq ToSet(E)
<1> DEFINE E == get_supported_events_and_markets(Series, fails, SeriesLists(ps)).events
           P == Catalogues[catalogue].poly
<1>1. \A category \in Categories, series \in Range(Series) : IsList(SeriesLists(ps)[category][series])
  BY SeriesListFacts
<1>2. /\ IsList(E)
      /\ \A e \in ToSet(E) : \E category \in Categories, series \in Range(Series) :
                  /\ category \in ReadAs(series)
                  /\ e \in ToSet(SeriesLists(ps)[category][series])
                  /\ ToSet(SeriesLists(ps)[category][series]) \subseteq ToSet(E)
  BY <1>1, FetchedFacts
<1> HIDE DEF E
<1>3. ASSUME NEW e \in ToSet(E)
      PROVE  \E h \in popen : /\ e \in PolyEvents(catalogue, h)
                              /\ \A g \in popen : P[g].series = P[h].series => PolyEvents(catalogue, g) \subseteq ToSet(E)
  <2>1. PICK category \in Categories, series \in Range(Series) :
           /\ category \in ReadAs(series)
           /\ e \in ToSet(SeriesLists(ps)[category][series])
           /\ ToSet(SeriesLists(ps)[category][series]) \subseteq ToSet(E)
    BY <1>2
  <2>2. PICK h \in popen : P[h].series = series /\ e \in ToSet(PolyRead[catalogue][h][category])
    BY <2>1, SeriesListFacts
  <2>3. e \in PolyEvents(catalogue, h)
    BY <2>1, <2>2 DEF PolyEvents
  <2>4. ASSUME NEW g \in popen, P[g].series = P[h].series, NEW q \in PolyEvents(catalogue, g)
        PROVE  q \in ToSet(E)
    <3>1. ReadAs(P[g].series) = {category}
      <4>1. g \in DOMAIN P
        BY ListedGames DEF Games
      <4>2. SidesTellTheTruth(catalogue)
        BY CataloguesAssumption
      <4> QED BY <2>1, <2>2, <2>4, <4>1, <4>2 DEF SidesTellTheTruth
    <3>2. q \in ToSet(PolyRead[catalogue][g][category])
      BY <3>1 DEF PolyEvents
    <3>3. q \in ToSet(SeriesLists(ps)[category][series])
      BY <2>2, <2>4, <3>2, SeriesListFacts
    <3> QED BY <2>1, <3>3
  <2> QED BY <2>3, <2>4
<1> QED BY <1>2, <1>3 DEF E

-----------------------------------------------------------------------------
(* A match is of one game.                                                 *)

KalshiRange(kalshi) ==
  IsList(kalshi) /\ \A k : k \in ToSet(kalshi) <=> \E g \in kopen : k \in KalshiEvents(catalogue, g)
PolyRange(poly) ==
  /\ IsList(poly)
  /\ \A e \in ToSet(poly) : \E h \in popen :
       /\ e \in PolyEvents(catalogue, h)
       /\ \A g \in popen : Catalogues[catalogue].poly[g].series = Catalogues[catalogue].poly[h].series
                              => PolyEvents(catalogue, g) \subseteq ToSet(poly)

LEMMA AlikeFacts ==
  ASSUME catalogue \in DOMAIN Catalogues, NEW g \in Games, NEW k \in KalshiEvents(catalogue, g)
  PROVE  KKeys(g) = {event_date_key(k)}
<1>1. \A l \in KalshiEvents(catalogue, g) : l = k
  BY KalshiIdentity DEF Games
<1> QED BY <1>1 DEF KKeys

LEMMA ReadAlike ==
  ASSUME catalogue \in DOMAIN Catalogues, NEW g \in Games, NEW h \in Games,
         NEW k \in KalshiEvents(catalogue, g), NEW l \in KalshiEvents(catalogue, h), k.name = l.name
  PROVE  /\ (\E e \in KalshiEvents(catalogue, g) \cup PolyEvents(catalogue, g) :
                e.name = k.name /\ e.date = NoOne) => g = h
         /\ k.date = l.date => \A p \in PolyEvents(catalogue, g) : p.name = k.name =>
              /\ Catalogues[catalogue].poly[g].series = Catalogues[catalogue].poly[h].series
              /\ \E q \in PolyEvents(catalogue, h) : q.name = p.name /\ q.date = p.date
<1>1. GamesReadAlike(catalogue)
  BY CataloguesAssumption
<1>2. g \in DOMAIN Catalogues[catalogue].poly /\ h \in DOMAIN Catalogues[catalogue].poly
  BY ListedGames DEF Games
<1> QED BY <1>1, <1>2 DEF GamesReadAlike

\* No two Kalshi events of one key are matched.
LEMMA AloneOnKalshi ==
  ASSUME catalogue \in DOMAIN Catalogues, kopen \subseteq Games, NEW kalshi, KalshiRange(kalshi),
         NEW j \in DOMAIN kalshi, ~Ambiguous(j, kalshi),
         NEW g \in kopen, kalshi[j] \in KalshiEvents(catalogue, g),
         NEW h \in kopen, NEW l \in KalshiEvents(catalogue, h), event_date_key(l) = event_date_key(kalshi[j])
  PROVE  h = g /\ l = kalshi[j]
<1>1. PICK i \in DOMAIN kalshi : kalshi[i] = l
  BY DEF KalshiRange, ToSet
<1>2. i = j
  BY <1>1 DEF Ambiguous
<1> QED BY <1>1, <1>2, KalshiIdentity DEF Games

\* Whatever the exchanges list of the open games, in whatever order and
\* whichever series fail, the two events that match_events puts together are of one
\* game: it leaves out a Kalshi event that is not alone with its name and date, and
\* one that several free Polymarket events of its date could be.
THEOREM MatchIsOfOneGame ==
  ASSUME catalogue \in DOMAIN Catalogues, kopen \subseteq Games, popen \subseteq Games, Together,
         Agree(kopen, popen), NEW kalshi, KalshiRange(kalshi), NEW poly, PolyRange(poly),
         NEW j \in DOMAIN kalshi, NEW q \in DOMAIN poly, Chosen(kalshi, poly, j, q)
  PROVE  \E g \in kopen : kalshi[j] \in KalshiEvents(catalogue, g) /\ poly[q] \in PolyEvents(catalogue, g)
<1> DEFINE c == catalogue
           P == Catalogues[c].poly
           k == kalshi[j]
           p == poly[q]
<1>1. PICK g \in kopen : k \in KalshiEvents(c, g)
  BY DEF KalshiRange, ToSet
<1>2. PICK h \in popen : /\ p \in PolyEvents(c, h)
                         /\ \A x \in popen : P[x].series = P[h].series => PolyEvents(c, x) \subseteq ToSet(poly)
  BY DEF PolyRange, ToSet
<1>3. Games = DOMAIN P /\ Games = DOMAIN Catalogues[c].kalshi
  BY ListedGames DEF Games
<1>4. PICK l \in KalshiEvents(c, h) : l.name = p.name /\ (l.date = p.date \/ NoOne \in {l.date, p.date})
  BY <1>2, <1>3, CataloguesAssumption DEF GamesReadAlike
<1>5. /\ ~Ambiguous(j, kalshi) /\ p.name = k.name
      /\ NoOne \in {k.date, p.date} \/ p.date = k.date
  BY DEF Chosen, Fits
<1>6. CASE NoOne \in {k.date, p.date, l.date}
  <2>1. g = h
    <3>1. CASE k.date = NoOne
      BY <1>1, <1>2, <1>4, <1>5, <3>1, ReadAlike
    <3>2. CASE NoOne \in {p.date, l.date}
      BY <1>1, <1>2, <1>4, <1>5, <3>2, ReadAlike
    <3> QED BY <1>6, <3>1, <3>2
  <2> QED BY <1>1, <1>2, <2>1
<1>7. CASE NoOne \notin {k.date, p.date, l.date}
  <2>1. k.date = p.date /\ l.date = p.date /\ k.name = p.name /\ l.name = p.name
    BY <1>4, <1>5, <1>7
  <2>2. event_date_key(k) = event_date_key(l)
    BY <2>1 DEF event_date_key
  <2>3. KKeys(g) = {event_date_key(k)} /\ KKeys(h) = {event_date_key(k)}
    BY <1>1, <1>2, <1>4, <2>2, AlikeFacts
  <2>4. ASSUME NEW x \in Games, KKeys(x) = {event_date_key(k)}
        PROVE  \E e \in KalshiEvents(c, x) : event_date_key(e) = event_date_key(k)
    BY <2>4 DEF KKeys
  <2>5. ASSUME NEW x \in kopen, KAlike(g, x) PROVE x = g
    <3>1. KKeys(x) = {event_date_key(k)}
      BY <2>3, <2>5 DEF KAlike
    <3>2. PICK e \in KalshiEvents(c, x) : event_date_key(e) = event_date_key(k)
      BY <2>4, <3>1
    <3> QED BY <1>1, <1>5, <3>2, AloneOnKalshi
  <2>6. ASSUME NEW x \in popen, KAlike(h, x), x # h PROVE FALSE
    <3>1. KKeys(x) = {event_date_key(k)}
      BY <2>3, <2>6 DEF KAlike
    <3>2. PICK e \in KalshiEvents(c, x) : event_date_key(e) = event_date_key(k)
      BY <2>4, <3>1
    <3>3. e.name = l.name /\ e.date = l.date
      BY <2>1, <3>2 DEF event_date_key
    <3>4. PICK r \in PolyEvents(c, x) : P[h].series = P[x].series /\ r.name = p.name /\ r.date = p.date
      BY <1>2, <1>4, <3>2, <3>3, <2>1, ReadAlike
    <3>5. PICK o \in DOMAIN poly : poly[o] = r
      BY <1>2, <3>4 DEF ToSet
    <3>6. r.id # p.id /\ o # q
      BY <1>2, <1>3, <2>6, <3>4, <3>5, PolyIdentity
    <3>7. PICK used :
            /\ \A id \in used : \E i \in 1..(j - 1), n \in DOMAIN poly :
                 Fits(kalshi, poly, i, n) /\ id = poly[n].id
            /\ p.id \notin used /\ ~Several(SameDate(k, poly, used))
      BY DEF Chosen
    <3>8. r.id \notin used
      <4>1. SUFFICES ASSUME r.id \in used PROVE FALSE
        OBVIOUS
      <4>2. PICK i \in 1..(j - 1), n \in DOMAIN poly : Fits(kalshi, poly, i, n) /\ r.id = poly[n].id
        BY <3>7, <4>1
      <4>3. i \in DOMAIN kalshi /\ i # j
        <5>1. DOMAIN kalshi = 1..Len(kalshi) /\ Len(kalshi) \in Nat
          BY ListFacts DEF KalshiRange
        <5> QED BY <5>1
      <4>4. poly[n] = r
        <5>1. PICK y \in popen : poly[n] \in PolyEvents(c, y)
          BY DEF PolyRange, ToSet
        <5> QED BY <1>3, <3>4, <4>2, <5>1, PolyIdentity
      <4>5. PICK y \in kopen : kalshi[i] \in KalshiEvents(c, y)
        BY <4>3 DEF KalshiRange, ToSet
      <4>6. kalshi[i].name = k.name /\ (kalshi[i].date = NoOne \/ kalshi[i].date = k.date)
        BY <1>7, <2>1, <3>4, <4>2, <4>4 DEF Fits
      <4>7. kalshi[i].date # NoOne
        <5>1. SUFFICES ASSUME kalshi[i].date = NoOne PROVE FALSE
          OBVIOUS
        <5>2. y = g
          BY <1>1, <4>5, <4>6, <5>1, ReadAlike
        <5>3. kalshi[i] = k
          BY <1>1, <1>3, <4>5, <5>2, KalshiIdentity
        <5> QED BY <1>7, <5>1, <5>3
      <4> QED BY <1>5, <4>3, <4>6, <4>7 DEF Ambiguous, event_date_key
    <3>9. o \in SameDate(k, poly, used) /\ q \in SameDate(k, poly, used)
      BY <1>7, <2>1, <3>4, <3>5, <3>7, <3>8 DEF SameDate, Candidates
    <3> QED BY <3>6, <3>7, <3>9 DEF Several
  <2>7. KAlike(g, h) /\ {g} = {x \in kopen : KAlike(g, x)} /\ {h} = {x \in popen : KAlike(h, x)}
    BY <2>3, <2>5, <2>6 DEF KAlike
  <2>8. g = h
    BY <2>7 DEF Agree
  <2> QED BY <1>1, <1>2, <2>8
<1> QED BY <1>6, <1>7

-----------------------------------------------------------------------------
(* The invariant.                                                          *)

Seen(g) == g \in kopen \/ <<"k", g>> \in over

OpenInv ==
  /\ catalogue \in DOMAIN Catalogues
  /\ kopen \subseteq Games /\ popen \subseteq Games /\ Agree(kopen, popen)
  /\ \A g \in kopen : <<"k", g>> \notin over

\* A matched market joins what both exchanges list of one game.
Joins(m, g) ==
  \E k \in KalshiEvents(catalogue, g), p \in PolyEvents(catalogue, g) : \E x \in ToSet(k.markets) :
    /\ x.team \in p.teams
    /\ m = [ticker |-> x.ticker, team |-> x.team, name |-> k.name, date |-> k.date, poly |-> p.id]
GameOf(t) == KMarket(t).game
MarketsInv ==
  /\ \A m \in markets : \E g \in Games : Seen(g) /\ Joins(m, g)
  /\ \A m, n \in markets : market_key(m) = market_key(n) => GameOf(m.ticker) = GameOf(n.ticker)

\* What is now under the key of a queued opportunity is a market of its game,
\* unless that game is over.
Names(t, key, g) ==
  \E k \in KalshiEvents(catalogue, g) : \E x \in ToSet(k.markets) :
    t = x.ticker /\ key = <<k.name, k.date, x.team>>
QueuedInv ==
  queued # NoOne =>
    /\ queued.side \in {"yes", "no"}
    /\ \E g \in Games : Seen(g) /\ Names(queued.ticker, queued.key, g)
    /\ \A m \in markets : market_key(m) = queued.key =>
         GameOf(m.ticker) = GameOf(queued.ticker) \/ GameOf(queued.ticker) \notin kopen

TradesInv == IsList(history) /\ \A r \in ToSet(history) \cup remembered : Hedged(r, r)

MatchInv == OpenInv /\ MarketsInv /\ QueuedInv /\ TradesInv

-----------------------------------------------------------------------------
(* What does not change while the catalogue does not.                      *)

KMarketOf(c, t) == CHOOSE r \in KalshiMarkets[c] : r.ticker = t
PMarketOf(c, id) == CHOOSE r \in PolyMarkets[c] : r.id = id
KKeysOf(c, g) == {event_date_key(e) : e \in KalshiEvents(c, g)}

LEMMA SameMarkets ==
  ASSUME catalogue' = catalogue
  PROVE  /\ Games' = Games
         /\ \A t : KMarket(t)' = KMarket(t) /\ GameOf(t)' = GameOf(t)
         /\ \A id : PMarket(id)' = PMarket(id)
         /\ \A g : KKeys(g)' = KKeys(g)
<1>1. \A t : KMarket(t) = KMarketOf(catalogue, t) /\ KMarket(t)' = KMarketOf(catalogue', t)
  BY DEF KMarket, KMarketOf
<1>2. \A id : PMarket(id) = PMarketOf(catalogue, id) /\ PMarket(id)' = PMarketOf(catalogue', id)
  BY DEF PMarket, PMarketOf
<1>3. \A g : KKeys(g) = KKeysOf(catalogue, g) /\ KKeys(g)' = KKeysOf(catalogue', g)
  BY DEF KKeys, KKeysOf
<1>4. Games' = Games
  BY DEF Games
<1>5. \A t : KMarket(t)' = KMarket(t)
  BY <1>1
<1>6. \A t : GameOf(t)' = GameOf(t)
  BY <1>5 DEF GameOf
<1> QED BY <1>2, <1>3, <1>4, <1>5, <1>6

LEMMA SamePayments ==
  ASSUME catalogue' = catalogue
  PROVE  /\ \A k, p : Hedged(k, p) => Hedged(k, p)'
         /\ \A m, s : HedgeSide(m, s)' = HedgeSide(m, s)
         /\ \A ks, ps : Agree(ks, ps)' <=> Agree(ks, ps)
         /\ \A m, g : Joins(m, g)' <=> Joins(m, g)
         /\ \A t, key, g : Names(t, key, g)' <=> Names(t, key, g)
<1>1. \A k, p : Hedged(k, p) => Hedged(k, p)'
  BY SameMarkets DEF Hedged, KPays, PPays
<1>2. \A m, s : HedgeSide(m, s)' = HedgeSide(m, s)
  BY SameMarkets DEF HedgeSide
<1>3. \A ks, ps : Agree(ks, ps)' <=> Agree(ks, ps)
  <2>1. \A g, h : KAlike(g, h)' <=> KAlike(g, h)
    BY SameMarkets DEF KAlike
  <2> QED BY <2>1 DEF Agree
<1>4. \A m, g : Joins(m, g)' <=> Joins(m, g)
  BY DEF Joins
<1>5. \A t, key, g : Names(t, key, g)' <=> Names(t, key, g)
  BY DEF Names
<1> QED BY <1>1, <1>2, <1>3, <1>4, <1>5

LEMMA CatalogueStays ==
  ASSUME [MatchNext]_matchVars
  PROVE  catalogue' = catalogue
BY DEF MatchNext, matchVars, Open, Close, Exchanges, Scan, RemoveEnded, Queue, Execute, ByHand,
       get_unified_positions

\* Payments do not depend on more of a leg than its ticker, id and side.
LEMMA HedgedLegs ==
  ASSUME NEW k, NEW l, NEW p, NEW q, Hedged(k, p),
         l.ticker = k.ticker, l.side = k.side, q.poly = p.poly, q.pside = p.pside
  PROVE  Hedged(l, q)
BY DEF Hedged, KPays, PPays

LEMMA JoinedMarket ==
  ASSUME OpenInv, NEW g \in Games, NEW m, Joins(m, g)
  PROVE  GameOf(m.ticker) = g /\ m.ticker \in Tickers /\ m.poly \in Ids
BY KMarketIs, PMarketIs DEF OpenInv, Joins, GameOf

LEMMA NamedMarket ==
  ASSUME OpenInv, NEW g \in Games, NEW t, NEW key, Names(t, key, g)
  PROVE  GameOf(t) = g
BY KMarketIs DEF OpenInv, Names, GameOf

\* A ticker of a key, and a market of the key and of the same game, on either side.
LEMMA RowPays ==
  ASSUME OpenInv, NEW g \in Games, NEW m, Joins(m, g), NEW t, Names(t, market_key(m), g),
         NEW s \in {"yes", "no"}, NEW leg, leg.ticker = t, leg.side = s,
         NEW pleg, pleg.poly = m.poly, pleg.pside = HedgeSide(m, s)
  PROVE  Hedged(leg, pleg)
<1>1. PICK k \in KalshiEvents(catalogue, g) : \E x \in ToSet(k.markets) :
        t = x.ticker /\ market_key(m) = <<k.name, k.date, x.team>>
  BY DEF Names
<1>2. PICK x \in ToSet(k.markets) : t = x.ticker /\ market_key(m) = <<k.name, k.date, x.team>>
  BY <1>1
<1>3. PICK p \in PolyEvents(catalogue, g) : m.poly = p.id /\ m.team \in p.teams
  BY DEF Joins
<1>4. m.team = x.team
  BY <1>2 DEF market_key
<1> QED BY <1>2, <1>3, <1>4, SidesHedge DEF OpenInv

LEMMA MarketPairsPay ==
  ASSUME OpenInv, NEW g \in Games, NEW m, Joins(m, g), NEW r \in hedge_pairs_for_market(m)
  PROVE  Hedged(r, r)
<1>1. PICK s \in {"yes", "no"} :
        r = [ticker |-> m.ticker, side |-> s, poly |-> m.poly, pside |-> HedgeSide(m, s)]
  BY DEF hedge_pairs_for_market
<1>2. Names(m.ticker, market_key(m), g)
  BY DEF Joins, Names, market_key
<1>3. r.ticker = m.ticker /\ r.side = s /\ r.poly = m.poly /\ r.pside = HedgeSide(m, s)
  BY <1>1
<1> QED BY <1>2, <1>3, RowPays

-----------------------------------------------------------------------------
(* Every step keeps it.                                                    *)

LEMMA Initially == MatchInit => MatchInv
<1> SUFFICES ASSUME MatchInit PROVE MatchInv
  OBVIOUS
<1>1. OpenInv
  BY DEF MatchInit, OpenInv, Agree
<1>2. MarketsInv /\ QueuedInv
  BY DEF MatchInit, MarketsInv, QueuedInv
<1>3. TradesInv
  BY NoneIsList DEF MatchInit, TradesInv
<1> QED BY <1>1, <1>2, <1>3 DEF MatchInv

LEMMA OpenStays ==
  ASSUME OpenInv, UNCHANGED <<catalogue, kopen, popen, over>>
  PROVE  OpenInv' /\ \A g : Seen(g) => Seen(g)'
<1>1. Agree(kopen, popen)'
  <2>1. \A g, h : KAlike(g, h)' <=> KAlike(g, h)
    BY SameMarkets DEF KAlike
  <2> QED BY <2>1 DEF OpenInv, Agree
<1>2. Games' = Games
  BY SameMarkets
<1> QED BY <1>1, <1>2 DEF OpenInv, Seen

LEMMA MarketsStay ==
  ASSUME MarketsInv, catalogue' = catalogue, markets' \subseteq markets, \A g : Seen(g) => Seen(g)'
  PROVE  MarketsInv'
<1>1. ASSUME NEW m \in markets' PROVE \E g \in Games' : Seen(g)' /\ Joins(m, g)'
  <2>1. PICK g \in Games : Seen(g) /\ Joins(m, g)
    BY <1>1 DEF MarketsInv
  <2> QED BY <2>1, SameMarkets, SamePayments
<1>2. ASSUME NEW m \in markets', NEW n \in markets', market_key(m) = market_key(n)
      PROVE  GameOf(m.ticker)' = GameOf(n.ticker)'
  <2>1. GameOf(m.ticker) = GameOf(n.ticker)
    BY <1>2 DEF MarketsInv
  <2>2. GameOf(m.ticker)' = GameOf(m.ticker) /\ GameOf(n.ticker)' = GameOf(n.ticker)
    BY SameMarkets
  <2> QED BY <2>1, <2>2
<1> QED BY <1>1, <1>2 DEF MarketsInv

LEMMA RowsStay ==
  ASSUME TradesInv, UNCHANGED <<catalogue, history, remembered>>
  PROVE  TradesInv'
<1>1. \A r \in ToSet(history) \cup remembered : Hedged(r, r)'
  BY SamePayments DEF TradesInv
<1>2. ToSet(history') = ToSet(history) /\ IsList(history')
  BY DEF TradesInv
<1> QED BY <1>1, <1>2 DEF TradesInv

\* A game that is over does not open again.
LEMMA QueuedStays ==
  ASSUME OpenInv, QueuedInv, UNCHANGED <<catalogue, queued>>, markets' \subseteq markets,
         \A g : Seen(g) => Seen(g)', \A g : Seen(g) /\ g \in kopen' => g \in kopen
  PROVE  QueuedInv'
<1> SUFFICES ASSUME queued # NoOne PROVE QueuedInv'
  BY DEF QueuedInv
<1>1. PICK g \in Games : Seen(g) /\ Names(queued.ticker, queued.key, g)
  BY DEF QueuedInv
<1>2. GameOf(queued.ticker) = g
  BY <1>1, NamedMarket
<1>3. g \in Games' /\ Seen(g)' /\ Names(queued.ticker, queued.key, g)'
  <2>1. \A t, key : Names(t, key, g)' <=> Names(t, key, g)
    BY SamePayments
  <2> QED BY <1>1, <2>1, SameMarkets DEF Names
<1>4. ASSUME NEW m \in markets', market_key(m) = queued'.key
      PROVE  GameOf(m.ticker)' = GameOf(queued.ticker)' \/ GameOf(queued.ticker)' \notin kopen'
  <2>1. GameOf(m.ticker) = g \/ g \notin kopen
    BY <1>2, <1>4 DEF QueuedInv
  <2>2. GameOf(m.ticker)' = GameOf(m.ticker) /\ GameOf(queued.ticker)' = g
    BY <1>2, SameMarkets DEF GameOf
  <2> QED BY <1>1, <2>1, <2>2
<1> QED BY <1>3, <1>4 DEF QueuedInv

LEMMA ExchangesStep ==
  ASSUME MatchInv, NEW ks \in SUBSET Games, NEW ps \in SUBSET Games, Exchanges(ks, ps),
         \A g \in ks \ kopen : <<"k", g>> \notin over
  PROVE  MatchInv'
<1>1. UNCHANGED <<catalogue, markets, queued, history, remembered>> /\ kopen' = ks /\ popen' = ps
  BY DEF Exchanges
<1>2. \A g : Seen(g) => Seen(g)'
  BY DEF Exchanges, Seen
<1>3. \A g \in kopen' : <<"k", g>> \notin over'
  BY DEF Exchanges, MatchInv, OpenInv
<1>4. Agree(kopen, popen)'
  <2>1. \A g, h : KAlike(g, h)' <=> KAlike(g, h)
    BY <1>1, SameMarkets DEF KAlike
  <2> QED BY <1>1, <2>1 DEF Exchanges, Agree
<1>5. OpenInv'
  BY <1>1, <1>3, <1>4, SameMarkets DEF MatchInv, OpenInv
<1>6. \A g : Seen(g) /\ g \in kopen' => g \in kopen
  BY <1>1 DEF Seen
<1> QED BY <1>1, <1>2, <1>5, <1>6, MarketsStay, QueuedStays, RowsStay DEF MatchInv

LEMMA OpenStep ==
  ASSUME MatchInv, Open \/ Close
  PROVE  MatchInv'
<1>1. PICK g \in Games :
        \/ g \notin kopen /\ <<"k", g>> \notin over /\ Exchanges(kopen \cup {g}, popen)
        \/ g \notin popen /\ <<"p", g>> \notin over /\ Exchanges(kopen, popen \cup {g})
        \/ g \in kopen /\ Exchanges(kopen \ {g}, popen)
        \/ g \in popen /\ Exchanges(kopen, popen \ {g})
  BY DEF Open, Close
<1>2. kopen \subseteq Games /\ popen \subseteq Games
  BY DEF MatchInv, OpenInv
<1>3. CASE g \notin kopen /\ <<"k", g>> \notin over /\ Exchanges(kopen \cup {g}, popen)
  BY <1>2, <1>3, ExchangesStep
<1>4. CASE g \notin popen /\ <<"p", g>> \notin over /\ Exchanges(kopen, popen \cup {g})
  BY <1>2, <1>4, ExchangesStep
<1>5. CASE g \in kopen /\ Exchanges(kopen \ {g}, popen)
  BY <1>2, <1>5, ExchangesStep
<1>6. CASE g \in popen /\ Exchanges(kopen, popen \ {g})
  BY <1>2, <1>6, ExchangesStep
<1> QED BY <1>1, <1>3, <1>4, <1>5, <1>6

\* A market the matcher returns is of an open game, the only one of its name and
\* date on Kalshi.
LEMMA NewMarkets ==
  ASSUME OpenInv, Together, NEW kalshi, KalshiRange(kalshi), NEW poly, PolyRange(poly),
         NEW n \in match_markets(match_events(kalshi, poly))
  PROVE  \E g \in kopen :
           /\ Joins(n, g)
           /\ \A h \in kopen : \A l \in KalshiEvents(catalogue, h) :
                event_date_key(l) = <<n.name, n.date>> => h = g
<1>1. PICK y \in match_events(kalshi, poly) : \E x \in ToSet(y[1].markets) :
        /\ x.team \in y[2].teams
        /\ n = [ticker |-> x.ticker, team |-> x.team, name |-> y[1].name, date |-> y[1].date, poly |-> y[2].id]
  BY DEF match_markets
<1>2. kalshi \in Seq(ToSet(kalshi))
  BY DEF KalshiRange, IsList
<1>3. PICK j \in DOMAIN kalshi, q \in DOMAIN poly : y = <<kalshi[j], poly[q]>> /\ Chosen(kalshi, poly, j, q)
  BY <1>2, MatchEventsFacts
<1>4. PICK g \in kopen : kalshi[j] \in KalshiEvents(catalogue, g) /\ poly[q] \in PolyEvents(catalogue, g)
  BY <1>3, MatchIsOfOneGame DEF OpenInv
<1>5. Joins(n, g)
  BY <1>1, <1>3, <1>4 DEF Joins
<1>6. ASSUME NEW h \in kopen, NEW l \in KalshiEvents(catalogue, h), event_date_key(l) = <<n.name, n.date>>
      PROVE  h = g
  <2>1. event_date_key(l) = event_date_key(kalshi[j])
    BY <1>1, <1>3, <1>6 DEF event_date_key
  <2> QED BY <1>3, <1>4, <2>1, AloneOnKalshi DEF Chosen, Fits, OpenInv
<1> QED BY <1>5, <1>6

LEMMA ScanStep ==
  ASSUME MatchInv, Together, Scan
  PROVE  MatchInv'
<1>1. PICK kalshi, poly : /\ KalshiRange(kalshi) /\ PolyRange(poly)
                          /\ markets' = add_matched_markets(match_markets(match_events(kalshi, poly)))
  <2>1. PICK ks \in SetToSeqs(kopen), ps \in SetToSeqs(popen),
             fails \in SUBSET {Catalogues[catalogue].poly[g].series : g \in Games} :
          markets' = add_matched_markets(match_markets(match_events(
            FlattenSeq([i \in DOMAIN ks |-> KalshiRead[catalogue][ks[i]]]),
            get_supported_events_and_markets(Series, fails, SeriesLists(ps)).events)))
    BY DEF Scan, SeriesLists
  <2>2. KalshiRange(FlattenSeq([i \in DOMAIN ks |-> KalshiRead[catalogue][ks[i]]]))
    BY KalshiList DEF KalshiRange, MatchInv, OpenInv
  <2>3. PolyRange(get_supported_events_and_markets(Series, fails, SeriesLists(ps)).events)
    BY PolyList DEF PolyRange, MatchInv, OpenInv
  <2> QED BY <2>1, <2>2, <2>3
<1> DEFINE new == match_markets(match_events(kalshi, poly))
<1>2. UNCHANGED <<catalogue, kopen, popen, over, queued, history, remembered>>
  BY DEF Scan
<1>3. OpenInv' /\ \A g : Seen(g) => Seen(g)'
  BY <1>2, OpenStays DEF MatchInv
<1>4. ASSUME NEW n \in new
      PROVE  \E g \in kopen :
               /\ Joins(n, g) /\ GameOf(n.ticker) = g
               /\ \A h \in kopen : \A l \in KalshiEvents(catalogue, h) :
                    event_date_key(l) = <<n.name, n.date>> => h = g
  <2>1. PICK g \in kopen :
           /\ Joins(n, g)
           /\ \A h \in kopen : \A l \in KalshiEvents(catalogue, h) :
                event_date_key(l) = <<n.name, n.date>> => h = g
    BY <1>1, NewMarkets DEF MatchInv
  <2>2. GameOf(n.ticker) = g
    BY <2>1, JoinedMarket DEF MatchInv, OpenInv
  <2> QED BY <2>1, <2>2
<1>5. \A m \in markets' : m \in new \/ (m \in markets /\ \A n \in new : market_key(n) # market_key(m))
  <2>1. markets' = add_matched_markets(new)
    BY <1>1
  <2> HIDE DEF new
  <2>2. ASSUME NEW m \in markets' PROVE m \in new \/ (m \in markets /\ ~\E n \in new : market_key(n) = market_key(m))
    BY <2>1 DEF add_matched_markets
  <2> QED BY <2>2
<1> HIDE DEF new
<1>6. ASSUME NEW m \in markets' PROVE \E g \in Games' : Seen(g)' /\ Joins(m, g)'
  <2>1. PICK g \in Games : Seen(g) /\ Joins(m, g)
    <3>1. CASE m \in new
      BY <1>4, <3>1 DEF MatchInv, OpenInv, Seen
    <3>2. CASE m \in markets
      BY <3>2 DEF MatchInv, MarketsInv
    <3> QED BY <1>5, <3>1, <3>2
  <2> QED BY <1>2, <1>3, <2>1, SameMarkets, SamePayments
<1>7. ASSUME NEW m \in markets', NEW n \in markets', market_key(m) = market_key(n)
      PROVE  GameOf(m.ticker) = GameOf(n.ticker)
  <2>1. CASE m \in new /\ n \in new
    <3>1. PICK g \in kopen :
               /\ Joins(m, g) /\ GameOf(m.ticker) = g
               /\ \A h \in kopen : \A l \in KalshiEvents(catalogue, h) :
                    event_date_key(l) = <<m.name, m.date>> => h = g
      BY <1>4, <2>1
    <3>2. PICK h \in kopen : Joins(n, h) /\ GameOf(n.ticker) = h
      BY <1>4, <2>1
    <3>3. PICK l \in KalshiEvents(catalogue, h) : n.name = l.name /\ n.date = l.date
      BY <3>2 DEF Joins
    <3>4. event_date_key(l) = <<m.name, m.date>>
      BY <1>7, <3>3 DEF event_date_key, market_key
    <3> QED BY <3>1, <3>2, <3>4
  <2>2. CASE m \notin new /\ n \notin new
    BY <1>5, <1>7, <2>2 DEF MatchInv, MarketsInv
  <2> QED BY <1>5, <1>7, <2>1, <2>2
<1>8. MarketsInv'
  <2>1. \A t : GameOf(t)' = GameOf(t)
    BY <1>2, SameMarkets
  <2> QED BY <1>6, <1>7, <2>1 DEF MarketsInv
<1>9. QueuedInv'
  <2> SUFFICES ASSUME queued # NoOne PROVE QueuedInv'
    BY <1>2 DEF QueuedInv
  <2>1. PICK g \in Games : Seen(g) /\ Names(queued.ticker, queued.key, g)
    BY DEF MatchInv, QueuedInv
  <2>2. GameOf(queued.ticker) = g
    BY <2>1, NamedMarket DEF MatchInv
  <2>3. PICK l \in KalshiEvents(catalogue, g) : \E x \in ToSet(l.markets) :
           queued.ticker = x.ticker /\ queued.key = <<l.name, l.date, x.team>>
    BY <2>1 DEF Names
  <2>4. g \in Games' /\ Seen(g)' /\ Names(queued.ticker, queued.key, g)'
    <3>1. \A t, key : Names(t, key, g)' <=> Names(t, key, g)
      BY <1>2, SamePayments
    <3> QED BY <1>2, <1>3, <2>1, <3>1, SameMarkets DEF Names
  <2>5. ASSUME NEW m \in markets', market_key(m) = queued.key, g \in kopen
        PROVE  GameOf(m.ticker) = g
    <3>1. CASE m \in new
      <4>1. PICK h \in kopen :
               /\ GameOf(m.ticker) = h
               /\ \A i \in kopen : \A e \in KalshiEvents(catalogue, i) :
                    event_date_key(e) = <<m.name, m.date>> => i = h
        BY <1>4, <3>1
      <4>2. event_date_key(l) = <<m.name, m.date>>
        BY <2>3, <2>5 DEF event_date_key, market_key
      <4> QED BY <2>5, <4>1, <4>2
    <3>2. CASE m \in markets
      BY <2>2, <2>5, <3>2 DEF MatchInv, QueuedInv
    <3> QED BY <1>5, <3>1, <3>2
  <2>6. GameOf(queued.ticker)' = g /\ \A t : GameOf(t)' = GameOf(t)
    BY <1>2, <2>2, SameMarkets DEF GameOf
  <2> QED BY <1>2, <2>4, <2>5, <2>6 DEF MatchInv, QueuedInv
<1> QED BY <1>2, <1>3, <1>8, <1>9, RowsStay DEF MatchInv

LEMMA RemoveEndedStep ==
  ASSUME MatchInv, RemoveEnded
  PROVE  MatchInv'
<1>1. UNCHANGED <<catalogue, kopen, popen, over, queued, history, remembered>> /\ markets' \subseteq markets
  BY DEF RemoveEnded
<1>2. OpenInv' /\ \A g : Seen(g) => Seen(g)'
  BY <1>1, OpenStays DEF MatchInv
<1> QED BY <1>1, <1>2, MarketsStay, QueuedStays, RowsStay DEF MatchInv

LEMMA QueueStep ==
  ASSUME MatchInv, Queue
  PROVE  MatchInv'
<1>1. UNCHANGED <<catalogue, kopen, popen, over, markets, history, remembered>>
  BY DEF Queue
<1>2. OpenInv' /\ \A g : Seen(g) => Seen(g)'
  BY <1>1, OpenStays DEF MatchInv
<1>3. MarketsInv' /\ TradesInv'
  BY <1>1, <1>2, MarketsStay, RowsStay DEF MatchInv
<1>4. PICK m \in markets, s \in {"yes", "no"} : queued' = [key |-> market_key(m), ticker |-> m.ticker, side |-> s]
  BY DEF Queue
<1>5. queued'.key = market_key(m) /\ queued'.ticker = m.ticker /\ queued'.side = s
  BY <1>4
<1>6. PICK g \in Games' : Seen(g)' /\ Joins(m, g)'
  BY <1>1, <1>3 DEF MarketsInv
<1>7. Names(m.ticker, market_key(m), g)'
  <2>1. Joins(m, g)
    BY <1>1, <1>6, SamePayments
  <2>2. Names(m.ticker, market_key(m), g)
    BY <2>1 DEF Joins, Names, market_key
  <2> QED BY <1>1, <2>2, SamePayments
<1>8. Names(queued.ticker, queued.key, g)'
  BY <1>5, <1>7 DEF Names
<1>9. ASSUME NEW n \in markets', market_key(n) = queued'.key
      PROVE  GameOf(n.ticker)' = GameOf(queued.ticker)'
  <2>1. GameOf(n.ticker)' = GameOf(m.ticker)'
    BY <1>1, <1>3, <1>4, <1>5, <1>9 DEF MarketsInv
  <2> QED BY <1>5, <2>1 DEF GameOf
<1>10. QueuedInv'
  BY <1>5, <1>6, <1>8, <1>9 DEF QueuedInv
<1> QED BY <1>2, <1>3, <1>10 DEF MatchInv

LEMMA NewestFirst ==
  ASSUME NEW s, IsList(s), NEW x
  PROVE  IsList(<<x>> \o s) /\ ToSet(<<x>> \o s) = {x} \cup ToSet(s)
<1> DEFINE A == {x} \cup ToSet(s)
<1>1. s \in Seq(A) /\ <<x>> \in Seq(A)
  <2>1. x \in A /\ ToSet(s) \subseteq A
    OBVIOUS
  <2> HIDE DEF A
  <2> QED BY <2>1, OneIsList DEF IsList
<1>2. <<x>> \o s \in Seq(A) /\ ToSet(<<x>> \o s) = ToSet(<<x>>) \cup ToSet(s)
  <2> DEFINE y == <<x>>
  <2>1. y \in Seq(A)
    BY <1>1
  <2> HIDE DEF A, y
  <2>2. y \o s \in Seq(A) /\ ToSet(y \o s) = ToSet(y) \cup ToSet(s)
    BY <1>1, <2>1, JoinFacts
  <2> QED BY <2>2 DEF y
<1>3. ToSet(<<x>> \o s) = A
  BY <1>2, OneOf
<1> HIDE DEF A
<1> QED BY <1>2, <1>3 DEF IsList, A

\* The market now under the key is of the queued game, since that game is open.
LEMMA ExecuteStep ==
  ASSUME MatchInv, Execute
  PROVE  MatchInv'
<1>1. UNCHANGED <<catalogue, kopen, popen, over, markets, remembered>> /\ queued # NoOne /\ queued' = NoOne
  BY DEF Execute
<1>2. OpenInv' /\ \A g : Seen(g) => Seen(g)'
  BY <1>1, OpenStays DEF MatchInv
<1>3. MarketsInv' /\ QueuedInv'
  BY <1>1, <1>2, MarketsStay DEF MatchInv, QueuedInv
<1>4. ASSUME NEW m \in markets, market_key(m) = queued.key, KMarket(queued.ticker).game \in kopen,
             NEW row, row = [ticker |-> queued.ticker, side |-> queued.side,
                             poly |-> m.poly, pside |-> HedgeSide(m, queued.side)],
             history' = <<row>> \o history
      PROVE  TradesInv'
  <2>1. PICK g \in Games : Seen(g) /\ Names(queued.ticker, queued.key, g)
    BY <1>1 DEF MatchInv, QueuedInv
  <2>2. GameOf(queued.ticker) = g /\ g \in kopen
    BY <1>4, <2>1, NamedMarket DEF MatchInv, GameOf
  <2>3. GameOf(m.ticker) = g
    BY <1>1, <1>4, <2>2 DEF MatchInv, QueuedInv
  <2>4. Joins(m, g)
    BY <2>3, JoinedMarket DEF MatchInv, MarketsInv
  <2>5. Names(queued.ticker, market_key(m), g) /\ queued.side \in {"yes", "no"}
    BY <1>1, <1>4, <2>1 DEF MatchInv, QueuedInv
  <2>6. row.ticker = queued.ticker /\ row.side = queued.side /\ row.poly = m.poly
          /\ row.pside = HedgeSide(m, queued.side)
    BY <1>4
  <2>7. Hedged(row, row)
    BY <2>4, <2>5, <2>6, RowPays DEF MatchInv
  <2>8. IsList(history') /\ ToSet(history') = {row} \cup ToSet(history)
    BY <1>4, NewestFirst DEF MatchInv, TradesInv
  <2>9. \A r \in ToSet(history') \cup remembered' : Hedged(r, r)'
    BY <1>1, <2>7, <2>8, SamePayments DEF MatchInv, TradesInv
  <2> QED BY <2>8, <2>9 DEF TradesInv
<1>5. CASE history' = history
  BY <1>1, <1>2, <1>3, <1>5, RowsStay DEF MatchInv
<1>6. CASE history' # history
  <2>1. PICK m \in {n \in markets : market_key(n) = queued.key} :
           /\ KMarket(queued.ticker).game \in kopen
           /\ history' = <<[ticker |-> queued.ticker, side |-> queued.side,
                            poly |-> m.poly, pside |-> HedgeSide(m, queued.side)]>> \o history
    BY <1>6 DEF Execute
  <2> QED BY <1>2, <1>3, <1>4, <2>1 DEF MatchInv
<1> QED BY <1>5, <1>6

-----------------------------------------------------------------------------
(* The paired cards.                                                       *)

\* The image of a finite set is finite.
LEMMA ImageFinite ==
  ASSUME NEW S, IsFiniteSet(S), NEW f, DOMAIN f = S
  PROVE  IsFiniteSet({f[x] : x \in S})
<1> DEFINE T == {f[x] : x \in S}
           h == [x \in S |-> f[x]]
<1>1. h \in Surjection(S, T)
  BY DEF Surjection
<1> QED BY <1>1, FS_Surjection

LEMMA ReadFinite ==
  ASSUME NEW s, IsList(s)
  PROVE  IsFiniteSet(ToSet(s))
<1>1. Len(s) \in Nat /\ DOMAIN s = 1..Len(s)
  BY ListFacts
<1>2. IsFiniteSet(1..Len(s))
  BY <1>1, FS_Interval
<1>3. IsFiniteSet({s[i] : i \in 1..Len(s)})
  BY <1>1, <1>2, ImageFinite
<1> QED BY <1>1, <1>3 DEF ToSet

\* What an exchange lists is finite.
LEMMA TickersFinite ==
  ASSUME OpenInv
  PROVE  IsFiniteSet(Tickers)
<1> DEFINE K == Catalogues[catalogue].kalshi
           f == [g \in DOMAIN K |-> ToSet(K[g].markets)]
           All == UNION {f[g] : g \in DOMAIN K}
           t == [m \in All |-> m.ticker]
<1>1. IsFiniteSet(DOMAIN K) /\ \A g \in DOMAIN K : IsList(K[g].markets)
  BY ListedGames DEF OpenInv
<1>2. IsFiniteSet({f[g] : g \in DOMAIN K})
  <2>1. DOMAIN f = DOMAIN K
    OBVIOUS
  <2> HIDE DEF f, K
  <2> QED BY <1>1, <2>1, ImageFinite
<1>3. IsFiniteSet(All)
  <2>1. \A S \in {f[g] : g \in DOMAIN K} : IsFiniteSet(S)
    BY <1>1, ReadFinite
  <2> HIDE DEF f, K
  <2> QED BY <1>2, <2>1, FS_UNION
<1>4. IsFiniteSet({t[m] : m \in All})
  <2>1. DOMAIN t = All
    OBVIOUS
  <2> HIDE DEF t, All
  <2> QED BY <1>3, <2>1, ImageFinite
<1>5. Tickers \subseteq {t[m] : m \in All}
  <2>1. ASSUME NEW r \in KalshiMarkets[catalogue] PROVE \E m \in All : r.ticker = m.ticker
    <3>1. PICK g \in DOMAIN K : \E m \in ToSet(K[g].markets) : r = [game |-> g, ticker |-> m.ticker, is |-> m.is]
      BY <2>1 DEF KalshiMarkets, OpenInv
    <3>2. PICK m \in ToSet(K[g].markets) : r = [game |-> g, ticker |-> m.ticker, is |-> m.is]
      BY <3>1
    <3> QED BY <3>2
  <2> QED BY <2>1 DEF Tickers
<1> QED BY <1>4, <1>5, FS_Subset

\* Whatever is held, whatever order the exchange lists it in, and whatever the bot
\* traded and remembers: the two legs of a card pay, one or the other.
LEMMA CardsAreHedged ==
  ASSUME OpenInv, MarketsInv, TradesInv, NEW ks \in SetToSeqs(KLegs), NEW held,
         NEW c \in pair_positions(ks, held, KnownPairs)
  PROVE  Hedged(c.k, c.p)
<1> DEFINE bot == [k \in ToSet(ks) |-> FromHistory(k)]
           market == [k \in ToSet(ks) |-> {PolyLeg(p) : p \in {q \in KnownPairs : Explains(q, k)}}]
           Cards == {d \in [k : ToSet(ks), p : UNION {bot[k] \cup market[k] : k \in ToSet(ks)},
                            by : {"bot", "market"}] : Hedged(d.k, d.p)}
<1>1. IsFiniteSet(KLegs)
  <2> DEFINE leg == [t \in {u \in Tickers : kpos[u] # 0} |->
                       [ticker |-> t, side |-> IF kpos[t] > 0 THEN "yes" ELSE "no"]]
  <2>1. IsFiniteSet({u \in Tickers : kpos[u] # 0})
    BY TickersFinite, FS_Subset
  <2>2. KLegs = {leg[t] : t \in {u \in Tickers : kpos[u] # 0}}
    BY DEF KLegs
  <2>3. DOMAIN leg = {u \in Tickers : kpos[u] # 0}
    OBVIOUS
  <2> HIDE DEF leg
  <2> QED BY <2>1, <2>2, <2>3, ImageFinite
<1>2. ks \in Seq(ToSet(ks))
  <2>1. Cardinality(KLegs) \in Nat /\ DOMAIN ks = 1..Cardinality(KLegs)
          /\ ks = [i \in 1..Cardinality(KLegs) |-> ks[i]]
    BY <1>1, EachOnce
  <2> QED BY <2>1, TableIsList DEF IsList
<1>3. ASSUME NEW r \in ToSet(history) \cup KnownPairs, NEW k, Explains(r, k)
      PROVE  Hedged(k, PolyLeg(r))
  <2>1. Hedged(r, r)
    <3>1. CASE r \in ToSet(history) \cup remembered
      BY <3>1 DEF TradesInv
    <3>2. CASE r \notin ToSet(history) \cup remembered
      <4>1. PICK m \in markets : r \in hedge_pairs_for_market(m)
        <5>1. r \in UNION {hedge_pairs_for_market(m) : m \in markets}
          BY <3>2 DEF KnownPairs
        <5> HIDE DEF bot, market
        <5> QED BY <5>1
      <4>2. PICK g \in Games : Joins(m, g)
        BY DEF MarketsInv
      <4> QED BY <4>1, <4>2, MarketPairsPay
    <3> QED BY <3>1, <3>2
  <2>2. k.ticker = r.ticker /\ k.side = r.side /\ PolyLeg(r).poly = r.poly /\ PolyLeg(r).pside = r.pside
    BY <1>3 DEF Explains, PolyLeg
  <2> QED BY <2>1, <2>2, HedgedLegs
<1>4. ASSUME NEW k \in ToSet(ks), NEW p \in bot[k] PROVE Hedged(k, p)
  <2>1. PICK i \in DOMAIN history : p = PolyLeg(history[i]) /\ Explains(history[i], k)
    BY DEF FromHistory, First
  <2>2. history[i] \in ToSet(history)
    BY DEF ToSet
  <2> QED BY <1>3, <2>1, <2>2
<1>5. ASSUME NEW k \in ToSet(ks), NEW p \in market[k] PROVE Hedged(k, p)
  BY <1>3
<1> HIDE DEF bot, market
<1>6. \A k \in ToSet(ks) : \A p \in bot[k] : [k |-> k, p |-> p, by |-> "bot"] \in Cards
  BY <1>4
<1>7. \A k \in ToSet(ks) : \A p \in market[k] : [k |-> k, p |-> p, by |-> "market"] \in Cards
  BY <1>5
<1> HIDE DEF Cards
<1>8. Pass({}, ks, held, bot, "bot") \subseteq Cards
  BY <1>2, <1>6, PassFacts
<1>9. pair_positions(ks, held, KnownPairs) \subseteq Cards
  BY <1>2, <1>7, <1>8, PassFacts DEF pair_positions, bot, market
<1> QED BY <1>9 DEF Cards

LEMMA PairingStep ==
  ASSUME MatchInv, get_unified_positions
  PROVE  MatchInv'
<1>1. UNCHANGED <<catalogue, kopen, popen, over, markets, queued, history>>
  BY DEF get_unified_positions
<1>2. OpenInv' /\ \A g : Seen(g) => Seen(g)'
  BY <1>1, OpenStays DEF MatchInv
<1>3. MarketsInv' /\ QueuedInv'
  <2>1. \A g : Seen(g) /\ g \in kopen' => g \in kopen
    BY <1>1
  <2> QED BY <1>1, <1>2, <2>1, MarketsStay, QueuedStays DEF MatchInv
<1>4. PICK ks \in SetToSeqs(KLegs) :
         remembered' = remembered \cup newly_verified_pairs(pair_positions(ks, PLegs, KnownPairs))
  BY DEF get_unified_positions
<1>5. ASSUME NEW r \in newly_verified_pairs(pair_positions(ks, PLegs, KnownPairs)) PROVE Hedged(r, r)
  <2>1. PICK c \in pair_positions(ks, PLegs, KnownPairs) :
          r = [ticker |-> c.k.ticker, side |-> c.k.side, poly |-> c.p.poly, pside |-> c.p.pside]
    BY DEF newly_verified_pairs
  <2>2. Hedged(c.k, c.p)
    BY CardsAreHedged DEF MatchInv
  <2>3. r.ticker = c.k.ticker /\ r.side = c.k.side /\ r.poly = c.p.poly /\ r.pside = c.p.pside
    BY <2>1
  <2> QED BY <2>2, <2>3, HedgedLegs
<1>6. \A r \in ToSet(history) \cup remembered' : Hedged(r, r)'
  BY <1>1, <1>4, <1>5, SamePayments DEF MatchInv, TradesInv
<1>7. TradesInv'
  BY <1>1, <1>6 DEF MatchInv, TradesInv
<1> QED BY <1>2, <1>3, <1>7 DEF MatchInv

LEMMA QuietStep ==
  ASSUME MatchInv, ByHand \/ UNCHANGED matchVars
  PROVE  MatchInv'
<1>1. UNCHANGED <<catalogue, kopen, popen, over, markets, queued, history, remembered>>
  BY DEF ByHand, matchVars
<1>2. OpenInv' /\ \A g : Seen(g) => Seen(g)'
  BY <1>1, OpenStays DEF MatchInv
<1>3. \A g : Seen(g) /\ g \in kopen' => g \in kopen
  BY <1>1
<1> QED BY <1>1, <1>2, <1>3, MarketsStay, QueuedStays, RowsStay DEF MatchInv

-----------------------------------------------------------------------------
LEMMA MatchInductive == Together => (MatchSpec => []MatchInv)
<1> SUFFICES ASSUME Together PROVE MatchSpec => []MatchInv
  OBVIOUS
<1>1. MatchInv /\ [MatchNext]_matchVars => MatchInv'
  BY OpenStep, ScanStep, RemoveEndedStep, QueueStep, ExecuteStep, PairingStep, QuietStep DEF MatchNext
<1> QED BY Initially, <1>1, PTL DEF MatchSpec

\* Every trade of the bot pays whoever wins, if the exchanges list alike
\* games together: the market that the executor finds under the key of an opportunity
\* is one of the same game for as long as that game is open.
THEOREM MatchedTradesPay == Together => (MatchSpec => []TradesAreHedged)
<1> SUFFICES ASSUME Together PROVE MatchSpec => []TradesAreHedged
  OBVIOUS
<1>1. MatchInv => TradesAreHedged
  BY DEF MatchInv, TradesInv, TradesAreHedged, ToSet
<1> QED BY MatchInductive, <1>1, PTL

\* The two legs that the positions page pairs pay, one or the other, whoever
\* wins, whether the pair comes from a trade, from a matched market or from the table
\* of the pairs once seen.
THEOREM CardsShowTheWorst == Together => (MatchSpec => []SettlementIsWorst)
<1> SUFFICES ASSUME Together PROVE MatchSpec => []SettlementIsWorst
  OBVIOUS
<1>1. MatchInv => SettlementIsWorst
  BY CardsAreHedged DEF MatchInv, SettlementIsWorst
<1> QED BY MatchInductive, <1>1, PTL
=============================================================================
