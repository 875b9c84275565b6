------------------------- MODULE ManagerLocksProofs -------------------------
(***************************************************************************)
(* Which circles of waiting tasks the calls of the manager can close.      *)
(*                                                                         *)
(* What a task holds is what the text of its call says, and the text of    *)
(* all calls together asks for a lock under another in nine ways (Nested). *)
(* Follow a circle from a task to one that holds the lock it waits for: if *)
(* none of the two pairs of requests of TwoCircles is in it, each task of  *)
(* it asks for something higher (Height) than the task that waits for it,  *)
(* so that the circle does not close, for any number of tasks, any choice  *)
(* of calls and any interleaving.                                          *)
(***************************************************************************)
EXTENDS ManagerLocks, TLAPS

\* The calls are made of lock operations, and no call is empty.
LEMMA CallsAreOps ==
  \A name \in DOMAIN Calls : Calls[name] \in Seq(Ops) /\ Len(Calls[name]) >= 1
<1> DEFINE S(c) == c \in Seq(Ops) /\ Len(c) >= 1
<1>1. \A l \in Locks : Read(l) \in Ops /\ Write(l) \in Ops /\ Free(l) \in Ops
  BY DEF Read, Write, Free, Ops
<1>2. \A l \in Locks : S(Touch(l)) /\ S(Update(l))
  BY <1>1 DEF Touch, Update
<1>3. ASSUME NEW c, NEW d, S(c), S(d) PROVE S(c \o d)
  BY <1>3
<1>4. S(<<Write("lookup"), Read("markets"), Free("markets"), Free("lookup")>>)
  BY <1>1 DEF Locks
<1>5. /\ "markets" \in Locks /\ "lookup" \in Locks /\ "kalshi_quotes" \in Locks
      /\ "poly_quotes" \in Locks /\ "poly_ws_at" \in Locks /\ "kalshi_ws_at" \in Locks
  BY DEF Locks
<1>6. S(ReadQuotes) /\ S(PolyWsStamp) /\ S(Coverage) /\ S(AddMarkets) /\ S(WsStats)
  BY <1>1, <1>5 DEF ReadQuotes, PolyWsStamp, Coverage, AddMarkets, WsStats
<1> HIDE DEF S
<1>7. S(Detect)
  BY <1>2, <1>3, <1>5, <1>6 DEF Detect
<1>8. S(KalshiWsQuote) /\ S(PolyWsQuote) /\ S(KalshiRestQuotes) /\ S(PolyRestQuotes)
  BY <1>2, <1>3, <1>5, <1>6, <1>7
  DEF KalshiWsQuote, PolyWsQuote, KalshiRestQuotes, PolyRestQuotes
<1>9. S(Eligibility) /\ S(RemoveEnded)
  BY <1>2, <1>3, <1>4, <1>5, <1>6 DEF Eligibility, RemoveEnded
<1>10. \A name \in DOMAIN Calls : S(Calls[name])
  BY <1>6, <1>8, <1>9 DEF Calls
<1> QED
  BY <1>10 DEF S

-----------------------------------------------------------------------------
(* What the calls ask for.                                                 *)

\* A call asks for a lock while it holds l: the nine ways.
Nested(l, op) ==
  \/ l = "markets" /\ op.kind = "read" /\ op.lock \in {"kalshi_quotes", "poly_quotes"}
  \/ l = "markets" /\ op.kind = "write" /\ op.lock = "lookup"
  \/ l = "kalshi_quotes" /\ op.kind = "read" /\ op.lock = "poly_quotes"
  \/ l = "poly_quotes" /\ op.kind = "write" /\ op.lock = "poly_ws_at"
  \/ l = "poly_ws_at" /\ op.kind = "read" /\ op.lock = "kalshi_ws_at"
  \/ l \in {"lookup", "poly_ws_at", "kalshi_ws_at"} /\ op.kind = "read" /\ op.lock = "markets"

NestsOnly(c) ==
  \A n \in 1..Len(c) : c[n].kind # "free" => \A l \in HeldBefore(c, n) : Nested(l, c[n])

\* Nothing is held any more when the call returns.
ReleasesAll(c) == HeldBefore(c, Len(c) + 1) = {}

Neat(c) == c \in Seq(Ops) /\ NestsOnly(c) /\ ReleasesAll(c)

\* Blocks that nest like this and free what they took may follow each other.
LEMMA NeatSequence ==
  ASSUME NEW c, NEW d, Neat(c), Neat(d)
  PROVE  Neat(c \o d)
<1> DEFINE e == c \o d
<1>1. /\ c \in Seq(Ops) /\ d \in Seq(Ops) /\ e \in Seq(Ops)
      /\ Len(c) \in Nat /\ Len(d) \in Nat /\ Len(e) = Len(c) + Len(d)
  BY DEF Neat
<1>2. \A i \in 1..Len(c) : e[i] = c[i]
  BY <1>1
<1>3. \A i \in 1..Len(d) : e[Len(c) + i] = d[i]
  BY <1>1
<1> HIDE DEF e
\* What the first call took it has freed.
<1>4. ASSUME NEW i \in 1..Len(c), c[i].kind # "free"
      PROVE  \E j \in (i + 1)..Len(c) : c[j] = Free(c[i].lock)
  <2>1. c[i].lock \in Locks
    <3>1. c[i] \in Ops
      BY <1>1
    <3> QED
      BY <3>1 DEF Ops
  <2>2. c[i].lock \notin HeldBefore(c, Len(c) + 1)
    BY DEF Neat, ReleasesAll
  <2>3. (Len(c) + 1) - 1 = Len(c)
    BY <1>1
  <2> SUFFICES ASSUME \A j \in (i + 1)..Len(c) : c[j] # Free(c[i].lock) PROVE FALSE
    OBVIOUS
  <2>4. i \in 1..((Len(c) + 1) - 1)
        /\ \A j \in (i + 1)..((Len(c) + 1) - 1) : c[j] # Free(c[i].lock)
    BY <2>3
  <2> QED
    BY <1>4, <2>1, <2>2, <2>4 DEF HeldBefore
<1>5. ASSUME NEW n \in 1..Len(c) PROVE HeldBefore(e, n) \subseteq HeldBefore(c, n)
  <2> SUFFICES ASSUME NEW l \in HeldBefore(e, n) PROVE l \in HeldBefore(c, n)
    OBVIOUS
  <2>1. PICK i \in 1..(n - 1) : /\ e[i].lock = l /\ e[i].kind # "free"
                                /\ \A j \in (i + 1)..(n - 1) : e[j] # Free(l)
    BY DEF HeldBefore
  <2>2. e[i] = c[i] /\ \A j \in (i + 1)..(n - 1) : e[j] = c[j]
    BY <1>1, <1>2
  <2>3. l \in Locks
    BY DEF HeldBefore
  <2> QED
    BY <2>1, <2>2, <2>3 DEF HeldBefore
<1>6. ASSUME NEW n \in 1..(Len(d) + 1), NEW l \in HeldBefore(e, Len(c) + n)
      PROVE  l \in HeldBefore(d, n)
  <2>1. PICK i \in 1..((Len(c) + n) - 1) :
          /\ e[i].lock = l /\ e[i].kind # "free"
          /\ \A j \in (i + 1)..((Len(c) + n) - 1) : e[j] # Free(l)
    BY <1>6 DEF HeldBefore
  <2>2. i > Len(c)
    <3> SUFFICES ASSUME i <= Len(c) PROVE FALSE
      BY <1>1
    <3>1. i \in 1..Len(c) /\ c[i] = e[i]
      BY <1>1, <1>2
    <3>2. PICK j \in (i + 1)..Len(c) : c[j] = Free(l)
      BY <1>4, <2>1, <3>1
    <3>3. e[j] = Free(l) /\ j \in (i + 1)..((Len(c) + n) - 1)
      BY <1>1, <1>2, <3>1, <3>2
    <3> QED
      BY <2>1, <3>3
  <2> DEFINE k == i - Len(c)
  <2>3. k \in 1..(n - 1) /\ k \in 1..Len(d) /\ Len(c) + k = i
    BY <1>1, <2>2
  <2>4. d[k].lock = l /\ d[k].kind # "free"
    BY <1>3, <2>1, <2>3
  <2>5. ASSUME NEW j \in (k + 1)..(n - 1) PROVE d[j] # Free(l)
    <3>1. j \in 1..Len(d) /\ Len(c) + j \in (i + 1)..((Len(c) + n) - 1)
      BY <1>1, <2>3
    <3> QED
      BY <1>3, <2>1, <3>1
  <2>6. l \in Locks
    BY <1>6 DEF HeldBefore
  <2> QED
    BY <2>3, <2>4, <2>5, <2>6 DEF HeldBefore
<1>7. NestsOnly(e)
  <2> SUFFICES ASSUME NEW n \in 1..Len(e), e[n].kind # "free", NEW l \in HeldBefore(e, n)
               PROVE  Nested(l, e[n])
    BY DEF NestsOnly
  <2>1. CASE n <= Len(c)
    <3>1. n \in 1..Len(c) /\ e[n] = c[n] /\ l \in HeldBefore(c, n)
      BY <1>1, <1>2, <1>5, <2>1
    <3> QED
      BY <3>1 DEF Neat, NestsOnly
  <2>2. CASE n > Len(c)
    <3> DEFINE m == n - Len(c)
    <3>1. m \in 1..Len(d) /\ m \in 1..(Len(d) + 1) /\ n = Len(c) + m
      BY <1>1, <2>2
    <3>2. e[n] = d[m] /\ l \in HeldBefore(d, m)
      BY <1>3, <1>6, <3>1
    <3> QED
      BY <3>1, <3>2 DEF Neat, NestsOnly
  <2> QED
    BY <1>1, <2>1, <2>2
<1>8. ReleasesAll(e)
  <2>1. Len(d) + 1 \in 1..(Len(d) + 1) /\ Len(e) + 1 = Len(c) + (Len(d) + 1)
    BY <1>1
  <2>2. HeldBefore(e, Len(e) + 1) \subseteq HeldBefore(d, Len(d) + 1)
    BY <1>6, <2>1
  <2> QED
    BY <2>2 DEF Neat, ReleasesAll
<1> QED
  BY <1>1, <1>7, <1>8 DEF Neat, e

\* The blocks the calls are made of.
LEMMA NeatBlocks ==
  /\ \A l \in Locks : Neat(Touch(l)) /\ Neat(Update(l))
  /\ Neat(ReadQuotes) /\ Neat(PolyWsStamp) /\ Neat(Coverage) /\ Neat(AddMarkets)
  /\ Neat(WsStats)
  /\ Neat(<<Write("lookup"), Read("markets"), Free("markets"), Free("lookup")>>)
<1>1. ASSUME NEW l \in Locks PROVE Neat(Touch(l)) /\ Neat(Update(l))
  BY DEF Neat, Touch, Update, NestsOnly, ReleasesAll, HeldBefore, Read, Write, Free, Ops
<1>2. Neat(PolyWsStamp)
  BY DEF Neat, PolyWsStamp, NestsOnly, Nested, ReleasesAll, HeldBefore, Read, Write, Free, Ops, Locks
<1>3. Neat(AddMarkets)
  BY DEF Neat, AddMarkets, NestsOnly, Nested, ReleasesAll, HeldBefore, Read, Write, Free, Ops, Locks
<1>4. Neat(Coverage)
  BY DEF Neat, Coverage, NestsOnly, Nested, ReleasesAll, HeldBefore, Read, Write, Free, Ops, Locks
<1>5. Neat(ReadQuotes)
  BY DEF Neat, ReadQuotes, NestsOnly, Nested, ReleasesAll, HeldBefore, Read, Write, Free, Ops, Locks
<1>6. Neat(WsStats)
  BY DEF Neat, WsStats, NestsOnly, Nested, ReleasesAll, HeldBefore, Read, Write, Free, Ops, Locks
<1>7. Neat(<<Write("lookup"), Read("markets"), Free("markets"), Free("lookup")>>)
  BY DEF Neat, NestsOnly, Nested, ReleasesAll, HeldBefore, Read, Write, Free, Ops, Locks
<1> QED
  BY <1>1, <1>2, <1>3, <1>4, <1>5, <1>6, <1>7

\* Every call of the manager nests its locks in those nine ways only, and
\* returns with nothing held.
LEMMA CallsAreNeat == \A name \in DOMAIN Calls : Neat(Calls[name])
<1>1. Neat(Detect)
  BY NeatBlocks, NeatSequence DEF Detect, Locks
<1>2. Neat(KalshiWsQuote) /\ Neat(PolyWsQuote)
  BY <1>1, NeatBlocks, NeatSequence DEF KalshiWsQuote, PolyWsQuote, Locks
<1>3. Neat(KalshiRestQuotes) /\ Neat(PolyRestQuotes)
  BY <1>1, NeatBlocks, NeatSequence DEF KalshiRestQuotes, PolyRestQuotes, Locks
<1>4. Neat(Eligibility) /\ Neat(AddMarkets) /\ Neat(Coverage) /\ Neat(WsStats)
  BY NeatBlocks, NeatSequence DEF Eligibility, Locks
<1>5. Neat(RemoveEnded)
  BY NeatBlocks, NeatSequence DEF RemoveEnded, Locks
<1> QED
  BY <1>2, <1>3, <1>4, <1>5 DEF Calls

-----------------------------------------------------------------------------
\* What a call holds after its operation n.
LEMMA HeldAfter ==
  ASSUME NEW c \in Seq(Ops), NEW n \in 1..Len(c)
  PROVE  /\ c[n].kind = "free" =>
              HeldBefore(c, n) \ {c[n].lock} \subseteq HeldBefore(c, n + 1)
         /\ c[n].kind # "free" =>
              HeldBefore(c, n) \cup {c[n].lock} \subseteq HeldBefore(c, n + 1)
<1>1. c[n] \in Ops
  OBVIOUS
<1>2. ASSUME NEW l \in HeldBefore(c, n), c[n] # Free(l)
      PROVE  l \in HeldBefore(c, n + 1)
  <2>1. PICK i \in 1..(n - 1) : /\ c[i].lock = l /\ c[i].kind # "free"
                                /\ \A j \in (i + 1)..(n - 1) : c[j] # Free(l)
    BY <1>2 DEF HeldBefore
  <2>2. i \in 1..((n + 1) - 1) /\ \A j \in (i + 1)..((n + 1) - 1) : c[j] # Free(l)
    BY <2>1, <1>2
  <2> QED
    BY <2>1, <2>2, <1>2 DEF HeldBefore
<1>3. c[n].kind # "free" => c[n].lock \in HeldBefore(c, n + 1)
  <2> SUFFICES ASSUME c[n].kind # "free" PROVE c[n].lock \in HeldBefore(c, n + 1)
    OBVIOUS
  <2>1. n \in 1..((n + 1) - 1) /\ \A j \in (n + 1)..((n + 1) - 1) : c[j] # Free(c[n].lock)
    OBVIOUS
  <2> QED
    BY <2>1, <1>1 DEF HeldBefore, Ops
<1>4. \A l : c[n] = Free(l) => c[n].kind = "free" /\ c[n].lock = l
  BY DEF Free
<1> QED
  BY <1>2, <1>3, <1>4

-----------------------------------------------------------------------------
(* Types.                                                                  *)

\* A task that is in a call is at one of its operations.
LEMMA OpType ==
  ASSUME TypeOK, NEW t \in Tasks, Busy(t)
  PROVE  /\ call[t] \in DOMAIN Calls
         /\ Calls[call[t]] \in Seq(Ops)
         /\ at[t] \in 1..Len(Calls[call[t]])
         /\ Op(t) \in Ops
<1>1. call[t] \in DOMAIN Calls /\ at[t] \in 1..Len(Calls[call[t]])
  BY DEF TypeOK, Busy
<1>2. Calls[call[t]] \in Seq(Ops)
  BY <1>1, CallsAreOps
<1> QED
  BY <1>1, <1>2 DEF Op

LEMMA AdvanceType ==
  ASSUME TypeOK, NEW t \in Tasks, Busy(t), Advance(t)
  PROVE  /\ call' \in [Tasks -> DOMAIN Calls \cup {"none"}]
         /\ at' \in [Tasks -> Nat]
         /\ \A u \in Tasks :
              IF call'[u] = "none" THEN at'[u] = 1 ELSE at'[u] \in 1..Len(Calls[call'[u]])
<1> DEFINE c == Calls[call[t]]
<1>1. call[t] \in DOMAIN Calls /\ c \in Seq(Ops) /\ at[t] \in 1..Len(c)
  BY OpType
<1>2. Len(c) \in Nat
  BY <1>1
<1>3. CASE at[t] = Len(c)
  <2>1. at' = [at EXCEPT ![t] = 1] /\ call' = [call EXCEPT ![t] = "none"]
    BY <1>3 DEF Advance
  <2>2. at' \in [Tasks -> Nat] /\ call' \in [Tasks -> DOMAIN Calls \cup {"none"}]
    BY <2>1 DEF TypeOK
  <2>3. ASSUME NEW u \in Tasks
        PROVE  IF call'[u] = "none" THEN at'[u] = 1 ELSE at'[u] \in 1..Len(Calls[call'[u]])
    <3>1. CASE u = t
      BY <2>1, <3>1 DEF TypeOK
    <3>2. CASE u # t
      BY <2>1, <3>2 DEF TypeOK
    <3> QED
      BY <3>1, <3>2
  <2> QED
    BY <2>2, <2>3
<1>4. CASE at[t] # Len(c)
  <2>1. at[t] + 1 \in 1..Len(c)
    BY <1>1, <1>2, <1>4
  <2>2. at' = [at EXCEPT ![t] = at[t] + 1] /\ call' = call
    BY <1>4 DEF Advance
  <2>3. at' \in [Tasks -> Nat]
    BY <2>2 DEF TypeOK
  <2>4. ASSUME NEW u \in Tasks
        PROVE  IF call'[u] = "none" THEN at'[u] = 1 ELSE at'[u] \in 1..Len(Calls[call'[u]])
    <3>1. CASE u = t
      <4>1. at'[u] = at[t] + 1 /\ call'[u] = call[t]
        BY <2>2, <3>1 DEF TypeOK
      <4> QED
        BY <2>1, <4>1 DEF Busy
    <3>2. CASE u # t
      BY <2>2, <3>2 DEF TypeOK
    <3> QED
      BY <3>1, <3>2
  <2> QED
    BY <2>2, <2>3, <2>4 DEF TypeOK
<1> QED
  BY <1>3, <1>4

\* Every variable keeps its type, and a task in a call is always at one of
\* the operations of that call.
THEOREM LocksTypeCorrect == Spec => []TypeOK
<1>1. Init => TypeOK
  BY DEF Init, TypeOK
<1>2. TypeOK /\ [Next]_vars => TypeOK'
  <2> SUFFICES ASSUME TypeOK, [Next]_vars PROVE TypeOK'
    OBVIOUS
  <2>1. CASE UNCHANGED vars
    BY <2>1 DEF TypeOK, vars
  <2>2. ASSUME NEW t \in Tasks, Enter(t) PROVE TypeOK'
    <3>1. PICK c \in Runs[t] : call' = [call EXCEPT ![t] = c]
      BY <2>2 DEF Enter
    <3>2. c \in DOMAIN Calls /\ Len(Calls[c]) >= 1 /\ Calls[c] \in Seq(Ops)
      BY RunsAssumption, CallsAreOps
    <3>3. at[t] = 1 /\ UNCHANGED <<at, readers, writer>>
      BY <2>2 DEF TypeOK, Enter, Busy
    <3>4. 1 \in 1..Len(Calls[c])
      BY <3>2
    <3> QED
      BY <3>1, <3>2, <3>3, <3>4 DEF TypeOK
  <2>3. ASSUME NEW t \in Tasks, AcquireRead(t) PROVE TypeOK'
    BY <2>3, AdvanceType, OpType DEF AcquireRead, TypeOK, Ops
  <2>4. ASSUME NEW t \in Tasks, Claim(t) PROVE TypeOK'
    BY <2>4, OpType DEF Claim, TypeOK, Ops
  <2>5. ASSUME NEW t \in Tasks, AcquireWrite(t) PROVE TypeOK'
    BY <2>5, AdvanceType DEF AcquireWrite, TypeOK
  <2>6. ASSUME NEW t \in Tasks, Release(t) PROVE TypeOK'
    BY <2>6, AdvanceType, OpType DEF Release, TypeOK, Ops
  <2> QED
    BY <2>1, <2>2, <2>3, <2>4, <2>5, <2>6 DEF Next, Move
<1> QED
  BY <1>1, <1>2, PTL DEF Spec

-----------------------------------------------------------------------------
(* The locks follow the text of the calls.                                 *)

IInv == TypeOK /\ HoldInv

\* A task that goes on holds what the text says before its next operation,
\* also when the call returns, and nobody else is touched.
LEMMA AdvanceHolds ==
  ASSUME TypeOK, NEW t \in Tasks, Busy(t), Advance(t),
         ReleasesAll(Calls[call[t]])
  PROVE  /\ Holding(t)' = HeldBefore(Calls[call[t]], at[t] + 1)
         /\ \A u \in Tasks \ {t} :
              call'[u] = call[u] /\ at'[u] = at[u] /\ Holding(u)' = Holding(u)
<1> DEFINE c == Calls[call[t]]
<1>1. at[t] \in 1..Len(c) /\ call[t] \in DOMAIN Calls /\ call[t] # "none"
  BY OpType DEF Busy
<1>2. \A u \in Tasks \ {t} : call'[u] = call[u] /\ at'[u] = at[u]
  BY DEF Advance, TypeOK
<1>3. \A u \in Tasks \ {t} : Holding(u)' = Holding(u)
  BY <1>2 DEF Holding, Busy
<1>4. CASE at[t] = Len(c)
  <2>1. call'[t] = "none"
    BY <1>4 DEF Advance, TypeOK
  <2> QED
    BY <2>1, <1>2, <1>3, <1>4 DEF Holding, Busy, ReleasesAll
<1>5. CASE at[t] # Len(c)
  <2>1. call'[t] = call[t] /\ at'[t] = at[t] + 1
    BY <1>5 DEF Advance, TypeOK
  <2> QED
    BY <2>1, <1>1, <1>2, <1>3 DEF Holding, Busy
<1> QED
  BY <1>4, <1>5

\* One operation of a task other than a claim keeps HoldInv.
LEMMA StepHolds ==
  ASSUME IInv, NEW t \in Tasks, Busy(t), Advance(t), ReleasesAll(Calls[call[t]]),
         \A u \in Tasks \ {t} : \A l \in Locks :
           (u \in readers'[l] => u \in readers[l]) /\ (u \in writer'[l] => u \in writer[l]),
         \A l \in Locks : t \in readers'[l] \/ t \in writer'[l] =>
           l \in HeldBefore(Calls[call[t]], at[t] + 1)
  PROVE  HoldInv'
<1>1. /\ Holding(t)' = HeldBefore(Calls[call[t]], at[t] + 1)
      /\ \A u \in Tasks \ {t} :
           call'[u] = call[u] /\ at'[u] = at[u] /\ Holding(u)' = Holding(u)
  BY AdvanceHolds DEF IInv
<1>2. ASSUME NEW u \in Tasks, NEW l \in Locks
      PROVE  /\ u \in readers'[l] => l \in Holding(u)'
             /\ u \in writer'[l] => l \in Holding(u)' \/ (Busy(u)' /\ Op(u)' = Write(l))
  <2>1. CASE u = t
    BY <1>1, <2>1
  <2>2. CASE u # t
    <3>1. Holding(u)' = Holding(u) /\ Busy(u)' = Busy(u) /\ Op(u)' = Op(u)
      BY <1>1, <2>2 DEF Busy, Op
    <3> QED
      BY <3>1, <2>2 DEF IInv, HoldInv
  <2> QED
    BY <2>1, <2>2
<1> QED
  BY <1>2 DEF HoldInv

LEMMA IInvInductive == Spec => []IInv
<1>1. Init => IInv
  <2> SUFFICES ASSUME Init PROVE HoldInv /\ TypeOK
    BY DEF IInv
  <2>1. \A t \in Tasks : ~Busy(t)
    BY DEF Init, Busy
  <2> QED
    BY <2>1 DEF Init, HoldInv, TypeOK
<1>2. IInv /\ [Next]_vars => HoldInv'
  <2> SUFFICES ASSUME IInv, [Next]_vars PROVE HoldInv'
    OBVIOUS
  <2>1. TypeOK /\ HoldInv
    BY DEF IInv
  <2>2. ASSUME NEW t \in Tasks, Busy(t)
        PROVE  /\ Calls[call[t]] \in Seq(Ops)
               /\ at[t] \in 1..Len(Calls[call[t]])
               /\ Op(t) = Calls[call[t]][at[t]] /\ Op(t) \in Ops
               /\ ReleasesAll(Calls[call[t]])
               /\ Holding(t) = HeldBefore(Calls[call[t]], at[t])
    BY <2>1, <2>2, OpType, CallsAreNeat DEF Op, Holding, Neat
  <2>3. CASE UNCHANGED vars
    BY <2>1, <2>3 DEF vars, HoldInv, Holding, Busy, Op
  <2>4. ASSUME NEW t \in Tasks, Enter(t) PROVE HoldInv'
    <3>1. /\ UNCHANGED <<at, readers, writer>>
          /\ \A u \in Tasks \ {t} : call'[u] = call[u]
      BY <2>1, <2>4 DEF Enter, TypeOK
    <3>2. \A l \in Locks : t \notin readers[l] /\ t \notin writer[l]
      BY <2>1, <2>4 DEF Enter, HoldInv, Holding
    <3> QED
      BY <2>1, <3>1, <3>2 DEF HoldInv, Holding, Busy, Op
  <2>5. ASSUME NEW t \in Tasks, AcquireRead(t) PROVE HoldInv'
    <3>1. Busy(t) /\ Advance(t) /\ Op(t).kind = "read"
      BY <2>5 DEF AcquireRead
    <3>2. HeldBefore(Calls[call[t]], at[t]) \cup {Op(t).lock}
            \subseteq HeldBefore(Calls[call[t]], at[t] + 1)
      BY <2>2, <3>1, HeldAfter
    <3>3. writer' = writer /\ readers' = [readers EXCEPT ![Op(t).lock] = @ \cup {t}]
      BY <2>5 DEF AcquireRead
    <3>4. \A l \in Locks : t \in writer[l] => l \in Holding(t)
      BY <2>1, <3>1 DEF HoldInv, Write
    <3>5. \A l \in Locks : t \in readers'[l] => l \in Holding(t) \cup {Op(t).lock}
      BY <2>1, <3>3 DEF HoldInv, TypeOK
    <3>6. \A u \in Tasks \ {t} : \A l \in Locks : u \in readers'[l] => u \in readers[l]
      BY <2>1, <3>3 DEF TypeOK
    <3> QED
      BY <2>2, <3>1, <3>2, <3>3, <3>4, <3>5, <3>6, StepHolds
  <2>6. ASSUME NEW t \in Tasks, Claim(t) PROVE HoldInv'
    <3>1. /\ UNCHANGED <<call, at, readers>> /\ Busy(t) /\ Op(t).kind = "write"
          /\ writer' = [writer EXCEPT ![Op(t).lock] = {t}]
      BY <2>6 DEF Claim
    <3>2. Op(t) = Write(Op(t).lock)
      BY <2>2, <3>1 DEF Ops, Write
    <3>3. \A u \in Tasks, l \in Locks :
            u \in writer'[l] => u \in writer[l] \/ (u = t /\ l = Op(t).lock)
      BY <2>1, <3>1 DEF TypeOK
    <3> QED
      BY <2>1, <3>1, <3>2, <3>3 DEF HoldInv, Holding, Busy, Op
  <2>7. ASSUME NEW t \in Tasks, AcquireWrite(t) PROVE HoldInv'
    <3>1. /\ UNCHANGED <<readers, writer>> /\ Busy(t) /\ Advance(t)
          /\ Op(t).kind = "write"
      BY <2>7 DEF AcquireWrite
    <3>2. HeldBefore(Calls[call[t]], at[t]) \cup {Op(t).lock}
            \subseteq HeldBefore(Calls[call[t]], at[t] + 1)
      BY <2>2, <3>1, HeldAfter
    <3>3. \A l \in Locks : t \in readers[l] \/ t \in writer[l] =>
            l \in Holding(t) \cup {Op(t).lock}
      BY <2>1 DEF HoldInv, Write
    <3> QED
      BY <2>2, <3>1, <3>2, <3>3, StepHolds
  <2>8. ASSUME NEW t \in Tasks, Release(t) PROVE HoldInv'
    <3>1. /\ Busy(t) /\ Advance(t) /\ Op(t).kind = "free"
          /\ readers' = [readers EXCEPT ![Op(t).lock] = @ \ {t}]
          /\ writer' = [writer EXCEPT ![Op(t).lock] = @ \ {t}]
      BY <2>8 DEF Release
    <3>2. HeldBefore(Calls[call[t]], at[t]) \ {Op(t).lock}
            \subseteq HeldBefore(Calls[call[t]], at[t] + 1)
      BY <2>2, <3>1, HeldAfter
    <3>3. \A l \in Locks : t \in readers[l] \/ t \in writer[l] => l \in Holding(t)
      BY <2>1, <3>1 DEF HoldInv, Write
    <3>4. \A u \in Tasks, l \in Locks :
            /\ u \in readers'[l] => u \in readers[l] /\ ~(u = t /\ l = Op(t).lock)
            /\ u \in writer'[l] => u \in writer[l] /\ ~(u = t /\ l = Op(t).lock)
      BY <2>1, <3>1 DEF TypeOK
    <3> QED
      BY <2>2, <3>1, <3>2, <3>3, <3>4, StepHolds
  <2> QED
    BY <2>3, <2>4, <2>5, <2>6, <2>7, <2>8 DEF Next, Move
<1> QED
  BY <1>1, <1>2, LocksTypeCorrect, PTL DEF Spec, IInv

-----------------------------------------------------------------------------
(* The circles.                                                            *)

\* A task of a circle asks for a lock, and what it holds meanwhile is one of
\* the nine ways.
LEMMA WaitsNested ==
  ASSUME IInv, NEW D \in Circles, NEW t \in D
  PROVE  /\ t \in Tasks /\ Busy(t) /\ Op(t) \in Ops /\ Op(t).kind # "free"
         /\ \A l \in Holding(t) : Nested(l, Op(t))
<1>1. t \in Tasks /\ Busy(t) /\ Op(t).kind # "free"
  BY DEF Circles, WaitsFor
<1>2. /\ at[t] \in 1..Len(Calls[call[t]]) /\ Op(t) \in Ops
      /\ Neat(Calls[call[t]])
  BY <1>1, OpType, CallsAreNeat DEF IInv
<1>3. Op(t) = Calls[call[t]][at[t]] /\ Holding(t) = HeldBefore(Calls[call[t]], at[t])
  BY <1>1 DEF Op, Holding
<1> QED
  BY <1>1, <1>2, <1>3 DEF Neat, NestsOnly

\* A task of a circle waits for another of it that holds the lock, perhaps
\* behind a writer that itself waits for the readers inside.
LEMMA WaitsForHolder ==
  ASSUME IInv, NEW D \in Circles, NEW t \in D
  PROVE  \E v \in D : Op(t).lock \in Holding(v)
<1>1. ASSUME NEW u \in D
      PROVE  u \in Tasks /\ Busy(u) /\ Op(u).kind # "free" /\ Op(u).lock \in Locks
  BY WaitsNested DEF Ops
<1>2. ASSUME NEW u \in D PROVE WaitsFor(u) \cap D # {}
  BY DEF Circles
<1>3. ASSUME NEW u \in D, NEW v \in readers[Op(u).lock] \cap D
      PROVE  Op(u).lock \in Holding(v)
  BY <1>1 DEF IInv, HoldInv
<1>4. CASE Op(t).kind = "write" /\ t \in writer[Op(t).lock]
  BY <1>1, <1>2, <1>3, <1>4 DEF WaitsFor
<1>5. CASE ~(Op(t).kind = "write" /\ t \in writer[Op(t).lock])
  <2>1. PICK v \in D : v \in writer[Op(t).lock]
    BY <1>1, <1>2, <1>5 DEF WaitsFor
  <2>2. CASE Op(t).lock \notin Holding(v)
    <3>1. Op(v) = Write(Op(t).lock)
      BY <1>1, <2>1, <2>2 DEF IInv, HoldInv
    <3>2. Op(v).kind = "write" /\ Op(v).lock = Op(t).lock
      BY <3>1 DEF Write
    <3>3. readers[Op(v).lock] \cap D # {}
      BY <1>1, <1>2, <2>1, <3>2 DEF WaitsFor
    <3> QED
      BY <1>3, <3>2, <3>3
  <2> QED
    BY <2>1, <2>2
<1> QED
  BY <1>4, <1>5

\* How high a task of a circle asks: a task that holds nothing is waited for
\* by nobody.
Height(t) ==
  IF Holding(t) = {} THEN 0
  ELSE IF Op(t).kind = "read" /\ Op(t).lock = "kalshi_ws_at" THEN 1
  ELSE IF Op(t).kind = "read" /\ Op(t).lock = "markets" THEN 2
  ELSE IF Op(t).kind = "write" /\ Op(t).lock = "lookup" THEN 3
  ELSE IF Op(t).kind = "read" /\ Op(t).lock = "kalshi_quotes" THEN 4
  ELSE IF Op(t).kind = "read" /\ Op(t).lock = "poly_quotes" THEN 5
  ELSE 6

LEMMA HeightType == \A t \in Tasks : Height(t) \in 0..6
BY DEF Height

\* Without the two pairs of requests, a task waits for one that asks higher.
LEMMA HolderAsksHigher ==
  ASSUME IInv, NEW D \in Circles, ~ListAndMap(D), ~QuotesAndStamps(D), NEW t \in D
  PROVE  \E v \in D : Height(t) < Height(v)
<1>1. ASSUME NEW u \in D
      PROVE  /\ Busy(u) /\ Op(u) \in Ops
             /\ \A l \in Holding(u) : Nested(l, Op(u))
  BY WaitsNested
<1>2. PICK v \in D : Op(t).lock \in Holding(v)
  BY WaitsForHolder
<1>3. Nested(Op(t).lock, Op(v)) /\ Holding(v) # {}
  BY <1>1, <1>2
<1>4. \A u \in D : Op(u).kind = "read" => Op(u) = Read(Op(u).lock)
  BY <1>1 DEF Ops, Read
<1>5. \A u \in D : Op(u).kind = "write" => Op(u) = Write(Op(u).lock)
  BY <1>1 DEF Ops, Write
\* who holds a lock while another asks for it
<1>6. ASSUME Op(t).lock = "lookup" PROVE Holding(t) = {}
  <2> SUFFICES ASSUME NEW l \in Holding(t) PROVE FALSE
    OBVIOUS
  <2>1. l = "markets" /\ Op(t).kind = "write"
    BY <1>1, <1>6 DEF Nested
  <2>2. Asks(t, "markets", Write("lookup"))
    BY <1>1, <1>5, <1>6, <2>1 DEF Asks
  <2>3. Op(v).kind = "read" /\ Op(v).lock = "markets"
    BY <1>3, <1>6 DEF Nested
  <2>4. Asks(v, "lookup", Read("markets"))
    BY <1>1, <1>2, <1>4, <1>6, <2>3 DEF Asks
  <2> QED
    BY <2>2, <2>4 DEF ListAndMap
<1>7. ASSUME Op(t).lock = "poly_ws_at" PROVE Holding(t) = {}
  <2> SUFFICES ASSUME NEW l \in Holding(t) PROVE FALSE
    OBVIOUS
  <2>1. l = "poly_quotes" /\ Op(t).kind = "write"
    BY <1>1, <1>7 DEF Nested
  <2>2. Asks(t, "poly_quotes", Write("poly_ws_at"))
    BY <1>1, <1>5, <1>7, <2>1 DEF Asks
  <2>3. ASSUME NEW w \in D, NEW k \in {"poly_ws_at", "kalshi_ws_at"} \cap Holding(w),
               Op(w).kind = "read", Op(w).lock = "markets"
        PROVE  FALSE
    <3>1. Asks(w, k, Read("markets"))
      BY <1>1, <1>4, <2>3 DEF Asks
    <3> QED
      BY <2>2, <3>1 DEF QuotesAndStamps
  <2>4. CASE Op(v).lock = "markets"
    BY <1>2, <1>3, <1>7, <2>3, <2>4 DEF Nested
  <2>5. CASE Op(v).lock # "markets"
    <3>1. Op(v).lock = "kalshi_ws_at"
      BY <1>3, <1>7, <2>5 DEF Nested
    <3>2. PICK w \in D : "kalshi_ws_at" \in Holding(w)
      BY <3>1, WaitsForHolder
    <3>3. Op(w).kind = "read" /\ Op(w).lock = "markets"
      BY <1>1, <3>2 DEF Nested
    <3> QED
      BY <2>3, <3>2, <3>3
  <2> QED
    BY <2>4, <2>5
\* who asks for a lock under another
<1>8. \A l \in Holding(t) : Nested(l, Op(t))
  BY <1>1
<1>9. /\ Op(t).lock = "markets" => Height(t) \in {0, 2}
      /\ Op(t).lock = "kalshi_quotes" => Height(t) \in {0, 4}
      /\ Op(t).lock = "poly_quotes" => Height(t) \in {0, 5}
      /\ Op(t).lock = "kalshi_ws_at" => Height(t) \in {0, 1}
      /\ Op(t).lock \in {"lookup", "poly_ws_at"} => Height(t) = 0
  BY <1>6, <1>7, <1>8 DEF Height, Nested
<1>10. /\ Op(t).lock = "markets" => Height(v) \in {3, 4, 5}
       /\ Op(t).lock = "kalshi_quotes" => Height(v) = 5
       /\ Op(t).lock = "poly_quotes" => Height(v) = 6
       /\ Op(t).lock = "kalshi_ws_at" => Height(v) = 2
       /\ Op(t).lock \in {"lookup", "poly_ws_at"} => Height(v) \in {1, 2}
       /\ Op(t).lock \in {"markets", "kalshi_quotes", "poly_quotes", "kalshi_ws_at",
                          "lookup", "poly_ws_at"}
  BY <1>3 DEF Height, Nested
<1> QED
  BY <1>9, <1>10

\* With every call of the manager, the clean-up of ended markets and the
\* statistics line included, for any number of tasks and any interleaving: if
\* tasks wait for one another in a circle, the scanner's list and map or the
\* quotes and time stamps of Polymarket are in it, both ends of one of those
\* pairs. The other nestings, those made safe by a dropped guard
\* (detection.rs:130) and a snapshot (market_lifecycle.rs:111) included, do not
\* close a circle.
THEOREM OnlyTwoCircles == Spec => []TwoCircles
<1>1. ASSUME IInv PROVE TwoCircles
  <2> SUFFICES ASSUME NEW D \in Circles, ~ListAndMap(D), ~QuotesAndStamps(D)
               PROVE  FALSE
    BY DEF TwoCircles
  <2>1. \A t \in D : \E v \in D : Height(t) < Height(v)
    BY <1>1, HolderAsksHigher
  <2>2. \A t \in D : Height(t) \in 0..6
    BY HeightType DEF Circles
  <2>3. \A t \in D : Height(t) <= 5
    BY <2>1, <2>2
  <2>4. \A t \in D : Height(t) <= 4
    BY <2>1, <2>2, <2>3
  <2>5. \A t \in D : Height(t) <= 3
    BY <2>1, <2>2, <2>4
  <2>6. \A t \in D : Height(t) <= 2
    BY <2>1, <2>2, <2>5
  <2>7. \A t \in D : Height(t) <= 1
    BY <2>1, <2>2, <2>6
  <2>8. \A t \in D : Height(t) <= 0
    BY <2>1, <2>2, <2>7
  <2> QED
    BY <2>1, <2>2, <2>8 DEF Circles
<1> QED
  BY <1>1, IInvInductive, PTL
=============================================================================
