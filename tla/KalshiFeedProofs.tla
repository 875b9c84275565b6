--------------------------- MODULE KalshiFeedProofs ---------------------------
(***************************************************************************)
(* The order books of Kalshi, for any tickers, connections, faults and     *)
(* sizes of the channels.                                                  *)
(***************************************************************************)
EXTENDS KalshiFeed, TLAPS

USE KalshiFeedAssumption

\* The elements of commands.
Commands == [op : {"subscribe", "unsubscribe"}, ticker : Tickers]

\* The values of pend and rest.
Pends == [ticker : Tickers, has : Contents, step : {"stamp", "list"},
          changed : BOOLEAN, after : BOOLEAN] \cup {NoPend}
Cycles == [step : {"asked", "read", "applied"}, known : SUBSET Tickers, newer : SUBSET Tickers,
           puts : [Tickers -> Contents]]

LEMMA AppendType == ASSUME NEW S, NEW s \in Seq(S), NEW e \in S PROVE Append(s, e) \in Seq(S)
OBVIOUS

LEMMA TailType ==
  ASSUME NEW S, NEW s \in Seq(S), s # <<>> PROVE Head(s) \in S /\ Tail(s) \in Seq(S)
OBVIOUS

LEMMA InitTypes == Init => TypeOK
<1> SUFFICES ASSUME Init PROVE TypeOK
  OBVIOUS
<1>1. prices \in Seq(Updates) /\ Len(prices) <= ChannelSize
  BY DEF Init
<1>2. cache \in [Tickers -> [epoch : 0..MaxEpoch, has : Contents]]
  BY DEF Init, NoBook, Contents
<1>3. /\ quote \in [Tickers -> Contents] /\ listed \in [Tickers -> Contents]
      /\ rest.puts \in [Tickers -> Contents]
  BY DEF Init, Contents, Upto, Asked
<1>4. wire \in Seq(Frames) /\ commands \in Seq(Commands)
  BY DEF Init
<1>5. skipped \in BOOLEAN /\ clean \in BOOLEAN
  BY Zenon DEF Init
<1>6. /\ pend \in Pends
      /\ rest \in Cycles
  BY <1>3 DEF Init, Pends, Cycles, Asked
<1> QED BY <1>1, <1>2, <1>3, <1>4, <1>5, <1>6 DEF Init, TypeOK, Commands, Pends, Cycles

LEMMA FrameType ==
  ASSUME TypeOK, NEW kind \in {"snapshot", "delta"}, NEW t \in Tickers, NEW n \in 0..MaxChanges
  PROVE  Frame(kind, t, n) \in Frames
BY DEF TypeOK, Frame, Frames

LEMMA DroppedType == TypeOK => Dropped \in Frames
BY DEF TypeOK, Dropped, Frames

\* What a frame for a book does to the cache and to the update that is held.
LEMMA WrittenTypes ==
  ASSUME TypeOK, NEW t \in Tickers, NEW has \in Contents, Written(t, has)
  PROVE  /\ cache' \in [Tickers -> [epoch : 0..MaxEpoch, has : Contents]]
         /\ held' \in Updates \cup {NoUpdate}
<1>1. [epoch |-> epoch, has |-> has] \in [epoch : 0..MaxEpoch, has : Contents]
  BY DEF TypeOK
<1>2. cache' \in [Tickers -> [epoch : 0..MaxEpoch, has : Contents]]
  BY <1>1 DEF Written, TypeOK
<1>3. held' \in Updates \cup {NoUpdate}
  BY DEF Written, Updates
<1> QED BY <1>2, <1>3

LEMMA ParseTypes ==
  ASSUME TypeOK, NEW f \in Frames, f.kind # "unsubscribed", parse_ws_message(f)
  PROVE  /\ cache' \in [Tickers -> [epoch : 0..MaxEpoch, has : Contents]]
         /\ held' \in Updates \cup {NoUpdate}
<1>1. f.ticker \in Tickers /\ f.change \in 0..MaxChanges
  BY DEF Frames
<1>2. Parsed(f.change) \in Contents /\ cache[f.ticker].has \cup {f.change} \in Contents
  BY <1>1 DEF Parsed, Upto, Contents, TypeOK
<1>3. CASE Written(f.ticker, Parsed(f.change))
  BY <1>1, <1>2, <1>3, WrittenTypes
<1>4. CASE Written(f.ticker, cache[f.ticker].has \cup {f.change})
  BY <1>1, <1>2, <1>4, WrittenTypes
<1>5. CASE UNCHANGED <<cache, held>>
  BY <1>5 DEF TypeOK
<1> QED BY <1>3, <1>4, <1>5 DEF parse_ws_message

LEMMA HangupTypes == TypeOK /\ Hangup => TypeOK'
<1> SUFFICES ASSUME TypeOK, Hangup PROVE TypeOK'
  OBVIOUS
<1>1. skipped' \in BOOLEAN /\ clean' \in BOOLEAN
  BY Zenon DEF Hangup
<1>2. wire' \in Seq(Frames) /\ commands' \in Seq(Commands)
  BY DEF Hangup
<1> QED BY <1>1, <1>2 DEF Hangup, registry, quotes, TypeOK, Commands

LEMMA StepTypes == TypeOK /\ [Next]_vars => TypeOK'
<1> SUFFICES ASSUME TypeOK, [Next]_vars PROVE TypeOK'
  OBVIOUS
<1> USE DEF server, client, registry, quotes
<1>1. ASSUME NEW t \in Tickers, Change(t) PROVE TypeOK'
  <2>1. book[t] + 1 \in 0..MaxChanges
    BY <1>1 DEF Change, TypeOK
  <2>2. book' \in [Tickers -> 0..MaxChanges]
    BY <1>1, <2>1 DEF Change, TypeOK
  <2>3. wire' \in Seq(Frames)
    <3>1. Frame("delta", t, book[t] + 1) \in Frames
      BY <2>1, FrameType
    <3>2. wire' = wire \/ wire' = Append(wire, Frame("delta", t, book[t] + 1))
      BY <1>1, Zenon DEF Change
    <3>3. wire \in Seq(Frames)
      BY DEF TypeOK
    <3> QED BY <3>1, <3>2, <3>3, AppendType
  <2>4. skipped' \in BOOLEAN
    BY <1>1, Zenon DEF Change, TypeOK
  <2> QED BY <1>1, <2>2, <2>3, <2>4 DEF Change, TypeOK
<1>2. ASSUME NEW t \in Tickers, ChangeIsLost(t) PROVE TypeOK'
  <2>1. book' \in [Tickers -> 0..MaxChanges]
    BY <1>2 DEF ChangeIsLost, TypeOK
  <2> QED BY <1>2, <2>1 DEF ChangeIsLost, TypeOK
<1>3. ASSUME NEW t \in Tickers, Snapshot(t) PROVE TypeOK'
  <2>1. book[t] \in 0..MaxChanges
    BY DEF TypeOK
  <2>2. wire' \in Seq(Frames)
    <3>1. Frame("snapshot", t, book[t]) \in Frames
      BY <2>1, FrameType
    <3>2. wire' = wire \/ wire' = Append(wire, Frame("snapshot", t, book[t]))
      BY <1>3, Zenon DEF Snapshot
    <3>3. wire \in Seq(Frames)
      BY DEF TypeOK
    <3> QED BY <3>1, <3>2, <3>3, AppendType
  <2>3. skipped' \in BOOLEAN
    BY <1>3, Zenon DEF Snapshot, TypeOK
  <2> QED BY <1>3, <2>2, <2>3 DEF Snapshot, TypeOK
<1>4. CASE DropSubscription
  <2>1. wire' \in Seq(Frames)
    BY <1>4, DroppedType DEF DropSubscription, TypeOK
  <2> QED BY <1>4, <2>1 DEF DropSubscription, TypeOK
<1>5. CASE ReadTickers
  BY <1>5 DEF ReadTickers, TypeOK
<1>6. CASE ConnectFails
  BY <1>6 DEF ConnectFails, TypeOK
<1>7. CASE Connect
  <2>1. clean' \in BOOLEAN
    BY <1>7, Zenon DEF Connect
  <2>2. epoch' \in 0..MaxEpoch
    BY <1>7 DEF Connect, TypeOK
  <2> QED BY <1>7, <2>1, <2>2 DEF Connect, TypeOK
<1>8. CASE SubscribeFails
  <2>1. epoch' \in 0..MaxEpoch
    BY <1>8 DEF SubscribeFails, TypeOK
  <2> QED BY <1>8, <2>1 DEF SubscribeFails, TypeOK
<1>9. CASE Disconnect
  BY <1>9, HangupTypes DEF Disconnect, TypeOK
<1>10. CASE Receive
  <2>1. Head(wire) \in Frames /\ Tail(wire) \in Seq(Frames)
    BY <1>10, TailType DEF Receive, TypeOK
  <2>2. CASE Head(wire).kind = "unsubscribed"
    BY <1>10, <2>2, HangupTypes DEF Receive
  <2>3. CASE Head(wire).kind # "unsubscribed"
    <3>1. /\ cache' \in [Tickers -> [epoch : 0..MaxEpoch, has : Contents]]
          /\ held' \in Updates \cup {NoUpdate}
      BY <1>10, <2>1, <2>3, ParseTypes DEF Receive
    <3> QED BY <1>10, <2>1, <2>3, <3>1 DEF Receive, TypeOK
  <2> QED BY <2>2, <2>3
<1>11. CASE SendPrice
  <2>1. held \in Updates
    BY <1>11 DEF SendPrice, TypeOK
  <2>2. prices' \in Seq(Updates) /\ Len(prices') <= ChannelSize
    BY <1>11, <2>1 DEF SendPrice, TypeOK
  <2> QED BY <1>11, <2>2 DEF SendPrice, TypeOK
<1>12. CASE stamp_quote \/ list_quote
  <2>a. pend \in [ticker : Tickers, has : Contents, step : {"stamp", "list"},
                  changed : BOOLEAN, after : BOOLEAN]
    BY <1>12 DEF stamp_quote, list_quote, TypeOK, NoPend
  <2>1. pend' \in Pends
    <3>1. pend' = NoPend \/ pend' = [pend EXCEPT !.step = "list"]
      BY <1>12 DEF stamp_quote, list_quote
    <3> QED BY <2>a, <3>1 DEF Pends
  <2>2. listed' \in [Tickers -> Contents] /\ quoted' \subseteq Tickers /\ after' \subseteq Tickers
    <3>1. pend.ticker \in Tickers /\ pend.has \in Contents
      BY <2>a
    <3>2. listed' = listed \/ listed' = [listed EXCEPT ![pend.ticker] = pend.has]
      BY <1>12 DEF stamp_quote, list_quote
    <3>3. listed' \in [Tickers -> Contents]
      BY <3>1, <3>2 DEF TypeOK
    <3> QED BY <1>12, <3>1, <3>3 DEF stamp_quote, list_quote, TypeOK
  <2> QED BY <1>12, <2>1, <2>2 DEF stamp_quote, list_quote, TypeOK, Pends
<1>13. CASE RestCycle
  <2>1. ASSUME NEW n, n \in 0..MaxChanges PROVE Upto(n) \in Contents
    BY <2>1 DEF Upto, Contents
  <2>2. CASE RestAsk
    <3>1. pend' \in Pends
      <4>1. CASE pend = NoPend
        <5>1. pend' = NoPend
          BY <2>2, <4>1 DEF RestAsk, NoPend
        <5> QED BY <5>1 DEF Pends
      <4>2. CASE pend # NoPend
        BY <2>2, <4>2 DEF RestAsk, TypeOK, Pends
      <4> QED BY <4>1, <4>2
    <3> QED BY <2>2, <3>1 DEF RestAsk, TypeOK, Pends
  <2>3. CASE RestRead
    <3>1. rest' \in Cycles /\ crossed' \subseteq Tickers
      BY <2>3 DEF RestRead, TypeOK, Cycles
    <3> QED BY <2>3, <3>1 DEF RestRead, TypeOK, Cycles
  <2>4. CASE RestApply
    <3>1. PICK silent \in BOOLEAN, trading \in SUBSET wanted, n \in [Tickers -> Answers] :
            /\ \A t \in trading : n[t] <= book[t]
            /\ listed' = [t \in Tickers |-> IF t \in trading \ ws_owns_prices(silent) THEN Upto(n[t]) ELSE listed[t]]
            /\ rest' = [Asked EXCEPT !.step = "applied",
                                     !.puts = [t \in Tickers |-> IF t \in trading THEN listed'[t] ELSE {}]]
            /\ crossed' = crossed \cup (trading \ ws_owns_prices(silent))
            /\ UNCHANGED <<server, wire, client, prices, quote, quoted, after, pend, registry, clean, missed>>
      BY <2>4 DEF RestApply, RestWrites
    <3>2. \A t \in trading : n[t] \in 0..MaxChanges
      <4>1. \A t \in trading : n[t] \in Nat /\ n[t] <= book[t] /\ book[t] \in 0..MaxChanges
        BY <3>1 DEF TypeOK
      <4> QED BY <4>1
    <3>3. listed' \in [Tickers -> Contents]
      BY <2>1, <3>1, <3>2 DEF TypeOK
    <3>4. [t \in Tickers |-> IF t \in trading THEN listed'[t] ELSE {}] \in [Tickers -> Contents]
      BY <3>3 DEF Contents
    <3>5. rest' \in Cycles
      BY <3>1, <3>4 DEF Asked, Cycles
    <3> QED BY <3>1, <3>3, <3>5 DEF TypeOK, Cycles
  <2>5. CASE RestCache
    <3>1. rest' \in Cycles
      BY <2>5 DEF RestCache, Asked, Cycles, Contents
    <3>2. quote' \in [Tickers -> Contents]
      BY <2>5 DEF RestCache, TypeOK
    <3> QED BY <2>5, <3>1, <3>2 DEF RestCache, TypeOK, Cycles
  <2> QED BY <1>13, <2>2, <2>3, <2>4, <2>5 DEF RestCycle
<1>14. CASE Command
  <2>1. /\ Head(commands) \in Commands
        /\ commands' \in Seq(Commands)
    <3>1. commands \in Seq(Commands) /\ commands # <<>> /\ commands' = Tail(commands)
      BY <1>14 DEF Command, TypeOK, Commands
    <3> QED BY <3>1, TailType
  <2>2. due' \subseteq Tickers /\ missed' \subseteq Tickers
    BY <1>14, <2>1 DEF Command, Commands, TypeOK
  <2>3. cache' \in [Tickers -> [epoch : 0..MaxEpoch, has : Contents]]
    <3>1. NoBook \in [epoch : 0..MaxEpoch, has : Contents]
      BY DEF NoBook, Contents
    <3>2. cache' = cache \/ cache' = [cache EXCEPT ![Head(commands).ticker] = NoBook]
      BY <1>14 DEF Command
    <3>3. Head(commands).ticker \in Tickers
      BY <2>1 DEF Commands
    <3>4. PICK x \in Tickers : cache' = cache \/ cache' = [cache EXCEPT ![x] = NoBook]
      BY <3>2, <3>3, Zenon
    <3>5. cache \in [Tickers -> [epoch : 0..MaxEpoch, has : Contents]]
      BY DEF TypeOK
    <3> QED BY <3>1, <3>4, <3>5
  <2>4. UNCHANGED <<book, serving, skipped, wire, link, asked, epoch, held, prices, quotes,
                    registry, clean>>
    BY <1>14 DEF Command
  <2> QED BY <2>1, <2>2, <2>3, <2>4 DEF TypeOK, Commands
<1>15. ASSUME NEW t \in Tickers, List(t) PROVE TypeOK'
  <2>1. PICK n \in Answers : n <= book[t] /\ listed' = [listed EXCEPT ![t] = Upto(n)]
    BY <1>15 DEF List
  <2>2. n \in Nat /\ book[t] \in 0..MaxChanges
    BY DEF TypeOK
  <2>3. Upto(n) \in Contents
    BY <2>1, <2>2 DEF Upto, Contents
  <2>4. listed' \in [Tickers -> Contents]
    BY <2>1, <2>3 DEF TypeOK
  <2> QED BY <1>15, <2>4 DEF List, TypeOK
<1>16. ASSUME NEW t \in Tickers, subscribe_markets(t) PROVE TypeOK'
  <2>1. [op |-> "subscribe", ticker |-> t] \in Commands
    BY DEF Commands
  <2>2. commands' \in Seq(Commands)
    <3>1. commands' = commands \/ commands' = Append(commands, [op |-> "subscribe", ticker |-> t])
      BY <1>16, Zenon DEF subscribe_markets
    <3>2. commands \in Seq(Commands)
      BY DEF TypeOK, Commands
    <3> QED BY <2>1, <3>1, <3>2, AppendType
  <2> QED BY <1>16, <2>2 DEF subscribe_markets, TypeOK, Commands
<1>17. ASSUME NEW t \in Tickers, EndMarket(t) PROVE TypeOK'
  BY <1>17 DEF EndMarket, TypeOK, Contents
<1>18. ASSUME NEW t \in Tickers, unsubscribe_markets(t) PROVE TypeOK'
  <2>1. [op |-> "unsubscribe", ticker |-> t] \in Commands
    BY DEF Commands
  <2>2. commands' \in Seq(Commands)
    <3>1. commands' = commands \/ commands' = Append(commands, [op |-> "unsubscribe", ticker |-> t])
      BY <1>18, Zenon DEF unsubscribe_markets
    <3>2. commands \in Seq(Commands)
      BY DEF TypeOK, Commands
    <3> QED BY <2>1, <3>1, <3>2, AppendType
  <2> QED BY <1>18, <2>2 DEF unsubscribe_markets, TypeOK, Commands
<1>19. CASE on_price_update
  <2>1. Head(prices) \in Updates
    BY <1>19 DEF on_price_update, TypeOK
  <2>2. quote' \in [Tickers -> Contents]
    BY <1>19, <2>1 DEF on_price_update, TypeOK, Updates
  <2>3. prices' \in Seq(Updates) /\ Len(prices') <= ChannelSize
    BY <1>19 DEF on_price_update, TypeOK
  <2>4. pend' \in Pends
    BY <1>19, <2>1 DEF on_price_update, Updates, Pends
  <2>5. crossed' \subseteq Tickers
    BY <1>19, <2>1 DEF on_price_update, TypeOK
  <2> QED BY <1>19, <2>2, <2>3, <2>4, <2>5 DEF on_price_update, TypeOK, Pends
<1>20. CASE UNCHANGED vars
  BY <1>20 DEF vars, TypeOK
<1> QED
  BY <1>1, <1>2, <1>3, <1>4, <1>5, <1>6, <1>7, <1>8, <1>9, <1>10, <1>11, <1>12, <1>13, <1>14,
     <1>15, <1>16, <1>17, <1>18, <1>19, <1>20 DEF Next, Reader, Handler

-----------------------------------------------------------------------------
(* The inductive invariant.                                                  *)

\* The delta of change n of t is in w, behind position i.
IsDelta(f, t, n) == f.kind = "delta" /\ f.ticker = t /\ f.change = n
Later(w, t, n, i) == \E j \in 1..Len(w) : j > i /\ IsDelta(w[j], t, n)

\* What is in a book and what follows in w are the changes up to b, but for the
\* ones that cannot be parsed.
Readable == (0..MaxChanges) \ Unparsable
Covers(has, w, t, i, b) == \A n \in Readable : n <= b <=> n \in has \/ Later(w, t, n, i)

\* Without a connection nothing is on its way; no book is of a later connection.
LinkInv ==
  /\ link # "up" => wire = <<>> /\ commands = <<>> /\ serving = {} /\ due = {} /\ ~skipped
  /\ link = "up" => epoch # 0
  /\ \A t \in Tickers : cache[t].epoch <= epoch

\* Every book of this connection, and every snapshot on its way, is completed by
\* the deltas behind it.
Good(w, srv) == \A i \in 1..Len(w) : ~w[i].gap /\ w[i].ticker \in srv
CachedInv ==
  \A t \in Tickers : cache[t].epoch = epoch => t \in serving /\ Covers(cache[t].has, wire, t, 0, book[t])
SnapshotInv ==
  \A i \in 1..Len(wire) : wire[i].kind = "snapshot" =>
    Covers(Parsed(wire[i].change), wire, wire[i].ticker, i, book[wire[i].ticker])
BookInv ==
  link = "up" /\ clean /\ ~DropIsPending =>
    ~skipped /\ Good(wire, serving) /\ CachedInv /\ SnapshotInv

\* A ticker that is wanted has been asked for, or will be.
Ordered(q, op, t) == \E i \in 1..Len(q) : q[i].op = op /\ q[i].ticker = t
AskedInv ==
  /\ link = "opening" => wanted \subseteq asked \cup missed \cup adding
  /\ link = "up" /\ ~DropIsPending =>
       \A t \in wanted : t \in serving \cup due \cup missed \cup adding \/ Ordered(commands, "subscribe", t)

\* The last update of t on its way to the quotes, or else its quote, has the
\* book in the cache.
LastIs(q, t, has) ==
  \E i \in 1..Len(q) :
    q[i].ticker = t /\ q[i].has = has /\ \A j \in 1..Len(q) : j > i => q[j].ticker # t
Lacks(q, t) == \A i \in 1..Len(q) : q[i].ticker # t
Followed(t) == t \in wanted \ crossed
Told(t, has) ==
  IF held # NoUpdate /\ held.ticker = t THEN held.has = has
  ELSE LastIs(prices, t, has) \/ (Lacks(prices, t) /\ (Followed(t) => quote[t] = has))
PriceInv ==
  link = "up" =>
    \A t \in Tickers :
      cache[t].epoch = epoch /\ TwoSided(cache[t].has) => Told(t, cache[t].has)

\* The price in the list is the one of the cache, or the handler is about to make
\* it so; what a REST cycle puts in the cache is there already.
Listing(t) == pend.ticker = t /\ pend.changed
ListInv ==
  /\ pend.step = "list" => pend.changed
  /\ \A t \in Tickers : Followed(t) =>
       /\ Listing(t) => pend.has = quote[t]
       /\ ~Listing(t) => listed[t] = quote[t]
       /\ rest.step # "asked" => pend.ticker # t
       /\ rest.step = "applied" => rest.puts[t] \in {{}, quote[t]}

IInv == TypeOK /\ LinkInv /\ BookInv /\ AskedInv /\ PriceInv /\ ListInv

-----------------------------------------------------------------------------
(* Queues: what an Append adds and what a Tail leaves.                       *)

LEMMA AppendElements ==
  ASSUME NEW S, NEW w \in Seq(S), NEW f \in S
  PROVE  /\ Append(w, f) \in Seq(S) /\ Len(w) \in Nat /\ Len(Append(w, f)) = Len(w) + 1
         /\ \A i \in 1..Len(w) : Append(w, f)[i] = w[i]
         /\ Append(w, f)[Len(w) + 1] = f
OBVIOUS

LEMMA TailElements ==
  ASSUME NEW S, NEW w \in Seq(S), w # <<>>
  PROVE  /\ Tail(w) \in Seq(S) /\ Len(w) \in Nat \ {0} /\ Len(Tail(w)) = Len(w) - 1
         /\ \A i \in 1..Len(Tail(w)) : Tail(w)[i] = w[i + 1]
         /\ Head(w) = w[1]
OBVIOUS

LEMMA LaterAppend ==
  ASSUME NEW S, NEW w \in Seq(S), NEW f \in S, NEW t, NEW n, NEW i \in 0..Len(w)
  PROVE  Later(Append(w, f), t, n, i) <=> Later(w, t, n, i) \/ IsDelta(f, t, n)
<1> DEFINE v == Append(w, f)
<1>1. /\ Len(w) \in Nat /\ Len(v) = Len(w) + 1 /\ v[Len(w) + 1] = f
      /\ \A j \in 1..Len(w) : v[j] = w[j]
  BY AppendElements
<1> HIDE DEF v
<1>2. ASSUME Later(v, t, n, i) PROVE Later(w, t, n, i) \/ IsDelta(f, t, n)
  BY <1>1, <1>2 DEF Later
<1>3. ASSUME Later(w, t, n, i) PROVE Later(v, t, n, i)
  BY <1>1, <1>3 DEF Later
<1>4. ASSUME IsDelta(f, t, n) PROVE Later(v, t, n, i)
  <2>1. Len(w) + 1 \in 1..Len(v) /\ Len(w) + 1 > i
    BY <1>1
  <2> QED BY <1>1, <1>4, <2>1 DEF Later
<1> QED BY <1>2, <1>3, <1>4 DEF v

LEMMA LaterTail ==
  ASSUME NEW S, NEW w \in Seq(S), w # <<>>, NEW t, NEW n, NEW i \in Nat
  PROVE  Later(Tail(w), t, n, i) <=> Later(w, t, n, i + 1)
<1> DEFINE v == Tail(w)
<1>1. /\ Len(w) \in Nat \ {0} /\ Len(v) = Len(w) - 1
      /\ \A j \in 1..Len(v) : v[j] = w[j + 1]
  BY TailElements
<1> HIDE DEF v
<1>2. ASSUME Later(v, t, n, i) PROVE Later(w, t, n, i + 1)
  <2>1. PICK j \in 1..Len(v) : j > i /\ IsDelta(v[j], t, n)
    BY <1>2 DEF Later
  <2>2. j + 1 \in 1..Len(w) /\ j + 1 > i + 1 /\ IsDelta(w[j + 1], t, n)
    BY <1>1, <2>1
  <2> QED BY <2>2 DEF Later
<1>3. ASSUME Later(w, t, n, i + 1) PROVE Later(v, t, n, i)
  <2>1. PICK j \in 1..Len(w) : j > i + 1 /\ IsDelta(w[j], t, n)
    BY <1>3 DEF Later
  <2>2. j - 1 \in 1..Len(v) /\ j - 1 > i /\ (j - 1) + 1 = j
    BY <1>1, <2>1
  <2>3. IsDelta(v[j - 1], t, n)
    BY <1>1, <2>1, <2>2
  <2> QED BY <2>2, <2>3 DEF Later
<1> QED BY <1>2, <1>3 DEF v

LEMMA LaterHead ==
  ASSUME NEW S, NEW w \in Seq(S), w # <<>>, NEW t, NEW n
  PROVE  Later(w, t, n, 0) <=> IsDelta(Head(w), t, n) \/ Later(w, t, n, 1)
<1>1. Len(w) \in Nat \ {0} /\ Head(w) = w[1]
  BY TailElements
<1>2. 1 \in 1..Len(w) /\ \A j \in 1..Len(w) : j > 0 /\ (j = 1 \/ j > 1)
  BY <1>1
<1> QED BY <1>1, <1>2 DEF Later

LEMMA OrderedAppend ==
  ASSUME NEW S, NEW q \in Seq(S), NEW c \in S, NEW op, NEW t
  PROVE  Ordered(Append(q, c), op, t) <=> Ordered(q, op, t) \/ (c.op = op /\ c.ticker = t)
<1> DEFINE v == Append(q, c)
<1>1. /\ Len(q) \in Nat /\ Len(v) = Len(q) + 1 /\ v[Len(q) + 1] = c
      /\ \A j \in 1..Len(q) : v[j] = q[j]
  BY AppendElements
<1> HIDE DEF v
<1>2. Len(q) + 1 \in 1..Len(v) /\ \A j \in 1..Len(v) : j \in 1..Len(q) \/ j = Len(q) + 1
  BY <1>1
<1>3. \A j \in 1..Len(q) : j \in 1..Len(v)
  BY <1>1
<1>4. Ordered(v, op, t) <=> Ordered(q, op, t) \/ (c.op = op /\ c.ticker = t)
  BY <1>1, <1>2, <1>3 DEF Ordered
<1> QED BY <1>4 DEF v

LEMMA OrderedTail ==
  ASSUME NEW S, NEW q \in Seq(S), q # <<>>, NEW op, NEW t
  PROVE  Ordered(q, op, t) <=> Ordered(Tail(q), op, t) \/ (Head(q).op = op /\ Head(q).ticker = t)
<1> DEFINE v == Tail(q)
<1>1. /\ Len(q) \in Nat \ {0} /\ Len(v) = Len(q) - 1 /\ Head(q) = q[1]
      /\ \A j \in 1..Len(v) : v[j] = q[j + 1]
  BY TailElements
<1> HIDE DEF v
<1>2. \A j \in 1..Len(v) : j + 1 \in 1..Len(q) /\ v[j] = q[j + 1]
  BY <1>1
<1>3. \A j \in 1..Len(q) : j = 1 \/ (j - 1 \in 1..Len(v) /\ v[j - 1] = q[j])
  BY <1>1
<1>4. 1 \in 1..Len(q)
  BY <1>1
<1>5. Ordered(q, op, t) <=> Ordered(v, op, t) \/ (Head(q).op = op /\ Head(q).ticker = t)
  BY <1>1, <1>2, <1>3, <1>4 DEF Ordered
<1> QED BY <1>5 DEF v

LEMMA DropAppend ==
  ASSUME TypeOK, NEW f \in Frames, wire' = Append(wire, f), ~DropIsPending'
  PROVE  ~DropIsPending
<1>1. /\ Len(wire) \in Nat /\ Len(wire') = Len(wire) + 1
      /\ \A j \in 1..Len(wire) : wire'[j] = wire[j]
      /\ DOMAIN wire = 1..Len(wire) /\ DOMAIN wire' = 1..Len(wire')
  BY AppendElements DEF TypeOK
<1>2. \A j \in 1..Len(wire) : j \in 1..Len(wire')
  BY <1>1
<1> QED BY <1>1, <1>2 DEF DropIsPending

LEMMA DropTail ==
  ASSUME TypeOK, wire # <<>>, wire' = Tail(wire), Head(wire).kind # "unsubscribed", ~DropIsPending'
  PROVE  ~DropIsPending
<1>1. /\ Len(wire) \in Nat \ {0} /\ Len(wire') = Len(wire) - 1 /\ Head(wire) = wire[1]
      /\ \A j \in 1..Len(wire') : wire'[j] = wire[j + 1]
      /\ DOMAIN wire = 1..Len(wire) /\ DOMAIN wire' = 1..Len(wire')
  BY TailElements DEF TypeOK
<1>2. ASSUME NEW j \in 1..Len(wire), wire[j].kind = "unsubscribed"
      PROVE  DropIsPending'
  <2>1. j # 1
    BY <1>1, <1>2
  <2>2. j - 1 \in 1..Len(wire') /\ (j - 1) + 1 = j
    BY <1>1, <2>1
  <2>3. wire'[j - 1].kind = "unsubscribed"
    BY <1>1, <1>2, <2>2
  <2> QED BY <1>1, <2>2, <2>3 DEF DropIsPending
<1> QED BY <1>1, <1>2 DEF DropIsPending

-----------------------------------------------------------------------------
LEMMA InitInv == Init => IInv
<1> SUFFICES ASSUME Init PROVE IInv
  OBVIOUS
<1>1. TypeOK
  BY InitTypes
<1>2. LinkInv
  <2>1. ~skipped
    BY Zenon DEF Init
  <2>2. \A t \in Tickers : cache[t].epoch <= epoch
    <3>1. cache = [t \in Tickers |-> NoBook] /\ epoch = 0
      BY DEF Init
    <3>2. \A t \in Tickers : cache[t] = NoBook
      BY <3>1
    <3>3. NoBook.epoch = 0 /\ 0 <= 0
      BY DEF NoBook
    <3> QED BY <3>1, <3>2, <3>3
  <2> QED BY <2>1, <2>2 DEF Init, LinkInv
<1>3. BookInv /\ AskedInv /\ PriceInv
  BY DEF Init, BookInv, AskedInv, PriceInv
<1>4. ListInv
  <2>1. pend.step = "none" /\ \A t \in Tickers : ~Followed(t)
    BY DEF Init, NoPend, Followed
  <2> QED BY <2>1 DEF ListInv
<1> QED BY <1>1, <1>2, <1>3, <1>4 DEF IInv

\* The price handler and the REST cycle only touch prices.
LEMMA PricingFrame ==
  Handler \/ RestCycle =>
    UNCHANGED <<book, serving, due, skipped, wire, link, asked, commands, epoch, cache, held,
                wanted, adding, dropping, listings, clean, missed>>
BY DEF Handler, on_price_update, stamp_quote, list_quote, RestCycle, RestAsk, RestRead, RestApply,
       RestWrites, RestCache, server, client, registry

LEMMA StepLink == TypeOK /\ LinkInv /\ [Next]_vars => LinkInv'
<1> SUFFICES ASSUME TypeOK, LinkInv, [Next]_vars PROVE LinkInv'
  OBVIOUS
<1> USE DEF LinkInv, server, client, registry
<1>1. ASSUME Hangup PROVE LinkInv'
  <2>1. ~skipped'
    BY <1>1, Zenon DEF Hangup
  <2> QED BY <1>1, <2>1 DEF Hangup
<1>2. ASSUME UNCHANGED <<link, epoch, cache>>, link = "up" PROVE LinkInv'
  BY <1>2
<1>3. ASSUME NEW t \in Tickers, Change(t) PROVE LinkInv'
  <2>1. CASE link = "up"
    BY <1>2, <1>3, <2>1 DEF Change
  <2>2. CASE link # "up"
    <3>1. t \notin serving
      BY <2>2
    <3>2. UNCHANGED <<wire, skipped, link, commands, serving, due, epoch, cache>>
      BY <1>3, <3>1 DEF Change
    <3> QED BY <2>2, <3>2
  <2> QED BY <2>1, <2>2
<1>4. ASSUME NEW t \in Tickers, ChangeIsLost(t) PROVE LinkInv'
  <2>1. link = "up" /\ UNCHANGED <<link, epoch, cache>>
    BY <1>4 DEF ChangeIsLost
  <2> QED BY <1>2, <2>1
<1>5. ASSUME NEW t \in Tickers, Snapshot(t) PROVE LinkInv'
  <2>1. link = "up" /\ UNCHANGED <<link, epoch, cache>>
    BY <1>5 DEF Snapshot
  <2> QED BY <1>2, <2>1
<1>6. CASE Connect \/ SubscribeFails
  <2>1. epoch' = epoch + 1 /\ cache' = cache /\ epoch \in Nat
        /\ \A t \in Tickers : cache[t].epoch \in Nat
    BY <1>6 DEF Connect, SubscribeFails, TypeOK
  <2>2. epoch' # 0 /\ \A t \in Tickers : cache'[t].epoch <= epoch'
    BY <2>1
  <2>3. CASE Connect
    BY <2>2, <2>3 DEF Connect
  <2>4. CASE SubscribeFails
    BY <2>2, <2>4 DEF SubscribeFails
  <2> QED BY <1>6, <2>3, <2>4
<1>7. CASE Receive
  <2>1. CASE Head(wire).kind = "unsubscribed"
    BY <1>1, <1>7, <2>1 DEF Receive
  <2>2. CASE Head(wire).kind # "unsubscribed"
    <3>1. /\ parse_ws_message(Head(wire)) /\ link = "up"
          /\ UNCHANGED <<link, epoch>>
      BY <1>7, <2>2 DEF Receive
    <3>2. \A t \in Tickers : cache'[t] = cache[t] \/ cache'[t].epoch = epoch
      BY <3>1 DEF parse_ws_message, Written, TypeOK
    <3>3. epoch \in Nat
      BY DEF TypeOK
    <3>4. \A t \in Tickers : cache'[t].epoch <= epoch'
      BY <3>1, <3>2, <3>3
    <3> QED BY <3>1, <3>4
  <2> QED BY <2>1, <2>2
<1>8. CASE Command
  <2>1. link = "up" /\ UNCHANGED <<link, epoch>>
    BY <1>8 DEF Command
  <2>2. \A t \in Tickers : cache'[t] = cache[t] \/ cache'[t].epoch = 0
    BY <1>8 DEF Command, TypeOK, NoBook
  <2>3. epoch \in Nat
    BY DEF TypeOK
  <2>4. \A t \in Tickers : cache'[t].epoch <= epoch'
    BY <2>1, <2>2, <2>3
  <2> QED BY <2>1, <2>4
<1>9. ASSUME NEW t \in Tickers, subscribe_markets(t) \/ unsubscribe_markets(t) PROVE LinkInv'
  <2>1. CASE link = "up"
    BY <1>2, <1>9, <2>1 DEF subscribe_markets, unsubscribe_markets
  <2>2. CASE link # "up"
    BY <1>9, <2>2 DEF subscribe_markets, unsubscribe_markets
  <2> QED BY <2>1, <2>2
<1>10. CASE DropSubscription
  <2>1. link = "up" /\ UNCHANGED <<link, epoch, cache>>
    BY <1>10 DEF DropSubscription
  <2> QED BY <1>2, <2>1
<1>11. ASSUME UNCHANGED <<wire, link, commands, serving, due, skipped, epoch, cache>> PROVE LinkInv'
  BY <1>11
<1>12. CASE ReadTickers
  BY <1>12 DEF ReadTickers
<1>13. CASE ConnectFails
  BY <1>13 DEF ConnectFails
<1>14. CASE Handler \/ RestCycle
  BY <1>11, <1>14, PricingFrame
<1> QED
  BY <1>1, <1>3, <1>4, <1>5, <1>6, <1>7, <1>8, <1>9, <1>10, <1>11, <1>12, <1>13, <1>14
     DEF Next, Reader, List, EndMarket, Disconnect, SendPrice, vars

-----------------------------------------------------------------------------
(* A delta that is sent completes whatever the frames before it complete; a  *)
(* frame that is applied moves from the frames to the book.                  *)

LEMMA CoversDelta ==
  ASSUME NEW w \in Seq(Frames), NEW f \in Frames, NEW x, NEW has, NEW i \in 0..Len(w), NEW b \in Nat,
         IsDelta(f, x, b + 1), Covers(has, w, x, i, b)
  PROVE  Covers(has, Append(w, f), x, i, b + 1)
<1> SUFFICES ASSUME NEW n \in Readable
             PROVE  n <= b + 1 <=> n \in has \/ Later(Append(w, f), x, n, i)
  BY DEF Covers
<1>1. Later(Append(w, f), x, n, i) <=> Later(w, x, n, i) \/ IsDelta(f, x, n)
  BY LaterAppend
<1>2. IsDelta(f, x, n) <=> n = b + 1
  BY DEF IsDelta
<1>3. n <= b <=> n \in has \/ Later(w, x, n, i)
  BY DEF Covers
<1>4. n <= b + 1 <=> n <= b \/ n = b + 1
  BY DEF Readable
<1> QED BY <1>1, <1>2, <1>3, <1>4

LEMMA CoversOther ==
  ASSUME NEW w \in Seq(Frames), NEW f \in Frames, NEW x, NEW has, NEW i \in 0..Len(w), NEW b,
         f.kind # "delta" \/ f.ticker # x, Covers(has, w, x, i, b)
  PROVE  Covers(has, Append(w, f), x, i, b)
<1> SUFFICES ASSUME NEW n \in Readable
             PROVE  n <= b <=> n \in has \/ Later(Append(w, f), x, n, i)
  BY DEF Covers
<1>1. Later(Append(w, f), x, n, i) <=> Later(w, x, n, i) \/ IsDelta(f, x, n)
  BY LaterAppend
<1>2. ~IsDelta(f, x, n)
  BY DEF IsDelta
<1> QED BY <1>1, <1>2 DEF Covers

LEMMA CoversTail ==
  ASSUME NEW w \in Seq(Frames), w # <<>>, NEW x, NEW has, NEW i \in Nat, NEW b,
         Covers(has, w, x, i + 1, b)
  PROVE  Covers(has, Tail(w), x, i, b)
<1>1. \A n \in Readable : Later(Tail(w), x, n, i) <=> Later(w, x, n, i + 1)
  BY LaterTail
<1> QED BY <1>1 DEF Covers

LEMMA CoversApplied ==
  ASSUME NEW w \in Seq(Frames), w # <<>>, NEW x, NEW has, NEW b, NEW new,
         Covers(has, w, x, 0, b),
         \A n \in Readable : n \in new <=> n \in has \/ IsDelta(Head(w), x, n)
  PROVE  Covers(new, Tail(w), x, 0, b)
<1> SUFFICES ASSUME NEW n \in Readable
             PROVE  n <= b <=> n \in new \/ Later(Tail(w), x, n, 0)
  BY DEF Covers
<1>1. Later(Tail(w), x, n, 0) <=> Later(w, x, n, 0 + 1)
  BY LaterTail
<1>2. 0 + 1 = 1
  OBVIOUS
<1>3. Later(w, x, n, 0) <=> IsDelta(Head(w), x, n) \/ Later(w, x, n, 1)
  BY LaterHead
<1>4. n <= b <=> n \in has \/ Later(w, x, n, 0)
  BY DEF Covers
<1> QED BY <1>1, <1>2, <1>3, <1>4

LEMMA StepBook == TypeOK /\ LinkInv /\ BookInv /\ [Next]_vars => BookInv'
<1> DEFINE Goal == ~skipped' /\ Good(wire', serving') /\ CachedInv' /\ SnapshotInv'
<1> SUFFICES ASSUME TypeOK, LinkInv, BookInv, [Next]_vars, link' = "up", clean', ~DropIsPending'
             PROVE  Goal
  BY DEF BookInv
<1> USE DEF server, client, registry, quotes
<1>w. wire \in Seq(Frames) /\ Len(wire) \in Nat
  BY DEF TypeOK
<1>1. ASSUME UNCHANGED <<wire, serving, skipped, cache, epoch, book, link, clean>> PROVE Goal
  BY <1>1 DEF BookInv, CachedInv, SnapshotInv, DropIsPending
<1>2. ASSUME NEW t \in Tickers, Change(t) PROVE Goal
  <2> USE <1>2 DEF Change
  <2>1. CASE t \in serving
    <3> DEFINE f == Frame("delta", t, book[t] + 1)
    <3>1. wire' = Append(wire, f) /\ UNCHANGED <<serving, cache, epoch, clean>>
      BY <2>1
    <3>2. /\ book[t] \in Nat /\ book[t] + 1 \in 0..MaxChanges /\ book'[t] = book[t] + 1
          /\ \A x \in Tickers \ {t} : book'[x] = book[x]
      BY DEF TypeOK
    <3>3. f \in Frames
      BY <3>2, FrameType
    <3>4. ~skipped /\ Good(wire, serving) /\ CachedInv /\ SnapshotInv
      <4>1. link = "up" /\ clean
        BY <2>1, <3>1 DEF LinkInv
      <4>2. ~DropIsPending
        BY <3>1, <3>3, DropAppend
      <4> QED BY <4>1, <4>2 DEF BookInv
    <3>5. ~skipped'
      BY <2>1, Zenon
    <3>6. f.kind = "delta" /\ f.ticker = t /\ IsDelta(f, t, book[t] + 1)
      BY DEF Frame, IsDelta
    <3>7. ~f.gap
      BY <3>4, Zenon DEF Frame
    <3> HIDE DEF f
    <3>8. \A has : \A x \in Tickers, i \in 0..Len(wire) :
            Covers(has, wire, x, i, book[x]) => Covers(has, wire', x, i, book'[x])
      BY <1>w, <3>1, <3>2, <3>3, <3>6, CoversDelta, CoversOther
    <3>9. /\ Len(wire') = Len(wire) + 1 /\ wire'[Len(wire) + 1] = f
          /\ \A j \in 1..Len(wire) : wire'[j] = wire[j]
      BY <1>w, <3>1, <3>3, AppendElements
    <3>10. Good(wire', serving')
      <4> SUFFICES ASSUME NEW i \in 1..Len(wire') PROVE ~wire'[i].gap /\ wire'[i].ticker \in serving'
        BY DEF Good
      <4>1. CASE i \in 1..Len(wire)
        BY <3>1, <3>4, <3>9, <4>1 DEF Good
      <4>2. CASE i = Len(wire) + 1
        BY <2>1, <3>1, <3>6, <3>7, <3>9, <4>2
      <4> QED BY <1>w, <3>9, <4>1, <4>2
    <3>11. CachedInv'
      <4> SUFFICES ASSUME NEW x \in Tickers, cache[x].epoch = epoch
                   PROVE  x \in serving' /\ Covers(cache[x].has, wire', x, 0, book'[x])
        BY <3>1 DEF CachedInv
      <4>1. x \in serving /\ Covers(cache[x].has, wire, x, 0, book[x])
        BY <3>4 DEF CachedInv
      <4>2. 0 \in 0..Len(wire)
        BY <1>w
      <4>3. Covers(cache[x].has, wire', x, 0, book'[x])
        BY <3>8, <4>1, <4>2
      <4> QED BY <3>1, <4>1, <4>3
    <3>12. SnapshotInv'
      <4> SUFFICES ASSUME NEW i \in 1..Len(wire'), wire'[i].kind = "snapshot"
                   PROVE  Covers(Parsed(wire'[i].change), wire', wire'[i].ticker, i, book'[wire'[i].ticker])
        BY DEF SnapshotInv
      <4>1. i \in 1..Len(wire) /\ i \in 0..Len(wire) /\ wire'[i] = wire[i]
        BY <1>w, <3>6, <3>9
      <4>2. wire[i].ticker \in Tickers
        BY <4>1, <1>w DEF Frames
      <4>3. Covers(Parsed(wire[i].change), wire, wire[i].ticker, i, book[wire[i].ticker])
        BY <3>4, <4>1 DEF SnapshotInv
      <4> DEFINE has == Parsed(wire[i].change)  x == wire[i].ticker
      <4>4. Covers(has, wire, x, i, book[x])
        BY <4>3
      <4> HIDE DEF has, x
      <4>5. Covers(has, wire', x, i, book'[x])
        BY <3>8, <4>1, <4>2, <4>4 DEF x
      <4> QED BY <4>1, <4>5 DEF has, x
    <3> QED BY <3>5, <3>10, <3>11, <3>12
  <2>2. CASE t \notin serving
    <3>1. UNCHANGED <<wire, skipped, serving, cache, epoch, clean, link>>
      BY <2>2
    <3>2. \A x \in Tickers \ {t} : book'[x] = book[x]
      BY DEF TypeOK
    <3>3. ~skipped /\ Good(wire, serving) /\ CachedInv /\ SnapshotInv
      BY <3>1 DEF BookInv, DropIsPending
    <3>4. ~skipped'
      BY <3>1, <3>3
    <3>5. CachedInv'
      BY <2>2, <3>1, <3>2, <3>3 DEF CachedInv
    <3>6. SnapshotInv'
      <4> SUFFICES ASSUME NEW i \in 1..Len(wire), wire[i].kind = "snapshot"
                   PROVE  Covers(Parsed(wire[i].change), wire, wire[i].ticker, i, book'[wire[i].ticker])
        BY <3>1 DEF SnapshotInv
      <4>1. wire[i].ticker \in Tickers \ {t}
        BY <1>w, <2>2, <3>3 DEF Good, Frames
      <4> QED BY <3>2, <3>3, <4>1 DEF SnapshotInv
    <3> QED BY <3>1, <3>3, <3>4, <3>5, <3>6 DEF Good
  <2> QED BY <2>1, <2>2
<1>3. ASSUME NEW t \in Tickers, ChangeIsLost(t) PROVE Goal
  <2>1. clean' = FALSE
    BY <1>3 DEF ChangeIsLost
  <2> QED BY <2>1
<1>4. ASSUME NEW t \in Tickers, Snapshot(t) PROVE Goal
  <2>1. /\ serving' = serving \cup {t} /\ UNCHANGED <<book, cache, epoch, clean, link>>
        /\ link = "up"
    BY <1>4 DEF Snapshot, LinkInv
  <2>2. CASE UNCHANGED <<wire, skipped>> /\ t \in serving
    <3>1. serving' = serving
      BY <2>1, <2>2
    <3> QED BY <1>1, <2>1, <2>2, <3>1
  <2>3. CASE wire' = Append(wire, Frame("snapshot", t, book[t])) /\ skipped' = FALSE
    <3> DEFINE f == Frame("snapshot", t, book[t])
    <3>1. wire' = Append(wire, f)
      BY <2>3
    <3>2. book[t] \in 0..MaxChanges
      BY DEF TypeOK
    <3>3. f \in Frames
      BY <3>2, FrameType
    <3>4. ~skipped /\ Good(wire, serving) /\ CachedInv /\ SnapshotInv
      <4>1. ~DropIsPending
        BY <3>1, <3>3, DropAppend
      <4> QED BY <2>1, <4>1 DEF BookInv
    <3>5. ~skipped'
      BY <2>3, Zenon
    <3>6. f.kind = "snapshot" /\ f.ticker = t /\ f.change = book[t]
      BY DEF Frame
    <3>7. ~f.gap
      BY <3>4, Zenon DEF Frame
    <3> HIDE DEF f
    <3>8. \A has : \A x \in Tickers, i \in 0..Len(wire) :
            Covers(has, wire, x, i, book[x]) => Covers(has, wire', x, i, book'[x])
      BY <1>w, <2>1, <3>1, <3>3, <3>6, CoversOther
    <3>9. /\ Len(wire') = Len(wire) + 1 /\ wire'[Len(wire) + 1] = f
          /\ \A j \in 1..Len(wire) : wire'[j] = wire[j]
      BY <1>w, <3>1, <3>3, AppendElements
    <3>10. Good(wire', serving')
      <4> SUFFICES ASSUME NEW i \in 1..Len(wire') PROVE ~wire'[i].gap /\ wire'[i].ticker \in serving'
        BY DEF Good
      <4>1. CASE i \in 1..Len(wire)
        BY <2>1, <3>4, <3>9, <4>1 DEF Good
      <4>2. CASE i = Len(wire) + 1
        BY <2>1, <3>6, <3>7, <3>9, <4>2
      <4> QED BY <1>w, <3>9, <4>1, <4>2
    <3>11. CachedInv'
      <4> SUFFICES ASSUME NEW x \in Tickers, cache[x].epoch = epoch
                   PROVE  x \in serving' /\ Covers(cache[x].has, wire', x, 0, book'[x])
        BY <2>1 DEF CachedInv
      <4>1. x \in serving /\ Covers(cache[x].has, wire, x, 0, book[x])
        BY <3>4 DEF CachedInv
      <4>2. 0 \in 0..Len(wire)
        BY <1>w
      <4>3. Covers(cache[x].has, wire', x, 0, book'[x])
        BY <3>8, <4>1, <4>2
      <4> QED BY <2>1, <4>1, <4>3
    <3>12. SnapshotInv'
      <4> SUFFICES ASSUME NEW i \in 1..Len(wire'), wire'[i].kind = "snapshot"
                   PROVE  Covers(Parsed(wire'[i].change), wire', wire'[i].ticker, i, book'[wire'[i].ticker])
        BY DEF SnapshotInv
      <4>1. CASE i \in 1..Len(wire)
        <5>1. i \in 0..Len(wire) /\ wire'[i] = wire[i] /\ wire[i].ticker \in Tickers
          BY <1>w, <3>9, <4>1 DEF Frames
        <5> DEFINE has == Parsed(wire[i].change)  x == wire[i].ticker
        <5>2. Covers(has, wire, x, i, book[x])
          BY <3>4, <4>1, <5>1 DEF SnapshotInv
        <5> HIDE DEF has, x
        <5>3. Covers(has, wire', x, i, book'[x])
          BY <3>8, <5>1, <5>2 DEF x
        <5> QED BY <5>1, <5>3 DEF has, x
      <4>2. CASE i = Len(wire')
        <5>1. \A n : ~Later(wire', t, n, i)
          BY <1>w, <3>9, <4>2 DEF Later
        <5>2. wire'[i] = f
          BY <3>9, <4>2
        <5>3. Covers(Parsed(book[t]), wire', t, i, book[t])
          BY <3>2, <5>1 DEF Covers, Readable, Parsed, Upto
        <5> QED BY <2>1, <3>6, <5>2, <5>3
      <4> QED BY <1>w, <3>9, <4>1, <4>2
    <3> QED BY <3>5, <3>10, <3>11, <3>12
  <2> QED BY <1>4, <2>2, <2>3 DEF Snapshot
<1>5. CASE DropSubscription
  <2>1. wire' = Append(wire, Dropped)
    BY <1>5 DEF DropSubscription
  <2>2. Dropped \in Frames
    BY DroppedType
  <2>3. Len(wire') = Len(wire) + 1 /\ wire'[Len(wire) + 1] = Dropped /\ wire' \in Seq(Frames)
    BY <1>w, <2>1, <2>2, AppendElements
  <2>4. Len(wire) + 1 \in DOMAIN wire' /\ Dropped.kind = "unsubscribed"
    BY <1>w, <2>3 DEF Dropped
  <2> QED BY <2>3, <2>4 DEF DropIsPending
<1>6. CASE Connect
  <2>1. /\ wire' = <<>> /\ epoch' = epoch + 1 /\ epoch \in Nat /\ UNCHANGED <<cache, skipped>>
        /\ \A t \in Tickers : cache[t].epoch \in Nat /\ cache[t].epoch <= epoch
    BY <1>6 DEF Connect, LinkInv, TypeOK
  <2>2. ~skipped'
    BY <1>6 DEF Connect, LinkInv
  <2>3. CachedInv'
    BY <2>1 DEF CachedInv
  <2> QED BY <2>1, <2>2, <2>3 DEF Good, SnapshotInv
<1>7. CASE Receive
  <2> DEFINE f == Head(wire)
  <2>1. /\ f.kind # "unsubscribed" /\ wire # <<>> /\ wire' = Tail(wire) /\ link = "up"
        /\ parse_ws_message(f) /\ UNCHANGED <<book, serving, skipped, epoch, clean>>
    BY <1>7 DEF Receive, Hangup
  <2>2. ~skipped /\ Good(wire, serving) /\ CachedInv /\ SnapshotInv
    <3>1. ~DropIsPending
      BY <2>1, DropTail
    <3> QED BY <2>1, <3>1 DEF BookInv
  <2>3. /\ Len(wire) \in Nat \ {0} /\ Len(wire') = Len(wire) - 1 /\ f = wire[1]
        /\ \A i \in 1..Len(wire') : wire'[i] = wire[i + 1]
    BY <1>w, <2>1, TailElements
  <2>4. f \in Frames /\ f.ticker \in serving /\ ~f.gap /\ f.ticker \in Tickers
    BY <1>w, <2>1, <2>2, <2>3 DEF Good, Frames
  <2>5. f.kind = "snapshot" => Covers(Parsed(f.change), wire, f.ticker, 1, book[f.ticker])
    BY <2>2, <2>3 DEF SnapshotInv
  <2> HIDE DEF f
  <2>6. Good(wire', serving')
    BY <2>1, <2>2, <2>3 DEF Good
  <2>7. SnapshotInv'
    <3> SUFFICES ASSUME NEW i \in 1..Len(wire'), wire'[i].kind = "snapshot"
                 PROVE  Covers(Parsed(wire'[i].change), wire', wire'[i].ticker, i, book[wire'[i].ticker])
      BY <2>1 DEF SnapshotInv
    <3>1. i + 1 \in 1..Len(wire) /\ wire'[i] = wire[i + 1] /\ i \in Nat
      BY <2>3
    <3>2. Covers(Parsed(wire'[i].change), wire, wire'[i].ticker, i + 1, book[wire'[i].ticker])
      BY <2>2, <3>1 DEF SnapshotInv
    <3> QED BY <1>w, <2>1, <3>1, <3>2, CoversTail
  <2>8. ASSUME NEW x \in Tickers, cache'[x].epoch = epoch
        PROVE  x \in serving /\ Covers(cache'[x].has, wire', x, 0, book[x])
    <3>1. CASE x # f.ticker
      <4>1. cache'[x] = cache[x]
        BY <2>1, <3>1 DEF parse_ws_message, Written, TypeOK
      <4>2. \A n : ~IsDelta(f, x, n)
        BY <3>1 DEF IsDelta
      <4>3. x \in serving /\ Covers(cache[x].has, wire, x, 0, book[x])
        BY <2>2, <2>8, <4>1 DEF CachedInv
      <4>4. Covers(cache[x].has, wire', x, 0, book[x])
        BY <1>w, <2>1, <4>2, <4>3, CoversApplied DEF f
      <4> QED BY <4>1, <4>3, <4>4
    <3>2. CASE x = f.ticker /\ f.kind = "snapshot"
      <4>1. cache'[x].has = Parsed(f.change)
        BY <2>1, <2>4, <3>2 DEF parse_ws_message, Written, TypeOK
      <4>2. Covers(Parsed(f.change), wire, x, 0 + 1, book[x])
        BY <2>5, <3>2
      <4>3. Covers(Parsed(f.change), wire', x, 0, book[x])
        BY <1>w, <2>1, <4>2, CoversTail
      <4> QED BY <2>4, <3>2, <4>1, <4>3
    <3>3. CASE x = f.ticker /\ f.kind = "delta"
      <4>1. /\ cache[x].epoch = epoch
            /\ \/ cache'[x].has = cache[x].has \cup {f.change}
               \/ cache'[x].has = cache[x].has /\ f.change \in Unparsable
        BY <2>1, <2>4, <2>8, <3>3 DEF parse_ws_message, Written, TypeOK
      <4>2. Covers(cache[x].has, wire, x, 0, book[x])
        BY <2>2, <4>1 DEF CachedInv
      <4>3. \A n \in Readable : n \in cache'[x].has <=> n \in cache[x].has \/ IsDelta(f, x, n)
        BY <3>3, <4>1 DEF IsDelta, Readable
      <4>4. Covers(cache'[x].has, wire', x, 0, book[x])
        BY <1>w, <2>1, <4>2, <4>3, CoversApplied DEF f
      <4> QED BY <2>4, <3>3, <4>4
    <3>4. f.kind \in {"snapshot", "delta"}
      BY <2>1, <2>4 DEF Frames
    <3> QED BY <3>1, <3>2, <3>3, <3>4
  <2>9. CachedInv'
    BY <2>1, <2>8 DEF CachedInv
  <2> QED BY <2>1, <2>2, <2>6, <2>7, <2>9
<1>8. CASE Command
  <2>1. UNCHANGED <<book, serving, skipped, wire, link, epoch, clean>>
    BY <1>8 DEF Command
  <2>2. ~skipped /\ Good(wire, serving) /\ CachedInv /\ SnapshotInv
    BY <2>1 DEF BookInv, DropIsPending
  <2>3. \A x \in Tickers : cache'[x] = cache[x] \/ cache'[x].epoch = 0
    BY <1>8 DEF Command, TypeOK, NoBook
  <2>4. epoch # 0
    BY <2>1 DEF LinkInv
  <2>5. CachedInv'
    BY <2>1, <2>2, <2>3, <2>4 DEF CachedInv
  <2> QED BY <2>1, <2>2, <2>5 DEF Good, SnapshotInv
<1>9. CASE ReadTickers \/ ConnectFails \/ SubscribeFails \/ Disconnect
  BY <1>9 DEF ReadTickers, ConnectFails, SubscribeFails, Disconnect, Hangup
<1>10. CASE SendPrice \/ Handler \/ RestCycle
  BY <1>1, <1>10, PricingFrame DEF SendPrice
<1>11. ASSUME NEW t \in Tickers, List(t) \/ subscribe_markets(t) \/ EndMarket(t) \/ unsubscribe_markets(t)
       PROVE  Goal
  BY <1>1, <1>11 DEF List, subscribe_markets, EndMarket, unsubscribe_markets
<1>12. CASE UNCHANGED vars
  BY <1>1, <1>12 DEF vars
<1> QED
  BY <1>2, <1>3, <1>4, <1>5, <1>6, <1>7, <1>8, <1>9, <1>10, <1>11, <1>12 DEF Next, Reader

-----------------------------------------------------------------------------
\* What AskedInv says of a connection that is up, for one ticker.
AskedFor(t) == t \in serving \cup due \cup missed \cup adding \/ Ordered(commands, "subscribe", t)

LEMMA StepAsked == TypeOK /\ LinkInv /\ AskedInv /\ [Next]_vars => AskedInv'
<1> DEFINE Goal ==
      /\ link' = "opening" => wanted' \subseteq asked' \cup missed' \cup adding'
      /\ link' = "up" /\ ~DropIsPending' => \A t \in wanted' : AskedFor(t)'
<1> SUFFICES ASSUME TypeOK, LinkInv, AskedInv, [Next]_vars PROVE Goal
  BY DEF AskedInv, AskedFor
<1> USE DEF server, client, registry, quotes
<1>a. /\ link = "opening" => wanted \subseteq asked \cup missed \cup adding
      /\ link = "up" /\ ~DropIsPending => \A t \in wanted : AskedFor(t)
  BY DEF AskedInv, AskedFor
<1>c. commands \in Seq(Commands)
  BY DEF TypeOK, Commands
\* A step that only serves more, on the same connection.
<1>1. ASSUME UNCHANGED <<link, asked, missed, adding, wanted, commands>>,
             serving \cup due \subseteq serving' \cup due', ~DropIsPending' => ~DropIsPending
      PROVE  Goal
  BY <1>1, <1>a DEF AskedFor
<1>2. ASSUME link' = "down" PROVE Goal
  BY <1>2
<1>3. ASSUME NEW t \in Tickers, Change(t) PROVE Goal
  <2>1. UNCHANGED <<link, asked, missed, adding, wanted, commands, serving, due>>
    BY <1>3 DEF Change
  <2>2. ~DropIsPending' => ~DropIsPending
    <3>1. book[t] + 1 \in 0..MaxChanges
      BY <1>3 DEF Change, TypeOK
    <3>2. wire' = wire \/ wire' = Append(wire, Frame("delta", t, book[t] + 1))
      BY <1>3, Zenon DEF Change
    <3>3. wire' = wire => DropIsPending' = DropIsPending
      BY DEF DropIsPending
    <3> QED BY <3>1, <3>2, <3>3, FrameType, DropAppend
  <2> QED BY <1>1, <2>1, <2>2
<1>4. ASSUME NEW t \in Tickers, ChangeIsLost(t) PROVE Goal
  BY <1>1, <1>4 DEF ChangeIsLost, DropIsPending
<1>5. ASSUME NEW t \in Tickers, Snapshot(t) PROVE Goal
  <2>1. /\ UNCHANGED <<link, asked, missed, adding, wanted, commands>>
        /\ serving' \cup due' = serving \cup due
    BY <1>5 DEF Snapshot
  <2>2. ~DropIsPending' => ~DropIsPending
    <3>1. book[t] \in 0..MaxChanges
      BY DEF TypeOK
    <3>2. wire' = wire \/ wire' = Append(wire, Frame("snapshot", t, book[t]))
      BY <1>5, Zenon DEF Snapshot
    <3>3. wire' = wire => DropIsPending' = DropIsPending
      BY DEF DropIsPending
    <3> QED BY <3>1, <3>2, <3>3, FrameType, DropAppend
  <2> QED BY <1>1, <2>1, <2>2
<1>6. CASE DropSubscription
  <2>1. wire' = Append(wire, Dropped) /\ wire \in Seq(Frames) /\ Dropped \in Frames
    BY <1>6, DroppedType DEF DropSubscription, TypeOK
  <2>2. /\ Len(wire) \in Nat /\ Len(wire') = Len(wire) + 1 /\ wire'[Len(wire) + 1] = Dropped
        /\ wire' \in Seq(Frames)
    BY <2>1, AppendElements
  <2>3. Len(wire) + 1 \in DOMAIN wire' /\ Dropped.kind = "unsubscribed"
    BY <2>2 DEF Dropped
  <2>4. DropIsPending'
    BY <2>2, <2>3 DEF DropIsPending
  <2> QED BY <1>6, <2>4 DEF DropSubscription
<1>7. CASE ReadTickers
  BY <1>7 DEF ReadTickers
<1>8. CASE ConnectFails \/ SubscribeFails \/ Disconnect
  BY <1>8 DEF ConnectFails, SubscribeFails, Disconnect, Hangup
<1>9. CASE Connect
  BY <1>9, <1>a DEF Connect, AskedFor
<1>10. CASE Receive
  <2>1. CASE Head(wire).kind = "unsubscribed"
    BY <1>2, <1>10, <2>1 DEF Receive, Hangup
  <2>2. CASE Head(wire).kind # "unsubscribed"
    <3>1. /\ UNCHANGED <<link, asked, missed, adding, wanted, commands, serving, due>>
          /\ wire # <<>> /\ wire' = Tail(wire)
      BY <1>10, <2>2 DEF Receive
    <3>2. ~DropIsPending' => ~DropIsPending
      BY <2>2, <3>1, DropTail
    <3> QED BY <1>1, <3>1, <3>2
  <2> QED BY <2>1, <2>2
<1>11. CASE Command
  <2>1. /\ commands # <<>> /\ commands' = Tail(commands) /\ due \subseteq due' /\ missed \subseteq missed'
        /\ UNCHANGED <<link, asked, adding, wanted, serving, wire>>
    BY <1>11 DEF Command
  <2>2. Head(commands).op = "subscribe" => Head(commands).ticker \in due' \cup missed'
    BY <1>11 DEF Command
  <2>3. \A t : Ordered(commands, "subscribe", t) =>
               Ordered(commands', "subscribe", t) \/ t \in due' \cup missed'
    BY <1>c, <2>1, <2>2, OrderedTail
  <2>4. DropIsPending' = DropIsPending
    BY <2>1 DEF DropIsPending
  <2>5. \A t : AskedFor(t) => AskedFor(t)'
    BY <2>1, <2>3 DEF AskedFor
  <2> QED BY <1>a, <2>1, <2>4, <2>5
<1>12. ASSUME NEW t \in Tickers, List(t) PROVE Goal
  <2>1. /\ wanted' = wanted \cup {t} /\ adding' = adding \cup {t}
        /\ UNCHANGED <<link, asked, missed, commands, serving, due, wire>>
    BY <1>12 DEF List
  <2>2. DropIsPending' = DropIsPending
    BY <2>1 DEF DropIsPending
  <2> QED BY <1>a, <2>1, <2>2 DEF AskedFor
<1>13. ASSUME NEW t \in Tickers, subscribe_markets(t) PROVE Goal
  <2>1. /\ adding' = adding \ {t} /\ UNCHANGED <<link, asked, wanted, serving, due, wire>>
        /\ t \in wanted => t \in wanted'
    BY <1>13 DEF subscribe_markets
  <2>2. DropIsPending' = DropIsPending
    BY <2>1 DEF DropIsPending
  <2>3. CASE link = "up"
    <3> DEFINE c == [op |-> "subscribe", ticker |-> t]
    <3>1. commands' = Append(commands, c) /\ missed' = missed
      BY <1>13, <2>3 DEF subscribe_markets
    <3>2. c \in Commands /\ c.op = "subscribe" /\ c.ticker = t
      BY DEF Commands
    <3> HIDE DEF c
    <3>3. \A x : Ordered(commands', "subscribe", x) <=> Ordered(commands, "subscribe", x) \/ x = t
      BY <1>c, <3>1, <3>2, OrderedAppend
    <3>4. \A x : AskedFor(x) => AskedFor(x)'
      BY <2>1, <3>1, <3>3 DEF AskedFor
    <3> QED BY <1>a, <2>1, <2>2, <2>3, <3>4
  <2>4. CASE link # "up"
    <3>1. CASE link = "opening"
      <4>1. missed' = missed \cup {t} /\ link' = "opening"
        BY <1>13, <2>1, <3>1 DEF subscribe_markets
      <4> QED BY <1>a, <2>1, <3>1, <4>1
    <3>2. CASE link = "down"
      BY <1>2, <2>1, <3>2
    <3> QED BY <2>4, <3>1, <3>2 DEF TypeOK
  <2> QED BY <2>3, <2>4
<1>14. ASSUME NEW t \in Tickers, EndMarket(t) PROVE Goal
  <2>1. /\ wanted' = wanted \ {t}
        /\ UNCHANGED <<link, asked, missed, adding, commands, serving, due, wire>>
    BY <1>14 DEF EndMarket
  <2>2. DropIsPending' = DropIsPending
    BY <2>1 DEF DropIsPending
  <2> QED BY <1>a, <2>1, <2>2 DEF AskedFor
<1>15. ASSUME NEW t \in Tickers, unsubscribe_markets(t) PROVE Goal
  <2>1. UNCHANGED <<link, asked, missed, adding, wanted, serving, due, wire>>
    BY <1>15 DEF unsubscribe_markets
  <2>2. DropIsPending' = DropIsPending
    BY <2>1 DEF DropIsPending
  <2> DEFINE c == [op |-> "unsubscribe", ticker |-> t]
  <2>3. commands' = commands \/ commands' = Append(commands, c)
    BY <1>15, Zenon DEF unsubscribe_markets
  <2>4. c \in Commands
    BY DEF Commands
  <2> HIDE DEF c
  <2>5. \A x : Ordered(commands, "subscribe", x) => Ordered(commands', "subscribe", x)
    <3>1. CASE commands' = commands
      BY <3>1 DEF Ordered
    <3>2. CASE commands' = Append(commands, c)
      BY <1>c, <2>4, <3>2, OrderedAppend
    <3> QED BY <2>3, <3>1, <3>2
  <2>6. \A x : AskedFor(x) => AskedFor(x)'
    BY <2>1, <2>5 DEF AskedFor
  <2> QED BY <1>a, <2>1, <2>2, <2>6
<1>16. CASE SendPrice \/ Handler \/ RestCycle \/ UNCHANGED vars
  <2>1. UNCHANGED <<link, asked, missed, adding, wanted, commands, serving, due, wire>>
    BY <1>16, PricingFrame DEF SendPrice, vars
  <2>2. DropIsPending' = DropIsPending
    BY <2>1 DEF DropIsPending
  <2> QED BY <1>1, <2>1, <2>2
<1> QED
  BY <1>3, <1>4, <1>5, <1>6, <1>7, <1>8, <1>9, <1>10, <1>11, <1>12, <1>13, <1>14, <1>15, <1>16
     DEF Next, Reader

-----------------------------------------------------------------------------
LEMMA LastAppend ==
  ASSUME NEW S, NEW q \in Seq(S), NEW u \in S, NEW t, NEW has
  PROVE  /\ u.ticker = t /\ u.has = has => LastIs(Append(q, u), t, has)
         /\ u.ticker # t /\ LastIs(q, t, has) => LastIs(Append(q, u), t, has)
         /\ u.ticker # t /\ Lacks(q, t) => Lacks(Append(q, u), t)
<1> DEFINE v == Append(q, u)
<1>1. /\ Len(q) \in Nat /\ Len(v) = Len(q) + 1 /\ v[Len(q) + 1] = u
      /\ \A j \in 1..Len(q) : v[j] = q[j]
  BY AppendElements
<1> HIDE DEF v
<1>2. \A j \in 1..Len(v) : j \in 1..Len(q) \/ j = Len(q) + 1
  BY <1>1
<1>3. ASSUME u.ticker = t, u.has = has PROVE LastIs(v, t, has)
  <2>1. Len(q) + 1 \in 1..Len(v) /\ \A j \in 1..Len(v) : ~(j > Len(q) + 1)
    BY <1>1
  <2> QED BY <1>1, <1>3, <2>1 DEF LastIs
<1>4. ASSUME u.ticker # t, LastIs(q, t, has) PROVE LastIs(v, t, has)
  <2>1. PICK i \in 1..Len(q) :
          q[i].ticker = t /\ q[i].has = has /\ \A j \in 1..Len(q) : j > i => q[j].ticker # t
    BY <1>4 DEF LastIs
  <2>2. i \in 1..Len(v) /\ v[i] = q[i]
    BY <1>1
  <2>3. \A j \in 1..Len(v) : j > i => v[j].ticker # t
    BY <1>1, <1>2, <1>4, <2>1
  <2> QED BY <2>1, <2>2, <2>3 DEF LastIs
<1>5. ASSUME u.ticker # t, Lacks(q, t) PROVE Lacks(v, t)
  BY <1>1, <1>2, <1>5 DEF Lacks
<1> QED BY <1>3, <1>4, <1>5 DEF v

LEMMA LastTail ==
  ASSUME NEW S, NEW q \in Seq(S), q # <<>>, NEW t, NEW has
  PROVE  /\ LastIs(q, t, has) =>
               \/ LastIs(Tail(q), t, has)
               \/ Head(q).ticker = t /\ Head(q).has = has /\ Lacks(Tail(q), t)
         /\ Lacks(q, t) => Head(q).ticker # t /\ Lacks(Tail(q), t)
<1> DEFINE v == Tail(q)
<1>1. /\ Len(q) \in Nat \ {0} /\ Len(v) = Len(q) - 1 /\ Head(q) = q[1]
      /\ \A j \in 1..Len(v) : v[j] = q[j + 1]
  BY TailElements
<1> HIDE DEF v
<1>2. \A j \in 1..Len(v) : j + 1 \in 1..Len(q) /\ j + 1 > 1 /\ v[j] = q[j + 1]
  BY <1>1
<1>3. ASSUME LastIs(q, t, has)
      PROVE  LastIs(v, t, has) \/ (Head(q).ticker = t /\ Head(q).has = has /\ Lacks(v, t))
  <2>1. PICK i \in 1..Len(q) :
          q[i].ticker = t /\ q[i].has = has /\ \A j \in 1..Len(q) : j > i => q[j].ticker # t
    BY <1>3 DEF LastIs
  <2>2. CASE i = 1
    BY <1>1, <1>2, <2>1, <2>2 DEF Lacks
  <2>3. CASE i # 1
    <3>1. i - 1 \in 1..Len(v) /\ (i - 1) + 1 = i
      BY <1>1, <2>3
    <3>2. v[i - 1].ticker = t /\ v[i - 1].has = has
      BY <1>1, <2>1, <3>1
    <3>3. ASSUME NEW j \in 1..Len(v), j > i - 1 PROVE v[j].ticker # t
      BY <1>2, <2>1, <3>3
    <3> QED BY <3>1, <3>2, <3>3 DEF LastIs
  <2> QED BY <2>2, <2>3
<1>4. ASSUME Lacks(q, t) PROVE Head(q).ticker # t /\ Lacks(v, t)
  <2>1. 1 \in 1..Len(q)
    BY <1>1
  <2> QED BY <1>1, <1>2, <1>4, <2>1 DEF Lacks
<1> QED BY <1>3, <1>4 DEF v

\* What PriceInv says of one ticker.
Priced(t) ==
  cache[t].epoch = epoch /\ TwoSided(cache[t].has)
    => Told(t, cache[t].has)

LEMMA StepPrice == TypeOK /\ LinkInv /\ PriceInv /\ ListInv /\ [Next]_vars => PriceInv'
<1> DEFINE Goal == \A t \in Tickers : Priced(t)'
<1> SUFFICES ASSUME TypeOK, LinkInv, PriceInv, ListInv, [Next]_vars, link' = "up" PROVE Goal
  BY DEF PriceInv, Priced
<1> USE DEF server, client, registry, quotes
<1>a. link = "up" => \A t \in Tickers : Priced(t)
  BY DEF PriceInv, Priced
<1>c. prices \in Seq(Updates)
  BY DEF TypeOK
\* A step that follows no more tickers, and changes the price of none it follows.
<1>1. ASSUME UNCHANGED <<link, cache, epoch, held, prices>>,
             \A t \in Tickers : Followed(t)' => Followed(t) /\ quote'[t] = quote[t]
      PROVE  Goal
  <2>1. \A t \in Tickers : Priced(t) => Priced(t)'
    BY <1>1 DEF Priced, Told
  <2> QED BY <1>1, <1>a, <2>1
<1>2. CASE Connect
  <2>1. /\ epoch' = epoch + 1 /\ cache' = cache /\ epoch \in Nat
        /\ \A t \in Tickers : cache[t].epoch \in Nat /\ cache[t].epoch <= epoch
    BY <1>2 DEF Connect, LinkInv, TypeOK
  <2>2. \A t \in Tickers : cache'[t].epoch # epoch'
    BY <2>1
  <2> QED BY <2>2 DEF Priced
<1>3. CASE Receive
  <2> DEFINE f == Head(wire)
  <2>1. /\ parse_ws_message(f) /\ link = "up" /\ held = NoUpdate
        /\ UNCHANGED <<link, epoch, prices, quote, wanted, crossed>>
    BY <1>3 DEF Receive, Hangup
  <2> HIDE DEF f
  <2>2. ASSUME NEW has, Written(f.ticker, has) PROVE Goal
    <3> SUFFICES ASSUME NEW t \in Tickers PROVE Priced(t)'
      OBVIOUS
    <3>1. CASE t = f.ticker
      <4>1. cache'[t].has = has
        BY <2>2, <3>1 DEF Written, TypeOK
      <4>2. ASSUME TwoSided(has) PROVE Told(t, has)'
        <5>1. held' = [ticker |-> t, has |-> has]
          BY <2>2, <3>1, <4>2 DEF Written
        <5>2. held' # NoUpdate
          <6>1. DOMAIN held' = {"ticker", "has"} /\ DOMAIN NoUpdate = {"ticker"}
            BY <5>1 DEF NoUpdate
          <6> QED BY <6>1
        <5> QED BY <5>1, <5>2 DEF Told
      <4> QED BY <4>1, <4>2 DEF Priced
    <3>2. CASE t # f.ticker
      <4>1. cache'[t] = cache[t]
        BY <2>2, <3>2 DEF Written, TypeOK
      <4>2. held' = NoUpdate \/ held'.ticker = f.ticker
        BY <2>2 DEF Written
      <4>3. Told(t, cache[t].has) => Told(t, cache[t].has)'
        BY <2>1, <3>2, <4>1, <4>2 DEF Told, Followed
      <4>4. Priced(t)
        BY <1>a, <2>1
      <4> QED BY <2>1, <4>1, <4>3, <4>4 DEF Priced
    <3> QED BY <3>1, <3>2
  <2>3. ASSUME UNCHANGED <<cache, held>> PROVE Goal
    BY <1>1, <2>1, <2>3 DEF Followed
  <2> QED BY <2>1, <2>2, <2>3 DEF parse_ws_message
<1>4. CASE SendPrice
  <2>1. /\ held # NoUpdate /\ prices' = Append(prices, held) /\ held' = NoUpdate
        /\ UNCHANGED <<link, cache, epoch, quote, wanted, crossed>>
    BY <1>4 DEF SendPrice
  <2>2. held \in Updates
    BY <2>1 DEF TypeOK
  <2>3. ASSUME NEW t, NEW has, Told(t, has) PROVE Told(t, has)'
    <3>1. CASE held.ticker = t
      <4>1. held.has = has
        BY <2>1, <2>3, <3>1 DEF Told
      <4> QED BY <1>c, <2>1, <2>2, <3>1, <4>1, LastAppend DEF Told
    <3>2. CASE held.ticker # t
      <4>1. LastIs(prices, t, has) \/ (Lacks(prices, t) /\ (Followed(t) => quote[t] = has))
        BY <2>3, <3>2 DEF Told
      <4>2. /\ LastIs(prices, t, has) => LastIs(prices', t, has)
            /\ Lacks(prices, t) => Lacks(prices', t)
        BY <1>c, <2>1, <2>2, <3>2, LastAppend
      <4> QED BY <2>1, <4>1, <4>2 DEF Told, Followed
    <3> QED BY <3>1, <3>2
  <2>4. \A t \in Tickers : Priced(t)
    BY <1>a, <2>1
  <2>5. \A t \in Tickers : Told(t, cache[t].has) => Told(t, cache[t].has)'
    BY <2>1, <2>3 DEF Told
  <2>6. ASSUME NEW t \in Tickers PROVE Priced(t)'
    BY <2>1, <2>4, <2>5 DEF Priced
  <2> QED BY <2>1, <2>6
<1>5. CASE on_price_update
  <2> DEFINE u == Head(prices)
  <2>1. /\ prices # <<>> /\ prices' = Tail(prices) /\ u \in Updates
        /\ quote' = [quote EXCEPT ![u.ticker] = u.has]
        /\ UNCHANGED <<link, cache, epoch, held, wanted>>
    BY <1>5, <1>c, TailType DEF on_price_update
  <2>2. \A t : t # u.ticker => (Followed(t)' => Followed(t))
    BY <1>5 DEF on_price_update, Followed
  <2> HIDE DEF u
  <2>3. ASSUME NEW t \in Tickers, NEW has, Told(t, has) PROVE Told(t, has)'
    <3>1. CASE held # NoUpdate /\ held.ticker = t
      BY <2>1, <2>3, <3>1 DEF Told
    <3>2. CASE ~(held # NoUpdate /\ held.ticker = t)
      <4>1. LastIs(prices, t, has) \/ (Lacks(prices, t) /\ (Followed(t) => quote[t] = has))
        BY <2>3, <3>2 DEF Told
      <4>2. \/ LastIs(prices', t, has)
            \/ u.ticker = t /\ u.has = has /\ Lacks(prices', t)
            \/ u.ticker # t /\ Lacks(prices', t) /\ (Followed(t) => quote[t] = has)
        BY <1>c, <2>1, <4>1, LastTail DEF u
      <4>3. LastIs(prices', t, has) \/ (Lacks(prices', t) /\ (Followed(t)' => quote'[t] = has))
        BY <2>1, <2>2, <4>2 DEF TypeOK
      <4> QED BY <2>1, <3>2, <4>3 DEF Told
    <3> QED BY <3>1, <3>2
  <2>4. \A t \in Tickers : Priced(t)
    BY <1>a, <2>1
  <2>5. \A t \in Tickers : Told(t, cache[t].has) => Told(t, cache[t].has)'
    BY <2>1, <2>3 DEF Told
  <2>6. ASSUME NEW t \in Tickers PROVE Priced(t)'
    BY <2>1, <2>4, <2>5 DEF Priced
  <2> QED BY <2>6
<1>6. CASE Command
  <2>1. link = "up" /\ UNCHANGED <<link, epoch, held, prices, quote, wanted, crossed>>
    BY <1>6 DEF Command
  <2> SUFFICES ASSUME NEW t \in Tickers PROVE Priced(t)'
    OBVIOUS
  <2>2. cache'[t] = NoBook \/ cache'[t] = cache[t]
    BY <1>6 DEF Command, TypeOK
  <2>3. CASE cache'[t] = NoBook
    <3>1. ~TwoSided(cache'[t].has)
      BY <2>3 DEF NoBook, TwoSided
    <3> QED BY <3>1 DEF Priced
  <2>4. CASE cache'[t] = cache[t]
    <3>1. Told(t, cache[t].has) => Told(t, cache[t].has)'
      BY <2>1, <2>4 DEF Told, Followed
    <3> QED BY <1>a, <2>1, <2>4, <3>1 DEF Priced
  <2> QED BY <2>2, <2>3, <2>4
<1>7. ASSUME NEW x \in Tickers, List(x) \/ EndMarket(x) PROVE Goal
  <2>1. /\ UNCHANGED <<link, cache, epoch, held, prices>>
        /\ ~Followed(x)' /\ \A t \in Tickers \ {x} : Followed(t)' => Followed(t) /\ quote'[t] = quote[t]
    BY <1>7 DEF List, EndMarket, Followed, TypeOK
  <2> QED BY <1>1, <2>1
<1>8. CASE stamp_quote \/ list_quote \/ RestCycle
  <2>1. UNCHANGED <<link, cache, epoch, held, prices, wanted>> /\ crossed \subseteq crossed'
    BY <1>8, PricingFrame DEF stamp_quote, list_quote, RestCycle, RestAsk, RestRead, RestApply, RestWrites,
                              RestCache, Handler
  <2>2. \A t \in Tickers : Followed(t)' => Followed(t)
    BY <2>1 DEF Followed
  <2>3. ASSUME NEW t \in Tickers, Followed(t) PROVE quote'[t] = quote[t]
    <3>1. CASE RestCache
      <4>1. quote'[t] = IF rest.puts[t] = {} THEN quote[t] ELSE rest.puts[t]
        BY <3>1 DEF RestCache
      <4>2. rest.puts[t] \in {{}, quote[t]}
        BY <2>3, <3>1 DEF RestCache, ListInv
      <4> QED BY <4>1, <4>2
    <3>2. CASE ~RestCache
      BY <1>8, <3>2 DEF stamp_quote, list_quote, RestCycle, RestAsk, RestRead, RestApply, RestWrites
    <3> QED BY <3>1, <3>2
  <2> QED BY <1>1, <2>1, <2>2, <2>3
<1>9. CASE ReadTickers \/ ConnectFails \/ SubscribeFails \/ Disconnect
  BY <1>9 DEF ReadTickers, ConnectFails, SubscribeFails, Disconnect, Hangup
<1>10. CASE DropSubscription \/ UNCHANGED vars
  BY <1>1, <1>10 DEF DropSubscription, vars, Followed
<1>11. ASSUME NEW t \in Tickers, \/ Change(t) \/ ChangeIsLost(t) \/ Snapshot(t)
                                 \/ subscribe_markets(t) \/ unsubscribe_markets(t)
       PROVE  Goal
  BY <1>1, <1>11 DEF Change, ChangeIsLost, Snapshot, subscribe_markets, unsubscribe_markets, Followed
<1> QED
  BY <1>2, <1>3, <1>4, <1>5, <1>6, <1>7, <1>8, <1>9, <1>10, <1>11 DEF Next, Reader, Handler

-----------------------------------------------------------------------------
LEMMA StepList == TypeOK /\ ListInv /\ [Next]_vars => ListInv'
<1> SUFFICES ASSUME TypeOK, ListInv, [Next]_vars PROVE ListInv'
  OBVIOUS
<1> DEFINE Kept(t) ==
      /\ Listing(t) => pend.has = quote[t]
      /\ ~Listing(t) => listed[t] = quote[t]
      /\ rest.step # "asked" => pend.ticker # t
      /\ rest.step = "applied" => rest.puts[t] \in {{}, quote[t]}
<1>a. /\ pend.step = "list" => pend.changed
      /\ \A t \in Tickers : Followed(t) => Kept(t)
  BY DEF ListInv
<1> SUFFICES /\ pend'.step = "list" => pend'.changed
             /\ \A t \in Tickers : Followed(t)' => Kept(t)'
  BY DEF ListInv
<1>n. NoPend.ticker \notin Tickers /\ NoPend.step # "list" /\ NoPend.changed = FALSE
  BY DEF NoPend
<1>p. pend = NoPend \/ pend.ticker \in Tickers
  BY DEF TypeOK
<1> USE DEF server, client, registry, quotes
<1>1. CASE UNCHANGED <<quotes, wanted>>
  BY <1>1, <1>a DEF Followed, Listing
<1>2. ASSUME NEW x \in Tickers, List(x) \/ EndMarket(x)
      PROVE  ListInv'
  <2>1. /\ UNCHANGED <<pend, rest>> /\ ~Followed(x)'
        /\ \A t \in Tickers \ {x} :
             (Followed(t)' => Followed(t)) /\ quote'[t] = quote[t] /\ listed'[t] = listed[t]
    BY <1>2 DEF List, EndMarket, Followed, TypeOK
  <2> QED BY <1>a, <2>1 DEF Listing, ListInv
<1>3. CASE on_price_update
  <2> DEFINE u == Head(prices)
  <2>1. /\ pend = NoPend /\ u \in Updates /\ quote' = [quote EXCEPT ![u.ticker] = u.has]
        /\ pend' = [ticker |-> u.ticker, has |-> u.has, step |-> "stamp",
                    changed |-> quote[u.ticker] # u.has, after |-> rest.step = "asked"]
        /\ UNCHANGED <<listed, rest, wanted>>
        /\ crossed' = IF rest.step \in {"read", "applied"} THEN crossed \cup ({u.ticker} \cap wanted)
                      ELSE IF quote[u.ticker] # u.has THEN crossed \ {u.ticker} ELSE crossed
    BY <1>3, TailType DEF on_price_update, TypeOK
  <2> HIDE DEF u
  <2>2. pend'.step # "list" /\ pend'.ticker = u.ticker /\ pend'.has = u.has
        /\ (pend'.changed <=> quote[u.ticker] # u.has)
    BY <2>1
  <2>3. u.ticker \in Tickers /\ quote'[u.ticker] = u.has /\ rest.step \in {"asked", "read", "applied"}
    BY <2>1 DEF Updates, TypeOK
  <2>4. ASSUME NEW t \in Tickers, Followed(t)', t # u.ticker PROVE Kept(t)'
    <3>1. Followed(t) /\ quote'[t] = quote[t]
      BY <2>1, <2>4 DEF Followed, TypeOK
    <3> QED BY <1>a, <1>n, <2>1, <2>2, <2>4, <3>1 DEF Listing
  <2>5. ASSUME NEW t \in Tickers, Followed(t)', t = u.ticker PROVE Kept(t)'
    <3>1. rest.step = "asked"
      BY <2>1, <2>3, <2>5 DEF Followed
    <3>2. CASE quote[t] # u.has
      BY <2>1, <2>2, <2>3, <2>5, <3>1, <3>2 DEF Listing
    <3>3. CASE quote[t] = u.has
      <4>1. Followed(t)
        BY <2>1, <2>5, <3>1, <3>3 DEF Followed
      <4>2. listed[t] = quote[t]
        BY <1>a, <1>n, <2>1, <4>1 DEF Listing
      <4> QED BY <2>1, <2>2, <2>3, <2>5, <3>1, <3>3, <4>2 DEF Listing
    <3> QED BY <3>2, <3>3
  <2> QED BY <2>2, <2>4, <2>5
<1>4. CASE stamp_quote
  <2>1. /\ UNCHANGED <<listed, quote, rest, crossed, wanted>>
        /\ \/ pend.changed /\ pend' = [pend EXCEPT !.step = "list"]
           \/ ~pend.changed /\ pend' = NoPend
    BY <1>4 DEF stamp_quote
  <2>2. pend.step = "stamp" /\ pend \in Pends
    BY <1>4 DEF stamp_quote, TypeOK, Pends
  <2>3. /\ pend'.step = "list" => pend'.changed
        /\ \A t \in Tickers : (Listing(t)' <=> Listing(t)) /\ (Listing(t) => pend'.has = pend.has)
        /\ \A t \in Tickers : pend'.ticker = t => pend.ticker = t
    BY <1>n, <2>1, <2>2 DEF Listing, Pends, NoPend
  <2> QED BY <1>a, <2>1, <2>3 DEF Followed
<1>5. CASE list_quote
  <2>1. /\ pend.step = "list" /\ pend' = NoPend /\ UNCHANGED <<quote, rest, crossed, wanted>>
        /\ listed' = IF pend.ticker \in wanted THEN [listed EXCEPT ![pend.ticker] = pend.has] ELSE listed
    BY <1>5 DEF list_quote
  <2>2. ASSUME NEW t \in Tickers, Followed(t)' PROVE Kept(t)'
    <3>1. Followed(t) /\ t \in wanted
      BY <2>1, <2>2 DEF Followed
    <3>2. listed'[t] = quote[t]
      <4>1. CASE pend.ticker = t
        BY <1>a, <2>1, <3>1, <4>1 DEF Listing, TypeOK
      <4>2. CASE pend.ticker # t
        BY <1>a, <2>1, <3>1, <4>2 DEF Listing, TypeOK
      <4> QED BY <4>1, <4>2
    <3> QED BY <1>a, <1>n, <2>1, <3>1, <3>2 DEF Listing
  <2> QED BY <1>n, <2>1, <2>2
<1>6. CASE RestAsk
  <2>1. /\ pend' = [pend EXCEPT !.after = FALSE]
        /\ UNCHANGED <<listed, quote, rest, crossed, wanted>>
    BY <1>6 DEF RestAsk
  <2>2. pend'.step = pend.step /\ pend'.changed = pend.changed /\ pend'.ticker = pend.ticker /\ pend'.has = pend.has
    BY <2>1 DEF TypeOK, NoPend
  <2> QED BY <1>a, <2>1, <2>2 DEF Followed, Listing
<1>7. CASE RestRead
  <2>1. /\ UNCHANGED <<listed, quote, pend, wanted>> /\ rest'.step = "read"
        /\ crossed' = IF pend = NoPend THEN crossed ELSE crossed \cup ({pend.ticker} \cap wanted)
    BY <1>7 DEF RestRead, TypeOK
  <2>2. ASSUME NEW t \in Tickers, Followed(t)' PROVE Kept(t)'
    <3>1. Followed(t) /\ (pend = NoPend \/ pend.ticker # t)
      BY <2>1, <2>2 DEF Followed
    <3>2. pend.ticker # t
      BY <1>n, <3>1
    <3> QED BY <1>a, <2>1, <3>1, <3>2 DEF Listing
  <2> QED BY <1>a, <2>1, <2>2
<1>8. CASE RestApply
  <2>1. PICK silent \in BOOLEAN, trading \in SUBSET wanted, n \in [Tickers -> Answers] :
          /\ rest.step = "read" /\ \A t \in trading : n[t] <= book[t]
          /\ listed' = [t \in Tickers |-> IF t \in trading \ ws_owns_prices(silent) THEN Upto(n[t]) ELSE listed[t]]
          /\ rest' = [Asked EXCEPT !.step = "applied",
                                   !.puts = [t \in Tickers |-> IF t \in trading THEN listed'[t] ELSE {}]]
          /\ crossed' = crossed \cup (trading \ ws_owns_prices(silent))
          /\ UNCHANGED <<server, wire, client, prices, quote, quoted, after, pend, registry, clean, missed>>
    BY <1>8 DEF RestApply, RestWrites
  <2>2. rest'.step = "applied" /\ rest'.puts = [t \in Tickers |-> IF t \in trading THEN listed'[t] ELSE {}]
    BY <2>1 DEF Asked
  <2>3. ASSUME NEW t \in Tickers, Followed(t)' PROVE Kept(t)'
    <3>1. Followed(t) /\ t \notin trading \ ws_owns_prices(silent)
      BY <2>1, <2>3 DEF Followed
    <3>2. pend.ticker # t /\ listed[t] = quote[t]
      BY <1>a, <2>1, <3>1 DEF Listing
    <3>3. listed'[t] = listed[t]
      BY <2>1, <3>1
    <3>4. rest'.puts[t] \in {{}, quote[t]}
      BY <2>2, <3>2, <3>3
    <3> QED BY <2>1, <3>2, <3>3, <3>4 DEF Listing
  <2> QED BY <1>a, <2>1, <2>3
<1>9. CASE RestCache
  <2>1. /\ rest.step = "applied" /\ rest' = Asked /\ UNCHANGED <<listed, pend, crossed, wanted>>
        /\ quote' = [t \in Tickers |-> IF rest.puts[t] = {} THEN quote[t] ELSE rest.puts[t]]
    BY <1>9 DEF RestCache
  <2>2. rest'.step = "asked"
    BY <2>1 DEF Asked
  <2>3. ASSUME NEW t \in Tickers, Followed(t)' PROVE Kept(t)'
    <3>1. Followed(t)
      BY <2>1, <2>3 DEF Followed
    <3>2. quote'[t] = quote[t]
      BY <1>a, <2>1, <3>1
    <3> QED BY <1>a, <2>1, <2>2, <3>1, <3>2 DEF Listing
  <2> QED BY <1>a, <2>1, <2>3
<1>10. CASE \/ DropSubscription \/ ReadTickers \/ ConnectFails \/ Connect \/ SubscribeFails
            \/ Disconnect \/ Reader
  BY <1>1, <1>10 DEF DropSubscription, ReadTickers, ConnectFails, Connect, SubscribeFails, Disconnect,
                     Hangup, Reader, Receive, SendPrice, Command
<1>11. ASSUME NEW t \in Tickers, \/ Change(t) \/ ChangeIsLost(t) \/ Snapshot(t)
                                 \/ subscribe_markets(t) \/ unsubscribe_markets(t)
       PROVE  UNCHANGED <<quotes, wanted>>
  BY <1>11 DEF Change, ChangeIsLost, Snapshot, subscribe_markets, unsubscribe_markets
<1>12. CASE UNCHANGED vars
  BY <1>1, <1>12 DEF vars
<1>13. ListInv' => /\ pend'.step = "list" => pend'.changed
                   /\ \A t \in Tickers : Followed(t)' => Kept(t)'
  BY DEF ListInv
<1> QED
  BY <1>1, <1>2, <1>3, <1>4, <1>5, <1>6, <1>7, <1>8, <1>9, <1>10, <1>11, <1>12, <1>13
     DEF Next, Handler, RestCycle

LEMMA FeedInv == Spec => []IInv
<1>1. IInv /\ [Next]_vars => IInv'
  BY StepTypes, StepLink, StepBook, StepAsked, StepPrice, StepList DEF IInv
<1> QED BY InitInv, <1>1, PTL DEF Spec

-----------------------------------------------------------------------------
\* Every state is of the right type: in particular the price channel never holds
\* more than its capacity, and frames name the tickers of the feed.
THEOREM FeedTypeCorrect == Spec => []TypeOK
<1>1. IInv => TypeOK
  BY DEF IInv
<1> QED BY <1>1, FeedInv, PTL

\* A book that get_fresh_orderbook hands out on a connection that lost no frame
\* lacks at most the changes whose frames are on their way.
THEOREM HandedOutIsExact == Spec => []FreshBookIsExact
<1>1. IInv => FreshBookIsExact
  <2> SUFFICES ASSUME IInv, NEW t \in Tickers,
                      link = "up" /\ Fresh(t) /\ clean /\ ~DropIsPending
               PROVE  (cache[t].has \cup Pending(t)) \ Unparsable = Parsed(book[t])
    BY DEF FreshBookIsExact
  <2>1. Covers(cache[t].has, wire, t, 0, book[t])
    BY DEF IInv, BookInv, CachedInv, Fresh
  <2>2. /\ wire \in Seq(Frames) /\ DOMAIN wire = 1..Len(wire) /\ Len(wire) \in Nat
        /\ cache[t].has \subseteq 0..MaxChanges /\ book[t] \in 0..MaxChanges
    BY DEF IInv, TypeOK, Contents
  <2>3. \A n : n \in Pending(t) <=> Later(wire, t, n, 0)
    <3>1. \A j \in 1..Len(wire) : j > 0
      OBVIOUS
    <3> QED BY <2>2, <3>1 DEF Pending, Later, IsDelta
  <2>4. \A n : Later(wire, t, n, 0) => n \in 0..MaxChanges
    BY <2>2 DEF Later, IsDelta, Frames
  <2>5. \A n \in Readable : n <= book[t] <=> n \in Parsed(book[t])
    BY <2>2 DEF Parsed, Upto, Readable
  <2>6. Parsed(book[t]) \subseteq Readable
    BY <2>2 DEF Parsed, Upto, Readable
  <2>7. \A n \in Readable : n \in cache[t].has \cup Pending(t) <=> n \in Parsed(book[t])
    BY <2>1, <2>3, <2>5 DEF Covers
  <2>8. (cache[t].has \cup Pending(t)) \ Unparsable \subseteq Readable
    BY <2>2, <2>3, <2>4 DEF Readable
  <2> QED BY <2>6, <2>7, <2>8 DEF Readable
<1> QED BY <1>1, FeedInv, PTL

\* When nothing is on its way, the price that detection works with is the one of
\* the cached book, and so is the one in the list, whatever REST answers, unless
\* the stream did not own the price when REST wrote it, a scan wrote it, or an
\* update met a REST cycle between its copy and its write.
THEOREM QuoteIsOfBook == Spec => []PriceFollowsBook
<1>1. IInv => PriceFollowsBook
  <2> SUFFICES ASSUME IInv, NEW t \in wanted \ crossed,
                      AtRest /\ link = "up" /\ cache[t].epoch = epoch /\ TwoSided(cache[t].has)
               PROVE  quote[t] = cache[t].has /\ listed[t] = cache[t].has
    BY DEF PriceFollowsBook
  <2>1. t \in Tickers /\ Followed(t)
    BY DEF IInv, TypeOK, Followed
  <2>2. ~LastIs(prices, t, cache[t].has)
    BY DEF AtRest, LastIs
  <2>3. Told(t, cache[t].has)
    BY <2>1 DEF IInv, PriceInv
  <2>4. quote[t] = cache[t].has
    BY <2>1, <2>2, <2>3 DEF Told, AtRest
  <2>5. ~Listing(t)
    BY <2>1 DEF AtRest, NoPend, Listing
  <2>6. listed[t] = quote[t]
    BY <2>1, <2>5 DEF IInv, ListInv
  <2> QED BY <2>4, <2>6
<1> QED BY <1>1, FeedInv, PTL

\* A ticker that is wanted is served or asked for once nothing is on its way,
\* unless its hot subscription came while the connection was being made, or was
\* not sent.
THEOREM WantedIsAskedFor == Spec => []WantedIsSubscribed
<1>1. IInv => WantedIsSubscribed
  <2> SUFFICES ASSUME IInv, AtRest, link = "up", NEW t \in wanted PROVE t \in serving \cup due \cup missed
    BY DEF WantedIsSubscribed
  <2>1. ~DropIsPending
    BY DEF AtRest, DropIsPending
  <2>2. ~Ordered(commands, "subscribe", t)
    BY DEF AtRest, Ordered
  <2> QED BY <2>1, <2>2 DEF IInv, AskedInv, AtRest
<1> QED BY <1>1, FeedInv, PTL
=============================================================================
