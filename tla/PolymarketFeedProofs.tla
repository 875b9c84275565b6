------------------------- MODULE PolymarketFeedProofs -------------------------
(***************************************************************************)
(* The books and subscriptions of Polymarket US, for any slugs, clocks,    *)
(* connections and limits: what orders are sized from is the last book the *)
(* exchange sent, and a slug that counts as subscribed is.                 *)
(***************************************************************************)
EXTENDS PolymarketFeed, FiniteSetTheorems, TLAPS

USE PolymarketFeedAssumption

Messaged == [kind : {"quote", "book", "other"}, slug : Slugs, change : Changes]

StreamTypes ==
  /\ price \in [Slugs -> Changes] /\ wire \in Seq(Messaged)
  /\ link \in {"down", "up"} /\ epoch \in Nat
  /\ books \in [Slugs -> [epoch : Nat, change : Changes]]
  /\ due \subseteq Slugs /\ streams \subseteq Slugs
  /\ subscribed \subseteq Slugs /\ wanted \subseteq Slugs

\* The last book of s in w shows change n or a later one.
IsBook(f, s) == f.kind = "book" /\ f.slug = s
HasBook(w, s) == \E i \in 1..Len(w) : IsBook(w[i], s)
LastShows(w, s, n) ==
  \E i \in 1..Len(w) :
    IsBook(w[i], s) /\ n <= w[i].change /\ \A j \in 1..Len(w) : j > i => ~IsBook(w[j], s)

\* Without a connection nothing is on its way; no book is of a later connection.
LinkInv ==
  /\ link = "down" => wire = <<>> /\ streams = {} /\ due = {} /\ subscribed = {}
  /\ \A s \in Slugs : books[s].epoch <= epoch

\* Whatever can be read of a slug that sends books is in its last book.
BookInv ==
  link = "up" /\ alive =>
    /\ \A i \in 1..Len(wire) : wire[i].slug \in streams
    /\ \A s \in Slugs : HasBook(wire, s) => \A n \in Readable(s) : LastShows(wire, s, n)
    /\ \A s \in Slugs : books[s].epoch = epoch =>
         s \in streams /\ (HasBook(wire, s) \/ \A n \in Readable(s) : n <= books[s].change)

\* The slugs that count as subscribed are, unless they are too many.
CarriedInv ==
  subscribed \subseteq due \cup streams \/ Needed(Cardinality(subscribed)) > MaxSubscriptions

IInv == StreamTypes /\ LinkInv /\ BookInv /\ CarriedInv

-----------------------------------------------------------------------------
LEMMA NeededGrows ==
  ASSUME NEW m \in Nat, NEW n \in Nat, m <= n
  PROVE  Needed(m) \in Nat /\ Needed(n) \in Nat /\ Needed(m) <= Needed(n)
<1> DEFINE a == m + ChunkSize - 1  b == n + ChunkSize - 1
<1>1. a \in Nat /\ b \in Nat /\ a <= b
  OBVIOUS
<1> HIDE DEF a, b
<1>2. (a \div ChunkSize) \in Nat /\ (b \div ChunkSize) \in Nat
  BY <1>1
<1>3. (a \div ChunkSize) <= (b \div ChunkSize)
  BY <1>1
<1>4. Needed(m) = 2 * (a \div ChunkSize) /\ Needed(n) = 2 * (b \div ChunkSize)
  BY DEF Needed, a, b
<1> QED BY <1>2, <1>3, <1>4

LEMMA AddTwo ==
  ASSUME NEW S, NEW w \in Seq(S), NEW x \in S, NEW y \in S
  PROVE  /\ w \o <<x, y>> \in Seq(S) /\ Len(w) \in Nat /\ Len(w \o <<x, y>>) = Len(w) + 2
         /\ \A i \in 1..Len(w) : (w \o <<x, y>>)[i] = w[i]
         /\ (w \o <<x, y>>)[Len(w) + 1] = x /\ (w \o <<x, y>>)[Len(w) + 2] = y
OBVIOUS

LEMMA TailElements ==
  ASSUME NEW S, NEW w \in Seq(S), w # <<>>
  PROVE  /\ Tail(w) \in Seq(S) /\ Len(w) \in Nat \ {0} /\ Len(Tail(w)) = Len(w) - 1
         /\ \A i \in 1..Len(Tail(w)) : Tail(w)[i] = w[i + 1]
         /\ Head(w) = w[1] /\ Head(w) \in S
OBVIOUS

LEMMA MessagesType ==
  ASSUME NEW s \in Slugs, NEW n \in Changes
  PROVE  \E x \in Messaged, y \in Messaged :
           /\ Messages(s, n) = <<x, y>> /\ x.slug = s /\ y.slug = s /\ y.change = n
           /\ x.kind # "book" /\ (n \notin Unreadable => y.kind = "book")
           /\ (n \in Unreadable => y.kind = "other")
<1> DEFINE x == [kind |-> IF n \in Unreadable THEN "other" ELSE "quote", slug |-> s, change |-> n]
           y == [kind |-> IF n \in Unreadable THEN "other" ELSE "book", slug |-> s, change |-> n]
<1>1. Messages(s, n) = <<x, y>>
  BY DEF Messages
<1>2. x \in Messaged /\ y \in Messaged
  BY DEF Messaged
<1> QED BY <1>1, <1>2

\* Two frames behind w, of which the first is no book of s.
LEMMA BooksAdded ==
  ASSUME NEW w \in Seq(Messaged), NEW x \in Messaged, NEW y \in Messaged, NEW s \in Slugs, ~IsBook(x, s)
  PROVE  /\ IsBook(y, s) => HasBook(w \o <<x, y>>, s)
         /\ ~IsBook(y, s) => (HasBook(w \o <<x, y>>, s) <=> HasBook(w, s))
<1> DEFINE v == w \o <<x, y>>
<1>1. /\ Len(w) \in Nat /\ Len(v) = Len(w) + 2 /\ v[Len(w) + 1] = x /\ v[Len(w) + 2] = y
      /\ \A j \in 1..Len(w) : v[j] = w[j]
  BY AddTwo
<1> HIDE DEF v
<1>2. \A j \in 1..Len(v) : j \in 1..Len(w) \/ j = Len(w) + 1 \/ j = Len(w) + 2
  BY <1>1
<1>3. Len(w) + 2 \in 1..Len(v) /\ \A j \in 1..Len(w) : j \in 1..Len(v)
  BY <1>1
<1>4. IsBook(y, s) => HasBook(v, s)
  BY <1>1, <1>3 DEF HasBook
<1>5. ~IsBook(y, s) => (HasBook(v, s) <=> HasBook(w, s))
  BY <1>1, <1>2, <1>3 DEF HasBook
<1> QED BY <1>4, <1>5 DEF v

LEMMA ShownAdded ==
  ASSUME NEW w \in Seq(Messaged), NEW x \in Messaged, NEW y \in Messaged, NEW s \in Slugs, NEW n \in Nat,
         ~IsBook(x, s)
  PROVE  /\ IsBook(y, s) /\ n <= y.change => LastShows(w \o <<x, y>>, s, n)
         /\ ~IsBook(y, s) /\ LastShows(w, s, n) => LastShows(w \o <<x, y>>, s, n)
<1> DEFINE v == w \o <<x, y>>
<1>1. /\ Len(w) \in Nat /\ Len(v) = Len(w) + 2 /\ v[Len(w) + 1] = x /\ v[Len(w) + 2] = y
      /\ \A j \in 1..Len(w) : v[j] = w[j]
  BY AddTwo
<1> HIDE DEF v
<1>2. \A j \in 1..Len(v) : j \in 1..Len(w) \/ j = Len(w) + 1 \/ j = Len(w) + 2
  BY <1>1
<1>3. Len(w) + 2 \in 1..Len(v) /\ \A j \in 1..Len(v) : ~(j > Len(w) + 2)
  BY <1>1
<1>4. \A j \in 1..Len(w) : j \in 1..Len(v)
  BY <1>1
<1>5. IsBook(y, s) /\ n <= y.change => LastShows(v, s, n)
  BY <1>1, <1>3 DEF LastShows
<1>6. ASSUME ~IsBook(y, s), LastShows(w, s, n) PROVE LastShows(v, s, n)
  <2>1. PICK i \in 1..Len(w) :
          IsBook(w[i], s) /\ n <= w[i].change /\ \A j \in 1..Len(w) : j > i => ~IsBook(w[j], s)
    BY <1>6 DEF LastShows
  <2>2. i \in 1..Len(v) /\ v[i] = w[i]
    BY <1>1, <1>4
  <2>3. \A j \in 1..Len(v) : j > i => ~IsBook(v[j], s)
    BY <1>1, <1>2, <1>6, <2>1
  <2> QED BY <2>1, <2>2, <2>3 DEF LastShows
<1> QED BY <1>5, <1>6 DEF v

LEMMA BooksTaken ==
  ASSUME NEW w \in Seq(Messaged), w # <<>>, NEW s, NEW n
  PROVE  /\ HasBook(w, s) <=> IsBook(Head(w), s) \/ HasBook(Tail(w), s)
         /\ LastShows(w, s, n) =>
               IF HasBook(Tail(w), s) THEN LastShows(Tail(w), s, n) ELSE n <= Head(w).change
<1> DEFINE v == Tail(w)
<1>1. /\ Len(w) \in Nat \ {0} /\ Len(v) = Len(w) - 1 /\ Head(w) = w[1]
      /\ \A j \in 1..Len(v) : v[j] = w[j + 1]
  BY TailElements
<1> HIDE DEF v
<1>2. \A j \in 1..Len(v) : j + 1 \in 1..Len(w) /\ j + 1 > 1 /\ v[j] = w[j + 1]
  BY <1>1
<1>3. \A j \in 1..Len(w) : j = 1 \/ (j - 1 \in 1..Len(v) /\ v[j - 1] = w[j])
  BY <1>1
<1>4. 1 \in 1..Len(w)
  BY <1>1
<1>5. HasBook(w, s) <=> IsBook(Head(w), s) \/ HasBook(v, s)
  BY <1>1, <1>2, <1>3, <1>4 DEF HasBook
<1>6. ASSUME LastShows(w, s, n) PROVE IF HasBook(v, s) THEN LastShows(v, s, n) ELSE n <= Head(w).change
  <2>1. PICK i \in 1..Len(w) :
          IsBook(w[i], s) /\ n <= w[i].change /\ \A j \in 1..Len(w) : j > i => ~IsBook(w[j], s)
    BY <1>6 DEF LastShows
  <2>2. CASE i = 1
    <3>1. ~HasBook(v, s)
      BY <1>2, <2>1, <2>2 DEF HasBook
    <3> QED BY <1>1, <2>1, <2>2, <3>1
  <2>3. CASE i # 1
    <3>1. i - 1 \in 1..Len(v) /\ v[i - 1] = w[i]
      BY <1>3, <2>3
    <3>2. ASSUME NEW j \in 1..Len(v), j > i - 1 PROVE ~IsBook(v[j], s)
      BY <1>2, <2>1, <3>2
    <3>3. LastShows(v, s, n) /\ HasBook(v, s)
      BY <2>1, <3>1, <3>2 DEF LastShows, HasBook
    <3> QED BY <3>3
  <2> QED BY <2>2, <2>3
<1> QED BY <1>5, <1>6 DEF v

-----------------------------------------------------------------------------
LEMMA InitInv == Init => IInv
<1> SUFFICES ASSUME Init PROVE IInv
  OBVIOUS
<1>1. StreamTypes
  BY DEF Init, StreamTypes, Changes
<1>2. LinkInv /\ BookInv /\ CarriedInv
  BY DEF Init, LinkInv, BookInv, CarriedInv
<1> QED BY <1>1, <1>2 DEF IInv

\* What the invariant is about; what leaves it alone preserves it.
view == <<price, due, streams, alive, wire, link, epoch, subscribed, books>>

LEMMA ViewKept ==
  ASSUME IInv, UNCHANGED view, wanted' \subseteq Slugs
  PROVE  IInv'
<1>1. StreamTypes' /\ LinkInv'
  BY DEF IInv, StreamTypes, LinkInv, view
<1>2. BookInv'
  BY DEF IInv, BookInv, view, Readable
<1>3. CarriedInv'
  BY DEF IInv, CarriedInv, view
<1> QED BY <1>1, <1>2, <1>3 DEF IInv

LEMMA HangUpKeeps ==
  ASSUME IInv, HangUp PROVE IInv'
<1>1. /\ link' = "down" /\ subscribed' = {} /\ due' = {} /\ streams' = {} /\ wire' = <<>>
      /\ UNCHANGED <<price, epoch, wanted, books>>
  BY DEF HangUp
<1>2. StreamTypes' /\ LinkInv'
  BY <1>1 DEF IInv, StreamTypes, LinkInv
<1>3. BookInv' /\ CarriedInv'
  BY <1>1 DEF BookInv, CarriedInv
<1> QED BY <1>2, <1>3 DEF IInv

\* One slug's messages are pushed, at its present change n.
LEMMA PushKeeps ==
  ASSUME IInv, NEW s \in Slugs, NEW n \in Changes, link = "up", alive,
         wire' = wire \o Messages(s, n), streams' = streams \cup {s}, price' = [price EXCEPT ![s] = n],
         (s \in streams /\ n = price[s] + 1) \/ n = price[s],
         UNCHANGED <<alive, link, epoch, books, wanted, subscribed>>, due' \subseteq Slugs
  PROVE  StreamTypes' /\ LinkInv' /\ BookInv'
<1> PICK x \in Messaged, y \in Messaged :
           /\ Messages(s, n) = <<x, y>> /\ x.slug = s /\ y.slug = s /\ y.change = n
           /\ x.kind # "book" /\ (n \notin Unreadable => y.kind = "book")
           /\ (n \in Unreadable => y.kind = "other")
  BY MessagesType
<1>1. wire \in Seq(Messaged) /\ wire' = wire \o <<x, y>>
  BY DEF IInv, StreamTypes
<1>2. /\ Len(wire) \in Nat /\ Len(wire') = Len(wire) + 2 /\ wire' \in Seq(Messaged)
      /\ wire'[Len(wire) + 1] = x /\ wire'[Len(wire) + 2] = y
      /\ \A j \in 1..Len(wire) : wire'[j] = wire[j]
  BY <1>1, AddTwo
<1>3. /\ \A i \in 1..Len(wire) : wire[i].slug \in streams
      /\ \A t \in Slugs : HasBook(wire, t) => \A k \in Readable(t) : LastShows(wire, t, k)
      /\ \A t \in Slugs : books[t].epoch = epoch =>
           t \in streams /\ (HasBook(wire, t) \/ \A k \in Readable(t) : k <= books[t].change)
  BY DEF IInv, BookInv
<1>4. price[s] \in Nat /\ price'[s] = n /\ \A t \in Slugs \ {s} : price'[t] = price[t]
  BY DEF IInv, StreamTypes, Changes
<1>5. StreamTypes'
  BY <1>2 DEF IInv, StreamTypes
<1>6. LinkInv'
  BY DEF IInv, LinkInv
<1>7. \A i \in 1..Len(wire') : wire'[i].slug \in streams'
  <2>1. \A i \in 1..Len(wire') : i \in 1..Len(wire) \/ i = Len(wire) + 1 \/ i = Len(wire) + 2
    BY <1>2
  <2> QED BY <1>2, <1>3, <2>1
<1>8. \A t \in Slugs : ~IsBook(x, t) /\ (IsBook(y, t) <=> t = s /\ n \notin Unreadable)
  BY DEF IsBook
<1>9. CASE n \notin Unreadable
  <2>1. IsBook(y, s) /\ HasBook(wire', s) /\ \A k \in Readable(s)' : LastShows(wire', s, k)
    <3>1. HasBook(wire', s)
      BY <1>1, <1>8, <1>9, BooksAdded
    <3>2. ASSUME NEW k \in Readable(s)' PROVE LastShows(wire', s, k)
      <4>1. k <= y.change /\ k \in Nat
        BY <1>4, <3>2 DEF Readable, Changes
      <4> QED BY <1>1, <1>8, <1>9, <4>1, ShownAdded
    <3> QED BY <1>8, <1>9, <3>1, <3>2
  <2>2. \A t \in Slugs \ {s} : Readable(t)' = Readable(t)
    BY <1>4 DEF Readable
  <2>3. \A t \in Slugs \ {s} : HasBook(wire', t) <=> HasBook(wire, t)
    BY <1>1, <1>8, BooksAdded
  <2>4. \A t \in Slugs \ {s} : \A k \in Readable(t) : LastShows(wire, t, k) => LastShows(wire', t, k)
    BY <1>1, <1>8, ShownAdded DEF Readable
  <2>5. \A t \in Slugs : HasBook(wire', t) => \A k \in Readable(t)' : LastShows(wire', t, k)
    BY <1>3, <2>1, <2>2, <2>4, <2>3
  <2>6. \A t \in Slugs : books[t].epoch = epoch =>
           t \in streams' /\ (HasBook(wire', t) \/ \A k \in Readable(t)' : k <= books[t].change)
    BY <1>3, <2>1, <2>2, <2>3
  <2> QED BY <1>5, <1>6, <1>7, <2>5, <2>6 DEF BookInv
<1>10. CASE n \in Unreadable
  <2>1. \A t \in Slugs : Readable(t)' = Readable(t)
    <3>1. Readable(s)' = Readable(s)
      BY <1>4, <1>10 DEF Readable, Changes
    <3>2. \A t \in Slugs \ {s} : Readable(t)' = Readable(t)
      BY <1>4 DEF Readable
    <3> QED BY <3>1, <3>2
  <2>2. \A t \in Slugs : HasBook(wire', t) <=> HasBook(wire, t)
    BY <1>1, <1>8, <1>10, BooksAdded
  <2>3. \A t \in Slugs : \A k \in Readable(t) : LastShows(wire, t, k) => LastShows(wire', t, k)
    BY <1>1, <1>8, <1>10, ShownAdded DEF Readable
  <2>4. \A t \in Slugs : HasBook(wire', t) => \A k \in Readable(t)' : LastShows(wire', t, k)
    BY <1>3, <2>1, <2>2, <2>3
  <2>5. \A t \in Slugs : books[t].epoch = epoch =>
           t \in streams' /\ (HasBook(wire', t) \/ \A k \in Readable(t)' : k <= books[t].change)
    BY <1>3, <2>1, <2>2
  <2> QED BY <1>5, <1>6, <1>7, <2>4, <2>5 DEF BookInv
<1> QED BY <1>9, <1>10

LEMMA ChangeKeeps ==
  ASSUME IInv, NEW s \in Slugs, Change(s) PROVE IInv'
<1>1. /\ price[s] \in Changes /\ price[s] + 1 \in Changes /\ price' = [price EXCEPT ![s] = price[s] + 1]
      /\ UNCHANGED <<due, streams, alive, link, epoch, subscribed, books, wanted>>
  BY DEF IInv, StreamTypes, Change, Changes, socket, quotes
<1>2. CarriedInv'
  BY <1>1 DEF IInv, CarriedInv
<1>3. CASE s \in streams /\ alive
  <2>1. link = "up" /\ wire' = wire \o Messages(s, price[s] + 1)
    BY <1>3 DEF Change, IInv, LinkInv, StreamTypes
  <2>2. streams' = streams \cup {s} /\ due' \subseteq Slugs
    BY <1>1, <1>3 DEF IInv, StreamTypes
  <2>3. StreamTypes' /\ LinkInv' /\ BookInv'
    BY <1>1, <1>3, <2>1, <2>2, PushKeeps
  <2> QED BY <1>2, <2>3 DEF IInv
<1>4. CASE ~(s \in streams /\ alive)
  <2>1. wire' = wire
    BY <1>4 DEF Change
  <2>2. StreamTypes' /\ LinkInv'
    BY <1>1, <2>1 DEF IInv, StreamTypes, LinkInv
  <2>3. BookInv'
    <3>1. SUFFICES ASSUME link = "up", alive PROVE BookInv'
      BY <1>1 DEF BookInv
    <3>2. s \notin streams /\ wire \in Seq(Messaged)
      BY <1>4, <3>1 DEF IInv, StreamTypes
    <3>3. /\ \A i \in 1..Len(wire) : wire[i].slug \in streams
          /\ \A t \in Slugs : HasBook(wire, t) => \A k \in Readable(t) : LastShows(wire, t, k)
          /\ \A t \in Slugs : books[t].epoch = epoch =>
               t \in streams /\ (HasBook(wire, t) \/ \A k \in Readable(t) : k <= books[t].change)
      BY <3>1 DEF IInv, BookInv
    <3>4. ~HasBook(wire, s) /\ books[s].epoch # epoch
      BY <3>2, <3>3 DEF HasBook, IsBook
    <3>5. \A t \in Slugs \ {s} : Readable(t)' = Readable(t)
      BY <1>1 DEF Readable, IInv, StreamTypes
    <3>6. \A t \in Slugs : HasBook(wire, t) => \A k \in Readable(t)' : LastShows(wire, t, k)
      BY <3>3, <3>4, <3>5
    <3>7. \A t \in Slugs : books[t].epoch = epoch =>
            t \in streams /\ (HasBook(wire, t) \/ \A k \in Readable(t)' : k <= books[t].change)
      BY <3>3, <3>4, <3>5
    <3> QED BY <1>1, <2>1, <3>3, <3>6, <3>7 DEF BookInv
  <2> QED BY <1>2, <2>2, <2>3 DEF IInv
<1> QED BY <1>3, <1>4

LEMMA SnapshotKeeps ==
  ASSUME IInv, NEW s \in Slugs, Snapshot(s) PROVE IInv'
<1>1. /\ due' = due \ {s} /\ streams' = streams \cup {s} /\ wire' = wire \o Messages(s, price[s])
      /\ UNCHANGED <<price, alive, link, epoch, subscribed, books, wanted>> /\ s \in due /\ alive
  BY DEF Snapshot, socket, quotes
<1>2. link = "up" /\ price[s] \in Changes /\ price' = [price EXCEPT ![s] = price[s]] /\ due' \subseteq Slugs
  BY <1>1 DEF IInv, LinkInv, StreamTypes
<1>3. StreamTypes' /\ LinkInv' /\ BookInv'
  BY <1>1, <1>2, PushKeeps
<1>4. CarriedInv'
  BY <1>1 DEF IInv, CarriedInv
<1> QED BY <1>3, <1>4 DEF IInv

LEMMA ConnectKeeps ==
  ASSUME IInv, Connect PROVE IInv'
<1>1. /\ link = "down" /\ link' = "up" /\ epoch' = epoch + 1
      /\ UNCHANGED <<price, due, streams, alive, wire, subscribed, books, wanted>>
  BY DEF Connect, server, quotes
<1>2. StreamTypes'
  BY <1>1 DEF IInv, StreamTypes
<1>3. \A s \in Slugs : books[s].epoch \in Nat /\ books[s].epoch <= epoch
  BY DEF IInv, StreamTypes, LinkInv
<1>4. epoch \in Nat /\ wire = <<>>
  BY <1>1 DEF IInv, StreamTypes, LinkInv
<1>5. \A s \in Slugs : books[s].epoch <= epoch + 1 /\ books[s].epoch # epoch + 1
  BY <1>3, <1>4
<1>6. LinkInv'
  BY <1>1, <1>5 DEF LinkInv
<1>7. BookInv'
  BY <1>1, <1>4, <1>5 DEF BookInv, HasBook
<1>8. CarriedInv'
  BY <1>1 DEF IInv, CarriedInv
<1> QED BY <1>2, <1>6, <1>7, <1>8 DEF IInv

\* A refresh that asks for all that is new, or knows that it cannot.
LEMMA AskKeeps ==
  ASSUME IInv, link = "up", NEW slugs \in SUBSET Slugs, NEW messages, NEW asked \in SUBSET Slugs,
         Ask(slugs, messages, asked),
         asked \subseteq slugs \/ Needed(Cardinality(subscribed \cup asked)) > MaxSubscriptions
  PROVE  IInv'
<1>1. /\ due' = due \cup slugs /\ subscribed' = subscribed \cup asked
      /\ UNCHANGED <<price, streams, alive, wire, link, epoch, books, wanted>>
  BY DEF Ask, quotes
<1>2. StreamTypes' /\ LinkInv'
  BY <1>1 DEF IInv, StreamTypes, LinkInv
<1>3. BookInv'
  BY <1>1 DEF IInv, BookInv, Readable
<1>4. CarriedInv'
  <2>1. CASE subscribed \subseteq due \cup streams /\ asked \subseteq slugs
    BY <1>1, <2>1 DEF CarriedInv
  <2>2. CASE Needed(Cardinality(subscribed)) > MaxSubscriptions
    <3>1. subscribed \subseteq subscribed' /\ subscribed' \subseteq Slugs
      BY <1>1 DEF IInv, StreamTypes
    <3>2. IsFiniteSet(subscribed') /\ IsFiniteSet(subscribed)
      BY <3>1, FS_Subset, PolymarketFeedAssumption
    <3>3. /\ Cardinality(subscribed) \in Nat /\ Cardinality(subscribed') \in Nat
          /\ Cardinality(subscribed) <= Cardinality(subscribed')
      BY <3>1, <3>2, FS_Subset, FS_CardinalityType
    <3>4. /\ Needed(Cardinality(subscribed)) \in Nat /\ Needed(Cardinality(subscribed')) \in Nat
          /\ Needed(Cardinality(subscribed)) <= Needed(Cardinality(subscribed'))
      BY <3>3, NeededGrows
    <3>5. Needed(Cardinality(subscribed')) > MaxSubscriptions
      BY <2>2, <3>4
    <3> QED BY <3>5 DEF CarriedInv, Needed
  <2>3. CASE Needed(Cardinality(subscribed \cup asked)) > MaxSubscriptions
    BY <1>1, <2>3 DEF CarriedInv, Needed
  <2> QED BY <2>1, <2>2, <2>3 DEF IInv, CarriedInv
<1> QED BY <1>2, <1>3, <1>4 DEF IInv

LEMMA RefreshKeeps ==
  ASSUME IInv, Refresh PROVE IInv'
<1> DEFINE new == wanted \ subscribed
           free == MaxSubscriptions - subscriptions
<1>1. new \in SUBSET Slugs /\ subscribed \cup new = subscribed \cup (wanted \ subscribed)
  BY DEF IInv, StreamTypes
<1>2. link = "up"
  BY DEF Refresh
<1>3. CASE Ask(new, Needed(Cardinality(new)), new)
  BY <1>1, <1>2, <1>3, AskKeeps
<1>4. CASE HangUp
  BY <1>4, HangUpKeeps
<1>5. CASE /\ Needed(Cardinality(subscribed \cup new)) > MaxSubscriptions
           /\ \E part \in SUBSET new : Ask(part, free, new)
  <2>1. PICK part \in SUBSET new : Ask(part, free, new)
    BY <1>5
  <2>2. part \in SUBSET Slugs
    BY <1>1
  <2> QED BY <1>1, <1>2, <1>5, <2>1, <2>2, AskKeeps
<1>6. \/ Ask(new, Needed(Cardinality(new)), new) \/ HangUp
      \/ /\ Needed(Cardinality(subscribed \cup new)) > MaxSubscriptions
         /\ \E part \in SUBSET new : Ask(part, free, new)
  BY DEF Refresh
<1> QED BY <1>3, <1>4, <1>5, <1>6

LEMMA ReceiveKeeps ==
  ASSUME IInv, Receive PROVE IInv'
<1> DEFINE f == Head(wire)
<1>1. /\ link = "up" /\ wire # <<>> /\ wire' = Tail(wire)
      /\ UNCHANGED <<price, due, streams, alive, link, epoch, subscribed, wanted>>
      /\ \/ f.kind = "book" /\ books' = [books EXCEPT ![f.slug] = [epoch |-> epoch, change |-> f.change]]
         \/ f.kind # "book" /\ books' = books
  BY DEF Receive, ReadQuote, ReadBook, socket
<1>2. wire \in Seq(Messaged) /\ epoch \in Nat
  BY DEF IInv, StreamTypes
<1>3. /\ wire' \in Seq(Messaged) /\ Len(wire) \in Nat \ {0} /\ Len(wire') = Len(wire) - 1
      /\ \A i \in 1..Len(wire') : wire'[i] = wire[i + 1]
      /\ f = wire[1] /\ f \in Messaged
  BY <1>1, <1>2, TailElements
<1>4. f.slug \in Slugs /\ f.change \in Changes
  BY <1>3 DEF Messaged
<1> HIDE DEF f
<1>5. StreamTypes'
  <2>1. books' \in [Slugs -> [epoch : Nat, change : Changes]]
    BY <1>1, <1>2, <1>4 DEF IInv, StreamTypes
  <2> QED BY <1>1, <1>3, <2>1 DEF IInv, StreamTypes
<1>6. /\ f.kind = "book" => books'[f.slug].epoch = epoch /\ books'[f.slug].change = f.change
      /\ \A t \in Slugs : ~IsBook(f, t) => books'[t] = books[t]
  BY <1>1, <1>4 DEF IInv, StreamTypes, IsBook
<1>7. LinkInv'
  <2>1. \A s \in Slugs : books'[s].epoch <= epoch
    BY <1>2, <1>6 DEF IInv, LinkInv, IsBook
  <2> QED BY <1>1, <2>1 DEF LinkInv
<1>8. BookInv'
  <2>1. SUFFICES ASSUME alive PROVE BookInv'
    BY <1>1 DEF BookInv
  <2>2. /\ \A i \in 1..Len(wire) : wire[i].slug \in streams
        /\ \A t \in Slugs : HasBook(wire, t) => \A k \in Readable(t) : LastShows(wire, t, k)
        /\ \A t \in Slugs : books[t].epoch = epoch =>
             t \in streams /\ (HasBook(wire, t) \/ \A k \in Readable(t) : k <= books[t].change)
    BY <1>1, <2>1 DEF IInv, BookInv
  <2>3. f.slug \in streams /\ \A i \in 1..Len(wire') : wire'[i].slug \in streams
    BY <1>3, <2>2
  <2>4. \A t \in Slugs : HasBook(wire, t) <=> IsBook(f, t) \/ HasBook(wire', t)
    BY <1>1, <1>2, BooksTaken DEF f
  <2>5. \A t \in Slugs : \A k \in Readable(t) : LastShows(wire, t, k) =>
          IF HasBook(wire', t) THEN LastShows(wire', t, k) ELSE k <= f.change
    BY <1>1, <1>2, BooksTaken DEF f
  <2>6. \A t \in Slugs : HasBook(wire', t) => \A k \in Readable(t) : LastShows(wire', t, k)
    BY <2>2, <2>4, <2>5
  <2>7. ASSUME NEW t \in Slugs, books'[t].epoch = epoch
        PROVE  t \in streams /\ (HasBook(wire', t) \/ \A k \in Readable(t) : k <= books'[t].change)
    <3>1. CASE IsBook(f, t)
      BY <1>6, <2>2, <2>3, <2>4, <2>5, <3>1 DEF IsBook
    <3>2. CASE ~IsBook(f, t)
      BY <1>6, <2>2, <2>4, <2>7, <3>2
    <3> QED BY <3>1, <3>2
  <2> QED BY <1>1, <2>3, <2>6, <2>7 DEF BookInv, Readable
<1>9. CarriedInv'
  BY <1>1 DEF IInv, CarriedInv
<1> QED BY <1>5, <1>7, <1>8, <1>9 DEF IInv

LEMMA StepInv == IInv /\ [Next]_vars => IInv'
<1> SUFFICES ASSUME IInv, [Next]_vars PROVE IInv'
  OBVIOUS
<1>1. ASSUME NEW s \in Slugs, Change(s) PROVE IInv'
  BY <1>1, ChangeKeeps
<1>2. ASSUME NEW s \in Slugs, Snapshot(s) PROVE IInv'
  BY <1>2, SnapshotKeeps
<1>3. ASSUME NEW s \in Slugs, List(s) PROVE IInv'
  <2>1. UNCHANGED view /\ wanted' \subseteq Slugs
    BY <1>3 DEF List, view, server, socket, IInv, StreamTypes
  <2> QED BY <2>1, ViewKept
<1>4. ASSUME NEW s \in Slugs, EndMarket(s) PROVE IInv'
  <2>1. UNCHANGED view /\ wanted' \subseteq Slugs
    BY <1>4 DEF EndMarket, view, server, socket, IInv, StreamTypes
  <2> QED BY <2>1, ViewKept
<1>5. CASE FallSilent
  <2>1. /\ link = "up" /\ alive' = FALSE /\ wire' = <<>>
        /\ UNCHANGED <<price, due, streams, link, epoch, subscribed, books, wanted>>
    BY <1>5 DEF FallSilent, socket, quotes
  <2>2. StreamTypes' /\ LinkInv'
    BY <2>1 DEF IInv, StreamTypes, LinkInv
  <2>3. BookInv' /\ CarriedInv'
    BY <2>1 DEF IInv, BookInv, CarriedInv
  <2> QED BY <2>2, <2>3 DEF IInv
<1>6. CASE Connect
  BY <1>6, ConnectKeeps
<1>7. CASE Disconnect \/ SilenceTimesOut
  <2>1. HangUp
    BY <1>7 DEF Disconnect, SilenceTimesOut
  <2> QED BY <2>1, HangUpKeeps
<1>8. CASE Refresh
  BY <1>8, RefreshKeeps
<1>9. CASE Receive
  BY <1>9, ReceiveKeeps
<1>10. CASE Heartbeat \/ Pass \/ CacheQuote \/ RestCycle \/ RestFails \/ UNCHANGED vars
  <2>1. UNCHANGED view /\ UNCHANGED wanted
    <3>1. CASE Heartbeat \/ Pass \/ CacheQuote
      BY <3>1 DEF Heartbeat, Pass, CacheQuote, view, server, socket, quotes
    <3>2. CASE RestAsk \/ RestRead \/ RestFails \/ RestCache
      BY <3>2 DEF RestAsk, RestRead, RestFails, RestCache, view, server, socket
    <3>3. CASE RestApply
      BY <3>3 DEF RestApply, view, server, socket
    <3>4. CASE UNCHANGED vars
      BY <3>4 DEF vars, view, server, socket
    <3> QED BY <1>10, <3>1, <3>2, <3>3, <3>4 DEF RestCycle
  <2>2. wanted' \subseteq Slugs
    BY <2>1 DEF IInv, StreamTypes
  <2> QED BY <2>1, <2>2, ViewKept
<1> QED BY <1>1, <1>2, <1>3, <1>4, <1>5, <1>6, <1>7, <1>8, <1>9, <1>10 DEF Next, Stream

LEMMA InvHolds == Spec => []IInv
BY InitInv, StepInv, PTL DEF Spec

-----------------------------------------------------------------------------
\* fresh_polymarket_book: however the gateway's frames, the silences and the
\* reconnections fall, a book that orders are sized from is the last one of
\* the exchange that could be read, or a newer one is on its way.
THEOREM LastBookIsUsed == Spec => []FreshBookIsLast
<1>1. IInv => FreshBookIsLast
  <2> SUFFICES ASSUME IInv, NEW s \in Watched, Fresh(s), alive, OnItsWay("book", s) = {}
               PROVE  \A n \in Readable(s) : n <= books[s].change
    BY DEF FreshBookIsLast
  <2>1. s \in Slugs /\ link = "up" /\ books[s].epoch = epoch
    BY PolymarketFeedAssumption DEF Fresh, live
  <2>2. HasBook(wire, s) \/ \A n \in Readable(s) : n <= books[s].change
    BY <2>1 DEF IInv, BookInv
  <2>3. ~HasBook(wire, s)
    <3>1. SUFFICES ASSUME HasBook(wire, s) PROVE FALSE
      OBVIOUS
    <3>2. PICK i \in 1..Len(wire) : IsBook(wire[i], s)
      BY <3>1 DEF HasBook
    <3>3. DOMAIN wire = 1..Len(wire)
      BY DEF IInv, StreamTypes
    <3>4. wire[i].change \in OnItsWay("book", s)
      BY <3>2, <3>3 DEF OnItsWay, IsBook
    <3> QED BY <3>4
  <2> QED BY <2>2, <2>3
<1> QED BY <1>1, InvHolds, PTL

\* run_once: a slug that is never asked for again has its subscription at the
\* server, unless the slugs exceed what one connection may carry.
THEOREM SubscriptionsAreCarried == Spec => []SubscribedIsCarried
<1>1. IInv => SubscribedIsCarried
  <2> SUFFICES ASSUME IInv, Needed(Cardinality(subscribed)) <= MaxSubscriptions
               PROVE  subscribed \subseteq due \cup streams
    BY DEF SubscribedIsCarried
  <2>1. IsFiniteSet(subscribed)
    BY FS_Subset, PolymarketFeedAssumption DEF IInv, StreamTypes
  <2>2. Needed(Cardinality(subscribed)) \in Nat
    BY <2>1, FS_CardinalityType, NeededGrows
  <2>3. ~(Needed(Cardinality(subscribed)) > MaxSubscriptions)
    BY <2>2, PolymarketFeedAssumption
  <2> QED BY <2>3 DEF IInv, CarriedInv
<1> QED BY <1>1, InvHolds, PTL

-----------------------------------------------------------------------------
(* The prices. What the cache, the REST cycle and matched_markets hold of a *)
(* slug that neither REST nor a scan has crossed is what the stream brought. *)

Pending(s) == pend # NoQuote /\ pend.slug = s

PriceTypes ==
  /\ price \in [Slugs -> Nat] /\ wire \in Seq(Messaged)
  /\ link \in {"down", "up"} /\ epoch \in Nat /\ wanted \subseteq Slugs
  /\ quoteEpoch \in [Slugs -> Nat]
  /\ DOMAIN matched = Slugs /\ DOMAIN cache = Slugs /\ DOMAIN pushed = Slugs
  /\ DOMAIN rest = {"step", "owned", "puts"}

\* The three places a price of s may come from: the quote between its two
\* locks, the REST cycle between its two, and the last quote of this connection.
PendIsPushed(s) == Pending(s) => matched[s] = FromStream(pend.change) /\ pend.change = pushed[s]
PutIsMatched(s) == rest.step = "applied" /\ rest.puts[s] # NoPrice => rest.puts[s] = matched[s]
LiveIsPushed(s) ==
  link = "up" /\ quoteEpoch[s] = epoch =>
    matched[s] = FromStream(pushed[s]) /\ (~Pending(s) => cache[s] = matched[s])

Uncrossed == (wanted \cap Watched) \ crossed

PriceInv ==
  /\ PriceTypes
  /\ \A s \in Slugs : quoteEpoch[s] <= epoch
  /\ \A s \in Uncrossed : PendIsPushed(s) /\ PutIsMatched(s) /\ LiveIsPushed(s)

LEMMA PriceViewKept ==
  ASSUME PriceInv, UNCHANGED <<link, epoch, wanted, quotes, rest, pushed, crossed>>,
         price' \in [Slugs -> Nat], wire' \in Seq(Messaged)
  PROVE  PriceInv'
<1>1. PriceTypes'
  BY DEF PriceInv, PriceTypes, quotes
<1>2. \A s \in Slugs : quoteEpoch'[s] <= epoch'
  BY DEF PriceInv, quotes
<1>3. ASSUME NEW s \in Uncrossed' PROVE PendIsPushed(s)' /\ PutIsMatched(s)' /\ LiveIsPushed(s)'
  <2>1. s \in Uncrossed
    BY <1>3 DEF Uncrossed
  <2>2. PendIsPushed(s) /\ PutIsMatched(s) /\ LiveIsPushed(s)
    BY <2>1 DEF PriceInv
  <2> QED BY <2>2 DEF PendIsPushed, PutIsMatched, LiveIsPushed, Pending, quotes
<1> QED BY <1>1, <1>2, <1>3 DEF PriceInv

LEMMA PriceInit == Init => PriceInv
<1> SUFFICES ASSUME Init PROVE PriceInv
  OBVIOUS
<1>1. PriceTypes
  BY DEF Init, PriceTypes, Idle
<1>2. \A s \in Slugs : quoteEpoch[s] <= epoch
  BY DEF Init
<1>3. \A s \in Slugs : PendIsPushed(s) /\ PutIsMatched(s) /\ LiveIsPushed(s)
  BY DEF Init, PendIsPushed, PutIsMatched, LiveIsPushed, Pending, Idle
<1> QED BY <1>1, <1>2, <1>3 DEF PriceInv, Uncrossed

LEMMA SentMessages ==
  ASSUME NEW w \in Seq(Messaged), NEW s \in Slugs, NEW n \in Changes
  PROVE  w \o Messages(s, n) \in Seq(Messaged)
<1>1. PICK x \in Messaged, y \in Messaged : Messages(s, n) = <<x, y>>
  BY MessagesType
<1> QED BY <1>1, AddTwo

\* The steps that leave the prices and the REST cycle alone.
LEMMA PriceOthersKeep ==
  ASSUME IInv, PriceInv,
         \/ \E s \in Slugs : Change(s) \/ Snapshot(s)
         \/ FallSilent \/ Heartbeat \/ Pass \/ (Refresh /\ ~HangUp) \/ UNCHANGED vars
  PROVE  PriceInv'
<1>1. wire \in Seq(Messaged) /\ price \in [Slugs -> Changes] /\ \A n \in Changes : n \in Nat
  BY DEF IInv, StreamTypes, Changes
<1>2. ASSUME NEW s \in Slugs, Change(s) PROVE PriceInv'
  <2>1. /\ UNCHANGED <<link, epoch, wanted, quotes, rest, pushed, crossed>> /\ price[s] + 1 \in Changes
        /\ price' = [price EXCEPT ![s] = price[s] + 1]
        /\ wire' = wire \/ wire' = wire \o Messages(s, price[s] + 1)
    BY <1>1, <1>2 DEF Change, socket, Changes
  <2>2. price' \in [Slugs -> Nat] /\ wire' \in Seq(Messaged)
    BY <1>1, <2>1, SentMessages
  <2> QED BY <2>1, <2>2, PriceViewKept
<1>3. ASSUME NEW s \in Slugs, Snapshot(s) PROVE PriceInv'
  <2>1. /\ UNCHANGED <<link, epoch, wanted, quotes, rest, pushed, crossed, price>>
        /\ wire' = wire \o Messages(s, price[s]) /\ price[s] \in Changes
    BY <1>1, <1>3 DEF Snapshot, socket
  <2>2. price' \in [Slugs -> Nat] /\ wire' \in Seq(Messaged)
    BY <1>1, <2>1, SentMessages
  <2> QED BY <2>1, <2>2, PriceViewKept
<1>4. CASE FallSilent
  <2>1. /\ UNCHANGED <<link, epoch, wanted, quotes, rest, pushed, crossed, price>> /\ wire' = <<>>
    BY <1>4 DEF FallSilent, socket
  <2>2. price' \in [Slugs -> Nat] /\ wire' \in Seq(Messaged)
    BY <1>1, <2>1
  <2> QED BY <2>1, <2>2, PriceViewKept
<1>5. CASE Heartbeat \/ Pass \/ (Refresh /\ ~HangUp) \/ UNCHANGED vars
  <2>1. UNCHANGED <<link, epoch, wanted, quotes, rest, pushed, crossed, price, wire>>
    BY <1>5 DEF Heartbeat, Pass, Refresh, Ask, vars, server, socket
  <2>2. price' \in [Slugs -> Nat] /\ wire' \in Seq(Messaged)
    BY <1>1, <2>1
  <2> QED BY <2>1, <2>2, PriceViewKept
<1> QED BY <1>2, <1>3, <1>4, <1>5

\* A new connection is of no earlier quote, a lost one has no live price.
LEMMA PriceLinkKeeps ==
  ASSUME PriceInv, Connect \/ HangUp PROVE PriceInv'
<1>1. /\ UNCHANGED <<price, wanted, quotes, rest, pushed, crossed>> /\ wire' \in Seq(Messaged)
      /\ (link' = "up" /\ epoch' = epoch + 1) \/ (link' = "down" /\ epoch' = epoch)
  <2>1. CASE Connect
    BY <2>1 DEF Connect, server, PriceInv, PriceTypes
  <2>2. CASE HangUp
    <3>1. wire' \in Seq(Messaged)
      BY <2>2 DEF HangUp
    <3> QED BY <2>2, <3>1 DEF HangUp
  <2> QED BY <2>1, <2>2
<1>2. epoch \in Nat /\ \A s \in Slugs : quoteEpoch[s] \in Nat /\ quoteEpoch[s] <= epoch
  BY DEF PriceInv, PriceTypes
<1>3. quoteEpoch' = quoteEpoch /\ \A s \in Slugs : quoteEpoch[s] <= epoch' /\ (link' = "up" => quoteEpoch[s] # epoch')
  BY <1>1, <1>2 DEF quotes
<1>4. PriceTypes'
  BY <1>1, <1>2 DEF PriceInv, PriceTypes, quotes
<1>5. ASSUME NEW s \in Uncrossed' PROVE PendIsPushed(s)' /\ PutIsMatched(s)' /\ LiveIsPushed(s)'
  <2>1. s \in Uncrossed /\ s \in Slugs
    BY <1>1, <1>5 DEF Uncrossed, PriceInv, PriceTypes
  <2>2. PendIsPushed(s) /\ PutIsMatched(s)
    BY <2>1 DEF PriceInv
  <2>3. PendIsPushed(s)' /\ PutIsMatched(s)'
    BY <1>1, <2>2 DEF PendIsPushed, PutIsMatched, Pending, quotes
  <2>4. LiveIsPushed(s)'
    BY <1>3, <2>1 DEF LiveIsPushed
  <2> QED BY <2>3, <2>4
<1> QED BY <1>3, <1>4, <1>5 DEF PriceInv

LEMMA PriceReceiveKeeps ==
  ASSUME PriceInv, Receive PROVE PriceInv'
<1> DEFINE f == Head(wire)
<1>1. /\ link = "up" /\ pend = NoQuote /\ wire # <<>> /\ wire' = Tail(wire)
      /\ UNCHANGED <<price, link, epoch, wanted, cache, quoteEpoch, rest>>
      /\ (f.kind = "quote" /\ ReadQuote(f)) \/ UNCHANGED <<matched, pend, pushed, crossed>>
  BY DEF Receive, ReadBook, socket
<1>2. wire' \in Seq(Messaged) /\ f \in Messaged
  BY <1>1, TailElements DEF PriceInv, PriceTypes
<1>3. f.slug \in Slugs
  BY <1>2 DEF Messaged
<1> HIDE DEF f
<1>4. CASE UNCHANGED <<matched, pend, pushed, crossed>>
  <2>1. PriceTypes'
    BY <1>1, <1>2, <1>4 DEF PriceInv, PriceTypes
  <2>2. \A s \in Slugs : quoteEpoch'[s] <= epoch'
    BY <1>1 DEF PriceInv
  <2>3. ASSUME NEW s \in Uncrossed' PROVE PendIsPushed(s)' /\ PutIsMatched(s)' /\ LiveIsPushed(s)'
    <3>1. PendIsPushed(s) /\ PutIsMatched(s) /\ LiveIsPushed(s)
      BY <1>1, <1>4, <2>3 DEF PriceInv, Uncrossed
    <3> QED BY <1>1, <1>4, <3>1 DEF PendIsPushed, PutIsMatched, LiveIsPushed, Pending
  <2> QED BY <2>1, <2>2, <2>3 DEF PriceInv
<1>5. CASE f.kind = "quote" /\ ReadQuote(f)
  <2>1. /\ pushed' = [pushed EXCEPT ![f.slug] = f.change]
        /\ crossed' = IF rest.step \in {"read", "applied"} THEN crossed \cup {f.slug} ELSE crossed \ {f.slug}
    BY <1>5 DEF ReadQuote
  <2>2. \/ f.slug \in wanted /\ matched' = [matched EXCEPT ![f.slug] = FromStream(f.change)]
           /\ pend' = [slug |-> f.slug, change |-> f.change, after |-> rest.step = "asked"]
        \/ f.slug \notin wanted /\ UNCHANGED <<matched, pend>>
    BY <1>5 DEF ReadQuote
  <2>3. PriceTypes'
    BY <1>1, <1>2, <2>1, <2>2 DEF PriceInv, PriceTypes
  <2>4. \A s \in Slugs : quoteEpoch'[s] <= epoch'
    BY <1>1 DEF PriceInv
  <2>5. ASSUME NEW s \in Uncrossed' PROVE PendIsPushed(s)' /\ PutIsMatched(s)' /\ LiveIsPushed(s)'
    <3>0. s \in wanted /\ s \in Slugs /\ s \in Watched
      BY <1>1, <2>5 DEF Uncrossed, PriceInv, PriceTypes
    <3>1. CASE s = f.slug
      <4>1. rest.step \notin {"read", "applied"} /\ rest' = rest
        BY <1>1, <2>1, <2>5, <3>1 DEF Uncrossed
      <4>2. /\ matched'[s] = FromStream(f.change) /\ pushed'[s] = f.change
            /\ pend' = [slug |-> f.slug, change |-> f.change, after |-> rest.step = "asked"]
        BY <2>1, <2>2, <3>0, <3>1 DEF PriceInv, PriceTypes
      <4>3. pend'.slug = s /\ pend'.change = f.change /\ pend' # NoQuote
        BY <3>0, <3>1, <4>2 DEF NoQuote
      <4> QED BY <4>1, <4>2, <4>3 DEF PendIsPushed, PutIsMatched, LiveIsPushed, Pending
    <3>2. CASE s # f.slug
      <4>1. s \in Uncrossed
        BY <1>1, <2>1, <2>5, <3>2 DEF Uncrossed
      <4>2. PendIsPushed(s) /\ PutIsMatched(s) /\ LiveIsPushed(s)
        BY <4>1 DEF PriceInv
      <4>3. matched'[s] = matched[s] /\ pushed'[s] = pushed[s] /\ ~Pending(s) /\ ~Pending(s)'
        BY <1>1, <2>1, <2>2, <3>0, <3>2 DEF PriceInv, PriceTypes, Pending
      <4> QED BY <1>1, <4>2, <4>3 DEF PendIsPushed, PutIsMatched, LiveIsPushed
    <3> QED BY <3>1, <3>2
  <2> QED BY <2>3, <2>4, <2>5 DEF PriceInv
<1> QED BY <1>1, <1>4, <1>5

LEMMA PriceCacheKeeps ==
  ASSUME PriceInv, CacheQuote PROVE PriceInv'
<1>1. /\ pend # NoQuote /\ pend' = NoQuote
      /\ cache' = [cache EXCEPT ![pend.slug] = FromStream(pend.change)]
      /\ quoteEpoch' = [quoteEpoch EXCEPT ![pend.slug] = epoch]
      /\ UNCHANGED <<price, wire, link, epoch, wanted, matched, rest, pushed, crossed>>
  BY DEF CacheQuote, server, socket
<1>2. PriceTypes'
  BY <1>1 DEF PriceInv, PriceTypes
<1>3. ASSUME NEW s \in Slugs PROVE quoteEpoch'[s] <= epoch'
  BY <1>1 DEF PriceInv, PriceTypes
<1>4. ASSUME NEW s \in Uncrossed' PROVE PendIsPushed(s)' /\ PutIsMatched(s)' /\ LiveIsPushed(s)'
  <2>1. s \in Uncrossed /\ s \in Slugs
    BY <1>1, <1>4 DEF Uncrossed, PriceInv, PriceTypes
  <2>2. PendIsPushed(s) /\ PutIsMatched(s) /\ LiveIsPushed(s)
    BY <2>1 DEF PriceInv
  <2>3. PendIsPushed(s)' /\ PutIsMatched(s)'
    BY <1>1, <2>2 DEF PendIsPushed, PutIsMatched, Pending
  <2>4. CASE pend.slug = s
    <3>1. matched[s] = FromStream(pushed[s]) /\ cache'[s] = FromStream(pushed[s])
      BY <1>1, <2>1, <2>2, <2>4 DEF PendIsPushed, Pending, PriceInv, PriceTypes
    <3> QED BY <1>1, <2>3, <3>1 DEF LiveIsPushed
  <2>5. CASE pend.slug # s
    <3>1. cache'[s] = cache[s] /\ quoteEpoch'[s] = quoteEpoch[s] /\ ~Pending(s)
      BY <1>1, <2>1, <2>5 DEF Pending, PriceInv, PriceTypes
    <3> QED BY <1>1, <2>2, <2>3, <3>1 DEF LiveIsPushed
  <2> QED BY <2>4, <2>5
<1> QED BY <1>2, <1>3, <1>4 DEF PriceInv

LEMMA PriceRestKeeps ==
  ASSUME PriceInv, RestAsk \/ RestRead \/ RestFails \/ RestCache PROVE PriceInv'
<1>1. /\ UNCHANGED <<price, wire, link, epoch, wanted, matched, quoteEpoch, pend, pushed, crossed>>
      /\ rest'.step # "applied" /\ DOMAIN rest' = DOMAIN rest /\ DOMAIN cache' = Slugs
      /\ \A s \in Slugs : cache'[s] = cache[s] \/ (rest.step = "applied" /\ rest.puts[s] # NoPrice /\ cache'[s] = rest.puts[s])
  <2>1. CASE RestAsk
    BY <2>1 DEF RestAsk, server, socket, quotes, PriceInv, PriceTypes
  <2>2. CASE RestRead
    BY <2>2 DEF RestRead, server, socket, PriceInv, PriceTypes
  <2>3. CASE RestFails
    BY <2>3 DEF RestFails, server, socket, Idle, PriceInv, PriceTypes
  <2>4. CASE RestCache
    BY <2>4 DEF RestCache, server, socket, Idle, PriceInv, PriceTypes
  <2> QED BY <2>1, <2>2, <2>3, <2>4
<1>2. PriceTypes' /\ \A s \in Slugs : quoteEpoch'[s] <= epoch'
  BY <1>1 DEF PriceInv, PriceTypes
<1>3. ASSUME NEW s \in Uncrossed' PROVE PendIsPushed(s)' /\ PutIsMatched(s)' /\ LiveIsPushed(s)'
  <2>1. s \in Uncrossed /\ s \in Slugs
    BY <1>1, <1>3 DEF Uncrossed, PriceInv, PriceTypes
  <2>2. PendIsPushed(s) /\ PutIsMatched(s) /\ LiveIsPushed(s)
    BY <2>1 DEF PriceInv
  <2>3. PendIsPushed(s)' /\ PutIsMatched(s)'
    BY <1>1, <2>2 DEF PendIsPushed, PutIsMatched, Pending
  <2>4. LiveIsPushed(s)'
    BY <1>1, <2>1, <2>2 DEF LiveIsPushed, PutIsMatched, Pending
  <2> QED BY <2>3, <2>4
<1> QED BY <1>2, <1>3 DEF PriceInv

\* REST keeps what the stream owns; what it replaces is crossed.
LEMMA PriceApplyKeeps ==
  ASSUME PriceInv, RestApply PROVE PriceInv'
<1>1. PICK response \in [Watched -> Changes] :
        /\ matched' = [s \in Slugs |-> IF s \notin wanted \cap Watched THEN matched[s]
                                       ELSE IF s \in rest.owned THEN matched[s] ELSE FromRest(response[s])]
        /\ rest' = [step |-> "applied", owned |-> {},
                    puts |-> [s \in Slugs |-> IF s \notin wanted \cap Watched THEN Idle.puts[s]
                                              ELSE IF s \in rest.owned THEN matched[s] ELSE FromRest(response[s])]]
        /\ crossed' = crossed \cup ((wanted \cap Watched) \ rest.owned)
        /\ UNCHANGED <<price, wire, link, epoch, wanted, cache, quoteEpoch, pend, pushed>>
  BY DEF RestApply, server, socket
<1>2. PriceTypes' /\ \A s \in Slugs : quoteEpoch'[s] <= epoch'
  BY <1>1 DEF PriceInv, PriceTypes
<1>3. ASSUME NEW s \in Uncrossed' PROVE PendIsPushed(s)' /\ PutIsMatched(s)' /\ LiveIsPushed(s)'
  <2>1. s \in Uncrossed /\ s \in Slugs /\ s \in wanted \cap Watched /\ s \in rest.owned
    BY <1>1, <1>3 DEF Uncrossed, PriceInv, PriceTypes
  <2>2. PendIsPushed(s) /\ PutIsMatched(s) /\ LiveIsPushed(s)
    BY <2>1 DEF PriceInv
  <2>3. matched'[s] = matched[s] /\ rest'.puts[s] = matched[s]
    BY <1>1, <2>1
  <2> QED BY <1>1, <2>2, <2>3 DEF PendIsPushed, PutIsMatched, LiveIsPushed, Pending
<1> QED BY <1>2, <1>3 DEF PriceInv

\* A scan's price crosses the slug; the price of an ended market is not asked about.
LEMMA PriceMarketsKeep ==
  ASSUME PriceInv, NEW s \in Slugs, List(s) \/ EndMarket(s) PROVE PriceInv'
<1>1. /\ UNCHANGED <<price, wire, link, epoch, quoteEpoch, pend, rest, pushed>>
      /\ wanted' \subseteq Slugs /\ DOMAIN matched' = Slugs /\ DOMAIN cache' = Slugs
      /\ \A t \in Slugs \ {s} : matched'[t] = matched[t] /\ cache'[t] = cache[t]
      /\ Uncrossed' \subseteq Uncrossed \ {s}
  <2>1. CASE List(s)
    <3>1. /\ UNCHANGED <<price, wire, link, epoch, quoteEpoch, pend, rest, pushed, cache>>
          /\ wanted' = wanted \cup {s}
      BY <2>1 DEF List, server, socket
    <3>2. CASE s \in Watched
      <4>1. PICK n \in 0..price[s] : matched' = [matched EXCEPT ![s] = FromRest(n)]
        BY <2>1, <3>2 DEF List
      <4>2. crossed' = crossed \cup {s}
        BY <2>1, <3>2 DEF List
      <4> QED BY <3>1, <4>1, <4>2 DEF PriceInv, PriceTypes, Uncrossed
    <3>3. CASE s \notin Watched
      <4>1. matched' = matched /\ crossed' = crossed
        BY <2>1, <3>3 DEF List
      <4> QED BY <3>1, <3>3, <4>1 DEF PriceInv, PriceTypes, Uncrossed
    <3> QED BY <3>2, <3>3
  <2>2. CASE EndMarket(s)
    BY <2>2 DEF EndMarket, server, socket, PriceInv, PriceTypes, Uncrossed
  <2> QED BY <2>1, <2>2
<1>2. PriceTypes' /\ \A t \in Slugs : quoteEpoch'[t] <= epoch'
  BY <1>1 DEF PriceInv, PriceTypes
<1>3. ASSUME NEW t \in Uncrossed' PROVE PendIsPushed(t)' /\ PutIsMatched(t)' /\ LiveIsPushed(t)'
  <2>1. t \in Uncrossed /\ t \in Slugs \ {s}
    BY <1>1, <1>3 DEF Uncrossed, PriceInv, PriceTypes
  <2>2. PendIsPushed(t) /\ PutIsMatched(t) /\ LiveIsPushed(t)
    BY <2>1 DEF PriceInv
  <2> QED BY <1>1, <2>1, <2>2 DEF PendIsPushed, PutIsMatched, LiveIsPushed, Pending
<1> QED BY <1>2, <1>3 DEF PriceInv

LEMMA PriceStep == IInv /\ PriceInv /\ [Next]_vars => PriceInv'
<1> SUFFICES ASSUME IInv, PriceInv, [Next]_vars PROVE PriceInv'
  OBVIOUS
<1>1. CASE \E s \in Slugs : List(s) \/ EndMarket(s)
  BY <1>1, PriceMarketsKeep
<1>2. CASE \/ \E s \in Slugs : Change(s) \/ Snapshot(s)
           \/ FallSilent \/ Heartbeat \/ Pass \/ (Refresh /\ ~HangUp) \/ UNCHANGED vars
  BY <1>2, PriceOthersKeep
<1>3. CASE Connect \/ HangUp
  BY <1>3, PriceLinkKeeps
<1>4. CASE Disconnect \/ SilenceTimesOut
  BY <1>4, PriceLinkKeeps DEF Disconnect, SilenceTimesOut
<1>5. CASE Receive
  BY <1>5, PriceReceiveKeeps
<1>6. CASE CacheQuote
  BY <1>6, PriceCacheKeeps
<1>7. CASE RestAsk \/ RestRead \/ RestFails \/ RestCache
  BY <1>7, PriceRestKeeps
<1>8. CASE RestApply
  BY <1>8, PriceApplyKeeps
<1> QED BY <1>1, <1>2, <1>3, <1>4, <1>5, <1>6, <1>7, <1>8 DEF Next, Stream, RestCycle

\* polymarket_price_is_live, update_polymarket_ws_quote and the REST refresh
\* under separate locks: the price an automatic trade may start from is the
\* last one the stream brought, in both places it is kept, for as long as
\* neither a REST cycle that began before it nor a scan has replaced it.
THEOREM StreamPriceIsUsed == Spec => []LivePriceIsPushed
<1>1. PriceInv => LivePriceIsPushed
  <2> SUFFICES ASSUME PriceInv, NEW s \in Uncrossed, polymarket_price_is_live(s), pend = NoQuote
               PROVE  matched[s] = FromStream(pushed[s]) /\ cache[s] = matched[s]
    BY DEF LivePriceIsPushed, Uncrossed
  <2>1. LiveIsPushed(s) /\ ~Pending(s)
    BY DEF PriceInv, Pending
  <2> QED BY <2>1 DEF LiveIsPushed, polymarket_price_is_live, live
<1>2. Spec => []PriceInv
  BY PriceInit, PriceStep, InvHolds, PTL DEF Spec
<1> QED BY <1>1, <1>2, PTL

=============================================================================
