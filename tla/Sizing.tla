------------------------------- MODULE Sizing -------------------------------
(***************************************************************************)
(* The arithmetic of a paired trade: taker fees, the price levels an order *)
(* walks, the size and limits of the two orders, and the limits of the     *)
(* bounded exits that repair a leg left alone.  core/fees.rs and           *)
(* strategies/sports_arb/{runner,execution}.rs, with the fills and the     *)
(* moves of the market between two reads of a book left free.              *)
(*                                                                         *)
(* Prices are in mills (a tenth of a cent), money in mills too; Kalshi     *)
(* quotes whole cents, Polymarket may quote mills.  The code computes in   *)
(* f64 dollars; the model computes exactly.                                *)
(***************************************************************************)
EXTENDS Integers, Sequences, FiniteSets, FiniteSetsExt

CONSTANTS
    None,           \* no book, no price, no size, no order
    KalshiBooks,    \* the Kalshi books there may be
    PolyBooks,      \* the Polymarket books there may be
    KalshiTicks,    \* the prices a Kalshi fill may have, in whole cents
    PolyTicks,      \* the prices a Polymarket fill may have
    Flexible, MinContracts, MaxContracts, MaxAmount, PolyMinQty,
    MinMargin,      \* in tenths of a percent
    Cushion,        \* limit_cushion_cents
    MaxLoss,        \* neutralization_max_loss_cents, in mills
    DeepBook,       \* the depth from which half of it is taken: 20
    Requests        \* the contract counts a manual request may ask for

\* A book lists, for each of the two outcomes, the resting bids for it:
\* <<price, contracts>> pairs.  An offer of one outcome is a bid for the other.
Sides == {"yes", "no"}
Other(s) == IF s = "yes" THEN "no" ELSE "yes"
Level == (1..999) \X (Nat \ {0})

ASSUME SizingAssumption ==
    /\ \A book \in KalshiBooks \cup PolyBooks : \A s \in Sides :
          IsFiniteSet(book[s]) /\ book[s] \subseteq Level
    /\ KalshiTicks \subseteq {10 * c : c \in 0..100} /\ PolyTicks \subseteq 0..1000
    /\ MinContracts \in Nat /\ MaxContracts \in Nat /\ MaxAmount \in Nat /\ PolyMinQty \in Nat
    /\ MinMargin \in Nat /\ Cushion \in Nat /\ MaxLoss \in Nat /\ DeepBook \in Nat
    /\ Flexible \in BOOLEAN /\ Requests \subseteq Nat

Round10(m) == 10 * ((m + 5) \div 10)
CeilDiv(a, b) == (a + b - 1) \div b

\* cents rounded to the nearest, ties to the even cent
HalfEven(a, b) ==
    LET q == a \div b
        r == 2 * (a % b)
    IN  IF r > b \/ (r = b /\ q % 2 = 1) THEN q + 1 ELSE q

\* The fee of an order, in mills, from its spread num / den: the sum over its
\* contracts of price * (1000 - price).
kalshi_taker_fee(num, den) == 10 * CeilDiv(7 * num, 1000000 * den)
polymarket_taker_fee(num, den) == 10 * HalfEven(139 * num, 20000000 * den)
Fee(venue, num, den) ==
    IF venue = "kalshi" THEN kalshi_taker_fee(num, den) ELSE polymarket_taker_fee(num, den)
FeeAt(venue, n, price) == Fee(venue, n * price * (1000 - price), 1)
FeeOf(venue, fill) == Fee(venue, fill.spread, 1)
\* the fee of n contracts at the average price of an entry
FeeAtAverage(venue, n, entry) ==
    Fee(venue, n * entry.paid * (1000 * entry.n - entry.paid), entry.n * entry.n)

(***************************************************************************)
(* Levels                                                                  *)
(***************************************************************************)
BuyLevels(book, s) == {<<1000 - l[1], l[2]>> : l \in book[Other(s)]}
SellLevels(book, s) == book[s]

\* the contracts that rest on the levels
executable_depth(levels) == Cardinality(UNION {{l} \X (1..l[2]) : l \in levels})

\* The last price that an order of n contracts reaches, walking up the asks or
\* down the bids; None when the levels hold fewer, or there is none.
Reaches(levels, n) == levels # {} /\ executable_depth(levels) >= n
WorstAsk(levels, n) ==
    IF ~Reaches(levels, n) THEN None
    ELSE Min({p \in {l[1] : l \in levels} : Reaches({l \in levels : l[1] <= p}, n)})
WorstBid(levels, n) ==
    IF ~Reaches(levels, n) THEN None
    ELSE Max({p \in {l[1] : l \in levels} : Reaches({l \in levels : l[1] >= p}, n)})

(***************************************************************************)
(* The size of a trade                                                     *)
(***************************************************************************)
calculate_contracts_to_trade(depth) ==
    IF depth < MinContracts THEN None
    ELSE IF ~Flexible THEN MinContracts
    ELSE Min({MaxContracts, IF depth < DeepBook THEN MinContracts ELSE depth \div 2})

Limit(worst) == Min({Round10(worst) + 10 * Cushion, 990})

\* Mutant of Sized: the cost is that of the worst levels, without the cushion.
SizedAtWorst(n, klevels, plevels) ==
    LET k == WorstAsk(klevels, n)
        p == WorstAsk(plevels, n)
    IN  [n |-> n, kalshi |-> Limit(k), poly |-> Limit(p),
         cost |-> n * (k + p) + FeeAt("kalshi", n, k) + FeeAt("poly", n, p)]

\* n contracts on both venues at the limits the two worst levels give
Sized(n, klevels, plevels) ==
    LET k == Limit(WorstAsk(klevels, n))
        p == Limit(WorstAsk(plevels, n))
    IN  [n |-> n, kalshi |-> k, poly |-> p,
         cost |-> n * (k + p) + FeeAt("kalshi", n, k) + FeeAt("poly", n, p)]

Clears(t, margin) ==
    /\ t.cost <= MaxAmount
    /\ t.cost < 1000 * t.n
    /\ 1000 * (1000 * t.n - t.cost) >= margin * t.cost

find_profitable_contract_size(cap, least, margin, klevels, plevels) ==
    LET good == {n \in Max({least, PolyMinQty}) .. cap :
                    /\ Reaches(klevels, n) /\ Reaches(plevels, n)
                    /\ Clears(Sized(n, klevels, plevels), margin)}
    IN  IF good = {} THEN None ELSE Sized(Max(good), klevels, plevels)

(***************************************************************************)
(* The limits of a repair.  An entry is [paid, n]: what its n contracts    *)
(* cost together.                                                          *)
(***************************************************************************)
forward_hedge_within_loss_bound(entry, filled, missing, m, limit) ==
    m * entry.paid + entry.n * (m * limit + FeeAtAverage(filled, m, entry)
                                          + FeeAt(missing, m, limit))
        <= entry.n * m * (1000 + MaxLoss)

\* Mutant of close_within_loss_bound: the bare price, without the fee.
close_within_bare_bound(entry, price, m, fee) ==
    entry.n * m * (price + MaxLoss) >= m * entry.paid

close_within_loss_bound(entry, price, m, fee) ==
    entry.n * (m * (price + MaxLoss) - fee) >= m * entry.paid

Cents(from, to) == {10 * c : c \in (from \div 10) .. (to \div 10)}

\* The loop walks down from the displayed price to one cent while the limit is
\* within the bound, at the highest fee on the way; a lower limit has a higher
\* such fee, so it ends at the least limit within the bound.
loosest_close_limit_cents(entry, venue, displayed, m) ==
    LET fee(c) == Max({0} \cup {FeeAt(venue, m, p) : p \in Cents(c, Min({displayed, 990}))})
        within == {c \in Cents(10, displayed) : close_within_loss_bound(entry, c, m, fee(c))}
    IN  IF within = {} THEN None ELSE Min(within)

\* whether buying the missing leg loses no more than selling the filled one
forward_hedge_is_cheaper(hedge, hedgeFee, close, closeFee, m) ==
    m * hedge + hedgeFee - 1000 * m <= closeFee - m * close

-----------------------------------------------------------------------------
VARIABLES
    kbook, pbook,   \* the books as last read: Kalshi's cached one, Polymarket's origin one
    rest,           \* Kalshi's own book when the trade was sized
    kside, pside,   \* the outcome bought on each venue
    phase,
    trade,          \* the orders sent
    fills,          \* what a pair of full fills cost, with its fees
    lone,           \* the leg left alone: [venue, left, entry]
    steps,          \* the exits still to try
    repair          \* the last exit: [kind, sent, limit, done, loss]

sizingVars == <<kbook, pbook, rest, kside, pside, phase, trade, fills, lone, steps, repair>>

SideOf(venue) == IF venue = "kalshi" THEN kside ELSE pside
Partner(venue) == IF venue = "kalshi" THEN "poly" ELSE "kalshi"

SizingInit ==
    /\ kbook = None /\ pbook = None /\ rest = None
    /\ kside \in Sides /\ pside \in Sides
    /\ phase = "idle"
    /\ trade = None /\ fills = None /\ lone = None
    /\ steps = <<>> /\ repair = None

\* What a fill of n contracts may cost: total price and spread, at any mix of
\* the prices an order accepts.
Fills(n, prices) ==
    LET fill[k \in 0..n] ==
            IF k = 0 THEN {[paid |-> 0, spread |-> 0]}
            ELSE {[paid |-> f.paid + p, spread |-> f.spread + p * (1000 - p)] :
                      f \in fill[k - 1], p \in prices}
    IN  fill[n]
Ticks(venue) == IF venue = "kalshi" THEN KalshiTicks ELSE PolyTicks
BuyFills(venue, n, limit) == Fills(n, {p \in Ticks(venue) \cup {limit} : p <= limit})
SellFills(venue, n, limit) == Fills(n, {p \in Ticks(venue) \cup {limit} : p >= limit})

-----------------------------------------------------------------------------
(* The automatic trade.  A cached Kalshi book that promises a better price     *)
(* than Kalshi's own book vetoes it.                                           *)
BestAsk(book) == WorstAsk(BuyLevels(book, kside), 1)
\* Mutant of Vetoed: only an empty book vetoes.
VetoedIfEmpty(k, r) == BestAsk(k) = None \/ BestAsk(r) = None
Vetoed(k, r) ==
    \/ BestAsk(k) = None \/ BestAsk(r) = None
    \/ BestAsk(r) > BestAsk(k)

Send(t, auto) ==
    /\ trade' = IF t = None THEN None
                ELSE [n |-> t.n, kalshi |-> t.kalshi, poly |-> t.poly, cost |-> t.cost, auto |-> auto]
    /\ phase' = IF t = None THEN "skipped" ELSE "sent"
    /\ UNCHANGED <<kside, pside, fills, lone, steps, repair>>

AutoTrade ==
    /\ phase = "idle"
    /\ \E k, r \in KalshiBooks, p \in PolyBooks :
          LET klevels == BuyLevels(k, kside)
              plevels == BuyLevels(p, pside)
              cap == calculate_contracts_to_trade(
                         Min({executable_depth(klevels), executable_depth(plevels)}))
          IN  /\ kbook' = k /\ pbook' = p /\ rest' = r
              /\ Send(IF Vetoed(k, r) \/ cap = None THEN None
                      ELSE find_profitable_contract_size(cap, MinContracts, MinMargin,
                                                         klevels, plevels), TRUE)

\* The trade a user asks for: no floor, no margin, no veto.
ManualTrade ==
    /\ phase = "idle"
    /\ \E k \in KalshiBooks, p \in PolyBooks, wanted \in Requests :
          LET klevels == BuyLevels(k, kside)
              plevels == BuyLevels(p, pside)
              cap == Min({executable_depth(klevels), executable_depth(plevels), wanted})
          IN  /\ kbook' = k /\ pbook' = p /\ rest' = None
              /\ Send(find_profitable_contract_size(cap, 1, 0, klevels, plevels), FALSE)

\* Both orders fill, at any prices within their limits.
FillBoth ==
    /\ phase = "sent"
    /\ \E k \in BuyFills("kalshi", trade.n, trade.kalshi), p \in BuyFills("poly", trade.n, trade.poly) :
          fills' = k.paid + p.paid + FeeOf("kalshi", k) + FeeOf("poly", p)
    /\ phase' = "paired"
    /\ kbook' = None /\ pbook' = None /\ rest' = None
    /\ UNCHANGED <<kside, pside, trade, lone, steps, repair>>

\* One order fills more than the other.
FillUnequal ==
    /\ phase = "sent"
    /\ \E venue \in {"kalshi", "poly"}, most \in 1 .. trade.n :
          \E least \in 0 .. most - 1, f \in BuyFills(venue, most, trade[venue]) :
              lone' = [venue |-> venue, left |-> most - least,
                       entry |-> [paid |-> f.paid, n |-> most]]
    /\ phase' = "alone"
    /\ kbook' = None /\ pbook' = None /\ rest' = None /\ trade' = None
    /\ UNCHANGED <<kside, pside, fills, steps, repair>>

-----------------------------------------------------------------------------
(* The repair of the contracts left alone: the cheaper exit first, priced from *)
(* fresh books; the other one for what remains.                                *)
ForwardFirst(k, p) ==
    LET book  == [kalshi |-> k, poly |-> p]
        from  == Partner(lone.venue)
        hedge == WorstAsk(BuyLevels(book[from], SideOf(from)), lone.left)
        close == WorstBid(SellLevels(book[lone.venue], SideOf(lone.venue)), lone.left)
        limit == Min({hedge + 10 * Cushion, 990})
    IN  \/ k = None \/ p = None
        \/ hedge = None \/ close = None
        \/ forward_hedge_is_cheaper(limit, FeeAt(from, lone.left, limit),
                                    close, FeeAt(lone.venue, lone.left, close), lone.left)

choose_recovery_order ==
    /\ phase = "alone"
    /\ \E k \in KalshiBooks \cup {None}, p \in PolyBooks \cup {None} :
          /\ steps' = IF ForwardFirst(k, p) THEN <<"hedge", "unwind">>
                                            ELSE <<"unwind", "hedge">>
          /\ pbook' = p
    /\ phase' = "repair"
    /\ UNCHANGED <<kbook, rest, kside, pside, trade, fills, lone, repair>>

\* The book of an exit's order: the Polymarket one just fetched, once, or a
\* fresh one, which may be missing.
ExitBook(venue) ==
    IF venue = "kalshi" THEN KalshiBooks \cup {None}
    ELSE IF pbook # None THEN {pbook} ELSE PolyBooks \cup {None}

HedgeLimit(venue, book) ==
    LET worst == WorstAsk(BuyLevels(book, SideOf(venue)), lone.left)
    IN  IF \/ book = None \/ worst = None
           \/ ~forward_hedge_within_loss_bound(lone.entry, lone.venue, venue,
                                               lone.left, Limit(worst))
        THEN None ELSE Limit(worst)

CloseLimit(venue, book) ==
    LET worst == WorstBid(SellLevels(book, SideOf(venue)), lone.left)
    IN  IF book = None \/ worst = None THEN None
        ELSE loosest_close_limit_cents(lone.entry, venue, Round10(worst), lone.left)

NextStep(done) ==
    /\ steps' = Tail(steps)
    /\ pbook' = None
    /\ lone' = [lone EXCEPT !.left = lone.left - done]
    /\ UNCHANGED <<kbook, rest, kside, pside, phase, trade, fills>>

\* what an exit lost on the contracts it repaired, times the size of the entry
Loss(kind, venue, m, f) ==
    LET e == lone.entry
    IN  m * e.paid
        + IF kind = "hedge"
          THEN e.n * (f.paid + FeeAtAverage(lone.venue, m, e) + FeeOf(venue, f) - 1000 * m)
          ELSE e.n * (FeeOf(venue, f) - f.paid)

Exit(kind, venue, limit, done, f) ==
    /\ NextStep(done)
    /\ repair' = [kind |-> kind, sent |-> lone.left, done |-> done, of |-> lone.entry.n,
                  loss |-> Loss(kind, venue, done, f)]

hedge_missing_leg ==
    /\ phase = "repair" /\ lone.left > 0 /\ steps # <<>> /\ Head(steps) = "hedge"
    /\ LET venue == Partner(lone.venue)
       IN  \E book \in ExitBook(venue) :
              LET limit == HedgeLimit(venue, book)
              IN  \/ limit = None /\ NextStep(0) /\ UNCHANGED repair
                  \/ /\ limit # None
                     /\ \E done \in 0 .. lone.left : \E f \in BuyFills(venue, done, limit) :
                            Exit("hedge", venue, limit, done, f)

neutralize ==
    /\ phase = "repair" /\ lone.left > 0 /\ steps # <<>> /\ Head(steps) = "unwind"
    /\ \E book \in ExitBook(lone.venue) :
          LET limit == CloseLimit(lone.venue, book)
          IN  \/ limit = None /\ NextStep(0) /\ UNCHANGED repair
              \/ /\ limit # None
                 /\ \E done \in 0 .. lone.left : \E f \in SellFills(lone.venue, done, limit) :
                        Exit("unwind", lone.venue, limit, done, f)

SizingNext ==
    \/ AutoTrade \/ ManualTrade
    \/ FillBoth \/ FillUnequal
    \/ choose_recovery_order \/ hedge_missing_leg \/ neutralize

SizingSpec == SizingInit /\ [][SizingNext]_sizingVars

-----------------------------------------------------------------------------
(* A pair that fills pays in either outcome, and costs less than a cent more   *)
(* than it was sized for: within a cent it is no more than the amount limit,   *)
(* and an automatic one keeps the configured margin, wherever within their     *)
(* limits its orders fill.  The sizing priced every contract and both fees at  *)
(* the limits; a better price may have a fee that is a cent higher.            *)
TradePays ==
    phase = "paired" =>
        /\ fills < 1000 * trade.n
        /\ fills - 9 <= MaxAmount
        /\ trade.auto => 1000 * (1000 * trade.n - (fills - 9)) >= MinMargin * (fills - 9)

(* An order is sent at a price the exchange's own book can fill: the whole     *)
(* Polymarket order, and, of an automatic trade, a first contract on Kalshi,   *)
(* although the Kalshi book it was sized from may be stale.                    *)
SentOrdersCross ==
    phase = "sent" =>
        /\ trade.poly >= WorstAsk(BuyLevels(pbook, pside), trade.n)
        /\ trade.auto => trade.kalshi >= BestAsk(rest)

(* An exit loses at most the configured bound on every contract it repaired,   *)
(* at any prices within its limit, and less than two cents on top, which come  *)
(* from the rounding of the fees when it fills in part. As in the code, a      *)
(* forward hedge is charged the fees of both legs, an unwind that of the sale  *)
(* only: the fee of the entry is sunk by then (execution.rs:484).              *)
RepairIsBounded ==
    repair # None => repair.loss < repair.of * (MaxLoss * repair.done + 20)
=============================================================================
