------------------------------ MODULE Matching ------------------------------
(***************************************************************************)
(* Which Polymarket market is the other side of which Kalshi market, and   *)
(* what is built on it: the two-stage matcher (core/matcher.rs) on the     *)
(* catalogues as they are read (Listing), the list of matched markets, the *)
(* legs the executor derives from a market key (runner.rs), and the        *)
(* pairing of held positions (services/positions.rs, hedge_pairs_repo.rs,  *)
(* accounts.rs).                                                           *)
(***************************************************************************)
EXTENDS Listing

CONSTANTS
    Catalogues,     \* what the exchanges may list: name -> [kalshi, poly : game -> event]
    Series,         \* Polymarket's series of a sport code
    Together,       \* TRUE: one game each of a name and date means the same game
    MaxPosition,    \* bound on a held position
    MaxLegs,        \* bound on the positions held at once
    HandTickers,    \* bound on the Kalshi markets traded by hand
    MaxHistory      \* bound on the bot's trades

VARIABLES
    catalogue,
    kopen, popen,   \* the games open on each exchange
    over,           \* the games that opened on an exchange and closed again
    markets,        \* the matched markets: [ticker, team, name, date, poly]
    queued,         \* the opportunity the executor has taken: [key, ticker, side]
    history,        \* the bot's trades, newest first: [ticker, side, poly, pside]
    kpos, ppos,     \* the held positions, by ticker and id; NO and SHORT are negative
    remembered      \* the table hedge_pairs

matchVars == <<catalogue, kopen, popen, over, markets, queued, history, kpos, ppos, remembered>>

\* The listings, as they read: a game's events, Polymarket's in each category.
Categories == {f[2] : f \in ToSet(Feeds)}
ReadAs(s) == {f[2] : f \in {h \in ToSet(Feeds) : h[1] \in DOMAIN Series /\ Series[h[1]] = s}}
KalshiRead ==
    [c \in DOMAIN Catalogues |-> [g \in DOMAIN Catalogues[c].kalshi |->
        parse_kalshi_event(Catalogues[c].kalshi[g])]]
PolyRead ==
    [c \in DOMAIN Catalogues |-> [g \in DOMAIN Catalogues[c].poly |-> [category \in Categories |->
        parse_polymarket_event(category, Catalogues[c].poly[g])]]]
KalshiEvents(c, g) == ToSet(KalshiRead[c][g])
PolyEvents(c, g) ==
    UNION {ToSet(PolyRead[c][g][category]) : category \in ReadAs(Catalogues[c].poly[g].series)}

\* The tickers and the Polymarket markets that are read, each with its game and
\* with the competitor whose victory pays a YES or a LONG position.
KalshiMarkets ==
    [c \in DOMAIN Catalogues |->
        UNION {{[game |-> g, ticker |-> m.ticker, is |-> m.is] :
                m \in {n \in ToSet(Catalogues[c].kalshi[g].markets) :
                          \E e \in KalshiEvents(c, g) : \E o \in ToSet(e.markets) : o.ticker = n.ticker}} :
               g \in DOMAIN Catalogues[c].kalshi}]
LongPays(m) == (CHOOSE s \in ToSet(m.sides) : s.long).is
PolyMarkets ==
    [c \in DOMAIN Catalogues |->
        UNION {UNION {{[game |-> g, id |-> m.id, market |-> e, is |-> LongPays(m)] :
                       m \in {n \in ToSet(Catalogues[c].poly[g].markets) : n.id = e.id}} :
                      e \in PolyEvents(c, g)} :
               g \in DOMAIN Catalogues[c].poly}]

Games == DOMAIN Catalogues[catalogue].kalshi
Tickers == {r.ticker : r \in KalshiMarkets[catalogue]}
Ids == {r.id : r \in PolyMarkets[catalogue]}
KMarket(t) == CHOOSE r \in KalshiMarkets[catalogue] : r.ticker = t
PMarket(id) == CHOOSE r \in PolyMarkets[catalogue] : r.id = id

(***************************************************************************)
(* What is assumed of the listings.                                        *)
(***************************************************************************)
IsList(s) == s \in Seq(ToSet(s))
ListsAreLists(K, P) ==
    /\ DOMAIN K = DOMAIN P /\ IsFiniteSet(DOMAIN K)
    /\ \A g \in DOMAIN K :
          /\ IsList(K[g].markets) /\ IsList(P[g].markets)
          /\ \A m \in ToSet(P[g].markets) : IsList(m.outcomes) /\ IsList(m.sides)

\* A ticker names one outcome of one game, an id one market of one game.
NamesAreUnique(K, P) ==
    \A g, h \in DOMAIN K :
        /\ K[g].ticker = K[h].ticker => g = h
        /\ \A m \in ToSet(K[g].markets), n \in ToSet(K[h].markets) :
              m.ticker = n.ticker => g = h /\ m.is = n.is
        /\ \A m \in ToSet(P[g].markets), n \in ToSet(P[h].markets) :
              m.id = n.id /\ m.id # NoOne => g = h /\ m = n

\* A market that is read has a LONG and a SHORT side, which pay for different
\* competitors; and a competitor that reads the same on the other exchange pays
\* for the same there.
SideName(category, s) ==
    CASE category = "NBA" -> nba_outcome(s)
      [] category = "TENNIS" -> normalize_competitor_name(s)
      [] category \in {"NHL", "MLB"} -> canonical_team_code(category, s)
      [] category = "CRYPTO15" -> IF s = "Yes" THEN "UP" ELSE "DOWN"
TwoSided(m) ==
    /\ Two(m.sides)
    /\ m.sides[1].long \in BOOLEAN /\ m.sides[2].long = ~m.sides[1].long
    /\ {m.sides[1].is, m.sides[2].is} = {"a", "b"}
SidesTellTheTruth(c) ==
    LET K == Catalogues[c].kalshi
        P == Catalogues[c].poly
    IN  \A g \in DOMAIN P : \A category \in ReadAs(P[g].series) :
            /\ ReadAs(P[g].series) = {category}
            /\ \A m \in ToSet(P[g].markets) : (\E p \in PolyEvents(c, g) : p.id = m.id) =>
                  /\ TwoSided(m)
                  /\ \A s \in ToSet(m.sides), n \in ToSet(K[g].markets), k \in KalshiEvents(c, g) :
                        \A x \in ToSet(k.markets) :
                            x.ticker = n.ticker /\ x.team = SideName(category, s.name) => n.is = s.is

\* The two exchanges name and date a game alike, as far as they date it; a game
\* that one of them does not date is the only one of its name; and of games of one
\* name and date Polymarket lists all or none so that they are read, together.
GamesReadAlike(c) ==
    LET P == Catalogues[c].poly
        Unclear(name, g) ==
            \E e \in KalshiEvents(c, g) \cup PolyEvents(c, g) : e.name = name /\ e.date = NoOne
    IN  \A g \in DOMAIN P :
            /\ \A p \in PolyEvents(c, g) : \E k \in KalshiEvents(c, g) :
                  k.name = p.name /\ (k.date = p.date \/ NoOne \in {k.date, p.date})
            /\ \A h \in DOMAIN P : \A k \in KalshiEvents(c, g), l \in KalshiEvents(c, h) : k.name = l.name =>
                  /\ Unclear(k.name, g) => g = h
                  /\ k.date = l.date => \A p \in PolyEvents(c, g) : p.name = k.name =>
                        /\ P[g].series = P[h].series
                        /\ \E q \in PolyEvents(c, h) : q.name = p.name /\ q.date = p.date

ASSUME CataloguesAssumption ==
    /\ Together \in BOOLEAN
    /\ \A c \in DOMAIN Catalogues :
          /\ ListsAreLists(Catalogues[c].kalshi, Catalogues[c].poly)
          /\ NamesAreUnique(Catalogues[c].kalshi, Catalogues[c].poly)
          /\ SidesTellTheTruth(c)
          /\ GamesReadAlike(c)

(***************************************************************************)
(* Stage 1: events.  Kalshi events of one name and date are ambiguous, and *)
(* so are several Polymarket events of a Kalshi event's name and date.     *)
(* Events are told apart by their positions in what was read.              *)
(***************************************************************************)
First(I) == {i \in I : \A j \in I : i <= j}
Several(I) == \E i, j \in I : i # j

\* Mutant of Ambiguous: only the Polymarket events are counted.
NotAmbiguous(i, kalshi) == FALSE
event_date_key(e) == <<e.name, e.date>>
Ambiguous(i, kalshi) ==
    \E j \in DOMAIN kalshi \ {i} : event_date_key(kalshi[j]) = event_date_key(kalshi[i])
Candidates(k, poly, used) == {j \in DOMAIN poly : poly[j].name = k.name /\ poly[j].id \notin used}
SameDate(k, poly, used) ==
    {j \in Candidates(k, poly, used) : NoOne \notin {k.date, poly[j].date} /\ poly[j].date = k.date}
Undated(k, poly, used) == {j \in Candidates(k, poly, used) : NoOne \in {k.date, poly[j].date}}

\* The position of the Polymarket event that best matches: the one of the date,
\* or else the first listed without a date.
BestMatch(k, poly, used) ==
    First(IF SameDate(k, poly, used) # {} THEN SameDate(k, poly, used) ELSE Undated(k, poly, used))

\* One Kalshi event after another; a Polymarket event is used once.
MatchOne(matched, i, kalshi, poly) ==
    LET used == {x[2].id : x \in matched}
    IN  matched \cup
        IF Ambiguous(i, kalshi) \/ Several(SameDate(kalshi[i], poly, used)) THEN {}
        ELSE {<<kalshi[i], poly[j]>> : j \in BestMatch(kalshi[i], poly, used)}
match_events(kalshi, poly) ==
    LET matched[i \in 0..Len(kalshi)] ==
            IF i = 0 THEN {} ELSE MatchOne(matched[i - 1], i, kalshi, poly)
    IN  matched[Len(kalshi)]

\* Stage 2: the Polymarket market for each of the Kalshi event's markets; a
\* team the Polymarket market does not know has none.
match_markets(events) ==
    UNION {{[ticker |-> m.ticker, team |-> m.team, name |-> x[1].name, date |-> x[1].date,
             poly |-> x[2].id] : m \in {n \in ToSet(x[1].markets) : n.team \in x[2].teams}} :
           x \in events}

market_key(m) == <<m.name, m.date, m.team>>

\* A market of a known key replaces the one in the list.
add_matched_markets(new) ==
    {m \in markets : ~\E n \in new : market_key(n) = market_key(m)} \cup new

us_execution_for_competitor(p, t) == IF t \in p.long THEN "long" ELSE "short"
get_opponent(p, t) == CHOOSE o \in p.teams \ {t} : TRUE

\* The Polymarket side that offsets a Kalshi side of a matched market.
HedgeSide(m, side) ==
    LET p == PMarket(m.poly).market
    IN  us_execution_for_competitor(p, IF side = "yes" THEN get_opponent(p, m.team) ELSE m.team)

hedge_pairs_for_market(m) ==
    {[ticker |-> m.ticker, side |-> s, poly |-> m.poly, pside |-> HedgeSide(m, s)] :
        s \in {"yes", "no"}}

(***************************************************************************)
(* The pairing of held positions                                           *)
(***************************************************************************)
KLegs == {[ticker |-> t, side |-> IF kpos[t] > 0 THEN "yes" ELSE "no"] :
              t \in {u \in Tickers : kpos[u] # 0}}
PLegs == {[poly |-> g, pside |-> IF ppos[g] > 0 THEN "long" ELSE "short"] :
              g \in {h \in Ids : ppos[h] # 0}}

PolyLeg(pair) == [poly |-> pair.poly, pside |-> pair.pside]
\* Mutant of Explains: the market alone, on either side.
ExplainsEitherSide(pair, k) == pair.ticker = k.ticker
Explains(pair, k) == pair.ticker = k.ticker /\ pair.side = k.side

\* the newest trade of a leg, and only that one
FromHistory(k) ==
    {PolyLeg(history[i]) : i \in First({j \in DOMAIN history : Explains(history[j], k)})}

KnownPairs == (UNION {hedge_pairs_for_market(m) : m \in markets}) \cup remembered

\* One pass over the Kalshi legs still alone: each claims a free partner.
Claim(cards, k, held, partners, by) ==
    LET free == (partners[k] \cap held) \ {c.p : c \in cards}
    IN  IF free = {} \/ \E c \in cards : c.k = k THEN cards
        ELSE cards \cup {[k |-> k, p |-> CHOOSE p \in free : TRUE, by |-> by]}
Pass(cards, ks, held, partners, by) ==
    LET claimed[i \in 0..Len(ks)] ==
            IF i = 0 THEN cards ELSE Claim(claimed[i - 1], ks[i], held, partners, by)
    IN  claimed[Len(ks)]

\* The paired cards, for the Kalshi legs in the order the exchange lists them.
pair_positions(ks, held, known) ==
    LET bot == [k \in ToSet(ks) |-> FromHistory(k)]
        market == [k \in ToSet(ks) |-> {PolyLeg(p) : p \in {q \in known : Explains(q, k)}}]
    IN  Pass(Pass({}, ks, held, bot, "bot"), ks, held, market, "market")

newly_verified_pairs(cards) ==
    {[ticker |-> c.k.ticker, side |-> c.k.side, poly |-> c.p.poly, pside |-> c.p.pside] :
        c \in {d \in cards : d.by = "market"}}

-----------------------------------------------------------------------------
MatchInit ==
    /\ catalogue \in DOMAIN Catalogues
    /\ kopen = {} /\ popen = {} /\ over = {}
    /\ markets = {} /\ queued = NoOne /\ history = <<>>
    /\ kpos = [t \in Tickers |-> 0] /\ ppos = [p \in Ids |-> 0]
    /\ remembered = {}

\* The assumption Together: of the games that read alike, the exchanges never
\* list two different ones alone.
KKeys(g) == {event_date_key(e) : e \in KalshiEvents(catalogue, g)}
KAlike(g, h) == KKeys(g) = KKeys(h)
Agree(ks, ps) ==
    Together =>
        \A g \in ks, h \in ps :
            KAlike(g, h) /\ ({g} = {x \in ks : KAlike(g, x)}) /\ ({h} = {x \in ps : KAlike(h, x)})
                => g = h

\* A game opens once on each exchange, and closes for good.
Exchanges(ks, ps) ==
    /\ Agree(ks, ps)
    /\ kopen' = ks /\ popen' = ps
    /\ over' = over \cup {<<"k", g>> : g \in kopen \ ks} \cup {<<"p", g>> : g \in popen \ ps}
    /\ UNCHANGED <<catalogue, markets, queued, history, kpos, ppos, remembered>>

Open ==
    \E g \in Games :
        \/ g \notin kopen /\ <<"k", g>> \notin over /\ Exchanges(kopen \cup {g}, popen)
        \/ g \notin popen /\ <<"p", g>> \notin over /\ Exchanges(kopen, popen \cup {g})

Close ==
    \E g \in Games :
        \/ g \in kopen /\ Exchanges(kopen \ {g}, popen)
        \/ g \in popen /\ Exchanges(kopen, popen \ {g})

\* The scanner reads what the exchanges list, in whatever order they list it
\* and whichever Polymarket series fail, and matches it.  (The failure of a
\* series that lists nothing changes nothing or cancels the scan.)
Scan ==
    /\ \E ks \in SetToSeqs(kopen), ps \in SetToSeqs(popen),
          fails \in SUBSET {Catalogues[catalogue].poly[g].series : g \in Games} :
          LET kalshi == FlattenSeq([i \in DOMAIN ks |-> KalshiRead[catalogue][ks[i]]])
              listed == [category \in Categories |-> [series \in Range(Series) |->
                  FlattenSeq([i \in DOMAIN ps |->
                      IF Catalogues[catalogue].poly[ps[i]].series = series
                      THEN PolyRead[catalogue][ps[i]][category] ELSE <<>>])]]
              poly == get_supported_events_and_markets(Series, fails, listed)
          IN  /\ poly.ok
              /\ markets' = add_matched_markets(match_markets(match_events(kalshi, poly.events)))
    /\ UNCHANGED <<catalogue, kopen, popen, over, queued, history, kpos, ppos, remembered>>

\* An ended market leaves the list.
RemoveEnded ==
    /\ \E m \in markets :
          /\ KMarket(m.ticker).game \notin kopen \/ PMarket(m.poly).game \notin popen
          /\ markets' = markets \ {m}
    /\ UNCHANGED <<catalogue, kopen, popen, over, queued, history, kpos, ppos, remembered>>

\* An opportunity of a matched market is queued with its key and its ticker.
Queue ==
    /\ queued = NoOne
    /\ \E m \in markets, s \in {"yes", "no"} :
          queued' = [key |-> market_key(m), ticker |-> m.ticker, side |-> s]
    /\ UNCHANGED <<catalogue, kopen, popen, over, markets, history, kpos, ppos, remembered>>

Bump(pos, x, by) == [pos EXCEPT ![x] = @ + by]
Within(pos, x, by) == pos[x] + by \in (- MaxPosition) .. MaxPosition
KSign(s) == IF s = "yes" THEN 1 ELSE -1
PSign(s) == IF s = "long" THEN 1 ELSE -1

\* The executor looks the market up by its key: the Kalshi leg is the
\* opportunity's, the Polymarket leg that of the market now under the key.
\* Neither exchange has a book for a game that is closed.
Execute ==
    /\ queued # NoOne
    /\ queued' = NoOne
    /\ LET found == {m \in markets : market_key(m) = queued.key}
       IN  \/ /\ \A m \in found : KMarket(queued.ticker).game \notin kopen \/ PMarket(m.poly).game \notin popen
              /\ UNCHANGED <<history, kpos, ppos>>
           \/ \E m \in found :
                 LET ps == HedgeSide(m, queued.side)
                     row == [ticker |-> queued.ticker, side |-> queued.side,
                             poly |-> m.poly, pside |-> ps]
                 IN  /\ KMarket(queued.ticker).game \in kopen /\ PMarket(m.poly).game \in popen
                     /\ Len(history) < MaxHistory
                     /\ Within(kpos, row.ticker, KSign(row.side))
                     /\ Within(ppos, row.poly, PSign(ps))
                     /\ history' = <<row>> \o history
                     /\ kpos' = Bump(kpos, row.ticker, KSign(row.side))
                     /\ ppos' = Bump(ppos, row.poly, PSign(ps))
    /\ UNCHANGED <<catalogue, kopen, popen, over, markets, remembered>>

\* A trade by hand on either exchange.
ByHand ==
    /\ \E by \in {1, -1} :
          \/ \E t \in {u \in Tickers \cap HandTickers : KMarket(u).game \in kopen} :
                Within(kpos, t, by) /\ kpos' = Bump(kpos, t, by) /\ UNCHANGED ppos
          \/ \E p \in {q \in Ids : PMarket(q).game \in popen} :
                Within(ppos, p, by) /\ ppos' = Bump(ppos, p, by) /\ UNCHANGED kpos
    /\ UNCHANGED <<catalogue, kopen, popen, over, markets, queued, history, remembered>>
    /\ Cardinality(KLegs') + Cardinality(PLegs') <= MaxLegs

\* The positions page pairs the legs and remembers what the markets explain.
get_unified_positions ==
    /\ LET held == PLegs
           known == KnownPairs
       IN  \E ks \in SetToSeqs(KLegs) :
              remembered' = remembered \cup newly_verified_pairs(pair_positions(ks, held, known))
    /\ UNCHANGED <<catalogue, kopen, popen, over, markets, queued, history, kpos, ppos>>

MatchNext ==
    \/ Open \/ Close \/ Scan \/ RemoveEnded \/ Queue \/ Execute
    \/ ByHand \/ get_unified_positions

MatchSpec == MatchInit /\ [][MatchNext]_matchVars

-----------------------------------------------------------------------------
\* What the exchanges settle.
KPays(k, winner) == (winner[KMarket(k.ticker).game] = KMarket(k.ticker).is) = (k.side = "yes")
PPays(p, winner) == (winner[PMarket(p.poly).game] = PMarket(p.poly).is) = (p.pside = "long")
Hedged(k, p) == \A winner \in [Games -> {"a", "b"}] : KPays(k, winner) \/ PPays(p, winner)

(* Every trade of the bot pays whoever wins: its two legs are opposite          *)
(* outcomes of one game, although the market under the opportunity's key may    *)
(* have been replaced between the two.                                          *)
TradesAreHedged == \A i \in DOMAIN history : Hedged(history[i], history[i])

(* Two legs shown as a pair pay, one or the other, whoever wins: the            *)
(* settlement result of the card is its worst case.  The trades that the pair   *)
(* is derived from may be old, reversed by hand, or of another game.            *)
SettlementIsWorst ==
    LET held == PLegs
        known == KnownPairs
    IN  \A ks \in SetToSeqs(KLegs) :
            \A c \in pair_positions(ks, held, known) : Hedged(c.k, c.p)
=============================================================================
