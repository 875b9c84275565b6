---------------------------- MODULE PolymarketFeed ----------------------------
(***************************************************************************)
(* The prices and books of Polymarket US: the stream with its connections, *)
(* subscriptions and clocks (clients/polymarket/ws.rs), what the manager   *)
(* stores from it (websocket_manager/polymarket_feed.rs), and the REST     *)
(* quotes that share the same fields (websocket_manager/quotes.rs).        *)
(*                                                                         *)
(* A price or a book is the number of the change it shows. The gateway may *)
(* answer a REST request with an older one: it is cached on the way.       *)
(***************************************************************************)
EXTENDS Naturals, Sequences, FiniteSets

CONSTANTS
  Slugs,
  Watched,         \* bound: the slugs whose prices are followed; others only subscribe
  MaxChanges,      \* bound: changes of one price
  Unreadable,      \* changes whose messages are not parsed: not open, bad level
  MaxEpoch,        \* bound: connections
  MaxWire,         \* bound: frames on their way
  ChunkSize,       \* MAX_SLUGS_PER_SUBSCRIPTION (100)
  MaxSubscriptions,\* MAX_SUBSCRIPTIONS_PER_CONNECTION (10)
  SlugRefresh, SilenceTimeout, MaxSilence, \* clocks, in units of time
  Relists          \* a scan may replace a market that is there already

ASSUME PolymarketFeedAssumption ==
  /\ Watched \subseteq Slugs /\ IsFiniteSet(Slugs) /\ "none" \notin Slugs /\ Unreadable \subseteq Nat
  /\ MaxChanges \in Nat /\ MaxEpoch \in Nat /\ MaxWire \in Nat
  /\ ChunkSize \in Nat \ {0} /\ MaxSubscriptions \in Nat
  /\ SlugRefresh \in Nat \ {0} /\ SilenceTimeout \in Nat \ {0} /\ MaxSilence \in Nat \ {0}
  /\ Relists \in BOOLEAN

VARIABLES
  price,         \* at the exchange: the change each slug is at
  due, streams,  \* at the server: slugs whose subscription arrived; slugs it pushes
  alive,         \* FALSE: the peer is gone and the socket does not show it
  wire,          \* frames on their way, oldest first
  link,          \* "down" or "up" (poly_ws_connected)
  epoch,         \* poly_ws_epoch
  tick, waited,  \* run_once: time since the last refresh, and in this read
  quiet,         \* time since poly_ws_last_frame_at
  subscribed, subscriptions,  \* run_once: the slugs asked for, and in how many messages
  wanted,        \* slugs of matched_markets
  matched,       \* prices in matched_markets, and where they come from
  cache,         \* poly_rest_quotes
  books,         \* poly_live_books
  quoteEpoch,    \* poly_ws_quote_epoch
  after,         \* slugs with poly_ws_quote_at later than fetched_at of the REST cycle
  pend,          \* the quote whose price is in matched_markets and not in the cache
  rest,          \* the REST cycle: its step, response and what it copied
  pushed,        \* history: the last change read from the stream
  crossed        \* history: slugs whose stream price REST or a scan may have replaced

server == <<price, due, streams, alive, wire>>
clocks == <<tick, waited, quiet>>
socket == <<link, epoch, subscribed, subscriptions>>
quotes == <<matched, cache, quoteEpoch, after, pend>>
vars == <<server, clocks, socket, wanted, quotes, books, rest, pushed, crossed>>

Changes == 0..MaxChanges
Prices == [change : Changes, source : {"none", "rest", "stream"}]
NoPrice == [change |-> 0, source |-> "none"]
FromRest(n) == [change |-> n, source |-> "rest"]
FromStream(n) == [change |-> n, source |-> "stream"]
NoQuote == [slug |-> "none", change |-> 0, after |-> FALSE]
Idle == [step |-> "idle", owned |-> {}, puts |-> [s \in Slugs |-> NoPrice]]

TypeOK ==
  /\ price \in [Slugs -> Changes] /\ due \subseteq Slugs /\ streams \subseteq Slugs /\ alive \in BOOLEAN
  /\ wire \in Seq([kind : {"quote", "book", "other"}, slug : Slugs, change : Changes])
  /\ link \in {"down", "up"} /\ epoch \in 0..MaxEpoch
  /\ tick \in 0..SlugRefresh /\ waited \in 0..SilenceTimeout /\ quiet \in 0..(MaxSilence + 1)
  /\ subscribed \subseteq Slugs /\ subscriptions \in 0..MaxSubscriptions
  /\ wanted \subseteq Slugs /\ matched \in [Slugs -> Prices] /\ cache \in [Slugs -> Prices]
  /\ books \in [Slugs -> [epoch : 0..MaxEpoch, change : Changes]]
  /\ quoteEpoch \in [Slugs -> 0..MaxEpoch] /\ after \subseteq Slugs
  /\ pend \in [slug : Slugs, change : Changes, after : BOOLEAN] \cup {NoQuote}
  /\ rest \in [step : {"idle", "asked", "read", "applied"},
               owned : SUBSET Slugs, puts : [Slugs -> Prices]]
  /\ pushed \in [Slugs -> Changes] /\ crossed \subseteq Slugs

Init ==
  /\ price = [s \in Slugs |-> 0] /\ due = {} /\ streams = {} /\ alive = TRUE /\ wire = <<>>
  /\ link = "down" /\ epoch = 0 /\ tick = 0 /\ waited = 0 /\ quiet = MaxSilence + 1
  /\ subscribed = {} /\ subscriptions = 0 /\ wanted \in SUBSET Slugs
  /\ matched = [s \in Slugs |-> IF s \in wanted \cap Watched THEN FromRest(0) ELSE NoPrice]
  /\ cache = [s \in Slugs |-> NoPrice]
  /\ books = [s \in Slugs |-> [epoch |-> 0, change |-> 0]]
  /\ quoteEpoch = [s \in Slugs |-> 0] /\ after = {} /\ pend = NoQuote /\ rest = Idle
  /\ pushed = [s \in Slugs |-> 0] /\ crossed = {}

-----------------------------------------------------------------------------
(* The server pushes the quote and the book of a slug at every change; a     *)
(* message the client cannot use reaches it as proof of life.                *)

Messages(s, n) ==
  LET kind(k) == IF n \in Unreadable THEN "other" ELSE k
  IN  <<[kind |-> kind("quote"), slug |-> s, change |-> n],
        [kind |-> kind("book"), slug |-> s, change |-> n]>>

Change(s) ==
  /\ s \in Watched /\ price[s] < MaxChanges
  /\ price' = [price EXCEPT ![s] = @ + 1]
  /\ IF s \in streams /\ alive
     THEN Len(wire) + 2 <= MaxWire /\ wire' = wire \o Messages(s, price[s] + 1)
     ELSE UNCHANGED wire
  /\ UNCHANGED <<due, streams, alive, clocks, socket, wanted, quotes, books, rest, pushed, crossed>>

\* A subscription is answered with the current quote and book.
Snapshot(s) ==
  /\ s \in due \cap Watched /\ alive /\ Len(wire) + 2 <= MaxWire
  /\ due' = due \ {s} /\ streams' = streams \cup {s}
  /\ wire' = wire \o Messages(s, price[s])
  /\ UNCHANGED <<price, alive, clocks, socket, wanted, quotes, books, rest, pushed, crossed>>

\* The peer vanishes: nothing more arrives, and no error either.
FallSilent ==
  /\ link = "up" /\ alive /\ alive' = FALSE /\ wire' = <<>>
  /\ UNCHANGED <<price, due, streams, clocks, socket, wanted, quotes, books, rest, pushed, crossed>>

-----------------------------------------------------------------------------
(* run_markets_stream and run_once.                                          *)

ConnectSameEpoch == \* mutant: a connection after the first keeps its epoch
  /\ link = "down" /\ epoch < MaxEpoch
  /\ link' = "up" /\ epoch' = (IF epoch = 0 THEN 1 ELSE epoch) /\ quiet' = 0
  /\ tick' = SlugRefresh /\ waited' = 0
  /\ UNCHANGED <<server, subscribed, subscriptions, wanted, quotes, books, rest, pushed, crossed>>

Connect ==
  /\ link = "down" /\ epoch < MaxEpoch
  /\ link' = "up" /\ epoch' = epoch + 1 /\ quiet' = 0
  /\ tick' = SlugRefresh /\ waited' = 0
  /\ UNCHANGED <<server, subscribed, subscriptions, wanted, quotes, books, rest, pushed, crossed>>

\* run_once returns and the manager hears of it (PolyWsEvent::Disconnected).
HangUp ==
  /\ link' = "down" /\ tick' = 0 /\ waited' = 0 /\ quiet' = MaxSilence + 1
  /\ subscribed' = {} /\ subscriptions' = 0
  /\ due' = {} /\ streams' = {} /\ alive' = TRUE /\ wire' = <<>>
  /\ UNCHANGED <<price, epoch, wanted, quotes, books, rest, pushed, crossed>>

\* A close frame, a read error, the end of the stream or a failed send.
Disconnect == link = "up" /\ pend = NoQuote /\ HangUp

\* subscription_count.
Needed(n) == 2 * ((n + ChunkSize - 1) \div ChunkSize)

\* The tick of the slug refresh. Every pass of the select loop starts the
\* silence timeout of the next read afresh.
Ask(slugs, messages, asked) ==
  /\ due' = due \cup slugs /\ subscribed' = subscribed \cup asked
  /\ subscriptions' = subscriptions + messages
  /\ tick' = 0 /\ waited' = 0
  /\ UNCHANGED <<price, streams, alive, wire, quiet, link, epoch, wanted, quotes, books, rest, pushed, crossed>>

RefreshInPlace == \* mutant: a full connection is not replaced to pack the slugs anew
  LET new == wanted \ subscribed
      free == MaxSubscriptions - subscriptions
  IN  /\ link = "up" /\ pend = NoQuote /\ tick = SlugRefresh
      /\ \/ /\ Needed(Cardinality(new)) <= free
            /\ Ask(new, Needed(Cardinality(new)), new)
         \/ /\ Needed(Cardinality(new)) > free
            /\ \E part \in SUBSET new :
                 /\ Cardinality(part) = ChunkSize * (free \div 2)
                 /\ Ask(part, free, new)

Refresh ==
  LET new == wanted \ subscribed
      free == MaxSubscriptions - subscriptions
      all == Cardinality(subscribed \cup new)
  IN  /\ link = "up" /\ pend = NoQuote /\ tick = SlugRefresh
      /\ \/ /\ Needed(Cardinality(new)) <= free
            /\ Ask(new, Needed(Cardinality(new)), new)
         \/ /\ Needed(Cardinality(new)) > free /\ Needed(all) <= MaxSubscriptions
            /\ HangUp
         \/ /\ Needed(Cardinality(new)) > free /\ Needed(all) > MaxSubscriptions
            /\ \E part \in SUBSET new :
                 /\ Cardinality(part) = ChunkSize * (free \div 2)
                 /\ Ask(part, free, new)

SilenceTimesOut == link = "up" /\ pend = NoQuote /\ waited = SilenceTimeout /\ HangUp

\* Time passes; a timer that is due goes first.
Pass ==
  /\ link = "up" /\ tick < SlugRefresh /\ waited < SilenceTimeout
  /\ tick' = tick + 1 /\ waited' = waited + 1
  /\ quiet' = IF quiet > MaxSilence THEN quiet ELSE quiet + 1
  /\ UNCHANGED <<server, socket, wanted, quotes, books, rest, pushed, crossed>>

\* update_polymarket_ws_quote: the price of the market under one lock ...
ReadQuote(f) ==
  /\ pushed' = [pushed EXCEPT ![f.slug] = f.change]
  /\ IF f.slug \in wanted
     THEN /\ matched' = [matched EXCEPT ![f.slug] = FromStream(f.change)]
          /\ pend' = [slug |-> f.slug, change |-> f.change, after |-> rest.step = "asked"]
     ELSE UNCHANGED <<matched, pend>>
  /\ crossed' = IF rest.step \in {"read", "applied"} THEN crossed \cup {f.slug} ELSE crossed \ {f.slug}
  /\ UNCHANGED books

\* ... update_polymarket_ws_book ...
ReadBook(f) ==
  /\ books' = [books EXCEPT ![f.slug] = [epoch |-> epoch, change |-> f.change]]
  /\ UNCHANGED <<matched, pend, pushed, crossed>>

Receive ==
  /\ link = "up" /\ pend = NoQuote /\ wire # <<>> /\ wire' = Tail(wire)
  /\ quiet' = 0 /\ waited' = 0
  /\ LET f == Head(wire)
     IN  \/ f.kind = "quote" /\ ReadQuote(f)
         \/ f.kind = "book" /\ ReadBook(f)
         \/ f.kind = "other" /\ UNCHANGED <<matched, pend, books, pushed, crossed>>
  /\ UNCHANGED <<price, due, streams, alive, tick, socket, wanted, cache, quoteEpoch, after, rest>>

\* ... and the cache, the time and the epoch of the quote under others.
CacheQuote ==
  /\ pend # NoQuote /\ pend' = NoQuote
  /\ cache' = [cache EXCEPT ![pend.slug] = FromStream(pend.change)]
  /\ quoteEpoch' = [quoteEpoch EXCEPT ![pend.slug] = epoch]
  /\ after' = IF pend.after /\ rest.step = "asked" THEN after \cup {pend.slug} ELSE after
  /\ UNCHANGED <<server, clocks, socket, wanted, matched, books, rest, pushed, crossed>>

\* Pings, acknowledgements, errors.
Heartbeat ==
  /\ link = "up" /\ alive /\ pend = NoQuote /\ quiet' = 0 /\ waited' = 0
  /\ UNCHANGED <<server, tick, socket, wanted, quotes, books, rest, pushed, crossed>>

-----------------------------------------------------------------------------
(* run_polymarket_quote_refresh and update_polymarket_rest_quotes_at.        *)

live == link = "up" /\ quiet <= MaxSilence
polymarket_price_is_live(s) == live /\ quoteEpoch[s] = epoch

RestAsk ==
  /\ rest.step = "idle" /\ rest' = [rest EXCEPT !.step = "asked"]
  /\ UNCHANGED <<server, clocks, socket, wanted, quotes, books, pushed, crossed>>

\* The response is there; the owners of the prices are copied before the
\* lock on the markets is taken.
RestRead ==
  /\ rest.step = "asked"
  /\ rest' = [rest EXCEPT !.step = "read",
                          !.owned = after \cup {s \in Slugs : polymarket_price_is_live(s)}]
  /\ after' = {}
  /\ UNCHANGED <<server, clocks, socket, wanted, matched, cache, quoteEpoch, pend, books, pushed, crossed>>

RestFails ==
  /\ rest.step = "asked" /\ rest' = Idle /\ after' = {}
  /\ UNCHANGED <<server, clocks, socket, wanted, matched, cache, quoteEpoch, pend, books, pushed, crossed>>

RestApplyAll == \* mutant: REST replaces what the stream owns
  \E response \in [Watched -> Changes] :
    LET listed == wanted \cap Watched
        Taken(old) == [s \in Slugs |-> IF s \in listed THEN FromRest(response[s]) ELSE old[s]]
    IN  /\ rest.step = "read" /\ \A s \in Watched : response[s] <= price[s]
        /\ matched' = Taken(matched)
        /\ rest' = [step |-> "applied", owned |-> {}, puts |-> Taken(Idle.puts)]
        /\ crossed' = crossed \cup (listed \ rest.owned)
        /\ UNCHANGED <<server, clocks, socket, wanted, cache, quoteEpoch, after, pend, books, pushed>>

\* A price the stream owns is kept and stamped again; the others are replaced.
RestApply ==
  \E response \in [Watched -> Changes] :
    LET listed == wanted \cap Watched
        Taken(old) == [s \in Slugs |-> IF s \notin listed THEN old[s]
                                       ELSE IF s \in rest.owned THEN matched[s]
                                       ELSE FromRest(response[s])]
    IN  /\ rest.step = "read" /\ \A s \in Watched : response[s] <= price[s]
        /\ matched' = Taken(matched)
        /\ rest' = [step |-> "applied", owned |-> {}, puts |-> Taken(Idle.puts)]
        /\ crossed' = crossed \cup (listed \ rest.owned)
        /\ UNCHANGED <<server, clocks, socket, wanted, cache, quoteEpoch, after, pend, books, pushed>>

RestCache ==
  /\ rest.step = "applied" /\ rest' = Idle
  /\ cache' = [s \in Slugs |-> IF rest.puts[s] = NoPrice THEN cache[s] ELSE rest.puts[s]]
  /\ UNCHANGED <<server, clocks, socket, wanted, matched, quoteEpoch, after, pend, books, pushed, crossed>>

-----------------------------------------------------------------------------
(* The markets come and go.                                                  *)

\* add_matched_markets with a price the scan has read at some time.
List(s) ==
  /\ s \notin wanted \/ Relists
  /\ wanted' = wanted \cup {s}
  /\ IF s \in Watched
     THEN /\ \E n \in 0..price[s] : matched' = [matched EXCEPT ![s] = FromRest(n)]
          /\ crossed' = crossed \cup {s}
     ELSE UNCHANGED <<matched, crossed>>
  /\ UNCHANGED <<server, clocks, socket, cache, quoteEpoch, after, pend, books, rest, pushed>>

\* remove_ended_markets.
EndMarket(s) ==
  /\ s \in wanted /\ wanted' = wanted \ {s}
  /\ matched' = [matched EXCEPT ![s] = NoPrice] /\ cache' = [cache EXCEPT ![s] = NoPrice]
  /\ UNCHANGED <<server, clocks, socket, quoteEpoch, after, pend, books, rest, pushed, crossed>>

-----------------------------------------------------------------------------
Stream == Receive \/ CacheQuote \/ Refresh \/ SilenceTimesOut
RestCycle == RestAsk \/ RestRead \/ RestApply \/ RestCache

Next ==
  \/ \E s \in Slugs : Change(s) \/ Snapshot(s) \/ List(s) \/ EndMarket(s)
  \/ FallSilent \/ Connect \/ Disconnect \/ Heartbeat \/ Pass \/ Stream
  \/ RestCycle \/ RestFails

Spec == Init /\ [][Next]_vars

\* The stream is a task of the runtime, and its timers go off.
FairSpec == Spec /\ WF_vars(Stream) /\ WF_vars(Pass)

-----------------------------------------------------------------------------
(* Properties.                                                               *)

\* fresh_polymarket_book.
Fresh(s) == live /\ books[s].epoch = epoch

OnItsWay(kind, s) == {wire[i].change : i \in {j \in DOMAIN wire : wire[j].slug = s /\ wire[j].kind = kind}}

\* The last change up to now whose message the client can use.
Readable(s) == {n \in 0..price[s] : n \notin Unreadable}

\* A book that orders are sized from is the last readable one of the exchange,
\* or newer ones are on their way: none of an earlier connection, however
\* quiet the market is.
FreshBookIsLast ==
  \A s \in Watched :
    Fresh(s) /\ alive =>
      \/ OnItsWay("book", s) # {}
      \/ \A n \in Readable(s) : n <= books[s].change

\* A price that may start an automatic trade came from the stream, and is the
\* last one it brought, except where REST or a scan crossed it.
LivePriceIsPushed ==
  \A s \in (wanted \cap Watched) \ crossed :
    polymarket_price_is_live(s) /\ pend = NoQuote /\ cache[s] # NoPrice
      => matched[s] = FromStream(pushed[s]) /\ cache[s] = matched[s]

\* The same without the exception: what polymarket_price_is_live promises.
LivePriceIsFromStream ==
  \A s \in wanted \cap Watched :
    polymarket_price_is_live(s) /\ pend = NoQuote /\ cache[s] # NoPrice
      => cache[s].source = "stream"

\* A slug that counts as subscribed, and is never asked for again, has its
\* subscription at the server, unless they would not all fit on any connection.
SubscribedIsCarried ==
  Needed(Cardinality(subscribed)) <= MaxSubscriptions => subscribed \subseteq due \cup streams

\* A socket that went silent is replaced: "returns when the socket dies or
\* goes silent".
SilenceIsNoticed == ~alive ~> alive

=============================================================================
