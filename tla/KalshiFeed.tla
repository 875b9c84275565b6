------------------------------ MODULE KalshiFeed ------------------------------
(***************************************************************************)
(* The live order books of Kalshi: the connect loop, the frames of one     *)
(* connection, the cached books, hot subscriptions, and the price updates  *)
(* that go through a bounded channel to the price handler                  *)
(* (clients/kalshi/ws.rs, book.rs, websocket_manager/detection.rs), with   *)
(* the REST cycle that writes the same prices (websocket_manager/quotes.rs).*)
(*                                                                         *)
(* A book is the set of changes it contains: change 0 is the book the      *)
(* exchange starts from, a snapshot contains every change up to its own,   *)
(* and a delta adds one. A price is the book it is the best price of, and  *)
(* {} is no price. REST may answer with an older book: it is cached on the *)
(* way.                                                                    *)
(***************************************************************************)
EXTENDS Naturals, Sequences

CONSTANTS
  Tickers,
  OneSided,      \* changes after which one side of the book has no bids
  Unparsable,    \* changes whose price or size the client cannot parse
  MaxChanges,    \* bound: changes of one book at the exchange
  MaxEpoch,      \* bound: connections
  MaxWire,       \* bound: frames on their way
  ChannelSize,   \* capacity of the price channel (10000 in strategy.rs:52)
  MaxListings,   \* bound: markets added by scans
  Answers,       \* bound: the books that REST and scans may answer with
  Faults         \* "skip": frames may be missing; "drop": the server drops the
                 \* subscription; "send": a subscribe command is not sent

ASSUME KalshiFeedAssumption ==
  /\ OneSided \subseteq Nat /\ Unparsable \subseteq Nat /\ "none" \notin Tickers
  /\ MaxChanges \in Nat /\ MaxEpoch \in Nat /\ MaxWire \in Nat /\ ChannelSize \in Nat \ {0} /\ MaxListings \in Nat
  /\ Answers \subseteq Nat
  /\ Faults \subseteq {"skip", "drop", "send"}

VARIABLES
  book,        \* at the exchange: the last change of each book
  serving,     \* at the server: the tickers whose changes it sends
  due,         \* at the server: subscriptions asked for and not yet answered
  skipped,     \* at the server: a sequence number was used and its frame lost
  wire,        \* the frames between server and client, oldest first
  link,        \* connect_websocket: "down", "opening" or "up"
  asked,       \* its argument: the tickers it will subscribe
  commands,    \* the hot (un)subscriptions in command_tx
  epoch,       \* connection_epoch
  cache,       \* orderbook_cache
  held,        \* the update the reader waits to put in the price channel
  prices,      \* the price channel
  listed,      \* the price of a ticker in matched_markets
  quote,       \* kalshi_rest_quotes: the price detection works with
  quoted,      \* kalshi_ws_quote_at: tickers the stream gave a price ever
  after,       \* of these, the ones with a time after fetched_at of the REST cycle
  pend,        \* apply_kalshi_ws_quote between its locks
  rest,        \* the REST cycle: its step, what it copied, what it puts in quote
  wanted,      \* tickers of matched_markets or directional_subscriptions
  adding,      \* of these, the ones the scanner has not hot-subscribed yet
  dropping,    \* ended tickers the clean-up has not unsubscribed yet
  listings,    \* how many markets were added
  clean,       \* history: this connection has lost no frame
  missed,      \* history: hot subscriptions refused while connecting, or lost
  crossed      \* history: tickers whose price REST or a scan wrote last, or whose
               \* update met a REST cycle at work

server == <<book, serving, due, skipped>>
client == <<link, asked, commands, epoch, cache, held>>
quotes == <<listed, quote, quoted, after, pend, rest, crossed>>
registry == <<wanted, adding, dropping, listings>>
vars == <<server, wire, client, prices, quotes, registry, clean, missed>>

Contents == SUBSET (0..MaxChanges)
Updates == [ticker : Tickers, has : Contents]
NoUpdate == [ticker |-> "none"]
NoBook == [epoch |-> 0, has |-> {}]
NoPend == [ticker |-> "none", has |-> {}, step |-> "none", changed |-> FALSE, after |-> FALSE]
Asked == [step |-> "asked", known |-> {}, newer |-> {}, puts |-> [t \in Tickers |-> {}]]

\* Before change 0 there was nothing.
Upto(n) == 0..n

\* What the client makes of it: a level it cannot parse is left out.
Parsed(n) == Upto(n) \ Unparsable

\* yes.last() and no.last() both exist after the last change applied.
TwoSided(has) == \E n \in has \ OneSided : \A m \in has : m <= n

Frame(kind, t, n) == [kind |-> kind, ticker |-> t, change |-> n, gap |-> skipped]
Dropped == [kind |-> "unsubscribed", ticker |-> "none", change |-> 0, gap |-> skipped]
Frames ==
  [kind : {"snapshot", "delta"}, ticker : Tickers, change : 0..MaxChanges, gap : BOOLEAN]
    \cup [kind : {"unsubscribed"}, ticker : {"none"}, change : {0}, gap : BOOLEAN]

TypeOK ==
  /\ book \in [Tickers -> 0..MaxChanges] /\ serving \subseteq Tickers
  /\ due \subseteq Tickers /\ skipped \in BOOLEAN /\ wire \in Seq(Frames)
  /\ link \in {"down", "opening", "up"} /\ asked \subseteq Tickers
  /\ commands \in Seq([op : {"subscribe", "unsubscribe"}, ticker : Tickers])
  /\ epoch \in 0..MaxEpoch
  /\ cache \in [Tickers -> [epoch : 0..MaxEpoch, has : Contents]]
  /\ held \in Updates \cup {NoUpdate}
  /\ prices \in Seq(Updates) /\ Len(prices) <= ChannelSize
  /\ listed \in [Tickers -> Contents] /\ quote \in [Tickers -> Contents]
  /\ quoted \subseteq Tickers /\ after \subseteq Tickers /\ crossed \subseteq Tickers
  /\ pend \in [ticker : Tickers, has : Contents, step : {"stamp", "list"},
               changed : BOOLEAN, after : BOOLEAN] \cup {NoPend}
  /\ rest \in [step : {"asked", "read", "applied"}, known : SUBSET Tickers,
               newer : SUBSET Tickers, puts : [Tickers -> Contents]]
  /\ wanted \subseteq Tickers /\ adding \subseteq Tickers /\ dropping \subseteq Tickers
  /\ listings \in 0..MaxListings /\ clean \in BOOLEAN /\ missed \subseteq Tickers

Init ==
  /\ book = [t \in Tickers |-> 0] /\ serving = {} /\ due = {} /\ skipped = FALSE
  /\ wire = <<>> /\ link = "down" /\ asked = {} /\ commands = <<>>
  /\ epoch = 0 /\ cache = [t \in Tickers |-> NoBook]
  /\ held = NoUpdate /\ prices = <<>> /\ quote = [t \in Tickers |-> {}]
  /\ quoted = {} /\ after = {} /\ pend = NoPend /\ rest = Asked
  /\ wanted \in SUBSET Tickers /\ crossed = wanted
  /\ listed = [t \in Tickers |-> IF t \in wanted THEN Upto(0) ELSE {}]
  /\ adding = {} /\ dropping = {} /\ listings = 0
  /\ clean = TRUE /\ missed = {}

-----------------------------------------------------------------------------
(* The server. One subscription carries every ticker and numbers all its     *)
(* messages; a frame whose predecessor is missing is marked as a gap.        *)

\* The book of t changes; the server pushes the change if it serves t.
Change(t) ==
  /\ book[t] < MaxChanges
  /\ book' = [book EXCEPT ![t] = @ + 1]
  /\ IF t \in serving
     THEN /\ Len(wire) < MaxWire
          /\ wire' = Append(wire, Frame("delta", t, book[t] + 1))
          /\ skipped' = FALSE
     ELSE UNCHANGED <<wire, skipped>>
  /\ UNCHANGED <<serving, due, client, prices, quotes, registry, clean, missed>>

\* The same, and the frame is lost although its number was used.
ChangeIsLost(t) ==
  /\ "skip" \in Faults /\ t \in serving /\ book[t] < MaxChanges
  /\ book' = [book EXCEPT ![t] = @ + 1]
  /\ skipped' = TRUE /\ clean' = FALSE
  /\ UNCHANGED <<serving, due, wire, client, prices, quotes, registry, missed>>

\* A subscription is answered with a snapshot; for a ticker that is served
\* already the server may leave it at an acknowledgement.
Snapshot(t) ==
  /\ t \in due /\ Len(wire) < MaxWire
  /\ due' = due \ {t} /\ serving' = serving \cup {t}
  /\ \/ /\ wire' = Append(wire, Frame("snapshot", t, book[t])) /\ skipped' = FALSE
     \/ t \in serving /\ UNCHANGED <<wire, skipped>>
  /\ UNCHANGED <<book, client, prices, quotes, registry, clean, missed>>

\* "Subscription buffer overflow": the server stops serving and says so.
DropSubscription ==
  /\ "drop" \in Faults /\ link = "up" /\ serving # {} /\ Len(wire) < MaxWire
  /\ serving' = {} /\ due' = {} /\ skipped' = FALSE
  /\ wire' = Append(wire, Dropped)
  /\ UNCHANGED <<book, client, prices, quotes, registry, clean, missed>>

-----------------------------------------------------------------------------
(* The connect loop and the reader of one connection.                        *)

\* The tickers are read before connect_async is awaited.
ReadTickersOnce == \* mutant: only the first connection asks for what is wanted
  /\ link = "down" /\ link' = "opening"
  /\ asked' = IF epoch = 0 THEN wanted ELSE {}
  /\ missed' = {}
  /\ UNCHANGED <<server, wire, commands, epoch, cache, held, prices, quotes, registry, clean>>

ReadTickers ==
  /\ link = "down" /\ link' = "opening" /\ asked' = wanted
  /\ missed' = {}
  /\ UNCHANGED <<server, wire, commands, epoch, cache, held, prices, quotes, registry, clean>>

ConnectFails ==
  /\ link = "opening" /\ link' = "down" /\ asked' = {}
  /\ UNCHANGED <<server, wire, commands, epoch, cache, held, prices, quotes, registry, clean, missed>>

Connect ==
  /\ link = "opening" /\ epoch < MaxEpoch
  /\ epoch' = epoch + 1 /\ clean' = TRUE
  /\ link' = "up" /\ due' = asked /\ asked' = {}
  /\ UNCHANGED <<book, serving, skipped, wire, commands, cache, held, prices, quotes, registry, missed>>

\* The first subscribe cannot be sent: the call returns with the epoch bumped.
SubscribeFails ==
  /\ link = "opening" /\ asked # {} /\ epoch < MaxEpoch
  /\ epoch' = epoch + 1
  /\ link' = "down" /\ asked' = {}
  /\ UNCHANGED <<server, wire, commands, cache, held, prices, quotes, registry, clean, missed>>

\* The loop ends: the socket and the command channel go with it. Nothing
\* tells the readers of the cache.
Hangup ==
  /\ link' = "down" /\ wire' = <<>> /\ commands' = <<>>
  /\ serving' = {} /\ due' = {} /\ skipped' = FALSE /\ clean' = TRUE /\ missed' = {}
  /\ UNCHANGED <<book, asked, epoch, cache, held, prices, quotes, registry>>

Disconnect == link = "up" /\ held = NoUpdate /\ Hangup

\* A text frame: the server's notice ends the loop, a frame after a gap is
\* logged and not applied, a snapshot replaces the book, and a delta counts
\* only on a book of this connection, and if it can be parsed. What changed the
\* book is announced if both sides have a price; the reader goes on once the
\* channel takes it.
Written(t, has) ==
  /\ cache' = [cache EXCEPT ![t] = [epoch |-> epoch, has |-> has]]
  /\ held' = IF TwoSided(has) THEN [ticker |-> t, has |-> has] ELSE NoUpdate

parse_any_delta(f) == \* mutant: a delta counts on whatever is in the cache
  \/ /\ ~f.gap /\ f.kind = "snapshot"
     /\ Written(f.ticker, Parsed(f.change))
  \/ /\ ~f.gap /\ f.kind = "delta"
     /\ Written(f.ticker, (cache[f.ticker].has \cup {f.change}) \ Unparsable)
  \/ /\ f.gap
     /\ UNCHANGED <<cache, held>>

parse_ws_message(f) ==
  \/ /\ ~f.gap /\ f.kind = "snapshot"
     /\ Written(f.ticker, Parsed(f.change))
  \/ /\ ~f.gap /\ f.kind = "delta" /\ cache[f.ticker].epoch = epoch /\ f.change \notin Unparsable
     /\ Written(f.ticker, cache[f.ticker].has \cup {f.change})
  \/ /\ \/ f.gap
        \/ f.kind = "delta" /\ (cache[f.ticker].epoch # epoch \/ f.change \in Unparsable)
     /\ UNCHANGED <<cache, held>>

ReceiveOnly == \* mutant: the server's notice is a frame like the others
  /\ link = "up" /\ held = NoUpdate /\ wire # <<>>
  /\ wire' = Tail(wire)
  /\ IF Head(wire).kind = "unsubscribed"
     THEN UNCHANGED <<cache, held>>
     ELSE parse_ws_message(Head(wire))
  /\ UNCHANGED <<server, link, asked, commands, epoch, prices, quotes, registry, clean, missed>>

Receive ==
  /\ link = "up" /\ held = NoUpdate /\ wire # <<>>
  /\ IF Head(wire).kind = "unsubscribed"
     THEN Hangup
     ELSE /\ parse_ws_message(Head(wire))
          /\ wire' = Tail(wire)
          /\ UNCHANGED <<server, link, asked, commands, epoch, prices, quotes, registry, clean, missed>>

SendPrice ==
  /\ held # NoUpdate /\ Len(prices) < ChannelSize
  /\ prices' = Append(prices, held) /\ held' = NoUpdate
  /\ UNCHANGED <<server, wire, link, asked, commands, epoch, cache, quotes, registry, clean, missed>>

\* A command is taken between two frames. An unsubscribe only forgets the book.
Command ==
  /\ link = "up" /\ held = NoUpdate /\ commands # <<>>
  /\ commands' = Tail(commands)
  /\ LET c == Head(commands)
     IN  \/ /\ c.op = "subscribe" /\ due' = due \cup {c.ticker}
            /\ UNCHANGED <<cache, missed>>
         \/ /\ c.op = "subscribe" /\ "send" \in Faults
            /\ missed' = missed \cup {c.ticker} /\ UNCHANGED <<due, cache>>
         \/ /\ c.op = "unsubscribe"
            /\ cache' = [cache EXCEPT ![c.ticker] = NoBook]
            /\ UNCHANGED <<due, missed>>
  /\ UNCHANGED <<book, serving, skipped, wire, link, asked, epoch, held, prices, quotes, registry, clean>>

-----------------------------------------------------------------------------
(* The registry side: scanner, clean-up and price handler.                   *)

\* add_matched_markets, or the directional set: the ticker is wanted from now,
\* with a price the scan has read at some time; a market that is there already
\* is replaced.
List(t) ==
  /\ listings < MaxListings /\ listings' = listings + 1
  /\ wanted' = wanted \cup {t} /\ adding' = adding \cup {t}
  /\ \E n \in Answers : n <= book[t] /\ listed' = [listed EXCEPT ![t] = Upto(n)]
  /\ crossed' = crossed \cup {t}
  /\ UNCHANGED <<server, wire, client, prices, quote, quoted, after, pend, rest, dropping, clean, missed>>

\* subscribe_markets: without a connection nothing is sent, and the next
\* connect is trusted to read the list.
subscribe_markets(t) ==
  /\ t \in adding /\ adding' = adding \ {t}
  /\ IF link = "up"
     THEN /\ commands' = Append(commands, [op |-> "subscribe", ticker |-> t])
          /\ UNCHANGED missed
     ELSE /\ missed' = IF link = "opening" THEN missed \cup {t} ELSE missed
          /\ UNCHANGED commands
  /\ UNCHANGED <<server, wire, link, asked, epoch, cache, held, prices, quotes, wanted, dropping, listings, clean>>

\* remove_ended_markets: the market leaves the list and its price the cache;
\* the time of its last price stays.
EndMarket(t) ==
  /\ t \in wanted \ adding
  /\ wanted' = wanted \ {t} /\ dropping' = dropping \cup {t}
  /\ listed' = [listed EXCEPT ![t] = {}] /\ quote' = [quote EXCEPT ![t] = {}]
  /\ crossed' = crossed \ {t}
  /\ UNCHANGED <<server, wire, client, prices, quoted, after, pend, rest, adding, listings, clean, missed>>

unsubscribe_markets(t) ==
  /\ t \in dropping /\ dropping' = dropping \ {t}
  /\ commands' = IF link = "up" THEN Append(commands, [op |-> "unsubscribe", ticker |-> t]) ELSE commands
  /\ UNCHANGED <<server, wire, link, asked, epoch, cache, held, prices, quotes, wanted, adding, listings, clean, missed>>

-----------------------------------------------------------------------------
(* The two writers of a price. apply_kalshi_ws_quote takes three locks one   *)
(* after the other: the cache, the times, and, if the price changed, the     *)
(* list.                                                                     *)

\* on_kalshi_price_update: the price enters the cache ...
on_price_update ==
  /\ prices # <<>> /\ pend = NoPend /\ prices' = Tail(prices)
  /\ LET u == Head(prices)
         changed == quote[u.ticker] # u.has
     IN  /\ quote' = [quote EXCEPT ![u.ticker] = u.has]
         /\ pend' = [ticker |-> u.ticker, has |-> u.has, step |-> "stamp",
                     changed |-> changed, after |-> rest.step = "asked"]
         /\ crossed' = IF rest.step \in {"read", "applied"} THEN crossed \cup ({u.ticker} \cap wanted)
                       ELSE IF changed THEN crossed \ {u.ticker} ELSE crossed
  /\ UNCHANGED <<server, wire, client, listed, quoted, after, rest, registry, clean, missed>>

\* ... its time is noted ...
stamp_quote ==
  /\ pend.step = "stamp"
  /\ quoted' = quoted \cup {pend.ticker}
  /\ after' = IF pend.after /\ rest.step = "asked" THEN after \cup {pend.ticker} ELSE after
  /\ pend' = IF pend.changed THEN [pend EXCEPT !.step = "list"] ELSE NoPend
  /\ UNCHANGED <<server, wire, client, prices, listed, quote, rest, crossed, registry, clean, missed>>

\* ... and a price that changed goes to the list.
list_quote ==
  /\ pend.step = "list" /\ pend' = NoPend
  /\ listed' = IF pend.ticker \in wanted THEN [listed EXCEPT ![pend.ticker] = pend.has] ELSE listed
  /\ UNCHANGED <<server, wire, client, prices, quote, quoted, after, rest, crossed, registry, clean, missed>>

\* get_fresh_orderbook of a connection whose last frame is not older than max_age:
\* the silence of a connection is not a state here, it may come and go at any time.
Fresh(t) == cache[t].epoch = epoch /\ epoch # 0

\* run_kalshi_quote_refresh: fetched_at, and a request. There is always one under
\* way here: this is the next one, after the last has failed or was applied.
RestAsk ==
  /\ rest.step = "asked" /\ after' = {} /\ pend' = [pend EXCEPT !.after = FALSE]
  /\ UNCHANGED <<server, wire, client, prices, listed, quote, quoted, rest, crossed, registry, clean, missed>>

\* update_kalshi_rest_quotes_at: the times of the stream's prices are copied ...
RestRead ==
  /\ rest.step = "asked"
  /\ rest' = [rest EXCEPT !.step = "read", !.known = quoted, !.newer = after]
  /\ after' = {}
  /\ crossed' = IF pend = NoPend THEN crossed ELSE crossed \cup ({pend.ticker} \cap wanted)
  /\ UNCHANGED <<server, wire, client, prices, listed, quote, quoted, pend, registry, clean, missed>>

\* ... and with the list locked, the price of a ticker that is still trading is
\* kept if the stream owns it, and replaced if not ...
ws_owns_prices(silent) == {t \in rest.known : Fresh(t) /\ ~silent} \cup rest.newer

RestWrites(owned, kept) ==
  \E trading \in SUBSET wanted, n \in [Tickers -> Answers] :
    /\ rest.step = "read" /\ \A t \in trading : n[t] <= book[t]
    /\ listed' = [t \in Tickers |-> IF t \in trading \ kept THEN Upto(n[t]) ELSE listed[t]]
    /\ rest' = [Asked EXCEPT !.step = "applied",
                             !.puts = [t \in Tickers |-> IF t \in trading THEN listed'[t] ELSE {}]]
    /\ crossed' = crossed \cup (trading \ owned)
    /\ UNCHANGED <<server, wire, client, prices, quote, quoted, after, pend, registry, clean, missed>>

RestApplyAll == \* mutant: REST replaces what the stream owns
  \E silent \in BOOLEAN : RestWrites(ws_owns_prices(silent), {})

RestApply == \E silent \in BOOLEAN : RestWrites(ws_owns_prices(silent), ws_owns_prices(silent))

\* ... and either way the price in the list goes to the cache.
RestCache ==
  /\ rest.step = "applied" /\ rest' = Asked
  /\ quote' = [t \in Tickers |-> IF rest.puts[t] = {} THEN quote[t] ELSE rest.puts[t]]
  /\ UNCHANGED <<server, wire, client, prices, listed, quoted, after, pend, crossed, registry, clean, missed>>

-----------------------------------------------------------------------------
Reader == Receive \/ SendPrice \/ Command
Handler == on_price_update \/ stamp_quote \/ list_quote
RestCycle == RestAsk \/ RestRead \/ RestApply \/ RestCache

Next ==
  \/ \E t \in Tickers :
       Change(t) \/ ChangeIsLost(t) \/ Snapshot(t) \/ List(t) \/ subscribe_markets(t)
         \/ EndMarket(t) \/ unsubscribe_markets(t)
  \/ DropSubscription \/ ReadTickers \/ ConnectFails \/ Connect \/ SubscribeFails
  \/ Disconnect \/ Reader \/ Handler \/ RestCycle

Spec == Init /\ [][Next]_vars

\* The reader and the price handler are tasks of the runtime, and a server that
\* is connected sends what it has to.
FairSpec ==
  Spec /\ WF_vars(Reader) /\ WF_vars(Handler)

-----------------------------------------------------------------------------
(* Properties.                                                               *)

Pending(t) == {wire[i].change : i \in {j \in DOMAIN wire : wire[j].ticker = t /\ wire[j].kind = "delta"}}
DropIsPending == \E i \in DOMAIN wire : wire[i].kind = "unsubscribed"

\* On a connection that lost no frame, a book that is handed out for orders
\* lacks at most the changes whose frames are still on their way: nothing of
\* an earlier connection, of a removed market or of a delta without a base. A
\* change that cannot be parsed is the exception: it is dropped with a warning.
FreshBookIsExact ==
  \A t \in Tickers :
    link = "up" /\ Fresh(t) /\ clean /\ ~DropIsPending
      => (cache[t].has \cup Pending(t)) \ Unparsable = Parsed(book[t])

AtRest ==
  /\ wire = <<>> /\ commands = <<>> /\ held = NoUpdate /\ prices = <<>>
  /\ pend = NoPend /\ rest.step = "asked" /\ adding = {} /\ dropping = {}

\* When nothing is on its way, the price that detection works with is the one of
\* the cached book, and so is the one in the list, which the next REST cycle may
\* put in its place. Excepted are the tickers whose price REST wrote while the
\* stream did not own it, or a scan, until the stream brings another price, and
\* the ones with an update that met a REST cycle between its copy and its write.
PriceFollowsBook ==
  \A t \in wanted \ crossed :
    AtRest /\ link = "up" /\ cache[t].epoch = epoch /\ TwoSided(cache[t].has)
      => quote[t] = cache[t].has /\ listed[t] = cache[t].has

\* On a connection, whatever is wanted is served or asked for, unless its hot
\* subscription came while the connection was being made or was not sent.
WantedIsSubscribed ==
  AtRest /\ link = "up" => wanted \subseteq serving \cup due \cup missed

\* A full price channel or a queue of frames does not hide that the server
\* dropped the subscription: the reader gets there and gives up the connection.
DropIsNoticed == DropIsPending ~> link # "up"

=============================================================================
