# Verification of the arbitrage and mention-trading bot

The repository is a Rust backend (`src/rust-backend`) that watches the same
event on two exchanges, Kalshi and Polymarket US, and when the two prices add up
to less than the payout buys one leg on each, at the same moment. Beside it, a
smaller strategy trades mention markets at Kalshi in one direction. This directory
holds TLA+ models of the parts of it that are hard to test, the TLC configurations
that check them on small instances, and proofs of the properties that matter most
for instances of every size.

All source paths below are relative to `src/rust-backend/src`; `wsm/` stands for
`strategies/sports_arb/websocket_manager/`.

## 1. The system

| Part | State | Operations | Talks to |
| --- | --- | --- | --- |
| Paired execution, `strategies/sports_arb/execution.rs` | one attempt in flight: size, the two leg results, the remaining imbalance | intent row, both orders at once, confirmation of an unfilled Polymarket reply, two acknowledgement writes, forward hedge, unwind, final row, halt, alert | both exchanges, SQLite, Discord |
| Auto-trade executor and queue, `strategies/sports_arb/runner.rs` | `auto_trade_queue`, `is_auto_trading` | queue check, pop, re-check, size, submit, mark, count | manager, paired execution |
| Manual execution, `strategies/sports_arb/routes/execute.rs` | none of its own | check exclusion and count, size, submit, count | paired execution |
| Auto-trade state, `services/storage/auto_trade_repo.rs`, `wsm/auto_trade.rs` | `auto_trade_state` (enabled, counts, settings), `auto_trade_history` rows, excluded markets, `auto_traded_opportunities` | enable, disable, reset, settings, exclude, eligibility | SQLite |
| WebSocketManager, `wsm/` | matched markets and their lookup map, quotes of both exchanges with their time stamps, tracked opportunities, ended-market detection | quote updates, detection, tracking, adding and removing markets, coverage and statistics | price handler, pollers, scanner, clean-up, routes |
| Kalshi market data, `clients/kalshi/ws.rs`, `book.rs` | cached books, the epoch of the connection, sequence numbers | connect, snapshot, delta, subscribe, unsubscribe | executor |
| Polymarket market data, `clients/polymarket/ws.rs`, `wsm/polymarket_feed.rs`, `wsm/quotes.rs` | live books, epoch, last frame | connect, frame, disconnect, REST quotes | executor, detection |
| Order calls, `clients/kalshi/orders.rs`, `clients/polymarket/orders.rs` | none | submit, parse a reply, confirm by order id or by account activity | exchanges |
| Sizing and fees, `core/fees.rs`, `execution.rs:52-720`, `runner.rs:474-612` | none | fees, levels, contract size and limits, the veto of a stale book, the loss bound of an exit | executor, routes |
| Catalogues, `clients/kalshi/events.rs`, `clients/polymarket/events.rs`, `core/competitors.rs`, `core/team_codes.rs`, ... | none | read what each exchange lists into events with canonical names and dates | scanner |
| Matching, `core/matcher.rs`, `models/mod.rs` | matched markets by key | pair events by name and date, markets by competitor; the offsetting side | scanner, executor, positions page |
| Market lifecycle, `wsm/market_lifecycle.rs`, `wsm/quotes.rs`, `strategies/sports_arb/service.rs` | two copies of the matched markets, missing streaks, first sight of extreme prices, confirmed ends | scan, apply, add; see a market end; check, remove, clear | both exchanges |
| Positions, `services/positions.rs`, `services/storage/hedge_pairs_repo.rs` | remembered hedge pairs | pair held legs, remember what the mapping explains | positions page |
| Tracking storage, `services/storage/mod.rs`, repositories | bounded channel to the writer thread | start, update, end, depth | detection |
| Mention trading, `strategies/mention/execution.rs`, `services/storage/directional_repo.rs` | mode, kill switch, loss breaker; positions, order intents with client order ids, ledger of realized results | poll (`run_once`): look up unresolved orders, book results, manage exits, check the losses of the day, enter; set mode, kill, reset | Kalshi, SQLite, operator |
| Mention signals, `strategies/mention/signal.rs`, entry planning | the latest signal per market | freshness, walking a book | mention trading |
| Reports, web API, frontend, the Python signal service | views of the above | read-only joins and presentation | operator |

What is hard about it: two orders fly at once and each may fill, fill partly,
fill a fraction, fail, fail although it traded, or answer nonsense; every durable
write may fail; the process may die between any two steps; an HTTP handler is
dropped at an await when its client goes away; an automatic and a manual attempt
overlap; and every field of the manager has a lock of its own that many tasks
nest. The properties that make each part correct:

* Paired execution. A row exists before an order does. A settled row means a flat
  position. A position the program could not repair is recorded, halts automatic
  trading and is announced. A repair never turns the exposure around. A restart
  after a crash in the middle of an attempt does not trade on.
* Executor, queue and counts. No opportunity is traded twice; a tracked and
  eligible one is eventually tried; the trade count stays in its limit.
* WebSocketManager. No two tasks wait for each other; an index taken from the
  market list is good when it is used; a quote is never replaced by an older one.
* Market data. A book used for sizing is of the current connection and lacks only what
  is on its way; a price that may start a trade is the last one pushed; what is wanted
  is subscribed, and a connection that no longer delivers is given up.
* Sizing. A pair that fills pays in either outcome, wherever within its limits it fills;
  an exit loses no more than its bound.
* Catalogues and matching. The two legs of a trade, and of a pair shown on the positions
  page, are opposite outcomes of one game.
* Lifecycle. A market that closed leaves; one that is offered is served; none leaves
  without a reason.
* Tracking. The rows of the history say what the records in memory said.
* Mention trading. The rows the risk budgets count cover what the account holds,
  whatever call, look-up or entry write failed. A contract is booked once. One live entry
  at a time is unresolved. Losses that reach the limit end the day. A position that
  is over stays over.

## 2. The plan

| Module | State |
| --- | --- |
| `PairedExecution` with its contract `TradeLedger` | modelled, checked, its safety properties proved |
| `ManagerLocks` | modelled, checked, its safety property proved |
| `AutoTrader` | modelled, checked, its safety properties proved |
| `MentionTrading` | modelled, checked, its safety properties proved |
| `KalshiFeed` | modelled, checked, its safety properties proved |
| `PolymarketFeed` | modelled, checked, its safety properties proved |
| `Tracking` | modelled, checked, its safety properties proved |
| `Lifecycle` | modelled, checked, its safety properties proved |
| `Sizing` | modelled, checked over small books, its properties proved for every book (in `AutoTraderProofs`) |
| `Listing`, and `Matching` on top of it | modelled, checked over five catalogues, its properties proved for every catalogue (in `OpportunityProofs`, with `Tracking`) |

`MCAlgorithms` composes `Sizing` and `Matching` (which share no variable) in one run.
`AutoTrader` composes the two loops, the manual route and the removal of markets, with
an attempt reduced to its outcome; `PairedExecution` is that attempt.

Every safety property that a run checks is a theorem; without one are the liveness
properties. Parts that remain worth modelling: the planning of a mention entry
(`walk_buy`, `plan_entry`) in the style of `Sizing`.

## 3. The modules and the code

### PairedExecution

`submit_paired_order` (`execution.rs:776-1440`) for a set of `Attempts`, some of
them `Automatic` (one at a time, the executor loop) and the others from the manual
route. One action per step that is separated from the next one by an await:

| Code | Actions |
| --- | --- |
| executor and route before the intent row | `Admit`, `Skip` |
| `insert_auto_trade_intent` | `PersistIntent`, `PersistIntentFails` |
| `tokio::join!` of the two submissions | `SendLeg`, `LegReply`, in any order |
| the exchanges, whether or not the process runs | `VenueSettles` |
| `confirm_filled_contracts` of an unfilled Polymarket reply | `FillIsKnown`, `ConfirmByOrder`, `ConfirmByActivity`, `ConfirmFails` |
| `update_auto_trade_leg`, Polymarket first | `PersistAck`, `PersistAckFails` |
| recovery loop | `PlanRecovery`, `RefuseStep`, `SendStep`, `StepReply` |
| `finish_auto_trade`, `disable_auto_trade`, Discord | `Finish`, `FinishFails`, `Halt`, `Notify` |
| the server drops a waiting handler | `Disconnect` |
| the process dies; `SportsArb::new`; the operator | `Crash`, `Restart`, `Enable`, `Disable` |

`row`, `acked` and `enabled` are what SQLite holds; `told`, `steps` and
`remaining` the local variables `poly_result`, `kalshi_result`, the order of the
recovery steps and `remaining_contracts`. `traded` and `live` belong to the
exchanges: no action of the program reads them except through `Replies` and the
look-ups. Quantities at the exchanges are in half contracts, so that a fill of
one and a half is 3; the parsers floor it and set a flag, the confirmation rounds
it up, and both are modelled so. Prices are reduced to what control depends on:
whether an entry price is known (`priced`), whether a recovery step is refused
(`RefuseStep`), and which one goes first. The faults are constants: which orders
may report no fill although they traded (`LossyOrders`), trade after the reply
(`LateOrders`), answer nonsense (`GarbledOrders`) or fill fractions
(`FractionalOrders`), and which durable writes may fail (`StorageFaults`).

`TradeLedger` is the contract: the row exists before anything trades, it is closed
as flat only over a flat position, and nothing trades after it is closed.
`KeepsLedger` is that contract with the entry read off `row` and the position
computed from `traded`. `PairedExecutionInv` holds the inductive invariants, so
that TLC and the proofs use one definition.

### ManagerLocks

The fields of `WebSocketManager` that have a `parking_lot::RwLock` each, and the
order in which the nine calls that nest them (`Calls`) acquire and release them, guards
that are temporaries of a tail expression and of `if let` included. A writer first
claims the lock, which stops new readers (also a reader that holds it already),
and then waits for the readers to leave. `Enter` starts a call of a task,
`AcquireRead`, `Claim`, `AcquireWrite`, `Release` are its operations. `Circles` are the
groups of tasks none of which goes on before another of them does. The code has two pairs
of requests that can close one (`ListAndMap`, `QuotesAndStamps`; section 5), and
`TwoCircles` says that there is no third.

### AutoTrader

`runner.rs:205-362`, `check_auto_trade_eligibility` and `execute_arbitrage`. Queue
task: `QueueTick`, `QueueNext`, `Check`, `QueuePush`. Executor: `ExecTake`,
`Check`, `ExecSkip`, `ExecSubmit`, `ExecOutcome`. The eligibility check is split
where it lets go of a lock: it finds the index of the market (`Look`), asks whether
that index is ready (`Ready`), and indexes the list again without a check
(`Index`). When the clean-up has shortened the list in between, the index is past
its end: the task panics and never runs again (`"dead"`), and `is_auto_trading`
stays set. Manual route: `ManualCheck`, `ManualOutcome`, `ManualEnd`. Feeds:
`Detect`, `EndTracking`, `Quote`, `GoStale`, `RemoveMarket`. Operator: `Enable`,
`Disable`, `Exclude`, `ResetCount` and, a step later, `ResetMarks`.

What is merged: the read of the state with the position look-up (nothing can be
done with the state in between), the mark with the count increment (no await in
between; the increment may fail), and everything an attempt does into its outcome,
one of `executed`, `other` (ended safe), `exposed`, `unrecorded` (an
acknowledgement could not be written), `refused` (no row, nothing sent). What is
left out: adding a market (it is appended and moves no index), and changing the
limit at run time. `Listed` has no market twice because `add_matched_markets`
replaces a market whose key it finds.

### MentionTrading

`run_once` (`strategies/mention/execution.rs:467-587`) and what it calls, one action per
step that an await or a write to SQLite separates from the next. `pc` is the phase of
the poll and `todo` what is left of the list the phase read when it began, taken in any
order:

| Code | Actions |
| --- | --- |
| `reconcile_unresolved`, intents, then rows without one | `Tick`, `ReconcileIntent`, `ReconcileRowsNext`, `ReconcileRow` |
| `reconcile_outcomes` | `OutcomesNext`, `NoOutcome`, `Outcome`, `Unbooked` |
| `manage_exit` | `ExitsNext`, `Stay`, `PaperExit`, `LiveExit`, `Unbooked` |
| `check_daily_loss_breaker` for either book, and after a booking | `LossNext`, `Loss`; `CheckLoss`, `LossUnchecked` |
| storage that cannot be read, where it ends the poll | `StorageFails` |
| mode, switches and `validate_live_gate`, read once | `Downgrade`, `NoEntries`, `ReadPolicy` |
| `consider_entry` | `Reject`, `PaperEntry`, `DowngradeEntry`, `EntryWithoutOrder`, `LiveEntry`, `EntriesOver` |
| the answer to an order, `submit_live_entry` and `manage_exit` | `ReplyFilled`, `ReplyNonsense`, `ReplyError`, `Confirm` |
| the exchange | `VenueSettles`, `MarketResolves` |
| the operator, midnight, the end of the process | `SetMode`, `Kill`, `ResetBreaker`, `NewDay`, `Crash` |

`rows` is `directional_paper_positions` (both books), `costs` their `entry_vwap` and
`entry_fees`, `intents` is `directional_order_intents`, `pnl` the day's sum of the ledger
and `booked` its contracts by row. `venue` belongs to the exchange; the program reads it
through replies and `Lookups` only. The status of an intent and of its row are written by
two statements; `Written` says which of them take effect.

The budgets are sums of `entry_vwap * contracts + entry_fees` (`Worth`). An entry is sized
at what the book offers then. Its acknowledgement (`AckCost`) writes the price it really
filled at, which may be dearer, since the limit of the order is computed again from a newer
book (913-916); it clears the fees of an order that was rejected or whose end is not known.
`planned` is the price of the sizing, kept as history. The loop over intents
reads a price from its look-up; `Confirm` and the loop over rows without an intent keep the
one there is (`KeptPrice`).

Errors of the storage are of three kinds. Positions or state that cannot be read, and a
mode that cannot be written, end the poll (`StorageFails`). A result or a paper exit that
cannot be booked is passed over, and its check of the losses made (`Unbooked`). The rest go
on as if nothing were wrong (`FailOpen`): in the check of the losses a profit that cannot be
read is no loss, a state that cannot be read is not tripped, and a failed write of the
breaker is dropped (`"loss"`, 1533-1544); unresolved orders that cannot be read are none
(`"orders"`, 516-522). `waived` remembers that the check before the entries failed, or that
the operator reset the breaker meanwhile. `Torn`, `Garbled`, `FailOpen` and
`SettlesUnresolved` are the faults.

What is merged or left out: a booking moves the profit by one of `Moves` for each
contract; whether a signal is good, a book is fresh and a plan exists is the choice of an
action, or of `Reject` and `Stay`; the decision log and the subscriptions change nothing
that is read again. Fractional fills are refused by the parser and are part of
`ReplyNonsense`.

### KalshiFeed

`connect_websocket` and `parse_ws_message` of `clients/kalshi/ws.rs`, the book cache, the
hot subscriptions of the scanner and the clean-up, the price channel to
`on_price_update`, and the REST cycle that writes the same prices (`wsm/quotes.rs:43-150`).
A book is the set of changes it contains, so that "complete and of this
connection" can be said; change 0 is what the exchange starts from. `wire` is one
connection; a frame after a lost one carries `gap`. `OneSided` are the changes after which
one side has no bids: then no price is announced (`TwoSided`). `Unparsable` are changes
whose price or size does not parse: such a delta is dropped with a warning (492-497), and
such a level of a snapshot left out. The command channel lives
in the connection (`commands`); `asked` are the tickers read before `connect_async` is
awaited, so a market listed meanwhile is neither in it nor hot-subscribed (`missed`).

| Code | Actions |
| --- | --- |
| the reconnect loop | `ReadTickers`, `ConnectFails`, `Connect`, `SubscribeFails`, `Disconnect` |
| one frame, one command, one update for the channel | `Receive` (`parse_ws_message`), `Command`, `SendPrice` |
| scanner, clean-up | `List`, `subscribe_markets`, `EndMarket`, `unsubscribe_markets` |
| `apply_kalshi_ws_quote` by its three locks: cache, times, list | `on_price_update`, `stamp_quote`, `list_quote` |
| REST cycle: the request, the copy of the times, the list, the cache | `RestAsk`, `RestRead`, `RestApply`, `RestCache` |
| the exchange | `Change`, `ChangeIsLost`, `Snapshot`, `DropSubscription` |

`quote` is the price detection works with, `listed` the one in the market list. REST keeps
the listed price of a ticker whose stream owns it (`ws_owns_prices`: a fresh book and a
time in the copy, or a time after the request was made) and puts its own answer in place of
the others'; either way what is listed then goes to the cache of quotes. How long a
connection has been silent is not a state: `RestApply` chooses it, so the owner may change
with every cycle. `crossed` are the tickers for which REST, or a scan, had the last word,
and the ones with an update that met a cycle between its copy and its write.

### PolymarketFeed

`run_once` of `clients/polymarket/ws.rs` with its two timers, what
`wsm/polymarket_feed.rs` stores, and the REST cycle of `wsm/quotes.rs` split where it lets
go of a lock: `RestAsk`, `RestRead` (the owners of the prices are copied), `RestApply`
(under the lock of the markets), `RestCache`. A pushed quote is split in the same way
(`ReadQuote`, `CacheQuote`). A price is the change it shows and where it comes from. The
subscription cap is counted in messages (`Needed`), two kinds per chunk of slugs.
`tick`, `waited` and `quiet` are the clocks of the refresh, of the read and of the last
frame.

### Tracking

`calculate_and_notify` (`wsm/detection.rs`) by every look it takes at the list, always by
the index found when the quote was stored: `Quote`, `CheckReady`, `ReadPrices`, `ReadKey`,
`Track` or `LookAgain`, `maybe_end_tracking`. `queue` is the storage channel, `Write` its
task, `rows` the open rows. Margins stand for prices; `0` is no opportunity.

Prices are fresh by one stamp for each platform (`stale` has the pairs without one), and a
stamp is renewed in two ways. `Quote` stores prices that changed and starts a call.
`Restamp` starts none: the book gives the prices it gave before (`detection.rs:56-72`), or a
REST cycle finds that the stream owns them (`quotes.rs:107-122`, `231-242`). That REST may
write an older price back is left to `KalshiFeed` and `PolymarketFeed`.

`torn`, `shrunk` and `missed` are history, for what the code admits to: a command that was
dropped; a list that became shorter under a call; and prices that no call of their own
calculated with, since a quote was stale when it looked, they came with the market out of a
scan, or two tasks or a removal crossed on the market.

### Lifecycle

The two copies of the matched markets, `served` (`ArbitrageService`) and `list`
(`WebSocketManager`); `fetch_market_snapshot`, `apply_market_snapshot` and
`add_matched_markets` are the three steps of a scan. `KalshiCycle` and `PolymarketCycle`
are the quote cycles; an answer of Polymarket may lack any market, because the request of
one sport may fail by itself and quotes out of bounds are left out. The clean-up is
`StartCleaning`, one `Check` per market, `RemoveEnded`, `ClearEnded`.

### Sizing

Fees, levels, `find_profitable_contract_size`, the veto, and the repair of a lone leg:
`choose_recovery_order`, `hedge_missing_leg`, `neutralize`. Fills are chosen by the
environment at any mix of prices an order accepts (`Fills`), books by `KalshiBooks` and
`PolyBooks`, anew at every read. Prices and money are mills; the code computes in `f64`
dollars, and the model exactly. What an order may cost is a recursive function of the
number of contracts it fills.

### Listing and Matching

`Listing` translates the parsers: from an event as the exchange lists it (a record of the
parts of its ticker, slug and markets) to `[id, name, date, ...]` with canonical
competitors, or to nothing when the code refuses it. A name is a category with the set of
both competitors (the code sorts them; the matcher's look-up of the reversed name can
therefore never hit). `get_supported_events_and_markets` says which failing series cancels
the scan. `Matching` is the matcher (`match_events`, `match_markets`), the list of matched
markets by key (`add_matched_markets` replaces), the executor from `Queue` to `Execute`
(Kalshi's ticker from the opportunity, Polymarket's leg from the market now under the
key), trades by hand, and the positions page (`pair_positions`, `newly_verified_pairs`).
The field `is` of a listed market, which no parser reads, is the outcome that really pays;
`TradesAreHedged` and `SettlementIsWorst` compare with it. A scan's two fetches are one
step, and a quote is "there or not". Events are told apart by their position in what was
read, as the loop of `match_events` does. That loop and the two passes of `pair_positions`
are recursive functions with one operator for a turn (`MatchOne`, `Claim`).

What no parser can know is assumed of the listings (`CataloguesAssumption`, which TLC
evaluates on the five catalogues):

* a ticker is that of one outcome, an id that of one market (`NamesAreUnique`);
* a market that is read has a LONG and a SHORT side for different competitors, and a
  competitor reads the same on both exchanges (`SidesTellTheTruth`);
* both exchanges name a game alike, and date it alike if they date it; a name that one of
  them leaves undated is that of one game; and of games of one name and date Polymarket
  lists all in one series, readable, or none (`GamesReadAlike`).

`Together` adds what the exchanges do over time: of games that read alike they never list
two different ones alone (section 5). A game opens once on each exchange.

## 4. What each run shows

| Run | Instance | Shows |
| --- | --- | --- |
| `PairedOne` | one automatic attempt of up to two contracts, fractional fills, garbled replies, lost Polymarket replies, every write may fail, one crash | the safety properties but one, `KeepsLedger`; the attempt returns (`AttemptsReturn`); a recorded exposure is announced (`ExposureIsAnnounced`) |
| `PairedTwo` | an automatic and a manual attempt interleaved, the client of the second may leave | halting and reviewing one attempt while the other runs |
| `Locks` | a price of either stream, the scanner (adds markets, coverage), a task that removes an ended market and writes the statistics line | no circle of waiting tasks but the two known ones, and every call returns unless one of these closes |
| `AutoTrader` | two markets, a manual request, one trade allowed | no second trade, the count; an eligible market reaches the executor |
| `Mention` | one market, two rows, two live orders, fills at the planned price or a dearer one, one change of day, one crash, torn entry writes, answers that are no number or too large, a check of the losses that fails | the rows cover the account, each contract is booked once, only dearer fills and cleared fees exceed the caps, one open question, losses end the day unless the last check failed, what is over stays over |
| `KalshiFeed` | one ticker, two changes of which one does not parse, two connections, two frames on their way, a channel of one update; lost frames, a dropped subscription, a subscribe that is not sent, one more listing; REST cycles that answer with the first book; about 1.1 million states | a book handed out lacks only what is on its way; the price follows the book unless REST or a scan had the last word; what is wanted is subscribed; a dropped subscription ends the connection |
| `PolymarketFeed` | three slugs, of which a connection carries two, one with prices: two changes, one of them unreadable; two connections; REST at any pace | live book and live price are the last pushed; a slug that counts as subscribed is, if all fit |
| `Tracking` | two markets on two platforms, one detection, a queue of one command, stamps with and without a calculation, failing writes, a crash | rows follow records, a record is that of the quote, what a call calculated with is tracked while worth it and not when it gives nothing |
| `Lifecycle` | one market (markets do not act on each other), two missing cycles, two minutes | nothing is lost between the two copies; an end has a reason; closed leaves, offered is served |
| `Algorithms` | 4 Kalshi books with crossed and stale copies, 4 Polymarket books with a mill price, up to 3 contracts; catalogues of a doubleheader, a tennis match that Polymarket does not date, hockey and basketball aliases, a crypto window; 362,140 states | trades pay, orders cross, repairs are bounded; trades and pairs are opposite outcomes |

Bounds. Two contracts are the smallest size at which a leg fills partly, the
forward hedge fills partly, and the unwind repairs the rest; one more adds no
case. One crash reaches every point a second one would find, since `Restart` takes
nothing over but durable state. Two markets suffice for an index to go past the end
or to name another market, and for one market to wait behind another. One trade
allowed makes the limit bite on the first trade. The proofs of section 6 remove all of
these bounds for the safety properties.
`Locks` needs four tasks for the second circle: the statistics line, the stamp of a
Polymarket price, a reader of the list that waits for the quotes and a writer that waits
for the list; the first takes two of them. `Mention` is taken with the lock of this build
lifted (`LIVE_ORDER_LOOKUP_CONFIRMED` is false in `execution.rs:25`, and nothing live could
happen otherwise); with the lock the same properties hold, over 71,960 states. Two rows and
two orders are an entry and its exit, or two entries that meet at a cap, and every booking
is a loss of one, so that two bookings reach the limit. A contract costs 2 or 5 and the
market may hold 4, so an entry is planned at 2, for one contract or two, and may fill at 5,
beyond the cap. With one market the caps that bite are those of the market, of the day and,
no earlier than the market's, the others; the cap on rows does not. With prices of 2 and 3, a
fee of 1 and caps of 6 the properties hold as well, over 9.3 million states; that is too
long for a run, and otherwise fees are a matter of the proofs.

Two changes and two connections are what a book of an earlier connection needs to be
mistaken for this one's, with a change in between. In `PolymarketFeed` the third slug is
the one that does not fit; the slugs without prices only subscribe, which is why they
are symmetric. Its refresh and its silence timeout are due together, and either goes
first: which one does is the subject of `BugSilentSocket` below. In `Tracking` one task
crosses with the clean-up; two tasks on one market are excepted by `missed` anyway. A
queue of one command is full after one. Books with one side only are a matter of the
proofs of `KalshiFeed`. `Sizing` has a book with a better second level
and one without; three contracts are where `calculate_contracts_to_trade` takes half of a
deep book. `KalshiTicks` and `PolyTicks` are prices at which orders fill beside their
limits; at 500 and 684 the fees round so that a better fill costs more than was sized, and
a partial repair loses more than its bare bound. In `Matching` two games are enough for an ambiguous date and for a key that
changes its market; `MaxLegs` bounds what is held at once, `HandTickers` which tickers are
traded by hand.

Fairness. An attempt that can go on does (`WF` of `Proceed`): tokio polls it, and
both HTTP clients have time-outs; an exchange settles an immediate-or-cancel order.
Nothing is assumed of operators, clients, crashes and restarts, so `AttemptsReturn`
says returned, dropped or lost. The two auto-trade loops run (`WF` of each), and
an attempt returns, which `AttemptsReturn` shows. `parking_lot` hands a lock over
after it has been contended for half a millisecond, which is why the steps of a call
(`Move`) are strongly fair for each task in `ManagerLocks`; the claim of a writer keeps new readers out.
The reader of a Kalshi connection and the price handler are tasks of the runtime; nothing
is assumed of the server. In `Lifecycle` the scanner and the clean-up are loops on timers;
scans and requests fail now and then, not for ever (`SF` of a full fetch), and the Kalshi
cycle comes to know what closed. In `PolymarketFeed` the stream is polled and time passes.

## 5. Where the code and its words disagree

Each of these runs ends in the counterexample it names.

| Run | Property | What happens |
| --- | --- | --- |
| `BugSilentSocket` | `SilenceIsNoticed` | "Returns when the socket dies or goes silent" (`clients/polymarket/ws.rs:151`): every pass of the select loop arms the silence timeout anew, and the slug refresh of 5 s ends a pass before the 30 s of the timeout are over; a socket whose peer vanished is kept for good. Prices of it are no longer live after `max_silence`, so trading stops rather than going wrong |
| `BugPartialFeed` | `EndedMeansUnlisted` | "fetched atomically" (`wsm/quotes.rs:207`): the fetch goes on when one sport fails (`clients/polymarket/events.rs:448`), and quotes out of bounds are left out; after `polymarket_missing_cycles` such answers the market is confirmed as ended, and nothing clears that set, so it is removed again whenever a scan adds it |

Found with these models by other constants than those of the runs. Of `PairedExecution`,
from one manual attempt of one contract with no fault but the one named:

* `StorageFaults = {"poly"}`, `LostAckIsAnnounced`: `execution.rs:780` promises a halt and
  a Discord alert when an acknowledgement cannot be recorded; that path returns before
  the alert.
* `MaxCrashes = 1`, `ExposedMeansHalted`: the row becomes `exposed` before the halt is
  written; after a crash in between, start-up looks for `submitting` rows only
  (`README.md:241` of the repository: "The bot has halted").
* `LossyOrders = {"kalshi"}`, `SettledIsFlat`: a Kalshi call that errors after it traded
  counts as no fill and is never asked about, though `execution.rs:965` says that an
  unfilled response is not proof of no fill.
* `Disconnects = {a1}`, `ExposureHaltsTrading`: a manual attempt dropped at an await leaves
  a leg filled, the row `submitting` and trading on.
* `Runs <- ScanAndCleanup` in `MCManagerLocks` with these two tasks, `NoLockCycle`: the
  scanner takes the list and then the map, the clean-up the map and then the list
  (`wsm/market_lifecycle.rs:156-160`, `wsm/markets.rs:75-88`).
* `execution.rs:1389` says that a halt stops future automated submissions. The flag is
  read once, when the executor takes an opportunity (`runner.rs:379`); an attempt that is
  being sized submits after a manual one halted.
* `ws_stats` keeps both time stamps locked until it has the market list. With
  `Runs <- QuotesAndStats` in `MCManagerLocks`, and its four tasks, `NoLockCycle` fails:
  it closes a circle with a quote of each stream and the coverage report. The two circles
  of these items can close in one run of the program, and `TwoCircles` is what the run and
  the proof leave of `NoLockCycle`.
* With `"poly"` in both `LossyOrders` and `FractionalOrders` a fill of a fraction
  that only the look-up finds is rounded up, and with a recovery order in
  `FractionalOrders` the half contract it leaves is in no row: neither `SettledIsFlat`
  nor `ResidualCoversExposure` holds then. With `"forward"` in `LossyOrders` a
  hedge that traded and reported nothing is repaired a second time
  (`NeverOverRepaired` fails): recovery orders are not confirmed.
* Two attempts on one Polymarket market count each other's account activity
  (`Slug <- OneSlug`).
* `execution.rs:780` and the alert text speak of a halt that the alert does not know
  to have succeeded; the halt may have failed.
* An index found in the list may name another market when it is used, whose
  freshness is then the one that is judged, or be past the end: a panic ends the
  queue task or the executor (`AutoTrader`), or a price handler (`Tracking`, state
  `"dead"`).
* `max_trade_count` can be passed by one for each manual request that is open when
  the last permitted trade counts; `README.md:108` calls it the maximum.
* An exposed market is not marked, since "the halt" keeps it from being traded
  (`runner.rs:655-662`). When that write fails the executor may trade it again at
  once; `NoSecondTrade` excepts exactly this case, through `spent`.

Of the market data:

* `parse_ws_message`'s comment (`clients/kalshi/ws.rs:396-400`) says that a lost delta
  marks the book untrusted and that the caller reconnects. The frame after a gap is
  logged and dropped, and the book stays in use; `FreshBookIsExact` excepts such
  connections through `clean`.
* `get_fresh_orderbook` hands out the book of a connection that has ended until the
  next one is made, or until it is 30 s old; the Kalshi reader itself has no silence
  timeout.
* A market listed while `connect_async` is awaited is not subscribed before the next
  connection (`missed`).
* A book that lost one side announces no price, so the price before it stays.
* A delta that does not parse is dropped with a warning (`clients/kalshi/ws.rs:492-497`) and
  the book stays in use without it; `FreshBookIsExact` excepts such changes.
* While a Kalshi connection is silent, REST writes the prices (`wsm/quotes.rs:92-135`), and
  its answer may be older than what the stream brought last; the price detection works with
  is then not that of the cached book until the stream brings another one. An update that
  meets a cycle between its copy of the times (61) and its write may be undone the same way.
  `PriceFollowsBook` excepts both through `crossed`.
* A REST cycle that copied the owners of the prices, and a scan, may replace a price
  pushed in between, which then counts as pushed: with one slug that is watched, one
  change, two connections and `Relists = FALSE`, `LivePriceIsFromStream` of
  `PolymarketFeed` fails, though a live price is said to be one of the stream. It lasts
  until the next frame of that slug.
* A push that cannot be read (a market not open, a level out of bounds) still counts as
  a sign of life; slugs that left the list still count against the cap of a connection.

Of lifecycle and tracking:

* The executor's test for a suspended game reads the service's copy of the market, whose
  period is that of the last scan (`runner.rs:404-415`).
* Prices whose call found the market stale, say because the other platform's quote was,
  are not looked at again when the stamp alone is renewed (`detection.rs:56-72`,
  `quotes.rs:107-122`, `231-242`): the market is fresh and worth it, and not tracked, until a
  price changes. `TrackedWhileWorth` excepts it through `missed`.
* Extreme prices "persist" (`runner.rs:679`) as long as they are not seen otherwise:
  while quotes are stale the time goes on.

Of sizing and matching:

* With `Cushion = 0`, which the configuration allows, a Polymarket level between two cents
  lies above its own rounded limit, and `SentOrdersCross` fails: the order cannot fill.
  An unwinding order at such a bid is rounded up in the same way and may expire.
* Sizing prices a contract at its limit, and a better price may have a fee that is a
  cent higher: a pair may cost up to nine mills more than was sized, which `TradePays`
  allows. In the same way the bound of an exit (`close_within_loss_bound`) is kept per
  repaired contract only up to the rounding of fees when it fills in part; all of it is less
  than two cents, whatever the size (`RepairIsBounded`).
* In flexible mode with `min_contracts` above 10, half of a depth of 20 is less than the
  minimum, and a book of that depth is refused while a thinner one is taken.
* A manual trade has no veto of a stale book and trusts the competitor and the side of
  the request.
* Each exchange listing a different game of a doubleheader, alone, is matched although
  the matcher says "Refuse instead of guessing" (`core/matcher.rs:113-115`): with
  `Together = FALSE` `TradesAreHedged` fails. `Together` is the assumption that the
  exchanges do not do this.
* NBA and tennis events of Kalshi are dated by the UTC time of their expected end, those of
  Polymarket by the slug; a late game may differ by a day and is then not matched.
* One request of a Polymarket series reads at most a hundred events; Kalshi's follow
  their cursor.
* NBA and tennis sides are not required to be one LONG and one SHORT; team games' are.

Of `MentionTrading`, by other constants than those of `Mention.cfg`; lines are those of
`strategies/mention/execution.rs`:

* `"exit"` in `Torn`: a live exit finishes its intent, then closes its row, and drops both
  errors (1200-1286). When the second write is lost the position is sold once more, when
  the first is lost the next poll books the exit again. `RowsCoverExposure`, `BookedOnce`
  and `OverIsOver` fail.
* `"sell"` in `Garbled`: an exit whose fill is no number counts as not filled and is sold
  again (an entry in the same case stays unresolved). `RowsCoverExposure` fails with one row
  and three orders: the account is then sold short.
* `"lookup"` in `Garbled`: `get_order_by_client_order_id` takes a fill it cannot read for
  zero, and an order that traded is rejected; `RowsCoverExposure` fails.
* `SettlesUnresolved = TRUE`: `reconcile_outcomes` (1477) takes every row without an outcome
  and books a result for an order that may never have filled; `BookedOnce` fails.
* `"orders"` in `FailOpen`: when the unresolved orders cannot be read (516-522), a row whose
  exit is in question is sold again; `OverIsOver` fails.
* The check of the losses fails open (1533-1544; `"loss"` in `FailOpen`, part of the run): a
  day over its limit goes on with entries in a poll whose last check failed, which
  `LossStopsEntries` excepts through `waived`.
* The budgets are dollars as sized, not as spent: an order may fill dearer than it was
  planned (913-916), and its acknowledgement writes that price
  (`directional_repo.rs:461`), so the open rows may exceed a budget by the difference. A row
  whose order is unresolved has no fees, so it uses less than was reserved. `WithinCaps`
  counts a row at the lower of its two prices and with the fees it has.
* A row whose intent could not be written (`EntryWithoutOrder`) has no order to look up; it
  stays `submitting` and keeps the live gate shut.
* A live gate that fails in the middle of a poll sets the mode to paper (745), also when
  the operator switched it off meanwhile (`DowngradeEntry`).
* Mode and kill switch are read once for all entries of a poll (544); a kill during the
  poll takes effect in the next one. A breaker that is reset on the day it tripped trips
  again at the next poll.

## 6. What is proved

All with TLAPS, for any sets of attempts, tasks, markets, requests, books and prices and
any value of the bounds. The library's induction rules cannot be used with the provers at
hand, so what needs induction (recursive functions, sums over a set, least and greatest
elements) is shown by a least counterexample: the numbers for which it fails would have a
least one (`LeastNumber`, from the well-foundedness of `<`).

* **PairedExecutionProofs.** `ControlInv` relates the row, the acknowledgements and
  the orders to the program counter (`PhaseInv`) and the halts to the flag
  (`HaltInv`). `HaltInv` is about attempts at `notify` as well as those that
  returned, because the halt is written one step before the attempt returns. A step
  of one attempt leaves the `View` of the others alone (`StepFrame`), so each
  invariant is proved for the attempt that moves. Whatever the exchanges do:
  `TypeCorrect`, `LedgerFirst`, `HaltHolds`, `RestartIsSafe`.

  `FillInv` says what the program believes about fills against
  what traded, under `ReliableVenues`. `LegsInv`: a valid reply is exact, unless it
  is a lost Polymarket fill, which is not believed before it is confirmed.
  `RepairInv`: what recovery traded and what remains add up to the excess, also
  while an order is in flight (`Reach`). `FinalInv`: a final row says what was
  believed. From these `SettledMeansFlat`, `ResidualIsEnough`, `RepairIsBounded`,
  `NoExposureWhileTrading` (also `Disconnects = {}`) and the refinement
  `LedgerIsKept`. `ReliableVenues` is a theorem's assumption and names what the code
  depends on: section 5 shows the property failing without each part of it.
* **ManagerLocksProofs.** `IInv` is `TypeOK` and `HoldInv`: the locks know no task that
  does not hold or claim them by the text of its call. `CallsAreNeat` reads the nine calls:
  there are nine ways in which one asks for a lock while it holds another (`Nested`), and
  each returns without a lock. Whoever waits waits for one that has the lock or claims
  it (`WaitsForHolder`). In a circle without the two pairs a number, `Height`, would grow
  from each task to the one it waits for, all the way round. Hence `OnlyTwoCircles`, for any
  number of tasks and whichever calls they make.
* **AutoTraderProofs.** `TraderTypeCorrect`, `QueueHoldsOnce`; `TradedAtMostOnce` from
  `SpentInv`: while trading is on, or the executor is on its way to an attempt, every
  market that must not be traded again is marked, and the one it is on its way with
  is not; `CountBounded` from `CountInv`: the count plus everyone who is past the
  check stays at the limit plus the number of requests.

  The same module proves what `Sizing` promises, for any books, sizes and settings. A fee
  is its rate times the spread of the prices, within a cent (`FeeBounds`), and what a
  contract costs after the exact fee grows with its price (`NetPrice`, `NetSale`); so every
  mix of prices within a limit is bounded by the limit (`FillsBound`, by induction over the
  recursive `Fills`), and only the rounding of the fees is left over: less than a cent for
  a pair, which are the nine mills of `TradePays`. `FilledPairsPay` from `SentInv` (an order on its way is one that
  `find_profitable_contract_size` returned, uncut); `RepairsStayBounded` from `AloneInv` (a
  lone leg was filled by an order that was sent, and is hedged or closed at the book just
  read). `SentOrdersFill` compares the limits with the exchange's own book, under
  `Cushion >= 1`: section 5 shows why.
* **MentionTradingProofs.** Whatever answer the program gets, it writes what `Learn`
  allows; `LearnStep` gives that in one form for replies, look-ups and the reconciliation,
  so that no proof looks at them separately. `Base` is `TypeOK` and what the lists and the
  intents refer to (`TaskInv`); from it `MentionTypeCorrect` and `OneQuestionAtATime`.
  `LossesEndTheDay` from `LossInv`: once the poll is past the check of a book, the check was
  waived, or the breaker is tripped or the losses are below the limit, and in the entries
  they are, because nothing books between the checks and the entries. `OverStaysOver` from `OrderInv`: an
  order whose end is not known has a row of its own that is still open, or was rejected
  over a fill of zero, in a market without a result; and no list of exits names a row with
  such an order. It assumes `SoundAnswers` (exits not torn, look-ups that are
  numbers, unresolved orders that can be read, results that wait), and section 5 shows that
  each part is needed.

  `BooksBalance` from `AccountInv`, which says of every row, whatever is in flight, what its
  orders did: a row whose entry is not known shows all that was asked for (`AskedAccount`),
  afterwards what the entry bought is left or booked (`KnownAccount`), and an order that may
  still trade on a row asks for no more than is left (`QuestionAccount`). `AccountIsCovered`
  adds `SoldInv`: while the market has no result, what the ended exits of a row sold adds up
  to what was booked. It needs that the fill of an exit is a number (`"sell"` not in
  `Garbled`), since the program takes another answer for none.

  `CapsHold` assumes nothing of answers or writes, so a row may grow again after its entry:
  the entry is asked about twice when one of two writes was torn, and a look-up that was
  nonsense may be followed by one that is not. What a row counts for (`Counted`) is taken at
  the lower of its price and the `planned` one, for any prices and fees. `CapsInv` does not
  speak of the live rows as they are. There are a set of rows and a most for each (`Covered`)
  that stay within the caps, and the open live rows, and what any order may still say of one
  (`Asked`), never exceed them. They are fixed anew at a live entry, which finds that no order is in question and is
  checked against the caps, its own row counting in full.

  `LockedBuildSendsNothing`: with the lock of this build nothing live is ever written.
* **LifecycleProofs.** `LifecycleTypeCorrect`, `NothingIsLost` and `EndsHaveReasons`, for
  any number of markets, whose scans, cycles and checks interleave. `ServedOrEnded` is not
  inductive: `CopiesInv` says that only a scan that is adding explains the difference of
  the two copies, and `CleanerInv` that the clean-up takes out only what is confirmed.
  `CountInv` bounds what the code counts by what happened (a streak by the answers in a
  row without the market, a detection by the minutes since the prices were seen to be
  normal) and says that a market outside the list has no count left over, unless it was
  confirmed: without it a market that is listed again would inherit an old count.
* **KalshiFeedProofs.** `FeedTypeCorrect`, `HandedOutIsExact`, `QuoteIsOfBook`,
  `WantedIsAskedFor`. `BookInv`: every cached book of this connection, and every snapshot
  on the wire, is completed to the exchange's by the deltas behind it; a step of the reader
  moves the first of them from the wire into the book. `AskedInv` says where a wanted ticker
  is on its way from the list to the subscription. `PriceInv`: the last update on its way
  for a ticker, or else the price in the cache of quotes (`Told`), is that of the cached book;
  `ListInv`: so is the one in the list, or it is about to be, and what a REST cycle puts there
  it has already. Exempt are tickers in `crossed`, and those that are not wanted any more,
  because their price goes before their book.
* **PolymarketFeedProofs.** `LastBookIsUsed` from `BookInv`: only slugs that the server
  pushes have frames on the wire or a book of this connection, and the last of these shows
  every change that could be read. `SubscriptionsAreCarried` from `CarriedInv`: the slugs
  that count as subscribed are at the server, or already too many, and they only grow until
  the connection ends. `StreamPriceIsUsed` from `PriceInv`: a price in use may come from a
  quote that is between its two locks (`PendIsPushed`), from a REST cycle that is between
  its two (`PutIsMatched`) or from the last quote of this connection (`LiveIsPushed`); for
  a watched slug that no REST cycle or scan crossed, each has the price pushed last.
* **OpportunityProofs.** Of `Tracking`: `TrackingTypeCorrect`. `RowsTellOfRecords` from `RowsInv`: the commands
  that wait, replayed on the rows by any function that satisfies the recursion (`Replays`),
  give the records, except where one was dropped; a write takes the first command out of
  the queue and into the row. `IndexLeads` from `Leads`: while the list did not become
  shorter under a call, its index is that of its market. `WorthIsTracked` from `WorthInv`,
  which says of the markets that are not `missed` (`Clear`): either no call is on the market
  and its record tells of its prices, or one is, alone, and what it read is what the prices
  are now. Stamps may come and go meanwhile; a call that finds one gone misses the market.

  The same module proves what `Matching` promises, for any listings that satisfy
  `CataloguesAssumption`, any map of series and any bounds. A function that is defined from
  a number to the next exists (`RecursionExists`), which gives what `FlattenSeq`,
  `match_events` and the passes of `pair_positions` return (`FlattenFacts`,
  `MatchEventsFacts`, `PassFacts`). From the parsers' code: a Kalshi event reads as one
  event or none, with tickers of its own (`KalshiReading`); what a Polymarket market reads
  as names its own two competitors, with the LONG ones those of its LONG sides
  (`ReadOne`). Hence the leg that is derived from a competitor pays when the Kalshi leg
  does not (`SidesHedge`).

  `MatchIsOfOneGame` is about one scan, in whatever order events are listed and whichever
  series fail. If a Kalshi event is matched to a Polymarket event of another game, no other
  open Kalshi event has its name and date, and neither has any other open Polymarket game:
  its event would have been read with the first, would still be unused, and would have made
  the match ambiguous. So the two games are listed alone, which `Together` excludes.

  `MatchInv` carries this through time. `MarketsInv`: a matched market joins what both
  exchanges list of one game that has been seen on Kalshi, and markets under one key are of
  one game. `QueuedInv`: the market now under the key of a queued opportunity is of its
  game, unless that game is over. It is inductive because a game does not open again and
  because a scan refuses a second open game of the same key; and it suffices because the
  executor needs a book, which only an open game has (`ExecuteStep`). `TradesInv`: trades
  and remembered pairs are hedged, and so is every card made from them (`CardsAreHedged`).
  From these `MatchedTradesPay` and `CardsShowTheWorst`.

The assumptions on the constants are in the `ASSUME`s of the modules, which TLC
evaluates in every run. The type invariants of the modules with proofs are theorems and
not run again. Only model-checked are the liveness properties
(`AttemptsReturn`, `ExposureIsAnnounced`, `CallsReturn`, `EligibleIsTried`,
`DropIsNoticed`, `ClosedLeaves`, `OfferedIsServed`), which the provers cannot treat.

## 7. What is not modelled

* The profit preview (`core/calculator.rs`): it prices a pair at the top of the book for
  display and detection; what is sent is sized anew, which `Sizing` models. In `Tracking`
  its result is the margin of a quote.
* The service's read-write lock: the executor and the routes hold it for reading across
  network calls, the scanner waits for it to write. No second lock is requested under it
  by those who wait, so a wait ends when the calls do.
* Mention signals and entry planning: whether a signal is fresh and what a book gives for
  it is the choice of an action of `MentionTrading`.
* The REST clients below their answers (signing, HTTP, JSON), the profit reports, the web
  API, the frontend and the Python signal service: data transformation and presentation
  without state of their own that could go wrong between two steps.
* In what is modelled: the period of a game is a refusal; a time window is "the others'
  trades are in it or not"; HTTP retries do not exist in the order calls; SQLite is one
  durable write per call, which may fail; titles, tickers and slugs are records of their
  parts; quotes of `Matching` are "there or not"; rounding noise of `f64` is ignored.
