--------------------------- MODULE MentionTrading ---------------------------
(***************************************************************************)
(* Directional trading of mention markets, strategies/mention/execution.rs *)
(* over the tables of services/storage/directional_repo.rs.  One task      *)
(* calls run_once again and again: it asks the exchange about orders whose *)
(* end it does not know, books results, manages exits, checks the losses   *)
(* of the day and then considers entries.  The operator's routes change    *)
(* the mode and the switches between any two of its steps.                 *)
(*                                                                         *)
(* A row is a position, paper or live.  A live order is an intent, written *)
(* before the order is sent, under a client order id by which it is looked *)
(* up afterwards.  A row costs what the book offered when its entry was    *)
(* sized, and what its order says it cost once that is known.  A booking   *)
(* moves the realized profit by one of Moves per contract.                 *)
(***************************************************************************)
EXTENDS Integers, FiniteSets, Functions

CONSTANTS
  Markets, EventOf,  \* markets and the event each is part of
  Ids, Orders,       \* the ids of rows and of order intents
  Caps,              \* the risk budgets, and max_open_positions
  Prices, Fees,      \* what a contract and an order may cost
  LossLimit, Moves,  \* the daily loss limit; what one booked contract may move
  LIVE_ORDER_LOOKUP_CONFIRMED,
  Torn,              \* which pairs of writes may be torn apart
  Garbled,           \* which answers may be nonsense
  FailOpen,          \* which reads may fail where run_once goes on as if nothing were wrong
  SettlesUnresolved, \* a market may have its result while an order is unresolved
  MaxDays, MaxCrashes

ASSUME BooksAssumption ==
  /\ "none" \notin Markets \cup Ids \cup Orders
  /\ IsFiniteSet(Ids) /\ IsFiniteSet(Orders)
  /\ Caps \in [{"market", "event", "day", "total", "rows"} -> Nat]
  /\ Prices \subseteq Nat \ {0} /\ Fees \subseteq Nat
  /\ LossLimit \in Nat \ {0} /\ Moves \subseteq Int
  /\ MaxDays \in Nat /\ MaxCrashes \in Nat
ASSUME FaultsAssumption ==
  /\ LIVE_ORDER_LOOKUP_CONFIRMED \in BOOLEAN /\ SettlesUnresolved \in BOOLEAN
  /\ Torn \subseteq {"entry", "exit"}
  /\ Garbled \subseteq {"over", "buy", "sell", "lookup"}
  /\ FailOpen \subseteq {"orders", "loss"}

Books == {"paper", "live"}
Modes == Books \cup {"off"}
Pending == {"submitting", "unresolved"}
OpenStatus == Pending \cup {"open"}
Phases == {"idle", "intents", "rows", "outcomes", "exits", "paperLoss", "liveLoss",
           "policy", "entries", "reply", "confirm"}
Rows == [status : OpenStatus \cup {"none", "rejected", "closed", "settled"},
         book : Books, market : Markets \cup {"none"}, contracts : Nat, remaining : Nat,
         today : BOOLEAN, outcome : BOOLEAN]
Intents == [status : Pending \cup {"none", "filled", "rejected"},
            row : Ids \cup {"none"}, action : {"buy", "sell"}, contracts : Nat]

VARIABLES
  mode, killed, breaker,  \* directional_state; breaker is "none" or tripped "today" or "earlier"
  rows,                   \* directional_paper_positions
  costs,                  \* entry_vwap and entry_fees of the rows
  planned,                \* history: entry_vwap when the row was created
  intents,                \* directional_order_intents
  pnl,                    \* the day's sum of directional_realized_ledger, by book
  booked,                 \* contracts of each row in the ledger
  venue,                  \* what the exchange did with each order
  resulted,               \* markets with a result
  pc, todo, cur, using,   \* run_once: its phase, the rest of its list, order, mode
  waived,                 \* history: during this tick the breaker was reset, or the
                          \* check of the losses before the entries failed
  days, crashes

policy == <<mode, killed, breaker>>
money == <<costs, planned>>
ledger == <<pnl, booked>>
task == <<pc, todo, cur, using>>
bounds == <<days, crashes>>
vars == <<policy, rows, money, intents, ledger, venue, resulted, task, waived, bounds>>

TypeOK ==
  /\ mode \in Modes /\ killed \in BOOLEAN /\ breaker \in {"none", "today", "earlier"}
  /\ rows \in [Ids -> Rows] /\ intents \in [Orders -> Intents]
  /\ costs \in [Ids -> [vwap : Nat, fees : Nat]] /\ planned \in [Ids -> Nat]
  /\ pnl \in [Books -> Int] /\ booked \in [Ids -> Nat]
  /\ venue \in [Orders -> [at : {"none", "flying", "done", "lost"}, filled : Nat]]
  /\ resulted \subseteq Markets
  /\ pc \in Phases /\ using \in Books /\ cur \in Orders \cup {"none"}
  /\ pc \in {"reply", "confirm"} <=> cur # "none"
  /\ pc = "intents" => todo \subseteq Orders
  /\ pc \in {"rows", "outcomes", "exits"} => todo \subseteq Ids
  /\ pc = "entries" => todo \subseteq Markets
  /\ pc \in {"reply", "confirm"} => todo \subseteq Ids \cup Markets
  /\ pc \in {"idle", "paperLoss", "liveLoss", "policy"} => todo = {}
  /\ waived \in BOOLEAN /\ days \in 0..MaxDays /\ crashes \in 0..MaxCrashes

NoRow == [status |-> "none", book |-> "paper", market |-> "none",
          contracts |-> 0, remaining |-> 0, today |-> FALSE, outcome |-> FALSE]
NoIntent == [status |-> "none", row |-> "none", action |-> "buy", contracts |-> 0]

Init ==
  /\ mode \in Modes /\ killed = FALSE /\ breaker = "none"
  /\ rows = [p \in Ids |-> NoRow] /\ intents = [o \in Orders |-> NoIntent]
  /\ costs = [p \in Ids |-> [vwap |-> 0, fees |-> 0]] /\ planned = [p \in Ids |-> 0]
  /\ pnl = [b \in Books |-> 0] /\ booked = [p \in Ids |-> 0]
  /\ venue = [o \in Orders |-> [at |-> "none", filled |-> 0]]
  /\ resulted = {}
  /\ pc = "idle" /\ todo = {} /\ cur = "none" /\ using = "paper"
  /\ waived = FALSE /\ days = 0 /\ crashes = 0

-----------------------------------------------------------------------------
(* What the tables say.                                                    *)

UnresolvedIntents == {o \in Orders : intents[o].status \in Pending}
UnresolvedRows ==
  {p \in Ids : rows[p].book = "live" /\ rows[p].status \in Pending}
HasUnresolved == UnresolvedIntents # {} \/ UnresolvedRows # {}

OrdersOf(p, action) ==
  {o \in Orders : intents[o].status # "none" /\ intents[o].row = p
                                             /\ intents[o].action = action}
OpenRows(b) == {p \in Ids : rows[p].book = b /\ rows[p].status \in OpenStatus}

\* entry_vwap * n + entry_fees
Worth(vwap, n, fees) == vwap * n + fees
Remaining(S) == SumFunctionOnSet(
  [p \in Ids |-> Worth(costs[p].vwap, rows[p].remaining, costs[p].fees)], S)
Contracts(S) == SumFunctionOnSet(
  [p \in Ids |-> Worth(costs[p].vwap, rows[p].contracts, costs[p].fees)], S)

-----------------------------------------------------------------------------
(* What the tables are made to say.  Both are written one after the other; *)
(* either write may fail, and the process may die between them.            *)

Both == {"row", "intent"}
Written(kind) == IF kind \in Torn THEN SUBSET Both ELSE {Both}

\* submit_live_entry gives up at the first write that fails.
Chained == {w \in Written("entry") : "intent" \in w => "row" \in w}

SetIntent(w, o, status) ==
  intents' = IF "intent" \in w THEN [intents EXCEPT ![o].status = status] ELSE intents

AckRequested(row, filled, status) == \* mutant: a part fill keeps the contracts asked for
  [row EXCEPT !.status = status]

\* update_directional_entry_ack
Ack(row, filled, status) ==
  IF status \in Pending THEN [row EXCEPT !.status = status]
  ELSE [row EXCEPT !.status = status, !.contracts = filled, !.remaining = filled]

\* ... which writes the price too, that of the answer or the one the row has, and
\* keeps the fees only of an entry that is known to have filled.
AckCost(w, p, status, prices) ==
  IF "row" \notin w THEN UNCHANGED costs
  ELSE IF status # "open" THEN costs' = [costs EXCEPT ![p].fees = 0]
  ELSE \E vwap \in prices : costs' = [costs EXCEPT ![p].vwap = vwap]
KeptPrice(p) == {costs[p].vwap}

AckRow(w, p, filled, status) ==
  rows' = IF "row" \in w THEN [rows EXCEPT ![p] = Ack(@, filled, status)] ELSE rows

\* One booking in directional_realized_ledger.
Book(p, n) ==
  /\ booked' = [booked EXCEPT ![p] = @ + n]
  /\ \E g \in Moves : pnl' = [pnl EXCEPT ![rows[p].book] = @ + n * g]

\* close_directional_position, with the status its callers compute.
CloseRow(p, n) ==
  /\ rows' = [rows EXCEPT ![p] =
       [@ EXCEPT !.remaining = IF rows[p].remaining > n THEN rows[p].remaining - n ELSE 0,
                 !.status = IF rows[p].remaining = n THEN "closed" ELSE "open"]]
  /\ Book(p, n)
CloseWhen(w, p, n) ==
  IF "row" \in w THEN CloseRow(p, n) ELSE UNCHANGED <<rows, ledger>>

Trip == breaker' = "today" /\ mode' = "off" /\ UNCHANGED killed

CheckLossBeyond(b, profit) == \* mutant: the limit itself is allowed
  \/ breaker = "today" /\ UNCHANGED policy
  \/ /\ breaker # "today" \/ "loss" \in FailOpen
     /\ IF profit[b] < -LossLimit THEN Trip ELSE UNCHANGED policy

\* The writes for an order that is known to have filled n contracts, or none.
AcceptEntry(w, o, n, prices) ==
  /\ AckRow(w, intents[o].row, n, IF n > 0 THEN "open" ELSE "rejected")
  /\ AckCost(w, intents[o].row, IF n > 0 THEN "open" ELSE "rejected", prices)
  /\ SetIntent(w, o, IF n > 0 THEN "filled" ELSE "rejected")
  /\ UNCHANGED ledger
AcceptExit(w, o, n) ==
  /\ SetIntent(w, o, IF n > 0 THEN "filled" ELSE "rejected")
  /\ UNCHANGED costs
  /\ IF n > 0 THEN CloseWhen(w, intents[o].row, n) ELSE UNCHANGED <<rows, ledger>>

\* check_daily_loss_breaker, after the ledger of the day is profit.  A state that
\* cannot be read counts as one that is not tripped.
CheckLoss(b, profit) ==
  \/ breaker = "today" /\ UNCHANGED policy
  \/ /\ breaker # "today" \/ "loss" \in FailOpen
     /\ IF profit[b] <= -LossLimit THEN Trip ELSE UNCHANGED policy

\* A profit that cannot be read counts as no loss, and the error of the write that
\* trips the breaker is dropped.
LossUnchecked == "loss" \in FailOpen /\ UNCHANGED policy

-----------------------------------------------------------------------------
(* The phases of run_once, each over a list read when it begins.           *)

Begin(phase, list) == pc' = phase /\ todo' = list /\ UNCHANGED <<cur, using>>
Next1(x) == todo' = todo \ {x} /\ UNCHANGED <<pc, cur, using>>
Stop == pc' = "idle" /\ todo' = {} /\ cur' = "none" /\ using' = "paper"
At(phase) == pc = phase /\ todo # {}
Over(phase) == pc = phase /\ todo = {}

Tick ==
  /\ pc = "idle"
  /\ Begin("intents", UnresolvedIntents)
  /\ UNCHANGED <<policy, rows, money, intents, ledger, venue, resulted, waived, bounds>>

\* get_order_by_client_order_id: an order that is there, or no answer.
NotFound == -1
Lookups(S) ==
  {NotFound} \cup UNION {IF venue[o].at # "done" THEN {}
                         ELSE {venue[o].filled} \cup IF "lookup" \in Garbled THEN {0} ELSE {} :
                         o \in S}

\* reconcile_unresolved, first loop.
ReconcileIntent ==
  /\ At("intents")
  /\ \E o \in todo :
       /\ \E found \in Lookups({o}) :
            IF found = NotFound THEN UNCHANGED <<rows, costs, intents, ledger>>
            ELSE IF intents[o].action = "buy"
            THEN \E w \in Written("entry") : AcceptEntry(w, o, found, Prices)
            ELSE \E w \in Written("exit") : AcceptExit(w, o, found)
       /\ Next1(o)
  /\ UNCHANGED <<policy, planned, venue, resulted, waived, bounds>>

ReconcileRowsNext ==
  /\ Over("intents")
  /\ Begin("rows", {p \in UnresolvedRows : rows[p].remaining > 0})
  /\ UNCHANGED <<policy, rows, money, intents, ledger, venue, resulted, waived, bounds>>

\* reconcile_unresolved, second loop: a row whose order has no intent.
ReconcileRow ==
  /\ At("rows")
  /\ \E p \in todo :
       /\ \E found \in Lookups(OrdersOf(p, "buy")) :
            IF found = NotFound THEN UNCHANGED <<rows, costs>>
            ELSE /\ AckRow(Both, p, found, IF found > 0 THEN "open" ELSE "rejected")
                 /\ AckCost(Both, p, IF found > 0 THEN "open" ELSE "rejected", KeptPrice(p))
       /\ Next1(p)
  /\ UNCHANGED <<policy, planned, intents, ledger, venue, resulted, waived, bounds>>

OutcomesNext ==
  /\ Over("rows")
  /\ Begin("outcomes", {p \in Ids : rows[p].status # "none" /\ ~rows[p].outcome})
  /\ UNCHANGED <<policy, rows, money, intents, ledger, venue, resulted, waived, bounds>>

\* reconcile_outcomes; the call for a market may fail.
NoOutcome ==
  /\ At("outcomes") /\ \E p \in todo : Next1(p)
  /\ UNCHANGED <<policy, rows, money, intents, ledger, venue, resulted, waived, bounds>>

Outcome ==
  /\ At("outcomes")
  /\ \E p \in todo :
       /\ rows[p].market \in resulted
       /\ IF rows[p].remaining > 0
          THEN /\ rows' = [rows EXCEPT ![p] = [@ EXCEPT !.outcome = TRUE, !.remaining = 0,
                                                        !.status = "settled"]]
               /\ Book(p, rows[p].remaining)
               /\ CheckLoss(rows[p].book, pnl') \/ LossUnchecked
          ELSE /\ rows' = [rows EXCEPT ![p].outcome = TRUE]
               /\ UNCHANGED <<policy, ledger>>
       /\ Next1(p)
  /\ UNCHANGED <<money, intents, venue, resulted, waived, bounds>>

\* The result, or the exit of a paper position, cannot be written.
Unbooked ==
  /\ At("outcomes") \/ At("exits")
  /\ \E p \in todo :
       /\ IF pc = "outcomes" THEN rows[p].market \in resulted /\ rows[p].remaining > 0
          ELSE rows[p].market \notin resulted /\ rows[p].book = "paper"
       /\ CheckLoss(rows[p].book, pnl) \/ LossUnchecked
       /\ Next1(p)
  /\ UNCHANGED <<rows, money, intents, ledger, venue, resulted, waived, bounds>>

-----------------------------------------------------------------------------
(* manage_exit.                                                            *)

ExitsOfAll == \* mutant: rows with an unresolved order are not left out
  /\ Over("outcomes")
  /\ Begin("exits", {p \in Ids : rows[p].status = "open" /\ rows[p].remaining > 0})
  /\ UNCHANGED <<policy, rows, money, intents, ledger, venue, resulted, waived, bounds>>

\* Orders that cannot be read count as none.
ExitsNext ==
  /\ Over("outcomes")
  /\ \E asked \in {UnresolvedIntents} \cup IF "orders" \in FailOpen THEN {{}} ELSE {} :
       Begin("exits", {p \in Ids : /\ rows[p].status = "open" /\ rows[p].remaining > 0
                                   /\ \A o \in asked : intents[o].row # p})
  /\ UNCHANGED <<policy, rows, money, intents, ledger, venue, resulted, waived, bounds>>

\* No reason to leave, no fresh book, or no bid.
Stay ==
  /\ At("exits") /\ \E p \in todo : Next1(p)
  /\ UNCHANGED <<policy, rows, money, intents, ledger, venue, resulted, waived, bounds>>

\* The book may take a part only.
PaperExit ==
  /\ At("exits")
  /\ \E p \in todo :
       /\ rows[p].book = "paper" /\ rows[p].market \notin resulted
       /\ \E n \in 1..rows[p].remaining : CloseRow(p, n)
       /\ CheckLoss("paper", pnl') \/ LossUnchecked
       /\ Next1(p)
  /\ UNCHANGED <<money, intents, venue, resulted, waived, bounds>>

\* create_directional_order_intent and the call that sends the order.
Send(o, p, action, n) ==
  /\ intents' = [intents EXCEPT ![o] = [status |-> "submitting", row |-> p,
                                        action |-> action, contracts |-> n]]
  /\ venue' = [venue EXCEPT ![o].at = "flying"]
  /\ pc' = "reply" /\ cur' = o

Unused == {o \in Orders : intents[o].status = "none"}

LiveExit ==
  /\ At("exits")
  /\ \E p \in todo, o \in Unused :
       /\ rows[p].book = "live" /\ rows[p].market \notin resulted
       /\ \E n \in 1..rows[p].remaining : Send(o, p, "sell", n)
       /\ todo' = todo \ {p}
  /\ UNCHANGED <<policy, rows, money, ledger, resulted, using, waived, bounds>>

-----------------------------------------------------------------------------
(* The policy of the tick.                                                 *)

LossNext ==
  /\ Over("exits") /\ Begin("paperLoss", {})
  /\ UNCHANGED <<policy, rows, money, intents, ledger, venue, resulted, waived, bounds>>

Loss(b, phase, next) ==
  /\ pc = phase /\ Begin(next, {})
  /\ \/ CheckLoss(b, pnl) /\ UNCHANGED waived
     \/ LossUnchecked /\ waived' = TRUE
  /\ UNCHANGED <<rows, money, intents, ledger, venue, resulted, bounds>>

\* The positions or the state cannot be read, or a mode cannot be written.
StorageFails ==
  /\ Over("outcomes") \/ pc = "policy"
  /\ Stop /\ waived' = FALSE
  /\ UNCHANGED <<policy, rows, money, intents, ledger, venue, resulted, bounds>>

GateOfBuild == LIVE_ORDER_LOOKUP_CONFIRMED \* mutant: unresolved orders are no obstacle

\* validate_live_gate: nothing unresolved, and the paper gate is passed, which
\* the build has to allow.
GateMayPass == LIVE_ORDER_LOOKUP_CONFIRMED /\ ~HasUnresolved

Downgrade ==
  /\ pc = "policy" /\ mode = "live"
  /\ mode' = "paper" /\ Stop /\ waived' = FALSE
  /\ UNCHANGED <<killed, breaker, rows, money, intents, ledger, venue, resulted, bounds>>

NoEntries ==
  /\ pc = "policy"
  /\ mode = "off" \/ killed \/ breaker # "none"
  /\ mode = "live" => GateMayPass
  /\ Stop /\ waived' = FALSE
  /\ UNCHANGED <<policy, rows, money, intents, ledger, venue, resulted, bounds>>

\* The mode and the switches are read here, once for all entries.
ReadPolicy ==
  /\ pc = "policy"
  /\ mode # "off" /\ ~killed /\ breaker = "none"
  /\ mode = "live" => GateMayPass
  /\ using' = mode /\ pc' = "entries" /\ todo' = Markets /\ UNCHANGED cur
  /\ UNCHANGED <<policy, rows, money, intents, ledger, venue, resulted, waived, bounds>>

-----------------------------------------------------------------------------
(* consider_entry and submit_live_entry.                                   *)

\* The signal, the book or the sizing is no good.
Reject ==
  /\ At("entries") /\ \E k \in todo : Next1(k)
  /\ UNCHANGED <<policy, rows, money, intents, ledger, venue, resulted, waived, bounds>>

FitsEvent(k, cost) == \* mutant: the market's own cap is left out
  LET open == OpenRows(using)
  IN  /\ Cardinality(open) < Caps["rows"]
      /\ cost + Remaining({p \in open : EventOf[rows[p].market] = EventOf[k]}) <= Caps["event"]
      /\ cost + Remaining(open) <= Caps["total"]

\* An entry that costs so much fits the budgets left by directional_risk_totals.
Fits(k, cost) ==
  LET open == OpenRows(using)
      today == {p \in Ids : rows[p].status # "none" /\ rows[p].book = using /\ rows[p].today}
  IN  /\ Cardinality(open) < Caps["rows"]
      /\ cost + Remaining({p \in open : rows[p].market = k}) <= Caps["market"]
      /\ cost + Remaining({p \in open : EventOf[rows[p].market] = EventOf[k]}) <= Caps["event"]
      /\ cost + Contracts(today) <= Caps["day"]
      /\ cost + Remaining(open) <= Caps["total"]

Free == {p \in Ids : rows[p].status = "none"}
Create(p, k, n, status) ==
  rows' = [rows EXCEPT ![p] =
             [status |-> status, book |-> using, market |-> k, contracts |-> n,
              remaining |-> n, today |-> TRUE, outcome |-> FALSE]]

\* A signal the entry is considered for: the market is not close to its result,
\* and plan_entry finds n contracts in the book that the budgets allow.
Considered(p, k, n) ==
  /\ At("entries") /\ k \in todo \ resulted
  /\ \E vwap \in Prices, fees \in Fees :
       /\ Fits(k, Worth(vwap, n, fees))
       /\ costs' = [costs EXCEPT ![p] = [vwap |-> vwap, fees |-> fees]]
       /\ planned' = [planned EXCEPT ![p] = vwap]

PaperEntry ==
  /\ using = "paper"
  /\ \E k \in Markets, n \in 1..Caps["market"], p \in Free :
       Considered(p, k, n) /\ Create(p, k, n, "open") /\ Next1(k)
  /\ UNCHANGED <<policy, intents, ledger, venue, resulted, waived, bounds>>

\* live_gate fails for this entry: the mode is set back, whatever it is by now.
DowngradeEntry ==
  /\ At("entries") /\ using = "live"
  /\ mode' = "paper" /\ \E k \in todo : Next1(k)
  /\ UNCHANGED <<killed, breaker, rows, money, intents, ledger, venue, resulted, waived, bounds>>

\* The book is gone, or the intent cannot be written: the row stays submitting.
EntryWithoutOrder ==
  /\ using = "live" /\ GateMayPass
  /\ \E k \in Markets, n \in 1..Caps["market"], p \in Free :
       Considered(p, k, n) /\ Create(p, k, n, "submitting") /\ Next1(k)
  /\ UNCHANGED <<policy, intents, ledger, venue, resulted, waived, bounds>>

LiveEntry ==
  /\ using = "live" /\ GateMayPass
  /\ \E k \in Markets, n \in 1..Caps["market"], p \in Free, o \in Unused :
       /\ Considered(p, k, n) /\ Create(p, k, n, "submitting")
       /\ Send(o, p, "buy", n)
       /\ todo' = todo \ {k}
  /\ UNCHANGED <<policy, ledger, resulted, using, waived, bounds>>

EntriesOver ==
  /\ Over("entries") /\ Stop /\ waived' = FALSE
  /\ UNCHANGED <<policy, rows, money, intents, ledger, venue, resulted, bounds>>

-----------------------------------------------------------------------------
(* The answer to a live order.                                             *)

Back == pc' = IF intents[cur].action = "buy" THEN "entries" ELSE "exits"
Answered == Back /\ cur' = "none" /\ UNCHANGED <<todo, using>>
Replied == venue[cur].at = "done"

UnresolveAsNone == \* mutant: an order without an answer is taken for none
  /\ SetIntent(Both, cur, "rejected")
  /\ IF intents[cur].action = "buy" THEN AckRow(Both, intents[cur].row, 0, "rejected")
     ELSE UNCHANGED rows
  /\ UNCHANGED <<costs, ledger>>

\* The order's end is not known: it stays on the books for reconcile_unresolved.
Unresolve ==
  IF intents[cur].action = "buy"
  THEN \E w \in Chained :
         /\ AckRow(w, intents[cur].row, 0, "unresolved") /\ SetIntent(w, cur, "unresolved")
         /\ AckCost(w, intents[cur].row, "unresolved", {}) /\ UNCHANGED ledger
  ELSE SetIntent(Both, cur, "unresolved") /\ UNCHANGED <<rows, costs, ledger>>

\* The order filled n contracts, or none.
Accept(n, prices) ==
  IF intents[cur].action = "buy"
  THEN \E w \in Chained : AcceptEntry(w, cur, n, prices)
  ELSE \E w \in Written("exit") : AcceptExit(w, cur, n)

ReplyFilled ==
  /\ pc = "reply" /\ Replied
  /\ Accept(venue[cur].filled, Prices) /\ Answered
  /\ UNCHANGED <<policy, planned, venue, resulted, waived, bounds>>

\* A fill above the request, or one that is no number: an entry stays
\* unresolved, an exit whose fill is no number counts as not filled.
ReplyNonsense ==
  /\ pc = "reply" /\ Replied
  /\ \E kind \in Garbled \ {"lookup"} :
       /\ kind \in {"over", intents[cur].action}
       /\ IF kind = "sell" THEN Accept(0, {}) ELSE Unresolve
  /\ Answered
  /\ UNCHANGED <<policy, planned, venue, resulted, waived, bounds>>

\* The call fails, before or after the order reached the exchange.
ReplyError ==
  /\ pc = "reply" /\ pc' = "confirm"
  /\ UNCHANGED <<policy, rows, money, intents, ledger, venue, resulted, todo, cur, using,
                 waived, bounds>>

Confirm ==
  /\ pc = "confirm"
  /\ \E found \in Lookups({cur}) :
       IF found = NotFound THEN Unresolve ELSE Accept(found, KeptPrice(intents[cur].row))
  /\ Answered
  /\ UNCHANGED <<policy, planned, venue, resulted, waived, bounds>>

RunOnce ==
  \/ Tick \/ ReconcileIntent \/ ReconcileRowsNext \/ ReconcileRow \/ OutcomesNext
  \/ NoOutcome \/ Outcome \/ Unbooked \/ ExitsNext \/ Stay \/ PaperExit \/ LiveExit \/ LossNext
  \/ Loss("paper", "paperLoss", "liveLoss") \/ Loss("live", "liveLoss", "policy")
  \/ StorageFails \/ Downgrade \/ NoEntries \/ ReadPolicy \/ Reject \/ PaperEntry \/ DowngradeEntry
  \/ EntryWithoutOrder \/ LiveEntry \/ EntriesOver
  \/ ReplyFilled \/ ReplyNonsense \/ ReplyError \/ Confirm

-----------------------------------------------------------------------------
(* The exchange, the operator, the clock, and the end of the process.      *)

\* An immediate-or-cancel order trades what it can, or never arrives.
VenueSettles(o) ==
  /\ venue[o].at = "flying"
  /\ \/ \E f \in 0..intents[o].contracts :
          venue' = [venue EXCEPT ![o] = [at |-> "done", filled |-> f]]
     \/ venue' = [venue EXCEPT ![o].at = "lost"]
  /\ UNCHANGED <<policy, rows, money, intents, ledger, resulted, task, waived, bounds>>

\* Orders and rows of a market whose end the program does not know.
OpenEnds(k) ==
  {p \in UnresolvedRows : rows[p].market = k}
    \cup {p \in Ids : rows[p].market = k /\ \E o \in UnresolvedIntents : intents[o].row = p}

MarketResolves(k) ==
  /\ k \notin resulted /\ (SettlesUnresolved \/ OpenEnds(k) = {})
  /\ resulted' = resulted \cup {k}
  /\ UNCHANGED <<policy, rows, money, intents, ledger, venue, task, waived, bounds>>

\* set_mode; going live asks the gate.
SetMode(m) ==
  /\ m # mode /\ (m = "live" => GateMayPass)
  /\ mode' = m
  /\ UNCHANGED <<killed, breaker, rows, money, intents, ledger, venue, resulted, task, waived, bounds>>

Kill(enabled) ==
  /\ killed' = enabled /\ killed # enabled
  /\ UNCHANGED <<mode, breaker, rows, money, intents, ledger, venue, resulted, task, waived, bounds>>

ResetBreaker ==
  /\ breaker # "none" /\ breaker' = "none" /\ waived' = (pc # "idle")
  /\ UNCHANGED <<mode, killed, rows, money, intents, ledger, venue, resulted, task, bounds>>

NewDay ==
  /\ days < MaxDays /\ days' = days + 1
  /\ rows' = [p \in Ids |-> [rows[p] EXCEPT !.today = FALSE]]
  /\ pnl' = [b \in Books |-> 0]
  /\ breaker' = IF breaker = "today" THEN "earlier" ELSE breaker
  /\ UNCHANGED <<mode, killed, money, intents, booked, venue, resulted, task, waived, crashes>>

Crash ==
  /\ pc # "idle" /\ crashes < MaxCrashes /\ crashes' = crashes + 1
  /\ Stop /\ waived' = FALSE
  /\ UNCHANGED <<policy, rows, money, intents, ledger, venue, resulted, days>>

Next ==
  \/ RunOnce
  \/ \E o \in Orders : VenueSettles(o)
  \/ \E k \in Markets : MarketResolves(k)
  \/ \E m \in Modes : SetMode(m)
  \/ \E enabled \in BOOLEAN : Kill(enabled)
  \/ ResetBreaker \/ NewDay \/ Crash

Spec == Init /\ [][Next]_vars

-----------------------------------------------------------------------------
(* Properties.                                                             *)

Filled(p, action) == SumFunctionOnSet([o \in Orders |-> venue[o].filled], OrdersOf(p, action))

\* What the account really holds of a live position.
Held(p) ==
  IF rows[p].market \in resulted THEN 0 ELSE Filled(p, "buy") - Filled(p, "sell")
Shown(p) == IF rows[p].status \in OpenStatus THEN rows[p].remaining ELSE 0

LiveRows == {p \in Ids : rows[p].book = "live" /\ rows[p].status # "none"}

\* A live order whose end is not known has a row that covers it, and a known
\* one a row that tells of it: the account never holds more than the rows that
\* the risk budgets count, and never less than nothing, whatever call or look-up
\* failed and whichever write of an entry. It takes the answers to exits and
\* look-ups to be numbers, both writes of an exit to be made, the list of
\* unresolved orders to be readable, and results to wait for them.
RowsCoverExposure == \A p \in LiveRows : 0 <= Held(p) /\ Held(p) <= Shown(p)

\* Nothing is open about the row.
Quiet(p) ==
  /\ rows[p].status \in {"open", "closed", "settled", "rejected"}
  /\ \A o \in UnresolvedIntents : intents[o].row # p

Entered(p) == IF rows[p].book = "live" THEN Filled(p, "buy") ELSE rows[p].contracts

\* Every contract that was bought is either still in its row or booked once in
\* the ledger, by an exit, by a look-up after a failed exit or by the result.
BookedOnce ==
  \A p \in Ids : Quiet(p) => Entered(p) = rows[p].remaining + booked[p]

\* What a row counts for at the price its entry was sized with, or the price it
\* was filled at if that is lower.
Lower(a, b) == IF a <= b THEN a ELSE b
Counted(p) == Worth(Lower(costs[p].vwap, planned[p]), rows[p].remaining, costs[p].fees)
AsPlanned(S) == SumFunctionOnSet([p \in Ids |-> Counted(p)], S)

\* The open rows of a book, also the rows of orders that may have filled, stay
\* within the caps but for what their contracts were dearer than planned, and for
\* the fees of those whose end was not known at first: an order goes out with a
\* limit of a newer book, and its answer rewrites the price and may clear the fees.
WithinCaps ==
  \A b \in Books :
    /\ Cardinality(OpenRows(b)) <= Caps["rows"]
    /\ AsPlanned(OpenRows(b)) <= Caps["total"]
    /\ \A k \in Markets :
         AsPlanned({p \in OpenRows(b) : rows[p].market = k}) <= Caps["market"]

\* No second live entry is sent while one is unresolved.
OneOpenQuestion == \A p, q \in UnresolvedRows : p = q

\* No row is created on a day whose losses reached the limit in either book,
\* except in a tick during which the operator reset the breaker, or in which the
\* check before the entries failed: a profit that cannot be read, or a breaker that
\* cannot be written, lets that poll go on to its entries.
LossStopsEntries ==
  [][\A p \in Ids : rows[p].status = "none" /\ rows'[p].status # "none" =>
       waived \/ \A b \in Books : pnl[b] > -LossLimit]_vars

\* A row that is over stays as it is, but for the result of its market.
OverIsOver ==
  [][\A p \in Ids : rows[p].status \in {"closed", "settled", "rejected"} =>
       rows'[p].status = rows[p].status /\ rows'[p].remaining = rows[p].remaining]_vars
=============================================================================
