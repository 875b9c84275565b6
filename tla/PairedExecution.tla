--------------------------- MODULE PairedExecution ---------------------------
(***************************************************************************)
(* The paired-order lifecycle of strategies/sports_arb/execution.rs:       *)
(* submit_paired_order and everything it calls that changes state.         *)
(*                                                                         *)
(* One attempt buys the same number of contracts on Polymarket and on      *)
(* Kalshi with two immediate-or-cancel orders sent at the same moment.  An *)
(* unequal fill is repaired by at most one bounded buy of the missing leg  *)
(* (forward) and one bounded sale of the filled leg (unwind).  A row of    *)
(* auto_trade_history is written before the orders, after each             *)
(* acknowledgement and at the end; auto_trade_state.enabled is cleared     *)
(* when the attempt leaves an exposure.                                    *)
(*                                                                         *)
(* The exchanges keep their own account of what traded (variable traded),  *)
(* which the program never reads directly: it sees replies and look-ups.   *)
(* Quantities at the exchanges are counted in HALF contracts, so that an   *)
(* odd number is a fractional fill; the program counts whole contracts.    *)
(***************************************************************************)
EXTENDS Integers, Sequences, FiniteSets

CONSTANTS
  Attempts,         \* the calls of submit_paired_order that are followed
  Automatic,             \* those made by the auto-trade executor, one at a time
  Slugs,            \* Polymarket market slugs
  Slug,             \* the slug each attempt trades
  MaxContracts,     \* bound: contracts per leg
  MaxCrashes,       \* bound: process crashes
  LossyOrders,      \* orders whose call may fail although the order traded
  LateOrders,       \* orders that may still trade after the call returned
  GarbledOrders,    \* orders whose reply may carry an invalid fill quantity
  FractionalOrders, \* orders that may fill a fractional quantity
  StorageFaults,    \* durable writes that may fail
  Disconnects       \* manual attempts whose HTTP client may go away

Legs == {"poly", "kalshi"}
Recoveries == {"forward", "unwind"}
Orders == Legs \cup Recoveries
Writes == {"intent", "poly", "kalshi", "finish", "halt"}

ASSUME AttemptsAssumption ==
  /\ Automatic \subseteq Attempts
  /\ Disconnects \subseteq Attempts \ Automatic
  /\ Slug \in [Attempts -> Slugs]
ASSUME BoundsAssumption == MaxContracts \in Nat \ {0} /\ MaxCrashes \in Nat
ASSUME FaultsAssumption ==
  /\ LossyOrders \subseteq Orders
  /\ LateOrders \subseteq Orders
  /\ GarbledOrders \subseteq Orders
  /\ FractionalOrders \subseteq Orders
  /\ StorageFaults \subseteq Writes

VARIABLES
  up,         \* the process is running
  enabled,    \* auto_trade_state.enabled, durable
  row,        \* auto_trade_history.status of the attempt's row, durable
  acked,      \* legs whose acknowledgement is durable in the row
  pc,         \* where the attempt is in the code
  size,       \* params.contracts
  told,       \* what the program believes of each leg (poly/kalshi_result)
  steps,      \* recovery steps not tried yet
  remaining,  \* contracts still unhedged, as the program counts them
  alerts,     \* attempts announced on Discord as needing attention
  asked,      \* exchange: contracts ordered, 0 when no order was sent
  live,       \* exchange: orders that are not settled yet
  traded,     \* exchange: half contracts each order traded
  crashes,    \* history: crashes so far
  reviewed,   \* history: problems the operator re-enabled trading over
  unhalted    \* history: attempts whose last halt could not be written

program == <<pc, size, told, steps, remaining>>
durable == <<enabled, row, acked>>
exchange == <<asked, live, traded>>
history == <<crashes, reviewed, unhalted>>
vars == <<up, program, durable, exchange, alerts, history>>

-----------------------------------------------------------------------------
(* Replies: PolymarketOrderResult and KalshiOrderResult.  lookup is the    *)
(* way confirm_filled_contracts can ask again: by order id, by order id    *)
(* with status ORDER_STATE_EXPIRED, or (no id) by account activity.        *)

Report == [known : BOOLEAN, filled : Nat, fraction : BOOLEAN,
           valid : BOOLEAN, priced : BOOLEAN,
           lookup : {"order", "expired", "activity"}]

Answer(filled, fraction, priced, lookup) ==
  [known |-> TRUE, filled |-> filled, fraction |-> fraction,
   valid |-> TRUE, priced |-> priced, lookup |-> lookup]

NoReply == [Answer(0, FALSE, FALSE, "activity") EXCEPT !.known = FALSE]
\* failed_poly_order, failed_kalshi_order, and an envelope with no execution
Failed == Answer(0, FALSE, FALSE, "activity")
Garbled == [Failed EXCEPT !.valid = FALSE, !.lookup = "order"]

Lookups(o, half) == IF o = "poly" /\ half < 2 THEN {"order", "expired"} ELSE {"order"}

Unfilled(o) == {Answer(0, FALSE, FALSE, k) : k \in Lookups(o, 0)}

\* The parsers report the whole part, floored, and flag a fraction.
Filled(o, half) ==
  UNION {{Answer(half \div 2, half % 2 = 1, p, k) : p \in BOOLEAN} :
           k \in Lookups(o, half)}

\* What the call that placed order o may return now.
Replies(a, o) ==
  IF o \in live[a]
  THEN IF o \in LateOrders THEN Unfilled(o) \cup {Failed} ELSE {}
  ELSE (IF traded[a][o] = 0 THEN Unfilled(o) \cup {Failed}
                            ELSE Filled(o, traded[a][o]))
       \cup (IF o \in LossyOrders THEN {Failed} ELSE {})
       \cup (IF o \in GarbledOrders THEN {Garbled} ELSE {})

-----------------------------------------------------------------------------
(* Views of one attempt.                                                   *)

Active(a) == pc[a] \notin {"idle", "done", "dropped", "lost"}

PolyExcess(a) == told[a]["poly"].filled > told[a]["kalshi"].filled
ExcessLeg(a) == IF PolyExcess(a) THEN "poly" ELSE "kalshi"
Excess(a) == IF PolyExcess(a)
             THEN told[a]["poly"].filled - told[a]["kalshi"].filled
             ELSE told[a]["kalshi"].filled - told[a]["poly"].filled

Unsafe(a) == ~told[a]["poly"].valid \/ ~told[a]["kalshi"].valid
FractionsOfPoly(a) == \* mutant: only one leg is looked at
  IF told[a]["poly"].fraction THEN 1 ELSE 0
Fractions(a) == (IF told[a]["poly"].fraction THEN 1 ELSE 0)
                + (IF told[a]["kalshi"].fraction THEN 1 ELSE 0)
\* residual_contracts of the record
Residual(a) == remaining[a] + Fractions(a)
Alarm(a) == Unsafe(a) \/ Residual(a) > 0

Outcome(a) ==
  IF Alarm(a) THEN "exposed"
  ELSE IF Excess(a) # 0 THEN "neutralized"
  ELSE IF told[a]["poly"].filled = size[a] /\ told[a]["kalshi"].filled = size[a]
       THEN "executed"
  ELSE IF told[a]["poly"].filled = 0 /\ told[a]["kalshi"].filled = 0
       THEN "rejected"
  ELSE "partial_paired"

Settled == {"executed", "neutralized", "rejected", "partial_paired"}
Statuses == {"none", "submitting", "exposed"} \cup Settled

\* True net position of the attempt in half contracts: Polymarket minus
\* Kalshi.  Either recovery order works against the excess leg.
Repaired(a) == traded[a]["forward"] + traded[a]["unwind"]
Exposure(a) == traded[a]["poly"] - traded[a]["kalshi"]
               - (IF PolyExcess(a) THEN Repaired(a) ELSE 0 - Repaired(a))
Size(n) == IF n < 0 THEN 0 - n ELSE n

\* Half contracts the attempt traded on its Polymarket slug, either way.
PolyVolume(a) == traded[a]["poly"]
                 + (IF PolyExcess(a) THEN traded[a]["unwind"]
                                     ELSE traded[a]["forward"])

-----------------------------------------------------------------------------
StepLists == {<<>>, <<"forward">>, <<"unwind">>,
              <<"forward", "unwind">>, <<"unwind", "forward">>}
Labels == {"idle", "sizing", "submit", "ackPoly", "ackKalshi", "plan",
           "recover", "await", "halt", "notify", "done", "dropped", "lost"}

TypeOK ==
  /\ up \in BOOLEAN
  /\ enabled \in BOOLEAN
  /\ row \in [Attempts -> Statuses]
  /\ acked \in [Attempts -> SUBSET Legs]
  /\ pc \in [Attempts -> Labels]
  /\ size \in [Attempts -> Nat]
  /\ told \in [Attempts -> [Legs -> Report]]
  /\ steps \in [Attempts -> StepLists]
  /\ remaining \in [Attempts -> Nat]
  /\ alerts \subseteq Attempts
  /\ asked \in [Attempts -> [Orders -> Nat]]
  /\ live \in [Attempts -> SUBSET Orders]
  /\ traded \in [Attempts -> [Orders -> Nat]]
  /\ crashes \in Nat
  /\ reviewed \subseteq Attempts
  /\ unhalted \subseteq Attempts

Init ==
  /\ up = TRUE
  /\ enabled \in BOOLEAN
  /\ row = [a \in Attempts |-> "none"]
  /\ acked = [a \in Attempts |-> {}]
  /\ pc = [a \in Attempts |-> "idle"]
  /\ size = [a \in Attempts |-> 0]
  /\ told = [a \in Attempts |-> [l \in Legs |-> NoReply]]
  /\ steps = [a \in Attempts |-> <<>>]
  /\ remaining = [a \in Attempts |-> 0]
  /\ alerts = {}
  /\ asked = [a \in Attempts |-> [o \in Orders |-> 0]]
  /\ live = [a \in Attempts |-> {}]
  /\ traded = [a \in Attempts |-> [o \in Orders |-> 0]]
  /\ crashes = 0
  /\ reviewed = {}
  /\ unhalted = {}

-----------------------------------------------------------------------------
(* Building blocks.                                                        *)

Goto(a, label) == pc' = [pc EXCEPT ![a] = label]

\* disable_auto_trade: a failed write is logged and otherwise ignored.
HaltFor(a) ==
  \/ enabled' = FALSE /\ unhalted' = unhalted \ {a}
  \/ /\ "halt" \in StorageFaults
     /\ unhalted' = unhalted \cup {a}
     /\ UNCHANGED enabled

-----------------------------------------------------------------------------
(* The attempt, up to the two orders.                                      *)

\* An executor picks the opportunity up.  Automatic attempts check the
\* enabled flag here and never again; a manual one does not look at it.
Admit(a) ==
  /\ up /\ pc[a] = "idle"
  /\ a \in Automatic => enabled /\ \A b \in Automatic : ~Active(b)
  /\ Goto(a, "sizing")
  /\ UNCHANGED <<up, size, told, steps, remaining, durable, exchange, alerts, history>>

\* Books, cross-check or sizing decline: nothing was written or sent.
Skip(a) ==
  /\ up /\ pc[a] = "sizing"
  /\ Goto(a, "done")
  /\ UNCHANGED <<up, size, told, steps, remaining, durable, exchange, alerts, history>>

PersistIntent(a) ==
  /\ up /\ pc[a] = "sizing"
  /\ \E n \in 1..MaxContracts : size' = [size EXCEPT ![a] = n]
  /\ row' = [row EXCEPT ![a] = "submitting"]
  /\ Goto(a, "submit")
  /\ UNCHANGED <<up, told, steps, remaining, enabled, acked, exchange, alerts, history>>

PersistIntentFails(a) ==
  /\ up /\ pc[a] = "sizing"
  /\ "intent" \in StorageFaults
  /\ Goto(a, "done")
  /\ UNCHANGED <<up, size, told, steps, remaining, durable, exchange, alerts, history>>

\* tokio::join! polls both submissions; neither waits for the other.
SendLeg(a, l) ==
  /\ up /\ pc[a] = "submit"
  /\ asked[a][l] = 0
  /\ asked' = [asked EXCEPT ![a][l] = size[a]]
  /\ live' = [live EXCEPT ![a] = @ \cup {l}]
  /\ UNCHANGED <<up, program, durable, traded, alerts, history>>

LegReply(a, l) ==
  /\ up /\ pc[a] = "submit"
  /\ asked[a][l] > 0 /\ ~told[a][l].known
  /\ \E r \in Replies(a, l) : told' = [told EXCEPT ![a][l] = r]
  /\ UNCHANGED <<up, pc, size, steps, remaining, durable, exchange, alerts, history>>

-----------------------------------------------------------------------------
(* The exchange settles an order, whether or not the process still runs.   *)

VenueSettles(a, o) ==
  /\ o \in live[a]
  /\ live' = [live EXCEPT ![a] = @ \ {o}]
  /\ \E half \in 0..(2 * asked[a][o]) :
       /\ o \in FractionalOrders \/ half % 2 = 0
       /\ traded' = [traded EXCEPT ![a][o] = half]
  /\ UNCHANGED <<up, program, durable, asked, alerts, history>>

-----------------------------------------------------------------------------
(* An unfilled Polymarket reply is not proof of no fill: ask again.        *)

Joined(a) == up /\ pc[a] = "submit" /\ \A l \in Legs : told[a][l].known
NoConfirmation(a) == FALSE \* mutant: the reply is trusted
NeedsConfirmation(a) == told[a]["poly"].filled = 0 /\ told[a]["poly"].valid

\* A fraction is rounded up.
Believe(a, half) ==
  told' = [told EXCEPT ![a]["poly"] = [@ EXCEPT !.filled = (half + 1) \div 2]]

FillIsKnown(a) ==
  /\ Joined(a) /\ ~NeedsConfirmation(a)
  /\ Goto(a, "ackPoly")
  /\ UNCHANGED <<up, size, told, steps, remaining, durable, exchange, alerts, history>>

ConfirmByOrder(a) ==
  /\ Joined(a) /\ NeedsConfirmation(a)
  /\ told[a]["poly"].lookup # "activity"
  /\ Believe(a, traded[a]["poly"])
  /\ Goto(a, "ackPoly")
  /\ UNCHANGED <<up, size, steps, remaining, durable, exchange, alerts, history>>

\* Without an order id, or when the look-up of an EXPIRED order fails, the
\* account's trades on the slug are summed: those of any other attempt on
\* the same slug are in the sum when the time window holds them (bound: at
\* most one other attempt's).
OtherVolumes(a) == {PolyVolume(b) : b \in {c \in Attempts \ {a} : Slug[c] = Slug[a]}}
ConfirmByActivity(a) ==
  /\ Joined(a) /\ NeedsConfirmation(a)
  /\ told[a]["poly"].lookup # "order"
  /\ \E other \in {0} \cup OtherVolumes(a) : Believe(a, traded[a]["poly"] + other)
  /\ Goto(a, "ackPoly")
  /\ UNCHANGED <<up, size, steps, remaining, durable, exchange, alerts, history>>

ConfirmFails(a) ==
  /\ Joined(a) /\ NeedsConfirmation(a)
  /\ told' = [told EXCEPT ![a]["poly"] = [@ EXCEPT !.valid = FALSE]]
  /\ HaltFor(a)
  /\ Goto(a, "ackPoly")
  /\ UNCHANGED <<up, size, steps, remaining, row, acked, exchange, alerts, crashes, reviewed>>

-----------------------------------------------------------------------------
(* update_auto_trade_leg for each leg.                                     *)

AckLabel == [poly |-> "ackPoly", kalshi |-> "ackKalshi"]

PersistAck(a, l) ==
  /\ up /\ pc[a] = AckLabel[l]
  /\ acked' = [acked EXCEPT ![a] = @ \cup {l}]
  /\ Goto(a, IF l = "poly" THEN "ackKalshi" ELSE "plan")
  /\ UNCHANGED <<up, size, told, steps, remaining, enabled, row, exchange, alerts, history>>

PersistAckIgnored(a, l) == \* mutant: the failure is logged only
  /\ up /\ pc[a] = AckLabel[l]
  /\ l \in StorageFaults
  /\ Goto(a, IF l = "poly" THEN "ackKalshi" ELSE "plan")
  /\ UNCHANGED <<up, size, told, steps, remaining, durable, exchange, alerts, history>>

PersistAckNoHalt(a, l) == \* mutant: it returns without the halt
  /\ up /\ pc[a] = AckLabel[l]
  /\ l \in StorageFaults
  /\ Goto(a, "done")
  /\ UNCHANGED <<up, size, told, steps, remaining, durable, exchange, alerts, history>>

\* Halts and returns persistence_failed_after_..._ack: no recovery, no
\* Discord message, the row stays submitting.
PersistAckFails(a, l) ==
  /\ up /\ pc[a] = AckLabel[l]
  /\ l \in StorageFaults
  /\ HaltFor(a)
  /\ Goto(a, "done")
  /\ UNCHANGED <<up, size, told, steps, remaining, row, acked, exchange, alerts, crashes, reviewed>>

-----------------------------------------------------------------------------
(* Bounded recovery of an unequal fill.                                    *)

\* choose_recovery_order: which exit goes first depends on fresh prices.
PlanRecovery(a) ==
  /\ up /\ pc[a] = "plan"
  /\ IF Unsafe(a) \/ Excess(a) = 0
     THEN UNCHANGED <<steps, remaining>>
     ELSE /\ remaining' = [remaining EXCEPT ![a] = Excess(a)]
          /\ \E s \in {<<"forward", "unwind">>, <<"unwind", "forward">>} :
               steps' = [steps EXCEPT ![a] = s]
  /\ Goto(a, "recover")
  /\ UNCHANGED <<up, size, told, durable, exchange, alerts, history>>

Recovering(a) == up /\ pc[a] = "recover" /\ steps[a] # <<>> /\ remaining[a] > 0

RefuseAndRetry(a) == \* mutant: a refused step is not given up
  /\ Recovering(a)
  /\ UNCHANGED vars

\* No entry price, no fresh book, not enough depth, or outside the loss bound.
RefuseStep(a) ==
  /\ Recovering(a)
  /\ steps' = [steps EXCEPT ![a] = Tail(@)]
  /\ UNCHANGED <<up, pc, size, told, remaining, durable, exchange, alerts, history>>

SendStepInFull(a) == \* mutant: the fallback order repairs everything again
  /\ Recovering(a)
  /\ told[a][ExcessLeg(a)].priced
  /\ asked' = [asked EXCEPT ![a][Head(steps[a])] = Excess(a)]
  /\ live' = [live EXCEPT ![a] = @ \cup {Head(steps[a])}]
  /\ Goto(a, "await")
  /\ UNCHANGED <<up, size, told, steps, remaining, durable, traded, alerts, history>>

SendStep(a) ==
  /\ Recovering(a)
  /\ told[a][ExcessLeg(a)].priced
  /\ asked' = [asked EXCEPT ![a][Head(steps[a])] = remaining[a]]
  /\ live' = [live EXCEPT ![a] = @ \cup {Head(steps[a])}]
  /\ Goto(a, "await")
  /\ UNCHANGED <<up, size, told, steps, remaining, durable, traded, alerts, history>>

StepAssumed(a) == \* mutant: an accepted order counts as filled
  /\ up /\ pc[a] = "await" /\ Replies(a, Head(steps[a])) # {}
  /\ remaining' = [remaining EXCEPT ![a] = 0]
  /\ steps' = [steps EXCEPT ![a] = Tail(@)]
  /\ Goto(a, "recover")
  /\ UNCHANGED <<up, size, told, durable, exchange, alerts, history>>

\* Only filled_contracts of the reply is used, clamped to what remains.
StepReply(a) ==
  /\ up /\ pc[a] = "await" /\ steps[a] # <<>>
  /\ \E r \in Replies(a, Head(steps[a])) :
       remaining' = [remaining EXCEPT ![a] =
                       IF r.filled > @ THEN 0 ELSE @ - r.filled]
  /\ steps' = [steps EXCEPT ![a] = Tail(@)]
  /\ Goto(a, "recover")
  /\ UNCHANGED <<up, size, told, durable, exchange, alerts, history>>

-----------------------------------------------------------------------------
(* The end: final row, then the halt, then the alert.                      *)

RecoveryOver(a) ==
  up /\ pc[a] = "recover" /\ (steps[a] = <<>> \/ remaining[a] = 0)

AfterFinish(a) == Goto(a, IF Alarm(a) THEN "halt" ELSE "done")

Finish(a) ==
  /\ RecoveryOver(a)
  /\ row' = [row EXCEPT ![a] = Outcome(a)]
  /\ AfterFinish(a)
  /\ UNCHANGED <<up, size, told, steps, remaining, enabled, acked, exchange, alerts, history>>

\* Logged only: the attempt goes on with its row still submitting.
FinishFails(a) ==
  /\ RecoveryOver(a)
  /\ "finish" \in StorageFaults
  /\ AfterFinish(a)
  /\ UNCHANGED <<up, size, told, steps, remaining, durable, exchange, alerts, history>>

HaltOrReturn(a) == \* mutant: a failed halt ends the attempt
  /\ up /\ pc[a] = "halt"
  /\ HaltFor(a)
  /\ Goto(a, IF a \in unhalted' THEN "done" ELSE "notify")
  /\ UNCHANGED <<up, size, told, steps, remaining, row, acked, exchange, alerts, crashes, reviewed>>

Halt(a) ==
  /\ up /\ pc[a] = "halt"
  /\ HaltFor(a)
  /\ Goto(a, "notify")
  /\ UNCHANGED <<up, size, told, steps, remaining, row, acked, exchange, alerts, crashes, reviewed>>

Notify(a) ==
  /\ up /\ pc[a] = "notify"
  /\ alerts' = alerts \cup {a}
  /\ Goto(a, "done")
  /\ UNCHANGED <<up, size, told, steps, remaining, durable, exchange, history>>

-----------------------------------------------------------------------------
(* Disconnection, crash, restart and operator.                             *)

\* Where the code waits on the network.  A waiting request handler is
\* dropped by the server when its client closes the connection.
Waiting(a) ==
  \/ pc[a] \in {"sizing", "submit", "await"}
  \/ pc[a] = "ackPoly" /\ told[a]["poly"].filled = 0
  \/ pc[a] = "ackKalshi" /\ told[a]["kalshi"].filled = 0
  \/ pc[a] = "plan" /\ ~Unsafe(a) /\ Excess(a) # 0
  \/ Recovering(a)

Disconnect(a) ==
  /\ up /\ a \in Disconnects /\ Waiting(a)
  /\ Goto(a, "dropped")
  /\ UNCHANGED <<up, size, told, steps, remaining, durable, exchange, alerts, history>>

Crash ==
  /\ up /\ crashes < MaxCrashes
  /\ up' = FALSE
  /\ crashes' = crashes + 1
  /\ pc' = [a \in Attempts |-> IF Active(a) THEN "lost" ELSE pc[a]]
  /\ UNCHANGED <<size, told, steps, remaining, durable, exchange, alerts, reviewed, unhalted>>

RestartUnchecked == \* mutant: the start-up check is missing
  /\ ~up
  /\ up' = TRUE
  /\ UNCHANGED <<program, durable, exchange, alerts, history>>

\* SportsArb::new: a start-up that finds a submitting row clears enabled
\* first, and fails altogether when that write fails.
Restart ==
  /\ ~up
  /\ up' = TRUE
  /\ enabled' = (enabled /\ \A a \in Attempts : row[a] # "submitting")
  /\ UNCHANGED <<program, row, acked, exchange, alerts, history>>

\* A row an operator has to reconcile, of an attempt that is over or halted.
Problem(a) ==
  /\ pc[a] \in {"notify", "done", "dropped", "lost"}
  /\ row[a] \in {"submitting", "exposed"}

\* enable_auto_trade checks nothing: re-enabling is the operator's decision
\* about the problems that exist at that moment.
Enable ==
  /\ up
  /\ enabled' = TRUE
  /\ reviewed' = {a \in Attempts : Problem(a)}
  /\ UNCHANGED <<up, program, row, acked, exchange, alerts, crashes, unhalted>>

Disable ==
  /\ up
  /\ enabled' = FALSE
  /\ UNCHANGED <<up, program, row, acked, exchange, alerts, history>>

-----------------------------------------------------------------------------
Submitting(a) ==
  \/ PersistIntent(a) \/ PersistIntentFails(a)
  \/ \E l \in Legs : SendLeg(a, l) \/ LegReply(a, l)

Confirming(a) ==
  \/ FillIsKnown(a) \/ ConfirmByOrder(a) \/ ConfirmByActivity(a) \/ ConfirmFails(a)
  \/ \E l \in Legs : PersistAck(a, l) \/ PersistAckFails(a, l)

Repairing(a) ==
  PlanRecovery(a) \/ RefuseStep(a) \/ SendStep(a) \/ StepReply(a)

Closing(a) == Finish(a) \/ FinishFails(a) \/ Halt(a) \/ Notify(a)

\* What the running task of an admitted attempt does next.
Proceed(a) ==
  Skip(a) \/ Submitting(a) \/ Confirming(a) \/ Repairing(a) \/ Closing(a)

Next ==
  \/ \E a \in Attempts : Admit(a) \/ Proceed(a) \/ Disconnect(a)
  \/ \E a \in Attempts, o \in Orders : VenueSettles(a, o)
  \/ Crash \/ Restart \/ Enable \/ Disable

Spec == Init /\ [][Next]_vars

\* Tokio keeps polling a running attempt and both HTTP clients time out, so
\* every step that stays possible is taken; the exchanges settle an
\* immediate-or-cancel order.  Operators, disconnections, crashes and
\* restarts are not fair.
Fairness ==
  /\ \A a \in Attempts : WF_vars(Proceed(a))
  /\ \A a \in Attempts : \A o \in Orders : WF_vars(VenueSettles(a, o))

FairSpec == Spec /\ Fairness

-----------------------------------------------------------------------------
(* Properties.                                                             *)

\* The environment in which the program's belief about fills can be right:
\* only the Polymarket leg, the one that is confirmed, may be misreported;
\* nothing trades after its call returned; recovery orders fill whole
\* contracts; a Polymarket fill that only the confirmation finds is whole;
\* and no two attempts share a Polymarket market.
ReliableVenues ==
  /\ LossyOrders \subseteq {"poly"}
  /\ LateOrders = {}
  /\ GarbledOrders \subseteq Legs
  /\ FractionalOrders \subseteq Legs
  /\ LossyOrders \cap FractionalOrders = {}
  /\ \A a, b \in Attempts : Slug[a] = Slug[b] => a = b

\* No order reaches an exchange without a durable row for its attempt, and
\* no recovery order before both acknowledgements are durable, so a crash
\* at any point leaves a row that names the trade (README.md:183).
OrdersFollowTheLedger ==
  \A a \in Attempts :
    /\ \A o \in Orders : asked[a][o] > 0 => row[a] # "none"
    /\ \A o \in Recoveries : asked[a][o] > 0 => acked[a] = Legs

\* A row whose final status says the trade is over and hedged is true: the
\* exchanges hold no net position for the attempt and nothing is in flight,
\* and an executed pair was filled completely on both sides.
SettledIsFlat ==
  \A a \in Attempts :
    row[a] \in Settled =>
      /\ live[a] = {}
      /\ Exposure(a) = 0
      /\ row[a] = "executed" =>
           \A l \in Legs : traded[a][l] = 2 * size[a]

\* An exposed row with trusted quantities never understates the position:
\* the recorded residual covers the true exposure, fractions rounded up.
ResidualCoversExposure ==
  \A a \in Attempts :
    row[a] = "exposed" /\ ~Unsafe(a) => Size(Exposure(a)) <= 2 * Residual(a)

\* The two recovery orders together never trade more than the excess they
\* repair: a fallback step cannot turn the exposure around.
NeverOverRepaired ==
  \A a \in Attempts : Repaired(a) <= 2 * Excess(a)

\* Attempts that returned although the code meant to halt trading.
MeantToHalt(a) ==
  /\ pc[a] = "done"
  /\ \/ row[a] = "exposed"
     \/ row[a] = "submitting" /\ (acked[a] # Legs \/ Alarm(a))

\* Once an attempt has returned with an exposure or with an acknowledgement
\* it could not record, auto-trading is off until the operator re-enables
\* it, unless that very halt could not be written.
HaltedUntilReviewed ==
  enabled => \A a \in Attempts : MeantToHalt(a) => a \in reviewed \cup unhalted

\* While auto-trading is on, no attempt that is over has left a true net
\* position at the exchanges, except one the operator enabled it over or one
\* whose halt could not be written.
ExposureHaltsTrading ==
  enabled => \A a \in Attempts :
    pc[a] \in {"done", "dropped"} /\ Exposure(a) # 0 => a \in reviewed \cup unhalted

\* After a crash in the middle of an attempt, the restarted process does not
\* have auto-trading on before the operator re-enabled it in view of the
\* interrupted row.
RestartHalts ==
  up /\ enabled =>
    \A a \in Attempts : pc[a] = "lost" /\ row[a] = "submitting" => a \in reviewed

\* Every attempt that wrote its row returns to its caller or is interrupted.
AttemptsReturn ==
  \A a \in Attempts : pc[a] = "submit" ~> ~Active(a)

\* Every exposure that an attempt recorded is announced on Discord, also
\* when the halt before it fails, unless the process dies on the way.
ExposureIsAnnounced ==
  \A a \in Attempts :
    (row[a] = "exposed") ~> (a \in alerts \/ pc[a] = "lost")

-----------------------------------------------------------------------------
(* What the documents and comments say, and the code does not do.          *)

\* "Halts auto-trading and alerts via Discord if either exchange
\* acknowledgement can't be durably recorded" (execution.rs:780).
LostAckIsAnnounced ==
  \A a \in Attempts :
    pc[a] = "done" /\ asked[a]["poly"] > 0 /\ acked[a] # Legs => a \in alerts

\* "An execution is `exposed`: The bot has halted" (README.md:241): no row
\* is exposed while trading is on, unless the operator saw it or its halt
\* could not be written.
ExposedMeansHalted ==
  up /\ enabled =>
    \A a \in Attempts :
      row[a] = "exposed" /\ pc[a] \in {"notify", "done", "lost"} =>
        a \in reviewed \cup unhalted

\* The promise of TradeLedger, for the true position at the exchanges: the
\* row exists before anything trades, a row is settled only over a flat
\* position, and nothing trades for an attempt whose row is final.
LedgerOf(a) ==
  IF row[a] = "none" THEN "absent"
  ELSE IF row[a] = "submitting" THEN "open"
  ELSE IF row[a] = "exposed" THEN "exposed"
  ELSE "flat"

Ledger == INSTANCE TradeLedger WITH
  Trades <- Attempts,
  book <- [a \in Attempts |-> LedgerOf(a)],
  net <- [a \in Attempts |-> Exposure(a)]

KeepsLedger == Ledger!Spec
=============================================================================
