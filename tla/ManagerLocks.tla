---------------------------- MODULE ManagerLocks ----------------------------
(***************************************************************************)
(* The read-write locks of WebSocketManager and the calls that nest them.  *)
(*                                                                         *)
(* Every field of the manager has a parking_lot::RwLock of its own, and    *)
(* tasks on different threads of the runtime call the manager at the same  *)
(* time.  A call is a list of lock operations in the order of the code; a  *)
(* guard lives to the end of its block, a temporary guard to the end of    *)
(* its statement or tail expression.  Locks under which the code never     *)
(* requests another of these locks cannot be on a cycle and are left out.  *)
(*                                                                         *)
(* A writer first claims the lock, which keeps new readers out, and then   *)
(* waits for the readers inside.                                           *)
(***************************************************************************)
EXTENDS Integers, Sequences

CONSTANTS
  Tasks,  \* the tasks of the runtime that call the manager
  Runs    \* the calls each task makes, in any order and number

Locks == {"markets", "lookup", "kalshi_quotes", "poly_quotes",
          "poly_ws_at", "kalshi_ws_at"}

Read(l) == [kind |-> "read", lock |-> l]
Write(l) == [kind |-> "write", lock |-> l]
Free(l) == [kind |-> "free", lock |-> l]
Touch(l) == <<Read(l), Free(l)>>
Update(l) == <<Write(l), Free(l)>>

Ops == [kind : {"read", "write", "free"}, lock : Locks]

-----------------------------------------------------------------------------
(* The calls.                                                              *)

\* is_market_ready, check_market_ended, and the price block of
\* calculate_and_notify: both quotes are read under the market list.
ReadQuotes ==
  <<Read("markets"), Read("kalshi_quotes"), Free("kalshi_quotes"),
    Read("poly_quotes"), Free("poly_quotes"), Free("markets")>>

DetectNested == \* mutant: the list is not dropped before it is read again
  ReadQuotes \o <<Read("markets")>> \o ReadQuotes \o <<Free("markets")>>

\* calculate_and_notify with the branch that ends the tracking.
Detect == ReadQuotes \o ReadQuotes \o Touch("markets")

KalshiWsQuote ==
  Update("kalshi_quotes") \o Update("kalshi_ws_at") \o Update("markets") \o Detect

\* The quote and its time stamp are replaced together.
PolyWsStamp ==
  <<Write("poly_quotes"), Write("poly_ws_at"), Free("poly_ws_at"), Free("poly_quotes")>>

PolyWsQuote ==
  Update("markets") \o PolyWsStamp \o Detect

KalshiRestQuotes ==
  Touch("kalshi_ws_at") \o Update("markets") \o Update("kalshi_quotes") \o Detect

PolyRestQuotes ==
  Touch("poly_ws_at") \o Update("markets") \o Update("poly_quotes") \o Detect

\* get_data_coverage and get_matched_markets_for_frontend
Coverage ==
  <<Read("markets"), Read("kalshi_quotes"), Read("poly_quotes"),
    Free("poly_quotes"), Free("kalshi_quotes"), Free("markets")>>

Eligibility == Touch("markets") \o ReadQuotes \o Touch("markets")

AddMarkets ==
  <<Write("markets"), Write("lookup"), Free("lookup"), Free("markets")>>

\* One market is found to be over.
RemoveEnded ==
  Touch("markets") \o ReadQuotes \o Update("markets")
  \o <<Write("lookup"), Read("markets"), Free("markets"), Free("lookup")>>
  \o Update("kalshi_quotes") \o Update("poly_quotes") \o Touch("markets")

\* The three guards are temporaries of one tail expression.
WsStats ==
  <<Read("poly_ws_at"), Read("kalshi_ws_at"), Read("markets"),
    Free("markets"), Free("kalshi_ws_at"), Free("poly_ws_at")>>

Calls ==
  [ kalshi_ws_quote |-> KalshiWsQuote, poly_ws_quote |-> PolyWsQuote,
    kalshi_rest_quotes |-> KalshiRestQuotes, poly_rest_quotes |-> PolyRestQuotes,
    coverage |-> Coverage, eligibility |-> Eligibility,
    add_markets |-> AddMarkets, remove_ended |-> RemoveEnded, ws_stats |-> WsStats ]

ASSUME RunsAssumption == Runs \in [Tasks -> SUBSET DOMAIN Calls]

-----------------------------------------------------------------------------
VARIABLES
  call,     \* the call each task is in, "none" when it is in none
  at,       \* the next operation of that call
  readers,  \* the tasks inside each lock as readers
  writer    \* the task that claimed or holds each lock, as a set

vars == <<call, at, readers, writer>>

TypeOK ==
  /\ call \in [Tasks -> DOMAIN Calls \cup {"none"}]
  /\ at \in [Tasks -> Nat]
  /\ readers \in [Locks -> SUBSET Tasks]
  /\ writer \in [Locks -> SUBSET Tasks]
  /\ \A t \in Tasks :
       IF call[t] = "none" THEN at[t] = 1 ELSE at[t] \in 1..Len(Calls[call[t]])

Init ==
  /\ call = [t \in Tasks |-> "none"]
  /\ at = [t \in Tasks |-> 1]
  /\ readers = [l \in Locks |-> {}]
  /\ writer = [l \in Locks |-> {}]

Busy(t) == call[t] # "none"
Op(t) == Calls[call[t]][at[t]]

Enter(t) ==
  /\ ~Busy(t)
  /\ \E c \in Runs[t] : call' = [call EXCEPT ![t] = c]
  /\ UNCHANGED <<at, readers, writer>>

\* The task goes on with its next operation, or its call returns.
Advance(t) ==
  IF at[t] = Len(Calls[call[t]])
  THEN at' = [at EXCEPT ![t] = 1] /\ call' = [call EXCEPT ![t] = "none"]
  ELSE at' = [at EXCEPT ![t] = @ + 1] /\ UNCHANGED call

\* A reader is let in only when no writer has claimed the lock.
AcquireRead(t) ==
  /\ Busy(t) /\ Op(t).kind = "read" /\ writer[Op(t).lock] = {}
  /\ readers' = [readers EXCEPT ![Op(t).lock] = @ \cup {t}]
  /\ Advance(t)
  /\ UNCHANGED writer

Claim(t) ==
  /\ Busy(t) /\ Op(t).kind = "write" /\ writer[Op(t).lock] = {}
  /\ writer' = [writer EXCEPT ![Op(t).lock] = {t}]
  /\ UNCHANGED <<call, at, readers>>

AcquireWrite(t) ==
  /\ Busy(t) /\ Op(t).kind = "write"
  /\ writer[Op(t).lock] = {t} /\ readers[Op(t).lock] = {}
  /\ Advance(t)
  /\ UNCHANGED <<readers, writer>>

ReleaseRead(t) == \* mutant: a writer's guard is leaked
  /\ Busy(t) /\ Op(t).kind = "free"
  /\ readers' = [readers EXCEPT ![Op(t).lock] = @ \ {t}]
  /\ Advance(t)
  /\ UNCHANGED writer

Release(t) ==
  /\ Busy(t) /\ Op(t).kind = "free"
  /\ readers' = [readers EXCEPT ![Op(t).lock] = @ \ {t}]
  /\ writer' = [writer EXCEPT ![Op(t).lock] = @ \ {t}]
  /\ Advance(t)

\* The task goes on in its call.
Move(t) == AcquireRead(t) \/ Claim(t) \/ AcquireWrite(t) \/ Release(t)

Next == \E t \in Tasks : Enter(t) \/ Move(t)

Spec == Init /\ [][Next]_vars

\* Threads run, and parking_lot hands a contended lock over fairly from time
\* to time, so that nobody who asks for it again and again is starved.
Fairness == \A t \in Tasks : SF_vars(Move(t))

FairSpec == Spec /\ Fairness

-----------------------------------------------------------------------------
(* What a call holds.                                                      *)

\* The locks a call holds, by its text, before its operation n.
HeldBefore(c, n) ==
  {l \in Locks : \E i \in 1..(n - 1) :
     /\ c[i].lock = l /\ c[i].kind # "free"
     /\ \A j \in (i + 1)..(n - 1) : c[j] # Free(l)}

\* What a task holds, by the text of its call.
Holding(t) == IF Busy(t) THEN HeldBefore(Calls[call[t]], at[t]) ELSE {}

\* The locks know no task that does not hold or claim them by its text.
HoldInv ==
  \A t \in Tasks : \A l \in Locks :
    /\ t \in readers[l] => l \in Holding(t)
    /\ t \in writer[l] => l \in Holding(t) \/ (Busy(t) /\ Op(t) = Write(l))

-----------------------------------------------------------------------------
(* Properties.                                                             *)

\* The tasks that have to go on before t can.
WaitsFor(t) ==
  IF ~Busy(t) \/ Op(t).kind = "free" THEN {}
  ELSE IF Op(t).kind = "write" /\ t \in writer[Op(t).lock]
       THEN readers[Op(t).lock]
       ELSE writer[Op(t).lock]

\* The groups of tasks none of which goes on before another of them does.
Circles == {D \in (SUBSET Tasks) \ {{}} : \A t \in D : WaitsFor(t) \cap D # {}}

\* The task is about to ask for a lock while it holds another.
Asks(t, held, op) == Busy(t) /\ held \in Holding(t) /\ Op(t) = op

\* The scanner has the list of markets and asks for the map (markets.rs:88),
\* the clean-up has the map and asks for the list (market_lifecycle.rs:160).
ListAndMap(D) ==
  \E s, r \in D : Asks(s, "markets", Write("lookup")) /\ Asks(r, "lookup", Read("markets"))

\* A price of Polymarket has the quotes and asks for the time stamps, the
\* statistics line has a time stamp and asks for the list (polymarket_feed.rs:105).
QuotesAndStamps(D) ==
  \E q, s \in D :
    /\ Asks(q, "poly_quotes", Write("poly_ws_at"))
    /\ \E l \in {"poly_ws_at", "kalshi_ws_at"} : Asks(s, l, Read("markets"))

\* Two pairs of requests can close a circle of waiting tasks and nothing else can,
\* with all calls of the manager and waiting writers: what the dropped guard of
\* calculate_and_notify (detection.rs:130) and the snapshot of
\* remove_ended_markets (market_lifecycle.rs:111) are there for, and what the
\* watchdog of main.rs would report as a lock cycle.
TwoCircles == \A D \in Circles : ListAndMap(D) \/ QuotesAndStamps(D)

\* No group of tasks waits for itself. It holds of instances whose calls do not
\* have both ends of one of those pairs.
NoLockCycle == Circles = {}

\* Every call of the manager returns, so that no task stops working, unless one
\* of the two circles closes.
CallsReturn == \A t \in Tasks : Busy(t) ~> (~Busy(t) \/ Circles # {})
=============================================================================
