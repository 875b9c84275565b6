----------------------------- MODULE AutoTrader -----------------------------
(***************************************************************************)
(* The auto-trade loop of strategies/sports_arb/runner.rs: the task that   *)
(* queues tracked opportunities, the task that executes them one at a time *)
(* and the manual route beside them, with the state they share in          *)
(* WebSocketManager and in auto_trade_state.                               *)
(*                                                                         *)
(* An attempt is one call of submit_paired_order, whose steps are those of *)
(* module PairedExecution; here it has an outcome.  An eligibility check   *)
(* finds the market's index in the list and uses it later, so that the     *)
(* list may have changed by then.  New markets go to the end of the list   *)
(* and move no index; they are there from the start.                       *)
(***************************************************************************)
EXTENDS Integers, Sequences, FiniteSets, SequencesExt

CONSTANTS
  Keys,        \* market keys
  Listed,      \* the matched markets at process start, a sequence of keys
  Manual,      \* requests of the manual route that may be open at once
  ManualKey,   \* the market each of them names
  MaxTrades,   \* auto_trade_state.max_trade_count
  Volatile,    \* markets whose quotes may be missing or stale
  Excludable,  \* markets the operator may exclude
  Removable    \* markets that may end

ASSUME KeysAssumption ==
  /\ Listed \in Seq(Keys) /\ IsInjective(Listed)
  /\ Volatile \subseteq Keys /\ Excludable \subseteq Keys /\ Removable \subseteq Keys
ASSUME ManualAssumption ==
  ManualKey \in [Manual -> Keys] /\ IsFiniteSet(Manual) /\ "none" \notin Keys
ASSUME LimitAssumption == MaxTrades \in Nat

Tasks == {"queue", "exec"}
Outcomes == {"executed", "other", "exposed", "unrecorded", "refused"}

VARIABLES
  enabled,   \* auto_trade_state.enabled, durable
  count,     \* auto_trade_state.trade_count, durable
  excluded,  \* excluded_markets, durable
  markets,   \* matched_markets
  fresh,     \* markets with fresh quotes and a live Polymarket price
  ripe,      \* keys tracked for min_duration_ms
  marked,    \* auto_traded_opportunities
  queue,     \* auto_trade_queue
  todo,      \* tracked keys the queue task still has to look at
  at, key, idx,  \* where each task is, its key, the index it found
  manual,    \* where each manual request is
  resetting, \* reset_trade_count has reset the count and not yet the marks
  spent      \* history: keys an automatic attempt may not trade again

durable == <<enabled, count, excluded>>
market == <<markets, fresh, ripe>>
tasks == <<at, key, idx>>
vars == <<durable, market, marked, queue, todo, tasks, manual, resetting, spent>>

TypeOK ==
  /\ enabled \in BOOLEAN /\ count \in Nat /\ excluded \subseteq Keys
  /\ markets \in Seq(Keys) /\ fresh \subseteq Keys /\ ripe \subseteq Keys
  /\ marked \subseteq Keys /\ queue \in Seq(Keys) /\ todo \subseteq Keys
  /\ at \in [Tasks -> {"idle", "ready", "index", "eligible",
                       "flying", "dead"}]
  /\ key \in [Tasks -> Keys \cup {"none"}]
  /\ idx \in [Tasks -> Nat]
  /\ manual \in [Manual -> {"idle", "open"}]
  /\ resetting \in BOOLEAN /\ spent \subseteq Keys
  /\ \A t \in Tasks : at[t] = "idle" <=> key[t] = "none"

Steady == ToSet(Listed) \ Volatile

Init ==
  /\ enabled = FALSE /\ count = 0 /\ excluded = {}
  /\ markets = Listed /\ fresh = Steady /\ ripe = {}
  /\ marked = {} /\ queue = <<>> /\ todo = {}
  /\ at = [t \in Tasks |-> "idle"]
  /\ key = [t \in Tasks |-> "none"]
  /\ idx = [t \in Tasks |-> 0]
  /\ manual = [m \in Manual |-> "idle"]
  /\ resetting = FALSE /\ spent = {}

-----------------------------------------------------------------------------
(* Moving a task.                                                          *)

Goto(t, step) == at' = [at EXCEPT ![t] = step] /\ UNCHANGED <<key, idx>>

\* The task is done with its key.
Leave(t) ==
  /\ at' = [at EXCEPT ![t] = "idle"]
  /\ key' = [key EXCEPT ![t] = "none"]
  /\ idx' = [idx EXCEPT ![t] = 0]

-----------------------------------------------------------------------------
(* check_auto_trade_eligibility, in the order it reads.                    *)

UnderLimit == count < MaxTrades

LookUncounted(t, k) == \* mutant: the trade count is not looked at
  IF enabled /\ k \notin excluded /\ Contains(markets, k)
  THEN /\ at' = [at EXCEPT ![t] = "ready"]
       /\ key' = [key EXCEPT ![t] = k]
       /\ \E i \in DOMAIN markets : markets[i] = k /\ idx' = [idx EXCEPT ![t] = i]
  ELSE UNCHANGED tasks

\* The state is read once; then the position of the market is looked up.
Look(t, k) ==
  IF enabled /\ k \notin excluded /\ UnderLimit /\ Contains(markets, k)
  THEN /\ at' = [at EXCEPT ![t] = "ready"]
       /\ key' = [key EXCEPT ![t] = k]
       /\ \E i \in DOMAIN markets : markets[i] = k /\ idx' = [idx EXCEPT ![t] = i]
  ELSE UNCHANGED tasks

\* is_market_ready(market_idx) checks the index against the list.
Ready(t) ==
  /\ at[t] = "ready"
  /\ IF idx[t] \in DOMAIN markets /\ markets[idx[t]] \in fresh
     THEN Goto(t, "index") ELSE Leave(t)
  /\ UNCHANGED <<durable, market, marked, queue, todo, manual, resetting, spent>>

\* The list is indexed again, unchecked: past its end the task panics.
Index(t) ==
  /\ at[t] = "index"
  /\ IF idx[t] \notin DOMAIN markets THEN Goto(t, "dead")
     ELSE IF markets[idx[t]] \in fresh /\ key[t] \notin marked
          THEN Goto(t, "eligible") ELSE Leave(t)
  /\ UNCHANGED <<durable, market, marked, queue, todo, manual, resetting, spent>>

-----------------------------------------------------------------------------
(* The queue task.                                                         *)

\* check_and_queue_auto_trade takes a copy of the tracked records.
QueueTick ==
  /\ at["queue"] = "idle" /\ todo = {}
  /\ enabled /\ UnderLimit
  /\ todo' = ripe
  /\ UNCHANGED <<durable, market, marked, queue, tasks, manual, resetting, spent>>

QueueNext ==
  /\ at["queue"] = "idle"
  /\ \E k \in todo : Look("queue", k) /\ todo' = todo \ {k}
  /\ UNCHANGED <<durable, market, marked, queue, manual, resetting, spent>>

QueuePushFront == \* mutant: the newest opportunity goes first
  /\ at["queue"] = "eligible"
  /\ queue' = IF Contains(queue, key["queue"]) THEN queue ELSE <<key["queue"]>> \o queue
  /\ Leave("queue")
  /\ UNCHANGED <<durable, market, marked, todo, manual, resetting, spent>>

QueuePush ==
  /\ at["queue"] = "eligible"
  /\ queue' = IF Contains(queue, key["queue"]) THEN queue ELSE Append(queue, key["queue"])
  /\ Leave("queue")
  /\ UNCHANGED <<durable, market, marked, todo, manual, resetting, spent>>

-----------------------------------------------------------------------------
(* The executor.                                                           *)

\* The first key is taken off the queue, and dropped when it is not tracked
\* any more.
ExecTake ==
  /\ at["exec"] = "idle" /\ queue # <<>>
  /\ queue' = Tail(queue)
  /\ IF Head(queue) \in ripe THEN Look("exec", Head(queue)) ELSE UNCHANGED tasks
  /\ UNCHANGED <<durable, market, marked, todo, manual, resetting, spent>>

\* No opportunity, a suspended game, no fresh book, a veto, no profitable
\* size, or a sport that is only detected.
ExecSkip ==
  /\ at["exec"] = "eligible"
  /\ Leave("exec")
  /\ UNCHANGED <<durable, market, marked, queue, todo, manual, resetting, spent>>

ExecSubmit ==
  /\ at["exec"] = "eligible"
  /\ Goto("exec", "flying")
  /\ UNCHANGED <<durable, market, marked, queue, todo, manual, resetting, spent>>

\* submit_paired_order halts trading when it leaves an exposure or could not
\* record an acknowledgement; the write that halts it may fail.
Halts(o) == o \in {"exposed", "unrecorded"}

HaltAfter(o) == IF Halts(o) THEN enabled' \in {FALSE, enabled} ELSE UNCHANGED enabled

MarksExecuted(o) == \* mutant: only a complete trade is marked
  o = "executed"
\* An attempt that ended safe is marked, whatever it traded.
Marks(o) == o \in {"executed", "other"}

\* increment_trade_count of a complete trade; a failed write is logged.
Counts(o) == IF o = "executed" THEN count' \in {count, count + 1} ELSE UNCHANGED count

ExecOutcome(o) ==
  /\ at["exec"] = "flying"
  /\ HaltAfter(o)
  /\ marked' = IF Marks(o) THEN marked \cup {key["exec"]} ELSE marked
  /\ Counts(o)
  /\ Leave("exec")
  /\ spent' = IF o = "refused" \/ (Halts(o) /\ enabled') THEN spent ELSE spent \cup {key["exec"]}
  /\ UNCHANGED <<excluded, market, queue, todo, manual, resetting>>

-----------------------------------------------------------------------------
(* The manual route: the exclusion and the count are checked, enabled is   *)
(* not, and nothing is marked.                                             *)

ManualGoto(m, step) ==
  /\ manual' = [manual EXCEPT ![m] = step]
  /\ UNCHANGED <<market, marked, queue, todo, tasks, resetting, spent>>

ManualCheck(m) ==
  /\ manual[m] = "idle"
  /\ Contains(Listed, ManualKey[m]) /\ ManualKey[m] \notin excluded /\ UnderLimit
  /\ ManualGoto(m, "open") /\ UNCHANGED durable

ManualOutcome(m, o) ==
  /\ manual[m] = "open"
  /\ HaltAfter(o) /\ Counts(o) /\ UNCHANGED excluded
  /\ ManualGoto(m, "idle")

\* A dry run or a rejection; or the client is gone and the handler with it.
ManualEnd(m) ==
  /\ manual[m] = "open"
  /\ ManualGoto(m, "idle") /\ UNCHANGED durable

-----------------------------------------------------------------------------
(* Quotes, detection and the end of a market.                              *)

Detect(k) ==
  /\ Contains(markets, k) /\ k \in fresh /\ k \notin ripe
  /\ ripe' = ripe \cup {k}
  /\ UNCHANGED <<durable, markets, fresh, marked, queue, todo, tasks, manual, resetting, spent>>

EndTracking(k) ==
  /\ k \in ripe /\ k \in fresh
  /\ ripe' = ripe \ {k}
  /\ UNCHANGED <<durable, markets, fresh, marked, queue, todo, tasks, manual, resetting, spent>>

Quote(k) ==
  /\ k \notin fresh /\ Contains(markets, k)
  /\ fresh' = fresh \cup {k}
  /\ UNCHANGED <<durable, markets, ripe, marked, queue, todo, tasks, manual, resetting, spent>>

\* A key stays tracked when its quotes are stale.
GoStale(k) ==
  /\ k \in Volatile \cap fresh
  /\ fresh' = fresh \ {k}
  /\ UNCHANGED <<durable, markets, ripe, marked, queue, todo, tasks, manual, resetting, spent>>

\* remove_ended_markets; queue and marks are left as they are.
RemoveMarket(k) ==
  /\ k \in Removable
  /\ \E i \in DOMAIN markets : markets[i] = k /\ markets' = RemoveAt(markets, i)
  /\ fresh' = fresh \ {k} /\ ripe' = ripe \ {k}
  /\ UNCHANGED <<durable, marked, queue, todo, tasks, manual, resetting, spent>>

-----------------------------------------------------------------------------
(* The operator, and a restart.                                            *)

others == <<market, queue, todo, tasks, manual>>

\* Enabling is the operator's word that an exposure is dealt with.
Enable ==
  /\ ~enabled /\ enabled' = TRUE
  /\ spent' = spent \cap marked
  /\ UNCHANGED <<count, excluded, marked, resetting, others>>

Disable ==
  /\ enabled /\ enabled' = FALSE
  /\ UNCHANGED <<count, excluded, marked, resetting, spent, others>>

Exclude(k) ==
  /\ k \in Excludable
  /\ excluded' = IF k \in excluded THEN excluded \ {k} ELSE excluded \cup {k}
  /\ UNCHANGED <<enabled, count, marked, resetting, spent, others>>

ResetCount ==
  /\ ~resetting /\ resetting' = TRUE
  /\ count' = 0
  /\ UNCHANGED <<enabled, excluded, marked, spent, others>>

ResetMarks ==
  /\ resetting /\ resetting' = FALSE
  /\ marked' = {}
  /\ spent' = spent \ marked
  /\ UNCHANGED <<durable, others>>

\* Everything in memory is lost; a row that is still submitting, of the
\* executor or of an open or earlier request, disables.
Restart ==
  /\ IF at["exec"] = "flying" THEN enabled' = FALSE ELSE enabled' \in {enabled, FALSE}
  /\ markets' = Listed /\ fresh' = Steady /\ ripe' = {}
  /\ marked' = {} /\ queue' = <<>> /\ todo' = {}
  /\ at' = [t \in Tasks |-> "idle"]
  /\ key' = [t \in Tasks |-> "none"]
  /\ idx' = [t \in Tasks |-> 0]
  /\ manual' = [m \in Manual |-> "idle"]
  /\ resetting' = FALSE
  /\ spent' = {}
  /\ UNCHANGED <<count, excluded>>

-----------------------------------------------------------------------------
Check(t) == Ready(t) \/ Index(t)
QueueTask == QueueTick \/ QueueNext \/ QueuePush
Executor ==
  \/ ExecTake \/ ExecSkip \/ ExecSubmit
  \/ \E o \in Outcomes : ExecOutcome(o)
ManualRoute ==
  \E m \in Manual :
    \/ ManualCheck(m) \/ ManualEnd(m)
    \/ \E o \in Outcomes : ManualOutcome(m, o)
Feeds ==
  \E k \in Keys :
    Detect(k) \/ EndTracking(k) \/ Quote(k) \/ GoStale(k) \/ RemoveMarket(k)
Operator ==
  Enable \/ Disable \/ ResetCount \/ ResetMarks \/ \E k \in Keys : Exclude(k)

Next ==
  \/ \E t \in Tasks : Check(t)
  \/ QueueTask \/ Executor \/ ManualRoute \/ Feeds \/ Operator \/ Restart

Spec == Init /\ [][Next]_vars

\* The two loops run, and an attempt returns (AttemptsReturn of module
\* PairedExecution).
Fairness == WF_vars(Check("queue") \/ QueueTask) /\ WF_vars(Check("exec") \/ Executor)

FairSpec == Spec /\ Fairness

-----------------------------------------------------------------------------
(* Properties.                                                             *)

\* The executor sends no second attempt on a market after one that traded or
\* may have traded, unless the marks were reset, the process restarted, the
\* halt could not be written, or an operator enabled trading again after it.
NoSecondTrade == [][ExecSubmit => key["exec"] \notin spent]_vars

\* Each open manual request can take the count at most one past the limit
\* max_trade_count; the executor alone never passes it.
CountWithinLimit == count <= MaxTrades + Cardinality(Manual)

\* No key waits twice, so that a full queue has one place for every market
\* and no opportunity is checked behind its own copy.
QueuedOnce == IsInjective(queue)

Eligible(k) ==
  /\ enabled /\ UnderLimit /\ k \notin excluded
  /\ Contains(markets, k) /\ k \in fresh /\ k \in ripe /\ k \notin marked

\* An opportunity that stays eligible reaches the executor, whatever becomes
\* of the others, unless a panic ended one of the two loops.
EligibleIsTried ==
  \A k \in Keys :
    []<>(~Eligible(k) \/ key["exec"] = k \/ \E t \in Tasks : at[t] = "dead")
=============================================================================
