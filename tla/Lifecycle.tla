------------------------------ MODULE Lifecycle ------------------------------
(***************************************************************************)
(* How a matched market comes and goes: the scanner that adds it           *)
(* (runner.rs, service.rs), the quote cycles that see it end on an         *)
(* exchange (websocket_manager/quotes.rs), and the clean-up that removes   *)
(* it (websocket_manager/market_lifecycle.rs).                             *)
(*                                                                         *)
(* The prices a check of the clean-up meets are inputs: none fresh,        *)
(* normal, or extreme on both exchanges. A start of the process is Init.   *)
(***************************************************************************)
EXTENDS Naturals, FiniteSets

CONSTANTS
  Markets,
  MissingCycles,   \* polymarket_missing_cycles
  ExtremeMinutes   \* extreme_duration_mins

ASSUME LifecycleAssumption ==
  MissingCycles \in Nat \ {0} /\ ExtremeMinutes \in Nat \ {0}

VARIABLES
  offered,   \* the exchanges: markets that a scan would match
  closed,    \* the exchanges: closed or settled on Kalshi
  served,    \* ArbitrageService.matched_markets
  list,      \* WebSocketManager.matched_markets
  scan,      \* the scanner
  streak,    \* poly_missing_streak
  detected,  \* ended_market_detection: 0, or 1 + the minutes since then
  confirmed, \* confirmed_ended_markets
  cleaner,   \* remove_ended_markets
  missed,    \* history: answers in a row without the market (to MissingCycles)
  seen       \* history: minutes since prices of the market not extreme, or its
             \* coming into the list (to ExtremeMinutes)

exchanges == <<offered, closed>>
vars == <<offered, closed, served, list, scan, streak, detected, confirmed, cleaner,
          missed, seen>>

NoScan == [at |-> "idle", markets |-> {}]
Resting == [at |-> "idle", todo |-> {}, ended |-> {}]

TypeOK ==
  /\ offered \subseteq Markets /\ closed \subseteq Markets
  /\ served \subseteq Markets /\ list \subseteq Markets /\ confirmed \subseteq Markets
  /\ scan \in [at : {"idle", "fetched", "adding"}, markets : SUBSET Markets]
  /\ cleaner \in [at : {"idle", "check", "clear"}, todo : SUBSET Markets, ended : SUBSET Markets]
  /\ streak \in [Markets -> 0..(MissingCycles - 1)]
  /\ missed \in [Markets -> 0..MissingCycles]
  /\ detected \in [Markets -> 0..(ExtremeMinutes + 1)]
  /\ seen \in [Markets -> 0..ExtremeMinutes]

\* The first scan, as initialize applies it to the service and the manager.
Init ==
  /\ offered \in SUBSET Markets /\ closed \in SUBSET (Markets \ offered)
  /\ served = offered /\ list = offered /\ scan = NoScan
  /\ streak = [m \in Markets |-> 0] /\ detected = [m \in Markets |-> 0]
  /\ confirmed = {} /\ cleaner = Resting
  /\ missed = [m \in Markets |-> 0] /\ seen = [m \in Markets |-> 0]

-----------------------------------------------------------------------------
(* The exchanges.                                                            *)

Offer(S) ==
  /\ S \subseteq Markets \ closed /\ S # offered /\ offered' = S
  /\ UNCHANGED <<closed, served, list, scan, streak, detected, confirmed, cleaner, missed, seen>>

Close(m) ==
  /\ m \notin closed /\ closed' = closed \cup {m} /\ offered' = offered \ {m}
  /\ UNCHANGED <<served, list, scan, streak, detected, confirmed, cleaner, missed, seen>>

Sooner(n, max) == IF n < max THEN n + 1 ELSE n

Minute ==
  /\ detected' = [m \in Markets |->
                    IF detected[m] = 0 THEN 0 ELSE Sooner(detected[m], ExtremeMinutes + 1)]
  /\ seen' = [m \in Markets |-> Sooner(seen[m], ExtremeMinutes)]
  /\ UNCHANGED <<offered, closed, served, list, scan, streak, confirmed, cleaner, missed>>

-----------------------------------------------------------------------------
(* The quote cycles; a cycle whose request fails changes nothing here.       *)

\* update_kalshi_rest_quotes_at, with an answer that may not know yet of all
\* that closed.
KalshiCycleServed(known) == \* mutant: it goes by the markets of the last scan
  /\ confirmed' = confirmed \cup (served \cap known)
  /\ UNCHANGED <<exchanges, served, list, scan, streak, detected, cleaner, missed, seen>>

KalshiCycle(known) ==
  /\ confirmed' = confirmed \cup (list \cap known)
  /\ UNCHANGED <<exchanges, served, list, scan, streak, detected, cleaner, missed, seen>>

\* update_polymarket_rest_quotes_at, with an answer without some markets: the
\* request for the series of one sport may fail without failing the others
\* (clients/polymarket/events.rs), and a market whose quote is out of bounds is
\* left out, so the answer may lack markets that are listed.
StreaksKept(absent) == \* mutant: an answer with the market does not clear its streak
  [m \in Markets |-> IF m \in list \cap absent THEN streak[m] + 1 ELSE streak[m]]

Streaks(absent) ==
  [m \in Markets |-> IF m \notin list THEN streak[m]
                     ELSE IF m \in absent THEN streak[m] + 1 ELSE 0]

PolymarketCycle(absent) ==
  LET gone == {m \in list \cap absent : Streaks(absent)[m] >= MissingCycles}
  IN  /\ streak' = [m \in Markets |-> IF m \in gone THEN 0 ELSE Streaks(absent)[m]]
      /\ confirmed' = confirmed \cup gone
      /\ missed' = [m \in Markets |->
                      IF m \in absent THEN Sooner(missed[m], MissingCycles) ELSE 0]
      /\ UNCHANGED <<exchanges, served, list, scan, detected, cleaner, seen>>

-----------------------------------------------------------------------------
(* The scanner: fetch without the lock, apply to the service under its       *)
(* write lock, and then add what is new to the manager. A fetch that fails   *)
(* changes nothing; one that lost a series lacks the markets of it.          *)

fetch_market_snapshot(lost) ==
  /\ scan.at = "idle" /\ scan' = [at |-> "fetched", markets |-> offered \ lost]
  /\ UNCHANGED <<exchanges, served, list, streak, detected, confirmed, cleaner, missed, seen>>

NewAfterApply == scan.markets \ (served \cup scan.markets) \* mutant: compared too late

NewMarkets == scan.markets \ served

apply_market_snapshot ==
  /\ scan.at = "fetched" /\ served' = scan.markets
  /\ scan' = IF NewMarkets = {} THEN NoScan ELSE [at |-> "adding", markets |-> NewMarkets]
  /\ UNCHANGED <<exchanges, list, streak, detected, confirmed, cleaner, missed, seen>>

add_matched_markets ==
  /\ scan.at = "adding" /\ list' = list \cup scan.markets /\ scan' = NoScan
  /\ seen' = [m \in Markets |-> IF m \in scan.markets \ list THEN 0 ELSE seen[m]]
  /\ UNCHANGED <<exchanges, served, streak, detected, confirmed, cleaner, missed>>

-----------------------------------------------------------------------------
(* The clean-up: it looks at the markets one at a time, removes those that   *)
(* ended, and then drops what is kept of them.                               *)

StartCleaning ==
  /\ cleaner.at = "idle" /\ list # {}
  /\ cleaner' = [Resting EXCEPT !.at = "check", !.todo = list]
  /\ UNCHANGED <<exchanges, served, list, scan, streak, detected, confirmed, missed, seen>>

LongExtreme(m) == detected[m] >= ExtremeMinutes + 1

check_without_confirming(m, prices) == \* mutant: a market long extreme goes unrecorded
  LET known == m \in confirmed
      extreme == ~known /\ prices = "extreme"
      ended == known \/ (extreme /\ LongExtreme(m))
  IN  /\ UNCHANGED confirmed
      /\ detected' = [detected EXCEPT ![m] =
                        IF extreme /\ @ = 0 THEN 1
                        ELSE IF ~known /\ prices = "normal" THEN 0 ELSE @]
      /\ seen' = [seen EXCEPT ![m] = IF ~known /\ prices = "normal" THEN 0 ELSE @]
      /\ cleaner' = [cleaner EXCEPT !.todo = @ \ {m},
                                    !.ended = IF ended THEN @ \cup {m} ELSE @]

check_market_ended(m, prices) ==
  LET known == m \in confirmed
      extreme == ~known /\ prices = "extreme"
      ended == known \/ (extreme /\ LongExtreme(m))
  IN  /\ confirmed' = IF ended THEN confirmed \cup {m} ELSE confirmed
      /\ detected' = [detected EXCEPT ![m] =
                        IF extreme /\ @ = 0 THEN 1
                        ELSE IF ~known /\ prices = "normal" THEN 0 ELSE @]
      /\ seen' = [seen EXCEPT ![m] = IF ~known /\ prices = "normal" THEN 0 ELSE @]
      /\ cleaner' = [cleaner EXCEPT !.todo = @ \ {m},
                                    !.ended = IF ended THEN @ \cup {m} ELSE @]

Check(m, prices) ==
  /\ cleaner.at = "check" /\ m \in cleaner.todo
  /\ check_market_ended(m, prices)
  /\ UNCHANGED <<exchanges, served, list, scan, streak, missed>>

RemoveEnded ==
  /\ cleaner.at = "check" /\ cleaner.todo = {}
  /\ list' = list \ cleaner.ended
  /\ cleaner' = IF cleaner.ended = {} THEN Resting ELSE [cleaner EXCEPT !.at = "clear"]
  /\ UNCHANGED <<exchanges, served, scan, streak, detected, confirmed, missed, seen>>

ClearEnded ==
  /\ cleaner.at = "clear" /\ cleaner' = Resting
  /\ detected' = [m \in Markets |-> IF m \in cleaner.ended THEN 0 ELSE detected[m]]
  /\ streak' = [m \in Markets |-> IF m \in cleaner.ended THEN 0 ELSE streak[m]]
  /\ UNCHANGED <<exchanges, served, list, scan, confirmed, missed, seen>>

-----------------------------------------------------------------------------
Prices == {"none", "normal", "extreme"}

Scanner ==
  \/ \E lost \in SUBSET offered : fetch_market_snapshot(lost)
  \/ apply_market_snapshot \/ add_matched_markets
Cleaner == StartCleaning \/ (\E m \in Markets, p \in Prices : Check(m, p)) \/ RemoveEnded \/ ClearEnded

Next ==
  \/ \E S \in SUBSET Markets : Offer(S)
  \/ \E m \in Markets : Close(m)
  \/ Minute
  \/ \E known \in SUBSET closed : KalshiCycle(known)
  \/ \E absent \in SUBSET Markets : PolymarketCycle(absent)
  \/ Scanner \/ Cleaner

Spec == Init /\ [][Next]_vars

\* The scanner and the clean-up are loops on a timer, their requests do not
\* all fail, and the Kalshi cycle comes to know of what closed.
FairSpec ==
  /\ Spec /\ WF_vars(Scanner) /\ SF_vars(fetch_market_snapshot({}))
  /\ WF_vars(Cleaner) /\ WF_vars(KalshiCycle(closed))

-----------------------------------------------------------------------------
(* Properties.                                                               *)

\* The service asks the manager only to add what was not in the scan before,
\* so what it holds and the manager does not is what the clean-up removed or
\* a scan is about to add: no market is lost between the two copies.
ServedOrEnded == served \ list \subseteq confirmed \cup scan.markets

\* A market is taken for ended only for a reason: it closed on Kalshi, the last
\* answers of Polymarket were all without it, or its prices have not been seen
\* but extreme for the time set, since it is in the list.
EndedForAReason ==
  [][\A m \in confirmed' \ confirmed :
       \/ m \in closed \/ missed'[m] >= MissingCycles \/ seen[m] >= ExtremeMinutes]_vars

\* The comment of update_polymarket_rest_quotes_at: a market that the answers
\* lack is one that Polymarket no longer lists. A market that both exchanges
\* offer, and whose prices are not extreme, is not taken for ended.
EndedMeansUnlisted ==
  [][\A m \in confirmed' \ confirmed :
       m \in closed \/ m \notin offered \/ seen[m] >= ExtremeMinutes]_vars

\* A market that closed on Kalshi leaves the list for good.
ClosedLeaves == \A m \in Markets : <>[](m \in closed) => <>[](m \notin list)

\* A market that the exchanges offer from some time on comes into the list to
\* stay, unless it was taken for ended.
OfferedIsServed ==
  \A m \in Markets : <>[](m \in offered) => <>[](m \in list \cup confirmed)

=============================================================================
