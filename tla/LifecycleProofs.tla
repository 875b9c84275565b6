--------------------------- MODULE LifecycleProofs ---------------------------
(***************************************************************************)
(* The lifecycle of a matched market, for any markets, scans, answers,     *)
(* prices and limits: the types, that no market is lost between the two    *)
(* copies of the list, and that a market ends for a reason.                *)
(***************************************************************************)
EXTENDS Lifecycle, TLAPS

\* What the clean-up has found to have ended is confirmed, and what it has yet
\* to look at is in the list: only the clean-up takes markets out.
CleanerInv == cleaner.ended \subseteq confirmed /\ cleaner.todo \subseteq list

\* Only a scan that is adding explains that the service has more.
CopiesInv ==
  served \ list \subseteq confirmed \cup (IF scan.at = "adding" THEN scan.markets ELSE {})

\* What counts towards an end is about the time in the list, and never ahead
\* of what really happened.
CountInv ==
  \A m \in Markets \ confirmed :
    /\ streak[m] <= missed[m]
    /\ detected[m] # 0 => detected[m] <= seen[m] + 1
    /\ m \notin list => streak[m] = 0 /\ detected[m] = 0

IInv == TypeOK /\ CleanerInv /\ CopiesInv /\ CountInv

USE LifecycleAssumption

-----------------------------------------------------------------------------
LEMMA InitTypes == Init => TypeOK
BY DEF Init, TypeOK, NoScan, Resting

LEMMA StepTypes == TypeOK /\ [Next]_vars => TypeOK'
<1> SUFFICES ASSUME TypeOK, [Next]_vars PROVE TypeOK'
  OBVIOUS
<1> USE DEF TypeOK
<1>1. ASSUME NEW S \in SUBSET Markets, Offer(S) PROVE TypeOK'
  BY <1>1 DEF Offer
<1>2. ASSUME NEW m \in Markets, Close(m) PROVE TypeOK'
  BY <1>2 DEF Close
<1>3. CASE Minute
  <2>1. detected' \in [Markets -> 0..(ExtremeMinutes + 1)]
    BY <1>3 DEF Minute, Sooner
  <2>2. seen' \in [Markets -> 0..ExtremeMinutes]
    BY <1>3 DEF Minute, Sooner
  <2> QED BY <1>3, <2>1, <2>2 DEF Minute
<1>4. ASSUME NEW known \in SUBSET closed, KalshiCycle(known) PROVE TypeOK'
  BY <1>4 DEF KalshiCycle, exchanges
<1>5. ASSUME NEW absent \in SUBSET Markets, PolymarketCycle(absent) PROVE TypeOK'
  <2> DEFINE gone == {m \in list \cap absent : Streaks(absent)[m] >= MissingCycles}
  <2>1. \A m \in Markets : Streaks(absent)[m] \in 0..MissingCycles
    BY DEF Streaks
  <2>2. \A m \in Markets \ gone : Streaks(absent)[m] \in 0..(MissingCycles - 1)
    BY <2>1 DEF Streaks
  <2>3. streak' = [m \in Markets |-> IF m \in gone THEN 0 ELSE Streaks(absent)[m]]
    BY <1>5 DEF PolymarketCycle
  <2> HIDE DEF gone
  <2>4. streak' \in [Markets -> 0..(MissingCycles - 1)]
    BY <2>2, <2>3
  <2>5. missed' \in [Markets -> 0..MissingCycles]
    BY <1>5 DEF PolymarketCycle, Sooner
  <2>6. confirmed' \subseteq Markets
    BY <1>5 DEF PolymarketCycle
  <2> QED BY <1>5, <2>4, <2>5, <2>6 DEF PolymarketCycle, exchanges
<1>6. ASSUME NEW lost \in SUBSET offered, fetch_market_snapshot(lost) PROVE TypeOK'
  BY <1>6 DEF fetch_market_snapshot, exchanges
<1>7. CASE apply_market_snapshot
  BY <1>7 DEF apply_market_snapshot, exchanges, NoScan, NewMarkets
<1>8. CASE add_matched_markets
  BY <1>8 DEF add_matched_markets, exchanges, NoScan
<1>9. CASE StartCleaning
  BY <1>9 DEF StartCleaning, exchanges, Resting
<1>10. ASSUME NEW m \in Markets, NEW p \in Prices, Check(m, p) PROVE TypeOK'
  <2>1. confirmed' \subseteq Markets
    BY <1>10 DEF Check, check_market_ended
  <2>2. detected' \in [Markets -> 0..(ExtremeMinutes + 1)] /\ seen' \in [Markets -> 0..ExtremeMinutes]
    BY <1>10 DEF Check, check_market_ended
  <2>3. cleaner' \in [at : {"idle", "check", "clear"}, todo : SUBSET Markets, ended : SUBSET Markets]
    BY <1>10 DEF Check, check_market_ended
  <2> QED BY <1>10, <2>1, <2>2, <2>3 DEF Check, exchanges
<1>11. CASE RemoveEnded
  BY <1>11 DEF RemoveEnded, exchanges, Resting
<1>12. CASE ClearEnded
  BY <1>12 DEF ClearEnded, exchanges, Resting
<1>13. CASE UNCHANGED vars
  BY <1>13 DEF vars
<1> QED
  BY <1>1, <1>2, <1>3, <1>4, <1>5, <1>6, <1>7, <1>8, <1>9, <1>10, <1>11, <1>12, <1>13
     DEF Next, Scanner, Cleaner
-----------------------------------------------------------------------------
LEMMA StepCleaner ==
  TypeOK /\ CleanerInv /\ [Next]_vars => CleanerInv'
<1> SUFFICES ASSUME TypeOK, CleanerInv, [Next]_vars PROVE CleanerInv'
  OBVIOUS
<1> USE DEF CleanerInv
<1>1. ASSUME NEW S \in SUBSET Markets, Offer(S) PROVE CleanerInv'
  BY <1>1 DEF Offer
<1>2. ASSUME NEW m \in Markets, Close(m) PROVE CleanerInv'
  BY <1>2 DEF Close
<1>3. CASE Minute
  BY <1>3 DEF Minute
<1>4. ASSUME NEW known \in SUBSET closed, KalshiCycle(known) PROVE CleanerInv'
  BY <1>4 DEF KalshiCycle
<1>5. ASSUME NEW absent \in SUBSET Markets, PolymarketCycle(absent) PROVE CleanerInv'
  <2>1. confirmed \subseteq confirmed' /\ UNCHANGED <<list, cleaner>>
    BY <1>5 DEF PolymarketCycle
  <2> QED BY <2>1
<1>6. ASSUME NEW lost \in SUBSET offered, fetch_market_snapshot(lost) PROVE CleanerInv'
  BY <1>6 DEF fetch_market_snapshot
<1>7. CASE apply_market_snapshot
  BY <1>7 DEF apply_market_snapshot
<1>8. CASE add_matched_markets
  BY <1>8 DEF add_matched_markets
<1>9. CASE StartCleaning
  BY <1>9 DEF StartCleaning, Resting
<1>10. ASSUME NEW m \in Markets, NEW p \in Prices, Check(m, p) PROVE CleanerInv'
  <2> DEFINE ended == m \in confirmed \/ (m \notin confirmed /\ p = "extreme" /\ LongExtreme(m))
  <2>1. confirmed' = IF ended THEN confirmed \cup {m} ELSE confirmed
    BY <1>10 DEF Check, check_market_ended
  <2>2. /\ cleaner'.todo = cleaner.todo \ {m}
        /\ cleaner'.ended = IF ended THEN cleaner.ended \cup {m} ELSE cleaner.ended
    BY <1>10 DEF Check, check_market_ended, TypeOK
  <2>3. list' = list
    BY <1>10 DEF Check
  <2> QED BY <2>1, <2>2, <2>3
<1>11. CASE RemoveEnded
  BY <1>11 DEF RemoveEnded, Resting, TypeOK
<1>12. CASE ClearEnded
  BY <1>12 DEF ClearEnded, Resting
<1>13. CASE UNCHANGED vars
  BY <1>13 DEF vars
<1> QED
  BY <1>1, <1>2, <1>3, <1>4, <1>5, <1>6, <1>7, <1>8, <1>9, <1>10, <1>11, <1>12, <1>13
     DEF Next, Scanner, Cleaner

LEMMA StepCopies ==
  TypeOK /\ CleanerInv /\ CopiesInv /\ [Next]_vars => CopiesInv'
<1> SUFFICES ASSUME TypeOK, CleanerInv, CopiesInv, [Next]_vars PROVE CopiesInv'
  OBVIOUS
<1> USE DEF CopiesInv
\* Nothing but the scanner and the removal touches the two copies, and what is
\* confirmed only grows.
<1>1. ASSUME UNCHANGED <<served, list, scan>>, confirmed \subseteq confirmed'
      PROVE  CopiesInv'
  BY <1>1
<1>2. CASE Scanner
  <2>1. CASE \E lost \in SUBSET offered : fetch_market_snapshot(lost)
    BY <2>1 DEF fetch_market_snapshot
  <2>2. CASE apply_market_snapshot
    <3>1. CASE NewMarkets = {}
      BY <2>2, <3>1 DEF apply_market_snapshot, NewMarkets, NoScan
    <3>2. CASE NewMarkets # {}
      BY <2>2, <3>2 DEF apply_market_snapshot, NewMarkets
    <3> QED BY <3>1, <3>2
  <2>3. CASE add_matched_markets
    BY <2>3 DEF add_matched_markets, NoScan
  <2> QED BY <1>2, <2>1, <2>2, <2>3 DEF Scanner
<1>3. CASE RemoveEnded
  BY <1>3 DEF RemoveEnded, CleanerInv
<1>4. ASSUME NEW absent \in SUBSET Markets, PolymarketCycle(absent) PROVE CopiesInv'
  <2>1. confirmed \subseteq confirmed' /\ UNCHANGED <<served, list, scan>>
    BY <1>4 DEF PolymarketCycle
  <2> QED BY <2>1, <1>1
<1>5. ASSUME NEW m \in Markets, NEW p \in Prices, Check(m, p) PROVE CopiesInv'
  <2>1. confirmed \subseteq confirmed' /\ UNCHANGED <<served, list, scan>>
    BY <1>5 DEF Check, check_market_ended
  <2> QED BY <2>1, <1>1
<1> QED
  BY <1>1, <1>2, <1>3, <1>4, <1>5
     DEF Next, Cleaner, Offer, Close, Minute, KalshiCycle, StartCleaning, ClearEnded, vars

LEMMA StepCount ==
  TypeOK /\ CleanerInv /\ CountInv /\ [Next]_vars => CountInv'
<1> SUFFICES ASSUME TypeOK, CleanerInv, CountInv, [Next]_vars PROVE CountInv'
  OBVIOUS
<1> USE DEF CountInv
<1>1. ASSUME UNCHANGED <<list, streak, detected, missed, seen>>, confirmed \subseteq confirmed'
      PROVE  CountInv'
  <2>1. Markets \ confirmed' \subseteq Markets \ confirmed
    BY <1>1
  <2> QED BY <1>1, <2>1
<1>2. CASE Minute
  <2> SUFFICES ASSUME NEW m \in Markets \ confirmed
               PROVE  /\ streak[m] <= missed[m]
                      /\ detected'[m] # 0 => detected'[m] <= seen'[m] + 1
                      /\ m \notin list => streak[m] = 0 /\ detected'[m] = 0
    BY <1>2 DEF Minute
  <2>1. /\ detected'[m] = IF detected[m] = 0 THEN 0 ELSE Sooner(detected[m], ExtremeMinutes + 1)
        /\ seen'[m] = Sooner(seen[m], ExtremeMinutes)
    BY <1>2 DEF Minute
  <2>2. detected[m] \in 0..(ExtremeMinutes + 1) /\ seen[m] \in 0..ExtremeMinutes
    BY DEF TypeOK
  <2> QED BY <2>1, <2>2 DEF Sooner
<1>3. ASSUME NEW absent \in SUBSET Markets, PolymarketCycle(absent) PROVE CountInv'
  <2> SUFFICES ASSUME NEW m \in Markets, m \notin confirmed'
               PROVE  /\ streak'[m] <= missed'[m]
                      /\ detected[m] # 0 => detected[m] <= seen[m] + 1
                      /\ m \notin list => streak'[m] = 0 /\ detected[m] = 0
    BY <1>3 DEF PolymarketCycle
  <2>1. m \notin confirmed /\ ~(m \in list \cap absent /\ Streaks(absent)[m] >= MissingCycles)
    BY <1>3 DEF PolymarketCycle
  <2>2. /\ streak'[m] = Streaks(absent)[m]
        /\ missed'[m] = IF m \in absent THEN Sooner(missed[m], MissingCycles) ELSE 0
    BY <1>3, <2>1 DEF PolymarketCycle
  <2>3. streak[m] \in 0..(MissingCycles - 1) /\ missed[m] \in 0..MissingCycles
    BY DEF TypeOK
  <2>4. CASE m \notin list
    <3>1. streak'[m] = 0 /\ streak[m] = 0 /\ detected[m] = 0
      BY <2>1, <2>2, <2>4 DEF Streaks
    <3> QED BY <2>2, <2>3, <3>1 DEF Sooner
  <2>5. CASE m \in list
    <3>1. streak'[m] = IF m \in absent THEN streak[m] + 1 ELSE 0
      BY <2>2, <2>5 DEF Streaks
    <3> QED BY <2>1, <2>2, <2>3, <2>5, <3>1 DEF Sooner
  <2> QED BY <2>4, <2>5
<1>4. CASE add_matched_markets
  BY <1>4 DEF add_matched_markets, TypeOK
<1>5. ASSUME NEW m \in Markets, NEW p \in Prices, Check(m, p) PROVE CountInv'
  <2>1. m \in list /\ list' = list /\ streak' = streak /\ missed' = missed
    BY <1>5 DEF Check, check_market_ended, CleanerInv
  <2>2. confirmed \subseteq confirmed'
    BY <1>5 DEF Check, check_market_ended
  <2>3. \A x \in Markets \ {m} : detected'[x] = detected[x] /\ seen'[x] = seen[x]
    BY <1>5 DEF Check, check_market_ended, TypeOK
  <2>4. m \notin confirmed =>
          /\ detected'[m] = IF p = "extreme" /\ detected[m] = 0 THEN 1
                            ELSE IF p = "normal" THEN 0 ELSE detected[m]
          /\ seen'[m] = IF p = "normal" THEN 0 ELSE seen[m]
    BY <1>5 DEF Check, check_market_ended, TypeOK
  <2>5. detected[m] \in 0..(ExtremeMinutes + 1) /\ seen[m] \in 0..ExtremeMinutes
    BY DEF TypeOK
  <2> SUFFICES ASSUME NEW x \in Markets, x \notin confirmed'
               PROVE  /\ streak[x] <= missed[x]
                      /\ detected'[x] # 0 => detected'[x] <= seen'[x] + 1
                      /\ x \notin list => streak[x] = 0 /\ detected'[x] = 0
    BY <2>1
  <2>6. CASE x = m
    BY <2>1, <2>2, <2>4, <2>5, <2>6
  <2>7. CASE x # m
    BY <2>2, <2>3, <2>7
  <2> QED BY <2>6, <2>7
<1>6. CASE RemoveEnded
  BY <1>6 DEF RemoveEnded, CleanerInv
<1>7. CASE ClearEnded
  <2>1. cleaner.ended \subseteq confirmed
    BY DEF CleanerInv
  <2>2. \A m \in Markets \ confirmed : detected'[m] = detected[m] /\ streak'[m] = streak[m]
    BY <1>7, <2>1 DEF ClearEnded
  <2> QED BY <1>7, <2>2 DEF ClearEnded
<1>8. ASSUME NEW known \in SUBSET closed, KalshiCycle(known) PROVE CountInv'
  BY <1>1, <1>8 DEF KalshiCycle
<1> QED
  BY <1>1, <1>2, <1>3, <1>4, <1>5, <1>6, <1>7, <1>8
     DEF Next, Scanner, Cleaner, Offer, Close, fetch_market_snapshot, apply_market_snapshot,
         StartCleaning, vars

LEMMA InitInv == Init => IInv
<1> SUFFICES ASSUME Init PROVE IInv
  OBVIOUS
<1>1. TypeOK
  BY InitTypes
<1>2. CleanerInv /\ CopiesInv /\ CountInv
  BY DEF Init, CleanerInv, CopiesInv, CountInv, Resting, NoScan
<1> QED BY <1>1, <1>2 DEF IInv

LEMMA LifecycleInv == Spec => []IInv
<1>1. IInv /\ [Next]_vars => IInv'
  BY StepTypes, StepCleaner, StepCopies, StepCount DEF IInv
<1> QED BY InitInv, <1>1, PTL DEF Spec

-----------------------------------------------------------------------------
\* Every state is of the right type: in particular the streak of answers without a
\* market stays below the number that ends it, for the cycle that reaches that
\* number confirms the end and clears the streak.
THEOREM LifecycleTypeCorrect == Spec => []TypeOK
<1>1. IInv => TypeOK
  BY DEF IInv
<1> QED BY <1>1, LifecycleInv, PTL

\* No market is lost between the copy of the service and that of the manager: one
\* that only the service has was taken for ended, or the scan has yet to add it.
THEOREM NothingIsLost == Spec => []ServedOrEnded
<1>1. IInv => ServedOrEnded
  BY DEF IInv, CopiesInv, ServedOrEnded
<1> QED BY <1>1, LifecycleInv, PTL

\* A market is taken for ended only when it closed on Kalshi, when Polymarket's
\* last answers were all without it, or when its prices stayed extreme.
THEOREM EndsHaveReasons == Spec => EndedForAReason
<1> DEFINE Reason ==
      \A m \in confirmed' \ confirmed :
        \/ m \in closed \/ missed'[m] >= MissingCycles \/ seen[m] >= ExtremeMinutes
<1>1. IInv /\ [Next]_vars => [Reason]_vars
  <2> SUFFICES ASSUME IInv, [Next]_vars PROVE Reason
    OBVIOUS
  <2> USE DEF IInv
  <2>1. ASSUME confirmed' = confirmed PROVE Reason
    BY <2>1
  <2>2. ASSUME NEW known \in SUBSET closed, KalshiCycle(known) PROVE Reason
    BY <2>2 DEF KalshiCycle
  <2>3. ASSUME NEW absent \in SUBSET Markets, PolymarketCycle(absent) PROVE Reason
    <3> SUFFICES ASSUME NEW m \in confirmed' \ confirmed PROVE missed'[m] >= MissingCycles
      OBVIOUS
    <3>1. /\ m \in Markets /\ m \in list \cap absent
          /\ Streaks(absent)[m] >= MissingCycles
      BY <2>3 DEF PolymarketCycle
    <3>2. streak[m] + 1 >= MissingCycles
      BY <3>1 DEF Streaks
    <3>3. missed'[m] = Sooner(missed[m], MissingCycles)
      BY <2>3, <3>1 DEF PolymarketCycle
    <3>4. /\ streak[m] \in 0..(MissingCycles - 1) /\ missed[m] \in 0..MissingCycles
          /\ streak[m] <= missed[m]
      BY <3>1 DEF TypeOK, CountInv
    <3> QED BY <3>2, <3>3, <3>4 DEF Sooner
  <2>4. ASSUME NEW m \in Markets, NEW p \in Prices, Check(m, p) PROVE Reason
    <3>1. m \notin confirmed /\ LongExtreme(m) => seen[m] >= ExtremeMinutes
      BY DEF TypeOK, CountInv, LongExtreme
    <3>2. \A x \in confirmed' \ confirmed : x = m /\ m \notin confirmed /\ LongExtreme(m)
      BY <2>4 DEF Check, check_market_ended
    <3> QED BY <3>1, <3>2
  <2> QED
    BY <2>1, <2>2, <2>3, <2>4
       DEF Next, Scanner, Cleaner, Offer, Close, Minute, fetch_market_snapshot,
           apply_market_snapshot, add_matched_markets, StartCleaning, RemoveEnded,
           ClearEnded, vars
<1> QED BY <1>1, LifecycleInv, PTL DEF Spec, EndedForAReason
=============================================================================
