----------------------------- MODULE TradeLedger -----------------------------
(***************************************************************************)
(* What paired execution promises about every trade, whatever happens in   *)
(* between: the trade is on the books before any contract moves; while its *)
(* entry is open the position may be anything; an entry is closed as flat  *)
(* only when the position is flat, or as exposed; and a closed entry's     *)
(* position never moves again.                                             *)
(***************************************************************************)
EXTENDS Integers

CONSTANT Trades

VARIABLES
  book,  \* the durable entry of each trade
  net    \* its net position at the exchanges

Entries == {"absent", "open", "flat", "exposed"}

Init ==
  /\ book = [t \in Trades |-> "absent"]
  /\ net = [t \in Trades |-> 0]

Enter(t) ==
  /\ book[t] = "absent"
  /\ book' = [book EXCEPT ![t] = "open"]
  /\ UNCHANGED net

\* An exchange trades something for an open entry.
Move(t) ==
  /\ book[t] = "open"
  /\ net' = [net EXCEPT ![t] = net'[t]]
  /\ UNCHANGED book

CloseFlat(t) ==
  /\ book[t] = "open"
  /\ net[t] = 0
  /\ book' = [book EXCEPT ![t] = "flat"]
  /\ UNCHANGED net

CloseExposed(t) ==
  /\ book[t] = "open"
  /\ book' = [book EXCEPT ![t] = "exposed"]
  /\ UNCHANGED net

Next == \E t \in Trades : Enter(t) \/ Move(t) \/ CloseFlat(t) \/ CloseExposed(t)

Spec == Init /\ [][Next]_<<book, net>>
=============================================================================
