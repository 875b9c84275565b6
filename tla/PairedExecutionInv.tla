-------------------------- MODULE PairedExecutionInv -------------------------
(***************************************************************************)
(* The inductive invariants behind the properties of PairedExecution,      *)
(* kept apart so that TLC checks them on small instances and the proofs    *)
(* use the same definitions.                                               *)
(***************************************************************************)
EXTENDS PairedExecution

\* One step of, or for, attempt a.
Step(a) == Admit(a) \/ Proceed(a) \/ Disconnect(a) \/ \E o \in Orders : VenueSettles(a, o)

\* Everything there is about an attempt.
View(a) == <<pc[a], size[a], told[a], steps[a], remaining[a], row[a], acked[a],
             asked[a], live[a], traded[a]>>

Final(a) == row[a] \in Settled \cup {"exposed"}

-----------------------------------------------------------------------------
(* How the durable row, the acknowledgements and the orders follow the     *)
(* program counter.  Holds whatever the exchanges do.                      *)

PhaseInv(a) ==
  /\ pc[a] \in {"idle", "sizing"} => row[a] = "none"
  /\ pc[a] \in {"submit", "ackPoly", "ackKalshi", "plan", "recover", "await"}
       => row[a] = "submitting"
  /\ pc[a] = "submit" => size[a] > 0
  /\ pc[a] = "ackKalshi" => "poly" \in acked[a]
  /\ pc[a] \in {"plan", "recover", "await", "halt", "notify"} => acked[a] = Legs
  /\ pc[a] \in {"halt", "notify"}
       => Alarm(a) /\ row[a] \in {"submitting", "exposed"}
  /\ row[a] = "none" => \A o \in Orders : asked[a][o] = 0
  /\ acked[a] # Legs => \A o \in Recoveries : asked[a][o] = 0
  /\ \A o \in live[a] : asked[a][o] > 0

HaltInv ==
  enabled => \A a \in Attempts :
    pc[a] = "notify" \/ MeantToHalt(a) => a \in reviewed \cup unhalted

ControlInv ==
  TypeOK /\ (\A a \in Attempts : PhaseInv(a)) /\ HaltInv /\ RestartHalts

-----------------------------------------------------------------------------
(* What the program believes about fills, against what the exchanges hold. *)
(* Holds for ReliableVenues.                                               *)

Exact(r, half) == half = 2 * r.filled + (IF r.fraction THEN 1 ELSE 0)

\* Both legs were joined and the Polymarket fill was confirmed.
Confirmed(a) ==
  \/ pc[a] \in {"ackPoly", "ackKalshi", "plan", "recover", "await", "halt", "notify"}
  \/ Final(a)

LegsInv(a) ==
  /\ \A o \in Orders :
       /\ asked[a][o] = 0 \/ o \in live[a] => traded[a][o] = 0
       /\ traded[a][o] <= 2 * asked[a][o]
       /\ o \in FractionalOrders \/ traded[a][o] % 2 = 0
  /\ \A l \in Legs :
       told[a][l].known => l \notin live[a] /\ asked[a][l] > 0
  /\ told[a]["kalshi"].known /\ told[a]["kalshi"].valid
       => Exact(told[a]["kalshi"], traded[a]["kalshi"])
  \* a valid reply is exact, or it is a lost one and nothing is believed yet
  /\ pc[a] = "submit" /\ told[a]["poly"].known /\ told[a]["poly"].valid
       => \/ Exact(told[a]["poly"], traded[a]["poly"])
          \/ /\ "poly" \in LossyOrders
             /\ told[a]["poly"].filled = 0 /\ ~told[a]["poly"].fraction
  /\ Confirmed(a) => \A l \in Legs : told[a][l].known
  \* once confirmed it is exact, except that a lone fraction was rounded up
  /\ Confirmed(a) /\ told[a]["poly"].valid
       => \/ Exact(told[a]["poly"], traded[a]["poly"])
          \/ /\ told[a]["poly"].fraction
             /\ traded[a]["poly"] = 2 * told[a]["poly"].filled - 1

\* What a recovery order has traded or may still trade.
Reach(a, o) == IF o \in live[a] THEN 2 * asked[a][o] ELSE traded[a][o]

\* The excess is split into what recovery traded and what remains.
Balanced(a) ==
  IF Unsafe(a) THEN remaining[a] = 0 /\ Repaired(a) = 0
  ELSE Repaired(a) = 2 * (Excess(a) - remaining[a])

RepairInv(a) ==
  /\ pc[a] \in {"idle", "sizing", "submit", "ackPoly", "ackKalshi", "plan"} =>
       /\ steps[a] = <<>> /\ remaining[a] = 0
       /\ \A o \in Recoveries : asked[a][o] = 0
  /\ pc[a] = "recover" \/ Final(a) =>
       /\ Balanced(a)
       /\ live[a] = {}
  /\ pc[a] = "recover" =>
       \A i \in DOMAIN steps[a] : asked[a][steps[a][i]] = 0
  /\ pc[a] = "await" =>
       /\ ~Unsafe(a)
       /\ steps[a] # <<>>
       /\ live[a] \subseteq {Head(steps[a])}
       /\ asked[a][Head(steps[a])] = remaining[a]
       /\ Repaired(a) - traded[a][Head(steps[a])] = 2 * (Excess(a) - remaining[a])
       /\ \A i \in DOMAIN steps[a] : i > 1 => asked[a][steps[a][i]] = 0
  /\ Reach(a, "forward") + Reach(a, "unwind") <= 2 * Excess(a)

\* A final row says what the program believed when it wrote it.
FinalInv(a) ==
  /\ Final(a) => row[a] = Outcome(a)
  /\ Final(a) => pc[a] \in {"halt", "notify", "done", "lost"}
  /\ pc[a] \in {"halt", "notify", "done"} => live[a] = {}
  /\ pc[a] \in {"idle", "sizing", "submit", "ackPoly"} => acked[a] = {}
  /\ pc[a] = "ackKalshi" => acked[a] = {"poly"}
  /\ pc[a] = "done" /\ ~Final(a)
       => Exposure(a) = 0 \/ (row[a] = "submitting" /\ (acked[a] # Legs \/ Alarm(a)))

BeliefInv(a) == LegsInv(a) /\ RepairInv(a) /\ FinalInv(a)

FillInv == ReliableVenues => \A a \in Attempts : BeliefInv(a)
=============================================================================
