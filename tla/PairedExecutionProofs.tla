------------------------ MODULE PairedExecutionProofs ------------------------
(***************************************************************************)
(* Proofs about PairedExecution, for any set of attempts, any number of    *)
(* contracts and crashes, and any faults unless ReliableVenues is assumed. *)
(***************************************************************************)
EXTENDS PairedExecutionInv, TLAPS

\* What taking the first recovery step off a list leaves.
LEMMA StepListFacts ==
  ASSUME NEW s \in StepLists, s # <<>>
  PROVE  /\ Tail(s) \in StepLists
         /\ Head(s) \in Recoveries
         /\ Head(s) = s[1]
  <1>1. CASE s = <<"forward">>
    BY <1>1 DEF StepLists, Recoveries
  <1>2. CASE s = <<"unwind">>
    BY <1>2 DEF StepLists, Recoveries
  <1>3. CASE s = <<"forward", "unwind">>
    BY <1>3 DEF StepLists, Recoveries
  <1>4. CASE s = <<"unwind", "forward">>
    BY <1>4 DEF StepLists, Recoveries
  <1>5. QED
    BY <1>1, <1>2, <1>3, <1>4 DEF StepLists

LEMMA ReplyType ==
  ASSUME TypeOK, NEW a \in Attempts, NEW o \in Orders, NEW r \in Replies(a, o)
  PROVE  r \in Report /\ r.known
  <1>1. traded[a][o] \in Nat /\ traded[a][o] \div 2 \in Nat
    BY DEF TypeOK
  <1>2. \A f \in Nat, x, p \in BOOLEAN, k \in {"order", "expired", "activity"} :
          Answer(f, x, p, k) \in Report /\ Answer(f, x, p, k).known
    BY DEF Answer, Report
  <1>3. Failed \in Report /\ Failed.known /\ Garbled \in Report /\ Garbled.known
    BY DEF Answer, Report, Failed, Garbled
  <1>4. CASE r \in Unfilled(o)
    BY <1>2, <1>4 DEF Unfilled, Lookups
  <1>5. CASE r \in Filled(o, traded[a][o])
    <2>1. (traded[a][o] % 2 = 1) \in BOOLEAN
      OBVIOUS
    <2>2. PICK k \in Lookups(o, traded[a][o]), p \in BOOLEAN :
            r = Answer(traded[a][o] \div 2, traded[a][o] % 2 = 1, p, k)
      BY <1>5, Zenon DEF Filled
    <2>3. k \in {"order", "expired", "activity"}
      BY <2>2 DEF Lookups
    <2>4. QED
      BY <1>1, <1>2, <2>1, <2>2, <2>3, Zenon
  <1>6. QED
    BY <1>3, <1>4, <1>5 DEF Replies

USE AttemptsAssumption, BoundsAssumption, FaultsAssumption

LEMMA ViewsType ==
  ASSUME TypeOK, NEW a \in Attempts
  PROVE  /\ Excess(a) \in Nat /\ Residual(a) \in Nat
         /\ Outcome(a) \in Statuses
         /\ ExcessLeg(a) \in Legs
  BY DEF TypeOK, Report, Legs, Excess, PolyExcess, Residual, Fractions,
         Outcome, Statuses, Settled, ExcessLeg

\* Variables an ordinary program step of an attempt leaves alone.
LEMMA TypeInit == Init => TypeOK
  <1> SUFFICES ASSUME Init PROVE TypeOK
    OBVIOUS
  <1>1. NoReply \in Report
    BY DEF NoReply, Answer, Report
  <1>2. told \in [Attempts -> [Legs -> Report]]
    BY <1>1 DEF Init
  <1>3. QED
    BY <1>2 DEF Init, TypeOK, Statuses, Settled, StepLists, Labels

LEMMA TypeStep == TypeOK /\ [Next]_vars => TypeOK'
  <1> SUFFICES ASSUME TypeOK, [Next]_vars PROVE TypeOK'
    OBVIOUS
  <1> USE DEF durable, exchange, history, program, Goto, Labels
  <1>1. ASSUME NEW a \in Attempts, Admit(a) PROVE TypeOK'
    BY <1>1 DEF TypeOK, Admit
  <1>2. ASSUME NEW a \in Attempts, Skip(a) PROVE TypeOK'
    BY <1>2 DEF TypeOK, Skip
  <1>3. ASSUME NEW a \in Attempts, Submitting(a) PROVE TypeOK'
    <2>1. CASE PersistIntent(a)
      BY <2>1 DEF TypeOK, PersistIntent, Statuses, Settled
    <2>2. CASE PersistIntentFails(a)
      BY <2>2 DEF TypeOK, PersistIntentFails
    <2>3. ASSUME NEW l \in Legs, SendLeg(a, l) PROVE TypeOK'
      BY <2>3 DEF TypeOK, SendLeg, Orders
    <2>4. ASSUME NEW l \in Legs, LegReply(a, l) PROVE TypeOK'
      <3>1. PICK r \in Replies(a, l) : told' = [told EXCEPT ![a][l] = r]
        BY <2>4 DEF LegReply
      <3>2. r \in Report
        BY <3>1, ReplyType DEF Orders
      <3>3. told' \in [Attempts -> [Legs -> Report]]
        BY <3>1, <3>2 DEF TypeOK
      <3>4. QED
        BY <2>4, <3>3 DEF TypeOK, LegReply
    <2>5. QED
      BY <1>3, <2>1, <2>2, <2>3, <2>4 DEF Submitting
  <1>4. ASSUME NEW a \in Attempts, Confirming(a) PROVE TypeOK'
    <2>1. CASE FillIsKnown(a)
      BY <2>1 DEF TypeOK, FillIsKnown
    <2>2. ASSUME NEW half \in Nat, Believe(a, half)
          PROVE  told' \in [Attempts -> [Legs -> Report]]
      <3>1. told[a]["poly"] \in Report /\ (half + 1) \div 2 \in Nat
        BY DEF TypeOK, Legs
      <3>2. [told[a]["poly"] EXCEPT !.filled = (half + 1) \div 2] \in Report
        BY <3>1 DEF Report
      <3>3. QED
        BY <2>2, <3>2 DEF TypeOK, Believe
    <2>3. CASE ConfirmByOrder(a)
      <3>1. traded[a]["poly"] \in Nat
        BY DEF TypeOK, Orders, Legs
      <3>2. QED
        BY <2>2, <2>3, <3>1 DEF TypeOK, ConfirmByOrder
    <2>4. CASE ConfirmByActivity(a)
      <3>1. \A b \in Attempts : PolyVolume(b) \in Nat
        <4>1. TAKE b \in Attempts
        <4>2. \A o \in Orders : traded[b][o] \in Nat
          BY DEF TypeOK
        <4>3. /\ traded[b]["poly"] \in Nat
              /\ traded[b]["unwind"] \in Nat
              /\ traded[b]["forward"] \in Nat
          BY <4>2 DEF Orders, Legs, Recoveries
        <4>4. QED
          BY <4>3 DEF PolyVolume, PolyExcess
      <3>2. PICK other \in {0} \cup OtherVolumes(a) :
              Believe(a, traded[a]["poly"] + other)
        BY <2>4 DEF ConfirmByActivity
      <3>3. traded[a]["poly"] + other \in Nat
        BY <3>1, <3>2 DEF TypeOK, OtherVolumes, Orders, Legs
      <3>4. QED
        BY <2>2, <2>4, <3>2, <3>3 DEF TypeOK, ConfirmByActivity
    <2>5. CASE ConfirmFails(a)
      <3>1. told[a]["poly"] \in Report
        BY DEF TypeOK, Legs
      <3>2. [told[a]["poly"] EXCEPT !.valid = FALSE] \in Report
        BY <3>1 DEF Report
      <3>3. told' \in [Attempts -> [Legs -> Report]]
        BY <2>5, <3>2 DEF TypeOK, ConfirmFails
      <3>4. QED
        BY <2>5, <3>3 DEF TypeOK, ConfirmFails, HaltFor
    <2>6. ASSUME NEW l \in Legs, PersistAck(a, l) PROVE TypeOK'
      BY <2>6 DEF TypeOK, PersistAck, Legs
    <2>7. ASSUME NEW l \in Legs, PersistAckFails(a, l) PROVE TypeOK'
      BY <2>7 DEF TypeOK, PersistAckFails, HaltFor
    <2>8. QED
      BY <1>4, <2>1, <2>3, <2>4, <2>5, <2>6, <2>7 DEF Confirming
  <1>5. ASSUME NEW a \in Attempts, Repairing(a) PROVE TypeOK'
    <2>0. steps[a] \in StepLists
      BY DEF TypeOK, StepLists
    <2>1. CASE PlanRecovery(a)
      BY <2>1, ViewsType DEF TypeOK, PlanRecovery, StepLists
    <2>2. CASE RefuseStep(a)
      <3>1. Tail(steps[a]) \in StepLists
        BY <2>0, <2>2, StepListFacts DEF RefuseStep, Recovering
      <3>2. QED
        BY <2>2, <3>1 DEF TypeOK, RefuseStep, StepLists
    <2>3. CASE SendStep(a)
      <3>1. Head(steps[a]) \in Orders
        BY <2>0, <2>3, StepListFacts DEF SendStep, Recovering, Orders
      <3>2. QED
        BY <2>3, <3>1 DEF TypeOK, SendStep
    <2>4. CASE StepReply(a)
      <3>1. PICK r \in Replies(a, Head(steps[a])) :
              remaining' = [remaining EXCEPT ![a] =
                              IF r.filled > @ THEN 0 ELSE @ - r.filled]
        BY <2>4 DEF StepReply
      <3>2. Head(steps[a]) \in Orders /\ Tail(steps[a]) \in StepLists
        BY <2>0, <2>4, StepListFacts DEF StepReply, Orders
      <3>3. r.filled \in Nat
        BY <3>1, <3>2, ReplyType DEF Report
      <3>4. remaining' \in [Attempts -> Nat]
        BY <3>1, <3>3 DEF TypeOK
      <3>5. QED
        BY <2>4, <3>2, <3>4 DEF TypeOK, StepReply, StepLists
    <2>5. QED
      BY <1>5, <2>1, <2>2, <2>3, <2>4 DEF Repairing
  <1>6. ASSUME NEW a \in Attempts, Closing(a) PROVE TypeOK'
    <2>1. CASE Finish(a)
      BY <2>1, ViewsType DEF TypeOK, Finish, AfterFinish
    <2>2. CASE FinishFails(a)
      BY <2>2 DEF TypeOK, FinishFails, AfterFinish
    <2>3. CASE Halt(a)
      <3>1. pc' = [pc EXCEPT ![a] = "notify"]
        BY <2>3 DEF Halt
      <3>2. enabled' \in BOOLEAN /\ unhalted' \subseteq Attempts
        BY <2>3 DEF TypeOK, Halt, HaltFor
      <3>3. QED
        BY <2>3, <3>1, <3>2 DEF TypeOK, Halt
    <2>4. CASE Notify(a)
      BY <2>4 DEF TypeOK, Notify
    <2>5. QED
      BY <1>6, <2>1, <2>2, <2>3, <2>4 DEF Closing
  <1>7. ASSUME NEW a \in Attempts, NEW o \in Orders, VenueSettles(a, o)
        PROVE  TypeOK'
    BY <1>7 DEF TypeOK, VenueSettles
  <1>8. CASE Crash
    <2>1. \A a \in Attempts :
            pc'[a] = "lost" \/ pc'[a] = pc[a]
      BY <1>8 DEF Crash
    <2>2. pc' = [a \in Attempts |-> pc'[a]]
      BY <1>8 DEF Crash
    <2>3. pc' \in [Attempts -> Labels]
      BY <2>1, <2>2 DEF TypeOK, Labels
    <2>4. /\ up' = FALSE /\ crashes' = crashes + 1
          /\ UNCHANGED <<size, told, steps, remaining, enabled, row, acked,
                         asked, live, traded, alerts, reviewed, unhalted>>
      BY <1>8 DEF Crash
    <2> HIDE DEF Labels, Goto
    <2>5. up' \in BOOLEAN
      BY <2>4, Zenon
    <2>6. crashes' \in Nat
      BY <2>4 DEF TypeOK
    <2>7. QED
      BY <2>3, <2>4, <2>5, <2>6 DEF TypeOK
  <1>9. CASE Restart
    <2>1. enabled' \in BOOLEAN
      BY <1>9, Zenon DEF Restart
    <2>2. QED
      BY <1>9, <2>1 DEF TypeOK, Restart
  <1>10. CASE Enable
    BY <1>10 DEF TypeOK, Enable
  <1>11. CASE Disable
    BY <1>11 DEF TypeOK, Disable
  <1>12. ASSUME NEW a \in Attempts, Disconnect(a) PROVE TypeOK'
    BY <1>12 DEF TypeOK, Disconnect
  <1>13. CASE UNCHANGED vars
    BY <1>13 DEF TypeOK, vars
  <1>14. QED
    BY <1>1, <1>2, <1>3, <1>4, <1>5, <1>6, <1>7, <1>8, <1>9, <1>10, <1>11,
       <1>12, <1>13 DEF Next, Proceed

\* Every variable keeps its type: quantities stay natural numbers and a
\* recovery list is never taken apart when it is empty.
THEOREM TypeCorrect == Spec => []TypeOK
  BY TypeInit, TypeStep, PTL DEF Spec

-----------------------------------------------------------------------------
(* A step concerns one attempt.                                            *)

LEMMA NextSteps ==
  Next <=> (\E a \in Attempts : Step(a)) \/ Crash \/ Restart \/ Enable \/ Disable
  BY DEF Next, Step

\* A step of one attempt leaves the others, and the operator's reviews, as
\* they are, and never switches auto-trading on.
LEMMA StepFrame ==
  ASSUME TypeOK, NEW a \in Attempts, Step(a)
  PROVE  /\ \A b \in Attempts \ {a} : View(b)' = View(b)
         /\ up' = up /\ reviewed' = reviewed /\ crashes' = crashes
         /\ enabled' => enabled /\ unhalted \subseteq unhalted'
  <1> USE DEF durable, exchange, history, program, Goto, View, TypeOK
  <1>1. CASE Admit(a)
    BY <1>1 DEF Admit
  <1>2. CASE Skip(a)
    BY <1>2 DEF Skip
  <1>3. CASE Submitting(a)
    BY <1>3 DEF Submitting, PersistIntent, PersistIntentFails, SendLeg, LegReply
  <1>4. CASE Confirming(a)
    BY <1>4 DEF Confirming, FillIsKnown, ConfirmByOrder, ConfirmByActivity,
       ConfirmFails, PersistAck, PersistAckFails, HaltFor, Believe
  <1>5. CASE Repairing(a)
    BY <1>5 DEF Repairing, PlanRecovery, RefuseStep, SendStep, StepReply
  <1>6. CASE Closing(a)
    BY <1>6 DEF Closing, Finish, FinishFails, AfterFinish, Halt, HaltFor, Notify
  <1>7. ASSUME NEW o \in Orders, VenueSettles(a, o)
        PROVE  /\ \A b \in Attempts \ {a} : View(b)' = View(b)
               /\ up' = up /\ reviewed' = reviewed /\ crashes' = crashes
               /\ enabled' => enabled /\ unhalted \subseteq unhalted'
    BY <1>7 DEF VenueSettles
  <1>8. CASE Disconnect(a)
    BY <1>8 DEF Disconnect
  <1>9. QED
    BY <1>1, <1>2, <1>3, <1>4, <1>5, <1>6, <1>7, <1>8 DEF Step, Proceed

-----------------------------------------------------------------------------
(* Control: the row, the acknowledgements and the halts.                   *)

LEMMA AlarmView ==
  ASSUME NEW a \in Attempts, told'[a] = told[a], remaining'[a] = remaining[a]
  PROVE  Alarm(a)' = Alarm(a)
  BY DEF Alarm, Unsafe, Residual, Fractions

LEMMA PhaseView ==
  ASSUME NEW b \in Attempts, View(b)' = View(b), PhaseInv(b)
  PROVE  PhaseInv(b)'
  <1>1. Alarm(b)' = Alarm(b)
    BY AlarmView DEF View
  <1>2. QED
    BY <1>1 DEF View, PhaseInv

LEMMA OutcomeRow ==
  ASSUME NEW a \in Attempts
  PROVE  /\ Outcome(a) # "none" /\ Outcome(a) # "submitting"
         /\ Outcome(a) = "exposed" <=> Alarm(a)
         /\ Outcome(a) \in Settled \cup {"exposed"}
  BY DEF Outcome, Settled

LEMMA PhaseStep ==
  ASSUME TypeOK, NEW a \in Attempts, PhaseInv(a), Step(a)
  PROVE  PhaseInv(a)'
  <1> USE DEF durable, exchange, history, program, Goto, PhaseInv, TypeOK
  <1>1. CASE Admit(a)
    BY <1>1, AlarmView DEF Admit
  <1>2. CASE Skip(a)
    BY <1>2, AlarmView DEF Skip
  <1>3. CASE Submitting(a)
    <2>1. CASE PersistIntent(a)
      BY <2>1 DEF PersistIntent
    <2>2. CASE PersistIntentFails(a)
      BY <2>2 DEF PersistIntentFails
    <2>3. ASSUME NEW l \in Legs, SendLeg(a, l) PROVE PhaseInv(a)'
      <3>1. /\ pc[a] = "submit" /\ l \in Orders \ Recoveries
            /\ UNCHANGED <<pc, size, told, remaining, row, acked>>
        BY <2>3 DEF SendLeg, Orders, Legs, Recoveries
      <3>2. /\ asked'[a] = [asked[a] EXCEPT ![l] = size[a]]
            /\ live'[a] = live[a] \cup {l}
        BY <2>3 DEF SendLeg
      <3>3. size[a] \in Nat /\ size[a] > 0 /\ row[a] = "submitting"
        BY <3>1
      <3>4. /\ \A o \in Recoveries : asked'[a][o] = asked[a][o]
            /\ \A o \in live'[a] : asked'[a][o] > 0
        BY <3>1, <3>2, <3>3 DEF Orders
      <3>5. QED
        BY <3>1, <3>3, <3>4
    <2>4. ASSUME NEW l \in Legs, LegReply(a, l) PROVE PhaseInv(a)'
      <3>1. pc[a] = "submit" /\ UNCHANGED <<pc, size, row, acked, asked, live>>
        BY <2>4 DEF LegReply
      <3>2. QED
        BY <3>1
    <2>5. QED
      BY <1>3, <2>1, <2>2, <2>3, <2>4 DEF Submitting
  <1>4. CASE Confirming(a)
    <2>1. CASE FillIsKnown(a) \/ ConfirmByOrder(a) \/ ConfirmByActivity(a)
               \/ ConfirmFails(a)
      BY <2>1 DEF FillIsKnown, ConfirmByOrder, ConfirmByActivity,
                  ConfirmFails, Joined
    <2>2. ASSUME NEW l \in Legs, PersistAck(a, l) PROVE PhaseInv(a)'
      BY <2>2 DEF PersistAck, Legs, AckLabel
    <2>3. ASSUME NEW l \in Legs, PersistAckFails(a, l) PROVE PhaseInv(a)'
      BY <2>3 DEF PersistAckFails, Legs, AckLabel
    <2>4. QED
      BY <1>4, <2>1, <2>2, <2>3 DEF Confirming
  <1>5. CASE Repairing(a)
    <2>1. CASE PlanRecovery(a)
      <3>1. /\ pc[a] = "plan" /\ pc' = [pc EXCEPT ![a] = "recover"]
            /\ UNCHANGED <<row, acked, asked, live>>
        BY <2>1 DEF PlanRecovery
      <3>2. QED
        BY <3>1
    <2>2. CASE RefuseStep(a)
      BY <2>2 DEF RefuseStep, Recovering
    <2>3. CASE SendStep(a)
      <3>1. /\ pc[a] = "recover" /\ pc' = [pc EXCEPT ![a] = "await"]
            /\ remaining[a] > 0 /\ steps[a] # <<>> /\ steps[a] \in StepLists
            /\ UNCHANGED <<size, told, remaining, row, acked>>
        BY <2>3 DEF SendStep, Recovering
      <3>2. Head(steps[a]) \in Recoveries /\ Head(steps[a]) \in Orders
        BY <3>1, StepListFacts DEF Orders
      <3>3. PICK o \in Orders : o = Head(steps[a])
        BY <3>2
      <3>4. /\ asked'[a] = [asked[a] EXCEPT ![o] = remaining[a]]
            /\ live'[a] = live[a] \cup {o}
        BY <2>3, <3>3 DEF SendStep
      <3>5. \A x \in live'[a] : asked'[a][x] > 0
        BY <3>1, <3>4
      <3>6. QED
        BY <3>1, <3>5
    <2>4. CASE StepReply(a)
      BY <2>4 DEF StepReply
    <2>5. QED
      BY <1>5, <2>1, <2>2, <2>3, <2>4 DEF Repairing
  <1>6. CASE Closing(a)
    <2>1. CASE Finish(a)
      BY <2>1, OutcomeRow, AlarmView DEF Finish, AfterFinish, RecoveryOver
    <2>2. CASE FinishFails(a)
      BY <2>2, AlarmView DEF FinishFails, AfterFinish, RecoveryOver
    <2>3. CASE Halt(a)
      BY <2>3, AlarmView DEF Halt
    <2>4. CASE Notify(a)
      BY <2>4, AlarmView DEF Notify
    <2>5. QED
      BY <1>6, <2>1, <2>2, <2>3, <2>4 DEF Closing
  <1>7. ASSUME NEW o \in Orders, VenueSettles(a, o) PROVE PhaseInv(a)'
    BY <1>7, AlarmView DEF VenueSettles
  <1>8. CASE Disconnect(a)
    BY <1>8, AlarmView DEF Disconnect
  <1>9. QED
    BY <1>1, <1>2, <1>3, <1>4, <1>5, <1>6, <1>7, <1>8 DEF Step, Proceed

\* A step of an attempt that leaves it with a reason to halt found one
\* already, or has just tried to halt.
LEMMA HaltStep ==
  ASSUME TypeOK, NEW a \in Attempts, PhaseInv(a), Step(a)
  PROVE  /\ pc'[a] = "lost" => pc[a] = "lost" /\ row'[a] = row[a]
         /\ pc'[a] = "notify" \/ MeantToHalt(a)' =>
              \/ pc[a] = "notify" \/ MeantToHalt(a)
              \/ ~enabled' \/ a \in unhalted'
  <1> DEFINE Goal == /\ pc'[a] = "lost" => pc[a] = "lost" /\ row'[a] = row[a]
                     /\ pc'[a] = "notify" \/ MeantToHalt(a)' =>
                          \/ pc[a] = "notify" \/ MeantToHalt(a)
                          \/ ~enabled' \/ a \in unhalted'
  <1> USE DEF durable, exchange, history, program, Goto, MeantToHalt, TypeOK
  <1>1. CASE Admit(a)
    BY <1>1 DEF Admit
  <1>2. CASE Skip(a)
    BY <1>2 DEF Skip, PhaseInv
  <1>3. CASE Submitting(a)
    <2>1. CASE PersistIntentFails(a)
      BY <2>1 DEF PersistIntentFails, PhaseInv
    <2>2. CASE PersistIntent(a)
      BY <2>2 DEF PersistIntent
    <2>3. ASSUME NEW l \in Legs, SendLeg(a, l) \/ LegReply(a, l) PROVE Goal
      <3>1. pc[a] = "submit" /\ pc' = pc
        BY <2>3 DEF SendLeg, LegReply
      <3>2. QED
        BY <3>1
    <2>4. QED
      BY <1>3, <2>1, <2>2, <2>3 DEF Submitting
  <1>4. CASE Confirming(a)
    <2>1. CASE FillIsKnown(a) \/ ConfirmByOrder(a) \/ ConfirmByActivity(a)
               \/ ConfirmFails(a)
      <3>1. pc' = [pc EXCEPT ![a] = "ackPoly"]
        BY <2>1 DEF FillIsKnown, ConfirmByOrder, ConfirmByActivity, ConfirmFails
      <3>2. QED
        BY <3>1
    <2>2. ASSUME NEW l \in Legs, PersistAck(a, l) PROVE Goal
      BY <2>2 DEF PersistAck
    <2>3. ASSUME NEW l \in Legs, PersistAckFails(a, l) PROVE Goal
      BY <2>3 DEF PersistAckFails, HaltFor
    <2>4. QED
      BY <1>4, <2>1, <2>2, <2>3 DEF Confirming
  <1>5. CASE Repairing(a)
    <2>1. pc[a] \in {"plan", "recover", "await"} /\ pc'[a] \in {"recover", "await"}
      BY <1>5 DEF Repairing, PlanRecovery, RefuseStep, SendStep, StepReply, Recovering
    <2>2. QED
      BY <2>1
  <1>6. CASE Closing(a)
    <2>1. CASE Finish(a)
      <3>1. /\ row'[a] = Outcome(a)
            /\ pc'[a] = IF Alarm(a) THEN "halt" ELSE "done"
        BY <2>1 DEF Finish, AfterFinish
      <3>2. QED
        BY <3>1, OutcomeRow
    <2>2. CASE FinishFails(a)
      <3>1. /\ pc[a] = "recover" /\ UNCHANGED <<row, acked, told, remaining>>
            /\ pc'[a] = IF Alarm(a) THEN "halt" ELSE "done"
        BY <2>2 DEF FinishFails, AfterFinish, RecoveryOver
      <3>2. acked[a] = Legs /\ row[a] = "submitting"
        BY <3>1 DEF PhaseInv
      <3>3. QED
        BY <3>1, <3>2, AlarmView
    <2>3. CASE Halt(a)
      BY <2>3 DEF Halt, HaltFor
    <2>4. CASE Notify(a)
      BY <2>4 DEF Notify
    <2>5. QED
      BY <1>6, <2>1, <2>2, <2>3, <2>4 DEF Closing
  <1>7. ASSUME NEW o \in Orders, VenueSettles(a, o) PROVE Goal
    BY <1>7, AlarmView DEF VenueSettles
  <1>8. CASE Disconnect(a)
    BY <1>8, AlarmView DEF Disconnect
  <1>9. QED
    BY <1>1, <1>2, <1>3, <1>4, <1>5, <1>6, <1>7, <1>8 DEF Step, Proceed

LEMMA HaltView ==
  ASSUME NEW b \in Attempts, View(b)' = View(b)
  PROVE  MeantToHalt(b)' <=> MeantToHalt(b)
  <1>1. Alarm(b)' = Alarm(b)
    BY AlarmView DEF View
  <1>2. QED
    BY <1>1 DEF View, MeantToHalt

LEMMA ControlInit == Init => ControlInv
  <1> SUFFICES ASSUME Init PROVE ControlInv
    OBVIOUS
  <1>1. TypeOK
    BY TypeInit
  <1>2. \A a \in Attempts : PhaseInv(a)
    BY DEF Init, PhaseInv, Orders
  <1>3. HaltInv /\ RestartHalts
    BY DEF Init, HaltInv, MeantToHalt, RestartHalts
  <1>4. QED
    BY <1>1, <1>2, <1>3 DEF ControlInv

LEMMA ControlStep == ControlInv /\ [Next]_vars => ControlInv'
  <1> SUFFICES ASSUME ControlInv, [Next]_vars PROVE ControlInv'
    OBVIOUS
  <1>0. TypeOK /\ TypeOK'
    BY TypeStep DEF ControlInv
  <1>1. ASSUME NEW a \in Attempts, Step(a) PROVE ControlInv'
    <2>1. \A b \in Attempts \ {a} : View(b)' = View(b)
      BY <1>0, <1>1, StepFrame
    <2>2. PhaseInv(a)'
      BY <1>0, <1>1, PhaseStep DEF ControlInv
    <2>3. \A b \in Attempts : PhaseInv(b)'
      BY <2>1, <2>2, PhaseView DEF ControlInv
    <2>4. /\ up' = up /\ reviewed' = reviewed
          /\ enabled' => enabled /\ unhalted \subseteq unhalted'
      BY <1>0, <1>1, StepFrame
    <2>5. /\ pc'[a] = "lost" => pc[a] = "lost" /\ row'[a] = row[a]
          /\ pc'[a] = "notify" \/ MeantToHalt(a)' =>
               \/ pc[a] = "notify" \/ MeantToHalt(a)
               \/ ~enabled' \/ a \in unhalted'
      BY <1>0, <1>1, HaltStep DEF ControlInv
    <2>6. \A b \in Attempts \ {a} :
             /\ pc'[b] = pc[b] /\ row'[b] = row[b]
             /\ MeantToHalt(b)' <=> MeantToHalt(b)
      BY <2>1, HaltView DEF View
    <2>7. HaltInv'
      BY <2>4, <2>5, <2>6 DEF HaltInv, ControlInv
    <2>8. RestartHalts'
      BY <2>4, <2>5, <2>6 DEF RestartHalts, ControlInv
    <2>9. QED
      BY <1>0, <2>3, <2>7, <2>8 DEF ControlInv
  <1>2. CASE Crash
    <2>1. /\ UNCHANGED <<size, told, steps, remaining, enabled, row, acked,
                         asked, live, traded, reviewed, unhalted>>
          /\ up' = FALSE
          /\ \A a \in Attempts : pc'[a] = IF Active(a) THEN "lost" ELSE pc[a]
      BY <1>2 DEF Crash, durable, exchange
    <2>2. \A a \in Attempts : Alarm(a)' = Alarm(a)
      BY <2>1, AlarmView
    <2>3. \A a \in Attempts : PhaseInv(a)'
      BY <2>1, <2>2 DEF PhaseInv, ControlInv
    <2>4. HaltInv'
      BY <2>1, <2>2 DEF HaltInv, MeantToHalt, ControlInv
    <2>5. RestartHalts'
      BY <2>1, Zenon DEF RestartHalts
    <2>6. QED
      BY <1>0, <2>3, <2>4, <2>5 DEF ControlInv
  <1>3. ASSUME Restart \/ Enable \/ Disable PROVE ControlInv'
    <2>1. \A a \in Attempts : View(a)' = View(a)
      BY <1>3 DEF Restart, Enable, Disable, program, exchange, View
    <2>2. \A a \in Attempts : PhaseInv(a)'
      BY <2>1, PhaseView DEF ControlInv
    <2>3. \A a \in Attempts : MeantToHalt(a)' <=> MeantToHalt(a)
      BY <2>1, HaltView
    <2>4. \A a \in Attempts : pc'[a] = pc[a] /\ row'[a] = row[a]
      BY <2>1 DEF View
    <2>5. CASE Restart
      <3>1. /\ reviewed' = reviewed /\ unhalted' = unhalted
            /\ enabled' => enabled /\ \A a \in Attempts : row[a] # "submitting"
        BY <2>5, Zenon DEF Restart, history
      <3>2. HaltInv' /\ RestartHalts'
        BY <2>3, <2>4, <3>1 DEF HaltInv, RestartHalts, ControlInv
      <3>3. QED
        BY <1>0, <2>2, <3>2 DEF ControlInv
    <2>6. CASE Enable
      <3>1. \A a \in Attempts : pc[a] = "notify" \/ MeantToHalt(a) => Problem(a)
        BY DEF ControlInv, PhaseInv, MeantToHalt, Problem
      <3>2. reviewed' = {a \in Attempts : Problem(a)}
        BY <2>6 DEF Enable
      <3>3. HaltInv'
        BY <2>3, <2>4, <3>1, <3>2 DEF HaltInv
      <3>4. RestartHalts'
        BY <2>4, <3>2 DEF RestartHalts, Problem
      <3>5. QED
        BY <1>0, <2>2, <3>3, <3>4 DEF ControlInv
    <2>7. CASE Disable
      <3>1. ~enabled'
        BY <2>7, Zenon DEF Disable
      <3>2. HaltInv' /\ RestartHalts'
        BY <3>1 DEF HaltInv, RestartHalts
      <3>3. QED
        BY <1>0, <2>2, <3>2 DEF ControlInv
    <2>8. QED
      BY <1>3, <2>5, <2>6, <2>7
  <1>4. CASE UNCHANGED vars
    <2>1. \A a \in Attempts : View(a)' = View(a)
      BY <1>4 DEF vars, program, durable, exchange, View
    <2>2. /\ \A a \in Attempts : PhaseInv(a)'
          /\ \A a \in Attempts : MeantToHalt(a)' <=> MeantToHalt(a)
      BY <2>1, PhaseView, HaltView DEF ControlInv
    <2>3. HaltInv' /\ RestartHalts'
      BY <1>4, <2>2 DEF vars, program, durable, history, HaltInv, RestartHalts, ControlInv
    <2>4. QED
      BY <1>0, <2>2, <2>3 DEF ControlInv
  <1>5. QED
    BY <1>1, <1>2, <1>3, <1>4, NextSteps

\* Where an attempt stands agrees with what is durable, booked and halted: the
\* part of the inductive invariant that the ledger and the halt rest on.
THEOREM ControlHolds == Spec => []ControlInv
  BY ControlInit, ControlStep, PTL DEF Spec

\* No order reaches an exchange without a durable row, and no recovery order
\* before both acknowledgements are durable, whatever fails or crashes.
THEOREM LedgerFirst == Spec => []OrdersFollowTheLedger
  <1>1. ControlInv => OrdersFollowTheLedger
    <2> SUFFICES ASSUME ControlInv, NEW a \in Attempts
                 PROVE  /\ \A o \in Orders : asked[a][o] > 0 => row[a] # "none"
                        /\ \A o \in Recoveries : asked[a][o] > 0 => acked[a] = Legs
      BY DEF OrdersFollowTheLedger
    <2>1. PhaseInv(a)
      BY DEF ControlInv
    <2>2. QED
      BY <2>1 DEF PhaseInv, Orders
  <1>2. QED
    BY <1>1, ControlHolds, PTL

\* An attempt that returned with an exposure or a lost acknowledgement has
\* left auto-trading off, until an operator enabled it again.
THEOREM HaltHolds == Spec => []HaltedUntilReviewed
  <1>1. ControlInv => HaltedUntilReviewed
    BY DEF ControlInv, HaltInv, HaltedUntilReviewed
  <1>2. QED
    BY <1>1, ControlHolds, PTL

\* A restart never resumes auto-trading over an interrupted trade.
THEOREM RestartIsSafe == Spec => []RestartHalts
  <1>1. ControlInv => RestartHalts
    BY DEF ControlInv
  <1>2. QED
    BY <1>1, ControlHolds, PTL

-----------------------------------------------------------------------------
(***************************************************************************)
(* The program's account of a trade agrees with the exchanges' when they   *)
(* answer for what they did (ReliableVenues), for any set of attempts, any *)
(* number of contracts and crashes, and any storage faults.                *)
(***************************************************************************)

(* Replies.                                                                *)

LEMMA Halves ==
  ASSUME NEW n \in Nat
  PROVE  /\ n = 2 * (n \div 2) + (n % 2)
         /\ n % 2 \in {0, 1} /\ n \div 2 \in Nat
  <1>1. n % 2 = n - 2 * (n \div 2)
    BY Z3
  <1>2. n % 2 \in {0, 1} /\ n \div 2 \in Nat
    OBVIOUS
  <1>3. QED
    BY <1>1, <1>2

\* A reply comes after the order is settled, and a valid one is exact or is
\* the loss of a Polymarket order.
LEMMA ReplyFacts ==
  ASSUME ReliableVenues, TypeOK, NEW a \in Attempts, NEW o \in Orders,
         NEW r \in Replies(a, o)
  PROVE  /\ o \notin live[a]
         /\ r \in Report /\ r.known
         /\ r.valid => \/ Exact(r, traded[a][o])
                       \/ o \in LossyOrders /\ r.filled = 0 /\ ~r.fraction
         /\ ~r.valid => o \in Legs
  <1>1. o \notin live[a]
    BY DEF Replies, ReliableVenues
  <1>2. r \in Report /\ r.known
    BY ReplyType
  <1>3. traded[a][o] \in Nat
    BY DEF TypeOK
  <1>4. CASE \/ r \in Unfilled(o) \cup {Failed} /\ traded[a][o] = 0
             \/ r = Failed /\ o \in LossyOrders
    <2>1. r.filled = 0 /\ r.fraction = FALSE /\ r.valid = TRUE
      BY <1>4 DEF Unfilled, Failed, Answer
    <2>2. QED
      BY <1>1, <1>2, <1>3, <1>4, <2>1 DEF Exact
  <1>5. CASE r \in Filled(o, traded[a][o])
    <2>1. PICK k \in Lookups(o, traded[a][o]), p \in BOOLEAN :
            r = Answer(traded[a][o] \div 2, traded[a][o] % 2 = 1, p, k)
      BY <1>5, Zenon DEF Filled
    <2>2. r.filled = traded[a][o] \div 2 /\ (r.fraction <=> traded[a][o] % 2 = 1) /\ r.valid = TRUE
      BY <2>1 DEF Answer
    <2>3. Exact(r, traded[a][o])
      <3>1. /\ traded[a][o] = 2 * (traded[a][o] \div 2) + (traded[a][o] % 2)
            /\ traded[a][o] % 2 \in {0, 1} /\ traded[a][o] \div 2 \in Nat
        BY <1>3, Halves, Zenon
      <3>2. CASE traded[a][o] % 2 = 1
        BY <2>2, <3>1, <3>2 DEF Exact
      <3>3. CASE traded[a][o] % 2 = 0
        BY <2>2, <3>1, <3>3 DEF Exact
      <3>4. QED
        BY <3>1, <3>2, <3>3
    <2>4. QED
      BY <1>1, <1>2, <2>2, <2>3
  <1>6. CASE r = Garbled /\ o \in GarbledOrders
    BY <1>1, <1>2, <1>6 DEF Garbled, Failed, Answer, ReliableVenues
  <1>7. \/ r \in Unfilled(o) \cup {Failed} /\ traded[a][o] = 0
        \/ r \in Filled(o, traded[a][o])
        \/ r = Failed /\ o \in LossyOrders
        \/ r = Garbled /\ o \in GarbledOrders
    BY <1>1, Zenon DEF Replies
  <1>8. QED
    BY <1>4, <1>5, <1>6, <1>7, Zenon

\* The reply to a recovery order is exact, and the order filled whole
\* contracts.
LEMMA RecoveryReply ==
  ASSUME ReliableVenues, TypeOK, NEW a \in Attempts, NEW o \in Recoveries,
         NEW r \in Replies(a, o), traded[a][o] % 2 = 0
  PROVE  r.filled \in Nat /\ traded[a][o] = 2 * r.filled
  <1>1. o \in Orders /\ o \notin Legs /\ o \notin LossyOrders
    BY DEF Orders, Recoveries, Legs, ReliableVenues
  <1>2. Exact(r, traded[a][o]) /\ r.filled \in Nat /\ r.fraction \in BOOLEAN
    BY <1>1, ReplyFacts DEF Report
  <1>3. traded[a][o] \in Nat
    BY <1>1 DEF TypeOK
  <1>4. QED
    BY <1>2, <1>3 DEF Exact

-----------------------------------------------------------------------------
(* The two legs.                                                           *)

\* A step that moves the program counter only.
LEMMA LegsKept ==
  ASSUME NEW a \in Attempts, LegsInv(a),
         told'[a] = told[a], asked'[a] = asked[a],
         live'[a] = live[a], traded'[a] = traded[a],
         Confirmed(a)' => Confirmed(a),
         pc'[a] = "submit" => pc[a] = "submit"
  PROVE  LegsInv(a)'
  BY DEF LegsInv, Exact

\* While the attempt has not sent an order, nobody has told it anything.
LEMMA LegsUntold ==
  ASSUME TypeOK, NEW a \in Attempts, PhaseInv(a), LegsInv(a), row[a] = "none"
  PROVE  live[a] = {} /\ \A l \in Legs : ~told[a][l].known
  BY DEF TypeOK, PhaseInv, LegsInv, Orders

LEMMA LegsSend ==
  ASSUME ReliableVenues, TypeOK, NEW a \in Attempts, PhaseInv(a), LegsInv(a),
         NEW l \in Legs, SendLeg(a, l)
  PROVE  LegsInv(a)'
  <1> l \in Orders
    BY DEF Orders
  <1>1. /\ pc' = pc /\ told' = told /\ traded' = traded /\ row' = row
        /\ asked'[a] = [asked[a] EXCEPT ![l] = size[a]]
        /\ live'[a] = live[a] \cup {l}
        /\ pc[a] = "submit" /\ asked[a][l] = 0 /\ size[a] > 0
    BY DEF SendLeg, program, durable, TypeOK, PhaseInv
  <1>2. traded[a][l] = 0 /\ ~told[a][l].known /\ size[a] \in Nat
    BY <1>1 DEF LegsInv, TypeOK
  <1>3. \A o \in Orders : asked'[a][o] = IF o = l THEN size[a] ELSE asked[a][o]
    BY <1>1 DEF TypeOK
  <1>4. \A o \in Orders :
          /\ asked'[a][o] = 0 \/ o \in live'[a] => traded'[a][o] = 0
          /\ traded'[a][o] <= 2 * asked'[a][o]
          /\ o \in FractionalOrders \/ traded'[a][o] % 2 = 0
    BY <1>1, <1>2, <1>3 DEF LegsInv
  <1>5. \A k \in Legs : told'[a][k].known => k \notin live'[a] /\ asked'[a][k] > 0
    BY <1>1, <1>2, <1>3 DEF LegsInv, Orders
  <1>6. Confirmed(a)' => Confirmed(a)
    BY <1>1 DEF Confirmed, Final
  <1>7. QED
    BY <1>1, <1>4, <1>5, <1>6 DEF LegsInv, Exact

LEMMA LegsReply ==
  ASSUME ReliableVenues, TypeOK, NEW a \in Attempts, PhaseInv(a), LegsInv(a),
         NEW l \in Legs, LegReply(a, l)
  PROVE  LegsInv(a)'
  <1> l \in Orders
    BY DEF Orders
  <1>1. PICK r \in Replies(a, l) : told' = [told EXCEPT ![a][l] = r]
    BY DEF LegReply
  <1>2. /\ pc[a] = "submit" /\ pc' = pc /\ row' = row
        /\ asked' = asked /\ live' = live /\ traded' = traded
        /\ asked[a][l] > 0
    BY DEF LegReply, durable, exchange
  <1>3. \A k \in Legs : told'[a][k] = IF k = l THEN r ELSE told[a][k]
    BY <1>1 DEF TypeOK
  <1>4. /\ l \notin live[a] /\ r.known
        /\ r.valid => \/ Exact(r, traded[a][l])
                      \/ l \in LossyOrders /\ r.filled = 0 /\ ~r.fraction
    BY <1>1, ReplyFacts
  <1>5. row[a] = "submitting" /\ ~Confirmed(a)'
    BY <1>2 DEF PhaseInv, Confirmed, Final, Settled
  <1>6. LossyOrders \subseteq {"poly"}
    BY DEF ReliableVenues
  <1>7. \A k \in Legs : told'[a][k].known => k \notin live'[a] /\ asked'[a][k] > 0
    BY <1>2, <1>3, <1>4 DEF LegsInv
  <1>8. told'[a]["kalshi"].known /\ told'[a]["kalshi"].valid
          => Exact(told'[a]["kalshi"], traded'[a]["kalshi"])
    BY <1>2, <1>3, <1>4, <1>6 DEF LegsInv, Legs
  <1>9. told'[a]["poly"].known /\ told'[a]["poly"].valid
          => \/ Exact(told'[a]["poly"], traded'[a]["poly"])
             \/ /\ "poly" \in LossyOrders
                /\ told'[a]["poly"].filled = 0 /\ ~told'[a]["poly"].fraction
    BY <1>2, <1>3, <1>4 DEF LegsInv, Legs
  <1>10. QED
    BY <1>2, <1>5, <1>7, <1>8, <1>9 DEF LegsInv, Exact

\* What the look-up makes of a Polymarket reply without a fill.
LEMMA LegsBelieve ==
  ASSUME ReliableVenues, TypeOK, NEW a \in Attempts, LegsInv(a),
         Joined(a), NeedsConfirmation(a), Believe(a, traded[a]["poly"])
  PROVE  \/ Exact(told'[a]["poly"], traded[a]["poly"])
         \/ /\ told'[a]["poly"].fraction
            /\ traded[a]["poly"] = 2 * told'[a]["poly"].filled - 1
  <1> DEFINE p == told[a]["poly"]
             t == traded[a]["poly"]
  <1>1. p \in Report /\ t \in Nat /\ p.filled = 0 /\ p.fraction \in BOOLEAN
    BY DEF TypeOK, Orders, Legs, NeedsConfirmation, Report
  <1>2. told'[a]["poly"] = [p EXCEPT !.filled = (t + 1) \div 2]
    <2>1. told \in [Attempts -> [Legs -> Report]] /\ "poly" \in Legs
      BY DEF TypeOK, Legs
    <2>2. told[a] \in [Legs -> Report]
      BY <2>1
    <2>3. told'[a] = [told[a] EXCEPT !["poly"] = [p EXCEPT !.filled = (t + 1) \div 2]]
      BY <2>1 DEF Believe
    <2>4. QED
      BY <2>1, <2>2, <2>3
  <1>3. told'[a]["poly"].filled = (t + 1) \div 2 /\ told'[a]["poly"].fraction = p.fraction
    BY <1>1, <1>2 DEF Report
  <1>4. \/ Exact(p, t)
        \/ "poly" \in LossyOrders /\ ~p.fraction
    BY DEF Joined, NeedsConfirmation, LegsInv, Legs
  <1>5. CASE Exact(p, t) /\ p.fraction
    <2>1. t = 1
      BY <1>1, <1>5 DEF Exact
    <2>2. (t + 1) \div 2 = 1
      BY <2>1
    <2>3. QED
      BY <1>3, <1>5, <2>1, <2>2
  <1>6. CASE Exact(p, t) /\ ~p.fraction
    <2>1. t = 0
      BY <1>1, <1>6 DEF Exact
    <2>2. (t + 1) \div 2 = 0
      BY <2>1
    <2>3. QED
      BY <1>3, <1>6, <2>1, <2>2 DEF Exact
  <1>7. CASE "poly" \in LossyOrders /\ ~p.fraction
    <2>1. "poly" \notin FractionalOrders /\ "poly" \in Orders
      BY <1>7 DEF ReliableVenues, Orders, Legs
    <2>2. t % 2 = 0
      BY <2>1 DEF LegsInv
    <2>3. t = 2 * (t \div 2) /\ t \div 2 \in Nat
      BY <1>1, <2>2, Halves
    <2>4. (t + 1) \div 2 = t \div 2
      BY <1>1, <2>3, Z3
    <2>5. QED
      BY <1>3, <1>7, <2>3, <2>4 DEF Exact
  <1>8. QED
    BY <1>1, <1>4, <1>5, <1>6, <1>7

LEMMA LegsConfirm ==
  ASSUME ReliableVenues, TypeOK, NEW a \in Attempts, LegsInv(a),
         FillIsKnown(a) \/ ConfirmByOrder(a) \/ ConfirmByActivity(a) \/ ConfirmFails(a)
  PROVE  LegsInv(a)'
  <1>1. /\ Joined(a) /\ pc'[a] = "ackPoly"
        /\ row' = row /\ asked' = asked /\ live' = live /\ traded' = traded
        /\ told'[a]["kalshi"] = told[a]["kalshi"]
        /\ told'[a]["poly"].known
    <2>1. /\ Joined(a) /\ pc'[a] = "ackPoly"
          /\ row' = row /\ asked' = asked /\ live' = live /\ traded' = traded
      BY DEF FillIsKnown, ConfirmByOrder, ConfirmByActivity, ConfirmFails,
             Goto, durable, exchange, TypeOK
    <2>2. told[a]["poly"] \in Report /\ told[a]["poly"].known
      BY <2>1 DEF Joined, TypeOK, Legs
    <2>3. \/ told' = told
          \/ \E half : told' = [told EXCEPT ![a]["poly"] = [@ EXCEPT !.filled = half]]
          \/ told' = [told EXCEPT ![a]["poly"] = [@ EXCEPT !.valid = FALSE]]
      BY DEF FillIsKnown, ConfirmByOrder, ConfirmByActivity, ConfirmFails, Believe
    <2>4. CASE told' = told
      BY <2>1, <2>2, <2>4
    <2>7. told[a] \in [Legs -> Report] /\ "poly" \in Legs
      BY DEF TypeOK, Legs
    <2>5. ASSUME NEW half, told' = [told EXCEPT ![a]["poly"] = [@ EXCEPT !.filled = half]]
          PROVE  /\ told'[a]["kalshi"] = told[a]["kalshi"]
                 /\ told'[a]["poly"].known
      <3>1. told'[a] = [told[a] EXCEPT !["poly"] = [told[a]["poly"] EXCEPT !.filled = half]]
        BY <2>5 DEF TypeOK
      <3>2. told'[a]["poly"] = [told[a]["poly"] EXCEPT !.filled = half]
        BY <2>7, <3>1
      <3>3. QED
        BY <2>2, <3>1, <3>2 DEF TypeOK, Legs, Report
    <2>6. CASE told' = [told EXCEPT ![a]["poly"] = [@ EXCEPT !.valid = FALSE]]
      <3>1. told'[a] = [told[a] EXCEPT !["poly"] = [told[a]["poly"] EXCEPT !.valid = FALSE]]
        BY <2>6 DEF TypeOK
      <3>2. told'[a]["poly"] = [told[a]["poly"] EXCEPT !.valid = FALSE]
        BY <2>7, <3>1
      <3>3. [told[a]["poly"] EXCEPT !.valid = FALSE].known = told[a]["poly"].known
        BY <2>2 DEF Report
      <3>4. told'[a]["poly"].known
        BY <2>2, <3>2, <3>3, Zenon
      <3>5. told'[a]["kalshi"] = told[a]["kalshi"]
        BY <3>1 DEF TypeOK, Legs
      <3>6. QED
        BY <2>1, <3>4, <3>5, Zenon
    <2>8. QED
      BY <2>1, <2>3, <2>4, <2>5, <2>6
  <1>2. told'[a]["poly"].valid =>
          \/ Exact(told'[a]["poly"], traded[a]["poly"])
          \/ /\ told'[a]["poly"].fraction
             /\ traded[a]["poly"] = 2 * told'[a]["poly"].filled - 1
    <2>1. CASE FillIsKnown(a)
      <3>1. told' = told /\ (~told[a]["poly"].valid \/ told[a]["poly"].filled # 0)
        BY <2>1 DEF FillIsKnown, NeedsConfirmation
      <3>2. QED
        BY <1>1, <3>1 DEF LegsInv, Joined, Legs
    <2>2. CASE ConfirmByOrder(a)
      BY <2>2, LegsBelieve DEF ConfirmByOrder
    <2>3. CASE ConfirmByActivity(a)
      <3>1. OtherVolumes(a) = {}
        BY DEF OtherVolumes, ReliableVenues
      <3>2. traded[a]["poly"] \in Nat
        BY DEF TypeOK, Orders, Legs
      <3>3. Believe(a, traded[a]["poly"])
        BY <2>3, <3>1, <3>2 DEF ConfirmByActivity
      <3>4. QED
        BY <2>3, <3>3, LegsBelieve DEF ConfirmByActivity
    <2>4. CASE ConfirmFails(a)
      BY <2>4 DEF ConfirmFails, TypeOK, Legs, Report
    <2>5. QED
      BY <2>1, <2>2, <2>3, <2>4
  <1>3. \A l \in Legs : told'[a][l].known /\ told[a][l].known
    BY <1>1 DEF Joined, Legs
  <1>4. \A l \in Legs : l \notin live'[a] /\ asked'[a][l] > 0
    BY <1>1, <1>3 DEF LegsInv
  <1>5. told'[a]["kalshi"].valid => Exact(told'[a]["kalshi"], traded[a]["kalshi"])
    BY <1>1, <1>3 DEF LegsInv, Legs
  <1>6. \A o \in Orders :
          /\ asked'[a][o] = 0 \/ o \in live'[a] => traded'[a][o] = 0
          /\ traded'[a][o] <= 2 * asked'[a][o]
          /\ o \in FractionalOrders \/ traded'[a][o] % 2 = 0
    BY <1>1 DEF LegsInv
  <1>7. QED
    BY <1>1, <1>2, <1>3, <1>4, <1>5, <1>6 DEF LegsInv, Exact

LEMMA LegsSettle ==
  ASSUME TypeOK, NEW a \in Attempts, LegsInv(a),
         NEW o \in Orders, VenueSettles(a, o)
  PROVE  LegsInv(a)'
  <1>1. PICK half \in 0..(2 * asked[a][o]) :
          /\ o \in FractionalOrders \/ half % 2 = 0
          /\ traded' = [traded EXCEPT ![a][o] = half]
    BY DEF VenueSettles
  <1>2. /\ o \in live[a] /\ live'[a] = live[a] \ {o}
        /\ asked' = asked /\ told' = told /\ pc' = pc /\ row' = row
    BY DEF VenueSettles, program, durable, TypeOK
  <1>3. \A x \in Orders : traded'[a][x] = IF x = o THEN half ELSE traded[a][x]
    BY <1>1 DEF TypeOK
  <1>4. asked[a][o] \in Nat /\ half \in Nat /\ half <= 2 * asked[a][o]
    BY <1>1 DEF TypeOK
  <1>5. \A x \in Orders :
          /\ asked'[a][x] = 0 \/ x \in live'[a] => traded'[a][x] = 0
          /\ traded'[a][x] <= 2 * asked'[a][x]
          /\ x \in FractionalOrders \/ traded'[a][x] % 2 = 0
    BY <1>1, <1>2, <1>3, <1>4 DEF LegsInv
  <1>6. \A l \in Legs : told[a][l].known => l # o
    BY <1>2 DEF LegsInv
  <1>7. \A l \in Legs : told[a][l].known => traded'[a][l] = traded[a][l]
    BY <1>3, <1>6 DEF Orders
  <1>8. Confirmed(a)' => Confirmed(a) /\ \A l \in Legs : told[a][l].known
    BY <1>2 DEF Confirmed, Final, LegsInv
  <1>9. "poly" \in Legs /\ "kalshi" \in Legs
    BY DEF Legs
  <1>10. \A l \in Legs : told'[a][l].known => l \notin live'[a] /\ asked'[a][l] > 0
    BY <1>2 DEF LegsInv
  <1>11. told'[a]["kalshi"].known /\ told'[a]["kalshi"].valid
           => Exact(told'[a]["kalshi"], traded'[a]["kalshi"])
    BY <1>2, <1>7, <1>9 DEF LegsInv
  <1>12. pc'[a] = "submit" /\ told'[a]["poly"].known /\ told'[a]["poly"].valid
           => \/ Exact(told'[a]["poly"], traded'[a]["poly"])
              \/ /\ "poly" \in LossyOrders
                 /\ told'[a]["poly"].filled = 0 /\ ~told'[a]["poly"].fraction
    BY <1>2, <1>7, <1>9 DEF LegsInv
  <1>13. Confirmed(a)' /\ told'[a]["poly"].valid
           => \/ Exact(told'[a]["poly"], traded'[a]["poly"])
              \/ /\ told'[a]["poly"].fraction
                 /\ traded'[a]["poly"] = 2 * told'[a]["poly"].filled - 1
    BY <1>2, <1>7, <1>8, <1>9 DEF LegsInv
  <1>14. QED
    BY <1>2, <1>5, <1>8, <1>10, <1>11, <1>12, <1>13 DEF LegsInv, Exact

LEMMA LegsRecover ==
  ASSUME TypeOK, NEW a \in Attempts, LegsInv(a), RepairInv(a), SendStep(a)
  PROVE  LegsInv(a)'
  <1>1. /\ pc[a] = "recover" /\ steps[a] # <<>> /\ steps[a] \in StepLists
        /\ pc'[a] = "await" /\ row' = row /\ told' = told /\ traded' = traded
    BY DEF SendStep, Recovering, Goto, TypeOK, durable
  <1>2. PICK o \in Recoveries : o = Head(steps[a]) /\ o = steps[a][1] /\ o \in Orders
    BY <1>1, StepListFacts DEF Orders
  <1>3. /\ asked'[a] = [asked[a] EXCEPT ![o] = remaining[a]]
        /\ live'[a] = live[a] \cup {o}
    BY <1>2 DEF SendStep, TypeOK
  <1>4. asked[a][o] = 0 /\ traded[a][o] = 0 /\ remaining[a] \in Nat
    <2>1. 1 \in DOMAIN steps[a]
      BY <1>1 DEF StepLists
    <2>2. QED
      BY <1>1, <1>2, <2>1 DEF RepairInv, LegsInv, TypeOK
  <1>5. \A x \in Orders : asked'[a][x] = IF x = o THEN remaining[a] ELSE asked[a][x]
    BY <1>3 DEF TypeOK
  <1>6. \A l \in Legs : l # o
    BY DEF Legs, Recoveries
  <1>7. Confirmed(a) /\ Confirmed(a)'
    BY <1>1 DEF Confirmed
  <1>8. \A x \in Orders :
          /\ asked'[a][x] = 0 \/ x \in live'[a] => traded'[a][x] = 0
          /\ traded'[a][x] <= 2 * asked'[a][x]
          /\ x \in FractionalOrders \/ traded'[a][x] % 2 = 0
    BY <1>1, <1>3, <1>4, <1>5 DEF LegsInv
  <1>9. \A l \in Legs : told'[a][l].known => l \notin live'[a] /\ asked'[a][l] > 0
    BY <1>1, <1>3, <1>5, <1>6 DEF LegsInv, Orders
  <1>10. QED
    BY <1>1, <1>7, <1>8, <1>9 DEF LegsInv, Exact

LEMMA LegsStep ==
  ASSUME ReliableVenues, TypeOK, NEW a \in Attempts, PhaseInv(a), BeliefInv(a), Step(a)
  PROVE  LegsInv(a)'
  <1> LegsInv(a) /\ RepairInv(a) /\ FinalInv(a)
    BY DEF BeliefInv
  <1> USE DEF program, durable, exchange, Goto
  <1>1. CASE Admit(a) \/ Skip(a) \/ PersistIntentFails(a)
    <2>1. /\ pc[a] \in {"idle", "sizing"} /\ pc'[a] \in {"sizing", "done"}
          /\ told' = told /\ asked' = asked /\ live' = live /\ traded' = traded /\ row' = row
      BY <1>1 DEF Admit, Skip, PersistIntentFails, TypeOK
    <2>2. QED
      BY <2>1, LegsKept DEF Confirmed, Final
  <1>2. CASE PersistIntent(a)
    <2>1. /\ pc[a] = "sizing" /\ pc'[a] = "submit" /\ row[a] = "none" /\ row'[a] = "submitting"
          /\ told' = told /\ asked' = asked /\ live' = live /\ traded' = traded
      BY <1>2 DEF PersistIntent, TypeOK, PhaseInv
    <2>2. live[a] = {} /\ \A l \in Legs : ~told[a][l].known
      BY <2>1, LegsUntold
    <2>3. ~Confirmed(a)'
      BY <2>1 DEF Confirmed, Final, Settled
    <2>4. QED
      BY <2>1, <2>2, <2>3 DEF LegsInv, Exact, Legs
  <1>3. ASSUME NEW l \in Legs, PersistAck(a, l) \/ PersistAckFails(a, l)
        PROVE  LegsInv(a)'
    <2>1. /\ pc[a] \in {"ackPoly", "ackKalshi"} /\ pc'[a] \in {"ackKalshi", "plan", "done"}
          /\ told' = told /\ asked' = asked /\ live' = live /\ traded' = traded
      BY <1>3 DEF PersistAck, PersistAckFails, AckLabel, Legs, TypeOK
    <2>2. QED
      BY <2>1, LegsKept DEF Confirmed
  <1>4. CASE PlanRecovery(a) \/ RefuseStep(a) \/ StepReply(a)
    <2>1. /\ pc[a] \in {"plan", "recover", "await"} /\ pc'[a] = "recover"
          /\ told' = told /\ asked' = asked /\ live' = live /\ traded' = traded
      BY <1>4 DEF PlanRecovery, RefuseStep, Recovering, StepReply, TypeOK
    <2>2. QED
      BY <2>1, LegsKept DEF Confirmed
  <1>5. CASE Closing(a)
    <2>1. /\ pc[a] \in {"recover", "halt", "notify"} /\ pc'[a] \in {"halt", "notify", "done"}
          /\ told' = told /\ asked' = asked /\ live' = live /\ traded' = traded
      BY <1>5 DEF Closing, Finish, FinishFails, AfterFinish, RecoveryOver, Halt, Notify, TypeOK
    <2>2. QED
      BY <2>1, LegsKept DEF Confirmed
  <1>6. CASE Disconnect(a)
    <2>1. /\ pc'[a] = "dropped" /\ row' = row
          /\ told' = told /\ asked' = asked /\ live' = live /\ traded' = traded
      BY <1>6 DEF Disconnect, TypeOK
    <2>2. QED
      BY <2>1, LegsKept DEF Confirmed, Final
  <1>7. QED
    BY <1>1, <1>2, <1>3, <1>4, <1>5, <1>6, LegsSend, LegsReply, LegsConfirm,
       LegsSettle, LegsRecover
       DEF Step, Proceed, Submitting, Confirming, Repairing

-----------------------------------------------------------------------------
(* Recovery.                                                               *)

Early == {"idle", "sizing", "submit", "ackPoly", "ackKalshi", "plan"}

\* The quantities the recovery invariants are about are natural numbers.
LEMMA Amounts ==
  ASSUME TypeOK, NEW a \in Attempts
  PROVE  /\ Excess(a) \in Nat /\ remaining[a] \in Nat
         /\ steps[a] \in StepLists /\ live[a] \subseteq Orders
         /\ \A o \in Orders : traded[a][o] \in Nat /\ asked[a][o] \in Nat
         /\ traded[a]["forward"] \in Nat /\ traded[a]["unwind"] \in Nat
         /\ asked[a]["forward"] \in Nat /\ asked[a]["unwind"] \in Nat
  <1>1. Excess(a) \in Nat
    BY ViewsType
  <1>2. \A o \in Orders : traded[a][o] \in Nat /\ asked[a][o] \in Nat
    BY DEF TypeOK
  <1>3. QED
    BY <1>1, <1>2 DEF TypeOK, Orders, Recoveries

\* Of a list of recovery steps only the second is left after the first, and
\* it is the other one.
LEMMA StepListTail ==
  ASSUME NEW s \in StepLists, s # <<>>
  PROVE  /\ 1 \in DOMAIN s
         /\ \A i \in DOMAIN s : i = 1 \/ (i = 2 /\ s[2] # s[1] /\ s[2] \in Recoveries)
         /\ \A i \in DOMAIN Tail(s) : i = 1 /\ 2 \in DOMAIN s /\ Tail(s)[1] = s[2]
  <1>1. CASE s = <<"forward">>
    BY <1>1
  <1>2. CASE s = <<"unwind">>
    BY <1>2
  <1>3. CASE s = <<"forward", "unwind">>
    BY <1>3 DEF Recoveries
  <1>4. CASE s = <<"unwind", "forward">>
    BY <1>4 DEF Recoveries
  <1>5. QED
    BY <1>1, <1>2, <1>3, <1>4 DEF StepLists

\* Before the plan no recovery order was sent.
LEMMA RepairEarly ==
  ASSUME TypeOK, TypeOK', NEW a \in Attempts, PhaseInv(a)', LegsInv(a)', RepairInv(a),
         pc[a] \in Early, pc'[a] \in Early \cup {"done", "dropped"}, ~Final(a)',
         steps'[a] = steps[a], remaining'[a] = remaining[a],
         \A o \in Recoveries : asked'[a][o] = asked[a][o]
  PROVE  RepairInv(a)'
  <1>1. /\ steps'[a] = <<>> /\ remaining'[a] = 0
        /\ \A o \in Recoveries : asked'[a][o] = 0
    BY DEF RepairInv, Early
  <1>2. \A o \in Recoveries : o \notin live'[a] /\ traded'[a][o] = 0
    BY <1>1 DEF PhaseInv, LegsInv, Orders
  <1>3. Reach(a, "forward")' = 0 /\ Reach(a, "unwind")' = 0
    BY <1>2 DEF Reach, Recoveries
  <1>4. Excess(a)' \in Nat
    <2>1. \A l \in Legs : told'[a][l].filled \in Nat
      BY DEF TypeOK, Report
    <2>2. told'[a]["poly"].filled \in Nat /\ told'[a]["kalshi"].filled \in Nat
      BY <2>1 DEF Legs
    <2>3. QED
      BY <2>2 DEF Excess, PolyExcess
  <1>5. pc'[a] \notin {"recover", "await"}
    BY DEF Early
  <1>6. QED
    BY <1>1, <1>3, <1>4, <1>5 DEF RepairInv

\* After recovery nothing moves.
LEMMA RepairKept ==
  ASSUME NEW a \in Attempts, RepairInv(a),
         told'[a] = told[a], remaining'[a] = remaining[a],
         asked'[a] = asked[a], live'[a] = live[a], traded'[a] = traded[a],
         pc'[a] \in {"halt", "notify", "done", "dropped", "lost"},
         Final(a)' => Final(a) \/ pc[a] = "recover"
  PROVE  RepairInv(a)'
  <1>1. /\ Excess(a)' = Excess(a) /\ Unsafe(a)' = Unsafe(a)
        /\ Repaired(a)' = Repaired(a)
    BY DEF Excess, PolyExcess, Unsafe, Repaired
  <1>2. Balanced(a)' <=> Balanced(a)
    BY <1>1 DEF Balanced
  <1>3. /\ Reach(a, "forward")' = Reach(a, "forward")
        /\ Reach(a, "unwind")' = Reach(a, "unwind")
    BY DEF Reach
  <1>4. Final(a)' => Balanced(a)' /\ live'[a] = {}
    BY <1>2 DEF RepairInv
  <1>5. Reach(a, "forward")' + Reach(a, "unwind")' <= 2 * Excess(a)'
    BY <1>1, <1>3 DEF RepairInv
  <1>6. QED
    BY <1>4, <1>5 DEF RepairInv

LEMMA RepairPlan ==
  ASSUME TypeOK, NEW a \in Attempts, PhaseInv(a), LegsInv(a), RepairInv(a), PlanRecovery(a)
  PROVE  RepairInv(a)'
  <1>1. /\ pc[a] = "plan" /\ pc'[a] = "recover"
        /\ told' = told /\ asked' = asked /\ live' = live /\ traded' = traded
    BY DEF PlanRecovery, Goto, exchange, TypeOK
  <1>2. /\ steps[a] = <<>> /\ remaining[a] = 0
        /\ \A o \in Recoveries : asked[a][o] = 0
    BY <1>1 DEF RepairInv
  <1>3. live[a] = {}
    <2>1. \A l \in Legs : l \notin live[a]
      BY <1>1 DEF LegsInv, Confirmed
    <2>2. \A o \in Recoveries : o \notin live[a]
      BY <1>2 DEF PhaseInv
    <2>3. QED
      BY <2>1, <2>2, Amounts DEF Orders
  <1>4. traded[a]["forward"] = 0 /\ traded[a]["unwind"] = 0
    BY <1>2 DEF LegsInv, Orders, Recoveries
  <1>5. /\ Excess(a)' = Excess(a) /\ Unsafe(a)' = Unsafe(a) /\ Repaired(a)' = 0
    BY <1>1, <1>4 DEF Excess, PolyExcess, Unsafe, Repaired
  <1>6. Balanced(a)'
    <2>1. CASE Unsafe(a) \/ Excess(a) = 0
      <3>1. remaining'[a] = 0
        BY <1>2, <2>1 DEF PlanRecovery
      <3>2. QED
        BY <1>5, <2>1, <3>1 DEF Balanced
    <2>2. CASE ~(Unsafe(a) \/ Excess(a) = 0)
      <3>1. remaining'[a] = Excess(a)
        BY <2>2 DEF PlanRecovery, TypeOK
      <3>2. QED
        BY <1>5, <2>2, <3>1, Amounts DEF Balanced
    <2>3. QED
      BY <2>1, <2>2
  <1>7. steps'[a] \in {<<>>, <<"forward", "unwind">>, <<"unwind", "forward">>}
    BY <1>2 DEF PlanRecovery, TypeOK
  <1>8. \A i \in DOMAIN steps'[a] : asked'[a][steps'[a][i]] = 0
    BY <1>1, <1>2, <1>7 DEF Recoveries
  <1>9. Reach(a, "forward")' = 0 /\ Reach(a, "unwind")' = 0
    BY <1>1, <1>3, <1>4 DEF Reach
  <1>10. QED
    BY <1>1, <1>3, <1>5, <1>6, <1>8, <1>9, Amounts DEF RepairInv

LEMMA RepairRefuse ==
  ASSUME TypeOK, NEW a \in Attempts, RepairInv(a), RefuseStep(a)
  PROVE  RepairInv(a)'
  <1>1. /\ pc[a] = "recover" /\ pc'[a] = "recover" /\ steps[a] # <<>>
        /\ steps[a] \in StepLists /\ steps'[a] = Tail(steps[a])
        /\ told' = told /\ remaining' = remaining
        /\ asked' = asked /\ live' = live /\ traded' = traded
    BY DEF RefuseStep, Recovering, exchange, TypeOK
  <1>2. \A i \in DOMAIN Tail(steps[a]) :
          i = 1 /\ 2 \in DOMAIN steps[a] /\ Tail(steps[a])[1] = steps[a][2]
    BY <1>1, StepListTail
  <1>3. \A i \in DOMAIN steps'[a] : asked'[a][steps'[a][i]] = 0
    BY <1>1, <1>2 DEF RepairInv
  <1>4. /\ Excess(a)' = Excess(a) /\ Unsafe(a)' = Unsafe(a) /\ Repaired(a)' = Repaired(a)
    BY <1>1 DEF Excess, PolyExcess, Unsafe, Repaired
  <1>5. Balanced(a)' /\ live'[a] = {}
    BY <1>1, <1>4 DEF Balanced, RepairInv
  <1>6. /\ Reach(a, "forward")' = Reach(a, "forward")
        /\ Reach(a, "unwind")' = Reach(a, "unwind")
    BY <1>1 DEF Reach
  <1>7. Reach(a, "forward")' + Reach(a, "unwind")' <= 2 * Excess(a)'
    BY <1>4, <1>6 DEF RepairInv
  <1>8. QED
    BY <1>1, <1>3, <1>5, <1>7 DEF RepairInv

LEMMA RepairSend ==
  ASSUME TypeOK, NEW a \in Attempts, BeliefInv(a), SendStep(a)
  PROVE  RepairInv(a)'
  <1>0. LegsInv(a) /\ RepairInv(a) /\ FinalInv(a)
    BY DEF BeliefInv
  <1>1. /\ pc[a] = "recover" /\ pc'[a] = "await" /\ steps[a] # <<>> /\ remaining[a] > 0
        /\ steps[a] \in StepLists /\ steps'[a] = steps[a] /\ row' = row
        /\ told' = told /\ remaining' = remaining /\ traded' = traded
    BY DEF SendStep, Recovering, Goto, durable, TypeOK
  <1>2. PICK o \in Recoveries : o = Head(steps[a]) /\ o = steps[a][1] /\ o \in Orders
    BY <1>1, StepListFacts DEF Orders
  <1>3. /\ asked'[a] = [asked[a] EXCEPT ![o] = remaining[a]]
        /\ live'[a] = live[a] \cup {o}
    BY <1>2 DEF SendStep, TypeOK
  <1>4. \A x \in Orders : asked'[a][x] = IF x = o THEN remaining[a] ELSE asked[a][x]
    BY <1>3 DEF TypeOK
  <1>5. live[a] = {} /\ Balanced(a) /\ \A i \in DOMAIN steps[a] : asked[a][steps[a][i]] = 0
    BY <1>0, <1>1 DEF RepairInv
  <1>6. asked[a][o] = 0 /\ traded[a][o] = 0
    BY <1>0, <1>1, <1>2, <1>5, StepListTail DEF LegsInv
  <1>7. ~Unsafe(a) /\ Repaired(a) = 2 * (Excess(a) - remaining[a])
    BY <1>1, <1>5 DEF Balanced
  <1>8. /\ Excess(a)' = Excess(a) /\ Unsafe(a)' = Unsafe(a) /\ Repaired(a)' = Repaired(a)
    BY <1>1 DEF Excess, PolyExcess, Unsafe, Repaired
  <1>9. live'[a] \subseteq {o} /\ asked'[a][o] = remaining[a]
    BY <1>2, <1>3, <1>4, <1>5
  <1>10. Repaired(a)' - traded'[a][o] = 2 * (Excess(a)' - remaining'[a])
    BY <1>1, <1>2, <1>6, <1>7, <1>8, Amounts DEF Repaired, Recoveries
  <1>11. \A i \in DOMAIN steps'[a] : i > 1 => asked'[a][steps'[a][i]] = 0
    <2>1. \A i \in DOMAIN steps[a] : i > 1 => steps[a][i] # o /\ steps[a][i] \in Orders
      BY <1>1, <1>2, StepListTail DEF Orders
    <2>2. QED
      BY <1>1, <1>4, <1>5, <2>1
  <1>12. Reach(a, "forward")' + Reach(a, "unwind")' <= 2 * Excess(a)'
    <2>1. CASE o = "forward"
      <3>1. Reach(a, "forward")' = 2 * remaining[a] /\ Reach(a, "unwind")' = traded[a]["unwind"]
        BY <1>1, <1>3, <1>4, <1>5, <2>1 DEF Reach, Orders, Recoveries
      <3>2. QED
        BY <1>6, <1>7, <1>8, <2>1, <3>1, Amounts DEF Repaired
    <2>2. CASE o = "unwind"
      <3>1. Reach(a, "unwind")' = 2 * remaining[a] /\ Reach(a, "forward")' = traded[a]["forward"]
        BY <1>1, <1>3, <1>4, <1>5, <2>2 DEF Reach, Orders, Recoveries
      <3>2. QED
        BY <1>6, <1>7, <1>8, <2>2, <3>1, Amounts DEF Repaired
    <2>3. QED
      BY <2>1, <2>2 DEF Recoveries
  <1>13. ~Final(a)'
    <2>1. ~Final(a)
      BY <1>0, <1>1 DEF FinalInv
    <2>2. QED
      BY <1>1, <2>1 DEF Final
  <1>14. QED
    BY <1>1, <1>2, <1>7, <1>8, <1>9, <1>10, <1>11, <1>12, <1>13 DEF RepairInv

LEMMA RepairReply ==
  ASSUME ReliableVenues, TypeOK, NEW a \in Attempts, LegsInv(a), RepairInv(a), StepReply(a)
  PROVE  RepairInv(a)'
  <1>1. /\ pc[a] = "await" /\ pc'[a] = "recover" /\ steps[a] # <<>>
        /\ steps[a] \in StepLists /\ steps'[a] = Tail(steps[a])
        /\ told' = told /\ asked' = asked /\ live' = live /\ traded' = traded
    BY DEF StepReply, Goto, exchange, TypeOK
  <1>2. PICK o \in Recoveries : o = Head(steps[a]) /\ o = steps[a][1] /\ o \in Orders
    BY <1>1, StepListFacts DEF Orders
  <1>3. PICK r \in Replies(a, o) :
          remaining' = [remaining EXCEPT ![a] = IF r.filled > @ THEN 0 ELSE @ - r.filled]
    BY <1>2 DEF StepReply
  <1>4. /\ ~Unsafe(a) /\ live[a] \subseteq {o} /\ asked[a][o] = remaining[a]
        /\ Repaired(a) - traded[a][o] = 2 * (Excess(a) - remaining[a])
        /\ \A i \in DOMAIN steps[a] : i > 1 => asked[a][steps[a][i]] = 0
    BY <1>1, <1>2 DEF RepairInv
  <1>5. traded[a][o] <= 2 * asked[a][o] /\ traded[a][o] % 2 = 0
    BY <1>2 DEF LegsInv, ReliableVenues, Legs, Recoveries
  <1>6. /\ r.filled \in Nat /\ traded[a][o] = 2 * r.filled
        /\ o \notin live[a]
    BY <1>2, <1>3, <1>5, RecoveryReply, ReplyFacts
  <1>7. remaining'[a] = remaining[a] - r.filled
    <2>1. r.filled <= remaining[a]
      BY <1>2, <1>4, <1>5, <1>6, Amounts
    <2>2. QED
      BY <1>3, <1>6, <2>1, Amounts DEF TypeOK
  <1>8. /\ Excess(a)' = Excess(a) /\ Unsafe(a)' = Unsafe(a) /\ Repaired(a)' = Repaired(a)
    BY <1>1 DEF Excess, PolyExcess, Unsafe, Repaired
  <1>9. Balanced(a)'
    <2>1. Repaired(a) \in Int
      BY Amounts DEF Repaired
    <2>2. Repaired(a) = 2 * (Excess(a) - (remaining[a] - r.filled))
      BY <1>2, <1>4, <1>6, <2>1, Amounts
    <2>3. QED
      BY <1>4, <1>7, <1>8, <2>2 DEF Balanced
  <1>10. live'[a] = {}
    BY <1>1, <1>4, <1>6
  <1>11. \A i \in DOMAIN steps'[a] : asked'[a][steps'[a][i]] = 0
    <2>1. \A i \in DOMAIN steps'[a] :
            i = 1 /\ 2 \in DOMAIN steps[a] /\ steps'[a][1] = steps[a][2]
      BY <1>1, StepListTail
    <2>2. QED
      BY <1>1, <1>4, <2>1
  <1>12. /\ Reach(a, "forward")' = Reach(a, "forward")
         /\ Reach(a, "unwind")' = Reach(a, "unwind")
    BY <1>1 DEF Reach
  <1>13. Reach(a, "forward")' + Reach(a, "unwind")' <= 2 * Excess(a)'
    BY <1>8, <1>12 DEF RepairInv
  <1>14. QED
    BY <1>1, <1>9, <1>10, <1>11, <1>13 DEF RepairInv

LEMMA RepairSettle ==
  ASSUME TypeOK, NEW a \in Attempts, PhaseInv(a), RepairInv(a),
         NEW o \in Orders, VenueSettles(a, o)
  PROVE  RepairInv(a)'
  <1>1. PICK half \in 0..(2 * asked[a][o]) : traded' = [traded EXCEPT ![a][o] = half]
    BY DEF VenueSettles
  <1>2. /\ o \in live[a] /\ live'[a] = live[a] \ {o}
        /\ asked' = asked /\ told' = told /\ pc' = pc /\ row' = row
        /\ steps' = steps /\ remaining' = remaining
    BY DEF VenueSettles, program, durable, TypeOK
  <1>3. \A x \in Orders : traded'[a][x] = IF x = o THEN half ELSE traded[a][x]
    BY <1>1 DEF TypeOK
  <1>4. asked[a][o] \in Nat /\ asked[a][o] > 0 /\ half \in Nat /\ half <= 2 * asked[a][o]
    BY <1>1, <1>2 DEF TypeOK, PhaseInv
  <1>5. pc[a] # "recover" /\ ~Final(a)
    BY <1>2 DEF RepairInv
  <1>6. Excess(a)' = Excess(a) /\ Unsafe(a)' = Unsafe(a)
    BY <1>2 DEF Excess, PolyExcess, Unsafe
  <1>7. "forward" \in Orders /\ "unwind" \in Orders
    BY DEF Orders, Recoveries
  <1>8. /\ Reach(a, "forward")' <= Reach(a, "forward")
        /\ Reach(a, "unwind")' <= Reach(a, "unwind")
        /\ Reach(a, "forward") \in Nat /\ Reach(a, "unwind") \in Nat
        /\ Reach(a, "forward")' \in Nat /\ Reach(a, "unwind")' \in Nat
    BY <1>2, <1>3, <1>4, <1>7, Amounts DEF Reach
  <1>9. Reach(a, "forward")' + Reach(a, "unwind")' <= 2 * Excess(a)'
    BY <1>6, <1>8, Amounts DEF RepairInv
  <1>10. CASE pc[a] = "await"
    <2>1. /\ ~Unsafe(a) /\ steps[a] # <<>> /\ live[a] \subseteq {Head(steps[a])}
          /\ asked[a][Head(steps[a])] = remaining[a]
          /\ Repaired(a) - traded[a][Head(steps[a])] = 2 * (Excess(a) - remaining[a])
          /\ \A i \in DOMAIN steps[a] : i > 1 => asked[a][steps[a][i]] = 0
      BY <1>10 DEF RepairInv
    <2>2. o = Head(steps[a]) /\ o \in Recoveries
      BY <1>2, <2>1, StepListFacts, Amounts
    <2>3. Repaired(a)' - traded'[a][o] = Repaired(a) - traded[a][o]
      <3>1. CASE o = "forward"
        BY <1>3, <1>4, <1>7, <3>1, Amounts DEF Repaired
      <3>2. CASE o = "unwind"
        BY <1>3, <1>4, <1>7, <3>2, Amounts DEF Repaired
      <3>3. QED
        BY <2>2, <3>1, <3>2 DEF Recoveries
    <2>4. /\ Repaired(a)' - traded'[a][Head(steps'[a])] = 2 * (Excess(a)' - remaining'[a])
          /\ live'[a] \subseteq {Head(steps'[a])}
      BY <1>2, <1>6, <2>1, <2>2, <2>3
    <2>5. QED
      BY <1>2, <1>5, <1>6, <1>9, <1>10, <2>1, <2>4 DEF RepairInv, Final
  <1>11. CASE pc[a] # "await"
    BY <1>2, <1>5, <1>9, <1>11 DEF RepairInv, Final
  <1>12. QED
    BY <1>10, <1>11

LEMMA RepairStep ==
  ASSUME ReliableVenues, TypeOK, TypeOK', NEW a \in Attempts,
         PhaseInv(a), PhaseInv(a)', BeliefInv(a), LegsInv(a)', Step(a)
  PROVE  RepairInv(a)'
  <1> LegsInv(a) /\ RepairInv(a) /\ FinalInv(a)
    BY DEF BeliefInv
  <1> USE DEF program, durable, exchange, Goto
  <1>1. CASE Admit(a) \/ Skip(a) \/ PersistIntent(a) \/ PersistIntentFails(a)
    <2>1. /\ pc[a] \in Early /\ pc'[a] \in Early \cup {"done"} /\ row[a] = "none"
          /\ steps' = steps /\ remaining' = remaining /\ asked' = asked
          /\ row'[a] \in {"none", "submitting"}
      BY <1>1 DEF Admit, Skip, PersistIntent, PersistIntentFails, TypeOK, PhaseInv, Early
    <2>2. QED
      BY <2>1, RepairEarly DEF Final, Settled
  <1>2. ASSUME NEW l \in Legs, SendLeg(a, l) \/ LegReply(a, l) PROVE RepairInv(a)'
    <2>1. /\ pc[a] = "submit" /\ pc' = pc /\ row' = row
          /\ steps' = steps /\ remaining' = remaining
      BY <1>2 DEF SendLeg, LegReply
    <2>2. \A o \in Recoveries : asked'[a][o] = asked[a][o]
      BY <1>2 DEF SendLeg, LegReply, TypeOK, Recoveries, Legs, Orders
    <2>3. row'[a] = "submitting"
      BY <2>1 DEF PhaseInv
    <2>4. QED
      BY <2>1, <2>2, <2>3, RepairEarly DEF Early, Final, Settled
  <1>3. CASE Confirming(a)
    <2>1. /\ pc[a] \in {"submit", "ackPoly", "ackKalshi"}
          /\ pc'[a] \in {"ackPoly", "ackKalshi", "plan", "done"}
          /\ row' = row /\ steps' = steps /\ remaining' = remaining /\ asked' = asked
      BY <1>3 DEF Confirming, FillIsKnown, ConfirmByOrder, ConfirmByActivity, ConfirmFails,
                  Joined, PersistAck, PersistAckFails, AckLabel, Legs, TypeOK
    <2>2. row'[a] = "submitting"
      BY <2>1 DEF PhaseInv
    <2>3. QED
      BY <2>1, <2>2, RepairEarly DEF Early, Final, Settled
  <1>4. CASE Closing(a)
    <2>1. /\ pc[a] \in {"recover", "halt", "notify"} /\ pc'[a] \in {"halt", "notify", "done"}
          /\ told' = told /\ remaining' = remaining
          /\ asked' = asked /\ live' = live /\ traded' = traded
          /\ pc[a] = "recover" \/ row' = row
      BY <1>4 DEF Closing, Finish, FinishFails, AfterFinish, RecoveryOver, Halt, Notify, TypeOK
    <2>2. QED
      BY <2>1, RepairKept DEF Final
  <1>5. CASE Disconnect(a)
    <2>1. /\ pc'[a] = "dropped" /\ row' = row /\ told' = told /\ remaining' = remaining
          /\ asked' = asked /\ live' = live /\ traded' = traded
      BY <1>5 DEF Disconnect, TypeOK
    <2>2. QED
      BY <2>1, RepairKept DEF Final
  <1>6. QED
    BY <1>1, <1>2, <1>3, <1>4, <1>5, RepairPlan, RepairRefuse, RepairSend,
       RepairReply, RepairSettle
       DEF Step, Proceed, Submitting, Repairing

-----------------------------------------------------------------------------
(* What a balanced attempt holds, and what its row says.                   *)

\* What is left of an excess of the Kalshi leg, in half contracts.
LEMMA LeftOfExcess ==
  ASSUME NEW x \in Int, NEW y \in Int, NEW fp \in Int, NEW fk \in Int, NEW r \in Int,
         NEW t \in Int, t \in {2 * x + fp, 2 * x - fp}
  PROVE  t - (2 * y + fk) + 2 * (y - x - r) \in {fp - fk - 2 * r, 0 - fp - fk - 2 * r}
  OBVIOUS

\* The residual the program counts covers the position there is.
LEMMA ResidualCovers ==
  ASSUME TypeOK, NEW a \in Attempts, LegsInv(a), Balanced(a), Confirmed(a), ~Unsafe(a)
  PROVE  Exposure(a) \in Int /\ Size(Exposure(a)) <= 2 * Residual(a)
  <1> DEFINE p == told[a]["poly"]
             k == told[a]["kalshi"]
             fp == IF p.fraction THEN 1 ELSE 0
             fk == IF k.fraction THEN 1 ELSE 0
  <1>1. p.filled \in Nat /\ k.filled \in Nat
    BY DEF TypeOK, Legs, Report
  <1>2. /\ traded[a]["poly"] \in Nat /\ traded[a]["kalshi"] \in Nat
        /\ remaining[a] \in Nat /\ Repaired(a) \in Nat
    BY Amounts DEF Orders, Legs, Repaired
  <1>3. fp \in {0, 1} /\ fk \in {0, 1}
    OBVIOUS
  <1>4. p.valid /\ k.valid /\ k.known
    BY DEF Unsafe, LegsInv, Legs
  <1>5. traded[a]["kalshi"] = 2 * k.filled + fk
    BY <1>4 DEF LegsInv, Exact
  <1>6. traded[a]["poly"] \in {2 * p.filled + fp, 2 * p.filled - fp}
    BY <1>4 DEF LegsInv, Exact
  <1>7. Repaired(a) = 2 * (Excess(a) - remaining[a])
    BY DEF Balanced
  <1>8. Residual(a) = remaining[a] + fp + fk
    BY <1>2, <1>3 DEF Residual, Fractions
  <1> HIDE DEF fp, fk, p, k
  <1>9. CASE PolyExcess(a)
    <2>1. Excess(a) = p.filled - k.filled
      BY <1>9 DEF Excess, p, k
    <2>2. Exposure(a) = traded[a]["poly"] - traded[a]["kalshi"] - Repaired(a)
      BY <1>9 DEF Exposure
    <2>3. QED
      BY <1>1, <1>2, <1>3, <1>5, <1>6, <1>7, <1>8, <2>1, <2>2 DEF Size
  <1>10. CASE ~PolyExcess(a)
    <2>1. Excess(a) = k.filled - p.filled
      BY <1>10 DEF Excess, p, k
    <2>2. Exposure(a) = traded[a]["poly"] - traded[a]["kalshi"] + Repaired(a)
      BY <1>2, <1>10 DEF Exposure
    <2>3. Exposure(a) \in {fp - fk - 2 * remaining[a], 0 - fp - fk - 2 * remaining[a]}
      <3>1. Repaired(a) = 2 * (k.filled - p.filled - remaining[a])
        BY <1>7, <2>1
      <3>2. Exposure(a) = traded[a]["poly"] - (2 * k.filled + fk) + Repaired(a)
        BY <1>5, <2>2
      <3>3. p.filled \in Int /\ k.filled \in Int /\ fp \in Int /\ fk \in Int
            /\ remaining[a] \in Int /\ traded[a]["poly"] \in Int
        BY <1>1, <1>2, <1>3
      <3>4. QED
        BY <1>6, <3>1, <3>2, <3>3, LeftOfExcess
    <2>4. QED
      BY <1>2, <1>3, <1>8, <2>3 DEF Size
  <1>11. QED
    BY <1>9, <1>10

\* With no alarm it holds nothing.
LEMMA QuietIsFlat ==
  ASSUME TypeOK, NEW a \in Attempts, LegsInv(a), Balanced(a), Confirmed(a), ~Alarm(a)
  PROVE  Exposure(a) = 0
  <1>1. ~Unsafe(a) /\ Residual(a) = 0
    BY ViewsType DEF Alarm
  <1>2. Exposure(a) \in Int /\ Size(Exposure(a)) <= 2 * Residual(a)
    BY <1>1, ResidualCovers
  <1>3. QED
    BY <1>1, <1>2 DEF Size

LEMMA AbsentIsFlat ==
  ASSUME TypeOK, NEW a \in Attempts, PhaseInv(a), LegsInv(a), row[a] = "none"
  PROVE  live[a] = {} /\ Exposure(a) = 0
  <1>1. \A o \in Orders : asked[a][o] = 0 /\ traded[a][o] = 0
    BY DEF PhaseInv, LegsInv
  <1>2. live[a] = {}
    BY LegsUntold
  <1>3. /\ traded[a]["poly"] = 0 /\ traded[a]["kalshi"] = 0
        /\ traded[a]["forward"] = 0 /\ traded[a]["unwind"] = 0
    BY <1>1 DEF Orders, Legs, Recoveries
  <1>4. QED
    BY <1>2, <1>3 DEF Exposure, Repaired

LEMMA OutcomeView ==
  ASSUME NEW a \in Attempts, told'[a] = told[a], remaining'[a] = remaining[a],
         size'[a] = size[a]
  PROVE  Outcome(a)' = Outcome(a)
  BY DEF Outcome, Alarm, Unsafe, Residual, Fractions, Excess, PolyExcess

\* An attempt in the middle of its work says nothing final.
LEMMA FinalLater ==
  ASSUME NEW a \in Attempts, row[a] \in {"none", "submitting"},
         pc[a] \notin {"halt", "notify", "done"},
         pc[a] \in {"idle", "sizing", "submit", "ackPoly"} => acked[a] = {},
         pc[a] = "ackKalshi" => acked[a] = {"poly"}
  PROVE  FinalInv(a)
  BY DEF FinalInv, Final, Settled

LEMMA FinalStep ==
  ASSUME TypeOK, TypeOK', NEW a \in Attempts,
         PhaseInv(a), PhaseInv(a)', BeliefInv(a), LegsInv(a)', Step(a)
  PROVE  FinalInv(a)'
  <1> LegsInv(a) /\ RepairInv(a) /\ FinalInv(a)
    BY DEF BeliefInv
  <1> USE DEF program, durable, exchange, Goto
  <1>1. CASE Admit(a) \/ PersistIntent(a)
    <2>1. /\ pc'[a] \in {"sizing", "submit"} /\ acked' = acked
          /\ row[a] = "none" /\ row'[a] \in {"none", "submitting"}
          /\ pc[a] \in {"idle", "sizing"}
      BY <1>1 DEF Admit, PersistIntent, TypeOK, PhaseInv
    <2>2. acked[a] = {}
      BY <2>1 DEF FinalInv
    <2>3. QED
      BY <2>1, <2>2, FinalLater DEF FinalInv, Final, Settled
  <1>2. CASE Skip(a) \/ PersistIntentFails(a)
    <2>1. /\ pc[a] = "sizing" /\ pc'[a] = "done" /\ row' = row /\ row[a] = "none"
          /\ UNCHANGED <<told, live, traded>>
      BY <1>2 DEF Skip, PersistIntentFails, TypeOK, PhaseInv
    <2>2. live[a] = {} /\ Exposure(a) = 0
      BY <2>1, AbsentIsFlat
    <2>3. live'[a] = {} /\ Exposure(a)' = 0
      BY <2>1, <2>2 DEF Exposure, PolyExcess, Repaired
    <2>4. QED
      BY <2>1, <2>3 DEF FinalInv, Final, Settled
  <1>3. ASSUME NEW l \in Legs, SendLeg(a, l) \/ LegReply(a, l) PROVE FinalInv(a)'
    <2>1. pc[a] = "submit" /\ pc' = pc /\ row' = row /\ acked' = acked
      BY <1>3 DEF SendLeg, LegReply
    <2>2. row[a] = "submitting" /\ acked[a] = {}
      BY <2>1 DEF PhaseInv, FinalInv
    <2>3. QED
      BY <2>1, <2>2 DEF FinalInv, Final, Settled
  <1>4. CASE FillIsKnown(a) \/ ConfirmByOrder(a) \/ ConfirmByActivity(a) \/ ConfirmFails(a)
    <2>1. pc[a] = "submit" /\ pc'[a] = "ackPoly" /\ row' = row /\ acked' = acked
      BY <1>4 DEF FillIsKnown, ConfirmByOrder, ConfirmByActivity, ConfirmFails, Joined, TypeOK
    <2>2. row[a] = "submitting" /\ acked[a] = {}
      BY <2>1 DEF PhaseInv, FinalInv
    <2>3. QED
      BY <2>1, <2>2 DEF FinalInv, Final, Settled
  <1>5. ASSUME NEW l \in Legs, PersistAck(a, l) PROVE FinalInv(a)'
    <2>1. /\ pc[a] = AckLabel[l] /\ row' = row /\ acked'[a] = acked[a] \cup {l}
          /\ pc'[a] = IF l = "poly" THEN "ackKalshi" ELSE "plan"
      BY <1>5 DEF PersistAck, TypeOK
    <2>2. row[a] = "submitting"
      BY <2>1 DEF PhaseInv, AckLabel, Legs
    <2>3. l = "poly" => acked'[a] = {"poly"}
      BY <2>1 DEF FinalInv, AckLabel
    <2>4. QED
      BY <2>1, <2>2, <2>3 DEF FinalInv, Final, Settled
  <1>6. ASSUME NEW l \in Legs, PersistAckFails(a, l) PROVE FinalInv(a)'
    <2>1. /\ pc[a] = AckLabel[l] /\ pc'[a] = "done" /\ row' = row /\ acked' = acked
          /\ live' = live
      BY <1>6 DEF PersistAckFails, TypeOK
    <2>2. pc[a] \in {"ackPoly", "ackKalshi"}
      BY <2>1 DEF AckLabel, Legs
    <2>3. row[a] = "submitting" /\ acked[a] # Legs
      BY <2>2 DEF PhaseInv, FinalInv, Legs
    <2>4. live[a] = {}
      <3>1. \A x \in Legs : x \notin live[a]
        BY <2>2 DEF LegsInv, Confirmed
      <3>2. \A x \in Recoveries : x \notin live[a]
        BY <2>2 DEF RepairInv, PhaseInv
      <3>3. QED
        BY <3>1, <3>2, Amounts DEF Orders
    <2>5. QED
      BY <2>1, <2>3, <2>4 DEF FinalInv, Final, Settled
  <1>7. CASE Repairing(a)
    <2>1. /\ pc[a] \in {"plan", "recover", "await"} /\ pc'[a] \in {"recover", "await"}
          /\ row' = row
      BY <1>7 DEF Repairing, PlanRecovery, RefuseStep, SendStep, StepReply, Recovering, TypeOK
    <2>2. row[a] = "submitting"
      BY <2>1 DEF PhaseInv
    <2>3. QED
      BY <2>1, <2>2 DEF FinalInv, Final, Settled
  <1>8. CASE Finish(a)
    <2>1. /\ pc[a] = "recover" /\ pc'[a] \in {"halt", "done"} /\ row'[a] = Outcome(a)
          /\ UNCHANGED <<told, remaining, size, live>>
      BY <1>8 DEF Finish, AfterFinish, RecoveryOver, TypeOK
    <2>2. live[a] = {} /\ Outcome(a)' = Outcome(a)
      BY <2>1, OutcomeView DEF RepairInv
    <2>3. Final(a)'
      BY <2>1, OutcomeRow DEF Final
    <2>4. QED
      BY <2>1, <2>2, <2>3 DEF FinalInv
  <1>9. CASE FinishFails(a)
    <2>1. /\ pc[a] = "recover" /\ pc'[a] = (IF Alarm(a) THEN "halt" ELSE "done") /\ row' = row
          /\ UNCHANGED <<told, remaining, size, live, traded>>
      BY <1>9 DEF FinishFails, AfterFinish, RecoveryOver, TypeOK
    <2>2. row[a] = "submitting" /\ live[a] = {} /\ Balanced(a) /\ Confirmed(a)
      BY <2>1 DEF PhaseInv, RepairInv, Confirmed
    <2>3. ~Alarm(a) => Exposure(a)' = 0
      <3>1. Exposure(a)' = Exposure(a)
        BY <2>1 DEF Exposure, PolyExcess, Repaired
      <3>2. QED
        BY <2>2, <3>1, QuietIsFlat
    <2>4. QED
      BY <2>1, <2>2, <2>3 DEF FinalInv, Final, Settled
  <1>10. CASE Halt(a)
    <2>1. /\ pc[a] = "halt" /\ pc'[a] = "notify" /\ row' = row
          /\ UNCHANGED <<told, remaining, size, live>>
      BY <1>10 DEF Halt, TypeOK
    <2>2. Outcome(a)' = Outcome(a)
      BY <2>1, OutcomeView
    <2>3. QED
      BY <2>1, <2>2 DEF FinalInv, Final
  <1>11. CASE Notify(a)
    <2>1. /\ pc[a] = "notify" /\ pc'[a] = "done" /\ row' = row
          /\ UNCHANGED <<told, remaining, size, live>>
      BY <1>11 DEF Notify, TypeOK
    <2>2. Outcome(a)' = Outcome(a) /\ Alarm(a)' = Alarm(a)
      BY <2>1, OutcomeView, AlarmView
    <2>3. Alarm(a) /\ row[a] \in {"submitting", "exposed"}
      BY <2>1 DEF PhaseInv
    <2>4. QED
      BY <2>1, <2>2, <2>3 DEF FinalInv, Final
  <1>12. ASSUME NEW o \in Orders, VenueSettles(a, o) PROVE FinalInv(a)'
    <2>1. o \in live[a] /\ UNCHANGED <<pc, row, acked>>
      BY <1>12 DEF VenueSettles
    <2>2. pc[a] \notin {"halt", "notify", "done"} /\ ~Final(a)
      BY <2>1 DEF FinalInv, RepairInv
    <2>3. QED
      BY <2>1, <2>2 DEF FinalInv, Final
  <1>13. CASE Disconnect(a)
    <2>1. /\ pc[a] \in {"sizing", "submit", "await", "ackPoly", "ackKalshi", "plan", "recover"}
          /\ pc'[a] = "dropped" /\ row' = row
      BY <1>13 DEF Disconnect, Waiting, Recovering, TypeOK
    <2>2. ~Final(a)
      BY <2>1 DEF FinalInv
    <2>3. QED
      BY <2>1, <2>2 DEF FinalInv, Final
  <1>14. QED
    BY <1>1, <1>2, <1>3, <1>4, <1>5, <1>6, <1>7, <1>8, <1>9, <1>10, <1>11, <1>12, <1>13
       DEF Step, Proceed, Submitting, Confirming, Closing

-----------------------------------------------------------------------------
(* The whole invariant.                                                    *)

LEMMA BeliefView ==
  ASSUME NEW a \in Attempts, View(a)' = View(a), BeliefInv(a)
  PROVE  BeliefInv(a)'
  <1> USE DEF View
  <1>1. Confirmed(a)' = Confirmed(a) /\ Final(a)' = Final(a)
    BY DEF Confirmed, Final
  <1>2. LegsInv(a)'
    BY <1>1, LegsKept DEF BeliefInv
  <1>3. /\ Excess(a)' = Excess(a) /\ Unsafe(a)' = Unsafe(a) /\ Repaired(a)' = Repaired(a)
        /\ Reach(a, "forward")' = Reach(a, "forward") /\ Reach(a, "unwind")' = Reach(a, "unwind")
        /\ Exposure(a)' = Exposure(a) /\ Outcome(a)' = Outcome(a) /\ Alarm(a)' = Alarm(a)
    BY OutcomeView, AlarmView DEF Excess, PolyExcess, Unsafe, Repaired, Reach, Exposure
  <1>4. Balanced(a)' <=> Balanced(a)
    BY <1>3 DEF Balanced
  <1>5. RepairInv(a)'
    BY <1>1, <1>3, <1>4 DEF BeliefInv, RepairInv
  <1>6. FinalInv(a)'
    BY <1>1, <1>3 DEF BeliefInv, FinalInv
  <1>7. QED
    BY <1>2, <1>5, <1>6 DEF BeliefInv

\* An attempt that a crash interrupts.
LEMMA BeliefLost ==
  ASSUME NEW a \in Attempts, BeliefInv(a), pc'[a] = "lost",
         UNCHANGED <<size, told, steps, remaining, row, acked, asked, live, traded>>
  PROVE  BeliefInv(a)'
  <1>1. Final(a)' <=> Final(a)
    BY DEF Final
  <1>2. LegsInv(a)'
    BY <1>1, LegsKept DEF BeliefInv, Confirmed
  <1>3. RepairInv(a)'
    BY <1>1, RepairKept DEF BeliefInv
  <1>4. FinalInv(a)'
    BY <1>1, OutcomeView DEF BeliefInv, FinalInv
  <1>5. QED
    BY <1>2, <1>3, <1>4 DEF BeliefInv

LEMMA FillInit == Init => FillInv
  <1> SUFFICES ASSUME Init, NEW a \in Attempts PROVE BeliefInv(a)
    BY DEF FillInv
  <1>0. TypeOK
    BY TypeInit
  <1>1. /\ pc[a] = "idle" /\ row[a] = "none" /\ acked[a] = {} /\ live[a] = {}
        /\ steps[a] = <<>> /\ remaining[a] = 0
        /\ \A l \in Legs : ~told[a][l].known
        /\ \A o \in Orders : asked[a][o] = 0 /\ traded[a][o] = 0
    BY DEF Init, NoReply, Answer
  <1>2. ~Final(a) /\ ~Confirmed(a)
    BY <1>1 DEF Final, Confirmed, Settled
  <1>3. LegsInv(a)
    BY <1>1, <1>2 DEF LegsInv, Legs
  <1>4. Reach(a, "forward") = 0 /\ Reach(a, "unwind") = 0
    BY <1>1 DEF Reach, Orders, Recoveries
  <1>5. RepairInv(a)
    BY <1>0, <1>1, <1>2, <1>4, Amounts DEF RepairInv, Orders
  <1>6. FinalInv(a)
    BY <1>1, <1>2 DEF FinalInv
  <1>7. QED
    BY <1>3, <1>5, <1>6 DEF BeliefInv

LEMMA FillStep == ControlInv /\ ControlInv' /\ FillInv /\ [Next]_vars => FillInv'
  <1> SUFFICES ASSUME ControlInv, ControlInv', ReliableVenues, [Next]_vars,
                      \A b \in Attempts : BeliefInv(b)
               PROVE  \A b \in Attempts : BeliefInv(b)'
    BY DEF FillInv, ReliableVenues
  <1>0. TypeOK /\ TypeOK' /\ \A b \in Attempts : PhaseInv(b) /\ PhaseInv(b)'
    BY DEF ControlInv
  <1>1. ASSUME NEW a \in Attempts, Step(a)
        PROVE  \A b \in Attempts : BeliefInv(b)'
    <2>1. \A b \in Attempts \ {a} : BeliefInv(b)'
      BY <1>0, <1>1, StepFrame, BeliefView
    <2>2. LegsInv(a)'
      BY <1>0, <1>1, LegsStep
    <2>3. RepairInv(a)'
      BY <1>0, <1>1, <2>2, RepairStep
    <2>4. FinalInv(a)'
      BY <1>0, <1>1, <2>2, FinalStep
    <2>5. QED
      BY <2>1, <2>2, <2>3, <2>4 DEF BeliefInv
  <1>2. ASSUME Crash, NEW a \in Attempts
        PROVE  BeliefInv(a)'
    <2>1. /\ UNCHANGED <<size, told, steps, remaining, row, acked, asked, live, traded>>
          /\ pc'[a] = "lost" \/ pc'[a] = pc[a]
      BY <1>2 DEF Crash, durable, exchange
    <2>2. pc'[a] = pc[a] => View(a)' = View(a)
      BY <2>1 DEF View
    <2>3. QED
      BY <2>1, <2>2, BeliefLost, BeliefView
  <1>3. ASSUME Restart \/ Enable \/ Disable \/ UNCHANGED vars, NEW a \in Attempts
        PROVE  BeliefInv(a)'
    <2>1. View(a)' = View(a)
      BY <1>3 DEF Restart, Enable, Disable, vars, program, durable, exchange, View
    <2>2. QED
      BY <2>1, BeliefView
  <1>4. QED
    BY <1>1, <1>2, <1>3, NextSteps

\* What an attempt believes of its fills, and what its rows say, stays tied to
\* what the exchanges did at every step: the whole inductive invariant.
THEOREM BeliefHolds == Spec => [](ControlInv /\ FillInv)
  <1>1. ControlInv /\ FillInv /\ ControlInv' /\ [Next]_vars => FillInv'
    BY FillStep
  <1>2. QED
    BY <1>1, FillInit, ControlHolds, PTL DEF Spec

\* A row that says a trade is over and hedged is true, if the exchanges
\* answer for what they did: whatever fills, fails to be stored, or crashes.
THEOREM SettledMeansFlat ==
  ASSUME ReliableVenues
  PROVE  Spec => []SettledIsFlat
  <1>1. ControlInv /\ FillInv => SettledIsFlat
    <2> SUFFICES ASSUME ControlInv, FillInv, NEW a \in Attempts, row[a] \in Settled
                 PROVE  /\ live[a] = {} /\ Exposure(a) = 0
                        /\ row[a] = "executed" => \A l \in Legs : traded[a][l] = 2 * size[a]
      BY DEF SettledIsFlat
    <2>1. TypeOK /\ LegsInv(a) /\ RepairInv(a) /\ FinalInv(a)
      BY DEF ControlInv, FillInv, BeliefInv
    <2>2. Final(a) /\ Confirmed(a) /\ row[a] = Outcome(a) /\ live[a] = {} /\ Balanced(a)
      BY <2>1 DEF Final, Confirmed, FinalInv, RepairInv
    <2>3. ~Alarm(a)
      BY <2>2, OutcomeRow DEF Settled
    <2>4. Exposure(a) = 0
      BY <2>1, <2>2, <2>3, QuietIsFlat
    <2>5. ASSUME row[a] = "executed", NEW l \in Legs
          PROVE  traded[a][l] = 2 * size[a]
      <3>1. told[a][l].filled = size[a] /\ told[a][l].valid /\ told[a][l].known
        BY <2>1, <2>2, <2>3, <2>5 DEF Outcome, Legs, Alarm, Unsafe, LegsInv
      <3>2. ~told[a][l].fraction
        <4>1. remaining[a] \in Nat /\ Residual(a) = 0
          BY <2>1, <2>3, ViewsType, Amounts DEF Alarm
        <4>2. ~told[a]["poly"].fraction /\ ~told[a]["kalshi"].fraction
          BY <4>1 DEF Residual, Fractions
        <4>3. QED
          BY <4>2 DEF Legs
      <3>3. Exact(told[a][l], traded[a][l])
        BY <2>1, <2>2, <3>1, <3>2 DEF LegsInv, Legs
      <3>4. size[a] \in Nat
        BY <2>1 DEF TypeOK
      <3>5. QED
        BY <3>1, <3>2, <3>3, <3>4 DEF Exact
    <2>6. QED
      BY <2>2, <2>4, <2>5
  <1>2. QED
    BY <1>1, BeliefHolds, PTL

\* An exposed row does not understate the position.
THEOREM ResidualIsEnough ==
  ASSUME ReliableVenues
  PROVE  Spec => []ResidualCoversExposure
  <1>1. ControlInv /\ FillInv => ResidualCoversExposure
    <2> SUFFICES ASSUME ControlInv, FillInv, NEW a \in Attempts,
                        row[a] = "exposed", ~Unsafe(a)
                 PROVE  Size(Exposure(a)) <= 2 * Residual(a)
      BY DEF ResidualCoversExposure
    <2>1. TypeOK /\ LegsInv(a) /\ RepairInv(a)
      BY DEF ControlInv, FillInv, BeliefInv
    <2>2. Confirmed(a) /\ Balanced(a)
      BY <2>1 DEF Final, Confirmed, RepairInv
    <2>3. QED
      BY <2>1, <2>2, ResidualCovers
  <1>2. QED
    BY <1>1, BeliefHolds, PTL

\* The two recovery orders together never trade more than the excess.
THEOREM RepairIsBounded ==
  ASSUME ReliableVenues
  PROVE  Spec => []NeverOverRepaired
  <1>1. ControlInv /\ FillInv => NeverOverRepaired
    <2> SUFFICES ASSUME ControlInv, FillInv, NEW a \in Attempts
                 PROVE  Repaired(a) <= 2 * Excess(a)
      BY DEF NeverOverRepaired
    <2>1. TypeOK /\ LegsInv(a) /\ RepairInv(a)
      BY DEF ControlInv, FillInv, BeliefInv
    <2>2. /\ traded[a]["forward"] <= Reach(a, "forward")
          /\ traded[a]["unwind"] <= Reach(a, "unwind")
          /\ Reach(a, "forward") \in Nat /\ Reach(a, "unwind") \in Nat
      BY <2>1, Amounts DEF Reach, LegsInv, Orders, Recoveries
    <2>3. QED
      BY <2>1, <2>2, Amounts DEF RepairInv, Repaired
  <1>2. QED
    BY <1>1, BeliefHolds, PTL

\* Trading is not on over a true position of an attempt that has returned,
\* if no client disconnects: only the operator's review, or a halt that
\* could not be written, leaves it on.
THEOREM NoExposureWhileTrading ==
  ASSUME ReliableVenues, Disconnects = {}
  PROVE  Spec => []ExposureHaltsTrading
  <1> DEFINE NobodyDropped == \A a \in Attempts : pc[a] # "dropped"
  <1>1. Init => NobodyDropped
    BY DEF Init
  <1>2. NobodyDropped /\ ControlInv /\ [Next]_vars => NobodyDropped'
    <2> SUFFICES ASSUME NobodyDropped, TypeOK, [Next]_vars, NEW b \in Attempts
                 PROVE  pc'[b] # "dropped"
      BY DEF ControlInv
    <2> USE DEF program, Goto, TypeOK
    <2>1. ASSUME NEW a \in Attempts, Admit(a) \/ Skip(a) PROVE pc'[b] # "dropped"
      BY <2>1 DEF Admit, Skip
    <2>2. ASSUME NEW a \in Attempts, Submitting(a) PROVE pc'[b] # "dropped"
      BY <2>2 DEF Submitting, PersistIntent, PersistIntentFails, SendLeg, LegReply
    <2>3. ASSUME NEW a \in Attempts, Confirming(a) PROVE pc'[b] # "dropped"
      BY <2>3 DEF Confirming, FillIsKnown, ConfirmByOrder, ConfirmByActivity, ConfirmFails,
                  PersistAck, PersistAckFails
    <2>4. ASSUME NEW a \in Attempts, Repairing(a) PROVE pc'[b] # "dropped"
      BY <2>4 DEF Repairing, PlanRecovery, RefuseStep, SendStep, StepReply
    <2>5. ASSUME NEW a \in Attempts, Closing(a) PROVE pc'[b] # "dropped"
      BY <2>5 DEF Closing, Finish, FinishFails, AfterFinish, Halt, Notify
    <2>6. ASSUME NEW a \in Attempts, Disconnect(a) \/ \E o \in Orders : VenueSettles(a, o)
          PROVE  pc'[b] # "dropped"
      BY <2>6 DEF Disconnect, VenueSettles
    <2>7. CASE Crash \/ Restart \/ Enable \/ Disable \/ UNCHANGED vars
      BY <2>7 DEF Crash, Restart, Enable, Disable, vars
    <2>8. QED
      BY <2>1, <2>2, <2>3, <2>4, <2>5, <2>6, <2>7 DEF Next, Proceed
  <1>3. ControlInv /\ FillInv /\ NobodyDropped => ExposureHaltsTrading
    <2> SUFFICES ASSUME ControlInv, FillInv, enabled, NEW a \in Attempts,
                        pc[a] = "done", Exposure(a) # 0
                 PROVE  a \in reviewed \cup unhalted
      BY DEF ExposureHaltsTrading
    <2>1. TypeOK /\ LegsInv(a) /\ RepairInv(a) /\ FinalInv(a) /\ HaltInv
      BY DEF ControlInv, FillInv, BeliefInv
    <2>2. MeantToHalt(a)
      <3>1. CASE Final(a)
        <4>1. Confirmed(a) /\ row[a] = Outcome(a) /\ Balanced(a)
          BY <2>1, <3>1 DEF Confirmed, FinalInv, RepairInv
        <4>2. Alarm(a)
          BY <2>1, <4>1, QuietIsFlat
        <4>3. QED
          BY <4>1, <4>2, OutcomeRow DEF MeantToHalt
      <3>2. CASE ~Final(a)
        BY <2>1, <3>2 DEF FinalInv, MeantToHalt
      <3>3. QED
        BY <3>1, <3>2
    <2>3. QED
      BY <2>1, <2>2 DEF HaltInv
  <1>4. QED
    BY <1>1, <1>2, <1>3, BeliefHolds, PTL DEF Spec

-----------------------------------------------------------------------------
(* Paired execution implements TradeLedger.                                *)

LEMMA ExposureKept ==
  ASSUME NEW a \in Attempts, told'[a] = told[a], traded'[a] = traded[a]
  PROVE  Exposure(a)' = Exposure(a)
  BY DEF Exposure, PolyExcess, Repaired

\* What a step of an attempt does to its entry and its position.
LEMMA LedgerStep ==
  ASSUME TypeOK, NEW a \in Attempts, PhaseInv(a), BeliefInv(a), Step(a)
  PROVE  \/ row'[a] = row[a] /\ Exposure(a)' = Exposure(a)
         \/ row'[a] = row[a] /\ row[a] = "submitting"
         \/ row[a] = "none" /\ row'[a] = "submitting" /\ Exposure(a)' = Exposure(a)
         \/ /\ row[a] = "submitting" /\ row'[a] \in Settled
            /\ Exposure(a) = 0 /\ Exposure(a)' = Exposure(a)
         \/ row[a] = "submitting" /\ row'[a] = "exposed" /\ Exposure(a)' = Exposure(a)
  <1> DEFINE Kept == row'[a] = row[a] /\ Exposure(a)' = Exposure(a)
             Moved == row'[a] = row[a] /\ row[a] = "submitting"
  <1> LegsInv(a) /\ RepairInv(a) /\ FinalInv(a)
    BY DEF BeliefInv
  <1> USE DEF program, durable, exchange, Goto
  <1>1. CASE Admit(a) \/ Skip(a) \/ PersistIntentFails(a) \/ Disconnect(a)
    <2>1. row' = row /\ told' = told /\ traded' = traded
      BY <1>1 DEF Admit, Skip, PersistIntentFails, Disconnect
    <2>2. QED
      BY <2>1, ExposureKept
  <1>2. CASE PersistIntent(a)
    <2>1. row[a] = "none" /\ row'[a] = "submitting" /\ told' = told /\ traded' = traded
      BY <1>2 DEF PersistIntent, PhaseInv, TypeOK
    <2>2. QED
      BY <2>1, ExposureKept
  <1>3. ASSUME NEW l \in Legs, SendLeg(a, l) \/ LegReply(a, l) PROVE Moved
    BY <1>3 DEF SendLeg, LegReply, PhaseInv
  <1>4. CASE Confirming(a)
    <2>1. row' = row /\ pc[a] \in {"submit", "ackPoly", "ackKalshi"}
      BY <1>4 DEF Confirming, FillIsKnown, ConfirmByOrder, ConfirmByActivity, ConfirmFails,
                  Joined, PersistAck, PersistAckFails, AckLabel, Legs
    <2>2. QED
      BY <2>1 DEF PhaseInv
  <1>5. CASE Repairing(a)
    <2>1. row' = row /\ told' = told /\ traded' = traded
      BY <1>5 DEF Repairing, PlanRecovery, RefuseStep, SendStep, StepReply
    <2>2. QED
      BY <2>1, ExposureKept
  <1>6. CASE Finish(a)
    <2>1. /\ pc[a] = "recover" /\ row'[a] = Outcome(a) /\ told' = told /\ traded' = traded
      BY <1>6 DEF Finish, RecoveryOver, TypeOK
    <2>2. row[a] = "submitting" /\ Confirmed(a) /\ Balanced(a) /\ Exposure(a)' = Exposure(a)
      BY <2>1, ExposureKept DEF PhaseInv, Confirmed, RepairInv
    <2>3. CASE Alarm(a)
      BY <2>1, <2>2, <2>3, OutcomeRow
    <2>4. CASE ~Alarm(a)
      BY <2>1, <2>2, <2>4, OutcomeRow, QuietIsFlat
    <2>5. QED
      BY <2>3, <2>4
  <1>7. CASE FinishFails(a) \/ Halt(a) \/ Notify(a)
    <2>1. row' = row /\ told' = told /\ traded' = traded
      BY <1>7 DEF FinishFails, Halt, Notify
    <2>2. QED
      BY <2>1, ExposureKept
  <1>8. ASSUME NEW o \in Orders, VenueSettles(a, o) PROVE Moved
    <2>1. o \in live[a] /\ row' = row
      BY <1>8 DEF VenueSettles
    <2>2. row[a] # "none" /\ ~Final(a)
      BY <2>1 DEF PhaseInv, RepairInv
    <2>3. QED
      BY <2>1, <2>2 DEF Final, TypeOK, Statuses
  <1>9. QED
    BY <1>1, <1>2, <1>3, <1>4, <1>5, <1>6, <1>7, <1>8 DEF Step, Proceed, Submitting, Closing

\* The same, of the books of all attempts.
LEMMA LedgerNext ==
  ASSUME ControlInv, FillInv, ReliableVenues, [Next]_vars
  PROVE  [Ledger!Next]_<<[a \in Attempts |-> LedgerOf(a)], [a \in Attempts |-> Exposure(a)]>>
  <1> DEFINE book == [a \in Attempts |-> LedgerOf(a)]
             net == [a \in Attempts |-> Exposure(a)]
  <1>0. TypeOK /\ \A a \in Attempts : PhaseInv(a) /\ BeliefInv(a)
    BY DEF ControlInv, FillInv
  <1>1. ASSUME NEW a \in Attempts, Step(a)
        PROVE  Ledger!Next \/ (book' = book /\ net' = net)
    <2>1. \A b \in Attempts \ {a} : LedgerOf(b)' = LedgerOf(b) /\ Exposure(b)' = Exposure(b)
      <3>1. \A b \in Attempts \ {a} : View(b)' = View(b)
        BY <1>0, <1>1, StepFrame
      <3>2. QED
        BY <3>1, ExposureKept DEF View, LedgerOf
    <2>2. book' = [book EXCEPT ![a] = LedgerOf(a)']
      BY <2>1
    <2>3. net' = [net EXCEPT ![a] = net'[a]]
      BY <2>1
    <2>4. book[a] = LedgerOf(a) /\ net[a] = Exposure(a) /\ net'[a] = Exposure(a)'
      OBVIOUS
    <2>5. Exposure(a)' = Exposure(a) => net' = net
      BY <2>1
    <2>6. LedgerOf(a)' = LedgerOf(a) => book' = book
      BY <2>1
    <2>7. CASE row'[a] = row[a] /\ Exposure(a)' = Exposure(a)
      BY <2>5, <2>6, <2>7 DEF LedgerOf
    <2>8. CASE row'[a] = row[a] /\ row[a] = "submitting"
      <3>1. book[a] = "open" /\ book' = book
        BY <2>6, <2>8 DEF LedgerOf
      <3>2. Ledger!Move(a)
        BY <2>3, <3>1 DEF Ledger!Move
      <3>3. QED
        BY <3>2 DEF Ledger!Next
    <2>9. CASE row[a] = "none" /\ row'[a] = "submitting" /\ Exposure(a)' = Exposure(a)
      <3>1. LedgerOf(a) = "absent" /\ LedgerOf(a)' = "open"
        BY <2>9 DEF LedgerOf
      <3>2. Ledger!Enter(a)
        BY <2>2, <2>4, <2>5, <2>9, <3>1 DEF Ledger!Enter
      <3>3. QED
        BY <3>2 DEF Ledger!Next
    <2>10. CASE /\ row[a] = "submitting" /\ row'[a] \in Settled
                /\ Exposure(a) = 0 /\ Exposure(a)' = Exposure(a)
      <3>1. LedgerOf(a) = "open" /\ LedgerOf(a)' = "flat"
        BY <2>10 DEF LedgerOf, Settled
      <3>2. Ledger!CloseFlat(a)
        BY <2>2, <2>4, <2>5, <2>10, <3>1 DEF Ledger!CloseFlat
      <3>3. QED
        BY <3>2 DEF Ledger!Next
    <2>11. CASE row[a] = "submitting" /\ row'[a] = "exposed" /\ Exposure(a)' = Exposure(a)
      <3>1. LedgerOf(a) = "open" /\ LedgerOf(a)' = "exposed"
        BY <2>11 DEF LedgerOf
      <3>2. Ledger!CloseExposed(a)
        BY <2>2, <2>4, <2>5, <2>11, <3>1 DEF Ledger!CloseExposed
      <3>3. QED
        BY <3>2 DEF Ledger!Next
    <2>12. QED
      BY <1>0, <1>1, <2>7, <2>8, <2>9, <2>10, <2>11, LedgerStep
  <1>2. CASE Crash \/ Restart \/ Enable \/ Disable \/ UNCHANGED vars
    <2>1. row' = row /\ told' = told /\ traded' = traded
      BY <1>2 DEF Crash, Restart, Enable, Disable, vars, program, durable, exchange
    <2>2. \A a \in Attempts : LedgerOf(a)' = LedgerOf(a) /\ Exposure(a)' = Exposure(a)
      BY <2>1, ExposureKept DEF LedgerOf
    <2>3. book' = book /\ net' = net
      BY <2>2
    <2>4. QED
      BY <2>3
  <1>3. QED
    BY <1>1, <1>2, NextSteps

\* Paired execution keeps the promise of TradeLedger: on the books before
\* anything trades, flat when the books say so, and final when it is closed.
THEOREM LedgerIsKept ==
  ASSUME ReliableVenues
  PROVE  Spec => KeepsLedger
  <1>1. Init => Ledger!Init
    <2> SUFFICES ASSUME Init PROVE Ledger!Init
      OBVIOUS
    <2>1. TypeOK /\ FillInv /\ ControlInv
      BY FillInit, ControlInit, TypeInit
    <2>2. \A a \in Attempts : LedgerOf(a) = "absent" /\ Exposure(a) = 0
      <3>1. \A a \in Attempts : row[a] = "none" /\ PhaseInv(a) /\ LegsInv(a)
        BY <2>1 DEF Init, FillInv, BeliefInv, ControlInv
      <3>2. QED
        BY <2>1, <3>1, AbsentIsFlat DEF LedgerOf
    <2>3. QED
      BY <2>2 DEF Ledger!Init
  <1>2. ControlInv /\ FillInv /\ [Next]_vars
          => [Ledger!Next]_<<[a \in Attempts |-> LedgerOf(a)], [a \in Attempts |-> Exposure(a)]>>
    BY LedgerNext
  <1>3. QED
    BY <1>1, <1>2, BeliefHolds, PTL DEF Spec, KeepsLedger, Ledger!Spec
=============================================================================
