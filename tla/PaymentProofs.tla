---------------------------- MODULE PaymentProofs ----------------------------
(* Proofs about the payment saga, for every set of invoices, bound on their *)
(* events, set of faults and bound on them.                                 *)
EXTENDS PaymentSaga, TLAPS, FiniteSetTheorems

USE PaymentAssumption

-----------------------------------------------------------------------------
(* Types.                                                                  *)

\* The handler is busy exactly when it has one message in hand, and a message
\* in hand is not acknowledged yet.
HandOK ==
    /\ pc = "idle" <=> current = {}
    /\ \A m, n \in current : m = n
    /\ \A m \in current : waiting[m] > 0

TypeInv == TypeOK /\ HandOK

\* Nothing has happened yet.
LEMMA TypeInvInit == Init => TypeInv
BY DEF Init, TypeInv, TypeOK, HandOK, PCs, Statuses

\* A fault is counted only while the bound allows one.
LEMMA CountTyped ==
    ASSUME faults \in 0 .. MaxFaults, NEW kinds,
           NEW outcome \in Outcomes(kinds), Count(outcome)
    PROVE  /\ faults' \in 0 .. MaxFaults
           /\ outcome = "ok" \/ outcome \in kinds \intersect Faults
BY DEF Outcomes, Count

\* A message always belongs to an invoice.
LEMMA MessageFacts ==
    ASSUME NEW m \in Messages
    PROVE  m.invoice \in Invoices /\ m.declined \in BOOLEAN
BY DEF Messages

\* A publication of approval-agent preserves the types.
LEMMA RequestTyped ==
    ASSUME TypeInv, NEW m \in Messages, Request(m)
    PROVE  TypeInv'
<1>1. sent' \in [Invoices -> 0 .. MaxCopies]
  BY MessageFacts DEF Request, TypeInv, TypeOK
<1>2. waiting' \in [Messages -> Nat] /\ \A n \in Messages : waiting'[n] >= waiting[n]
  BY DEF Request, TypeInv, TypeOK
<1>3. current \subseteq Messages /\ \A n \in current : waiting'[n] > 0
  BY <1>2 DEF TypeInv, TypeOK, HandOK
<1> QED
  BY <1>1, <1>2, <1>3 DEF Request, handler, TypeInv, TypeOK, HandOK

\* A handler that gives up leaves its message in the topic.
LEMMA FailTyped ==
    ASSUME TypeInv, NEW m \in Messages, Fail(m)
    PROVE  waiting' \in [Messages -> Nat] /\ pc' \in PCs /\ current' \subseteq Messages /\ HandOK'
BY DEF Fail, TypeInv, TypeOK, HandOK, PCs

\* A call that moves the handler on keeps its message in hand.
LEMMA AdvanceTyped ==
    ASSUME TypeInv, NEW m \in current, NEW label \in PCs \ {"idle"},
           pc' = label, waiting' = waiting, current' = current
    PROVE  waiting' \in [Messages -> Nat] /\ pc' \in PCs /\ current' \subseteq Messages /\ HandOK'
BY DEF TypeInv, TypeOK, HandOK

\* A delivery preserves the types.
LEMMA DeliverTyped ==
    ASSUME TypeInv, NEW m \in Messages, Deliver(m)
    PROVE  TypeInv'
<1>1. PICK outcome \in Outcomes(ReadFaults) :
        /\ Count(outcome)
        /\ \/ outcome = "read_raised" /\ Fail(m)
           \/ /\ outcome # "read_raised"
              /\ pc' \in {"answer", "reserve"}
              /\ current' = {m}
              /\ UNCHANGED waiting
  BY DEF Deliver
<1>2. faults' \in 0 .. MaxFaults
  BY <1>1, CountTyped DEF TypeInv, TypeOK
<1>3. waiting' \in [Messages -> Nat] /\ pc' \in PCs /\ current' \subseteq Messages /\ HandOK'
  <2>1. CASE Fail(m)
    BY <2>1, FailTyped
  <2>2. CASE pc' \in {"answer", "reserve"} /\ current' = {m} /\ UNCHANGED waiting
    BY <2>2 DEF Deliver, TypeInv, TypeOK, HandOK, PCs
  <2> QED
    BY <1>1, <2>1, <2>2
<1> QED
  BY <1>2, <1>3 DEF Deliver, TypeInv, TypeOK

\* So does a reservation.
LEMMA ReserveTyped ==
    ASSUME TypeInv, NEW m \in Messages, Reserve(m)
    PROVE  TypeInv'
<1>1. PICK outcome \in Outcomes(ReserveFaults) :
        /\ Count(outcome)
        /\ payment' = payment \/ payment' = [payment EXCEPT ![m.invoice] = "reserved"]
        /\ \/ pc' = "charge" /\ UNCHANGED <<waiting, current>>
           \/ Fail(m)
  BY DEF Reserve
<1>2. faults' \in 0 .. MaxFaults
  BY <1>1, CountTyped DEF TypeInv, TypeOK
<1>3. payment' \in [Invoices -> Statuses]
  BY <1>1, MessageFacts DEF TypeInv, TypeOK, Statuses
<1>4. waiting' \in [Messages -> Nat] /\ pc' \in PCs /\ current' \subseteq Messages /\ HandOK'
  BY <1>1, FailTyped, AdvanceTyped DEF Reserve, At, PCs
<1> QED
  BY <1>2, <1>3, <1>4 DEF Reserve, TypeInv, TypeOK

\* So does a charge.
LEMMA ChargeTyped ==
    ASSUME TypeInv, NEW m \in Messages, Charge(m)
    PROVE  TypeInv'
<1>1. charges' \in [Invoices -> Nat]
  BY MessageFacts DEF Charge, Charged, TypeInv, TypeOK
<1>2. waiting' \in [Messages -> Nat] /\ pc' \in PCs /\ current' \subseteq Messages /\ HandOK'
  BY AdvanceTyped DEF Charge, At, topic, PCs
<1> QED
  BY <1>1, <1>2 DEF Charge, topic, TypeInv, TypeOK

\* So does the end of a saga.
LEMMA SettleTyped ==
    ASSUME TypeInv, NEW m \in Messages, Settle(m)
    PROVE  TypeInv'
<1>1. PICK outcome \in Outcomes(SettleFaults) :
        /\ Count(outcome)
        /\ payment' = payment \/ payment' = [payment EXCEPT ![m.invoice] = Settlement(m)]
        /\ AfterSettle(m, outcome)
  BY DEF Settle
<1>2. faults' \in 0 .. MaxFaults
  BY <1>1, CountTyped DEF TypeInv, TypeOK
<1>3. payment' \in [Invoices -> Statuses]
  BY <1>1, MessageFacts DEF Settlement, TypeInv, TypeOK, Statuses
<1>4. waiting' \in [Messages -> Nat] /\ pc' \in PCs /\ current' \subseteq Messages /\ HandOK'
  BY <1>1, FailTyped, AdvanceTyped DEF Settle, AfterSettle, At, PCs
<1> QED
  BY <1>2, <1>3, <1>4 DEF Settle, TypeInv, TypeOK

\* So does the announcement.
LEMMA AnnounceTyped ==
    ASSUME TypeInv, NEW m \in Messages, Announce(m)
    PROVE  TypeInv'
<1>1. PICK outcome \in Outcomes(OutcomeFaults) :
        /\ Count(outcome)
        /\ \/ outcomes' = outcomes
           \/ outcomes' = [outcomes EXCEPT ![m.invoice] =
                              @ \union {IF m.declined THEN "failed" ELSE "paid"}]
  BY DEF Announce
<1>2. faults' \in 0 .. MaxFaults
  BY <1>1, CountTyped DEF TypeInv, TypeOK
<1>3. outcomes' \in [Invoices -> SUBSET {"paid", "failed"}]
  BY <1>1, MessageFacts DEF TypeInv, TypeOK
<1>4. waiting' \in [Messages -> Nat] /\ pc' \in PCs /\ current' \subseteq Messages /\ HandOK'
  BY AdvanceTyped DEF Announce, At, topic, PCs
<1> QED
  BY <1>2, <1>3, <1>4 DEF Announce, topic, TypeInv, TypeOK

\* So does the answer: there is a copy left to acknowledge.
LEMMA AnswerTyped ==
    ASSUME TypeInv, NEW m \in Messages, Answer(m)
    PROVE  TypeInv'
<1>1. PICK outcome \in Outcomes({"ack_lost"}) :
        /\ Count(outcome)
        /\ waiting' = waiting \/ waiting' = [waiting EXCEPT ![m] = @ - 1]
  BY DEF Answer, Acknowledge
<1>2. faults' \in 0 .. MaxFaults
  BY <1>1, CountTyped DEF TypeInv, TypeOK
<1>3. waiting[m] \in Nat /\ waiting[m] > 0
  BY DEF Answer, At, TypeInv, TypeOK, HandOK
<1>4. waiting' \in [Messages -> Nat]
  BY <1>1, <1>3 DEF TypeInv, TypeOK
<1> QED
  BY <1>2, <1>4 DEF Answer, TypeInv, TypeOK, HandOK, PCs

\* Every step preserves the types.
LEMMA TypeInvNext == TypeInv /\ [Next]_vars => TypeInv'
<1> SUFFICES ASSUME TypeInv, [Next]_vars PROVE TypeInv'
  OBVIOUS
<1>1. CASE UNCHANGED vars
  BY <1>1 DEF vars, TypeInv, TypeOK, HandOK
<1>2. ASSUME NEW m \in Messages, Request(m) \/ Handle(m) PROVE TypeInv'
  BY <1>2, RequestTyped, DeliverTyped, ReserveTyped, ChargeTyped, SettleTyped,
     AnnounceTyped, AnswerTyped DEF Handle
<1>3. CASE Crash
  <2>1. faults' \in 0 .. MaxFaults
    BY <1>3, CountTyped DEF Crash, TypeInv, TypeOK
  <2> QED
    BY <1>3, <2>1 DEF Crash, topic, TypeInv, TypeOK, HandOK, PCs
<1> QED
  BY <1>1, <1>2, <1>3 DEF Next

\* TypeInv holds in every reachable state.
LEMMA TypeInvAlways == Spec => []TypeInv
BY TypeInvInit, TypeInvNext, PTL DEF Spec

\* The state of the saga, its handler and its topic are always well formed.
THEOREM PaymentTypeCorrect == Spec => []TypeOK
BY TypeInvAlways, PTL DEF TypeInv

-----------------------------------------------------------------------------
(* The saga and the money.                                                 *)

\* What the handler knows of the invoice in hand after each of its calls.
\* Without the first line a second delivery could reserve again; it is what a
\* look-up answered with an error status breaks.
InHandOK ==
    \A m \in current :
        LET i == m.invoice
        IN  /\ pc = "reserve"  => payment[i] = "none"
            /\ pc = "charge"   => payment[i] = "reserved" /\ charges[i] = 0
            /\ pc = "settle"   => /\ payment[i] = "reserved"
                                  /\ charges[i] = IF m.declined THEN 0 ELSE 1
            /\ pc = "announce" => payment[i] = Settlement(m)

\* What the stored state of a saga says of the money.
LedgerOK ==
    \A i \in Invoices :
        /\ payment[i] \in {"none", "compensated"} => charges[i] = 0
        /\ payment[i] = "paid" => charges[i] = 1

MoneyInv == TypeInv /\ InHandOK /\ LedgerOK /\ AtMostOneCharge /\ OutcomeTruthful

\* The part of MoneyInv that is left to prove once TypeInv' is known.
MoneyOK == InHandOK /\ LedgerOK /\ AtMostOneCharge /\ OutcomeTruthful

\* MoneyInv holds when nothing has happened yet.
LEMMA MoneyInvInit == Init => MoneyInv
BY TypeInvInit DEF Init, MoneyInv, InHandOK, LedgerOK, AtMostOneCharge, OutcomeTruthful

\* Only the message in hand moves the handler.
LEMMA OnlyInHand ==
    ASSUME TypeInv, NEW m \in current
    PROVE  current = {m} /\ m \in Messages /\ m.invoice \in Invoices
BY MessageFacts DEF TypeInv, TypeOK, HandOK

\* A handler that gives up, or an idle one, knows nothing and breaks nothing.
LEMMA IdleMoney ==
    ASSUME MoneyInv, current' = {}, UNCHANGED <<payment, charges, outcomes>>
    PROVE  MoneyOK'
BY DEF MoneyInv, MoneyOK, InHandOK, LedgerOK, AtMostOneCharge, OutcomeTruthful

\* A delivery that reads the stored state finds no saga, or stops.
LEMMA DeliverMoney ==
    ASSUME MoneyInv, NEW m \in Messages, Deliver(m), "read_status" \notin Faults
    PROVE  MoneyOK'
<1>1. PICK outcome \in Outcomes(ReadFaults) :
        LET existing == IF outcome = "ok" THEN payment[m.invoice] ELSE "none"
        IN  /\ Count(outcome)
            /\ \/ outcome = "read_raised" /\ Fail(m)
               \/ /\ outcome # "read_raised"
                  /\ pc' = IF AlreadyHandled(existing) THEN "answer" ELSE "reserve"
                  /\ current' = {m}
                  /\ UNCHANGED waiting
  BY DEF Deliver
<1>2. UNCHANGED <<payment, charges, outcomes>>
  BY DEF Deliver
<1>3. outcome \in {"ok", "read_raised"}
  BY DEF Outcomes, ReadFaults
<1>4. CASE outcome = "read_raised"
  BY <1>1, <1>2, <1>4, IdleMoney DEF Fail
<1>5. CASE outcome = "ok"
  BY <1>1, <1>2, <1>5, MessageFacts
  DEF AlreadyHandled, MoneyInv, MoneyOK, InHandOK, LedgerOK, AtMostOneCharge, OutcomeTruthful
<1> QED
  BY <1>3, <1>4, <1>5

\* A reservation is the first for its invoice.
LEMMA ReserveMoney ==
    ASSUME MoneyInv, NEW m \in Messages, Reserve(m)
    PROVE  /\ MoneyOK'
           /\ payment[m.invoice] = "none"
           /\ payment' = payment \/ payment' = [payment EXCEPT ![m.invoice] = "reserved"]
<1>1. PICK outcome \in Outcomes(ReserveFaults) :
        /\ payment' = IF Applied(outcome)
                      THEN [payment EXCEPT ![m.invoice] = "reserved"] ELSE payment
        /\ \/ outcome = "ok" /\ pc' = "charge" /\ UNCHANGED <<waiting, current>>
           \/ outcome # "ok" /\ Fail(m)
  BY DEF Reserve
<1>2. m \in current /\ payment[m.invoice] = "none" /\ m.invoice \in Invoices
  BY MessageFacts DEF Reserve, At, MoneyInv, InHandOK
<1>3. charges[m.invoice] = 0 /\ outcomes[m.invoice] = {}
  BY <1>2 DEF MoneyInv, TypeInv, TypeOK, LedgerOK, OutcomeTruthful
<1>4. UNCHANGED <<charges, outcomes>> /\ payment \in [Invoices -> Statuses]
  BY DEF Reserve, MoneyInv, TypeInv, TypeOK
<1>5. LedgerOK' /\ AtMostOneCharge' /\ OutcomeTruthful'
  BY <1>1, <1>2, <1>3, <1>4 DEF MoneyInv, LedgerOK, AtMostOneCharge, OutcomeTruthful
<1>6. InHandOK'
  <2>1. CASE outcome = "ok"
    <3>1. current' = {m} /\ pc' = "charge"
      BY <1>1, <1>2, <2>1, OnlyInHand DEF MoneyInv
    <3>2. payment'[m.invoice] = "reserved"
      BY <1>1, <1>2, <1>4, <2>1 DEF Applied
    <3> QED
      BY <3>1, <3>2, <1>3, <1>4 DEF InHandOK
  <2>2. CASE outcome # "ok"
    BY <1>1, <2>2 DEF Fail, InHandOK
  <2> QED
    BY <2>1, <2>2
<1> QED
  BY <1>1, <1>2, <1>5, <1>6 DEF MoneyOK

\* A charge is the first for its invoice.
LEMMA ChargeMoney ==
    ASSUME MoneyInv, NEW m \in Messages, Charge(m)
    PROVE  MoneyOK' /\ payment[m.invoice] = "reserved" /\ charges[m.invoice] = 0
<1>1. m \in current /\ m.invoice \in Invoices /\ pc = "charge" /\ current' = {m} /\ pc' = "settle"
  BY MessageFacts, OnlyInHand DEF Charge, At, MoneyInv
<1>2. payment[m.invoice] = "reserved" /\ charges[m.invoice] = 0
  BY <1>1 DEF MoneyInv, InHandOK
<1>3. outcomes[m.invoice] = {}
  BY <1>1, <1>2 DEF MoneyInv, TypeInv, TypeOK, OutcomeTruthful
<1>4. UNCHANGED <<payment, outcomes>> /\ charges \in [Invoices -> Nat]
  BY DEF Charge, MoneyInv, TypeInv, TypeOK
<1>5. charges' = IF m.declined THEN charges ELSE [charges EXCEPT ![m.invoice] = 1]
  BY <1>2 DEF Charge, Charged
<1>6. charges'[m.invoice] = IF m.declined THEN 0 ELSE 1
  BY <1>1, <1>2, <1>4, <1>5
<1>7. \A i \in Invoices \ {m.invoice} : charges'[i] = charges[i]
  BY <1>4, <1>5
<1>8. InHandOK'
  BY <1>1, <1>2, <1>4, <1>6 DEF InHandOK
<1>9. LedgerOK' /\ AtMostOneCharge' /\ OutcomeTruthful'
  BY <1>1, <1>2, <1>3, <1>4, <1>6, <1>7 DEF MoneyInv, LedgerOK, AtMostOneCharge, OutcomeTruthful
<1> QED
  BY <1>2, <1>8, <1>9 DEF MoneyOK

\* A saga ends as paid exactly when it charged.
LEMMA SettleMoney ==
    ASSUME MoneyInv, NEW m \in Messages, Settle(m)
    PROVE  /\ MoneyOK'
           /\ payment[m.invoice] = "reserved"
           /\ charges[m.invoice] = IF m.declined THEN 0 ELSE 1
           /\ payment' = payment \/ payment' = [payment EXCEPT ![m.invoice] = Settlement(m)]
<1>1. PICK outcome \in Outcomes(SettleFaults) :
        /\ payment' = IF Applied(outcome)
                      THEN [payment EXCEPT ![m.invoice] = Settlement(m)] ELSE payment
        /\ \/ outcome = "ok" /\ pc' = "announce" /\ UNCHANGED <<waiting, current>>
           \/ outcome # "ok" /\ Fail(m)
  BY DEF Settle, AfterSettle
<1>2. /\ m \in current /\ m.invoice \in Invoices
      /\ payment[m.invoice] = "reserved"
      /\ charges[m.invoice] = IF m.declined THEN 0 ELSE 1
  BY MessageFacts DEF Settle, At, MoneyInv, InHandOK
<1>3. outcomes[m.invoice] = {}
  BY <1>2 DEF MoneyInv, TypeInv, TypeOK, OutcomeTruthful
<1>4. UNCHANGED <<charges, outcomes>> /\ payment \in [Invoices -> Statuses]
  BY DEF Settle, MoneyInv, TypeInv, TypeOK
<1>5. LedgerOK' /\ AtMostOneCharge' /\ OutcomeTruthful'
  BY <1>1, <1>2, <1>3, <1>4
  DEF Settlement, MoneyInv, LedgerOK, AtMostOneCharge, OutcomeTruthful
<1>6. InHandOK'
  <2>1. CASE outcome = "ok"
    <3>1. current' = {m} /\ pc' = "announce"
      BY <1>1, <1>2, <2>1, OnlyInHand DEF MoneyInv
    <3>2. payment'[m.invoice] = Settlement(m)
      BY <1>1, <1>2, <1>4, <2>1 DEF Applied
    <3> QED
      BY <3>1, <3>2 DEF InHandOK, Settlement
  <2>2. CASE outcome # "ok"
    BY <1>1, <2>2 DEF Fail, InHandOK
  <2> QED
    BY <2>1, <2>2
<1> QED
  BY <1>1, <1>2, <1>5, <1>6 DEF MoneyOK

\* The outcome announced is that of the stored state.
LEMMA AnnounceMoney ==
    ASSUME MoneyInv, NEW m \in Messages, Announce(m)
    PROVE  /\ MoneyOK'
           /\ payment[m.invoice] = Settlement(m)
           /\ \/ outcomes' = outcomes
              \/ outcomes' = [outcomes EXCEPT ![m.invoice] =
                                 {IF m.declined THEN "failed" ELSE "paid"}]
<1> DEFINE i == m.invoice
           word == IF m.declined THEN "failed" ELSE "paid"
<1>1. m \in current /\ i \in Invoices /\ pc' = "answer" /\ payment[i] = Settlement(m)
  BY MessageFacts DEF Announce, At, MoneyInv, InHandOK
<1>2. outcomes[i] \subseteq {word}
  BY <1>1 DEF Settlement, MoneyInv, TypeInv, TypeOK, OutcomeTruthful
<1>3. \/ outcomes' = outcomes
      \/ outcomes' = [outcomes EXCEPT ![i] = outcomes[i] \union {word}]
  BY DEF Announce
<1>4. outcomes[i] \union {word} = {word}
  BY <1>2
<1>5. outcomes' = outcomes \/ outcomes' = [outcomes EXCEPT ![i] = {word}]
  BY <1>3, <1>4
<1>6. UNCHANGED <<payment, charges, current>> /\ outcomes \in [Invoices -> SUBSET {"paid", "failed"}]
  BY DEF Announce, MoneyInv, TypeInv, TypeOK
<1>7. InHandOK'
  BY <1>1, <1>6 DEF MoneyInv, InHandOK
<1>8. LedgerOK' /\ AtMostOneCharge'
  BY <1>6 DEF MoneyInv, LedgerOK, AtMostOneCharge
<1>9. OutcomeTruthful'
  BY <1>1, <1>5, <1>6 DEF Settlement, MoneyInv, LedgerOK, OutcomeTruthful
<1> QED
  BY <1>1, <1>5, <1>7, <1>8, <1>9 DEF MoneyOK

\* Every step preserves MoneyInv, provided a look-up answered with an error
\* status does not happen.
LEMMA MoneyInvNext ==
    ASSUME "read_status" \notin Faults
    PROVE  MoneyInv /\ [Next]_vars => MoneyInv'
<1> SUFFICES ASSUME MoneyInv, [Next]_vars PROVE MoneyOK'
  BY TypeInvNext DEF MoneyInv, MoneyOK
<1>1. CASE UNCHANGED vars
  BY <1>1 DEF vars, MoneyInv, MoneyOK, InHandOK, LedgerOK, AtMostOneCharge, OutcomeTruthful
<1>2. ASSUME NEW m \in Messages, Request(m) PROVE MoneyOK'
  BY <1>2 DEF Request, handler, MoneyInv, MoneyOK, InHandOK, LedgerOK, AtMostOneCharge,
              OutcomeTruthful
<1>3. ASSUME NEW m \in Messages, Handle(m) PROVE MoneyOK'
  <2>1. CASE Answer(m)
    BY <2>1, IdleMoney DEF Answer
  <2> QED
    BY <1>3, <2>1, DeliverMoney, ReserveMoney, ChargeMoney, SettleMoney, AnnounceMoney DEF Handle
<1>4. CASE Crash
  BY <1>4, IdleMoney DEF Crash
<1> QED
  BY <1>1, <1>2, <1>3, <1>4 DEF Next

\* MoneyInv holds in every reachable state.
LEMMA MoneyInvAlways ==
    ASSUME "read_status" \notin Faults
    PROVE  Spec => []MoneyInv
BY MoneyInvInit, MoneyInvNext, PTL DEF Spec

\* However often its event is sent and delivered, and wherever the handler
\* dies, an invoice is charged at most once.
THEOREM ChargedAtMostOnce ==
    ASSUME "read_status" \notin Faults
    PROVE  Spec => []AtMostOneCharge
BY MoneyInvAlways, PTL DEF MoneyInv

\* What is announced of an invoice is what happened to its money, and two
\* announcements never contradict each other.
THEOREM AnnouncedTruthfully ==
    ASSUME "read_status" \notin Faults
    PROVE  Spec => []OutcomeTruthful
BY MoneyInvAlways, PTL DEF MoneyInv

-----------------------------------------------------------------------------
(* Steps.                                                                  *)

\* Every step of the saga is a step of the ledger or is invisible to it.
LEMMA StepImplements ==
    ASSUME "read_status" \notin Faults, MoneyInv, [Next]_vars
    PROVE  (\E i \in Invoices : \/ Ledger!Hold(i)
                                \/ Ledger!Charge(i)
                                \/ Ledger!Close(i)
                                \/ Ledger!Announce(i))
           \/ UNCHANGED <<payment, charges, outcomes>>
<1>1. CASE UNCHANGED vars
  BY <1>1 DEF vars
<1>2. CASE Crash
  BY <1>2 DEF Crash
<1>3. ASSUME NEW m \in Messages, Request(m) \/ Deliver(m) \/ Answer(m)
      PROVE  UNCHANGED <<payment, charges, outcomes>>
  BY <1>3 DEF Request, Deliver, Answer
<1>4. ASSUME NEW m \in Messages, Reserve(m)
      PROVE  Ledger!Hold(m.invoice) \/ UNCHANGED <<payment, charges, outcomes>>
  BY <1>4, ReserveMoney DEF Reserve, Ledger!Hold
<1>5. ASSUME NEW m \in Messages, Charge(m)
      PROVE  Ledger!Charge(m.invoice) \/ UNCHANGED <<payment, charges, outcomes>>
  <2>1. payment[m.invoice] = "reserved" /\ charges[m.invoice] = 0
    BY <1>5, ChargeMoney
  <2>2. UNCHANGED <<payment, outcomes>>
    BY <1>5 DEF Charge
  <2>3. charges' = charges \/ charges' = [charges EXCEPT ![m.invoice] = charges[m.invoice] + 1]
    BY <1>5 DEF Charge, Charged
  <2>4. charges[m.invoice] + 1 = 1
    BY <2>1
  <2>5. charges' = charges \/ charges' = [charges EXCEPT ![m.invoice] = 1]
    BY <2>3, <2>4
  <2> QED
    BY <2>1, <2>2, <2>5 DEF Ledger!Charge
<1>6. ASSUME NEW m \in Messages, Settle(m)
      PROVE  Ledger!Close(m.invoice) \/ UNCHANGED <<payment, charges, outcomes>>
  <2>1. payment[m.invoice] = "reserved"
    BY <1>6, SettleMoney
  <2>2. UNCHANGED <<charges, outcomes>>
    BY <1>6 DEF Settle
  <2>3. Settlement(m) = IF charges[m.invoice] = 1 THEN "paid" ELSE "compensated"
    BY <1>6, SettleMoney DEF Settlement
  <2>4. payment' = payment \/ payment' = [payment EXCEPT ![m.invoice] = Settlement(m)]
    BY <1>6, SettleMoney
  <2> QED
    BY <2>1, <2>2, <2>3, <2>4 DEF Ledger!Close
<1>7. ASSUME NEW m \in Messages, Announce(m)
      PROVE  Ledger!Announce(m.invoice) \/ UNCHANGED <<payment, charges, outcomes>>
  BY <1>7, AnnounceMoney DEF Announce, Settlement, Ledger!Announce
<1> QED
  BY <1>1, <1>2, <1>3, <1>4, <1>5, <1>6, <1>7, MessageFacts DEF Next, Handle

\* The saga keeps the ledger's promises: a hold comes first, a charge once, and
\* the end and the announcement follow the charge.
THEOREM SagaImplementsLedger ==
    ASSUME "read_status" \notin Faults
    PROVE  Spec => ImplementsLedger
<1>1. Init => Ledger!Init
  BY DEF Init, Ledger!Init
<1>2. MoneyInv /\ [Next]_vars => [Ledger!Next]_(Ledger!lvars)
  BY StepImplements DEF Ledger!Next, Ledger!lvars
<1> QED
  BY <1>1, <1>2, MoneyInvAlways, PTL DEF Spec, ImplementsLedger, Ledger!Spec

\* A settled payment is never reserved again, nor settled the other way.
THEOREM SagaNeverGoesBack ==
    ASSUME "read_status" \notin Faults
    PROVE  Spec => SagaOnlyAdvances
<1> DEFINE Advances ==
             \A i \in Invoices :
                 payment'[i] # payment[i] =>
                     \/ payment[i] = "none" /\ payment'[i] = "reserved"
                     \/ payment[i] = "reserved" /\ payment'[i] \in Settled
<1>1. ASSUME MoneyInv, [Next]_vars PROVE Advances
  <2>1. ASSUME NEW i \in Invoices, \/ Ledger!Hold(i)
                                   \/ Ledger!Charge(i)
                                   \/ Ledger!Close(i)
                                   \/ Ledger!Announce(i)
        PROVE  Advances
    BY <1>1, <2>1
    DEF Ledger!Hold, Ledger!Charge, Ledger!Close, Ledger!Announce, Settled, MoneyInv,
        TypeInv, TypeOK
  <2> QED
    BY <1>1, <2>1, StepImplements
<1>2. MoneyInv /\ [Next]_vars => [Advances]_vars
  BY <1>1
<1> QED
  BY <1>2, MoneyInvAlways, PTL DEF Spec, SagaOnlyAdvances

-----------------------------------------------------------------------------
(* Whatever fails.  A look-up answered with an error status lets a saga run *)
(* again; what follows holds all the same, of every set of faults.          *)

\* What a charge too many costs: a fault of its own, each time.
ChargesBounded == \A i \in Invoices : charges[i] <= 1 + faults

\* The money is never moved before the saga is on record, and no invoice is
\* recorded or announced as paid whose money was not taken.
NothingIsPaidForFree ==
    \A i \in Invoices :
        /\ charges[i] > 0 => payment[i] # "none"
        /\ payment[i] = "paid" => charges[i] > 0
        /\ "paid" \in outcomes[i] => charges[i] > 0

\* What the handler may rely on although it may have misread the state.
InHandAnyway ==
    \A m \in current :
        LET i == m.invoice
        IN  /\ pc \in {"reserve", "charge"} => charges[i] <= faults
            /\ pc \in {"charge", "settle"} => payment[i] # "none"
            /\ pc \in {"settle", "announce"} /\ ~m.declined => charges[i] > 0

AnywayOK == ChargesBounded /\ NothingIsPaidForFree /\ InHandAnyway

AnywayInv == TypeInv /\ AnywayOK

\* A fault counts, and nothing else does.
LEMMA FaultsGrow ==
    ASSUME faults \in 0 .. MaxFaults, NEW outcome, Count(outcome)
    PROVE  /\ faults' \in Nat /\ faults <= faults'
           /\ outcome # "ok" => faults' = faults + 1
BY DEF Count

\* A handler that gives up, or an idle one, keeps the money as it was.
LEMMA IdleAnyway ==
    ASSUME AnywayInv, current' = {}, UNCHANGED <<payment, charges, outcomes>>,
           faults' \in Nat, faults <= faults'
    PROVE  AnywayOK'
<1>1. ChargesBounded'
  BY DEF AnywayInv, AnywayOK, TypeInv, TypeOK, ChargesBounded
<1> QED
  BY <1>1 DEF AnywayInv, AnywayOK, NothingIsPaidForFree, InHandAnyway

\* A delivery finds no charge that is not on record, or has misread the state
\* and paid for it.
LEMMA DeliverAnyway ==
    ASSUME AnywayInv, NEW m \in Messages, Deliver(m)
    PROVE  AnywayOK'
<1> DEFINE i == m.invoice
<1>1. PICK outcome \in Outcomes(ReadFaults) :
        LET existing == IF outcome = "ok" THEN payment[i] ELSE "none"
        IN  /\ Count(outcome)
            /\ \/ outcome = "read_raised" /\ Fail(m)
               \/ /\ outcome # "read_raised"
                  /\ pc' = IF AlreadyHandled(existing) THEN "answer" ELSE "reserve"
                  /\ current' = {m}
                  /\ UNCHANGED waiting
  BY DEF Deliver
<1>2. UNCHANGED <<payment, charges, outcomes>> /\ i \in Invoices
  BY MessageFacts DEF Deliver
<1>3. /\ faults' \in Nat /\ faults <= faults'
      /\ outcome # "ok" => faults' = faults + 1
  BY <1>1, FaultsGrow DEF AnywayInv, TypeInv, TypeOK
<1>4. CASE outcome = "read_raised"
  BY <1>1, <1>2, <1>3, <1>4, IdleAnyway DEF Fail
<1>5. CASE outcome # "read_raised"
  <2>1. ChargesBounded' /\ NothingIsPaidForFree'
    BY <1>2, <1>3 DEF AnywayInv, AnywayOK, TypeInv, TypeOK, ChargesBounded, NothingIsPaidForFree
  <2>2. ASSUME pc' = "reserve" PROVE charges'[i] <= faults'
    <3>1. charges[i] \in Nat /\ faults \in Nat /\ charges[i] <= 1 + faults
      BY <1>2 DEF AnywayInv, AnywayOK, TypeInv, TypeOK, ChargesBounded
    <3>2. CASE outcome = "ok"
      <4>1. payment[i] = "none"
        BY <1>1, <1>5, <2>2, <3>2 DEF AlreadyHandled
      <4>2. charges[i] = 0
        BY <1>2, <3>1, <4>1 DEF AnywayInv, AnywayOK, NothingIsPaidForFree
      <4> QED
        BY <1>2, <1>3, <3>1, <4>2
    <3>3. CASE outcome # "ok"
      BY <1>2, <1>3, <3>1, <3>3
    <3> QED
      BY <3>2, <3>3
  <2>3. current' = {m} /\ pc' \in {"answer", "reserve"}
    BY <1>1, <1>5
  <2>4. InHandAnyway'
    BY <2>2, <2>3 DEF InHandAnyway
  <2> QED
    BY <2>1, <2>4 DEF AnywayOK
<1> QED
  BY <1>4, <1>5

\* A reservation puts the saga on record before the charge.
LEMMA ReserveAnyway ==
    ASSUME AnywayInv, NEW m \in Messages, Reserve(m)
    PROVE  AnywayOK'
<1> DEFINE i == m.invoice
<1>1. PICK outcome \in Outcomes(ReserveFaults) :
        /\ Count(outcome)
        /\ payment' = IF Applied(outcome) THEN [payment EXCEPT ![i] = "reserved"] ELSE payment
        /\ \/ outcome = "ok" /\ pc' = "charge" /\ UNCHANGED <<waiting, current>>
           \/ outcome # "ok" /\ Fail(m)
  BY DEF Reserve
<1>2. /\ m \in current /\ pc = "reserve" /\ i \in Invoices
      /\ UNCHANGED <<charges, outcomes>>
      /\ payment \in [Invoices -> Statuses]
  BY MessageFacts DEF Reserve, At, AnywayInv, TypeInv, TypeOK
<1>3. faults' \in Nat /\ faults <= faults'
  BY <1>1, FaultsGrow DEF AnywayInv, TypeInv, TypeOK
<1>4. ChargesBounded'
  BY <1>2, <1>3 DEF AnywayInv, AnywayOK, TypeInv, TypeOK, ChargesBounded
<1>5. NothingIsPaidForFree'
  BY <1>1, <1>2 DEF AnywayInv, AnywayOK, NothingIsPaidForFree
<1>6. InHandAnyway'
  <2>1. CASE outcome = "ok"
    <3>1. current' = {m} /\ pc' = "charge" /\ payment'[i] = "reserved"
      BY <1>1, <1>2, <2>1, OnlyInHand DEF AnywayInv, Applied
    <3>2. charges'[i] <= faults'
      BY <1>2, <1>3 DEF AnywayInv, AnywayOK, TypeInv, TypeOK, InHandAnyway
    <3> QED
      BY <3>1, <3>2 DEF InHandAnyway
  <2>2. CASE outcome # "ok"
    BY <1>1, <2>2 DEF Fail, InHandAnyway
  <2> QED
    BY <2>1, <2>2
<1> QED
  BY <1>4, <1>5, <1>6 DEF AnywayOK

\* A charge too many was paid for with the fault that let it happen.
LEMMA ChargeAnyway ==
    ASSUME AnywayInv, NEW m \in Messages, Charge(m)
    PROVE  AnywayOK'
<1> DEFINE i == m.invoice
<1>1. /\ m \in current /\ i \in Invoices /\ pc = "charge"
      /\ current' = {m} /\ pc' = "settle"
      /\ UNCHANGED <<payment, outcomes, faults>>
      /\ charges \in [Invoices -> Nat] /\ faults \in Nat
  BY MessageFacts, OnlyInHand DEF Charge, At, AnywayInv, TypeInv, TypeOK
<1>2. charges[i] <= faults /\ payment[i] # "none"
  BY <1>1 DEF AnywayInv, AnywayOK, InHandAnyway
<1>3. charges' = IF m.declined THEN charges ELSE [charges EXCEPT ![i] = @ + 1]
  BY DEF Charge, Charged
<1>4. /\ charges'[i] = IF m.declined THEN charges[i] ELSE charges[i] + 1
      /\ \A j \in Invoices \ {i} : charges'[j] = charges[j]
  BY <1>1, <1>3
<1>5. ChargesBounded'
  BY <1>1, <1>2, <1>4 DEF AnywayInv, AnywayOK, ChargesBounded
<1>6. NothingIsPaidForFree'
  BY <1>1, <1>2, <1>4 DEF AnywayInv, AnywayOK, NothingIsPaidForFree
<1>7. InHandAnyway'
  BY <1>1, <1>2, <1>4 DEF InHandAnyway
<1> QED
  BY <1>5, <1>6, <1>7 DEF AnywayOK

\* A saga ends as paid only after its charge.
LEMMA SettleAnyway ==
    ASSUME AnywayInv, NEW m \in Messages, Settle(m)
    PROVE  AnywayOK'
<1> DEFINE i == m.invoice
<1>1. PICK outcome \in Outcomes(SettleFaults) :
        /\ Count(outcome)
        /\ payment' = IF Applied(outcome) THEN [payment EXCEPT ![i] = Settlement(m)] ELSE payment
        /\ \/ outcome = "ok" /\ pc' = "announce" /\ UNCHANGED <<waiting, current>>
           \/ outcome # "ok" /\ Fail(m)
  BY DEF Settle, AfterSettle
<1>2. /\ m \in current /\ pc = "settle" /\ i \in Invoices
      /\ UNCHANGED <<charges, outcomes>>
      /\ payment \in [Invoices -> Statuses]
  BY MessageFacts DEF Settle, At, AnywayInv, TypeInv, TypeOK
<1>3. ~m.declined => charges[i] > 0
  BY <1>2 DEF AnywayInv, AnywayOK, InHandAnyway
<1>4. faults' \in Nat /\ faults <= faults'
  BY <1>1, FaultsGrow DEF AnywayInv, TypeInv, TypeOK
<1>5. ChargesBounded'
  BY <1>2, <1>4 DEF AnywayInv, AnywayOK, TypeInv, TypeOK, ChargesBounded
<1>6. NothingIsPaidForFree'
  BY <1>1, <1>2, <1>3 DEF Settlement, AnywayInv, AnywayOK, NothingIsPaidForFree
<1>7. InHandAnyway'
  <2>1. CASE outcome = "ok"
    <3>1. current' = {m} /\ pc' = "announce"
      BY <1>1, <1>2, <2>1, OnlyInHand DEF AnywayInv
    <3> QED
      BY <1>2, <1>3, <3>1 DEF InHandAnyway
  <2>2. CASE outcome # "ok"
    BY <1>1, <2>2 DEF Fail, InHandAnyway
  <2> QED
    BY <2>1, <2>2
<1> QED
  BY <1>5, <1>6, <1>7 DEF AnywayOK

\* Only what was charged is announced as paid.
LEMMA AnnounceAnyway ==
    ASSUME AnywayInv, NEW m \in Messages, Announce(m)
    PROVE  AnywayOK'
<1> DEFINE i == m.invoice
           word == IF m.declined THEN "failed" ELSE "paid"
<1>1. PICK outcome \in Outcomes(OutcomeFaults) :
        /\ Count(outcome)
        /\ outcomes' = outcomes \/ outcomes' = [outcomes EXCEPT ![i] = @ \union {word}]
  BY DEF Announce
<1>2. /\ m \in current /\ pc = "announce" /\ pc' = "answer" /\ i \in Invoices
      /\ UNCHANGED <<charges, payment, current>>
      /\ outcomes \in [Invoices -> SUBSET {"paid", "failed"}]
  BY MessageFacts DEF Announce, At, AnywayInv, TypeInv, TypeOK
<1>3. ~m.declined => charges[i] > 0
  BY <1>2 DEF AnywayInv, AnywayOK, InHandAnyway
<1>4. faults' \in Nat /\ faults <= faults'
  BY <1>1, FaultsGrow DEF AnywayInv, TypeInv, TypeOK
<1>5. ChargesBounded'
  BY <1>2, <1>4 DEF AnywayInv, AnywayOK, TypeInv, TypeOK, ChargesBounded
<1>6. NothingIsPaidForFree'
  BY <1>1, <1>2, <1>3 DEF AnywayInv, AnywayOK, NothingIsPaidForFree
<1>7. InHandAnyway'
  BY <1>2 DEF InHandAnyway
<1> QED
  BY <1>5, <1>6, <1>7 DEF AnywayOK

\* Every step preserves AnywayInv, whichever faults there are.
LEMMA AnywayInvNext == AnywayInv /\ [Next]_vars => AnywayInv'
<1> SUFFICES ASSUME AnywayInv, [Next]_vars PROVE AnywayOK'
  BY TypeInvNext DEF AnywayInv
<1>1. CASE UNCHANGED vars
  BY <1>1 DEF vars, AnywayInv, AnywayOK, ChargesBounded, NothingIsPaidForFree, InHandAnyway
<1>2. ASSUME NEW m \in Messages, Request(m) PROVE AnywayOK'
  BY <1>2 DEF Request, handler, AnywayInv, AnywayOK, ChargesBounded, NothingIsPaidForFree,
              InHandAnyway
<1>3. ASSUME NEW m \in Messages, Answer(m) PROVE AnywayOK'
  <2>1. faults' \in Nat /\ faults <= faults'
    BY <1>3, FaultsGrow DEF Answer, AnywayInv, TypeInv, TypeOK
  <2> QED
    BY <1>3, <2>1, IdleAnyway DEF Answer
<1>4. CASE Crash
  <2>1. faults' \in Nat /\ faults <= faults'
    BY <1>4, FaultsGrow DEF Crash, AnywayInv, TypeInv, TypeOK
  <2> QED
    BY <1>4, <2>1, IdleAnyway DEF Crash
<1> QED
  BY <1>1, <1>2, <1>3, <1>4, DeliverAnyway, ReserveAnyway, ChargeAnyway, SettleAnyway,
     AnnounceAnyway DEF Next, Handle

\* AnywayInv holds in every reachable state.
LEMMA AnywayInvAlways == Spec => []AnywayInv
<1>1. Init => AnywayInv
  BY TypeInvInit DEF Init, AnywayInv, AnywayOK, ChargesBounded, NothingIsPaidForFree, InHandAnyway
<1> QED
  BY <1>1, AnywayInvNext, PTL DEF Spec

\* An invoice that is charged more than once cost a fault for each charge too
\* many, whatever fails (ChargesBounded): no redelivery, and no second event,
\* charges an invoice again by itself.
THEOREM EveryExtraChargeIsAFault == Spec => []ChargesBounded
BY AnywayInvAlways, PTL DEF AnywayInv, AnywayOK

\* Whatever fails, money is moved only after the saga is on record, and nothing
\* is recorded or announced as paid that was not charged
\* (NothingIsPaidForFree): the order reserve, charge, commit, publish.
THEOREM PaidMeansCharged == Spec => []NothingIsPaidForFree
BY AnywayInvAlways, PTL DEF AnywayInv, AnywayOK

-----------------------------------------------------------------------------
(* Reservations nobody works on.                                           *)

\* The invoices that are reserved although no handler is about to settle them.
Dangling ==
    {i \in Invoices : /\ payment[i] = "reserved"
                      /\ \A m \in current : m.invoice = i => pc \notin {"charge", "settle"}}

\* What a reservation left behind costs: a fault of its own.
DanglingBounded == IsFiniteSet(Dangling) /\ Cardinality(Dangling) <= faults

DanglingInv == TypeInv /\ DanglingBounded

\* A part of a finite set is finite, and no larger.
LEMMA PartOf ==
    ASSUME NEW S, IsFiniteSet(S), NEW T \in SUBSET S,
           NEW n \in Nat, NEW k \in Nat, n <= k, Cardinality(S) <= n
    PROVE  IsFiniteSet(T) /\ Cardinality(T) <= k
<1>1. IsFiniteSet(T) /\ Cardinality(T) <= Cardinality(S)
  BY FS_Subset
<1>2. Cardinality(T) \in Nat /\ Cardinality(S) \in Nat
  BY <1>1, FS_CardinalityType
<1> QED
  BY <1>1, <1>2

\* With one element more a set is larger by one at most, and so is a part of it.
LEMMA PartOfOneMore ==
    ASSUME NEW S, IsFiniteSet(S), NEW x, NEW T \in SUBSET (S \union {x}),
           NEW n \in Nat, Cardinality(S) <= n
    PROVE  IsFiniteSet(T) /\ Cardinality(T) <= n + 1
<1>1. Cardinality(S) \in Nat /\ n + 1 \in Nat /\ n + 1 <= n + 1
  BY FS_CardinalityType
<1>2. /\ IsFiniteSet(S \union {x})
      /\ Cardinality(S \union {x}) = IF x \in S THEN Cardinality(S) ELSE Cardinality(S) + 1
  BY FS_AddElement
<1>3. Cardinality(S \union {x}) <= n + 1
  BY <1>1, <1>2
<1> QED
  BY <1>1, <1>2, <1>3, PartOf

\* The handler leaves the reservations of other invoices as they are.
LEMMA OnlyOneLeft ==
    ASSUME NEW i \in Invoices, \A m \in current : m.invoice = i,
           \A k \in Invoices \ {i} : payment'[k] = payment[k]
    PROVE  Dangling' \subseteq Dangling \union {i}
BY DEF Dangling

\* A step of a handler leaves no reservation behind, or one, and that is a fault.
LEMMA HandlerLeaves ==
    ASSUME TypeInv, NEW m \in Messages, Handle(m)
    PROVE  /\ faults' \in Nat /\ faults <= faults'
           /\ \/ Dangling' \subseteq Dangling
              \/ faults' = faults + 1 /\ Dangling' \subseteq Dangling \union {m.invoice}
<1> DEFINE i == m.invoice
<1>1. /\ i \in Invoices /\ payment \in [Invoices -> Statuses]
      /\ faults \in 0 .. MaxFaults
      /\ pc = "idle" <=> current = {}
      /\ \A k, n \in current : k = n
  BY MessageFacts DEF TypeInv, TypeOK, HandOK
<1>2. \A n \in current : n.invoice = i
  BY <1>1 DEF Handle, Deliver, Reserve, Charge, Settle, Announce, Answer, At
<1>3. CASE Deliver(m) \/ Announce(m) \/ Answer(m)
  <2>1. faults' \in Nat /\ faults <= faults'
    BY <1>1, <1>3, FaultsGrow DEF Deliver, Announce, Answer
  <2>2. UNCHANGED payment /\ pc \notin {"charge", "settle"}
    BY <1>3 DEF Deliver, Announce, Answer, At
  <2> QED
    BY <2>1, <2>2 DEF Dangling
<1>4. CASE Charge(m)
  BY <1>1, <1>4 DEF Charge, At, Dangling
<1>5. CASE Reserve(m)
  <2>1. PICK outcome \in Outcomes(ReserveFaults) :
          /\ Count(outcome)
          /\ payment' = IF Applied(outcome) THEN [payment EXCEPT ![i] = "reserved"] ELSE payment
          /\ outcome = "ok" => pc' = "charge" /\ current' = current
    BY <1>5 DEF Reserve
  <2>2. /\ faults' \in Nat /\ faults <= faults'
        /\ outcome # "ok" => faults' = faults + 1
    BY <1>1, <2>1, FaultsGrow
  <2>3. \A k \in Invoices \ {i} : payment'[k] = payment[k]
    BY <1>1, <2>1
  <2>4. Dangling' \subseteq Dangling \union {i}
    BY <1>1, <1>2, <2>3, OnlyOneLeft
  <2>5. outcome = "ok" => i \notin Dangling'
    BY <1>5, <2>1 DEF Reserve, At, Dangling
  <2> QED
    BY <2>2, <2>4, <2>5
<1>6. CASE Settle(m)
  <2>1. PICK outcome \in Outcomes(SettleFaults) :
          /\ Count(outcome)
          /\ payment' = IF Applied(outcome) THEN [payment EXCEPT ![i] = Settlement(m)] ELSE payment
    BY <1>6 DEF Settle
  <2>2. /\ faults' \in Nat /\ faults <= faults'
        /\ outcome # "ok" => faults' = faults + 1
    BY <1>1, <2>1, FaultsGrow
  <2>3. \A k \in Invoices \ {i} : payment'[k] = payment[k]
    BY <1>1, <2>1
  <2>4. Dangling' \subseteq Dangling \union {i}
    BY <1>1, <1>2, <2>3, OnlyOneLeft
  <2>5. outcome = "ok" => payment'[i] = Settlement(m)
    BY <1>1, <2>1 DEF Applied
  <2>6. outcome = "ok" => i \notin Dangling'
    BY <2>5 DEF Dangling, Settlement
  <2> QED
    BY <2>2, <2>4, <2>6
<1> QED
  BY <1>3, <1>4, <1>5, <1>6 DEF Handle

\* A restart leaves the reservation of the message in hand, if there is one.
LEMMA CrashLeaves ==
    ASSUME TypeInv, Crash
    PROVE  /\ faults' = faults + 1
           /\ \/ Dangling' \subseteq Dangling
              \/ \E i \in Invoices : Dangling' \subseteq Dangling \union {i}
<1>1. faults' = faults + 1 /\ UNCHANGED payment /\ current' = {}
  BY DEF Crash, Count
<1>2. CASE current = {}
  BY <1>1, <1>2 DEF Dangling
<1>3. ASSUME NEW m \in current PROVE Dangling' \subseteq Dangling \union {m.invoice}
  <2>1. m.invoice \in Invoices /\ \A n \in current : n.invoice = m.invoice
    BY MessageFacts DEF TypeInv, TypeOK, HandOK
  <2> QED
    BY <1>1, <2>1, OnlyOneLeft
<1> QED
  BY <1>1, <1>2, <1>3, MessageFacts DEF TypeInv, TypeOK

\* Every step preserves DanglingInv, whichever faults there are.
LEMMA DanglingInvNext == DanglingInv /\ [Next]_vars => DanglingInv'
<1> SUFFICES ASSUME DanglingInv, [Next]_vars PROVE DanglingBounded'
  BY TypeInvNext DEF DanglingInv
<1>1. /\ TypeInv /\ faults \in Nat
      /\ IsFiniteSet(Dangling) /\ Cardinality(Dangling) <= faults
  BY DEF DanglingInv, DanglingBounded, TypeInv, TypeOK
<1>2. \/ Dangling' \subseteq Dangling /\ faults' \in Nat /\ faults <= faults'
      \/ \E i \in Invoices : Dangling' \subseteq Dangling \union {i} /\ faults' = faults + 1
  <2>1. CASE UNCHANGED vars
    BY <1>1, <2>1 DEF vars, Dangling
  <2>2. ASSUME NEW m \in Messages, Request(m)
        PROVE  Dangling' \subseteq Dangling /\ faults' = faults
    BY <2>2 DEF Request, handler, Dangling
  <2>3. ASSUME NEW m \in Messages, Handle(m)
        PROVE  \/ Dangling' \subseteq Dangling /\ faults' \in Nat /\ faults <= faults'
               \/ \E i \in Invoices : Dangling' \subseteq Dangling \union {i} /\ faults' = faults + 1
    BY <1>1, <2>3, HandlerLeaves, MessageFacts
  <2>4. CASE Crash
    BY <1>1, <2>4, CrashLeaves
  <2> QED
    BY <1>1, <2>1, <2>2, <2>3, <2>4 DEF Next
<1> DEFINE before == Dangling
           after == Dangling'
<1>3. IsFiniteSet(after) /\ Cardinality(after) <= faults'
  <2> HIDE DEF before, after
  <2>1. CASE after \subseteq before /\ faults' \in Nat /\ faults <= faults'
    <3>1. IsFiniteSet(before) /\ Cardinality(before) <= faults
      BY <1>1 DEF before
    <3> QED
      BY <1>1, <2>1, <3>1, PartOf
  <2>2. CASE \E i \in Invoices : after \subseteq before \union {i} /\ faults' = faults + 1
    <3>1. IsFiniteSet(before) /\ Cardinality(before) <= faults
      BY <1>1 DEF before
    <3>2. PICK i \in Invoices : after \subseteq before \union {i} /\ faults' = faults + 1
      BY <2>2
    <3>3. IsFiniteSet(after) /\ Cardinality(after) <= faults + 1
      BY <1>1, <3>1, <3>2, PartOfOneMore
    <3> QED
      BY <3>2, <3>3
  <2> QED
    BY <1>2, <2>1, <2>2 DEF before, after
<1> QED
  BY <1>3 DEF DanglingBounded

\* What ARCHITECTURE.md:149 says of reservations, where it is so: as many are
\* left in the reserved state as there were faults, at most, and none while
\* nothing fails, whichever events are sent, repeated or contradict each other.
THEOREM EveryDanglingReservationIsAFault == Spec => []DanglingBounded
<1>1. Init => DanglingInv
  <2>1. Init => Dangling = {} /\ faults = 0
    BY DEF Init, Dangling
  <2>2. IsFiniteSet({}) /\ Cardinality({}) = 0
    BY FS_EmptySet
  <2> QED
    BY <2>1, <2>2, TypeInvInit DEF DanglingInv, DanglingBounded
<1>2. DanglingInv => DanglingBounded
  BY DEF DanglingInv
<1> QED
  BY <1>1, <1>2, DanglingInvNext, PTL DEF Spec
=============================================================================
