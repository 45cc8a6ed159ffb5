----------------------------- MODULE PaymentSaga -----------------------------
(***************************************************************************)
(* payment-service: the handler of payment-required events, its saga       *)
(* reserve - charge - commit or compensate, and its state in Dapr.         *)
(*                                                                         *)
(* The topic delivers at least once: a message is redelivered until the    *)
(* handler's 200 reaches the sidecar, and the same invoice may be asked    *)
(* for several times.  Two messages for one invoice may differ in whether  *)
(* the gateway declines them, for their notes may.  handle_payment makes   *)
(* no await once it has its body, so one delivery is handled at a time;    *)
(* each call it makes is one action and may fail in the ways Faults names. *)
(* A request that times out is applied by then, or never.                  *)
(***************************************************************************)
EXTENDS Naturals, FiniteSets

CONSTANTS Invoices,   \* tracking ids
          MaxCopies,  \* bound on the payment-required events of one invoice
          Faults,     \* the kinds of fault that may happen
          MaxFaults   \* bound on how many faults happen

ReadFaults    == {"read_status",         \* answered with an error status
                  "read_raised"}         \* no answer: requests raises
ReserveFaults == {"reserve_refused",     \* not applied
                  "reserve_unanswered"}  \* applied, but the caller is not told
SettleFaults  == {"settle_refused", "settle_unanswered"}    \* likewise
OutcomeFaults == {"outcome_refused", "outcome_unanswered"}  \* likewise

ASSUME PaymentAssumption ==
    /\ MaxCopies \in Nat \ {0}
    /\ Faults \subseteq ReadFaults \union ReserveFaults \union SettleFaults
                        \union OutcomeFaults \union {"ack_lost", "crash"}
    /\ MaxFaults \in Nat

\* An event of the topic; declined is whether its notes hold FAILURE_MARKER.
Messages == [invoice : Invoices, declined : BOOLEAN]

VARIABLES
    sent,      \* sent[i]: events published for invoice i
    waiting,   \* waiting[m]: copies of m not acknowledged yet
    payment,   \* payment[i]: the status under the key payment:<i>
    charges,   \* charges[i]: how often charge_payment returned for i
    outcomes,  \* outcomes[i]: the invoice-completed events published for i
    pc,        \* the call the handler makes next
    current,   \* the message being handled, in a set of at most one
    faults     \* faults so far

topic == <<sent, waiting>>
handler == <<pc, current>>
vars == <<sent, waiting, payment, charges, outcomes, pc, current, faults>>

Statuses == {"none", "reserved", "paid", "compensated"}
Settled  == {"paid", "compensated"}
PCs      == {"idle", "reserve", "charge", "settle", "announce", "answer"}

Init ==
    /\ sent = [i \in Invoices |-> 0]
    /\ waiting = [m \in Messages |-> 0]
    /\ payment = [i \in Invoices |-> "none"]
    /\ charges = [i \in Invoices |-> 0]
    /\ outcomes = [i \in Invoices |-> {}]
    /\ pc = "idle"
    /\ current = {}
    /\ faults = 0

Outcomes(kinds) ==
    {"ok"} \union (IF faults < MaxFaults THEN kinds \intersect Faults ELSE {})

Count(outcome) == faults' = IF outcome = "ok" THEN faults ELSE faults + 1

Applied(outcome) ==
    outcome \in {"ok", "reserve_unanswered", "settle_unanswered", "outcome_unanswered"}

\* The handler is at label with message m.
At(label, m) == pc = label /\ m \in current

-----------------------------------------------------------------------------
(* The topic.                                                              *)

\* approval-agent publishes an event, for the first time or again.
Request(m) ==
    /\ sent[m.invoice] < MaxCopies
    /\ sent' = [sent EXCEPT ![m.invoice] = @ + 1]
    /\ waiting' = [waiting EXCEPT ![m] = @ + 1]
    /\ UNCHANGED <<payment, charges, outcomes, handler, faults>>

Acknowledge(m) == waiting' = [waiting EXCEPT ![m] = @ - 1]

\* Mutant of Fail: the exception is logged and the handler returns SUCCESS.
FailQuietly(m) ==
    /\ Acknowledge(m)
    /\ pc' = "idle"
    /\ current' = {}

\* HTTP 500: the message stays where it is and will be delivered again.
Fail(m) ==
    /\ pc' = "idle"
    /\ current' = {}
    /\ UNCHANGED waiting

-----------------------------------------------------------------------------
(* handle_payment.                                                         *)

\* Mutant of AlreadyHandled: only a finished saga counts.
AlreadySettled(status) == status \in Settled

\* Mutant of AlreadyHandled: a compensated payment may be tried again.
NotCompensated(status) == status \in {"reserved", "paid"}

AlreadyHandled(status) == status # "none"

\* Delivery and the look-up of the saga state.  get_payment_state takes an
\* error status for "never recorded"; only an exception is an error.
Deliver(m) ==
    /\ pc = "idle"
    /\ waiting[m] > 0
    /\ \E outcome \in Outcomes(ReadFaults) :
        LET existing == IF outcome = "ok" THEN payment[m.invoice] ELSE "none"
        IN  /\ Count(outcome)
            /\ \/ outcome = "read_raised" /\ Fail(m)
               \/ /\ outcome # "read_raised"
                  /\ pc' = IF AlreadyHandled(existing) THEN "answer" ELSE "reserve"
                  /\ current' = {m}
                  /\ UNCHANGED waiting
    /\ UNCHANGED <<sent, payment, charges, outcomes>>

\* Step 1: the reservation must be stored before the charge is attempted.
Reserve(m) ==
    /\ At("reserve", m)
    /\ \E outcome \in Outcomes(ReserveFaults) :
        /\ Count(outcome)
        /\ payment' = IF Applied(outcome)
                      THEN [payment EXCEPT ![m.invoice] = "reserved"] ELSE payment
        /\ \/ outcome = "ok" /\ pc' = "charge" /\ UNCHANGED <<waiting, current>>
           \/ outcome # "ok" /\ Fail(m)
    /\ UNCHANGED <<sent, charges, outcomes>>

\* Mutant of Charged: the gateway takes the money before it declines.
ChargedAnyway(m) == [charges EXCEPT ![m.invoice] = @ + 1]

\* charge_payment returns, and the money is taken, or raises.
Charged(m) ==
    IF m.declined THEN charges ELSE [charges EXCEPT ![m.invoice] = @ + 1]

\* Step 2.
Charge(m) ==
    /\ At("charge", m)
    /\ charges' = Charged(m)
    /\ pc' = "settle"
    /\ UNCHANGED <<topic, payment, outcomes, current, faults>>

\* Mutant of Settlement: stores the outcome's name instead of the status.
SettlementMisnamed(m) == IF m.declined THEN "failed" ELSE "paid"

Settlement(m) == IF m.declined THEN "compensated" ELSE "paid"

\* Mutant of AfterSettle: the result of the save is not looked at.
AfterSettleUnchecked(m, outcome) ==
    pc' = "announce" /\ UNCHANGED <<waiting, current>>

\* Mutant of AfterSettle: a failed payment is not announced.
AfterSettleSilent(m, outcome) ==
    \/ /\ outcome = "ok"
       /\ pc' = IF m.declined THEN "answer" ELSE "announce"
       /\ UNCHANGED <<waiting, current>>
    \/ outcome # "ok" /\ Fail(m)

AfterSettle(m, outcome) ==
    \/ outcome = "ok" /\ pc' = "announce" /\ UNCHANGED <<waiting, current>>
    \/ outcome # "ok" /\ Fail(m)

\* Step 3, or its compensation: store the end of the saga.
Settle(m) ==
    /\ At("settle", m)
    /\ \E outcome \in Outcomes(SettleFaults) :
        /\ Count(outcome)
        /\ payment' = IF Applied(outcome)
                      THEN [payment EXCEPT ![m.invoice] = Settlement(m)] ELSE payment
        /\ AfterSettle(m, outcome)
    /\ UNCHANGED <<sent, charges, outcomes>>

\* publish_outcome logs its failures and returns all the same.
Announce(m) ==
    /\ At("announce", m)
    /\ \E outcome \in Outcomes(OutcomeFaults) :
        /\ Count(outcome)
        /\ outcomes' = IF Applied(outcome)
                       THEN [outcomes EXCEPT ![m.invoice] =
                                @ \union {IF m.declined THEN "failed" ELSE "paid"}]
                       ELSE outcomes
    /\ pc' = "answer"
    /\ UNCHANGED <<topic, payment, charges, current>>

\* HTTP 200; if it does not reach the sidecar, the message comes again.
Answer(m) ==
    /\ At("answer", m)
    /\ \E outcome \in Outcomes({"ack_lost"}) :
        /\ Count(outcome)
        /\ IF outcome = "ok" THEN Acknowledge(m) ELSE UNCHANGED waiting
    /\ pc' = "idle"
    /\ current' = {}
    /\ UNCHANGED <<sent, payment, charges, outcomes>>

\* The container dies and is restarted; the message in hand was not answered.
Crash ==
    /\ "crash" \in Outcomes({"crash"})
    /\ Count("crash")
    /\ pc' = "idle"
    /\ current' = {}
    /\ UNCHANGED <<topic, payment, charges, outcomes>>

Handle(m) ==
    Deliver(m) \/ Reserve(m) \/ Charge(m) \/ Settle(m) \/ Announce(m) \/ Answer(m)

Next ==
    \/ \E m \in Messages : Request(m) \/ Handle(m)
    \/ Crash

\* A message that waits is delivered, and a call under way is answered or
\* times out; nobody has to ask for a payment, and nothing has to fail.
Fairness == WF_vars(\E m \in Messages : Handle(m))

Spec == Init /\ [][Next]_vars /\ Fairness

-----------------------------------------------------------------------------
(* Properties.                                                             *)

TypeOK ==
    /\ sent \in [Invoices -> 0 .. MaxCopies]
    /\ waiting \in [Messages -> Nat]
    /\ payment \in [Invoices -> Statuses]
    /\ charges \in [Invoices -> Nat]
    /\ outcomes \in [Invoices -> SUBSET {"paid", "failed"}]
    /\ pc \in PCs
    /\ current \subseteq Messages
    /\ faults \in 0 .. MaxFaults

\* No invoice is charged twice (main.py:65-70), however often its event is
\* sent or redelivered, and wherever an earlier delivery died.  True as long
\* as no look-up of the saga state is answered with an error status.
AtMostOneCharge == \A i \in Invoices : charges[i] <= 1

\* What the rest of the system is told about an invoice agrees with the money
\* and with the stored saga state, and is never contradicted: "paid" only of a
\* charged and committed invoice, "failed" only of an uncharged, compensated one.
OutcomeTruthful ==
    \A i \in Invoices :
        /\ "paid" \in outcomes[i] => payment[i] = "paid" /\ charges[i] = 1
        /\ "failed" \in outcomes[i] => payment[i] = "compensated" /\ charges[i] = 0

\* The saga state of an invoice only moves forward: a settled payment is never
\* reserved again nor settled the other way by a later delivery.
SagaOnlyAdvances ==
    [][\A i \in Invoices :
        payment'[i] # payment[i] =>
            \/ payment[i] = "none" /\ payment'[i] = "reserved"
            \/ payment[i] = "reserved" /\ payment'[i] \in Settled]_vars

\* An event is never acknowledged away before the saga has begun: whatever
\* fails before the reservation, redelivery brings it back (main.py:63, :84).
RequestIsTakenUp ==
    \A i \in Invoices : sent[i] > 0 ~> payment[i] # "none"

\* Once the reservation is known to be stored, the outcome is announced, unless
\* one more call fails: nothing that failed before matters.
ReservedIsAnnounced ==
    \A m \in Messages, n \in 0 .. MaxFaults :
        At("charge", m) /\ faults = n ~> outcomes[m.invoice] # {} \/ faults > n

\* ARCHITECTURE.md:149: "No reservation is ever left in the reserved state".
NoReservationLeft ==
    \A i \in Invoices : payment[i] = "reserved" ~> payment[i] \in Settled

Ledger == INSTANCE PaymentLedger WITH ledger <- payment

\* The saga keeps the ledger's promises.
ImplementsLedger == Ledger!Spec
=============================================================================
