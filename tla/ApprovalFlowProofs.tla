-------------------------- MODULE ApprovalFlowProofs --------------------------
(***************************************************************************)
(* Theorems about ApprovalFlow: its variables have their types, money moves *)
(* on an order that a human or the agent's policy justifies, what a         *)
(* submitter is told about money is so, and what was final stays, and the   *)
(* model is shown the rules that match best, for every policy, submission,  *)
(* answer of the model and every fault.                                     *)
(***************************************************************************)
EXTENDS ApprovalFlow, RetrievalProofs, TLAPS, FiniteSetTheorems

-----------------------------------------------------------------------------
(* Types.                                                                  *)

\* The outcome of a call is "ok" or a kind of fault, and counting it gives a number.
LEMMA CountIsNat ==
    ASSUME faults \in Nat, NEW o, Count(o)
    PROVE faults' \in Nat
BY DEF Count

\* Evaluating gives a recommendation.
LEMMA EvaluateType ==
    ASSUME NEW inv, NEW policy, NEW response \in Answers \union {NoAnswer}
    PROVE Evaluate(inv, policy, response) \in Opinions
BY EvaluationAssumption DEF Evaluate, Guarded, NoAnswer, Opinions

\* A ground of the agent is a basis, and so is that of a human.
LEMMA GroundsAreBases ==
    /\ Human \in Bases
    /\ \A policy \in LoadPolicy, response \in Answers \union {NoAnswer} :
          Agent(policy, response) \in Bases
<1>1. Human \in Bases
  BY DEF Human, Bases, LoadPolicy
<1>2. ASSUME NEW policy \in LoadPolicy, NEW response \in Answers \union {NoAnswer}
      PROVE Agent(policy, response) \in Bases
  <2>1. response.confidence \in Nat
    BY EvaluationAssumption DEF NoAnswer
  <2> QED
    BY <2>1 DEF Agent, Bases
<1> QED
  BY <1>1, <1>2

\* Every stage of StageOf is a stage.
LEMMA StageType ==
    ASSUME NEW record, NEW status
    PROVE StageOf(record, status) \in Stages
BY DEF StageOf, Stages

\* What is known of a handler of a submission.
Handlers == [pc : {"done", "post", "escalate"}, recommendation : Opinions \union {"none"}]

\* A decision either approves an open item or changes only its status.
LEMMA DecideForm ==
    ASSUME NEW i \in Invoices, Decide(i)
    PROVE \/ /\ item[i] \in {"pending", "info_requested"}
             /\ item' = [item EXCEPT ![i] = "approved"]
             /\ payments' = [payments EXCEPT ![i] = @ + 1]
             /\ grounds' = [grounds EXCEPT ![i] = @ \union {Human}]
          \/ /\ item[i] \in {"pending", "info_requested"}
             /\ \E s \in {"pending", "info_requested", "rejected"} :
                   item' = [item EXCEPT ![i] = s]
             /\ payments' = payments
             /\ grounds' = grounds
<1>1. CASE R!Approve(i) /\ Justify(i, Human)
  BY <1>1, Zenon DEF R!Approve, R!IsOpen, R!Become, R!Record, Justify
<1>2. CASE R!Reject(i) /\ UNCHANGED grounds
  BY <1>2, Zenon DEF R!Reject, R!IsOpen, R!Become
<1>3. CASE R!Ask(i) /\ UNCHANGED grounds
  BY <1>3, Zenon DEF R!Ask, R!IsOpen, R!Become
<1>4. CASE item[i] = "info_requested" /\ R!Pause(i) /\ UNCHANGED grounds
  BY <1>4, Zenon DEF R!Pause, R!Become
<1> QED
  BY <1>1, <1>2, <1>3, <1>4, Zenon DEF Decide

\* A step of the payment is one of four.
LEMMA PayForm ==
    ASSUME NEW i \in Invoices, Pay(i)
    PROVE \/ /\ payments[i] > 0
             /\ ledger[i] = "none"
             /\ ledger' = [ledger EXCEPT ![i] = "reserved"]
             /\ charges' = charges /\ outcomes' = outcomes /\ unread' = unread
          \/ /\ ledger[i] = "reserved"
             /\ charges' = [charges EXCEPT ![i] = 1]
             /\ ledger' = ledger /\ outcomes' = outcomes /\ unread' = unread
          \/ /\ ledger[i] = "reserved"
             /\ ledger' = [ledger EXCEPT ![i] = IF charges[i] = 1 THEN "paid" ELSE "compensated"]
             /\ charges' = charges /\ outcomes' = outcomes /\ unread' = unread
          \/ /\ ledger[i] \in {"paid", "compensated"}
             /\ outcomes' = [outcomes EXCEPT ![i] =
                               {IF ledger[i] = "paid" THEN "paid" ELSE "failed"}]
             /\ unread' = [unread EXCEPT ![i] = @ \union outcomes'[i]]
             /\ ledger' = ledger /\ charges' = charges
<1>1. CASE payments[i] > 0 /\ L!Hold(i) /\ UNCHANGED unread
  BY <1>1, Zenon DEF L!Hold
<1>2. CASE L!Charge(i) /\ UNCHANGED unread
  BY <1>2, Zenon DEF L!Charge
<1>3. CASE L!Close(i) /\ UNCHANGED unread
  BY <1>3, Zenon DEF L!Close
<1>4. CASE L!Announce(i) /\ unread' = [unread EXCEPT ![i] = @ \union outcomes'[i]]
  BY <1>4, Zenon DEF L!Announce
<1> QED
  BY <1>1, <1>2, <1>3, <1>4, Zenon DEF Pay

\* The initial state has the types.
LEMMA InitTyped == Init => TypeOK
BY FlowAssumption
   DEF Init, TypeOK, R!Init, L!Init, Done, Idle, AtRest, NoRecord, Records, Opinions, PayStatus,
       Stages, Deliveries

\* A delivery keeps the types.
LEMMA DeliverTyped ==
    ASSUME TypeOK, NEW i \in Invoices, Deliver(i)
    PROVE TypeOK'
<1>1. PICK policy \in LoadPolicy, response \in Answers \union {NoAnswer} :
         LET recommendation == Evaluate(invoice[i], policy, response) IN
           \/ recommendation = "approve" /\ Clear(i, policy, response)
           \/ recommendation # "approve" /\ Post(i, deliveries[i] + 1, recommendation)
  BY DEF Deliver
<1>2. deliveries' \in [Invoices -> 0 .. MaxDeliveries]
  BY FlowAssumption DEF TypeOK, Deliver
<1>3. CASE Clear(i, policy, response)
  <2>1. evaluation' \in [Invoices -> Records]
    BY <1>3 DEF Clear, TypeOK, Records, Opinions, PayStatus
  <2>2. payments' \in [Invoices -> Nat] /\ item' = item
    BY <1>3 DEF Clear, R!Clear, R!Record, TypeOK
  <2>3. grounds' \in [Invoices -> SUBSET Bases]
    BY <1>3, GroundsAreBases DEF Clear, Justify, TypeOK
  <2> QED
    BY <1>2, <1>3, <2>1, <2>2, <2>3 DEF TypeOK, Deliver, Clear, fixed, payment, told
<1>4. CASE Post(i, deliveries[i] + 1, Evaluate(invoice[i], policy, response))
  <2>1. Evaluate(invoice[i], policy, response) \in Opinions
    BY EvaluateType
  <2>2. work' \in [Invoices -> [Deliveries ->
                   [pc : {"done", "post", "escalate"}, recommendation : Opinions \union {"none"}]]]
    BY <1>4, <2>1 DEF Post, TypeOK
  <2> QED
    BY <1>2, <1>4, <2>2 DEF TypeOK, Deliver, Post, review, fixed, payment, told
<1> QED
  BY <1>1, <1>3, <1>4

\* The handler of a submission that is not cleared keeps the types.
LEMMA WorkTyped ==
    ASSUME TypeOK, NEW i \in Invoices, NEW d \in Deliveries, Store(i, d) \/ Escalate(i, d)
    PROVE TypeOK'
<1>1. faults' \in Nat
  BY CountIsNat DEF Store, Escalate, TypeOK
<1>2. CASE Store(i, d)
  <2>1. evaluation' \in [Invoices -> Records]
    BY <1>2 DEF Store, TypeOK, Records, PayStatus
  <2>2. work' \in [Invoices -> [Deliveries ->
                   [pc : {"done", "post", "escalate"}, recommendation : Opinions \union {"none"}]]]
    <3>1. work \in [Invoices -> [Deliveries -> Handlers]]
      BY DEF TypeOK, Handlers
    <3>2. [work[i][d] EXCEPT !.pc = "escalate"] \in Handlers
      BY <3>1 DEF Handlers
    <3>3. work' = [work EXCEPT ![i] = [work[i] EXCEPT ![d] = [work[i][d] EXCEPT !.pc = "escalate"]]]
      BY <1>2, <3>1 DEF Store
    <3>4. work[i] \in [Deliveries -> Handlers]
      BY <3>1
    <3>5. [work[i] EXCEPT ![d] = [work[i][d] EXCEPT !.pc = "escalate"]] \in [Deliveries -> Handlers]
      BY <3>2, <3>4
    <3>6. work' \in [Invoices -> [Deliveries -> Handlers]]
      BY <3>1, <3>3, <3>5
    <3> QED
      BY <3>6, Zenon DEF Handlers
  <2> QED
    BY <1>1, <1>2, <2>1, <2>2 DEF TypeOK, Store, review, fixed, payment, told
<1>3. CASE Escalate(i, d)
  <2>1. work' \in [Invoices -> [Deliveries ->
                   [pc : {"done", "post", "escalate"}, recommendation : Opinions \union {"none"}]]]
    BY <1>3 DEF Escalate, TypeOK, Done
  <2>2. item' \in [Invoices -> {"none", "pending", "info_requested", "approved", "rejected"}]
        /\ payments' = payments
    BY <1>3 DEF Escalate, TypeOK, R!Pause, R!Become, review
  <2> QED
    BY <1>1, <1>3, <2>1, <2>2 DEF TypeOK, Escalate, fixed, payment, told
<1> QED
  BY <1>2, <1>3

\* A decision keeps the types.
LEMMA DecideTyped ==
    ASSUME TypeOK, NEW i \in Invoices, Decide(i)
    PROVE TypeOK'
<1>1. item' \in [Invoices -> {"none", "pending", "info_requested", "approved", "rejected"}]
  BY DecideForm DEF TypeOK
<1>2. payments' \in [Invoices -> Nat]
  <2>1. payments' = payments \/ payments' = [payments EXCEPT ![i] = @ + 1]
    BY DecideForm, Zenon
  <2>2. payments \in [Invoices -> Nat]
    BY DEF TypeOK
  <2> QED
    BY <2>1, <2>2
<1>3. grounds' \in [Invoices -> SUBSET Bases]
  <2>1. grounds' = grounds \/ grounds' = [grounds EXCEPT ![i] = @ \union {Human}]
    BY DecideForm, Zenon
  <2>2. grounds \in [Invoices -> SUBSET Bases]
    BY DEF TypeOK
  <2> QED
    BY <2>1, <2>2, GroundsAreBases
<1> QED
  BY <1>1, <1>2, <1>3 DEF TypeOK, Decide, fixed, payment, told

\* A step of the payment keeps the types.
LEMMA PayTyped ==
    ASSUME TypeOK, NEW i \in Invoices, Pay(i)
    PROVE TypeOK'
<1>1. ledger' \in [Invoices -> {"none", "reserved", "paid", "compensated"}]
  <2>1. \/ ledger' = ledger
        \/ ledger' = [ledger EXCEPT ![i] = "reserved"]
        \/ ledger' = [ledger EXCEPT ![i] = IF charges[i] = 1 THEN "paid" ELSE "compensated"]
    BY PayForm, Zenon
  <2>2. ledger \in [Invoices -> {"none", "reserved", "paid", "compensated"}]
    BY DEF TypeOK
  <2> QED
    BY <2>1, <2>2
<1>2. charges' \in [Invoices -> {0, 1}]
  BY PayForm DEF TypeOK
<1>3. /\ outcomes' \in [Invoices -> SUBSET {"paid", "failed"}]
      /\ unread' = unread \/ unread' = [unread EXCEPT ![i] = @ \union outcomes'[i]]
  <2>1. \/ outcomes' = outcomes /\ unread' = unread
        \/ /\ outcomes' = [outcomes EXCEPT ![i] =
                              {IF ledger[i] = "paid" THEN "paid" ELSE "failed"}]
           /\ unread' = [unread EXCEPT ![i] = @ \union outcomes'[i]]
    BY PayForm, Zenon
  <2>2. outcomes \in [Invoices -> SUBSET {"paid", "failed"}]
    BY DEF TypeOK
  <2> QED
    BY <2>1, <2>2
<1>4. unread' \in [Invoices -> SUBSET {"paid", "failed"}]
  <2>1. unread \in [Invoices -> SUBSET {"paid", "failed"}]
    BY DEF TypeOK
  <2> QED
    BY <1>3, <2>1
<1> QED
  BY <1>1, <1>2, <1>3, <1>4 DEF TypeOK, Pay, fixed, review, told

\* Recording an outcome keeps the types.
LEMMA RecordTyped ==
    ASSUME TypeOK, NEW i \in Invoices, RecordRead(i) \/ RecordSave(i)
    PROVE TypeOK'
<1>1. faults' \in Nat
  BY CountIsNat DEF RecordRead, RecordSave, TypeOK
<1>2. CASE RecordRead(i)
  <2>1. recorder' \in [Invoices -> [pc : {"idle", "save"}, copy : Records, outcome : PayStatus]]
    <3>1. PICK o \in unread[i], outcome \in Outcomes({"misread"}) :
             recorder' = [recorder EXCEPT ![i] =
                            [pc |-> "save", copy |-> Found(i, outcome), outcome |-> o]]
      BY <1>2, Zenon DEF RecordRead
    <3>2. Found(i, outcome) \in Records
      BY DEF Found, TypeOK, NoRecord, Records, PayStatus
    <3>3. o \in PayStatus
      BY DEF TypeOK, PayStatus
    <3> QED
      BY <3>1, <3>2, <3>3 DEF TypeOK
  <2> QED
    BY <1>1, <1>2, <2>1 DEF TypeOK, RecordRead, fixed, review, payment, told
<1>3. CASE RecordSave(i)
  <2>1. recorder' \in [Invoices -> [pc : {"idle", "save"}, copy : Records, outcome : PayStatus]]
    BY <1>3 DEF RecordSave, TypeOK, Idle, NoRecord, Records, PayStatus
  <2>2. evaluation' \in [Invoices -> Records]
    <3>1. Merge(recorder[i].copy, recorder[i].outcome) \in Records
      <4>1. recorder[i].copy \in Records /\ recorder[i].outcome \in PayStatus
        BY DEF TypeOK
      <4> QED
        BY <4>1 DEF Merge, Records
    <3>2. \/ evaluation' = evaluation
          \/ evaluation' = [evaluation EXCEPT ![i] =
                              Merge(recorder[i].copy, recorder[i].outcome)]
      BY <1>3, Zenon DEF RecordSave
    <3> QED
      BY <3>1, <3>2 DEF TypeOK
  <2>3. unread' \in [Invoices -> SUBSET {"paid", "failed"}]
    BY <1>3 DEF RecordSave, TypeOK
  <2> QED
    BY <1>1, <1>3, <2>1, <2>2, <2>3 DEF TypeOK, RecordSave, fixed, review, payment, told
<1> QED
  BY <1>2, <1>3

\* A status request keeps the types.
LEMMA StatusTyped ==
    ASSUME TypeOK, NEW i \in Invoices, AskStatus(i) \/ ReadEvaluation(i) \/ Report(i)
    PROVE TypeOK'
<1>1. faults' \in Nat
  BY CountIsNat DEF AskStatus, ReadEvaluation, Report, TypeOK
<1>2. reader' \in [Invoices -> [pc : {"idle", "read", "report"}, copy : Records, blurred : BOOLEAN]]
  <2>1. AtRest \in [pc : {"idle", "read", "report"}, copy : Records, blurred : BOOLEAN]
    BY DEF AtRest, NoRecord, Records, PayStatus
  <2>2. CASE AskStatus(i)
    BY <2>1, <2>2 DEF AskStatus, TypeOK
  <2>3. CASE ReadEvaluation(i)
    BY <2>3 DEF ReadEvaluation, TypeOK, Found, NoRecord, Records, PayStatus
  <2>4. CASE Report(i)
    <3>1. PICK b \in BOOLEAN : reader' = [reader EXCEPT ![i] = [AtRest EXCEPT !.blurred = b]]
      <4>1. PICK outcome \in Outcomes({"misread"}) :
               reader' = [reader EXCEPT ![i] =
                            [AtRest EXCEPT !.blurred = reader[i].blurred \/ outcome # "ok"]]
        BY <2>4, Zenon DEF Report
      <4> QED
        BY <4>1, Zenon
    <3>2. [AtRest EXCEPT !.blurred = b]
             \in [pc : {"idle", "read", "report"}, copy : Records, blurred : BOOLEAN]
      BY <2>1
    <3> QED
      BY <3>1, <3>2 DEF TypeOK
  <2> QED
    BY <2>2, <2>3, <2>4
<1>3. answer' \in [Invoices -> Stages]
  BY StageType DEF AskStatus, ReadEvaluation, Report, TypeOK
<1> QED
  BY <1>1, <1>2, <1>3
     DEF TypeOK, AskStatus, ReadEvaluation, Report, fixed, review, payment

\* A restart keeps the types.
LEMMA CrashTyped ==
    ASSUME TypeOK, Crash
    PROVE TypeOK'
<1>1. faults' \in Nat
  BY CountIsNat DEF Crash, TypeOK
<1> QED
  BY <1>1 DEF Crash, TypeOK, Done, Idle, AtRest, NoRecord, Records, PayStatus, fixed, review, payment

\* Every step keeps the types.
LEMMA NextTyped == TypeOK /\ [Next]_vars => TypeOK'
<1> SUFFICES ASSUME TypeOK, [Next]_vars PROVE TypeOK'
  OBVIOUS
<1>1. CASE UNCHANGED vars
  BY <1>1 DEF vars, fixed, review, payment, told, TypeOK
<1>2. CASE Crash
  BY <1>2, CrashTyped
<1>3. ASSUME NEW i \in Invoices, Handle(i) PROVE TypeOK'
  BY <1>3, DeliverTyped, WorkTyped, DecideTyped, PayTyped, RecordTyped, StatusTyped DEF Handle
<1> QED
  BY <1>1, <1>2, <1>3 DEF Next

\* The journey's variables have their types (TypeOK), whatever the policy, the
\* model and the faults.
THEOREM FlowTypeCorrect == Spec => []TypeOK
BY InitTyped, NextTyped, PTL DEF Spec

-----------------------------------------------------------------------------
(* The invariant: what holds of one invoice, part by part.                 *)

\* A ground is a human's, or one the agent's policy of that time allows.
Permitted(i, g) ==
    g.by = "agent" =>
        /\ invoice[i].total <= g.policy.ceiling
        /\ g.confidence >= g.policy.threshold
        /\ \A s \in g.policy.stops : ~Applies(s, i)

\* What a single delivery may have led to.
Once(i) ==
    /\ \A d \in Deliveries : work[i][d].pc # "done" =>
          d <= deliveries[i] /\ work[i][d].recommendation # "approve"
    /\ deliveries[i] <= 1 /\ (\E d \in Deliveries : work[i][d].pc # "done") =>
          item[i] = "none" /\ payments[i] = 0
    /\ deliveries[i] = 0 => item[i] = "none" /\ payments[i] = 0
    /\ deliveries[i] <= 1 /\ item[i] \in {"pending", "info_requested", "rejected"} =>
          payments[i] = 0

\* The payment follows an order, and a charge decides how it ends.
Ordered(i) ==
    /\ ledger[i] # "none" => payments[i] > 0
    /\ ledger[i] = "paid" => charges[i] = 1
    /\ charges[i] = 1 => ledger[i] \in {"reserved", "paid"}
    /\ item[i] = "approved" => payments[i] > 0

\* An order has grounds.
Justified(i) ==
    /\ payments[i] > 0 => grounds[i] # {}
    /\ \A g \in grounds[i] : Permitted(i, g)

HasHappened(i, o) ==
    /\ o = "paid" => ledger[i] = "paid"
    /\ o = "failed" => ledger[i] = "compensated"

\* A record, or a copy of one, says of the payment only what has happened.
Truthful(i, record) ==
    /\ HasHappened(i, record.payment)
    /\ record.recommendation = "approve" => payments[i] > 0

Recorded(i) ==
    /\ \A o \in unread[i] : HasHappened(i, o)
    /\ Truthful(i, evaluation[i])
    /\ Truthful(i, recorder[i].copy)
    /\ HasHappened(i, recorder[i].outcome)
    /\ recorder[i].pc = "save" => recorder[i].outcome # "none"
    /\ Truthful(i, reader[i].copy)

\* An answer was so when it was given, and still is.
Answered(i) ==
    /\ answer[i] = "paid" => ledger[i] = "paid"
    /\ answer[i] = "payment_failed" => ledger[i] = "compensated"
    /\ answer[i] = "approved_pending_payment" => payments[i] > 0
    /\ answer[i] = "rejected" /\ deliveries[i] <= 1 => item[i] = "rejected"

\* With one delivery a recorded outcome stays, and a request that reads it
\* well sees it.
Steady(i) ==
    deliveries[i] <= 1 =>
        /\ reader[i].copy.payment # "none" => evaluation[i].payment = reader[i].copy.payment
        /\ answer[i] = "paid" => evaluation[i].payment = "paid"
        /\ answer[i] = "payment_failed" => evaluation[i].payment = "failed"
        /\ answer[i] \in {"paid", "payment_failed"} /\ reader[i].pc = "report"
              /\ ~reader[i].blurred => reader[i].copy.payment # "none"

Local(i) == Once(i) /\ Ordered(i) /\ Justified(i) /\ Recorded(i) /\ Answered(i) /\ Steady(i)

FlowInv == TypeOK /\ \A i \in Invoices : Local(i)

\* Nothing about invoice j changes.
Kept(j) ==
    /\ invoice'[j] = invoice[j] /\ deliveries'[j] = deliveries[j] /\ work'[j] = work[j]
    /\ evaluation'[j] = evaluation[j] /\ item'[j] = item[j] /\ payments'[j] = payments[j]
    /\ ledger'[j] = ledger[j] /\ charges'[j] = charges[j] /\ grounds'[j] = grounds[j]
    /\ unread'[j] = unread[j] /\ recorder'[j] = recorder[j] /\ reader'[j] = reader[j]
    /\ answer'[j] = answer[j]

\* What is known of an invoice nothing happens to stays true.
LEMMA KeptLocal ==
    ASSUME NEW j \in Invoices, Local(j), Kept(j)
    PROVE Local(j)'
<1>1. Once(j)'
  BY DEF Local, Kept, Once
<1>2. Ordered(j)'
  BY DEF Local, Kept, Ordered
<1>3. Justified(j)'
  BY DEF Local, Kept, Justified, Permitted, Applies
<1>4. Recorded(j)'
  BY DEF Local, Kept, Recorded, Truthful, HasHappened
<1>5. Answered(j)'
  BY DEF Local, Kept, Answered
<1>6. Steady(j)'
  BY DEF Local, Kept, Steady
<1> QED
  BY <1>1, <1>2, <1>3, <1>4, <1>5, <1>6 DEF Local

\* The invariant's parts do not change with what they do not speak of.
LEMMA Untouched ==
    ASSUME NEW i \in Invoices, Local(i), invoice'[i] = invoice[i]
    PROVE /\ /\ deliveries'[i] = deliveries[i] /\ work'[i] = work[i]
             /\ item'[i] = item[i] /\ payments'[i] = payments[i]
             => Once(i)'
          /\ /\ ledger'[i] = ledger[i] /\ charges'[i] = charges[i]
             /\ item'[i] = item[i] /\ payments'[i] = payments[i]
             => Ordered(i)'
          /\ payments'[i] = payments[i] /\ grounds'[i] = grounds[i] => Justified(i)'
          /\ /\ ledger'[i] = ledger[i] /\ payments'[i] = payments[i]
             /\ unread'[i] = unread[i] /\ evaluation'[i] = evaluation[i]
             /\ recorder'[i] = recorder[i] /\ reader'[i] = reader[i]
             => Recorded(i)'
          /\ /\ answer'[i] = answer[i] /\ ledger'[i] = ledger[i]
             /\ payments'[i] = payments[i] /\ item'[i] = item[i]
             /\ deliveries'[i] = deliveries[i]
             => Answered(i)'
          /\ /\ deliveries'[i] = deliveries[i] /\ reader'[i] = reader[i]
             /\ evaluation'[i] = evaluation[i] /\ answer'[i] = answer[i]
             => Steady(i)'
<1>1. /\ deliveries'[i] = deliveries[i] /\ work'[i] = work[i]
      /\ item'[i] = item[i] /\ payments'[i] = payments[i]
      => Once(i)'
  BY DEF Local, Once
<1>2. /\ ledger'[i] = ledger[i] /\ charges'[i] = charges[i]
      /\ item'[i] = item[i] /\ payments'[i] = payments[i]
      => Ordered(i)'
  BY DEF Local, Ordered
<1>3. payments'[i] = payments[i] /\ grounds'[i] = grounds[i] => Justified(i)'
  BY DEF Local, Justified, Permitted, Applies
<1>4. /\ ledger'[i] = ledger[i] /\ payments'[i] = payments[i]
      /\ unread'[i] = unread[i] /\ evaluation'[i] = evaluation[i]
      /\ recorder'[i] = recorder[i] /\ reader'[i] = reader[i]
      => Recorded(i)'
  BY DEF Local, Recorded, Truthful, HasHappened
<1>5. /\ answer'[i] = answer[i] /\ ledger'[i] = ledger[i]
      /\ payments'[i] = payments[i] /\ item'[i] = item[i]
      /\ deliveries'[i] = deliveries[i]
      => Answered(i)'
  BY DEF Local, Answered
<1>6. /\ deliveries'[i] = deliveries[i] /\ reader'[i] = reader[i]
      /\ evaluation'[i] = evaluation[i] /\ answer'[i] = answer[i]
      => Steady(i)'
  BY DEF Local, Steady
<1> QED
  BY <1>1, <1>2, <1>3, <1>4, <1>5, <1>6

\* The types of what is known of one invoice.
LEMMA TypesAt ==
    ASSUME TypeOK, NEW i \in Invoices
    PROVE /\ deliveries[i] \in Nat /\ payments[i] \in Nat
          /\ ledger[i] \in {"none", "reserved", "paid", "compensated"}
          /\ charges[i] \in {0, 1}
          /\ item[i] \in {"none", "pending", "info_requested", "approved", "rejected"}
          /\ \A d \in Deliveries : work[i][d] \in Handlers
          /\ evaluation[i] \in Records
          /\ unread[i] \subseteq {"paid", "failed"}
          /\ recorder[i].copy \in Records /\ recorder[i].outcome \in PayStatus
          /\ reader[i].copy \in Records /\ reader[i].blurred \in BOOLEAN
          /\ answer[i] \in Stages
BY FlowAssumption DEF TypeOK, Handlers, Deliveries

\* Initially, nothing is known of any invoice.
LEMMA InitInv == Init => FlowInv
<1> SUFFICES ASSUME Init, NEW i \in Invoices PROVE Local(i)
  BY InitTyped DEF FlowInv
<1>1. Once(i)
  BY DEF Init, Once, Done, R!Init
<1>2. Ordered(i)
  BY DEF Init, Ordered, R!Init, L!Init
<1>3. Justified(i)
  BY DEF Init, Justified, R!Init
<1>4. Recorded(i)
  BY DEF Init, Recorded, Truthful, HasHappened, Idle, AtRest, NoRecord
<1>5. Answered(i) /\ Steady(i)
  BY DEF Init, Answered, Steady, AtRest, NoRecord
<1> QED
  BY <1>1, <1>2, <1>3, <1>4, <1>5 DEF Local

\* What the agent clears, its policy allows: the guardrails of the code against
\* the limits as they are written down.
LEMMA ClearedIsPermitted ==
    ASSUME NEW i \in Invoices, invoice[i] \in Submissions,
           NEW policy \in LoadPolicy, NEW response \in Answers \union {NoAnswer},
           Evaluate(invoice[i], policy, response) = "approve"
    PROVE Permitted(i, Agent(policy, response))
<1>1. ~Withheld(invoice[i], policy) /\ Guarded(response, policy) = "approve"
  BY DEF Evaluate
<1>2. invoice[i].total \in Nat /\ policy.ceiling \in Nat /\ policy.threshold \in Nat
  BY EvaluationAssumption, FlowAssumption DEF LoadPolicy, Fallback, Policies
<1>3. response.confidence \in Nat
  BY EvaluationAssumption DEF NoAnswer
<1>4. invoice[i].total <= policy.ceiling
  BY <1>1, <1>2 DEF Withheld
<1>5. response.confidence >= policy.threshold
  BY <1>1, <1>2, <1>3 DEF Guarded
<1>6. \A s \in policy.stops : ~Applies(s, i)
  BY <1>1 DEF Withheld, Stopped, Applies
<1> QED
  BY <1>4, <1>5, <1>6 DEF Permitted, Agent

\* Events of one invoice leave what is known of another alone.
LEMMA OthersKept ==
    ASSUME TypeOK, NEW i \in Invoices, Handle(i), NEW j \in Invoices \ {i}
    PROVE Kept(j)
<1>1. CASE Deliver(i)
  <2>1. \/ \E policy \in LoadPolicy, response \in Answers \union {NoAnswer} : Clear(i, policy, response)
        \/ \E r : Post(i, deliveries[i] + 1, r)
    BY <1>1, Zenon DEF Deliver
  <2>2. evaluation'[j] = evaluation[j] /\ work'[j] = work[j] /\ grounds'[j] = grounds[j]
    BY <2>1 DEF TypeOK, Clear, Post, Justify
  <2>3. item'[j] = item[j] /\ payments'[j] = payments[j]
    BY <2>1 DEF TypeOK, Clear, Post, R!Clear, R!Record, review
  <2> QED
    BY <1>1, <2>2, <2>3 DEF Deliver, Kept, TypeOK, fixed, payment, told
<1>2. CASE \E d \in Deliveries : Store(i, d)
  BY <1>2 DEF Store, Kept, TypeOK, fixed, review, payment, told
<1>3. CASE \E d \in Deliveries : Escalate(i, d)
  <2>1. item'[j] = item[j] /\ payments'[j] = payments[j]
    BY <1>3 DEF TypeOK, Escalate, R!Pause, R!Become, review
  <2> QED
    BY <1>3, <2>1 DEF Escalate, Kept, TypeOK, fixed, payment, told
<1>4. CASE Decide(i)
  <2>1. item'[j] = item[j]
    BY <1>4, DecideForm DEF TypeOK
  <2>2. payments' = payments \/ payments' = [payments EXCEPT ![i] = @ + 1]
    BY <1>4, DecideForm, Zenon
  <2>3. grounds' = grounds \/ grounds' = [grounds EXCEPT ![i] = @ \union {Human}]
    BY <1>4, DecideForm, Zenon
  <2>4. payments'[j] = payments[j] /\ grounds'[j] = grounds[j]
    BY <2>2, <2>3 DEF TypeOK
  <2> QED
    BY <1>4, <2>1, <2>4 DEF Decide, Kept, fixed, payment, told
<1>5. CASE Pay(i)
  <2>1. ledger'[j] = ledger[j] /\ charges'[j] = charges[j] /\ unread'[j] = unread[j]
    BY <1>5, PayForm DEF TypeOK
  <2> QED
    BY <1>5, <2>1 DEF Pay, Kept, fixed, review, told
<1>6. CASE RecordRead(i)
  BY <1>6 DEF RecordRead, Kept, TypeOK, fixed, review, payment, told
<1>7. CASE RecordSave(i)
  BY <1>7 DEF RecordSave, Kept, TypeOK, fixed, review, payment, told
<1>8. CASE AskStatus(i)
  BY <1>8 DEF AskStatus, Kept, TypeOK, fixed, review, payment
<1>9. CASE ReadEvaluation(i)
  BY <1>9 DEF ReadEvaluation, Kept, TypeOK, fixed, review, payment
<1>10. CASE Report(i)
  BY <1>10 DEF Report, Kept, TypeOK, fixed, review, payment
<1> QED
  BY <1>1, <1>2, <1>3, <1>4, <1>5, <1>6, <1>7, <1>8, <1>9, <1>10 DEF Handle

\* A delivery keeps the invariant.
LEMMA DeliverKeeps ==
    ASSUME TypeOK, NEW i \in Invoices, Local(i), Deliver(i)
    PROVE Local(i)'
<1>0. /\ invoice' = invoice /\ ledger' = ledger /\ charges' = charges
      /\ unread' = unread /\ recorder' = recorder /\ reader' = reader /\ answer' = answer
  BY DEF Deliver, fixed, payment, told
<1>1. deliveries'[i] = deliveries[i] + 1 /\ deliveries[i] \in Nat /\ payments[i] \in Nat
  BY DEF Deliver, TypeOK
<1>2. PICK policy \in LoadPolicy, response \in Answers \union {NoAnswer} :
         \/ /\ Evaluate(invoice[i], policy, response) = "approve"
            /\ Clear(i, policy, response)
         \/ /\ Evaluate(invoice[i], policy, response) # "approve"
            /\ Post(i, deliveries[i] + 1, Evaluate(invoice[i], policy, response))
  BY Zenon DEF Deliver
<1>3. Steady(i)'
  <2>1. deliveries[i] = 0 => payments[i] = 0
    BY DEF Local, Once
  <2>2. deliveries[i] = 0 => ledger[i] = "none"
    BY <1>1, <2>1 DEF Local, Ordered
  <2>3. deliveries[i] = 0 => reader[i].copy.payment = "none" /\ answer[i] \notin {"paid", "payment_failed"}
    <3>1. reader[i].copy.payment \in PayStatus
      BY TypesAt DEF Records
    <3> QED
      BY <2>2, <3>1 DEF Local, Recorded, Truthful, HasHappened, Answered, PayStatus
  <2> QED
    BY <1>0, <1>1, <2>3 DEF Steady
<1>4. answer[i] = "rejected" => deliveries[i] # 0
  BY <1>1 DEF Local, Answered, Once
<1>5. CASE Evaluate(invoice[i], policy, response) = "approve" /\ Clear(i, policy, response)
  <2>1. /\ evaluation'[i] = [recommendation |-> "approve", payment |-> "none"]
        /\ payments'[i] = payments[i] + 1
        /\ item' = item /\ work' = work
        /\ grounds'[i] = grounds[i] \union {Agent(policy, response)}
    BY <1>5 DEF Clear, R!Clear, R!Record, Justify, TypeOK
  <2>2. Once(i)'
    <3>1. \A d \in Deliveries : work'[i][d].pc # "done" =>
             d <= deliveries'[i] /\ work'[i][d].recommendation # "approve"
      BY <1>1, <2>1 DEF Local, Once, Deliveries
    <3>2. deliveries[i] = 0 => item[i] = "none" /\ ~\E d \in Deliveries : work[i][d].pc # "done"
      BY <1>1 DEF Local, Once, Deliveries
    <3> QED
      BY <1>1, <2>1, <3>1, <3>2 DEF Once
  <2>3. Ordered(i)'
    BY <1>0, <1>1, <2>1 DEF Local, Ordered
  <2>4. Justified(i)'
    <3>1. Permitted(i, Agent(policy, response))
      BY <1>5, ClearedIsPermitted DEF TypeOK
    <3> QED
      BY <1>0, <2>1, <3>1 DEF Local, Justified, Permitted, Applies
  <2>5. Recorded(i)'
    BY <1>0, <1>1, <2>1 DEF Local, Recorded, Truthful, HasHappened
  <2>6. Answered(i)'
    BY <1>0, <1>1, <1>4, <2>1 DEF Local, Answered
  <2> QED
    BY <1>3, <2>2, <2>3, <2>4, <2>5, <2>6 DEF Local
<1>6. CASE /\ Evaluate(invoice[i], policy, response) # "approve"
           /\ Post(i, deliveries[i] + 1, Evaluate(invoice[i], policy, response))
  <2>1. evaluation' = evaluation /\ item' = item /\ payments' = payments /\ grounds' = grounds
    BY <1>6 DEF Post, review
  <2>2. \A d \in Deliveries : work'[i][d] = work[i][d] \/
           (d = deliveries[i] + 1 /\ work'[i][d].recommendation # "approve")
    BY <1>6 DEF Post, TypeOK
  <2>3. Once(i)'
    <3>1. \A d \in Deliveries : work'[i][d].pc # "done" =>
             d <= deliveries'[i] /\ work'[i][d].recommendation # "approve"
      BY <1>1, <2>2 DEF Local, Once, Deliveries
    <3> QED
      BY <1>1, <2>1, <3>1 DEF Local, Once
  <2>4. Ordered(i)' /\ Justified(i)' /\ Recorded(i)'
    BY <1>0, <2>1, Untouched
  <2>5. Answered(i)'
    BY <1>0, <1>1, <1>4, <2>1 DEF Local, Answered
  <2> QED
    BY <1>3, <2>3, <2>4, <2>5 DEF Local
<1> QED
  BY <1>2, <1>5, <1>6

\* Storing an evaluation keeps the invariant.
LEMMA StoreKeeps ==
    ASSUME TypeOK, NEW i \in Invoices, Local(i), NEW d \in Deliveries, Store(i, d)
    PROVE Local(i)'
<1>0. /\ invoice' = invoice /\ deliveries' = deliveries /\ item' = item /\ payments' = payments
      /\ ledger' = ledger /\ charges' = charges /\ grounds' = grounds
      /\ unread' = unread /\ recorder' = recorder /\ reader' = reader /\ answer' = answer
  BY DEF Store, fixed, review, payment, told
<1>1. \/ evaluation'[i] = evaluation[i]
      \/ /\ evaluation'[i].recommendation = work[i][d].recommendation
         /\ evaluation'[i].payment = "none"
  BY DEF Store, TypeOK
<1>2. work[i][d].pc # "done" /\ work[i][d].recommendation # "approve"
  BY DEF Store, Local, Once
<1>3. \A e \in Deliveries :
         /\ work'[i][e].recommendation = work[i][e].recommendation
         /\ work'[i][e].pc # "done" => work[i][e].pc # "done"
  <2>1. work' = [work EXCEPT ![i] = [work[i] EXCEPT ![d] = [work[i][d] EXCEPT !.pc = "escalate"]]]
    BY DEF Store, TypeOK
  <2>2. work[i][d] \in Handlers
    BY TypesAt
  <2>3. [work[i][d] EXCEPT !.pc = "escalate"].recommendation = work[i][d].recommendation
    BY <2>2 DEF Handlers
  <2>4. \A e \in Deliveries : work'[i][e] = IF e = d THEN [work[i][d] EXCEPT !.pc = "escalate"]
                                            ELSE work[i][e]
    BY <2>1 DEF TypeOK
  <2> QED
    BY <1>2, <2>3, <2>4
<1>4. Once(i)'
  BY <1>0, <1>3 DEF Local, Once
<1>5. Ordered(i)' /\ Justified(i)' /\ Answered(i)'
  BY <1>0, Untouched
<1>6. Recorded(i)'
  BY <1>0, <1>1, <1>2 DEF Local, Recorded, Truthful, HasHappened
<1>7. Steady(i)'
  <2>1. deliveries[i] <= 1 => payments[i] = 0
    BY <1>2 DEF Local, Once
  <2>2. deliveries[i] <= 1 => ledger[i] = "none"
    BY <2>1, TypesAt DEF Local, Ordered
  <2>3. deliveries[i] <= 1 =>
           reader[i].copy.payment = "none" /\ answer[i] \notin {"paid", "payment_failed"}
    <3>1. reader[i].copy.payment \in PayStatus
      BY TypesAt DEF Records
    <3> QED
      BY <2>2, <3>1 DEF Local, Recorded, Truthful, HasHappened, Answered, PayStatus
  <2> QED
    BY <1>0, <2>3 DEF Steady
<1> QED
  BY <1>4, <1>5, <1>6, <1>7 DEF Local

\* Putting an item before a human keeps the invariant.
LEMMA EscalateKeeps ==
    ASSUME TypeOK, NEW i \in Invoices, Local(i), NEW d \in Deliveries, Escalate(i, d)
    PROVE Local(i)'
<1>0. /\ invoice' = invoice /\ deliveries' = deliveries /\ evaluation' = evaluation
      /\ ledger' = ledger /\ charges' = charges /\ grounds' = grounds
      /\ unread' = unread /\ recorder' = recorder /\ reader' = reader /\ answer' = answer
  BY DEF Escalate, fixed, payment, told
<1>1. payments' = payments /\ (item'[i] = item[i] \/ item'[i] = "pending")
  BY DEF Escalate, TypeOK, R!Pause, R!Become, review
<1>2. work[i][d].pc # "done"
  BY DEF Escalate
<1>3. \A e \in Deliveries : work'[i][e] = IF e = d THEN Done ELSE work[i][e]
  BY DEF Escalate, TypeOK
<1>4. Once(i)'
  <2>1. \A e \in Deliveries : work'[i][e].pc # "done" =>
           e <= deliveries[i] /\ work'[i][e].recommendation # "approve"
    BY <1>3 DEF Local, Once, Done
  <2>2. deliveries[i] # 0
    BY <1>2, TypesAt DEF Local, Once, Deliveries
  <2>3. deliveries[i] <= 1 => payments[i] = 0
    BY <1>2 DEF Local, Once
  <2>4. deliveries[i] <= 1 => \A e \in Deliveries : work'[i][e].pc = "done"
    BY <1>2, <1>3, TypesAt DEF Local, Once, Done, Deliveries
  <2> QED
    BY <1>0, <1>1, <2>1, <2>2, <2>3, <2>4 DEF Once
<1>5. Ordered(i)'
  BY <1>0, <1>1 DEF Local, Ordered
<1>6. Justified(i)' /\ Recorded(i)' /\ Steady(i)'
  BY <1>0, <1>1, Untouched
<1>7. Answered(i)'
  <2>1. deliveries[i] <= 1 => item[i] = "none"
    BY <1>2 DEF Local, Once
  <2> QED
    BY <1>0, <1>1, <2>1 DEF Local, Answered
<1> QED
  BY <1>4, <1>5, <1>6, <1>7 DEF Local

\* A human's decision keeps the invariant.
LEMMA DecideKeeps ==
    ASSUME TypeOK, NEW i \in Invoices, Local(i), Decide(i)
    PROVE Local(i)'
<1>0. /\ invoice' = invoice /\ deliveries' = deliveries /\ work' = work /\ evaluation' = evaluation
      /\ ledger' = ledger /\ charges' = charges
      /\ unread' = unread /\ recorder' = recorder /\ reader' = reader /\ answer' = answer
  BY DEF Decide, fixed, payment, told
<1>1. item[i] \in {"pending", "info_requested"}
  BY DecideForm
<1>2. /\ deliveries[i] # 0
      /\ deliveries[i] <= 1 => payments[i] = 0 /\ \A d \in Deliveries : work[i][d].pc = "done"
  BY <1>1 DEF Local, Once
<1>3. Steady(i)'
  BY <1>0, Untouched
<1>4. CASE /\ item' = [item EXCEPT ![i] = "approved"]
           /\ payments' = [payments EXCEPT ![i] = @ + 1]
           /\ grounds' = [grounds EXCEPT ![i] = @ \union {Human}]
  <2>1. item'[i] = "approved" /\ payments'[i] = payments[i] + 1 /\ payments[i] \in Nat
    BY <1>4 DEF TypeOK
  <2>2. grounds'[i] = grounds[i] \union {Human}
    BY <1>4 DEF TypeOK
  <2>3. Once(i)'
    BY <1>0, <1>2, <2>1 DEF Local, Once
  <2>4. Ordered(i)'
    BY <1>0, <2>1 DEF Local, Ordered
  <2>5. Justified(i)'
    <3>1. Permitted(i, Human)
      BY DEF Permitted, Human
    <3> QED
      BY <1>0, <2>2, <3>1 DEF Local, Justified, Permitted, Applies
  <2>6. Recorded(i)'
    BY <1>0, <2>1 DEF Local, Recorded, Truthful, HasHappened
  <2>7. Answered(i)'
    BY <1>0, <1>1, <2>1 DEF Local, Answered
  <2> QED
    BY <1>3, <2>3, <2>4, <2>5, <2>6, <2>7 DEF Local
<1>5. CASE /\ \E s \in {"pending", "info_requested", "rejected"} : item' = [item EXCEPT ![i] = s]
           /\ payments' = payments
           /\ grounds' = grounds
  <2>1. item'[i] \in {"pending", "info_requested", "rejected"}
    BY <1>5 DEF TypeOK
  <2>2. Once(i)'
    BY <1>0, <1>2, <1>5 DEF Local, Once
  <2>3. Ordered(i)'
    BY <1>0, <1>5, <2>1 DEF Local, Ordered
  <2>4. Justified(i)' /\ Recorded(i)'
    BY <1>0, <1>5, Untouched
  <2>5. Answered(i)'
    BY <1>0, <1>1, <1>5 DEF Local, Answered
  <2> QED
    BY <1>3, <2>2, <2>3, <2>4, <2>5 DEF Local
<1> QED
  BY <1>4, <1>5, DecideForm

\* A step of the payment keeps the invariant.
LEMMA PayKeeps ==
    ASSUME TypeOK, NEW i \in Invoices, Local(i), Pay(i)
    PROVE Local(i)'
<1>0. /\ invoice' = invoice /\ deliveries' = deliveries /\ work' = work /\ evaluation' = evaluation
      /\ item' = item /\ payments' = payments /\ grounds' = grounds
      /\ recorder' = recorder /\ reader' = reader /\ answer' = answer
  BY DEF Pay, fixed, review, told
<1>1. Once(i)' /\ Justified(i)' /\ Steady(i)'
  BY <1>0, Untouched
<1>2. /\ ledger'[i] = ledger[i] \/ ledger[i] \in {"none", "reserved"}
      /\ ledger'[i] = "paid" /\ ledger[i] # "paid" => charges'[i] = 1
      /\ charges'[i] = 1 => ledger'[i] \in {"reserved", "paid"}
      /\ ledger'[i] # "none" => payments[i] > 0
      /\ ledger[i] = "paid" => charges'[i] = charges[i]
  BY PayForm, TypesAt DEF TypeOK, Local, Ordered
<1>3. Ordered(i)'
  BY <1>0, <1>2 DEF Local, Ordered
<1>4. \A o \in unread'[i] : o \in unread[i] \/ HasHappened(i, o)'
  <2>1. CASE unread' = unread
    BY <2>1
  <2>2. CASE /\ ledger[i] \in {"paid", "compensated"}
             /\ outcomes' = [outcomes EXCEPT ![i] =
                               {IF ledger[i] = "paid" THEN "paid" ELSE "failed"}]
             /\ unread' = [unread EXCEPT ![i] = @ \union outcomes'[i]]
             /\ ledger' = ledger
    <3>1. unread'[i] = unread[i] \union {IF ledger[i] = "paid" THEN "paid" ELSE "failed"}
      BY <2>2 DEF TypeOK
    <3> QED
      BY <2>2, <3>1 DEF HasHappened
  <2> QED
    BY <2>1, <2>2, PayForm, Zenon
<1>5. Recorded(i)'
  BY <1>0, <1>2, <1>4 DEF Local, Recorded, Truthful, HasHappened
<1>6. Answered(i)'
  BY <1>0, <1>2 DEF Local, Answered
<1> QED
  BY <1>1, <1>3, <1>5, <1>6 DEF Local

\* Reading for a record keeps the invariant.
LEMMA RecordReadKeeps ==
    ASSUME TypeOK, NEW i \in Invoices, Local(i), RecordRead(i)
    PROVE Local(i)'
<1>0. /\ invoice' = invoice /\ deliveries' = deliveries /\ work' = work /\ evaluation' = evaluation
      /\ item' = item /\ payments' = payments /\ ledger' = ledger /\ charges' = charges
      /\ grounds' = grounds /\ unread' = unread /\ reader' = reader /\ answer' = answer
  BY DEF RecordRead, fixed, review, payment, told
<1>1. PICK o \in unread[i], outcome \in Outcomes({"misread"}) :
         recorder' = [recorder EXCEPT ![i] =
                        [pc |-> "save", copy |-> Found(i, outcome), outcome |-> o]]
  BY Zenon DEF RecordRead
<1>2. recorder'[i] = [pc |-> "save", copy |-> Found(i, outcome), outcome |-> o]
  BY <1>1 DEF TypeOK
<1>3. Truthful(i, Found(i, outcome)) /\ HasHappened(i, o) /\ o # "none"
  BY TypesAt DEF Local, Recorded, Found, NoRecord, Truthful, HasHappened
<1>4. Recorded(i)'
  BY <1>0, <1>2, <1>3 DEF Local, Recorded, Truthful, HasHappened
<1> QED
  BY <1>0, <1>4, Untouched DEF Local

\* Saving a record keeps the invariant.
LEMMA RecordSaveKeeps ==
    ASSUME TypeOK, NEW i \in Invoices, Local(i), RecordSave(i)
    PROVE Local(i)'
<1>0. /\ invoice' = invoice /\ deliveries' = deliveries /\ work' = work
      /\ item' = item /\ payments' = payments /\ ledger' = ledger /\ charges' = charges
      /\ grounds' = grounds /\ reader' = reader /\ answer' = answer
  BY DEF RecordSave, fixed, review, payment, told
<1>1. recorder'[i] = Idle /\ unread'[i] \subseteq unread[i]
  BY DEF RecordSave, TypeOK
<1>2. \/ evaluation'[i] = evaluation[i]
      \/ evaluation'[i] = Merge(recorder[i].copy, recorder[i].outcome)
  BY DEF RecordSave, TypeOK
<1>3. recorder[i].pc = "save"
  BY DEF RecordSave
<1>4. /\ Merge(recorder[i].copy, recorder[i].outcome).payment = recorder[i].outcome
      /\ Merge(recorder[i].copy, recorder[i].outcome).recommendation
           = recorder[i].copy.recommendation
  BY TypesAt DEF Merge, Records
<1>5. recorder[i].outcome \in {"paid", "failed"} /\ HasHappened(i, recorder[i].outcome)
  BY <1>3, TypesAt DEF Local, Recorded, PayStatus
<1>6. Recorded(i)'
  <2>1. Truthful(i, Merge(recorder[i].copy, recorder[i].outcome))
    BY <1>4, <1>5 DEF Local, Recorded, Truthful
  <2>2. Truthful(i, evaluation[i]) /\ Truthful(i, reader[i].copy)
    BY DEF Local, Recorded
  <2> QED
    BY <1>0, <1>1, <1>2, <2>1, <2>2
       DEF Local, Recorded, Truthful, HasHappened, Idle, NoRecord
<1>7. Steady(i)'
  <2>1. \A p \in {"paid", "failed"} : HasHappened(i, p) => recorder[i].outcome = p
    BY <1>5 DEF HasHappened
  <2>2. reader[i].copy.payment \in PayStatus /\ HasHappened(i, reader[i].copy.payment)
    BY TypesAt DEF Local, Recorded, Truthful, Records
  <2>3. reader[i].copy.payment # "none" => recorder[i].outcome = reader[i].copy.payment
    BY <2>1, <2>2 DEF PayStatus
  <2>4. answer[i] = "paid" => recorder[i].outcome = "paid"
    BY <2>1 DEF Local, Answered, HasHappened
  <2>5. answer[i] = "payment_failed" => recorder[i].outcome = "failed"
    BY <2>1 DEF Local, Answered, HasHappened
  <2> QED
    BY <1>0, <1>2, <1>4, <2>3, <2>4, <2>5 DEF Local, Steady
<1> QED
  BY <1>0, <1>6, <1>7, Untouched DEF Local

\* A status request that asks and reads keeps the invariant.
LEMMA ReadKeeps ==
    ASSUME TypeOK, NEW i \in Invoices, Local(i), AskStatus(i) \/ ReadEvaluation(i)
    PROVE Local(i)'
<1>0. /\ invoice' = invoice /\ deliveries' = deliveries /\ work' = work /\ evaluation' = evaluation
      /\ item' = item /\ payments' = payments /\ ledger' = ledger /\ charges' = charges
      /\ grounds' = grounds /\ unread' = unread /\ recorder' = recorder /\ answer' = answer
  BY DEF AskStatus, ReadEvaluation, fixed, review, payment
<1>1. \/ /\ reader'[i].copy = NoRecord
         /\ reader'[i].pc = "report" => reader'[i].blurred
      \/ reader'[i].copy = evaluation[i]
  <2>1. CASE AskStatus(i)
    BY <2>1 DEF AskStatus, TypeOK, AtRest
  <2>2. CASE ReadEvaluation(i)
    <3>1. PICK outcome \in Outcomes({"misread"}) :
             reader' = [reader EXCEPT ![i] = [pc |-> "report", copy |-> Found(i, outcome),
                                              blurred |-> outcome # "ok"]]
      BY <2>2, Zenon DEF ReadEvaluation
    <3>2. reader'[i] = [pc |-> "report", copy |-> Found(i, outcome), blurred |-> outcome # "ok"]
      BY <3>1 DEF TypeOK
    <3>3. /\ reader'[i].copy = Found(i, outcome)
          /\ reader'[i].blurred = (outcome # "ok")
      BY <3>2
    <3>4. CASE outcome = "misread"
      BY <3>3, <3>4 DEF Found
    <3>5. CASE outcome # "misread"
      BY <3>3, <3>5 DEF Found
    <3> QED
      BY <3>4, <3>5
  <2> QED
    BY <2>1, <2>2
<1>2. Recorded(i)'
  BY <1>0, <1>1 DEF Local, Recorded, Truthful, HasHappened, NoRecord
<1>3. Steady(i)'
  BY <1>0, <1>1 DEF Local, Steady, NoRecord
<1> QED
  BY <1>0, <1>2, <1>3, Untouched DEF Local

\* What a status request reports follows from its copy and the escalation.
LEMMA ReportForm ==
    ASSUME TypeOK, NEW i \in Invoices, Report(i)
    PROVE /\ reader[i].pc = "report"
          /\ reader'[i].pc = "idle" /\ reader'[i].copy = NoRecord
          /\ reader[i].blurred => reader'[i].blurred
          /\ \/ answer'[i] = StageOf(reader[i].copy, item[i])
             \/ reader'[i].blurred /\ answer'[i] = StageOf(reader[i].copy, "none")
<1>1. PICK outcome \in Outcomes({"misread"}) :
         /\ answer' = [answer EXCEPT ![i] =
                         StageOf(reader[i].copy, IF outcome = "ok" THEN item[i] ELSE "none")]
         /\ reader' = [reader EXCEPT ![i] =
                         [AtRest EXCEPT !.blurred = reader[i].blurred \/ outcome # "ok"]]
  BY Zenon DEF Report
<1>2. answer'[i] = StageOf(reader[i].copy, IF outcome = "ok" THEN item[i] ELSE "none")
  BY <1>1 DEF TypeOK
<1>3. reader'[i] = [AtRest EXCEPT !.blurred = reader[i].blurred \/ outcome # "ok"]
  BY <1>1 DEF TypeOK
<1>4. /\ reader'[i].pc = "idle" /\ reader'[i].copy = NoRecord
      /\ reader'[i].blurred = (reader[i].blurred \/ outcome # "ok")
  BY <1>3 DEF AtRest
<1> QED
  BY <1>2, <1>4 DEF Report

\* An answer keeps the invariant.
LEMMA ReportKeeps ==
    ASSUME TypeOK, NEW i \in Invoices, Local(i), Report(i)
    PROVE Local(i)'
<1>0. /\ invoice' = invoice /\ deliveries' = deliveries /\ work' = work /\ evaluation' = evaluation
      /\ item' = item /\ payments' = payments /\ ledger' = ledger /\ charges' = charges
      /\ grounds' = grounds /\ unread' = unread /\ recorder' = recorder
  BY DEF Report, fixed, review, payment
<1>1. PICK status \in {item[i], "none"} : answer'[i] = StageOf(reader[i].copy, status)
  BY ReportForm
<1>2. /\ answer'[i] = "paid" => reader[i].copy.payment = "paid"
      /\ answer'[i] = "payment_failed" => reader[i].copy.payment = "failed"
      /\ answer'[i] = "approved_pending_payment" =>
            item[i] = "approved" \/ reader[i].copy.recommendation = "approve"
      /\ answer'[i] = "rejected" => item[i] = "rejected"
  BY <1>1 DEF StageOf
<1>3. reader'[i].pc = "idle" /\ reader'[i].copy = NoRecord
  BY ReportForm
<1>4. Recorded(i)'
  BY <1>0, <1>3 DEF Local, Recorded, Truthful, HasHappened, NoRecord
<1>5. Answered(i)'
  BY <1>0, <1>2 DEF Local, Answered, Recorded, Truthful, HasHappened, Ordered
<1>6. Steady(i)'
  BY <1>0, <1>2, <1>3 DEF Local, Steady, NoRecord
<1> QED
  BY <1>0, <1>4, <1>5, <1>6, Untouched DEF Local

\* A restart keeps the invariant.
LEMMA CrashKeeps ==
    ASSUME TypeOK, NEW i \in Invoices, Local(i), Crash
    PROVE Local(i)'
<1>0. /\ invoice' = invoice /\ deliveries' = deliveries /\ evaluation' = evaluation
      /\ item' = item /\ payments' = payments /\ ledger' = ledger /\ charges' = charges
      /\ grounds' = grounds /\ unread' = unread /\ answer' = answer
  BY DEF Crash, fixed, review, payment
<1>1. recorder'[i] = Idle /\ reader'[i] = AtRest /\ \A d \in Deliveries : work'[i][d] = Done
  BY DEF Crash
<1>2. Once(i)'
  BY <1>0, <1>1 DEF Local, Once, Done
<1>3. Recorded(i)'
  BY <1>0, <1>1 DEF Local, Recorded, Truthful, HasHappened, Idle, AtRest, NoRecord
<1>4. Steady(i)'
  BY <1>0, <1>1 DEF Local, Steady, AtRest, NoRecord
<1> QED
  BY <1>0, <1>2, <1>3, <1>4, Untouched DEF Local

\* Every step keeps the invariant.
LEMMA NextKeeps == FlowInv /\ [Next]_vars => FlowInv'
<1> SUFFICES ASSUME FlowInv, [Next]_vars, NEW j \in Invoices PROVE Local(j)'
  BY NextTyped DEF FlowInv
<1>0. TypeOK /\ Local(j)
  BY DEF FlowInv
<1>1. CASE UNCHANGED vars
  BY <1>0, <1>1, KeptLocal DEF vars, fixed, review, payment, told, Kept
<1>2. CASE Crash
  BY <1>0, <1>2, CrashKeeps
<1>3. ASSUME NEW i \in Invoices, Handle(i) PROVE Local(j)'
  <2>1. CASE i = j
    BY <1>0, <1>3, <2>1, DeliverKeeps, StoreKeeps, EscalateKeeps, DecideKeeps, PayKeeps,
       RecordReadKeeps, RecordSaveKeeps, ReadKeeps, ReportKeeps DEF Handle
  <2>2. CASE i # j
    BY <1>0, <1>3, <2>2, OthersKept, KeptLocal
  <2> QED
    BY <2>1, <2>2
<1> QED
  BY <1>1, <1>2, <1>3 DEF Next

LEMMA FlowInvariant == Spec => []FlowInv
BY InitInv, NextKeeps, PTL DEF Spec

-----------------------------------------------------------------------------
(* The theorems.                                                           *)

\* What a submitter is told about money is so (AnswersAgreeWithMoney), through
\* every interleaving of deliveries, decisions, payments and reads, and every
\* fault.
THEOREM ToldAboutMoneyIsSo == Spec => []AnswersAgreeWithMoney
<1>1. FlowInv => AnswersAgreeWithMoney
  <2> SUFFICES ASSUME FlowInv, NEW i \in Invoices
      PROVE /\ answer[i] = "paid" => charges[i] = 1
            /\ answer[i] = "payment_failed" => charges[i] = 0 /\ ledger[i] = "compensated"
            /\ answer[i] = "approved_pending_payment" => payments[i] > 0
            /\ answer[i] = "rejected" => (deliveries[i] = 1 => payments[i] = 0)
    BY DEF AnswersAgreeWithMoney
  <2>1. TypeOK /\ Local(i)
    BY DEF FlowInv
  <2> QED
    BY <2>1, TypesAt DEF Local, Answered, Ordered, Once
<1> QED
  BY <1>1, FlowInvariant, PTL

\* Nothing is paid that neither a human approved nor the agent's policy allows
\* (PaidOnGrounds), whatever the policy says and the model answers.
THEOREM NothingPaidWithoutGrounds == Spec => []PaidOnGrounds
<1>1. FlowInv => PaidOnGrounds
  <2> SUFFICES ASSUME FlowInv, NEW i \in Invoices, charges[i] > 0
      PROVE grounds[i] # {} /\ \A g \in grounds[i] : Permitted(i, g)
    BY DEF PaidOnGrounds, Permitted
  <2>1. TypeOK /\ Local(i)
    BY DEF FlowInv
  <2>2. charges[i] = 1
    BY <2>1, TypesAt
  <2> QED
    BY <2>1, <2>2 DEF Local, Ordered, Justified
<1> QED
  BY <1>1, FlowInvariant, PTL

\* A submitter who was told how it ended is told the same ever after
\* (AnswersStand), as far as the property says.
THEOREM FinalAnswersStand == Spec => AnswersStand
<1>1. FlowInv /\ [Next]_vars =>
        [\A i \in Invoices :
           answer[i] \in Final /\ answer'[i] # answer[i] => deliveries[i] > 1 \/ reader'[i].blurred]_vars
  <2> SUFFICES ASSUME FlowInv, Next, NEW i \in Invoices,
                      answer[i] \in Final, answer'[i] # answer[i], ~(deliveries[i] > 1)
               PROVE reader'[i].blurred
    BY Zenon
  <2>1. TypeOK /\ Local(i)
    BY DEF FlowInv
  <2>2. deliveries[i] <= 1
    BY <2>1, TypesAt
  <2>3. Report(i)
    <3>1. ~Crash
      BY DEF Crash
    <3>2. PICK j \in Invoices : Handle(j)
      BY <3>1 DEF Next
    <3>3. j = i
      BY <2>1, <3>2, OthersKept DEF Kept
    <3> QED
      BY <3>2, <3>3
         DEF Handle, Deliver, Store, Escalate, Decide, Pay, RecordRead, RecordSave, AskStatus,
             ReadEvaluation, told
  <2> SUFFICES ASSUME ~reader'[i].blurred PROVE FALSE
    OBVIOUS
  <2>4. /\ reader[i].pc = "report" /\ ~reader[i].blurred
        /\ answer'[i] = StageOf(reader[i].copy, item[i])
    BY <2>1, <2>3, ReportForm
  <2>5. CASE answer[i] = "rejected"
    BY <2>1, <2>2, <2>4, <2>5 DEF Local, Answered, StageOf
  <2>6. CASE answer[i] \in {"paid", "payment_failed"}
    <3>1. ledger[i] # "none"
      BY <2>1, <2>6 DEF Local, Answered
    <3>2. payments[i] > 0
      BY <2>1, <3>1 DEF Local, Ordered
    <3>3. item[i] \notin {"pending", "info_requested", "rejected"}
      BY <2>1, <2>2, <3>2 DEF Local, Once
    <3>4. evaluation[i].payment = reader[i].copy.payment
      BY <2>1, <2>2, <2>4, <2>6 DEF Local, Steady
    <3> QED
      BY <2>1, <2>2, <2>4, <2>6, <3>3, <3>4 DEF Local, Steady, StageOf
  <2> QED
    BY <2>5, <2>6 DEF Final
<1> QED
  BY <1>1, FlowInvariant, PTL DEF Spec, AnswersStand

-----------------------------------------------------------------------------
(* What the model is shown.                                                *)

\* The prompts there may be: none yet, or one made from ratings of the rules of
\* a policy that was loaded.
Prompts ==
    {NoPrompt} \union
    {[rating |-> rating, shown |-> Retrieve(rating)] :
        rating \in UNION {Ratings(policy.rules) : policy \in LoadPolicy}}

\* Every prompt shows the rules that were retrieved for its ratings.
PromptInv == prompt \in [Invoices -> Prompts]

\* A delivery makes a prompt of the rules of the policy it loads, or none.
LEMMA DeliverPrompt ==
    ASSUME PromptInv, NEW i \in Invoices, Deliver(i)
    PROVE PromptInv'
<1> USE DEF PromptInv
<1>1. PICK policy \in LoadPolicy : Consult(i, policy)
  BY DEF Deliver
<1>2. CASE UNCHANGED prompt
  BY <1>2
<1>3. CASE \E rating \in Ratings(policy.rules) :
             prompt' = [prompt EXCEPT ![i] = [rating |-> rating, shown |-> Retrieve(rating)]]
  <2>1. PICK rating \in Ratings(policy.rules) :
             prompt' = [prompt EXCEPT ![i] = [rating |-> rating, shown |-> Retrieve(rating)]]
    BY <1>3
  <2>2. [rating |-> rating, shown |-> Retrieve(rating)] \in Prompts
    BY DEF Prompts
  <2> QED
    BY <2>1, <2>2
<1> QED
  BY <1>1, <1>2, <1>3 DEF Consult

\* That is so in every state.
LEMMA PromptInvariant == Spec => []PromptInv
<1>1. Init => PromptInv
  BY DEF Init, PromptInv, Prompts
<1>2. PromptInv /\ [Next]_vars => PromptInv'
  <2> SUFFICES ASSUME PromptInv, [Next]_vars
               PROVE PromptInv'
    OBVIOUS
  <2>1. ASSUME NEW i \in Invoices, Handle(i), ~Deliver(i)
        PROVE UNCHANGED prompt
    BY <2>1 DEF Handle, Store, Escalate, Decide, Pay, RecordRead, RecordSave, AskStatus,
                ReadEvaluation, Report
  <2>2. CASE Crash
    BY <2>2 DEF Crash, PromptInv
  <2>3. CASE UNCHANGED vars
    BY <2>3 DEF vars, PromptInv
  <2> QED
    BY <2>1, <2>2, <2>3, DeliverPrompt DEF Next, PromptInv
<1> QED
  BY <1>1, <1>2, PTL DEF Spec

\* The rules of a policy are finitely many places in the handbook, and their
\* ratings are numbers.
LEMMA RulesAreFinite ==
    ASSUME NEW policy \in LoadPolicy, NEW rating \in Ratings(policy.rules)
    PROVE /\ policy.rules \in SUBSET Nat /\ IsFiniteSet(policy.rules)
          /\ rating \in [policy.rules -> Nat]
<1>1. Configured.rules \in SUBSET Nat /\ IsFiniteSet(Configured.rules)
  BY EvaluationAssumption DEF Policies
<1>2. Fallback.rules = {}
  BY DEF Fallback
<1>3. policy.rules \in SUBSET Nat /\ IsFiniteSet(policy.rules)
  BY <1>1, <1>2, FS_EmptySet DEF LoadPolicy
<1>4. Levels \subseteq Nat
  BY EvaluationAssumption
<1> QED
  BY <1>3, <1>4 DEF Ratings

\* The model is shown an empty prompt only under a policy without rules, and a
\* rule is kept from it only when TopK that match the invoice at least as well
\* are shown, one of which has a word in common with it
\* (PromptShowsWhatApplies): for a handbook of any size, any ratings, and the
\* policy that was loaded, the fallback's or the configured one.
THEOREM PromptsShowTheBest == Spec => []PromptShowsWhatApplies
<1>1. PromptInv => PromptShowsWhatApplies
  <2> SUFFICES ASSUME PromptInv, NEW i \in Invoices
               PROVE LET rating == prompt[i].rating
                         shown == prompt[i].shown IN
                     /\ shown = {} => DOMAIN rating = {}
                     /\ \A r \in DOMAIN rating \ shown :
                           /\ Cardinality(shown) = TopK
                           /\ \A q \in shown : rating[q] >= rating[r]
                           /\ \E q \in shown : rating[q] > 0
    BY DEF PromptShowsWhatApplies
  <2>1. CASE prompt[i] = NoPrompt
    BY <2>1 DEF NoPrompt
  <2>2. ASSUME prompt[i] # NoPrompt
        PROVE \E policy \in LoadPolicy : \E rating \in Ratings(policy.rules) :
                 prompt[i] = [rating |-> rating, shown |-> Retrieve(rating)]
    BY <2>2 DEF PromptInv, Prompts
  <2>3. CASE prompt[i] # NoPrompt
    <3>1. PICK policy \in LoadPolicy : \E rating \in Ratings(policy.rules) :
                 prompt[i] = [rating |-> rating, shown |-> Retrieve(rating)]
      BY <2>2, <2>3
    <3>2. PICK rating \in Ratings(policy.rules) :
                 prompt[i] = [rating |-> rating, shown |-> Retrieve(rating)]
      BY <3>1
    <3>3. /\ policy.rules \in SUBSET Nat /\ IsFiniteSet(policy.rules)
          /\ rating \in [policy.rules -> Nat]
      BY RulesAreFinite
    <3>4. DOMAIN rating = policy.rules
      BY <3>3
    <3>5. /\ Retrieve(rating) = {} => policy.rules = {}
          /\ Retrieve(rating) # policy.rules =>
                /\ Cardinality(Retrieve(rating)) = TopK
                /\ \E q \in Retrieve(rating) : rating[q] > 0
      BY <3>3, PromptIsFullOrComplete
    <3>6. \A r \in policy.rules \ Retrieve(rating), q \in Retrieve(rating) :
             rating[q] >= rating[r]
      BY <3>3, BetterRulesAreShown
    <3>7. prompt[i].rating = rating /\ prompt[i].shown = Retrieve(rating)
      BY <3>2
    <3> QED
      BY <3>4, <3>5, <3>6, <3>7
  <2> QED
    BY <2>1, <2>3
<1> QED
  BY <1>1, PromptInvariant, PTL

=============================================================================
