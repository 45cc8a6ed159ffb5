----------------------------- MODULE ApprovalFlow -----------------------------
(***************************************************************************)
(* An invoice from its submission event to the stage its submitter is      *)
(* told: the agent's evaluation, the human's review, the payment and the   *)
(* record of its outcome (agent.py and main.py of approval-agent), put     *)
(* together from what the other parts promise.  The review is Review,      *)
(* which Escalation implements; the payment is PaymentLedger, which        *)
(* PaymentSaga implements.                                                 *)
(*                                                                         *)
(* A handler is suspended only where it awaits: while the evaluation of an *)
(* invoice that is not cleared is stored, while an outcome's handler reads *)
(* and writes the evaluation, and while a status request reads it.         *)
(* Everything else a handler does is one step.  A call that fails before   *)
(* the first write of its handler changes nothing and is no step.          *)
(***************************************************************************)
EXTENDS Evaluation

CONSTANTS Invoices,
          Submissions,     \* what an invoice may say
          MaxDeliveries,   \* bound on how often a submission is delivered
          Faults,          \* the kinds of fault that may happen
          MaxFaults        \* bound on how many faults happen

FaultKinds == {"store_failed",      \* the evaluation is not stored, the handler goes on
               "escalate_failed",   \* the item is not put before a human
               "misread",           \* a look-up is answered with an error status
               "save_refused",      \* not applied, and the handler does not care
               "save_raised",       \* not applied, the event comes again
               "save_unanswered",   \* applied, the event comes again
               "crash"}

ASSUME FlowAssumption ==
    /\ Submissions \subseteq
         [total : Nat, receiptPresent : BOOLEAN, vendorKnown : BOOLEAN, reconciles : BOOLEAN]
    /\ MaxDeliveries \in Nat
    /\ Faults \subseteq FaultKinds
    /\ MaxFaults \in Nat

Deliveries == 1 .. MaxDeliveries
Stages     == {"processing", "escalated", "awaiting_info", "rejected",
               "approved_pending_payment", "paid", "payment_failed"}
PayStatus  == {"none", "paid", "failed"}
Records    == [recommendation : Opinions \union {"none"}, payment : PayStatus]
NoRecord   == [recommendation |-> "none", payment |-> "none"]

VARIABLES
    invoice,     \* invoice[i]: what the submission says
    deliveries,  \* deliveries[i]: how often its event was delivered
    work,        \* work[i][d]: the handler of delivery d, where it awaits
    evaluation,  \* evaluation[i]: the record under invoice_evaluation:<i>
    item,        \* item[i]: the status of the escalation
    payments,    \* payments[i]: payment events recorded for i
    ledger,      \* ledger[i], charges[i], outcomes[i]: the payment
    charges,
    outcomes,
    grounds,     \* grounds[i]: why payments were recorded, a history
    prompt,      \* prompt[i]: the ratings and rules of the last prompt, a history
    unread,      \* unread[i]: outcome events not acknowledged
    recorder,    \* recorder[i]: the handler of an outcome event, and its copy
    reader,      \* reader[i]: a status request, its copy and whether a read failed
    answer,      \* answer[i]: the stage the last status request was answered with
    faults

review   == <<item, payments>>
payment  == <<ledger, charges, outcomes>>
told     == <<reader, answer>>
fixed    == <<invoice>>
vars == <<fixed, deliveries, work, evaluation, review, payment, grounds, prompt, unread,
          recorder, told, faults>>

R == INSTANCE Review
L == INSTANCE PaymentLedger

Done     == [pc |-> "done", recommendation |-> "none"]
Idle     == [pc |-> "idle", copy |-> NoRecord, outcome |-> "none"]
AtRest   == [pc |-> "idle", copy |-> NoRecord, blurred |-> FALSE]
NoPrompt == [rating |-> <<>>, shown |-> {}]

Init ==
    /\ invoice \in [Invoices -> Submissions]
    /\ deliveries = [i \in Invoices |-> 0]
    /\ work = [i \in Invoices |-> [d \in Deliveries |-> Done]]
    /\ evaluation = [i \in Invoices |-> NoRecord]
    /\ R!Init
    /\ L!Init
    /\ grounds = [i \in Invoices |-> {}]
    /\ prompt = [i \in Invoices |-> NoPrompt]
    /\ unread = [i \in Invoices |-> {}]
    /\ recorder = [i \in Invoices |-> Idle]
    /\ reader = [i \in Invoices |-> AtRest]
    /\ answer = [i \in Invoices |-> "processing"]
    /\ faults = 0

Outcomes(kinds) ==
    {"ok"} \union (IF faults < MaxFaults THEN kinds \intersect Faults ELSE {})

Count(outcome) == faults' = IF outcome = "ok" THEN faults ELSE faults + 1

-----------------------------------------------------------------------------
(* handle_invoice_event.                                                   *)

Agent(policy, response) == [by |-> "agent", policy |-> policy, confidence |-> response.confidence]
Human == [by |-> "human", policy |-> Fallback, confidence |-> 0]

Justify(i, ground) == grounds' = [grounds EXCEPT ![i] = @ \union {ground}]

\* The model is asked unless the invoice is withheld from it.
Consult(i, policy) ==
    IF Withheld(invoice[i], policy) THEN UNCHANGED prompt
    ELSE \E rating \in Ratings(policy.rules) :
           prompt' = [prompt EXCEPT ![i] = [rating |-> rating, shown |-> Retrieve(rating)]]

\* The evaluation of a cleared invoice is stored together with its payment event.
Clear(i, policy, response) ==
    /\ evaluation' = [evaluation EXCEPT ![i] = [recommendation |-> "approve", payment |-> "none"]]
    /\ R!Clear(i)
    /\ Justify(i, Agent(policy, response))
    /\ UNCHANGED work

\* The evaluation of any other is on its way to the store.
Post(i, d, recommendation) ==
    /\ work' = [work EXCEPT ![i][d] = [pc |-> "post", recommendation |-> recommendation]]
    /\ UNCHANGED <<evaluation, review, grounds>>

Deliver(i) ==
    /\ deliveries[i] < MaxDeliveries
    /\ deliveries' = [deliveries EXCEPT ![i] = @ + 1]
    /\ \E policy \in LoadPolicy, response \in Answers \union {NoAnswer} :
         LET recommendation == Evaluate(invoice[i], policy, response) IN
         /\ Consult(i, policy)
         /\ \/ recommendation = "approve" /\ Clear(i, policy, response)
            \/ recommendation # "approve" /\ Post(i, deliveries[i] + 1, recommendation)
    /\ UNCHANGED <<fixed, payment, unread, recorder, told, faults>>

Store(i, d) ==
    /\ work[i][d].pc = "post"
    /\ \E outcome \in Outcomes({"store_failed"}) :
         /\ evaluation' =
              IF outcome = "store_failed" THEN evaluation
              ELSE [evaluation EXCEPT ![i] =
                      [recommendation |-> work[i][d].recommendation, payment |-> "none"]]
         /\ Count(outcome)
    /\ work' = [work EXCEPT ![i][d].pc = "escalate"]
    /\ UNCHANGED <<fixed, deliveries, review, payment, grounds, prompt, unread, recorder, told>>

\* Stored or not, the item goes before a human.
Escalate(i, d) ==
    /\ work[i][d].pc = "escalate"
    /\ work' = [work EXCEPT ![i][d] = Done]
    /\ \E outcome \in Outcomes({"escalate_failed"}) :
         /\ IF outcome = "ok" THEN R!Pause(i) ELSE UNCHANGED review
         /\ Count(outcome)
    /\ UNCHANGED <<fixed, deliveries, evaluation, payment, grounds, prompt, unread, recorder,
                   told>>

-----------------------------------------------------------------------------
(* The human's decision, and the payment.                                  *)

Decide(i) ==
    /\ \/ R!Approve(i) /\ Justify(i, Human)
       \/ R!Reject(i) /\ UNCHANGED grounds
       \/ R!Ask(i) /\ UNCHANGED grounds
       \/ item[i] = "info_requested" /\ R!Pause(i) /\ UNCHANGED grounds
    /\ UNCHANGED <<fixed, deliveries, work, evaluation, payment, prompt, unread, recorder, told,
                   faults>>

\* payment-service works on recorded events only; each announcement is an
\* event of its own.
Pay(i) ==
    /\ \/ payments[i] > 0 /\ L!Hold(i) /\ UNCHANGED unread
       \/ L!Charge(i) /\ UNCHANGED unread
       \/ L!Close(i) /\ UNCHANGED unread
       \/ L!Announce(i) /\ unread' = [unread EXCEPT ![i] = @ \union outcomes'[i]]
    /\ UNCHANGED <<fixed, deliveries, work, evaluation, review, grounds, prompt, recorder, told,
                   faults>>

-----------------------------------------------------------------------------
(* handle_payment_outcome.                                                 *)

\* What a look-up of i's evaluation returns.
Found(i, outcome) == IF outcome = "misread" THEN NoRecord ELSE evaluation[i]

\* Mutant of Merge: an outcome is recorded only on an evaluation that is there.
MergeIfFound(record, outcome) ==
    IF record = NoRecord THEN record ELSE [record EXCEPT !.payment = outcome]

Merge(record, outcome) == [record EXCEPT !.payment = outcome]

RecordRead(i) ==
    /\ recorder[i].pc = "idle"
    /\ \E o \in unread[i], outcome \in Outcomes({"misread"}) :
         /\ recorder' = [recorder EXCEPT ![i] =
                           [pc |-> "save", copy |-> Found(i, outcome), outcome |-> o]]
         /\ Count(outcome)
    /\ UNCHANGED <<fixed, deliveries, work, evaluation, review, payment, grounds, prompt, unread,
                   told>>

RecordSave(i) ==
    /\ recorder[i].pc = "save"
    /\ recorder' = [recorder EXCEPT ![i] = Idle]
    /\ \E outcome \in Outcomes({"save_refused", "save_raised", "save_unanswered"}) :
         /\ evaluation' =
              IF outcome \in {"ok", "save_unanswered"}
              THEN [evaluation EXCEPT ![i] = Merge(recorder[i].copy, recorder[i].outcome)]
              ELSE evaluation
         /\ unread' =
              IF outcome \in {"ok", "save_refused"}
              THEN [unread EXCEPT ![i] = @ \ {recorder[i].outcome}]
              ELSE unread
         /\ Count(outcome)
    /\ UNCHANGED <<fixed, deliveries, work, review, payment, grounds, prompt, told>>

-----------------------------------------------------------------------------
(* get_status.                                                             *)

\* Mutant of StageOf: the status of the escalation is passed on.
StageOfStatus(record, status) ==
    CASE record.payment = "paid" -> "paid"
      [] record.payment # "paid" -> status

\* Mutant of StageOf: what is approved counts as paid.
StageOfApproved(record, status) ==
    CASE status = "info_requested" -> "awaiting_info"
      [] status = "pending" -> "escalated"
      [] status = "rejected" -> "rejected"
      [] OTHER -> IF record.recommendation = "approve" \/ status = "approved"
                  THEN "paid" ELSE "processing"

\* The stage for an evaluation and the status of an escalation.
StageOf(record, status) ==
    CASE status = "info_requested" -> "awaiting_info"
      [] status = "pending" -> "escalated"
      [] status = "rejected" -> "rejected"
      [] OTHER ->
           CASE record.payment = "paid" -> "paid"
             [] record.payment = "failed" -> "payment_failed"
             [] OTHER ->
                  IF status = "approved" \/ (status = "none" /\ record.recommendation = "approve")
                  THEN "approved_pending_payment" ELSE "processing"

\* A submitter asks, and asks again when no answer comes.
AskStatus(i) ==
    /\ reader' = [reader EXCEPT ![i] = [AtRest EXCEPT !.pc = "read"]]
    /\ UNCHANGED <<fixed, deliveries, work, evaluation, review, payment, grounds, prompt, unread,
                   recorder, answer, faults>>

ReadEvaluation(i) ==
    /\ reader[i].pc = "read"
    /\ \E outcome \in Outcomes({"misread"}) :
         /\ reader' = [reader EXCEPT ![i] = [pc |-> "report", copy |-> Found(i, outcome),
                                             blurred |-> outcome # "ok"]]
         /\ Count(outcome)
    /\ UNCHANGED <<fixed, deliveries, work, evaluation, review, payment, grounds, prompt, unread,
                   recorder, answer>>

\* The escalation is read and the request answered without an await between.
Report(i) ==
    /\ reader[i].pc = "report"
    /\ \E outcome \in Outcomes({"misread"}) :
         /\ answer' = [answer EXCEPT ![i] =
                         StageOf(reader[i].copy, IF outcome = "ok" THEN item[i] ELSE "none")]
         /\ reader' = [reader EXCEPT ![i] =
                         [AtRest EXCEPT !.blurred = reader[i].blurred \/ outcome # "ok"]]
         /\ Count(outcome)
    /\ UNCHANGED <<fixed, deliveries, work, evaluation, review, payment, grounds, prompt, unread,
                   recorder>>

-----------------------------------------------------------------------------

\* The agent's process stops and is started again: what its handlers held is
\* gone, events they had not acknowledged come again.
Crash ==
    /\ "crash" \in Outcomes({"crash"})
    /\ Count("crash")
    /\ work' = [i \in Invoices |-> [d \in Deliveries |-> Done]]
    /\ recorder' = [i \in Invoices |-> Idle]
    /\ reader' = [i \in Invoices |-> AtRest]
    /\ UNCHANGED <<fixed, deliveries, evaluation, review, payment, grounds, prompt, unread,
                   answer>>

Handle(i) ==
    \/ Deliver(i) \/ Decide(i) \/ Pay(i) \/ RecordRead(i) \/ RecordSave(i)
    \/ AskStatus(i) \/ ReadEvaluation(i) \/ Report(i)
    \/ \E d \in Deliveries : Store(i, d) \/ Escalate(i, d)

Next == Crash \/ \E i \in Invoices : Handle(i)

\* An outcome event that is not acknowledged is delivered until it is, and its
\* handler goes on whatever the calls return.
Fairness == \A i \in Invoices : WF_vars(RecordRead(i)) /\ WF_vars(RecordSave(i))

Spec == Init /\ [][Next]_vars /\ Fairness

-----------------------------------------------------------------------------
(* Properties.                                                             *)

Bases == [by : {"agent", "human"}, policy : LoadPolicy, confidence : Nat]

\* Type invariant of the whole journey.
TypeOK ==
    /\ invoice \in [Invoices -> Submissions]
    /\ deliveries \in [Invoices -> 0 .. MaxDeliveries]
    /\ work \in [Invoices -> [Deliveries ->
                   [pc : {"done", "post", "escalate"}, recommendation : Opinions \union {"none"}]]]
    /\ evaluation \in [Invoices -> Records]
    /\ item \in [Invoices -> {"none", "pending", "info_requested", "approved", "rejected"}]
    /\ payments \in [Invoices -> Nat]
    /\ ledger \in [Invoices -> {"none", "reserved", "paid", "compensated"}]
    /\ charges \in [Invoices -> {0, 1}]
    /\ outcomes \in [Invoices -> SUBSET {"paid", "failed"}]
    /\ grounds \in [Invoices -> SUBSET Bases]
    /\ unread \in [Invoices -> SUBSET {"paid", "failed"}]
    /\ recorder \in [Invoices -> [pc : {"idle", "save"}, copy : Records, outcome : PayStatus]]
    /\ reader \in [Invoices -> [pc : {"idle", "read", "report"}, copy : Records, blurred : BOOLEAN]]
    /\ answer \in [Invoices -> Stages]
    /\ faults \in Nat

\* What a submitter is told about money is so, whatever happened between the
\* two reads the answer is made from, and whatever failed: told paid, the
\* invoice was charged; told that the payment failed, it was not and will not
\* be; told that a payment is under way, one was ordered; told rejected, none
\* was ordered, unless the submission was delivered more than once.
AnswersAgreeWithMoney ==
    \A i \in Invoices :
        CASE answer[i] = "paid" -> charges[i] = 1
          [] answer[i] = "payment_failed" -> charges[i] = 0 /\ ledger[i] = "compensated"
          [] answer[i] = "approved_pending_payment" -> payments[i] > 0
          [] answer[i] = "rejected" -> deliveries[i] = 1 => payments[i] = 0
          [] OTHER -> TRUE

Final == {"rejected", "paid", "payment_failed"}

\* A submitter who was told how it ended is told the same ever after, as long
\* as the submission was delivered once and the reads of the answer worked.
\* A second delivery evaluates the invoice anew and overwrites the outcome.
AnswersStand ==
    [][\A i \in Invoices :
         answer[i] \in Final /\ answer'[i] # answer[i] => deliveries[i] > 1 \/ reader'[i].blurred]_vars

\* The hard stop s applies to what submission i says.
Applies(s, i) ==
    CASE s = "GLOBAL-RECEIPT" -> ~invoice[i].receiptPresent
      [] s = "GLOBAL-VENDOR" -> ~invoice[i].vendorKnown
      [] s = "GLOBAL-MATH" -> ~invoice[i].reconciles
      [] OTHER -> FALSE

\* Money moves only on an order a human or the agent gave, and an order of the
\* agent is one the policy it had at that time allows: at most the ceiling, at
\* least the threshold, and none of the three hard stops the code looks for, if
\* the policy lists it.  Which policy that was counts: the invoice may be
\* evaluated again under another one before the money moves.
PaidOnGrounds ==
    \A i \in Invoices : charges[i] > 0 =>
        /\ grounds[i] # {}
        /\ \A g \in grounds[i] : g.by = "agent" =>
              /\ invoice[i].total <= g.policy.ceiling
              /\ g.confidence >= g.policy.threshold
              /\ \A s \in g.policy.stops : ~Applies(s, i)

\* README.md:158-160: "The agent may auto-approve **only** when the amount is at
\* or below `$250` **and** its confidence is at or above `0.80` **and** no
\* hard-stop rule applies", whatever policy it could load.
AgentObeysEveryLimit ==
    \A i \in Invoices : \A g \in grounds[i] : g.by = "agent" =>
        /\ invoice[i].total <= 250
        /\ g.confidence >= 80
        /\ \A s \in HardStops : ~Applies(s, i)

\* The model is shown an empty prompt only under a policy without rules, as
\* the fallback is; and a rule is kept from it only when TopK others that match
\* the invoice at least as well are shown, one of which has a word in common
\* with it.
PromptShowsWhatApplies ==
    \A i \in Invoices :
        LET rating == prompt[i].rating
            shown == prompt[i].shown IN
        /\ shown = {} => DOMAIN rating = {}
        /\ \A r \in DOMAIN rating \ shown :
              /\ Cardinality(shown) = TopK
              /\ \A q \in shown : rating[q] >= rating[r]
              /\ \E q \in shown : rating[q] > 0

\* An announced outcome is recorded with its evaluation, unless another fault
\* happens or the submission is delivered again.
OutcomeIsRecorded ==
    \A i \in Invoices, o \in {"paid", "failed"}, n \in 0 .. MaxFaults, m \in 0 .. MaxDeliveries :
        o \in unread[i] /\ faults = n /\ deliveries[i] = m
            ~> evaluation[i].payment = o \/ faults > n \/ deliveries[i] > m
=============================================================================
