----------------------------- MODULE Escalation -----------------------------
(***************************************************************************)
(* approval-agent: the handler of submitted invoices, the pause for a      *)
(* human, and the decisions that end it (main.py, escalation.py).          *)
(*                                                                         *)
(* All handlers run on one event loop.  Only handle_invoice_event gives    *)
(* way, once, while its evaluation is being stored; every other call       *)
(* blocks the loop.  So one handler at a time is at work, any number are   *)
(* paused, and between two calls of the one at work only the process can   *)
(* die.  A run of _mutate_queue is one call here: nothing else writes the  *)
(* escalation queue, and module Outbox has the outbox queue in detail.     *)
(***************************************************************************)
EXTENDS Naturals, FiniteSets

CONSTANTS Invoices,   \* tracking ids
          Faults,     \* the faults that may happen: pairs of a side and a kind
          MaxFaults   \* bound on how many faults happen

WriteFaults == {"refused",      \* reported as failed, not applied
                "misreported",  \* reported as failed, applied nevertheless
                "lost",         \* no answer, not applied: requests raises
                "unanswered"}   \* no answer, applied: requests raises
ReadFaults  == {"misread",      \* answered with an error status
                "raised"}       \* no answer: requests raises

ASSUME EscalationAssumption ==
    /\ Faults \subseteq {"submission", "request"} \X (WriteFaults \union ReadFaults)
                        \union {<<"sidecar", "late">>, <<"sidecar", "ack_lost">>,
                                <<"process", "crash">>}
    /\ MaxFaults \in Nat

Decisions == {"approve", "reject", "request_info"}
Jobs      == [op : Decisions \union {"submission", "info"}, invoice : Invoices]
Requests  == {j \in Jobs : j.op # "submission"}

VARIABLES
    submission,  \* submission[i]: whether the event is acknowledged
    deliveries,  \* deliveries[i]: how often it was handed to the agent
    evaluation,  \* evaluation[i]: the recommendation stored for i
    escalation,  \* escalation[i]: the status under the key escalation:<i>
    listed,      \* the ids in escalation_queue
    recorded,    \* recorded[i]: payment-required events in the store
    queued,      \* queued[i]: those of them the dispatcher will find
    told,        \* told[i]: what the last decision on i was answered
    paused,      \* paused[i]: handlers of i waiting for their evaluation to be stored
    pc,          \* the call the handler at work makes next
    current,     \* its job, in a set of at most one
    faults       \* faults so far

topic == <<submission, deliveries>>
store == <<evaluation, escalation, listed, recorded, queued>>
loop == <<pc, current>>
vars == <<topic, store, told, paused, loop, faults>>

Open     == {"pending", "info_requested"}
Resolved == {"approved", "rejected"}
PCs      == {"idle", "transact", "enqueue", "evaluate", "escalate", "list",
             "unlist", "store", "answer"}

Init ==
    /\ submission = [i \in Invoices |-> "waiting"]
    /\ deliveries = [i \in Invoices |-> 0]
    /\ evaluation = [i \in Invoices |-> "none"]
    /\ escalation = [i \in Invoices |-> "none"]
    /\ listed = {}
    /\ recorded = [i \in Invoices |-> 0]
    /\ queued = [i \in Invoices |-> 0]
    /\ told = [i \in Invoices |-> "none"]
    /\ paused = [i \in Invoices |-> 0]
    /\ pc = "idle"
    /\ current = {}
    /\ faults = 0

Outcomes(side, kinds) ==
    {"ok"} \union (IF faults < MaxFaults THEN {k \in kinds : <<side, k>> \in Faults} ELSE {})

Count(outcome) == faults' = IF outcome = "ok" THEN faults ELSE faults + 1

Applied(outcome) == outcome \in {"ok", "misread", "misreported", "unanswered"}

\* The call returns without raising or reporting a failure.
Succeeds(outcome) == outcome \in {"ok", "misread"}

Raises(outcome) == outcome \in {"lost", "unanswered", "raised"}

Side(j) == IF j.op = "submission" THEN "submission" ELSE "request"

\* The handler at work is at label with job j.
At(label, j) == pc = label /\ j \in current

Start(label, j) == pc' = label /\ current' = {j}

Continue(label) == pc' = label /\ UNCHANGED <<current, told>>

Increment(f, i) == [f EXCEPT ![i] = @ + 1]

Tell(j, answer) ==
    told' = IF j.op \in Decisions THEN [told EXCEPT ![j.invoice] = answer] ELSE told

\* A handler returns or raises; a submission that raises is delivered again.
Finish(j, answer) ==
    /\ Tell(j, answer)
    /\ pc' = "idle"
    /\ current' = {}

\* Mutant of AfterFailure: the handler of submissions swallows everything.
AfterFailureSwallowed(j, outcome) ==
    IF j.op = "submission" THEN Continue("answer") ELSE Finish(j, "error")

\* Mutant of AfterFailure: a decision goes on whether its event is queued or not.
AfterFailureIgnored(j, outcome) ==
    IF j.op = "approve" /\ pc = "enqueue" THEN Continue("unlist") ELSE Finish(j, "error")

\* handle_invoice_event logs an OutboxError or EscalationError and answers
\* SUCCESS; the exceptions of requests leave it, as all do the other handlers.
AfterFailure(j, outcome) ==
    IF j.op = "submission" /\ ~Raises(outcome)
    THEN Continue("answer")
    ELSE Finish(j, "error")

-----------------------------------------------------------------------------
(* handle_invoice_event.                                                   *)

\* The sidecar delivers what is not acknowledged; when a handler takes too
\* long it delivers again although that handler is still alive.  The agent's
\* recommendation may be another one each time: a model has its part in it.
Deliver(i) ==
    LET j == [op |-> "submission", invoice |-> i]
        outcome == IF paused[i] = 0 THEN "ok" ELSE "late"
    IN  /\ pc = "idle"
        /\ submission[i] = "waiting"
        /\ outcome \in Outcomes("sidecar", {"late"})
        /\ Count(outcome)
        /\ deliveries' = Increment(deliveries, i)
        /\ \/ Start("transact", j)
           \/ Start("evaluate", j)
        /\ UNCHANGED <<submission, store, told, paused>>

\* The evaluation is posted and the handler gives way until the answer is
\* there; whatever the answer, it goes on with the escalation.
StoreEvaluation(j) ==
    /\ At("evaluate", j)
    /\ \E outcome \in Outcomes("submission", WriteFaults) :
        /\ Count(outcome)
        /\ evaluation' = IF Applied(outcome)
                         THEN [evaluation EXCEPT ![j.invoice] = "review"] ELSE evaluation
    /\ paused' = Increment(paused, j.invoice)
    /\ pc' = "idle"
    /\ current' = {}
    /\ UNCHANGED <<topic, escalation, listed, recorded, queued, told>>

Resume(i) ==
    /\ pc = "idle"
    /\ paused[i] > 0
    /\ paused' = [paused EXCEPT ![i] = @ - 1]
    /\ Start("escalate", [op |-> "submission", invoice |-> i])
    /\ UNCHANGED <<topic, store, told, faults>>

\* save_escalation: the record, whatever it was before, is a pending one now.
SaveEscalation(j) ==
    /\ At("escalate", j)
    /\ \E outcome \in Outcomes(Side(j), WriteFaults) :
        /\ Count(outcome)
        /\ escalation' = IF Applied(outcome)
                         THEN [escalation EXCEPT ![j.invoice] = "pending"] ELSE escalation
        /\ IF Succeeds(outcome) THEN Continue("list") ELSE AfterFailure(j, outcome)
    /\ UNCHANGED <<topic, evaluation, listed, recorded, queued, paused>>

\* What _mutate_queue starts from; an error status reads as an empty list.
QueueRead(outcome) == IF outcome = "misread" THEN {} ELSE listed

AddToQueue(j) ==
    /\ At("list", j)
    /\ \E outcome \in Outcomes(Side(j), WriteFaults \union {"misread"}) :
        /\ Count(outcome)
        /\ listed' = IF Applied(outcome) THEN QueueRead(outcome) \union {j.invoice} ELSE listed
        /\ IF Succeeds(outcome) THEN Continue("answer") ELSE AfterFailure(j, outcome)
    /\ UNCHANGED <<topic, evaluation, escalation, recorded, queued, paused>>

\* HTTP 200; if it does not reach the sidecar, the event comes again.
Answer(j) ==
    /\ At("answer", j)
    /\ \E outcome \in Outcomes("sidecar", {"ack_lost"}) :
        /\ Count(outcome)
        /\ submission' = IF outcome = "ok"
                         THEN [submission EXCEPT ![j.invoice] = "acknowledged"] ELSE submission
    /\ Finish(j, "none")
    /\ UNCHANGED <<deliveries, store, paused>>

-----------------------------------------------------------------------------
(* enqueue_with_state, for the agent's approval or an approver's.          *)

\* Mutant of Approved: the status is left to a later call.
ApprovedLater(j) == escalation

Approved(j) ==
    IF j.op = "approve" THEN [escalation EXCEPT ![j.invoice] = "approved"] ELSE escalation

\* The state change and the record of the event are one transaction.
Transact(j) ==
    /\ At("transact", j)
    /\ \E outcome \in Outcomes(Side(j), WriteFaults) :
        /\ Count(outcome)
        /\ IF Applied(outcome)
           THEN /\ recorded' = Increment(recorded, j.invoice)
                /\ escalation' = Approved(j)
                /\ evaluation' = IF j.op = "submission"
                                 THEN [evaluation EXCEPT ![j.invoice] = "approve"]
                                 ELSE evaluation
           ELSE UNCHANGED <<recorded, escalation, evaluation>>
        /\ IF Succeeds(outcome) THEN Continue("enqueue") ELSE AfterFailure(j, outcome)
    /\ UNCHANGED <<topic, listed, queued, paused>>

\* The id of the event is added to the outbox queue.
Enqueue(j) ==
    /\ At("enqueue", j)
    /\ \E outcome \in Outcomes(Side(j), WriteFaults) :
        /\ Count(outcome)
        /\ queued' = IF Applied(outcome) THEN Increment(queued, j.invoice) ELSE queued
        /\ IF Succeeds(outcome)
           THEN Continue(IF j.op = "approve" THEN "unlist" ELSE "answer")
           ELSE AfterFailure(j, outcome)
    /\ UNCHANGED <<topic, evaluation, escalation, listed, recorded, paused>>

-----------------------------------------------------------------------------
(* resolve_decision and submit_additional_info.                            *)

\* Mutant of Acceptable: resolve_decision does not look at the status.
AcceptableAlways(op, status) ==
    IF op = "info" THEN status = "info_requested" ELSE status # "none"

\* Mutant of Acceptable: submit_additional_info does not look at the status.
AcceptableInfo(op, status) ==
    IF op = "info" THEN status # "none" ELSE status \in Open

Acceptable(op, status) ==
    IF op = "info" THEN status = "info_requested" ELSE status \in Open

FirstCall(op) ==
    CASE op = "approve" -> "transact"
      [] op = "reject"  -> "unlist"
      [] OTHER          -> "store"

\* A request arrives and the record is read.  The approver may know the item
\* from a list shown long ago, so any item may be decided at any time.
Ask(j) ==
    /\ pc = "idle"
    /\ \E outcome \in Outcomes("request", ReadFaults) :
        LET status == IF outcome = "misread" THEN "none" ELSE escalation[j.invoice]
        IN  /\ Count(outcome)
            /\ \/ /\ outcome # "raised"
                  /\ Acceptable(j.op, status)
                  /\ Start(FirstCall(j.op), j)
                  /\ Tell(j, "none")
               \/ /\ outcome = "raised"
                  /\ Finish(j, "error")
               \/ /\ outcome # "raised"
                  /\ ~Acceptable(j.op, status)
                  /\ Finish(j, "refused")
    /\ UNCHANGED <<topic, store, paused>>

\* The last call of an approval, the first of a rejection.
RemoveFromQueue(j) ==
    /\ At("unlist", j)
    /\ \E outcome \in Outcomes("request", WriteFaults \union {"misread"}) :
        /\ Count(outcome)
        /\ listed' = IF Applied(outcome) THEN QueueRead(outcome) \ {j.invoice} ELSE listed
        /\ \/ ~Succeeds(outcome) /\ Finish(j, "error")
           \/ Succeeds(outcome) /\ j.op = "reject" /\ Continue("store")
           \/ Succeeds(outcome) /\ j.op = "approve" /\ Finish(j, "approve")
    /\ UNCHANGED <<topic, evaluation, escalation, recorded, queued, paused>>

\* Mutant of NewStatus: stores the name of the action.
NewStatusMisnamed(op) == op

NewStatus(op) ==
    CASE op = "reject"       -> "rejected"
      [] op = "request_info" -> "info_requested"
      [] OTHER               -> "pending"

\* The record goes back with its new status.
Store(j) ==
    /\ At("store", j)
    /\ \E outcome \in Outcomes("request", WriteFaults) :
        /\ Count(outcome)
        /\ escalation' = IF Applied(outcome)
                         THEN [escalation EXCEPT ![j.invoice] = NewStatus(j.op)] ELSE escalation
        /\ Finish(j, IF Succeeds(outcome) THEN j.op ELSE "error")
    /\ UNCHANGED <<topic, evaluation, listed, recorded, queued, paused>>

-----------------------------------------------------------------------------
\* The container dies and is restarted; whoever waited for a decision gets
\* an error from the gateway.
Crash ==
    /\ "crash" \in Outcomes("process", {"crash"})
    /\ Count("crash")
    /\ paused' = [i \in Invoices |-> 0]
    /\ told' = [i \in Invoices |->
                   IF \E j \in current : j.invoice = i /\ j.op \in Decisions
                   THEN "error" ELSE told[i]]
    /\ pc' = "idle"
    /\ current' = {}
    /\ UNCHANGED <<topic, store>>

Work(j) ==
    \/ StoreEvaluation(j) \/ SaveEscalation(j) \/ AddToQueue(j) \/ Answer(j)
    \/ Transact(j) \/ Enqueue(j) \/ RemoveFromQueue(j) \/ Store(j)

Next ==
    \/ \E i \in Invoices : Deliver(i) \/ Resume(i)
    \/ \E j \in Requests : Ask(j)
    \/ \E j \in Jobs : Work(j)
    \/ Crash

\* A call under way is answered or times out.  asyncio serves what is ready in
\* the order it became so: requests cannot keep a delivery or a paused handler
\* waiting for ever, however many there are.  Nobody has to decide anything.
Fairness ==
    /\ WF_vars(\E j \in Jobs : Work(j))
    /\ \A i \in Invoices : SF_vars(Deliver(i)) /\ SF_vars(Resume(i))

Spec == Init /\ [][Next]_vars /\ Fairness

-----------------------------------------------------------------------------
(* Properties.                                                             *)

TypeOK ==
    /\ submission \in [Invoices -> {"waiting", "acknowledged"}]
    /\ deliveries \in [Invoices -> Nat]
    /\ evaluation \in [Invoices -> {"none", "approve", "review"}]
    /\ escalation \in [Invoices -> {"none"} \union Open \union Resolved]
    /\ listed \subseteq Invoices
    /\ recorded \in [Invoices -> Nat]
    /\ queued \in [Invoices -> Nat]
    /\ told \in [Invoices -> {"none", "refused", "error"} \union Decisions]
    /\ paused \in [Invoices -> Nat]
    /\ pc \in PCs
    /\ current \subseteq Jobs
    /\ faults \in 0 .. MaxFaults

\* A decision stands: no approver's or submitter's request changes an item
\* that is approved or rejected, only a submission that is delivered again
\* (main.py:164 does not look whether there is a record already).
DecisionsStand ==
    [][\A i \in Invoices :
        escalation[i] \in Resolved /\ escalation'[i] # escalation[i] =>
            At("escalate", [op |-> "submission", invoice |-> i])]_vars

\* However often approvals are repeated after a failure, they record no more
\* payment events than there were deliveries of the submission: each leads
\* to one approval, the agent's or an approver's.
OneEventPerDelivery == \A i \in Invoices : recorded[i] <= deliveries[i]

\* What an approver is told has happened: an approved item has an event that
\* the dispatcher will find, the record says what was decided, or has been
\* escalated since, and a resolved item is off the list.
AnswersAreTrue ==
    \A i \in Invoices :
        /\ told[i] = "approve" =>
              queued[i] > 0 /\ escalation[i] \in {"approved", "pending"}
        /\ told[i] = "reject" => escalation[i] \in {"rejected", "pending"}
        /\ told[i] = "request_info" => escalation[i] \in Open
        /\ told[i] \in {"approve", "reject"} /\ escalation[i] \in Resolved => i \notin listed

\* Every submission is paid for or reaches the approvers' list, although its
\* handler may raise or die at every call: redelivery does it over.  True as
\* long as the store reports no failure that main.py:148 and :172 swallow.
SubmissionIsTakenUp ==
    \A i \in Invoices : <>(queued[i] > 0 \/ i \in listed)

Lifecycle == INSTANCE Review WITH item <- escalation, payments <- recorded

\* The agent moves items only along the life cycle.
ImplementsReview == Lifecycle!Spec
=============================================================================
