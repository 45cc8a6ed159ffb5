-------------------------- MODULE EscalationProofs --------------------------
(* Proofs about escalations, for every set of invoices, set of faults and  *)
(* bound on them.                                                          *)
EXTENDS Escalation, TLAPS

-----------------------------------------------------------------------------
(* Types.                                                                  *)

\* A handler is at work exactly when it has a job, and only one is.
HandOK ==
    /\ pc = "idle" <=> current = {}
    /\ \A j, k \in current : j = k

\* Each call belongs to the jobs that make it.
LabelOK ==
    \A j \in current :
        /\ pc \in {"evaluate", "escalate", "list", "answer"} => j.op = "submission"
        /\ pc \in {"transact", "enqueue"} => j.op \in {"submission", "approve"}
        /\ pc = "unlist" => j.op \in {"approve", "reject"}
        /\ pc = "store" => j.op \in {"reject", "request_info", "info"}

TypeInv == TypeOK /\ HandOK /\ LabelOK

\* What is left of TypeInv when the durable part is known to be well typed.
WorkTyped ==
    /\ told \in [Invoices -> {"none", "refused", "error"} \union Decisions]
    /\ pc \in PCs
    /\ current \subseteq Jobs
    /\ HandOK
    /\ LabelOK

\* Nothing has happened yet.
LEMMA TypeInvInit == Init => TypeInv
BY EscalationAssumption DEF Init, TypeInv, TypeOK, HandOK, LabelOK, PCs, Open, Resolved

\* A job has an operation and an invoice.
LEMMA JobFacts ==
    ASSUME NEW j \in Jobs
    PROVE  /\ j.op \in Decisions \union {"submission", "info"}
           /\ j.invoice \in Invoices
BY DEF Jobs

\* The job of a submission.
LEMMA SubmissionFacts ==
    ASSUME NEW i \in Invoices
    PROVE  /\ [op |-> "submission", invoice |-> i] \in Jobs
           /\ [op |-> "submission", invoice |-> i].op = "submission"
           /\ [op |-> "submission", invoice |-> i].invoice = i
BY DEF Jobs

\* A fault is counted only while the bound allows one.
LEMMA CountTyped ==
    ASSUME faults \in 0 .. MaxFaults, NEW side, NEW kinds,
           NEW outcome \in Outcomes(side, kinds), Count(outcome)
    PROVE  faults' \in 0 .. MaxFaults
BY EscalationAssumption DEF Outcomes, Count

\* The answer to a decision is one of those TypeOK names.
LEMMA TellTyped ==
    ASSUME TypeInv, NEW j \in Jobs,
           NEW answer \in {"none", "refused", "error"} \union Decisions, Tell(j, answer)
    PROVE  told' \in [Invoices -> {"none", "refused", "error"} \union Decisions]
BY JobFacts DEF Tell, TypeInv, TypeOK

\* A handler that ends leaves nothing behind but an answer.
LEMMA FinishTyped ==
    ASSUME TypeInv, NEW j \in Jobs,
           NEW answer \in {"none", "refused", "error"} \union Decisions, Finish(j, answer)
    PROVE  WorkTyped'
BY TellTyped DEF Finish, WorkTyped, HandOK, LabelOK, PCs

\* A handler that goes on keeps its job.
LEMMA ContinueTyped ==
    ASSUME TypeInv, NEW j \in current, NEW label \in PCs \ {"idle"}, Continue(label),
           /\ label \in {"evaluate", "escalate", "list", "answer"} => j.op = "submission"
           /\ label \in {"transact", "enqueue"} => j.op \in {"submission", "approve"}
           /\ label = "unlist" => j.op \in {"approve", "reject"}
           /\ label = "store" => j.op \in {"reject", "request_info", "info"}
    PROVE  WorkTyped'
<1>1. current = {j}
  BY DEF TypeInv, HandOK
<1> QED
  BY <1>1 DEF Continue, WorkTyped, TypeInv, TypeOK, HandOK, LabelOK

\* After a failure the handler answers or ends.
LEMMA FailureTyped ==
    ASSUME TypeInv, NEW j \in Jobs, j \in current, NEW outcome, AfterFailure(j, outcome)
    PROVE  WorkTyped'
<1>1. CASE j.op = "submission" /\ ~Raises(outcome)
  BY <1>1, ContinueTyped DEF AfterFailure, PCs
<1>2. CASE ~(j.op = "submission" /\ ~Raises(outcome))
  BY <1>2, FinishTyped DEF AfterFailure
<1> QED
  BY <1>1, <1>2

\* A handler that starts has the one job.
LEMMA StartTyped ==
    ASSUME TypeInv, NEW j \in Jobs, NEW label \in PCs \ {"idle"}, Start(label, j),
           told' \in [Invoices -> {"none", "refused", "error"} \union Decisions],
           /\ label \in {"evaluate", "escalate", "list", "answer"} => j.op = "submission"
           /\ label \in {"transact", "enqueue"} => j.op \in {"submission", "approve"}
           /\ label = "unlist" => j.op \in {"approve", "reject"}
           /\ label = "store" => j.op \in {"reject", "request_info", "info"}
    PROVE  WorkTyped'
BY DEF Start, WorkTyped, HandOK, LabelOK

\* Counting one more keeps a counter a counter.
LEMMA IncrementTyped ==
    ASSUME NEW f \in [Invoices -> Nat], NEW i \in Invoices
    PROVE  /\ Increment(f, i) \in [Invoices -> Nat]
           /\ Increment(f, i)[i] = f[i] + 1
           /\ \A k \in Invoices \ {i} : Increment(f, i)[k] = f[k]
BY DEF Increment

\* A delivery preserves the types.
LEMMA DeliverTyped ==
    ASSUME TypeInv, NEW i \in Invoices, Deliver(i)
    PROVE  TypeInv'
<1> DEFINE j == [op |-> "submission", invoice |-> i]
<1>1. faults' \in 0 .. MaxFaults
  BY CountTyped DEF Deliver, TypeInv, TypeOK
<1>2. deliveries' \in [Invoices -> Nat]
  BY IncrementTyped DEF Deliver, TypeInv, TypeOK
<1>3. j \in Jobs /\ j.op = "submission" /\ (Start("transact", j) \/ Start("evaluate", j))
  BY SubmissionFacts DEF Deliver
<1>4. told' \in [Invoices -> {"none", "refused", "error"} \union Decisions]
  BY DEF Deliver, TypeInv, TypeOK
<1> HIDE DEF j
<1>5. WorkTyped'
  BY <1>3, <1>4, StartTyped DEF PCs
<1> QED
  BY <1>1, <1>2, <1>5 DEF Deliver, store, WorkTyped, TypeInv, TypeOK

\* So does storing an evaluation.
LEMMA StoreEvaluationTyped ==
    ASSUME TypeInv, NEW j \in Jobs, StoreEvaluation(j)
    PROVE  TypeInv'
<1>1. faults' \in 0 .. MaxFaults
  BY CountTyped DEF StoreEvaluation, TypeInv, TypeOK
<1>2. paused' \in [Invoices -> Nat]
  BY JobFacts, IncrementTyped DEF StoreEvaluation, TypeInv, TypeOK
<1>3. evaluation' \in [Invoices -> {"none", "approve", "review"}]
  BY JobFacts DEF StoreEvaluation, TypeInv, TypeOK
<1> QED
  BY <1>1, <1>2, <1>3 DEF StoreEvaluation, topic, TypeInv, TypeOK, HandOK, LabelOK, PCs

\* So does going on after it.
LEMMA ResumeTyped ==
    ASSUME TypeInv, NEW i \in Invoices, Resume(i)
    PROVE  TypeInv'
<1> DEFINE j == [op |-> "submission", invoice |-> i]
<1>1. paused' \in [Invoices -> Nat]
  BY DEF Resume, TypeInv, TypeOK
<1>2. j \in Jobs /\ j.op = "submission" /\ Start("escalate", j)
  BY SubmissionFacts DEF Resume
<1>3. told' \in [Invoices -> {"none", "refused", "error"} \union Decisions]
  BY DEF Resume, TypeInv, TypeOK
<1> HIDE DEF j
<1>4. WorkTyped'
  BY <1>2, <1>3, StartTyped DEF PCs
<1> QED
  BY <1>1, <1>4 DEF Resume, topic, store, WorkTyped, TypeInv, TypeOK

\* So do the two calls of save_escalation.
LEMMA SaveEscalationTyped ==
    ASSUME TypeInv, NEW j \in Jobs, SaveEscalation(j)
    PROVE  TypeInv'
<1>1. PICK outcome \in Outcomes(Side(j), WriteFaults) :
        /\ Count(outcome)
        /\ escalation' = escalation \/ escalation' = [escalation EXCEPT ![j.invoice] = "pending"]
        /\ Continue("list") \/ AfterFailure(j, outcome)
  BY DEF SaveEscalation
<1>2. j \in current /\ j.op = "submission"
  BY DEF SaveEscalation, At, TypeInv, LabelOK
<1>3. faults' \in 0 .. MaxFaults
  BY <1>1, CountTyped DEF TypeInv, TypeOK
<1>4. escalation' \in [Invoices -> {"none"} \union Open \union Resolved]
  BY <1>1, JobFacts DEF TypeInv, TypeOK, Open
<1>5. WorkTyped'
  BY <1>1, <1>2, FailureTyped, ContinueTyped DEF PCs
<1> QED
  BY <1>3, <1>4, <1>5 DEF SaveEscalation, topic, WorkTyped, TypeInv, TypeOK

\* AddToQueue preserves the types.
LEMMA AddToQueueTyped ==
    ASSUME TypeInv, NEW j \in Jobs, AddToQueue(j)
    PROVE  TypeInv'
<1>1. PICK outcome \in Outcomes(Side(j), WriteFaults \union {"misread"}) :
        /\ Count(outcome)
        /\ listed' \subseteq listed \union {j.invoice}
        /\ Continue("answer") \/ AfterFailure(j, outcome)
  BY DEF AddToQueue, QueueRead
<1>2. j \in current /\ j.op = "submission"
  BY DEF AddToQueue, At, TypeInv, LabelOK
<1>3. faults' \in 0 .. MaxFaults
  BY <1>1, CountTyped DEF TypeInv, TypeOK
<1>4. listed' \subseteq Invoices
  BY <1>1, JobFacts DEF TypeInv, TypeOK
<1>5. WorkTyped'
  BY <1>1, <1>2, FailureTyped, ContinueTyped DEF PCs
<1> QED
  BY <1>3, <1>4, <1>5 DEF AddToQueue, topic, WorkTyped, TypeInv, TypeOK

\* So does the answer to the sidecar.
LEMMA AnswerTyped ==
    ASSUME TypeInv, NEW j \in Jobs, Answer(j)
    PROVE  TypeInv'
<1>1. faults' \in 0 .. MaxFaults
  BY CountTyped DEF Answer, TypeInv, TypeOK
<1>2. submission' \in [Invoices -> {"waiting", "acknowledged"}]
  BY JobFacts DEF Answer, TypeInv, TypeOK
<1>3. WorkTyped'
  BY FinishTyped DEF Answer
<1> QED
  BY <1>1, <1>2, <1>3 DEF Answer, store, WorkTyped, TypeInv, TypeOK

\* So do the two calls of enqueue_with_state.
LEMMA TransactTyped ==
    ASSUME TypeInv, NEW j \in Jobs, Transact(j)
    PROVE  TypeInv'
<1>1. PICK outcome \in Outcomes(Side(j), WriteFaults) :
        /\ Count(outcome)
        /\ IF Applied(outcome)
           THEN /\ recorded' = Increment(recorded, j.invoice)
                /\ escalation' = Approved(j)
                /\ evaluation' = IF j.op = "submission"
                                 THEN [evaluation EXCEPT ![j.invoice] = "approve"]
                                 ELSE evaluation
           ELSE UNCHANGED <<recorded, escalation, evaluation>>
        /\ Continue("enqueue") \/ AfterFailure(j, outcome)
  BY DEF Transact
<1>2. j \in current /\ j.op \in {"submission", "approve"}
  BY DEF Transact, At, TypeInv, LabelOK
<1>3. faults' \in 0 .. MaxFaults
  BY <1>1, CountTyped DEF TypeInv, TypeOK
<1>4. recorded' \in [Invoices -> Nat]
  BY <1>1, JobFacts, IncrementTyped DEF TypeInv, TypeOK
<1>5. escalation' \in [Invoices -> {"none"} \union Open \union Resolved]
  BY <1>1, JobFacts DEF Approved, TypeInv, TypeOK, Resolved
<1>6. evaluation' \in [Invoices -> {"none", "approve", "review"}]
  BY <1>1, JobFacts DEF TypeInv, TypeOK
<1>7. WorkTyped'
  BY <1>1, <1>2, FailureTyped, ContinueTyped DEF PCs
<1> QED
  BY <1>3, <1>4, <1>5, <1>6, <1>7 DEF Transact, topic, WorkTyped, TypeInv, TypeOK

\* Enqueue preserves the types.
LEMMA EnqueueTyped ==
    ASSUME TypeInv, NEW j \in Jobs, Enqueue(j)
    PROVE  TypeInv'
<1>1. PICK outcome \in Outcomes(Side(j), WriteFaults) :
        /\ Count(outcome)
        /\ queued' = queued \/ queued' = Increment(queued, j.invoice)
        /\ \/ j.op = "approve" /\ Continue("unlist")
           \/ j.op # "approve" /\ Continue("answer")
           \/ AfterFailure(j, outcome)
  BY DEF Enqueue
<1>2. j \in current /\ j.op \in {"submission", "approve"}
  BY DEF Enqueue, At, TypeInv, LabelOK
<1>3. faults' \in 0 .. MaxFaults
  BY <1>1, CountTyped DEF TypeInv, TypeOK
<1>4. queued' \in [Invoices -> Nat]
  BY <1>1, JobFacts, IncrementTyped DEF TypeInv, TypeOK
<1>5. WorkTyped'
  BY <1>1, <1>2, FailureTyped, ContinueTyped DEF PCs
<1> QED
  BY <1>3, <1>4, <1>5 DEF Enqueue, topic, WorkTyped, TypeInv, TypeOK

\* So does the arrival of a request.
LEMMA AskTyped ==
    ASSUME TypeInv, NEW j \in Requests, Ask(j)
    PROVE  TypeInv'
<1>1. PICK outcome \in Outcomes("request", ReadFaults) :
        /\ Count(outcome)
        /\ \/ Start(FirstCall(j.op), j) /\ Tell(j, "none")
           \/ Finish(j, "error")
           \/ Finish(j, "refused")
  BY DEF Ask
<1>2. j \in Jobs /\ j.op \in Decisions \union {"info"}
  BY JobFacts DEF Requests
<1>3. faults' \in 0 .. MaxFaults
  BY <1>1, CountTyped DEF TypeInv, TypeOK
<1>4. WorkTyped'
  <2>1. CASE Start(FirstCall(j.op), j) /\ Tell(j, "none")
    <3>1. told' \in [Invoices -> {"none", "refused", "error"} \union Decisions]
      BY <1>2, <2>1, TellTyped
    <3>2. /\ FirstCall(j.op) \in {"transact", "unlist", "store"}
          /\ FirstCall(j.op) = "transact" => j.op = "approve"
          /\ FirstCall(j.op) = "unlist" => j.op = "reject"
          /\ FirstCall(j.op) = "store" => j.op \in {"request_info", "info"}
      BY <1>2 DEF FirstCall, Decisions
    <3> QED
      BY <1>2, <2>1, <3>1, <3>2, StartTyped DEF PCs
  <2>2. CASE Finish(j, "error") \/ Finish(j, "refused")
    BY <1>2, <2>2, FinishTyped
  <2> QED
    BY <1>1, <2>1, <2>2
<1> QED
  BY <1>3, <1>4 DEF Ask, topic, store, WorkTyped, TypeInv, TypeOK

\* So do the calls of a decision.
LEMMA RemoveFromQueueTyped ==
    ASSUME TypeInv, NEW j \in Jobs, RemoveFromQueue(j)
    PROVE  TypeInv'
<1>1. PICK outcome \in Outcomes("request", WriteFaults \union {"misread"}) :
        /\ Count(outcome)
        /\ listed' \subseteq listed
        /\ \/ Finish(j, "error")
           \/ j.op = "reject" /\ Continue("store")
           \/ Finish(j, "approve")
  BY DEF RemoveFromQueue, QueueRead
<1>2. j \in current
  BY DEF RemoveFromQueue, At
<1>3. faults' \in 0 .. MaxFaults
  BY <1>1, CountTyped DEF TypeInv, TypeOK
<1>4. listed' \subseteq Invoices
  BY <1>1 DEF TypeInv, TypeOK
<1>5. WorkTyped'
  BY <1>1, <1>2, FinishTyped, ContinueTyped DEF PCs, Decisions
<1> QED
  BY <1>3, <1>4, <1>5 DEF RemoveFromQueue, topic, WorkTyped, TypeInv, TypeOK

\* Store preserves the types.
LEMMA StoreTyped ==
    ASSUME TypeInv, NEW j \in Jobs, Store(j)
    PROVE  TypeInv'
<1>1. PICK outcome \in Outcomes("request", WriteFaults) :
        /\ Count(outcome)
        /\ \/ escalation' = escalation
           \/ escalation' = [escalation EXCEPT ![j.invoice] = NewStatus(j.op)]
        /\ Finish(j, "error") \/ Finish(j, j.op)
  BY DEF Store
<1>2. faults' \in 0 .. MaxFaults
  BY <1>1, CountTyped DEF TypeInv, TypeOK
<1>3. NewStatus(j.op) \in Open \union Resolved
  BY DEF NewStatus, Open, Resolved
<1>4. escalation' \in [Invoices -> {"none"} \union Open \union Resolved]
  BY <1>1, <1>3, JobFacts DEF TypeInv, TypeOK
<1>5. WorkTyped'
  <2>1. CASE Finish(j, "error")
    BY <2>1, FinishTyped
  <2>2. CASE Finish(j, j.op) /\ j.op \in Decisions
    BY <2>2, FinishTyped
  <2>3. CASE Finish(j, j.op) /\ j.op \notin Decisions
    BY <2>3 DEF Finish, Tell, WorkTyped, HandOK, LabelOK, PCs, TypeInv, TypeOK
  <2> QED
    BY <1>1, <2>1, <2>2, <2>3
<1> QED
  BY <1>2, <1>4, <1>5 DEF Store, topic, WorkTyped, TypeInv, TypeOK

\* So does a crash.
LEMMA CrashTyped ==
    ASSUME TypeInv, Crash
    PROVE  TypeInv'
<1>1. faults' \in 0 .. MaxFaults
  BY CountTyped DEF Crash, TypeInv, TypeOK
<1>2. told' \in [Invoices -> {"none", "refused", "error"} \union Decisions]
  BY DEF Crash, TypeInv, TypeOK
<1> QED
  BY <1>1, <1>2 DEF Crash, topic, store, TypeInv, TypeOK, HandOK, LabelOK, PCs

\* Every step preserves the types.
LEMMA TypeInvNext == TypeInv /\ [Next]_vars => TypeInv'
<1> SUFFICES ASSUME TypeInv, [Next]_vars PROVE TypeInv'
  OBVIOUS
<1>1. CASE UNCHANGED vars
  BY <1>1 DEF vars, topic, store, loop, TypeInv, TypeOK, HandOK, LabelOK
<1>2. ASSUME NEW i \in Invoices, Deliver(i) \/ Resume(i) PROVE TypeInv'
  BY <1>2, DeliverTyped, ResumeTyped
<1>3. ASSUME NEW j \in Requests, Ask(j) PROVE TypeInv'
  BY <1>3, AskTyped
<1>4. ASSUME NEW j \in Jobs, Work(j) PROVE TypeInv'
  BY <1>4, StoreEvaluationTyped, SaveEscalationTyped, AddToQueueTyped, AnswerTyped,
     TransactTyped, EnqueueTyped, RemoveFromQueueTyped, StoreTyped DEF Work
<1>5. CASE Crash
  BY <1>5, CrashTyped
<1> QED
  BY <1>1, <1>2, <1>3, <1>4, <1>5 DEF Next

\* TypeInv holds in every reachable state.
LEMMA TypeInvAlways == Spec => []TypeInv
BY TypeInvInit, TypeInvNext, PTL DEF Spec

\* The state of the agent and of its store is always well formed.
THEOREM EscalationTypeCorrect == Spec => []TypeOK
BY TypeInvAlways, PTL DEF TypeInv
-----------------------------------------------------------------------------
(* What the handler at work knows, and what callers were told.             *)

\* The status a handler has read, or written, is still there at its next
\* call: nothing else runs in between.
InHandOK ==
    \A j \in current :
        LET i == j.invoice
        IN  /\ j.op \in Decisions => told[i] = "none"
            /\ pc = "list" => escalation[i] = "pending"
            /\ j.op = "approve" =>
                  /\ pc = "transact" => escalation[i] \in Open
                  /\ pc = "enqueue"  => escalation[i] = "approved"
                  /\ pc = "unlist"   => escalation[i] = "approved" /\ queued[i] > 0
            /\ j.op # "approve" /\ pc \in {"unlist", "store"} => escalation[i] \in Open
            /\ j.op = "info"   /\ pc = "store" => escalation[i] = "info_requested"
            /\ j.op = "reject" /\ pc = "store" => i \notin listed

WorkInv == TypeInv /\ InHandOK /\ AnswersAreTrue

\* The part of WorkInv that is left to prove once TypeInv' is known.
WorkOK == InHandOK /\ AnswersAreTrue

\* WorkInv holds when nothing has happened yet.
LEMMA WorkInvInit == Init => WorkInv
BY TypeInvInit DEF Init, WorkInv, InHandOK, AnswersAreTrue, Decisions

\* The handler at work has the only job.
LEMMA OnlyJob ==
    ASSUME TypeInv, NEW j \in current
    PROVE  current = {j} /\ j \in Jobs /\ j.invoice \in Invoices
BY JobFacts DEF TypeInv, TypeOK, HandOK

\* The job of a submission claims nothing but what it has just written.
LEMMA SubmissionInHand ==
    ASSUME NEW j \in Jobs, j.op = "submission", current' = {j},
           pc' = "list" => escalation'[j.invoice] = "pending",
           pc' \notin {"unlist", "store"}
    PROVE  InHandOK'
BY DEF InHandOK, Decisions

\* No job claims nothing.
LEMMA NothingInHand ==
    ASSUME current' = {}
    PROVE  InHandOK'
BY DEF InHandOK

\* Deliveries, resumed handlers and stored evaluations touch no escalation.
LEMMA RoutingWork ==
    ASSUME WorkInv, NEW i \in Invoices, NEW j \in Jobs,
           Deliver(i) \/ Resume(i) \/ StoreEvaluation(j) \/ Answer(j)
    PROVE  WorkOK'
<1>1. CASE Deliver(i) \/ Resume(i)
  <2> DEFINE k == [op |-> "submission", invoice |-> i]
  <2>1. k \in Jobs /\ k.op = "submission"
    BY SubmissionFacts
  <2>2. current' = {k} /\ pc' \in {"transact", "evaluate", "escalate"}
    BY <1>1 DEF Deliver, Resume, Start
  <2> HIDE DEF k
  <2>3. InHandOK'
    BY <2>1, <2>2, SubmissionInHand
  <2>4. AnswersAreTrue'
    BY <1>1 DEF Deliver, Resume, store, WorkInv, AnswersAreTrue
  <2> QED
    BY <2>3, <2>4 DEF WorkOK
<1>2. CASE StoreEvaluation(j)
  BY <1>2, NothingInHand DEF StoreEvaluation, WorkInv, WorkOK, AnswersAreTrue
<1>3. CASE Answer(j)
  <2>1. j.op = "submission"
    BY <1>3 DEF Answer, At, WorkInv, TypeInv, LabelOK
  <2>2. told' = told /\ current' = {}
    BY <1>3, <2>1 DEF Answer, Finish, Tell, Decisions
  <2> QED
    BY <1>3, <2>2, NothingInHand DEF Answer, store, WorkInv, WorkOK, AnswersAreTrue
<1> QED
  BY <1>1, <1>2, <1>3

\* After a failure a submission has changed no answer, and a request has been
\* answered with an error.
LEMMA FailureFacts ==
    ASSUME TypeInv, NEW j \in current, NEW outcome, AfterFailure(j, outcome)
    PROVE  /\ \/ current' = {} /\ pc' = "idle"
              \/ j.op = "submission" /\ current' = {j} /\ pc' = "answer"
           /\ \/ j.op \notin Decisions /\ told' = told
              \/ j.op \in Decisions /\ told' = [told EXCEPT ![j.invoice] = "error"]
BY OnlyJob DEF AfterFailure, Continue, Finish, Tell, Decisions

\* Escalating makes an item pending, which contradicts no answer.
LEMMA SaveEscalationWork ==
    ASSUME WorkInv, NEW j \in Jobs, SaveEscalation(j)
    PROVE  WorkOK'
<1>1. PICK outcome \in Outcomes(Side(j), WriteFaults) :
        /\ escalation' = IF Applied(outcome)
                         THEN [escalation EXCEPT ![j.invoice] = "pending"] ELSE escalation
        /\ IF Succeeds(outcome) THEN Continue("list") ELSE AfterFailure(j, outcome)
  BY DEF SaveEscalation
<1>2. j \in current /\ j.op = "submission" /\ current = {j} /\ j.invoice \in Invoices
  BY OnlyJob DEF SaveEscalation, At, WorkInv, TypeInv, LabelOK
<1>3. told' = told
  BY <1>1, <1>2, FailureFacts DEF Continue, WorkInv, Decisions
<1>4. UNCHANGED <<listed, queued>> /\ escalation \in [Invoices -> {"none"} \union Open \union Resolved]
  BY DEF SaveEscalation, WorkInv, TypeInv, TypeOK
<1>5. AnswersAreTrue'
  BY <1>1, <1>2, <1>3, <1>4 DEF WorkInv, AnswersAreTrue, Open, Resolved
<1>6. InHandOK'
  <2>1. CASE Succeeds(outcome)
    <3>1. escalation'[j.invoice] = "pending"
      BY <1>1, <1>2, <1>4, <2>1 DEF Applied, Succeeds
    <3> QED
      BY <1>1, <1>2, <2>1, <3>1, SubmissionInHand DEF Continue
  <2>2. CASE ~Succeeds(outcome)
    BY <1>1, <1>2, <2>2, FailureFacts, SubmissionInHand, NothingInHand DEF WorkInv
  <2> QED
    BY <2>1, <2>2
<1> QED
  BY <1>5, <1>6 DEF WorkOK

\* Only a pending item is put on the list.
LEMMA AddToQueueWork ==
    ASSUME WorkInv, NEW j \in Jobs, AddToQueue(j)
    PROVE  WorkOK'
<1>1. PICK outcome \in Outcomes(Side(j), WriteFaults \union {"misread"}) :
        /\ listed' \subseteq listed \union {j.invoice}
        /\ IF Succeeds(outcome) THEN Continue("answer") ELSE AfterFailure(j, outcome)
  BY DEF AddToQueue, QueueRead
<1>2. /\ j \in current /\ j.op = "submission" /\ current = {j} /\ j.invoice \in Invoices
      /\ escalation[j.invoice] = "pending"
  BY OnlyJob DEF AddToQueue, At, WorkInv, TypeInv, LabelOK, InHandOK
<1>3. told' = told /\ UNCHANGED <<escalation, queued>>
  BY <1>1, <1>2, FailureFacts DEF AddToQueue, Continue, WorkInv, Decisions
<1>4. AnswersAreTrue'
  BY <1>1, <1>2, <1>3 DEF WorkInv, AnswersAreTrue, Resolved
<1>5. InHandOK'
  BY <1>1, <1>2, FailureFacts, SubmissionInHand, NothingInHand DEF Continue, WorkInv
<1> QED
  BY <1>4, <1>5 DEF WorkOK

\* An approval changes the status of an item whose last answer is withdrawn.
LEMMA TransactWork ==
    ASSUME WorkInv, NEW j \in Jobs, Transact(j)
    PROVE  WorkOK'
<1>1. PICK outcome \in Outcomes(Side(j), WriteFaults) :
        /\ IF Applied(outcome) THEN escalation' = Approved(j) ELSE escalation' = escalation
        /\ IF Succeeds(outcome) THEN Continue("enqueue") ELSE AfterFailure(j, outcome)
  BY DEF Transact
<1>2. j \in current /\ current = {j} /\ j.invoice \in Invoices
  BY OnlyJob DEF Transact, At, WorkInv
<1>3. /\ j.op \in {"submission", "approve"}
      /\ j.op = "approve" => told[j.invoice] = "none"
  BY <1>2 DEF Transact, At, WorkInv, TypeInv, LabelOK, InHandOK, Decisions
<1>4. /\ UNCHANGED <<listed, queued>>
      /\ escalation \in [Invoices -> {"none"} \union Open \union Resolved]
      /\ told \in [Invoices -> {"none", "refused", "error"} \union Decisions]
  BY DEF Transact, WorkInv, TypeInv, TypeOK
<1>5. \/ j.op = "submission" /\ told' = told
      \/ j.op = "approve" /\ told' = told
      \/ j.op = "approve" /\ told' = [told EXCEPT ![j.invoice] = "error"]
  BY <1>1, <1>2, <1>3, FailureFacts DEF Continue, WorkInv, Decisions
<1>6. \A i \in Invoices \ {j.invoice} : escalation'[i] = escalation[i] /\ told'[i] = told[i]
  BY <1>1, <1>2, <1>4, <1>5 DEF Approved
<1>7. \/ escalation' = escalation /\ told' = told
      \/ told'[j.invoice] \in {"none", "error"}
  BY <1>1, <1>2, <1>3, <1>4, <1>5 DEF Approved
<1>8. AnswersAreTrue'
  BY <1>4, <1>6, <1>7 DEF WorkInv, AnswersAreTrue
<1>9. InHandOK'
  <2>1. CASE Succeeds(outcome)
    <3>1. current' = {j} /\ pc' = "enqueue" /\ told' = told
      BY <1>1, <1>2, <2>1 DEF Continue
    <3>2. j.op = "approve" => escalation'[j.invoice] = "approved"
      BY <1>1, <1>2, <1>4, <2>1 DEF Applied, Succeeds, Approved
    <3> QED
      BY <1>3, <3>1, <3>2 DEF InHandOK, Decisions
  <2>2. CASE ~Succeeds(outcome)
    BY <1>1, <1>2, <2>2, FailureFacts, SubmissionInHand, NothingInHand DEF WorkInv
  <2> QED
    BY <2>1, <2>2
<1> QED
  BY <1>8, <1>9 DEF WorkOK

\* Putting the event on the outbox queue.
LEMMA EnqueueWork ==
    ASSUME WorkInv, NEW j \in Jobs, Enqueue(j)
    PROVE  WorkOK'
<1>1. PICK outcome \in Outcomes(Side(j), WriteFaults) :
        /\ queued' = IF Applied(outcome) THEN Increment(queued, j.invoice) ELSE queued
        /\ IF Succeeds(outcome)
           THEN Continue(IF j.op = "approve" THEN "unlist" ELSE "answer")
           ELSE AfterFailure(j, outcome)
  BY DEF Enqueue
<1>2. j \in current /\ current = {j} /\ j.invoice \in Invoices
  BY OnlyJob DEF Enqueue, At, WorkInv
<1>3. /\ j.op \in {"submission", "approve"}
      /\ j.op = "approve" => told[j.invoice] = "none" /\ escalation[j.invoice] = "approved"
  BY <1>2 DEF Enqueue, At, WorkInv, TypeInv, LabelOK, InHandOK, Decisions
<1>4. /\ UNCHANGED <<listed, escalation>>
      /\ queued \in [Invoices -> Nat]
      /\ told \in [Invoices -> {"none", "refused", "error"} \union Decisions]
  BY DEF Enqueue, WorkInv, TypeInv, TypeOK
<1>5. told' = told \/ told' = [told EXCEPT ![j.invoice] = "error"]
  BY <1>1, <1>2, <1>3, FailureFacts DEF Continue, WorkInv, Decisions
<1>6. \A i \in Invoices : queued'[i] >= queued[i]
  BY <1>1, <1>2, <1>4, IncrementTyped
<1>7. \A i \in Invoices : told'[i] \in Decisions => told'[i] = told[i]
  BY <1>2, <1>4, <1>5 DEF Decisions
<1>8. AnswersAreTrue'
  <2>1. \A i \in Invoices : queued[i] > 0 => queued'[i] > 0
    <3>1. \A i \in Invoices : queued'[i] \in Nat
      BY <1>1, <1>2, <1>4, IncrementTyped
    <3> QED
      BY <1>4, <1>6, <3>1
  <2> QED
    BY <1>4, <1>7, <2>1 DEF WorkInv, AnswersAreTrue, Decisions
<1>9. InHandOK'
  <2>1. CASE Succeeds(outcome) /\ j.op = "approve"
    <3>1. current' = {j} /\ pc' = "unlist" /\ told' = told
      BY <1>1, <1>2, <2>1 DEF Continue
    <3>2. queued'[j.invoice] > 0
      BY <1>1, <1>2, <1>4, <2>1, IncrementTyped DEF Applied, Succeeds
    <3> QED
      BY <1>3, <1>4, <2>1, <3>1, <3>2 DEF InHandOK, Decisions
  <2>2. CASE Succeeds(outcome) /\ j.op # "approve"
    BY <1>1, <1>2, <1>3, <2>2, SubmissionInHand DEF Continue
  <2>3. CASE ~Succeeds(outcome)
    BY <1>1, <1>2, <2>3, FailureFacts, SubmissionInHand, NothingInHand DEF WorkInv
  <2> QED
    BY <2>1, <2>2, <2>3
<1> QED
  BY <1>8, <1>9 DEF WorkOK

\* A request withdraws the last answer, or is answered at once.
LEMMA AskWork ==
    ASSUME WorkInv, NEW j \in Requests, Ask(j)
    PROVE  WorkOK'
<1>1. PICK outcome \in Outcomes("request", ReadFaults) :
        LET status == IF outcome = "misread" THEN "none" ELSE escalation[j.invoice]
        IN  \/ /\ Acceptable(j.op, status)
               /\ Start(FirstCall(j.op), j)
               /\ Tell(j, "none")
            \/ Finish(j, "error")
            \/ Finish(j, "refused")
  BY DEF Ask
<1>2. j \in Jobs /\ j.invoice \in Invoices /\ j.op \in Decisions \union {"info"}
  BY JobFacts DEF Requests
<1>3. /\ UNCHANGED <<listed, escalation, queued>>
      /\ told \in [Invoices -> {"none", "refused", "error"} \union Decisions]
  BY DEF Ask, store, WorkInv, TypeInv, TypeOK
<1>4. \A i \in Invoices : told'[i] \in Decisions => told'[i] = told[i]
  BY <1>1, <1>2, <1>3 DEF Finish, Tell, Decisions
<1>5. AnswersAreTrue'
  BY <1>3, <1>4 DEF WorkInv, AnswersAreTrue, Decisions
<1>6. InHandOK'
  <2>1. CASE current' = {}
    BY <2>1, NothingInHand
  <2>2. CASE current' # {}
    <3>1. /\ Start(FirstCall(j.op), j)
          /\ Tell(j, "none")
          /\ Acceptable(j.op, escalation[j.invoice]) \/ Acceptable(j.op, "none")
      BY <1>1, <2>2 DEF Finish
    <3>2. /\ escalation'[j.invoice] \in Open
          /\ j.op = "info" => escalation'[j.invoice] = "info_requested"
      BY <1>3, <3>1 DEF Acceptable, Open
    <3>3. j.op \in Decisions => told'[j.invoice] = "none"
      BY <1>2, <1>3, <3>1 DEF Tell
    <3>4. /\ current' = {j}
          /\ j.op = "approve" => pc' = "transact"
          /\ j.op = "reject" => pc' = "unlist"
          /\ j.op \in {"request_info", "info"} => pc' = "store"
      BY <3>1 DEF Start, FirstCall
    <3> QED
      BY <1>2, <3>2, <3>3, <3>4 DEF InHandOK, Decisions
  <2> QED
    BY <2>1, <2>2
<1> QED
  BY <1>5, <1>6 DEF WorkOK

\* Taking an item off the list: an approval ends here, with its event queued.
LEMMA RemoveFromQueueWork ==
    ASSUME WorkInv, NEW j \in Jobs, RemoveFromQueue(j)
    PROVE  WorkOK'
<1>1. PICK outcome \in Outcomes("request", WriteFaults \union {"misread"}) :
        /\ listed' = IF Applied(outcome) THEN QueueRead(outcome) \ {j.invoice} ELSE listed
        /\ \/ ~Succeeds(outcome) /\ Finish(j, "error")
           \/ Succeeds(outcome) /\ j.op = "reject" /\ Continue("store")
           \/ Succeeds(outcome) /\ j.op = "approve" /\ Finish(j, "approve")
  BY DEF RemoveFromQueue
<1>2. j \in current /\ current = {j} /\ j.invoice \in Invoices
  BY OnlyJob DEF RemoveFromQueue, At, WorkInv
<1>3. /\ j.op \in {"approve", "reject"}
      /\ told[j.invoice] = "none"
      /\ j.op = "approve" => escalation[j.invoice] = "approved" /\ queued[j.invoice] > 0
      /\ j.op = "reject" => escalation[j.invoice] \in Open
  BY <1>2 DEF RemoveFromQueue, At, WorkInv, TypeInv, LabelOK, InHandOK, Decisions
<1>4. /\ UNCHANGED <<escalation, queued>>
      /\ told \in [Invoices -> {"none", "refused", "error"} \union Decisions]
  BY DEF RemoveFromQueue, WorkInv, TypeInv, TypeOK
<1>5. listed' \subseteq listed /\ (Succeeds(outcome) => j.invoice \notin listed')
  BY <1>1 DEF QueueRead, Applied, Succeeds
<1>6. \A i \in Invoices \ {j.invoice} : told'[i] = told[i]
  BY <1>1, <1>2, <1>3, <1>4 DEF Finish, Tell, Continue, Decisions
<1>7. \/ told'[j.invoice] \in {"none", "error"}
      \/ told'[j.invoice] = "approve" /\ j.op = "approve" /\ Succeeds(outcome)
  BY <1>1, <1>2, <1>3, <1>4 DEF Finish, Tell, Continue, Decisions
<1>8. AnswersAreTrue'
  BY <1>3, <1>4, <1>5, <1>6, <1>7 DEF WorkInv, AnswersAreTrue
<1>9. InHandOK'
  <2>1. CASE current' = {}
    BY <2>1, NothingInHand
  <2>2. CASE current' # {}
    <3>1. Succeeds(outcome) /\ j.op = "reject" /\ current' = {j} /\ pc' = "store" /\ told' = told
      BY <1>1, <1>2, <2>2 DEF Finish, Continue
    <3> QED
      BY <1>3, <1>4, <1>5, <3>1 DEF InHandOK
  <2> QED
    BY <2>1, <2>2
<1> QED
  BY <1>8, <1>9 DEF WorkOK

\* Storing a decision or the submitter's information.
LEMMA StoreWork ==
    ASSUME WorkInv, NEW j \in Jobs, Store(j)
    PROVE  WorkOK'
<1>1. PICK outcome \in Outcomes("request", WriteFaults) :
        /\ escalation' = IF Applied(outcome)
                         THEN [escalation EXCEPT ![j.invoice] = NewStatus(j.op)] ELSE escalation
        /\ Finish(j, IF Succeeds(outcome) THEN j.op ELSE "error")
  BY DEF Store
<1>2. j \in current /\ j.invoice \in Invoices
  BY OnlyJob DEF Store, At, WorkInv
<1>3. /\ j.op \in {"reject", "request_info", "info"}
      /\ j.op \in Decisions => told[j.invoice] = "none"
      /\ j.op = "info" => escalation[j.invoice] = "info_requested"
      /\ j.op = "reject" => j.invoice \notin listed
  BY <1>2 DEF Store, At, WorkInv, TypeInv, LabelOK, InHandOK
<1>4. /\ UNCHANGED <<listed, queued>>
      /\ escalation \in [Invoices -> {"none"} \union Open \union Resolved]
      /\ told \in [Invoices -> {"none", "refused", "error"} \union Decisions]
  BY DEF Store, WorkInv, TypeInv, TypeOK
<1>5. current' = {} /\ Tell(j, IF Succeeds(outcome) THEN j.op ELSE "error")
  BY <1>1 DEF Finish
<1>6. \A i \in Invoices \ {j.invoice} : escalation'[i] = escalation[i] /\ told'[i] = told[i]
  BY <1>1, <1>2, <1>4, <1>5 DEF Tell
<1>7. CASE j.op = "info"
  <2>1. told' = told /\ escalation'[j.invoice] \in Open
    BY <1>1, <1>2, <1>3, <1>4, <1>5, <1>7 DEF Tell, Decisions, NewStatus, Open
  <2>2. told[j.invoice] \notin {"approve", "reject"}
    BY <1>2, <1>3, <1>7 DEF WorkInv, AnswersAreTrue
  <2> QED
    BY <1>4, <1>5, <1>6, <2>1, <2>2, NothingInHand DEF WorkInv, WorkOK, AnswersAreTrue, Open, Resolved
<1>8. CASE j.op \in {"reject", "request_info"}
  <2>1. told'[j.invoice] = IF Succeeds(outcome) THEN j.op ELSE "error"
    BY <1>2, <1>4, <1>5, <1>8 DEF Tell, Decisions
  <2>2. Succeeds(outcome) => escalation'[j.invoice] = NewStatus(j.op)
    BY <1>1, <1>2, <1>4 DEF Applied, Succeeds
  <2> QED
    BY <1>3, <1>4, <1>5, <1>6, <1>8, <2>1, <2>2, NothingInHand
    DEF WorkInv, WorkOK, AnswersAreTrue, NewStatus, Open, Resolved
<1> QED
  BY <1>3, <1>7, <1>8

\* Every step preserves WorkInv, whatever faults occur.
LEMMA WorkInvNext == WorkInv /\ [Next]_vars => WorkInv'
<1> SUFFICES ASSUME WorkInv, [Next]_vars PROVE WorkOK'
  BY TypeInvNext DEF WorkInv, WorkOK
<1>1. CASE UNCHANGED vars
  BY <1>1 DEF vars, topic, store, loop, WorkInv, WorkOK, InHandOK, AnswersAreTrue
<1>2. ASSUME NEW i \in Invoices, Deliver(i) \/ Resume(i) PROVE WorkOK'
  BY <1>2, RoutingWork, SubmissionFacts
<1>3. ASSUME NEW j \in Requests, Ask(j) PROVE WorkOK'
  BY <1>3, AskWork
<1>4. ASSUME NEW j \in Jobs, Work(j) PROVE WorkOK'
  BY <1>4, JobFacts, RoutingWork, SaveEscalationWork, AddToQueueWork, TransactWork,
     EnqueueWork, RemoveFromQueueWork, StoreWork DEF Work
<1>5. CASE Crash
  <2>1. told \in [Invoices -> {"none", "refused", "error"} \union Decisions]
    BY DEF WorkInv, TypeInv, TypeOK
  <2>2. \A i \in Invoices : told'[i] \in {told[i], "error"}
    BY <1>5, <2>1 DEF Crash
  <2> QED
    BY <1>5, <2>2, NothingInHand DEF Crash, store, WorkInv, WorkOK, AnswersAreTrue
<1> QED
  BY <1>1, <1>2, <1>3, <1>4, <1>5 DEF Next

\* WorkInv holds in every reachable state.
LEMMA WorkInvAlways == Spec => []WorkInv
BY WorkInvInit, WorkInvNext, PTL DEF Spec

\* What an approver is told of a decision is true, whatever faults occur.
THEOREM DecisionsAnsweredTruly == Spec => []AnswersAreTrue
BY WorkInvAlways, PTL DEF WorkInv
-----------------------------------------------------------------------------
(* Payment events: each delivery of a submission is worth one at most.     *)

\* A handler of i that may still approve i or escalate it.
Deciding(i) ==
    \E j \in current :
        j.invoice = i /\ j.op = "submission" /\ pc \in {"transact", "evaluate", "escalate"}

\* The deliveries of i that have not led to a payment event but still may: in
\* hand, paused, or turned into an item that waits for an approver.
Owed(i) ==
    paused[i] + (IF Deciding(i) THEN 1 ELSE 0) + (IF escalation[i] \in Open THEN 1 ELSE 0)

\* OneEventPerDelivery is not inductive: it does not know how many approvals
\* may still come.
BudgetOK == \A i \in Invoices : recorded[i] + Owed(i) <= deliveries[i]

BudgetInv == WorkInv /\ BudgetOK

\* BudgetInv holds when nothing has happened yet.
LEMMA BudgetInvInit == Init => BudgetInv
<1> SUFFICES ASSUME Init PROVE BudgetOK
  BY WorkInvInit DEF BudgetInv
<1> SUFFICES ASSUME NEW i \in Invoices PROVE recorded[i] + Owed(i) <= deliveries[i]
  BY DEF BudgetOK
<1>1. ~Deciding(i) /\ escalation[i] \notin Open
  BY DEF Init, Deciding, Open
<1> QED
  BY <1>1 DEF Init, Owed

\* What the budget of an invoice is made of.
LEMMA BudgetFacts ==
    ASSUME BudgetInv, NEW i \in Invoices
    PROVE  /\ recorded[i] \in Nat /\ paused[i] \in Nat /\ deliveries[i] \in Nat
           /\ recorded[i] + Owed(i) <= deliveries[i]
BY DEF BudgetInv, BudgetOK, WorkInv, TypeInv, TypeOK

\* A step that adds nothing to what is owed and records nothing.
LEMMA BudgetSpared ==
    ASSUME BudgetInv, NEW i \in Invoices,
           recorded'[i] = recorded[i], deliveries'[i] = deliveries[i],
           paused'[i] = paused[i] \/ paused'[i] = 0,
           Deciding(i)' => Deciding(i),
           escalation'[i] \in Open => escalation[i] \in Open
    PROVE  recorded'[i] + Owed(i)' <= deliveries'[i]
BY BudgetFacts DEF Owed

\* A delivery is one more that may lead to an event.
LEMMA DeliverBudget ==
    ASSUME BudgetInv, NEW k \in Invoices, Deliver(k), NEW i \in Invoices
    PROVE  recorded'[i] + Owed(i)' <= deliveries'[i]
<1>1. ~Deciding(i)
  BY DEF Deliver, Deciding, BudgetInv, WorkInv, TypeInv, HandOK
<1>2. UNCHANGED <<recorded, paused, escalation>> /\ deliveries' = Increment(deliveries, k)
  BY DEF Deliver, store
<1>3. deliveries \in [Invoices -> Nat]
  BY DEF BudgetInv, WorkInv, TypeInv, TypeOK
<1>4. CASE i = k
  <2>1. deliveries'[i] = deliveries[i] + 1
    BY <1>2, <1>3, <1>4, IncrementTyped
  <2> QED
    BY <1>1, <1>2, <2>1, BudgetFacts DEF Owed
<1>5. CASE i # k
  <2>1. ~Deciding(i)'
    BY <1>5, SubmissionFacts DEF Deliver, Start, Deciding
  <2>2. deliveries'[i] = deliveries[i]
    BY <1>2, <1>3, <1>5, IncrementTyped
  <2> QED
    BY <1>2, <2>1, <2>2, BudgetSpared
<1> QED
  BY <1>4, <1>5

\* A handler that pauses is no longer in hand, one that resumes no longer paused.
LEMMA PauseBudget ==
    ASSUME BudgetInv, NEW i \in Invoices, NEW k \in Invoices, NEW j \in Jobs,
           StoreEvaluation(j) \/ Resume(k)
    PROVE  recorded'[i] + Owed(i)' <= deliveries'[i]
<1>1. UNCHANGED <<recorded, deliveries, escalation>>
  BY DEF StoreEvaluation, Resume, topic, store
<1>2. paused \in [Invoices -> Nat]
  BY DEF BudgetInv, WorkInv, TypeInv, TypeOK
<1>3. CASE StoreEvaluation(j)
  <2>1. j \in current /\ j.op = "submission" /\ pc = "evaluate" /\ j.invoice \in Invoices
    BY <1>3, OnlyJob DEF StoreEvaluation, At, BudgetInv, WorkInv, TypeInv, LabelOK
  <2>2. ~Deciding(i)'
    BY <1>3 DEF StoreEvaluation, Deciding
  <2>3. CASE i = j.invoice
    <3>1. Deciding(i) /\ paused'[i] = paused[i] + 1
      BY <1>2, <1>3, <2>1, <2>3, IncrementTyped DEF StoreEvaluation, Deciding
    <3> QED
      BY <1>1, <2>2, <3>1, BudgetFacts DEF Owed
  <2>4. CASE i # j.invoice
    <3>1. paused'[i] = paused[i]
      BY <1>2, <1>3, <2>1, <2>4, IncrementTyped DEF StoreEvaluation
    <3> QED
      BY <1>1, <2>2, <3>1, BudgetSpared
  <2> QED
    BY <2>3, <2>4
<1>4. CASE Resume(k)
  <2>1. ~Deciding(i)
    BY <1>4 DEF Resume, Deciding, BudgetInv, WorkInv, TypeInv, HandOK
  <2>2. CASE i = k
    <3>1. paused'[i] = paused[i] - 1 /\ paused[i] > 0
      BY <1>2, <1>4, <2>2 DEF Resume
    <3> QED
      BY <1>1, <2>1, <3>1, BudgetFacts DEF Owed
  <2>3. CASE i # k
    <3>1. paused'[i] = paused[i] /\ ~Deciding(i)'
      BY <1>2, <1>4, <2>3, SubmissionFacts DEF Resume, Start, Deciding
    <3> QED
      BY <1>1, <3>1, BudgetSpared
  <2> QED
    BY <2>2, <2>3
<1> QED
  BY <1>3, <1>4

\* A call of the job in hand ends its part in the decision: it goes on to a
\* call that decides nothing, or ends.
LEMMA CallMovesOn ==
    ASSUME TypeInv, NEW j \in current, NEW i \in Invoices,
           \/ current' = {}
           \/ current' = current /\ pc' \notin {"transact", "evaluate", "escalate"}
    PROVE  ~Deciding(i)'
BY DEF Deciding

\* An escalated delivery is owed by the open item instead of its handler.
LEMMA SaveEscalationBudget ==
    ASSUME BudgetInv, NEW j \in Jobs, SaveEscalation(j), NEW i \in Invoices
    PROVE  recorded'[i] + Owed(i)' <= deliveries'[i]
<1>1. PICK outcome \in Outcomes(Side(j), WriteFaults) :
        /\ escalation' = escalation \/ escalation' = [escalation EXCEPT ![j.invoice] = "pending"]
        /\ Continue("list") \/ AfterFailure(j, outcome)
  BY DEF SaveEscalation
<1>2. j \in current /\ j.op = "submission" /\ pc = "escalate" /\ j.invoice \in Invoices /\ TypeInv
  BY OnlyJob DEF SaveEscalation, At, BudgetInv, WorkInv, TypeInv, LabelOK
<1>3. UNCHANGED <<recorded, deliveries, paused>>
  BY DEF SaveEscalation, topic
<1>4. ~Deciding(i)'
  BY <1>1, <1>2, FailureFacts, OnlyJob, CallMovesOn DEF Continue
<1>5. CASE i = j.invoice
  <2>1. Deciding(i)
    BY <1>2, <1>5 DEF Deciding
  <2> QED
    BY <1>3, <1>4, <2>1, BudgetFacts DEF Owed
<1>6. CASE i # j.invoice
  <2>1. escalation'[i] = escalation[i]
    BY <1>1, <1>2, <1>6 DEF TypeInv, TypeOK
  <2> QED
    BY <1>3, <1>4, <2>1, BudgetSpared
<1> QED
  BY <1>5, <1>6

\* An event takes the place of the delivery that was owed for.
LEMMA TransactBudget ==
    ASSUME BudgetInv, NEW j \in Jobs, Transact(j), NEW i \in Invoices
    PROVE  recorded'[i] + Owed(i)' <= deliveries'[i]
<1>1. PICK outcome \in Outcomes(Side(j), WriteFaults) :
        /\ \/ recorded' = Increment(recorded, j.invoice) /\ escalation' = Approved(j)
           \/ UNCHANGED <<recorded, escalation>>
        /\ Continue("enqueue") \/ AfterFailure(j, outcome)
  BY DEF Transact
<1>2. /\ j \in current /\ pc = "transact" /\ j.invoice \in Invoices /\ TypeInv
      /\ j.op \in {"submission", "approve"}
      /\ j.op = "approve" => escalation[j.invoice] \in Open
  BY OnlyJob DEF Transact, At, BudgetInv, WorkInv, InHandOK, TypeInv, LabelOK
<1>3. UNCHANGED <<deliveries, paused>> /\ recorded \in [Invoices -> Nat]
      /\ escalation \in [Invoices -> {"none"} \union Open \union Resolved]
  BY DEF Transact, topic, BudgetInv, WorkInv, TypeInv, TypeOK
<1>4. ~Deciding(i)'
  BY <1>1, <1>2, FailureFacts, OnlyJob, CallMovesOn DEF Continue
<1>5. CASE UNCHANGED <<recorded, escalation>>
  BY <1>3, <1>4, <1>5, BudgetSpared
<1>6. CASE i # j.invoice
  <2>1. recorded'[i] = recorded[i] /\ escalation'[i] = escalation[i]
    BY <1>1, <1>2, <1>3, <1>6, IncrementTyped DEF Approved
  <2> QED
    BY <1>3, <1>4, <2>1, BudgetSpared
<1>7. CASE i = j.invoice /\ recorded' = Increment(recorded, j.invoice) /\ escalation' = Approved(j)
  <2>1. recorded'[i] = recorded[i] + 1
    BY <1>2, <1>3, <1>7, IncrementTyped
  <2>2. CASE j.op = "submission"
    <3>1. Deciding(i) /\ escalation'[i] = escalation[i]
      BY <1>2, <1>7, <2>2 DEF Deciding, Approved
    <3> QED
      BY <1>3, <1>4, <2>1, <3>1, BudgetFacts DEF Owed
  <2>3. CASE j.op = "approve"
    <3>1. ~Deciding(i) /\ escalation[i] \in Open
      BY <1>2, <1>7, <2>3, OnlyJob DEF Deciding
    <3>2. escalation'[i] \notin Open
      BY <1>2, <1>3, <1>7, <2>3 DEF Approved, Open
    <3> QED
      BY <1>3, <1>4, <2>1, <3>1, <3>2, BudgetFacts DEF Owed
  <2> QED
    BY <1>2, <2>2, <2>3
<1> QED
  BY <1>1, <1>5, <1>6, <1>7

\* The other calls record nothing and open nothing that was not open.
LEMMA OtherCallBudget ==
    ASSUME BudgetInv, NEW j \in Jobs, NEW i \in Invoices,
           AddToQueue(j) \/ Answer(j) \/ Enqueue(j) \/ RemoveFromQueue(j) \/ Store(j)
    PROVE  recorded'[i] + Owed(i)' <= deliveries'[i]
<1>1. j \in current /\ j.invoice \in Invoices /\ TypeInv
  BY OnlyJob DEF AddToQueue, Answer, Enqueue, RemoveFromQueue, Store, At, BudgetInv, WorkInv
<1>2. UNCHANGED <<recorded, deliveries, paused>>
  BY DEF AddToQueue, Answer, Enqueue, RemoveFromQueue, Store, topic, store
<1>3. ~Deciding(i)'
  <2>1. CASE Answer(j) \/ Store(j) \/ RemoveFromQueue(j)
    BY <1>1, <2>1, CallMovesOn DEF Answer, Store, RemoveFromQueue, Finish, Continue
  <2>2. CASE AddToQueue(j) \/ Enqueue(j)
    <3>1. PICK outcome : \/ \E label \in {"answer", "unlist"} : Continue(label)
                         \/ AfterFailure(j, outcome)
      BY <2>2 DEF AddToQueue, Enqueue
    <3> QED
      BY <1>1, <3>1, FailureFacts, OnlyJob, CallMovesOn DEF Continue
  <2> QED
    BY <2>1, <2>2
<1>4. escalation'[i] \in Open => escalation[i] \in Open
  <2>1. CASE Store(j)
    <3>1. escalation[j.invoice] \in Open
      BY <1>1, <2>1 DEF Store, At, BudgetInv, WorkInv, TypeInv, LabelOK, InHandOK
    <3>2. \/ escalation' = escalation
          \/ escalation' = [escalation EXCEPT ![j.invoice] = NewStatus(j.op)]
      BY <2>1 DEF Store
    <3> QED
      BY <1>1, <3>1, <3>2 DEF TypeInv, TypeOK
  <2>2. CASE ~Store(j)
    BY <2>2 DEF AddToQueue, Answer, Enqueue, RemoveFromQueue, store
  <2> QED
    BY <2>1, <2>2
<1> QED
  BY <1>2, <1>3, <1>4, BudgetSpared

\* Every step keeps the budget.
LEMMA BudgetInvNext == BudgetInv /\ [Next]_vars => BudgetInv'
<1> SUFFICES ASSUME BudgetInv, [Next]_vars, NEW i \in Invoices
             PROVE  recorded'[i] + Owed(i)' <= deliveries'[i]
  BY WorkInvNext DEF BudgetInv, BudgetOK
<1>1. CASE UNCHANGED vars
  BY <1>1, BudgetSpared DEF vars, topic, store, loop, Deciding
<1>2. ASSUME NEW k \in Invoices, Deliver(k) \/ Resume(k)
      PROVE  recorded'[i] + Owed(i)' <= deliveries'[i]
  BY <1>2, DeliverBudget, PauseBudget, SubmissionFacts
<1>3. ASSUME NEW j \in Requests, Ask(j)
      PROVE  recorded'[i] + Owed(i)' <= deliveries'[i]
  <2>1. ~Deciding(i)'
    <3>1. PICK outcome : Start(FirstCall(j.op), j) \/ Finish(j, outcome)
      BY <1>3 DEF Ask
    <3> QED
      BY <3>1 DEF Start, Finish, Deciding, Requests
  <2> QED
    BY <1>3, <2>1, BudgetSpared DEF Ask, topic, store
<1>4. ASSUME NEW j \in Jobs, Work(j)
      PROVE  recorded'[i] + Owed(i)' <= deliveries'[i]
  BY <1>4, PauseBudget, SaveEscalationBudget, TransactBudget, OtherCallBudget DEF Work
<1>5. CASE Crash
  <2>1. ~Deciding(i)' /\ paused'[i] = 0
    BY <1>5 DEF Crash, Deciding
  <2> QED
    BY <1>5, <2>1, BudgetSpared DEF Crash, topic, store
<1> QED
  BY <1>1, <1>2, <1>3, <1>4, <1>5 DEF Next

\* BudgetInv holds in every reachable state.
LEMMA BudgetInvAlways == Spec => []BudgetInv
BY BudgetInvInit, BudgetInvNext, PTL DEF Spec

\* Repeated approvals record no more payment events than there were deliveries
\* of the submission, whatever faults occur.
THEOREM EventsAreLimited == Spec => []OneEventPerDelivery
<1>1. BudgetInv => OneEventPerDelivery
  <2> SUFFICES ASSUME BudgetInv, NEW i \in Invoices PROVE recorded[i] <= deliveries[i]
    BY DEF OneEventPerDelivery
  <2> QED
    BY BudgetFacts DEF Owed
<1> QED
  BY <1>1, BudgetInvAlways, PTL

-----------------------------------------------------------------------------
(* Steps.                                                                  *)

\* What each step does to the status of an item and to its payment events.
LEMMA EscalationSteps ==
    ASSUME WorkInv, [Next]_vars
    PROVE  \/ UNCHANGED <<escalation, recorded>>
           \/ \E j \in Jobs :
                 \/ At("escalate", j) /\ j.op = "submission" /\ Lifecycle!Pause(j.invoice)
                 \/ Lifecycle!Clear(j.invoice)
                 \/ Lifecycle!Approve(j.invoice)
                 \/ Lifecycle!Reject(j.invoice)
                 \/ Lifecycle!Ask(j.invoice)
                 \/ Lifecycle!IsOpen(j.invoice) /\ Lifecycle!Pause(j.invoice)
<1>1. CASE UNCHANGED vars
  BY <1>1 DEF vars, store
<1>2. CASE Crash
  BY <1>2 DEF Crash, store
<1>3. ASSUME NEW i \in Invoices, Deliver(i) \/ Resume(i)
      PROVE  UNCHANGED <<escalation, recorded>>
  BY <1>3 DEF Deliver, Resume, store
<1>4. ASSUME NEW j \in Requests, Ask(j)
      PROVE  UNCHANGED <<escalation, recorded>>
  BY <1>4 DEF Ask, store
<1>5. ASSUME NEW j \in Jobs,
             \/ StoreEvaluation(j) \/ AddToQueue(j) \/ Answer(j)
             \/ Enqueue(j) \/ RemoveFromQueue(j)
      PROVE  UNCHANGED <<escalation, recorded>>
  BY <1>5 DEF StoreEvaluation, AddToQueue, Answer, Enqueue, RemoveFromQueue, store
<1>6. ASSUME NEW j \in Jobs, SaveEscalation(j)
      PROVE  \/ UNCHANGED <<escalation, recorded>>
             \/ At("escalate", j) /\ j.op = "submission" /\ Lifecycle!Pause(j.invoice)
  <2>1. At("escalate", j) /\ j.op = "submission"
    BY <1>6 DEF SaveEscalation, At, WorkInv, TypeInv, LabelOK
  <2>2. /\ recorded' = recorded
        /\ escalation' = escalation \/ escalation' = [escalation EXCEPT ![j.invoice] = "pending"]
    BY <1>6 DEF SaveEscalation
  <2> QED
    BY <2>1, <2>2 DEF Lifecycle!Pause, Lifecycle!Become
<1>7. ASSUME NEW j \in Jobs, Transact(j)
      PROVE  \/ UNCHANGED <<escalation, recorded>>
             \/ Lifecycle!Clear(j.invoice)
             \/ Lifecycle!Approve(j.invoice)
  <2>1. \/ UNCHANGED <<escalation, recorded>>
        \/ recorded' = Increment(recorded, j.invoice) /\ escalation' = Approved(j)
    BY <1>7 DEF Transact
  <2>2. j.op = "approve" => escalation[j.invoice] \in Open
    BY <1>7 DEF Transact, At, WorkInv, InHandOK
  <2> QED
    BY <2>1, <2>2 DEF Approved, Increment, Open, Lifecycle!Clear, Lifecycle!Approve,
                      Lifecycle!IsOpen, Lifecycle!Become, Lifecycle!Record
<1>8. ASSUME NEW j \in Jobs, Store(j)
      PROVE  \/ UNCHANGED <<escalation, recorded>>
             \/ Lifecycle!Reject(j.invoice)
             \/ Lifecycle!Ask(j.invoice)
             \/ Lifecycle!IsOpen(j.invoice) /\ Lifecycle!Pause(j.invoice)
  <2>1. /\ recorded' = recorded
        /\ \/ escalation' = escalation
           \/ escalation' = [escalation EXCEPT ![j.invoice] = NewStatus(j.op)]
    BY <1>8 DEF Store
  <2>2. escalation[j.invoice] \in Open /\ j.op \in {"reject", "request_info", "info"}
    BY <1>8 DEF Store, At, WorkInv, TypeInv, LabelOK, InHandOK
  <2>3. NewStatus(j.op) \in {"rejected", "info_requested", "pending"}
    BY DEF NewStatus
  <2> QED
    BY <2>1, <2>2, <2>3 DEF Open, Lifecycle!Reject, Lifecycle!Ask, Lifecycle!Pause,
                            Lifecycle!IsOpen, Lifecycle!Become
<1> QED
  BY <1>1, <1>2, <1>3, <1>4, <1>5, <1>6, <1>7, <1>8 DEF Next, Work

\* The agent moves items only along the life cycle, and an approval and its
\* payment event are one step, whatever faults occur.
THEOREM AgentImplementsReview == Spec => ImplementsReview
<1>1. Init => Lifecycle!Init
  BY DEF Init, Lifecycle!Init
<1>2. WorkInv /\ [Next]_vars => [Lifecycle!Next]_(Lifecycle!rvars)
  <2> SUFFICES ASSUME WorkInv, [Next]_vars, ~UNCHANGED <<escalation, recorded>>
               PROVE  Lifecycle!Next
    BY DEF Lifecycle!rvars
  <2>1. PICK j \in Jobs : \/ Lifecycle!Pause(j.invoice)
                          \/ Lifecycle!Clear(j.invoice)
                          \/ Lifecycle!Approve(j.invoice)
                          \/ Lifecycle!Reject(j.invoice)
                          \/ Lifecycle!Ask(j.invoice)
    BY EscalationSteps
  <2> QED
    BY <2>1, JobFacts DEF Lifecycle!Next
<1> QED
  BY <1>1, <1>2, WorkInvAlways, PTL DEF Spec, ImplementsReview, Lifecycle!Spec

\* A resolved item is changed only by a submission that is delivered again,
\* whatever faults occur.
THEOREM DecisionsAreFinal == Spec => DecisionsStand
<1> DEFINE Stands ==
             \A i \in Invoices :
                 escalation[i] \in Resolved /\ escalation'[i] # escalation[i] =>
                     At("escalate", [op |-> "submission", invoice |-> i])
<1>1. ASSUME WorkInv, [Next]_vars, NEW i \in Invoices,
             escalation[i] \in Resolved, escalation'[i] # escalation[i]
      PROVE  At("escalate", [op |-> "submission", invoice |-> i])
  <2>1. PICK j \in Jobs :
           \/ At("escalate", j) /\ j.op = "submission" /\ Lifecycle!Pause(j.invoice)
           \/ Lifecycle!Clear(j.invoice)
           \/ Lifecycle!Approve(j.invoice)
           \/ Lifecycle!Reject(j.invoice)
           \/ Lifecycle!Ask(j.invoice)
           \/ Lifecycle!IsOpen(j.invoice) /\ Lifecycle!Pause(j.invoice)
    BY <1>1, EscalationSteps
  <2>2. escalation \in [Invoices -> {"none"} \union Open \union Resolved]
    BY <1>1 DEF WorkInv, TypeInv, TypeOK
  <2>3. i = j.invoice
    BY <1>1, <2>1, <2>2
    DEF Lifecycle!Pause, Lifecycle!Clear, Lifecycle!Approve, Lifecycle!Reject, Lifecycle!Ask,
        Lifecycle!Become
  <2>4. At("escalate", j) /\ j.op = "submission"
    BY <1>1, <2>1, <2>3
    DEF Resolved, Lifecycle!Clear, Lifecycle!Approve, Lifecycle!Reject, Lifecycle!Ask,
        Lifecycle!IsOpen
  <2>5. j = [op |-> "submission", invoice |-> i]
    BY <2>3, <2>4 DEF Jobs
  <2> QED
    BY <2>4, <2>5
<1>2. WorkInv /\ [Next]_vars => [Stands]_vars
  BY <1>1
<1> QED
  BY <1>2, WorkInvAlways, PTL DEF Spec, DecisionsStand

-----------------------------------------------------------------------------
(* What a failed decision leaves behind.                                   *)

\* Decision j fails with this step: its handler is at work and ends, and the
\* answer is an error.
Fails(j) == j \in current /\ current' = {} /\ told'[j.invoice] = "error"

\* The item is still open, so that the call can be repeated.
StillOpen(j) == escalation'[j.invoice] \in Open

\* The item is what the decision was to make of it, and the event of an
\* approval is where the dispatcher finds it.
Effective(j) ==
    \/ /\ j.op = "approve"
       /\ escalation'[j.invoice] = "approved"
       /\ \/ pc = "enqueue" /\ queued'[j.invoice] = queued[j.invoice] + 1
          \/ pc = "unlist" /\ queued'[j.invoice] > 0
    \/ j.op = "reject" /\ escalation'[j.invoice] = "rejected"

\* The item is approved, so that the call cannot be repeated, but an event of
\* it is in no queue: the approval failed at its transaction or at the update
\* of the outbox queue that follows it.
Stranded(j) ==
    /\ j.op = "approve"
    /\ pc \in {"transact", "enqueue"}
    /\ escalation'[j.invoice] = "approved"
    /\ recorded'[j.invoice] > queued'[j.invoice]

\* A decision that fails has left the item open or has taken effect on it, or
\* it was an approval, and that has stranded its event.
FailureIsOneOfThree ==
    \A j \in Requests :
        j.op \in Decisions /\ Fails(j) => StillOpen(j) \/ Effective(j) \/ Stranded(j)

\* A rejection or a question that fails has left the item open.
NothingDone == \A j \in Requests : j.op \in {"reject", "request_info"} /\ Fails(j) => StillOpen(j)

\* An event of item i was recorded by the call before, and is to be queued next.
OnItsWay(i) == IF pc = "enqueue" /\ \E j \in current : j.invoice = i THEN 1 ELSE 0

\* What is recorded is queued or about to be, or a fault has kept it from that.
EventsOK ==
    \A i \in Invoices :
        /\ queued[i] + OnItsWay(i) <= recorded[i]
        /\ recorded[i] <= queued[i] + OnItsWay(i) + faults

EventsInv == WorkInv /\ EventsOK

\* A call counts a fault or none, and one unless it is answered as it should be.
LEMMA CountGrows ==
    ASSUME TypeInv, NEW outcome, Count(outcome)
    PROVE  /\ faults \in Nat
           /\ faults' \in {faults, faults + 1}
           /\ outcome # "ok" => faults' = faults + 1
BY EscalationAssumption DEF Count, TypeInv, TypeOK

\* A step that is not about an event of the outbox.
LEMMA EventsKept ==
    ASSUME TypeInv, EventsOK, recorded' = recorded, queued' = queued,
           pc # "enqueue", pc' # "enqueue", faults' \in {faults, faults + 1}
    PROVE  EventsOK'
<1>1. faults \in Nat /\ recorded \in [Invoices -> Nat] /\ queued \in [Invoices -> Nat]
  BY EscalationAssumption DEF TypeInv, TypeOK
<1>2. \A i \in Invoices : OnItsWay(i) = 0 /\ OnItsWay(i)' = 0
  BY DEF OnItsWay
<1> QED
  BY <1>1, <1>2 DEF EventsOK

\* The transaction adds an event, and either its queue update is next or the
\* transaction has failed.
LEMMA TransactEvents ==
    ASSUME EventsInv, NEW j \in Jobs, Transact(j)
    PROVE  EventsOK'
<1>1. TypeInv /\ EventsOK
  BY DEF EventsInv, WorkInv
<1>2. pc = "transact" /\ current = {j} /\ j.invoice \in Invoices
  BY <1>1, OnlyJob DEF Transact, At
<1>3. PICK outcome \in Outcomes(Side(j), WriteFaults) :
        /\ Count(outcome)
        /\ recorded' = IF Applied(outcome) THEN Increment(recorded, j.invoice) ELSE recorded
        /\ IF Succeeds(outcome) THEN Continue("enqueue") ELSE AfterFailure(j, outcome)
  BY DEF Transact
<1>4. /\ faults \in Nat
      /\ faults' \in {faults, faults + 1}
      /\ outcome # "ok" => faults' = faults + 1
  BY <1>1, <1>3, CountGrows
<1>5. /\ recorded \in [Invoices -> Nat]
      /\ queued \in [Invoices -> Nat]
      /\ queued' = queued
  BY <1>1 DEF TypeInv, TypeOK, Transact
<1>6. \A i \in Invoices : OnItsWay(i) = 0
  BY <1>2 DEF OnItsWay
<1>7. /\ recorded' \in [Invoices -> Nat]
      /\ recorded'[j.invoice] = IF Applied(outcome) THEN recorded[j.invoice] + 1
                                ELSE recorded[j.invoice]
      /\ \A i \in Invoices \ {j.invoice} : recorded'[i] = recorded[i]
  BY <1>2, <1>3, <1>5, IncrementTyped
<1>8. CASE Succeeds(outcome)
  <2>1. Applied(outcome)
    BY <1>8 DEF Succeeds, Applied
  <2>2. pc' = "enqueue" /\ current' = {j}
    BY <1>2, <1>3, <1>8 DEF Continue
  <2>3. OnItsWay(j.invoice)' = 1 /\ \A i \in Invoices \ {j.invoice} : OnItsWay(i)' = 0
    BY <2>2 DEF OnItsWay
  <2> QED
    BY <1>1, <1>2, <1>4, <1>5, <1>6, <1>7, <2>1, <2>3 DEF EventsOK
<1>9. CASE ~Succeeds(outcome)
  <2>1. outcome # "ok"
    BY <1>9 DEF Succeeds
  <2>2. pc' # "enqueue"
    BY <1>1, <1>2, <1>3, <1>9, FailureFacts
  <2>3. \A i \in Invoices : OnItsWay(i)' = 0
    BY <2>2 DEF OnItsWay
  <2>4. faults' = faults + 1
    BY <1>4, <2>1
  <2> QED
    BY <1>1, <1>2, <1>4, <1>5, <1>6, <1>7, <2>3, <2>4 DEF EventsOK
<1> QED
  BY <1>8, <1>9

\* The queue update takes the event on its way, or a fault has.
LEMMA EnqueueEvents ==
    ASSUME EventsInv, NEW j \in Jobs, Enqueue(j)
    PROVE  EventsOK'
<1>1. TypeInv /\ EventsOK
  BY DEF EventsInv, WorkInv
<1>2. pc = "enqueue" /\ current = {j} /\ j.invoice \in Invoices
  BY <1>1, OnlyJob DEF Enqueue, At
<1>3. PICK outcome \in Outcomes(Side(j), WriteFaults) :
        /\ Count(outcome)
        /\ queued' = IF Applied(outcome) THEN Increment(queued, j.invoice) ELSE queued
        /\ IF Succeeds(outcome)
           THEN Continue(IF j.op = "approve" THEN "unlist" ELSE "answer")
           ELSE AfterFailure(j, outcome)
  BY DEF Enqueue
<1>4. /\ faults \in Nat
      /\ faults' \in {faults, faults + 1}
      /\ outcome # "ok" => faults' = faults + 1
  BY <1>1, <1>3, CountGrows
<1>5. /\ recorded \in [Invoices -> Nat]
      /\ queued \in [Invoices -> Nat]
      /\ recorded' = recorded
  BY <1>1 DEF TypeInv, TypeOK, Enqueue
<1>6. OnItsWay(j.invoice) = 1 /\ \A i \in Invoices \ {j.invoice} : OnItsWay(i) = 0
  BY <1>2 DEF OnItsWay
<1>7. /\ queued' \in [Invoices -> Nat]
      /\ queued'[j.invoice] = IF Applied(outcome) THEN queued[j.invoice] + 1
                              ELSE queued[j.invoice]
      /\ \A i \in Invoices \ {j.invoice} : queued'[i] = queued[i]
  BY <1>2, <1>3, <1>5, IncrementTyped
<1>8. pc' # "enqueue"
  BY <1>1, <1>2, <1>3, FailureFacts DEF Continue
<1>9. \A i \in Invoices : OnItsWay(i)' = 0
  BY <1>8 DEF OnItsWay
<1>10. ~Applied(outcome) => faults' = faults + 1
  BY <1>4 DEF Applied
<1> QED
  BY <1>1, <1>2, <1>4, <1>5, <1>6, <1>7, <1>9, <1>10 DEF EventsOK

\* A crash may strand the event on its way, and is a fault.
LEMMA CrashEvents == EventsInv /\ Crash => EventsOK'
<1> SUFFICES ASSUME EventsInv, Crash PROVE EventsOK'
  OBVIOUS
<1>1. TypeInv /\ EventsOK
  BY DEF EventsInv, WorkInv
<1>2. faults \in Nat /\ faults' = faults + 1
  BY <1>1, CountGrows DEF Crash
<1>3. /\ recorded \in [Invoices -> Nat] /\ recorded' = recorded
      /\ queued \in [Invoices -> Nat] /\ queued' = queued
  BY <1>1 DEF TypeInv, TypeOK, Crash, store
<1>4. \A i \in Invoices : OnItsWay(i) \in {0, 1} /\ OnItsWay(i)' = 0
  BY DEF OnItsWay, Crash
<1> QED
  BY <1>1, <1>2, <1>3, <1>4 DEF EventsOK

\* Every step preserves EventsInv.
LEMMA EventsInvNext == EventsInv /\ [Next]_vars => EventsInv'
<1> SUFFICES ASSUME EventsInv, [Next]_vars PROVE EventsOK'
  BY WorkInvNext DEF EventsInv
<1>1. TypeInv /\ EventsOK
  BY DEF EventsInv, WorkInv
<1>2. CASE UNCHANGED vars
  BY <1>1, <1>2 DEF vars, store, loop, EventsOK, OnItsWay
<1>3. ASSUME NEW i \in Invoices, Deliver(i) PROVE EventsOK'
  <2>1. pc # "enqueue" /\ pc' # "enqueue" /\ recorded' = recorded /\ queued' = queued
    BY <1>3 DEF Deliver, Start, store
  <2>2. faults' \in {faults, faults + 1}
    BY <1>1, <1>3, CountGrows DEF Deliver
  <2> QED
    BY <1>1, <2>1, <2>2, EventsKept
<1>4. ASSUME NEW i \in Invoices, Resume(i) PROVE EventsOK'
  <2>1. pc # "enqueue" /\ pc' # "enqueue" /\ recorded' = recorded /\ queued' = queued
    BY <1>4 DEF Resume, Start, store
  <2>2. faults' = faults
    BY <1>4 DEF Resume
  <2> QED
    BY <1>1, <2>1, <2>2, EventsKept
<1>5. ASSUME NEW j \in Requests, Ask(j) PROVE EventsOK'
  <2>1. pc # "enqueue" /\ pc' # "enqueue" /\ recorded' = recorded /\ queued' = queued
    BY <1>5 DEF Ask, Start, Finish, FirstCall, store
  <2>2. faults' \in {faults, faults + 1}
    BY <1>1, <1>5, CountGrows DEF Ask
  <2> QED
    BY <1>1, <2>1, <2>2, EventsKept
<1>6. ASSUME NEW j \in Jobs, \/ StoreEvaluation(j) \/ SaveEscalation(j) \/ AddToQueue(j)
                             \/ Answer(j) \/ RemoveFromQueue(j) \/ Store(j)
      PROVE  EventsOK'
  <2>1. pc # "enqueue" /\ j \in current /\ recorded' = recorded /\ queued' = queued
    BY <1>6 DEF StoreEvaluation, SaveEscalation, AddToQueue, Answer, RemoveFromQueue, Store, At, store
  <2>2. pc' # "enqueue"
    <3>1. CASE SaveEscalation(j) \/ AddToQueue(j)
      BY <1>1, <2>1, <3>1, FailureFacts DEF SaveEscalation, AddToQueue, Continue
    <3>2. CASE StoreEvaluation(j) \/ Answer(j) \/ RemoveFromQueue(j) \/ Store(j)
      BY <3>2 DEF StoreEvaluation, Answer, RemoveFromQueue, Store, Finish, Continue
    <3> QED
      BY <1>6, <3>1, <3>2
  <2>3. \E outcome : Count(outcome)
    BY <1>6 DEF StoreEvaluation, SaveEscalation, AddToQueue, Answer, RemoveFromQueue, Store
  <2> QED
    BY <1>1, <2>1, <2>2, <2>3, CountGrows, EventsKept
<1> QED
  BY <1>2, <1>3, <1>4, <1>5, <1>6, TransactEvents, EnqueueEvents, CrashEvents DEF Next, Work

\* EventsInv holds in every reachable state.
LEMMA EventsInvAlways == Spec => []EventsInv
<1>1. Init => EventsInv
  BY WorkInvInit, EscalationAssumption DEF Init, EventsInv, EventsOK, OnItsWay
<1> QED
  BY <1>1, EventsInvNext, PTL DEF Spec

\* The events of an item that are in no queue, and not about to be.
StrandedAreFew == \A i \in Invoices : recorded[i] - (queued[i] + OnItsWay(i)) \in 0 .. faults

\* Whatever fails, each payment event of an invoice that the dispatcher will
\* not find (outbox.py:91-96) cost a fault: as long as none happens, every
\* event the agent or an approver has recorded is queued by its next call.
THEOREM EveryStrandedEventIsAFault == Spec => []StrandedAreFew
<1>1. EventsInv => StrandedAreFew
  <2> SUFFICES ASSUME EventsInv, NEW i \in Invoices
               PROVE  recorded[i] - (queued[i] + OnItsWay(i)) \in 0 .. faults
    BY DEF StrandedAreFew
  <2>1. faults \in Nat /\ recorded[i] \in Nat /\ queued[i] \in Nat
    BY EscalationAssumption DEF EventsInv, WorkInv, TypeInv, TypeOK
  <2>2. OnItsWay(i) \in {0, 1}
    BY DEF OnItsWay
  <2> QED
    BY <2>1, <2>2 DEF EventsInv, EventsOK
<1> QED
  BY <1>1, EventsInvAlways, PTL

\* A decision fails at one of its own calls or when the process dies.
LEMMA FailsAt ==
    ASSUME WorkInv, [Next]_vars, NEW j \in Requests, j.op \in Decisions, Fails(j)
    PROVE  /\ j \in Jobs /\ j.invoice \in Invoices
           /\ Transact(j) \/ Enqueue(j) \/ RemoveFromQueue(j) \/ Store(j) \/ Crash
<1>1. j \in current /\ current' = {} /\ TypeInv
  BY DEF Fails, WorkInv
<1>2. current = {j} /\ j \in Jobs /\ j.invoice \in Invoices
  BY <1>1, OnlyJob
<1>3. j.op # "submission"
  BY DEF Decisions
<1>4. ~UNCHANGED vars
  BY <1>1 DEF vars, loop
<1>5. pc # "idle"
  BY <1>1 DEF TypeInv, HandOK
<1>6. ASSUME NEW k \in Jobs, Work(k) PROVE k = j
  BY <1>2, <1>6 DEF Work, StoreEvaluation, SaveEscalation, AddToQueue, Answer, Transact, Enqueue,
                    RemoveFromQueue, Store, At
<1>7. ~(StoreEvaluation(j) \/ SaveEscalation(j) \/ AddToQueue(j) \/ Answer(j))
  BY <1>1, <1>3 DEF StoreEvaluation, SaveEscalation, AddToQueue, Answer, At, TypeInv, LabelOK
<1>8. Crash \/ \E k \in Jobs : Work(k)
  BY <1>4, <1>5 DEF Next, Deliver, Resume, Ask
<1> QED
  BY <1>2, <1>6, <1>7, <1>8 DEF Work

\* What a decision that fails has done to its item.
LEMMA FailureLeaves ==
    ASSUME EventsInv, [Next]_vars, NEW j \in Requests, j.op \in Decisions, Fails(j)
    PROVE  /\ StillOpen(j) \/ Effective(j) \/ Stranded(j)
           /\ j.op # "approve" /\ ~StillOpen(j) =>
                 \E kind \in {"misreported", "unanswered"} : <<"request", kind>> \in Faults
<1>1. WorkInv /\ TypeInv /\ j \in current
  BY DEF EventsInv, WorkInv, Fails
<1>2. current = {j} /\ j \in Jobs /\ j.invoice \in Invoices
  BY <1>1, OnlyJob
<1>3. /\ escalation \in [Invoices -> {"none"} \union Open \union Resolved]
      /\ recorded \in [Invoices -> Nat] /\ queued \in [Invoices -> Nat]
  BY <1>1 DEF TypeInv, TypeOK
<1>4. /\ j.op = "approve" =>
            /\ pc = "transact" => escalation[j.invoice] \in Open
            /\ pc = "enqueue" => escalation[j.invoice] = "approved"
            /\ pc = "unlist" => escalation[j.invoice] = "approved" /\ queued[j.invoice] > 0
      /\ j.op # "approve" /\ pc \in {"unlist", "store"} => escalation[j.invoice] \in Open
  BY <1>1 DEF WorkInv, InHandOK
<1>5. /\ pc \in {"transact", "enqueue"} => j.op = "approve"
      /\ pc = "unlist" => j.op \in {"approve", "reject"}
      /\ pc = "store" => j.op \in {"reject", "request_info"}
      /\ pc \in {"transact", "enqueue", "unlist", "store"}
  BY <1>1 DEF TypeInv, TypeOK, LabelOK, HandOK, PCs, Decisions
<1>6. /\ queued[j.invoice] <= recorded[j.invoice]
      /\ pc = "enqueue" => queued[j.invoice] + 1 <= recorded[j.invoice]
  <2>1. OnItsWay(j.invoice) \in {0, 1} /\ (pc = "enqueue" => OnItsWay(j.invoice) = 1)
    BY <1>2 DEF OnItsWay
  <2>2. queued[j.invoice] + OnItsWay(j.invoice) <= recorded[j.invoice]
    BY <1>2 DEF EventsInv, EventsOK
  <2> QED
    BY <1>2, <1>3, <2>1, <2>2
<1>7. CASE UNCHANGED <<escalation, recorded, queued>>
  <2>1. pc = "enqueue" => recorded[j.invoice] > queued[j.invoice]
    BY <1>2, <1>3, <1>6
  <2> QED
    BY <1>4, <1>5, <1>7, <2>1 DEF StillOpen, Effective, Stranded
<1>8. CASE Transact(j)
  <2>1. /\ queued' = queued
        /\ \/ UNCHANGED <<escalation, recorded>>
           \/ recorded' = Increment(recorded, j.invoice) /\ escalation' = Approved(j)
    BY <1>8 DEF Transact
  <2>2. j.op = "approve" /\ pc = "transact"
    BY <1>5, <1>8 DEF Transact, At
  <2>3. CASE recorded' = Increment(recorded, j.invoice) /\ escalation' = Approved(j)
    <3>1. recorded'[j.invoice] = recorded[j.invoice] + 1
      BY <1>2, <1>3, <2>3, IncrementTyped
    <3>2. recorded'[j.invoice] > queued'[j.invoice]
      BY <1>2, <1>3, <1>6, <2>1, <3>1
    <3>3. escalation'[j.invoice] = "approved"
      BY <1>2, <1>3, <2>2, <2>3 DEF Approved
    <3> QED
      BY <2>2, <3>2, <3>3 DEF Stranded
  <2> QED
    BY <1>7, <2>1, <2>3
<1>9. CASE Enqueue(j)
  <2>1. /\ escalation' = escalation /\ recorded' = recorded
        /\ queued' = queued \/ queued' = Increment(queued, j.invoice)
    BY <1>9 DEF Enqueue
  <2>2. j.op = "approve" /\ pc = "enqueue"
    BY <1>5, <1>9 DEF Enqueue, At
  <2>3. CASE queued' = Increment(queued, j.invoice)
    <3>1. queued'[j.invoice] = queued[j.invoice] + 1
      BY <1>2, <1>3, <2>3, IncrementTyped
    <3> QED
      BY <1>4, <2>1, <2>2, <3>1 DEF Effective
  <2> QED
    BY <1>7, <2>1, <2>3
<1>10. CASE Store(j)
  <2>1. PICK outcome \in Outcomes("request", WriteFaults) :
          /\ escalation' = IF Applied(outcome)
                           THEN [escalation EXCEPT ![j.invoice] = NewStatus(j.op)] ELSE escalation
          /\ Finish(j, IF Succeeds(outcome) THEN j.op ELSE "error")
    BY <1>10 DEF Store
  <2>2. /\ pc = "store" /\ j.op \in {"reject", "request_info"}
        /\ recorded' = recorded /\ queued' = queued
    BY <1>5, <1>10 DEF Store, At
  <2>3. CASE ~Applied(outcome)
    BY <1>7, <2>1, <2>2, <2>3
  <2>4. CASE Applied(outcome)
    <3>1. escalation'[j.invoice] = NewStatus(j.op)
      BY <1>2, <1>3, <2>1, <2>4
    <3>2. StillOpen(j) \/ Effective(j)
      BY <2>2, <3>1 DEF NewStatus, StillOpen, Effective, Open
    <3>3. ~Succeeds(outcome)
      <4>1. told' = [told EXCEPT ![j.invoice] = IF Succeeds(outcome) THEN j.op ELSE "error"]
        BY <2>1, <2>2 DEF Finish, Tell, Decisions
      <4>2. told'[j.invoice] = "error"
        BY DEF Fails
      <4>3. told \in [Invoices -> {"none", "refused", "error"} \union Decisions]
        BY <1>1 DEF TypeInv, TypeOK
      <4> QED
        BY <1>2, <2>2, <4>1, <4>2, <4>3
    <3>4. outcome \in {"misreported", "unanswered"}
      BY <2>4, <3>3 DEF Applied, Succeeds
    <3>5. <<"request", outcome>> \in Faults
      BY <3>4 DEF Outcomes
    <3> QED
      BY <3>2, <3>4, <3>5
  <2> QED
    BY <2>3, <2>4
<1>11. RemoveFromQueue(j) \/ Crash => UNCHANGED <<escalation, recorded, queued>>
  BY DEF RemoveFromQueue, Crash, store
<1> QED
  BY <1>1, <1>7, <1>8, <1>9, <1>10, <1>11, FailsAt

\* A decision that is answered with an error, or whose handler dies, leaves
\* one of three things, whichever call failed and however: the item is open, so
\* that the same call can be repeated; or it is what it was to become, and the
\* event of an approval is queued; or the decision was an approval, it failed
\* at its transaction or at the queue update after it, and the item is approved
\* with an event that is in no queue and will not be published, while
\* repeating the call is refused (escalation.py:108-135).
THEOREM OnlyApprovalsAreLeftHalfDone == Spec => [][FailureIsOneOfThree]_vars
<1>1. EventsInv /\ [Next]_vars => [FailureIsOneOfThree]_vars
  BY FailureLeaves DEF FailureIsOneOfThree
<1> QED
  BY <1>1, EventsInvAlways, PTL DEF Spec

\* What escalation.py:111-114 says, where it is so: as long as no write of a
\* request that was applied is reported as failed or goes unanswered, a failed
\* rejection or question leaves the item open, a restart included.
THEOREM FailedRejectionIsOpen ==
    ASSUME <<"request", "misreported">> \notin Faults, <<"request", "unanswered">> \notin Faults
    PROVE  Spec => [][NothingDone]_vars
<1>1. EventsInv /\ [Next]_vars => [NothingDone]_vars
  BY FailureLeaves DEF NothingDone, Decisions
<1> QED
  BY <1>1, EventsInvAlways, PTL DEF Spec
=============================================================================
