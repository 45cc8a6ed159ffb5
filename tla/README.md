# Verification of approval-flow

TLA+ models, TLC runs and TLAPS proofs for the expense approval system in this
repository: an invoice is submitted through a gateway, evaluated by an agent,
approved automatically or by a human, and paid by a saga. Paths below are
relative to the repository's root.

## 1. The system

All services are Python (FastAPI) processes behind Dapr sidecars. They share
one Redis, used as a key-value state store with ETags and transactions and as a
pub/sub broker that delivers at least once. `docker-compose.yml` runs one
replica of each service and restarts it when it dies.

| component | durable state | operations |
|---|---|---|
| outbox (`approval_agent/outbox.py`, poller in `main.py:32-46`) | `outbox:<id>` records, `outbox_queue` | `enqueue_with_state`, `_mutate_queue`, `dispatch_pending` |
| payment saga (`payment_service/main.py`, `dapr_client.py`) | `payment:<tracking id>` | `handle_payment`, `charge_payment`, `publish_outcome` |
| escalations (`approval_agent/escalation.py`) | `escalation:<tracking id>`, `escalation_queue` | `save_escalation`, `resolve_decision`, `submit_additional_info`, `list_open_escalations` |
| agent router (`approval_agent/main.py:102-175`) | `invoice_evaluation:<tracking id>` | `handle_invoice_event`, `handle_payment_outcome`, `get_status` |
| evaluation (`approval_agent/agent.py`) | none; reads the policy from the config store | hard stops, autonomy ceiling, model call, guardrail |
| ingestion (`ingestion_service/`) | `dup-...` fingerprints | `submit_invoice`, background publication |
| policy retrieval (`approval_agent/policy_rag.py`) | none | `retrieve_relevant_rules` |
| gateway (`gateway_service/main.py`, `bulkhead.py`) | bulkhead counters, in memory | `invoke`, routes, rate limits |
| accounts (`gateway_service/auth.py`, `users_store.py`) | `user:<name>`, `pending_users_queue` | the start-up's administrator, `register`, `authenticate`, `decide_pending_user` |
| web UI (`services/ui/src`) | component state | submit, list, decide, answer |

How they interact. Ingestion publishes `submitted-invoices`; the agent router
consumes it and either commits an evaluation and a `payment-required` event
through the outbox, or stores the evaluation and an escalation. An approver's
decision reaches `resolve_decision` through the gateway and, if it approves,
uses the same outbox. The payment service consumes `payment-required` and
publishes `invoice-completed`, which the agent router merges into the
evaluation for `get_status` to report.

What is hard here:

* **Concurrency.** In `approval-agent` the event loop and the dispatcher, run
  in a worker thread, write the same queue key. Other handlers interleave only
  at their few awaits.
* **Partial failure.** Each operation is several calls to the sidecar, and each
  call can be refused, time out after being applied, or report an error though
  it was applied. Reads have a fault of their own: most of the code treats an
  error status like a missing key.
* **Redelivery.** Topics deliver again whatever was not acknowledged, and the
  dispatcher itself may publish an event twice.
* **Crashes** between any two calls. Nothing is recovered at start-up: what a
  half-finished operation left behind must be found by redelivery or by the
  poller.

What makes each part correct:

* outbox: an event whose enqueue returned reaches the broker; none is forged;
  the queue is an index without duplicates.
* payment: at most one charge; the outcome announced is what happened; every
  reservation ends.
* escalations: an open item is in the approvers' list, a decision stands, an
  approval is paid once, and a failed decision can be repeated.
* agent router: every accepted submission is evaluated or escalated, once.
* evaluation: nothing above the ceiling, below the threshold or hit by a hard
  stop is approved automatically.
* retrieval: the model sees the rules that match best, and never none by mistake.
* status report: what a submitter is told about money is so, and what he was
  told as final stays so.
* ingestion: an invoice is accepted once, and an accepted one is published.
* gateway: as many slots are in use as calls are under way, at most the limit.
* accounts: only an approved account gets a token; a pending one is listed;
  there is an administrator who can log in after every start-up.
* the approver's page: a decision it was told of is the one that counts, and a
  decided item is not offered again.

## 2. Modules

| module | stands for |
|---|---|
| `OutboxContract` | what the outbox promises its callers (abstract) |
| `Outbox` | `outbox.py` and its poller, call by call, with faults |
| `MCOutbox` | values for the constants, fault sets of the runs |
| `OutboxProofs` | theorems about `Outbox` |
| `PaymentLedger` | what the payment service promises about money (abstract) |
| `PaymentSaga` | `handle_payment` and `dapr_client.py`, call by call, with faults |
| `MCPaymentSaga` | values for the constants, fault sets of the runs |
| `PaymentProofs` | theorems about `PaymentSaga` |
| `Review` | the life cycle of an invoice that may need a human (abstract) |
| `Escalation` | `handle_invoice_event`, `escalation.py` and the decision endpoints, call by call, with faults |
| `MCEscalation` | values for the constants, fault set of the run |
| `EscalationProofs` | theorems about `Escalation` |
| `Ingestion` | `submit_invoice` and its `dapr_client.py`, call by call, with faults |
| `MCIngestion` | values for the constants, fault set of the run |
| `IngestionProofs` | theorems about `Ingestion` |
| `Enrolment` | what the gateway promises about accounts and tokens (abstract) |
| `Accounts` | the start-up, the `/auth` routes and `users_store.py`, call by call, with faults |
| `MCAccounts` | values for the constants, fault sets of the runs |
| `AccountsProofs` | theorems about `Accounts` |
| `Evaluation` | `agent.py` and `policy_rag.py`, as operators |
| `RetrievalProofs` | theorems about the ranking of rules in `Evaluation` |
| `ApprovalFlow` | submission to outcome: `Evaluation`, `Review` and `PaymentLedger` composed with `handle_invoice_event`, `handle_payment_outcome` and `get_status` |
| `MCApprovalFlow` | values for the constants, fault sets of the runs |
| `ApprovalFlowProofs` | theorems about `ApprovalFlow` |
| `Gateway` | routes, bulkheads and `invoke`, with several calls in progress |
| `ApproverDesk` | an approver's page, other users and colleagues, working through `Gateway` |
| `MCApproverDesk` | the symmetry of the run |
| `ApproverDeskProofs` | theorems about `Gateway` and `ApproverDesk` |

`Outbox`. `record` and `queue` are the two kinds of key, `queueKey` says whether
the queue's key was ever written (a key that was not has no ETag). A thread's
local variables are `pc`, `work`, `view`, `etag` and `tries`. The ETag is
abstracted to whether it still is the key's. Every action is one call to the
sidecar together with the code up to the next call:

| action | code (`outbox.py`) |
|---|---|
| `CommitTransaction` | 68-93, the transaction |
| `GetQueue`, `SaveQueue` | 43-65, one attempt of `_mutate_queue`, run by either thread |
| `StartTick` | 104-106, the snapshot of the first `MaxBatch` ids |
| `GetRecord` | 107-110 |
| `Publish` | 112-118 |
| `BumpAttempts` | 118-125 |
| `MarkDispatched` | 127-128 |
| `Crash` | the container dies and is restarted |

The attempt counter of a record is not modelled (nothing reads it), nor are
payloads, traces and the half second of sleep between attempts. `told` is what
the caller of `enqueue_with_state` knows: this is what the contract is about.

`PaymentSaga`. `sent` and `waiting` are the topic, `payment` the stored saga
state, `charges` and `outcomes` what the outside world has seen. `pc` and
`current` are the handler, which has no await after its body is read, so one
delivery is handled at a time. A message carries whether its notes make the
gateway decline. The actions follow `handle_payment`: `Deliver` (42-73),
`Reserve` (75-84), `Charge` (26-29, 86-88), `Settle` (89-110), `Announce`
(`dapr_client.py:44-53`), `Answer`.

`Escalation`. `submission` and `deliveries` are the topic; `evaluation`,
`escalation`, `listed`, `recorded` and `queued` the store: the two records of an
invoice, the approvers' queue, and its payment events, all of them and those
whose id is in the outbox queue. `told` is what the last decision on an item
was answered; asking again withdraws the answer. The handlers share one event
loop and block it, except that `handle_invoice_event` gives way while its
evaluation is being stored (`main.py:153`). So the state has one handler at
work (`pc`, `current`) and any number of `paused` ones.

| action | code (`main.py`: M, `escalation.py`: E, `outbox.py`: O) |
|---|---|
| `Deliver` | M 102-132, up to the first call after the agent's verdict |
| `StoreEvaluation`, `Resume` | M 122-159, the await and what follows it |
| `SaveEscalation`, `AddToQueue` | E 75-86 |
| `Answer` | M 175 |
| `Transact`, `Enqueue` | O 68-96, called from M 141 and from E 122 |
| `Ask` | E 105-109 and 148-152, the request and the look at the record |
| `RemoveFromQueue` | E 128 and 132 |
| `Store` | E 133-134, 138-139, 155-156 |
| `Crash` | the container dies and is restarted |

`AfterFailure` is where the handlers differ: a write reported as failed raises
an `OutboxError` or `EscalationError`, which `handle_invoice_event` logs before
it acknowledges the event; no answer at all raises an exception of `requests`,
which it does not catch, so that the event is delivered again. The agent's
verdict is any verdict, and may differ between deliveries. A run of
`_mutate_queue` is one call here: the event loop is the only writer of the
escalation queue, and its race with the dispatcher on the outbox queue is what
`Outbox` is about. Left out are the content of invoices, the approver's notes
and the merging of additional information.

`Ingestion`. `invoice[s]` is what the submission with tracking id `s` is of and
`answer[s]` what it was answered; `fingerprints` are the `dup-` keys, `tasks`
the publications still to run in a worker thread, `published` the topic.
`CheckDuplicate` is `main.py:34-56`, `SaveFingerprint` is `main.py:59-75` with
`dapr_client.py:27-39`, `Publish` is `dapr_client.py:41-57`. Vendor and number
are sequences of words, read up to a hyphen: joining them with hyphens is
concatenation, and as lossy. Rate limits and validation turn requests away
before any of this and are left out, and so is what a URL does to a key.

`Accounts`. `account` and `listed` are the store; `confirmed` (names answered
with 201) and `granted` (registrations an administrator asked to approve) are
histories; a token carries the account as it stood at log-in. The handlers of
the `/auth` routes make no await, so one is at work (`pc`, `current`), and the
start-up is one more.

| action | code (`gateway_service/main.py`: M, `auth.py`: A, `users_store.py`: U) |
|---|---|
| `Boot`, `FailedAttempt` | M 109-126, the look at the name and the next attempt |
| `Register` | M 140-150, A 33-50, up to the first write |
| `CreateUser`, `Enlist` | U 34-53 and 73-93, A 52-56 |
| `Decide` | M 164-175, A 79-86 |
| `UpdateStatus`, `Unlist` | U 56-62 and 96-97 |
| `LogIn`, `Expire` | M 178-187, A 59-106 |
| `Crash` | the container dies and is restarted |

Hashing and signing are taken to work: a password is compared, a token cannot
be made up.

`Evaluation` is pure: `Evaluate` is `process_invoice_evaluation` (`agent.py:98-188`),
`LoadPolicy` is the two outcomes of `load_policy` (48-83), `Retrieve` the ranking, the cut and the
fall-back to the whole handbook (`policy_rag.py:79-104`) for any rating of the
rules. The model may answer anything. A confidence that is not finite is left
out: `requests` refuses to send it as JSON, so the handler raises before it has
stored anything, and the event comes again.

`ApprovalFlow` puts an invoice's journey together. The human's review is
`Review` and the payment is `PaymentLedger`, both by `INSTANCE`: the modules
`Escalation` and `PaymentSaga` show that the code implements them. The three
handlers that share the evaluation record are modelled with each await a place
where others go on:

| action | code (`approval_agent/main.py`) |
|---|---|
| `Deliver` | 102-153, with `agent.py`, up to the await or, if cleared, to the end |
| `Store`, `Escalate` | 151-175 |
| `RecordRead`, `RecordSave` | 82-100, before and after the record is read |
| `AskStatus`, `ReadEvaluation`, `Report` | 224-281, at the two reads |
| `Decide` | 195-221 |
| `Pay` | payment-service |
| `Crash` | the agent dies and is restarted |

`grounds` (why payments were recorded), `prompt` and `answer` are histories the
properties speak of; `blurred` marks a status request one of whose reads was
answered with an error status.

`Gateway` has a call in one of a few phases. It is suspended while its body is
read and while the service works on it; taking and giving back a slot are one
step each, because `bulkhead.py` awaits nothing under its lock.

| action | code (`gateway_service/main.py`, `bulkhead.py`) |
|---|---|
| `Arrive` | 71-76, `require_role`, `try_enter` |
| `Forward`, `Disconnect` | 78-83, the body is there, or the client is gone |
| `Return`, `GiveUp`, `Leave` | 83-101, `exit` |
| `Restart` | the container dies and is restarted |

A rate limit and an expired token refuse like a role that is not allowed.

`ApproverDesk` adds `ApproverView.jsx` and `api.js`: `Load` and `ReceiveList`
are 23-33, `Act` and `ReceiveDecision` 39-54, before and after their awaits.
`Serve` is the service's side (`escalation.py:89-140`) as a caller sees it. A
decision that the gateway gave up and the service still takes up is the same
step as a colleague's. The submitter's answers may change the invoice after the
approver's list was loaded (`escalation.py:154`); here only the status counts.
The page is not reloaded: `confirmed` is what this page was told.

Faults are named by what the caller sees and what the store did. Each call
picks its outcome from the kinds in `Faults`, up to `MaxFaults` in a behaviour.
One kind is left out of all of them: a request that times out is applied by
then or never, not later.

## 3. Runs

| run | constants | what it shows |
|---|---|---|
| `outbox_faults` | 3 events (1 always refused), batch 2, 2 attempts, 2 faults | seven properties with every fault but `read_status` |
| `outbox_orphan` | 2 events, 1 crash | violated: a committed event is not always delivered |
| `payment_faults` | 2 invoices, 2 events each, 2 faults | seven properties with every fault but `read_status` |
| `payment_dangling` | 2 invoices, 1 crash | violated: a reservation is left for ever |
| `payment_error_status` | 2 invoices, 2 events, 1 misread | violated: an invoice is charged twice |
| `escalation_faults` | 2 invoices, 2 faults | six properties with every fault but a submission's write that is reported as failed |
| `ingestion_faults` | 4 submissions of 3 invoices, 2 faults | five properties with every fault but a misread look-up |
| `accounts_faults` | the administrator and 1 more name, 2 passwords, 2 attempts, 3 faults | five properties with every fault but misread look-ups |
| `accounts_way_in` | the administrator's name alone, 2 passwords, 2 attempts, 3 faults | violated: a start-up in which nothing fails ends with an administrator |
| `flow_limits` | 1 invoice of 6 kinds, 1 delivery, no fault | violated: the agent approves nothing above 250, below 0.80 or hit by a hard stop |
| `flow_journey` | 1 invoice of 6 kinds, 2 deliveries, 2 rules, 1 shown, 1 fault | six properties with every fault |
| `gateway_desk` | 2 items, 2 calls at a time, 1 slot a service | four properties, safety only |

Bounds. Three events let one be enqueued while the dispatcher has two in hand,
and one more than the batch. Two attempts are enough for one conflict to be
overcome and for two to exhaust them. Two faults are one that starts a retry
and one that disturbs it (a write applied but reported as failed, then a
crash). In the payment runs two events per invoice give both a duplicate event
and a contradicting one, and two invoices that nothing leaks from one to the
other. In `escalation_faults` two faults are, for instance, a submission whose
acknowledgement is lost and an approval that fails half-way; two invoices let
one be decided while the handler of the other is paused. The set of faults
there leaves out the writes that `main.py:148` and `:172` report only to the
log: with one of them `SubmissionIsTakenUp` does not hold, and no document
claims it. The safety properties do hold with them, as the proofs show. Four
submissions in `ingestion_faults` are enough for one invoice to fail half-way,
to be submitted again and once more, and for one that shares its fingerprint;
the three invoices are such a pair and one that differs in its total only.

In `accounts_faults` the second name is needed for somebody who is neither the
administrator nor approved at once, and either name can be registered, rejected
and registered again with another password; three faults are a registration
that fails half-way, its repetition that fails too, and a crash. Two attempts
of the start-up let the first be applied without an answer and the second find
the name taken; three faults are also a start-up whose two attempts fail and a
crash, after which `StartsWithAdmin`, which counts the faults of each start-up
anew, asks the next one for an administrator. In `flow_journey` the stored
ceiling (200) lies below the fallback's (250); the invoices are at the stored
ceiling, at the fallback's and just above both, and three more at the stored
ceiling are each hit by one hard stop, so that nothing but the stop keeps the
agent from paying them. The model's confidences are at and just below the
threshold, and two rules with
one shown give every case of the ranking. Two deliveries let one handler
overwrite what the other, a human or the payment has done since. Nothing in
this module relates two invoices, and its proofs are for any number of them.
In `gateway_desk` one slot lets one call hold what another is refused, and the
page's own two calls (a decision and a list, or two lists) overlap. The other
users' routes leave out `escalations` and `decide`, whose effects are those of
`Colleague`. The proofs below hold for every value of these bounds.

Fairness. In `Outbox` each thread continues: a call under way is answered or
times out (all have a time-out) and the poller's loop never ends
(`main.py:36-46` catches everything). Crashes and faults are never fair, and
nobody has to enqueue. In `PaymentSaga` a waiting message is delivered and a
handler continues: this is the broker's at-least-once promise. In `Escalation`
a call under way is answered or times out (weak fairness of `Work`), and a
delivery or a paused handler is not passed over for ever, however many requests
arrive (strong fairness of `Deliver` and `Resume`: they are enabled only
between handlers, and asyncio runs what is ready in the order it became ready).
No fairness makes anybody decide. In `Ingestion` a call ends and a background
task gets its thread: both are bounded by the time-out of two seconds. In
`Accounts` a call under way is answered or times out; nobody has to register,
decide or log in. In `ApprovalFlow` only the record of an outcome is fair: the
broker delivers it until it is acknowledged, and its handler's calls end.
`ApproverDesk` states no fairness and only safety properties. Since
faults are bounded, liveness says: if faults stop, the promise is kept.

`CHECK_DEADLOCK FALSE` appears in the runs of `Escalation`, `Ingestion`,
`Accounts` and in two of `PaymentSaga`: these services rest when every event is
acknowledged and nobody asks for anything, and the gateway's accounts when all
names are taken and no administrator holds a token. The other runs check that
there is always a step.

The violated properties are disagreements between code and documentation:

* `CommittedIsPublished`: `outbox.py:73-74` promises delivery of every committed
  transaction, but the queue update is a separate, later call.
* `NoReservationLeft`: `ARCHITECTURE.md:149` says no reservation is left, but
  the duplicate check acknowledges the redelivered event.
* `AtMostOneCharge` with `read_status`: `get_payment_state` takes every answer
  but 200 for an absent key.
* `AlwaysAWayIn`: `gateway_service/main.py:111-112` says that a start-up ensures
  a way into the system, and that it is a no-op later because the account
  already exists. It takes any account of that name for its own. When all its
  attempts fail the gateway serves all the same, and somebody may register the
  name; no later start-up then makes an administrator, and nobody can decide
  the registration that is in the way.
* `AgentObeysEveryLimit`: `README.md:158-160` says that the agent approves only
  up to 250, from 0.80 on, and when no hard stop applies. The policy that is
  used when none can be loaded lists no hard stop (`agent.py:61`, `83`), so an
  invoice without a receipt, of an unknown vendor or with lines that do not add
  up is paid.

Two disagreements have no run of their own. `escalation.py:111-114` and
`ARCHITECTURE.md:178-180` say that a decision which failed can be repeated,
because the status is changed last. An approval changes it first, in the
transaction, and if the outbox queue or the escalation queue cannot be updated
then, the approver gets an error and the repeated call is refused as already
resolved. What is left behind is the state `outbox_orphan` shows, and
`OnlyApprovalsAreLeftHalfDone` proves that a failed decision can end in no other
way. `ARCHITECTURE.md:171-173` says that a repeat is refused; two different
invoices may come to one fingerprint too (vendor `acme-east`, number `7` and
vendor `acme`, number `east-7`), for vendor and number are joined with a hyphen
they may contain themselves, and `RefusedForAReason` promises no more than one
fingerprint.

`get_record` and `_get_queue` of the outbox, `_get_queue` of the users store and
ingestion's look-up read an error status the same way. There the fault sets of
the passing runs leave it out, and the theorems name it where they need its
absence; it loses an event, takes names off the administrator's list, lets an
account be replaced, or accepts an invoice twice.

Two properties of the flow say what a second delivery may do, since at-least-once
topics make one: `AnswersStand` and the last case of `AnswersAgreeWithMoney` are
about a submission delivered once. Evaluating an invoice anew replaces its
evaluation, outcome of the payment included (`main.py:122-159`), and may put a
decided item before a human again.

`PaidOnGrounds` holds each of the agent's payments to the policy that delivery
had loaded, the stored one or the fallback; what the fallback leaves out is
what `AgentObeysEveryLimit` shows. Of the five hard stops in the list the code
looks for three.

## 4. Proofs

TLAPS checks these for every set of events or invoices, every bound and every
set of faults the assumptions of the modules allow.

| theorem | statement |
|---|---|
| `TypeCorrect`, `NoDuplicateIds`, `DispatchedIsPublished`, `DispatchedStays` | type correctness and three safety properties of the outbox, with every fault |
| `EnqueuedNeverLost` | `NoLostEvent`, if `"read_status" \notin Faults` |
| `ImplementsContractSafely` | the outbox implements the contract's safety part, with every fault |
| `StarvationIsForever` | once the first `MaxBatch` ids are refused ones, nothing is published ever after, if `"read_status" \notin Faults` |
| `FewRefusalsNeverClog` | it takes `MaxBatch` refused events to get there, with every fault |
| `PaymentTypeCorrect` | type correctness of the saga, with every fault |
| `ChargedAtMostOnce`, `AnnouncedTruthfully`, `SagaNeverGoesBack`, `SagaImplementsLedger` | if `"read_status" \notin Faults` |
| `EveryExtraChargeIsAFault`, `EveryDanglingReservationIsAFault` | `charges[i] <= 1 + faults`, and no more reservations left behind than faults, with every fault |
| `PaidMeansCharged` | nothing is recorded or announced as paid that was not charged, with every fault |
| `EscalationTypeCorrect`, `DecisionsAnsweredTruly`, `EventsAreLimited`, `DecisionsAreFinal`, `AgentImplementsReview` | type correctness, `AnswersAreTrue`, `OneEventPerDelivery`, `DecisionsStand` and the refinement of `Review`, with every fault |
| `OnlyApprovalsAreLeftHalfDone` | a failed decision has left the item open, or has taken full effect with its event on the way to the dispatcher, or is an approval stranded at the outbox, with every fault |
| `EveryStrandedEventIsAFault` | an invoice's events that are neither queued nor about to be are no more than the faults so far, with every fault |
| `FailedRejectionIsOpen` | a failed rejection or question leaves the item open, if no request's write is `misreported` or `unanswered` |
| `IngestionTypeCorrect`, `PublishedAreRemembered`, `RefusalsHaveReasons` | type correctness and two safety properties of ingestion, with every fault |
| `AcceptedAtMostOnce` | `AcceptedOnce`, if `"check_misread" \notin Faults` |
| `EveryRepeatIsAFault` | an invoice is accepted `1 + faults` times at most, with every fault |
| `AccountsTypeCorrect`, `TokensAreGranted` | type correctness and `NoTokenWithoutApproval`, with every fault |
| `ConfirmedAreShown` | `PendingIsShown`, if `"queue_misread" \notin Faults` |
| `AccountsImplementEnrolment` | the refinement of `Enrolment`, if `"user_misread" \notin Faults` |
| `StartUpsAreExplained` | a start-up ends without an administrator only when all its attempts failed or another account has the name, with every fault |
| `FlowTypeCorrect`, `ToldAboutMoneyIsSo`, `NothingPaidWithoutGrounds`, `FinalAnswersStand` | type correctness, `AnswersAgreeWithMoney`, `PaidOnGrounds` and `AnswersStand`, with every fault |
| `BetterRulesAreShown`, `PromptIsFullOrComplete` | a rule that is shown matches at least as well as one that is not; the whole handbook is shown, or `TopK` rules one of which has a word in common |
| `PromptsShowTheBest` | `PromptShowsWhatApplies`, for every handbook and policy, with every fault |
| `DeskTypeCorrect`, `SlotsAreCounted`, `ConfirmedDecisionsStand`, `DecidedAreNotOffered` | type correctness (which bounds the counters), `SlotsAreCalls`, `ConfirmedIsDecided`, `DecidedIsNotOffered` |

The assumption on `read_status` cannot be dropped: `payment_error_status` is a
counterexample without it, and the other misread look-ups are the same fault.

The argument for the outbox has three tiers. `TypeInv` adds to the types that a
thread between two calls has an event in hand and that lists are without
duplicates. `RecordInv` adds that everything in the queue, in a view of it or in
hand has a record, and that the dispatcher's branch agrees with the record and
the broker. `SafeInv` adds that the copy a thread is about to write is either
the queue itself or carries an ETag that is stale, except for the first write
of the key, which the other thread cannot race because it has nothing to remove;
so a write never drops an id someone else added. `NoLostEvent` alone is not
inductive: it says nothing about copies under way.

The limit of a tick is a second argument about the same state. `LimitInv` adds
that nothing refused was published. An id leaves the queue only after it was
published, so the refused ones keep their places whoever saves the queue
(`WithoutKeepsPlaces`, `AddKeepsPlaces`), and a tick takes only them in hand
(`StartTickStarved`). The bound is a count: the queue has no duplicates, so its
first `MaxBatch` places hold as many different ids.

For the saga, `MoneyInv` adds to the properties what the handler knows after
each call (`InHandOK`): the invoice in hand has no record before it is reserved,
is reserved and uncharged before the charge, and so on. `SagaNeverGoesBack` and
`SagaImplementsLedger` follow from the invariant and one lemma on steps,
`StepImplements`.

`MoneyInv` does not hold with misread look-ups. `AnywayInv` is what does: a
handler that is going to charge has been charged for at most as often as there
were faults, because to get there a second time it had to misread the record.
`Dangling` is the set of reservations no handler is about to settle; a step adds
one element at most, and then it counts a fault (`HandlerLeaves`,
`CrashLeaves`). This is what is left of the claim that `payment_dangling`
violates: without a fault there is none.

For the agent, `WorkInv` says that the status a handler has read or written is
still there at its next call, because nothing runs in between, and from this
`AnswersAreTrue` follows. `OneEventPerDelivery` needs a budget (`BudgetOK`): the
deliveries of an invoice are at least its payment events plus those it is still
owed, and a delivery is owed for while its handler is deciding or paused, or
while the item it escalated is open. An approval spends what the open item is
worth, so repeating it after a failure cannot record a second event.
`EscalationSteps` sorts the steps by what they do to an item; `DecisionsAreFinal`
and `AgentImplementsReview` follow from it.

What becomes of a decision that fails is settled by going through the calls at
which one can (`FailsAt`). An approval that fails once its status is stored
cannot be repeated, and whether its event will be published hangs on the outbox
queue. `WorkInv` says that an approval past the outbox has its event queued, and
`EventsInv` counts: the events recorded of an invoice are those queued, one more
if its queue update is the next call, and at most as many others as there were
faults. So `OnlyApprovalsAreLeftHalfDone` needs a third case only for an
approval that fails at the outbox. That case is real: it is the hazard of
`outbox.py:95`, and the reason why `escalation.py:111-114` is true of rejections
and questions only (`FailedRejectionIsOpen`).

For ingestion, `StoreInv` says what a stored fingerprint means: it belongs to a
submission that was accepted or failed. `OnceInv` adds that the submission at
work is new (`FreshOK`), which lasts until it is recorded because
`submit_invoice` makes no await in between. With misread look-ups it is not new,
and `EveryRepeatIsAFault` counts: the submissions of one fingerprint accepted so
far are a finite set of at most `1 + faults`.

For accounts, `GrantInv` says what the handler at work holds: a verdict in hand
is about the account as it is, which lasts because nothing else runs, and an
approval in hand is already among those granted. An approved account is then
the start-up's or a granted one, and so is a token. `PendingIsShown` needs that
a registration withdraws `confirmed` before it is listed anew. The refinement
of `Enrolment` needs besides that the name a handler is about to take is still
free (`FreshOK`).
For the start-up, `AdminInv` adds that an administrator's account is approved,
because it was made so and verdicts are about pending accounts; so a name that
is not free when the start-up looks is an administrator who can log in, or
somebody else, and what is left are attempts that failed.

For the flow, `FlowInv` is one formula about an invoice, `Local`, for every
invoice, in parts: `Once` (what a single delivery may have led to), `Ordered`
(a payment follows an order, and a charge decides how it ends), `Justified`
(every order has a ground its policy allows), `Recorded` (what the evaluation
says of the payment has happened), `Answered` (an answer was so and still is)
and `Steady` (with one delivery a recorded outcome stays). Handlers hold copies
across awaits, so the parts speak of the copies as well as of the record. Each action has a
lemma for the invoice it is about; `Kept` takes care of all others.

For retrieval, the order of the rules is strict and total on finitely many, so
counting the rules above each one numbers them from 0 without a gap: that is a
bijection (`PlacesAreABijection`), and hence exactly `TopK` of them, or all, are
numbered below `TopK`. No induction over the handbook is needed. `PromptInv`
carries this to the prompts of the journey.

For the gateway, every step is a stutter, a restart or a move of one call
(`Moves`), and a move changes the counter by as much as it changes the set of
holders: facts about the cardinality of finite sets. For the page, `CallOK`
says that a call nobody makes carries no reply (`Silent`), that a decision
answered as taken has settled its item (`Told`), and that the list given to the
last load, while it is the only one, has no item the page knows to be decided
(`Fresh`): `act` begins its load after it was told, and no other list can
arrive late.

Only model-checked: everything under fairness (`DispatchedLeavesQueue`,
`RequestIsTakenUp`, `ReservedIsAnnounced`, `SubmissionIsTakenUp`,
`PassedIsPublished`, `StartsWithAdmin`, `OutcomeIsRecorded`, the liveness half
of `ImplementsContract`), which this prover does not reach; of
`StartsWithAdmin`, `StartUpsAreExplained` proves how a start-up can end, and the
run adds that it ends. Every safety and action property of a passing run is
proved.

## 5. Not modelled

* How words are weighed (TF-IDF and cosine in `policy_rag.py`): arithmetic on
  floats whose only effect is the rating, which is any rating here.
* How a provider turns the model's reply into an answer (`llm_providers.py`): the answer is
  any answer, and a provider that raises is `NoAnswer`.
* The views of submitter and administrator. The administrator's lists and acts
  with the same code as the approver's; the submitter's shows what the last
  answer said, and what an answer may say is `ApprovalFlow`'s.
* What an invoice contains once it is amended, and the approver's notes.
* Writes that reach the store after their caller's time-out: they need a store
  with requests of its own, and every read between is then in question. The
  hazard is listed.
* How URLs are read: a key with `#` or `?` is looked up under another name than
  it is stored. The model takes both for one key, the hazard is listed.
* Secrets, logging and tracing: no decision depends on them.
* Dapr components and deployment: their meaning (at-least-once topics, ETags,
  one restarted replica per service) is built into the modules.
* Verification scripts, the evaluation harness and CI: test drivers.

Worth adding: two approvers' pages at one desk, with reloads; a policy that
changes between two deliveries as a value of its own; and the composition of
`Ingestion` with `ApprovalFlow`, whose link is the topic alone. The hazards
without a property are in `PROJECT.json`, each with its reason.
