------------------------------- MODULE Outbox -------------------------------
(***************************************************************************)
(* The transactional outbox of approval-agent (outbox.py) and the poller   *)
(* that empties it (main.py, start_outbox_dispatcher).                     *)
(*                                                                         *)
(* Two threads of one process work on the same two kinds of key of the     *)
(* Dapr state store: the event loop, which runs enqueue_with_state to its  *)
(* end without giving way to another request, and the dispatcher, which    *)
(* asyncio.to_thread runs in a worker thread.  Each call to the sidecar is *)
(* one action, and each may fail in the ways Faults names.                 *)
(*                                                                         *)
(* A request that times out is applied by the time its caller gives up, or *)
(* never.  An outbox id is a fresh uuid4, so each is enqueued once.        *)
(***************************************************************************)
EXTENDS Naturals, Sequences, FiniteSets, SequencesExt

CONSTANTS Events,     \* outbox ids
          Rejected,   \* events the broker refuses on every attempt
          MaxBatch,   \* events a tick takes from the queue (20 in the code)
          Attempts,   \* writes _mutate_queue tries (5 in the code)
          Faults,     \* the kinds of fault that may happen
          MaxFaults   \* bound on how many faults happen

ReadFaults == {"read_status",  \* answered with an error status
               "read_raised"}  \* no answer: requests raises

WriteFaults == {"write_refused",      \* error status, not applied
                "write_misreported",  \* error status, applied nevertheless
                "write_lost",         \* no answer, not applied
                "write_unanswered"}   \* no answer, applied

PublishFaults == {"publish_refused",     \* error status, not accepted
                  "publish_unanswered"}  \* no answer, accepted

ASSUME OutboxAssumption ==
    /\ Rejected \subseteq Events
    /\ MaxBatch \in Nat \ {0}
    /\ Attempts \in Nat \ {0}
    /\ Faults \subseteq ReadFaults \union WriteFaults \union PublishFaults \union {"crash"}
    /\ MaxFaults \in Nat

Loop       == "loop"
Dispatcher == "dispatcher"
Threads    == {Loop, Dispatcher}

VARIABLES
    record,     \* record[e]: the status field of the key outbox:<e>
    queue,      \* the list under the key outbox_queue
    queueKey,   \* whether that key was ever written
    published,  \* events the broker has accepted
    told,       \* told[e]: what the caller of enqueue_with_state knows of e
    pc,         \* pc[t]: the call thread t makes next
    work,       \* work[t]: the events t has in hand, the current one first
    view,       \* view[t]: the queue as t last read it in _mutate_queue
    etag,       \* etag[t]: the ETag that came with view[t]
    tries,      \* tries[t]: failed attempts of the current _mutate_queue
    faults      \* faults so far

store == <<record, queue, queueKey>>
mutation == <<view, etag, tries>>
vars == <<record, queue, queueKey, published, told, pc, work,
          view, etag, tries, faults>>

Statuses == {"absent", "pending", "dispatched"}
Tellings == {"new", "waiting", "enqueued", "failed"}
ETags    == {"none", "current", "stale"}  \* no ETag; still or no longer the key's
LoopPCs  == {"idle", "get", "save"}
DispatcherPCs == {"idle", "record", "publish", "bump", "mark", "get", "save"}

Init ==
    /\ record = [e \in Events |-> "absent"]
    /\ queue = <<>>
    /\ queueKey = FALSE
    /\ published = {}
    /\ told = [e \in Events |-> "new"]
    /\ pc = [t \in Threads |-> "idle"]
    /\ work = [t \in Threads |-> <<>>]
    /\ view = [t \in Threads |-> <<>>]
    /\ etag = [t \in Threads |-> "none"]
    /\ tries = [t \in Threads |-> 0]
    /\ faults = 0

-----------------------------------------------------------------------------
(* Calls to the sidecar.  A call with outcome "ok" meets no fault.         *)

Outcomes(kinds) ==
    {"ok"} \union (IF faults < MaxFaults THEN kinds \intersect Faults ELSE {})

Count(outcome) == faults' = IF outcome = "ok" THEN faults ELSE faults + 1

\* requests raises, whatever the store did.
Raises(outcome) == outcome \in {"read_raised", "write_lost", "write_unanswered"}

Applied(outcome) == outcome \in {"ok", "write_misreported", "write_unanswered"}

-----------------------------------------------------------------------------
(* Operators on the queue and on a thread's local state.                   *)

Item(t) == Head(work[t])

\* Mutant of Add: appends without looking.
AddBlindly(q, e) == Append(q, e)

Add(q, e) == IF e \in ToSet(q) THEN q ELSE Append(q, e)

\* [i for i in q if i != e], of a list that holds e at most once.
Without(q, e) ==
    IF e \in ToSet(q) THEN RemoveAt(q, CHOOSE i \in DOMAIN q : q[i] = e) ELSE q

Mutated(t) ==
    IF t = Loop THEN Add(view[t], Item(t)) ELSE Without(view[t], Item(t))

Goto(t, label) == pc' = [pc EXCEPT ![t] = label]

\* enqueue_with_state returns or raises; the dispatcher has no caller.
Tell(t, answer) ==
    told' = IF t = Loop THEN [told EXCEPT ![Item(t)] = answer] ELSE told

\* t has done with its current event and goes on with the next, if any.
NextItem(t) ==
    /\ work' = [work EXCEPT ![t] = Tail(@)]
    /\ Goto(t, IF Len(work[t]) = 1 THEN "idle" ELSE "record")

\* An exception leaves enqueue_with_state, or ends the dispatcher's tick.
Abort(t) ==
    /\ work' = [work EXCEPT ![t] = <<>>]
    /\ Goto(t, "idle")

ForgetQueue(t) ==
    /\ view' = [view EXCEPT ![t] = <<>>]
    /\ etag' = [etag EXCEPT ![t] = "none"]
    /\ tries' = [tries EXCEPT ![t] = 0]

-----------------------------------------------------------------------------
(* enqueue_with_state, up to its call of _mutate_queue.                    *)

\* The transaction writes the caller's items and the outbox record together.
\* An error status makes an OutboxError, a lost answer another exception.
CommitTransaction(e) ==
    /\ pc[Loop] = "idle"
    /\ told[e] = "new"
    /\ \E outcome \in Outcomes(WriteFaults) :
        /\ Count(outcome)
        /\ record' = IF Applied(outcome) THEN [record EXCEPT ![e] = "pending"] ELSE record
        /\ IF outcome = "ok"
           THEN /\ told' = [told EXCEPT ![e] = "waiting"]
                /\ work' = [work EXCEPT ![Loop] = <<e>>]
                /\ Goto(Loop, "get")
           ELSE /\ told' = [told EXCEPT ![e] = "failed"]
                /\ UNCHANGED <<work, pc>>
    /\ UNCHANGED <<queue, queueKey, published, mutation>>

-----------------------------------------------------------------------------
(* _mutate_queue, run by both threads.                                     *)

\* Mutant of TagRead: the ETag header is not kept.
TagReadDropped(outcome) == "none"

TagRead(outcome) == IF outcome = "ok" /\ queueKey THEN "current" ELSE "none"

\* _get_queue takes any answer but 200 for an empty list without an ETag.
GetQueue(t) ==
    /\ pc[t] = "get"
    /\ \E outcome \in Outcomes(ReadFaults) :
        /\ Count(outcome)
        /\ IF Raises(outcome)
           THEN /\ Abort(t)
                /\ Tell(t, "failed")
                /\ ForgetQueue(t)
           ELSE /\ Goto(t, "save")
                /\ view' = [view EXCEPT ![t] = IF outcome = "ok" THEN queue ELSE <<>>]
                /\ etag' = [etag EXCEPT ![t] = TagRead(outcome)]
                /\ UNCHANGED <<work, told, tries>>
    /\ UNCHANGED <<store, published>>

\* Mutant of LastTry: one attempt too many.
LastTryOffByOne(t) == tries[t] = Attempts

LastTry(t) == tries[t] + 1 = Attempts

\* Mutant of Verdict: the loop of _mutate_queue ends without raising.
VerdictIgnoresFailure(saved) == "enqueued"

\* OutboxError and the exceptions of requests leave enqueue_with_state.
Verdict(saved) == IF saved THEN "enqueued" ELSE "failed"

\* With an ETag the store refuses a write once the key has changed; without
\* one it overwrites whatever is there.
WriteQueue(t) ==
    /\ queue' = Mutated(t)
    /\ queueKey' = TRUE

Outdate(tags) == [t \in Threads |-> IF tags[t] = "current" THEN "stale" ELSE tags[t]]

SaveQueue(t) ==
    /\ pc[t] = "save"
    /\ \E outcome \in Outcomes(WriteFaults) :
        LET written == etag[t] # "stale" /\ Applied(outcome)
            tags    == IF written THEN Outdate(etag) ELSE etag
            saved   == etag[t] # "stale" /\ outcome = "ok"
            ends    == saved \/ Raises(outcome) \/ LastTry(t)
        IN  /\ Count(outcome)
            /\ IF written THEN WriteQueue(t) ELSE UNCHANGED <<queue, queueKey>>
            /\ view' = [view EXCEPT ![t] = <<>>]
            /\ etag' = [tags EXCEPT ![t] = "none"]
            /\ tries' = [tries EXCEPT ![t] = IF ends THEN 0 ELSE @ + 1]
            /\ \/ saved /\ NextItem(t)
               \/ ends /\ ~saved /\ Abort(t)
               \/ ~ends /\ Goto(t, "get") /\ UNCHANGED work
            /\ IF ends THEN Tell(t, Verdict(saved)) ELSE UNCHANGED told
    /\ UNCHANGED <<record, published>>

-----------------------------------------------------------------------------
(* dispatch_pending, one tick of the poller.                               *)

\* The tick works on a snapshot of the first MaxBatch ids.
StartTick ==
    /\ pc[Dispatcher] = "idle"
    /\ \E outcome \in Outcomes(ReadFaults) :
        LET seen == IF outcome = "ok" THEN queue ELSE <<>>
            snapshot == SubSeq(seen, 1, IF Len(seen) < MaxBatch THEN Len(seen) ELSE MaxBatch)
        IN  /\ Count(outcome)
            /\ work' = [work EXCEPT ![Dispatcher] = snapshot]
            /\ Goto(Dispatcher, IF snapshot = <<>> THEN "idle" ELSE "record")
    /\ UNCHANGED <<store, published, told, mutation>>

\* Mutant of NeedsPublish: any record found is published.
NeedsPublishAny(outcome) == outcome = "ok" /\ record[Item(Dispatcher)] # "absent"

NeedsPublish(outcome) == outcome = "ok" /\ record[Item(Dispatcher)] = "pending"

\* Mutant of DropFromQueue: leaves the id where it is.
DropFromQueueSkipped == NextItem(Dispatcher)

\* Go on to _mutate_queue, which removes the current id.
DropFromQueue == Goto(Dispatcher, "get") /\ UNCHANGED work

\* get_record; an error status reads as a missing record, and a missing or
\* already dispatched record is dropped from the queue.
GetRecord ==
    /\ pc[Dispatcher] = "record"
    /\ \E outcome \in Outcomes(ReadFaults) :
        /\ Count(outcome)
        /\ \/ Raises(outcome) /\ Abort(Dispatcher)
           \/ NeedsPublish(outcome) /\ Goto(Dispatcher, "publish") /\ UNCHANGED work
           \/ ~Raises(outcome) /\ ~NeedsPublish(outcome) /\ DropFromQueue
    /\ UNCHANGED <<store, published, told, mutation>>

\* Mutant of AfterPublish: an answer counts as success, whatever its status.
AfterPublishUnchecked(accepted) == "mark"

AfterPublish(accepted) == IF accepted THEN "mark" ELSE "bump"

Publish ==
    /\ pc[Dispatcher] = "publish"
    /\ \E outcome \in Outcomes(PublishFaults) :
        LET taken == Item(Dispatcher) \notin Rejected /\ outcome # "publish_refused"
        IN  /\ Count(outcome)
            /\ published' = IF taken THEN published \union {Item(Dispatcher)} ELSE published
            /\ Goto(Dispatcher, AfterPublish(taken /\ outcome = "ok"))
    /\ UNCHANGED <<store, told, work, mutation>>

AfterBump(outcome) == IF Raises(outcome) THEN Abort(Dispatcher) ELSE NextItem(Dispatcher)

\* After a failed publish: write the record back, still pending, with one
\* more attempt counted.  An OutboxError is swallowed, others end the tick.
BumpAttempts ==
    /\ pc[Dispatcher] = "bump"
    /\ \E outcome \in Outcomes(WriteFaults) :
        /\ Count(outcome)
        /\ record' = IF Applied(outcome)
                     THEN [record EXCEPT ![Item(Dispatcher)] = "pending"] ELSE record
        /\ AfterBump(outcome)
    /\ UNCHANGED <<queue, queueKey, published, told, mutation>>

\* After a publish: any failure of this write ends the tick.
MarkDispatched ==
    /\ pc[Dispatcher] = "mark"
    /\ \E outcome \in Outcomes(WriteFaults) :
        /\ Count(outcome)
        /\ record' = IF Applied(outcome)
                     THEN [record EXCEPT ![Item(Dispatcher)] = "dispatched"] ELSE record
        /\ IF outcome = "ok"
           THEN DropFromQueue
           ELSE Abort(Dispatcher)
    /\ UNCHANGED <<queue, queueKey, published, told, mutation>>

-----------------------------------------------------------------------------
\* The container dies and is restarted; only the store and the broker survive.
Crash ==
    /\ "crash" \in Outcomes({"crash"})
    /\ Count("crash")
    /\ pc' = [t \in Threads |-> "idle"]
    /\ work' = [t \in Threads |-> <<>>]
    /\ view' = [t \in Threads |-> <<>>]
    /\ etag' = [t \in Threads |-> "none"]
    /\ tries' = [t \in Threads |-> 0]
    /\ told' = [e \in Events |-> IF told[e] = "waiting" THEN "failed" ELSE told[e]]
    /\ UNCHANGED <<store, published>>

Enqueueing == GetQueue(Loop) \/ SaveQueue(Loop)

Dispatching ==
    \/ StartTick
    \/ GetRecord
    \/ Publish
    \/ BumpAttempts
    \/ MarkDispatched
    \/ GetQueue(Dispatcher)
    \/ SaveQueue(Dispatcher)

Next ==
    \/ \E e \in Events : CommitTransaction(e)
    \/ Enqueueing
    \/ Dispatching
    \/ Crash

\* A call under way is answered or times out, and the poller loops for ever;
\* nobody has to enqueue, and nothing has to fail.
Fairness == WF_vars(Enqueueing) /\ WF_vars(Dispatching)

Spec == Init /\ [][Next]_vars /\ Fairness

-----------------------------------------------------------------------------
(* Properties.                                                             *)

TypeOK ==
    /\ record \in [Events -> Statuses]
    /\ queue \in Seq(Events)
    /\ queueKey \in BOOLEAN
    /\ published \subseteq Events
    /\ told \in [Events -> Tellings]
    /\ pc \in [Threads -> DispatcherPCs]
    /\ pc[Loop] \in LoopPCs
    /\ work \in [Threads -> Seq(Events)]
    /\ view \in [Threads -> Seq(Events)]
    /\ etag \in [Threads -> ETags]
    /\ tries \in [Threads -> 0 .. Attempts - 1]
    /\ faults \in 0 .. MaxFaults

\* No event is lost (outbox.py:73-74): once enqueue_with_state has returned,
\* the event has reached the broker, or it is in the queue with a record the
\* dispatcher will publish, whatever writes race, are lost or go unanswered
\* and wherever the process dies.  True as long as no read is answered with
\* an error status, which outbox.py takes for an absent key.
NoLostEvent ==
    \A e \in Events :
        told[e] = "enqueued" =>
            e \in published \/ (e \in ToSet(queue) /\ record[e] = "pending")

\* The same id never stands twice in outbox_queue, although writes of the
\* two threads interleave and an applied write may be retried (outbox.py:95).
QueueHasNoDuplicates == IsInjective(queue)

\* A record says "dispatched" only of an event the broker has accepted, so
\* that dropping its id from the queue (outbox.py:108) loses nothing.
DispatchedWasPublished ==
    \A e \in Events : record[e] = "dispatched" => e \in published

\* A dispatched record never becomes pending again, so no tick publishes it
\* once more, although two branches of dispatch_pending write the record.
DispatchedForGood ==
    [][\A e \in Events : record[e] = "dispatched" => record'[e] = "dispatched"]_vars

\* What outbox.py:73-74 says of every committed transaction, told or not:
\* the event it recorded reaches the broker.
CommittedIsPublished ==
    \A e \in Events \ Rejected : record[e] = "pending" ~> e \in published

\* The queue is an index of pending work, not a log: an id whose record is
\* dispatched does not stay in it for ever.
DispatchedLeavesQueue ==
    \A e \in Events : record[e] = "dispatched" ~> e \notin ToSet(queue)

Contract == INSTANCE OutboxContract WITH
    committed <- {e \in Events : record[e] # "absent"},
    promised  <- {e \in Events : told[e] = "enqueued"},
    delivered <- published

\* The outbox implements its contract: among the rest, every enqueued event is
\* published in the end, unless the broker refuses it every time, and a refused
\* one does not starve the others.
ImplementsContract == Contract!Spec
=============================================================================
