------------------------------ MODULE Ingestion ------------------------------
(***************************************************************************)
(* ingestion-service: the handler of submissions (main.py), its look-up    *)
(* and record of fingerprints, and the publications it leaves to           *)
(* background tasks (dapr_client.py).                                      *)
(*                                                                         *)
(* submit_invoice makes no await, so one submission is handled at a time;  *)
(* the background tasks run in worker threads meanwhile.  Validation and   *)
(* rate limits turn requests away before any state is touched: what is     *)
(* submitted here has passed them.                                         *)
(***************************************************************************)
EXTENDS Naturals, Sequences

CONSTANTS Submissions,  \* tracking ids
          Invoices,     \* what may be submitted
          Words,        \* what the text fields consist of, read up to a hyphen
          Totals,
          Faults,       \* the kinds of fault that may happen
          MaxFaults     \* bound on how many faults happen

CheckFaults   == {"check_misread",        \* answered with an error status
                  "check_raised"}         \* no answer: requests raises
SaveFaults    == {"save_refused",         \* not applied
                  "save_misreported"}     \* applied, but reported as failed or not at all
PublishFaults == {"publish_refused", "publish_misreported"}  \* likewise

ASSUME IngestionAssumption ==
    /\ Invoices \subseteq [vendor : Seq(Words), number : Seq(Words), total : Totals]
    /\ Faults \subseteq CheckFaults \union SaveFaults \union PublishFaults \union {"crash"}
    /\ MaxFaults \in Nat

VARIABLES
    invoice,       \* invoice[s]: the invoice submission s is of
    answer,        \* answer[s]: what the handler answered
    fingerprints,  \* the dup- keys in the store
    tasks,         \* submissions whose publication is yet to run
    published,     \* those on the topic
    pc,            \* the call the handler makes next
    current,       \* the submission at work, in a set of at most one
    faults         \* faults so far

handler == <<pc, current>>
vars == <<invoice, answer, fingerprints, tasks, published, handler, faults>>

Answers == {"none", "accepted", "duplicate", "failed"}

Init ==
    /\ invoice \in [Submissions -> Invoices]
    /\ answer = [s \in Submissions |-> "none"]
    /\ fingerprints = {}
    /\ tasks = {}
    /\ published = {}
    /\ pc = "idle"
    /\ current = {}
    /\ faults = 0

Outcomes(kinds) ==
    {"ok"} \union (IF faults < MaxFaults THEN kinds \intersect Faults ELSE {})

Count(outcome) == faults' = IF outcome = "ok" THEN faults ELSE faults + 1

Applied(outcome) == outcome \in {"ok", "save_misreported", "publish_misreported"}

\* Mutant of Fingerprint: the total is left out.
FingerprintShort(d) == <<d.vendor \o d.number>>

\* The three fields are joined with hyphens, which vendor and number may
\* contain as well: where one ends and the other begins is forgotten.
Fingerprint(d) == <<d.vendor \o d.number, d.total>>

Finish(s, verdict) ==
    /\ answer' = [answer EXCEPT ![s] = verdict]
    /\ pc' = "idle"
    /\ current' = {}

-----------------------------------------------------------------------------
(* submit_invoice.                                                         *)

\* Mutant of Passes: a look-up that raises lets the submission through.
PassesUnchecked(s, outcome) ==
    \/ outcome \in CheckFaults
    \/ Fingerprint(invoice[s]) \notin fingerprints

\* check_global_duplicate returns False: whatever is not a 200 counts as absent.
Passes(s, outcome) ==
    \/ outcome = "check_misread"
    \/ outcome = "ok" /\ Fingerprint(invoice[s]) \notin fingerprints

CheckDuplicate(s) ==
    /\ pc = "idle"
    /\ answer[s] = "none"
    /\ \E outcome \in Outcomes(CheckFaults) :
        /\ Count(outcome)
        /\ \/ /\ Passes(s, outcome)
              /\ pc' = "save"
              /\ current' = {s}
              /\ UNCHANGED answer
           \/ /\ ~Passes(s, outcome)
              /\ Finish(s, IF outcome = "ok" THEN "duplicate" ELSE "failed")
    /\ UNCHANGED <<invoice, fingerprints, tasks, published>>

\* Mutant of AfterSave: answers without adding the task.
AfterSaveForgets(s, outcome) ==
    /\ Finish(s, IF outcome = "ok" THEN "accepted" ELSE "failed")
    /\ UNCHANGED tasks

\* Mutant of AfterSave: the result of save_idempotency_state is not looked at.
AfterSaveUnchecked(s, outcome) ==
    /\ Finish(s, "accepted")
    /\ tasks' = tasks \union {s}

\* Mutant of AfterSave: a failure is answered with a word of its own.
AfterSaveMisnamed(s, outcome) ==
    /\ Finish(s, IF outcome = "ok" THEN "accepted" ELSE "error")
    /\ tasks' = IF outcome = "ok" THEN tasks \union {s} ELSE tasks

AfterSave(s, outcome) ==
    /\ Finish(s, IF outcome = "ok" THEN "accepted" ELSE "failed")
    /\ tasks' = IF outcome = "ok" THEN tasks \union {s} ELSE tasks

SaveFingerprint(s) ==
    /\ pc = "save"
    /\ s \in current
    /\ \E outcome \in Outcomes(SaveFaults) :
        /\ Count(outcome)
        /\ fingerprints' = IF Applied(outcome)
                           THEN fingerprints \union {Fingerprint(invoice[s])} ELSE fingerprints
        /\ AfterSave(s, outcome)
    /\ UNCHANGED <<invoice, published>>

-----------------------------------------------------------------------------
\* publish_to_pubsub, in a worker thread: a failure is only logged.
Publish(s) ==
    /\ s \in tasks
    /\ tasks' = tasks \ {s}
    /\ \E outcome \in Outcomes(PublishFaults) :
        /\ Count(outcome)
        /\ published' = IF Applied(outcome) THEN published \union {s} ELSE published
    /\ UNCHANGED <<invoice, answer, fingerprints, handler>>

\* The container dies and is restarted: the tasks are gone, and the gateway
\* answers for the handler.
Crash ==
    /\ "crash" \in Outcomes({"crash"})
    /\ Count("crash")
    /\ answer' = [s \in Submissions |-> IF s \in current THEN "failed" ELSE answer[s]]
    /\ tasks' = {}
    /\ pc' = "idle"
    /\ current' = {}
    /\ UNCHANGED <<invoice, fingerprints, published>>

Next ==
    \/ \E s \in Submissions : CheckDuplicate(s) \/ SaveFingerprint(s) \/ Publish(s)
    \/ Crash

\* A call is answered or times out, and every task gets a thread: all are
\* bounded by the two seconds of their call.  Nobody has to submit anything.
Fairness ==
    \A s \in Submissions : WF_vars(SaveFingerprint(s)) /\ WF_vars(Publish(s))

Spec == Init /\ [][Next]_vars /\ Fairness

-----------------------------------------------------------------------------
(* Properties.                                                             *)

TypeOK ==
    /\ invoice \in [Submissions -> Invoices]
    /\ answer \in [Submissions -> Answers]
    /\ fingerprints \subseteq {Fingerprint(d) : d \in Invoices}
    /\ tasks \subseteq Submissions
    /\ published \subseteq Submissions
    /\ pc \in {"idle", "save"}
    /\ current \subseteq Submissions
    /\ faults \in 0 .. MaxFaults

\* GLOBAL-DUP: of all submissions of one invoice, told by vendor, number and
\* total, one is accepted at most, however often it is submitted while earlier
\* attempts fail half-way (main.py:45-63).
AcceptedOnce ==
    \A s, t \in Submissions :
        /\ answer[s] = "accepted" /\ answer[t] = "accepted"
        /\ invoice[s].vendor = invoice[t].vendor
        /\ invoice[s].number = invoice[t].number
        /\ invoice[s].total = invoice[t].total
        => s = t

\* Nothing reaches the topic whose fingerprint is not stored, or that was not
\* accepted: "must succeed before publishing" (main.py:58).
PublishedIsRemembered ==
    \A s \in published :
        answer[s] = "accepted" /\ Fingerprint(invoice[s]) \in fingerprints

\* Who is refused as a duplicate is refused because of another submission
\* that came to the same text, and was accepted or failed on the way.
RefusedForAReason ==
    \A s \in Submissions : answer[s] = "duplicate" =>
        \E t \in Submissions \ {s} :
            /\ answer[t] \in {"accepted", "failed"}
            /\ invoice[s].vendor \o invoice[s].number = invoice[t].vendor \o invoice[t].number
            /\ invoice[s].total = invoice[t].total

\* A submission that has passed the duplicate check enters the workflow,
\* whatever went wrong before, unless one more call fails or the process dies:
\* nothing is tried twice.
PassedIsPublished ==
    \A s \in Submissions, n \in 0 .. MaxFaults :
        pc = "save" /\ s \in current /\ faults = n ~> s \in published \/ faults > n
=============================================================================
