---------------------------- MODULE MCEscalation ----------------------------
(* Escalation with values for its constants, and the fault set of the run.   *)
EXTENDS Escalation

\* Every fault but those main.py:148 and :172 swallow: a write of the handler
\* of submissions that is reported as failed.
Survivable ==
    ({"submission"} \X {"misread", "lost", "unanswered"})
        \union ({"request"} \X (WriteFaults \union ReadFaults))
        \union {<<"sidecar", "late">>, <<"sidecar", "ack_lost">>, <<"process", "crash">>}
=============================================================================
