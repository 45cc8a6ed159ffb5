------------------------------- MODULE Review -------------------------------
(***************************************************************************)
(* The life cycle of an invoice that may need a human, without calls,      *)
(* queues, answers or faults.  Only an open item can be decided; approving *)
(* it and recording its payment event are one step.  Nothing keeps an item *)
(* from being escalated once more, or from being paid without review.      *)
(***************************************************************************)
EXTENDS Naturals

CONSTANT Invoices

VARIABLES item,      \* item[i]: the status of the escalation, "none" if there is none
          payments   \* payments[i]: payment events recorded for i

rvars == <<item, payments>>

Init ==
    /\ item = [i \in Invoices |-> "none"]
    /\ payments = [i \in Invoices |-> 0]

\* Mutant of IsOpen: a rejection is not the end.
IsOpenIfRejected(i) == item[i] \in {"pending", "info_requested", "rejected"}

IsOpen(i) == item[i] \in {"pending", "info_requested"}

Record(i) == payments' = [payments EXCEPT ![i] = @ + 1]

Become(i, status) == item' = [item EXCEPT ![i] = status]

Clear(i) == Record(i) /\ UNCHANGED item

Pause(i) == Become(i, "pending") /\ UNCHANGED payments

Approve(i) == IsOpen(i) /\ Become(i, "approved") /\ Record(i)

Reject(i) == IsOpen(i) /\ Become(i, "rejected") /\ UNCHANGED payments

Ask(i) == IsOpen(i) /\ Become(i, "info_requested") /\ UNCHANGED payments

Next == \E i \in Invoices : Clear(i) \/ Pause(i) \/ Approve(i) \/ Reject(i) \/ Ask(i)

Spec == Init /\ [][Next]_rvars
=============================================================================
