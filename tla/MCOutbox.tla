------------------------------ MODULE MCOutbox ------------------------------
(* Outbox with values for its constants, and the fault sets of the runs.    *)
EXTENDS Outbox

\* Every fault but a read answered with an error status.
HonestReads == {"read_raised", "crash"} \union WriteFaults \union PublishFaults

OnlyCrash == {"crash"}

\* Removing an id by position is the list comprehension of outbox.py:109
\* and :129 on every list without duplicates, the only ones that occur.
ASSUME WithoutIsFilter ==
    \A q \in SeqOf(Events, 3), e \in Events : IsInjective(q) => Without(q, e) = Remove(q, e)
=============================================================================
