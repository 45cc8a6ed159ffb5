--------------------------- MODULE OutboxContract ---------------------------
(***************************************************************************)
(* What the transactional outbox of approval-agent promises to its         *)
(* callers, without queue, ETags, records or poller ticks.                 *)
(*                                                                         *)
(* An event is committed together with a business write; the caller may    *)
(* then be told that the event is enqueued; from that moment on the broker *)
(* must receive it, unless it is one the broker rejects every time.  The   *)
(* broker never receives an event that was not committed.  Nothing is      *)
(* promised about an event that was committed but never acknowledged to    *)
(* the caller.                                                             *)
(***************************************************************************)
CONSTANTS Events,     \* identifiers of outbox events
          Rejected    \* events the broker refuses on every attempt

VARIABLES committed,  \* events whose transaction was applied by the store
          promised,   \* events whose enqueue returned to the caller
          delivered   \* events the broker has accepted at least once

cvars == <<committed, promised, delivered>>

Init ==
    /\ committed = {}
    /\ promised = {}
    /\ delivered = {}

Commit(e) ==
    /\ e \notin committed
    /\ committed' = committed \union {e}
    /\ UNCHANGED <<promised, delivered>>

Promise(e) ==
    /\ e \in committed \ promised
    /\ promised' = promised \union {e}
    /\ UNCHANGED <<committed, delivered>>

Deliver(e) ==
    /\ e \in committed \ (delivered \union Rejected)
    /\ delivered' = delivered \union {e}
    /\ UNCHANGED <<committed, promised>>

Next == \E e \in Events : Commit(e) \/ Promise(e) \/ Deliver(e)

\* Only a promised event has to be delivered.
Fairness == \A e \in Events : WF_cvars(e \in promised /\ Deliver(e))

SafetySpec == Init /\ [][Next]_cvars

Spec == SafetySpec /\ Fairness
=============================================================================
