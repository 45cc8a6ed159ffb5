---------------------------- MODULE PaymentLedger ----------------------------
(***************************************************************************)
(* What payment-service promises about the money of an invoice, without    *)
(* events, deliveries, handlers or faults: a hold comes before a charge,   *)
(* a charge happens once, a hold ends as a payment exactly when it was     *)
(* charged, and the world hears only of a hold that has ended, and the     *)
(* truth about it.  It does not promise that every hold ends.              *)
(***************************************************************************)
EXTENDS Naturals

CONSTANT Invoices

VARIABLES ledger,     \* ledger[i]: "none", "reserved", "paid" or "compensated"
          charges,    \* charges[i]: how often invoice i was charged
          outcomes    \* outcomes[i]: the outcomes announced for invoice i

lvars == <<ledger, charges, outcomes>>

Init ==
    /\ ledger = [i \in Invoices |-> "none"]
    /\ charges = [i \in Invoices |-> 0]
    /\ outcomes = [i \in Invoices |-> {}]

Hold(i) ==
    /\ ledger[i] = "none"
    /\ ledger' = [ledger EXCEPT ![i] = "reserved"]
    /\ UNCHANGED <<charges, outcomes>>

Charge(i) ==
    /\ ledger[i] = "reserved"
    /\ charges[i] = 0
    /\ charges' = [charges EXCEPT ![i] = 1]
    /\ UNCHANGED <<ledger, outcomes>>

Close(i) ==
    /\ ledger[i] = "reserved"
    /\ ledger' = [ledger EXCEPT ![i] = IF charges[i] = 1 THEN "paid" ELSE "compensated"]
    /\ UNCHANGED <<charges, outcomes>>

Announce(i) ==
    /\ ledger[i] \in {"paid", "compensated"}
    /\ outcomes' = [outcomes EXCEPT ![i] = {IF ledger[i] = "paid" THEN "paid" ELSE "failed"}]
    /\ UNCHANGED <<ledger, charges>>

Next == \E i \in Invoices : Hold(i) \/ Charge(i) \/ Close(i) \/ Announce(i)

Spec == Init /\ [][Next]_lvars
=============================================================================
