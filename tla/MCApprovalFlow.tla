---------------------------- MODULE MCApprovalFlow ----------------------------
(* ApprovalFlow with values for its constants: a policy with a ceiling below *)
(* the fallback's, submissions and answers on both sides of every limit.     *)
EXTENDS ApprovalFlow

StoredPolicy == [ceiling |-> 200, threshold |-> 80, stops |-> HardStops, rules |-> {1, 2}]

Clean == [total |-> 200, receiptPresent |-> TRUE, vendorKnown |-> TRUE, reconciles |-> TRUE]

\* At the stored ceiling, at the fallback's and above both; and one for each
\* hard stop, at the stored ceiling so that nothing else keeps it from payment.
SampleSubmissions ==
    {Clean, [Clean EXCEPT !.total = 250], [Clean EXCEPT !.total = 251],
     [Clean EXCEPT !.receiptPresent = FALSE], [Clean EXCEPT !.vendorKnown = FALSE],
     [Clean EXCEPT !.reconciles = FALSE]}

SampleAnswers ==
    {[recommendation |-> "approve", confidence |-> 80],
     [recommendation |-> "approve", confidence |-> 79]}

EveryFault == FaultKinds

NoFaults == {}
=============================================================================
