------------------------------ MODULE Evaluation ------------------------------
(***************************************************************************)
(* approval-agent: what becomes of one submission when it is evaluated     *)
(* (agent.py), and which rules of the handbook the model is shown          *)
(* (policy_rag.py).  Pure: policy, invoice, ratings and the model's answer *)
(* go in, a recommendation comes out.  Money is in dollars and confidence  *)
(* in hundredths.  A confidence that is not finite cannot be sent on as    *)
(* JSON: the handler raises before it has stored anything, and the event   *)
(* comes again, so no answer here has one.                                 *)
(***************************************************************************)
EXTENDS Naturals, FiniteSets

CONSTANTS Configured,   \* the policy in the configuration store
          Answers,      \* what the model may answer
          TopK,         \* how many rules go into a prompt
          Levels        \* how well a rule may match an invoice; 0: no word in common

HardStops == {"GLOBAL-VENDOR", "GLOBAL-FX", "GLOBAL-MATH", "GLOBAL-FRAUD", "GLOBAL-RECEIPT"}

\* Rules stand for their places in the handbook.
Policies == [ceiling : Nat, threshold : Nat, stops : SUBSET HardStops, rules : SUBSET Nat]

Opinions == {"approve", "reject", "human_review", "unknown"}

ASSUME EvaluationAssumption ==
    /\ Configured \in Policies
    /\ IsFiniteSet(Configured.rules)
    /\ Answers \subseteq [recommendation : Opinions, confidence : Nat]
    /\ TopK \in Nat \ {0}
    /\ Levels \subseteq Nat

\* The model's answer when the provider raises or answers something else.
NoAnswer == [recommendation |-> "human_review", confidence |-> 0]

\* What load_policy returns when the configuration store does not answer, or
\* answers without a policy: no hard stop, and no rule.
Fallback == [ceiling |-> 250, threshold |-> 80, stops |-> {}, rules |-> {}]

LoadPolicy == {Configured, Fallback}

\* The hard stops the code looks for; the other two are listed and never checked.
Stopped(invoice, policy) ==
    \/ "GLOBAL-RECEIPT" \in policy.stops /\ ~invoice.receiptPresent
    \/ "GLOBAL-VENDOR" \in policy.stops /\ ~invoice.vendorKnown
    \/ "GLOBAL-MATH" \in policy.stops /\ ~invoice.reconciles

\* Mutant of Withheld: the hard stops are left to the model.
WithheldByCeiling(invoice, policy) == invoice.total > policy.ceiling

\* Kept from the model, whatever it would say.
Withheld(invoice, policy) ==
    Stopped(invoice, policy) \/ invoice.total > policy.ceiling

\* The router has the final say over the model.
Guarded(answer, policy) ==
    IF answer.recommendation = "approve" /\ answer.confidence < policy.threshold
    THEN "human_review" ELSE answer.recommendation

Evaluate(invoice, policy, answer) ==
    IF Withheld(invoice, policy) THEN "human_review" ELSE Guarded(answer, policy)

-----------------------------------------------------------------------------
(* Which rules the model is shown.                                         *)

\* Every way the rules may match an invoice.
Ratings(rules) == [rules -> Levels]

\* The order of a stable sort by descending rating.
Outranks(q, r, rating) ==
    rating[q] > rating[r] \/ (rating[q] = rating[r] /\ q < r)

Top(rating) ==
    {r \in DOMAIN rating : Cardinality({q \in DOMAIN rating : Outranks(q, r, rating)}) < TopK}

\* Mutant of Retrieve: the best rules, however badly they match.
RetrieveTop(rating) == Top(rating)

Retrieve(rating) ==
    IF \E r \in Top(rating) : rating[r] > 0 THEN Top(rating) ELSE DOMAIN rating
=============================================================================
