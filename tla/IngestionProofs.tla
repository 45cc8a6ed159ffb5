--------------------------- MODULE IngestionProofs ---------------------------
(* Proofs about ingestion-service, for every set of submissions and of      *)
(* invoices, every set of faults and bound on them.                         *)
EXTENDS Ingestion, TLAPS, FiniteSetTheorems

USE IngestionAssumption

-----------------------------------------------------------------------------
(* Types.                                                                  *)

\* Nothing has happened yet.
LEMMA TypeInit == Init => TypeOK
BY DEF Init, TypeOK, Answers

\* A fault is counted only while the bound allows one.
LEMMA CountTyped ==
    ASSUME faults \in 0 .. MaxFaults, NEW kinds,
           NEW outcome \in Outcomes(kinds), Count(outcome)
    PROVE  /\ faults' \in 0 .. MaxFaults
           /\ outcome = "ok" \/ outcome \in kinds \intersect Faults
BY DEF Outcomes, Count

\* Every step preserves the types.
LEMMA TypeNext == TypeOK /\ [Next]_vars => TypeOK'
<1> SUFFICES ASSUME TypeOK, [Next]_vars PROVE TypeOK'
  OBVIOUS
<1>1. ASSUME NEW s \in Submissions, CheckDuplicate(s) PROVE TypeOK'
  <2>1. faults' \in 0 .. MaxFaults
    BY <1>1, CountTyped DEF CheckDuplicate, TypeOK
  <2>2. answer' \in [Submissions -> Answers] /\ pc' \in {"idle", "save"} /\ current' \subseteq Submissions
    BY <1>1 DEF CheckDuplicate, Finish, TypeOK, Answers
  <2> QED
    BY <1>1, <2>1, <2>2 DEF CheckDuplicate, TypeOK
<1>2. ASSUME NEW s \in Submissions, SaveFingerprint(s) PROVE TypeOK'
  <2>1. faults' \in 0 .. MaxFaults
    BY <1>2, CountTyped DEF SaveFingerprint, TypeOK
  <2>2. answer' \in [Submissions -> Answers] /\ pc' \in {"idle", "save"} /\ current' \subseteq Submissions
    BY <1>2 DEF SaveFingerprint, AfterSave, Finish, TypeOK, Answers
  <2>3. invoice[s] \in Invoices
    BY DEF TypeOK
  <2>4. fingerprints' \subseteq {Fingerprint(d) : d \in Invoices}
    BY <1>2, <2>3 DEF SaveFingerprint, TypeOK
  <2>5. tasks' \subseteq Submissions
    BY <1>2 DEF SaveFingerprint, AfterSave, TypeOK
  <2> QED
    BY <1>2, <2>1, <2>2, <2>4, <2>5 DEF SaveFingerprint, TypeOK
<1>3. ASSUME NEW s \in Submissions, Publish(s) PROVE TypeOK'
  <2>1. faults' \in 0 .. MaxFaults
    BY <1>3, CountTyped DEF Publish, TypeOK
  <2> QED
    BY <1>3, <2>1 DEF Publish, handler, TypeOK
<1>4. ASSUME Crash PROVE TypeOK'
  <2>1. faults' \in 0 .. MaxFaults
    BY <1>4, CountTyped DEF Crash, TypeOK
  <2>2. answer' \in [Submissions -> Answers]
    BY <1>4 DEF Crash, TypeOK, Answers
  <2> QED
    BY <1>4, <2>1, <2>2 DEF Crash, TypeOK
<1>5. CASE UNCHANGED vars
  BY <1>5 DEF vars, handler, TypeOK
<1> QED
  BY <1>1, <1>2, <1>3, <1>4, <1>5 DEF Next

\* The state of the service, its store and its tasks is well formed.
THEOREM IngestionTypeCorrect == Spec => []TypeOK
BY TypeInit, TypeNext, PTL DEF Spec
-----------------------------------------------------------------------------
(* What a stored fingerprint means.                                        *)

\* The submission at work has no answer yet.
UnansweredOK == \A s \in current : answer[s] = "none"

\* What is accepted is stored; what is to be published, or is, was accepted.
RememberedOK ==
    /\ \A s \in Submissions :
          answer[s] = "accepted" => Fingerprint(invoice[s]) \in fingerprints
    /\ \A s \in tasks \union published : answer[s] = "accepted"

\* A stored fingerprint is that of a submission that was accepted or failed.
ReasonOK ==
    \A f \in fingerprints :
        \E t \in Submissions :
            answer[t] \in {"accepted", "failed"} /\ Fingerprint(invoice[t]) = f

StoreInv == TypeOK /\ UnansweredOK /\ RememberedOK /\ ReasonOK /\ RefusedForAReason

\* A submission is answered once, and what it is of does not change.
LEMMA AnsweredOnce ==
    ASSUME StoreInv, [Next]_vars
    PROVE  /\ invoice' = invoice
           /\ \A s \in Submissions : answer[s] # "none" => answer'[s] = answer[s]
<1>1. ASSUME NEW s \in Submissions, NEW verdict, answer[s] = "none",
             answer' = [answer EXCEPT ![s] = verdict]
      PROVE  \A t \in Submissions : answer[t] # "none" => answer'[t] = answer[t]
  BY <1>1 DEF StoreInv, TypeOK
<1>2. ASSUME NEW s \in Submissions, CheckDuplicate(s)
      PROVE  \A t \in Submissions : answer[t] # "none" => answer'[t] = answer[t]
  BY <1>1, <1>2 DEF CheckDuplicate, Finish
<1>3. ASSUME NEW s \in Submissions, SaveFingerprint(s)
      PROVE  \A t \in Submissions : answer[t] # "none" => answer'[t] = answer[t]
  BY <1>1, <1>3 DEF SaveFingerprint, AfterSave, Finish, StoreInv, UnansweredOK
<1>4. ASSUME Crash
      PROVE  \A t \in Submissions : answer[t] # "none" => answer'[t] = answer[t]
  BY <1>4 DEF Crash, StoreInv, UnansweredOK
<1>5. invoice' = invoice
  BY DEF Next, vars, CheckDuplicate, SaveFingerprint, Publish, Crash
<1> QED
  BY <1>2, <1>3, <1>4, <1>5 DEF Next, Publish, vars

\* A look-up that finds the fingerprint has a reason to refuse.
LEMMA CheckDuplicateStore ==
    ASSUME StoreInv, NEW s \in Submissions, CheckDuplicate(s)
    PROVE  UnansweredOK' /\ RememberedOK' /\ ReasonOK' /\ RefusedForAReason'
<1>1. answer[s] = "none" /\ UNCHANGED <<invoice, fingerprints, tasks, published>>
  BY DEF CheckDuplicate
<1>2. \A t \in Submissions : answer[t] # "none" => answer'[t] = answer[t]
  BY AnsweredOnce DEF Next
<1>3. \A t \in Submissions \ {s} : answer'[t] = answer[t]
  BY DEF CheckDuplicate, Finish, StoreInv, TypeOK
<1>4. answer'[s] \in {"none", "duplicate", "failed"}
  BY <1>1 DEF CheckDuplicate, Finish, StoreInv, TypeOK
<1>5. UnansweredOK'
  BY <1>1 DEF CheckDuplicate, Finish, UnansweredOK
<1>6. RememberedOK'
  BY <1>1, <1>2, <1>3, <1>4 DEF RememberedOK, StoreInv, TypeOK
<1>7. ReasonOK'
  <2> SUFFICES ASSUME NEW f \in fingerprints
               PROVE  \E t \in Submissions :
                         answer'[t] \in {"accepted", "failed"} /\ Fingerprint(invoice[t]) = f
    BY <1>1 DEF ReasonOK, Fingerprint
  <2>1. PICK t \in Submissions :
           answer[t] \in {"accepted", "failed"} /\ Fingerprint(invoice[t]) = f
    BY DEF StoreInv, ReasonOK
  <2> QED
    BY <1>2, <2>1
<1>8. RefusedForAReason'
  <2> SUFFICES ASSUME NEW r \in Submissions, answer'[r] = "duplicate"
               PROVE  \E t \in Submissions \ {r} :
                         /\ answer'[t] \in {"accepted", "failed"}
                         /\ invoice[r].vendor \o invoice[r].number
                               = invoice[t].vendor \o invoice[t].number
                         /\ invoice[r].total = invoice[t].total
    BY <1>1 DEF RefusedForAReason
  <2>1. CASE r = s
    <3>1. Fingerprint(invoice[s]) \in fingerprints
      BY <1>1, <2>1 DEF CheckDuplicate, Finish, Passes, Outcomes, StoreInv, TypeOK
    <3>2. PICK t \in Submissions :
             answer[t] \in {"accepted", "failed"} /\ Fingerprint(invoice[t]) = Fingerprint(invoice[s])
      BY <3>1 DEF StoreInv, ReasonOK
    <3>3. t # s
      BY <1>1, <3>2
    <3> QED
      BY <1>2, <2>1, <3>2, <3>3 DEF Fingerprint
  <2>2. CASE r # s
    BY <1>2, <1>3, <2>2 DEF StoreInv, RefusedForAReason
  <2> QED
    BY <2>1, <2>2
<1> QED
  BY <1>5, <1>6, <1>7, <1>8

\* The fingerprint is stored, whatever the answer, and its submission answered.
LEMMA SaveFingerprintStore ==
    ASSUME StoreInv, NEW s \in Submissions, SaveFingerprint(s)
    PROVE  UnansweredOK' /\ RememberedOK' /\ ReasonOK' /\ RefusedForAReason'
<1>1. /\ answer[s] = "none"
      /\ UNCHANGED <<invoice, published>>
      /\ current' = {}
  BY DEF SaveFingerprint, AfterSave, Finish, StoreInv, UnansweredOK
<1>2. PICK outcome \in Outcomes(SaveFaults) :
         /\ fingerprints' = IF Applied(outcome)
                            THEN fingerprints \union {Fingerprint(invoice[s])} ELSE fingerprints
         /\ AfterSave(s, outcome)
  BY DEF SaveFingerprint
<1>3. \A t \in Submissions : answer[t] # "none" => answer'[t] = answer[t]
  BY AnsweredOnce DEF Next
<1>4. \A t \in Submissions \ {s} : answer'[t] = answer[t]
  BY <1>2 DEF AfterSave, Finish, StoreInv, TypeOK
<1>5. /\ answer'[s] = (IF outcome = "ok" THEN "accepted" ELSE "failed")
      /\ tasks' = (IF outcome = "ok" THEN tasks \union {s} ELSE tasks)
  BY <1>2 DEF AfterSave, Finish, StoreInv, TypeOK
<1>6. UnansweredOK'
  BY <1>1 DEF UnansweredOK
<1>7. RememberedOK'
  <2>1. \A t \in Submissions :
           answer'[t] = "accepted" => Fingerprint(invoice[t]) \in fingerprints'
    BY <1>2, <1>4, <1>5 DEF Applied, StoreInv, RememberedOK
  <2>2. \A t \in tasks' \union published : answer'[t] = "accepted"
    BY <1>3, <1>5 DEF StoreInv, RememberedOK, TypeOK
  <2> QED
    BY <1>1, <2>1, <2>2 DEF RememberedOK, Fingerprint
<1>8. ReasonOK'
  <2> SUFFICES ASSUME NEW f \in fingerprints'
               PROVE  \E t \in Submissions :
                         answer'[t] \in {"accepted", "failed"} /\ Fingerprint(invoice[t]) = f
    BY <1>1 DEF ReasonOK, Fingerprint
  <2>1. CASE f = Fingerprint(invoice[s])
    BY <1>5, <2>1
  <2>2. CASE f \in fingerprints
    <3>1. PICK t \in Submissions :
             answer[t] \in {"accepted", "failed"} /\ Fingerprint(invoice[t]) = f
      BY <2>2 DEF StoreInv, ReasonOK
    <3> QED
      BY <1>3, <3>1
  <2> QED
    BY <1>2, <2>1, <2>2
<1>9. RefusedForAReason'
  <2>1. \A r \in Submissions : answer'[r] = "duplicate" => answer[r] = "duplicate"
    BY <1>4, <1>5
  <2> QED
    BY <1>1, <1>3, <2>1 DEF StoreInv, RefusedForAReason
<1> QED
  BY <1>6, <1>7, <1>8, <1>9

\* Neither a publication nor a crash changes what is stored.
LEMMA LossStore ==
    ASSUME StoreInv, Crash \/ \E s \in Submissions : Publish(s)
    PROVE  UnansweredOK' /\ RememberedOK' /\ ReasonOK' /\ RefusedForAReason'
<1>1. /\ UNCHANGED <<invoice, fingerprints>>
      /\ tasks' \union published' \subseteq tasks \union published
      /\ current' \subseteq current
  BY DEF Crash, Publish, handler
<1>2. \A t \in Submissions : answer[t] # "none" => answer'[t] = answer[t]
  BY AnsweredOnce DEF Next
<1>3. \A t \in Submissions : answer'[t] # answer[t] => answer'[t] = "failed"
  BY DEF Crash, Publish
<1>4. UnansweredOK'
  BY <1>1 DEF Crash, Publish, handler, StoreInv, UnansweredOK
<1>5. RememberedOK'
  BY <1>1, <1>2, <1>3 DEF StoreInv, RememberedOK, TypeOK, Fingerprint
<1>6. ReasonOK'
  <2> SUFFICES ASSUME NEW f \in fingerprints
               PROVE  \E t \in Submissions :
                         answer'[t] \in {"accepted", "failed"} /\ Fingerprint(invoice[t]) = f
    BY <1>1 DEF ReasonOK, Fingerprint
  <2>1. PICK t \in Submissions :
           answer[t] \in {"accepted", "failed"} /\ Fingerprint(invoice[t]) = f
    BY DEF StoreInv, ReasonOK
  <2> QED
    BY <1>2, <2>1
<1>7. RefusedForAReason'
  <2>1. \A r \in Submissions : answer'[r] = "duplicate" => answer[r] = "duplicate"
    BY <1>3
  <2> QED
    BY <1>1, <1>2, <2>1 DEF StoreInv, RefusedForAReason
<1> QED
  BY <1>4, <1>5, <1>6, <1>7

\* Nothing is stored yet.
LEMMA StoreInvInit == Init => StoreInv
BY TypeInit DEF Init, StoreInv, UnansweredOK, RememberedOK, ReasonOK, RefusedForAReason

\* Every step preserves StoreInv, whatever faults occur.
LEMMA StoreInvNext == StoreInv /\ [Next]_vars => StoreInv'
<1> SUFFICES ASSUME StoreInv, [Next]_vars
             PROVE  UnansweredOK' /\ RememberedOK' /\ ReasonOK' /\ RefusedForAReason'
  BY TypeNext DEF StoreInv
<1>1. CASE UNCHANGED vars
  BY <1>1 DEF vars, handler, StoreInv, UnansweredOK, RememberedOK, ReasonOK, RefusedForAReason,
              Fingerprint
<1> QED
  BY <1>1, CheckDuplicateStore, SaveFingerprintStore, LossStore DEF Next

\* StoreInv holds in every reachable state.
LEMMA StoreInvAlways == Spec => []StoreInv
BY StoreInvInit, StoreInvNext, PTL DEF Spec

\* What is published was accepted, and its fingerprint is stored, whatever
\* faults occur.
THEOREM PublishedAreRemembered == Spec => []PublishedIsRemembered
<1>1. StoreInv => PublishedIsRemembered
  BY DEF StoreInv, TypeOK, RememberedOK, PublishedIsRemembered
<1> QED
  BY <1>1, StoreInvAlways, PTL

\* A submission is refused only because of another one with its fingerprint
\* that was accepted or failed, whatever faults occur.
THEOREM RefusalsHaveReasons == Spec => []RefusedForAReason
BY StoreInvAlways, PTL DEF StoreInv
-----------------------------------------------------------------------------
(* One acceptance.                                                         *)

\* AcceptedOnce is not inductive: between look-up and record the submission
\* at work is known to be new, because no other runs in between.
FreshOK == \A s \in current : Fingerprint(invoice[s]) \notin fingerprints

OnceInv == StoreInv /\ FreshOK /\ AcceptedOnce

\* Nothing is accepted yet.
LEMMA OnceInvInit == Init => OnceInv
BY StoreInvInit DEF Init, OnceInv, FreshOK, AcceptedOnce

\* Recording a new fingerprint accepts no invoice again.
LEMMA SaveFingerprintOnce ==
    ASSUME OnceInv, NEW s \in Submissions, SaveFingerprint(s)
    PROVE  AcceptedOnce'
<1>1. invoice' = invoice /\ Fingerprint(invoice[s]) \notin fingerprints
  BY DEF SaveFingerprint, OnceInv, FreshOK
<1>2. \A t \in Submissions \ {s} : answer'[t] = answer[t]
  BY DEF SaveFingerprint, AfterSave, Finish, OnceInv, StoreInv, TypeOK
<1>3. \A t \in Submissions \ {s} :
         answer[t] = "accepted" => Fingerprint(invoice[t]) # Fingerprint(invoice[s])
  BY <1>1 DEF OnceInv, StoreInv, RememberedOK
<1>4. ASSUME NEW t \in Submissions \ {s}, answer'[t] = "accepted",
             invoice[s].vendor = invoice[t].vendor, invoice[s].number = invoice[t].number,
             invoice[s].total = invoice[t].total
      PROVE  FALSE
  BY <1>2, <1>3, <1>4 DEF Fingerprint
<1> QED
  BY <1>1, <1>2, <1>4 DEF OnceInv, AcceptedOnce

\* Every step preserves OnceInv, if no look-up is answered with an error status.
LEMMA OnceInvNext ==
    ASSUME "check_misread" \notin Faults
    PROVE  OnceInv /\ [Next]_vars => OnceInv'
<1> SUFFICES ASSUME OnceInv, [Next]_vars PROVE FreshOK' /\ AcceptedOnce'
  BY StoreInvNext DEF OnceInv
<1>1. ASSUME NEW s \in Submissions, CheckDuplicate(s) PROVE FreshOK' /\ AcceptedOnce'
  <2>1. FreshOK'
    BY <1>1 DEF CheckDuplicate, Passes, Finish, Outcomes, FreshOK, Fingerprint
  <2>2. \A t \in Submissions : answer'[t] = "accepted" => answer[t] = "accepted"
    BY <1>1 DEF CheckDuplicate, Finish, OnceInv, StoreInv, TypeOK
  <2> QED
    BY <1>1, <2>1, <2>2 DEF CheckDuplicate, OnceInv, AcceptedOnce
<1>2. ASSUME NEW s \in Submissions, SaveFingerprint(s) PROVE FreshOK' /\ AcceptedOnce'
  BY <1>2, SaveFingerprintOnce DEF SaveFingerprint, AfterSave, Finish, FreshOK
<1>3. ASSUME NEW s \in Submissions, Publish(s) PROVE FreshOK' /\ AcceptedOnce'
  BY <1>3 DEF Publish, handler, OnceInv, FreshOK, AcceptedOnce, Fingerprint
<1>4. ASSUME Crash PROVE FreshOK' /\ AcceptedOnce'
  BY <1>4 DEF Crash, OnceInv, FreshOK, AcceptedOnce
<1>5. CASE UNCHANGED vars
  BY <1>5 DEF vars, handler, OnceInv, FreshOK, AcceptedOnce, Fingerprint
<1> QED
  BY <1>1, <1>2, <1>3, <1>4, <1>5 DEF Next

\* No invoice is accepted twice, however submissions, failures and crashes
\* alternate, if no look-up is answered with an error status.
THEOREM AcceptedAtMostOnce ==
    ASSUME "check_misread" \notin Faults
    PROVE  Spec => []AcceptedOnce
<1>1. OnceInv => AcceptedOnce
  BY DEF OnceInv
<1> QED
  BY <1>1, OnceInvInit, OnceInvNext, PTL DEF Spec
-----------------------------------------------------------------------------
(* Whatever fails.  A look-up answered with an error status lets an invoice *)
(* in once more, and no more than that.                                     *)

\* The submissions accepted under fingerprint f.
AcceptedAs(f) ==
    {s \in Submissions : answer[s] = "accepted" /\ Fingerprint(invoice[s]) = f}

\* They are finite in number, and at most n.
AtMost(n, f) == IsFiniteSet(AcceptedAs(f)) /\ Cardinality(AcceptedAs(f)) <= n

\* What an acceptance too many costs: a fault of its own, each time.
AcceptancesBounded == \A d \in Invoices : AtMost(1 + faults, Fingerprint(d))

\* The submission at work may be one more: it is new, or was let through by a
\* fault that nothing else was let through by.
PassedOK == \A s \in current : AtMost(faults, Fingerprint(invoice[s]))

AnywayInv == StoreInv /\ AcceptancesBounded /\ PassedOK

\* A fault counts, and nothing else does.
LEMMA FaultsGrow ==
    ASSUME faults \in 0 .. MaxFaults, NEW outcome, Count(outcome)
    PROVE  /\ faults' \in Nat /\ faults <= faults'
           /\ outcome # "ok" => faults' = faults + 1
BY DEF Count

\* A part of a set that has at most n elements has at most k, for any k from n on.
LEMMA PartOf ==
    ASSUME NEW S, IsFiniteSet(S), NEW T \in SUBSET S,
           NEW n \in Nat, NEW k \in Nat, n <= k, Cardinality(S) <= n
    PROVE  IsFiniteSet(T) /\ Cardinality(T) <= k
<1>1. IsFiniteSet(T) /\ Cardinality(T) <= Cardinality(S)
  BY FS_Subset
<1>2. Cardinality(T) \in Nat /\ Cardinality(S) \in Nat
  BY <1>1, FS_CardinalityType
<1> QED
  BY <1>1, <1>2

\* One element more makes the set larger by one at most.
LEMMA OneMore ==
    ASSUME NEW S, IsFiniteSet(S), NEW x, NEW n \in Nat, Cardinality(S) <= n
    PROVE  IsFiniteSet(S \union {x}) /\ Cardinality(S \union {x}) <= 1 + n
<1>1. Cardinality(S) \in Nat
  BY FS_CardinalityType
<1>2. /\ IsFiniteSet(S \union {x})
      /\ Cardinality(S \union {x}) = IF x \in S THEN Cardinality(S) ELSE Cardinality(S) + 1
  BY FS_AddElement
<1> QED
  BY <1>1, <1>2

\* The next number is a number, and its order is that of the numbers.
LEMMA NextNumber ==
    ASSUME NEW n \in Nat, NEW k \in Nat, n <= k
    PROVE  1 + n \in Nat /\ 1 + k \in Nat /\ 1 + n <= 1 + k
OBVIOUS

\* While nothing more is accepted, every bound holds on.
LEMMA NothingMoreAccepted ==
    ASSUME AnywayInv, invoice' = invoice, faults' \in Nat, faults <= faults',
           \A s \in Submissions : answer'[s] = "accepted" => answer[s] = "accepted"
    PROVE  /\ AcceptancesBounded'
           /\ \A s \in Submissions : AtMost(faults, Fingerprint(invoice[s]))
                                      => AtMost(faults, Fingerprint(invoice[s]))'
<1>1. faults \in Nat
  BY DEF AnywayInv, StoreInv, TypeOK
<1>2. 1 + faults \in Nat /\ 1 + faults' \in Nat /\ 1 + faults <= 1 + faults'
  BY <1>1, NextNumber
<1>3. ASSUME NEW d \in Invoices
      PROVE  AtMost(1 + faults, Fingerprint(d))'
  <2> DEFINE before == AcceptedAs(Fingerprint(d))
             after == AcceptedAs(Fingerprint(d))'
  <2>1. after \subseteq before
    BY DEF AcceptedAs, Fingerprint
  <2>2. IsFiniteSet(before) /\ Cardinality(before) <= 1 + faults
    BY DEF AnywayInv, AcceptancesBounded, AtMost
  <2>3. IsFiniteSet(after) /\ Cardinality(after) <= 1 + faults'
    <3> HIDE DEF before, after
    <3> QED
      BY <1>2, <2>1, <2>2, PartOf
  <2> QED
    BY <2>3 DEF AtMost
<1>4. ASSUME NEW s \in Submissions, AtMost(faults, Fingerprint(invoice[s]))
      PROVE  AtMost(faults, Fingerprint(invoice[s]))'
  <2> DEFINE before == AcceptedAs(Fingerprint(invoice[s]))
             after == AcceptedAs(Fingerprint(invoice[s]))'
  <2>1. after \subseteq before
    BY DEF AcceptedAs, Fingerprint
  <2>2. IsFiniteSet(before) /\ Cardinality(before) <= faults
    BY <1>4 DEF AtMost
  <2>3. IsFiniteSet(after) /\ Cardinality(after) <= faults'
    <3> HIDE DEF before, after
    <3> QED
      BY <1>1, <2>1, <2>2, PartOf
  <2> QED
    BY <2>3 DEF AtMost
<1> QED
  BY <1>3, <1>4 DEF AcceptancesBounded

\* A look-up lets a submission through that is new, or for the price of a fault.
LEMMA CheckDuplicateAnyway ==
    ASSUME AnywayInv, NEW s \in Submissions, CheckDuplicate(s)
    PROVE  AcceptancesBounded' /\ PassedOK'
<1>1. PICK outcome \in Outcomes(CheckFaults) :
        /\ Count(outcome)
        /\ \/ Passes(s, outcome) /\ current' = {s} /\ UNCHANGED answer
           \/ Finish(s, IF outcome = "ok" THEN "duplicate" ELSE "failed")
  BY DEF CheckDuplicate
<1>2. invoice' = invoice
  BY DEF CheckDuplicate
<1>3. /\ faults' \in Nat /\ faults <= faults'
      /\ outcome # "ok" => faults' = faults + 1
  BY <1>1, FaultsGrow DEF AnywayInv, StoreInv, TypeOK
<1>4. faults \in Nat
  BY DEF AnywayInv, StoreInv, TypeOK
<1>5. \A t \in Submissions : answer'[t] = "accepted" => answer[t] = "accepted"
  BY <1>1 DEF Finish, AnywayInv, StoreInv, TypeOK
<1>6. AcceptancesBounded'
  BY <1>2, <1>3, <1>5, NothingMoreAccepted
<1>7. CASE Passes(s, outcome) /\ current' = {s}
  <2> DEFINE before == AcceptedAs(Fingerprint(invoice[s]))
             after == AcceptedAs(Fingerprint(invoice[s]))'
  <2>1. IsFiniteSet(before) /\ Cardinality(before) <= faults'
    <3>1. CASE outcome = "ok"
      <4>1. Fingerprint(invoice[s]) \notin fingerprints
        BY <1>7, <3>1 DEF Passes
      <4>2. before = {}
        BY <4>1 DEF AcceptedAs, AnywayInv, StoreInv, RememberedOK
      <4> QED
        BY <1>3, <4>2, FS_EmptySet
    <3>2. CASE outcome # "ok"
      <4>1. invoice[s] \in Invoices
        BY DEF AnywayInv, StoreInv, TypeOK
      <4>2. IsFiniteSet(before) /\ Cardinality(before) <= 1 + faults
        BY <4>1 DEF AnywayInv, AcceptancesBounded, AtMost
      <4>3. faults' = 1 + faults
        BY <1>3, <1>4, <3>2
      <4> QED
        BY <4>2, <4>3
    <3> QED
      BY <3>1, <3>2
  <2>2. after \subseteq before
    BY <1>2, <1>5 DEF AcceptedAs, Fingerprint
  <2>3. IsFiniteSet(after) /\ Cardinality(after) <= faults'
    <3> HIDE DEF before, after
    <3>1. faults' <= faults'
      BY <1>3
    <3> QED
      BY <1>3, <2>1, <2>2, <3>1, PartOf
  <2>4. AtMost(faults, Fingerprint(invoice[s]))'
    BY <2>3 DEF AtMost
  <2> QED
    BY <1>6, <1>7, <2>4 DEF PassedOK
<1>8. CASE current' = {}
  BY <1>6, <1>8 DEF PassedOK
<1> QED
  BY <1>1, <1>7, <1>8 DEF Finish

\* An acceptance is one more than there were, under its fingerprint alone.
LEMMA SaveFingerprintAnyway ==
    ASSUME AnywayInv, NEW s \in Submissions, SaveFingerprint(s)
    PROVE  AcceptancesBounded' /\ PassedOK'
<1>1. PICK outcome \in Outcomes(SaveFaults) : Count(outcome) /\ AfterSave(s, outcome)
  BY DEF SaveFingerprint
<1>2. s \in current /\ invoice' = invoice /\ current' = {}
  BY <1>1 DEF SaveFingerprint, AfterSave, Finish
<1>3. faults' \in Nat /\ faults <= faults' /\ faults \in Nat
  BY <1>1, FaultsGrow DEF AnywayInv, StoreInv, TypeOK
<1>4. 1 + faults \in Nat /\ 1 + faults' \in Nat /\ 1 + faults <= 1 + faults'
  BY <1>3, NextNumber
<1>5. \A t \in Submissions \ {s} : answer'[t] = answer[t]
  BY <1>1 DEF AfterSave, Finish, AnywayInv, StoreInv, TypeOK
<1>6. ASSUME NEW d \in Invoices PROVE AtMost(1 + faults, Fingerprint(d))'
  <2> DEFINE before == AcceptedAs(Fingerprint(d))
             after == AcceptedAs(Fingerprint(d))'
             more == before \union {s}
  <2>1. CASE Fingerprint(d) = Fingerprint(invoice[s])
    <3>1. after \subseteq more
      BY <1>2, <1>5 DEF AcceptedAs, Fingerprint
    <3>2. IsFiniteSet(before) /\ Cardinality(before) <= faults
      BY <1>2, <2>1 DEF AnywayInv, PassedOK, AtMost
    <3>3. IsFiniteSet(more) /\ Cardinality(more) <= 1 + faults
      <4> HIDE DEF before
      <4> QED
        BY <1>3, <3>2, OneMore
    <3>4. IsFiniteSet(after) /\ Cardinality(after) <= 1 + faults'
      <4> HIDE DEF more, after
      <4> QED
        BY <1>4, <3>1, <3>3, PartOf
    <3> QED
      BY <3>4 DEF AtMost
  <2>2. CASE Fingerprint(d) # Fingerprint(invoice[s])
    <3>1. after \subseteq before
      BY <1>2, <1>5, <2>2 DEF AcceptedAs, Fingerprint
    <3>2. IsFiniteSet(before) /\ Cardinality(before) <= 1 + faults
      BY DEF AnywayInv, AcceptancesBounded, AtMost
    <3>3. IsFiniteSet(after) /\ Cardinality(after) <= 1 + faults'
      <4> HIDE DEF before, after
      <4> QED
        BY <1>4, <3>1, <3>2, PartOf
    <3> QED
      BY <3>3 DEF AtMost
  <2> QED
    BY <2>1, <2>2
<1> QED
  BY <1>2, <1>6 DEF AcceptancesBounded, PassedOK

\* Neither a publication nor a crash accepts anything.
LEMMA LossAnyway ==
    ASSUME AnywayInv, Crash \/ (\E s \in Submissions : Publish(s)) \/ UNCHANGED vars
    PROVE  AcceptancesBounded' /\ PassedOK'
<1>1. faults' \in Nat /\ faults <= faults'
  BY FaultsGrow DEF Crash, Publish, vars, AnywayInv, StoreInv, TypeOK
<1>2. invoice' = invoice /\ current' \subseteq current
  BY DEF Crash, Publish, handler, vars
<1>3. \A t \in Submissions : answer'[t] = "accepted" => answer[t] = "accepted"
  BY DEF Crash, Publish, vars
<1>4. /\ AcceptancesBounded'
      /\ \A s \in Submissions : AtMost(faults, Fingerprint(invoice[s]))
                                 => AtMost(faults, Fingerprint(invoice[s]))'
  BY <1>1, <1>2, <1>3, NothingMoreAccepted
<1>5. current \subseteq Submissions
  BY DEF AnywayInv, StoreInv, TypeOK
<1> QED
  BY <1>2, <1>4, <1>5 DEF AnywayInv, PassedOK

\* Every step preserves AnywayInv, whichever faults there are.
LEMMA AnywayInvNext == AnywayInv /\ [Next]_vars => AnywayInv'
<1> SUFFICES ASSUME AnywayInv, [Next]_vars PROVE AcceptancesBounded' /\ PassedOK'
  BY StoreInvNext DEF AnywayInv
<1> QED
  BY LossAnyway, CheckDuplicateAnyway, SaveFingerprintAnyway DEF Next

\* AnywayInv holds in every reachable state.
LEMMA AnywayInvAlways == Spec => []AnywayInv
<1>1. Init => AcceptancesBounded
  <2> SUFFICES ASSUME Init, NEW d \in Invoices PROVE AtMost(1 + faults, Fingerprint(d))
    BY DEF AcceptancesBounded
  <2>1. AcceptedAs(Fingerprint(d)) = {} /\ faults = 0
    BY DEF Init, AcceptedAs
  <2> QED
    BY <2>1, FS_EmptySet DEF AtMost
<1>2. Init => AnywayInv
  BY <1>1, StoreInvInit DEF Init, AnywayInv, PassedOK
<1> QED
  BY <1>2, AnywayInvNext, PTL DEF Spec

\* Of all submissions that come to one fingerprint at most one is accepted, and
\* one more for each fault, whatever fails (AcceptancesBounded): a repeat is
\* never let through by submitting it often, only by a look-up that was misread.
THEOREM EveryRepeatIsAFault == Spec => []AcceptancesBounded
BY AnywayInvAlways, PTL DEF AnywayInv
=============================================================================
