---------------------------- MODULE OutboxProofs ----------------------------
(* Proofs about the outbox, for every set of events, batch size, number of  *)
(* attempts, set of faults and bound on them.                               *)
EXTENDS Outbox, TLAPS, FiniteSetTheorems

-----------------------------------------------------------------------------
(* Sequences: what the operators on the queue return.                       *)

\* The current item of a non-empty list, and the list without it.
LEMMA HeadTailFacts ==
    ASSUME NEW S, NEW s \in Seq(S), s # <<>>
    PROVE  /\ Head(s) \in S
           /\ Head(s) \in ToSet(s)
           /\ Tail(s) \in Seq(S)
           /\ Len(Tail(s)) = Len(s) - 1
           /\ ToSet(Tail(s)) \subseteq ToSet(s)
           /\ Len(s) = 1 <=> Tail(s) = <<>>
<1>1. Len(s) \in Nat /\ Len(s) >= 1 /\ s \in [1 .. Len(s) -> S]
  OBVIOUS
<1>2. Head(s) = s[1] /\ Tail(s) \in Seq(S) /\ Len(Tail(s)) = Len(s) - 1
  OBVIOUS
<1>3. \A i \in 1 .. Len(s) - 1 : Tail(s)[i] = s[i + 1]
  OBVIOUS
<1>4. ToSet(Tail(s)) \subseteq ToSet(s)
  BY <1>1, <1>2, <1>3 DEF ToSet
<1>5. Len(s) = 1 <=> Tail(s) = <<>>
  BY <1>1, <1>2
<1> QED
  BY <1>1, <1>2, <1>4, <1>5 DEF ToSet

\* A snapshot of the queue holds only ids of the queue.
LEMMA SnapshotFacts ==
    ASSUME NEW S, NEW s \in Seq(S), NEW n \in 0 .. Len(s)
    PROVE  /\ SubSeq(s, 1, n) \in Seq(S)
           /\ ToSet(SubSeq(s, 1, n)) \subseteq ToSet(s)
<1>1. Len(s) \in Nat /\ s \in [1 .. Len(s) -> S]
  OBVIOUS
<1>2. SubSeq(s, 1, n) \in Seq(S) /\ Len(SubSeq(s, 1, n)) = n
  BY <1>1
<1>3. \A i \in 1 .. n : SubSeq(s, 1, n)[i] = s[i]
  BY <1>1
<1> QED
  BY <1>1, <1>2, <1>3 DEF ToSet

\* Adding an id (outbox.py:95) keeps the queue a list without duplicates.
LEMMA AddFacts ==
    ASSUME NEW S, NEW q \in Seq(S), NEW e \in S, IsInjective(q)
    PROVE  /\ Add(q, e) \in Seq(S)
           /\ ToSet(Add(q, e)) = ToSet(q) \union {e}
           /\ IsInjective(Add(q, e))
<1>1. Len(q) \in Nat /\ q \in [1 .. Len(q) -> S] /\ DOMAIN q = 1 .. Len(q)
  OBVIOUS
<1>2. CASE e \in ToSet(q)
  BY <1>2 DEF Add
<1>3. CASE e \notin ToSet(q)
  <2>1. Add(q, e) = Append(q, e)
    BY <1>3 DEF Add
  <2>2. /\ Append(q, e) \in Seq(S)
        /\ DOMAIN Append(q, e) = 1 .. Len(q) + 1
        /\ \A i \in 1 .. Len(q) : Append(q, e)[i] = q[i]
        /\ Append(q, e)[Len(q) + 1] = e
    BY <1>1
  <2>3. ToSet(Append(q, e)) = ToSet(q) \union {e}
    BY <1>1, <2>2 DEF ToSet
  <2>4. \A i \in 1 .. Len(q) : q[i] # e
    BY <1>1, <1>3 DEF ToSet
  <2>5. IsInjective(Append(q, e))
    BY <1>1, <2>2, <2>4 DEF IsInjective
  <2> QED
    BY <2>1, <2>2, <2>3, <2>5
<1> QED
  BY <1>2, <1>3

\* Removing an id (outbox.py:109 and :129) removes that id and no other.
LEMMA WithoutFacts ==
    ASSUME NEW S, NEW q \in Seq(S), NEW e \in S, IsInjective(q)
    PROVE  /\ Without(q, e) \in Seq(S)
           /\ ToSet(Without(q, e)) = ToSet(q) \ {e}
           /\ IsInjective(Without(q, e))
<1>1. Len(q) \in Nat /\ q \in [1 .. Len(q) -> S] /\ DOMAIN q = 1 .. Len(q)
  OBVIOUS
<1>2. CASE e \notin ToSet(q)
  BY <1>2 DEF Without
<1>3. CASE e \in ToSet(q)
  <2> DEFINE k == CHOOSE i \in DOMAIN q : q[i] = e
             r == RemoveAt(q, k)
  <2>1. k \in 1 .. Len(q) /\ q[k] = e
    BY <1>1, <1>3 DEF ToSet
  <2>2. Without(q, e) = r
    BY <1>3 DEF Without
  <2> HIDE DEF k
  <2>3. r = SubSeq(q, 1, k - 1) \o SubSeq(q, k + 1, Len(q))
    BY DEF RemoveAt
  <2>4. /\ SubSeq(q, 1, k - 1) \in Seq(S)
        /\ Len(SubSeq(q, 1, k - 1)) = k - 1
        /\ \A i \in 1 .. k - 1 : SubSeq(q, 1, k - 1)[i] = q[i]
    BY <1>1, <2>1
  <2>5. /\ SubSeq(q, k + 1, Len(q)) \in Seq(S)
        /\ Len(SubSeq(q, k + 1, Len(q))) = Len(q) - k
        /\ \A i \in 1 .. Len(q) - k : SubSeq(q, k + 1, Len(q))[i] = q[i + k]
    BY <1>1, <2>1
  <2>6. /\ r \in Seq(S)
        /\ Len(r) = Len(q) - 1
        /\ DOMAIN r = 1 .. Len(q) - 1
        /\ \A i \in 1 .. Len(q) - 1 : r[i] = IF i < k THEN q[i] ELSE q[i + 1]
    <3> DEFINE a == SubSeq(q, 1, k - 1)
               b == SubSeq(q, k + 1, Len(q))
    <3> HIDE DEF r, a, b
    <3>1. a \in Seq(S) /\ b \in Seq(S) /\ Len(a) = k - 1 /\ Len(b) = Len(q) - k
      BY <2>4, <2>5 DEF a, b
    <3>2. r = a \o b
      BY <2>3 DEF a, b
    <3>3. r \in Seq(S) /\ Len(r) = Len(a) + Len(b)
      <4>1. a \o b \in Seq(S)
        BY <3>1
      <4>2. Len(a \o b) = Len(a) + Len(b)
        BY <3>1
      <4> QED
        BY <3>2, <4>1, <4>2
    <3>4. \A i \in 1 .. Len(a) : r[i] = a[i]
      BY <3>1, <3>2
    <3>5. \A i \in 1 .. Len(b) : r[Len(a) + i] = b[i]
      BY <3>1, <3>2
    <3>6. ASSUME NEW i \in 1 .. Len(q) - 1
          PROVE  r[i] = IF i < k THEN q[i] ELSE q[i + 1]
      <4>1. CASE i < k
        <5>1. i \in 1 .. Len(a)
          BY <1>1, <2>1, <3>1, <4>1
        <5> QED
          BY <1>1, <2>1, <2>4, <3>1, <3>4, <4>1, <5>1 DEF a
      <4>2. CASE i >= k
        <5>1. i - (k - 1) \in 1 .. Len(b) /\ i = Len(a) + (i - (k - 1))
          BY <1>1, <2>1, <3>1, <4>2
        <5>2. r[i] = b[i - (k - 1)]
          BY <3>5, <5>1
        <5>3. b[i - (k - 1)] = q[i - (k - 1) + k]
          BY <2>5, <3>1, <5>1 DEF b
        <5> QED
          BY <1>1, <2>1, <4>2, <5>2, <5>3
      <4> QED
        BY <1>1, <2>1, <4>1, <4>2
    <3> QED
      BY <1>1, <2>1, <3>1, <3>3, <3>6
  <2> HIDE DEF r
  <2>7. IsInjective(r)
    <3> DEFINE p(i) == IF i < k THEN i ELSE i + 1
    <3>1. \A i \in 1 .. Len(q) - 1 : p(i) \in 1 .. Len(q) /\ r[i] = q[p(i)]
      BY <1>1, <2>1, <2>6
    <3>2. \A i, j \in 1 .. Len(q) : q[i] = q[j] => i = j
      BY <1>1 DEF IsInjective
    <3>3. ASSUME NEW i \in 1 .. Len(q) - 1, NEW j \in 1 .. Len(q) - 1, r[i] = r[j]
          PROVE  i = j
      <4>1. p(i) = p(j)
        <5> HIDE DEF p
        <5> QED
          BY <3>1, <3>2, <3>3
      <4> QED
        BY <1>1, <2>1, <4>1
    <3> QED
      BY <2>6, <3>3 DEF IsInjective
  <2>8. ToSet(r) \subseteq ToSet(q) \ {e}
    BY <1>1, <2>1, <2>6 DEF IsInjective, ToSet
  <2>9. ToSet(q) \ {e} \subseteq ToSet(r)
    <3> SUFFICES ASSUME NEW i \in 1 .. Len(q), q[i] # e
                 PROVE  \E j \in 1 .. Len(q) - 1 : r[j] = q[i]
      BY <1>1, <2>6 DEF ToSet
    <3>1. CASE i < k
      BY <1>1, <2>1, <2>6, <3>1
    <3>2. CASE i > k
      <4>1. i - 1 \in 1 .. Len(q) - 1 /\ r[i - 1] = q[i]
        BY <1>1, <2>1, <2>6, <3>2
      <4> QED
        BY <4>1
    <3> QED
      BY <1>1, <2>1, <3>1, <3>2
  <2> QED
    BY <2>2, <2>6, <2>7, <2>8, <2>9
<1> QED
  BY <1>2, <1>3

-----------------------------------------------------------------------------
(* Types.  TypeOK alone is not inductive: a thread that is not idle has an  *)
(* event in hand, the event loop has one at most, and the lists that are    *)
(* read and written back are lists without duplicates.                      *)

HandsOK ==
    /\ \A t \in Threads : pc[t] = "idle" <=> work[t] = <<>>
    /\ Len(work[Loop]) <= 1

DistinctOK ==
    /\ IsInjective(queue)
    /\ \A t \in Threads : IsInjective(view[t])

TypeInv == TypeOK /\ HandsOK /\ DistinctOK

\* The empty sequence repeats nothing.
LEMMA EmptyIsInjective == IsInjective(<<>>)
<1>1. DOMAIN <<>> = {}
  OBVIOUS
<1> QED
  BY <1>1 DEF IsInjective

\* Nothing has happened yet.
LEMMA TypeInvInit == Init => TypeInv
<1> SUFFICES ASSUME Init PROVE TypeInv
  OBVIOUS
<1>1. 0 \in 0 .. Attempts - 1 /\ 0 \in 0 .. MaxFaults
  BY OutboxAssumption
<1>2. TypeOK
  <2>1. <<>> \in Seq(Events)
    OBVIOUS
  <2> QED
    BY <1>1, <2>1 DEF Init, TypeOK, Threads, Loop, Dispatcher, Statuses, Tellings, ETags,
                LoopPCs, DispatcherPCs
<1>3. HandsOK
  BY DEF Init, HandsOK, Threads, Loop
<1>4. DistinctOK
  BY EmptyIsInjective DEF Init, DistinctOK, Threads
<1> QED
  BY <1>2, <1>3, <1>4 DEF TypeInv

\* The faults of an outcome are counted within the bound.
LEMMA CountFacts ==
    ASSUME faults \in 0 .. MaxFaults, NEW kinds, "ok" \notin kinds,
           NEW o \in Outcomes(kinds), Count(o)
    PROVE  /\ faults' \in 0 .. MaxFaults
           /\ o = "ok" \/ o \in kinds \intersect Faults
BY OutboxAssumption DEF Outcomes, Count

\* Going on with the next event, or giving up, keeps the threads' locals typed.
LEMMA NextItemTyped ==
    ASSUME TypeInv, NEW t \in Threads, pc[t] # "idle", NextItem(t)
    PROVE  /\ work' \in [Threads -> Seq(Events)]
           /\ pc' \in [Threads -> DispatcherPCs]
           /\ pc'[Loop] \in LoopPCs
           /\ HandsOK'
<1>1. work[t] \in Seq(Events) /\ work[t] # <<>>
  BY DEF TypeInv, TypeOK, HandsOK
<1>2. /\ Tail(work[t]) \in Seq(Events)
      /\ Len(Tail(work[t])) = Len(work[t]) - 1
      /\ Len(work[t]) = 1 <=> Tail(work[t]) = <<>>
  BY <1>1, HeadTailFacts
<1>3. Len(work[t]) \in Nat /\ Len(work[Loop]) \in Nat
  BY <1>1 DEF TypeInv, TypeOK, Threads, Loop
<1>4. work' = [work EXCEPT ![t] = Tail(work[t])]
  BY DEF NextItem
<1>5. pc' = [pc EXCEPT ![t] = IF Len(work[t]) = 1 THEN "idle" ELSE "record"]
  BY DEF NextItem, Goto
<1>6. t = Loop => Len(work[t]) = 1
  <2>1. Len(work[t]) # 0
    BY <1>1
  <2>2. Len(work[Loop]) <= 1
    BY DEF TypeInv, HandsOK
  <2>3. t = Loop => Len(work[t]) <= 1
    BY <2>2, Zenon
  <2> DEFINE n == Len(work[t])
  <2>4. n \in Nat /\ n # 0
    BY <1>3, <2>1
  <2>5. n <= 1 => n = 1
    <3> HIDE DEF n
    <3> QED
      BY <2>4
  <2> QED
    BY <2>3, <2>5, Zenon
<1>7. work' \in [Threads -> Seq(Events)]
  BY <1>2, <1>4 DEF TypeInv, TypeOK
<1>8. pc' \in [Threads -> DispatcherPCs] /\ pc'[Loop] \in LoopPCs
  BY <1>5, <1>6 DEF TypeInv, TypeOK, DispatcherPCs, LoopPCs, Threads
<1>9. HandsOK'
  <2>1. ASSUME NEW u \in Threads PROVE pc'[u] = "idle" <=> work'[u] = <<>>
    BY <1>2, <1>4, <1>5 DEF TypeInv, TypeOK, HandsOK
  <2>2. Len(work'[Loop]) <= 1
    <3>1. CASE t = Loop
      <4>1. Len(work'[t]) = 0
        BY <1>2, <1>3, <1>4, <1>6, <3>1 DEF TypeInv, TypeOK
      <4>2. Len(work'[Loop]) = 0
        BY <3>1, <4>1, Zenon
      <4> QED
        BY <4>2
    <3>2. CASE t # Loop
      BY <1>4, <3>2 DEF TypeInv, TypeOK, HandsOK, Threads
    <3> QED
      BY <3>1, <3>2
  <2> QED
    BY <2>1, <2>2 DEF HandsOK
<1> QED
  BY <1>7, <1>8, <1>9

\* A tick that is given up leaves the dispatcher well formed.
LEMMA AbortTyped ==
    ASSUME TypeInv, NEW t \in Threads, Abort(t)
    PROVE  /\ work' \in [Threads -> Seq(Events)]
           /\ pc' \in [Threads -> DispatcherPCs]
           /\ pc'[Loop] \in LoopPCs
           /\ HandsOK'
<1>1. work' = [work EXCEPT ![t] = <<>>] /\ pc' = [pc EXCEPT ![t] = "idle"]
  BY DEF Abort, Goto
<1>2. work' \in [Threads -> Seq(Events)]
  BY <1>1 DEF TypeInv, TypeOK
<1>3. pc' \in [Threads -> DispatcherPCs] /\ pc'[Loop] \in LoopPCs
  BY <1>1 DEF TypeInv, TypeOK, DispatcherPCs, LoopPCs, Threads
<1>4. Len(<<>>) = 0
  OBVIOUS
<1>5. HandsOK'
  BY <1>1, <1>4 DEF TypeInv, TypeOK, HandsOK, Threads
<1> QED
  BY <1>2, <1>3, <1>5

\* A thread that moves to another call of the same event stays typed.
LEMMA GotoTyped ==
    ASSUME TypeInv, NEW t \in Threads, pc[t] # "idle", NEW label \in DispatcherPCs \ {"idle"},
           t = Loop => label \in LoopPCs, Goto(t, label), UNCHANGED work
    PROVE  /\ work' \in [Threads -> Seq(Events)]
           /\ pc' \in [Threads -> DispatcherPCs]
           /\ pc'[Loop] \in LoopPCs
           /\ HandsOK'
BY DEF TypeInv, TypeOK, HandsOK, Goto, Threads

\* What the caller is told is one of the things TypeOK names.
LEMMA TellTyped ==
    ASSUME TypeInv, NEW t \in Threads, pc[t] # "idle", NEW answer \in Tellings, Tell(t, answer)
    PROVE  told' \in [Events -> Tellings]
BY DEF TypeInv, TypeOK, Tell

\* A thread that forgets its copy of the queue is well formed.
LEMMA ForgetTyped ==
    ASSUME TypeInv, NEW t \in Threads, ForgetQueue(t)
    PROVE  /\ view' \in [Threads -> Seq(Events)]
           /\ etag' \in [Threads -> ETags]
           /\ tries' \in [Threads -> 0 .. Attempts - 1]
           /\ \A u \in Threads : IsInjective(view'[u])
<1>1. <<>> \in Seq(Events) /\ 0 \in 0 .. Attempts - 1 /\ "none" \in ETags
  BY OutboxAssumption DEF ETags
<1> QED
  BY <1>1, EmptyIsInjective DEF TypeInv, TypeOK, DistinctOK, ForgetQueue

\* Each action preserves the typing invariant.
LEMMA CommitTransactionTyped ==
    ASSUME TypeInv, NEW e \in Events, CommitTransaction(e)
    PROVE  TypeInv'
<1>1. PICK o \in Outcomes(WriteFaults) :
        /\ Count(o)
        /\ record' = IF Applied(o) THEN [record EXCEPT ![e] = "pending"] ELSE record
        /\ IF o = "ok"
           THEN /\ told' = [told EXCEPT ![e] = "waiting"]
                /\ work' = [work EXCEPT ![Loop] = <<e>>]
                /\ Goto(Loop, "get")
           ELSE /\ told' = [told EXCEPT ![e] = "failed"]
                /\ UNCHANGED <<work, pc>>
  BY DEF CommitTransaction
<1>2. faults' \in 0 .. MaxFaults
  BY <1>1, CountFacts DEF WriteFaults, TypeInv, TypeOK
<1>3. record' \in [Events -> Statuses] /\ told' \in [Events -> Tellings]
  BY <1>1 DEF TypeInv, TypeOK, Statuses, Tellings
<1>4. /\ work' \in [Threads -> Seq(Events)]
      /\ pc' \in [Threads -> DispatcherPCs]
      /\ pc'[Loop] \in LoopPCs
      /\ HandsOK'
  <2>1. CASE o = "ok"
    <3>1. <<e>> \in Seq(Events) /\ Len(<<e>>) = 1 /\ <<e>> # <<>>
      OBVIOUS
    <3>2. work' = [work EXCEPT ![Loop] = <<e>>] /\ pc' = [pc EXCEPT ![Loop] = "get"]
      BY <1>1, <2>1 DEF Goto
    <3> QED
      BY <3>1, <3>2 DEF TypeInv, TypeOK, HandsOK, Threads, DispatcherPCs, LoopPCs
  <2>2. CASE o # "ok"
    BY <1>1, <2>2 DEF TypeInv, TypeOK, HandsOK
  <2> QED
    BY <2>1, <2>2
<1> QED
  BY <1>2, <1>3, <1>4 DEF CommitTransaction, TypeInv, TypeOK, DistinctOK, mutation

\* GetQueue preserves the types.
LEMMA GetQueueTyped ==
    ASSUME TypeInv, NEW t \in Threads, GetQueue(t)
    PROVE  TypeInv'
<1>1. PICK o \in Outcomes(ReadFaults) :
        /\ Count(o)
        /\ IF Raises(o)
           THEN Abort(t) /\ Tell(t, "failed") /\ ForgetQueue(t)
           ELSE /\ Goto(t, "save")
                /\ view' = [view EXCEPT ![t] = IF o = "ok" THEN queue ELSE <<>>]
                /\ etag' = [etag EXCEPT ![t] = TagRead(o)]
                /\ UNCHANGED <<work, told, tries>>
  BY DEF GetQueue
<1>2. faults' \in 0 .. MaxFaults
  BY <1>1, CountFacts DEF ReadFaults, TypeInv, TypeOK
<1>3. pc[t] = "get" /\ UNCHANGED <<record, queue, queueKey, published>>
  BY DEF GetQueue, store
<1>4. CASE Raises(o)
  <2>1. told' \in [Events -> Tellings]
    BY <1>1, <1>3, <1>4, TellTyped DEF Tellings
  <2>2. /\ work' \in [Threads -> Seq(Events)]
        /\ pc' \in [Threads -> DispatcherPCs]
        /\ pc'[Loop] \in LoopPCs
        /\ HandsOK'
    BY <1>1, <1>4, AbortTyped
  <2>3. /\ view' \in [Threads -> Seq(Events)]
        /\ etag' \in [Threads -> ETags]
        /\ tries' \in [Threads -> 0 .. Attempts - 1]
        /\ \A u \in Threads : IsInjective(view'[u])
    BY <1>1, <1>4, ForgetTyped
  <2> QED
    BY <1>2, <1>3, <2>1, <2>2, <2>3 DEF TypeInv, TypeOK, DistinctOK
<1>5. CASE ~Raises(o)
  <2>1. /\ work' \in [Threads -> Seq(Events)]
        /\ pc' \in [Threads -> DispatcherPCs]
        /\ pc'[Loop] \in LoopPCs
        /\ HandsOK'
    <3>1. Goto(t, "save") /\ UNCHANGED work
      BY <1>1, <1>5
    <3>2. "save" \in DispatcherPCs \ {"idle"} /\ "save" \in LoopPCs
      BY DEF DispatcherPCs, LoopPCs
    <3> QED
      BY <1>3, <3>1, <3>2, GotoTyped
  <2>2. /\ view' \in [Threads -> Seq(Events)]
        /\ etag' \in [Threads -> ETags]
        /\ \A u \in Threads : IsInjective(view'[u])
    <3>1. <<>> \in Seq(Events)
      OBVIOUS
    <3>2. TagRead(o) \in ETags
      BY DEF TagRead, ETags
    <3> QED
      BY <1>1, <1>5, <3>1, <3>2, EmptyIsInjective DEF TypeInv, TypeOK, DistinctOK
  <2> QED
    BY <1>1, <1>2, <1>3, <1>5, <2>1, <2>2 DEF TypeInv, TypeOK, DistinctOK
<1> QED
  BY <1>4, <1>5

\* What the mutation of _mutate_queue writes is a list of distinct events.
LEMMA MutatedFacts ==
    ASSUME TypeInv, NEW t \in Threads, pc[t] # "idle"
    PROVE  /\ Item(t) \in Events
           /\ Item(t) \in ToSet(work[t])
           /\ Mutated(t) \in Seq(Events)
           /\ IsInjective(Mutated(t))
           /\ t = Loop => ToSet(Mutated(t)) = ToSet(view[t]) \union {Item(t)}
           /\ t # Loop => ToSet(Mutated(t)) = ToSet(view[t]) \ {Item(t)}
<1>1. work[t] \in Seq(Events) /\ work[t] # <<>>
  BY DEF TypeInv, TypeOK, HandsOK
<1>2. view[t] \in Seq(Events) /\ IsInjective(view[t])
  BY DEF TypeInv, TypeOK, DistinctOK
<1>3. Item(t) \in Events /\ Item(t) \in ToSet(work[t])
  BY <1>1, HeadTailFacts DEF Item
<1> DEFINE q == view[t]
           e == Item(t)
<1>4. /\ Add(q, e) \in Seq(Events)
      /\ IsInjective(Add(q, e))
      /\ ToSet(Add(q, e)) = ToSet(q) \union {e}
  BY <1>2, <1>3, AddFacts
<1>5. /\ Without(q, e) \in Seq(Events)
      /\ IsInjective(Without(q, e))
      /\ ToSet(Without(q, e)) = ToSet(q) \ {e}
  BY <1>2, <1>3, WithoutFacts
<1>6. Mutated(t) = IF t = Loop THEN Add(q, e) ELSE Without(q, e)
  BY DEF Mutated
<1> HIDE DEF q, e
<1>7. CASE t = Loop
  BY <1>3, <1>4, <1>6, <1>7 DEF q, e
<1>8. CASE t # Loop
  BY <1>3, <1>5, <1>6, <1>8 DEF q, e
<1> QED
  BY <1>7, <1>8

\* The cases of one attempt to save the queue, spelled out.
LEMMA SaveQueueCases ==
    ASSUME NEW t \in Threads, SaveQueue(t)
    PROVE  \E o \in Outcomes(WriteFaults), written, saved, ends \in BOOLEAN :
             /\ written <=> etag[t] # "stale" /\ Applied(o)
             /\ saved <=> etag[t] # "stale" /\ o = "ok"
             /\ ends <=> saved \/ Raises(o) \/ LastTry(t)
             /\ Count(o)
             /\ queue' = IF written THEN Mutated(t) ELSE queue
             /\ queueKey' = IF written THEN TRUE ELSE queueKey
             /\ view' = [view EXCEPT ![t] = <<>>]
             /\ etag' = [IF written THEN Outdate(etag) ELSE etag EXCEPT ![t] = "none"]
             /\ tries' = [tries EXCEPT ![t] = IF ends THEN 0 ELSE @ + 1]
             /\ \/ saved /\ NextItem(t)
                \/ ends /\ ~saved /\ Abort(t)
                \/ ~ends /\ Goto(t, "get") /\ UNCHANGED work
             /\ IF ends THEN Tell(t, Verdict(saved)) ELSE UNCHANGED told
             /\ pc[t] = "save"
             /\ UNCHANGED <<record, published>>
<1>1. PICK o \in Outcomes(WriteFaults) :
        LET written == etag[t] # "stale" /\ Applied(o)
            tags    == IF written THEN Outdate(etag) ELSE etag
            saved   == etag[t] # "stale" /\ o = "ok"
            ends    == saved \/ Raises(o) \/ LastTry(t)
        IN  /\ Count(o)
            /\ IF written THEN WriteQueue(t) ELSE UNCHANGED <<queue, queueKey>>
            /\ view' = [view EXCEPT ![t] = <<>>]
            /\ etag' = [tags EXCEPT ![t] = "none"]
            /\ tries' = [tries EXCEPT ![t] = IF ends THEN 0 ELSE @ + 1]
            /\ \/ saved /\ NextItem(t)
               \/ ends /\ ~saved /\ Abort(t)
               \/ ~ends /\ Goto(t, "get") /\ UNCHANGED work
            /\ IF ends THEN Tell(t, Verdict(saved)) ELSE UNCHANGED told
  BY DEF SaveQueue
<1> DEFINE written == etag[t] # "stale" /\ Applied(o)
           saved   == etag[t] # "stale" /\ o = "ok"
           ends    == saved \/ Raises(o) \/ LastTry(t)
<1>2. written \in BOOLEAN /\ saved \in BOOLEAN /\ ends \in BOOLEAN
  BY DEF Raises, LastTry, Applied
<1>3. pc[t] = "save" /\ UNCHANGED <<record, published>>
  BY DEF SaveQueue
<1>4. /\ queue' = IF written THEN Mutated(t) ELSE queue
      /\ queueKey' = IF written THEN TRUE ELSE queueKey
  BY <1>1 DEF WriteQueue
<1> WITNESS o \in Outcomes(WriteFaults), written \in BOOLEAN, saved \in BOOLEAN, ends \in BOOLEAN
<1> QED
  BY <1>1, <1>3, <1>4

\* SaveQueue preserves the types.
LEMMA SaveQueueTyped ==
    ASSUME TypeInv, NEW t \in Threads, SaveQueue(t)
    PROVE  TypeInv'
<1>1. PICK o \in Outcomes(WriteFaults), written, saved, ends \in BOOLEAN :
        /\ written <=> etag[t] # "stale" /\ Applied(o)
        /\ saved <=> etag[t] # "stale" /\ o = "ok"
        /\ ends <=> saved \/ Raises(o) \/ LastTry(t)
        /\ Count(o)
        /\ queue' = IF written THEN Mutated(t) ELSE queue
        /\ queueKey' = IF written THEN TRUE ELSE queueKey
        /\ view' = [view EXCEPT ![t] = <<>>]
        /\ etag' = [IF written THEN Outdate(etag) ELSE etag EXCEPT ![t] = "none"]
        /\ tries' = [tries EXCEPT ![t] = IF ends THEN 0 ELSE @ + 1]
        /\ \/ saved /\ NextItem(t)
           \/ ends /\ ~saved /\ Abort(t)
           \/ ~ends /\ Goto(t, "get") /\ UNCHANGED work
        /\ IF ends THEN Tell(t, Verdict(saved)) ELSE UNCHANGED told
        /\ pc[t] = "save"
        /\ UNCHANGED <<record, published>>
  BY SaveQueueCases
<1>2. faults' \in 0 .. MaxFaults
  BY <1>1, CountFacts DEF WriteFaults, TypeInv, TypeOK
<1>3. queue' \in Seq(Events) /\ IsInjective(queue') /\ queueKey' \in BOOLEAN
  BY <1>1, MutatedFacts DEF TypeInv, TypeOK, DistinctOK
<1>4. /\ view' \in [Threads -> Seq(Events)]
      /\ \A u \in Threads : IsInjective(view'[u])
  <2>1. <<>> \in Seq(Events)
    OBVIOUS
  <2> QED
    BY <1>1, <2>1, EmptyIsInjective DEF TypeInv, TypeOK, DistinctOK
<1>5. etag' \in [Threads -> ETags]
  BY <1>1 DEF TypeInv, TypeOK, Outdate, ETags
<1>6. tries' \in [Threads -> 0 .. Attempts - 1]
  <2>1. ~ends => tries[t] + 1 \in 0 .. Attempts - 1
    BY <1>1, OutboxAssumption DEF LastTry, TypeInv, TypeOK
  <2>2. 0 \in 0 .. Attempts - 1
    BY OutboxAssumption
  <2> QED
    BY <1>1, <2>1, <2>2 DEF TypeInv, TypeOK
<1>7. told' \in [Events -> Tellings]
  <2>1. Verdict(saved) \in Tellings
    BY DEF Verdict, Tellings
  <2>2. CASE ends
    BY <1>1, <2>1, <2>2, TellTyped
  <2>3. CASE ~ends
    BY <1>1, <2>3 DEF TypeInv, TypeOK
  <2> QED
    BY <2>2, <2>3
<1>8. /\ work' \in [Threads -> Seq(Events)]
      /\ pc' \in [Threads -> DispatcherPCs]
      /\ pc'[Loop] \in LoopPCs
      /\ HandsOK'
  <2>1. CASE saved /\ NextItem(t)
    BY <1>1, <2>1, NextItemTyped
  <2>2. CASE ends /\ ~saved /\ Abort(t)
    BY <1>1, <2>2, AbortTyped
  <2>3. CASE ~ends /\ Goto(t, "get") /\ UNCHANGED work
    <3>1. "get" \in DispatcherPCs \ {"idle"} /\ "get" \in LoopPCs
      BY DEF DispatcherPCs, LoopPCs
    <3> QED
      BY <1>1, <2>3, <3>1, GotoTyped
  <2> QED
    BY <1>1, <2>1, <2>2, <2>3
<1> QED
  BY <1>1, <1>2, <1>3, <1>4, <1>5, <1>6, <1>7, <1>8 DEF TypeInv, TypeOK, DistinctOK

\* StartTick preserves the types.
LEMMA StartTickTyped ==
    ASSUME TypeInv, StartTick
    PROVE  TypeInv'
<1>1. PICK o \in Outcomes(ReadFaults) :
        LET seen == IF o = "ok" THEN queue ELSE <<>>
            snapshot == SubSeq(seen, 1, IF Len(seen) < MaxBatch THEN Len(seen) ELSE MaxBatch)
        IN  /\ Count(o)
            /\ work' = [work EXCEPT ![Dispatcher] = snapshot]
            /\ Goto(Dispatcher, IF snapshot = <<>> THEN "idle" ELSE "record")
  BY DEF StartTick
<1> DEFINE seen == IF o = "ok" THEN queue ELSE <<>>
           n == IF Len(seen) < MaxBatch THEN Len(seen) ELSE MaxBatch
           snapshot == SubSeq(seen, 1, n)
<1>2. seen \in Seq(Events)
  BY DEF TypeInv, TypeOK
<1>3. n \in 0 .. Len(seen)
  <2>1. Len(seen) \in Nat
    BY <1>2
  <2> QED
    BY <2>1, OutboxAssumption
<1>4. snapshot \in Seq(Events)
  BY <1>2, <1>3, SnapshotFacts
<1>5. work' = [work EXCEPT ![Dispatcher] = snapshot]
  BY <1>1
<1>6. pc' = [pc EXCEPT ![Dispatcher] = IF snapshot = <<>> THEN "idle" ELSE "record"]
  BY <1>1 DEF Goto
<1> HIDE DEF snapshot
<1>7. faults' \in 0 .. MaxFaults
  BY <1>1, CountFacts DEF ReadFaults, TypeInv, TypeOK
<1>8. /\ work' \in [Threads -> Seq(Events)]
      /\ pc' \in [Threads -> DispatcherPCs]
      /\ pc'[Loop] \in LoopPCs
      /\ \A t \in Threads : pc'[t] = "idle" <=> work'[t] = <<>>
  BY <1>4, <1>5, <1>6
     DEF TypeInv, TypeOK, HandsOK, Threads, Loop, Dispatcher, DispatcherPCs
<1>9. work'[Loop] = work[Loop]
  BY <1>5 DEF TypeInv, TypeOK, Threads, Loop, Dispatcher
<1>10. HandsOK'
  BY <1>8, <1>9 DEF TypeInv, HandsOK
<1> QED
  BY <1>7, <1>8, <1>10 DEF StartTick, TypeInv, TypeOK, DistinctOK, store, mutation

\* Dropping an id from the queue begins with a read of it.
LEMMA DropTyped ==
    ASSUME TypeInv, pc[Dispatcher] # "idle", DropFromQueue
    PROVE  /\ work' \in [Threads -> Seq(Events)]
           /\ pc' \in [Threads -> DispatcherPCs]
           /\ pc'[Loop] \in LoopPCs
           /\ HandsOK'
<1>1. "get" \in DispatcherPCs \ {"idle"} /\ "get" \in LoopPCs /\ Dispatcher \in Threads
  BY DEF DispatcherPCs, LoopPCs, Threads
<1> QED
  BY <1>1, GotoTyped DEF DropFromQueue

\* GetRecord preserves the types.
LEMMA GetRecordTyped ==
    ASSUME TypeInv, GetRecord
    PROVE  TypeInv'
<1>1. PICK o \in Outcomes(ReadFaults) :
        /\ Count(o)
        /\ \/ Raises(o) /\ Abort(Dispatcher)
           \/ NeedsPublish(o) /\ Goto(Dispatcher, "publish") /\ UNCHANGED work
           \/ ~Raises(o) /\ ~NeedsPublish(o) /\ DropFromQueue
  BY DEF GetRecord
<1>2. pc[Dispatcher] # "idle" /\ Dispatcher \in Threads /\ Dispatcher # Loop
  BY DEF GetRecord, Threads, Dispatcher, Loop
<1>3. faults' \in 0 .. MaxFaults
  BY <1>1, CountFacts DEF ReadFaults, TypeInv, TypeOK
<1>4. "publish" \in DispatcherPCs \ {"idle"}
  BY DEF DispatcherPCs
<1>5. /\ work' \in [Threads -> Seq(Events)]
      /\ pc' \in [Threads -> DispatcherPCs]
      /\ pc'[Loop] \in LoopPCs
      /\ HandsOK'
  BY <1>1, <1>2, <1>4, AbortTyped, GotoTyped, DropTyped
<1> QED
  BY <1>3, <1>5 DEF GetRecord, TypeInv, TypeOK, DistinctOK, store, mutation

\* Publish preserves the types.
LEMMA PublishTyped ==
    ASSUME TypeInv, Publish
    PROVE  TypeInv'
<1>1. PICK o \in Outcomes(PublishFaults) :
        LET taken == Item(Dispatcher) \notin Rejected /\ o # "publish_refused"
        IN  /\ Count(o)
            /\ published' = IF taken THEN published \union {Item(Dispatcher)} ELSE published
            /\ Goto(Dispatcher, AfterPublish(taken /\ o = "ok"))
  BY DEF Publish
<1>2. pc[Dispatcher] # "idle" /\ Dispatcher \in Threads /\ Dispatcher # Loop
  BY DEF Publish, Threads, Dispatcher, Loop
<1>3. faults' \in 0 .. MaxFaults
  BY <1>1, CountFacts DEF PublishFaults, TypeInv, TypeOK
<1>4. published' \subseteq Events
  <2>1. Item(Dispatcher) \in Events
    BY <1>2, MutatedFacts
  <2> QED
    BY <1>1, <2>1 DEF TypeInv, TypeOK
<1>5. PICK label \in {"mark", "bump"} : Goto(Dispatcher, label)
  BY <1>1 DEF AfterPublish
<1>6. label \in DispatcherPCs \ {"idle"} /\ UNCHANGED work
  BY DEF DispatcherPCs, Publish
<1>7. /\ work' \in [Threads -> Seq(Events)]
      /\ pc' \in [Threads -> DispatcherPCs]
      /\ pc'[Loop] \in LoopPCs
      /\ HandsOK'
  BY <1>2, <1>5, <1>6, GotoTyped
<1> QED
  BY <1>3, <1>4, <1>7 DEF Publish, TypeInv, TypeOK, DistinctOK, store, mutation

\* BumpAttempts preserves the types.
LEMMA BumpAttemptsTyped ==
    ASSUME TypeInv, BumpAttempts
    PROVE  TypeInv'
<1>1. PICK o \in Outcomes(WriteFaults) :
        /\ Count(o)
        /\ record' = IF Applied(o)
                     THEN [record EXCEPT ![Item(Dispatcher)] = "pending"] ELSE record
        /\ AfterBump(o)
  BY DEF BumpAttempts
<1>2. pc[Dispatcher] # "idle" /\ Dispatcher \in Threads
  BY DEF BumpAttempts, Threads
<1>3. faults' \in 0 .. MaxFaults
  BY <1>1, CountFacts DEF WriteFaults, TypeInv, TypeOK
<1>4. record' \in [Events -> Statuses]
  BY <1>1 DEF TypeInv, TypeOK, Statuses
<1>5. /\ work' \in [Threads -> Seq(Events)]
      /\ pc' \in [Threads -> DispatcherPCs]
      /\ pc'[Loop] \in LoopPCs
      /\ HandsOK'
  BY <1>1, <1>2, AbortTyped, NextItemTyped DEF AfterBump
<1> QED
  BY <1>3, <1>4, <1>5 DEF BumpAttempts, TypeInv, TypeOK, DistinctOK, mutation

\* MarkDispatched preserves the types.
LEMMA MarkDispatchedTyped ==
    ASSUME TypeInv, MarkDispatched
    PROVE  TypeInv'
<1>1. PICK o \in Outcomes(WriteFaults) :
        /\ Count(o)
        /\ record' = IF Applied(o)
                     THEN [record EXCEPT ![Item(Dispatcher)] = "dispatched"] ELSE record
        /\ IF o = "ok" THEN DropFromQueue ELSE Abort(Dispatcher)
  BY DEF MarkDispatched
<1>2. pc[Dispatcher] # "idle" /\ Dispatcher \in Threads
  BY DEF MarkDispatched, Threads
<1>3. faults' \in 0 .. MaxFaults
  BY <1>1, CountFacts DEF WriteFaults, TypeInv, TypeOK
<1>4. record' \in [Events -> Statuses]
  BY <1>1 DEF TypeInv, TypeOK, Statuses
<1>5. /\ work' \in [Threads -> Seq(Events)]
      /\ pc' \in [Threads -> DispatcherPCs]
      /\ pc'[Loop] \in LoopPCs
      /\ HandsOK'
  BY <1>1, <1>2, AbortTyped, DropTyped
<1> QED
  BY <1>3, <1>4, <1>5 DEF MarkDispatched, TypeInv, TypeOK, DistinctOK, mutation

\* Crash preserves the types.
LEMMA CrashTyped ==
    ASSUME TypeInv, Crash
    PROVE  TypeInv'
<1>1. "crash" \in Outcomes({"crash"}) /\ Count("crash")
  BY DEF Crash
<1>2. faults' \in 0 .. MaxFaults
  BY <1>1, CountFacts DEF TypeInv, TypeOK
<1>3. <<>> \in Seq(Events) /\ Len(<<>>) = 0 /\ 0 \in 0 .. Attempts - 1
  BY OutboxAssumption
<1>4. /\ work' \in [Threads -> Seq(Events)]
      /\ pc' \in [Threads -> DispatcherPCs]
      /\ view' \in [Threads -> Seq(Events)]
      /\ etag' \in [Threads -> ETags]
      /\ tries' \in [Threads -> 0 .. Attempts - 1]
      /\ told' \in [Events -> Tellings]
  BY <1>3 DEF Crash, TypeInv, TypeOK, DispatcherPCs, ETags, Tellings
<1>5. pc'[Loop] \in LoopPCs /\ HandsOK'
  BY <1>3 DEF Crash, HandsOK, Threads, Loop, LoopPCs
<1>6. DistinctOK'
  BY EmptyIsInjective DEF Crash, TypeInv, DistinctOK, store, Threads
<1> QED
  BY <1>2, <1>4, <1>5, <1>6 DEF Crash, TypeInv, TypeOK, store

\* Every step preserves TypeInv.
LEMMA TypeInvNext == TypeInv /\ [Next]_vars => TypeInv'
<1> SUFFICES ASSUME TypeInv, [Next]_vars PROVE TypeInv'
  OBVIOUS
<1> USE DEF Threads
<1>1. CASE UNCHANGED vars
  BY <1>1 DEF vars, TypeInv, TypeOK, HandsOK, DistinctOK
<1>2. ASSUME NEW e \in Events, CommitTransaction(e) PROVE TypeInv'
  BY <1>2, CommitTransactionTyped
<1>3. CASE Enqueueing
  BY <1>3, GetQueueTyped, SaveQueueTyped DEF Enqueueing
<1>4. CASE Dispatching
  BY <1>4, StartTickTyped, GetRecordTyped, PublishTyped, BumpAttemptsTyped,
     MarkDispatchedTyped, GetQueueTyped, SaveQueueTyped DEF Dispatching
<1>5. CASE Crash
  BY <1>5, CrashTyped
<1> QED
  BY <1>1, <1>2, <1>3, <1>4, <1>5 DEF Next

\* TypeInv holds in every reachable state.
LEMMA TypeInvAlways == Spec => []TypeInv
<1> QED
  BY TypeInvInit, TypeInvNext, PTL DEF Spec

\* Every variable of the outbox keeps its type, whatever faults occur.
THEOREM TypeCorrect == Spec => []TypeOK
<1>1. TypeInv => TypeOK
  BY DEF TypeInv
<1> QED
  BY <1>1, TypeInvAlways, PTL

\* outbox_queue never holds an id twice, whatever faults occur, although the
\* two threads write it in turns and an applied write may be retried.
THEOREM NoDuplicateIds == Spec => []QueueHasNoDuplicates
<1>1. TypeInv => QueueHasNoDuplicates
  BY DEF TypeInv, DistinctOK, QueueHasNoDuplicates
<1> QED
  BY <1>1, TypeInvAlways, PTL

-----------------------------------------------------------------------------
(* Records.  What a thread has in hand or in its view was committed, and   *)
(* the dispatcher's place in dispatch_pending says what became of its item. *)

Held(e) ==
    \/ told[e] = "enqueued"
    \/ e \in ToSet(queue)
    \/ \E t \in Threads : e \in ToSet(work[t]) \/ e \in ToSet(view[t])

CommittedOK ==
    /\ \A e \in Events : Held(e) => record[e] # "absent"
    /\ \A e \in Events : told[e] = "new" => record[e] = "absent"
    /\ pc[Loop] # "idle" => told[Item(Loop)] = "waiting"

DispatcherOK ==
    /\ pc[Dispatcher] \in {"publish", "bump"} => record[Item(Dispatcher)] = "pending"
    /\ pc[Dispatcher] = "mark" => Item(Dispatcher) \in published

RecordInv == TypeInv /\ CommittedOK /\ DispatcherOK /\ DispatchedWasPublished

\* RecordInv holds when nothing has happened yet.
LEMMA RecordInvInit == Init => RecordInv
<1> SUFFICES ASSUME Init PROVE RecordInv
  OBVIOUS
<1>1. TypeInv
  BY TypeInvInit
<1>2. ToSet(<<>>) = {}
  BY DEF ToSet
<1>3. CommittedOK /\ DispatcherOK /\ DispatchedWasPublished
  BY <1>2 DEF Init, CommittedOK, Held, DispatcherOK, DispatchedWasPublished, Threads, Loop, Dispatcher
<1> QED
  BY <1>1, <1>3 DEF RecordInv

\* A thread that goes on to its next event only forgets the current one, and
\* what the other thread has in hand stays the same.
LEMMA NextItemKeeps ==
    ASSUME TypeInv, NEW t \in Threads, pc[t] # "idle", NextItem(t)
    PROVE  /\ \A u \in Threads : ToSet(work'[u]) \subseteq ToSet(work[u])
           /\ \A u \in Threads \ {t} : work'[u] = work[u] /\ pc'[u] = pc[u]
           /\ pc'[t] \in {"idle", "record"}
           /\ t = Loop => pc'[t] = "idle"
<1>1. work[t] \in Seq(Events) /\ work[t] # <<>>
  BY DEF TypeInv, TypeOK, HandsOK
<1>2. ToSet(Tail(work[t])) \subseteq ToSet(work[t])
  BY <1>1, HeadTailFacts
<1>3. work' = [work EXCEPT ![t] = Tail(work[t])]
  BY DEF NextItem
<1>4. \A u \in Threads : ToSet(work'[u]) \subseteq ToSet(work[u])
  <2> SUFFICES ASSUME NEW u \in Threads
               PROVE  ToSet(work'[u]) \subseteq ToSet(work[u])
    OBVIOUS
  <2>1. CASE u = t
    <3>1. work'[u] = Tail(work[t])
      BY <1>3, <2>1 DEF TypeInv, TypeOK
    <3> QED
      BY <1>2, <2>1, <3>1, Zenon
  <2>2. CASE u # t
    <3>1. work'[u] = work[u]
      BY <1>3, <2>2 DEF TypeInv, TypeOK
    <3> QED
      BY <3>1
  <2> QED
    BY <2>1, <2>2
<1>5. \A u \in Threads \ {t} : work'[u] = work[u] /\ pc'[u] = pc[u]
  BY DEF NextItem, Goto, TypeInv, TypeOK
<1>6. pc'[t] \in {"idle", "record"}
  BY DEF NextItem, Goto, TypeInv, TypeOK
<1>7. t = Loop => pc'[t] = "idle"
  BY <1>6, NextItemTyped DEF LoopPCs
<1> QED
  BY <1>4, <1>5, <1>6, <1>7

\* A tick that is given up keeps what is known of records.
LEMMA AbortKeeps ==
    ASSUME TypeInv, NEW t \in Threads, Abort(t)
    PROVE  /\ \A u \in Threads : ToSet(work'[u]) \subseteq ToSet(work[u])
           /\ \A u \in Threads \ {t} : work'[u] = work[u] /\ pc'[u] = pc[u]
           /\ pc'[t] = "idle"
<1>1. ToSet(<<>>) = {}
  BY DEF ToSet
<1>2. work' = [work EXCEPT ![t] = <<>>] /\ pc' = [pc EXCEPT ![t] = "idle"]
  BY DEF Abort, Goto
<1>3. \A u \in Threads : work'[u] = work[u] \/ work'[u] = <<>>
  BY <1>2 DEF TypeInv, TypeOK
<1>4. \A u \in Threads : ToSet(work'[u]) \subseteq ToSet(work[u])
  <2> SUFFICES ASSUME NEW u \in Threads
               PROVE  ToSet(work'[u]) \subseteq ToSet(work[u])
    OBVIOUS
  <2>1. CASE work'[u] = work[u]
    BY <2>1, Zenon
  <2>2. CASE work'[u] = <<>>
    <3>1. ToSet(work'[u]) = {}
      BY <1>1, <2>2, Zenon
    <3> QED
      BY <3>1
  <2> QED
    BY <1>3, <2>1, <2>2
<1> QED
  BY <1>2, <1>4 DEF TypeInv, TypeOK

\* The call sites of Tell: the event told of is the loop's, and is waiting.
LEMMA TellKeeps ==
    ASSUME RecordInv, NEW t \in Threads, pc[t] # "idle", NEW answer \in {"enqueued", "failed"},
           Tell(t, answer)
    PROVE  /\ \A e \in Events : told'[e] = "new" => told[e] = "new"
           /\ \A e \in Events :
                 told'[e] = "enqueued" =>
                    told[e] = "enqueued" \/ (t = Loop /\ answer = "enqueued" /\ e = Item(t))
           /\ t # Loop => told' = told
           /\ \A e \in Events : told[e] = "enqueued" => told'[e] = "enqueued"
<1>1. Item(t) \in Events
  BY MutatedFacts DEF RecordInv
<1>2. t = Loop => told' = [told EXCEPT ![Item(t)] = answer] /\ told[Item(t)] = "waiting"
  BY DEF Tell, RecordInv, CommittedOK
<1>3. t # Loop => told' = told
  BY DEF Tell
<1> QED
  BY <1>1, <1>2, <1>3 DEF RecordInv, TypeInv, TypeOK

\* CommitTransaction preserves RecordInv.
LEMMA CommitTransactionRecords ==
    ASSUME RecordInv, NEW e \in Events, CommitTransaction(e)
    PROVE  RecordInv'
<1>1. PICK o \in Outcomes(WriteFaults) :
        /\ Count(o)
        /\ record' = IF Applied(o) THEN [record EXCEPT ![e] = "pending"] ELSE record
        /\ IF o = "ok"
           THEN /\ told' = [told EXCEPT ![e] = "waiting"]
                /\ work' = [work EXCEPT ![Loop] = <<e>>]
                /\ Goto(Loop, "get")
           ELSE /\ told' = [told EXCEPT ![e] = "failed"]
                /\ UNCHANGED <<work, pc>>
  BY DEF CommitTransaction
<1>2. /\ told[e] = "new" /\ record[e] = "absent" /\ pc[Loop] = "idle"
      /\ UNCHANGED <<queue, queueKey, published, view, etag, tries>>
  BY DEF CommitTransaction, RecordInv, CommittedOK, mutation
<1>3. TypeInv'
  BY CommitTransactionTyped DEF RecordInv
<1>4. /\ ToSet(<<e>>) = {e} /\ Head(<<e>>) = e
  BY DEF ToSet
<1>5. work'[Dispatcher] = work[Dispatcher] /\ pc'[Dispatcher] = pc[Dispatcher]
  BY <1>1 DEF Goto, RecordInv, TypeInv, TypeOK, Threads, Loop, Dispatcher
<1>6. \A f \in Events : record[f] # "absent" => record'[f] = record[f]
  BY <1>1, <1>2 DEF RecordInv, TypeInv, TypeOK
<1>7. ASSUME NEW f \in Events, Held(f)' PROVE record'[f] # "absent"
  <2>1. CASE Held(f)
    BY <1>6, <2>1 DEF RecordInv, CommittedOK
  <2>2. CASE ~Held(f)
    <3>1. told'[f] = "enqueued" => told[f] = "enqueued"
      BY <1>1 DEF RecordInv, TypeInv, TypeOK
    <3>2. PICK t \in Threads : f \in ToSet(work'[t]) /\ f \notin ToSet(work[t])
      BY <1>2, <1>7, <2>2, <3>1 DEF Held
    <3>3. work'[t] # work[t]
      BY <3>2, Zenon
    <3>4. o = "ok" /\ t = Loop /\ work'[t] = <<e>>
      BY <1>1, <3>3 DEF RecordInv, TypeInv, TypeOK
    <3>5. f = e
      <4>1. ToSet(work'[t]) = {e}
        BY <1>4, <3>4, Zenon
      <4> QED
        BY <3>2, <4>1
    <3> QED
      BY <1>1, <3>4, <3>5 DEF Applied, RecordInv, TypeInv, TypeOK
  <2> QED
    BY <2>1, <2>2
<1>8. \A f \in Events : told'[f] = "new" => record'[f] = "absent"
  BY <1>1, <1>2 DEF RecordInv, CommittedOK, TypeInv, TypeOK
<1>9. pc'[Loop] # "idle" => told'[Item(Loop)'] = "waiting"
  <2>1. CASE o = "ok"
    <3>1. Item(Loop)' = e
      BY <1>1, <1>4, <2>1 DEF Item, RecordInv, TypeInv, TypeOK, Threads
    <3> QED
      BY <1>1, <2>1, <3>1 DEF RecordInv, TypeInv, TypeOK
  <2>2. CASE o # "ok"
    BY <1>1, <1>2, <2>2
  <2> QED
    BY <2>1, <2>2
<1>10. DispatcherOK'
  BY <1>2, <1>5, <1>6 DEF RecordInv, DispatcherOK, Item, TypeInv, TypeOK, HandsOK, Threads
<1>11. DispatchedWasPublished'
  BY <1>1, <1>2 DEF RecordInv, DispatchedWasPublished, TypeInv, TypeOK
<1> QED
  BY <1>3, <1>7, <1>8, <1>9, <1>10, <1>11 DEF RecordInv, CommittedOK

\* How the locals of a thread at one of the dispatcher's calls move: the
\* events in hand and in view can only become fewer.
LEMMA HeldShrinks ==
    ASSUME RecordInv, UNCHANGED record,
           \A e \in Events : told'[e] = "enqueued" => told[e] = "enqueued" \/ record[e] # "absent",
           \A e \in Events : told'[e] = "new" => told[e] = "new",
           \A e \in Events : e \in ToSet(queue') => e \in ToSet(queue) \/ record[e] # "absent",
           \A t \in Threads : ToSet(work'[t]) \subseteq ToSet(work[t]) \union ToSet(queue),
           \A t \in Threads : ToSet(view'[t]) \subseteq ToSet(view[t]) \union ToSet(queue)
    PROVE  /\ \A e \in Events : Held(e)' => record'[e] # "absent"
           /\ \A e \in Events : told'[e] = "new" => record'[e] = "absent"
<1>1. ASSUME NEW e \in Events, Held(e)' PROVE record'[e] # "absent"
  <2>1. Held(e) \/ record[e] # "absent"
    <3>1. CASE told'[e] = "enqueued" \/ e \in ToSet(queue')
      BY <3>1 DEF Held
    <3>2. CASE \E t \in Threads : e \in ToSet(work'[t]) \/ e \in ToSet(view'[t])
      BY <3>2 DEF Held
    <3> QED
      BY <1>1, <3>1, <3>2 DEF Held
  <2> QED
    BY <2>1 DEF RecordInv, CommittedOK
<1>2. \A e \in Events : told'[e] = "new" => record'[e] = "absent"
  BY DEF RecordInv, CommittedOK
<1> QED
  BY <1>1, <1>2

\* GetQueue preserves RecordInv.
LEMMA GetQueueRecords ==
    ASSUME RecordInv, NEW t \in Threads, GetQueue(t)
    PROVE  RecordInv'
<1>1. PICK o \in Outcomes(ReadFaults) :
        /\ Count(o)
        /\ IF Raises(o)
           THEN Abort(t) /\ Tell(t, "failed") /\ ForgetQueue(t)
           ELSE /\ Goto(t, "save")
                /\ view' = [view EXCEPT ![t] = IF o = "ok" THEN queue ELSE <<>>]
                /\ etag' = [etag EXCEPT ![t] = TagRead(o)]
                /\ UNCHANGED <<work, told, tries>>
  BY DEF GetQueue
<1>2. pc[t] = "get" /\ UNCHANGED <<record, queue, queueKey, published>>
  BY DEF GetQueue, store
<1>3. TypeInv /\ TypeInv'
  BY GetQueueTyped DEF RecordInv
<1>4. ToSet(<<>>) = {}
  BY DEF ToSet
<1>5. \A u \in Threads : ToSet(view'[u]) \subseteq ToSet(view[u]) \union ToSet(queue)
  <2>1. \A u \in Threads : view'[u] \in {view[u], queue, <<>>}
    BY <1>1, <1>3 DEF ForgetQueue, TypeInv, TypeOK
  <2> SUFFICES ASSUME NEW u \in Threads
               PROVE  ToSet(view'[u]) \subseteq ToSet(view[u]) \union ToSet(queue)
    OBVIOUS
  <2>2. ToSet(view'[u]) \in {ToSet(view[u]), ToSet(queue), {}}
    BY <1>4, <2>1, Zenon
  <2> QED
    BY <2>2
<1>6. /\ \A u \in Threads : ToSet(work'[u]) \subseteq ToSet(work[u])
      /\ \A u \in Threads \ {t} : work'[u] = work[u] /\ pc'[u] = pc[u]
      /\ \/ work'[t] = work[t] /\ pc'[t] = "save"
         \/ pc'[t] = "idle"
  <2>1. CASE Raises(o)
    BY <1>1, <1>3, <2>1, AbortKeeps
  <2>2. CASE ~Raises(o)
    BY <1>1, <1>3, <2>2 DEF Goto, TypeInv, TypeOK
  <2> QED
    BY <2>1, <2>2
<1>7. /\ \A e \in Events : told'[e] = "new" => told[e] = "new"
      /\ \A e \in Events : told'[e] = "enqueued" => told[e] = "enqueued"
      /\ t # Loop => told' = told
      /\ pc'[t] # "idle" => told' = told
  <2>1. CASE Raises(o)
    BY <1>1, <1>2, <1>3, <2>1, TellKeeps, AbortKeeps
  <2>2. CASE ~Raises(o)
    BY <1>1, <2>2
  <2> QED
    BY <2>1, <2>2
<1>8. /\ \A e \in Events : Held(e)' => record'[e] # "absent"
      /\ \A e \in Events : told'[e] = "new" => record'[e] = "absent"
  BY <1>2, <1>5, <1>6, <1>7, HeldShrinks
<1>9. pc'[Loop] # "idle" => told'[Item(Loop)'] = "waiting"
  BY <1>2, <1>6, <1>7 DEF RecordInv, CommittedOK, Item, Threads
<1>10. DispatcherOK'
  BY <1>2, <1>6 DEF RecordInv, DispatcherOK, Item, Threads, Loop, Dispatcher
<1> QED
  BY <1>2, <1>3, <1>8, <1>9, <1>10 DEF RecordInv, CommittedOK, DispatchedWasPublished

\* SaveQueue preserves RecordInv.
LEMMA SaveQueueRecords ==
    ASSUME RecordInv, NEW t \in Threads, SaveQueue(t)
    PROVE  RecordInv'
<1>1. PICK o \in Outcomes(WriteFaults), written, saved, ends \in BOOLEAN :
        /\ written <=> etag[t] # "stale" /\ Applied(o)
        /\ saved <=> etag[t] # "stale" /\ o = "ok"
        /\ ends <=> saved \/ Raises(o) \/ LastTry(t)
        /\ Count(o)
        /\ queue' = IF written THEN Mutated(t) ELSE queue
        /\ queueKey' = IF written THEN TRUE ELSE queueKey
        /\ view' = [view EXCEPT ![t] = <<>>]
        /\ etag' = [IF written THEN Outdate(etag) ELSE etag EXCEPT ![t] = "none"]
        /\ tries' = [tries EXCEPT ![t] = IF ends THEN 0 ELSE @ + 1]
        /\ \/ saved /\ NextItem(t)
           \/ ends /\ ~saved /\ Abort(t)
           \/ ~ends /\ Goto(t, "get") /\ UNCHANGED work
        /\ IF ends THEN Tell(t, Verdict(saved)) ELSE UNCHANGED told
        /\ pc[t] = "save"
        /\ UNCHANGED <<record, published>>
  BY SaveQueueCases
<1>2. TypeInv /\ TypeInv'
  BY SaveQueueTyped DEF RecordInv
<1>3. ToSet(<<>>) = {}
  BY DEF ToSet
<1>4. /\ Item(t) \in Events
      /\ record[Item(t)] # "absent"
      /\ \A e \in ToSet(Mutated(t)) : e \in ToSet(view[t]) \/ e = Item(t)
  BY <1>1, <1>2, MutatedFacts DEF RecordInv, CommittedOK, Held
<1>5. \A u \in Threads : ToSet(view'[u]) \subseteq ToSet(view[u]) \union ToSet(queue)
  <2>1. \A u \in Threads : view'[u] \in {view[u], <<>>}
    BY <1>1, <1>2 DEF TypeInv, TypeOK
  <2> SUFFICES ASSUME NEW u \in Threads
               PROVE  ToSet(view'[u]) \subseteq ToSet(view[u]) \union ToSet(queue)
    OBVIOUS
  <2>2. ToSet(view'[u]) \in {ToSet(view[u]), {}}
    BY <1>3, <2>1, Zenon
  <2> QED
    BY <2>2
<1>6. /\ \A u \in Threads : ToSet(work'[u]) \subseteq ToSet(work[u])
      /\ \A u \in Threads \ {t} : work'[u] = work[u] /\ pc'[u] = pc[u]
      /\ \/ work'[t] = work[t] /\ pc'[t] = "get" /\ ~ends
         \/ pc'[t] = "idle"
         \/ t # Loop /\ pc'[t] = "record"
  <2>1. CASE saved /\ NextItem(t)
    BY <1>1, <1>2, <2>1, NextItemKeeps
  <2>2. CASE ends /\ ~saved /\ Abort(t)
    BY <1>2, <2>2, AbortKeeps
  <2>3. CASE ~ends /\ Goto(t, "get") /\ UNCHANGED work
    BY <1>2, <2>3 DEF Goto, TypeInv, TypeOK
  <2> QED
    BY <1>1, <2>1, <2>2, <2>3
<1>7. /\ \A e \in Events : told'[e] = "new" => told[e] = "new"
      /\ \A e \in Events : told'[e] = "enqueued" =>
             told[e] = "enqueued" \/ (t = Loop /\ saved /\ e = Item(t))
      /\ t # Loop => told' = told
      /\ ~ends => told' = told
  <2>1. CASE ends
    <3>1. /\ Verdict(saved) \in {"enqueued", "failed"}
          /\ Verdict(saved) = "enqueued" => saved
      BY DEF Verdict
    <3> QED
      BY <1>1, <2>1, <3>1, TellKeeps
  <2>2. CASE ~ends
    BY <1>1, <2>2
  <2> QED
    BY <2>1, <2>2
<1>8. \A e \in Events : e \in ToSet(queue') => e \in ToSet(queue) \/ record[e] # "absent"
  <2> SUFFICES ASSUME NEW e \in Events, e \in ToSet(queue'), e \notin ToSet(queue)
               PROVE  record[e] # "absent"
    OBVIOUS
  <2>1. queue' # queue
    BY Zenon
  <2>2. queue' = Mutated(t)
    BY <1>1, <2>1
  <2>3. e \in ToSet(Mutated(t))
    BY <2>2, Zenon
  <2> QED
    BY <1>4, <2>3 DEF RecordInv, CommittedOK, Held
<1>9. /\ \A e \in Events : Held(e)' => record'[e] # "absent"
      /\ \A e \in Events : told'[e] = "new" => record'[e] = "absent"
  BY <1>1, <1>4, <1>5, <1>6, <1>7, <1>8, HeldShrinks
<1>10. pc'[Loop] # "idle" => told'[Item(Loop)'] = "waiting"
  BY <1>1, <1>6, <1>7 DEF RecordInv, CommittedOK, Item, Threads
<1>11. DispatcherOK'
  BY <1>1, <1>6 DEF RecordInv, DispatcherOK, Item, Threads, Loop, Dispatcher
<1> QED
  BY <1>1, <1>2, <1>9, <1>10, <1>11 DEF RecordInv, CommittedOK, DispatchedWasPublished

\* A dispatcher's call that leaves the records alone preserves everything but
\* what its next call relies on.
LEMMA DispatcherStepKeeps ==
    ASSUME RecordInv, TypeInv', UNCHANGED <<record, queue, told, view>>,
           pc'[Loop] = pc[Loop], work'[Loop] = work[Loop],
           ToSet(work'[Dispatcher]) \subseteq ToSet(work[Dispatcher]) \union ToSet(queue)
    PROVE  CommittedOK'
<1>1. \A t \in Threads : ToSet(work'[t]) \subseteq ToSet(work[t]) \union ToSet(queue)
  <2>1. ToSet(work'[Loop]) = ToSet(work[Loop])
    BY Zenon
  <2> QED
    BY <2>1 DEF Threads
<1>2. \A t \in Threads : ToSet(view'[t]) \subseteq ToSet(view[t]) \union ToSet(queue)
  BY Zenon
<1>3. \A e \in Events : e \in ToSet(queue') => e \in ToSet(queue) \/ record[e] # "absent"
  BY Zenon
<1>4. /\ \A e \in Events : Held(e)' => record'[e] # "absent"
      /\ \A e \in Events : told'[e] = "new" => record'[e] = "absent"
  BY <1>1, <1>2, <1>3, HeldShrinks
<1>5. pc'[Loop] # "idle" => told'[Item(Loop)'] = "waiting"
  BY DEF RecordInv, CommittedOK, Item
<1> QED
  BY <1>4, <1>5 DEF CommittedOK

\* StartTick preserves RecordInv.
LEMMA StartTickRecords ==
    ASSUME RecordInv, StartTick
    PROVE  RecordInv'
<1>1. PICK o \in Outcomes(ReadFaults) :
        LET seen == IF o = "ok" THEN queue ELSE <<>>
            snapshot == SubSeq(seen, 1, IF Len(seen) < MaxBatch THEN Len(seen) ELSE MaxBatch)
        IN  /\ Count(o)
            /\ work' = [work EXCEPT ![Dispatcher] = snapshot]
            /\ Goto(Dispatcher, IF snapshot = <<>> THEN "idle" ELSE "record")
  BY DEF StartTick
<1>2. TypeInv /\ TypeInv'
  BY StartTickTyped DEF RecordInv
<1> DEFINE seen == IF o = "ok" THEN queue ELSE <<>>
           n == IF Len(seen) < MaxBatch THEN Len(seen) ELSE MaxBatch
           snapshot == SubSeq(seen, 1, n)
<1>3. seen \in Seq(Events) /\ ToSet(seen) \subseteq ToSet(queue)
  BY <1>2 DEF TypeInv, TypeOK, ToSet
<1>4. n \in 0 .. Len(seen)
  <2>1. Len(seen) \in Nat
    BY <1>3
  <2> QED
    BY <2>1, OutboxAssumption
<1>5. ToSet(snapshot) \subseteq ToSet(queue)
  <2>1. ToSet(snapshot) \subseteq ToSet(seen)
    BY <1>3, <1>4, SnapshotFacts
  <2> QED
    BY <1>3, <2>1
<1>6. work' = [work EXCEPT ![Dispatcher] = snapshot]
  BY <1>1
<1>7. pc' = [pc EXCEPT ![Dispatcher] = IF snapshot = <<>> THEN "idle" ELSE "record"]
  BY <1>1 DEF Goto
<1> HIDE DEF snapshot
<1>8. work'[Dispatcher] = snapshot
  BY <1>2, <1>6 DEF TypeInv, TypeOK, Threads
<1>9. ToSet(work'[Dispatcher]) \subseteq ToSet(work[Dispatcher]) \union ToSet(queue)
  <2>1. ToSet(work'[Dispatcher]) = ToSet(snapshot)
    BY <1>8, Zenon
  <2> QED
    BY <1>5, <2>1
<1>10. pc'[Loop] = pc[Loop] /\ work'[Loop] = work[Loop] /\ pc'[Dispatcher] \in {"idle", "record"}
  BY <1>2, <1>6, <1>7 DEF TypeInv, TypeOK, Threads, Loop, Dispatcher
<1>11. UNCHANGED <<record, queue, published, told, view>>
  BY DEF StartTick, store, mutation
<1>12. CommittedOK'
  BY <1>2, <1>9, <1>10, <1>11, DispatcherStepKeeps
<1> QED
  BY <1>2, <1>10, <1>11, <1>12 DEF RecordInv, DispatcherOK, DispatchedWasPublished

\* GetRecord preserves RecordInv.
LEMMA GetRecordRecords ==
    ASSUME RecordInv, GetRecord
    PROVE  RecordInv'
<1>1. PICK o \in Outcomes(ReadFaults) :
        /\ Count(o)
        /\ \/ Raises(o) /\ Abort(Dispatcher)
           \/ NeedsPublish(o) /\ Goto(Dispatcher, "publish") /\ UNCHANGED work
           \/ ~Raises(o) /\ ~NeedsPublish(o) /\ DropFromQueue
  BY DEF GetRecord
<1>2. TypeInv /\ TypeInv'
  BY GetRecordTyped DEF RecordInv
<1>3. Dispatcher \in Threads /\ Loop \in Threads \ {Dispatcher}
  BY DEF Threads, Dispatcher, Loop
<1>4. UNCHANGED <<record, queue, published, told, view>>
  BY DEF GetRecord, store, mutation
<1>5. /\ pc'[Loop] = pc[Loop] /\ work'[Loop] = work[Loop]
      /\ ToSet(work'[Dispatcher]) \subseteq ToSet(work[Dispatcher])
      /\ \/ pc'[Dispatcher] \in {"idle", "get"}
         \/ /\ NeedsPublish(o)
            /\ pc'[Dispatcher] = "publish"
            /\ work' = work
  <2>1. CASE Raises(o) /\ Abort(Dispatcher)
    BY <1>2, <1>3, <2>1, AbortKeeps
  <2>2. CASE NeedsPublish(o) /\ Goto(Dispatcher, "publish") /\ UNCHANGED work
    BY <1>2, <1>3, <2>2 DEF Goto, TypeInv, TypeOK
  <2>3. CASE DropFromQueue
    BY <1>2, <1>3, <2>3 DEF DropFromQueue, Goto, TypeInv, TypeOK
  <2> QED
    BY <1>1, <2>1, <2>2, <2>3
<1>6. CommittedOK'
  BY <1>2, <1>4, <1>5, DispatcherStepKeeps
<1>7. DispatcherOK'
  BY <1>4, <1>5 DEF DispatcherOK, NeedsPublish, Item
<1> QED
  BY <1>2, <1>4, <1>6, <1>7 DEF RecordInv, DispatchedWasPublished

\* Publish preserves RecordInv.
LEMMA PublishRecords ==
    ASSUME RecordInv, Publish
    PROVE  RecordInv'
<1>1. PICK o \in Outcomes(PublishFaults) :
        LET taken == Item(Dispatcher) \notin Rejected /\ o # "publish_refused"
        IN  /\ Count(o)
            /\ published' = IF taken THEN published \union {Item(Dispatcher)} ELSE published
            /\ Goto(Dispatcher, AfterPublish(taken /\ o = "ok"))
  BY DEF Publish
<1>2. TypeInv /\ TypeInv'
  BY PublishTyped DEF RecordInv
<1>3. pc[Dispatcher] = "publish" /\ UNCHANGED <<record, queue, told, work, view>>
  BY DEF Publish, store, mutation
<1>4. published \subseteq published'
  BY <1>1
<1>5. /\ pc'[Loop] = pc[Loop]
      /\ pc'[Dispatcher] \in {"bump", "mark"}
      /\ pc'[Dispatcher] = "mark" => Item(Dispatcher) \in published'
  BY <1>1, <1>2 DEF AfterPublish, Goto, TypeInv, TypeOK, Threads, Loop, Dispatcher
<1>6. CommittedOK'
  BY <1>2, <1>3, <1>5, DispatcherStepKeeps
<1>7. DispatcherOK'
  BY <1>3, <1>5 DEF RecordInv, DispatcherOK, Item
<1>8. DispatchedWasPublished'
  BY <1>3, <1>4 DEF RecordInv, DispatchedWasPublished
<1> QED
  BY <1>2, <1>6, <1>7, <1>8 DEF RecordInv

\* The writes of a record: the item's changes, and no record disappears.
LEMMA RecordWriteKeeps ==
    ASSUME RecordInv, TypeInv', UNCHANGED <<queue, told, view>>,
           pc'[Loop] = pc[Loop], work'[Loop] = work[Loop], pc[Dispatcher] # "idle",
           ToSet(work'[Dispatcher]) \subseteq ToSet(work[Dispatcher]),
           \A e \in Events : record'[e] # record[e] => e = Item(Dispatcher),
           \A e \in Events : record'[e] = "absent" => record[e] = "absent"
    PROVE  CommittedOK'
<1>1. \A t \in Threads : ToSet(work'[t]) \subseteq ToSet(work[t])
  <2>1. ToSet(work'[Loop]) = ToSet(work[Loop])
    BY Zenon
  <2> QED
    BY <2>1 DEF Threads
<1>2. \A e \in Events : Held(e)' => Held(e)
  <2>1. ToSet(queue') = ToSet(queue) /\ \A t \in Threads : ToSet(view'[t]) = ToSet(view[t])
    BY Zenon
  <2> QED
    BY <1>1, <2>1 DEF Held
<1>3. \A e \in Events : Held(e)' => record'[e] # "absent"
  BY <1>2 DEF RecordInv, CommittedOK
<1>4. \A e \in Events : told'[e] = "new" => record'[e] = "absent"
  <2>1. Dispatcher \in Threads
    BY DEF Threads
  <2>2. Held(Item(Dispatcher)) /\ Item(Dispatcher) \in Events
    BY <2>1, MutatedFacts DEF Held, RecordInv
  <2> QED
    BY <2>2 DEF RecordInv, CommittedOK
<1>5. pc'[Loop] # "idle" => told'[Item(Loop)'] = "waiting"
  BY DEF RecordInv, CommittedOK, Item
<1> QED
  BY <1>3, <1>4, <1>5 DEF CommittedOK

\* BumpAttempts preserves RecordInv.
LEMMA BumpAttemptsRecords ==
    ASSUME RecordInv, BumpAttempts
    PROVE  RecordInv'
<1>1. PICK o \in Outcomes(WriteFaults) :
        /\ Count(o)
        /\ record' = IF Applied(o)
                     THEN [record EXCEPT ![Item(Dispatcher)] = "pending"] ELSE record
        /\ AfterBump(o)
  BY DEF BumpAttempts
<1>2. TypeInv /\ TypeInv'
  BY BumpAttemptsTyped DEF RecordInv
<1>3. Dispatcher \in Threads /\ Loop \in Threads \ {Dispatcher}
  BY DEF Threads, Dispatcher, Loop
<1>4. pc[Dispatcher] = "bump" /\ UNCHANGED <<queue, published, told, view>>
  BY DEF BumpAttempts, mutation
<1>5. /\ pc'[Loop] = pc[Loop] /\ work'[Loop] = work[Loop]
      /\ ToSet(work'[Dispatcher]) \subseteq ToSet(work[Dispatcher])
      /\ pc'[Dispatcher] \in {"idle", "record"}
  <2>1. CASE Raises(o)
    BY <1>1, <1>2, <1>3, <2>1, AbortKeeps DEF AfterBump
  <2>2. CASE ~Raises(o)
    BY <1>1, <1>2, <1>3, <1>4, <2>2, NextItemKeeps DEF AfterBump
  <2> QED
    BY <2>1, <2>2
<1>6. record' = record
  <2>1. record[Item(Dispatcher)] = "pending"
    BY <1>4 DEF RecordInv, DispatcherOK
  <2> QED
    BY <1>1, <1>2, <2>1 DEF TypeInv, TypeOK
<1>7. CommittedOK'
  BY <1>2, <1>4, <1>5, <1>6, RecordWriteKeeps
<1> QED
  BY <1>2, <1>4, <1>5, <1>6, <1>7 DEF RecordInv, DispatcherOK, DispatchedWasPublished

\* MarkDispatched preserves RecordInv.
LEMMA MarkDispatchedRecords ==
    ASSUME RecordInv, MarkDispatched
    PROVE  RecordInv'
<1>1. PICK o \in Outcomes(WriteFaults) :
        /\ Count(o)
        /\ record' = IF Applied(o)
                     THEN [record EXCEPT ![Item(Dispatcher)] = "dispatched"] ELSE record
        /\ IF o = "ok" THEN DropFromQueue ELSE Abort(Dispatcher)
  BY DEF MarkDispatched
<1>2. TypeInv /\ TypeInv'
  BY MarkDispatchedTyped DEF RecordInv
<1>3. Dispatcher \in Threads /\ Loop \in Threads \ {Dispatcher}
  BY DEF Threads, Dispatcher, Loop
<1>4. pc[Dispatcher] = "mark" /\ UNCHANGED <<queue, published, told, view>>
  BY DEF MarkDispatched, mutation
<1>5. /\ pc'[Loop] = pc[Loop] /\ work'[Loop] = work[Loop]
      /\ ToSet(work'[Dispatcher]) \subseteq ToSet(work[Dispatcher])
      /\ pc'[Dispatcher] \in {"idle", "get"}
  <2>1. CASE o = "ok"
    BY <1>1, <1>2, <1>3, <2>1 DEF DropFromQueue, Goto, TypeInv, TypeOK
  <2>2. CASE o # "ok"
    BY <1>1, <1>2, <1>3, <2>2, AbortKeeps
  <2> QED
    BY <2>1, <2>2
<1>6. /\ \A e \in Events : record'[e] # record[e] => e = Item(Dispatcher)
      /\ \A e \in Events : record'[e] = "absent" => record[e] = "absent"
      /\ \A e \in Events : record'[e] = "dispatched" =>
            record[e] = "dispatched" \/ e = Item(Dispatcher)
  BY <1>1, <1>2 DEF TypeInv, TypeOK
<1>7. CommittedOK'
  BY <1>2, <1>4, <1>5, <1>6, RecordWriteKeeps
<1>8. DispatchedWasPublished'
  BY <1>4, <1>6 DEF RecordInv, DispatcherOK, DispatchedWasPublished
<1> QED
  BY <1>2, <1>5, <1>7, <1>8 DEF RecordInv, DispatcherOK

\* Crash preserves RecordInv.
LEMMA CrashRecords ==
    ASSUME RecordInv, Crash
    PROVE  RecordInv'
<1>1. TypeInv'
  BY CrashTyped DEF RecordInv
<1>2. ToSet(<<>>) = {}
  BY DEF ToSet
<1>3. \A t \in Threads : ToSet(work'[t]) = {} /\ ToSet(view'[t]) = {}
  BY <1>2 DEF Crash
<1>4. /\ \A e \in Events : told'[e] = "enqueued" => told[e] = "enqueued"
      /\ \A e \in Events : told'[e] = "new" => told[e] = "new"
      /\ UNCHANGED <<record, queue, published>>
  BY DEF Crash, store, RecordInv, TypeInv, TypeOK
<1>5. \A e \in Events : Held(e)' => Held(e)
  BY <1>3, <1>4 DEF Held
<1>6. CommittedOK' /\ DispatcherOK'
  BY <1>4, <1>5 DEF Crash, RecordInv, CommittedOK, DispatcherOK, Threads
<1> QED
  BY <1>1, <1>4, <1>6 DEF RecordInv, DispatchedWasPublished

\* Every step preserves RecordInv.
LEMMA RecordInvNext == RecordInv /\ [Next]_vars => RecordInv'
<1> SUFFICES ASSUME RecordInv, [Next]_vars PROVE RecordInv'
  OBVIOUS
<1> USE DEF Threads
<1>1. CASE UNCHANGED vars
  BY <1>1 DEF vars, RecordInv, TypeInv, TypeOK, HandsOK, DistinctOK, CommittedOK, Held,
              DispatcherOK, DispatchedWasPublished, Item
<1>2. ASSUME NEW e \in Events, CommitTransaction(e) PROVE RecordInv'
  BY <1>2, CommitTransactionRecords
<1>3. CASE Enqueueing
  BY <1>3, GetQueueRecords, SaveQueueRecords DEF Enqueueing
<1>4. CASE Dispatching
  BY <1>4, StartTickRecords, GetRecordRecords, PublishRecords, BumpAttemptsRecords,
     MarkDispatchedRecords, GetQueueRecords, SaveQueueRecords DEF Dispatching
<1>5. CASE Crash
  BY <1>5, CrashRecords
<1> QED
  BY <1>1, <1>2, <1>3, <1>4, <1>5 DEF Next

\* RecordInv holds in every reachable state.
LEMMA RecordInvAlways == Spec => []RecordInv
<1> QED
  BY RecordInvInit, RecordInvNext, PTL DEF Spec

\* A record says "dispatched" only of an event the broker has accepted,
\* whatever faults occur, error statuses on reads included.
THEOREM DispatchedIsPublished == Spec => []DispatchedWasPublished
<1>1. RecordInv => DispatchedWasPublished
  BY DEF RecordInv
<1> QED
  BY <1>1, RecordInvAlways, PTL

\* What a step may do to a record: commit a new one, or mark the dispatcher's
\* item after it was published.  BumpAttempts writes what is already there.
LEMMA RecordSteps ==
    ASSUME RecordInv, Next
    PROVE  \/ UNCHANGED record
           \/ \E e \in Events :
                /\ CommitTransaction(e)
                /\ told[e] = "new" /\ record[e] = "absent"
                /\ record' = [record EXCEPT ![e] = "pending"]
           \/ /\ MarkDispatched
              /\ record' = [record EXCEPT ![Item(Dispatcher)] = "dispatched"]
<1>1. ASSUME NEW e \in Events, CommitTransaction(e)
      PROVE  \/ UNCHANGED record
             \/ /\ told[e] = "new" /\ record[e] = "absent"
                /\ record' = [record EXCEPT ![e] = "pending"]
  <2>1. told[e] = "new" /\ record[e] = "absent"
    BY <1>1 DEF CommitTransaction, RecordInv, CommittedOK
  <2> QED
    BY <1>1, <2>1 DEF CommitTransaction
<1>2. CASE Enqueueing
  BY <1>2 DEF Enqueueing, GetQueue, SaveQueue, store
<1>3. CASE Dispatching /\ ~MarkDispatched
  <2>1. CASE BumpAttempts
    <3>1. record[Item(Dispatcher)] = "pending"
      BY <2>1 DEF BumpAttempts, RecordInv, DispatcherOK
    <3> QED
      BY <2>1, <3>1 DEF BumpAttempts, RecordInv, TypeInv, TypeOK
  <2>2. CASE StartTick \/ GetRecord \/ Publish
    BY <2>2 DEF StartTick, GetRecord, Publish, store
  <2>3. CASE GetQueue(Dispatcher) \/ SaveQueue(Dispatcher)
    BY <2>3 DEF GetQueue, SaveQueue, store
  <2> QED
    BY <1>3, <2>1, <2>2, <2>3 DEF Dispatching
<1>4. CASE MarkDispatched
  BY <1>4 DEF MarkDispatched
<1>5. CASE Crash
  BY <1>5 DEF Crash, store
<1> QED
  BY <1>1, <1>2, <1>3, <1>4, <1>5 DEF Next

\* A dispatched record stays dispatched, whatever faults occur: no later tick
\* publishes its event again.
THEOREM DispatchedStays == Spec => DispatchedForGood
<1>1. RecordInv /\ [Next]_vars =>
         [\A e \in Events : record[e] = "dispatched" => record'[e] = "dispatched"]_vars
  <2> SUFFICES ASSUME RecordInv, Next, NEW e \in Events, record[e] = "dispatched"
               PROVE  record'[e] = "dispatched"
    OBVIOUS
  <2> QED
    BY RecordSteps DEF RecordInv, TypeInv, TypeOK
<1> QED
  BY <1>1, RecordInvAlways, PTL DEF Spec, DispatchedForGood

-----------------------------------------------------------------------------
(* No event is lost, provided no read is answered with an error status.     *)
(* A thread about to save the queue holds its current content, or its ETag *)
(* is outdated and the store refuses the write; only before the key exists *)
(* is there no ETag; and the dispatcher is about to remove published ids.  *)

QueueOK ==
    /\ ~queueKey => queue = <<>> /\ work[Dispatcher] = <<>>
    /\ \A t \in Threads :
          pc[t] = "save" /\ etag[t] # "stale" =>
             /\ view[t] = queue
             /\ etag[t] = "none" => ~queueKey
    /\ pc[Dispatcher] \in {"get", "save"} => Item(Dispatcher) \in published

KeptOK ==
    \A e \in Events : told[e] = "enqueued" => e \in published \/ e \in ToSet(queue)

SafeInv == RecordInv /\ QueueOK /\ KeptOK

\* SafeInv holds when nothing has happened yet.
LEMMA SafeInvInit == Init => SafeInv
<1> SUFFICES ASSUME Init PROVE SafeInv
  OBVIOUS
<1>1. QueueOK /\ KeptOK
  BY DEF Init, QueueOK, KeptOK, Threads, Loop, Dispatcher
<1> QED
  BY <1>1, RecordInvInit DEF SafeInv

\* Without error statuses on reads, a read succeeds or raises.
LEMMA ReadOutcome ==
    ASSUME "read_status" \notin Faults, NEW o \in Outcomes(ReadFaults)
    PROVE  o = "ok" \/ o = "read_raised"
BY DEF Outcomes, ReadFaults

\* A new transaction touches neither the queue nor what the dispatcher holds.
LEMMA CommitTransactionSafe ==
    ASSUME SafeInv, NEW e \in Events, CommitTransaction(e)
    PROVE  QueueOK' /\ KeptOK'
<1>1. /\ UNCHANGED <<queue, queueKey, published, view, etag>>
      /\ \A f \in Events : told'[f] = "enqueued" => told[f] = "enqueued"
      /\ work'[Dispatcher] = work[Dispatcher] /\ pc'[Dispatcher] = pc[Dispatcher]
      /\ pc'[Loop] # "save"
  BY DEF CommitTransaction, Goto, mutation, SafeInv, RecordInv, TypeInv, TypeOK, Threads,
         Loop, Dispatcher
<1> QED
  BY <1>1 DEF SafeInv, QueueOK, KeptOK, Item, Threads

\* GetQueue preserves SafeInv.
LEMMA GetQueueSafe ==
    ASSUME SafeInv, "read_status" \notin Faults, NEW t \in Threads, GetQueue(t)
    PROVE  QueueOK' /\ KeptOK'
<1>1. PICK o \in Outcomes(ReadFaults) :
        /\ Count(o)
        /\ IF Raises(o)
           THEN Abort(t) /\ Tell(t, "failed") /\ ForgetQueue(t)
           ELSE /\ Goto(t, "save")
                /\ view' = [view EXCEPT ![t] = IF o = "ok" THEN queue ELSE <<>>]
                /\ etag' = [etag EXCEPT ![t] = TagRead(o)]
                /\ UNCHANGED <<work, told, tries>>
  BY DEF GetQueue
<1>2. pc[t] = "get" /\ UNCHANGED <<queue, queueKey, published>>
  BY DEF GetQueue, store
<1>3. RecordInv /\ TypeInv
  BY DEF SafeInv, RecordInv
<1>4. CASE Raises(o)
  <2>1. /\ \A u \in Threads \ {t} : work'[u] = work[u] /\ pc'[u] = pc[u]
        /\ pc'[t] = "idle" /\ work'[t] = <<>>
    BY <1>1, <1>3, <1>4, AbortKeeps DEF Abort, TypeInv, TypeOK
  <2>2. \A u \in Threads \ {t} : view'[u] = view[u] /\ etag'[u] = etag[u]
    BY <1>1, <1>4 DEF ForgetQueue, TypeInv, TypeOK, RecordInv, SafeInv
  <2>3. \A e \in Events : told'[e] = "enqueued" => told[e] = "enqueued"
    BY <1>1, <1>2, <1>3, <1>4, TellKeeps
  <2>4. QueueOK'
    BY <1>2, <2>1, <2>2 DEF SafeInv, QueueOK, Item, Threads
  <2> QED
    BY <1>2, <2>3, <2>4 DEF SafeInv, KeptOK
<1>5. CASE ~Raises(o)
  <2>1. o = "ok"
    BY <1>5, ReadOutcome DEF Raises
  <2>2. /\ pc' = [pc EXCEPT ![t] = "save"]
        /\ view' = [view EXCEPT ![t] = queue]
        /\ etag' = [etag EXCEPT ![t] = IF queueKey THEN "current" ELSE "none"]
        /\ UNCHANGED <<work, told>>
    BY <1>1, <1>5, <2>1 DEF Goto, TagRead
  <2>3. QueueOK'
    BY <1>2, <1>3, <2>2 DEF SafeInv, QueueOK, Item, TypeInv, TypeOK, Threads
  <2> QED
    BY <1>2, <2>2, <2>3 DEF SafeInv, KeptOK
<1> QED
  BY <1>4, <1>5

\* SaveQueue preserves SafeInv.
LEMMA SaveQueueSafe ==
    ASSUME SafeInv, NEW t \in Threads, SaveQueue(t)
    PROVE  QueueOK' /\ KeptOK'
<1>1. PICK o \in Outcomes(WriteFaults), written, saved, ends \in BOOLEAN :
        /\ written <=> etag[t] # "stale" /\ Applied(o)
        /\ saved <=> etag[t] # "stale" /\ o = "ok"
        /\ ends <=> saved \/ Raises(o) \/ LastTry(t)
        /\ Count(o)
        /\ queue' = IF written THEN Mutated(t) ELSE queue
        /\ queueKey' = IF written THEN TRUE ELSE queueKey
        /\ view' = [view EXCEPT ![t] = <<>>]
        /\ etag' = [IF written THEN Outdate(etag) ELSE etag EXCEPT ![t] = "none"]
        /\ tries' = [tries EXCEPT ![t] = IF ends THEN 0 ELSE @ + 1]
        /\ \/ saved /\ NextItem(t)
           \/ ends /\ ~saved /\ Abort(t)
           \/ ~ends /\ Goto(t, "get") /\ UNCHANGED work
        /\ IF ends THEN Tell(t, Verdict(saved)) ELSE UNCHANGED told
        /\ pc[t] = "save"
        /\ UNCHANGED <<record, published>>
  BY SaveQueueCases
<1>2. RecordInv /\ TypeInv
  BY DEF SafeInv, RecordInv
<1>3. saved => written
  BY <1>1 DEF Applied
<1>4. /\ \A u \in Threads \ {t} : work'[u] = work[u] /\ pc'[u] = pc[u]
      /\ \/ work'[t] = work[t] /\ pc'[t] = "get" /\ ~ends
         \/ pc'[t] \in {"idle", "record"}
  <2>1. CASE saved /\ NextItem(t)
    BY <1>1, <1>2, <2>1, NextItemKeeps
  <2>2. CASE ends /\ ~saved /\ Abort(t)
    BY <1>2, <2>2, AbortKeeps
  <2>3. CASE ~ends /\ Goto(t, "get") /\ UNCHANGED work
    BY <1>2, <2>3 DEF Goto, TypeInv, TypeOK
  <2> QED
    BY <1>1, <2>1, <2>2, <2>3
<1>5. written => /\ view[t] = queue
                 /\ t = Loop => ToSet(queue') = ToSet(queue) \union {Item(t)}
                 /\ t # Loop => ToSet(queue') = ToSet(queue) \ {Item(t)}
  <2> SUFFICES ASSUME written
               PROVE  /\ view[t] = queue
                      /\ t = Loop => ToSet(queue') = ToSet(queue) \union {Item(t)}
                      /\ t # Loop => ToSet(queue') = ToSet(queue) \ {Item(t)}
    OBVIOUS
  <2>1. view[t] = queue /\ queue' = Mutated(t)
    BY <1>1 DEF SafeInv, QueueOK
  <2>2. ToSet(view[t]) = ToSet(queue) /\ ToSet(queue') = ToSet(Mutated(t))
    BY <2>1, Zenon
  <2> QED
    BY <1>1, <1>2, <2>1, <2>2, MutatedFacts
<1>6. QueueOK'
  <2>1. ~queueKey' => queue' = <<>> /\ work'[Dispatcher] = <<>>
    <3>1. ~queueKey' => ~written /\ ~queueKey
      BY <1>1
    <3>2. ~queueKey => queue = <<>> /\ work[Dispatcher] = <<>>
      BY DEF SafeInv, QueueOK
    <3>3. ~queueKey => t # Dispatcher
      BY <1>1, <1>2, <3>2 DEF TypeInv, HandsOK
    <3> QED
      BY <1>1, <1>4, <3>1, <3>2, <3>3 DEF Threads
  <2>2. ASSUME NEW u \in Threads, pc'[u] = "save", etag'[u] # "stale"
        PROVE  view'[u] = queue' /\ (etag'[u] = "none" => ~queueKey')
    <3>1. u # t /\ pc[u] = "save" /\ view'[u] = view[u]
      BY <1>1, <1>2, <1>4, <2>2 DEF TypeInv, TypeOK
    <3>2. CASE ~written
      BY <1>1, <1>2, <2>2, <3>1, <3>2 DEF SafeInv, QueueOK, TypeInv, TypeOK
    <3>3. CASE written
      <4>1. etag'[u] = IF etag[u] = "current" THEN "stale" ELSE etag[u]
        BY <1>1, <1>2, <3>1, <3>3 DEF Outdate, TypeInv, TypeOK
      <4>2. etag[u] = "none"
        BY <1>2, <2>2, <4>1 DEF TypeInv, TypeOK, ETags
      <4>3. ~queueKey
        BY <3>1, <4>2 DEF SafeInv, QueueOK
      <4>4. work[Dispatcher] = <<>>
        BY <4>3 DEF SafeInv, QueueOK
      <4>5. pc[Dispatcher] = "idle"
        BY <1>2, <4>4 DEF TypeInv, HandsOK, Threads
      <4> QED
        BY <1>1, <3>1, <4>5 DEF Threads
    <3> QED
      BY <3>2, <3>3
  <2>3. pc'[Dispatcher] \in {"get", "save"} => Item(Dispatcher)' \in published'
    BY <1>1, <1>4 DEF SafeInv, QueueOK, Item, Threads
  <2> QED
    BY <2>1, <2>2, <2>3 DEF QueueOK
<1>7. KeptOK'
  <2> SUFFICES ASSUME NEW e \in Events, told'[e] = "enqueued", e \notin published
               PROVE  e \in ToSet(queue')
    BY <1>1 DEF KeptOK
  <2>1. told[e] = "enqueued" \/ (t = Loop /\ saved /\ e = Item(t))
    <3>1. CASE ends
      <4>1. /\ Verdict(saved) \in {"enqueued", "failed"}
            /\ Verdict(saved) = "enqueued" => saved
        BY DEF Verdict
      <4> QED
        BY <1>1, <1>2, <3>1, <4>1, TellKeeps
    <3>2. CASE ~ends
      BY <1>1, <3>2
    <3> QED
      BY <3>1, <3>2
  <2>2. CASE t = Loop /\ saved /\ e = Item(t)
    BY <1>3, <1>5, <2>2
  <2>3. CASE told[e] = "enqueued"
    <3>1. e \in ToSet(queue)
      BY <2>3 DEF SafeInv, KeptOK
    <3>2. CASE ~written
      <4>1. ToSet(queue') = ToSet(queue)
        BY <1>1, <3>2, Zenon
      <4> QED
        BY <3>1, <4>1
    <3>3. CASE written /\ t = Loop
      BY <1>5, <3>1, <3>3
    <3>4. CASE written /\ t = Dispatcher
      <4>1. Item(Dispatcher) \in published
        BY <1>1, <3>4 DEF SafeInv, QueueOK
      <4>2. t # Loop
        BY <3>4 DEF Loop, Dispatcher
      <4>3. e # Item(t)
        BY <3>4, <4>1, Zenon
      <4> QED
        BY <1>5, <3>1, <3>4, <4>2, <4>3
    <3> QED
      BY <3>2, <3>3, <3>4 DEF Threads
  <2> QED
    BY <2>1, <2>2, <2>3
<1> QED
  BY <1>6, <1>7

\* StartTick preserves SafeInv.
LEMMA StartTickSafe ==
    ASSUME SafeInv, StartTick
    PROVE  QueueOK' /\ KeptOK'
<1>1. PICK o \in Outcomes(ReadFaults) :
        LET seen == IF o = "ok" THEN queue ELSE <<>>
            snapshot == SubSeq(seen, 1, IF Len(seen) < MaxBatch THEN Len(seen) ELSE MaxBatch)
        IN  /\ Count(o)
            /\ work' = [work EXCEPT ![Dispatcher] = snapshot]
            /\ Goto(Dispatcher, IF snapshot = <<>> THEN "idle" ELSE "record")
  BY DEF StartTick
<1>2. TypeInv
  BY DEF SafeInv, RecordInv
<1>3. UNCHANGED <<queue, queueKey, published, told, view, etag>>
  BY DEF StartTick, store, mutation
<1>4. /\ pc'[Loop] = pc[Loop]
      /\ pc'[Dispatcher] \in {"idle", "record"}
  BY <1>1, <1>2 DEF Goto, TypeInv, TypeOK, Threads, Loop, Dispatcher
<1>5. ~queueKey => work'[Dispatcher] = <<>>
  <2> SUFFICES ASSUME ~queueKey PROVE work'[Dispatcher] = <<>>
    OBVIOUS
  <2>1. queue = <<>>
    BY DEF SafeInv, QueueOK
  <2> DEFINE seen == IF o = "ok" THEN queue ELSE <<>>
  <2>2. seen = <<>>
    BY <2>1
  <2>3. Len(seen) = 0
    BY <2>2
  <2>4. (IF Len(seen) < MaxBatch THEN Len(seen) ELSE MaxBatch) = 0
    BY <2>3, OutboxAssumption
  <2>5. SubSeq(seen, 1, 0) = <<>>
    BY <2>2
  <2>6. work' = [work EXCEPT ![Dispatcher] =
                    SubSeq(seen, 1, IF Len(seen) < MaxBatch THEN Len(seen) ELSE MaxBatch)]
    BY <1>1
  <2> HIDE DEF seen
  <2>7. work' = [work EXCEPT ![Dispatcher] = <<>>]
    BY <2>4, <2>5, <2>6, Zenon
  <2> QED
    BY <1>2, <2>7 DEF TypeInv, TypeOK, Threads
<1>6. QueueOK'
  BY <1>3, <1>4, <1>5 DEF SafeInv, QueueOK, Threads
<1> QED
  BY <1>3, <1>6 DEF SafeInv, KeptOK

\* GetRecord preserves SafeInv.
LEMMA GetRecordSafe ==
    ASSUME SafeInv, "read_status" \notin Faults, GetRecord
    PROVE  QueueOK' /\ KeptOK'
<1>1. PICK o \in Outcomes(ReadFaults) :
        /\ Count(o)
        /\ \/ Raises(o) /\ Abort(Dispatcher)
           \/ NeedsPublish(o) /\ Goto(Dispatcher, "publish") /\ UNCHANGED work
           \/ ~Raises(o) /\ ~NeedsPublish(o) /\ DropFromQueue
  BY DEF GetRecord
<1>2. RecordInv /\ TypeInv
  BY DEF SafeInv, RecordInv
<1>3. /\ Dispatcher \in Threads /\ Loop \in Threads \ {Dispatcher}
      /\ pc[Dispatcher] # "idle"
  BY DEF GetRecord, Threads, Dispatcher, Loop
<1>4. UNCHANGED <<queue, queueKey, published, told, view, etag>>
  BY DEF GetRecord, store, mutation
<1>5. /\ pc'[Loop] = pc[Loop]
      /\ work'[Dispatcher] \in {work[Dispatcher], <<>>}
      /\ \/ pc'[Dispatcher] \in {"idle", "publish"}
         \/ /\ pc'[Dispatcher] = "get"
            /\ work' = work
            /\ ~Raises(o) /\ ~NeedsPublish(o)
  BY <1>1, <1>2, <1>3 DEF Abort, DropFromQueue, Goto, TypeInv, TypeOK
<1>6. ~Raises(o) /\ ~NeedsPublish(o) => Item(Dispatcher) \in published
  <2> SUFFICES ASSUME ~Raises(o), ~NeedsPublish(o)
               PROVE  Item(Dispatcher) \in published
    OBVIOUS
  <2>1. o = "ok"
    BY ReadOutcome DEF Raises
  <2>2. Item(Dispatcher) \in Events /\ Held(Item(Dispatcher))
    BY <1>2, <1>3, MutatedFacts DEF Held
  <2>3. record[Item(Dispatcher)] \in {"dispatched"}
    BY <1>2, <2>1, <2>2 DEF NeedsPublish, RecordInv, CommittedOK, TypeInv, TypeOK, Statuses
  <2> QED
    BY <1>2, <2>2, <2>3 DEF RecordInv, DispatchedWasPublished
<1>7. QueueOK'
  BY <1>4, <1>5, <1>6 DEF SafeInv, QueueOK, Item, Threads
<1> QED
  BY <1>4, <1>7 DEF SafeInv, KeptOK

\* Publishing and writing a record concern neither the queue nor a view of it.
LEMMA PublishSafe ==
    ASSUME SafeInv, Publish
    PROVE  QueueOK' /\ KeptOK'
<1>1. /\ UNCHANGED <<queue, queueKey, told, work, view, etag>>
      /\ published \subseteq published'
  BY DEF Publish, store, mutation
<1>2. pc'[Loop] = pc[Loop] /\ pc'[Dispatcher] \in {"mark", "bump"}
  BY DEF Publish, AfterPublish, Goto, SafeInv, RecordInv, TypeInv, TypeOK, Threads, Loop, Dispatcher
<1> QED
  BY <1>1, <1>2 DEF SafeInv, QueueOK, KeptOK, Threads

\* BumpAttempts preserves SafeInv.
LEMMA BumpAttemptsSafe ==
    ASSUME SafeInv, BumpAttempts
    PROVE  QueueOK' /\ KeptOK'
<1>1. PICK o \in Outcomes(WriteFaults) : AfterBump(o)
  BY DEF BumpAttempts
<1>2. TypeInv
  BY DEF SafeInv, RecordInv
<1>3. /\ Dispatcher \in Threads /\ Loop \in Threads \ {Dispatcher}
      /\ pc[Dispatcher] # "idle"
  BY DEF BumpAttempts, Threads, Dispatcher, Loop
<1>4. UNCHANGED <<queue, queueKey, published, told, view, etag>>
  BY DEF BumpAttempts, mutation
<1>5. pc'[Loop] = pc[Loop] /\ pc'[Dispatcher] \in {"idle", "record"}
  <2>1. CASE Raises(o)
    BY <1>1, <1>2, <1>3, <2>1, AbortKeeps DEF AfterBump
  <2>2. CASE ~Raises(o)
    BY <1>1, <1>2, <1>3, <2>2, NextItemKeeps DEF AfterBump
  <2> QED
    BY <2>1, <2>2
<1>6. queueKey
  BY <1>2, <1>3 DEF SafeInv, QueueOK, TypeInv, HandsOK
<1> QED
  BY <1>4, <1>5, <1>6 DEF SafeInv, QueueOK, KeptOK, Threads

\* MarkDispatched preserves SafeInv.
LEMMA MarkDispatchedSafe ==
    ASSUME SafeInv, MarkDispatched
    PROVE  QueueOK' /\ KeptOK'
<1>1. PICK o \in Outcomes(WriteFaults) :
        IF o = "ok" THEN DropFromQueue ELSE Abort(Dispatcher)
  BY DEF MarkDispatched
<1>2. RecordInv /\ TypeInv
  BY DEF SafeInv, RecordInv
<1>3. /\ Dispatcher \in Threads /\ Loop \in Threads \ {Dispatcher}
      /\ pc[Dispatcher] = "mark"
  BY DEF MarkDispatched, Threads, Dispatcher, Loop
<1>4. UNCHANGED <<queue, queueKey, published, told, view, etag>>
  BY DEF MarkDispatched, mutation
<1>5. /\ pc'[Loop] = pc[Loop]
      /\ \/ pc'[Dispatcher] = "idle"
         \/ pc'[Dispatcher] = "get" /\ work' = work
  BY <1>1, <1>2, <1>3 DEF Abort, DropFromQueue, Goto, TypeInv, TypeOK
<1>6. queueKey /\ Item(Dispatcher) \in published
  BY <1>2, <1>3 DEF SafeInv, QueueOK, TypeInv, HandsOK, RecordInv, DispatcherOK
<1>7. QueueOK'
  BY <1>4, <1>5, <1>6 DEF SafeInv, QueueOK, Item, Threads
<1> QED
  BY <1>4, <1>7 DEF SafeInv, KeptOK

\* Every step preserves SafeInv.
LEMMA SafeInvNext ==
    ASSUME "read_status" \notin Faults
    PROVE  SafeInv /\ [Next]_vars => SafeInv'
<1> SUFFICES ASSUME SafeInv, [Next]_vars PROVE QueueOK' /\ KeptOK'
  BY RecordInvNext DEF SafeInv
<1> USE DEF Threads
<1>1. CASE UNCHANGED vars
  BY <1>1 DEF vars, SafeInv, QueueOK, KeptOK, Item
<1>2. ASSUME NEW e \in Events, CommitTransaction(e) PROVE QueueOK' /\ KeptOK'
  BY <1>2, CommitTransactionSafe
<1>3. CASE Enqueueing
  BY <1>3, GetQueueSafe, SaveQueueSafe DEF Enqueueing
<1>4. CASE Dispatching
  BY <1>4, StartTickSafe, GetRecordSafe, PublishSafe, BumpAttemptsSafe,
     MarkDispatchedSafe, GetQueueSafe, SaveQueueSafe DEF Dispatching
<1>5. CASE Crash
  <2>1. \A e \in Events : told'[e] = "enqueued" => told[e] = "enqueued"
    BY <1>5 DEF Crash
  <2> QED
    BY <1>5, <2>1 DEF Crash, store, SafeInv, QueueOK, KeptOK
<1> QED
  BY <1>1, <1>2, <1>3, <1>4, <1>5 DEF Next

\* An enqueued event is never lost: until the broker has accepted it, it is
\* in the queue with a pending record.  Writes that race, get lost or go
\* unanswered, publishes that fail and crashes at any point do no harm; reads
\* answered with an error status would, and are excluded.
THEOREM EnqueuedNeverLost ==
    ASSUME "read_status" \notin Faults
    PROVE  Spec => []NoLostEvent
<1>1. SafeInv => NoLostEvent
  <2> SUFFICES ASSUME SafeInv, NEW e \in Events, told[e] = "enqueued", e \notin published
               PROVE  e \in ToSet(queue) /\ record[e] = "pending"
    BY DEF NoLostEvent
  <2>1. e \in ToSet(queue)
    BY DEF SafeInv, KeptOK
  <2>2. record[e] # "absent"
    BY DEF SafeInv, RecordInv, CommittedOK, Held
  <2>3. record[e] # "dispatched"
    BY DEF SafeInv, RecordInv, DispatchedWasPublished
  <2> QED
    BY <2>1, <2>2, <2>3 DEF SafeInv, RecordInv, TypeInv, TypeOK, Statuses
<1> QED
  BY <1>1, SafeInvInit, SafeInvNext, PTL DEF Spec

-----------------------------------------------------------------------------
(* The outbox implements its contract: each step commits, promises or       *)
(* delivers one event, or is invisible to the caller and to the broker.     *)

Committed == {e \in Events : record[e] # "absent"}
Promised  == {e \in Events : told[e] = "enqueued"}

\* A step that changes none of the three is a stutter of the contract.
LEMMA Invisible ==
    ASSUME UNCHANGED <<Committed, Promised, published>>
    PROVE  UNCHANGED Contract!cvars
BY DEF Contract!cvars, Committed, Promised

\* The transaction commits the event, or is invisible.
LEMMA CommitTransactionImplements ==
    ASSUME RecordInv, NEW e \in Events, CommitTransaction(e)
    PROVE  Contract!Commit(e) \/ UNCHANGED Contract!cvars
<1>1. /\ record[e] = "absent" /\ told[e] = "new"
      /\ record' = [record EXCEPT ![e] = "pending"] \/ record' = record
      /\ \E answer \in {"waiting", "failed"} : told' = [told EXCEPT ![e] = answer]
      /\ published' = published
  BY DEF CommitTransaction, RecordInv, CommittedOK
<1>2. Promised' = Promised
  BY <1>1 DEF Promised, RecordInv, TypeInv, TypeOK
<1>3. CASE record' = record
  BY <1>1, <1>2, <1>3, Invisible DEF Committed
<1>4. CASE record' = [record EXCEPT ![e] = "pending"]
  <2>1. e \notin Committed /\ Committed' = Committed \union {e}
    BY <1>1, <1>4 DEF Committed, RecordInv, TypeInv, TypeOK
  <2> QED
    BY <1>1, <1>2, <2>1 DEF Contract!Commit, Committed, Promised
<1> QED
  BY <1>1, <1>3, <1>4

\* One attempt of _mutate_queue is invisible to the contract, or promises.
LEMMA QueueStepImplements ==
    ASSUME RecordInv, NEW t \in Threads, GetQueue(t) \/ SaveQueue(t)
    PROVE  (\E e \in Events : Contract!Promise(e)) \/ UNCHANGED Contract!cvars
<1>1. UNCHANGED <<record, published>> /\ pc[t] # "idle"
  BY DEF GetQueue, SaveQueue, store
<1>2. TypeInv /\ Committed' = Committed
  BY <1>1 DEF RecordInv, Committed
<1>3. \/ told' = told
      \/ \E answer \in {"enqueued", "failed"} : Tell(t, answer)
  BY DEF GetQueue, SaveQueue, Verdict
<1>4. CASE told' = told \/ t # Loop
  <2>1. told' = told
    BY <1>3, <1>4 DEF Tell
  <2> QED
    BY <1>1, <1>2, <2>1, Invisible DEF Promised
<1>5. CASE t = Loop /\ \E answer \in {"enqueued", "failed"} : Tell(t, answer)
  <2>1. PICK e \in Events : e = Item(t) /\ e \in ToSet(work[t])
    BY <1>1, <1>2, MutatedFacts
  <2>2. e \in Committed
    BY <2>1 DEF RecordInv, CommittedOK, Held, Committed
  <2>3. told[e] = "waiting"
    BY <1>1, <1>5, <2>1 DEF RecordInv, CommittedOK
  <2>4. PICK answer \in {"enqueued", "failed"} : told' = [told EXCEPT ![e] = answer]
    BY <1>5, <2>1 DEF Tell
  <2>5. CASE answer = "enqueued"
    <3>1. e \notin Promised /\ Promised' = Promised \union {e}
      BY <1>2, <2>1, <2>3, <2>4, <2>5 DEF Promised, TypeInv, TypeOK
    <3>2. Contract!Promise(e)
      BY <1>1, <1>2, <2>2, <3>1 DEF Contract!Promise, Committed, Promised
    <3> QED
      BY <3>2
  <2>6. CASE answer = "failed"
    <3>1. Promised' = Promised
      BY <1>2, <2>1, <2>3, <2>4, <2>6 DEF Promised, TypeInv, TypeOK
    <3> QED
      BY <1>1, <1>2, <3>1, Invisible
  <2> QED
    BY <2>5, <2>6
<1> QED
  BY <1>3, <1>4, <1>5

\* A publication delivers the event, or is invisible.
LEMMA PublishImplements ==
    ASSUME RecordInv, Publish
    PROVE  (\E e \in Events : Contract!Deliver(e)) \/ UNCHANGED Contract!cvars
<1> DEFINE e == Item(Dispatcher)
<1>1. /\ \/ published' = published
         \/ published' = published \union {e} /\ e \notin Rejected
      /\ UNCHANGED <<record, told>>
  BY DEF Publish, store
<1>2. Dispatcher \in Threads /\ pc[Dispatcher] = "publish" /\ TypeInv
  BY DEF Threads, Publish, RecordInv
<1>3. e \in Events
  BY <1>2, MutatedFacts
<1>4. e \in Committed
  BY <1>2, <1>3 DEF RecordInv, DispatcherOK, Committed
<1>5. UNCHANGED <<Committed, Promised>>
  BY <1>1 DEF Committed, Promised
<1> HIDE DEF e
<1>6. CASE e \in published \/ published' = published
  <2>1. published' = published
    BY <1>1, <1>6
  <2> QED
    BY <1>5, <2>1, Invisible
<1>7. CASE e \notin published /\ published' # published
  <2>1. Contract!Deliver(e)
    BY <1>1, <1>4, <1>5, <1>7 DEF Contract!Deliver, Committed, Promised
  <2> QED
    BY <1>3, <2>1
<1> QED
  BY <1>6, <1>7

\* The dispatcher's other calls change no promise and deliver nothing; they
\* commit nothing either, for they only write a record that exists.
LEMMA OtherStepImplements ==
    ASSUME RecordInv, StartTick \/ GetRecord \/ BumpAttempts \/ MarkDispatched \/ Crash
    PROVE  UNCHANGED Contract!cvars
<1>1. published' = published /\ Promised' = Promised
  <2>1. CASE Crash
    BY <2>1 DEF Crash, Promised
  <2>2. CASE StartTick \/ GetRecord \/ BumpAttempts \/ MarkDispatched
    BY <2>2 DEF StartTick, GetRecord, BumpAttempts, MarkDispatched, Promised
  <2> QED
    BY <2>1, <2>2
<1>2. Committed' = Committed
  <2>1. CASE StartTick \/ GetRecord \/ Crash
    BY <2>1 DEF StartTick, GetRecord, Crash, store, Committed
  <2>2. CASE BumpAttempts \/ MarkDispatched
    <3>1. Dispatcher \in Threads /\ pc[Dispatcher] # "idle" /\ TypeInv
      BY <2>2 DEF BumpAttempts, MarkDispatched, Threads, RecordInv
    <3>2. Item(Dispatcher) \in Events /\ Item(Dispatcher) \in ToSet(work[Dispatcher])
      BY <3>1, MutatedFacts
    <3>3. Item(Dispatcher) \in Committed
      BY <3>1, <3>2 DEF RecordInv, CommittedOK, Held, Committed
    <3>4. PICK status \in {"pending", "dispatched"} :
             record' = record \/ record' = [record EXCEPT ![Item(Dispatcher)] = status]
      BY <2>2 DEF BumpAttempts, MarkDispatched
    <3> QED
      BY <3>1, <3>3, <3>4 DEF Committed, TypeInv, TypeOK
  <2> QED
    BY <2>1, <2>2
<1> QED
  BY <1>1, <1>2, Invisible

\* The safety part of the contract holds whatever faults occur, error
\* statuses on reads included: those lose a promised event, they forge none.
THEOREM ImplementsContractSafely == Spec => Contract!SafetySpec
<1>1. Init => Contract!Init
  BY DEF Init, Contract!Init
<1>2. RecordInv /\ [Next]_vars => [Contract!Next]_(Contract!cvars)
  <2> SUFFICES ASSUME RecordInv, [Next]_vars
               PROVE  (\E e \in Events : \/ Contract!Commit(e)
                                         \/ Contract!Promise(e)
                                         \/ Contract!Deliver(e))
                      \/ UNCHANGED Contract!cvars
    BY DEF Contract!Next
  <2> USE DEF Threads
  <2>1. CASE UNCHANGED vars
    BY <2>1, Invisible DEF vars, Committed, Promised
  <2>2. ASSUME NEW e \in Events, CommitTransaction(e)
        PROVE  Contract!Commit(e) \/ UNCHANGED Contract!cvars
    BY <2>2, CommitTransactionImplements
  <2>3. CASE Enqueueing
    BY <2>3, QueueStepImplements DEF Enqueueing
  <2>4. CASE Dispatching
    BY <2>4, QueueStepImplements, PublishImplements, OtherStepImplements DEF Dispatching
  <2>5. CASE Crash
    BY <2>5, OtherStepImplements
  <2> QED
    BY <2>1, <2>2, <2>3, <2>4, <2>5 DEF Next
<1> QED
  BY <1>1, <1>2, RecordInvAlways, PTL DEF Spec, Contract!SafetySpec

-----------------------------------------------------------------------------
(* The limit of the outbox.  A tick looks at the first MaxBatch ids only,   *)
(* and a refused id keeps its place.                                        *)

\* The head of the queue, all a tick looks at, is refused by the broker.
Clogged ==
    /\ Len(queue) >= MaxBatch
    /\ \A k \in 1 .. MaxBatch : queue[k] \in Rejected

\* And so is what the dispatcher still has in hand.
Starved == Clogged /\ ToSet(work[Dispatcher]) \subseteq Rejected

\* The broker has accepted nothing that it refuses on every attempt.
RefusedOK == published \intersect Rejected = {}

LimitInv == SafeInv /\ RefusedOK

\* Adding an id keeps the ids that are there in their places.
LEMMA AddKeepsPlaces ==
    ASSUME NEW S, NEW q \in Seq(S), NEW e \in S, NEW n \in Nat, n <= Len(q)
    PROVE  /\ Len(Add(q, e)) >= n
           /\ \A k \in 1 .. n : Add(q, e)[k] = q[k]
<1>1. CASE e \in ToSet(q)
  BY <1>1 DEF Add
<1>2. CASE e \notin ToSet(q)
  <2>1. Add(q, e) = Append(q, e)
    BY <1>2 DEF Add
  <2>2. Len(Append(q, e)) = Len(q) + 1 /\ \A k \in 1 .. Len(q) : Append(q, e)[k] = q[k]
    OBVIOUS
  <2>3. Len(q) \in Nat
    OBVIOUS
  <2> QED
    BY <2>1, <2>2, <2>3
<1> QED
  BY <1>1, <1>2

\* Removing an id keeps the ids before it in their places.
LEMMA WithoutKeepsPlaces ==
    ASSUME NEW S, NEW q \in Seq(S), NEW e \in S, NEW n \in Nat, n <= Len(q),
           \A k \in 1 .. n : q[k] # e
    PROVE  /\ Len(Without(q, e)) >= n
           /\ \A k \in 1 .. n : Without(q, e)[k] = q[k]
<1>1. Len(q) \in Nat /\ q \in [1 .. Len(q) -> S] /\ DOMAIN q = 1 .. Len(q)
  OBVIOUS
<1>2. CASE e \notin ToSet(q)
  BY <1>2 DEF Without
<1>3. CASE e \in ToSet(q)
  <2> DEFINE p == CHOOSE i \in DOMAIN q : q[i] = e
             a == SubSeq(q, 1, p - 1)
             b == SubSeq(q, p + 1, Len(q))
  <2>1. p \in 1 .. Len(q) /\ q[p] = e
    BY <1>1, <1>3 DEF ToSet
  <2>2. Without(q, e) = a \o b
    BY <1>3 DEF Without, RemoveAt
  <2> HIDE DEF p
  <2>3. n < p
    BY <1>1, <2>1
  <2>4. a \in Seq(S) /\ Len(a) = p - 1 /\ \A i \in 1 .. p - 1 : a[i] = q[i]
    BY <1>1, <2>1
  <2>5. b \in Seq(S) /\ Len(b) \in Nat
    <3>1. p + 1 \in Nat /\ 1 <= p + 1 /\ Len(q) <= Len(q)
      BY <1>1, <2>1
    <3>2. b \in Seq(S)
      BY <1>1, <3>1
    <3> QED
      BY <3>2
  <2> HIDE DEF a, b
  <2>6. Len(a \o b) = Len(a) + Len(b) /\ \A i \in 1 .. Len(a) : (a \o b)[i] = a[i]
    <3>1. a \in Seq(S) /\ b \in Seq(S)
      BY <2>4, <2>5
    <3>2. Len(a \o b) = Len(a) + Len(b)
      BY <3>1
    <3>3. \A i \in 1 .. Len(a) : (a \o b)[i] = a[i]
      BY <3>1
    <3> QED
      BY <3>2, <3>3
  <2>7. Len(a \o b) >= n
    BY <1>1, <2>1, <2>3, <2>4, <2>5, <2>6
  <2>8. ASSUME NEW k \in 1 .. n PROVE (a \o b)[k] = q[k]
    <3>1. k \in 1 .. p - 1 /\ k \in 1 .. Len(a)
      BY <2>1, <2>3, <2>4
    <3> QED
      BY <2>4, <2>6, <3>1
  <2> QED
    BY <2>2, <2>7, <2>8
<1> QED
  BY <1>2, <1>3

\* A clogged queue stays clogged whoever saves it: the event loop adds at its
\* end, and the dispatcher removes what was published.
LEMMA SaveQueueClogged ==
    ASSUME LimitInv, NEW t \in Threads, SaveQueue(t), Clogged
    PROVE  Clogged'
<1>1. PICK o \in Outcomes(WriteFaults), written, saved, ends \in BOOLEAN :
        /\ written <=> etag[t] # "stale" /\ Applied(o)
        /\ saved <=> etag[t] # "stale" /\ o = "ok"
        /\ ends <=> saved \/ Raises(o) \/ LastTry(t)
        /\ Count(o)
        /\ queue' = IF written THEN Mutated(t) ELSE queue
        /\ queueKey' = IF written THEN TRUE ELSE queueKey
        /\ view' = [view EXCEPT ![t] = <<>>]
        /\ etag' = [IF written THEN Outdate(etag) ELSE etag EXCEPT ![t] = "none"]
        /\ tries' = [tries EXCEPT ![t] = IF ends THEN 0 ELSE @ + 1]
        /\ \/ saved /\ NextItem(t)
           \/ ends /\ ~saved /\ Abort(t)
           \/ ~ends /\ Goto(t, "get") /\ UNCHANGED work
        /\ IF ends THEN Tell(t, Verdict(saved)) ELSE UNCHANGED told
        /\ pc[t] = "save"
        /\ UNCHANGED <<record, published>>
  BY SaveQueueCases
<1>2. SafeInv /\ TypeInv
  BY DEF LimitInv, SafeInv, RecordInv
<1>3. CASE ~written
  BY <1>1, <1>3 DEF Clogged
<1>4. CASE written
  <2> DEFINE e == Item(t)
  <2>1. queue' = Mutated(t) /\ view[t] = queue
    BY <1>1, <1>2, <1>4 DEF SafeInv, QueueOK
  <2>2. e \in Events /\ queue \in Seq(Events) /\ MaxBatch \in Nat /\ MaxBatch <= Len(queue)
    BY <1>1, <1>2, MutatedFacts, OutboxAssumption DEF TypeInv, TypeOK, Clogged
  <2>3. CASE t = Loop
    <3>1. queue' = Add(queue, e)
      BY <2>1, <2>3 DEF Mutated
    <3> HIDE DEF e
    <3>2. /\ Len(Add(queue, e)) >= MaxBatch
          /\ \A k \in 1 .. MaxBatch : Add(queue, e)[k] = queue[k]
      BY <2>2, AddKeepsPlaces
    <3> QED
      BY <3>1, <3>2 DEF Clogged
  <2>4. CASE t # Loop
    <3>1. queue' = Without(queue, e)
      BY <2>1, <2>4 DEF Mutated
    <3>2. e \in published
      BY <1>1, <1>2, <2>4 DEF SafeInv, QueueOK, Threads
    <3>3. \A k \in 1 .. MaxBatch : queue[k] # e
      BY <3>2 DEF LimitInv, RefusedOK, Clogged
    <3> HIDE DEF e
    <3>4. /\ Len(Without(queue, e)) >= MaxBatch
          /\ \A k \in 1 .. MaxBatch : Without(queue, e)[k] = queue[k]
      BY <2>2, <3>3, WithoutKeepsPlaces
    <3> QED
      BY <3>1, <3>4 DEF Clogged
  <2> QED
    BY <2>3, <2>4
<1> QED
  BY <1>3, <1>4

\* A tick that looks at a clogged queue takes refused ids in hand, and no other.
LEMMA StartTickStarved ==
    ASSUME LimitInv, StartTick, Clogged
    PROVE  ToSet(work'[Dispatcher]) \subseteq Rejected
<1>1. PICK o \in Outcomes(ReadFaults) :
        LET seen == IF o = "ok" THEN queue ELSE <<>>
            snapshot == SubSeq(seen, 1, IF Len(seen) < MaxBatch THEN Len(seen) ELSE MaxBatch)
        IN  work' = [work EXCEPT ![Dispatcher] = snapshot]
  BY DEF StartTick
<1>2. /\ queue \in Seq(Events) /\ work \in [Threads -> Seq(Events)] /\ Dispatcher \in Threads
      /\ MaxBatch \in Nat \ {0}
  BY OutboxAssumption DEF LimitInv, SafeInv, RecordInv, TypeInv, TypeOK, Threads
<1>3. CASE o = "ok"
  <2>1. Len(queue) \in Nat /\ ~(Len(queue) < MaxBatch)
    BY <1>2 DEF Clogged
  <2>2. work' = [work EXCEPT ![Dispatcher] = SubSeq(queue, 1, MaxBatch)]
    BY <1>1, <1>3, <2>1
  <2>3. work'[Dispatcher] = SubSeq(queue, 1, MaxBatch)
    BY <1>2, <2>2
  <2>4. /\ DOMAIN SubSeq(queue, 1, MaxBatch) = 1 .. MaxBatch
        /\ \A k \in 1 .. MaxBatch : SubSeq(queue, 1, MaxBatch)[k] = queue[k]
    BY <1>2, <2>1
  <2>5. ToSet(SubSeq(queue, 1, MaxBatch)) \subseteq Rejected
    BY <2>4 DEF ToSet, Clogged
  <2> QED
    BY <2>3, <2>5, Zenon
<1>4. CASE o # "ok"
  <2>1. work'[Dispatcher] = <<>>
    <3> DEFINE seen == IF o = "ok" THEN queue ELSE <<>>
    <3>1. seen = <<>> /\ Len(seen) = 0
      BY <1>4
    <3>2. (IF Len(seen) < MaxBatch THEN Len(seen) ELSE MaxBatch) = 0
      BY <1>2, <3>1
    <3>3. SubSeq(seen, 1, 0) = <<>>
      BY <3>1
    <3>4. work' = [work EXCEPT ![Dispatcher] =
                      SubSeq(seen, 1, IF Len(seen) < MaxBatch THEN Len(seen) ELSE MaxBatch)]
      BY <1>1
    <3> HIDE DEF seen
    <3>5. work' = [work EXCEPT ![Dispatcher] = <<>>]
      BY <3>2, <3>3, <3>4, Zenon
    <3> QED
      BY <1>2, <3>5
  <2>2. ToSet(<<>>) = {}
    BY DEF ToSet
  <2>3. ToSet(work'[Dispatcher]) = {}
    BY <2>1, <2>2, Zenon
  <2> QED
    BY <2>3
<1> QED
  BY <1>3, <1>4

\* Each step from a starved state leaves it starved and publishes nothing.
LEMMA StarvedStep ==
    ASSUME LimitInv, [Next]_vars, Starved
    PROVE  Starved' /\ published' = published
<1> USE DEF Threads
<1>1. TypeInv /\ SafeInv
  BY DEF LimitInv, SafeInv, RecordInv
<1>2. CASE UNCHANGED vars
  BY <1>2 DEF vars, Starved, Clogged
<1>3. ASSUME NEW e \in Events, CommitTransaction(e) PROVE Starved' /\ published' = published
  <2>1. UNCHANGED <<queue, published>> /\ work'[Dispatcher] = work[Dispatcher]
    BY <1>1, <1>3 DEF CommitTransaction, Goto, TypeInv, TypeOK, Loop, Dispatcher
  <2>2. ToSet(work'[Dispatcher]) = ToSet(work[Dispatcher])
    BY <2>1, Zenon
  <2> QED
    BY <2>1, <2>2 DEF Starved, Clogged
<1>4. ASSUME NEW t \in Threads, GetQueue(t) PROVE Starved' /\ published' = published
  <2>1. UNCHANGED <<queue, published>> /\ (work' = work \/ Abort(t))
    BY <1>4 DEF GetQueue, store
  <2>2. ToSet(work'[Dispatcher]) \subseteq ToSet(work[Dispatcher])
    <3>1. CASE work' = work
      BY <3>1, Zenon
    <3>2. CASE Abort(t)
      BY <1>1, <3>2, AbortKeeps
    <3> QED
      BY <2>1, <3>1, <3>2
  <2> QED
    BY <2>1, <2>2 DEF Starved, Clogged
<1>5. ASSUME NEW t \in Threads, SaveQueue(t) PROVE Starved' /\ published' = published
  <2>1. Clogged' /\ published' = published
    BY <1>5, SaveQueueClogged DEF Starved, SaveQueue
  <2>2. work' = work \/ Abort(t) \/ NextItem(t)
    BY <1>5 DEF SaveQueue
  <2>3. pc[t] # "idle"
    BY <1>5 DEF SaveQueue
  <2>4. ToSet(work'[Dispatcher]) \subseteq ToSet(work[Dispatcher])
    <3>1. CASE work' = work
      BY <3>1, Zenon
    <3>2. CASE Abort(t)
      BY <1>1, <3>2, AbortKeeps
    <3>3. CASE NextItem(t)
      BY <1>1, <2>3, <3>3, NextItemKeeps
    <3> QED
      BY <2>2, <3>1, <3>2, <3>3
  <2> QED
    BY <2>1, <2>4 DEF Starved
<1>6. ASSUME StartTick PROVE Starved' /\ published' = published
  BY <1>6, StartTickStarved DEF StartTick, store, Starved, Clogged
<1>7. ASSUME GetRecord \/ BumpAttempts \/ MarkDispatched
      PROVE  Starved' /\ published' = published
  <2>1. UNCHANGED <<queue, published>> /\ pc[Dispatcher] # "idle"
    BY <1>7 DEF GetRecord, BumpAttempts, MarkDispatched, store
  <2>2. work' = work \/ Abort(Dispatcher) \/ NextItem(Dispatcher)
    BY <1>7 DEF GetRecord, BumpAttempts, MarkDispatched, AfterBump, DropFromQueue
  <2>3. ToSet(work'[Dispatcher]) \subseteq ToSet(work[Dispatcher])
    <3>1. CASE work' = work
      BY <3>1, Zenon
    <3>2. CASE Abort(Dispatcher)
      BY <1>1, <3>2, AbortKeeps
    <3>3. CASE NextItem(Dispatcher)
      BY <1>1, <2>1, <3>3, NextItemKeeps
    <3> QED
      BY <2>2, <3>1, <3>2, <3>3
  <2> QED
    BY <2>1, <2>3 DEF Starved, Clogged
<1>8. ASSUME Publish PROVE Starved' /\ published' = published
  <2>1. pc[Dispatcher] # "idle" /\ UNCHANGED <<queue, work>>
    BY <1>8 DEF Publish, store
  <2>2. Item(Dispatcher) \in ToSet(work[Dispatcher])
    BY <1>1, <2>1, MutatedFacts
  <2>3. Item(Dispatcher) \in Rejected
    BY <2>2 DEF Starved
  <2>4. published' = published
    BY <1>8, <2>3 DEF Publish
  <2>5. ToSet(work'[Dispatcher]) = ToSet(work[Dispatcher])
    BY <2>1, Zenon
  <2> QED
    BY <2>1, <2>4, <2>5 DEF Starved, Clogged
<1>9. ASSUME Crash PROVE Starved' /\ published' = published
  <2>1. UNCHANGED <<queue, published>> /\ work'[Dispatcher] = <<>>
    BY <1>9 DEF Crash, store
  <2>2. ToSet(<<>>) = {}
    BY DEF ToSet
  <2>3. ToSet(work'[Dispatcher]) = {}
    BY <2>1, <2>2, Zenon
  <2> QED
    BY <2>1, <2>3 DEF Starved, Clogged
<1> QED
  BY <1>2, <1>3, <1>4, <1>5, <1>6, <1>7, <1>8, <1>9 DEF Next, Enqueueing, Dispatching

\* LimitInv holds in every reachable state.
LEMMA LimitInvAlways ==
    ASSUME "read_status" \notin Faults
    PROVE  Spec => []LimitInv
<1>1. Init => LimitInv
  BY SafeInvInit DEF Init, LimitInv, RefusedOK
<1>2. LimitInv /\ [Next]_vars => LimitInv'
  <2> SUFFICES ASSUME LimitInv, [Next]_vars PROVE RefusedOK'
    BY SafeInvNext DEF LimitInv
  <2>1. published' = published \/ Publish
    BY DEF Next, Enqueueing, Dispatching, vars, CommitTransaction, GetQueue, SaveQueue, StartTick,
           GetRecord, BumpAttempts, MarkDispatched, Crash
  <2>2. CASE Publish
    BY <2>2 DEF Publish, LimitInv, RefusedOK
  <2> QED
    BY <2>1, <2>2 DEF LimitInv, RefusedOK
<1> QED
  BY <1>1, <1>2, PTL DEF Spec

\* Starvation is for ever (outbox.py:106): once the first MaxBatch ids of the
\* queue, and whatever the dispatcher has in hand, are refused by the broker,
\* nothing that is enqueued later is ever published, whoever writes, fails or
\* is restarted.  Nothing in the code takes a refused id from its place.
THEOREM StarvationIsForever ==
    ASSUME "read_status" \notin Faults
    PROVE  Spec => [][Starved => Starved' /\ published' = published]_vars
<1>1. LimitInv /\ [Next]_vars => [Starved => Starved' /\ published' = published]_vars
  BY StarvedStep
<1> QED
  BY <1>1, LimitInvAlways, PTL DEF Spec

\* It takes MaxBatch refused events to get there: with fewer of them there is
\* always an id at the head of the queue that is not refused, or room for one.
THEOREM FewRefusalsNeverClog ==
    ASSUME IsFiniteSet(Rejected), Cardinality(Rejected) < MaxBatch
    PROVE  Spec => []~Clogged
<1>1. TypeInv => ~Clogged
  <2> SUFFICES ASSUME TypeInv, Clogged PROVE FALSE
    OBVIOUS
  <2> DEFINE f == [k \in 1 .. MaxBatch |-> queue[k]]
  <2>1. MaxBatch \in Nat /\ Cardinality(Rejected) \in Nat
    BY OutboxAssumption, FS_CardinalityType
  <2>2. queue \in Seq(Events) /\ IsInjective(queue)
    BY DEF TypeInv, TypeOK, DistinctOK
  <2>3. 1 .. MaxBatch \subseteq DOMAIN queue
    BY <2>1, <2>2 DEF Clogged
  <2>4. f \in [1 .. MaxBatch -> Rejected]
    BY DEF Clogged
  <2>5. \A j, k \in 1 .. MaxBatch : f[j] = f[k] => j = k
    BY <2>2, <2>3 DEF IsInjective
  <2>6. f \in Injection(1 .. MaxBatch, Rejected)
    BY <2>4, <2>5 DEF Injection, IsInjective
  <2>7. Cardinality(1 .. MaxBatch) <= Cardinality(Rejected)
    <3> HIDE DEF f
    <3> QED
      BY <2>6, FS_Injection
  <2>8. Cardinality(1 .. MaxBatch) = MaxBatch
    <3>1. Cardinality(1 .. MaxBatch) = IF 1 > MaxBatch THEN 0 ELSE MaxBatch - 1 + 1
      BY <2>1, FS_Interval
    <3> QED
      BY <2>1, <3>1
  <2> QED
    BY <2>1, <2>7, <2>8
<1> QED
  BY <1>1, TypeInvAlways, PTL
=============================================================================
