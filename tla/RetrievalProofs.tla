---------------------------- MODULE RetrievalProofs ----------------------------
(***************************************************************************)
(* Theorems about the retrieval of rules in Evaluation: for a handbook of  *)
(* any finite size and any ratings, which rules get into a prompt, and how *)
(* many.  The rules are in a strict order; counting the rules above each   *)
(* numbers them from 0 without a gap, and Top is those numbered below      *)
(* TopK.                                                                   *)
(***************************************************************************)
EXTENDS Evaluation, TLAPS, FiniteSetTheorems, FunctionTheorems

\* The rules that are listed before rule r.
Above(r, rating) == {q \in DOMAIN rating : Outranks(q, r, rating)}

\* How many there are.
Place(r, rating) == Cardinality(Above(r, rating))

\* The order is strict and total.
LEMMA OutranksIsStrictOrder ==
    ASSUME NEW rules \in SUBSET Nat, NEW rating \in [rules -> Nat],
           NEW p \in rules, NEW q \in rules, NEW r \in rules
    PROVE /\ ~Outranks(r, r, rating)
          /\ Outranks(p, q, rating) /\ Outranks(q, r, rating) => Outranks(p, r, rating)
          /\ q # r => Outranks(q, r, rating) \/ Outranks(r, q, rating)
<1>1. /\ p \in Nat /\ q \in Nat /\ r \in Nat
      /\ rating[p] \in Nat /\ rating[q] \in Nat /\ rating[r] \in Nat
  OBVIOUS
<1> QED
  BY <1>1 DEF Outranks

\* The rules above one are finite in number, and fewer than all.
LEMMA PlaceType ==
    ASSUME NEW rules \in SUBSET Nat, IsFiniteSet(rules), NEW rating \in [rules -> Nat],
           NEW r \in rules
    PROVE /\ IsFiniteSet(Above(r, rating))
          /\ Place(r, rating) \in 0 .. Cardinality(rules) - 1
<1>1. Above(r, rating) \subseteq rules /\ r \notin Above(r, rating)
  BY OutranksIsStrictOrder DEF Above
<1>2. IsFiniteSet(Above(r, rating)) /\ Place(r, rating) \in Nat
  BY <1>1, FS_Subset, FS_CardinalityType DEF Place
<1>3. Place(r, rating) <= Cardinality(rules) /\ Place(r, rating) # Cardinality(rules)
  BY <1>1, FS_Subset DEF Place
<1>4. Cardinality(rules) \in Nat
  BY FS_CardinalityType
<1> QED
  BY <1>2, <1>3, <1>4

\* What is listed before another has fewer above it.
LEMMA PlaceGrows ==
    ASSUME NEW rules \in SUBSET Nat, IsFiniteSet(rules), NEW rating \in [rules -> Nat],
           NEW q \in rules, NEW r \in rules, Outranks(q, r, rating)
    PROVE Place(q, rating) < Place(r, rating)
<1>1. Above(q, rating) \subseteq Above(r, rating)
  BY OutranksIsStrictOrder DEF Above
<1>2. q \in Above(r, rating) /\ q \notin Above(q, rating)
  BY OutranksIsStrictOrder DEF Above
<1>3. Place(q, rating) <= Place(r, rating) /\ Place(q, rating) # Place(r, rating)
  BY <1>1, <1>2, PlaceType, FS_Subset DEF Place
<1>4. Place(q, rating) \in Nat /\ Place(r, rating) \in Nat
  BY PlaceType, FS_CardinalityType DEF Place
<1> QED
  BY <1>3, <1>4

\* Every place from 0 on is taken by exactly one rule.
LEMMA PlacesAreABijection ==
    ASSUME NEW rules \in SUBSET Nat, IsFiniteSet(rules), NEW rating \in [rules -> Nat]
    PROVE [r \in rules |-> Place(r, rating)] \in Bijection(rules, 0 .. Cardinality(rules) - 1)
<1> DEFINE f == [r \in rules |-> Place(r, rating)]
           places == 0 .. Cardinality(rules) - 1
<1>1. Cardinality(rules) \in Nat
  BY FS_CardinalityType
<1>2. f \in [rules -> places]
  BY PlaceType
<1>3. ASSUME NEW q \in rules, NEW r \in rules, f[q] = f[r]
      PROVE q = r
  <2>1. ASSUME NEW x \in rules, NEW y \in rules, Outranks(x, y, rating)
        PROVE f[x] # f[y]
    <3>1. Place(x, rating) < Place(y, rating)
      BY <2>1, PlaceGrows
    <3>2. Place(x, rating) \in Nat /\ Place(y, rating) \in Nat
      BY PlaceType, FS_CardinalityType DEF Place
    <3> QED
      BY <3>1, <3>2
  <2> QED
    BY <1>3, <2>1, OutranksIsStrictOrder
<1>4. f \in Injection(rules, places)
  <2> HIDE DEF f, places
  <2> QED
    BY <1>2, <1>3, Fun_IsInj
<1>5. IsFiniteSet(places) /\ Cardinality(places) = Cardinality(rules)
  BY <1>1, FS_Interval
<1>6. f \in Surjection(rules, places)
  <2> HIDE DEF f, places
  <2> QED
    BY <1>4, <1>5, FS_Injection
<1> QED
  BY <1>4, <1>6 DEF Bijection

\* Top is TopK rules, or all of them if there are no more than TopK.
LEMMA TopSize ==
    ASSUME NEW rules \in SUBSET Nat, IsFiniteSet(rules), NEW rating \in [rules -> Nat]
    PROVE /\ Top(rating) \subseteq rules
          /\ Cardinality(rules) <= TopK => Top(rating) = rules
          /\ Cardinality(rules) > TopK => Cardinality(Top(rating)) = TopK
<1>1. PICK n \in Nat : n = Cardinality(rules)
  BY FS_CardinalityType
<1>2. TopK \in Nat \ {0}
  BY EvaluationAssumption
<1>3. Top(rating) = {r \in rules : Place(r, rating) < TopK}
  BY DEF Top, Place, Above
<1>4. ASSUME NEW r \in rules PROVE Place(r, rating) \in Nat /\ Place(r, rating) < n
  BY <1>1, PlaceType
<1>5. ASSUME n <= TopK PROVE Top(rating) = rules
  <2>1. ASSUME NEW r \in rules PROVE Place(r, rating) < TopK
    BY <1>2, <1>4, <1>5
  <2> QED
    BY <1>3, <2>1
<1>6. ASSUME n > TopK PROVE Cardinality(Top(rating)) = TopK
  <2> DEFINE first == 0 .. TopK - 1
             g == [r \in Top(rating) |-> Place(r, rating)]
  <2>1. PICK f : /\ f = [r \in rules |-> Place(r, rating)]
                 /\ f \in Bijection(rules, 0 .. n - 1)
    BY <1>1, PlacesAreABijection
  <2>2. /\ \A q, r \in rules : f[q] = f[r] => q = r
        /\ \A k \in 0 .. n - 1 : \E r \in rules : f[r] = k
    BY <2>1 DEF Bijection, Injection, Surjection, IsInjective
  <2>3. g \in [Top(rating) -> first]
    <3>1. ASSUME NEW r \in Top(rating) PROVE Place(r, rating) \in first
      <4>1. Place(r, rating) \in Nat /\ Place(r, rating) < TopK
        BY <1>3, <1>4
      <4> QED
        BY <1>2, <4>1
    <3> QED
      BY <3>1
  <2>4. \A q, r \in Top(rating) : g[q] = g[r] => q = r
    BY <1>3, <2>1, <2>2
  <2>5. ASSUME NEW k \in first PROVE \E r \in Top(rating) : g[r] = k
    <3>1. k \in 0 .. n - 1 /\ k < TopK
      BY <1>2, <1>6
    <3>2. PICK r \in rules : f[r] = k
      BY <2>2, <3>1
    <3>3. r \in Top(rating)
      BY <1>3, <2>1, <3>1, <3>2
    <3> QED
      BY <2>1, <3>2, <3>3
  <2>6. g \in Bijection(Top(rating), first)
    <3> HIDE DEF g, first
    <3> QED
      BY <2>3, <2>4, <2>5, Fun_IsBij
  <2>7. IsFiniteSet(Top(rating))
    BY <1>3, FS_Subset
  <2>8. Cardinality(first) = TopK
    <3>1. Cardinality(first) = IF 0 > TopK - 1 THEN 0 ELSE TopK - 1 - 0 + 1
      BY <1>2, FS_Interval
    <3> QED
      BY <1>2, <3>1
  <2> QED
    <3> HIDE DEF g, first
    <3>1. ExistsBijection(Top(rating), first)
      BY <2>6 DEF ExistsBijection
    <3> QED
      BY <2>7, <2>8, <3>1, FS_Bijection
<1> QED
  BY <1>1, <1>3, <1>5, <1>6

\* No rule is kept from the model while one that matches the invoice less is
\* shown, in a handbook of any size and whatever the ratings.
THEOREM BetterRulesAreShown ==
    ASSUME NEW rules \in SUBSET Nat, IsFiniteSet(rules), NEW rating \in [rules -> Nat],
           NEW q \in Retrieve(rating), NEW r \in rules \ Retrieve(rating)
    PROVE rating[q] >= rating[r]
<1>1. DOMAIN rating = rules /\ Retrieve(rating) = Top(rating)
  BY DEF Retrieve
<1>2. q \in rules /\ Place(q, rating) < TopK
  BY <1>1 DEF Top, Place, Above
<1>3. ~(Place(r, rating) < TopK)
  BY <1>1 DEF Top, Place, Above
<1> SUFFICES ASSUME ~(rating[q] >= rating[r]) PROVE FALSE
  OBVIOUS
<1>4. Outranks(r, q, rating)
  BY <1>2 DEF Outranks
<1>5. Place(r, rating) < Place(q, rating)
  BY <1>2, <1>4, PlaceGrows
<1>6. Place(q, rating) \in Nat /\ Place(r, rating) \in Nat /\ TopK \in Nat
  BY <1>2, PlaceType, FS_CardinalityType, EvaluationAssumption DEF Place
<1> QED
  BY <1>2, <1>3, <1>5, <1>6

\* The number of rules in a prompt, in a handbook of any size and whatever the
\* ratings: a rule is kept from the model only when TopK others are shown, one
\* of which has a word in common with the invoice; and a prompt is empty only
\* when the handbook is.
THEOREM PromptIsFullOrComplete ==
    ASSUME NEW rules \in SUBSET Nat, IsFiniteSet(rules), NEW rating \in [rules -> Nat]
    PROVE /\ Retrieve(rating) \subseteq rules
          /\ Retrieve(rating) = {} => rules = {}
          /\ Retrieve(rating) # rules =>
                /\ Cardinality(Retrieve(rating)) = TopK
                /\ \E q \in Retrieve(rating) : rating[q] > 0
<1>1. DOMAIN rating = rules
  OBVIOUS
<1>2. CASE \E r \in Top(rating) : rating[r] > 0
  <2>1. Retrieve(rating) = Top(rating) /\ Top(rating) # {}
    BY <1>2 DEF Retrieve
  <2>2. Cardinality(rules) \in Nat /\ TopK \in Nat
    BY FS_CardinalityType, EvaluationAssumption
  <2> QED
    BY <1>2, <2>1, <2>2, TopSize
<1>3. CASE ~\E r \in Top(rating) : rating[r] > 0
  BY <1>1, <1>3 DEF Retrieve
<1> QED
  BY <1>2, <1>3
=============================================================================
