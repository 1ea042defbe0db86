--------------------------- MODULE LocalScorerProofs ---------------------------
(***************************************************************************)
(* What LocalScorer computes, for every lead and every set of neighbours:  *)
(* the probability is in bounds, and more never hurts.                     *)
(***************************************************************************)
EXTENDS LocalScorer, FiniteSetTheorems, WellFoundedInduction, TLAPS

\* A finite set of integers that is not empty has a greatest element.
LEMMA Maximum ==
  ASSUME NEW S \in SUBSET Int, S # {}, IsFiniteSet(S)
  PROVE  \E s \in S : \A t \in S : t <= s
<1> DEFINE Above(s) == {t \in S : t > s}
           T == {Above(s) : s \in S}
<1>1. T \subseteq FiniteSubsetsOf(S)
  <2>1. \A s \in S : Above(s) \in SUBSET S /\ IsFiniteSet(Above(s))
    BY FS_Subset
  <2>. QED
    BY <2>1 DEF FiniteSubsetsOf
<1>2. IsWellFoundedOn(StrictSubsetOrdering(S), FiniteSubsetsOf(S))
  BY FS_StrictSubsetOrderingWellFounded
<1>3. T # {}
  OBVIOUS
<1>4. PICK x \in T : \A y \in T : ~(<<y, x>> \in StrictSubsetOrdering(S))
  <2> HIDE DEF T
  <2>. QED BY <1>1, <1>2, <1>3, WFMin, Zenon
<1>5. PICK s \in S : x = Above(s)
  OBVIOUS
<1>6. ASSUME NEW t \in S, ~(t <= s) PROVE FALSE
  <2>1. s \in Int /\ t \in Int /\ t > s
    BY <1>6
  <2>2. t \in Above(s) /\ t \notin Above(t)
    BY <2>1
  <2>3. ASSUME NEW u \in Above(t) PROVE u \in Above(s)
    <3>1. u \in S /\ u \in Int /\ u > t
      BY <2>3
    <3>. QED
      BY <2>1, <3>1
  <2>4. Above(t) \in T /\ Above(s) \in SUBSET S /\ Above(t) \in SUBSET S
    OBVIOUS
  <2>5. Above(t) \subseteq Above(s) /\ Above(t) # Above(s)
    BY <2>2, <2>3
  <2>6. <<Above(t), x>> \in StrictSubsetOrdering(S)
    <3> HIDE DEF Above
    <3>. QED
      BY <2>4, <2>5, <1>5 DEF StrictSubsetOrdering
  <2>. QED
    BY <2>4, <2>6, <1>4
<1>. QED
  BY <1>6

\* What FindSimilar returns: finitely many leads, with numbers or NaN.
IsNear(near) ==
  IsFiniteSet(near) /\ \A n \in near : n.similarity \in Int \cup {NaN}

\* Closest is the greatest similarity, and NaN only when there is no number.
LEMMA ClosestIsGreatest ==
  ASSUME NEW near, IsNear(near)
  PROVE  \/ Closest(near) = NaN /\ \A n \in near : n.similarity = NaN
         \/ /\ Closest(near) \in Int
            /\ \E n \in near : n.similarity = Closest(near)
            /\ \A n \in near : n.similarity # NaN => n.similarity <= Closest(near)
<1> DEFINE all == {n.similarity : n \in near}
           numbers == all \ {NaN}
<1>1. CASE numbers = {}
  BY <1>1 DEF Closest
<1>2. CASE numbers # {}
  <2>1. IsFiniteSet(numbers)
    <3> DEFINE f == [n \in near |-> n.similarity]
    <3>1. IsFiniteSet(all)
      <4>1. f \in Surjection(near, all)
        BY DEF Surjection
      <4>. QED
        BY <4>1, FS_Surjection DEF IsNear
    <3>. QED
      BY <3>1, FS_Subset
  <2>2. numbers \in SUBSET Int
    BY DEF IsNear
  <2>3. PICK s \in numbers : \A t \in numbers : t <= s
    BY <1>2, <2>1, <2>2, Maximum
  <2>4. Closest(near) = CHOOSE u \in numbers : \A t \in numbers : t <= u
    BY <1>2 DEF Closest
  <2>5. Closest(near) \in numbers /\ \A t \in numbers : t <= Closest(near)
    <3> HIDE DEF numbers
    <3>. QED
      BY <2>3, <2>4
  <2>. QED
    BY <2>2, <2>5
<1>. QED
  BY <1>1, <1>2

\* Clamping and rounding stay in bounds and keep the order.
LEMMA RoundedInBounds ==
  ASSUME NEW x \in Int
  PROVE  /\ Rounded(Clamped(x)) \in Int
         /\ Rounded(Clamped(x)) <= 9500
         /\ x >= 10000 * 1500 => Rounded(Clamped(x)) >= 1500
BY DEF Rounded, Clamped

LEMMA RoundedMonotone ==
  ASSUME NEW x \in Int, NEW y \in Int, x <= y
  PROVE  Rounded(Clamped(x)) <= Rounded(Clamped(y))
<1>1. Clamped(x) \in Int /\ Clamped(y) \in Int /\ Clamped(x) <= Clamped(y)
  BY DEF Clamped
<1>. QED
  BY <1>1 DEF Rounded

\* The attributes of a lead are worth at least 25 hundredths.
LEMMA AttributesInBounds ==
  ASSUME NEW lead \in Lead
  PROVE  Attributes(lead) \in Int /\ Attributes(lead) >= 2500
<1> DEFINE source  == SourceWeight[lead.source]
           size    == SizeWeight(lead.size)
           revenue == RevenueWeight(lead.revenue)
           notes   == IF lead.notes THEN 500 ELSE 0
<1>1. source \in Nat
  BY DEF Lead, SourceWeight
<1>2. size \in Nat /\ revenue \in Nat
  BY DEF SizeWeight, RevenueWeight
<1>3. notes \in Nat
  OBVIOUS
<1>4. Attributes(lead) = 2500 + source + size + revenue + notes
  BY DEF Attributes
<1> HIDE DEF source, size, revenue, notes
<1>. QED
  BY <1>1, <1>2, <1>3, <1>4

LEMMA AttributesMonotone ==
  ASSUME NEW a \in Lead, NEW b \in Lead, AtLeast(a, b)
  PROVE  Attributes(a) >= Attributes(b)
<1>1. /\ SourceWeight[a.source] \in Int /\ SourceWeight[b.source] \in Int
      /\ SourceWeight[a.source] >= SourceWeight[b.source]
  <2>1. SourceWeight[a.source] \in Int /\ SourceWeight[b.source] \in Int
    BY DEF Lead, SourceWeight
  <2>. QED
    BY <2>1 DEF AtLeast
<1>2. /\ SizeWeight(a.size) \in Int /\ SizeWeight(b.size) \in Int
      /\ SizeWeight(a.size) >= SizeWeight(b.size)
  BY DEF AtLeast, SizeWeight, Lead
<1>3. /\ RevenueWeight(a.revenue) \in Int /\ RevenueWeight(b.revenue) \in Int
      /\ RevenueWeight(a.revenue) >= RevenueWeight(b.revenue)
  BY DEF AtLeast, RevenueWeight, Lead
<1>4. a.notes \in BOOLEAN /\ b.notes \in BOOLEAN /\ (b.notes => a.notes)
  BY DEF AtLeast, Lead
<1>. QED
  BY <1>1, <1>2, <1>3, <1>4 DEF Attributes

\* Five neighbours take at most ten hundredths from a lead.
LEMMA OutcomesInBounds ==
  ASSUME NEW near, IsFiniteSet(near)
  PROVE  /\ Outcomes(near) \in Int
         /\ Cardinality(near) <= 5 => Outcomes(near) + 1000 >= 0
         /\ near = {} => Outcomes(near) = 0
<1> DEFINE won == With(near, Won)
           lost == With(near, Lost)
<1>1. /\ Cardinality(won) \in Nat /\ Cardinality(lost) \in Nat
      /\ Cardinality(won) <= Cardinality(near) /\ Cardinality(lost) <= Cardinality(near)
      /\ Cardinality(near) \in Nat
  <2>1. won \in SUBSET near /\ lost \in SUBSET near
    BY DEF With
  <2>. QED
    BY <2>1, FS_Subset, FS_CardinalityType
<1>2. Outcomes(near) = 300 * Cardinality(won) - 200 * Cardinality(lost)
  BY DEF Outcomes
<1>3. near = {} => Cardinality(won) = 0 /\ Cardinality(lost) = 0
  <2>1. near = {} => won = {} /\ lost = {}
    BY DEF With
  <2>. QED
    BY <2>1, FS_EmptySet
<1> HIDE DEF won, lost
<1>. QED
  BY <1>1, <1>2, <1>3

\* What the most similar neighbour adds to a lead.
Warmth(near) == IF near # {} /\ Closest(near) > 0 THEN Closest(near) ELSE 0

LEMMA ProbabilityIs ==
  ASSUME NEW lead \in Lead, NEW near, IsNear(near),
         near = {} \/ Closest(near) # NaN
  PROVE  /\ Warmth(near) \in Nat
         /\ Probability(lead, near) =
              Rounded(Clamped(10000 * (Attributes(lead) + Outcomes(near)) + 1800 * Warmth(near)))
<1>1. Attributes(lead) \in Int /\ Outcomes(near) \in Int
  <2>1. Attributes(lead) \in Int
    BY AttributesInBounds
  <2>2. Outcomes(near) \in Int
    BY OutcomesInBounds DEF IsNear
  <2>. QED
    BY <2>1, <2>2
<1>2. near # {} => Closest(near) \in Int
  BY ClosestIsGreatest
<1>3. Warmth(near) \in Nat
  BY <1>2 DEF Warmth
<1>4. CASE near = {}
  <2>1. Warmth(near) = 0
    BY <1>4 DEF Warmth
  <2>2. Probability(lead, near) = Rounded(Clamped(10000 * (Attributes(lead) + Outcomes(near))))
    BY <1>4 DEF Probability
  <2>. QED
    BY <1>1, <2>1, <2>2
<1>5. CASE near # {}
  <2>1. Probability(lead, near) =
          Rounded(Clamped(10000 * (Attributes(lead) + Outcomes(near))
                          + 1800 * (IF Closest(near) > 0 THEN Closest(near) ELSE 0)))
    BY <1>5 DEF Probability
  <2>2. Warmth(near) = IF Closest(near) > 0 THEN Closest(near) ELSE 0
    BY <1>5 DEF Warmth
  <2>. QED
    BY <2>1, <2>2, <1>3
<1>. QED
  BY <1>4, <1>5

\* conversionProbability returns 0.15 to 0.95 whatever the lead and up to five
\* neighbours are: the lower clamp is never reached.  NaN comes only from
\* neighbours none of which has a similarity.
THEOREM ProbabilityInBounds ==
  ASSUME NEW lead \in Lead, NEW near, IsNear(near), Cardinality(near) <= 5
  PROVE  \/ Probability(lead, near) \in Bounds
         \/ /\ Probability(lead, near) = NaN
            /\ near # {} /\ \A n \in near : n.similarity = NaN
<1>1. CASE near # {} /\ Closest(near) = NaN
  <2>1. Probability(lead, near) = NaN
    BY <1>1 DEF Probability
  <2>2. \A n \in near : n.similarity = NaN
    BY <1>1, ClosestIsGreatest, NaNAssumption
  <2>. QED
    BY <1>1, <2>1, <2>2
<1>2. CASE near = {} \/ Closest(near) # NaN
  <2> DEFINE x == 10000 * (Attributes(lead) + Outcomes(near)) + 1800 * Warmth(near)
  <2>1. Warmth(near) \in Nat /\ Probability(lead, near) = Rounded(Clamped(x))
    BY <1>2, ProbabilityIs
  <2>2. Attributes(lead) \in Int /\ Attributes(lead) >= 2500
    BY AttributesInBounds
  <2>3. Outcomes(near) \in Int /\ Outcomes(near) + 1000 >= 0
    BY OutcomesInBounds DEF IsNear
  <2>4. x \in Int /\ x >= 10000 * 1500
    BY <2>1, <2>2, <2>3
  <2> HIDE DEF x
  <2> DEFINE r == Rounded(Clamped(x))
  <2>5. r \in Int /\ r <= 9500
    BY <2>4, RoundedInBounds
  <2>6. r >= 1500
    BY <2>4, RoundedInBounds
  <2> HIDE DEF r
  <2>7. r \in Bounds
    BY <2>5, <2>6 DEF Bounds
  <2>8. Probability(lead, near) = r
    BY <2>1 DEF r
  <2>. QED
    BY <2>7, <2>8
<1>. QED
  BY <1>1, <1>2

\* A lead that is at least as good and has neighbours that speak for it at
\* least as much never gets a lower probability.
THEOREM ProbabilityMonotone ==
  ASSUME NEW a \in Lead, NEW b \in Lead, AtLeast(a, b),
         NEW near, IsNear(near), NEW far, IsNear(far), Warmer(near, far)
  PROVE  Probability(a, near) >= Probability(b, far)
<1>1. near = {} \/ Closest(near) # NaN
  BY ClosestIsGreatest, NaNAssumption DEF Warmer
<1>2. far = {} \/ Closest(far) # NaN
  BY ClosestIsGreatest, NaNAssumption DEF Warmer
<1> DEFINE x == 10000 * (Attributes(a) + Outcomes(near)) + 1800 * Warmth(near)
           y == 10000 * (Attributes(b) + Outcomes(far)) + 1800 * Warmth(far)
<1>3. /\ Warmth(near) \in Nat /\ Probability(a, near) = Rounded(Clamped(x))
      /\ Warmth(far) \in Nat /\ Probability(b, far) = Rounded(Clamped(y))
  BY <1>1, <1>2, ProbabilityIs
<1>4. Attributes(a) \in Int /\ Attributes(b) \in Int /\ Attributes(a) >= Attributes(b)
  BY AttributesInBounds, AttributesMonotone
<1>5. Outcomes(near) \in Int /\ Outcomes(far) \in Int /\ Outcomes(near) >= Outcomes(far)
  <2>1. /\ IsFiniteSet(With(near, Won)) /\ IsFiniteSet(With(near, Lost))
        /\ IsFiniteSet(With(far, Won)) /\ IsFiniteSet(With(far, Lost))
    <3>1. /\ With(near, Won) \in SUBSET near /\ With(near, Lost) \in SUBSET near
          /\ With(far, Won) \in SUBSET far /\ With(far, Lost) \in SUBSET far
      BY DEF With
    <3>. QED
      BY <3>1, FS_Subset DEF IsNear
  <2>2. /\ Cardinality(With(near, Won)) \in Nat /\ Cardinality(With(near, Lost)) \in Nat
        /\ Cardinality(With(far, Won)) \in Nat /\ Cardinality(With(far, Lost)) \in Nat
    BY <2>1, FS_CardinalityType
  <2>. QED
    BY <2>2 DEF Outcomes, Warmer
<1>6. Warmth(near) >= Warmth(far)
  <2>1. CASE far = {}
    BY <2>1, <1>3 DEF Warmth
  <2>2. CASE far # {}
    <3>1. PICK t \in far : t.similarity = Closest(far) /\ Closest(far) \in Int
      BY <2>2, <1>2, ClosestIsGreatest
    <3>2. PICK s \in near : t.similarity <= s.similarity
      BY DEF Warmer
    <3>3. s.similarity \in Int /\ s.similarity <= Closest(near) /\ Closest(near) \in Int
      BY <1>1, ClosestIsGreatest DEF Warmer, IsNear
    <3>4. Closest(far) <= Closest(near)
      BY <3>1, <3>2, <3>3
    <3>. QED
      BY <2>2, <3>1, <3>3, <3>4 DEF Warmth
  <2>. QED
    BY <2>1, <2>2
<1>7. x \in Int /\ y \in Int /\ y <= x
  BY <1>3, <1>4, <1>5, <1>6
<1> HIDE DEF x, y
<1>8. Rounded(Clamped(x)) \in Int /\ Rounded(Clamped(y)) \in Int
  BY <1>7, RoundedInBounds
<1>9. Rounded(Clamped(y)) <= Rounded(Clamped(x))
  BY <1>7, RoundedMonotone
<1>. QED
  BY <1>3, <1>8, <1>9
===============================================================================
