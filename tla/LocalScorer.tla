------------------------------ MODULE LocalScorer -----------------------------
(***************************************************************************)
(* conversionProbability of internal/lead/scoring/scorer.go: what the      *)
(* local scorer makes of the attributes of a lead and of the leads most    *)
(* similar to it.  Probabilities are counted in ten-thousandths, the four  *)
(* decimals of lead_scores; similarities too, from -10000 to 10000.        *)
(*                                                                         *)
(* A lead is a record of the class of its source, its size, its revenue    *)
(* and whether it has notes.  A neighbour is a record of its id, its       *)
(* status and its similarity, which is NaN when a vector is zero.          *)
(***************************************************************************)
EXTENDS Integers, FiniteSets

CONSTANT NaN  \* math.NaN

ASSUME NaNAssumption == NaN \notin Int

SourceWeight == [referral |-> 2000, webinar |-> 1500, inbound |-> 1200,
                 website |-> 1200, manual |-> 500, other |-> 0]

Lead == [source : DOMAIN SourceWeight, size : Nat, revenue : Nat, notes : BOOLEAN]

SizeWeight(n) ==
  IF n >= 1000 THEN 1400 ELSE IF n >= 250 THEN 1000 ELSE IF n >= 50 THEN 600 ELSE 0

RevenueWeight(n) ==
  IF n >= 10000000 THEN 1200 ELSE IF n >= 1000000 THEN 700 ELSE 0

Won  == {"won", "converted", "customer"}
Lost == {"lost", "disqualified"}

With(near, statuses) == {n \in near : n.status \in statuses}

Attributes(lead) ==
  2500 + SourceWeight[lead.source] + SizeWeight(lead.size)
       + RevenueWeight(lead.revenue) + (IF lead.notes THEN 500 ELSE 0)

\* MoreNeverHurts: lost neighbours must count against a lead.
OutcomesSwapped(near) ==
  200 * Cardinality(With(near, Lost)) - 300 * Cardinality(With(near, Won))

Outcomes(near) == 300 * Cardinality(With(near, Won)) - 200 * Cardinality(With(near, Lost))

\* The first of the similarities sorted in descending order, which puts NaN last.
Closest(near) ==
  LET numbers == {n.similarity : n \in near} \ {NaN}
  IN IF numbers = {} THEN NaN ELSE CHOOSE s \in numbers : \A t \in numbers : t <= s

\* DecisionInBounds: all that is good about a lead adds up to more than one.
ClampedBelow(x) == IF x < 5000000 THEN 5000000 ELSE x

\* The sum is exact in units of 10^-8.
Clamped(x) == IF x > 95000000 THEN 95000000 ELSE IF x < 5000000 THEN 5000000 ELSE x

Rounded(x) == (x + 5000) \div 10000

\* math.Max(0, NaN) is NaN, and so is all that is computed from it.
Probability(lead, near) ==
  LET sum == 10000 * (Attributes(lead) + Outcomes(near))
      s   == Closest(near)
  IN IF near = {} THEN Rounded(Clamped(sum))
     ELSE IF s = NaN THEN NaN
     ELSE Rounded(Clamped(sum + 1800 * (IF s > 0 THEN s ELSE 0)))

----------------------------------------------------------------------------
\* What the properties compare.

Bounds == 1500 .. 9500

\* Lead a has every attribute the scorer rewards at least as much as b.
AtLeast(a, b) ==
  /\ SourceWeight[a.source] >= SourceWeight[b.source]
  /\ a.size >= b.size
  /\ a.revenue >= b.revenue
  /\ b.notes => a.notes

\* Neighbours near speak for a lead at least as much as neighbours far.
Warmer(near, far) ==
  /\ Cardinality(With(near, Won)) >= Cardinality(With(far, Won))
  /\ Cardinality(With(near, Lost)) <= Cardinality(With(far, Lost))
  /\ \A n \in near \cup far : n.similarity # NaN
  /\ \A t \in far : \E s \in near : t.similarity <= s.similarity
===============================================================================
