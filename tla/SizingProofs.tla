--------------------------- MODULE SizingProofs ---------------------------
(***************************************************************************)
(* What the arithmetic of Sizing guarantees for all rules and all amounts. *)
(***************************************************************************)
EXTENDS Sizing, TLAPS, WellFoundedInduction

---------------------------------------------------------------------------
(* Rounding *)

\* ROUND_FLOOR: the last whole number of increments that is not above.
LEMMA FloorBounds ==
    ASSUME NEW a \in Nat, NEW b \in Nat \ {0}
    PROVE  /\ Floor(a, b) \in Nat
           /\ b * Floor(a, b) <= a /\ a < b * Floor(a, b) + b
BY DEF Floor

\* ROUND_CEILING: the first whole number of increments that is not below.
LEMMA CeilingBounds ==
    ASSUME NEW a \in Nat, NEW b \in Nat \ {0}
    PROVE  /\ Ceiling(a, b) \in Nat
           /\ a <= b * Ceiling(a, b) /\ b * Ceiling(a, b) < a + b
<1> DEFINE c == a + b - 1
<1>1. c \in Nat
  OBVIOUS
<1>2. c \div b \in Nat /\ b * (c \div b) <= c /\ c < b * (c \div b) + b
  BY <1>1
<1>3. b * (c \div b) \in Nat
  BY <1>2
<1> QED BY <1>2, <1>3 DEF Ceiling

\* A product of an increment and a number of increments lies on its grid.
LEMMA ProductOnGrid ==
    ASSUME NEW b \in Nat \ {0}, NEW n \in Nat
    PROVE  Multiple(b * n, b) /\ (b * n) \div b = n
BY DEF Multiple

\* A positive amount on a grid is a product of its increment.
LEMMA OnGridIsProduct ==
    ASSUME NEW a \in Nat \ {0}, NEW b \in Nat \ {0}, Multiple(a, b)
    PROVE  a \div b \in Nat /\ a = b * (a \div b)
BY DEF Multiple

\* An order of quotients is an order of their numerators.
LEMMA FewerIncrements ==
    ASSUME NEW b \in Nat \ {0}, NEW x \in Nat, NEW y \in Nat, b * x < b * y + b
    PROVE  x <= y
OBVIOUS

\* A number of increments reaches an amount just when its rounded up quotient
\* is not more.
LEMMA CeilingReached ==
    ASSUME NEW a \in Nat, NEW b \in Nat \ {0}, NEW n \in Nat
    PROVE  Ceiling(a, b) <= n <=> a <= b * n
<1> DEFINE c == Ceiling(a, b)
<1>1. c \in Nat /\ a <= b * c /\ b * c < a + b
  BY CeilingBounds
<1>2. ASSUME c <= n PROVE a <= b * n
  <2>1. b * c <= b * n
    BY <1>1, <1>2
  <2>2. b * c \in Nat /\ b * n \in Nat
    BY <1>1
  <2> QED BY <1>1, <2>1, <2>2
<1>3. ASSUME a <= b * n PROVE c <= n
  <2>1. b * c \in Nat /\ b * n \in Nat
    BY <1>1
  <2>2. b * c < b * n + b
    BY <1>1, <1>3, <2>1
  <2> QED BY <1>1, <2>2, FewerIncrements
<1> QED BY <1>2, <1>3

\* An amount holds a number of increments just when its rounded down quotient
\* is not less.
LEMMA FloorReached ==
    ASSUME NEW a \in Nat, NEW b \in Nat \ {0}, NEW n \in Nat
    PROVE  n <= Floor(a, b) <=> b * n <= a
<1> DEFINE f == Floor(a, b)
<1>1. f \in Nat /\ b * f <= a /\ a < b * f + b
  BY FloorBounds
<1>2. b * f \in Nat /\ b * n \in Nat
  BY <1>1
<1>3. ASSUME n <= f PROVE b * n <= a
  <2>1. b * n <= b * f
    BY <1>1, <1>3
  <2> QED BY <1>1, <1>2, <2>1
<1>4. ASSUME b * n <= a PROVE n <= f
  <2>1. b * n < b * f + b
    BY <1>1, <1>2, <1>4
  <2> QED BY <1>1, <2>1, FewerIncrements
<1> QED BY <1>3, <1>4

---------------------------------------------------------------------------
(* The common increment *)

\* Two positive increments have a greatest common divisor.
LEMMA GcdDivides ==
    ASSUME NEW a \in Nat \ {0}, NEW b \in Nat \ {0}
    PROVE  Gcd(a, b) \in CommonDivisors(a, b)
<1> DEFINE D == CommonDivisors(a, b)
           below == {n \in Nat : \E d \in D : n = a - d}
<1>1. 1 \in D /\ \A d \in D : d \in 1..a
  BY DEF CommonDivisors, Multiple
<1>2. a - 1 \in below
  BY <1>1
<1>3. PICK n \in below : \A m \in below : ~ (<<m, n>> \in OpToRel(<, Nat))
  <2>1. below \subseteq Nat /\ below # {}
    BY <1>2
  <2> HIDE DEF below
  <2> QED BY <2>1, NatLessThanWellFounded, WFMin
<1>4. PICK g \in D : n = a - g
  OBVIOUS
<1>5. \A d \in D : d <= g
  <2> SUFFICES ASSUME NEW d \in D PROVE d <= g
    OBVIOUS
  <2>1. a - d \in below
    BY <1>1
  <2>2. ~ (a - d < n)
    BY <1>3, <2>1 DEF OpToRel
  <2> QED BY <1>1, <1>4, <2>2
<1> QED BY <1>4, <1>5 DEF Gcd

\* The common increment is positive and lies on both grids.
LEMMA LcmOnBothGrids ==
    ASSUME NEW a \in Nat \ {0}, NEW b \in Nat \ {0}
    PROVE  /\ Lcm(a, b) \in Nat \ {0}
           /\ Multiple(Lcm(a, b), a) /\ Multiple(Lcm(a, b), b)
<1> DEFINE g == Gcd(a, b)
<1>1. g \in Nat \ {0} /\ a % g = 0 /\ b % g = 0
  BY GcdDivides DEF CommonDivisors, Multiple
<1> HIDE DEF g
<1>2. PICK x \in Nat \ {0} : a = g * x
  <2>1. a = g * (a \div g) /\ a \div g \in Nat
    BY <1>1
  <2>2. a \div g # 0
    BY <1>1, <2>1
  <2> QED BY <2>1, <2>2
<1>3. PICK y \in Nat \ {0} : b = g * y
  <2>1. b = g * (b \div g) /\ b \div g \in Nat
    BY <1>1
  <2>2. b \div g # 0
    BY <1>1, <2>1
  <2> QED BY <2>1, <2>2
<1>4. a * b = g * (a * y) /\ a * y = b * x
  BY <1>1, <1>2, <1>3
<1>5. a * y \in Nat \ {0}
  BY <1>3
<1>6. (a * b) \div g = a * y
  BY <1>1, <1>4, <1>5, ProductOnGrid
<1>7. Multiple(a * y, a) /\ Multiple(b * x, b)
  BY <1>2, <1>3, ProductOnGrid
<1> QED BY <1>4, <1>5, <1>6, <1>7 DEF Lcm, g

---------------------------------------------------------------------------
(* The two legs of an open *)

\* The perpetual's increment and the common one are positive, and the common
\* one lies on both grids.
LEMMA StepFacts ==
    ASSUME NEW r, Sizable(r)
    PROVE  /\ PerpBaseStep(r) \in Nat \ {0} /\ CommonStep(r) \in Nat \ {0}
           /\ Multiple(CommonStep(r), r.spotStep)
           /\ r.whole - r.fee \in Nat \ {0}
<1>1. r.perpStep \in Nat \ {0} /\ r.contract \in Nat \ {0}
      /\ r.spotStep \in Nat \ {0} /\ r.whole \in Nat \ {0} /\ r.fee \in Nat
      /\ r.fee < r.whole
  BY DEF Sizable, Rules
<1>2. PerpBaseStep(r) \in Nat \ {0}
  BY <1>1 DEF PerpBaseStep
<1> QED BY <1>1, <1>2, LcmOnBothGrids DEF CommonStep

\* The perpetual leg in whole increments.
LEMMA PerpetualLeg ==
    ASSUME NEW r, Sizable(r), NEW spot \in Nat
    PROVE  \E k \in Nat :
               /\ k = Floor(spot * (r.whole - r.fee), r.whole * PerpBaseStep(r))
               /\ BaseQuantity(r, spot) = PerpBaseStep(r) * k
               /\ Contracts(r, spot) = r.perpStep * k
<1> DEFINE k == Floor(spot * (r.whole - r.fee), r.whole * PerpBaseStep(r))
<1>1. r.perpStep \in Nat \ {0} /\ r.contract \in Nat \ {0} /\ r.whole \in Nat \ {0}
  BY DEF Sizable, Rules
<1>2. spot * (r.whole - r.fee) \in Nat /\ r.whole * PerpBaseStep(r) \in Nat \ {0}
  BY <1>1, StepFacts
<1>3. k \in Nat
  BY <1>2, FloorBounds
<1> HIDE DEF k
<1>4. PerpBaseStep(r) * k = r.contract * (r.perpStep * k)
  BY <1>1, <1>3 DEF PerpBaseStep
<1>5. r.perpStep * k \in Nat
  BY <1>1, <1>3
<1>6. (r.contract * (r.perpStep * k)) \div r.contract = r.perpStep * k
  BY <1>1, <1>5, ProductOnGrid
<1>7. BaseQuantity(r, spot) = PerpBaseStep(r) * k
  BY DEF BaseQuantity, k
<1> QED BY <1>3, <1>4, <1>6, <1>7 DEF Contracts, k

\* Both legs of an open lie on their exchange's grid, the spot leg costs no
\* more than was asked for and less than a common increment short of it, and
\* the perpetual leg is never larger than the spot the fee leaves, nor a whole
\* increment smaller (size_paired_order).
THEOREM LegsMatch ==
    ASSUME NEW r, Sizable(r), NEW requested \in Nat
    PROVE  LET spot == SpotQuantity(r, requested)
               base == BaseQuantity(r, spot)
           IN  /\ Multiple(spot, CommonStep(r)) /\ Multiple(Contracts(r, spot), r.perpStep)
               /\ spot * r.spotPrice <= requested
               /\ requested < (spot + CommonStep(r)) * r.spotPrice
               /\ base * r.whole <= spot * (r.whole - r.fee)
               /\ spot * (r.whole - r.fee) < (base + PerpBaseStep(r)) * r.whole
<1> DEFINE C == CommonStep(r)
           B == PerpBaseStep(r)
           n == Floor(requested, r.spotPrice * C)
           spot == SpotQuantity(r, requested)
           net == spot * (r.whole - r.fee)
<1>1. r.spotPrice \in Nat \ {0} /\ r.whole \in Nat \ {0} /\ r.perpStep \in Nat \ {0}
  BY DEF Sizable, Rules
<1>2. C \in Nat \ {0} /\ B \in Nat \ {0} /\ r.whole - r.fee \in Nat \ {0}
  BY StepFacts
<1>3. r.spotPrice * C \in Nat \ {0} /\ r.whole * B \in Nat \ {0}
  BY <1>1, <1>2
<1> HIDE DEF C, B
<1>4. n \in Nat /\ (r.spotPrice * C) * n <= requested
      /\ requested < (r.spotPrice * C) * n + r.spotPrice * C
  BY <1>3, FloorBounds
<1>5. spot = C * n
  BY DEF SpotQuantity, C
<1> HIDE DEF n
<1>6. spot \in Nat
  BY <1>2, <1>4, <1>5
<1>7. Multiple(spot, C)
  BY <1>2, <1>4, <1>5, ProductOnGrid
<1>8. spot * r.spotPrice <= requested /\ requested < (spot + C) * r.spotPrice
  <2>1. (r.spotPrice * C) * n = spot * r.spotPrice
    BY <1>1, <1>2, <1>4, <1>5
  <2>2. (r.spotPrice * C) * n + r.spotPrice * C = (spot + C) * r.spotPrice
    BY <1>1, <1>2, <1>4, <1>5
  <2> QED BY <1>4, <2>1, <2>2
<1> HIDE DEF spot
<1>9. net \in Nat
  BY <1>2, <1>6
<1>10. PICK k \in Nat : /\ k = Floor(net, r.whole * B)
                        /\ BaseQuantity(r, spot) = B * k
                        /\ Contracts(r, spot) = r.perpStep * k
  BY <1>6, PerpetualLeg DEF B
<1>11. (r.whole * B) * k <= net /\ net < (r.whole * B) * k + r.whole * B
  BY <1>3, <1>9, <1>10, FloorBounds
<1>12. /\ (r.whole * B) * k = BaseQuantity(r, spot) * r.whole
       /\ (r.whole * B) * k + r.whole * B = (BaseQuantity(r, spot) + B) * r.whole
  BY <1>1, <1>2, <1>10
<1>13. Multiple(Contracts(r, spot), r.perpStep)
  BY <1>1, <1>10, ProductOnGrid
<1> QED BY <1>7, <1>8, <1>11, <1>12, <1>13 DEF spot, C, B

---------------------------------------------------------------------------
(* The minimum notional *)

\* What holds of two numbers holds of the larger.
LEMMA LargerReached ==
    ASSUME NEW a \in Nat, NEW b \in Nat, NEW n \in Nat
    PROVE  Larger(a, b) \in Nat /\ (Larger(a, b) <= n <=> a <= n /\ b <= n)
BY DEF Larger

\* The increments the perpetual needs are those that meet its minimums.
LEMMA PerpetualReached ==
    ASSUME NEW r, Sizable(r), NEW k \in Nat
    PROVE  /\ RequiredPerpSteps(r) \in Nat
           /\ RequiredPerpSteps(r) <= k <=>
                  /\ 1 <= k /\ r.perpMin <= r.perpStep * k
                  /\ r.perpMinNotional <= (PerpBaseStep(r) * k) * r.perpPrice
<1> DEFINE B == PerpBaseStep(r)
           byQuantity == Ceiling(r.perpMin * r.contract, B)
           byNotional == Ceiling(r.perpMinNotional, r.perpPrice * B)
           byBoth == Larger(byQuantity, byNotional)
<1>1. /\ r.perpStep \in Nat \ {0} /\ r.contract \in Nat \ {0} /\ r.perpMin \in Nat
      /\ r.perpMinNotional \in Nat /\ r.perpPrice \in Nat \ {0}
  BY DEF Sizable, Rules
<1>2. B \in Nat \ {0} /\ B = r.perpStep * r.contract
  BY StepFacts DEF PerpBaseStep
<1> HIDE DEF B
<1>3. r.perpMin * r.contract \in Nat /\ r.perpPrice * B \in Nat \ {0}
  BY <1>1, <1>2
<1>4. byQuantity \in Nat /\ byNotional \in Nat
  BY <1>1, <1>2, <1>3, CeilingBounds
<1>5. byQuantity <= k <=> r.perpMin <= r.perpStep * k
  <2>1. byQuantity <= k <=> r.perpMin * r.contract <= B * k
    BY <1>2, <1>3, CeilingReached
  <2>2. B * k = (r.perpStep * k) * r.contract /\ r.perpStep * k \in Nat
    BY <1>1, <1>2
  <2>3. ASSUME NEW x \in Nat, NEW y \in Nat, NEW c \in Nat \ {0}
        PROVE  x * c <= y * c <=> x <= y
    OBVIOUS
  <2> QED BY <1>1, <2>1, <2>2, <2>3
<1>6. byNotional <= k <=> r.perpMinNotional <= (B * k) * r.perpPrice
  <2>1. byNotional <= k <=> r.perpMinNotional <= (r.perpPrice * B) * k
    BY <1>1, <1>3, CeilingReached
  <2>2. (r.perpPrice * B) * k = (B * k) * r.perpPrice
    BY <1>1, <1>2
  <2> QED BY <2>1, <2>2
<1>7. RequiredPerpSteps(r) = Larger(1, byBoth)
  BY DEF RequiredPerpSteps, B
<1> HIDE DEF byQuantity, byNotional
<1>8. byBoth \in Nat /\ (byBoth <= k <=> byQuantity <= k /\ byNotional <= k)
  BY <1>4, LargerReached
<1> HIDE DEF byBoth
<1>9. /\ RequiredPerpSteps(r) \in Nat
      /\ RequiredPerpSteps(r) <= k <=> 1 <= k /\ byBoth <= k
  <2>1. RequiredPerpSteps(r) = IF 1 >= byBoth THEN 1 ELSE byBoth
    BY <1>7 DEF Larger
  <2> QED BY <1>8, <2>1
<1> QED BY <1>5, <1>6, <1>8, <1>9 DEF B

\* The minimum is of so many common steps as meet each of its four parts.
LEMMA MinimumReached ==
    ASSUME NEW r, Sizable(r), NEW n \in Nat
    PROVE  /\ MinimumSteps(r) \in Nat
           /\ MinimumSteps(r) <= n <=>
                  /\ 1 <= n /\ r.spotMin <= CommonStep(r) * n
                  /\ r.spotMinNotional <= (r.spotPrice * CommonStep(r)) * n
                  /\ RequiredPerpSteps(r) * PerpBaseStep(r) * r.whole
                         <= (CommonStep(r) * (r.whole - r.fee)) * n
<1> DEFINE C == CommonStep(r)
           netPer == C * (r.whole - r.fee)
           perp == RequiredPerpSteps(r) * PerpBaseStep(r) * r.whole
           byQuantity == Ceiling(r.spotMin, C)
           byNotional == Ceiling(r.spotMinNotional, r.spotPrice * C)
           byPerp == Ceiling(perp, netPer)
           bySpot == Larger(1, byQuantity)
           byBoth == Larger(byNotional, byPerp)
<1>1. r.spotMin \in Nat /\ r.spotMinNotional \in Nat /\ r.spotPrice \in Nat \ {0}
      /\ r.whole \in Nat \ {0}
  BY DEF Sizable, Rules
<1>2. C \in Nat \ {0} /\ PerpBaseStep(r) \in Nat \ {0} /\ r.whole - r.fee \in Nat \ {0}
  BY StepFacts
<1>3. RequiredPerpSteps(r) \in Nat
  BY PerpetualReached
<1>4. r.spotPrice * C \in Nat \ {0} /\ netPer \in Nat \ {0}
  BY <1>1, <1>2
<1>5. perp \in Nat
  <2>1. RequiredPerpSteps(r) * PerpBaseStep(r) \in Nat
    BY <1>2, <1>3
  <2> QED BY <1>1, <2>1
<1>6. MinimumSteps(r) = Larger(bySpot, byBoth)
  BY DEF MinimumSteps
<1> HIDE DEF C, netPer, perp
<1>7. /\ byQuantity \in Nat /\ (byQuantity <= n <=> r.spotMin <= C * n)
      /\ byNotional \in Nat
      /\ (byNotional <= n <=> r.spotMinNotional <= (r.spotPrice * C) * n)
      /\ byPerp \in Nat /\ (byPerp <= n <=> perp <= netPer * n)
  BY <1>1, <1>2, <1>4, <1>5, CeilingBounds, CeilingReached
<1> HIDE DEF byQuantity, byNotional, byPerp
<1>8. /\ bySpot \in Nat /\ (bySpot <= n <=> 1 <= n /\ byQuantity <= n)
      /\ byBoth \in Nat /\ (byBoth <= n <=> byNotional <= n /\ byPerp <= n)
  BY <1>7, LargerReached
<1> HIDE DEF bySpot, byBoth
<1>9. /\ MinimumSteps(r) \in Nat
      /\ MinimumSteps(r) <= n <=> bySpot <= n /\ byBoth <= n
  <2>1. MinimumSteps(r) = IF bySpot >= byBoth THEN bySpot ELSE byBoth
    BY <1>6 DEF Larger
  <2> QED BY <1>8, <2>1
<1> QED BY <1>7, <1>8, <1>9 DEF C, netPer, perp

\* A request is at least the named minimum just when the legs it would be
\* sized to pass every check and the perpetual leg is not empty: the minimum
\* is neither too low nor too high, and behind it no check refuses anything
\* (minimum_paired_order_notional, size_paired_order).
THEOREM MinimumIsExact ==
    ASSUME NEW r, Sizable(r), NEW requested \in Nat \ {0}
    PROVE  LET spot == SpotQuantity(r, requested)
           IN  requested >= MinimumNotional(r)
                   <=> Passes(r, spot) /\ BaseQuantity(r, spot) > 0
<1> DEFINE C == CommonStep(r)
           B == PerpBaseStep(r)
           keep == r.whole - r.fee
           n == Floor(requested, r.spotPrice * C)
           spot == SpotQuantity(r, requested)
           base == BaseQuantity(r, spot)
           perp == Contracts(r, spot)
           least == RequiredPerpSteps(r)
<1>1. /\ r.spotMin \in Nat /\ r.spotMinNotional \in Nat /\ r.spotPrice \in Nat \ {0}
      /\ r.whole \in Nat \ {0} /\ r.perpStep \in Nat \ {0} /\ r.spotStep \in Nat \ {0}
      /\ r.perpMin \in Nat /\ r.perpMinNotional \in Nat /\ r.perpPrice \in Nat \ {0}
  BY DEF Sizable, Rules
<1>2. C \in Nat \ {0} /\ B \in Nat \ {0} /\ keep \in Nat \ {0} /\ Multiple(C, r.spotStep)
  BY StepFacts
<1>3. r.spotPrice * C \in Nat \ {0} /\ r.whole * B \in Nat \ {0}
  BY <1>1, <1>2
<1>4. n \in Nat
  BY <1>3, FloorBounds
<1>5. spot = C * n /\ spot \in Nat
  BY <1>2, <1>4 DEF SpotQuantity
<1>6. spot * keep \in Nat
  BY <1>2, <1>5
<1>7. PICK k \in Nat : k = Floor(spot * keep, r.whole * B) /\ base = B * k
                       /\ perp = r.perpStep * k
  BY <1>5, PerpetualLeg
<1>8. MinimumSteps(r) \in Nat /\ least \in Nat
  BY MinimumReached, PerpetualReached, <1>4, <1>7

<1>9. requested >= MinimumNotional(r) <=> MinimumSteps(r) <= n
  <2>1. MinimumNotional(r) = (r.spotPrice * C) * MinimumSteps(r)
    BY <1>1, <1>2, <1>8 DEF MinimumNotional
  <2>2. (r.spotPrice * C) * MinimumSteps(r) \in Nat
    BY <1>3, <1>8
  <2>3. MinimumSteps(r) <= n <=> (r.spotPrice * C) * MinimumSteps(r) <= requested
    BY <1>3, <1>8, FloorReached
  <2> QED BY <2>1, <2>2, <2>3
<1>10. MinimumSteps(r) <= n <=> /\ 1 <= n /\ r.spotMin <= C * n
                                /\ r.spotMinNotional <= (r.spotPrice * C) * n
                                /\ least * B * r.whole <= (C * keep) * n
  BY <1>4, MinimumReached
<1>11. least * B * r.whole <= (C * keep) * n
           <=> /\ 1 <= k /\ r.perpMin <= r.perpStep * k
               /\ r.perpMinNotional <= (B * k) * r.perpPrice
  <2> HIDE DEF C, B, keep, n, spot, least
  <2>1. (C * keep) * n = spot * keep
    BY <1>2, <1>4, <1>5
  <2>2. least * B * r.whole = (r.whole * B) * least
    BY <1>1, <1>2, <1>8
  <2>3. least <= k <=> (r.whole * B) * least <= spot * keep
    BY <1>3, <1>6, <1>7, <1>8, FloorReached
  <2>4. least <= k <=> /\ 1 <= k /\ r.perpMin <= r.perpStep * k
                       /\ r.perpMinNotional <= (B * k) * r.perpPrice
    BY PerpetualReached DEF least, B
  <2> QED BY <2>1, <2>2, <2>3, <2>4
<1>12. Multiple(spot, r.spotStep) /\ Multiple(perp, r.perpStep)
  <2> DEFINE m == C \div r.spotStep
  <2>1. C = r.spotStep * m /\ m \in Nat
    BY <1>1, <1>2, OnGridIsProduct
  <2> HIDE DEF m
  <2>2. spot = r.spotStep * (m * n) /\ m * n \in Nat
    BY <1>1, <1>4, <1>5, <2>1
  <2> HIDE DEF spot, perp
  <2> QED BY <1>1, <1>7, <2>2, ProductOnGrid
<1>13. Passes(r, spot) /\ base > 0
           <=> /\ spot > 0 /\ spot >= r.spotMin /\ perp >= r.perpMin
               /\ spot * r.spotPrice >= r.spotMinNotional
               /\ base * r.perpPrice >= r.perpMinNotional /\ base > 0
  BY <1>12 DEF Passes
<1> HIDE DEF C, B, keep, n, spot, base, perp, least
<1>14. (spot > 0 <=> 1 <= n) /\ (base > 0 <=> 1 <= k)
  BY <1>2, <1>4, <1>5, <1>7
<1>15. spot * r.spotPrice = (r.spotPrice * C) * n
  BY <1>1, <1>2, <1>4, <1>5
<1>16. spot \in Nat /\ perp \in Nat /\ (r.spotPrice * C) * n \in Nat
       /\ (B * k) * r.perpPrice \in Nat
  BY <1>1, <1>2, <1>3, <1>4, <1>5, <1>7
<1>17. /\ spot >= r.spotMin <=> r.spotMin <= C * n
       /\ perp >= r.perpMin <=> r.perpMin <= r.perpStep * k
       /\ spot * r.spotPrice >= r.spotMinNotional
              <=> r.spotMinNotional <= (r.spotPrice * C) * n
       /\ base * r.perpPrice >= r.perpMinNotional
              <=> r.perpMinNotional <= (B * k) * r.perpPrice
  BY <1>1, <1>5, <1>7, <1>15, <1>16
<1> QED BY <1>9, <1>10, <1>11, <1>13, <1>14, <1>17 DEF spot, base

---------------------------------------------------------------------------
(* Prices and compensation *)

\* A protective limit lies on the price grid and no further from the reference
\* than the slippage allows, and the next price on the grid would be further
\* (protective_limit_price).
THEOREM LimitWithinSlippage ==
    ASSUME NEW reference \in Nat \ {0}, NEW whole \in Nat \ {0},
           NEW slippage \in Nat, slippage < whole, NEW increment \in Nat \ {0}
    PROVE  LET limit(side) ==
                   ProtectiveLimit(reference, slippage, whole, side, increment)
           IN  /\ Multiple(limit("buy"), increment) /\ Multiple(limit("sell"), increment)
               /\ limit("buy") * whole <= reference * (whole + slippage)
               /\ reference * (whole + slippage) < (limit("buy") + increment) * whole
               /\ limit("sell") * whole >= reference * (whole - slippage)
               /\ reference * (whole - slippage) > (limit("sell") - increment) * whole
<1> DEFINE step == whole * increment
           high == reference * (whole + slippage)
           low == reference * (whole - slippage)
           f == Floor(high, step)
           c == Ceiling(low, step)
           buy == ProtectiveLimit(reference, slippage, whole, "buy", increment)
           sell == ProtectiveLimit(reference, slippage, whole, "sell", increment)
<1>1. step \in Nat \ {0} /\ high \in Nat
  OBVIOUS
<1>2. low \in Nat
  <2>1. whole - slippage \in Nat
    OBVIOUS
  <2> QED BY <2>1
<1>3. buy = increment * f /\ sell = increment * c
  BY DEF ProtectiveLimit
<1> HIDE DEF high, low, buy, sell
<1>4. f \in Nat /\ step * f <= high /\ high < step * f + step
  BY <1>1, FloorBounds
<1>5. c \in Nat /\ low <= step * c /\ step * c < low + step
  BY <1>1, <1>2, CeilingBounds
<1> HIDE DEF f, c
<1>6. /\ step * f = buy * whole /\ step * f + step = (buy + increment) * whole
      /\ step * c = sell * whole /\ step * c - step = (sell - increment) * whole
  BY <1>3, <1>4, <1>5
<1>7. step * c \in Nat
  BY <1>1, <1>5
<1> HIDE DEF step
<1>8. step * c - step < low
  BY <1>1, <1>2, <1>5, <1>7
<1>9. Multiple(buy, increment) /\ Multiple(sell, increment)
  BY <1>3, <1>4, <1>5, ProductOnGrid
<1> QED BY <1>4, <1>5, <1>6, <1>8, <1>9 DEF buy, sell, high, low

\* A compensating purchase falls short by no more than the tolerance, and goes
\* less than an increment too far; a sale the other way round.
LEMMA CompensationBounds ==
    ASSUME NEW requested \in Nat \ {0}, NEW increment \in Nat \ {0},
           NEW precision \in Nat \ {0}
    PROVE  LET q(side) == CompensationQuantity(requested, increment, side, precision)
           IN  /\ \A side \in {"buy", "sell"} : q(side) \in Nat
               /\ q("buy") < requested + increment
               /\ precision * (requested - q("buy")) <= increment
               /\ q("sell") > requested - increment
               /\ precision * (q("sell") - requested) <= increment
<1> DEFINE below == Floor(requested, increment)
           above == Ceiling(requested, increment)
           q(side) == CompensationQuantity(requested, increment, side, precision)
           down == increment * below
           up == increment * above
<1>1. below \in Nat /\ down <= requested /\ requested < down + increment
  BY FloorBounds
<1>2. above \in Nat /\ requested <= up /\ up < requested + increment
  BY CeilingBounds
<1> HIDE DEF below, above
<1>3. down \in Nat /\ up \in Nat
  BY <1>1, <1>2
<1>4. below * increment = down /\ above * increment = up
  BY <1>1, <1>2
<1>5. \A side : q(side) =
          IF precision * (requested - down) <= increment THEN down
          ELSE IF precision * (up - requested) <= increment THEN up
          ELSE IF side = "buy" THEN up ELSE down
  BY <1>4 DEF CompensationQuantity, CompensationSteps, below, above
<1> HIDE DEF down, up, q
<1>6. precision * (requested - up) <= increment
  <2>1. requested - up \in Int /\ requested - up <= 0
    BY <1>2, <1>3
  <2>2. precision * (requested - up) <= 0
    BY <2>1
  <2> QED BY <2>1, <2>2
<1>7. precision * (down - requested) <= increment
  <2>1. down - requested \in Int /\ down - requested <= 0
    BY <1>1, <1>3
  <2>2. precision * (down - requested) <= 0
    BY <2>1
  <2> QED BY <2>1, <2>2
<1>8. /\ down < requested + increment /\ up > requested - increment
  BY <1>1, <1>2, <1>3
<1>9. q("buy") \in {down, up} /\ q("sell") \in {down, up}
  BY <1>5
<1>10. q("buy") = down => precision * (requested - down) <= increment
  <2> SUFFICES ASSUME q("buy") = down, ~ (precision * (requested - down) <= increment)
               PROVE  FALSE
    OBVIOUS
  <2>1. up = down
    BY <1>5
  <2> QED BY <1>6, <2>1
<1>11. q("sell") = up => precision * (up - requested) <= increment
  <2> SUFFICES ASSUME q("sell") = up, ~ (precision * (up - requested) <= increment)
               PROVE  FALSE
    OBVIOUS
  <2>1. up = down
    BY <1>5
  <2> QED BY <1>7, <2>1
<1> QED BY <1>1, <1>2, <1>3, <1>6, <1>7, <1>8, <1>9, <1>10, <1>11 DEF q

\* A purchase on either leg raises spot held over perpetual owed, a sale lowers
\* it: whichever way it was off, one compensating order leaves less than an
\* increment of it, on the spot side, or a perpetual excess no larger than the
\* tolerance; where every amount is a multiple of increment / precision or
\* more, no perpetual excess at all (compensation_quantity).
THEOREM OnlySpotDustRemains ==
    ASSUME NEW excess \in Int, excess # 0, NEW increment \in Nat \ {0},
           NEW precision \in Nat \ {0}
    PROVE  LET after == IF excess > 0
                        THEN excess - CompensationQuantity(excess, increment, "sell", precision)
                        ELSE excess + CompensationQuantity(-excess, increment, "buy", precision)
           IN  /\ after < increment
               /\ -increment <= precision * after
               /\ precision > increment => after >= 0
<1> DEFINE sold == CompensationQuantity(excess, increment, "sell", precision)
           bought == CompensationQuantity(-excess, increment, "buy", precision)
           after == IF excess > 0 THEN excess - sold ELSE excess + bought
<1>1. after \in Int /\ after < increment /\ -increment <= precision * after
  <2>1. CASE excess > 0
    <3>1. /\ sold \in Nat /\ sold > excess - increment
          /\ precision * (sold - excess) <= increment
      BY <2>1, CompensationBounds
    <3> HIDE DEF sold
    <3>2. precision * (sold - excess) = -(precision * after)
      BY <2>1, <3>1
    <3>3. precision * after \in Int /\ after \in Int
      BY <2>1, <3>1
    <3> QED BY <2>1, <3>1, <3>2, <3>3
  <2>2. CASE excess < 0
    <3>1. -excess \in Nat \ {0}
      BY <2>2
    <3>2. /\ bought \in Nat /\ bought < -excess + increment
          /\ precision * (-excess - bought) <= increment
      BY <3>1, CompensationBounds
    <3> HIDE DEF bought
    <3>3. precision * (-excess - bought) = -(precision * after)
      BY <2>2, <3>2
    <3>4. precision * after \in Int /\ after \in Int
      BY <2>2, <3>2
    <3> QED BY <2>2, <3>2, <3>3, <3>4
  <2> QED BY <2>1, <2>2
<1> HIDE DEF after
<1>2. ASSUME precision > increment PROVE after >= 0
  <2> SUFFICES ASSUME after <= -1 PROVE FALSE
    BY <1>1
  <2>1. precision * after <= -precision
    BY <1>1
  <2> QED BY <1>1, <1>2, <2>1
<1> QED BY <1>1, <1>2 DEF after
=============================================================================
