----------------------------- MODULE MCSizing -----------------------------
(***************************************************************************)
(* Sizing compared with reference definitions over small inputs.  TLC      *)
(* evaluates these assumptions before the run of a module that extends     *)
(* this one.                                                               *)
(***************************************************************************)
EXTENDS Sizing

\* Grids with and without a common step, whole and fractional contracts, no
\* minimums or several, and no fee or one of a quarter.
SampleRules ==
    [spotStep : {1, 2, 3}, spotMin : {0, 7}, spotMinNotional : {0, 5},
     spotPrice : {1, 3}, perpStep : {1, 2}, perpMin : {0, 3},
     perpMinNotional : {0, 10}, perpPrice : {2}, contract : {1, 2},
     fee : {0, 1}, whole : {4}]
Notionals == 0..60

\* _decimal_lcm is the least common multiple of the two grids.
ASSUME LcmIsLeast ==
    \A a, b \in 1..12 :
        LET common == {m \in 1..(a * b) : Multiple(m, a) /\ Multiple(m, b)}
        IN  Lcm(a, b) \in common /\ \A m \in common : Lcm(a, b) <= m

\* The minimum that minimum_paired_order_notional names is the least notional
\* of whole common steps whose two legs pass every check with a perpetual leg.
ASSUME MinimumIsLeast ==
    \A r \in SampleRules :
        LET step == CommonStep(r)
            tradable == {n \in 1..(MinimumSteps(r) + 1) :
                             Passes(r, n * step) /\ BaseQuantity(r, n * step) > 0}
        IN  MinimumSteps(r) \in tradable /\ \A n \in tradable : MinimumSteps(r) <= n

\* size_paired_order takes the largest spot quantity on the common grid that
\* the notional pays for, and the largest perpetual that its net covers.
ASSUME SizeIsLargest ==
    \A r \in SampleRules, requested \in Notionals :
        Sized(r, requested) =>
            LET spot == SpotQuantity(r, requested)
            IN  /\ \A q \in 1..requested :
                       Multiple(q, CommonStep(r)) /\ q * r.spotPrice <= requested
                           => q <= spot
                /\ \A q \in 1..spot :
                       Multiple(q, PerpBaseStep(r))
                         /\ q * r.whole <= spot * (r.whole - r.fee)
                           => q <= BaseQuantity(r, spot)

\* A protective limit is the last price on the grid within the slippage.
ASSUME LimitIsLast ==
    \A reference \in 1..20, slippage \in 0..4, increment \in 1..4 :
        LET limit(side) == ProtectiveLimit(reference, slippage, 5, side, increment)
            grid == {p \in 0..40 : Multiple(p, increment)}
        IN  /\ limit("buy") \in grid /\ limit("sell") \in grid
            /\ \A p \in grid :
                   /\ p <= limit("buy") <=> 5 * p <= reference * (5 + slippage)
                   /\ p >= limit("sell") <=> 5 * p >= reference * (5 - slippage)

\* A compensating order is the nearest size on the grid that its side allows,
\* or one within a tenth of an increment of what is asked.
ASSUME CompensationIsNearest ==
    \A requested \in 1..40, increment \in {1, 2, 5, 20} :
        LET size(side) == CompensationQuantity(requested, increment, side, 10)
            grid == {q \in 0..60 : Multiple(q, increment)}
            close == {q \in grid : /\ 10 * (q - requested) <= increment
                                   /\ 10 * (requested - q) <= increment}
            allowed(side) == {q \in grid : IF side = "buy" THEN q >= requested
                                           ELSE q <= requested}
        IN  \A side \in {"buy", "sell"} :
                IF close # {} THEN size(side) \in close
                ELSE /\ size(side) \in allowed(side)
                     /\ \A q \in allowed(side) :
                            IF side = "buy" THEN size(side) <= q ELSE q <= size(side)

\* Rules under which an open of 110 for 3 a unit has 36 of spot and, after a
\* fee of 1/20, 32 of the perpetual in 16 contracts of 2.
Listed ==
    [spotStep |-> 3, spotMin |-> 5, spotMinNotional |-> 10, spotPrice |-> 3,
     perpStep |-> 2, perpMin |-> 2, perpMinNotional |-> 10, perpPrice |-> 3,
     contract |-> 2, fee |-> 1, whole |-> 20]
ASSUME ListedIsSized ==
    Sized(Listed, 110) /\ SpotQuantity(Listed, 110) = 36
    /\ Contracts(Listed, 36) = 16
SizedQuantity == BaseQuantity(Listed, SpotQuantity(Listed, 110))
=============================================================================
