------------------------------ MODULE Sizing ------------------------------
(***************************************************************************)
(* The arithmetic of orders: how large the two legs of an open are, the    *)
(* least notional a pair can be traded for, how far a protective limit     *)
(* price may go, and the size of a compensating order.                     *)
(*                                                                         *)
(* The code computes with decimals.  Here every quantity is a number of    *)
(* one unit that divides both exchanges' grids, every price a number of    *)
(* another, and a rate the fraction rate / r.whole; a quotient that the    *)
(* code rounds is the quotient \div rounds, and comparisons of quotients   *)
(* are comparisons of products.  Not modelled: that a decimal quotient is  *)
(* first cut to 28 digits, and that compensation_quantity passes the       *)
(* increment through a float, which gives back any increment of up to 15   *)
(* digits.                                                                 *)
(***************************************************************************)
EXTENDS Integers

---------------------------------------------------------------------------
(* Grids *)

Multiple(value, increment) == value % increment = 0

\* Whole increments in a quantity, rounded down and up.
Floor(value, increment) == value \div increment
Ceiling(value, increment) == (value + increment - 1) \div increment

Larger(a, b) == IF a >= b THEN a ELSE b

CommonDivisors(a, b) == {d \in 1..a : Multiple(a, d) /\ Multiple(b, d)}
Gcd(a, b) ==
    CHOOSE g \in CommonDivisors(a, b) : \A d \in CommonDivisors(a, b) : d <= g
Lcm(a, b) == (a * b) \div Gcd(a, b)

---------------------------------------------------------------------------
(* The rules of a pair and the market it is sized for *)

\* Complete trading rules, positive prices and a fee rate below one; the
\* perpetual's own quantities are contracts of r.contract base units.
Rules ==
    [spotStep : Nat \ {0}, spotMin : Nat, spotMinNotional : Nat,
     spotPrice : Nat \ {0},
     perpStep : Nat \ {0}, perpMin : Nat, perpMinNotional : Nat,
     perpPrice : Nat \ {0}, contract : Nat \ {0},
     fee : Nat, whole : Nat \ {0}]
Sizable(r) == r \in Rules /\ r.fee < r.whole

PerpBaseStep(r) == r.perpStep * r.contract
CommonStep(r) == Lcm(r.spotStep, PerpBaseStep(r))

\* Increments of the perpetual leg without which it is below its minimums.
RequiredPerpSteps(r) ==
    Larger(1, Larger(Ceiling(r.perpMin * r.contract, PerpBaseStep(r)),
                       Ceiling(r.perpMinNotional, r.perpPrice * PerpBaseStep(r))))

\* Common increments of spot that meet spot's minimums and, after the fee,
\* the perpetual's.
MinimumSteps(r) ==
    Larger(Larger(1, Ceiling(r.spotMin, CommonStep(r))),
            Larger(Ceiling(r.spotMinNotional, r.spotPrice * CommonStep(r)),
                    Ceiling(RequiredPerpSteps(r) * PerpBaseStep(r) * r.whole,
                            CommonStep(r) * (r.whole - r.fee))))

MinimumNotional(r) == MinimumSteps(r) * CommonStep(r) * r.spotPrice

---------------------------------------------------------------------------
(* The two legs of an open *)

SpotQuantity(r, requested) ==
    CommonStep(r) * Floor(requested, r.spotPrice * CommonStep(r))

\* What the fee leaves of the spot leg, in whole increments of the other.
BaseQuantity(r, spot) ==
    PerpBaseStep(r) * Floor(spot * (r.whole - r.fee), r.whole * PerpBaseStep(r))

Contracts(r, spot) == BaseQuantity(r, spot) \div r.contract

\* The checks after the notional's own: minimum and alignment of each leg.
Passes(r, spot) ==
    /\ spot > 0
    /\ spot >= r.spotMin /\ Contracts(r, spot) >= r.perpMin
    /\ Multiple(spot, r.spotStep) /\ Multiple(Contracts(r, spot), r.perpStep)
    /\ spot * r.spotPrice >= r.spotMinNotional
    /\ BaseQuantity(r, spot) * r.perpPrice >= r.perpMinNotional

\* size_paired_order returns a size, and does not raise.
Sized(r, requested) ==
    /\ requested > 0 /\ requested >= MinimumNotional(r)
    /\ Passes(r, SpotQuantity(r, requested))

---------------------------------------------------------------------------
(* Prices and compensation *)

\* slippage in parts of whole; a result of zero is an error.
ProtectiveLimit(reference, slippage, whole, side, increment) ==
    increment *
        (IF side = "buy"
         THEN Floor(reference * (whole + slippage), whole * increment)
         ELSE Ceiling(reference * (whole - slippage), whole * increment))

\* Within 1/precision of a whole number of increments, that number (precision
\* is 10^9 in the code); else a purchase is rounded up, a sale down.
CompensationSteps(requested, increment, side, precision) ==
    LET below == Floor(requested, increment)
        above == Ceiling(requested, increment)
    IN  IF precision * (requested - below * increment) <= increment THEN below
        ELSE IF precision * (above * increment - requested) <= increment THEN above
        ELSE IF side = "buy" THEN above ELSE below

\* A result of zero is an error: nothing can be sent.
CompensationQuantity(requested, increment, side, precision) ==
    increment * CompensationSteps(requested, increment, side, precision)
=============================================================================
