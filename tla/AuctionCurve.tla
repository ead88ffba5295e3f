----------------------------- MODULE AuctionCurve ------------------------------
(***************************************************************************)
(* The price curve that the pool's auctions share (pool/src/auctions/       *)
(* math.rs).  A lot grows for the first Ramp ledgers, then the bid shrinks  *)
(* for as many.  Modifiers count in 1/Ramp: the code's step of 0.005 times  *)
(* 200 ledgers is exactly one, so nothing is rounded here.  A fill selects  *)
(* a part of the auction, in 1/Whole, before the modifier applies.          *)
(***************************************************************************)
EXTENDS Integers

CONSTANTS
  Ramp,    \* 200 ledgers in the code
  Whole    \* 100 percent in the code

ASSUME CurveAssumption == Ramp \in Nat \ {0} /\ Whole \in Nat \ {0}

Percents == 1..Whole

------------------------------------------------------------------------------
DivDown(value, numerator, denominator) == (value * numerator) \div denominator

\* Changed: rounds an exact quotient up as well.
DivOver(value, numerator, denominator) ==
  (value * numerator + denominator) \div denominator

DivUp(value, numerator, denominator) ==
  (value * numerator + denominator - 1) \div denominator

------------------------------------------------------------------------------
(* auction_modifiers *)

LotModifier(elapsed) == IF elapsed <= Ramp THEN elapsed ELSE Ramp

BidModifier(elapsed) ==
  CASE elapsed <= Ramp    -> Ramp
    [] elapsed > 2 * Ramp -> 0
    [] OTHER              -> 2 * Ramp - elapsed

------------------------------------------------------------------------------
\* What a fill of pct takes of a bid: selected in full, paid at the modifier.
\* Both round against the filler.
ScaleBid(amount, pct, elapsed) ==
  LET base == DivUp(amount, pct, Whole)
  IN [base |-> base, actual |-> DivUp(base, BidModifier(elapsed), Ramp),
      remaining |-> amount - base]

\* Changed: the selected part of a lot rounds in favour of the filler.
ScaleLotUp(amount, pct, elapsed) ==
  LET base == DivUp(amount, pct, Whole)
  IN [base |-> base, actual |-> DivDown(base, LotModifier(elapsed), Ramp),
      remaining |-> amount - base]

\* The same for a lot; both round against the filler.
ScaleLot(amount, pct, elapsed) ==
  LET base == DivDown(amount, pct, Whole)
  IN [base |-> base, actual |-> DivDown(base, LotModifier(elapsed), Ramp),
      remaining |-> amount - base]

================================================================================
