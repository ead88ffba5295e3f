------------------------------ MODULE CreditProofs ------------------------------
(***************************************************************************)
(* Theorems about CreditAuctions, for every set of reserves, number of     *)
(* tiers, weights, values, and prices.                                     *)
(***************************************************************************)
EXTENDS CreditAuctions, LedgerLemmas

\* Both credits are defined for the reserves alone.
CreditsDefined == credit \in [Assets -> Nat] /\ fee \in [Assets -> Nat]

\* An open interest auction sells to one of the tiers.
TierSelected == Open(interest) => interest.tier \in 1..Tiers

\* How often a tier was passed over in a row, and the tiers that are still before
\* it, are together fewer than all tiers: each auction that passes it over moves
\* the cursor at least one tier towards it.
TurnsAdvance == \A t \in 1..Tiers : passed[t] + Distance(t) < Tiers

IInv ==
  /\ PendingIsBacked
  /\ CreditsDefined
  /\ TierSelected
  /\ LotsAreBacked
  /\ TurnsAdvance

------------------------------------------------------------------------------
(* The curve *)

LEMMA ScaledLot ==
  ASSUME NEW amount \in Nat, NEW pct \in Percents, NEW elapsed \in Nat
  PROVE  LET lot == ScaleLot(amount, pct, elapsed)
         IN /\ lot.base \in 0..amount /\ lot.actual \in 0..lot.base
            /\ lot.remaining = amount - lot.base /\ lot.remaining \in Nat
<1> DEFINE base == (amount * pct) \div Whole
           actual == (base * LotModifier(elapsed)) \div Ramp
<1>1. base \in 0..amount /\ amount - base \in Nat
  BY PartRoundedDown, CurveAssumption DEF Percents
<1> HIDE DEF base
<1>2. LotModifier(elapsed) \in 0..Ramp
  BY CurveAssumption DEF LotModifier
<1>3. actual \in 0..base
  <2> DEFINE m == LotModifier(elapsed)
  <2>1. base \in Nat /\ Ramp \in Nat \ {0} /\ m \in 0..Ramp
    BY <1>1, <1>2, CurveAssumption
  <2> HIDE DEF m
  <2>2. (base * m) \div Ramp \in 0..base
    BY <2>1, PartRoundedDown
  <2> QED BY <2>2 DEF m
<1> QED BY <1>1, <1>3 DEF ScaleLot, DivDown, base

LEMMA BidRemains ==
  ASSUME NEW amount \in Nat, NEW pct \in Percents, NEW elapsed \in Nat
  PROVE  ScaleBid(amount, pct, elapsed).remaining \in Nat
<1>1. amount - (amount * pct + Whole - 1) \div Whole \in Nat
  BY PartRoundedUp, CurveAssumption DEF Percents
<1> QED BY <1>1 DEF ScaleBid, DivUp

\* What remains of a sale after a fill, and what the fill sells.
LEMMA FillLeaves ==
  ASSUME NEW sale, sale.bid \in Nat, sale.lot \in [Assets -> Nat],
         NEW pct \in Percents, NEW elapsed \in Nat
  PROVE  /\ ScaleBid(sale.bid, pct, elapsed).remaining \in Nat
         /\ \A a \in Assets :
              LET left == ScaleLot(sale.lot[a], pct, elapsed).remaining
                  sold == Sold(sale, pct, elapsed)[a]
              IN left \in Nat /\ sold \in Nat /\ sold + left <= sale.lot[a]
<1>1. ScaleBid(sale.bid, pct, elapsed).remaining \in Nat
  BY BidRemains
<1>2. ASSUME NEW a \in Assets
      PROVE  LET left == ScaleLot(sale.lot[a], pct, elapsed).remaining
                 sold == Sold(sale, pct, elapsed)[a]
             IN left \in Nat /\ sold \in Nat /\ sold + left <= sale.lot[a]
  <2> DEFINE lot == ScaleLot(sale.lot[a], pct, elapsed)
  <2>1. sale.lot[a] \in Nat
    OBVIOUS
  <2>2. /\ lot.base \in 0..sale.lot[a] /\ lot.actual \in 0..lot.base
        /\ lot.remaining = sale.lot[a] - lot.base /\ lot.remaining \in Nat
    BY <2>1, ScaledLot
  <2>3. Sold(sale, pct, elapsed)[a] = lot.actual
    BY DEF Sold
  <2> HIDE DEF lot
  <2>4. lot.actual \in Nat /\ lot.actual + lot.remaining <= sale.lot[a]
    BY <2>1, <2>2
  <2> QED BY <2>2, <2>3, <2>4 DEF lot
<1> QED BY <1>1, <1>2

LEMMA BidIsAmount == \A v \in Nat : BidFor(v) \in Nat
<1> SUFFICES ASSUME NEW v \in Nat PROVE BidFor(v) \in Nat
  OBVIOUS
<1>1. v * 6 + 5 - 1 \in Nat /\ 5 \in Nat \ {0}
  OBVIOUS
<1> QED BY <1>1, DivisionBounds DEF BidFor, DivUp

------------------------------------------------------------------------------
(* The split *)

LEMMA SumIsSumOn == \A f : Sum(f) = SumOn(f, DOMAIN f)
BY DEF Sum, SumOn, FoldFunction

LEMMA SumOverIsSumOn == \A S, f : SumOver(S, f) = SumOn(f, S)
BY DEF SumOver, SumOn

LEMMA TiersFinite == IsFiniteSet(1..Tiers)
BY FS_Interval, CreditAssumption

LEMMA SumOverTiers ==
  ASSUME NEW f \in [1..Tiers -> Nat]
  PROVE  Sum(f) \in Nat /\ Sum(f) = SumOn(f, 1..Tiers)
<1>1. Sum(f) = SumOn(f, 1..Tiers)
  BY SumIsSumOn
<1>2. \A t \in 1..Tiers : f[t] \in Nat
  OBVIOUS
<1> QED BY <1>1, <1>2, TiersFinite, SumNat

\* Taking from one tier lowers the sum by as much.
LEMMA TakenFromTier ==
  ASSUME NEW p, p \in [1..Tiers -> Nat], NEW t, t \in 1..Tiers, NEW n \in Nat, n <= p[t],
         NEW q, q \in [1..Tiers -> Nat], q[t] = p[t] - n,
         \A s \in (1..Tiers) \ {t} : q[s] = p[s]
  PROVE  Sum(q) = Sum(p) - n
<1>1. p[t] \in Nat
  OBVIOUS
<1>2. q \in [1..Tiers -> Nat] /\ q[t] = p[t] - n
  OBVIOUS
<1>3. /\ \A s \in 1..Tiers : p[s] \in Int /\ q[s] \in Int
      /\ \A s \in (1..Tiers) \ {t} : p[s] = q[s]
  BY <1>2
<1>4. SumOn(q, 1..Tiers) = SumOn(p, 1..Tiers) - p[t] + q[t]
  <2> DEFINE S == 1..Tiers
  <2>1. /\ \A s \in S : p[s] \in Int /\ q[s] \in Int
        /\ \A s \in S \ {t} : p[s] = q[s]
        /\ t \in S /\ IsFiniteSet(S)
    BY <1>3, TiersFinite
  <2> HIDE DEF S
  <2>2. SumOn(q, S) = SumOn(p, S) - p[t] + q[t]
    BY ONLY <2>1, SumChange
  <2> QED BY <2>2 DEF S
<1>5. Sum(p) = SumOn(p, 1..Tiers) /\ Sum(p) \in Nat /\ Sum(q) = SumOn(q, 1..Tiers)
  BY <1>2, SumOverTiers
<1> QED BY <1>1, <1>2, <1>4, <1>5

\* The shares of an amount are not more than the amount.
LEMMA SharesWithinAmount ==
  ASSUME CreditTypeOK, NEW amount \in Nat
  PROVE  LET shares == [t \in 1..Tiers |-> Share(amount, t)]
         IN shares \in [1..Tiers -> Nat] /\ Sum(shares) \in 0..amount
<1> DEFINE weighted == [s \in 1..Tiers |-> value[s] * Weight[s]]
           shares == [t \in 1..Tiers |-> Share(amount, t)]
<1>1. \A t \in 1..Tiers : value[t] \in Nat /\ Weight[t] \in Nat
  BY CreditAssumption DEF CreditTypeOK
<1>2. \A t \in 1..Tiers : weighted[t] \in Nat
  BY <1>1, ProductNat
<1>3. Sum(weighted) = SumOn(weighted, 1..Tiers)
  BY SumIsSumOn
<1>4. \A t \in 1..Tiers :
        shares[t] = IF SumOn(weighted, 1..Tiers) = 0 THEN 0
                    ELSE (amount * weighted[t]) \div SumOn(weighted, 1..Tiers)
  BY <1>3 DEF Share, DivDown
<1> HIDE DEF weighted
<1>5. /\ \A t \in 1..Tiers : shares[t] \in Nat
      /\ SumOn(shares, 1..Tiers) \in 0..amount
  <2>1. DOMAIN shares = 1..Tiers
    OBVIOUS
  <2> HIDE DEF shares
  <2> QED BY <1>2, <1>4, TiersFinite, PartsWithinAmount
<1>6. shares \in [1..Tiers -> Nat] /\ Sum(shares) = SumOn(shares, 1..Tiers)
  BY <1>5, SumIsSumOn
<1> QED BY <1>5, <1>6

\* Splitting what a reserve has not split yet sets aside exactly its credit.
LEMMA SplitIsExact ==
  ASSUME CreditTypeOK, NEW a \in Assets, Total(a) <= credit[a]
  PROVE  /\ SplitPending(a) \in [1..Tiers -> Nat] /\ SplitCarry(a) \in Nat
         /\ Sum(SplitPending(a)) + SplitCarry(a) = credit[a]
         /\ \A t \in 1..Tiers : pending[a][t] <= SplitPending(a)[t]
<1> DEFINE shares == [t \in 1..Tiers |-> Share(Distribution(a), t)]
<1>1. /\ pending[a] \in [1..Tiers -> Nat] /\ carry[a] \in Nat
      /\ credit[a] \in 0..MaxCredit[a] /\ MaxCredit[a] \in Nat
  BY CreditAssumption DEF CreditTypeOK
<1>2. Sum(pending[a]) \in Nat /\ Sum(pending[a]) = SumOn(pending[a], 1..Tiers)
  BY <1>1, SumOverTiers
<1>3. Distribution(a) \in Nat /\ Distribution(a) = credit[a] - Sum(pending[a])
  BY <1>1, <1>2 DEF Distribution, Total
<1>4. shares \in [1..Tiers -> Nat] /\ Sum(shares) \in 0..Distribution(a)
  BY <1>3, SharesWithinAmount
<1>5. SplitPending(a) = [t \in 1..Tiers |-> pending[a][t] + shares[t]]
  BY DEF SplitPending
<1>6. SplitCarry(a) = Distribution(a) - Sum(shares)
  BY DEF SplitCarry
<1> HIDE DEF shares
<1>7. SplitPending(a) \in [1..Tiers -> Nat]
      /\ \A t \in 1..Tiers : pending[a][t] <= SplitPending(a)[t]
  <2>1. \A t \in 1..Tiers : pending[a][t] \in Nat /\ shares[t] \in Nat
    BY <1>1, <1>4
  <2>2. \A t \in 1..Tiers : /\ pending[a][t] + shares[t] \in Nat
                            /\ pending[a][t] <= pending[a][t] + shares[t]
    BY <2>1
  <2> QED BY ONLY <1>5, <2>2
<1>8. Sum(SplitPending(a)) = Sum(pending[a]) + Sum(shares)
  <2>1. /\ Sum(shares) = SumOn(shares, 1..Tiers)
        /\ Sum(SplitPending(a)) = SumOn(SplitPending(a), 1..Tiers)
    BY <1>4, <1>7, SumOverTiers
  <2>2. \A t \in 1..Tiers : /\ pending[a][t] \in Int /\ shares[t] \in Int
                            /\ SplitPending(a)[t] = pending[a][t] + shares[t]
    <3>1. \A t \in 1..Tiers : pending[a][t] \in Nat /\ shares[t] \in Nat
      BY <1>1, <1>4
    <3> QED BY ONLY <1>5, <3>1
  <2>3. SumOn(SplitPending(a), 1..Tiers)
          = SumOn(pending[a], 1..Tiers) + SumOn(shares, 1..Tiers)
    BY <2>2, TiersFinite, SumPlus
  <2> QED BY <1>2, <2>1, <2>3
<1>9. SplitCarry(a) \in Nat
  BY <1>3, <1>4, <1>6
<1>10. Sum(SplitPending(a)) + SplitCarry(a) = credit[a]
  BY <1>1, <1>2, <1>3, <1>4, <1>6, <1>8
<1> QED BY <1>7, <1>9, <1>10

LEMMA LotValueIsAmount ==
  ASSUME CreditTypeOK, \A a \in Assets : Total(a) <= credit[a],
         NEW list \in Lists, NEW t \in 1..Tiers
  PROVE  LotValues(list)[t] \in Nat
<1> DEFINE S == list \cap authorized
           f == [a \in Assets |-> SplitPending(a)[t]]
<1>1. S \subseteq Assets /\ IsFiniteSet(S)
  BY FS_Subset, CreditAssumption
<1>2. \A a \in S : f[a] \in Nat
  <2>1. \A a \in Assets : SplitPending(a) \in [1..Tiers -> Nat]
    BY SplitIsExact
  <2> QED BY <1>1, <2>1
<1>3. LotValues(list)[t] = IF value[t] = 0 THEN 0 ELSE Price * SumOn(f, S)
  BY SumOverIsSumOn DEF LotValues
<1> HIDE DEF S, f
<1>4. SumOn(f, S) \in Nat
  BY <1>1, <1>2, SumNat
<1>5. Price * SumOn(f, S) \in Nat
  BY <1>4, ProductNat, CreditAssumption
<1> QED BY <1>3, <1>5

------------------------------------------------------------------------------
(* The turns *)

LEMMA Turning ==
  ASSUME NEW n \in Nat \ {0}, NEW c \in 1..n, NEW t \in 1..n
  PROVE  /\ (t - c + n) % n = IF t >= c THEN t - c ELSE t - c + n
         /\ (t % n) + 1 = IF t = n THEN 1 ELSE t + 1
<1>1. \A x \in 0..(n - 1) : x % n = x /\ (x + n) % n = x
  <2> SUFFICES ASSUME NEW x \in 0..(n - 1) PROVE x % n = x /\ (x + n) % n = x
    OBVIOUS
  <2>1. x \in Nat /\ x < n
    OBVIOUS
  <2>2. x = n * (x \div n) + (x % n) /\ x % n \in 0..(n - 1) /\ x \div n \in Int
    BY <2>1
  <2>3. x \div n = 0
    BY <2>1, <2>2
  <2>4. x + n = n * ((x + n) \div n) + ((x + n) % n) /\ (x + n) % n \in 0..(n - 1)
        /\ (x + n) \div n \in Int
    BY <2>1
  <2>5. (x + n) \div n = 1
    BY <2>1, <2>4
  <2> QED BY <2>1, <2>2, <2>3, <2>4, <2>5
<1>2. (t - c + n) % n = IF t >= c THEN t - c ELSE t - c + n
  <2>1. CASE t >= c
    <3>1. t - c \in 0..(n - 1)
      BY <2>1
    <3> QED BY <1>1, <2>1, <3>1
  <2>2. CASE ~(t >= c)
    <3>1. t - c + n \in 0..(n - 1)
      BY <2>2
    <3> QED BY <1>1, <2>2, <3>1
  <2> QED BY <2>1, <2>2
<1>3. (t % n) + 1 = IF t = n THEN 1 ELSE t + 1
  <2>1. CASE t = n
    <3>1. 0 \in 0..(n - 1) /\ 0 + n = n
      OBVIOUS
    <3>2. n % n = 0
      BY <1>1, <3>1
    <3> QED BY <2>1, <3>2
  <2>2. CASE t # n
    <3>1. t \in 0..(n - 1)
      BY <2>2
    <3> QED BY <1>1, <2>2, <3>1
  <2> QED BY <2>1, <2>2
<1> QED BY <1>2, <1>3

\* The turn passes to the tier after the selected one: every other tier that is not
\* nearer to the cursor comes at least one closer.
LEMMA CursorApproaches ==
  ASSUME NEW t \in 1..Tiers, NEW s \in 1..Tiers,
         cursor \in 1..Tiers, cursor' = CursorAfter(t)
  PROVE  /\ cursor' \in 1..Tiers
         /\ Distance(s) \in 0..(Tiers - 1) /\ Distance(s)' \in 0..(Tiers - 1)
         /\ s # t /\ Distance(t) <= Distance(s) => Distance(s)' + 1 <= Distance(s)
<1> DEFINE d(x, c) == (x - c + Tiers) % Tiers
<1>1. Tiers \in Nat \ {0}
  BY CreditAssumption
<1>2. cursor' = IF t = Tiers THEN 1 ELSE t + 1
  BY <1>1, Turning DEF CursorAfter
<1>3. cursor' \in 1..Tiers
  BY <1>1, <1>2
<1>4. ASSUME NEW x \in 1..Tiers, NEW c \in 1..Tiers
      PROVE  d(x, c) = IF x >= c THEN x - c ELSE x - c + Tiers
  BY <1>1, Turning
<1>5. /\ Distance(s) = d(s, cursor) /\ Distance(t) = d(t, cursor)
      /\ Distance(s)' = d(s, cursor')
  BY DEF Distance
<1> HIDE DEF d
<1>6. /\ Distance(s) = IF s >= cursor THEN s - cursor ELSE s - cursor + Tiers
      /\ Distance(t) = IF t >= cursor THEN t - cursor ELSE t - cursor + Tiers
      /\ Distance(s)' = IF s >= cursor' THEN s - cursor' ELSE s - cursor' + Tiers
  BY <1>3, <1>4, <1>5
<1> HIDE DEF Distance
<1> QED BY <1>1, <1>2, <1>3, <1>6

------------------------------------------------------------------------------
(* The invariant *)

LEMMA Typing ==
  ASSUME IInv
  PROVE  /\ CreditTypeOK /\ Oldest \in Nat
         /\ \A a \in Assets :
              /\ credit[a] \in Nat /\ fee[a] \in Nat /\ carry[a] \in Nat
              /\ pending[a] \in [1..Tiers -> Nat] /\ Sum(pending[a]) \in Nat
              /\ Total(a) = Sum(pending[a]) + carry[a] /\ Total(a) \in Nat
              /\ Total(a) <= credit[a]
              /\ credit[a] <= MaxCredit[a] /\ fee[a] <= MaxFee[a]
              /\ MaxCredit[a] \in Nat /\ MaxFee[a] \in Nat
<1>1. CreditTypeOK /\ \A a \in Assets : Total(a) <= credit[a]
  BY DEF IInv, PendingIsBacked
<1>2. Oldest \in Nat
  BY CreditAssumption DEF Oldest
<1>3. ASSUME NEW a \in Assets
      PROVE  /\ credit[a] \in Nat /\ fee[a] \in Nat /\ carry[a] \in Nat
             /\ pending[a] \in [1..Tiers -> Nat]
             /\ credit[a] <= MaxCredit[a] /\ fee[a] <= MaxFee[a]
             /\ MaxCredit[a] \in Nat /\ MaxFee[a] \in Nat
  BY <1>1, CreditAssumption DEF CreditTypeOK
<1>4. \A a \in Assets : Sum(pending[a]) \in Nat
  BY <1>3, SumOverTiers
<1> QED BY <1>1, <1>2, <1>3, <1>4 DEF Total

LEMMA NoSaleTyped ==
  /\ NoInterest \in [lot : [Assets -> Nat], bid : Nat, age : 0..Oldest, tier : 0..Tiers]
  /\ NoFeeSale \in [lot : [Assets -> Nat], bid : Nat, age : 0..Oldest]
  /\ ~Open(NoInterest) /\ ~Open(NoFeeSale)
<1>1. 0 \in 0..Oldest /\ 0 \in 0..Tiers /\ Nothing \in [Assets -> Nat]
  BY CreditAssumption DEF Oldest, Nothing
<1> QED BY <1>1 DEF NoInterest, NoFeeSale, Open

LEMMA InitIInv == CreditInit => IInv
<1> SUFFICES ASSUME CreditInit PROVE IInv
  OBVIOUS
<1> USE DEF CreditInit
<1>1. /\ \A a \in Assets : credit[a] = 0 /\ fee[a] = 0 /\ carry[a] = 0
      /\ \A a \in Assets : pending[a] = [t \in 1..Tiers |-> 0]
  BY DEF Nothing
<1>2. CreditTypeOK
  <2>1. \A a \in Assets : 0 \in 0..MaxCredit[a] /\ 0 \in 0..MaxFee[a]
    BY CreditAssumption
  <2>2. pending \in [Assets -> [1..Tiers -> Nat]] /\ carry \in [Assets -> Nat]
    BY DEF Nothing
  <2>3. cursor \in 1..Tiers /\ passed \in [1..Tiers -> Nat] /\ authorized \subseteq Assets
    BY CreditAssumption
  <2> QED BY <1>1, <2>1, <2>2, <2>3, NoSaleTyped DEF CreditTypeOK
<1>3. \A a \in Assets : Total(a) <= credit[a]
  <2> DEFINE zero == [t \in 1..Tiers |-> 0]
  <2>1. Sum(zero) = 0
    <3>1. zero \in [1..Tiers -> Nat] /\ \A t \in 1..Tiers : zero[t] = 0
      OBVIOUS
    <3> HIDE DEF zero
    <3> QED BY <3>1, SumOverTiers, TiersFinite, SumZero
  <2> HIDE DEF zero
  <2>2. \A a \in Assets : Total(a) = 0 + 0
    BY <1>1, <2>1 DEF Total, zero
  <2> QED BY <1>1, <2>2
<1>4. CreditsDefined
  BY DEF CreditsDefined, Nothing
<1>5. TierSelected /\ LotsAreBacked
  BY NoSaleTyped DEF TierSelected, LotsAreBacked
<1>6. TurnsAdvance
  <2>1. cursor \in 1..Tiers /\ Tiers \in Nat \ {0}
    BY CreditAssumption
  <2>2. \A t \in 1..Tiers : Distance(t) \in 0..(Tiers - 1)
    BY <2>1, Turning DEF Distance
  <2> QED BY <2>1, <2>2 DEF TurnsAdvance
<1> QED BY <1>2, <1>3, <1>4, <1>5, <1>6 DEF IInv, PendingIsBacked

LEMMA CreateInterestPreserves ==
  ASSUME IInv, NEW list \in Lists, CreateInterest(list)
  PROVE  IInv'
<1> DEFINE lot(t) == [a \in Assets |->
                        IF a \in list \cap authorized THEN SplitPending(a)[t] ELSE 0]
<1>1. PICK t \in 1..Tiers :
        /\ Selected(list, t)
        /\ interest' = [lot |-> lot(t), bid |-> BidFor(LotValues(list)[t]), age |-> 0, tier |-> t]
        /\ cursor' = CursorAfter(t)
        /\ passed' = [s \in 1..Tiers |->
                        IF s # t /\ Qualifies(list, s) THEN passed[s] + 1 ELSE 0]
  BY DEF CreateInterest
<1>2. /\ pending' = [a \in Assets |-> IF a \in list THEN SplitPending(a) ELSE pending[a]]
      /\ carry' = [a \in Assets |-> IF a \in list THEN SplitCarry(a) ELSE carry[a]]
      /\ credit' = credit /\ fee' = fee /\ feeSale' = feeSale /\ value' = value
      /\ authorized' = authorized
  BY DEF CreateInterest
<1>3. CreditTypeOK /\ \A a \in Assets : Total(a) <= credit[a]
  BY Typing
<1>4. ASSUME NEW a \in Assets
      PROVE  /\ SplitPending(a) \in [1..Tiers -> Nat] /\ SplitCarry(a) \in Nat
             /\ Sum(SplitPending(a)) + SplitCarry(a) = credit[a]
  BY <1>3, SplitIsExact
<1>5. lot(t) \in [Assets -> Nat]
  <2>1. \A a \in Assets : SplitPending(a)[t] \in Nat
    BY <1>4
  <2> QED BY <2>1
<1> HIDE DEF lot
<1>6. BidFor(LotValues(list)[t]) \in Nat
  BY <1>3, LotValueIsAmount, BidIsAmount
<1>7. interest' \in [lot : [Assets -> Nat], bid : Nat, age : 0..Oldest, tier : 0..Tiers]
  <2>1. 0 \in 0..Oldest /\ t \in 0..Tiers
    BY Typing, CreditAssumption
  <2> QED BY <1>1, <1>5, <1>6, <2>1
<1>8. pending' \in [Assets -> [1..Tiers -> Nat]] /\ carry' \in [Assets -> Nat]
  BY <1>2, <1>4, Typing
<1>9. cursor \in 1..Tiers /\ passed \in [1..Tiers -> Nat]
  BY <1>3 DEF CreditTypeOK
<1>10. \A s \in 1..Tiers :
         /\ cursor' \in 1..Tiers
         /\ Distance(s) \in 0..(Tiers - 1) /\ Distance(s)' \in 0..(Tiers - 1)
         /\ s # t /\ Distance(t) <= Distance(s) => Distance(s)' + 1 <= Distance(s)
  BY <1>1, <1>9, CursorApproaches
<1>11. passed' \in [1..Tiers -> Nat] /\ cursor' \in 1..Tiers
  BY <1>1, <1>9, <1>10
<1>12. CreditTypeOK'
  BY <1>2, <1>3, <1>7, <1>8, <1>11 DEF CreditTypeOK
<1>13. ASSUME NEW a \in Assets
       PROVE  Total(a)' <= credit'[a]
  <2>1. CASE a \in list
    <3>1. pending'[a] = SplitPending(a) /\ carry'[a] = SplitCarry(a)
      BY <1>2, <2>1
    <3>2. Total(a)' = Sum(SplitPending(a)) + SplitCarry(a)
      BY <3>1 DEF Total
    <3> QED BY <1>2, <1>4, <3>2, Typing
  <2>2. CASE a \notin list
    <3>1. Total(a)' = Total(a)
      BY <1>2, <2>2 DEF Total
    <3> QED BY <1>2, <1>3, <3>1
  <2> QED BY <2>1, <2>2
<1>14. CreditsDefined' /\ TierSelected'
  BY <1>1, <1>2 DEF IInv, CreditsDefined, TierSelected
<1>15. LotsAreBacked'
  <2>1. \A a \in Assets : interest'.lot[a] <= pending'[a][interest'.tier]
    <3>1. interest'.tier = t /\ interest'.lot = lot(t)
      BY <1>1
    <3>2. ASSUME NEW a \in Assets
          PROVE  lot(t)[a] <= pending'[a][t]
      <4>1. pending'[a][t] \in Nat
        BY <1>8
      <4>2. CASE a \in list \cap authorized
        <5>1. lot(t)[a] = SplitPending(a)[t] /\ pending'[a] = SplitPending(a)
          BY <1>2, <4>2 DEF lot
        <5> QED BY <4>1, <5>1
      <4>3. CASE a \notin list \cap authorized
        <5>1. lot(t)[a] = 0
          BY <4>3 DEF lot
        <5> QED BY <4>1, <5>1
      <4> QED BY <4>2, <4>3
    <3> QED BY <3>1, <3>2
  <2>2. Open(feeSale)' => \A a \in Assets : feeSale'.lot[a] <= fee'[a]
    BY <1>2 DEF IInv, LotsAreBacked, Open
  <2> QED BY <2>1, <2>2 DEF LotsAreBacked
<1>16. TurnsAdvance'
  <2>1. ASSUME NEW s \in 1..Tiers
        PROVE  passed'[s] + Distance(s)' < Tiers
    <3>1. Tiers \in Nat /\ passed[s] \in Nat /\ passed[s] + Distance(s) < Tiers
      BY <1>9, CreditAssumption DEF IInv, TurnsAdvance
    <3>2. CASE s # t /\ Qualifies(list, s)
      <4>1. passed'[s] = passed[s] + 1 /\ Distance(t) <= Distance(s)
        BY <1>1, <3>2 DEF Selected
      <4>2. Distance(s)' + 1 <= Distance(s)
        BY <1>10, <3>2, <4>1
      <4>3. Distance(s) \in Int /\ Distance(s)' \in Int
        BY <1>10
      <4> QED BY <3>1, <4>1, <4>2, <4>3
    <3>3. CASE ~(s # t /\ Qualifies(list, s))
      <4>1. passed'[s] = 0 /\ Distance(s)' \in 0..(Tiers - 1)
        BY <1>1, <1>10, <3>3
      <4> QED BY <3>1, <4>1
    <3> QED BY <3>2, <3>3
  <2> QED BY <2>1 DEF TurnsAdvance
<1> QED BY <1>12, <1>13, <1>14, <1>15, <1>16 DEF IInv, PendingIsBacked

LEMMA FillInterestPreserves ==
  ASSUME IInv, NEW pct \in Percents, FillInterest(pct)
  PROVE  IInv'
<1> DEFINE elapsed == interest.age - 1
           sold == Sold(interest, pct, elapsed)
           rest == Rest(interest, pct, elapsed)
           t == interest.tier
<1>1. /\ Open(interest) /\ interest.age >= 1
      /\ \A a \in Assets : sold[a] <= credit[a] /\ sold[a] <= pending[a][t]
      /\ credit' = [a \in Assets |-> credit[a] - sold[a]]
      /\ pending' = [a \in Assets |-> [pending[a] EXCEPT ![t] = @ - sold[a]]]
      /\ interest' = rest \/ (interest' = NoInterest /\ ~Open(rest))
      /\ carry' = carry /\ cursor' = cursor /\ fee' = fee /\ feeSale' = feeSale
      /\ value' = value /\ authorized' = authorized /\ passed' = passed
  BY DEF FillInterest
<1>2. CreditTypeOK
  BY Typing
<1>3. /\ elapsed \in Nat /\ t \in 1..Tiers
      /\ interest.bid \in Nat /\ interest.lot \in [Assets -> Nat]
      /\ interest \in [lot : [Assets -> Nat], bid : Nat, age : 0..Oldest, tier : 0..Tiers]
  BY <1>1, Typing DEF CreditTypeOK, IInv, TierSelected
<1>4. /\ rest.bid \in Nat
      /\ \A a \in Assets :
           rest.lot[a] \in Nat /\ sold[a] \in Nat /\ sold[a] + rest.lot[a] <= interest.lot[a]
      /\ rest.lot \in [Assets -> Nat] /\ rest.tier = t
      /\ rest \in [lot : [Assets -> Nat], bid : Nat, age : 0..Oldest, tier : 0..Tiers]
  <2> HIDE DEF elapsed
  <2>1. /\ ScaleBid(interest.bid, pct, elapsed).remaining \in Nat
        /\ \A a \in Assets :
             LET left == ScaleLot(interest.lot[a], pct, elapsed).remaining
             IN left \in Nat /\ sold[a] \in Nat /\ sold[a] + left <= interest.lot[a]
    BY <1>3, FillLeaves
  <2> DEFINE b == ScaleBid(interest.bid, pct, elapsed).remaining
             l == [a \in Assets |-> ScaleLot(interest.lot[a], pct, elapsed).remaining]
  <2>2. b \in Nat /\ l \in [Assets -> Nat]
    BY <2>1
  <2>3. rest = [interest EXCEPT !.bid = b, !.lot = l]
    BY DEF Rest
  <2>4. \A a \in Assets : l[a] \in Nat /\ sold[a] \in Nat /\ sold[a] + l[a] <= interest.lot[a]
    BY <2>1
  <2> HIDE DEF rest, sold, b, l
  <2>5. /\ rest.bid = b /\ rest.lot = l /\ rest.tier = t
        /\ rest \in [lot : [Assets -> Nat], bid : Nat, age : 0..Oldest, tier : 0..Tiers]
    BY <1>3, <2>2, <2>3
  <2> QED BY <2>2, <2>4, <2>5
<1> HIDE DEF elapsed, sold, rest, t
<1>5. ASSUME NEW a \in Assets
      PROVE  /\ credit'[a] = credit[a] - sold[a] /\ credit'[a] \in Nat
             /\ pending'[a] \in [1..Tiers -> Nat]
             /\ pending'[a][t] = pending[a][t] - sold[a]
             /\ Sum(pending'[a]) = Sum(pending[a]) - sold[a]
  <2>1. /\ pending[a] \in [1..Tiers -> Nat] /\ credit[a] \in Nat /\ sold[a] \in Nat
        /\ pending'[a] = [pending[a] EXCEPT ![t] = @ - sold[a]]
        /\ sold[a] <= credit[a] /\ sold[a] <= pending[a][t]
    BY <1>1, <1>4, Typing
  <2>6. /\ pending'[a] \in [1..Tiers -> Nat]
        /\ pending'[a][t] = pending[a][t] - sold[a]
        /\ Sum(pending'[a]) = Sum(pending[a]) - sold[a]
    <3> DEFINE p == pending[a]
               q == pending'[a]
               n == sold[a]
    <3>1. p \in [1..Tiers -> Nat] /\ t \in 1..Tiers /\ n \in Nat /\ n <= p[t]
      BY <1>3, <2>1
    <3>a. q = [p EXCEPT ![t] = @ - n]
      BY <2>1
    <3> HIDE DEF p, q, n
    <3>2. /\ q \in [1..Tiers -> Nat] /\ q[t] = p[t] - n
          /\ \A s \in (1..Tiers) \ {t} : q[s] = p[s]
      BY ONLY <3>1, <3>a
    <3>3. Sum(q) = Sum(p) - n
      BY ONLY <3>1, <3>2, TakenFromTier
    <3> QED BY <3>2, <3>3 DEF p, q, n
  <2>7. credit'[a] = credit[a] - sold[a] /\ credit'[a] \in Nat
    BY <1>1, <2>1
  <2> QED BY <2>6, <2>7
<1>6. \A a \in Assets : credit'[a] \in 0..MaxCredit[a]
  BY <1>4, <1>5, Typing
<1>7. pending' \in [Assets -> [1..Tiers -> Nat]] /\ credit' \in [Assets -> Nat]
  BY <1>1, <1>5
<1>8. interest' \in [lot : [Assets -> Nat], bid : Nat, age : 0..Oldest, tier : 0..Tiers]
  BY <1>1, <1>4, NoSaleTyped
<1>9. CreditTypeOK'
  BY <1>1, <1>2, <1>6, <1>7, <1>8 DEF CreditTypeOK
<1>10. ASSUME NEW a \in Assets
       PROVE  Total(a)' <= credit'[a]
  <2>1. Total(a)' = Sum(pending'[a]) + carry[a]
    BY <1>1 DEF Total
  <2>2. /\ Sum(pending[a]) + carry[a] <= credit[a] /\ sold[a] \in Nat
        /\ Sum(pending[a]) \in Nat /\ carry[a] \in Nat /\ credit[a] \in Nat
    BY <1>4, Typing
  <2> QED BY <1>5, <2>1, <2>2
<1>11. CreditsDefined' /\ TierSelected'
  <2>1. TierSelected'
    BY <1>1, <1>3, <1>4, NoSaleTyped DEF TierSelected
  <2> QED BY <1>1, <1>7, <2>1 DEF IInv, CreditsDefined
<1>12. LotsAreBacked'
  <2>1. ASSUME Open(interest)', NEW a \in Assets
        PROVE  interest'.lot[a] <= pending'[a][interest'.tier]
    <3>1. interest' = rest
      BY <1>1, <2>1, NoSaleTyped
    <3>2. interest.lot[a] <= pending[a][t]
      BY <1>1 DEF IInv, LotsAreBacked, t
    <3>3. interest.lot[a] \in Nat /\ pending[a][t] \in Nat
      BY <1>3, Typing
    <3> QED BY <1>4, <1>5, <3>1, <3>2, <3>3
  <2>2. Open(feeSale)' => \A a \in Assets : feeSale'.lot[a] <= fee'[a]
    BY <1>1 DEF IInv, LotsAreBacked, Open
  <2> QED BY <2>1, <2>2 DEF LotsAreBacked
<1>13. TurnsAdvance'
  BY <1>1 DEF IInv, TurnsAdvance, Distance
<1> QED BY <1>9, <1>10, <1>11, <1>12, <1>13 DEF IInv, PendingIsBacked

\* What leaves the split and the turn alone, and takes no credit.
LEMMA SplitKept ==
  ASSUME IInv, CreditTypeOK', CreditsDefined',
         pending' = pending, carry' = carry, cursor' = cursor, passed' = passed,
         \A a \in Assets : credit'[a] >= credit[a],
         Open(interest)' => Open(interest) /\ interest'.lot = interest.lot
                                           /\ interest'.tier = interest.tier,
         Open(feeSale)' => \A a \in Assets : feeSale'.lot[a] <= fee'[a]
  PROVE  IInv'
<1>1. ASSUME NEW a \in Assets
      PROVE  Total(a)' <= credit'[a]
  <2>1. Total(a)' = Total(a) /\ credit'[a] >= credit[a] /\ credit'[a] \in Nat
    BY DEF Total, CreditsDefined
  <2> QED BY <2>1, Typing
<1>2. TierSelected'
  BY DEF IInv, TierSelected
<1>3. LotsAreBacked'
  BY DEF IInv, LotsAreBacked
<1>4. TurnsAdvance'
  BY DEF IInv, TurnsAdvance, Distance
<1> QED BY <1>1, <1>2, <1>3, <1>4 DEF IInv, PendingIsBacked

\* The types of what a step on the fee sale or on the environment may change.
LEMMA TypesKept ==
  ASSUME IInv, pending' = pending, carry' = carry, cursor' = cursor, passed' = passed,
         credit' \in [Assets -> Nat], fee' \in [Assets -> Nat],
         \A a \in Assets : credit'[a] <= MaxCredit[a] /\ fee'[a] <= MaxFee[a],
         interest' \in [lot : [Assets -> Nat], bid : Nat, age : 0..Oldest, tier : 0..Tiers],
         feeSale' \in [lot : [Assets -> Nat], bid : Nat, age : 0..Oldest],
         value' \in [1..Tiers -> TierValues], authorized' \subseteq Assets
  PROVE  CreditTypeOK' /\ CreditsDefined'
<1>1. CreditTypeOK
  BY Typing
<1>2. \A a \in Assets : credit'[a] \in 0..MaxCredit[a] /\ fee'[a] \in 0..MaxFee[a]
  <2> SUFFICES ASSUME NEW a \in Assets
               PROVE  credit'[a] \in 0..MaxCredit[a] /\ fee'[a] \in 0..MaxFee[a]
    OBVIOUS
  <2>1. credit'[a] \in Nat /\ fee'[a] \in Nat /\ MaxCredit[a] \in Nat /\ MaxFee[a] \in Nat
    BY Typing
  <2> QED BY <2>1
<1> QED BY <1>1, <1>2 DEF CreditTypeOK, CreditsDefined

LEMMA Sales ==
  ASSUME IInv
  PROVE  /\ interest \in [lot : [Assets -> Nat], bid : Nat, age : 0..Oldest, tier : 0..Tiers]
         /\ feeSale \in [lot : [Assets -> Nat], bid : Nat, age : 0..Oldest]
         /\ credit \in [Assets -> Nat] /\ fee \in [Assets -> Nat]
         /\ value \in [1..Tiers -> TierValues] /\ authorized \subseteq Assets
         /\ \A a \in Assets : credit[a] <= MaxCredit[a] /\ fee[a] <= MaxFee[a]
         /\ Open(feeSale) => \A a \in Assets : feeSale.lot[a] <= fee[a]
<1>1. CreditTypeOK
  BY Typing
<1>2. \A a \in Assets : credit[a] <= MaxCredit[a] /\ fee[a] <= MaxFee[a]
  BY Typing
<1> QED BY <1>1, <1>2 DEF CreditTypeOK, IInv, CreditsDefined, LotsAreBacked

LEMMA DeletePreserves ==
  ASSUME IInv, DeleteInterest \/ DeleteFeeSale
  PROVE  IInv'
<1>1. /\ pending' = pending /\ carry' = carry /\ cursor' = cursor /\ passed' = passed
      /\ credit' = credit /\ fee' = fee /\ value' = value /\ authorized' = authorized
      /\ interest' = interest \/ interest' = NoInterest
      /\ feeSale' = feeSale \/ feeSale' = NoFeeSale
  BY DEF DeleteInterest, DeleteFeeSale
<1>2. CreditTypeOK' /\ CreditsDefined'
  BY <1>1, Sales, NoSaleTyped, TypesKept
<1>3. /\ Open(interest)' => /\ Open(interest) /\ interest'.lot = interest.lot
                            /\ interest'.tier = interest.tier
      /\ Open(feeSale)' => \A a \in Assets : feeSale'.lot[a] <= fee'[a]
  BY <1>1, Sales, NoSaleTyped DEF Open
<1>4. \A a \in Assets : credit'[a] >= credit[a]
  BY <1>1, Sales
<1> QED BY <1>1, <1>2, <1>3, <1>4, SplitKept

LEMMA CreateFeeSalePreserves ==
  ASSUME IInv, NEW list \in Lists, CreateFeeSale(list)
  PROVE  IInv'
<1> DEFINE lot == [a \in Assets |-> IF a \in list \cap authorized THEN fee[a] ELSE 0]
<1>1. /\ feeSale' = [lot |-> lot, bid |-> BidFor(Price * Sum(lot)), age |-> 0]
      /\ pending' = pending /\ carry' = carry /\ cursor' = cursor /\ passed' = passed
      /\ credit' = credit /\ fee' = fee /\ value' = value /\ authorized' = authorized
      /\ interest' = interest
  BY DEF CreateFeeSale
<1>2. lot \in [Assets -> Nat] /\ \A a \in Assets : lot[a] <= fee[a]
  <2>1. \A a \in Assets : fee[a] \in Nat
    BY Typing
  <2> QED BY <2>1
<1> HIDE DEF lot
<1>3. BidFor(Price * Sum(lot)) \in Nat
  <2>1. Sum(lot) = SumOn(lot, Assets) /\ \A a \in Assets : lot[a] \in Nat
    BY <1>2, SumIsSumOn
  <2>2. Sum(lot) \in Nat
    BY <2>1, SumNat, CreditAssumption
  <2>3. Price * Sum(lot) \in Nat
    BY <2>2, ProductNat, CreditAssumption
  <2> QED BY <2>3, BidIsAmount
<1>4. feeSale' \in [lot : [Assets -> Nat], bid : Nat, age : 0..Oldest]
  <2>1. 0 \in 0..Oldest
    BY Typing
  <2> QED BY <1>1, <1>2, <1>3, <2>1
<1>5. CreditTypeOK' /\ CreditsDefined'
  BY <1>1, <1>4, Sales, TypesKept
<1>6. /\ \A a \in Assets : feeSale'.lot[a] <= fee'[a]
      /\ \A a \in Assets : credit'[a] >= credit[a]
  BY <1>1, <1>2, Sales
<1>7. Open(interest)' => /\ Open(interest) /\ interest'.lot = interest.lot
                         /\ interest'.tier = interest.tier
  BY <1>1 DEF Open
<1> QED BY <1>1, <1>5, <1>6, <1>7, SplitKept

LEMMA FillFeeSalePreserves ==
  ASSUME IInv, NEW pct \in Percents, FillFeeSale(pct)
  PROVE  IInv'
<1> DEFINE elapsed == feeSale.age - 1
           sold == Sold(feeSale, pct, elapsed)
           rest == Rest(feeSale, pct, elapsed)
           b == ScaleBid(feeSale.bid, pct, elapsed).remaining
           l == [a \in Assets |-> ScaleLot(feeSale.lot[a], pct, elapsed).remaining]
<1>1. /\ Open(feeSale) /\ feeSale.age >= 1
      /\ \A a \in Assets : sold[a] <= fee[a]
      /\ fee' = [a \in Assets |-> fee[a] - sold[a]]
      /\ feeSale' = rest \/ feeSale' = NoFeeSale
      /\ pending' = pending /\ carry' = carry /\ cursor' = cursor /\ passed' = passed
      /\ credit' = credit /\ value' = value /\ authorized' = authorized
      /\ interest' = interest
  BY DEF FillFeeSale
<1>2. /\ elapsed \in Nat /\ feeSale.bid \in Nat /\ feeSale.lot \in [Assets -> Nat]
      /\ feeSale \in [lot : [Assets -> Nat], bid : Nat, age : 0..Oldest]
  BY <1>1, Sales, Typing
<1>3. rest = [feeSale EXCEPT !.bid = b, !.lot = l]
  BY DEF Rest
<1>4. b \in Nat /\ \A a \in Assets : l[a] \in Nat /\ sold[a] \in Nat
                                     /\ sold[a] + l[a] <= feeSale.lot[a]
  <2> HIDE DEF elapsed
  <2>1. /\ ScaleBid(feeSale.bid, pct, elapsed).remaining \in Nat
        /\ \A a \in Assets :
             LET left == ScaleLot(feeSale.lot[a], pct, elapsed).remaining
             IN left \in Nat /\ sold[a] \in Nat /\ sold[a] + left <= feeSale.lot[a]
    BY <1>2, FillLeaves
  <2> QED BY <2>1
<1>5. l \in [Assets -> Nat]
  BY <1>4
<1> HIDE DEF elapsed, sold, rest, b, l
<1>6. rest.lot = l /\ rest \in [lot : [Assets -> Nat], bid : Nat, age : 0..Oldest]
  BY <1>2, <1>3, <1>4, <1>5
<1>7. ASSUME NEW a \in Assets
      PROVE  /\ fee'[a] = fee[a] - sold[a] /\ fee'[a] \in Nat /\ fee'[a] <= MaxFee[a]
             /\ feeSale.lot[a] <= fee[a] => l[a] <= fee'[a]
  <2>1. /\ fee[a] \in Nat /\ sold[a] \in Nat /\ sold[a] <= fee[a] /\ l[a] \in Nat
        /\ sold[a] + l[a] <= feeSale.lot[a] /\ feeSale.lot[a] \in Nat
        /\ fee[a] <= MaxFee[a] /\ MaxFee[a] \in Nat
    BY <1>1, <1>2, <1>4, Typing
  <2>2. fee'[a] = fee[a] - sold[a]
    BY <1>1
  <2> QED BY <2>1, <2>2
<1>8. fee' \in [Assets -> Nat]
  BY <1>1, <1>7
<1>9. CreditTypeOK' /\ CreditsDefined'
  <2>1. feeSale' \in [lot : [Assets -> Nat], bid : Nat, age : 0..Oldest]
    BY <1>1, <1>6, NoSaleTyped
  <2>2. \A a \in Assets : credit'[a] <= MaxCredit[a] /\ fee'[a] <= MaxFee[a]
    BY <1>1, <1>7, Sales
  <2> QED BY <1>1, <1>8, <2>1, <2>2, Sales, TypesKept
<1>10. Open(feeSale)' => \A a \in Assets : feeSale'.lot[a] <= fee'[a]
  BY <1>1, <1>6, <1>7, Sales, NoSaleTyped
<1>11. Open(interest)' => /\ Open(interest) /\ interest'.lot = interest.lot
                          /\ interest'.tier = interest.tier
  BY <1>1 DEF Open
<1>12. \A a \in Assets : credit'[a] >= credit[a]
  BY <1>1, Sales
<1> QED BY <1>1, <1>9, <1>10, <1>11, <1>12, SplitKept

LEMMA AccruePreserves ==
  ASSUME IInv, NEW a \in Assets, Accrue(a)
  PROVE  IInv'
<1>1. /\ pending' = pending /\ carry' = carry /\ cursor' = cursor /\ passed' = passed
      /\ interest' = interest /\ feeSale' = feeSale
      /\ value' = value /\ authorized' = authorized
      /\ \/ credit[a] < MaxCredit[a] /\ credit' = [credit EXCEPT ![a] = @ + 1] /\ fee' = fee
         \/ fee[a] < MaxFee[a] /\ fee' = [fee EXCEPT ![a] = @ + 1] /\ credit' = credit
  BY DEF Accrue
<1>2. /\ credit' \in [Assets -> Nat] /\ fee' \in [Assets -> Nat]
      /\ \A x \in Assets : /\ credit'[x] >= credit[x] /\ fee'[x] >= fee[x]
                           /\ credit'[x] <= MaxCredit[x] /\ fee'[x] <= MaxFee[x]
  <2>1. /\ credit \in [Assets -> Nat] /\ fee \in [Assets -> Nat]
        /\ MaxCredit \in [Assets -> Nat] /\ MaxFee \in [Assets -> Nat]
        /\ \A x \in Assets : credit[x] <= MaxCredit[x] /\ fee[x] <= MaxFee[x]
    BY Sales, CreditAssumption
  <2> QED BY <1>1, <2>1
<1>3. CreditTypeOK' /\ CreditsDefined'
  <2>1. \A x \in Assets : credit'[x] <= MaxCredit[x] /\ fee'[x] <= MaxFee[x]
    BY <1>2
  <2>2. credit' \in [Assets -> Nat] /\ fee' \in [Assets -> Nat]
    BY <1>2
  <2>3. /\ pending' = pending /\ carry' = carry /\ cursor' = cursor /\ passed' = passed
        /\ interest' = interest /\ feeSale' = feeSale
        /\ value' = value /\ authorized' = authorized
    BY <1>1
  <2> QED BY <2>1, <2>2, <2>3, Sales, TypesKept
<1>4. Open(feeSale)' => \A x \in Assets : feeSale'.lot[x] <= fee'[x]
  <2>1. ASSUME Open(feeSale), NEW x \in Assets
        PROVE  feeSale.lot[x] <= fee'[x]
    <3>1. /\ feeSale.lot[x] \in Nat /\ fee[x] \in Nat /\ fee'[x] \in Nat
          /\ feeSale.lot[x] <= fee[x] /\ fee'[x] >= fee[x]
      BY <1>2, <2>1, Sales
    <3> QED BY <3>1
  <2> QED BY <1>1, <2>1 DEF Open
<1>5. Open(interest)' => /\ Open(interest) /\ interest'.lot = interest.lot
                         /\ interest'.tier = interest.tier
  BY <1>1 DEF Open
<1> QED BY <1>1, <1>2, <1>3, <1>4, <1>5, SplitKept

LEMMA OldersTyped ==
  ASSUME IInv
  PROVE  /\ Older(interest) \in [lot : [Assets -> Nat], bid : Nat, age : 0..Oldest,
                                 tier : 0..Tiers]
         /\ Older(feeSale) \in [lot : [Assets -> Nat], bid : Nat, age : 0..Oldest]
         /\ Older(interest).lot = interest.lot /\ Older(interest).tier = interest.tier
         /\ Older(interest).bid = interest.bid
         /\ Older(feeSale).lot = feeSale.lot /\ Older(feeSale).bid = feeSale.bid
<1>1. Oldest \in Nat
  BY Typing
<1>2. /\ interest.age < Oldest => interest.age + 1 \in 0..Oldest
      /\ feeSale.age < Oldest => feeSale.age + 1 \in 0..Oldest
  BY <1>1, Sales
<1> QED BY <1>2, Sales DEF Older

\* What only moves the environment, or the age of the sales, or nothing.
LEMMA EnvironmentPreserves ==
  ASSUME IInv,
         \/ \E a \in Regulated : SetAuthorized(a)
         \/ \E t \in 1..Tiers, v \in TierValues : SetValue(t, v)
         \/ Tick
         \/ UNCHANGED creditVars
  PROVE  IInv'
<1>1. /\ pending' = pending /\ carry' = carry /\ cursor' = cursor /\ passed' = passed
      /\ credit' = credit /\ fee' = fee
      /\ interest' = interest \/ interest' = Older(interest)
      /\ feeSale' = feeSale \/ feeSale' = Older(feeSale)
  BY DEF SetAuthorized, SetValue, Tick, creditVars
<1>2. value' \in [1..Tiers -> TierValues] /\ authorized' \subseteq Assets
  <2>1. /\ value \in [1..Tiers -> TierValues] /\ authorized \subseteq Assets
        /\ Regulated \subseteq Assets
    BY Sales, CreditAssumption
  <2>2. ASSUME NEW a \in Regulated, SetAuthorized(a)
        PROVE  value' = value /\ authorized' \subseteq Assets
    BY <2>1, <2>2 DEF SetAuthorized
  <2>3. ASSUME NEW t \in 1..Tiers, NEW v \in TierValues, SetValue(t, v)
        PROVE  value' \in [1..Tiers -> TierValues] /\ authorized' = authorized
    BY <2>1, <2>3 DEF SetValue
  <2>4. Tick \/ UNCHANGED creditVars => value' = value /\ authorized' = authorized
    BY DEF Tick, creditVars
  <2> QED BY <2>1, <2>2, <2>3, <2>4
<1>3. CreditTypeOK' /\ CreditsDefined'
  BY <1>1, <1>2, Sales, OldersTyped, TypesKept
<1>4. /\ Open(interest)' => /\ Open(interest) /\ interest'.lot = interest.lot
                            /\ interest'.tier = interest.tier
      /\ Open(feeSale)' => \A a \in Assets : feeSale'.lot[a] <= fee'[a]
  BY <1>1, Sales, OldersTyped DEF Open
<1>5. \A a \in Assets : credit'[a] >= credit[a]
  BY <1>1, Sales
<1> QED BY <1>1, <1>3, <1>4, <1>5, SplitKept

\* A loss shrinks every part of the split with the credit, rounded down, so that the
\* parts still fit in what is left of the credit.
LEMMA ShrunkenPartsFit ==
  ASSUME NEW p, p \in [1..Tiers -> Nat], NEW r \in Nat, NEW c \in Nat \ {0}, NEW l \in 0..c,
         Sum(p) + r <= c,
         NEW q, \A t \in 1..Tiers : q[t] = (p[t] * (c - l)) \div c,
         NEW k, k = (r * (c - l)) \div c
  PROVE  /\ \A t \in 1..Tiers : q[t] \in Nat
         /\ k \in Nat /\ SumOn(q, 1..Tiers) + k <= c - l
<1> DEFINE m == c - l
<1>1. m \in Nat
  OBVIOUS
<1>2. Sum(p) = SumOn(p, 1..Tiers) /\ Sum(p) \in Nat
  BY SumOverTiers
<1>3. \A t \in 1..Tiers : p[t] \in Nat /\ q[t] = (p[t] * m) \div c
  OBVIOUS
<1>4. k = (r * m) \div c
  OBVIOUS
<1> HIDE DEF m
<1>5. /\ \A t \in 1..Tiers : q[t] \in Nat
      /\ SumOn(q, 1..Tiers) \in Nat /\ c * SumOn(q, 1..Tiers) <= m * SumOn(p, 1..Tiers)
  <2> DEFINE S == 1..Tiers
  <2>1. /\ \A t \in S : p[t] \in Nat /\ q[t] = (p[t] * m) \div c
        /\ IsFiniteSet(S) /\ c \in Nat \ {0}
    BY <1>3, TiersFinite
  <2> HIDE DEF S
  <2>2. /\ \A t \in S : q[t] \in Nat
        /\ SumOn(q, S) \in Nat /\ c * SumOn(q, S) <= m * SumOn(p, S)
    BY ONLY <1>1, <2>1, ScaledSum
  <2> QED BY <2>2 DEF S
<1>6. k \in Nat /\ c * k <= r * m
  BY <1>1, <1>4, ProductNat, DivisionBounds
<1>7. c * (SumOn(q, 1..Tiers) + k) <= m * (Sum(p) + r)
  <2> DEFINE sq == SumOn(q, 1..Tiers)
             sp == Sum(p)
  <2>1. sq \in Nat /\ sp \in Nat /\ c * sq <= m * sp
    BY <1>2, <1>5
  <2> HIDE DEF sq, sp
  <2>2. c * (sq + k) = c * sq + c * k /\ m * (sp + r) = m * sp + r * m
    BY <2>1, <1>1, <1>6
  <2>3. c * sq \in Nat /\ c * k \in Nat /\ m * sp \in Nat /\ r * m \in Nat
    BY <2>1, <1>1, <1>6, ProductNat
  <2> QED BY <1>6, <2>1, <2>2, <2>3 DEF sq, sp
<1>8. m * (Sum(p) + r) <= m * c
  BY <1>1, <1>2, ProductMonotone
<1>9. c * (SumOn(q, 1..Tiers) + k) <= m * c
  <2>1. SumOn(q, 1..Tiers) + k \in Nat /\ Sum(p) + r \in Nat /\ c \in Nat
    BY <1>2, <1>5, <1>6
  <2>2. /\ c * (SumOn(q, 1..Tiers) + k) \in Nat /\ m * (Sum(p) + r) \in Nat
        /\ m * c \in Nat
    BY <2>1, <1>1, ProductNat
  <2> QED BY <1>7, <1>8, <2>2
<1>10. SumOn(q, 1..Tiers) + k <= m
  <2>1. c * (SumOn(q, 1..Tiers) + k) = (SumOn(q, 1..Tiers) + k) * c
    BY <1>5, <1>6
  <2> QED BY <1>1, <1>5, <1>6, <1>9, <2>1, ProductCancel
<1> QED BY <1>5, <1>6, <1>10 DEF m

LEMMA ReconcileLossPreserves ==
  ASSUME IInv, NEW a \in Assets, NEW feeLoss \in Losses, NEW creditLoss \in Losses,
         ReconcileLoss(a, feeLoss, creditLoss)
  PROVE  IInv'
<1>1. /\ feeLoss \in 0..fee[a] /\ creditLoss \in 0..credit[a]
      /\ fee' = [fee EXCEPT ![a] = @ - feeLoss]
      /\ credit' = [credit EXCEPT ![a] = @ - creditLoss]
      /\ cursor' = cursor /\ value' = value /\ authorized' = authorized /\ passed' = passed
      /\ creditLoss = 0 => pending' = pending /\ carry' = carry
      /\ creditLoss # 0 =>
           /\ pending' = [pending EXCEPT ![a] =
                             [t \in 1..Tiers |-> Scaled(@[t], a, creditLoss)]]
           /\ carry' = [carry EXCEPT ![a] = Scaled(@, a, creditLoss)]
  BY DEF ReconcileLoss
<1>2. /\ feeSale' = IF feeLoss > 0 /\ feeSale.lot[a] > 0 THEN NoFeeSale ELSE feeSale
      /\ interest' = IF creditLoss > 0 /\ interest.lot[a] > 0 THEN NoInterest ELSE interest
  BY DEF ReconcileLoss, Cancelled
<1>3. CreditTypeOK
  BY Typing
<1>4. /\ credit' \in [Assets -> Nat] /\ fee' \in [Assets -> Nat]
      /\ \A x \in Assets : credit'[x] <= MaxCredit[x] /\ fee'[x] <= MaxFee[x]
      /\ credit'[a] = credit[a] - creditLoss /\ fee'[a] = fee[a] - feeLoss
      /\ \A x \in Assets \ {a} : credit'[x] = credit[x] /\ fee'[x] = fee[x]
  <2>1. /\ credit \in [Assets -> Nat] /\ fee \in [Assets -> Nat]
        /\ MaxCredit \in [Assets -> Nat] /\ MaxFee \in [Assets -> Nat]
        /\ \A x \in Assets : credit[x] <= MaxCredit[x] /\ fee[x] <= MaxFee[x]
    BY Sales, CreditAssumption
  <2>2. credit[a] - creditLoss \in Nat /\ fee[a] - feeLoss \in Nat
        /\ credit[a] - creditLoss <= credit[a] /\ fee[a] - feeLoss <= fee[a]
    BY <1>1, <2>1
  <2> QED BY <1>1, <2>1, <2>2
<1>5. /\ pending' \in [Assets -> [1..Tiers -> Nat]] /\ carry' \in [Assets -> Nat]
      /\ \A x \in Assets : Total(x)' <= credit'[x]
      /\ \A x \in Assets \ {a} : pending'[x] = pending[x]
  <2>1. CASE creditLoss = 0
    <3>1. pending' = pending /\ carry' = carry
      BY <1>1, <2>1
    <3>2. \A x \in Assets : Total(x)' = Total(x) /\ credit'[x] = credit[x]
      BY <1>4, <2>1, <3>1, Typing DEF Total
    <3> QED BY <1>3, <3>1, <3>2, Typing DEF CreditTypeOK
  <2>2. CASE creditLoss # 0
    <3> DEFINE c == credit[a]
               p == pending[a]
               r == carry[a]
               q == [t \in 1..Tiers |-> (p[t] * (c - creditLoss)) \div c]
               k == (r * (c - creditLoss)) \div c
    <3>1. /\ c \in Nat \ {0} /\ creditLoss \in 0..c /\ r \in Nat
          /\ p \in [1..Tiers -> Nat] /\ Sum(p) + r <= c
      BY <1>1, <2>2, Typing
    <3>2. /\ pending' = [pending EXCEPT ![a] = q] /\ carry' = [carry EXCEPT ![a] = k]
      BY <1>1, <2>2 DEF Scaled, DivDown
    <3>3. q \in [1..Tiers -> Nat] /\ k \in Nat /\ Sum(q) + k <= c - creditLoss
      <4>1. /\ \A t \in 1..Tiers : q[t] = (p[t] * (c - creditLoss)) \div c
            /\ k = (r * (c - creditLoss)) \div c
        OBVIOUS
      <4>2. Sum(q) = SumOn(q, 1..Tiers)
        BY SumIsSumOn
      <4>3. /\ \A t \in 1..Tiers : q[t] \in Nat
            /\ k \in Nat /\ SumOn(q, 1..Tiers) + k <= c - creditLoss
        <5> HIDE DEF c, p, r, q, k
        <5> QED BY ONLY <3>1, <4>1, ShrunkenPartsFit
      <4> QED BY <4>2, <4>3
    <3> HIDE DEF q, k
    <3>4. pending \in [Assets -> [1..Tiers -> Nat]] /\ carry \in [Assets -> Nat]
      BY <1>3 DEF CreditTypeOK
    <3>5. /\ pending' \in [Assets -> [1..Tiers -> Nat]] /\ carry' \in [Assets -> Nat]
          /\ pending'[a] = q /\ carry'[a] = k
          /\ \A x \in Assets \ {a} : pending'[x] = pending[x] /\ carry'[x] = carry[x]
      BY <3>2, <3>3, <3>4
    <3>6. Total(a)' <= credit'[a]
      BY <1>4, <3>3, <3>5 DEF Total
    <3>7. \A x \in Assets \ {a} : Total(x)' = Total(x) /\ credit'[x] = credit[x]
      BY <1>4, <3>5 DEF Total
    <3> QED BY <3>5, <3>6, <3>7, Typing
  <2> QED BY <2>1, <2>2
<1>6. /\ interest' \in [lot : [Assets -> Nat], bid : Nat, age : 0..Oldest, tier : 0..Tiers]
      /\ feeSale' \in [lot : [Assets -> Nat], bid : Nat, age : 0..Oldest]
  BY <1>2, Sales, NoSaleTyped
<1>7. CreditTypeOK'
  <2>1. \A x \in Assets : credit'[x] \in 0..MaxCredit[x] /\ fee'[x] \in 0..MaxFee[x]
    <3> SUFFICES ASSUME NEW x \in Assets
                 PROVE  credit'[x] \in 0..MaxCredit[x] /\ fee'[x] \in 0..MaxFee[x]
      OBVIOUS
    <3>1. /\ credit'[x] \in Nat /\ fee'[x] \in Nat /\ MaxCredit[x] \in Nat
          /\ MaxFee[x] \in Nat /\ credit'[x] <= MaxCredit[x] /\ fee'[x] <= MaxFee[x]
      BY <1>4, Typing
    <3> QED BY <3>1
  <2> QED BY <1>1, <1>3, <1>5, <1>6, <2>1 DEF CreditTypeOK
<1>8. CreditsDefined' /\ TierSelected'
  <2>1. TierSelected'
    BY <1>2, NoSaleTyped DEF IInv, TierSelected, Open
  <2> QED BY <1>4, <2>1 DEF CreditsDefined
<1>9. LotsAreBacked'
  <2>1. ASSUME Open(interest)', NEW x \in Assets
        PROVE  interest'.lot[x] <= pending'[x][interest'.tier]
    <3>1. interest' = interest /\ ~(creditLoss > 0 /\ interest.lot[a] > 0) /\ Open(interest)
      BY <1>2, <2>1, NoSaleTyped DEF Open
    <3>2. interest.lot[x] <= pending[x][interest.tier] /\ interest.tier \in 1..Tiers
      BY <3>1 DEF IInv, LotsAreBacked, TierSelected
    <3>3. CASE x # a \/ creditLoss = 0
      <4>1. pending'[x] = pending[x]
        BY <1>1, <1>5, <3>3
      <4> QED BY <3>1, <3>2, <4>1
    <3>4. CASE x = a /\ creditLoss # 0
      <4>1. interest.lot[a] \in Nat /\ creditLoss \in Nat
        BY <1>1, Sales
      <4>2. interest.lot[a] = 0
        BY <3>1, <3>4, <4>1
      <4>3. pending'[a][interest.tier] \in Nat
        BY <1>5, <3>2
      <4> QED BY <3>1, <3>4, <4>2, <4>3
    <3> QED BY <3>3, <3>4
  <2>2. ASSUME Open(feeSale)', NEW x \in Assets
        PROVE  feeSale'.lot[x] <= fee'[x]
    <3>1. feeSale' = feeSale /\ ~(feeLoss > 0 /\ feeSale.lot[a] > 0) /\ Open(feeSale)
      BY <1>2, <2>2, NoSaleTyped DEF Open
    <3>2. feeSale.lot[x] <= fee[x] /\ feeSale.lot[x] \in Nat /\ fee[x] \in Nat
      BY <3>1, Sales
    <3>3. CASE x # a
      BY <1>4, <3>1, <3>2, <3>3
    <3>4. CASE x = a
      <4>1. fee'[a] \in Nat /\ fee'[a] = fee[a] - feeLoss /\ feeLoss \in Nat
        BY <1>1, <1>4
      <4> QED BY <3>1, <3>2, <3>4, <4>1
    <3> QED BY <3>3, <3>4
  <2> QED BY <2>1, <2>2 DEF LotsAreBacked
<1>10. TurnsAdvance'
  BY <1>1 DEF IInv, TurnsAdvance, Distance
<1> QED BY <1>5, <1>7, <1>8, <1>9, <1>10 DEF IInv, PendingIsBacked

LEMMA NextIInv == IInv /\ [CreditNext]_creditVars => IInv'
<1> SUFFICES ASSUME IInv, [CreditNext]_creditVars PROVE IInv'
  OBVIOUS
<1>1. ASSUME NEW list \in Lists, CreateInterest(list) PROVE IInv'
  BY <1>1, CreateInterestPreserves
<1>2. ASSUME NEW list \in Lists, CreateFeeSale(list) PROVE IInv'
  BY <1>2, CreateFeeSalePreserves
<1>3. ASSUME NEW pct \in Percents, FillInterest(pct) PROVE IInv'
  BY <1>3, FillInterestPreserves
<1>4. ASSUME NEW pct \in Percents, FillFeeSale(pct) PROVE IInv'
  BY <1>4, FillFeeSalePreserves
<1>5. DeleteInterest \/ DeleteFeeSale => IInv'
  BY DeletePreserves
<1>6. ASSUME NEW a \in Assets, NEW feeLoss \in Losses, NEW creditLoss \in Losses,
             ReconcileLoss(a, feeLoss, creditLoss)
      PROVE  IInv'
  BY <1>6, ReconcileLossPreserves
<1>7. ASSUME NEW a \in Assets, Accrue(a) PROVE IInv'
  BY <1>7, AccruePreserves
<1>8. CASE \/ \E a \in Regulated : SetAuthorized(a)
           \/ \E t \in 1..Tiers, v \in TierValues : SetValue(t, v)
           \/ Tick
           \/ UNCHANGED creditVars
  BY <1>8, EnvironmentPreserves
<1> QED BY <1>1, <1>2, <1>3, <1>4, <1>5, <1>6, <1>7, <1>8 DEF CreditNext

LEMMA Invariance == CreditSpec => []IInv
BY InitIInv, NextIInv, PTL DEF CreditSpec

------------------------------------------------------------------------------
(* The theorems *)

\* What the split of take-rate credit (tier_interest.rs) has set aside for the tiers,
\* with the carry, stays within the reserve's credit for any number of tiers and any
\* weights and values: every split rounds down and books the rest as carry, every fill
\* takes the same from both sides, every loss shrinks the parts at least as much as
\* the credit.
THEOREM SplitsStayBacked == CreditSpec => []PendingIsBacked
<1>1. IInv => PendingIsBacked
  BY DEF IInv
<1> QED BY <1>1, Invariance, PTL

\* What an open interest or protocol-fee auction still offers is still owned: in the
\* part of the tier it sells to, or in the protocol credit, through partial fills,
\* later splits, and losses, which cancel the auction that quoted what was lost.
THEOREM LotsStayBacked == CreditSpec => []LotsAreBacked
<1>1. IInv => LotsAreBacked
  BY DEF IInv
<1> QED BY <1>1, Invariance, PTL

\* A tier with a full lot at every interest auction is passed over by at most all the
\* other tiers in a row (select_interest_tier and the cursor), for any number of tiers.
THEOREM TurnsComeRound == CreditSpec => []EveryTierGetsItsTurn
<1>1. IInv => EveryTierGetsItsTurn
  <2> SUFFICES ASSUME IInv, NEW t \in 1..Tiers PROVE passed[t] < Tiers
    BY DEF EveryTierGetsItsTurn
  <2>1. Tiers \in Nat \ {0} /\ cursor \in 1..Tiers /\ passed[t] \in Nat
    BY Typing, CreditAssumption DEF CreditTypeOK
  <2>2. Distance(t) = IF t >= cursor THEN t - cursor ELSE t - cursor + Tiers
    BY <2>1, Turning DEF Distance
  <2>3. Distance(t) \in Nat
    BY <2>1, <2>2
  <2>4. passed[t] + Distance(t) < Tiers
    BY DEF IInv, TurnsAdvance
  <2> QED BY <2>1, <2>3, <2>4
<1> QED BY <1>1, Invariance, PTL

================================================================================
