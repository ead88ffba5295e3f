----------------------------- MODULE LiquidationProofs -----------------------------
(***************************************************************************)
(* Theorems about LiquidationAuction, for every set of reserves, prices,   *)
(* factors, positions, and sizes of fills.                                 *)
(***************************************************************************)
EXTENDS LiquidationAuction, LedgerLemmas

\* Without an auction nothing is offered.
NothingOffered == ~Live => auction = NoAuction

\* A forced exit asks for all the owner's debt as long as the bid is not
\* discounted: nobody but a fill changes the debt meanwhile.
ExitAsksForAll == auction.kind = "exit" /\ auction.age - 1 <= Ramp => auction.bid = debt

\* And it always offers something: a lot is exhausted by a fill of the whole alone.
ExitOffersSomething == auction.kind = "exit" => Holds(auction.lot) # {}

IInv == SoldIsOwned /\ NothingOffered /\ ExitAsksForAll /\ ExitOffersSomething

------------------------------------------------------------------------------
(* Sums *)

LEMMA TotalIsSum ==
  ASSUME NEW f, DOMAIN f = Reserves
  PROVE  Total(f) = SumOn(f, Reserves)
BY DEF Total, SumOn, FoldFunction

\* Taking something from anywhere lowers the total.
LEMMA LessIsLess ==
  ASSUME NEW f \in [Reserves -> Nat], NEW g \in [Reserves -> Nat],
         \A r \in Reserves : g[r] <= f[r],
         NEW z \in Reserves, g[z] < f[z]
  PROVE  Total(g) < Total(f)
<1>1. /\ IsFiniteSet(Reserves)
      /\ \A r \in Reserves : f[r] \in Int /\ g[r] \in Int /\ g[r] <= f[r]
  BY LiquidationAssumption
<1>2. SumOn(f, Reserves) = f[z] + SumOn(f, Reserves \ {z})
  BY <1>1, SumRemove
<1>3. SumOn(g, Reserves) = g[z] + SumOn(g, Reserves \ {z})
  BY <1>1, SumRemove
<1>4. IsFiniteSet(Reserves \ {z}) /\ \A r \in Reserves \ {z} : f[r] \in Int /\ g[r] \in Int
  BY <1>1, FS_Subset
<1>5. SumOn(g, Reserves \ {z}) <= SumOn(f, Reserves \ {z})
  BY <1>1, <1>4, SumMonotone
<1>6. SumOn(f, Reserves \ {z}) \in Int /\ SumOn(g, Reserves \ {z}) \in Int
  BY <1>4, SumInt
<1>7. Total(f) = SumOn(f, Reserves) /\ Total(g) = SumOn(g, Reserves)
  BY TotalIsSum
<1>8. f[z] \in Int /\ g[z] \in Int
  OBVIOUS
<1> QED BY ONLY <1>2, <1>3, <1>5, <1>6, <1>7, <1>8, g[z] < f[z]

LEMMA QuotientMonotone ==
  ASSUME NEW m \in Nat, NEW n \in Nat, NEW w \in Nat \ {0}, m <= n
  PROVE  m \div w \in Nat /\ n \div w \in Nat /\ m \div w <= n \div w
<1>1. m \div w \in Nat /\ w * (m \div w) <= m /\ n \div w \in Nat
  BY DivisionBounds
<1>2. w * (m \div w) <= n
  BY <1>1
<1> QED BY <1>1, <1>2, DivisionLargest

------------------------------------------------------------------------------
(* The value of positions *)

\* A factor lowers the value of collateral.
LEMMA CollateralValue ==
  ASSUME NEW p \in Nat, NEW x \in Nat, NEW f \in 0..Scale
  PROVE  LET whole == DivDown(p, x, Unit)
             weighted == DivDown(p, DivDown(x, f, Scale), Unit)
         IN whole \in Nat /\ weighted \in Nat /\ weighted <= whole
<1> DEFINE y == (x * f) \div Scale
<1>1. y \in 0..x
  BY PartRoundedDown, LiquidationAssumption
<1> HIDE DEF y
<1>2. p * y \in Nat /\ p * x \in Nat /\ p * y <= p * x
  BY <1>1, ProductNat, ProductMonotone
<1>3. (p * y) \div Unit \in Nat /\ (p * x) \div Unit \in Nat
      /\ (p * y) \div Unit <= (p * x) \div Unit
  <2> DEFINE m == p * y
             n == p * x
  <2>1. m \in Nat /\ n \in Nat /\ m <= n /\ Unit \in Nat \ {0}
    BY <1>2, LiquidationAssumption
  <2> HIDE DEF m, n
  <2>2. m \div Unit \in Nat /\ n \div Unit \in Nat /\ m \div Unit <= n \div Unit
    BY <2>1, QuotientMonotone
  <2> QED BY <2>2 DEF m, n
<1> QED BY <1>3 DEF DivDown, y

\* A factor raises the value of debt, and no debt is worth nothing.
LEMMA DebtValue ==
  ASSUME NEW p \in Nat \ {0}, NEW x \in Nat, NEW f \in 1..Scale
  PROVE  LET whole == DivUp(p, x, Unit)
             weighted == DivUp(p, DivUp(x, Scale, f), Unit)
         IN /\ whole \in Nat /\ weighted \in Nat /\ whole <= weighted
            /\ whole = 0 => weighted = 0
<1> DEFINE y == (x * Scale + f - 1) \div f
<1>0. Scale \in Nat /\ Unit \in Nat \ {0} /\ f \in Nat \ {0} /\ f <= Scale
  BY LiquidationAssumption
<1>1. x * Scale \in Nat /\ x * f \in Nat /\ f * x = x * f /\ x * f <= x * Scale
  BY <1>0, ProductNat, ProductMonotone
<1>2. x * Scale + f - 1 \in Nat /\ f * x <= x * Scale + f - 1
  BY <1>0, <1>1
<1>3. y \in Nat /\ x <= y
  BY <1>0, <1>2, DivisionBounds, DivisionLargest
<1>4. x = 0 => y = 0
  <2>1. ASSUME x = 0 PROVE y = 0
    <3>1. x * Scale = 0
      BY <1>0, <2>1
    <3>2. (f - 1) \div f = 0
      BY <1>0
    <3> QED BY <1>0, <3>1, <3>2
  <2> QED BY <2>1
<1> HIDE DEF y
<1>5. p * x \in Nat /\ p * y \in Nat /\ p * x <= p * y
  BY <1>3, ProductNat, ProductMonotone
<1> DEFINE m == p * x + Unit - 1
           n == p * y + Unit - 1
<1>6. m \in Nat /\ n \in Nat /\ m <= n
  BY <1>0, <1>5
<1>7. m \div Unit \in Nat /\ n \div Unit \in Nat /\ m \div Unit <= n \div Unit
  <2> HIDE DEF m, n
  <2> QED BY <1>0, <1>6, QuotientMonotone
<1>8. ASSUME m \div Unit = 0 PROVE n \div Unit = 0
  <2>1. m < Unit
    <3> HIDE DEF m
    <3>1. m < Unit * (m \div Unit) + Unit
      BY <1>0, <1>6, DivisionBounds
    <3> QED BY <1>0, <1>6, <1>8, <3>1
  <2>2. p * x < 1
    BY <1>0, <1>5, <2>1
  <2>3. x = 0
    <3>1. ASSUME x >= 1 PROVE FALSE
      <4>1. 1 * p <= x * p /\ x * p = p * x
        BY <3>1, ProductMonotone
      <4> QED BY <1>5, <2>2, <4>1
    <3> QED BY <3>1
  <2>4. p * y = p * x
    BY <1>4, <2>3
  <2>5. n = m
    BY <2>4
  <2> QED BY <1>8, <2>5
<1> QED BY <1>7, <1>8 DEF DivUp, y

LEMMA AssetIsAmount == \A r \in Reserves, x \in Nat : Asset(r, x) \in Nat
BY DEF Asset

\* The factors only widen the gap between debt and collateral.
LEMMA DataBounds ==
  ASSUME LiquidationTypeOK, NEW c \in [Reserves -> Nat], NEW d \in [Reserves -> Nat]
  PROVE  LET data == Data(c, d)
         IN /\ data.rawIn \in Nat /\ data.baseIn \in 0..data.rawIn
            /\ data.rawOut \in Nat /\ data.baseOut \in Nat /\ data.rawOut <= data.baseOut
            /\ data.rawOut = 0 => data.baseOut = 0
<1> DEFINE ri == [r \in Reserves |-> DivDown(price[r], Asset(r, c[r]), Unit)]
           bi == [r \in Reserves |->
                    IF r \in blocked THEN 0
                    ELSE DivDown(price[r], DivDown(Asset(r, c[r]), cFactor[r], Scale), Unit)]
           ro == [r \in Reserves |-> DivUp(price[r], d[r], Unit)]
           bo == [r \in Reserves |-> DivUp(price[r], DivUp(d[r], Scale, LFactor[r]), Unit)]
           data == Data(c, d)
<1>1. /\ \A r \in Reserves : price[r] \in Nat \ {0} /\ cFactor[r] \in 0..Scale
                             /\ LFactor[r] \in 1..Scale
      /\ IsFiniteSet(Reserves)
  BY LiquidationAssumption DEF LiquidationTypeOK
<1>2. /\ data.rawIn = SumOn(ri, Reserves) /\ data.baseIn = SumOn(bi, Reserves)
      /\ data.rawOut = SumOn(ro, Reserves) /\ data.baseOut = SumOn(bo, Reserves)
  <2>1. /\ data.rawIn = Total(ri) /\ data.baseIn = Total(bi)
        /\ data.rawOut = Total(ro) /\ data.baseOut = Total(bo)
    BY DEF Data
  <2>2. DOMAIN ri = Reserves /\ DOMAIN bi = Reserves /\ DOMAIN ro = Reserves
        /\ DOMAIN bo = Reserves
    OBVIOUS
  <2> HIDE DEF data, ri, bi, ro, bo
  <2> QED BY <2>1, <2>2, TotalIsSum
<1>3. \A r \in Reserves : ri[r] \in Nat /\ bi[r] \in Nat /\ bi[r] <= ri[r]
  <2> SUFFICES ASSUME NEW r \in Reserves
               PROVE  ri[r] \in Nat /\ bi[r] \in Nat /\ bi[r] <= ri[r]
    OBVIOUS
  <2> DEFINE x == Asset(r, c[r])
  <2>1. x \in Nat
    BY AssetIsAmount
  <2> HIDE DEF x
  <2>2. /\ DivDown(price[r], x, Unit) \in Nat
        /\ DivDown(price[r], DivDown(x, cFactor[r], Scale), Unit) \in Nat
        /\ DivDown(price[r], DivDown(x, cFactor[r], Scale), Unit) <= DivDown(price[r], x, Unit)
    BY <1>1, <2>1, CollateralValue
  <2> QED BY <2>2 DEF x
<1>4. \A r \in Reserves : /\ ro[r] \in Nat /\ bo[r] \in Nat /\ ro[r] <= bo[r]
                          /\ ro[r] = 0 => bo[r] = 0
  BY <1>1, DebtValue
<1> HIDE DEF ri, bi, ro, bo, data
<1>5. SumOn(ri, Reserves) \in Nat /\ SumOn(bi, Reserves) \in Nat
      /\ SumOn(ro, Reserves) \in Nat /\ SumOn(bo, Reserves) \in Nat
  BY <1>1, <1>3, <1>4, SumNat
<1>6. \A r \in Reserves : ri[r] \in Int /\ bi[r] \in Int /\ ro[r] \in Int /\ bo[r] \in Int
  BY <1>3, <1>4
<1>7. SumOn(bi, Reserves) <= SumOn(ri, Reserves) /\ SumOn(ro, Reserves) <= SumOn(bo, Reserves)
  BY <1>1, <1>3, <1>4, <1>6, SumMonotone
<1>8. ASSUME SumOn(ro, Reserves) = 0 PROVE SumOn(bo, Reserves) = 0
  <2>1. \A r \in Reserves : ro[r] = 0
    <3>1. \A r \in Reserves : ro[r] <= SumOn(ro, Reserves)
      BY <1>1, <1>4, SumAtLeast
    <3> QED BY <1>4, <1>8, <3>1
  <2>2. \A r \in Reserves : ro[r] = bo[r]
    BY <1>4, <2>1
  <2> QED BY <1>1, <1>8, <2>2, SumAgree
<1>9. /\ data.rawIn \in Nat /\ data.baseIn \in 0..data.rawIn
      /\ data.rawOut \in Nat /\ data.baseOut \in Nat /\ data.rawOut <= data.baseOut
      /\ data.rawOut = 0 => data.baseOut = 0
  BY <1>2, <1>5, <1>7, <1>8
<1> QED BY <1>9 DEF data

\* The incentive is at least one: nothing is sold below the debt it pays.
LEMMA IncentiveIsOne ==
  ASSUME NEW data, data.rawIn \in Nat \ {0}, data.rawOut \in Nat \ {0},
         data.baseIn \in 0..data.rawIn, data.baseOut \in Nat, data.rawOut <= data.baseOut
  PROVE  Incentive(data) \in Nat /\ Incentive(data) >= Scale
<1> DEFINE cf == (data.baseIn * Scale) \div data.rawIn
           lf == (data.baseOut * Scale) \div data.rawOut
<1>0. Scale \in Nat /\ Scale >= 100
  BY LiquidationAssumption
<1>1. cf \in 0..Scale
  <2>1. (Scale * data.baseIn) \div data.rawIn \in 0..Scale
    BY <1>0, PartRoundedDown
  <2>2. Scale * data.baseIn = data.baseIn * Scale
    BY <1>0
  <2> QED BY <2>1, <2>2
<1>2. lf \in Nat /\ Scale <= lf
  <2>1. data.baseOut * Scale \in Nat /\ data.rawOut * Scale <= data.baseOut * Scale
    BY <1>0, ProductNat, ProductMonotone
  <2> DEFINE n == data.baseOut * Scale
  <2>2. n \in Nat /\ data.rawOut * Scale <= n
    BY <2>1
  <2> HIDE DEF n
  <2>3. n \div data.rawOut \in Nat /\ Scale <= n \div data.rawOut
    BY <1>0, <2>2, DivisionBounds, DivisionLargest
  <2> QED BY <2>3 DEF n
<1> HIDE DEF cf, lf
<1>3. lf \in Nat \ {0} /\ cf \in 0..lf
  BY <1>0, <1>1, <1>2
<1> DEFINE x == (Scale * cf + lf - 1) \div lf
<1>4. x \in 0..Scale
  BY <1>0, <1>3, PartRoundedUp
<1>5. x = DivUp(cf, Scale, lf)
  <2>1. Scale * cf = cf * Scale
    BY <1>0, <1>1
  <2> QED BY <2>1 DEF DivUp
<1> HIDE DEF x
<1>6. DivUp(Scale - x, Scale, 2 * Scale) \in Nat
  <2>1. (Scale - x) * Scale \in Nat
    BY <1>0, <1>4, ProductNat
  <2> DEFINE n == (Scale - x) * Scale + 2 * Scale - 1
  <2>2. n \in Nat /\ 2 * Scale \in Nat \ {0}
    BY <1>0, <2>1
  <2> HIDE DEF n
  <2>3. n \div (2 * Scale) \in Nat
    BY <2>2, DivisionBounds
  <2> QED BY <2>3 DEF n, DivUp
<1>7. Incentive(data) = Scale + DivUp(Scale - x, Scale, 2 * Scale)
  BY <1>5 DEF Incentive, DivDown, cf, lf
<1> QED BY <1>0, <1>6, <1>7

------------------------------------------------------------------------------
(* What an auction offers when it is created *)

LEMMA PartIsPart ==
  ASSUME NEW f \in [Reserves -> Nat], NEW part \in 0..Scale
  PROVE  /\ Part(f, part) \in [Reserves -> Nat]
         /\ \A r \in Reserves : /\ Part(f, part)[r] <= f[r]
                                /\ part > 0 /\ f[r] > 0 => Part(f, part)[r] > 0
<1>1. ASSUME NEW r \in Reserves
      PROVE  /\ DivUp(f[r], part, Scale) \in 0..f[r]
             /\ part > 0 /\ f[r] > 0 => DivUp(f[r], part, Scale) > 0
  <2> DEFINE v == f[r]
             x == (v * part + Scale - 1) \div Scale
  <2>1. v \in Nat /\ Scale \in Nat \ {0}
    BY LiquidationAssumption
  <2> HIDE DEF v
  <2>2. x \in 0..v /\ Scale * x >= v * part
    BY <2>1, PartRoundedUp
  <2>3. ASSUME part > 0, v > 0 PROVE x > 0
    <3>1. 1 * part <= v * part
      BY <2>1, <2>3, ProductMonotone
    <3>2. v * part \in Nat
      BY <2>1, ProductNat
    <3> HIDE DEF x
    <3>3. ASSUME x = 0 PROVE FALSE
      BY <2>1, <2>2, <2>3, <3>1, <3>2, <3>3
    <3> QED BY <2>2, <3>3
  <2> QED BY <2>2, <2>3 DEF DivUp, v
<1>2. \A r \in Reserves : f[r] \in Nat
  OBVIOUS
<1> QED BY <1>1, <1>2 DEF Part

LEMMA OnlyIsLess ==
  ASSUME NEW f \in [Reserves -> Nat], NEW S
  PROVE  Only(f, S) \in [Reserves -> Nat] /\ \A r \in Reserves : Only(f, S)[r] <= f[r]
BY DEF Only

LEMMA PercentIsRatio == \A p \in Percents : Percent(p) \in 0..Scale
<1> SUFFICES ASSUME NEW p \in Percents PROVE Percent(p) \in 0..Scale
  OBVIOUS
<1>1. p \in 0..100 /\ Scale \in Nat
  BY LiquidationAssumption DEF Percents
<1>2. (Scale * p) \div 100 \in 0..Scale
  BY <1>1, PartRoundedDown
<1>3. Scale * p = p * Scale
  BY <1>1
<1> QED BY <1>2, <1>3 DEF Percent

\* The part of the lot that pays for w of debt is a part, and not nothing if w is not.
LEMMA WantedIsPart ==
  ASSUME NEW w \in Nat, NEW rawIn \in Nat \ {0}
  PROVE  LET wanted == DivUp(w, Scale, rawIn)
             part == IF wanted > Scale THEN Scale ELSE wanted
         IN part \in 0..Scale /\ (w > 0 => part > 0)
<1> DEFINE n == w * Scale + rawIn - 1
           wanted == n \div rawIn
<1>1. Scale \in Nat /\ Scale >= 100
  BY LiquidationAssumption
<1>2. w * Scale \in Nat
  BY <1>1, ProductNat
<1>3. n \in Nat
  BY <1>2
<1>4. ASSUME w > 0 PROVE 1 <= wanted
  <2>1. 1 * Scale <= w * Scale
    BY <1>1, <1>4, ProductMonotone
  <2>2. rawIn * 1 <= n
    BY <1>1, <1>2, <2>1
  <2> HIDE DEF n
  <2> QED BY <1>3, <2>2, DivisionLargest
<1>5. wanted \in Nat
  <2> HIDE DEF n
  <2> QED BY <1>3, DivisionBounds
<1>6. DivUp(w, Scale, rawIn) = wanted
  BY DEF DivUp
<1> HIDE DEF wanted
<1> QED BY <1>1, <1>4, <1>5, <1>6

LEMMA QuoteIsOwned ==
  ASSUME LiquidationTypeOK, NEW lots \in SUBSET Reserves, NEW bids \in SUBSET Reserves,
         NEW pct \in Percents,
         Data(Only(collateral, lots), Only(debt, bids)).rawIn > 0,
         Data(Only(collateral, lots), Only(debt, bids)).baseOut > 0
  PROVE  LET q == Quote(lots, bids, pct)
         IN /\ q.lot \in [Reserves -> Nat] /\ q.bid \in [Reserves -> Nat]
            /\ \A r \in Reserves : q.lot[r] <= collateral[r] /\ q.bid[r] <= debt[r]
<1>0. collateral \in [Reserves -> Nat] /\ debt \in [Reserves -> Nat] /\ Scale \in Nat
  BY LiquidationAssumption DEF LiquidationTypeOK
<1>1. PICK c : c = Only(collateral, lots)
  OBVIOUS
<1>2. PICK d : d = Only(debt, bids)
  OBVIOUS
<1>3. /\ c \in [Reserves -> Nat] /\ \A r \in Reserves : c[r] <= collateral[r]
      /\ d \in [Reserves -> Nat] /\ \A r \in Reserves : d[r] <= debt[r]
  BY <1>0, <1>1, <1>2, OnlyIsLess
<1>4. PICK data : data = Data(c, d)
  OBVIOUS
<1>5. /\ data.rawIn \in Nat /\ data.baseIn \in 0..data.rawIn
      /\ data.rawOut \in Nat /\ data.baseOut \in Nat /\ data.rawOut <= data.baseOut
      /\ data.rawOut = 0 => data.baseOut = 0
      /\ data.rawIn > 0 /\ data.baseOut > 0
  BY <1>1, <1>2, <1>3, <1>4, DataBounds
<1>6. Incentive(data) \in Nat
  BY <1>5, IncentiveIsOne
<1>7. Percent(pct) \in 0..Scale
  BY PercentIsRatio
<1> DEFINE paid == DivDown(data.rawOut, Percent(pct), Scale)
           withdrawn == DivDown(paid, Incentive(data), Scale)
           wanted == DivUp(withdrawn, Scale, data.rawIn)
           part == IF wanted > Scale THEN Scale ELSE wanted
<1>8. withdrawn \in Nat
  <2>0. Scale \in Nat \ {0}
    BY LiquidationAssumption
  <2>1. data.rawOut * Percent(pct) \in Nat
    BY <1>5, <1>7, ProductNat
  <2>2. paid \in Nat
    BY <2>0, <2>1, DivisionBounds DEF DivDown
  <2> HIDE DEF paid
  <2>3. paid * Incentive(data) \in Nat
    BY <1>6, <2>2, ProductNat
  <2> QED BY <2>0, <2>3, DivisionBounds DEF DivDown
<1> HIDE DEF withdrawn
<1>9. part \in 0..Scale
  BY <1>5, <1>8, WantedIsPart
<1>10. Quote(lots, bids, pct).lot = Part(c, part)
       /\ Quote(lots, bids, pct).bid = Part(d, Percent(pct))
  BY <1>1, <1>2, <1>4 DEF Quote, withdrawn
<1> HIDE DEF part
<1>11. /\ Part(c, part) \in [Reserves -> Nat]
       /\ \A r \in Reserves : Part(c, part)[r] <= c[r]
       /\ Part(d, Percent(pct)) \in [Reserves -> Nat]
       /\ \A r \in Reserves : Part(d, Percent(pct))[r] <= d[r]
  BY <1>3, <1>7, <1>9, PartIsPart
<1>12. \A r \in Reserves : Part(c, part)[r] <= collateral[r]
                           /\ Part(d, Percent(pct))[r] <= debt[r]
  BY <1>0, <1>3, <1>11
<1> QED BY <1>10, <1>11, <1>12

LEMMA OfferIsOwned ==
  ASSUME LiquidationTypeOK, NEW lots \in SUBSET Reserves, NEW bids \in SUBSET Reserves,
         NEW pct \in Percents, Accepts(lots, bids, pct)
  PROVE  LET o == Offer(lots, bids, pct)
         IN /\ o.kind = "liquidation" /\ o.age = 0
            /\ o \in [kind : {"none", "liquidation", "exit"}, age : 0..(StaleLedgers + 1),
                      bid : [Reserves -> Nat], lot : [Reserves -> Nat]]
            /\ \A r \in Reserves : o.lot[r] <= collateral[r] /\ o.bid[r] <= debt[r]
<1> DEFINE o == Offer(lots, bids, pct)
           q == Quote(lots, bids, pct)
<1>0. collateral \in [Reserves -> Nat] /\ debt \in [Reserves -> Nat] /\ StaleLedgers \in Nat
  BY LiquidationAssumption DEF LiquidationTypeOK
<1>1. /\ q.lot \in [Reserves -> Nat] /\ q.bid \in [Reserves -> Nat]
      /\ \A r \in Reserves : q.lot[r] <= collateral[r] /\ q.bid[r] <= debt[r]
  <2>1. /\ Data(Only(collateral, lots), Only(debt, bids)).rawIn > 0
        /\ Data(Only(collateral, lots), Only(debt, bids)).baseOut > 0
    BY DEF Accepts
  <2> QED BY <2>1, QuoteIsOwned
<1>2. /\ Only(collateral, lots) \in [Reserves -> Nat] /\ Only(debt, bids) \in [Reserves -> Nat]
      /\ \A r \in Reserves : /\ Only(collateral, lots)[r] <= collateral[r]
                             /\ Only(debt, bids)[r] <= debt[r]
  BY <1>0, OnlyIsLess
<1>3. \E lot \in {q.lot, Only(collateral, lots)}, bid \in {q.bid, Only(debt, bids)} :
        o = [kind |-> "liquidation", age |-> 0, lot |-> lot, bid |-> bid]
  <2> HIDE DEF q
  <2> QED BY DEF Offer, q
<1>4. PICK lot \in {q.lot, Only(collateral, lots)}, bid \in {q.bid, Only(debt, bids)} :
        o = [kind |-> "liquidation", age |-> 0, lot |-> lot, bid |-> bid]
  BY <1>3
<1>5. /\ lot \in [Reserves -> Nat] /\ bid \in [Reserves -> Nat]
      /\ \A r \in Reserves : lot[r] <= collateral[r] /\ bid[r] <= debt[r]
  BY <1>1, <1>2
<1> HIDE DEF o, q
<1>6. /\ o.kind = "liquidation" /\ o.age = 0
      /\ o \in [kind : {"none", "liquidation", "exit"}, age : 0..(StaleLedgers + 1),
                bid : [Reserves -> Nat], lot : [Reserves -> Nat]]
      /\ \A r \in Reserves : o.lot[r] <= collateral[r] /\ o.bid[r] <= debt[r]
  <2>1. 0 \in 0..(StaleLedgers + 1)
    BY <1>0
  <2> QED BY <1>4, <1>5, <2>1
<1> QED BY <1>6 DEF o

LEMMA ExitOfferIsOwned ==
  ASSUME LiquidationTypeOK,
         Data(collateral, debt).rawOut > 0, Data(collateral, debt).rawIn > 0
  PROVE  LET o == ExitOffer
         IN /\ o.kind = "exit" /\ o.age = 0 /\ o.bid = debt
            /\ o \in [kind : {"none", "liquidation", "exit"}, age : 0..(StaleLedgers + 1),
                      bid : [Reserves -> Nat], lot : [Reserves -> Nat]]
            /\ \A r \in Reserves : o.lot[r] <= collateral[r]
            /\ Holds(o.lot) # {}
<1>0. collateral \in [Reserves -> Nat] /\ debt \in [Reserves -> Nat] /\ Scale \in Nat
      /\ Scale >= 100 /\ StaleLedgers \in Nat /\ IsFiniteSet(Reserves)
  BY LiquidationAssumption DEF LiquidationTypeOK
<1>1. PICK c : c = collateral
  OBVIOUS
<1>2. PICK d : d = debt
  OBVIOUS
<1>3. PICK data : data = Data(c, d)
  OBVIOUS
<1>4. /\ data.rawIn \in Nat \ {0} /\ data.baseIn \in 0..data.rawIn
      /\ data.rawOut \in Nat \ {0} /\ data.baseOut \in Nat /\ data.rawOut <= data.baseOut
  <2>1. /\ data.rawIn \in Nat /\ data.baseIn \in 0..data.rawIn
        /\ data.rawOut \in Nat /\ data.baseOut \in Nat /\ data.rawOut <= data.baseOut
    BY <1>0, <1>1, <1>2, <1>3, DataBounds
  <2> QED BY <1>1, <1>2, <1>3, <2>1
<1>5. Incentive(data) \in Nat /\ Incentive(data) >= Scale
  BY <1>4, IncentiveIsOne
<1> DEFINE sold == DivDown(data.rawOut, Incentive(data), Scale)
           wanted == DivUp(sold, Scale, data.rawIn)
           part == IF wanted > Scale THEN Scale ELSE wanted
<1>6. sold \in Nat /\ sold > 0
  <2>1. PICK i \in Nat : i = Incentive(data) /\ i >= Scale
    BY <1>5
  <2>2. data.rawOut * i \in Nat /\ 1 * i <= data.rawOut * i
    BY <1>4, ProductNat, ProductMonotone
  <2> DEFINE n == data.rawOut * i
  <2>3. n \in Nat /\ Scale * 1 <= n
    BY <1>0, <2>1, <2>2
  <2> HIDE DEF n
  <2>4. n \div Scale \in Nat /\ 1 <= n \div Scale
    BY <1>0, <2>3, DivisionBounds, DivisionLargest
  <2> QED BY <2>1, <2>4 DEF DivDown, n
<1> HIDE DEF sold
<1>7. part \in 0..Scale /\ part > 0
  BY <1>4, <1>6, WantedIsPart
<1>8. ExitOffer = [kind |-> "exit", age |-> 0, lot |-> Part(c, part), bid |-> d]
  BY <1>1, <1>2, <1>3 DEF ExitOffer, sold
<1> HIDE DEF part
<1>9. /\ Part(c, part) \in [Reserves -> Nat]
      /\ \A r \in Reserves : /\ Part(c, part)[r] <= c[r]
                             /\ c[r] > 0 => Part(c, part)[r] > 0
  BY <1>0, <1>1, <1>7, PartIsPart
<1>10. \E r \in Reserves : c[r] > 0
  <2>1. SUFFICES ASSUME \A r \in Reserves : c[r] = 0 PROVE FALSE
    BY <1>0, <1>1
  <2> DEFINE ri == [r \in Reserves |-> DivDown(price[r], Asset(r, c[r]), Unit)]
  <2>2. \A r \in Reserves : ri[r] = 0
    <3> SUFFICES ASSUME NEW r \in Reserves PROVE DivDown(price[r], Asset(r, c[r]), Unit) = 0
      OBVIOUS
    <3>1. Asset(r, c[r]) = 0
      BY <2>1 DEF Asset
    <3>2. price[r] \in Nat /\ Unit \in Nat \ {0}
      BY LiquidationAssumption DEF LiquidationTypeOK
    <3>3. price[r] * 0 = 0 /\ 0 \div Unit = 0
      BY <3>2
    <3> QED BY <3>1, <3>3 DEF DivDown
  <2>3. data.rawIn = Total(ri)
    BY <1>3 DEF Data
  <2>4. DOMAIN ri = Reserves
    OBVIOUS
  <2> HIDE DEF ri
  <2>5. data.rawIn = SumOn(ri, Reserves)
    BY <2>3, <2>4, TotalIsSum
  <2>6. SumOn(ri, Reserves) = 0
    BY <1>0, <2>2, SumZero
  <2> QED BY <1>4, <2>5, <2>6
<1>11. Holds(Part(c, part)) # {}
  BY <1>9, <1>10 DEF Holds
<1>12. 0 \in 0..(StaleLedgers + 1)
  BY <1>0
<1> QED BY <1>0, <1>1, <1>2, <1>8, <1>9, <1>11, <1>12

------------------------------------------------------------------------------
(* A fill *)

LEMMA ScaledLot ==
  ASSUME NEW amount \in Nat, NEW pct \in Percents, NEW elapsed \in Nat
  PROVE  LET lot == ScaleLot(amount, pct, elapsed)
         IN /\ lot.actual \in 0..amount /\ lot.remaining \in Nat
            /\ lot.actual + lot.remaining <= amount
            /\ amount > 0 /\ lot.remaining = 0 => pct = Whole
            /\ elapsed >= Ramp => lot.actual + lot.remaining = amount
<1> DEFINE base == (amount * pct) \div Whole
           actual == (base * LotModifier(elapsed)) \div Ramp
<1>0. pct \in 0..Whole /\ pct > 0 /\ Whole \in Nat \ {0} /\ Ramp \in Nat \ {0}
  BY CurveAssumption DEF Percents
<1>1. base \in 0..amount /\ amount - base \in Nat
      /\ Whole * (amount - base) >= amount * (Whole - pct)
  BY <1>0, PartRoundedDown
<1>2. ASSUME amount > 0, amount - base = 0 PROVE pct = Whole
  <2>1. PICK n \in Nat : n = Whole - pct
    BY <1>0
  <2>2. 0 >= amount * n
    BY <1>0, <1>1, <1>2, <2>1
  <2>3. 1 * n <= amount * n
    BY <1>2, <2>1, ProductMonotone
  <2>4. amount * n \in Nat
    BY <2>1, ProductNat
  <2> QED BY <1>0, <2>1, <2>2, <2>3, <2>4
<1> HIDE DEF base
<1>3. LotModifier(elapsed) \in 0..Ramp /\ (elapsed >= Ramp => LotModifier(elapsed) = Ramp)
  BY <1>0 DEF LotModifier
<1>4. actual \in 0..base /\ (elapsed >= Ramp => actual = base)
  <2>1. PICK m \in 0..Ramp : m = LotModifier(elapsed)
    BY <1>3
  <2>2. base \in Nat
    BY <1>1
  <2>3. (base * m) \div Ramp \in 0..base
    BY <1>0, <2>1, <2>2, PartRoundedDown
  <2>4. (base * Ramp) \div Ramp = base
    <3>1. base * Ramp \in Nat /\ Ramp * base = base * Ramp
      BY <1>0, <2>2, ProductNat
    <3>2. base <= (base * Ramp) \div Ramp
      BY <1>0, <2>2, <3>1, DivisionLargest
    <3>3. (base * Ramp) \div Ramp \in 0..base
      BY <1>0, <2>2, PartRoundedDown
    <3> QED BY <2>2, <3>2, <3>3
  <2> QED BY <1>3, <2>1, <2>3, <2>4
<1>5. /\ ScaleLot(amount, pct, elapsed).actual = actual
      /\ ScaleLot(amount, pct, elapsed).remaining = amount - base
  BY DEF ScaleLot, DivDown, base
<1> HIDE DEF actual
<1> QED BY <1>1, <1>2, <1>4, <1>5

LEMMA ScaledBid ==
  ASSUME NEW amount \in Nat, NEW pct \in Percents, NEW elapsed \in Nat
  PROVE  LET bid == ScaleBid(amount, pct, elapsed)
         IN /\ bid.actual \in 0..amount /\ bid.remaining \in Nat
            /\ bid.actual + bid.remaining <= amount
            /\ elapsed <= Ramp => bid.actual + bid.remaining = amount
<1> DEFINE base == (amount * pct + Whole - 1) \div Whole
           actual == (base * BidModifier(elapsed) + Ramp - 1) \div Ramp
<1>0. pct \in 0..Whole /\ pct > 0 /\ Whole \in Nat \ {0} /\ Ramp \in Nat \ {0}
  BY CurveAssumption DEF Percents
<1>1. base \in 0..amount /\ amount - base \in Nat
  BY <1>0, PartRoundedUp
<1> HIDE DEF base
<1>2. BidModifier(elapsed) \in 0..Ramp /\ (elapsed <= Ramp => BidModifier(elapsed) = Ramp)
  BY <1>0 DEF BidModifier
<1>3. actual \in 0..base /\ (elapsed <= Ramp => actual = base)
  <2>1. PICK m \in 0..Ramp : m = BidModifier(elapsed)
    BY <1>2
  <2>2. base \in Nat
    BY <1>1
  <2>3. (base * m + Ramp - 1) \div Ramp \in 0..base
        /\ Ramp * ((base * m + Ramp - 1) \div Ramp) >= base * m
    BY <1>0, <2>1, <2>2, PartRoundedUp
  <2>4. ASSUME m = Ramp PROVE (base * m + Ramp - 1) \div Ramp = base
    <3>1. PICK q \in 0..base : q = (base * m + Ramp - 1) \div Ramp
      BY <2>3
    <3>2. q * Ramp >= base * Ramp
      <4>1. Ramp * q >= base * Ramp /\ Ramp * q = q * Ramp
        BY <1>0, <2>3, <2>4, <3>1
      <4> QED BY <4>1
    <3>3. base <= q
      BY <1>0, <2>2, <3>1, <3>2, ProductCancel
    <3> QED BY <2>2, <3>1, <3>3
  <2> QED BY <1>2, <2>1, <2>3, <2>4
<1>4. /\ ScaleBid(amount, pct, elapsed).actual = actual
      /\ ScaleBid(amount, pct, elapsed).remaining = amount - base
  BY DEF ScaleBid, DivUp, base
<1> HIDE DEF actual
<1> QED BY <1>1, <1>3, <1>4

\* Settling an owner forfeits collateral without worth, and at most all the debt.
LEMMA HandOffTakes ==
  ASSUME NEW c \in [Reserves -> Nat], NEW d \in [Reserves -> Nat]
  PROVE  LET settled == HandOff(c, d)
         IN /\ settled.c \in [Reserves -> Nat]
            /\ \A r \in Reserves : settled.c[r] <= c[r]
            /\ settled.d \in {d, None}
<1> DEFINE kept == IF Holds(d) = {} THEN c
                   ELSE [r \in Reserves |-> IF Asset(r, c[r]) = 0 THEN 0 ELSE c[r]]
<1>1. kept \in [Reserves -> Nat] /\ \A r \in Reserves : kept[r] <= c[r]
  OBVIOUS
<1>2. HandOff(c, d).c = kept /\ HandOff(c, d).d \in {d, None}
  BY DEF HandOff
<1> HIDE DEF kept
<1> QED BY <1>1, <1>2

LEMMA NoneIsPosition == None \in [Reserves -> Nat] /\ Holds(None) = {}
BY DEF None, Holds

\* What a fill at elapsed ledgers takes from the auction, leaving lot and bid of it
\* and the owner with c and d, before the owner is settled.
Taken(pct, e, c, d, lot, bid) ==
  /\ Live /\ e = auction.age - 1
  /\ \A r \in Reserves :
       /\ collateral[r] - c[r] = ScaleLot(auction.lot[r], pct, e).actual
       /\ lot[r] = ScaleLot(auction.lot[r], pct, e).remaining
       /\ debt[r] - d[r] = ScaleBid(auction.bid[r], pct, e).actual
       /\ bid[r] = ScaleBid(auction.bid[r], pct, e).remaining
  /\ \/ /\ Holds(bid) = {} /\ Holds(lot) = {} /\ auction' = NoAuction
        /\ collateral' = HandOff(c, d).c /\ debt' = HandOff(c, d).d
     \/ /\ ~(Holds(bid) = {} /\ Holds(lot) = {})
        /\ auction'.bid = bid /\ auction'.lot = lot
        /\ auction'.kind = auction.kind /\ auction'.age = auction.age
        /\ auction' \in [kind : {"none", "liquidation", "exit"}, age : 0..(StaleLedgers + 1),
                         bid : [Reserves -> Nat], lot : [Reserves -> Nat]]
        /\ collateral' = c /\ debt' = d

LEMMA FillTakes ==
  ASSUME LiquidationTypeOK, NEW pct \in Fills, Fill(pct)
  PROVE  \E e \in Nat, c \in [Reserves -> Nat], d \in [Reserves -> Nat],
            lot \in [Reserves -> Nat], bid \in [Reserves -> Nat] :
           Taken(pct, e, c, d, lot, bid)
<1> DEFINE e == auction.age - 1
           scaledBid == [r \in Reserves |-> ScaleBid(auction.bid[r], pct, e)]
           scaledLot == [r \in Reserves |-> ScaleLot(auction.lot[r], pct, e)]
           lot == [r \in Reserves |-> scaledLot[r].remaining]
           bid == [r \in Reserves |-> scaledBid[r].remaining]
           rest == [auction EXCEPT !.bid = bid, !.lot = lot]
           c == [r \in Reserves |-> collateral[r] - scaledLot[r].actual]
           d == [r \in Reserves |-> debt[r] - scaledBid[r].actual]
<1>1. /\ Live /\ e >= 0 /\ e \in Int /\ pct \in Percents
      /\ \A r \in Reserves : /\ auction.lot[r] \in Nat /\ auction.bid[r] \in Nat
                             /\ collateral[r] \in Nat /\ debt[r] \in Nat
  BY LiquidationAssumption DEF Fill, LiquidationTypeOK
<1>2. e \in Nat
  BY <1>1
<1>3. /\ \A r \in Reserves : c[r] >= 0 /\ d[r] >= 0
      /\ \/ /\ Holds(rest.bid) = {} /\ Holds(rest.lot) = {} /\ auction' = NoAuction
            /\ collateral' = HandOff(c, d).c /\ debt' = HandOff(c, d).d
         \/ /\ ~(Holds(rest.bid) = {} /\ Holds(rest.lot) = {}) /\ auction' = rest
            /\ collateral' = c /\ debt' = d
  BY DEF Fill
<1> HIDE DEF e
<1>4. \A r \in Reserves :
        /\ scaledLot[r].actual \in Nat /\ scaledLot[r].remaining \in Nat
        /\ scaledBid[r].actual \in Nat /\ scaledBid[r].remaining \in Nat
  <2> SUFFICES ASSUME NEW r \in Reserves
               PROVE  /\ scaledLot[r].actual \in Nat /\ scaledLot[r].remaining \in Nat
                      /\ scaledBid[r].actual \in Nat /\ scaledBid[r].remaining \in Nat
    OBVIOUS
  <2>1. PICK m \in Nat, n \in Nat : m = auction.lot[r] /\ n = auction.bid[r]
    BY <1>1
  <2>2. ScaleLot(m, pct, e).actual \in 0..m /\ ScaleLot(m, pct, e).remaining \in Nat
    BY <1>1, <1>2, ScaledLot
  <2>3. ScaleBid(n, pct, e).actual \in 0..n /\ ScaleBid(n, pct, e).remaining \in Nat
    BY <1>1, <1>2, ScaledBid
  <2>4. scaledLot[r] = ScaleLot(m, pct, e) /\ scaledBid[r] = ScaleBid(n, pct, e)
    BY <2>1
  <2> HIDE DEF scaledLot, scaledBid
  <2> QED BY <2>2, <2>3, <2>4
<1>5. \A r \in Reserves : scaledLot[r] = ScaleLot(auction.lot[r], pct, e)
                          /\ scaledBid[r] = ScaleBid(auction.bid[r], pct, e)
  OBVIOUS
<1> HIDE DEF scaledLot, scaledBid
<1>6. lot \in [Reserves -> Nat] /\ bid \in [Reserves -> Nat]
      /\ c \in [Reserves -> Nat] /\ d \in [Reserves -> Nat]
  BY <1>1, <1>3, <1>4
<1>7. \A r \in Reserves : /\ collateral[r] - c[r] = scaledLot[r].actual
                          /\ lot[r] = scaledLot[r].remaining
                          /\ debt[r] - d[r] = scaledBid[r].actual
                          /\ bid[r] = scaledBid[r].remaining
  BY <1>1, <1>4
<1>8. /\ rest.bid = bid /\ rest.lot = lot /\ rest.kind = auction.kind /\ rest.age = auction.age
      /\ rest \in [kind : {"none", "liquidation", "exit"}, age : 0..(StaleLedgers + 1),
                   bid : [Reserves -> Nat], lot : [Reserves -> Nat]]
  <2>1. auction \in [kind : {"none", "liquidation", "exit"}, age : 0..(StaleLedgers + 1),
                     bid : [Reserves -> Nat], lot : [Reserves -> Nat]]
    BY DEF LiquidationTypeOK
  <2> HIDE DEF lot, bid, c, d
  <2> QED BY <1>6, <2>1
<1>9. e = auction.age - 1
  BY DEF e
<1> HIDE DEF rest, lot, bid, c, d
<1>10. \A r \in Reserves :
         /\ collateral[r] - c[r] = ScaleLot(auction.lot[r], pct, e).actual
         /\ lot[r] = ScaleLot(auction.lot[r], pct, e).remaining
         /\ debt[r] - d[r] = ScaleBid(auction.bid[r], pct, e).actual
         /\ bid[r] = ScaleBid(auction.bid[r], pct, e).remaining
  BY <1>5, <1>7
<1>11. \/ /\ Holds(bid) = {} /\ Holds(lot) = {} /\ auction' = NoAuction
          /\ collateral' = HandOff(c, d).c /\ debt' = HandOff(c, d).d
       \/ /\ ~(Holds(bid) = {} /\ Holds(lot) = {})
          /\ auction'.bid = bid /\ auction'.lot = lot
          /\ auction'.kind = auction.kind /\ auction'.age = auction.age
          /\ auction' \in [kind : {"none", "liquidation", "exit"},
                           age : 0..(StaleLedgers + 1),
                           bid : [Reserves -> Nat], lot : [Reserves -> Nat]]
          /\ collateral' = c /\ debt' = d
  BY <1>3, <1>8
<1>12. Taken(pct, e, c, d, lot, bid)
  BY <1>1, <1>9, <1>10, <1>11 DEF Taken
<1> QED BY <1>2, <1>6, <1>12

------------------------------------------------------------------------------
(* The invariant *)

PositionsOK ==
  supply \in [Reserves -> Nat] /\ collateral \in [Reserves -> Nat] /\ debt \in [Reserves -> Nat]

AuctionOK ==
  auction \in [kind : {"none", "liquidation", "exit"}, age : 0..(StaleLedgers + 1),
               bid : [Reserves -> Nat], lot : [Reserves -> Nat]]

MarketOK ==
  /\ barred \in BOOLEAN /\ frozen \in BOOLEAN
  /\ price \in [Reserves -> Prices] /\ cFactor \in [Reserves -> CFactors]
  /\ ruined \subseteq Reserves /\ blocked \subseteq Reserves
  /\ outside \in 0..MaxOutside

LEMMA TypesInParts == LiquidationTypeOK <=> PositionsOK /\ AuctionOK /\ MarketOK
BY DEF LiquidationTypeOK, PositionsOK, AuctionOK, MarketOK

LEMMA TypesParted == (LiquidationTypeOK <=> PositionsOK /\ AuctionOK /\ MarketOK)'
BY TypesInParts, PTL

LEMMA MarketStays ==
  ASSUME MarketOK, UNCHANGED <<barred, frozen, market>>, Act \/ outside' = outside
  PROVE  MarketOK'
<1>1. barred' = barred /\ frozen' = frozen /\ price' = price /\ cFactor' = cFactor
      /\ ruined' = ruined /\ blocked' = blocked
  BY DEF market
<1>2. outside' \in 0..MaxOutside
  BY LiquidationAssumption DEF MarketOK, Act
<1> QED BY <1>1, <1>2 DEF MarketOK

\* Without an auction the invariant asks for types alone.
LEMMA NothingLeftOffered == PositionsOK /\ MarketOK /\ auction = NoAuction => IInv
<1> SUFFICES ASSUME PositionsOK, MarketOK, auction = NoAuction PROVE IInv
  OBVIOUS
<1>1. /\ auction.kind = "none" /\ auction.age = 0 /\ auction.bid = None /\ auction.lot = None
      /\ AuctionOK
  BY LiquidationAssumption, NoneIsPosition DEF NoAuction, AuctionOK
<1>2. \A r \in Reserves : auction.lot[r] <= collateral[r] /\ auction.bid[r] <= debt[r]
  BY <1>1 DEF None, PositionsOK
<1> QED BY <1>1, <1>2, TypesInParts
        DEF IInv, SoldIsOwned, NothingOffered, Live, ExitAsksForAll, ExitOffersSomething

LEMMA NothingOfferedNext == (PositionsOK /\ MarketOK /\ auction = NoAuction => IInv)'
BY NothingLeftOffered, PTL

\* The steps that end an auction, or find none, keep the invariant.
LEMMA EndingStep ==
  ASSUME MarketOK, UNCHANGED <<barred, frozen, market>>, Act \/ outside' = outside,
         PositionsOK', auction' = NoAuction
  PROVE  IInv'
<1>1. MarketOK'
  BY MarketStays
<1> QED BY <1>1, NothingOfferedNext

LEMMA InitIInv == LiquidationInit => IInv
<1> SUFFICES ASSUME LiquidationInit PROVE IInv
  OBVIOUS
<1>1. PositionsOK
  BY LiquidationAssumption, NoneIsPosition DEF LiquidationInit, PositionsOK
<1>2. Max(CFactors) \in CFactors
  <2> DEFINE S == {Scale - f : f \in CFactors}
  <2>1. CFactors \subseteq 0..Scale /\ CFactors # {} /\ Scale \in Nat
    BY LiquidationAssumption
  <2>2. IsFiniteSet(S) /\ S \subseteq 0..Scale
    <3>1. S \subseteq 0..Scale
      BY <2>1
    <3>2. IsFiniteSet(0..Scale)
      BY <2>1, FS_Interval
    <3> HIDE DEF S
    <3> QED BY <3>1, <3>2, FS_Subset
  <2>3. S # {}
    <3>1. PICK f \in CFactors : TRUE
      BY <2>1
    <3>2. Scale - f \in S
      OBVIOUS
    <3> HIDE DEF S
    <3> QED BY <3>2
  <2>4. \E s \in S : \A x \in S : s <= x
    <3> HIDE DEF S
    <3>1. S \subseteq Int
      BY <2>1, <2>2
    <3> QED BY <2>2, <2>3, <3>1, SmallestExists
  <2>5. PICK s \in S : \A x \in S : s <= x
    BY <2>4
  <2>6. PICK f \in CFactors : s = Scale - f
    BY <2>5
  <2>7. \A g \in CFactors : f >= g
    <3> SUFFICES ASSUME NEW g \in CFactors PROVE f >= g
      OBVIOUS
    <3>1. s <= Scale - g
      BY <2>5
    <3> QED BY <2>1, <2>6, <3>1
  <2>8. \E x \in CFactors : \A y \in CFactors : x >= y
    BY <2>7
  <2> QED BY <2>8 DEF Max
<1>3. MarketOK
  <2>1. 0 \in 0..MaxOutside
    BY LiquidationAssumption
  <2> QED BY <1>2, <2>1 DEF LiquidationInit, MarketOK
<1>4. auction = NoAuction
  BY DEF LiquidationInit
<1> QED BY <1>1, <1>3, <1>4, NothingLeftOffered

LEMMA CreateIInv ==
  ASSUME IInv, NEW lots \in SUBSET Reserves, NEW bids \in SUBSET Reserves, NEW pct \in Quoted,
         Create(lots, bids, pct)
  PROVE  IInv'
<1>1. LiquidationTypeOK /\ pct \in Percents /\ Accepts(lots, bids, pct)
  BY LiquidationAssumption DEF IInv, SoldIsOwned, Create
<1>2. PositionsOK /\ MarketOK
  BY <1>1, TypesInParts
<1>3. PICK o : o = Offer(lots, bids, pct)
  OBVIOUS
<1>4. /\ o.kind = "liquidation"
      /\ o \in [kind : {"none", "liquidation", "exit"}, age : 0..(StaleLedgers + 1),
                bid : [Reserves -> Nat], lot : [Reserves -> Nat]]
      /\ \A r \in Reserves : o.lot[r] <= collateral[r] /\ o.bid[r] <= debt[r]
  BY <1>1, <1>3, OfferIsOwned
<1>5. /\ auction' = o /\ supply' = supply /\ collateral' = collateral /\ debt' = debt
      /\ UNCHANGED <<barred, frozen, market>> /\ outside' = outside
  BY <1>3 DEF Create, position
<1>6. MarketOK'
  BY <1>2, <1>5, MarketStays
<1>7. PositionsOK' /\ AuctionOK'
  BY <1>2, <1>4, <1>5 DEF PositionsOK, AuctionOK
<1>8. SoldIsOwned'
  BY <1>4, <1>5, <1>6, <1>7, TypesParted DEF SoldIsOwned
<1> QED BY <1>4, <1>5, <1>8
        DEF IInv, NothingOffered, Live, ExitAsksForAll, ExitOffersSomething

LEMMA CreateExitIInv ==
  ASSUME IInv, CreateExit
  PROVE  IInv'
<1>1. LiquidationTypeOK
  BY DEF IInv, SoldIsOwned
<1>2. PositionsOK /\ MarketOK
  BY <1>1, TypesInParts
<1>3. PICK o : o = ExitOffer
  OBVIOUS
<1>4. /\ o.kind = "exit" /\ o.bid = debt
      /\ o \in [kind : {"none", "liquidation", "exit"}, age : 0..(StaleLedgers + 1),
                bid : [Reserves -> Nat], lot : [Reserves -> Nat]]
      /\ \A r \in Reserves : o.lot[r] <= collateral[r]
      /\ Holds(o.lot) # {}
  <2>1. Data(collateral, debt).rawOut > 0 /\ Data(collateral, debt).rawIn > 0
    BY DEF CreateExit
  <2> QED BY <1>1, <1>3, <2>1, ExitOfferIsOwned
<1>5. /\ auction' = o /\ supply' = supply /\ collateral' = collateral /\ debt' = debt
      /\ UNCHANGED <<barred, frozen, market>> /\ outside' = outside
  BY <1>3 DEF CreateExit, position
<1>6. MarketOK'
  BY <1>2, <1>5, MarketStays
<1>7. PositionsOK' /\ AuctionOK'
  BY <1>2, <1>4, <1>5 DEF PositionsOK, AuctionOK
<1>8. SoldIsOwned'
  <2>1. \A r \in Reserves : auction'.lot[r] <= collateral'[r] /\ auction'.bid[r] <= debt'[r]
    BY <1>2, <1>4, <1>5 DEF PositionsOK
  <2> QED BY <1>6, <1>7, <2>1, TypesParted DEF SoldIsOwned
<1> QED BY <1>4, <1>5, <1>8
        DEF IInv, NothingOffered, Live, ExitAsksForAll, ExitOffersSomething

\* A fill takes as much of the position as the auction loses, or less of the debt.
LEMMA FillIInv ==
  ASSUME IInv, NEW pct \in Fills, Fill(pct)
  PROVE  IInv'
<1>0. LiquidationTypeOK /\ PositionsOK /\ AuctionOK /\ MarketOK /\ pct \in Percents
  BY TypesInParts, LiquidationAssumption DEF IInv, SoldIsOwned
<1>1. PICK e \in Nat, c \in [Reserves -> Nat], d \in [Reserves -> Nat],
           lot \in [Reserves -> Nat], bid \in [Reserves -> Nat] :
        Taken(pct, e, c, d, lot, bid)
  BY <1>0, FillTakes
<1>2. supply' = supply /\ UNCHANGED <<barred, frozen, market>> /\ Act
  BY DEF Fill
<1>3. CASE Holds(bid) = {} /\ Holds(lot) = {}
  <2>1. auction' = NoAuction /\ collateral' = HandOff(c, d).c /\ debt' = HandOff(c, d).d
    BY <1>1, <1>3 DEF Taken
  <2>2. HandOff(c, d).c \in [Reserves -> Nat] /\ HandOff(c, d).d \in [Reserves -> Nat]
    BY HandOffTakes, NoneIsPosition
  <2>3. PositionsOK'
    BY <1>0, <1>2, <2>1, <2>2 DEF PositionsOK
  <2> QED BY <1>0, <1>2, <2>1, <2>3, EndingStep
<1>4. CASE ~(Holds(bid) = {} /\ Holds(lot) = {})
  <2>1. /\ auction'.bid = bid /\ auction'.lot = lot
        /\ auction'.kind = auction.kind /\ auction'.age = auction.age
        /\ AuctionOK' /\ collateral' = c /\ debt' = d /\ Live /\ e = auction.age - 1
    BY <1>1, <1>4 DEF Taken, AuctionOK
  <2>2. PositionsOK' /\ MarketOK'
    BY <1>0, <1>2, <2>1, MarketStays DEF PositionsOK
  <2>3. \A r \in Reserves : /\ lot[r] <= c[r] /\ bid[r] <= d[r]
                            /\ e <= Ramp /\ auction.bid[r] = debt[r] => bid[r] = d[r]
                            /\ auction.lot[r] > 0 /\ lot[r] = 0 => pct = Whole
    <3> SUFFICES ASSUME NEW r \in Reserves
                 PROVE  /\ lot[r] <= c[r] /\ bid[r] <= d[r]
                        /\ e <= Ramp /\ auction.bid[r] = debt[r] => bid[r] = d[r]
                        /\ auction.lot[r] > 0 /\ lot[r] = 0 => pct = Whole
      OBVIOUS
    <3>1. PICK m \in Nat, n \in Nat : m = auction.lot[r] /\ n = auction.bid[r]
      BY <1>0 DEF AuctionOK
    <3>2. /\ collateral[r] \in Nat /\ debt[r] \in Nat /\ m <= collateral[r] /\ n <= debt[r]
          /\ c[r] \in Nat /\ d[r] \in Nat /\ lot[r] \in Nat /\ bid[r] \in Nat
      BY <1>0, <3>1 DEF PositionsOK, IInv, SoldIsOwned
    <3>3. /\ collateral[r] - c[r] \in 0..m /\ collateral[r] - c[r] + lot[r] <= m
          /\ m > 0 /\ lot[r] = 0 => pct = Whole
      <4>1. /\ collateral[r] - c[r] = ScaleLot(m, pct, e).actual
            /\ lot[r] = ScaleLot(m, pct, e).remaining
        BY <1>1, <3>1 DEF Taken
      <4> QED BY <1>0, <4>1, ScaledLot
    <3>4. /\ debt[r] - d[r] \in 0..n /\ debt[r] - d[r] + bid[r] <= n
          /\ e <= Ramp => debt[r] - d[r] + bid[r] = n
      <4>1. /\ debt[r] - d[r] = ScaleBid(n, pct, e).actual
            /\ bid[r] = ScaleBid(n, pct, e).remaining
        BY <1>1, <3>1 DEF Taken
      <4> QED BY <1>0, <4>1, ScaledBid
    <3>5. lot[r] <= c[r] /\ bid[r] <= d[r]
      BY <3>2, <3>3, <3>4
    <3>6. ASSUME e <= Ramp, auction.bid[r] = debt[r] PROVE bid[r] = d[r]
      <4>1. n = debt[r] /\ debt[r] - d[r] + bid[r] = n
        BY <3>1, <3>4, <3>6
      <4> QED BY <3>2, <4>1
    <3> QED BY <3>1, <3>3, <3>5, <3>6
  <2>4. SoldIsOwned'
    <3>1. \A r \in Reserves : auction'.lot[r] <= collateral'[r] /\ auction'.bid[r] <= debt'[r]
      BY <2>1, <2>3
    <3> QED BY <2>1, <2>2, <3>1, TypesParted DEF SoldIsOwned
  <2>5. ExitAsksForAll'
    <3>1. ASSUME auction.kind = "exit", auction.age - 1 <= Ramp PROVE bid = d
      <4>1. auction.bid = debt
        BY <3>1 DEF IInv, ExitAsksForAll
      <4>2. \A r \in Reserves : bid[r] = d[r]
        BY <2>1, <2>3, <3>1, <4>1
      <4> QED BY <4>2
    <3> QED BY <2>1, <3>1 DEF ExitAsksForAll
  <2>6. ExitOffersSomething'
    <3>1. ASSUME auction.kind = "exit", Holds(lot) = {} PROVE FALSE
      <4>1. PICK r \in Reserves : auction.lot[r] > 0
        BY <3>1 DEF IInv, ExitOffersSomething, Holds
      <4>2. \A s \in Reserves : lot[s] = 0
        BY <3>1 DEF Holds
      <4>3. pct = Whole
        BY <2>3, <4>1, <4>2
      <4>4. \A s \in Reserves : bid[s] = 0
        <5> SUFFICES ASSUME NEW s \in Reserves PROVE bid[s] = 0
          OBVIOUS
        <5>1. PICK n \in Nat : n = auction.bid[s]
          BY <1>0 DEF AuctionOK
        <5>2. bid[s] = n - (n * Whole + Whole - 1) \div Whole
          BY <1>1, <4>3, <5>1 DEF Taken, ScaleBid, DivUp
        <5>3. PICK w \in Nat \ {0} : w = Whole
          BY CurveAssumption
        <5> DEFINE t == n * w + w - 1
        <5>4. t \in Nat /\ w * n <= t
          BY <5>3, ProductNat
        <5>5. n <= t \div w /\ t \div w \in Nat
          <6> HIDE DEF t
          <6> QED BY <5>3, <5>4, DivisionLargest, DivisionBounds
        <5>6. bid[s] \in Nat
          OBVIOUS
        <5>7. bid[s] = n - t \div w
          BY <5>2, <5>3
        <5> HIDE DEF t
        <5> QED BY <5>5, <5>6, <5>7
      <4>5. Holds(bid) = {}
        BY <4>4 DEF Holds
      <4> QED BY <1>4, <3>1, <4>5
    <3> QED BY <2>1, <3>1 DEF ExitOffersSomething
  <2>7. NothingOffered'
    BY <2>1 DEF NothingOffered, Live
  <2> QED BY <2>4, <2>5, <2>6, <2>7 DEF IInv
<1> QED BY <1>3, <1>4

LEMMA DeleteStaleIInv == ASSUME IInv, DeleteStale PROVE IInv'
<1>1. PositionsOK /\ MarketOK
  BY TypesInParts DEF IInv, SoldIsOwned
<1>2. /\ supply' = supply /\ collateral' = collateral /\ debt' = debt
      /\ auction' = NoAuction /\ UNCHANGED <<barred, frozen, market>> /\ outside' = outside
  BY DEF DeleteStale, position
<1>3. PositionsOK'
  BY <1>1, <1>2 DEF PositionsOK
<1> QED BY <1>1, <1>2, <1>3, EndingStep

LEMMA ChangeIsPosition ==
  ASSUME NEW f \in [Reserves -> Nat], NEW r \in Reserves, NEW x \in Int
  PROVE  Change(f, r, x) \in [Reserves -> Nat]
<1>1. PICK v \in Nat : v = IF f[r] + x < 0 THEN 0 ELSE f[r] + x
  OBVIOUS
<1>2. Change(f, r, x) = [f EXCEPT ![r] = v]
  BY <1>1 DEF Change
<1> QED BY <1>2

LEMMA SubmitIInv ==
  ASSUME IInv, NEW cancel \in BOOLEAN, NEW kind \in Kinds, NEW r \in Reserves, NEW x \in Amounts,
         Submit(cancel, kind, r, x)
  PROVE  IInv'
<1>1. PositionsOK /\ MarketOK
  BY TypesInParts DEF IInv, SoldIsOwned
<1>2. Act /\ auction' = NoAuction /\ UNCHANGED <<barred, frozen, market>>
  BY DEF Submit
<1>3. x \in Int /\ -x \in Int
  BY LiquidationAssumption
<1>4. \A f \in [Reserves -> Nat] :
        Change(f, r, x) \in [Reserves -> Nat] /\ Change(f, r, -x) \in [Reserves -> Nat]
  BY <1>3, ChangeIsPosition
<1>5. /\ supply' \in {supply, Change(supply, r, x), Change(supply, r, -x)}
      /\ collateral' \in {collateral, Change(collateral, r, x), Change(collateral, r, -x)}
      /\ debt' \in {debt, Change(debt, r, x), Change(debt, r, -x)}
  BY DEF Submit
<1>6. PositionsOK'
  BY <1>1, <1>4, <1>5 DEF PositionsOK
<1> QED BY <1>1, <1>2, <1>6, EndingStep

LEMMA BadDebtIInv == ASSUME IInv, BadDebt PROVE IInv'
<1>1. PositionsOK /\ MarketOK
  BY TypesInParts DEF IInv, SoldIsOwned
<1>2. /\ supply' = supply /\ auction' = NoAuction
      /\ collateral' = HandOff(collateral, debt).c /\ debt' = HandOff(collateral, debt).d
      /\ UNCHANGED <<barred, frozen, market>> /\ outside' = outside
  BY DEF BadDebt, IInv, NothingOffered
<1>3. HandOff(collateral, debt).c \in [Reserves -> Nat]
      /\ HandOff(collateral, debt).d \in [Reserves -> Nat]
  <2>1. PICK c \in [Reserves -> Nat], d \in [Reserves -> Nat] : c = collateral /\ d = debt
    BY <1>1 DEF PositionsOK
  <2>2. HandOff(c, d).c \in [Reserves -> Nat] /\ HandOff(c, d).d \in [Reserves -> Nat]
    BY HandOffTakes, NoneIsPosition
  <2> QED BY <2>1, <2>2
<1>4. PositionsOK'
  BY <1>1, <1>2, <1>3 DEF PositionsOK
<1> QED BY <1>1, <1>2, <1>4, EndingStep

LEMMA ForceWithdrawalIInv ==
  ASSUME IInv, NEW r \in Reserves, ForceWithdrawal(r)
  PROVE  IInv'
<1>1. PositionsOK /\ MarketOK
  BY TypesInParts DEF IInv, SoldIsOwned
<1>2. /\ supply' = [supply EXCEPT ![r] = 0] /\ collateral' = [collateral EXCEPT ![r] = 0]
      /\ debt' = debt /\ auction' = NoAuction
      /\ UNCHANGED <<barred, frozen, market>> /\ Act
  BY DEF ForceWithdrawal, IInv, NothingOffered
<1>3. PositionsOK'
  BY <1>1, <1>2 DEF PositionsOK
<1> QED BY <1>1, <1>2, <1>3, EndingStep

\* What a clawback burns: no collateral while ordinary supply suffices.
LEMMA ClawbackBurns ==
  ASSUME PositionsOK, NEW r \in Reserves, NEW x \in Amounts, Clawback(r, x)
  PROVE  \E plain \in 0..supply[r], burned \in 0..collateral[r] :
           /\ supply' = [supply EXCEPT ![r] = supply[r] - plain]
           /\ collateral' = [collateral EXCEPT ![r] = collateral[r] - burned]
           /\ auction' = IF burned > 0 THEN NoAuction ELSE auction
<1> DEFINE plain == IF supply[r] < x THEN supply[r] ELSE x
           burned == x - plain
<1>1. supply[r] \in Nat /\ collateral[r] \in Nat /\ x \in Nat /\ x <= supply[r] + collateral[r]
  BY LiquidationAssumption DEF PositionsOK, Clawback
<1>2. plain \in 0..supply[r] /\ burned \in 0..collateral[r]
  BY <1>1
<1>3. /\ supply' = [supply EXCEPT ![r] = supply[r] - plain]
      /\ collateral' = [collateral EXCEPT ![r] = collateral[r] - burned]
      /\ auction' = IF burned > 0 THEN NoAuction ELSE auction
  BY DEF Clawback, AfterClawback
<1> HIDE DEF plain, burned
<1> QED BY <1>2, <1>3

LEMMA ClawbackIInv ==
  ASSUME IInv, NEW r \in Reserves, NEW x \in Amounts, Clawback(r, x)
  PROVE  IInv'
<1>1. PositionsOK /\ AuctionOK /\ MarketOK
  BY TypesInParts DEF IInv, SoldIsOwned
<1>2. PICK plain \in 0..supply[r], burned \in 0..collateral[r] :
        /\ supply' = [supply EXCEPT ![r] = supply[r] - plain]
        /\ collateral' = [collateral EXCEPT ![r] = collateral[r] - burned]
        /\ auction' = IF burned > 0 THEN NoAuction ELSE auction
  BY <1>1, ClawbackBurns
<1>3. debt' = debt /\ UNCHANGED <<barred, frozen, market>> /\ Act
  BY DEF Clawback
<1>4. supply[r] - plain \in Nat /\ collateral[r] - burned \in Nat
  BY <1>1 DEF PositionsOK
<1>5. PositionsOK'
  BY <1>1, <1>2, <1>3, <1>4 DEF PositionsOK
<1>6. CASE burned > 0
  BY <1>1, <1>2, <1>3, <1>5, <1>6, EndingStep
<1>7. CASE ~(burned > 0)
  <2>1. burned = 0 /\ collateral[r] - burned = collateral[r]
    BY <1>1, <1>7 DEF PositionsOK
  <2>2. collateral' = collateral /\ auction' = auction /\ debt' = debt
    BY <1>1, <1>2, <1>3, <2>1 DEF PositionsOK
  <2>3. MarketOK'
    BY <1>1, <1>3, MarketStays
  <2>4. AuctionOK'
    BY <1>1, <2>2 DEF AuctionOK
  <2>5. SoldIsOwned'
    BY <1>5, <2>2, <2>3, <2>4, TypesParted DEF IInv, SoldIsOwned
  <2> QED BY <2>2, <2>5 DEF IInv, NothingOffered, Live, ExitAsksForAll, ExitOffersSomething
<1> QED BY <1>6, <1>7

\* Time discounts the bid; it never gives a discounted one back its full price.
LEMMA TickIInv == ASSUME IInv, Tick PROVE IInv'
<1>1. PositionsOK /\ AuctionOK /\ MarketOK /\ Live
  BY TypesInParts DEF IInv, SoldIsOwned, Tick
<1>2. PICK age : age = IF auction.age - 1 >= 2 * Ramp THEN StaleLedgers + 1 ELSE auction.age + 1
  OBVIOUS
<1>3. /\ auction' = [auction EXCEPT !.age = age]
      /\ supply' = supply /\ collateral' = collateral /\ debt' = debt
      /\ UNCHANGED <<barred, frozen, market>> /\ outside' = outside
  BY <1>2 DEF Tick, position
<1>4. age \in 0..(StaleLedgers + 1) /\ age >= auction.age
  <2>1. /\ auction.age \in 0..(StaleLedgers + 1) /\ auction.age - 1 < StaleLedgers
        /\ StaleLedgers \in Nat /\ StaleLedgers > 2 * Ramp /\ Ramp \in Nat
    BY <1>1, LiquidationAssumption, CurveAssumption DEF AuctionOK, Tick
  <2> QED BY <1>2, <2>1
<1>5. /\ auction'.kind = auction.kind /\ auction'.bid = auction.bid
      /\ auction'.lot = auction.lot /\ auction'.age = age /\ AuctionOK'
  BY <1>1, <1>3, <1>4 DEF AuctionOK
<1>6. PositionsOK' /\ MarketOK'
  BY <1>1, <1>3, MarketStays DEF PositionsOK
<1>7. SoldIsOwned'
  BY <1>3, <1>5, <1>6, TypesParted DEF IInv, SoldIsOwned
<1>8. ExitAsksForAll'
  <2>1. ASSUME auction.kind = "exit", age - 1 <= Ramp PROVE auction.bid = debt
    <3>1. auction.age - 1 <= Ramp
      BY <1>1, <1>4, <2>1, CurveAssumption, LiquidationAssumption DEF AuctionOK
    <3> QED BY <2>1, <3>1 DEF IInv, ExitAsksForAll
  <2> QED BY <1>3, <1>5, <2>1 DEF ExitAsksForAll
<1> QED BY <1>1, <1>5, <1>7, <1>8
        DEF IInv, NothingOffered, Live, ExitOffersSomething

\* Steps that change neither positions nor the auction.
LEMMA RestIInv ==
  ASSUME IInv, supply' = supply, collateral' = collateral, debt' = debt, auction' = auction,
         MarketOK'
  PROVE  IInv'
<1>1. PositionsOK /\ AuctionOK
  BY TypesInParts DEF IInv, SoldIsOwned
<1>2. PositionsOK' /\ AuctionOK'
  BY <1>1 DEF PositionsOK, AuctionOK
<1>3. SoldIsOwned'
  BY <1>2, TypesParted DEF IInv, SoldIsOwned
<1> QED BY <1>3 DEF IInv, NothingOffered, Live, ExitAsksForAll, ExitOffersSomething

LEMMA MoveMarketIInv == ASSUME IInv, MoveMarket PROVE IInv'
<1>1. MarketOK
  BY TypesInParts DEF IInv, SoldIsOwned
<1>2. /\ supply' = supply /\ collateral' = collateral /\ debt' = debt /\ auction' = auction
      /\ barred' = barred /\ frozen' = frozen /\ Act
  BY DEF MoveMarket, position
<1>3. outside' \in 0..MaxOutside
  BY <1>1, <1>2, LiquidationAssumption DEF MarketOK, Act
<1>4. /\ price' \in [Reserves -> Prices] /\ cFactor' \in [Reserves -> CFactors]
      /\ ruined' \subseteq Reserves /\ blocked' \subseteq Reserves
  BY <1>1 DEF MoveMarket, MarketOK
<1>5. MarketOK'
  BY <1>1, <1>2, <1>3, <1>4 DEF MarketOK
<1> QED BY <1>2, <1>5, RestIInv

LEMMA ChangeRulesIInv == ASSUME IInv, ChangeRules PROVE IInv'
<1>1. MarketOK
  BY TypesInParts DEF IInv, SoldIsOwned
<1>2. /\ supply' = supply /\ collateral' = collateral /\ debt' = debt /\ auction' = auction
      /\ price' = price /\ cFactor' = cFactor /\ ruined' = ruined /\ blocked' = blocked
      /\ barred' \in BOOLEAN /\ frozen' \in BOOLEAN /\ Act
  BY <1>1 DEF ChangeRules, position, market, MarketOK
<1>3. outside' \in 0..MaxOutside
  BY <1>1, <1>2, LiquidationAssumption DEF MarketOK, Act
<1>4. MarketOK'
  BY <1>1, <1>2, <1>3 DEF MarketOK
<1> QED BY <1>2, <1>4, RestIInv

THEOREM Invariance == LiquidationSpec => []IInv
<1>1. IInv /\ [LiquidationNext]_liquidationVars => IInv'
  <2> SUFFICES ASSUME IInv, [LiquidationNext]_liquidationVars PROVE IInv'
    OBVIOUS
  <2>1. CASE \E lots, bids \in SUBSET Reserves, pct \in Quoted : Create(lots, bids, pct)
    BY <2>1, CreateIInv
  <2>2. CASE CreateExit
    BY <2>2, CreateExitIInv
  <2>3. CASE \E pct \in Fills : Fill(pct)
    BY <2>3, FillIInv
  <2>4. CASE DeleteStale
    BY <2>4, DeleteStaleIInv
  <2>5. CASE \E cancel \in BOOLEAN, kind \in Kinds, r \in Reserves, x \in Amounts :
               Submit(cancel, kind, r, x)
    BY <2>5, SubmitIInv
  <2>6. CASE BadDebt
    BY <2>6, BadDebtIInv
  <2>7. CASE \E r \in Reserves, x \in Amounts : Clawback(r, x)
    BY <2>7, ClawbackIInv
  <2>8. CASE \E r \in Reserves : ForceWithdrawal(r)
    BY <2>8, ForceWithdrawalIInv
  <2>9. CASE Tick
    BY <2>9, TickIInv
  <2>10. CASE MoveMarket
    BY <2>10, MoveMarketIInv
  <2>11. CASE ChangeRules
    BY <2>11, ChangeRulesIInv
  <2>12. CASE UNCHANGED liquidationVars
    <3>1. MarketOK
      BY TypesInParts DEF IInv, SoldIsOwned
    <3>2. MarketOK'
      BY <2>12, <3>1 DEF liquidationVars, market, MarketOK
    <3> QED BY <2>12, <3>2, RestIInv DEF liquidationVars, position
  <2> QED BY <2>1, <2>2, <2>3, <2>4, <2>5, <2>6, <2>7, <2>8, <2>9, <2>10, <2>11, <2>12
          DEF LiquidationNext
<1> QED BY <1>1, InitIInv, PTL DEF LiquidationSpec

------------------------------------------------------------------------------
(* The end of a forced exit *)

\* It is over in time, for a debt paid back, or for collateral taken.
Served ==
  \/ auction.age - 1 >= StaleLedgers
  \/ supply' = supply /\ (Holds(debt') = {} \/ Total(debt') < Total(debt))
  \/ Total(collateral') < Total(collateral)

\* The fill that ends an exit takes the whole of what is left.  Before the bid is
\* discounted, that is the whole debt; after the lot has grown to its full size, it
\* is a lot that is never empty.
LEMMA FillServes ==
  ASSUME IInv, NEW pct \in Fills, Fill(pct), auction.kind = "exit", auction'.kind # "exit"
  PROVE  Served
<1>0. LiquidationTypeOK /\ PositionsOK /\ AuctionOK /\ pct \in Percents
  BY TypesInParts, LiquidationAssumption DEF IInv, SoldIsOwned
<1>1. PICK e \in Nat, c \in [Reserves -> Nat], d \in [Reserves -> Nat],
           lot \in [Reserves -> Nat], bid \in [Reserves -> Nat] :
        Taken(pct, e, c, d, lot, bid)
  BY <1>0, FillTakes
<1>2. /\ Holds(bid) = {} /\ Holds(lot) = {} /\ e = auction.age - 1
      /\ collateral' = HandOff(c, d).c /\ debt' = HandOff(c, d).d
  BY <1>1 DEF Taken
<1>3. supply' = supply
  BY DEF Fill
<1>4. HandOff(c, d).c \in [Reserves -> Nat] /\ HandOff(c, d).d \in {d, None}
      /\ \A r \in Reserves : HandOff(c, d).c[r] <= c[r]
  BY HandOffTakes
<1>5. CASE e <= Ramp
  <2>1. auction.bid = debt
    BY <1>2, <1>5 DEF IInv, ExitAsksForAll
  <2>2. \A r \in Reserves : d[r] = 0
    <3> SUFFICES ASSUME NEW r \in Reserves PROVE d[r] = 0
      OBVIOUS
    <3>1. PICK n \in Nat : n = debt[r]
      BY <1>0 DEF PositionsOK
    <3>2. debt[r] - d[r] = ScaleBid(n, pct, e).actual /\ bid[r] = ScaleBid(n, pct, e).remaining
      BY <1>1, <2>1, <3>1 DEF Taken
    <3>3. debt[r] - d[r] + bid[r] = n
      BY <1>0, <1>5, <3>2, ScaledBid
    <3>4. bid[r] = 0 /\ d[r] \in Nat
      BY <1>2 DEF Holds
    <3> QED BY <3>1, <3>3, <3>4
  <2>3. Holds(d) = {}
    BY <2>2 DEF Holds
  <2>4. Holds(debt') = {}
    BY <1>2, <1>4, <2>3, NoneIsPosition
  <2> QED BY <1>3, <2>4 DEF Served
<1>6. CASE e > Ramp
  <2>1. PICK r \in Reserves : auction.lot[r] > 0
    BY DEF IInv, ExitOffersSomething, Holds
  <2>2. \A s \in Reserves : c[s] <= collateral[s] /\ (s = r => c[s] < collateral[s])
    <3> SUFFICES ASSUME NEW s \in Reserves
                 PROVE  c[s] <= collateral[s] /\ (s = r => c[s] < collateral[s])
      OBVIOUS
    <3>1. PICK m \in Nat : m = auction.lot[s]
      BY <1>0 DEF AuctionOK
    <3>2. /\ collateral[s] - c[s] = ScaleLot(m, pct, e).actual
          /\ lot[s] = ScaleLot(m, pct, e).remaining
      BY <1>1, <3>1 DEF Taken
    <3>3. e >= Ramp
      BY <1>6, CurveAssumption
    <3>4. collateral[s] - c[s] \in 0..m /\ collateral[s] - c[s] + lot[s] = m
      BY <1>0, <3>2, <3>3, ScaledLot
    <3>5. lot[s] = 0 /\ collateral[s] \in Nat /\ c[s] \in Nat
      BY <1>0, <1>2 DEF Holds, PositionsOK
    <3>6. s = r => m > 0
      BY <2>1, <3>1
    <3> QED BY <3>4, <3>5, <3>6
  <2>3. PICK k \in [Reserves -> Nat] : k = collateral'
    BY <1>2, <1>4
  <2>4. \A s \in Reserves : k[s] <= collateral[s] /\ (s = r => k[s] < collateral[s])
    <3> SUFFICES ASSUME NEW s \in Reserves
                 PROVE  k[s] <= collateral[s] /\ (s = r => k[s] < collateral[s])
      OBVIOUS
    <3>1. k[s] <= c[s] /\ c[s] <= collateral[s] /\ (s = r => c[s] < collateral[s])
      BY <1>2, <1>4, <2>2, <2>3
    <3>2. k[s] \in Nat /\ c[s] \in Nat /\ collateral[s] \in Nat
      BY <1>0 DEF PositionsOK
    <3> QED BY <3>1, <3>2
  <2>5. PICK old \in [Reserves -> Nat] : old = collateral
    BY <1>0 DEF PositionsOK
  <2>6. (\A s \in Reserves : k[s] <= old[s]) /\ k[r] < old[r]
    BY <2>4, <2>5
  <2>7. Total(k) < Total(old)
    BY <2>6, LessIsLess
  <2> QED BY <2>3, <2>5, <2>7 DEF Served
<1> QED BY <1>0, <1>1, <1>5, <1>6, CurveAssumption

LEMMA ClawbackServes ==
  ASSUME IInv, NEW r \in Reserves, NEW x \in Amounts, Clawback(r, x),
         auction.kind = "exit", auction'.kind # "exit"
  PROVE  Served
<1>0. PositionsOK
  BY TypesInParts DEF IInv, SoldIsOwned
<1>1. PICK plain \in 0..supply[r], burned \in 0..collateral[r] :
        /\ supply' = [supply EXCEPT ![r] = supply[r] - plain]
        /\ collateral' = [collateral EXCEPT ![r] = collateral[r] - burned]
        /\ auction' = IF burned > 0 THEN NoAuction ELSE auction
  BY <1>0, ClawbackBurns
<1>2. burned > 0
  BY <1>1
<1>3. PICK old \in [Reserves -> Nat] : old = collateral
  BY <1>0 DEF PositionsOK
<1>4. PICK left \in Nat : left = old[r] - burned /\ left < old[r]
  BY <1>2, <1>3
<1> DEFINE k == [old EXCEPT ![r] = left]
<1>5. k \in [Reserves -> Nat] /\ (\A s \in Reserves : k[s] <= old[s]) /\ k[r] < old[r]
  BY <1>4
<1>6. collateral' = k
  BY <1>1, <1>3, <1>4
<1> HIDE DEF k
<1>7. Total(k) < Total(old)
  BY <1>5, LessIsLess
<1> QED BY <1>3, <1>6, <1>7 DEF Served

LEMMA ExitServed ==
  ASSUME IInv, [LiquidationNext]_liquidationVars,
         auction.kind = "exit", auction'.kind # "exit"
  PROVE  Served
<1>0. Live
  BY DEF Live
<1>1. CASE \E pct \in Fills : Fill(pct)
  BY <1>1, FillServes
<1>2. CASE \E r \in Reserves, x \in Amounts : Clawback(r, x)
  BY <1>2, ClawbackServes
<1>3. CASE DeleteStale
  BY <1>3 DEF DeleteStale, Served
<1>4. CASE \E cancel \in BOOLEAN, kind \in Kinds, r \in Reserves, x \in Amounts :
             Submit(cancel, kind, r, x)
  BY <1>0, <1>4 DEF Submit, Cancels
<1>5. CASE \/ \E lots, bids \in SUBSET Reserves, pct \in Quoted : Create(lots, bids, pct)
           \/ CreateExit
           \/ BadDebt
           \/ \E r \in Reserves : ForceWithdrawal(r)
  BY <1>0, <1>5 DEF Create, CreateExit, BadDebt, ForceWithdrawal
<1>6. CASE Tick
  <2>1. AuctionOK
    BY TypesInParts DEF IInv, SoldIsOwned
  <2>2. PICK age : auction' = [auction EXCEPT !.age = age]
    BY <1>6 DEF Tick
  <2> QED BY <2>1, <2>2 DEF AuctionOK
<1>7. CASE MoveMarket \/ ChangeRules \/ UNCHANGED liquidationVars
  BY <1>7 DEF MoveMarket, ChangeRules, liquidationVars
<1> QED BY <1>1, <1>2, <1>3, <1>4, <1>5, <1>6, <1>7 DEF LiquidationNext

------------------------------------------------------------------------------
(* Insolvent owners *)

\* What is worth something is somewhere.
LEMMA WorthIsHeld ==
  ASSUME LiquidationTypeOK, NEW c \in [Reserves -> Nat], NEW d \in [Reserves -> Nat]
  PROVE  /\ Data(c, d).rawIn > 0 => Holds(c) # {}
         /\ Data(c, d).rawOut > 0 => Holds(d) # {}
<1> DEFINE ri == [r \in Reserves |-> DivDown(price[r], Asset(r, c[r]), Unit)]
           ro == [r \in Reserves |-> DivUp(price[r], d[r], Unit)]
<1>1. /\ \A r \in Reserves : price[r] \in Nat
      /\ IsFiniteSet(Reserves) /\ Unit \in Nat \ {0}
  BY LiquidationAssumption DEF LiquidationTypeOK
<1>2. Data(c, d).rawIn = SumOn(ri, Reserves) /\ Data(c, d).rawOut = SumOn(ro, Reserves)
  <2>1. Data(c, d).rawIn = Total(ri) /\ Data(c, d).rawOut = Total(ro)
    BY DEF Data
  <2>2. DOMAIN ri = Reserves /\ DOMAIN ro = Reserves
    OBVIOUS
  <2> HIDE DEF ri, ro
  <2> QED BY <2>1, <2>2, TotalIsSum
<1>3. \A p \in Nat : DivDown(p, 0, Unit) = 0 /\ DivUp(p, 0, Unit) = 0
  <2> SUFFICES ASSUME NEW p \in Nat PROVE DivDown(p, 0, Unit) = 0 /\ DivUp(p, 0, Unit) = 0
    OBVIOUS
  <2>1. p * 0 = 0
    OBVIOUS
  <2>2. 0 \div Unit = 0 /\ (Unit - 1) \div Unit = 0
    BY <1>1
  <2>3. DivDown(p, 0, Unit) = (p * 0) \div Unit
        /\ DivUp(p, 0, Unit) = (p * 0 + Unit - 1) \div Unit
    BY DEF DivDown, DivUp
  <2>4. p * 0 + Unit - 1 = Unit - 1
    BY <1>1, <2>1
  <2> QED BY <2>1, <2>2, <2>3, <2>4
<1>4. ASSUME Holds(c) = {} PROVE SumOn(ri, Reserves) = 0
  <2>1. \A r \in Reserves : c[r] = 0
    BY <1>4 DEF Holds
  <2>2. \A r \in Reserves : ri[r] = 0
    BY <1>1, <1>3, <2>1 DEF Asset
  <2> HIDE DEF ri
  <2> QED BY <1>1, <2>2, SumZero
<1>5. ASSUME Holds(d) = {} PROVE SumOn(ro, Reserves) = 0
  <2>1. \A r \in Reserves : d[r] = 0
    BY <1>5 DEF Holds
  <2>2. \A r \in Reserves : ro[r] = 0
    BY <1>1, <1>3, <2>1
  <2> HIDE DEF ro
  <2> QED BY <1>1, <2>2, SumZero
<1> QED BY <1>2, <1>4, <1>5

LEMMA OnlyHeld == \A f \in [Reserves -> Nat] : Only(f, Holds(f)) = f
<1> SUFFICES ASSUME NEW f \in [Reserves -> Nat] PROVE Only(f, Holds(f)) = f
  OBVIOUS
<1>1. \A r \in Reserves : (IF r \in Holds(f) THEN f[r] ELSE 0) = f[r]
  BY DEF Holds
<1>2. f = [r \in Reserves |-> f[r]]
  OBVIOUS
<1> QED BY <1>1, <1>2 DEF Only

\* For 95 percent of the debt a filler is owed at least 95 percent of its worth.
LEMMA DebtIsPaidFor ==
  ASSUME NEW data, NEW x \in Nat, 100 * x <= 95 * data.rawOut,
         data.rawIn \in Nat \ {0}, data.rawOut \in Nat \ {0},
         data.baseIn \in 0..data.rawIn, data.baseOut \in Nat, data.rawOut <= data.baseOut
  PROVE  LET sold == DivDown(DivDown(data.rawOut, Percent(95), Scale), Incentive(data), Scale)
         IN sold \in Nat /\ x <= sold
<1> DEFINE paid == DivDown(data.rawOut, Percent(95), Scale)
           inc == Incentive(data)
<1>1. inc \in Nat /\ Scale <= inc
  BY IncentiveIsOne
<1>2. PICK k \in Nat \ {0} : Scale = 100 * k
  <2>1. Scale \in Nat \ {0} /\ Scale % 100 = 0 /\ Scale >= 100
    BY LiquidationAssumption
  <2>2. Scale = 100 * (Scale \div 100) /\ Scale \div 100 \in Nat \ {0}
    BY <2>1
  <2> QED BY <2>2
<1>3. Percent(95) = 95 * k
  <2>1. (95 * (100 * k)) \div 100 = 95 * k
    BY ONLY k \in Nat \ {0}
  <2> QED BY <1>2, <2>1 DEF Percent
<1>4. Scale * x <= data.rawOut * Percent(95) /\ data.rawOut * Percent(95) \in Nat
  <2> DEFINE y == data.rawOut
  <2>0. y \in Nat /\ 100 * x <= 95 * y
    OBVIOUS
  <2> HIDE DEF y
  <2>1. k * (100 * x) <= k * (95 * y)
    <3>1. 100 * x \in Nat /\ 95 * y \in Nat
      BY <2>0
    <3> QED BY <2>0, <3>1, ProductMonotone
  <2>2. k * (100 * x) = Scale * x
    BY <1>2
  <2>3. k * (95 * y) = y * (95 * k)
    BY <2>0
  <2>4. y * Percent(95) = y * (95 * k) /\ y * (95 * k) \in Nat
    BY <1>3, <2>0, ProductNat
  <2> QED BY <2>1, <2>2, <2>3, <2>4 DEF y
<1>5. paid \in Nat /\ x <= paid
  <2> DEFINE n == data.rawOut * Percent(95)
  <2>1. n \in Nat /\ Scale * x <= n /\ Scale \in Nat \ {0}
    BY <1>4, LiquidationAssumption
  <2> HIDE DEF n
  <2>2. n \div Scale \in Nat /\ x <= n \div Scale
    BY <2>1, DivisionBounds, DivisionLargest
  <2> QED BY <2>2 DEF n, DivDown
<1> HIDE DEF paid, inc
<1>6. paid <= DivDown(paid, inc, Scale) /\ DivDown(paid, inc, Scale) \in Nat
  <2>1. paid * inc \in Nat /\ paid * Scale <= paid * inc /\ paid * Scale = Scale * paid
    BY <1>1, <1>2, <1>5, ProductNat, ProductMonotone
  <2> DEFINE n == paid * inc
  <2>2. n \in Nat /\ Scale * paid <= n /\ Scale \in Nat \ {0}
    BY <1>2, <2>1
  <2> HIDE DEF n
  <2>3. n \div Scale \in Nat /\ paid <= n \div Scale
    BY <1>5, <2>2, DivisionBounds, DivisionLargest
  <2> QED BY <2>3 DEF n, DivDown
<1>7. DivDown(paid, inc, Scale) \in Nat /\ x <= DivDown(paid, inc, Scale)
  BY <1>5, <1>6
<1> QED BY <1>7 DEF paid, inc

\* An owner whose collateral is worth at most 95 percent of the debt.
Insolvent ==
  LET data == Data(collateral, debt)
  IN data.rawIn > 0 /\ 100 * data.rawIn <= 95 * data.rawOut

WholeAuction == [kind |-> "liquidation", age |-> 0, lot |-> collateral, bid |-> debt]

\* All of it can be put up for auction, for all of the debt, unless there are more
\* positions than an auction takes (user_liquidation_auction.rs).
InsolventCanBeLiquidated ==
  /\ Insolvent
  /\ Cardinality(Holds(collateral)) + Cardinality(Holds(debt)) <= MaxPositions
  => /\ Accepts(Holds(collateral), Holds(debt), 100)
     /\ Offer(Holds(collateral), Holds(debt), 100) = WholeAuction

LEMMA InsolventAccepted ==
  ASSUME LiquidationTypeOK
  PROVE  InsolventCanBeLiquidated
<1> SUFFICES ASSUME Insolvent,
                    Cardinality(Holds(collateral)) + Cardinality(Holds(debt)) <= MaxPositions
             PROVE  /\ Accepts(Holds(collateral), Holds(debt), 100)
                    /\ Offer(Holds(collateral), Holds(debt), 100) = WholeAuction
  BY DEF InsolventCanBeLiquidated
<1>1. collateral \in [Reserves -> Nat] /\ debt \in [Reserves -> Nat]
  BY DEF LiquidationTypeOK
<1> DEFINE lots == Holds(collateral)
           bids == Holds(debt)
<1>2. Only(collateral, lots) = collateral /\ Only(debt, bids) = debt
  BY <1>1, OnlyHeld
<1>3. PICK data : data = Data(collateral, debt)
  OBVIOUS
<1>4. /\ data.rawIn \in Nat /\ data.baseIn \in 0..data.rawIn
      /\ data.rawOut \in Nat /\ data.baseOut \in Nat /\ data.rawOut <= data.baseOut
      /\ data.rawIn > 0 /\ 100 * data.rawIn <= 95 * data.rawOut
  BY <1>1, <1>3, DataBounds DEF Insolvent
<1>5. /\ data.rawIn < data.rawOut /\ data.baseIn < data.baseOut
      /\ data.rawOut \in Nat \ {0} /\ data.rawIn \in Nat \ {0} /\ data.baseOut > 0
  BY <1>4
<1>6. lots # {} /\ bids # {}
  <2>1. Data(collateral, debt).rawIn > 0 /\ Data(collateral, debt).rawOut > 0
    BY <1>3, <1>5
  <2> QED BY <1>1, <2>1, WorthIsHeld
<1> DEFINE q == Quote(lots, bids, 95)
<1>7. ~(q.withdrawn < data.rawIn)
  <2> DEFINE w == DivDown(DivDown(data.rawOut, Percent(95), Scale), Incentive(data), Scale)
  <2>1. w \in Nat /\ data.rawIn <= w
    BY <1>4, <1>5, DebtIsPaidFor
  <2>2. q.withdrawn = w
    BY <1>2, <1>3 DEF Quote
  <2> HIDE DEF w, q
  <2> QED BY <1>4, <2>1, <2>2
<1> HIDE DEF q
<1>8. CheckedPercent(TRUE, 100) = 95
  BY DEF CheckedPercent
<1>9. \A after : FullAccepted(q, after, data)
  BY <1>7 DEF FullAccepted
<1>10. Accepts(lots, bids, 100)
  <2>1. lots \subseteq Holds(collateral) /\ bids \subseteq Holds(debt)
    OBVIOUS
  <2>2. Unhealthy(data)
    BY <1>5 DEF Unhealthy
  <2> HIDE DEF lots, bids
  <2>3. Cardinality(lots) + Cardinality(bids) <= MaxPositions
    BY DEF lots, bids
  <2>4. 100 > 95
    OBVIOUS
  <2> DEFINE included == Data(Only(collateral, lots), Only(debt, bids))
             full == included.rawIn = data.rawIn /\ included.rawOut = data.rawOut /\ 100 > 95
             sold == Quote(lots, bids, CheckedPercent(full, 100))
             after == Data(Less(collateral, sold.lot), Less(debt, sold.bid))
  <2>5. included = data
    BY <1>2, <1>3
  <2>6. full
    BY <2>4, <2>5
  <2>7. sold = q
    <3>1. CheckedPercent(full, 100) = 95
      BY <2>6 DEF CheckedPercent
    <3> QED BY <3>1 DEF q
  <2>8. FullAccepted(sold, after, data)
    BY <1>9, <2>7
  <2>9. /\ sold.short => included.rawIn = data.rawIn
        /\ included.rawIn > 0 /\ included.baseOut > 0
        /\ IF full THEN FullAccepted(sold, after, data) ELSE PartAccepted(after)
    BY <1>5, <2>5, <2>6, <2>8
  <2> QED BY ONLY <1>3, <1>6, <2>1, <2>2, <2>3, <2>9, Zenon DEF Accepts
<1>11. Offer(lots, bids, 100) = WholeAuction
  <2> HIDE DEF lots, bids
  <2>1. 100 > 95
    OBVIOUS
  <2> QED BY <1>2, <2>1 DEF Offer, WholeAuction
<1> QED BY <1>10, <1>11

------------------------------------------------------------------------------
(* The theorems *)

\* A live auction sells what the owner has for debt the owner owes, through fills of
\* any sizes, cancellations, clawbacks, and moves of the market: no later fill can
\* fail for want of either (user_liquidation_auction.rs, and what submit and clawback
\* do to the owner meanwhile).  No position ever goes below zero.
THEOREM SoldStaysOwned == LiquidationSpec => []SoldIsOwned
<1>1. IInv => SoldIsOwned
  BY DEF IInv
<1> QED BY <1>1, Invariance, PTL

\* Neither the borrower nor the sizes of fills can end a forced exit for nothing
\* (new_forced_exit_auction, fill): it ends in time, with debt taken, or with
\* collateral taken, for any number of reserves and any rounding of the parts.
THEOREM ExitsAreNotEscaped == LiquidationSpec => ExitIsNotEscaped
<1>1. IInv /\ [LiquidationNext]_liquidationVars
        => [auction.kind = "exit" /\ auction'.kind # "exit"
              => \/ auction.age - 1 >= StaleLedgers
                 \/ supply' = supply /\ (Holds(debt') = {} \/ Total(debt') < Total(debt))
                 \/ Total(collateral') < Total(collateral)]_liquidationVars
  BY ExitServed DEF Served
<1> QED BY <1>1, Invariance, PTL DEF LiquidationSpec, ExitIsNotEscaped

\* An owner whose collateral is worth at most 95 percent of the debt, and who has no
\* more positions than an auction takes, can always be liquidated in
\* full, for every number of reserves, mix of prices and factors, and scale: neither
\* a rounding nor the window of health that a partial liquidation must hit refuses
\* the full one (create_user_liq_auction_data, with percent_liquidated of 100).
THEOREM InsolventOwnersAreLiquidated == LiquidationSpec => []InsolventCanBeLiquidated
<1>1. IInv => InsolventCanBeLiquidated
  BY InsolventAccepted DEF IInv, SoldIsOwned
<1> QED BY <1>1, Invariance, PTL

================================================================================
