------------------------------ MODULE ReserveProofs ------------------------------
(***************************************************************************)
(* Theorems about the two ends of a loss.  BadDebtWaterfall, for every     *)
(* number of reserves and tiers and every price, premium curve, and        *)
(* staleness period; PoolReserve, for every scale, fee, take rate, and     *)
(* interest, every finite set of users, and every batch of requests, of    *)
(* any length.                                                             *)
(***************************************************************************)
EXTENDS BadDebtWaterfall, PoolReserve, LedgerLemmas

\* Both invariants together are inductive: neither needs more than the other.
IInv == AuctionIsCovered /\ NoLotAheadOfItsBid

------------------------------------------------------------------------------
(* The curve *)

\* What a fill takes of a lot or a bid never exceeds what it selects.
LEMMA ScaledLot ==
  ASSUME NEW amount \in Nat, NEW pct \in Percents, NEW elapsed \in Nat
  PROVE  LET lot == ScaleLot(amount, pct, elapsed)
         IN /\ lot.base \in 0..amount /\ lot.actual \in 0..lot.base
            /\ lot.remaining = amount - lot.base /\ lot.remaining \in Nat
            /\ Whole * lot.remaining >= amount * (Whole - pct)
<1> DEFINE base == (amount * pct) \div Whole
           actual == (base * LotModifier(elapsed)) \div Ramp
<1>1. /\ base \in 0..amount /\ amount - base \in Nat
      /\ Whole * (amount - base) >= amount * (Whole - pct)
  BY PartRoundedDown, CurveAssumption DEF Percents
<1> HIDE DEF base
<1>2. LotModifier(elapsed) \in 0..Ramp
  BY CurveAssumption DEF LotModifier
<1>3. actual \in 0..base
  <2> DEFINE m == LotModifier(elapsed)
  <2>1. base \in Nat /\ Ramp \in Nat \ {0} /\ m \in 0..Ramp
    BY <1>1, <1>2, CurveAssumption
  <2> HIDE DEF m
  <2>2. (base * m) \div Ramp \in 0..base
    BY <2>1, PartRoundedDown
  <2> QED BY <2>2 DEF m
<1> QED BY <1>1, <1>3 DEF ScaleLot, DivDown, base

LEMMA ScaledBid ==
  ASSUME NEW amount \in Nat, NEW pct \in Percents, NEW elapsed \in Nat
  PROVE  LET bid == ScaleBid(amount, pct, elapsed)
         IN /\ bid.base \in 0..amount /\ bid.actual \in 0..bid.base
            /\ bid.remaining = amount - bid.base /\ bid.remaining \in Nat
            /\ Whole * bid.remaining <= amount * (Whole - pct)
<1> DEFINE base == (amount * pct + Whole - 1) \div Whole
           actual == (base * BidModifier(elapsed) + Ramp - 1) \div Ramp
<1>1. /\ base \in 0..amount /\ amount - base \in Nat
      /\ Whole * (amount - base) <= amount * (Whole - pct)
  BY PartRoundedUp, CurveAssumption DEF Percents
<1> HIDE DEF base
<1>2. BidModifier(elapsed) \in 0..Ramp
  BY CurveAssumption DEF BidModifier
<1>3. actual \in 0..base
  <2> DEFINE m == BidModifier(elapsed)
  <2>1. base \in Nat /\ Ramp \in Nat \ {0} /\ m \in 0..Ramp
    BY <1>1, <1>2, CurveAssumption
  <2> HIDE DEF m
  <2>2. (base * m + Ramp - 1) \div Ramp \in 0..base
    BY <2>1, PartRoundedUp
  <2> QED BY <2>2 DEF m
<1> QED BY <1>1, <1>3 DEF ScaleBid, DivUp, base

\* A lot that keeps its share stays ahead of a bid that keeps at most its share.
LEMMA ShareKept ==
  ASSUME NEW lot \in Nat, NEW bid \in Nat, NEW openLot \in Nat, NEW openBid \in Nat,
         lot * openBid >= bid * openLot,
         NEW w \in Nat \ {0}, NEW p \in 0..w, NEW restLot \in Nat, NEW restBid \in Nat,
         w * restLot >= lot * (w - p), w * restBid <= bid * (w - p)
  PROVE  restLot * openBid >= restBid * openLot
<1> DEFINE k == w - p
<1>1. k \in Nat
  OBVIOUS
<1> HIDE DEF k
<1>2. (w * restLot) * openBid >= (lot * k) * openBid
  <2>1. w * restLot \in Nat /\ lot * k \in Nat /\ lot * k <= w * restLot
    BY <1>1, ProductNat DEF k
  <2> QED BY <2>1, ProductMonotone
<1>3. (w * restBid) * openLot <= (bid * k) * openLot
  <2>1. w * restBid \in Nat /\ bid * k \in Nat /\ w * restBid <= bid * k
    BY <1>1, ProductNat DEF k
  <2> QED BY <2>1, ProductMonotone
<1>4. (lot * openBid) * k >= (bid * openLot) * k
  <2>1. lot * openBid \in Nat /\ bid * openLot \in Nat /\ bid * openLot <= lot * openBid
    BY ProductNat
  <2> QED BY <1>1, <2>1, ProductMonotone
<1>5. \A a, b, c \in Nat : (a * b) * c = (a * c) * b /\ (a * b) * c = a * (b * c)
  OBVIOUS
<1>6. /\ (lot * openBid) * k = (lot * k) * openBid
      /\ (bid * openLot) * k = (bid * k) * openLot
      /\ (w * restLot) * openBid = w * (restLot * openBid)
      /\ (w * restBid) * openLot = w * (restBid * openLot)
  BY <1>1, <1>5
<1>7. w * (restBid * openLot) <= w * (restLot * openBid)
  <2> DEFINE a == w * (restBid * openLot)
             b == (bid * k) * openLot
             c == (lot * k) * openBid
             d == w * (restLot * openBid)
  <2>1. a \in Nat /\ b \in Nat /\ c \in Nat /\ d \in Nat
    BY <1>1, ProductNat
  <2>2. a <= b /\ b <= c /\ c <= d
    BY <1>2, <1>3, <1>4, <1>6
  <2> HIDE DEF a, b, c, d
  <2>3. a <= d
    BY <2>1, <2>2
  <2> QED BY <2>3 DEF a, d
<1> QED BY <1>7, ProductNat, ProductCancel

------------------------------------------------------------------------------
(* The quote of an auction *)

LEMMA TotalIsSumOn == \A f : Total(f) = SumOn(f, DOMAIN f)
BY DEF Total, SumOn, FoldFunction

LEMMA BidsAreAmounts == AuctionIsCovered => CanonicalBid \in [1..Reserves -> Nat]
BY DEF AuctionIsCovered, WaterfallTypeOK, CanonicalBid

LEMMA TargetIsAmount ==
  ASSUME NEW bid \in [1..Reserves -> Nat]
  PROVE  Target(bid) \in Nat
<1> DEFINE f == [r \in 1..Reserves |-> DivDown(bid[r], DebtWorth[r], ValueScale)]
<1>1. \A r \in 1..Reserves : f[r] \in Nat
  <2>1. \A r \in 1..Reserves : bid[r] * DebtWorth[r] \in Nat
    BY ProductNat, WaterfallAssumption
  <2> QED BY <2>1, DivisionBounds, WaterfallAssumption DEF DivDown
<1>2. SumOn(f, 1..Reserves) \in Nat
  <2>1. IsFiniteSet(1..Reserves)
    BY FS_Interval, WaterfallAssumption
  <2> HIDE DEF f
  <2> QED BY <1>1, <2>1, SumNat
<1>3. Total(f) \in Nat
  BY <1>2, TotalIsSumOn
<1>4. BidValue(bid) \in Nat
  BY <1>3 DEF BidValue
<1>5. BidValue(bid) * 6 + 5 - 1 \in Nat
  BY <1>4
<1> QED BY <1>5, DivisionBounds DEF Target, DivUp

LEMMA ValueIsAmount ==
  ASSUME NEW t \in 1..Tiers, NEW amount \in Nat
  PROVE  ValueOf(t, amount) \in Nat
<1>1. amount * TierWorth[t] \in Nat
  BY ProductNat, WaterfallAssumption
<1> QED BY <1>1, DivisionBounds, WaterfallAssumption DEF ValueOf, DivDown

\* A lot that commits is one the tier holds.
LEMMA LotIsHeld ==
  ASSUME AuctionIsCovered, NEW t \in 1..Tiers, NEW target \in Nat,
         LotCommits(t, TierLot(t, target), target)
  PROVE  TierLot(t, target) \in 0..tokens[t]
<1>1. tokens[t] \in Nat
  BY DEF AuctionIsCovered, WaterfallTypeOK
<1>2. ValueOf(t, tokens[t]) \in Nat
  BY <1>1, ValueIsAmount
<1>3. CASE ValueOf(t, tokens[t]) <= target
  BY <1>1, <1>3 DEF TierLot
<1>4. CASE ~(ValueOf(t, tokens[t]) <= target)
  <2>1. ValueOf(t, tokens[t]) \in Nat \ {0} /\ target * tokens[t] \in Nat
    BY <1>1, <1>2, <1>4, ProductNat
  <2>2. target * tokens[t] + ValueOf(t, tokens[t]) - 1 \in Nat
    BY <2>1
  <2>3. TierLot(t, target) \in Nat
    BY <1>4, <2>1, <2>2, DivisionBounds DEF TierLot, DivUp
  <2> QED BY <1>4, <2>3 DEF LotCommits
<1> QED BY <1>3, <1>4

------------------------------------------------------------------------------
(* The invariant *)

LEMMA NoAuctionTyped == NoAuction \in Auctions /\ NoAuction.tier = 0
BY WaterfallAssumption, CurveAssumption DEF NoAuction, Auctions, Oldest

LEMMA InitIInv == WaterfallInit => IInv
<1> SUFFICES ASSUME WaterfallInit PROVE IInv
  OBVIOUS
<1> USE DEF WaterfallInit
<1>1. ~Open
  BY NoAuctionTyped DEF Open
<1>2. WaterfallTypeOK
  BY <1>1, NoAuctionTyped, WaterfallAssumption DEF WaterfallTypeOK
<1> QED BY <1>1, <1>2 DEF IInv, AuctionIsCovered, NoLotAheadOfItsBid

LEMMA CreatePreserves ==
  ASSUME IInv, Create
  PROVE  IInv'
<1> DEFINE target == Target(CanonicalBid)
<1>1. PICK t \in 1..Tiers :
        /\ LotCommits(t, TierLot(t, target), target)
        /\ auction' = [tier |-> t, bid |-> CanonicalBid, lot |-> TierLot(t, target), age |-> 0]
  BY DEF Create
<1>2. AuctionIsCovered /\ WaterfallTypeOK
  BY DEF IInv, AuctionIsCovered
<1>3. CanonicalBid \in [1..Reserves -> Nat] /\ target \in Nat
  BY <1>2, BidsAreAmounts, TargetIsAmount
<1> HIDE DEF target
<1>4. TierLot(t, target) \in 0..tokens[t]
  BY <1>1, <1>2, <1>3, LotIsHeld
<1>5. \A r \in 1..Reserves : CanonicalBid[r] <= debt[r]
  BY <1>2 DEF CanonicalBid, WaterfallTypeOK
<1>6. tokens[t] \in Nat /\ Oldest \in Nat
  BY <1>2, WaterfallAssumption DEF WaterfallTypeOK, Oldest
<1> DEFINE a == [tier |-> t, bid |-> CanonicalBid, lot |-> TierLot(t, target), age |-> 0]
<1>7. /\ a \in Auctions /\ a.tier = t /\ t # 0 /\ a.lot <= tokens[t]
      /\ \A r \in 1..Reserves : a.bid[r] <= debt[r]
  BY <1>3, <1>4, <1>5, <1>6, WaterfallAssumption DEF Auctions
<1>8. /\ auction' = a /\ opened' = a /\ debt' = debt /\ tokens' = tokens
      /\ frozen' = frozen /\ outside' = outside
  BY <1>1 DEF Create
<1> HIDE DEF a
<1>9. WaterfallTypeOK'
  BY <1>2, <1>7, <1>8 DEF WaterfallTypeOK, Open
<1>10. AuctionIsCovered'
  BY <1>7, <1>8, <1>9 DEF AuctionIsCovered
<1>11. NoLotAheadOfItsBid'
  <2>1. a.lot \in Nat /\ \A r \in 1..Reserves : a.bid[r] \in Nat
    BY <1>7 DEF Auctions
  <2>2. \A x, y \in Nat : x * y >= y * x
    OBVIOUS
  <2>3. \A r \in 1..Reserves : a.lot * a.bid[r] >= a.bid[r] * a.lot
    BY <2>1, <2>2
  <2> QED BY <1>8, <2>3 DEF NoLotAheadOfItsBid
<1> QED BY <1>10, <1>11 DEF IInv

LEMMA FillPreserves ==
  ASSUME IInv, NEW pct \in Percents, Fill(pct)
  PROVE  IInv'
<1> DEFINE elapsed == auction.age - 1
           bid == [r \in 1..Reserves |-> ScaleBid(auction.bid[r], pct, elapsed)]
           lot == ScaleLot(auction.lot, pct, elapsed)
           t == auction.tier
           rest == [auction EXCEPT !.lot = lot.remaining,
                                   !.bid = [r \in 1..Reserves |-> bid[r].remaining]]
<1>1. AuctionIsCovered /\ WaterfallTypeOK /\ NoLotAheadOfItsBid /\ Open
  BY DEF IInv, AuctionIsCovered, Fill
<1>2. /\ elapsed \in Nat /\ t \in 1..Tiers /\ auction.lot \in Nat /\ auction.age \in 0..Oldest
      /\ \A r \in 1..Reserves : auction.bid[r] \in Nat
      /\ opened.lot \in Nat /\ \A r \in 1..Reserves : opened.bid[r] \in Nat
      /\ opened.tier = t
  <2>1. auction \in Auctions /\ opened \in Auctions /\ auction.age >= 1 /\ auction.tier # 0
    BY <1>1 DEF WaterfallTypeOK, Open, Fill
  <2>2. auction.age \in Nat /\ auction.tier \in 0..Tiers
    BY <2>1, WaterfallAssumption DEF Auctions, Oldest
  <2>3. opened.tier = t
    BY <1>1 DEF WaterfallTypeOK
  <2>4. elapsed \in Nat
    BY <2>1, <2>2
  <2>5. t \in 1..Tiers
    BY <2>1, <2>2, WaterfallAssumption
  <2>6. /\ auction.lot \in Nat /\ auction.age \in 0..Oldest /\ opened.lot \in Nat
        /\ \A r \in 1..Reserves : auction.bid[r] \in Nat /\ opened.bid[r] \in Nat
    BY <2>1 DEF Auctions
  <2> HIDE DEF elapsed
  <2> QED BY <2>3, <2>4, <2>5, <2>6
<1>3. /\ \A r \in 1..Reserves : bid[r].actual <= debt[r]
      /\ lot.actual > 0 => lot.actual <= tokens[t]
      /\ debt' = [r \in 1..Reserves |-> debt[r] - bid[r].actual]
      /\ tokens' = [tokens EXCEPT ![t] = @ - lot.actual]
      /\ \/ auction' = NoAuction /\ opened' = NoAuction
         \/ auction' = rest /\ opened' = opened
      /\ frozen' = frozen /\ outside' = outside
  BY DEF Fill
<1>4. /\ lot.base \in 0..auction.lot /\ lot.actual \in 0..lot.base
      /\ lot.remaining = auction.lot - lot.base /\ lot.remaining \in Nat
      /\ Whole * lot.remaining >= auction.lot * (Whole - pct)
  <2> HIDE DEF elapsed
  <2> QED BY <1>2, ScaledLot
<1>5. ASSUME NEW r \in 1..Reserves
      PROVE  /\ bid[r].base \in 0..auction.bid[r] /\ bid[r].actual \in 0..bid[r].base
             /\ bid[r].remaining = auction.bid[r] - bid[r].base /\ bid[r].remaining \in Nat
             /\ Whole * bid[r].remaining <= auction.bid[r] * (Whole - pct)
  <2>1. bid[r] = ScaleBid(auction.bid[r], pct, elapsed)
    OBVIOUS
  <2> HIDE DEF elapsed, bid
  <2> QED BY <1>2, <2>1, ScaledBid
<1> HIDE DEF elapsed, bid, lot
<1>6. /\ rest.tier = t /\ rest.age = auction.age /\ rest.lot = lot.remaining
      /\ \A r \in 1..Reserves : rest.bid[r] = bid[r].remaining
      /\ rest \in Auctions
  BY <1>1, <1>2, <1>4, <1>5 DEF WaterfallTypeOK, Auctions
<1> HIDE DEF rest
<1>7. debt' \in [1..Reserves -> Nat] /\ tokens' \in [1..Tiers -> 0..MaxTokens]
  <2>1. \A r \in 1..Reserves : debt[r] - bid[r].actual \in Nat
    BY <1>1, <1>2, <1>3, <1>5 DEF WaterfallTypeOK
  <2>2. tokens[t] - lot.actual \in 0..MaxTokens
    <3>1. tokens[t] \in 0..MaxTokens /\ lot.actual \in Nat
      BY <1>1, <1>2, <1>4 DEF WaterfallTypeOK
    <3>2. MaxTokens \in Nat /\ (lot.actual > 0 => lot.actual <= tokens[t])
      BY <1>3, WaterfallAssumption
    <3>3. \A m, x, y \in Nat : x <= m /\ (y > 0 => y <= x) => x - y \in 0..m
      OBVIOUS
    <3>4. tokens[t] \in Nat /\ tokens[t] <= MaxTokens
      BY <3>1, <3>2
    <3> QED BY <3>1, <3>2, <3>3, <3>4
  <2> QED BY <1>1, <1>3, <2>1, <2>2 DEF WaterfallTypeOK
<1>8. CASE auction' = NoAuction /\ opened' = NoAuction
  <2>1. ~Open' /\ auction' \in Auctions /\ opened' \in Auctions
    BY <1>8, NoAuctionTyped DEF Open
  <2>2. WaterfallTypeOK'
    BY <1>1, <1>3, <1>7, <1>8, <2>1, NoAuctionTyped DEF WaterfallTypeOK
  <2> QED BY <2>1, <2>2 DEF IInv, AuctionIsCovered, NoLotAheadOfItsBid
<1>9. CASE auction' = rest /\ opened' = opened
  <2>1. WaterfallTypeOK'
    BY <1>1, <1>2, <1>3, <1>6, <1>7, <1>9 DEF WaterfallTypeOK, Open
  <2>2. ASSUME NEW q \in 1..Reserves, rest.bid[q] > 0
        PROVE  /\ rest.lot <= tokens'[t]
               /\ \A r \in 1..Reserves : rest.bid[r] <= debt'[r]
    <3>1. auction.bid[q] > 0
      BY <1>2, <1>5, <1>6, <2>2
    <3>2. auction.lot <= tokens[t] /\ \A r \in 1..Reserves : auction.bid[r] <= debt[r]
      BY <1>1, <3>1 DEF AuctionIsCovered
    <3>3. rest.lot <= tokens'[t]
      <4>1. tokens'[t] = tokens[t] - lot.actual /\ tokens[t] \in Nat
        BY <1>1, <1>2, <1>3 DEF WaterfallTypeOK
      <4> QED BY <1>2, <1>4, <1>6, <3>2, <4>1
    <3>4. ASSUME NEW r \in 1..Reserves PROVE rest.bid[r] <= debt'[r]
      <4>1. debt'[r] = debt[r] - bid[r].actual /\ debt[r] \in Nat
        BY <1>1, <1>3 DEF WaterfallTypeOK
      <4> QED BY <1>2, <1>5, <1>6, <3>2, <4>1
    <3> QED BY <3>3, <3>4
  <2>3. AuctionIsCovered'
    BY <1>6, <1>9, <2>1, <2>2 DEF AuctionIsCovered
  <2>4. ASSUME NEW r \in 1..Reserves
        PROVE  rest.lot * opened.bid[r] >= rest.bid[r] * opened.lot
    <3>1. auction.lot * opened.bid[r] >= auction.bid[r] * opened.lot
      BY <1>1 DEF NoLotAheadOfItsBid
    <3>2. Whole \in Nat \ {0} /\ pct \in 0..Whole
      BY CurveAssumption DEF Percents
    <3>3. rest.lot \in Nat /\ rest.bid[r] \in Nat
      BY <1>4, <1>5, <1>6
    <3>4. /\ Whole * rest.lot >= auction.lot * (Whole - pct)
          /\ Whole * rest.bid[r] <= auction.bid[r] * (Whole - pct)
      BY <1>4, <1>5, <1>6
    <3>5. /\ auction.lot \in Nat /\ auction.bid[r] \in Nat
          /\ opened.lot \in Nat /\ opened.bid[r] \in Nat
      BY <1>2
    <3> QED BY ONLY <3>1, <3>2, <3>3, <3>4, <3>5, ShareKept
  <2>5. NoLotAheadOfItsBid'
    BY <1>9, <2>4 DEF NoLotAheadOfItsBid
  <2> QED BY <2>3, <2>5 DEF IInv
<1> QED BY <1>3, <1>8, <1>9

LEMMA DeletePreserves ==
  ASSUME IInv, DeleteStale
  PROVE  IInv'
<1>1. ~Open' /\ auction' \in Auctions /\ opened' \in Auctions
  BY NoAuctionTyped DEF Open, DeleteStale
<1>2. WaterfallTypeOK'
  BY <1>1, NoAuctionTyped DEF DeleteStale, WaterfallTypeOK, IInv, AuctionIsCovered
<1> QED BY <1>1, <1>2 DEF IInv, AuctionIsCovered, NoLotAheadOfItsBid

LEMMA DefaultPreserves ==
  ASSUME IInv, Default
  PROVE  IInv'
<1>1. ~Open /\ ~Open' /\ WaterfallTypeOK
  BY DEF Open, Default, IInv, AuctionIsCovered
<1>2. WaterfallTypeOK'
  BY <1>1 DEF Default, WaterfallTypeOK, Open
<1> QED BY <1>1, <1>2 DEF IInv, AuctionIsCovered, NoLotAheadOfItsBid

LEMMA AgePreserves ==
  ASSUME IInv, AuctionAges
  PROVE  IInv'
<1>1. /\ WaterfallTypeOK /\ Oldest \in Nat
      /\ auction \in Auctions /\ auction.age < Oldest
      /\ auction' = [auction EXCEPT !.age = @ + 1]
      /\ debt' = debt /\ tokens' = tokens /\ frozen' = frozen /\ opened' = opened
      /\ outside' = outside
  BY WaterfallAssumption DEF IInv, AuctionIsCovered, WaterfallTypeOK, AuctionAges, Oldest
<1>2. /\ auction'.tier = auction.tier /\ auction'.bid = auction.bid
      /\ auction'.lot = auction.lot /\ auction' \in Auctions
  BY <1>1 DEF Auctions
<1>3. WaterfallTypeOK'
  BY <1>1, <1>2 DEF WaterfallTypeOK, Open
<1>4. AuctionIsCovered'
  BY <1>1, <1>2, <1>3 DEF IInv, AuctionIsCovered, Open
<1>5. NoLotAheadOfItsBid'
  BY <1>1, <1>2 DEF IInv, NoLotAheadOfItsBid, Open
<1> QED BY <1>4, <1>5 DEF IInv

\* What leaves the auction alone, and the covered balances at least as large.
LEMMA OutsidePreserves ==
  ASSUME IInv, WaterfallTypeOK', auction' = auction, opened' = opened,
         HasDebt => \A t \in 1..Tiers : tokens'[t] >= tokens[t],
         \A r \in 1..Reserves : debt'[r] >= debt[r]
  PROVE  IInv'
<1>1. NoLotAheadOfItsBid'
  BY DEF IInv, NoLotAheadOfItsBid, Open
<1>2. ASSUME Open, NEW q \in 1..Reserves, auction.bid[q] > 0
      PROVE  /\ auction.lot <= tokens'[auction.tier]
             /\ \A r \in 1..Reserves : auction.bid[r] <= debt'[r]
  <2>1. WaterfallTypeOK
    BY DEF IInv, AuctionIsCovered
  <2>2. auction.tier \in 1..Tiers /\ auction.lot \in Nat
    <3>1. auction \in Auctions /\ auction.tier # 0
      BY <1>2, <2>1 DEF WaterfallTypeOK, Open
    <3> QED BY <3>1, WaterfallAssumption DEF Auctions
  <2>3. /\ auction.lot <= tokens[auction.tier]
        /\ \A r \in 1..Reserves : auction.bid[r] <= debt[r]
    BY <1>2 DEF IInv, AuctionIsCovered
  <2>4. HasDebt
    <3>1. auction.bid[q] \in Nat /\ debt[q] \in Nat
      BY <2>1 DEF WaterfallTypeOK, Auctions
    <3>2. debt[q] > 0
      BY <1>2, <2>3, <3>1
    <3> QED BY <3>2 DEF HasDebt
  <2>5. tokens'[auction.tier] >= tokens[auction.tier]
    BY <2>2, <2>4
  <2>6. tokens[auction.tier] \in Nat /\ tokens'[auction.tier] \in Nat
    BY <2>1, <2>2 DEF WaterfallTypeOK
  <2>7. \A r \in 1..Reserves : auction.bid[r] \in Nat /\ debt[r] \in Nat /\ debt'[r] \in Nat
    BY <2>1 DEF WaterfallTypeOK, Auctions
  <2> QED BY <2>2, <2>3, <2>5, <2>6, <2>7
<1>3. AuctionIsCovered'
  BY <1>2 DEF AuctionIsCovered, Open
<1> QED BY <1>1, <1>3 DEF IInv

\* The types only depend on the auction when it is unchanged.
LEMMA TypesKept ==
  ASSUME WaterfallTypeOK, auction' = auction, opened' = opened,
         debt' \in [1..Reserves -> Nat], tokens' \in [1..Tiers -> 0..MaxTokens],
         frozen' \subseteq 1..Tiers, outside' \in 0..MaxOutside
  PROVE  WaterfallTypeOK'
BY DEF WaterfallTypeOK, Open

LEMMA EnvironmentPreserves ==
  ASSUME IInv,
         \/ \E r \in 1..Reserves, amount \in HandOffs : BorrowerHandOff(r, amount)
         \/ \E t \in 1..Tiers : Deposit(t) \/ Withdraw(t) \/ Freeze(t) \/ Thaw(t)
         \/ UNCHANGED waterfallVars
  PROVE  IInv'
<1>1. /\ WaterfallTypeOK
      /\ debt \in [1..Reserves -> Nat] /\ tokens \in [1..Tiers -> 0..MaxTokens]
      /\ frozen \subseteq 1..Tiers /\ outside \in 0..MaxOutside
  BY DEF IInv, AuctionIsCovered, WaterfallTypeOK
<1>2. Outside => outside' \in 0..MaxOutside
  BY <1>1, WaterfallAssumption DEF Outside
<1>3. ASSUME NEW r \in 1..Reserves, NEW amount \in HandOffs, BorrowerHandOff(r, amount)
      PROVE  IInv'
  <2>1. /\ auction' = auction /\ opened' = opened /\ tokens' = tokens /\ frozen' = frozen
        /\ debt' = [debt EXCEPT ![r] = @ + amount] /\ outside' \in 0..MaxOutside
    BY <1>2, <1>3 DEF BorrowerHandOff
  <2>2. amount \in Nat
    BY WaterfallAssumption
  <2>3. debt' \in [1..Reserves -> Nat] /\ \A s \in 1..Reserves : debt'[s] >= debt[s]
    BY <1>1, <2>1, <2>2
  <2>4. \A s \in 1..Tiers : tokens'[s] >= tokens[s]
    BY <1>1, <2>1
  <2> QED BY <1>1, <2>1, <2>3, <2>4, TypesKept, OutsidePreserves
<1>4. ASSUME NEW t \in 1..Tiers, Deposit(t)
      PROVE  IInv'
  <2>1. /\ auction' = auction /\ opened' = opened /\ debt' = debt /\ frozen' = frozen
        /\ tokens' = [tokens EXCEPT ![t] = @ + 1] /\ tokens[t] < MaxTokens
        /\ outside' \in 0..MaxOutside
    BY <1>2, <1>4 DEF Deposit
  <2>2. tokens' \in [1..Tiers -> 0..MaxTokens] /\ \A s \in 1..Tiers : tokens'[s] >= tokens[s]
    <3>1. MaxTokens \in Nat /\ tokens[t] \in 0..MaxTokens
      BY <1>1, WaterfallAssumption
    <3>2. tokens[t] + 1 \in 0..MaxTokens
      BY <2>1, <3>1
    <3> QED BY <1>1, <2>1, <3>1, <3>2
  <2>3. \A s \in 1..Reserves : debt'[s] >= debt[s]
    BY <1>1, <2>1
  <2> QED BY <1>1, <2>1, <2>2, <2>3, TypesKept, OutsidePreserves
<1>5. ASSUME NEW t \in 1..Tiers, Withdraw(t)
      PROVE  IInv'
  <2>1. /\ auction' = auction /\ opened' = opened /\ debt' = debt /\ frozen' = frozen
        /\ \E n \in 1..tokens[t] : tokens' = [tokens EXCEPT ![t] = @ - n]
        /\ outside' = outside /\ ~HasDebt
    BY <1>5 DEF Withdraw, WithdrawalsOpen
  <2>2. tokens' \in [1..Tiers -> 0..MaxTokens]
    <3>1. PICK n \in 1..tokens[t] : tokens' = [tokens EXCEPT ![t] = @ - n]
      BY <2>1
    <3>2. MaxTokens \in Nat /\ tokens[t] \in 0..MaxTokens
      BY <1>1, WaterfallAssumption
    <3>3. tokens[t] - n \in 0..MaxTokens
      BY <3>2
    <3> QED BY <1>1, <3>1, <3>3
  <2>3. \A s \in 1..Reserves : debt'[s] >= debt[s]
    BY <1>1, <2>1
  <2> QED BY <1>1, <2>1, <2>2, <2>3, TypesKept, OutsidePreserves
<1>6. ASSUME \/ \E t \in 1..Tiers : Freeze(t) \/ Thaw(t)
             \/ UNCHANGED waterfallVars
      PROVE  IInv'
  <2>1. /\ auction' = auction /\ opened' = opened /\ debt' = debt /\ tokens' = tokens
        /\ frozen' \subseteq 1..Tiers /\ outside' \in 0..MaxOutside
    BY <1>1, <1>2, <1>6 DEF Freeze, Thaw, waterfallVars
  <2>2. /\ \A s \in 1..Reserves : debt'[s] >= debt[s]
        /\ \A s \in 1..Tiers : tokens'[s] >= tokens[s]
    BY <1>1, <2>1
  <2> QED BY <1>1, <2>1, <2>2, TypesKept, OutsidePreserves
<1> QED BY <1>3, <1>4, <1>5, <1>6

LEMMA NextIInv == IInv /\ [WaterfallNext]_waterfallVars => IInv'
<1> SUFFICES ASSUME IInv, [WaterfallNext]_waterfallVars PROVE IInv'
  OBVIOUS
<1>1. CASE Create
  BY <1>1, CreatePreserves
<1>2. CASE \E pct \in Percents : Fill(pct)
  BY <1>2, FillPreserves
<1>3. CASE DeleteStale
  BY <1>3, DeletePreserves
<1>4. CASE Default
  BY <1>4, DefaultPreserves
<1>5. CASE AuctionAges
  BY <1>5, AgePreserves
<1>6. CASE \/ \E r \in 1..Reserves, amount \in HandOffs : BorrowerHandOff(r, amount)
           \/ \E t \in 1..Tiers : Deposit(t) \/ Withdraw(t) \/ Freeze(t) \/ Thaw(t)
           \/ UNCHANGED waterfallVars
  BY <1>6, EnvironmentPreserves
<1> QED BY <1>1, <1>2, <1>3, <1>4, <1>5, <1>6 DEF WaterfallNext

LEMMA Invariance == WaterfallSpec => []IInv
BY InitIInv, NextIInv, PTL DEF WaterfallSpec

------------------------------------------------------------------------------

\* Whatever depositors, borrowers, and fills of any size do, an auction that still
\* asks for a bid can be filled in full: its tier holds the lot and the backstop
\* owes the bid.  Withdrawals wait for the debt, and every fill rounds its parts of
\* the lot down and of the bid up.
THEOREM AuctionsStayCovered == WaterfallSpec => []AuctionIsCovered
<1>1. IInv => AuctionIsCovered
  BY DEF IInv
<1> QED BY <1>1, Invariance, PTL

\* No sequence of partial fills, of any sizes at any ledgers, releases a larger part
\* of the lot than of any bid it opened with.
THEOREM LotsFollowTheirBids == WaterfallSpec => []NoLotAheadOfItsBid
<1>1. IInv => NoLotAheadOfItsBid
  BY DEF IInv
<1> QED BY <1>1, Invariance, PTL

------------------------------------------------------------------------------
(* A submission folds its requests *)

\* Places of requests in a batch.
Places(S) == IsFiniteSet(S) /\ S \subseteq Int

LEMMA SomePlaces == ASSUME NEW S, Places(S), NEW s \in SUBSET S PROVE Places(s)
BY FS_Subset DEF Places

LEMMA LastPlace ==
  ASSUME NEW S, Places(S), S # {}
  PROVE  Max(S) \in S /\ \A x \in S : x <= Max(S)
<1> USE DEF Places
<1> DEFINE T == {t \in SUBSET S : t # {} /\ ~\E s \in t : \A x \in t : s >= x}
<1>1. SUFFICES ASSUME T # {} PROVE FALSE
  <2>1. \E s \in S : \A x \in S : s >= x
    BY S \in SUBSET S
  <2> QED BY <2>1 DEF Max
<1>2. PICK m \in T : \A t \in SUBSET m : t \in T => t = m
  <2>1. T \in SUBSET SUBSET S
    OBVIOUS
  <2> HIDE DEF T
  <2>2. IsFiniteSet(S)
    OBVIOUS
  <2> QED BY ONLY <1>1, <2>1, <2>2, MinimalSubset
<1>3. m \in SUBSET S /\ m # {} /\ ~\E s \in m : \A x \in m : s >= x
  BY <1>2
<1>4. PICK z : z \in m
  BY <1>3
<1>5. m \ {z} # {}
  BY <1>3, <1>4
<1>6. PICK s \in m \ {z} : \A x \in m \ {z} : s >= x
  <2>1. m \ {z} \in SUBSET m /\ m \ {z} \in SUBSET S /\ m \ {z} # m
    BY <1>3, <1>4
  <2>2. m \ {z} \notin T
    BY <1>2, <2>1
  <2> QED BY <1>5, <2>1, <2>2
<1>7. s \in Int /\ z \in Int /\ \A x \in m : x \in Int
  BY <1>3, <1>4, <1>6
<1>8. s >= z \/ z >= s
  BY <1>7
<1> QED BY <1>3, <1>4, <1>6, <1>7, <1>8

\* g[s] is the work after the requests at the places s, in their order.
IsBatch(g, w, u, q, D) ==
  g = [s \in SUBSET D |-> IF s = {} THEN w
                          ELSE ApplyRequest(g[s \ {Max(s)}], u, q[Max(s)])]

LEMMA BatchNone ==
  ASSUME NEW w, NEW u, NEW q, NEW D, NEW g, IsBatch(g, w, u, q, D)
  PROVE  g[{}] = w
<1> DEFINE h == [t \in SUBSET D |-> IF t = {} THEN w
                                   ELSE ApplyRequest(g[t \ {Max(t)}], u, q[Max(t)])]
<1>1. g = h
  BY DEF IsBatch
<1>2. {} \in SUBSET D
  OBVIOUS
<1>3. h[{}] = w
  BY <1>2
<1> QED BY <1>1, <1>3

LEMMA BatchLast ==
  ASSUME NEW w, NEW u, NEW q, NEW D, NEW g, IsBatch(g, w, u, q, D),
         NEW s \in SUBSET D, s # {}
  PROVE  g[s] = ApplyRequest(g[s \ {Max(s)}], u, q[Max(s)])
<1> DEFINE h == [t \in SUBSET D |-> IF t = {} THEN w
                                   ELSE ApplyRequest(g[t \ {Max(t)}], u, q[Max(t)])]
<1>1. g = h
  BY DEF IsBatch
<1>2. h[s] = ApplyRequest(g[s \ {Max(s)}], u, q[Max(s)])
  OBVIOUS
<1> HIDE DEF h
<1> QED BY <1>1, <1>2

\* Two such functions agree where both are defined.
LEMMA BatchUnique ==
  ASSUME NEW w, NEW u, NEW q, NEW A, Places(A), NEW B \in SUBSET A,
         NEW g, IsBatch(g, w, u, q, A), NEW h, IsBatch(h, w, u, q, B)
  PROVE  g[B] = h[B]
<1> DEFINE T == {t \in SUBSET B : g[t] # h[t]}
<1>1. SUFFICES ASSUME T # {} PROVE FALSE
  BY B \in SUBSET B
<1>2. PICK m \in T : \A t \in SUBSET m : t \in T => t = m
  <2>1. T \in SUBSET SUBSET A
    OBVIOUS
  <2>2. IsFiniteSet(A)
    BY DEF Places
  <2> HIDE DEF T
  <2> QED BY ONLY <1>1, <2>1, <2>2, MinimalSubset
<1>3. m \in SUBSET A /\ m \in SUBSET B /\ g[m] # h[m]
  BY <1>2
<1>4. (m = {} => g[m] = w) /\ (m # {} => g[m] = ApplyRequest(g[m \ {Max(m)}], u, q[Max(m)]))
  <2>1. IsBatch(g, w, u, q, A) /\ m \in SUBSET A
    BY <1>3
  <2>2. g[{}] = w
    BY ONLY <2>1, BatchNone
  <2>3. m # {} => g[m] = ApplyRequest(g[m \ {Max(m)}], u, q[Max(m)])
    BY ONLY <2>1, BatchLast
  <2> QED BY <2>2, <2>3
<1>5. (m = {} => h[m] = w) /\ (m # {} => h[m] = ApplyRequest(h[m \ {Max(m)}], u, q[Max(m)]))
  <2>1. IsBatch(h, w, u, q, B) /\ m \in SUBSET B
    BY <1>3
  <2>2. h[{}] = w
    BY ONLY <2>1, BatchNone
  <2>3. m # {} => h[m] = ApplyRequest(h[m \ {Max(m)}], u, q[Max(m)])
    BY ONLY <2>1, BatchLast
  <2> QED BY <2>2, <2>3
<1>6. m # {}
  BY <1>3, <1>4, <1>5
<1>7. Max(m) \in m
  <2>1. Places(m)
    <3>1. m \in SUBSET A
      BY <1>3
    <3> QED BY ONLY <3>1, Places(A), SomePlaces
  <2> QED BY <2>1, <1>6, LastPlace
<1>8. g[m \ {Max(m)}] = h[m \ {Max(m)}]
  <2>1. m \ {Max(m)} \in SUBSET m /\ m \ {Max(m)} # m
        /\ m \ {Max(m)} \in SUBSET B
    BY <1>3, <1>7
  <2> QED BY <1>2, <2>1
<1> QED BY <1>3, <1>4, <1>5, <1>6, <1>8

\* There is one.
LEMMA BatchExists ==
  ASSUME NEW w, NEW u, NEW q, NEW D, Places(D)
  PROVE  \E g : IsBatch(g, w, u, q, D)
<1> DEFINE T == {t \in SUBSET D : ~\E g : IsBatch(g, w, u, q, t)}
<1>1. SUFFICES ASSUME T # {} PROVE FALSE
  OBVIOUS
<1>2. PICK m \in T : \A t \in SUBSET m : t \in T => t = m
  <2>1. T \in SUBSET SUBSET D
    OBVIOUS
  <2>2. IsFiniteSet(D)
    BY DEF Places
  <2> HIDE DEF T
  <2> QED BY ONLY <1>1, <2>1, <2>2, MinimalSubset
<1> DEFINE G(t) == CHOOSE g : IsBatch(g, w, u, q, t)
           h == [s \in SUBSET m |->
                   IF s = m THEN (IF s = {} THEN w
                                  ELSE ApplyRequest(G(s \ {Max(s)})[s \ {Max(s)}], u, q[Max(s)]))
                            ELSE G(s)[s]]
<1>3. ASSUME NEW t \in SUBSET m, t # m PROVE IsBatch(G(t), w, u, q, t)
  BY <1>2, <1>3
<1>4. ASSUME NEW s \in SUBSET m
      PROVE  h[s] = IF s = {} THEN w ELSE ApplyRequest(h[s \ {Max(s)}], u, q[Max(s)])
  <2>1. CASE s = {} /\ s = m
    BY <2>1
  <2>2. CASE s = {} /\ s # m
    <3>1. IsBatch(G(s), w, u, q, s)
      BY <1>3, <2>2
    <3>2. G(s)[{}] = w
      <4> HIDE DEF G
      <4> QED BY ONLY <3>1, BatchNone
    <3> QED BY <2>2, <3>2
  <2>3. CASE s # {}
    <3> DEFINE r == s \ {Max(s)}
    <3>1. Max(s) \in s
      <4>1. s \in SUBSET D
        BY <1>2
      <4>2. Places(s)
        BY <4>1, SomePlaces
      <4> QED BY <2>3, <4>2, LastPlace
    <3>2. r \in SUBSET m /\ r # m /\ r # s /\ r \in SUBSET s
      BY <3>1
    <3>3. h[r] = G(r)[r]
      BY <3>2
    <3>4. CASE s = m
      BY <2>3, <3>3, <3>4
    <3>5. CASE s # m
      <4>1. IsBatch(G(s), w, u, q, s) /\ IsBatch(G(r), w, u, q, r)
        BY <1>3, <3>2, <3>5
      <4>2. G(s)[s] = ApplyRequest(G(s)[r], u, q[Max(s)])
        <5>1. IsBatch(G(s), w, u, q, s) /\ s \in SUBSET s
          BY <4>1
        <5> HIDE DEF G
        <5> QED BY ONLY <5>1, <2>3, BatchLast
      <4>3. Places(s) /\ r \in SUBSET s
        <5>1. s \in SUBSET D
          BY <1>2
        <5> QED BY <5>1, <3>2, SomePlaces
      <4>4. G(s)[r] = G(r)[r]
        <5> HIDE DEF G, r
        <5> QED BY ONLY <4>1, <4>3, BatchUnique
      <4>5. h[s] = G(s)[s]
        BY <3>5
      <4>6. h[s] = ApplyRequest(h[r], u, q[Max(s)])
        <5> HIDE DEF G, h, r
        <5> QED BY <4>2, <4>4, <4>5, <3>3
      <4> HIDE DEF G, h
      <4> QED BY <4>6, <2>3
    <3> QED BY <3>4, <3>5
  <2> QED BY <2>1, <2>2, <2>3
<1>5. IsBatch(h, w, u, q, m)
  <2>1. h = [s \in SUBSET m |-> h[s]]
    OBVIOUS
  <2> HIDE DEF h
  <2>2. [s \in SUBSET m |-> h[s]]
         = [s \in SUBSET m |-> IF s = {} THEN w ELSE ApplyRequest(h[s \ {Max(s)}], u, q[Max(s)])]
    BY <1>4
  <2> QED BY <2>1, <2>2 DEF IsBatch
<1> QED BY <1>2, <1>5

\* The fold is that function, so what one request preserves, a batch preserves:
\* Good is any set of works that no accepted request leaves.
LEMMA BatchInduction ==
  ASSUME NEW Good, NEW w \in Good, NEW u, NEW q \in Seq(Requests),
         Batch(w, u, q).ok,
         \A v \in Good : \A r \in Requests :
           ApplyRequest(v, u, r).ok => ApplyRequest(v, u, r) \in Good
  PROVE  Batch(w, u, q) \in Good
<1> DEFINE D == DOMAIN q
<1>1. D = 1..Len(q) /\ Len(q) \in Nat /\ Places(D)
  BY FS_Interval DEF Places
<1> DEFINE g == CHOOSE g1 : IsBatch(g1, w, u, q, D)
<1>2. IsBatch(g, w, u, q, D)
  <2> HIDE DEF D
  <2> QED BY <1>1, BatchExists
<1>3. Batch(w, u, q) = g[D]
  BY DEF Batch, FoldLeft, MapThenFoldSet, IsBatch
<1> HIDE DEF g
<1> DEFINE T == {t \in SUBSET D : ~(g[t].ok => g[t] \in Good)}
<1>4. SUFFICES ASSUME T # {} PROVE FALSE
  BY <1>3, D \in SUBSET D
<1>5. PICK m \in T : \A t \in SUBSET m : t \in T => t = m
  <2>1. T \in SUBSET SUBSET D
    OBVIOUS
  <2>2. IsFiniteSet(D)
    BY <1>1 DEF Places
  <2> HIDE DEF T, D
  <2> QED BY ONLY <2>2, <1>4, <2>1, MinimalSubset
<1>6. m \in SUBSET D /\ g[m].ok /\ g[m] \notin Good
  BY <1>5
<1>7. (m = {} => g[m] = w) /\ (m # {} => g[m] = ApplyRequest(g[m \ {Max(m)}], u, q[Max(m)]))
  <2> HIDE DEF D
  <2>1. g[{}] = w
    BY ONLY <1>2, BatchNone
  <2>2. m # {} => g[m] = ApplyRequest(g[m \ {Max(m)}], u, q[Max(m)])
    BY ONLY <1>2, <1>6, BatchLast
  <2> QED BY <2>1, <2>2
<1>8. m # {}
  BY <1>6, <1>7
<1> DEFINE r == m \ {Max(m)}
<1>9. Max(m) \in m
  <2>1. Places(m)
    <3> HIDE DEF D
    <3> QED BY <1>1, <1>6, SomePlaces
  <2> QED BY <2>1, <1>8, LastPlace
<1>10. g[r].ok => g[r] \in Good
  <2>1. r \in SUBSET m /\ r # m /\ r \in SUBSET D
    BY <1>6, <1>9
  <2> QED BY <1>5, <2>1
<1>11. q[Max(m)] \in Requests
  BY <1>6, <1>9
<1> HIDE DEF r
<1>12. g[m] = ApplyRequest(g[r], u, q[Max(m)])
  BY <1>7, <1>8 DEF r
<1>13. g[r].ok
  BY <1>6, <1>12 DEF ApplyRequest
<1> QED BY <1>6, <1>10, <1>11, <1>12, <1>13

------------------------------------------------------------------------------
(* Conversions *)

LEMMA FloorDiv ==
  \A a \in Nat : \A b \in Nat \ {0} :
    a \div b \in Nat /\ b * (a \div b) <= a /\ a < b * (a \div b) + b
BY DivisionBounds

LEMMA CeilDiv ==
  \A a \in Nat : \A b \in Nat \ {0} :
    /\ (a + b - 1) \div b \in Nat
    /\ a <= b * ((a + b - 1) \div b)
    /\ b * ((a + b - 1) \div b) < a + b
<1> SUFFICES ASSUME NEW a \in Nat, NEW b \in Nat \ {0}
    PROVE  /\ (a + b - 1) \div b \in Nat
           /\ a <= b * ((a + b - 1) \div b)
           /\ b * ((a + b - 1) \div b) < a + b
  OBVIOUS
<1> DEFINE n == a + b - 1
           c == n \div b
<1>1. n \in Nat
  OBVIOUS
<1>2. c \in Nat /\ b * c <= n /\ n < b * c + b
  <2> HIDE DEF n
  <2> QED BY <1>1, FloorDiv
<1>3. b * c \in Nat
  <2> HIDE DEF c
  <2> QED BY <1>2, ProductNat
<1> HIDE DEF c
<1>4. a <= b * c /\ b * c < a + b
  BY <1>2, <1>3
<1> QED BY <1>2, <1>4 DEF c

Scaled(x) == x * RateScale

LEMMA ScaleTyped ==
  /\ RateScale \in Nat \ {0} /\ RatioScale \in Nat \ {0}
  /\ \A x \in Nat : Scaled(x) \in Nat
  /\ \A x \in Int : Scaled(x) \in Int
BY ReserveAssumption, ProductNat DEF Scaled

\* x tokens are at most, or at least, this many shares of the rate.
LEMMA SharesDown ==
  \A x, rate \in Nat :
    /\ DivFloor(x, rate, RateScale) \in Nat
    /\ DivFloor(x, rate, RateScale) * rate <= Scaled(x)
<1> SUFFICES ASSUME NEW x \in Nat, NEW rate \in Nat
    PROVE  /\ DivFloor(x, rate, RateScale) \in Nat
           /\ DivFloor(x, rate, RateScale) * rate <= Scaled(x)
  OBVIOUS
<1>1. Scaled(x) \in Nat
  BY ScaleTyped
<1>2. CASE rate = 0
  <2>1. DivFloor(x, rate, RateScale) = 0
    BY <1>2 DEF DivFloor
  <2> QED BY <1>1, <1>2, <2>1
<1>3. CASE rate # 0
  <2> DEFINE q == Scaled(x) \div rate
  <2>1. DivFloor(x, rate, RateScale) = q
    BY <1>3 DEF DivFloor, Scaled
  <2>2. q \in Nat /\ rate * q <= Scaled(x)
    BY <1>1, <1>3, FloorDiv
  <2> HIDE DEF q
  <2>3. q * rate = rate * q
    BY <2>2
  <2> QED BY <2>1, <2>2, <2>3
<1> QED BY <1>2, <1>3

LEMMA SharesUp ==
  \A x, rate \in Nat :
    /\ DivCeil(x, rate, RateScale) \in Nat
    /\ rate = 0 => DivCeil(x, rate, RateScale) = 0
    /\ rate # 0 => Scaled(x) <= DivCeil(x, rate, RateScale) * rate
    /\ rate # 0 => DivCeil(x, rate, RateScale) * rate < Scaled(x) + rate
<1> SUFFICES ASSUME NEW x \in Nat, NEW rate \in Nat
    PROVE  /\ DivCeil(x, rate, RateScale) \in Nat
           /\ rate = 0 => DivCeil(x, rate, RateScale) = 0
           /\ rate # 0 => Scaled(x) <= DivCeil(x, rate, RateScale) * rate
           /\ rate # 0 => DivCeil(x, rate, RateScale) * rate < Scaled(x) + rate
  OBVIOUS
<1>1. Scaled(x) \in Nat
  BY ScaleTyped
<1>2. CASE rate = 0
  BY <1>2 DEF DivCeil
<1>3. CASE rate # 0
  <2> DEFINE q == (Scaled(x) + rate - 1) \div rate
  <2>1. DivCeil(x, rate, RateScale) = q
    BY <1>3 DEF DivCeil, Scaled
  <2>2. q \in Nat /\ Scaled(x) <= rate * q /\ rate * q < Scaled(x) + rate
    BY <1>1, <1>3, CeilDiv
  <2> HIDE DEF q
  <2>3. q * rate = rate * q
    BY <2>2
  <2> QED BY <1>3, <2>1, <2>2, <2>3
<1> QED BY <1>2, <1>3

\* What shares are worth, rounded down or up.
LEMMA WorthDown ==
  \A n, rate \in Nat :
    /\ MulFloor(n, rate, RateScale) \in Nat
    /\ Scaled(MulFloor(n, rate, RateScale)) <= n * rate
    /\ n * rate < Scaled(MulFloor(n, rate, RateScale)) + RateScale
<1> SUFFICES ASSUME NEW n \in Nat, NEW rate \in Nat
    PROVE  /\ MulFloor(n, rate, RateScale) \in Nat
           /\ Scaled(MulFloor(n, rate, RateScale)) <= n * rate
           /\ n * rate < Scaled(MulFloor(n, rate, RateScale)) + RateScale
  OBVIOUS
<1> DEFINE m == n * rate
           q == m \div RateScale
<1>1. m \in Nat
  BY ProductNat
<1>2. q \in Nat /\ RateScale * q <= m /\ m < RateScale * q + RateScale
  <2> HIDE DEF m
  <2> QED BY <1>1, ScaleTyped, FloorDiv
<1>3. MulFloor(n, rate, RateScale) = q
  BY DEF MulFloor
<1> HIDE DEF q
<1>4. Scaled(q) = RateScale * q
  BY <1>2, ScaleTyped DEF Scaled
<1> QED BY <1>2, <1>3, <1>4

LEMMA WorthUp ==
  \A n, rate \in Nat :
    /\ MulCeil(n, rate, RateScale) \in Nat
    /\ n * rate <= Scaled(MulCeil(n, rate, RateScale))
    /\ Scaled(MulCeil(n, rate, RateScale)) < n * rate + RateScale
<1> SUFFICES ASSUME NEW n \in Nat, NEW rate \in Nat
    PROVE  /\ MulCeil(n, rate, RateScale) \in Nat
           /\ n * rate <= Scaled(MulCeil(n, rate, RateScale))
           /\ Scaled(MulCeil(n, rate, RateScale)) < n * rate + RateScale
  OBVIOUS
<1> DEFINE m == n * rate
           q == (m + RateScale - 1) \div RateScale
<1>1. m \in Nat
  BY ProductNat
<1>2. q \in Nat /\ m <= RateScale * q /\ RateScale * q < m + RateScale
  <2> HIDE DEF m
  <2> QED BY <1>1, ScaleTyped, CeilDiv
<1>3. MulCeil(n, rate, RateScale) = q
  BY DEF MulCeil
<1> HIDE DEF q
<1>4. Scaled(q) = RateScale * q
  BY <1>2, ScaleTyped DEF Scaled
<1> QED BY <1>2, <1>3, <1>4

\* Tokens compare as their scaled amounts do.
LEMMA ScaledOrder ==
  \A x, y \in Int :
    /\ Scaled(x) <= Scaled(y) <=> x <= y
    /\ Scaled(x) < Scaled(y) + RateScale <=> x <= y
    /\ Scaled(x + y) = Scaled(x) + Scaled(y)
    /\ Scaled(x - y) = Scaled(x) - Scaled(y)
<1> SUFFICES ASSUME NEW x \in Int, NEW y \in Int
    PROVE /\ Scaled(x) <= Scaled(y) <=> x <= y
          /\ Scaled(x) < Scaled(y) + RateScale <=> x <= y
          /\ Scaled(x + y) = Scaled(x) + Scaled(y)
          /\ Scaled(x - y) = Scaled(x) - Scaled(y)
  OBVIOUS
<1>0. \A a, b \in Int : Scaled(a + b) = Scaled(a) + Scaled(b)
                         /\ Scaled(a - b) = Scaled(a) - Scaled(b)
  BY ScaleTyped DEF Scaled
<1>1. \A a, b \in Int : a <= b => Scaled(a) <= Scaled(b)
  <2> SUFFICES ASSUME NEW a \in Int, NEW b \in Int, a <= b PROVE Scaled(a) <= Scaled(b)
    OBVIOUS
  <2>1. b - a \in Nat
    OBVIOUS
  <2>2. Scaled(b - a) \in Nat
    BY <2>1, ScaleTyped
  <2>3. Scaled(b - a) = Scaled(b) - Scaled(a)
    BY <1>0
  <2> QED BY <2>2, <2>3, ScaleTyped
<1>2. \A a \in Int : Scaled(a + 1) = Scaled(a) + RateScale
  BY ScaleTyped DEF Scaled
<1>3. Scaled(x) \in Int /\ Scaled(y) \in Int
  BY ScaleTyped
<1>4. y < x => Scaled(y) + RateScale <= Scaled(x)
  <2>1. y < x => Scaled(y + 1) <= Scaled(x)
    BY <1>1
  <2> QED BY <2>1, <1>2
<1>5. Scaled(x) < Scaled(y) + RateScale <=> x <= y
  BY <1>1, <1>3, <1>4, ScaleTyped
<1>6. Scaled(x) <= Scaled(y) <=> x <= y
  BY <1>1, <1>3, <1>4, ScaleTyped
<1> QED BY <1>0, <1>5, <1>6

LEMMA MinOfTwo == \A x, y \in Int : Min({x, y}) = IF x <= y THEN x ELSE y
<1> SUFFICES ASSUME NEW x \in Int, NEW y \in Int
    PROVE Min({x, y}) = IF x <= y THEN x ELSE y
  OBVIOUS
<1> DEFINE m == IF x <= y THEN x ELSE y
<1>1. m \in {x, y} /\ \A z \in {x, y} : m <= z
  OBVIOUS
<1>2. \A z \in {x, y} : (\A t \in {x, y} : z <= t) => z = m
  OBVIOUS
<1> HIDE DEF m
<1>3. Min({x, y}) = m
  BY <1>1, <1>2 DEF Min
<1> QED BY <1>3 DEF m

LEMMA MaxOfTwo == \A x, y \in Int : Max({x, y}) = IF x >= y THEN x ELSE y
<1> SUFFICES ASSUME NEW x \in Int, NEW y \in Int
    PROVE Max({x, y}) = IF x >= y THEN x ELSE y
  OBVIOUS
<1> DEFINE m == IF x >= y THEN x ELSE y
<1>1. m \in {x, y} /\ \A z \in {x, y} : m >= z
  OBVIOUS
<1>2. \A z \in {x, y} : (\A t \in {x, y} : z >= t) => z = m
  OBVIOUS
<1> HIDE DEF m
<1>3. Max({x, y}) = m
  BY <1>1, <1>2 DEF Max
<1> QED BY <1>3 DEF m

------------------------------------------------------------------------------
(* What a request leaves as it was *)

ReserveData == [dRate : Nat, bRate : Nat, dSupply : Nat, bSupply : Nat, credit : Nat]
FeeData == [credit : Nat, carry : 0..(RatioScale - 1)]
Account == [supply : Nat, collateral : Nat, debt : Nat]
Accounts == [Holders -> Account]

Works ==
  [r : ReserveData, f : FeeData, pos : Accounts, bal : Int, in : Int, out : Int,
   borrowed : BOOLEAN, ok : BOOLEAN]

\* The shares of the accounts add up to the supplies.
Adds(r, pos) ==
  r.bSupply = SumOfHolders(BShares(pos)) /\ r.dSupply = SumOfHolders(DShares(pos))

\* The working state of a submission that may still succeed.
Sound == {w \in Works : w.ok /\ Adds(w.r, w.pos)}

LEMMA HoldersFinite == IsFiniteSet(Holders) /\ Users \subseteq Holders /\ Backstop \in Holders
BY ReserveAssumption, FS_AddElement DEF Holders

LEMMA SumIs == \A f : SumOfHolders(f) = SumOn(f, Holders)
BY DEF SumOfHolders, SumOn

\* Changing one account changes the sums by what its shares change.
LEMMA OneAccount ==
  ASSUME NEW pos \in Accounts, NEW u \in Holders, NEW a \in Account
  PROVE  LET new == [pos EXCEPT ![u] = a]
         IN /\ new \in Accounts
            /\ SumOfHolders(BShares(new)) = SumOfHolders(BShares(pos))
                 + (a.supply + a.collateral) - (pos[u].supply + pos[u].collateral)
            /\ SumOfHolders(DShares(new)) = SumOfHolders(DShares(pos)) + a.debt - pos[u].debt
            /\ SumOfHolders(BShares(pos)) \in Nat /\ SumOfHolders(DShares(pos)) \in Nat
<1> DEFINE new == [pos EXCEPT ![u] = a]
<1>1. new \in Accounts /\ new[u] = a /\ \A v \in Holders \ {u} : new[v] = pos[v]
  BY DEF Accounts
<1>2. \A p \in Accounts : \A v \in Holders :
        /\ BShares(p)[v] = p[v].supply + p[v].collateral /\ BShares(p)[v] \in Nat
        /\ DShares(p)[v] = p[v].debt /\ DShares(p)[v] \in Nat
  BY DEF Accounts, Account, BShares, DShares
<1> HIDE DEF new
<1> DEFINE f == BShares(pos)
           g == BShares(new)
           h == DShares(pos)
           k == DShares(new)
<1>3. /\ \A v \in Holders : f[v] \in Nat /\ g[v] \in Nat /\ h[v] \in Nat /\ k[v] \in Nat
      /\ \A v \in Holders \ {u} : f[v] = g[v] /\ h[v] = k[v]
      /\ f[u] = pos[u].supply + pos[u].collateral /\ g[u] = a.supply + a.collateral
      /\ h[u] = pos[u].debt /\ k[u] = a.debt
  BY <1>1, <1>2
<1> HIDE DEF f, g, h, k
<1>4. \A v \in Holders : f[v] \in Int /\ g[v] \in Int /\ h[v] \in Int /\ k[v] \in Int
  BY <1>3
<1>5. SumOn(g, Holders) = SumOn(f, Holders) - f[u] + g[u]
  <2>1. IsFiniteSet(Holders) /\ u \in Holders
    BY HoldersFinite
  <2>2. \A v \in Holders : f[v] \in Int /\ g[v] \in Int
    BY <1>4
  <2>3. \A v \in Holders \ {u} : f[v] = g[v]
    BY <1>3
  <2> QED BY ONLY <2>1, <2>2, <2>3, SumChange
<1>6. SumOn(k, Holders) = SumOn(h, Holders) - h[u] + k[u]
  <2>1. IsFiniteSet(Holders) /\ u \in Holders
    BY HoldersFinite
  <2>2. \A v \in Holders : h[v] \in Int /\ k[v] \in Int
    BY <1>4
  <2>3. \A v \in Holders \ {u} : h[v] = k[v]
    BY <1>3
  <2> QED BY ONLY <2>1, <2>2, <2>3, SumChange
<1>7. SumOn(f, Holders) \in Nat /\ SumOn(h, Holders) \in Nat
  BY <1>3, HoldersFinite, SumNat
<1>8. f[u] \in Nat /\ g[u] \in Nat /\ h[u] \in Nat /\ k[u] \in Nat
  BY <1>3
<1>9. /\ SumOfHolders(g) = SumOn(g, Holders) /\ SumOfHolders(f) = SumOn(f, Holders)
      /\ SumOfHolders(k) = SumOn(k, Holders) /\ SumOfHolders(h) = SumOn(h, Holders)
  BY SumIs
<1>10. /\ SumOfHolders(g) = SumOfHolders(f) + g[u] - f[u]
       /\ SumOfHolders(k) = SumOfHolders(h) + k[u] - h[u]
  BY <1>5, <1>6, <1>7, <1>8, <1>9
<1> QED BY <1>1, <1>3, <1>7, <1>9, <1>10 DEF f, g, h, k, new

\* w is v after one account changed and the supplies followed it.
Shift(v, w, db, dd) ==
  /\ v \in Sound /\ w \in Sound
  /\ db \in Int /\ dd \in Int
  /\ w.r.bSupply = v.r.bSupply + db /\ w.r.dSupply = v.r.dSupply + dd
  /\ w.r.bRate = v.r.bRate /\ w.r.dRate = v.r.dRate /\ w.r.credit = v.r.credit
  /\ w.f = v.f /\ w.bal = v.bal /\ w.in = v.in /\ w.out = v.out

LEMMA Accepted ==
  \A c \in BOOLEAN : \A w : "ok" \in DOMAIN w /\ Demand(c, w).ok => c /\ Demand(c, w) = w
BY DEF Demand, Refuse

LEMMA WorksKept ==
  ASSUME NEW w \in Works, NEW p \in Accounts, NEW d \in ReserveData
  PROVE  [w EXCEPT !.pos = p, !.r = d] \in Works
BY DEF Works

\* Only the supplies changed, by so much.
Supplies(new, old, db, dd) ==
  /\ new \in [dRate : Nat, bRate : Nat, dSupply : Int, bSupply : Int, credit : Nat]
  /\ new.bSupply = old.bSupply + db /\ new.dSupply = old.dSupply + dd
  /\ new.bRate = old.bRate /\ new.dRate = old.dRate /\ new.credit = old.credit

LEMMA AccountShifts ==
  ASSUME NEW w \in Works, w.ok, Adds(w.r, w.pos), NEW u \in Holders, NEW a \in Account,
         NEW db \in Int, db = (a.supply + a.collateral) - (w.pos[u].supply + w.pos[u].collateral),
         NEW dd \in Int, dd = a.debt - w.pos[u].debt,
         NEW new, new = [w EXCEPT !.pos = new.pos, !.r = new.r],
         new.pos = [w.pos EXCEPT ![u] = a],
         Supplies(new.r, w.r, db, dd)
  PROVE  Shift(w, new, db, dd)
<1>1. /\ w.pos \in Accounts /\ w.pos[u] \in Account /\ w.r \in ReserveData
      /\ w.f \in FeeData /\ w.ok \in BOOLEAN
  BY DEF Works, Accounts
<1> DEFINE p == [w.pos EXCEPT ![u] = a]
           d == new.r
<1>2. /\ p \in Accounts
      /\ SumOfHolders(BShares(p)) = SumOfHolders(BShares(w.pos))
           + (a.supply + a.collateral) - (w.pos[u].supply + w.pos[u].collateral)
      /\ SumOfHolders(DShares(p)) = SumOfHolders(DShares(w.pos)) + a.debt - w.pos[u].debt
      /\ SumOfHolders(BShares(w.pos)) \in Nat /\ SumOfHolders(DShares(w.pos)) \in Nat
  BY ONLY <1>1, u \in Holders, a \in Account, OneAccount
<1>3. SumOfHolders(BShares(p)) \in Nat /\ SumOfHolders(DShares(p)) \in Nat
  <2>1. p[u] = a /\ p = [p EXCEPT ![u] = a]
    BY <1>1 DEF Accounts
  <2> HIDE DEF p
  <2> QED BY ONLY <1>2, u \in Holders, a \in Account, OneAccount
<1>4. /\ a.supply \in Nat /\ a.collateral \in Nat /\ a.debt \in Nat
      /\ w.pos[u].supply \in Nat /\ w.pos[u].collateral \in Nat /\ w.pos[u].debt \in Nat
  BY <1>1 DEF Account
<1>5. /\ w.r.bSupply + db = SumOfHolders(BShares(p))
      /\ w.r.dSupply + dd = SumOfHolders(DShares(p))
  <2> HIDE DEF p
  <2> QED BY <1>2, <1>4 DEF Adds
<1>6. /\ d \in ReserveData
      /\ d.bSupply = w.r.bSupply + db /\ d.dSupply = w.r.dSupply + dd
      /\ d.bRate = w.r.bRate /\ d.dRate = w.r.dRate /\ d.credit = w.r.credit
  <2>1. w.r.bSupply + db \in Nat /\ w.r.dSupply + dd \in Nat
    <3> HIDE DEF p
    <3> QED BY <1>3, <1>5
  <2> QED BY <1>1, <2>1 DEF ReserveData, Supplies
<1>7. /\ new.pos = p /\ new.r = d /\ new.f = w.f /\ new.bal = w.bal /\ new.in = w.in
      /\ new.out = w.out /\ new.ok = w.ok
  BY DEF Works
<1> HIDE DEF p, d
<1>8. new \in Works
  <2>1. new = [w EXCEPT !.pos = p, !.r = d]
    BY <1>7
  <2> QED BY ONLY <1>2, <1>6, <2>1, w \in Works, WorksKept
<1>9. Adds(new.r, new.pos)
  BY <1>5, <1>6, <1>7 DEF Adds
<1>10. w \in Sound /\ new \in Sound
  BY <1>7, <1>8, <1>9 DEF Sound
<1> QED BY <1>6, <1>7, <1>10 DEF Shift

LEMMA AddBShifts ==
  ASSUME NEW w \in Works, Adds(w.r, w.pos), NEW u \in Holders,
         NEW field \in {"supply", "collateral"}, NEW b \in Int, AddB(w, u, field, b).ok
  PROVE  b > 0 /\ Shift(w, AddB(w, u, field, b), b, 0)
<1> DEFINE new == [w EXCEPT !.pos[u][field] = @ + b, !.r.bSupply = @ + b]
           a == [w.pos[u] EXCEPT ![field] = @ + b]
<1>1. "ok" \in DOMAIN new /\ (b > 0) \in BOOLEAN /\ AddB(w, u, field, b) = Demand(b > 0, new)
  BY DEF AddB, Works
<1>2. b > 0 /\ AddB(w, u, field, b) = new /\ new.ok
  <2> HIDE DEF new
  <2> QED BY <1>1, Accepted
<1>3. w.pos[u] \in Account /\ w.r \in ReserveData
  BY DEF Works, Accounts
<1>4. /\ a \in Account /\ a.debt = w.pos[u].debt
      /\ a.supply + a.collateral = w.pos[u].supply + w.pos[u].collateral + b
      /\ w.pos[u].supply + w.pos[u].collateral \in Nat /\ w.pos[u].debt \in Nat
  BY <1>2, <1>3 DEF Account
<1>5. w.ok /\ new.pos = [w.pos EXCEPT ![u] = a] /\ new = [w EXCEPT !.pos = new.pos, !.r = new.r]
  BY <1>2, <1>3 DEF Works, Accounts
<1>7. Supplies(new.r, w.r, b, 0)
  BY <1>3 DEF Works, ReserveData, Supplies
<1> HIDE DEF a, new
<1>6. b = (a.supply + a.collateral) - (w.pos[u].supply + w.pos[u].collateral)
      /\ 0 = a.debt - w.pos[u].debt /\ 0 \in Int
  BY <1>4
<1>8. Shift(w, new, b, 0)
  BY ONLY <1>4, <1>5, <1>7, <1>6, w \in Works, Adds(w.r, w.pos), u \in Holders, b \in Int,
          AccountShifts
<1> QED BY <1>2, <1>8

LEMMA RemoveBShifts ==
  ASSUME NEW w \in Works, Adds(w.r, w.pos), NEW u \in Holders,
         NEW field \in {"supply", "collateral"}, NEW b \in Int, RemoveB(w, u, field, b).ok
  PROVE  b > 0 /\ Shift(w, RemoveB(w, u, field, b), -b, 0)
<1> DEFINE new == [w EXCEPT !.pos[u][field] = @ - b, !.r.bSupply = @ - b]
           a == [w.pos[u] EXCEPT ![field] = @ - b]
           c == b > 0 /\ b <= w.pos[u][field]
<1>1. "ok" \in DOMAIN new /\ c \in BOOLEAN /\ RemoveB(w, u, field, b) = Demand(c, new)
  BY DEF RemoveB, Works
<1>2. c /\ RemoveB(w, u, field, b) = new /\ new.ok
  <2> HIDE DEF new, c
  <2> QED BY <1>1, Accepted
<1>3. w.pos[u] \in Account /\ w.r \in ReserveData
  BY DEF Works, Accounts
<1>4. /\ a \in Account /\ a.debt = w.pos[u].debt
      /\ a.supply + a.collateral = w.pos[u].supply + w.pos[u].collateral - b
      /\ w.pos[u].supply + w.pos[u].collateral \in Nat /\ w.pos[u].debt \in Nat
  BY <1>2, <1>3 DEF Account
<1> DEFINE n == -b
<1>5. w.ok /\ new.pos = [w.pos EXCEPT ![u] = a] /\ new = [w EXCEPT !.pos = new.pos, !.r = new.r]
  BY <1>2, <1>3 DEF Works, Accounts
<1>7. Supplies(new.r, w.r, n, 0)
  BY <1>3 DEF Works, ReserveData, Supplies
<1> HIDE DEF a, new
<1>6. n = (a.supply + a.collateral) - (w.pos[u].supply + w.pos[u].collateral)
      /\ 0 = a.debt - w.pos[u].debt /\ 0 \in Int /\ n \in Int
  <2>1. n = 0 - b
    OBVIOUS
  <2>2. /\ a.supply \in Nat /\ a.collateral \in Nat
        /\ w.pos[u].supply \in Nat /\ w.pos[u].collateral \in Nat
    BY <1>3, <1>4 DEF Account
  <2> HIDE DEF n, c
  <2>3. n = (a.supply + a.collateral) - (w.pos[u].supply + w.pos[u].collateral)
    BY ONLY <1>4, <2>1, <2>2, b \in Int
  <2>4. 0 = a.debt - w.pos[u].debt
    BY ONLY <1>4
  <2>5. n \in Int
    BY ONLY <2>1, b \in Int
  <2> QED BY <2>3, <2>4, <2>5
<1> HIDE DEF n
<1>8. Shift(w, new, n, 0)
  BY ONLY <1>4, <1>5, <1>7, <1>6, w \in Works, Adds(w.r, w.pos), u \in Holders, AccountShifts
<1> QED BY <1>2, <1>8 DEF n

LEMMA AddDShifts ==
  ASSUME NEW w \in Works, Adds(w.r, w.pos), NEW u \in Holders, NEW d \in Int, AddD(w, u, d).ok
  PROVE  d > 0 /\ Shift(w, AddD(w, u, d), 0, d)
<1> DEFINE new == [w EXCEPT !.pos[u].debt = @ + d, !.r.dSupply = @ + d]
           a == [w.pos[u] EXCEPT !.debt = @ + d]
<1>1. "ok" \in DOMAIN new /\ (d > 0) \in BOOLEAN /\ AddD(w, u, d) = Demand(d > 0, new)
  BY DEF AddD, Works
<1>2. d > 0 /\ AddD(w, u, d) = new /\ new.ok
  <2> HIDE DEF new
  <2> QED BY <1>1, Accepted
<1>3. w.pos[u] \in Account /\ w.r \in ReserveData
  BY DEF Works, Accounts
<1>4. /\ a \in Account /\ a.debt = w.pos[u].debt + d
      /\ a.supply + a.collateral = w.pos[u].supply + w.pos[u].collateral
      /\ w.pos[u].supply + w.pos[u].collateral \in Nat /\ w.pos[u].debt \in Nat
  BY <1>2, <1>3 DEF Account
<1>5. w.ok /\ new.pos = [w.pos EXCEPT ![u] = a] /\ new = [w EXCEPT !.pos = new.pos, !.r = new.r]
  BY <1>2, <1>3 DEF Works, Accounts
<1>7. Supplies(new.r, w.r, 0, d)
  BY <1>3 DEF Works, ReserveData, Supplies
<1> HIDE DEF a, new
<1>6. 0 = (a.supply + a.collateral) - (w.pos[u].supply + w.pos[u].collateral)
      /\ d = a.debt - w.pos[u].debt /\ 0 \in Int
  BY <1>4
<1>8. Shift(w, new, 0, d)
  BY ONLY <1>4, <1>5, <1>7, <1>6, w \in Works, Adds(w.r, w.pos), u \in Holders, d \in Int,
          AccountShifts
<1> QED BY <1>2, <1>8

LEMMA RemoveDShifts ==
  ASSUME NEW w \in Works, Adds(w.r, w.pos), NEW u \in Holders, NEW d \in Int,
         RemoveD(w, u, d).ok
  PROVE  d > 0 /\ Shift(w, RemoveD(w, u, d), 0, -d)
<1> DEFINE new == [w EXCEPT !.pos[u].debt = @ - d, !.r.dSupply = @ - d]
           a == [w.pos[u] EXCEPT !.debt = @ - d]
           c == d > 0 /\ d <= w.pos[u].debt
<1>1. "ok" \in DOMAIN new /\ c \in BOOLEAN /\ RemoveD(w, u, d) = Demand(c, new)
  BY DEF RemoveD, Works
<1>2. c /\ RemoveD(w, u, d) = new /\ new.ok
  <2> HIDE DEF new, c
  <2> QED BY <1>1, Accepted
<1>3. w.pos[u] \in Account /\ w.r \in ReserveData
  BY DEF Works, Accounts
<1>4. /\ a \in Account /\ a.debt = w.pos[u].debt - d
      /\ a.supply + a.collateral = w.pos[u].supply + w.pos[u].collateral
      /\ w.pos[u].supply + w.pos[u].collateral \in Nat /\ w.pos[u].debt \in Nat
  BY <1>2, <1>3 DEF Account
<1> DEFINE n == -d
<1>5. w.ok /\ new.pos = [w.pos EXCEPT ![u] = a] /\ new = [w EXCEPT !.pos = new.pos, !.r = new.r]
  BY <1>2, <1>3 DEF Works, Accounts
<1>7. Supplies(new.r, w.r, 0, n)
  BY <1>3 DEF Works, ReserveData, Supplies
<1> HIDE DEF a, new
<1>6. 0 = (a.supply + a.collateral) - (w.pos[u].supply + w.pos[u].collateral)
      /\ n = a.debt - w.pos[u].debt /\ 0 \in Int /\ n \in Int
  BY <1>4
<1> HIDE DEF n
<1>8. Shift(w, new, 0, n)
  BY ONLY <1>4, <1>5, <1>7, <1>6, w \in Works, Adds(w.r, w.pos), u \in Holders, AccountShifts
<1> QED BY <1>2, <1>8 DEF n

------------------------------------------------------------------------------
(* No request is paid for by the reserve *)

\* What the pool would hold if the submission ended here, beyond its credits.
Net(w) == w.bal + w.in - w.out - w.r.credit - w.f.credit

\* From v to w at unchanged rates: for the shares of either side that changed
\* hands, the reserve took in at least what they are worth.
Moves(v, w) ==
  /\ v \in Sound /\ w \in Sound
  /\ w.r.bRate = v.r.bRate /\ w.r.dRate = v.r.dRate
  /\ \E paid \in Int : \E repaid \in Int :
       /\ Net(w) = Net(v) + paid + repaid
       /\ v.r.bRate * (w.r.bSupply - v.r.bSupply) <= Scaled(paid)
       /\ v.r.dRate * (v.r.dSupply - w.r.dSupply) <= Scaled(repaid)

LEMMA SoundTyped ==
  \A w \in Sound :
    /\ w \in Works /\ w.ok /\ Adds(w.r, w.pos) /\ "ok" \in DOMAIN w
    /\ w.r \in ReserveData /\ w.f \in FeeData /\ w.pos \in Accounts
    /\ w.r.bRate \in Nat /\ w.r.dRate \in Nat /\ w.r.bSupply \in Nat /\ w.r.dSupply \in Nat
    /\ w.r.credit \in Nat /\ w.f.credit \in Nat
    /\ w.bal \in Int /\ w.in \in Int /\ w.out \in Int /\ Net(w) \in Int
    /\ \A u \in Holders : /\ w.pos[u].supply \in Nat /\ w.pos[u].collateral \in Nat
                          /\ w.pos[u].debt \in Nat /\ w.pos[u] \in Account
<1> SUFFICES ASSUME NEW w \in Sound
    PROVE /\ w \in Works /\ w.ok /\ Adds(w.r, w.pos) /\ "ok" \in DOMAIN w
          /\ w.r \in ReserveData /\ w.f \in FeeData /\ w.pos \in Accounts
          /\ w.r.bRate \in Nat /\ w.r.dRate \in Nat /\ w.r.bSupply \in Nat /\ w.r.dSupply \in Nat
          /\ w.r.credit \in Nat /\ w.f.credit \in Nat
          /\ w.bal \in Int /\ w.in \in Int /\ w.out \in Int /\ Net(w) \in Int
          /\ \A u \in Holders : /\ w.pos[u].supply \in Nat /\ w.pos[u].collateral \in Nat
                                /\ w.pos[u].debt \in Nat /\ w.pos[u] \in Account
  OBVIOUS
<1>1. w \in Works /\ w.ok /\ Adds(w.r, w.pos)
  BY DEF Sound
<1>2. /\ w.r \in ReserveData /\ w.f \in FeeData /\ w.pos \in Accounts /\ "ok" \in DOMAIN w
      /\ w.bal \in Int /\ w.in \in Int /\ w.out \in Int
  BY <1>1 DEF Works
<1>3. /\ w.r.bRate \in Nat /\ w.r.dRate \in Nat /\ w.r.bSupply \in Nat /\ w.r.dSupply \in Nat
      /\ w.r.credit \in Nat /\ w.f.credit \in Nat
  BY <1>2 DEF ReserveData, FeeData
<1>4. Net(w) \in Int
  BY <1>2, <1>3 DEF Net
<1>5. \A u \in Holders : /\ w.pos[u].supply \in Nat /\ w.pos[u].collateral \in Nat
                         /\ w.pos[u].debt \in Nat /\ w.pos[u] \in Account
  BY <1>2 DEF Accounts, Account
<1> QED BY <1>1, <1>2, <1>3, <1>4, <1>5

LEMMA MovesBy ==
  ASSUME NEW v \in Sound, NEW w \in Sound, w.r.bRate = v.r.bRate, w.r.dRate = v.r.dRate,
         NEW db \in Int, NEW dd \in Int,
         w.r.bSupply = v.r.bSupply + db, w.r.dSupply = v.r.dSupply + dd,
         NEW paid \in Int, NEW repaid \in Int, Net(w) = Net(v) + paid + repaid,
         v.r.bRate * db <= Scaled(paid), v.r.dRate * (-dd) <= Scaled(repaid)
  PROVE  Moves(v, w)
<1>1. w.r.bSupply - v.r.bSupply = db /\ v.r.dSupply - w.r.dSupply = -dd
  BY SoundTyped
<1> QED BY <1>1 DEF Moves

LEMMA MovesTransitive ==
  ASSUME NEW u, NEW v, NEW w, Moves(u, v), Moves(v, w)
  PROVE  Moves(u, w)
<1>1. /\ u \in Sound /\ v \in Sound /\ w \in Sound
      /\ v.r.bRate = u.r.bRate /\ w.r.bRate = u.r.bRate
      /\ v.r.dRate = u.r.dRate /\ w.r.dRate = u.r.dRate
  BY DEF Moves
<1>2. PICK p1 \in Int, q1 \in Int :
        /\ Net(v) = Net(u) + p1 + q1
        /\ u.r.bRate * (v.r.bSupply - u.r.bSupply) <= Scaled(p1)
        /\ u.r.dRate * (u.r.dSupply - v.r.dSupply) <= Scaled(q1)
  BY DEF Moves
<1>3. PICK p2 \in Int, q2 \in Int :
        /\ Net(w) = Net(v) + p2 + q2
        /\ u.r.bRate * (w.r.bSupply - v.r.bSupply) <= Scaled(p2)
        /\ u.r.dRate * (v.r.dSupply - w.r.dSupply) <= Scaled(q2)
  BY <1>1 DEF Moves
<1> DEFINE R == u.r.bRate
           D == u.r.dRate
           a == u.r.bSupply
           b == v.r.bSupply
           c == w.r.bSupply
           x == u.r.dSupply
           y == v.r.dSupply
           z == w.r.dSupply
<1>4. R \in Nat /\ D \in Nat /\ a \in Nat /\ b \in Nat /\ c \in Nat /\ x \in Nat /\ y \in Nat
      /\ z \in Nat
  BY <1>1, SoundTyped
<1>5. R * (b - a) <= Scaled(p1) /\ R * (c - b) <= Scaled(p2)
      /\ D * (x - y) <= Scaled(q1) /\ D * (y - z) <= Scaled(q2)
  BY <1>2, <1>3
<1>6. Net(u) \in Int /\ Net(v) \in Int /\ Net(w) \in Int
  BY <1>1, SoundTyped
<1> HIDE DEF R, D, a, b, c, x, y, z
<1>7. R * (c - a) = R * (b - a) + R * (c - b) /\ D * (x - z) = D * (x - y) + D * (y - z)
  BY <1>4
<1>8. /\ Scaled(p1 + p2) = Scaled(p1) + Scaled(p2) /\ Scaled(q1 + q2) = Scaled(q1) + Scaled(q2)
      /\ Scaled(p1) \in Int /\ Scaled(p2) \in Int /\ Scaled(q1) \in Int /\ Scaled(q2) \in Int
  BY ScaledOrder, ScaleTyped
<1>9. R * (b - a) \in Int /\ R * (c - b) \in Int /\ D * (x - y) \in Int /\ D * (y - z) \in Int
  BY <1>4
<1>10. R * (c - a) <= Scaled(p1 + p2) /\ D * (x - z) <= Scaled(q1 + q2)
  BY <1>5, <1>7, <1>8, <1>9
<1>11. Net(w) = Net(u) + (p1 + p2) + (q1 + q2) /\ p1 + p2 \in Int /\ q1 + q2 \in Int
  BY <1>2, <1>3, <1>6
<1> QED BY <1>1, <1>10, <1>11 DEF Moves, R, D, a, b, c, x, y, z

LEMMA MovesNowhere == ASSUME NEW w \in Sound PROVE Moves(w, w)
<1>1. 0 \in Int /\ w.r.bRate * 0 <= Scaled(0) /\ w.r.dRate * (-0) <= Scaled(0)
  BY SoundTyped, ScaleTyped DEF Scaled
<1>2. w.r.bSupply = w.r.bSupply + 0 /\ w.r.dSupply = w.r.dSupply + 0 /\ Net(w) = Net(w) + 0 + 0
  BY SoundTyped
<1> QED BY ONLY <1>1, <1>2, w \in Sound, MovesBy

\* Shares that move between accounts, or are forfeited for nothing.
LEMMA ShiftsCompose ==
  ASSUME NEW u, NEW v, NEW w, NEW a, NEW b, NEW c, NEW d, Shift(u, v, a, b), Shift(v, w, c, d)
  PROVE  Shift(u, w, a + c, b + d)
<1>1. u \in Sound /\ v \in Sound /\ w \in Sound
  BY DEF Shift
<1>2. u.r.bSupply \in Nat /\ u.r.dSupply \in Nat
  BY <1>1, SoundTyped
<1> QED BY <1>2 DEF Shift

LEMMA ShiftMoves ==
  ASSUME NEW v, NEW w, NEW db, NEW dd, Shift(v, w, db, dd), db <= 0, dd >= 0
  PROVE  Moves(v, w)
<1>1. /\ v \in Sound /\ w \in Sound /\ db \in Int /\ dd \in Int
      /\ w.r.bRate = v.r.bRate /\ w.r.dRate = v.r.dRate
      /\ w.r.bSupply = v.r.bSupply + db /\ w.r.dSupply = v.r.dSupply + dd
  BY DEF Shift
<1>2. Net(w) = Net(v) + 0 + 0 /\ 0 \in Int
  <2>1. Net(w) = Net(v)
    BY DEF Shift, Net
  <2> QED BY <1>1, <2>1, SoundTyped
<1>3. v.r.bRate \in Nat /\ v.r.dRate \in Nat
  BY <1>1, SoundTyped
<1> DEFINE R == v.r.bRate
           D == v.r.dRate
           n == -db
<1>4. R * n \in Nat /\ D * dd \in Nat /\ R * db = -(R * n) /\ D * (-dd) = -(D * dd)
  <2>1. n \in Nat /\ dd \in Nat /\ R \in Nat /\ D \in Nat /\ db = -n
    BY <1>1, <1>3
  <2> HIDE DEF n, R, D
  <2> QED BY ONLY <2>1, ProductNat
<1>5. Scaled(0) = 0
  BY ScaleTyped DEF Scaled
<1>6. R * db <= Scaled(0) /\ D * (-dd) <= Scaled(0)
  <2> HIDE DEF R, D, n
  <2> QED BY <1>4, <1>5
<1> QED BY ONLY <1>1, <1>2, <1>6, MovesBy

------------------------------------------------------------------------------
(* The requests *)

LEMMA ScaledMinus == Scaled(0) = 0 /\ \A x \in Int : Scaled(x) \in Int /\ Scaled(-x) = -Scaled(x)
BY ScaleTyped DEF Scaled

LEMMA DemandOk == \A c, w : "ok" \in DOMAIN w => "ok" \in DOMAIN Demand(c, w)
BY DEF Demand, Refuse

LEMMA OkField ==
  \A w, u, field, n :
    "ok" \in DOMAIN w =>
      /\ "ok" \in DOMAIN AddB(w, u, field, n) /\ "ok" \in DOMAIN RemoveB(w, u, field, n)
      /\ "ok" \in DOMAIN AddD(w, u, n) /\ "ok" \in DOMAIN RemoveD(w, u, n)
<1> SUFFICES ASSUME NEW w, NEW u, NEW field, NEW n, "ok" \in DOMAIN w
    PROVE  /\ "ok" \in DOMAIN AddB(w, u, field, n) /\ "ok" \in DOMAIN RemoveB(w, u, field, n)
           /\ "ok" \in DOMAIN AddD(w, u, n) /\ "ok" \in DOMAIN RemoveD(w, u, n)
  OBVIOUS
<1>1. "ok" \in DOMAIN AddB(w, u, field, n)
  BY DemandOk DEF AddB
<1>2. "ok" \in DOMAIN RemoveB(w, u, field, n)
  BY DemandOk DEF RemoveB
<1>3. "ok" \in DOMAIN AddD(w, u, n)
  BY DemandOk DEF AddD
<1>4. "ok" \in DOMAIN RemoveD(w, u, n)
  BY DemandOk DEF RemoveD
<1> QED BY <1>1, <1>2, <1>3, <1>4

\* A refused step stays refused.
LEMMA StaysRefused ==
  \A w, u, field, n :
    "ok" \in DOMAIN w =>
      /\ AddB(w, u, field, n).ok => w.ok
      /\ AddD(w, u, n).ok => w.ok
      /\ RemoveD(w, u, n).ok => w.ok
BY DEF AddB, AddD, RemoveD, Demand, Refuse

LEMMA SupplyingMoves ==
  ASSUME NEW w \in Sound, NEW u \in Users, NEW field \in {"supply", "collateral"},
         NEW x \in Nat, Supplying(w, u, field, x).ok
  PROVE  Moves(w, Supplying(w, u, field, x))
<1> DEFINE v == [w EXCEPT !.in = @ + x]
           b == ToBDown(w.r, x)
           new == AddB(v, u, field, b)
           c == status # "Frozen" /\ MayAddRisk(w.r) /\ TotalSupply(new.r) <= SupplyCap
<1>1. w \in Works /\ Adds(w.r, w.pos) /\ w.r.bRate \in Nat /\ u \in Holders
  BY SoundTyped, HoldersFinite
<1>2. /\ v \in Works /\ v.r = w.r /\ v.pos = w.pos /\ v.f = w.f /\ v.bal = w.bal
      /\ v.in = w.in + x /\ v.out = w.out /\ "ok" \in DOMAIN v
  BY <1>1 DEF Works
<1>3. c \in BOOLEAN /\ "ok" \in DOMAIN new /\ Supplying(w, u, field, x) = Demand(c, new)
  <2>1. "ok" \in DOMAIN new
    <3> HIDE DEF v, b
    <3> QED BY <1>2, OkField
  <2> QED BY <2>1 DEF Supplying
<1> HIDE DEF v, new, c
<1>4. Supplying(w, u, field, x) = new /\ new.ok
  BY <1>3, Accepted
<1>5. b \in Nat /\ b * w.r.bRate <= Scaled(x)
  BY <1>1, SharesDown DEF ToBDown
<1> HIDE DEF b
<1>6. Shift(v, new, b, 0)
  BY <1>1, <1>2, <1>4, <1>5, AddBShifts DEF new
<1>7. /\ new \in Sound /\ new.r.bRate = w.r.bRate /\ new.r.dRate = w.r.dRate
      /\ new.r.bSupply = w.r.bSupply + b /\ new.r.dSupply = w.r.dSupply + 0
  BY <1>2, <1>6 DEF Shift
<1>8. Net(new) = Net(w) + x + 0
  <2>1. /\ new.f = w.f /\ new.bal = w.bal /\ new.in = w.in + x /\ new.out = w.out
        /\ new.r.credit = w.r.credit
    BY <1>2, <1>6 DEF Shift
  <2> QED BY <2>1, SoundTyped DEF Net
<1>9. w.r.bRate * b <= Scaled(x) /\ w.r.dRate * (-0) <= Scaled(0)
  <2>1. w.r.dRate \in Nat
    BY SoundTyped
  <2>2. Scaled(0) = 0
    BY ScaleTyped DEF Scaled
  <2>3. w.r.bRate * b = b * w.r.bRate
    BY <1>1, <1>5
  <2> QED BY <1>5, <2>1, <2>2, <2>3
<1>10. b \in Int /\ 0 \in Int /\ x \in Int
  BY <1>5
<1> QED BY ONLY <1>4, <1>7, <1>8, <1>9, <1>10, w \in Sound, MovesBy

LEMMA WithdrawingMoves ==
  ASSUME NEW w \in Sound, NEW u \in Users, NEW field \in {"supply", "collateral"},
         NEW x \in Nat, Withdrawing(w, u, field, x).ok
  PROVE  Moves(w, Withdrawing(w, u, field, x))
<1> DEFINE all == ToBUp(w.r, x)
           has == w.pos[u][field]
           burn == Min({all, has})
           sent == IF all > burn THEN AssetOfB(w.r, burn) ELSE x
           v == [w EXCEPT !.out = @ + sent]
           new == RemoveB(v, u, field, burn)
           c == BelowFullUtil(new.r)
<1>1. /\ w \in Works /\ Adds(w.r, w.pos) /\ w.r.bRate \in Nat /\ u \in Holders
      /\ has \in Nat
  BY SoundTyped, HoldersFinite
<1>2. /\ all \in Nat
      /\ w.r.bRate = 0 => all = 0
      /\ w.r.bRate # 0 => Scaled(x) <= all * w.r.bRate
  BY <1>1, SharesUp DEF ToBUp
<1>3. burn = (IF all <= has THEN all ELSE has) /\ burn \in Nat
  <2> HIDE DEF all, has
  <2>1. burn = IF all <= has THEN all ELSE has
    BY <1>1, <1>2, MinOfTwo
  <2> QED BY <1>1, <1>2, <2>1
<1> HIDE DEF all, has, burn
<1>4. /\ AssetOfB(w.r, burn) \in Nat
      /\ Scaled(AssetOfB(w.r, burn)) <= burn * w.r.bRate
  BY <1>1, <1>3, WorthDown DEF AssetOfB
<1>5. sent \in Nat
  BY <1>4
<1>6. /\ v \in Works /\ v.r = w.r /\ v.pos = w.pos /\ v.f = w.f /\ v.bal = w.bal
      /\ v.in = w.in /\ v.out = w.out + sent /\ "ok" \in DOMAIN v
  <2> HIDE DEF sent
  <2> QED BY <1>1, <1>5 DEF Works
<1>7. c \in BOOLEAN /\ "ok" \in DOMAIN new /\ Withdrawing(w, u, field, x) = Demand(c, new)
  <2>1. "ok" \in DOMAIN new
    <3> HIDE DEF v
    <3> QED BY <1>6, OkField
  <2>2. c \in BOOLEAN
    BY DEF BelowFullUtil
  <2> QED BY <2>1, <2>2 DEF Withdrawing, all, has, burn
<1> HIDE DEF v, new, c
<1>8. Withdrawing(w, u, field, x) = new /\ new.ok
  BY <1>7, Accepted
<1> DEFINE n == -burn
<1>9. burn > 0 /\ Shift(v, new, n, 0)
  <2> HIDE DEF sent
  <2> QED BY <1>1, <1>3, <1>6, <1>8, RemoveBShifts DEF new
<1>10. Scaled(sent) <= burn * w.r.bRate
  <2>1. CASE all > burn
    BY <1>4, <2>1
  <2>2. CASE ~(all > burn)
    <3>1. all = burn /\ sent = x
      BY <1>2, <1>3, <2>2
    <3>2. w.r.bRate # 0
      BY <1>2, <1>9, <3>1
    <3> HIDE DEF sent
    <3> QED BY <1>2, <3>1, <3>2
  <2> QED BY <2>1, <2>2
<1> HIDE DEF sent
<1>11. n \in Int /\ 0 \in Int /\ -sent \in Int /\ n = -burn
  BY <1>3, <1>5
<1> HIDE DEF n
<1>12. /\ new \in Sound /\ new.r.bRate = w.r.bRate /\ new.r.dRate = w.r.dRate
       /\ new.r.bSupply = w.r.bSupply + n /\ new.r.dSupply = w.r.dSupply + 0
  BY <1>6, <1>9 DEF Shift
<1> DEFINE s == -sent
<1>13. Net(new) = Net(w) + s + 0 /\ s \in Int
  <2>1. /\ new.f = w.f /\ new.bal = w.bal /\ new.in = w.in /\ new.out = w.out + sent
        /\ new.r.credit = w.r.credit
    BY <1>6, <1>9 DEF Shift
  <2>2. Net(new) = Net(w) - sent
    BY <1>5, <2>1, SoundTyped DEF Net
  <2> QED BY <1>5, <2>2, SoundTyped
<1>14. w.r.bRate * n <= Scaled(s) /\ w.r.dRate * (-0) <= Scaled(0)
  <2>1. w.r.dRate \in Nat
    BY SoundTyped
  <2>2. Scaled(0) = 0
    BY ScaleTyped DEF Scaled
  <2>3. Scaled(s) = -Scaled(sent) /\ Scaled(sent) \in Int
    BY <1>5, ScaledMinus
  <2>4. w.r.bRate * n = -(burn * w.r.bRate) /\ burn * w.r.bRate \in Int
    BY <1>1, <1>3, <1>11
  <2> HIDE DEF s
  <2> QED BY <1>10, <2>1, <2>2, <2>3, <2>4
<1> HIDE DEF s
<1> QED BY ONLY <1>8, <1>11, <1>12, <1>13, <1>14, w \in Sound, MovesBy

LEMMA BorrowingMoves ==
  ASSUME NEW w \in Sound, NEW u \in Users, NEW x \in Nat, Borrowing(w, u, x).ok
  PROVE  Moves(w, Borrowing(w, u, x)) /\ Borrowing(w, u, x).out = w.out + x
         /\ Borrowing(w, u, x).bal = w.bal
<1> DEFINE v == [w EXCEPT !.out = @ + x, !.borrowed = TRUE]
           d == ToDUp(w.r, x)
           new == AddD(v, u, d)
           c == status = "Active" /\ MayAddRisk(w.r) /\ BelowFullUtil(new.r)
<1>1. w \in Works /\ Adds(w.r, w.pos) /\ w.r.dRate \in Nat /\ w.r.bRate \in Nat /\ u \in Holders
  BY SoundTyped, HoldersFinite
<1>2. /\ v \in Works /\ v.r = w.r /\ v.pos = w.pos /\ v.f = w.f /\ v.bal = w.bal
      /\ v.in = w.in /\ v.out = w.out + x /\ "ok" \in DOMAIN v
  <2>1. w.out + x \in Int
    BY SoundTyped
  <2>2. v.r = w.r /\ v.pos = w.pos /\ v.f = w.f /\ v.bal = w.bal
        /\ v.in = w.in /\ v.out = w.out + x /\ "ok" \in DOMAIN v
    BY <1>1 DEF Works
  <2>3. v \in Works
    BY <1>1, <2>1 DEF Works
  <2> QED BY <2>2, <2>3
<1>3. c \in BOOLEAN /\ "ok" \in DOMAIN new /\ Borrowing(w, u, x) = Demand(c, new)
  <2>1. "ok" \in DOMAIN new
    <3> HIDE DEF v, d
    <3> QED BY <1>2, OkField
  <2> QED BY <2>1 DEF Borrowing
<1> HIDE DEF v, new, c
<1>4. Borrowing(w, u, x) = new /\ new.ok
  BY <1>3, Accepted
<1>5. /\ d \in Nat
      /\ w.r.dRate = 0 => d = 0
      /\ w.r.dRate # 0 => Scaled(x) <= d * w.r.dRate
  BY <1>1, SharesUp DEF ToDUp
<1> HIDE DEF d
<1>6. d > 0 /\ Shift(v, new, 0, d)
  BY <1>1, <1>2, <1>4, <1>5, AddDShifts DEF new
<1>7. /\ new \in Sound /\ new.r.bRate = w.r.bRate /\ new.r.dRate = w.r.dRate
      /\ new.r.bSupply = w.r.bSupply + 0 /\ new.r.dSupply = w.r.dSupply + d
  BY <1>2, <1>6 DEF Shift
<1> DEFINE s == -x
<1>8. /\ Net(new) = Net(w) + 0 + s /\ s \in Int /\ new.out = w.out + x
      /\ new.bal = w.bal
  <2>1. /\ new.f = w.f /\ new.bal = w.bal /\ new.in = w.in /\ new.out = w.out + x
        /\ new.r.credit = w.r.credit
    BY <1>2, <1>6 DEF Shift
  <2>2. Net(new) = Net(w) - x
    BY <2>1, SoundTyped DEF Net
  <2> QED BY <2>1, <2>2, SoundTyped
<1>9. w.r.bRate * 0 <= Scaled(0) /\ w.r.dRate * (-d) <= Scaled(s)
  <2>1. Scaled(0) = 0
    BY ScaleTyped DEF Scaled
  <2>2. Scaled(s) = -Scaled(x) /\ Scaled(x) \in Int
    BY ScaledMinus
  <2>3. w.r.dRate * (-d) = -(d * w.r.dRate) /\ d * w.r.dRate \in Int
    BY <1>1, <1>5
  <2>4. Scaled(x) <= d * w.r.dRate
    BY <1>5, <1>6
  <2> HIDE DEF s
  <2> QED BY <1>1, <2>1, <2>2, <2>3, <2>4
<1>10. d \in Int /\ 0 \in Int
  BY <1>5
<1> HIDE DEF s
<1>11. Moves(w, new)
  BY ONLY <1>7, <1>8, <1>9, <1>10, w \in Sound, MovesBy
<1> QED BY <1>4, <1>8, <1>11

LEMMA MovesSame ==
  ASSUME NEW v, NEW b, Moves(v, b), NEW w \in Sound, w.r = b.r, Net(w) = Net(b)
  PROVE  Moves(v, w)
BY DEF Moves

LEMMA FlashLoaningMoves ==
  ASSUME NEW w \in Sound, NEW u \in Users, NEW x \in Nat, FlashLoaning(w, u, x).ok
  PROVE  Moves(w, FlashLoaning(w, u, x))
<1> DEFINE b == Borrowing(w, u, x)
           new == [b EXCEPT !.out = w.out, !.bal = @ - x]
           c == x <= w.bal
<1>1. "ok" \in DOMAIN b
  <2>1. "ok" \in DOMAIN [w EXCEPT !.out = @ + x, !.borrowed = TRUE]
    BY SoundTyped
  <2> QED BY <2>1, OkField, DemandOk DEF Borrowing
<1>2. c \in BOOLEAN /\ "ok" \in DOMAIN new /\ FlashLoaning(w, u, x) = Demand(c, new)
  <2> HIDE DEF b
  <2>1. "ok" \in DOMAIN new
    BY <1>1
  <2> QED BY <2>1, SoundTyped DEF FlashLoaning, b
<1>3. FlashLoaning(w, u, x) = new /\ new.ok
  <2> HIDE DEF c, new
  <2> QED BY <1>2, Accepted
<1>4. b.ok
  <2> HIDE DEF b
  <2> QED BY <1>1, <1>3
<1>5. Moves(w, b) /\ b.out = w.out + x /\ b.bal = w.bal
  BY <1>4, BorrowingMoves
<1> HIDE DEF b
<1>6. b \in Sound
  BY <1>5 DEF Moves
<1>7. b \in Works /\ b.bal - x \in Int /\ w.out \in Int /\ Adds(b.r, b.pos)
  BY <1>6, SoundTyped
<1>8. /\ new.r = b.r /\ new.f = b.f /\ new.pos = b.pos /\ new.in = b.in /\ new.ok = b.ok
      /\ new.out = w.out /\ new.bal = b.bal - x
  BY <1>7 DEF Works
<1>9. new \in Works
  BY <1>7 DEF Works
<1> HIDE DEF new
<1>10. new \in Sound
  BY <1>4, <1>7, <1>8, <1>9 DEF Sound
<1>11. Net(new) = Net(b)
  BY <1>5, <1>6, <1>7, <1>8, SoundTyped DEF Net
<1>12. Moves(w, new)
  BY ONLY <1>5, <1>8, <1>10, <1>11, MovesSame
<1> QED BY <1>3, <1>12

LEMMA RepayingMoves ==
  ASSUME NEW w \in Sound, NEW u \in Users, NEW x \in Nat, Repaying(w, u, x).ok
  PROVE  Moves(w, Repaying(w, u, x))
<1> DEFINE owed == w.pos[u].debt
           part == ToDDown(w.r, x)
           refund == IF part > owed THEN x - AssetOfD(w.r, owed) ELSE 0
           d == IF part > owed THEN owed ELSE part
           v == [w EXCEPT !.in = @ + x, !.out = @ + refund]
           new == RemoveD(v, u, d)
<1>1. /\ w \in Works /\ Adds(w.r, w.pos) /\ w.r.dRate \in Nat /\ w.r.bRate \in Nat
      /\ u \in Holders /\ owed \in Nat
  BY SoundTyped, HoldersFinite
<1>2. part \in Nat /\ part * w.r.dRate <= Scaled(x)
  BY <1>1, SharesDown DEF ToDDown
<1>3. AssetOfD(w.r, owed) \in Nat /\ owed * w.r.dRate <= Scaled(AssetOfD(w.r, owed))
  BY <1>1, WorthUp DEF AssetOfD
<1>4. Repaying(w, u, x) = new
  BY DEF Repaying
<1> HIDE DEF owed, part
<1>5. refund \in Int /\ d \in Nat /\ x - refund \in Int
  BY <1>1, <1>2, <1>3
<1>6. d * w.r.dRate <= Scaled(x - refund)
  <2>1. CASE part > owed
    <3>1. d = owed /\ x - refund = AssetOfD(w.r, owed)
      BY <1>3, <2>1
    <3> HIDE DEF d, refund
    <3> QED BY <1>3, <3>1
  <2>2. CASE ~(part > owed)
    <3>1. d = part /\ x - refund = x
      BY <2>2
    <3> HIDE DEF d, refund
    <3> QED BY <1>2, <3>1
  <2> QED BY <2>1, <2>2
<1> HIDE DEF refund, d
<1>7. /\ v \in Works /\ v.r = w.r /\ v.pos = w.pos /\ v.f = w.f /\ v.bal = w.bal
      /\ v.in = w.in + x /\ v.out = w.out + refund
  <2>1. w.out + refund \in Int /\ w.in + x \in Int
    BY <1>5, SoundTyped
  <2>2. v.r = w.r /\ v.pos = w.pos /\ v.f = w.f /\ v.bal = w.bal
        /\ v.in = w.in + x /\ v.out = w.out + refund
    BY <1>1 DEF Works
  <2>3. v \in Works
    BY <1>1, <2>1 DEF Works
  <2> QED BY <2>2, <2>3
<1> HIDE DEF v, new
<1> DEFINE n == -d
<1>8. Shift(v, new, 0, n)
  BY <1>1, <1>4, <1>5, <1>7, RemoveDShifts DEF new
<1> DEFINE m == x - refund
<1>9. n \in Int /\ 0 \in Int /\ m \in Int /\ -n = d
  BY <1>5
<1> HIDE DEF n
<1>10. /\ new \in Sound /\ new.r.bRate = w.r.bRate /\ new.r.dRate = w.r.dRate
       /\ new.r.bSupply = w.r.bSupply + 0 /\ new.r.dSupply = w.r.dSupply + n
  BY <1>7, <1>8 DEF Shift
<1>11. Net(new) = Net(w) + 0 + m
  <2>1. /\ new.f = w.f /\ new.bal = w.bal /\ new.in = w.in + x /\ new.out = w.out + refund
        /\ new.r.credit = w.r.credit
    BY <1>7, <1>8 DEF Shift
  <2> QED BY <1>5, <2>1, SoundTyped DEF Net
<1>12. w.r.bRate * 0 <= Scaled(0) /\ w.r.dRate * (-n) <= Scaled(m)
  <2>1. w.r.dRate * (-n) = d * w.r.dRate
    BY <1>1, <1>5, <1>9
  <2> QED BY <1>1, <1>6, <2>1, ScaledMinus
<1> HIDE DEF m
<1>13. Moves(w, new)
  BY ONLY <1>9, <1>10, <1>11, <1>12, w \in Sound, MovesBy
<1> QED BY <1>4, <1>13

------------------------------------------------------------------------------
(* Settling an account *)

LEMMA HandOffShifts ==
  ASSUME NEW w \in Sound, NEW u \in Users, NEW elsewhere
  PROVE  \E n \in Int :
           /\ n <= 0 /\ Shift(w, HandOff(w, u, elsewhere), n, 0)
           /\ n # 0 => n = -w.pos[u].collateral /\ AssetOfB(w.r, w.pos[u].collateral) = 0
<1> DEFINE owes == w.pos[u].debt > 0 \/ "debt" \in elsewhere
           worthless == AssetOfB(w.r, w.pos[u].collateral) = 0
           lost == w.pos[u].collateral
           kept == IF owes /\ worthless
                   THEN [w EXCEPT !.pos[u].collateral = 0, !.r.bSupply = @ - w.pos[u].collateral]
                   ELSE w
           n == IF owes /\ worthless THEN -lost ELSE 0
<1>1. /\ w \in Works /\ Adds(w.r, w.pos) /\ w.ok /\ u \in Holders /\ Backstop \in Holders
      /\ u # Backstop /\ w.pos[u] \in Account /\ w.pos \in Accounts /\ w.r \in ReserveData
      /\ lost \in Nat /\ w.pos[u].debt \in Nat
  BY SoundTyped, HoldersFinite, ReserveAssumption
<1>2. n \in Int /\ n <= 0 /\ (n # 0 => n = -lost /\ worthless)
  BY <1>1
<1>3. Shift(w, kept, n, 0)
  <2>1. CASE owes /\ worthless
    <3> DEFINE new == [w EXCEPT !.pos[u].collateral = 0, !.r.bSupply = @ - w.pos[u].collateral]
               a == [w.pos[u] EXCEPT !.collateral = 0]
    <3>1. /\ a \in Account /\ a.debt = w.pos[u].debt /\ a.supply = w.pos[u].supply
          /\ a.collateral = 0
      BY <1>1 DEF Account
    <3>2. new.pos = [w.pos EXCEPT ![u] = a] /\ new = [w EXCEPT !.pos = new.pos, !.r = new.r]
      BY <1>1 DEF Works, Accounts
    <3>3. Supplies(new.r, w.r, n, 0)
      BY <1>1, <2>1 DEF Works, ReserveData, Supplies
    <3>4. kept = new
      BY <2>1
    <3> HIDE DEF a, new
    <3>5. n = (a.supply + a.collateral) - (w.pos[u].supply + w.pos[u].collateral)
          /\ 0 = a.debt - w.pos[u].debt /\ 0 \in Int
      BY <1>1, <2>1, <3>1 DEF Account
    <3>6. n \in Int
      BY <1>2
    <3> HIDE DEF n
    <3>7. Shift(w, new, n, 0)
      BY ONLY <1>1, <3>1, <3>2, <3>3, <3>5, <3>6, AccountShifts
    <3> QED BY <3>4, <3>7
  <2>2. CASE ~(owes /\ worthless)
    <3>1. kept = w /\ n = 0
      BY <2>2
    <3>2. Shift(w, w, 0, 0)
      BY SoundTyped DEF Shift
    <3> HIDE DEF kept, n
    <3> QED BY <3>1, <3>2
  <2> QED BY <2>1, <2>2
<1> DEFINE done == [kept EXCEPT !.pos[u].debt = 0, !.pos[Backstop].debt = @ + w.pos[u].debt]
<1>4. Shift(kept, done, 0, 0)
  <2> HIDE DEF kept, n
  <2>1. kept \in Sound
    BY <1>3 DEF Shift
  <2>2. /\ kept \in Works /\ Adds(kept.r, kept.pos) /\ kept.ok
        /\ kept.pos[u] \in Account /\ kept.pos \in Accounts /\ kept.r \in ReserveData
        /\ kept.pos[u].debt \in Nat
    BY <1>1, <2>1, SoundTyped
  <2>3. kept.pos[u].debt = w.pos[u].debt
    BY <1>1 DEF kept, Works, Accounts, Account
  <2> DEFINE d == w.pos[u].debt
             m == -d
             a == [kept.pos[u] EXCEPT !.debt = 0]
             mid == [kept EXCEPT !.pos[u].debt = 0, !.r.dSupply = @ - d]
  <2>4. Shift(kept, mid, 0, m)
    <3>1. /\ a \in Account /\ a.debt = 0 /\ a.supply = kept.pos[u].supply
          /\ a.collateral = kept.pos[u].collateral
      BY <2>2 DEF Account
    <3>2. mid.pos = [kept.pos EXCEPT ![u] = a] /\ mid = [kept EXCEPT !.pos = mid.pos, !.r = mid.r]
      BY <2>2 DEF Works, Accounts
    <3>3. Supplies(mid.r, kept.r, 0, m)
      BY <1>1, <2>2 DEF Works, ReserveData, Supplies
    <3> HIDE DEF a, mid
    <3>4. 0 = (a.supply + a.collateral) - (kept.pos[u].supply + kept.pos[u].collateral)
          /\ m = a.debt - kept.pos[u].debt /\ 0 \in Int /\ m \in Int
      BY <1>1, <2>2, <2>3, <3>1 DEF Account
    <3> HIDE DEF m, d
    <3> QED BY ONLY <1>1, <2>2, <3>1, <3>2, <3>3, <3>4, AccountShifts
  <2>5. mid \in Sound
    BY <2>4 DEF Shift
  <2> DEFINE e == [mid.pos[Backstop] EXCEPT !.debt = @ + d]
  <2>6. /\ mid \in Works /\ Adds(mid.r, mid.pos) /\ mid.ok
        /\ mid.pos[Backstop] \in Account /\ mid.pos \in Accounts /\ mid.r \in ReserveData
    <3> HIDE DEF mid
    <3> QED BY <1>1, <2>5, SoundTyped
  <2>7. Shift(mid, done, 0, d)
    <3>1. /\ e \in Account /\ e.debt = mid.pos[Backstop].debt + d
          /\ e.supply = mid.pos[Backstop].supply
          /\ e.collateral = mid.pos[Backstop].collateral
      <4> HIDE DEF mid
      <4> QED BY <1>1, <2>6 DEF Account
    <3>2. /\ done.pos = [mid.pos EXCEPT ![Backstop] = e]
          /\ mid.pos[Backstop] = kept.pos[Backstop]
      BY <1>1, <2>2 DEF Works, Accounts, Account
    <3>3. done = [mid EXCEPT !.pos = done.pos, !.r = done.r] /\ done.r = kept.r
      BY <1>1, <2>2 DEF Works
    <3>4. Supplies(done.r, mid.r, 0, d)
      <4>1. mid.r = [kept.r EXCEPT !.dSupply = @ - d]
        BY <2>2 DEF Works
      <4> HIDE DEF mid, done
      <4> QED BY <1>1, <2>2, <3>3, <4>1 DEF ReserveData, Supplies
    <3> HIDE DEF e, mid, done
    <3>5. 0 = (e.supply + e.collateral) - (mid.pos[Backstop].supply + mid.pos[Backstop].collateral)
          /\ d = e.debt - mid.pos[Backstop].debt /\ 0 \in Int /\ d \in Int
      BY <1>1, <2>6, <3>1 DEF Account
    <3> HIDE DEF d
    <3> QED BY ONLY <1>1, <2>6, <3>1, <3>2, <3>3, <3>4, <3>5, AccountShifts
  <2> HIDE DEF mid, done
  <2>8. Shift(kept, done, 0 + 0, m + d)
    BY ONLY <2>4, <2>7, ShiftsCompose
  <2>9. m + d = 0
    BY <1>1
  <2> QED BY <2>8, <2>9
<1> HIDE DEF kept, n, done
<1>5. HandOff(w, u, elsewhere) \in {kept, done}
  BY DEF HandOff, kept, done
<1>6. Shift(w, done, n + 0, 0 + 0)
  BY ONLY <1>3, <1>4, ShiftsCompose
<1>7. n + 0 = n
  BY <1>2
<1>8. Shift(w, HandOff(w, u, elsewhere), n, 0)
  BY <1>3, <1>5, <1>6, <1>7
<1> QED BY <1>2, <1>8

\* Shares that pass from one account to another.
LEMMA CollateralPasses ==
  ASSUME NEW w \in Sound, NEW v \in Holders, NEW u \in Holders, NEW n \in Nat,
         AddB(RemoveB(w, v, "collateral", n), u, "collateral", n).ok
  PROVE  Shift(w, AddB(RemoveB(w, v, "collateral", n), u, "collateral", n), 0, 0)
<1> DEFINE rem == RemoveB(w, v, "collateral", n)
           new == AddB(rem, u, "collateral", n)
           m == -n
<1>1. w \in Works /\ Adds(w.r, w.pos) /\ "ok" \in DOMAIN w /\ n \in Int
  BY SoundTyped
<1>2. rem.ok
  <2>1. "ok" \in DOMAIN rem
    BY <1>1, OkField
  <2> HIDE DEF rem
  <2> QED BY <2>1, StaysRefused DEF rem
<1>3. Shift(w, rem, m, 0)
  BY <1>1, <1>2, RemoveBShifts
<1> HIDE DEF rem, m
<1>4. rem \in Works /\ Adds(rem.r, rem.pos)
  BY <1>3, SoundTyped DEF Shift
<1>5. Shift(rem, new, n, 0)
  BY <1>1, <1>4, AddBShifts DEF rem
<1> HIDE DEF new
<1>6. Shift(w, new, m + n, 0 + 0)
  BY ONLY <1>3, <1>5, ShiftsCompose
<1>7. m + n = 0
  BY DEF m
<1> QED BY <1>6, <1>7 DEF new, rem

LEMMA DebtPasses ==
  ASSUME NEW w, "ok" \in DOMAIN w, w.ok => w \in Sound,
         NEW v \in Holders, NEW u \in Holders, NEW n \in Nat,
         AddD(RemoveD(w, v, n), u, n).ok
  PROVE  w.ok /\ Shift(w, AddD(RemoveD(w, v, n), u, n), 0, 0)
<1> DEFINE rem == RemoveD(w, v, n)
           new == AddD(rem, u, n)
           m == -n
<1>1. rem.ok
  <2>1. "ok" \in DOMAIN rem
    BY OkField
  <2> HIDE DEF rem
  <2> QED BY <2>1, StaysRefused DEF rem
<1>2. w.ok
  BY <1>1, StaysRefused
<1>3. w \in Works /\ Adds(w.r, w.pos) /\ n \in Int
  BY <1>2, SoundTyped
<1>4. Shift(w, rem, 0, m)
  BY <1>1, <1>3, RemoveDShifts
<1> HIDE DEF rem, m
<1>5. rem \in Works /\ Adds(rem.r, rem.pos)
  BY <1>4, SoundTyped DEF Shift
<1>6. Shift(rem, new, 0, n)
  BY <1>3, <1>5, AddDShifts DEF rem
<1> HIDE DEF new
<1>7. Shift(w, new, 0 + 0, m + n)
  BY ONLY <1>4, <1>6, ShiftsCompose
<1>8. m + n = 0
  BY DEF m
<1> QED BY <1>2, <1>7, <1>8 DEF new, rem

LEMMA LiquidatingMoves ==
  ASSUME NEW w \in Sound, NEW u \in Users, NEW q,
         q.of \in Users, q.lot \in Nat, q.bid \in Nat, q.full \in BOOLEAN,
         Liquidating(w, u, q).ok
  PROVE  Moves(w, Liquidating(w, u, q))
<1> DEFINE v == q.of
           passed == AddB(RemoveB(w, v, "collateral", q.lot), u, "collateral", q.lot)
           lot == IF q.lot = 0 THEN w ELSE passed
           owing == AddD(RemoveD(lot, v, q.bid), u, q.bid)
           bid == IF q.bid = 0 THEN lot ELSE owing
           new == IF q.full /\ bid.ok THEN HandOff(bid, v, q.elsewhere) ELSE bid
<1>1. u \in Holders /\ v \in Holders /\ "ok" \in DOMAIN w /\ Shift(w, w, 0, 0)
  BY HoldersFinite, SoundTyped DEF Shift
<1>2. "ok" \in DOMAIN lot
  BY <1>1, OkField
<1>3. lot.ok => Shift(w, lot, 0, 0)
  BY <1>1, CollateralPasses
<1> HIDE DEF passed, lot
<1>4. "ok" \in DOMAIN bid
  BY <1>2, OkField
<1>5. lot.ok => lot \in Sound
  BY <1>3 DEF Shift
<1>6. owing.ok => lot.ok /\ Shift(lot, owing, 0, 0)
  BY <1>1, <1>2, <1>5, DebtPasses
<1> HIDE DEF owing
<1>7. owing.ok => Shift(w, owing, 0 + 0, 0 + 0)
  BY ONLY <1>3, <1>6, ShiftsCompose
<1>8. bid.ok => Shift(w, bid, 0, 0)
  BY <1>3, <1>7
<1> HIDE DEF bid
<1>9. bid.ok => bid \in Sound
  BY <1>8 DEF Shift
<1>10. bid.ok => \E n \in Int : n <= 0 /\ Shift(bid, HandOff(bid, v, q.elsewhere), n, 0)
  BY <1>9, HandOffShifts
<1>11. "ok" \in DOMAIN new
  <2>1. CASE q.full /\ bid.ok
    <3>1. HandOff(bid, v, q.elsewhere) \in Sound
      BY <1>10, <2>1 DEF Shift
    <3> QED BY <2>1, <3>1, SoundTyped
  <2>2. CASE ~(q.full /\ bid.ok)
    BY <1>4, <2>2
  <2> QED BY <2>1, <2>2
<1>12. Liquidating(w, u, q) = Demand(u # v, new)
  BY DEF Liquidating, new, bid, owing, lot, passed
<1> HIDE DEF new
<1>13. Liquidating(w, u, q) = new /\ new.ok
  BY <1>11, <1>12, Accepted
<1>14. bid.ok
  BY <1>13 DEF new
<1>15. PICK n \in Int : n <= 0 /\ Shift(bid, HandOff(bid, v, q.elsewhere), n, 0)
  BY <1>10, <1>14
<1>16. \E k \in Int : k <= 0 /\ Shift(w, new, k, 0)
  <2>1. Shift(w, HandOff(bid, v, q.elsewhere), 0 + n, 0 + 0)
    BY ONLY <1>8, <1>14, <1>15, ShiftsCompose
  <2>2. 0 + n = n
    OBVIOUS
  <2> QED BY <1>8, <1>14, <1>15, <2>1, <2>2 DEF new
<1>17. Moves(w, new)
  <2>1. PICK k \in Int : k <= 0 /\ Shift(w, new, k, 0)
    BY <1>16
  <2>2. 0 >= 0
    OBVIOUS
  <2> QED BY ONLY <2>1, <2>2, ShiftMoves
<1> QED BY <1>13, <1>17

LEMMA FillingBadDebtMoves ==
  ASSUME NEW w \in Sound, NEW u \in Users, NEW d \in Nat, FillingBadDebt(w, u, d).ok
  PROVE  Moves(w, FillingBadDebt(w, u, d))
<1>1. Shift(w, FillingBadDebt(w, u, d), 0, 0)
  BY DebtPasses, HoldersFinite, SoundTyped DEF FillingBadDebt
<1>2. 0 <= 0 /\ 0 >= 0
  OBVIOUS
<1> QED BY ONLY <1>1, <1>2, ShiftMoves

\* A credit is sold for what leaves the balance.
LEMMA CreditsMove ==
  ASSUME NEW w \in Sound, NEW new \in Works, new.ok, new.pos = w.pos,
         new.r = [w.r EXCEPT !.credit = new.r.credit], Net(new) = Net(w)
  PROVE  Moves(w, new)
<1>1. w.r \in ReserveData /\ Adds(w.r, w.pos)
  BY SoundTyped
<1>2. /\ new.r.bRate = w.r.bRate /\ new.r.dRate = w.r.dRate
      /\ new.r.bSupply = w.r.bSupply /\ new.r.dSupply = w.r.dSupply
  BY <1>1 DEF ReserveData
<1>3. new \in Sound
  BY <1>1, <1>2 DEF Sound, Adds
<1>4. Moves(w, w)
  BY MovesNowhere
<1> QED BY <1>2, <1>3, <1>4 DEF Moves

LEMMA FillingInterestMoves ==
  ASSUME NEW w \in Sound, NEW x \in Nat, FillingInterest(w, x).ok
  PROVE  Moves(w, FillingInterest(w, x))
<1> DEFINE new == [w EXCEPT !.r.credit = @ - x, !.bal = @ - x]
           c == x <= w.r.credit /\ x <= w.bal
<1>1. w \in Works /\ w.r \in ReserveData /\ w.r.credit \in Nat /\ w.bal \in Int /\ w.ok
  BY SoundTyped
<1>2. "ok" \in DOMAIN new /\ c \in BOOLEAN /\ FillingInterest(w, x) = Demand(c, new)
  BY <1>1 DEF FillingInterest, Works
<1>3. c /\ FillingInterest(w, x) = new
  <2> HIDE DEF c, new
  <2> QED BY <1>2, Accepted
<1>4. /\ new.r = [w.r EXCEPT !.credit = new.r.credit] /\ new.r.credit = w.r.credit - x
      /\ new.pos = w.pos /\ new.f = w.f /\ new.in = w.in /\ new.out = w.out
      /\ new.ok = w.ok /\ new.bal = w.bal - x
  BY <1>1 DEF Works, ReserveData
<1>5. w.r.credit - x \in Nat /\ w.bal - x \in Int
  BY <1>1, <1>3
<1>6. new \in Works
  <2>1. [w.r EXCEPT !.credit = @ - x] \in ReserveData
    BY <1>1, <1>5 DEF ReserveData
  <2> QED BY <1>1, <1>5, <2>1 DEF Works
<1> HIDE DEF new
<1>7. Net(new) = Net(w)
  BY <1>1, <1>4, SoundTyped DEF Net
<1>8. Moves(w, new)
  BY <1>1, <1>4, <1>6, <1>7, CreditsMove
<1> QED BY <1>3, <1>8

LEMMA FillingFeeMoves ==
  ASSUME NEW w \in Sound, NEW x \in Nat, FillingFee(w, x).ok
  PROVE  Moves(w, FillingFee(w, x))
<1> DEFINE new == [w EXCEPT !.f.credit = @ - x, !.bal = @ - x]
           c == x <= w.f.credit /\ x <= w.bal
<1>1. w \in Works /\ w.f \in FeeData /\ w.f.credit \in Nat /\ w.bal \in Int /\ w.ok
      /\ w.r \in ReserveData
  BY SoundTyped
<1>2. "ok" \in DOMAIN new /\ c \in BOOLEAN /\ FillingFee(w, x) = Demand(c, new)
  BY <1>1 DEF FillingFee, Works
<1>3. c /\ FillingFee(w, x) = new
  <2> HIDE DEF c, new
  <2> QED BY <1>2, Accepted
<1>4. /\ new.r = w.r /\ new.f.credit = w.f.credit - x
      /\ new.pos = w.pos /\ new.in = w.in /\ new.out = w.out
      /\ new.ok = w.ok /\ new.bal = w.bal - x
  BY <1>1 DEF Works, FeeData
<1>5. w.f.credit - x \in Nat /\ w.bal - x \in Int
  BY <1>1, <1>3
<1>6. new \in Works
  <2>1. [w.f EXCEPT !.credit = @ - x] \in FeeData
    BY <1>1, <1>5 DEF FeeData
  <2> QED BY <1>1, <1>5, <2>1 DEF Works
<1> HIDE DEF new
<1>7. Net(new) = Net(w)
  BY <1>1, <1>4, SoundTyped DEF Net
<1>8. new.r = [w.r EXCEPT !.credit = new.r.credit]
  BY <1>1, <1>4 DEF ReserveData
<1>9. Moves(w, new)
  BY <1>1, <1>4, <1>6, <1>7, <1>8, CreditsMove
<1> QED BY <1>3, <1>9

LEMMA RequestMoves ==
  ASSUME NEW w \in Sound, NEW u \in Users, NEW q \in Requests, ApplyRequest(w, u, q).ok
  PROVE  Moves(w, ApplyRequest(w, u, q))
<1> USE DEF ApplyRequest
<1>1. w.ok
  BY SoundTyped
<1>2. q.kind \in {"Supply", "SupplyCollateral", "Withdraw", "WithdrawCollateral", "Borrow",
                  "FlashLoan", "Repay", "FillLiquidation", "FillBadDebt", "FillInterest",
                  "FillFee"}
  BY DEF Requests
<1>3. q.kind # "FillLiquidation" => q.amount \in Nat
  BY ReserveAssumption DEF Requests
<1>4. CASE q.kind = "Supply"
  BY <1>1, <1>3, <1>4, SupplyingMoves
<1>5. CASE q.kind = "SupplyCollateral"
  BY <1>1, <1>3, <1>5, SupplyingMoves
<1>6. CASE q.kind = "Withdraw"
  BY <1>1, <1>3, <1>6, WithdrawingMoves
<1>7. CASE q.kind = "WithdrawCollateral"
  BY <1>1, <1>3, <1>7, WithdrawingMoves
<1>8. CASE q.kind = "Borrow"
  BY <1>1, <1>3, <1>8, BorrowingMoves
<1>9. CASE q.kind = "FlashLoan"
  BY <1>1, <1>3, <1>9, FlashLoaningMoves
<1>10. CASE q.kind = "Repay"
  BY <1>1, <1>3, <1>10, RepayingMoves
<1>11. CASE q.kind = "FillLiquidation"
  <2>1. q.of \in Users /\ q.lot \in Nat /\ q.bid \in Nat /\ q.full \in BOOLEAN
    BY <1>11 DEF Requests
  <2> QED BY <1>1, <1>11, <2>1, LiquidatingMoves
<1>12. CASE q.kind = "FillBadDebt"
  BY <1>1, <1>3, <1>12, FillingBadDebtMoves
<1>13. CASE q.kind = "FillInterest"
  BY <1>1, <1>3, <1>13, FillingInterestMoves
<1>14. CASE q.kind = "FillFee"
  BY <1>1, <1>3, <1>14, FillingFeeMoves
<1> QED BY <1>2, <1>4, <1>5, <1>6, <1>7, <1>8, <1>9, <1>10, <1>11, <1>12, <1>13, <1>14

\* A submission that is not refused took in what it is to pay out.
LEMMA BatchMoves ==
  ASSUME NEW w \in Sound, NEW u \in Users, NEW requests \in Batches, Batch(w, u, requests).ok
  PROVE  Moves(w, Batch(w, u, requests))
<1> DEFINE Good == {v \in Sound : Moves(w, v)}
<1>1. w \in Good
  BY MovesNowhere
<1>2. requests \in Seq(Requests)
  BY ReserveAssumption
<1>3. ASSUME NEW v \in Good, NEW q \in Requests, ApplyRequest(v, u, q).ok
      PROVE  ApplyRequest(v, u, q) \in Good
  <2>1. Moves(w, v) /\ Moves(v, ApplyRequest(v, u, q))
    BY <1>3, RequestMoves
  <2>2. Moves(w, ApplyRequest(v, u, q))
    BY ONLY <2>1, MovesTransitive
  <2> QED BY <2>2 DEF Moves
<1> HIDE DEF Good
<1>4. Batch(w, u, requests) \in Good
  BY <1>1, <1>2, <1>3, BatchInduction
<1> QED BY <1>4 DEF Good

------------------------------------------------------------------------------
(* Loading the reserve *)

LEMMA Balances ==
  \A r \in ReserveData : \A f \in FeeData :
    /\ TotalSupply(r) \in Nat /\ TotalLiabilities(r) \in Nat
    /\ AccountingBalance(r, f) \in Int
    /\ \A bal \in Int : BalanceDelta(r, f, bal) \in Int
<1> SUFFICES ASSUME NEW r \in ReserveData, NEW f \in FeeData
    PROVE  /\ TotalSupply(r) \in Nat /\ TotalLiabilities(r) \in Nat
           /\ AccountingBalance(r, f) \in Int
           /\ \A bal \in Int : BalanceDelta(r, f, bal) \in Int
  OBVIOUS
<1>1. /\ r.bRate \in Nat /\ r.dRate \in Nat /\ r.bSupply \in Nat /\ r.dSupply \in Nat
      /\ r.credit \in Nat /\ f.credit \in Nat
  BY DEF ReserveData, FeeData
<1>2. TotalSupply(r) \in Nat /\ TotalLiabilities(r) \in Nat
  BY <1>1, WorthDown, WorthUp DEF TotalSupply, TotalLiabilities
<1>3. AccountingBalance(r, f) \in Int
  BY <1>1, <1>2 DEF AccountingBalance
<1> QED BY <1>2, <1>3 DEF BalanceDelta

\* The fee of interest is at most the interest.
LEMMA FeeAccrues ==
  ASSUME NEW f \in FeeData, NEW accrued \in Nat
  PROVE  /\ AccrueFee(f, accrued) \in FeeData
         /\ AccrueFee(f, accrued).credit - f.credit \in 0..accrued
<1> DEFINE K == RatioScale
           n == accrued * FeeRate + f.carry
<1>1. /\ K \in Nat \ {0} /\ FeeRate \in Nat /\ FeeRate <= K
      /\ f.credit \in Nat /\ f.carry \in Nat /\ f.carry <= K - 1
  BY ReserveAssumption DEF FeeData
<1>2. accrued * FeeRate \in Nat /\ accrued * FeeRate <= accrued * K /\ accrued * K \in Nat
  BY <1>1, ProductNat, ProductMonotone
<1>3. n \in Nat /\ n <= accrued * K + (K - 1)
  BY <1>1, <1>2
<1>4. AccrueFee(f, accrued) = [credit |-> f.credit + n \div K, carry |-> n % K]
  BY DEF AccrueFee
<1> HIDE DEF K, n
<1>5. n \div K \in Nat /\ K * (n \div K) <= n /\ n % K \in 0..(K - 1)
  BY <1>1, <1>3, FloorDiv
<1>6. n \div K <= accrued
  <2> DEFINE c == n \div K
  <2>1. SUFFICES ASSUME c >= accrued + 1 PROVE FALSE
    BY <1>5
  <2>2. (accrued + 1) * K <= c * K
    BY <1>1, <1>5, <2>1, ProductMonotone
  <2>3. c * K = K * c /\ (accrued + 1) * K = accrued * K + K
    BY <1>1, <1>5
  <2>4. c * K <= n
    BY <1>5, <2>3
  <2>5. K * c \in Nat /\ c * K \in Nat
    BY <1>1, <1>5, ProductNat
  <2> HIDE DEF c
  <2> QED BY <1>1, <1>2, <1>3, <2>2, <2>3, <2>4, <2>5
<1>7. AccrueFee(f, accrued) \in FeeData
  BY <1>1, <1>4, <1>5 DEF FeeData, K
<1>8. AccrueFee(f, accrued).credit - f.credit = n \div K
  BY <1>1, <1>4, <1>5
<1> QED BY <1>5, <1>6, <1>7, <1>8

\* Debts grow with their rate.
LEMMA RateGrows ==
  ASSUME NEW rate \in Nat, NEW accrual \in Nat \ {0}
  PROVE  LET new == MulCeil(RateScale + accrual, rate, RateScale)
         IN new \in Nat /\ rate <= new /\ (rate > 0 => rate < new)
<1> DEFINE S == RateScale
           n == S + accrual
           new == MulCeil(n, rate, RateScale)
<1>1. S \in Nat \ {0} /\ n \in Nat
  BY ScaleTyped
<1>2. new \in Nat /\ n * rate <= Scaled(new)
  BY <1>1, WorthUp
<1>3. n * rate = rate * S + accrual * rate /\ accrual * rate \in Nat
      /\ (rate > 0 => accrual * rate > 0) /\ rate * S \in Nat
  BY <1>1, ProductNat
<1>4. Scaled(rate) = rate * S /\ Scaled(new) \in Nat
  BY <1>2, ScaleTyped DEF Scaled
<1> HIDE DEF S, n, new
<1>5. Scaled(rate) <= Scaled(new) /\ (rate > 0 => ~(Scaled(new) <= Scaled(rate)))
  BY <1>2, <1>3, <1>4
<1>6. rate <= new /\ (rate > 0 => ~(new <= rate))
  BY <1>2, <1>5, ScaledOrder
<1> QED BY <1>2, <1>6 DEF new, n, S

LEMMA DebtMonotone ==
  \A d, low, high \in Nat :
    low <= high => MulCeil(d, low, RateScale) <= MulCeil(d, high, RateScale)
<1> SUFFICES ASSUME NEW d \in Nat, NEW low \in Nat, NEW high \in Nat, low <= high
    PROVE MulCeil(d, low, RateScale) <= MulCeil(d, high, RateScale)
  OBVIOUS
<1> DEFINE x == MulCeil(d, low, RateScale)
           y == MulCeil(d, high, RateScale)
<1>1. x \in Nat /\ y \in Nat /\ Scaled(x) < d * low + RateScale /\ d * high <= Scaled(y)
  BY WorthUp
<1>2. d * low <= d * high /\ d * low \in Nat /\ d * high \in Nat
  BY ProductNat, ProductMonotone
<1> HIDE DEF x, y
<1>3. Scaled(x) < Scaled(y) + RateScale
  BY <1>1, <1>2, ScaleTyped
<1>4. x <= y
  BY <1>1, <1>3, ScaledOrder
<1> QED BY <1>4 DEF x, y

\* Interest is divided up without a remainder in anyone's favour: what the
\* reserve owes grows by no more than what borrowers owe it.
LEMMA AccrualKeepsBalance ==
  ASSUME NEW r \in ReserveData, NEW f \in FeeData, NEW accrual \in Nat \ {0}
  PROVE  LET l == Accrue(r, f, accrual)
         IN /\ l.r \in ReserveData /\ l.f \in FeeData
            /\ l.r.bSupply = r.bSupply /\ l.r.dSupply = r.dSupply
            /\ r.dRate > 0 => l.r.dRate # r.dRate
            /\ AccountingBalance(l.r, l.f) <= AccountingBalance(r, f)
<1> DEFINE l == Accrue(r, f, accrual)
           rate == MulCeil(RateScale + accrual, r.dRate, RateScale)
           lent == [r EXCEPT !.dRate = rate]
           accrued == TotalLiabilities(lent) - TotalLiabilities(r)
           paid == AccrueFee(f, accrued)
           rest == accrued - (paid.credit - f.credit)
           taken == MulFloor(rest, TakeRate, RatioScale)
           after == DivFloor(TotalSupply(r) + rest - taken, r.bSupply, RateScale)
<1>1. /\ r.bRate \in Nat /\ r.dRate \in Nat /\ r.bSupply \in Nat /\ r.dSupply \in Nat
      /\ r.credit \in Nat /\ f.credit \in Nat
      /\ TotalSupply(r) \in Nat /\ TotalLiabilities(r) \in Nat
  BY Balances DEF ReserveData, FeeData
<1>2. rate \in Nat /\ r.dRate <= rate /\ (r.dRate > 0 => r.dRate < rate)
  BY <1>1, RateGrows
<1>3. l = [r |-> IF accrued = 0 THEN lent
                 ELSE IF r.bSupply = 0 THEN [lent EXCEPT !.credit = @ + rest]
                 ELSE [lent EXCEPT !.credit = @ + taken, !.bRate = after],
           f |-> paid]
  BY DEF Accrue
<1> HIDE DEF rate, l
<1>4. /\ lent \in ReserveData /\ lent.dRate = rate /\ lent.dSupply = r.dSupply
      /\ lent.bSupply = r.bSupply /\ lent.bRate = r.bRate /\ lent.credit = r.credit
  BY <1>2 DEF ReserveData
<1>5. accrued \in Nat /\ TotalLiabilities(lent) = TotalLiabilities(r) + accrued
  <2>1. TotalLiabilities(r) <= TotalLiabilities(lent)
    BY <1>1, <1>2, <1>4, DebtMonotone DEF TotalLiabilities
  <2>2. TotalLiabilities(lent) \in Nat
    BY <1>4, Balances
  <2> QED BY <1>1, <2>1, <2>2
<1> HIDE DEF lent, accrued
<1>6. paid \in FeeData /\ paid.credit - f.credit \in 0..accrued /\ paid.credit \in Nat
  <2>1. paid \in FeeData /\ paid.credit - f.credit \in 0..accrued
    BY <1>5, FeeAccrues
  <2> QED BY <2>1 DEF FeeData
<1> HIDE DEF paid
<1>7. rest \in Nat /\ paid.credit = f.credit + accrued - rest
  BY <1>1, <1>5, <1>6
<1> HIDE DEF rest
<1>8. taken \in Nat /\ rest - taken \in Nat
  BY <1>7, PartRoundedDown, ReserveAssumption DEF MulFloor
<1> HIDE DEF taken
<1> DEFINE m == TotalSupply(r) + rest - taken
<1>9. m \in Nat /\ after = DivFloor(m, r.bSupply, RateScale)
  BY <1>1, <1>7, <1>8
<1> HIDE DEF m, after
<1>10. after \in Nat /\ after * r.bSupply <= Scaled(m)
  BY <1>1, <1>9, SharesDown
<1>11. /\ l.f = paid /\ l.r \in ReserveData /\ l.r.dRate = rate /\ l.r.dSupply = r.dSupply
       /\ l.r.bSupply = r.bSupply
       /\ IF accrued = 0 THEN l.r.bRate = r.bRate /\ l.r.credit = r.credit
          ELSE IF r.bSupply = 0 THEN l.r.bRate = r.bRate /\ l.r.credit = r.credit + rest
          ELSE l.r.bRate = after /\ l.r.credit = r.credit + taken
  <2>3. CASE accrued = 0
    BY <1>3, <1>4, <2>3
  <2>1. CASE accrued # 0 /\ r.bSupply = 0
    BY <1>1, <1>3, <1>4, <1>7, <2>1 DEF ReserveData
  <2>2. CASE accrued # 0 /\ r.bSupply # 0
    <3>1. l.f = paid /\ l.r = [lent EXCEPT !.credit = lent.credit + taken, !.bRate = after]
      BY <1>3, <2>2
    <3>2. lent.credit + taken \in Nat /\ lent.credit + taken = r.credit + taken
      BY <1>1, <1>4, <1>8
    <3>3. /\ l.r \in ReserveData /\ l.r.credit = lent.credit + taken /\ l.r.bRate = after
          /\ l.r.dRate = lent.dRate /\ l.r.dSupply = lent.dSupply
          /\ l.r.bSupply = lent.bSupply
      BY <1>4, <1>10, <3>1, <3>2 DEF ReserveData
    <3> QED BY <1>4, <2>2, <3>1, <3>2, <3>3
  <2> QED BY <2>1, <2>2, <2>3
<1>12. TotalLiabilities(l.r) = TotalLiabilities(r) + accrued
  BY <1>4, <1>5, <1>11 DEF TotalLiabilities
<1>13. TotalSupply(l.r) + l.r.credit <= TotalSupply(r) + r.credit + rest
       /\ TotalSupply(l.r) \in Nat /\ l.r.credit \in Nat
  <2>1. TotalSupply(l.r) \in Nat /\ l.r.credit \in Nat
    BY <1>11, Balances DEF ReserveData
  <2>2. CASE accrued = 0 \/ r.bSupply = 0
    <3>1. TotalSupply(l.r) = TotalSupply(r)
      BY <1>11, <2>2 DEF TotalSupply
    <3> QED BY <1>1, <1>7, <1>11, <2>1, <2>2, <3>1
  <2>3. CASE accrued # 0 /\ r.bSupply # 0
    <3> DEFINE t == TotalSupply(l.r)
    <3>1. t = MulFloor(r.bSupply, after, RateScale)
      BY <1>11, <2>3 DEF TotalSupply
    <3>2. Scaled(t) <= r.bSupply * after /\ t \in Nat
      BY <1>1, <1>10, <3>1, WorthDown
    <3>3. r.bSupply * after = after * r.bSupply /\ after * r.bSupply \in Nat
      BY <1>1, <1>10
    <3> HIDE DEF t
    <3>4. Scaled(t) <= Scaled(m)
      BY <1>9, <1>10, <3>2, <3>3, ScaleTyped
    <3>5. t <= m
      BY <1>9, <3>2, <3>4, ScaledOrder
    <3>6. l.r.credit = r.credit + taken
      BY <1>11, <2>3
    <3> QED BY <1>1, <1>7, <1>8, <2>1, <3>5, <3>6 DEF t, m
  <2> QED BY <2>1, <2>2, <2>3
<1>14. AccountingBalance(l.r, l.f) <= AccountingBalance(r, f)
  <2>1. AccountingBalance(l.r, l.f)
          = TotalSupply(l.r) + l.r.credit + paid.credit - (TotalLiabilities(r) + accrued)
    BY <1>11, <1>12 DEF AccountingBalance
  <2>2. AccountingBalance(r, f) = TotalSupply(r) + r.credit + f.credit - TotalLiabilities(r)
    BY DEF AccountingBalance
  <2> QED BY <1>1, <1>5, <1>6, <1>7, <1>13, <2>1, <2>2
<1>15. r.dRate > 0 => l.r.dRate # r.dRate
  BY <1>1, <1>2, <1>11
<1> QED BY <1>6, <1>11, <1>14, <1>15 DEF l

\* What a load of sound data gives.
Loads(l) ==
  /\ l.r \in ReserveData /\ l.f \in FeeData
  /\ l.r.bSupply = reserve.bSupply /\ l.r.dSupply = reserve.dSupply
  /\ AccountingBalance(l.r, l.f) <= AccountingBalance(reserve, fee)
  /\ ~due \/ l.r.dRate = reserve.dRate => l.r = reserve /\ l.f = fee

LEMMA LoadsSoundly ==
  ASSUME ReserveTypeOK, NEW l \in Loaded
  PROVE  Loads(l)
<1>1. reserve \in ReserveData /\ fee \in FeeData
  BY DEF ReserveTypeOK, ReserveData, FeeData
<1>2. AccountingBalance(reserve, fee) <= AccountingBalance(reserve, fee)
  BY <1>1, Balances
<1>3. CASE due /\ TotalLiabilities(reserve) > 0
  <2>1. PICK a \in Accruals : l = Accrue(reserve, fee, a)
    BY <1>3 DEF Loaded
  <2>2. a \in Nat \ {0}
    BY ReserveAssumption
  <2>3. /\ l.r \in ReserveData /\ l.f \in FeeData
        /\ l.r.bSupply = reserve.bSupply /\ l.r.dSupply = reserve.dSupply
        /\ reserve.dRate > 0 => l.r.dRate # reserve.dRate
        /\ AccountingBalance(l.r, l.f) <= AccountingBalance(reserve, fee)
    BY ONLY <1>1, <2>1, <2>2, AccrualKeepsBalance
  <2>4. reserve.dRate > 0
    <3>1. reserve.dRate \in Nat /\ reserve.dSupply \in Nat
      BY <1>1 DEF ReserveData
    <3>2. ASSUME reserve.dRate = 0 PROVE FALSE
      <4>1. TotalLiabilities(reserve) = (0 + RateScale - 1) \div RateScale
        BY <3>1, <3>2 DEF TotalLiabilities, MulCeil
      <4>2. (0 + RateScale - 1) \div RateScale = 0
        BY ScaleTyped
      <4> QED BY <1>3, <4>1, <4>2
    <3> QED BY <3>1, <3>2
  <2> QED BY <1>3, <2>3, <2>4 DEF Loads
<1>4. CASE ~(due /\ TotalLiabilities(reserve) > 0)
  <2>1. l.r = reserve /\ l.f = fee
    BY <1>4 DEF Loaded
  <2> QED BY <1>1, <1>2, <2>1 DEF Loads
<1> QED BY <1>3, <1>4

------------------------------------------------------------------------------
(* What an entry point leaves behind *)

LEMMA FloorFollows ==
  ASSUME NEW rate \in Nat, NEW a \in Nat, NEW b \in Nat, NEW paid \in Int,
         rate * (b - a) <= Scaled(paid)
  PROVE  MulFloor(b, rate, RateScale) <= MulFloor(a, rate, RateScale) + paid
<1> DEFINE x == MulFloor(a, rate, RateScale)
           y == MulFloor(b, rate, RateScale)
<1>1. /\ x \in Nat /\ y \in Nat /\ Scaled(y) <= b * rate
      /\ a * rate < Scaled(x) + RateScale
  BY WorthDown
<1> HIDE DEF x, y
<1>2. rate * (b - a) = b * rate - a * rate /\ a * rate \in Nat /\ b * rate \in Nat
  BY ProductNat
<1>3. /\ Scaled(x + paid) = Scaled(x) + Scaled(paid) /\ x + paid \in Int
      /\ Scaled(x) \in Int /\ Scaled(y) \in Int /\ Scaled(paid) \in Int /\ RateScale \in Nat
  BY <1>1, ScaledOrder, ScaleTyped
<1>4. Scaled(y) < Scaled(x + paid) + RateScale
  BY <1>1, <1>2, <1>3
<1>5. y <= x + paid
  BY <1>1, <1>3, <1>4, ScaledOrder
<1> QED BY <1>5 DEF x, y

LEMMA CeilFollows ==
  ASSUME NEW rate \in Nat, NEW a \in Nat, NEW b \in Nat, NEW repaid \in Int,
         rate * (a - b) <= Scaled(repaid)
  PROVE  MulCeil(a, rate, RateScale) <= MulCeil(b, rate, RateScale) + repaid
<1> DEFINE x == MulCeil(a, rate, RateScale)
           y == MulCeil(b, rate, RateScale)
<1>1. /\ x \in Nat /\ y \in Nat /\ Scaled(x) < a * rate + RateScale
      /\ b * rate <= Scaled(y)
  BY WorthUp
<1> HIDE DEF x, y
<1>2. rate * (a - b) = a * rate - b * rate /\ a * rate \in Nat /\ b * rate \in Nat
  BY ProductNat
<1>3. /\ Scaled(y + repaid) = Scaled(y) + Scaled(repaid) /\ y + repaid \in Int
      /\ Scaled(x) \in Int /\ Scaled(y) \in Int /\ Scaled(repaid) \in Int /\ RateScale \in Nat
  BY <1>1, ScaledOrder, ScaleTyped
<1>4. Scaled(x) < Scaled(y + repaid) + RateScale
  BY <1>1, <1>2, <1>3
<1>5. x <= y + repaid
  BY <1>1, <1>3, <1>4, ScaledOrder
<1> QED BY <1>5 DEF x, y

\* The balance a working state would end with.
Settled(w) == w.bal + w.in - w.out

\* Whatever a batch moves, the reserve covers no less of what it owes.
LEMMA MovesKeepBalance ==
  ASSUME NEW v, NEW w, Moves(v, w)
  PROVE  BalanceDelta(v.r, v.f, Settled(v)) <= BalanceDelta(w.r, w.f, Settled(w))
<1>1. v \in Sound /\ w \in Sound /\ w.r.bRate = v.r.bRate /\ w.r.dRate = v.r.dRate
  BY DEF Moves
<1>2. PICK p \in Int, q \in Int :
        /\ Net(w) = Net(v) + p + q
        /\ v.r.bRate * (w.r.bSupply - v.r.bSupply) <= Scaled(p)
        /\ v.r.dRate * (v.r.dSupply - w.r.dSupply) <= Scaled(q)
  BY DEF Moves
<1>3. /\ v.r.bRate \in Nat /\ v.r.dRate \in Nat /\ v.r.bSupply \in Nat /\ v.r.dSupply \in Nat
      /\ w.r.bSupply \in Nat /\ w.r.dSupply \in Nat
      /\ v.r.credit \in Nat /\ v.f.credit \in Nat /\ w.r.credit \in Nat /\ w.f.credit \in Nat
      /\ v.r \in ReserveData /\ w.r \in ReserveData /\ v.f \in FeeData
      /\ v.bal \in Int /\ v.in \in Int /\ v.out \in Int
      /\ w.bal \in Int /\ w.in \in Int /\ w.out \in Int
  BY <1>1, SoundTyped
<1>4. TotalSupply(w.r) <= TotalSupply(v.r) + p
  BY <1>1, <1>2, <1>3, FloorFollows DEF TotalSupply
<1>5. TotalLiabilities(v.r) <= TotalLiabilities(w.r) + q
  BY <1>1, <1>2, <1>3, CeilFollows DEF TotalLiabilities
<1>6. /\ TotalSupply(w.r) \in Nat /\ TotalSupply(v.r) \in Nat
      /\ TotalLiabilities(w.r) \in Nat /\ TotalLiabilities(v.r) \in Nat
  BY <1>3, Balances
<1>7. /\ BalanceDelta(v.r, v.f, Settled(v)) = Net(v) - TotalSupply(v.r) + TotalLiabilities(v.r)
      /\ BalanceDelta(w.r, w.f, Settled(w)) = Net(w) - TotalSupply(w.r) + TotalLiabilities(w.r)
      /\ Net(v) \in Int /\ Net(w) \in Int
  BY <1>3, <1>6 DEF BalanceDelta, AccountingBalance, Settled, Net
<1> QED BY <1>2, <1>4, <1>5, <1>6, <1>7

LEMMA LoadWorks ==
  ASSUME SharesMatchPositions, NEW l \in Loaded
  PROVE  /\ Loads(l) /\ Work(l) \in Sound
         /\ Work(l).r = l.r /\ Work(l).f = l.f /\ Work(l).pos = position
         /\ Work(l).bal = balance /\ Settled(Work(l)) = balance
         /\ l.r \in ReserveData /\ l.f \in FeeData /\ position \in Accounts /\ balance \in Nat
<1>1. Loads(l)
  BY LoadsSoundly DEF SharesMatchPositions
<1>2. /\ l.r \in ReserveData /\ l.f \in FeeData
      /\ l.r.bSupply = reserve.bSupply /\ l.r.dSupply = reserve.dSupply
  BY <1>1 DEF Loads
<1>3. position \in Accounts /\ balance \in Nat
  BY DEF SharesMatchPositions, ReserveTypeOK, Accounts, Account
<1>4. /\ Work(l).r = l.r /\ Work(l).f = l.f /\ Work(l).pos = position
      /\ Work(l).bal = balance /\ Work(l).in = 0 /\ Work(l).out = 0 /\ Work(l).ok = TRUE
  BY DEF Work
<1>5. Work(l) \in Works
  BY <1>2, <1>3 DEF Work, Works
<1>6. Adds(Work(l).r, Work(l).pos)
  BY <1>2, <1>4 DEF Adds, SharesMatchPositions
<1>7. Work(l) \in Sound
  BY <1>4, <1>5, <1>6 DEF Sound
<1>8. Settled(Work(l)) = balance
  BY <1>3, <1>4 DEF Settled
<1> QED BY <1>1, <1>2, <1>3, <1>4, <1>7, <1>8

\* New rates and credits leave the shares alone.
LEMMA Revalued ==
  ASSUME NEW v \in Sound, NEW w, w = [v EXCEPT !.r = w.r, !.f = w.f],
         w.r \in ReserveData, w.f \in FeeData,
         w.r.bSupply = v.r.bSupply, w.r.dSupply = v.r.dSupply
  PROVE  w \in Sound /\ w.pos = v.pos
<1>1. v \in Works /\ v.ok /\ Adds(v.r, v.pos)
  BY SoundTyped
<1>2. /\ w \in Works /\ w.pos = v.pos /\ w.ok = v.ok
      /\ w.bal = v.bal /\ w.in = v.in /\ w.out = v.out
  BY <1>1 DEF Works
<1>3. Adds(w.r, w.pos)
  BY <1>1, <1>2 DEF Adds
<1> QED BY <1>1, <1>2, <1>3 DEF Sound

\* The step stored w.
Ends(w) ==
  /\ reserve' = w.r /\ fee' = w.f /\ position' = w.pos
  /\ balance' = Settled(w)

\* A step that pays or takes tokens only against shares.
Exchanges == \E l \in Loaded : \E w : Moves(Work(l), w) /\ Ends(w)

LEMMA SubmitExchanges ==
  ASSUME SharesMatchPositions, NEW u \in Users, NEW requests \in Batches, Submit(u, requests)
  PROVE  /\ Exchanges /\ BalanceDelta(reserve', fee', balance') >= 0
         /\ balance' \in Nat /\ due' = FALSE /\ UNCHANGED <<status, losses, ticks>>
<1>1. PICK l \in Loaded :
        LET done == Batch(Work(l), u, requests)
            w    == Fund(done)
        IN  /\ done.ok
            /\ Reconciled(w.r, w.f, w.bal)
            /\ w.bal \in 0..MaxBalance
            /\ Store(w)
            /\ balance' = w.bal
            /\ UNCHANGED <<status, losses, ticks>>
  BY DEF Submit
<1> DEFINE done == Batch(Work(l), u, requests)
           w == Fund(done)
<1>2. Work(l) \in Sound /\ done.ok
  BY <1>1, LoadWorks
<1>3. Moves(Work(l), done)
  BY <1>2, BatchMoves
<1> HIDE DEF done
<1>4. done \in Works
  BY <1>3, SoundTyped DEF Moves
<1>5. w.r = done.r /\ w.f = done.f /\ w.pos = done.pos /\ w.bal = Settled(done)
  BY <1>4 DEF Fund, Works, Settled
<1>6. /\ Reconciled(w.r, w.f, w.bal) /\ w.bal \in 0..MaxBalance /\ Store(w) /\ balance' = w.bal
      /\ UNCHANGED <<status, losses, ticks>>
  BY <1>1 DEF done
<1> HIDE DEF w
<1>7. Ends(done)
  BY <1>5, <1>6 DEF Ends, Store
<1>8. BalanceDelta(reserve', fee', balance') >= 0
  BY <1>6 DEF Reconciled, Store
<1>9. balance' \in Nat /\ due' = FALSE
  BY <1>6 DEF Store
<1> QED BY <1>3, <1>6, <1>7, <1>8, <1>9 DEF Exchanges

LEMMA BadDebtExchanges ==
  ASSUME SharesMatchPositions, NEW u \in Users, BadDebt(u)
  PROVE  Exchanges /\ due' = FALSE /\ UNCHANGED <<balance, status, losses, ticks>>
<1>1. PICK l \in Loaded, elsewhere \in SUBSET {"debt"} :
        /\ Store(HandOff(Work(l), u, elsewhere))
        /\ UNCHANGED <<balance, status, losses, ticks>>
  BY DEF BadDebt
<1> DEFINE w == HandOff(Work(l), u, elsewhere)
<1>2. Work(l) \in Sound /\ Settled(Work(l)) = balance
  BY LoadWorks
<1>3. PICK n \in Int : n <= 0 /\ Shift(Work(l), w, n, 0)
  BY <1>2, HandOffShifts
<1>4. Store(w)
  BY <1>1
<1> HIDE DEF w
<1>5. Moves(Work(l), w)
  <2>1. 0 >= 0
    OBVIOUS
  <2> QED BY ONLY <1>3, <2>1, ShiftMoves
<1>6. Settled(w) = balance
  BY <1>2, <1>3 DEF Shift, Settled
<1>7. Ends(w) /\ due' = FALSE
  BY <1>1, <1>4, <1>6 DEF Ends, Store
<1> QED BY <1>1, <1>5, <1>7 DEF Exchanges

\* An exit: b bTokens go, and x tokens worth no more than they are.
LEMMA ExitMoves ==
  ASSUME NEW v, NEW w, NEW n \in Int, Shift(v, w, n, 0),
         NEW x \in Nat, Scaled(x) <= (-n) * v.r.bRate,
         NEW paid, paid = [w EXCEPT !.bal = paid.bal], paid.bal = w.bal - x
  PROVE  /\ Moves(v, paid)
         /\ paid.r = w.r /\ paid.f = w.f /\ paid.pos = w.pos
         /\ Settled(paid) = Settled(v) - x
<1> DEFINE y == -x
<1>1. v \in Sound /\ w \in Sound
  BY DEF Shift
<1>2. v.r.bRate \in Nat /\ v.r.dRate \in Nat
  BY <1>1, SoundTyped
<1>3. w \in Works /\ w.ok /\ Adds(w.r, w.pos) /\ w.bal - x \in Int
  BY ONLY <1>1, x \in Nat, SoundTyped
<1>4. /\ paid \in Works /\ paid.r = w.r /\ paid.f = w.f /\ paid.pos = w.pos
      /\ paid.ok = w.ok /\ paid.in = w.in /\ paid.out = w.out /\ paid.bal = w.bal - x
  BY <1>3 DEF Works
<1>5. paid \in Sound
  BY <1>3, <1>4 DEF Sound
<1>6. /\ paid.r.bRate = v.r.bRate /\ paid.r.dRate = v.r.dRate
      /\ paid.r.bSupply = v.r.bSupply + n /\ paid.r.dSupply = v.r.dSupply + 0
      /\ w.r.credit = v.r.credit /\ w.f = v.f /\ w.bal = v.bal /\ w.in = v.in /\ w.out = v.out
  BY <1>4 DEF Shift
<1>7. y \in Int /\ 0 \in Int /\ y = -x
  OBVIOUS
<1> HIDE DEF y
<1>8. Net(paid) = Net(v) + y + 0
  <2>1. /\ v.bal \in Int /\ v.in \in Int /\ v.out \in Int /\ v.r.credit \in Int
        /\ v.f.credit \in Int
    BY <1>1, SoundTyped
  <2>2. /\ paid.bal = v.bal - x /\ paid.in = v.in /\ paid.out = v.out
        /\ paid.r.credit = v.r.credit /\ paid.f.credit = v.f.credit
    BY <1>4, <1>6
  <2> QED BY ONLY <1>7, <2>1, <2>2, x \in Nat DEF Net
<1>9. v.r.bRate * n <= Scaled(y) /\ v.r.dRate * (-0) <= Scaled(0)
  <2>1. v.r.bRate * n = -((-n) * v.r.bRate) /\ (-n) * v.r.bRate \in Int
    BY <1>2
  <2>2. Scaled(y) = -Scaled(x) /\ Scaled(x) \in Int /\ Scaled(0) = 0
    BY <1>7, ScaledMinus
  <2> QED BY <1>2, <2>1, <2>2
<1>10. Moves(v, paid)
  BY ONLY <1>1, <1>5, <1>6, <1>7, <1>8, <1>9, n \in Int, MovesBy
<1>11. Settled(paid) = Settled(v) - x
  <2>1. v.bal \in Int /\ v.in \in Int /\ v.out \in Int
    BY <1>1, SoundTyped
  <2> QED BY <1>4, <1>6, <2>1 DEF Settled
<1> QED BY <1>4, <1>10, <1>11

LEMMA ForceWithdrawalExchanges ==
  ASSUME SharesMatchPositions, NEW u \in Users, ForceWithdrawal(u)
  PROVE  /\ Exchanges /\ BalanceDelta(reserve', fee', balance') >= 0
         /\ balance' \in Nat /\ due' = FALSE /\ UNCHANGED <<status, losses, ticks>>
<1> DEFINE b == position[u].supply + position[u].collateral
<1>1. PICK l \in Loaded :
        LET sent == AssetOfB(l.r, b)
            w    == [Work(l) EXCEPT !.pos[u].supply = 0, !.pos[u].collateral = 0,
                                    !.r.bSupply = @ - b]
        IN  /\ Reconciled(l.r, l.f, balance)
            /\ sent <= balance
            /\ Store(w)
            /\ balance' = balance - sent
            /\ UNCHANGED <<status, losses, ticks>>
  BY DEF ForceWithdrawal
<1> DEFINE v == Work(l)
           sent == AssetOfB(l.r, b)
           a == [position[u] EXCEPT !.supply = 0, !.collateral = 0]
           w == [v EXCEPT !.pos[u].supply = 0, !.pos[u].collateral = 0, !.r.bSupply = @ - b]
           paid == [w EXCEPT !.bal = @ - sent]
<1>2. /\ v \in Sound /\ v.r = l.r /\ v.f = l.f /\ v.pos = position /\ Settled(v) = balance
      /\ l.r \in ReserveData /\ l.f \in FeeData /\ position \in Accounts /\ balance \in Nat
  BY LoadWorks
<1>3. /\ Reconciled(l.r, l.f, balance) /\ sent <= balance /\ Store(w)
      /\ balance' = balance - sent /\ UNCHANGED <<status, losses, ticks>>
  BY <1>1
<1> HIDE DEF v
<1>4. v \in Works /\ u \in Holders /\ position[u] \in Account
  BY <1>2, SoundTyped, HoldersFinite DEF Accounts
<1>5. /\ a \in Account /\ a.debt = v.pos[u].debt /\ b \in Nat
      /\ a.supply + a.collateral = v.pos[u].supply + v.pos[u].collateral - b
  <2>1. position[u].supply \in Nat /\ position[u].collateral \in Nat
    BY <1>4 DEF Account
  <2>2. a \in Account /\ a.debt = position[u].debt /\ a.supply = 0 /\ a.collateral = 0
    BY <1>4 DEF Account
  <2> HIDE DEF a
  <2> QED BY <1>2, <2>1, <2>2
<1>6. /\ w.pos = [v.pos EXCEPT ![u] = a] /\ w.r = [v.r EXCEPT !.bSupply = @ - b]
      /\ w = [v EXCEPT !.pos = w.pos, !.r = w.r]
  BY <1>2, <1>4 DEF Works, Accounts, Account
<1>7. sent \in Nat /\ Scaled(sent) <= b * v.r.bRate
  BY <1>2, <1>5, WorthDown DEF AssetOfB, ReserveData
<1>8. paid = [w EXCEPT !.bal = paid.bal] /\ paid.bal = w.bal - sent
  BY <1>4 DEF Works
<1> HIDE DEF a, b, w, sent, paid
<1>9. /\ Moves(v, paid) /\ paid.r = w.r /\ paid.f = w.f /\ paid.pos = w.pos
      /\ Settled(paid) = balance - sent
  <2> DEFINE n == -b
  <2>1. /\ v.ok /\ Adds(v.r, v.pos) /\ v.r \in ReserveData
        /\ v.pos[u].supply \in Nat /\ v.pos[u].collateral \in Nat /\ v.pos[u].debt \in Nat
    BY <1>2, <1>4, SoundTyped
  <2>2. Supplies(w.r, v.r, n, 0)
    BY <1>5, <1>6, <2>1 DEF ReserveData, Supplies
  <2>3. n = (a.supply + a.collateral) - (v.pos[u].supply + v.pos[u].collateral)
        /\ 0 = a.debt - v.pos[u].debt /\ 0 \in Int /\ n \in Int /\ -n = b
    BY <1>5, <2>1 DEF Account
  <2> HIDE DEF n
  <2>4. Shift(v, w, n, 0)
    BY ONLY <1>4, <1>5, <1>6, <2>1, <2>2, <2>3, AccountShifts
  <2>5. Scaled(sent) <= (-n) * v.r.bRate
    BY <1>7, <2>3
  <2>6. /\ Moves(v, paid) /\ paid.r = w.r /\ paid.f = w.f /\ paid.pos = w.pos
        /\ Settled(paid) = Settled(v) - sent
    BY ONLY <1>7, <1>8, <2>3, <2>4, <2>5, ExitMoves
  <2> QED BY <1>2, <2>6
<1>10. Ends(paid) /\ due' = FALSE
  BY <1>3, <1>9 DEF Ends, Store
<1>11. balance' \in Nat
  BY <1>2, <1>3, <1>7
<1>12. BalanceDelta(v.r, v.f, Settled(v)) <= BalanceDelta(paid.r, paid.f, Settled(paid))
  BY <1>9, MovesKeepBalance
<1>13. BalanceDelta(reserve', fee', balance') >= 0
  <2>1. BalanceDelta(v.r, v.f, Settled(v)) >= 0 /\ BalanceDelta(v.r, v.f, Settled(v)) \in Int
    BY <1>2, <1>3, Balances DEF Reconciled
  <2>2. BalanceDelta(reserve', fee', balance') = BalanceDelta(paid.r, paid.f, Settled(paid))
    BY <1>10 DEF Ends
  <2>3. BalanceDelta(paid.r, paid.f, Settled(paid)) \in Int
    <3>1. paid.r \in ReserveData /\ paid.f \in FeeData /\ Settled(paid) \in Int
      BY <1>9, SoundTyped DEF Moves, Settled
    <3> QED BY <3>1, Balances
  <2> QED BY <1>12, <2>1, <2>2, <2>3
<1> QED BY <1>3, <1>9, <1>10, <1>11, <1>13 DEF Exchanges, v

LEMMA ClawbackExchanges ==
  ASSUME SharesMatchPositions, NEW u \in Users, NEW x \in Amounts, Clawback(u, x)
  PROVE  /\ Exchanges /\ BalanceDelta(reserve', fee', balance') >= 0
         /\ balance' \in Nat /\ due' = FALSE /\ UNCHANGED <<status, losses, ticks>>
<1>1. PICK l \in Loaded :
        LET b     == ToBUp(l.r, x)
            plain == Min({position[u].supply, b})
            w     == [Work(l) EXCEPT !.pos[u].supply = @ - plain,
                                     !.pos[u].collateral = @ - (b - plain),
                                     !.r.bSupply = @ - b]
        IN  /\ Reconciled(l.r, l.f, balance)
            /\ b > 0 /\ b <= position[u].supply + position[u].collateral
            /\ x <= balance
            /\ Store(w)
            /\ balance' = balance - x
            /\ UNCHANGED <<status, losses, ticks>>
  BY DEF Clawback
<1> DEFINE v == Work(l)
           b == ToBUp(l.r, x)
           plain == Min({position[u].supply, b})
           a == [position[u] EXCEPT !.supply = @ - plain, !.collateral = @ - (b - plain)]
           w == [v EXCEPT !.pos[u].supply = @ - plain, !.pos[u].collateral = @ - (b - plain),
                          !.r.bSupply = @ - b]
           paid == [w EXCEPT !.bal = @ - x]
<1>2. /\ v \in Sound /\ v.r = l.r /\ v.f = l.f /\ v.pos = position /\ Settled(v) = balance
      /\ l.r \in ReserveData /\ l.f \in FeeData /\ position \in Accounts /\ balance \in Nat
  BY LoadWorks
<1>3. /\ Reconciled(l.r, l.f, balance) /\ b > 0 /\ x <= balance /\ Store(w)
      /\ b <= position[u].supply + position[u].collateral
      /\ balance' = balance - x /\ UNCHANGED <<status, losses, ticks>>
  BY <1>1
<1> HIDE DEF v
<1>4. v \in Works /\ u \in Holders /\ position[u] \in Account /\ x \in Nat
  BY <1>2, SoundTyped, HoldersFinite, ReserveAssumption DEF Accounts
<1>5. /\ b \in Nat /\ l.r.bRate \in Nat
      /\ l.r.bRate = 0 => b = 0
      /\ l.r.bRate # 0 => Scaled(x) <= b * l.r.bRate
  <2>1. l.r.bRate \in Nat
    BY <1>2 DEF ReserveData
  <2> QED BY <1>4, <2>1, SharesUp DEF ToBUp
<1>6. Scaled(x) <= b * v.r.bRate
  BY <1>2, <1>3, <1>5
<1> HIDE DEF b
<1>7. plain = IF position[u].supply <= b THEN position[u].supply ELSE b
  BY <1>4, <1>5, MinOfTwo DEF Account
<1> HIDE DEF plain
<1>8. /\ position[u].supply - plain \in Nat /\ position[u].collateral - (b - plain) \in Nat
      /\ plain \in Nat
  BY <1>3, <1>4, <1>5, <1>7 DEF Account
<1>9. /\ a \in Account /\ a.debt = v.pos[u].debt
      /\ a.supply = position[u].supply - plain
      /\ a.collateral = position[u].collateral - (b - plain)
  BY <1>2, <1>4, <1>8 DEF Account
<1>10. /\ w.pos = [v.pos EXCEPT ![u] = a] /\ w.r = [v.r EXCEPT !.bSupply = @ - b]
       /\ w = [v EXCEPT !.pos = w.pos, !.r = w.r]
  BY <1>2, <1>4 DEF Works, Accounts, Account
<1>11. paid = [w EXCEPT !.bal = paid.bal] /\ paid.bal = w.bal - x
  BY <1>4 DEF Works
<1> HIDE DEF a, w, paid
<1>12. a.supply + a.collateral = v.pos[u].supply + v.pos[u].collateral - b
  BY <1>2, <1>4, <1>5, <1>8, <1>9 DEF Account
<1>13. /\ Moves(v, paid) /\ paid.r = w.r /\ paid.f = w.f /\ paid.pos = w.pos
       /\ Settled(paid) = balance - x
  <2> DEFINE n == -b
  <2>1. /\ v.ok /\ Adds(v.r, v.pos) /\ v.r \in ReserveData
        /\ v.pos[u].supply \in Nat /\ v.pos[u].collateral \in Nat /\ v.pos[u].debt \in Nat
    BY <1>2, <1>4, SoundTyped
  <2>2. Supplies(w.r, v.r, n, 0)
    BY <1>5, <1>10, <2>1 DEF ReserveData, Supplies
  <2>3. n = (a.supply + a.collateral) - (v.pos[u].supply + v.pos[u].collateral)
        /\ 0 = a.debt - v.pos[u].debt /\ 0 \in Int /\ n \in Int /\ -n = b
        /\ a \in Account
    BY <1>5, <1>9, <1>12, <2>1 DEF Account
  <2> HIDE DEF n
  <2>4. Shift(v, w, n, 0)
    BY ONLY <1>4, <1>10, <2>1, <2>2, <2>3, AccountShifts
  <2>5. Scaled(x) <= (-n) * v.r.bRate
    BY <1>6, <2>3
  <2>6. /\ Moves(v, paid) /\ paid.r = w.r /\ paid.f = w.f /\ paid.pos = w.pos
        /\ Settled(paid) = Settled(v) - x
    BY ONLY <1>4, <1>11, <2>3, <2>4, <2>5, ExitMoves
  <2> QED BY <1>2, <2>6
<1>14. Ends(paid) /\ due' = FALSE
  BY <1>3, <1>13 DEF Ends, Store
<1>15. balance' \in Nat
  BY <1>2, <1>3, <1>4
<1>16. BalanceDelta(v.r, v.f, Settled(v)) <= BalanceDelta(paid.r, paid.f, Settled(paid))
  BY <1>13, MovesKeepBalance
<1>17. BalanceDelta(reserve', fee', balance') >= 0
  <2>1. BalanceDelta(v.r, v.f, Settled(v)) >= 0 /\ BalanceDelta(v.r, v.f, Settled(v)) \in Int
    BY <1>2, <1>3, Balances DEF Reconciled
  <2>2. BalanceDelta(reserve', fee', balance') = BalanceDelta(paid.r, paid.f, Settled(paid))
    BY <1>14 DEF Ends
  <2>3. BalanceDelta(paid.r, paid.f, Settled(paid)) \in Int
    <3>1. paid.r \in ReserveData /\ paid.f \in FeeData /\ Settled(paid) \in Int
      BY <1>13, SoundTyped DEF Moves, Settled
    <3> QED BY <3>1, Balances
  <2> QED BY <1>16, <2>1, <2>2, <2>3
<1> QED BY <1>3, <1>13, <1>14, <1>15, <1>17 DEF Exchanges, v

------------------------------------------------------------------------------
(* Losses *)

\* A loss up to the suppliers' claim is taken off it, and less than a unit of
\* the rate and one token beyond it.
LEMMA RateReduced ==
  ASSUME NEW r \in ReserveData, r.bSupply # 0, NEW loss \in Nat
  PROVE  LET new == ReduceRate(r, loss)
         IN /\ new \in ReserveData
            /\ new.bSupply = r.bSupply /\ new.dSupply = r.dSupply
            /\ new.dRate = r.dRate /\ new.credit = r.credit
            /\ loss <= TotalSupply(r) =>
                 /\ TotalSupply(new) <= TotalSupply(r) - loss
                 /\ Scaled(TotalSupply(r) - loss - TotalSupply(new)) < r.bSupply + RateScale
<1> DEFINE B == r.bSupply
           R == r.bRate
           c == DivCeil(loss, B, RateScale)
           k == Max({R - c, 0})
           new == ReduceRate(r, loss)
<1>1. B \in Nat \ {0} /\ R \in Nat
  BY DEF ReserveData
<1>2. c \in Nat /\ Scaled(loss) <= c * B /\ c * B < Scaled(loss) + B
  BY <1>1, SharesUp
<1>3. new = [r EXCEPT !.bRate = k]
  BY DEF ReduceRate
<1> HIDE DEF c
<1>4. k \in Nat /\ k = IF R - c >= 0 THEN R - c ELSE 0
  BY <1>1, <1>2, MaxOfTwo
<1> HIDE DEF k, new
<1>5. /\ new \in ReserveData /\ new.bRate = k /\ new.bSupply = B /\ new.dSupply = r.dSupply
      /\ new.dRate = r.dRate /\ new.credit = r.credit
  BY <1>3, <1>4 DEF ReserveData
<1> DEFINE x == TotalSupply(r)
           y == TotalSupply(new)
<1>6. /\ x \in Nat /\ Scaled(x) <= B * R /\ B * R < Scaled(x) + RateScale
      /\ y \in Nat /\ Scaled(y) <= B * k /\ B * k < Scaled(y) + RateScale
  BY <1>1, <1>4, <1>5, WorthDown DEF TotalSupply
<1> HIDE DEF x, y, B, R
<1>7. ASSUME loss <= x PROVE y <= x - loss /\ Scaled(x - loss - y) < B + RateScale
  <2>1. /\ Scaled(x - loss) = Scaled(x) - Scaled(loss) /\ x - loss \in Int
        /\ Scaled((x - loss) - y) = Scaled(x - loss) - Scaled(y)
        /\ Scaled(x) \in Int /\ Scaled(y) \in Int /\ Scaled(loss) \in Int
        /\ RateScale \in Nat \ {0} /\ Scaled(0) = 0
    <3> DEFINE z == x - loss
    <3>1. z \in Int /\ x \in Int /\ y \in Int /\ loss \in Int
      BY <1>6
    <3>2. Scaled(x - loss) = Scaled(x) - Scaled(loss)
      BY <3>1, ScaledOrder
    <3> HIDE DEF z
    <3>3. Scaled(z - y) = Scaled(z) - Scaled(y)
      BY <3>1, ScaledOrder
    <3> QED BY <3>1, <3>2, <3>3, ScaleTyped, ScaledMinus DEF z
  <2>2. c * B \in Nat /\ B * R \in Nat /\ c * B = B * c
    BY <1>1, <1>2, ProductNat
  <2>3. CASE R - c >= 0
    <3>1. B * k = B * R - c * B
      BY <1>1, <1>2, <1>4, <2>3
    <3>2. Scaled(y) < Scaled(x - loss) + RateScale
      BY <1>2, <1>6, <2>1, <2>2, <3>1
    <3>3. y <= x - loss
      BY <1>6, <2>1, <3>2, ScaledOrder
    <3>4. Scaled(x - loss) - Scaled(y) < B + RateScale
      BY <1>1, <1>2, <1>6, <2>1, <2>2, <3>1
    <3> QED BY <2>1, <3>3, <3>4
  <2>4. CASE R - c < 0
    <3>1. k = 0 /\ B * k = 0
      BY <1>1, <1>2, <1>4, <2>4
    <3>2. y = 0
      <4>1. Scaled(y) <= Scaled(0)
        BY <1>6, <2>1, <3>1
      <4>2. y <= 0
        BY <1>6, <4>1, ScaledOrder
      <4> QED BY <1>6, <4>2
    <3>3. B * R <= c * B
      <4>1. R <= c
        BY <1>1, <1>2, <2>4
      <4>2. B * R <= B * c
        BY <1>1, <1>2, <4>1, ProductMonotone
      <4> QED BY <2>2, <4>2
    <3>4. Scaled(x - loss) - Scaled(y) < B + RateScale
      BY <1>1, <1>2, <1>6, <2>1, <2>2, <3>2, <3>3
    <3> QED BY <1>6, <1>7, <2>1, <3>2, <3>4
  <2> QED BY <1>1, <1>2, <2>3, <2>4
<1> QED BY <1>5, <1>7 DEF new, x, y, B

LEMMA DefaultTyped ==
  ASSUME NEW r \in ReserveData, NEW d \in Nat, d <= r.dSupply
  PROVE  LET new == DefaultLiabilities(r, d)
         IN new \in ReserveData /\ new.bSupply = r.bSupply /\ new.dSupply = r.dSupply - d
<1> DEFINE gone == [r EXCEPT !.dSupply = @ - d]
           loss == AssetOfD(r, d)
<1>1. r.dRate \in Nat /\ r.dSupply - d \in Nat
  BY DEF ReserveData
<1>2. gone \in ReserveData /\ gone.bSupply = r.bSupply /\ gone.dSupply = r.dSupply - d
  BY <1>1 DEF ReserveData
<1>3. loss \in Nat
  BY <1>1, WorthUp DEF AssetOfD
<1>4. DefaultLiabilities(r, d) = IF r.bSupply = 0 THEN gone ELSE ReduceRate(gone, loss)
  BY DEF DefaultLiabilities
<1> HIDE DEF gone, loss
<1>5. r.bSupply # 0 => /\ ReduceRate(gone, loss) \in ReserveData
                       /\ ReduceRate(gone, loss).bSupply = gone.bSupply
                       /\ ReduceRate(gone, loss).dSupply = gone.dSupply
  BY <1>2, <1>3, RateReduced
<1> QED BY <1>2, <1>4, <1>5

LEMMA Absorbed ==
  ASSUME NEW r \in ReserveData, NEW f \in FeeData, NEW bal \in Int,
         BalanceDelta(r, f, bal) < 0, Absorb(r, f, bal).r.credit >= 0
  PROVE  LET a == Absorb(r, f, bal)
         IN /\ a.r \in ReserveData /\ a.f \in FeeData
            /\ a.r.bSupply = r.bSupply /\ a.r.dSupply = r.dSupply
            /\ BalanceDelta(a.r, a.f, bal) \in Nat
            /\ TotalSupply(a.r) < TotalSupply(r) => a.f.credit = 0
            /\ a.r.credit < r.credit => TotalSupply(a.r) = 0
            /\ Scaled(BalanceDelta(a.r, a.f, bal)) < r.bSupply + RateScale
<1> DEFINE short == 0 - BalanceDelta(r, f, bal)
           feeLoss == Min({short, f.credit})
           f2 == [f EXCEPT !.credit = @ - feeLoss]
           claim == TotalSupply(r)
           rest == short - feeLoss
           supLoss == Min({rest, claim})
           r2 == IF r.bSupply > 0 /\ supLoss = claim THEN [r EXCEPT !.bRate = 0]
                 ELSE IF supLoss > 0 THEN ReduceRate(r, supLoss) ELSE r
           left == Max({0 - BalanceDelta(r2, f2, bal), 0})
           r3 == [r2 EXCEPT !.credit = @ - left]
           S == RateScale
<1>1. Absorb(r, f, bal) = [r |-> r3, f |-> f2]
  BY DEF Absorb
<1>2. /\ r.bRate \in Nat /\ r.dRate \in Nat /\ r.bSupply \in Nat /\ r.dSupply \in Nat
      /\ r.credit \in Nat /\ f.credit \in Nat /\ f.carry \in 0..(RatioScale - 1)
      /\ claim \in Nat /\ TotalLiabilities(r) \in Nat /\ S \in Nat \ {0}
  BY Balances, ScaleTyped DEF ReserveData, FeeData
<1>3. /\ BalanceDelta(r, f, bal) = bal - (claim + r.credit + f.credit - TotalLiabilities(r))
      /\ short \in Nat
  <2>1. BalanceDelta(r, f, bal) = bal - (claim + r.credit + f.credit - TotalLiabilities(r))
    BY DEF BalanceDelta, AccountingBalance
  <2>2. BalanceDelta(r, f, bal) \in Int
    BY Balances
  <2> QED BY <2>1, <2>2
<1>4. short = claim + r.credit + f.credit - TotalLiabilities(r) - bal
  BY <1>2, <1>3
<1> HIDE DEF short
<1>5. feeLoss \in 0..f.credit /\ rest \in Nat /\ (rest > 0 => feeLoss = f.credit)
  <2>1. feeLoss = IF short <= f.credit THEN short ELSE f.credit
    BY <1>2, <1>3, MinOfTwo
  <2> HIDE DEF feeLoss
  <2> QED BY <1>2, <1>3, <2>1
<1> HIDE DEF feeLoss
<1>6. f2 \in FeeData /\ f2.credit = f.credit - feeLoss
  BY <1>2, <1>5 DEF FeeData
<1> HIDE DEF f2
<1>7. rest = short - feeLoss
  OBVIOUS
<1> HIDE DEF rest, claim
<1>8. supLoss \in Nat /\ supLoss = IF rest <= claim THEN rest ELSE claim
  BY <1>2, <1>5, MinOfTwo
<1> HIDE DEF supLoss
<1> DEFINE y == TotalSupply(r2)
<1>9. /\ r2 \in ReserveData /\ r2.bSupply = r.bSupply /\ r2.dSupply = r.dSupply
      /\ r2.dRate = r.dRate /\ r2.credit = r.credit
      /\ y \in Nat /\ y <= claim - supLoss
      /\ Scaled(claim - supLoss - y) < r.bSupply + S
      /\ supLoss = rest \/ y = 0
  <2>1. Scaled(0) = 0
    BY ScaledMinus
  <2>2. CASE r.bSupply > 0 /\ supLoss = claim
    <3>1. r2 = [r EXCEPT !.bRate = 0]
      BY <2>2
    <3>2. /\ r2 \in ReserveData /\ r2.bSupply = r.bSupply /\ r2.dSupply = r.dSupply
          /\ r2.dRate = r.dRate /\ r2.credit = r.credit /\ r2.bRate = 0
      BY <3>1 DEF ReserveData
    <3> HIDE DEF r2
    <3>3. y = (r.bSupply * 0) \div S
      BY <3>2 DEF TotalSupply, MulFloor
    <3>4. y = 0
      BY <1>2, <3>3
    <3>5. claim - supLoss - 0 = 0
      BY <1>2, <2>2
    <3> QED BY <1>2, <1>8, <2>1, <2>2, <3>2, <3>4, <3>5
  <2>3. CASE ~(r.bSupply > 0 /\ supLoss = claim) /\ supLoss > 0
    <3>1. r.bSupply # 0
      <4>1. ASSUME r.bSupply = 0 PROVE FALSE
        <5>1. claim = (0 * r.bRate) \div S
          BY <4>1 DEF claim, TotalSupply, MulFloor
        <5>2. claim = 0
          BY <1>2, <5>1
        <5> QED BY <1>2, <1>5, <1>8, <2>3, <5>2
      <4> QED BY <4>1
    <3>2. r2 = ReduceRate(r, supLoss)
      BY <2>3
    <3>3. supLoss <= claim /\ (supLoss = rest)
      BY <1>2, <1>5, <1>8, <2>3, <3>1
    <3> HIDE DEF r2
    <3>4. /\ r2 \in ReserveData /\ r2.bSupply = r.bSupply /\ r2.dSupply = r.dSupply
          /\ r2.dRate = r.dRate /\ r2.credit = r.credit
          /\ y <= claim - supLoss /\ Scaled(claim - supLoss - y) < r.bSupply + S
      BY <1>8, <3>1, <3>2, <3>3, RateReduced DEF claim
    <3>5. y \in Nat
      BY <3>4, Balances
    <3> QED BY <3>3, <3>4, <3>5
  <2>4. CASE ~(r.bSupply > 0 /\ supLoss = claim) /\ ~(supLoss > 0)
    <3>1. r2 = r /\ y = claim
      BY <2>4 DEF claim
    <3>2. supLoss = 0 /\ claim - supLoss - y = 0 /\ claim - supLoss = claim
      BY <1>2, <1>8, <2>4, <3>1
    <3>3. supLoss = rest \/ y = 0
      BY <1>8, <3>1, <3>2
    <3> HIDE DEF r2, y
    <3> QED BY <1>2, <2>1, <3>1, <3>2, <3>3
  <2> QED BY <2>2, <2>3, <2>4
<1> HIDE DEF r2, y
<1> DEFINE delta == BalanceDelta(r2, f2, bal)
<1>10. TotalLiabilities(r2) = TotalLiabilities(r)
  BY <1>9 DEF TotalLiabilities
<1>11. delta = (claim - y) - rest /\ delta \in Int
  <2>1. delta = bal - (y + r.credit + f2.credit - TotalLiabilities(r))
    BY <1>9, <1>10 DEF BalanceDelta, AccountingBalance, y
  <2>2. feeLoss \in Int
    BY <1>5
  <2> HIDE DEF delta
  <2> QED BY ONLY <1>2, <1>4, <1>6, <1>7, <1>9, <2>1, <2>2, bal \in Int
<1>12. left = (IF 0 - delta >= 0 THEN 0 - delta ELSE 0) /\ left \in Nat
  <2> HIDE DEF delta
  <2>1. left = IF 0 - delta >= 0 THEN 0 - delta ELSE 0
    BY <1>11, MaxOfTwo DEF delta
  <2> HIDE DEF left
  <2> QED BY <1>11, <2>1
<1> HIDE DEF left
<1>13. r3.credit = r.credit - left /\ r.credit - left \in Nat
  <2>1. r3.credit = r2.credit - left
    BY <1>9 DEF ReserveData
  <2> HIDE DEF r3
  <2>2. r3.credit >= 0
    BY <1>1
  <2> QED BY <1>2, <1>9, <1>12, <2>1, <2>2
<1>14. /\ r3 \in ReserveData /\ r3.bSupply = r.bSupply /\ r3.dSupply = r.dSupply
       /\ r3.bRate = r2.bRate /\ r3.dRate = r2.dRate
  BY <1>9, <1>13 DEF ReserveData
<1> HIDE DEF r3
<1>15. TotalSupply(r3) = y /\ TotalLiabilities(r3) = TotalLiabilities(r2)
  BY <1>9, <1>14 DEF TotalSupply, TotalLiabilities, y
<1>16. BalanceDelta(r3, f2, bal) = delta + left
  <2>1. BalanceDelta(r3, f2, bal) = bal - (y + (r.credit - left) + f2.credit - TotalLiabilities(r))
    BY <1>10, <1>13, <1>15 DEF BalanceDelta, AccountingBalance
  <2>2. delta = bal - (y + r.credit + f2.credit - TotalLiabilities(r))
    BY <1>9, <1>10 DEF BalanceDelta, AccountingBalance, y
  <2>3. f2.credit \in Int
    BY <1>2, <1>5, <1>6
  <2> HIDE DEF delta
  <2> QED BY ONLY <1>2, <1>9, <1>12, <2>1, <2>2, <2>3, bal \in Int
<1> HIDE DEF delta
<1> DEFINE e == delta + left
<1>17. e \in Nat /\ (e = 0 \/ e <= claim - supLoss - y) /\ (left > 0 => y = 0)
  <2>1. supLoss <= rest
    BY <1>2, <1>5, <1>8
  <2>2. supLoss \in Nat /\ rest \in Nat /\ claim \in Nat /\ y \in Nat
    BY <1>2, <1>5, <1>8, <1>9
  <2>3. CASE delta <= 0
    <3>1. left = 0 - delta /\ e = 0
      BY <1>11, <1>12, <2>3
    <3>2. left > 0 => y = 0
      <4>1. SUFFICES ASSUME left > 0 PROVE supLoss # rest
        BY <1>9
      <4> QED BY <1>9, <1>11, <2>2, <3>1, <4>1
    <3> QED BY <3>1, <3>2
  <2>4. CASE delta > 0
    <3>1. left = 0 /\ e = delta
      BY <1>11, <1>12, <2>4
    <3>2. delta <= claim - supLoss - y
      BY <1>11, <2>1, <2>2
    <3> QED BY <1>11, <2>4, <3>1, <3>2
  <2> QED BY <1>11, <2>3, <2>4
<1> HIDE DEF e
<1>18. Scaled(e) < r.bSupply + S
  <2>1. CASE e = 0
    BY <1>2, <2>1, ScaledMinus
  <2>2. CASE e <= claim - supLoss - y
    <3> DEFINE m == claim - supLoss - y
    <3>1. m \in Int
      BY <1>2, <1>8, <1>9
    <3>2. Scaled(m) < r.bSupply + S
      BY <1>9
    <3>3. e <= m
      BY <2>2
    <3>5. e \in Int
      BY <1>17
    <3> HIDE DEF m
    <3>4. Scaled(e) <= Scaled(m) /\ Scaled(e) \in Int /\ Scaled(m) \in Int
      BY ONLY <3>1, <3>3, <3>5, ScaledOrder, ScaleTyped
    <3> QED BY <1>2, <3>2, <3>4
  <2> QED BY <1>17, <2>1, <2>2
<1>19. y < claim => f2.credit = 0
  <2>1. SUFFICES ASSUME y < claim PROVE f2.credit = 0
    OBVIOUS
  <2>2. rest > 0
    <3>1. ASSUME rest = 0 PROVE FALSE
      <4>1. supLoss = 0
        BY <1>2, <1>8, <3>1
      <4>2. CASE supLoss = claim
        BY <1>2, <1>9, <2>1, <4>1, <4>2
      <4>3. CASE supLoss # claim
        <5>1. r2 = r
          BY <4>1, <4>3 DEF r2
        <5>2. y = claim
          BY <5>1 DEF y, claim
        <5> QED BY <1>2, <2>1, <5>2
      <4> QED BY <4>2, <4>3
    <3> QED BY <1>5, <3>1
  <2> QED BY <1>2, <1>5, <1>6, <2>2
<1>20. r3.credit < r.credit => y = 0
  BY <1>2, <1>12, <1>13, <1>17
<1> QED BY <1>1, <1>6, <1>14, <1>15, <1>16, <1>17, <1>18, <1>19, <1>20 DEF e, claim

------------------------------------------------------------------------------
(* The invariant *)

\* What no entry point of the pool touches.
Bounds ==
  /\ balance' \in Nat /\ losses' \in Nat /\ ticks' \in Nat
  /\ due' \in BOOLEAN /\ status' \in {"Active", "OnIce", "Frozen"}

LEMMA SharesStored ==
  ASSUME NEW w \in Sound, reserve' = w.r, fee' = w.f, position' = w.pos, Bounds
  PROVE  SharesMatchPositions'
<1>1. w.r \in ReserveData /\ w.f \in FeeData /\ w.pos \in Accounts /\ Adds(w.r, w.pos)
  BY SoundTyped
<1>2. Adds(reserve', position')
  BY <1>1
<1>3. /\ reserve'.bSupply = SumOfHolders(BShares(position'))
      /\ reserve'.dSupply = SumOfHolders(DShares(position'))
  BY ONLY <1>2 DEF Adds
<1>4. ReserveTypeOK'
  BY <1>1 DEF ReserveTypeOK, Bounds, ReserveData, FeeData, Accounts, Account
<1> QED BY <1>3, <1>4 DEF SharesMatchPositions

\* The default of the backstop's debt: what is left, and what the step leaves alone.
LEMMA DefaultStored ==
  ASSUME SharesMatchPositions, DefaultBackstop
  PROVE  /\ SharesMatchPositions'
         /\ \A u \in Users : position'[u] = position[u]
         /\ UNCHANGED <<balance, status, losses, ticks>>
<1>1. PICK l \in Loaded :
        /\ Store([Work(l) EXCEPT !.r = DefaultLiabilities(@, position[Backstop].debt),
                                 !.pos[Backstop].debt = 0])
        /\ UNCHANGED <<balance, status, losses, ticks>>
  BY DEF DefaultBackstop
<1> DEFINE v == Work(l)
           d == position[Backstop].debt
           n == -d
           new == [v EXCEPT !.r = DefaultLiabilities(@, d), !.pos[Backstop].debt = 0]
           a == [position[Backstop] EXCEPT !.debt = 0]
           mid == [v EXCEPT !.pos[Backstop].debt = 0, !.r.dSupply = @ - d]
<1>2. /\ v \in Sound /\ v.r = l.r /\ v.f = l.f /\ v.pos = position
      /\ l.r \in ReserveData /\ l.f \in FeeData /\ position \in Accounts
  BY LoadWorks
<1>3. Store(new)
  BY <1>1
<1> HIDE DEF v
<1>4. /\ v \in Works /\ v.ok /\ Adds(v.r, v.pos) /\ Backstop \in Holders
      /\ position[Backstop] \in Account /\ d \in Nat
      /\ v.r.dSupply \in Nat
  BY <1>2, SoundTyped, HoldersFinite DEF Accounts, Account
<1>5. /\ a \in Account /\ a.debt = 0 /\ a.supply = position[Backstop].supply
      /\ a.collateral = position[Backstop].collateral
  BY <1>4 DEF Account
<1>6. mid.pos = [v.pos EXCEPT ![Backstop] = a] /\ mid = [v EXCEPT !.pos = mid.pos, !.r = mid.r]
  BY <1>2, <1>4 DEF Works, Accounts
<1>7. Supplies(mid.r, v.r, 0, n)
  BY <1>2, <1>4 DEF Works, ReserveData, Supplies
<1>8. /\ new = [mid EXCEPT !.r = new.r, !.f = new.f]
      /\ new.r = DefaultLiabilities(v.r, d) /\ new.f = v.f
  BY <1>4 DEF Works
<1> HIDE DEF a, mid, new
<1>9. 0 = (a.supply + a.collateral)
            - (v.pos[Backstop].supply + v.pos[Backstop].collateral)
      /\ n = a.debt - v.pos[Backstop].debt /\ 0 \in Int /\ n \in Int /\ n = -d
  BY <1>2, <1>4, <1>5 DEF Account
<1> HIDE DEF n, d
<1>10. Shift(v, mid, 0, n)
  BY ONLY <1>4, <1>5, <1>6, <1>7, <1>9, AccountShifts
<1>11. /\ mid \in Sound /\ mid.r.bSupply = v.r.bSupply /\ mid.r.dSupply = v.r.dSupply - d
       /\ mid.r.dSupply \in Nat /\ v.r.bSupply \in Nat /\ v.f \in FeeData
  <2>1. mid \in Sound /\ v \in Sound /\ mid.r.bSupply = v.r.bSupply + 0
        /\ mid.r.dSupply = v.r.dSupply + n
    BY <1>10 DEF Shift
  <2>2. v.r.bSupply \in Nat /\ v.r.dSupply \in Nat /\ mid.r.dSupply \in Nat /\ v.f \in FeeData
    BY ONLY <2>1, SoundTyped
  <2> QED BY <1>4, <1>9, <2>1, <2>2
<1>12. d <= v.r.dSupply
  BY <1>4, <1>11
<1>13. /\ DefaultLiabilities(v.r, d) \in ReserveData
       /\ DefaultLiabilities(v.r, d).bSupply = v.r.bSupply
       /\ DefaultLiabilities(v.r, d).dSupply = v.r.dSupply - d
  BY <1>2, <1>4, <1>12, DefaultTyped
<1>14. new \in Sound
  BY <1>8, <1>11, <1>13, Revalued
<1>15. /\ reserve' = new.r /\ fee' = new.f /\ position' = new.pos /\ due' = FALSE
  BY <1>3 DEF Store
<1>16. UNCHANGED <<balance, status, losses, ticks>>
  BY <1>1
<1>17. Bounds
  BY <1>15, <1>16 DEF Bounds, SharesMatchPositions, ReserveTypeOK
<1>18. new.pos = mid.pos
  BY <1>8, <1>11, <1>13, Revalued
<1>19. \A u \in Users : position'[u] = position[u]
  BY <1>2, <1>6, <1>15, <1>18, ReserveAssumption, HoldersFinite DEF Accounts
<1> QED BY <1>14, <1>15, <1>16, <1>17, <1>19, SharesStored

\* A step that only revalues the reserve.
Revalues ==
  /\ SharesMatchPositions' /\ position' = position
  /\ due' = FALSE /\ UNCHANGED <<balance, status, losses, ticks>>

LEMMA RevaluesBy ==
  ASSUME SharesMatchPositions, NEW l \in Loaded, NEW r \in ReserveData, NEW f \in FeeData,
         r.bSupply = l.r.bSupply, r.dSupply = l.r.dSupply,
         NEW w, w = [Work(l) EXCEPT !.r = r, !.f = f], Store(w),
         UNCHANGED <<balance, status, losses, ticks>>
  PROVE  Revalues /\ reserve' = r /\ fee' = f
<1>1. Work(l) \in Sound /\ Work(l).r = l.r /\ Work(l).pos = position
  BY LoadWorks
<1> DEFINE v == Work(l)
<1>4. v \in Works /\ w = [v EXCEPT !.r = r, !.f = f]
  BY <1>1, SoundTyped
<1> HIDE DEF v
<1>5. w = [v EXCEPT !.r = w.r, !.f = w.f] /\ w.r = r /\ w.f = f
  BY <1>4 DEF Works
<1>2. w \in Sound /\ w.r = r /\ w.f = f /\ w.pos = position
  BY <1>1, <1>5, Revalued DEF v
<1>3. reserve' = w.r /\ fee' = w.f /\ position' = w.pos /\ due' = FALSE
  BY DEF Store
<1>6. Bounds
  BY <1>3 DEF Bounds, SharesMatchPositions, ReserveTypeOK
<1> QED BY <1>2, <1>3, <1>6, SharesStored DEF Revalues

LEMMA GulpRevalues ==
  ASSUME SharesMatchPositions, Gulp
  PROVE  Revalues /\ BalanceDelta(reserve', fee', balance') = 0
<1>1. PICK l \in Loaded :
        /\ BalanceDelta(l.r, l.f, balance) > 0
        /\ Store([Work(l) EXCEPT !.r.credit = @ + BalanceDelta(l.r, l.f, balance)])
        /\ UNCHANGED <<balance, status, losses, ticks>>
  BY DEF Gulp
<1> DEFINE x == BalanceDelta(l.r, l.f, balance)
           r == [l.r EXCEPT !.credit = @ + x]
           w == [Work(l) EXCEPT !.r.credit = @ + x]
<1>2. /\ l.r \in ReserveData /\ l.f \in FeeData /\ balance \in Nat
      /\ Work(l) \in Works /\ Work(l).r = l.r /\ Work(l).f = l.f
  BY LoadWorks, SoundTyped
<1>3. x \in Int /\ x > 0 /\ Store(w) /\ UNCHANGED <<balance, status, losses, ticks>>
  BY <1>1, <1>2, Balances
<1>4. w = [Work(l) EXCEPT !.r = r, !.f = l.f]
  BY <1>2 DEF Works
<1> HIDE DEF w
<1>5. /\ r \in ReserveData /\ r.bSupply = l.r.bSupply /\ r.dSupply = l.r.dSupply
      /\ r.bRate = l.r.bRate /\ r.dRate = l.r.dRate /\ r.credit = l.r.credit + x
  <2> HIDE DEF x
  <2>1. l.r.credit + x \in Nat
    BY <1>2, <1>3 DEF ReserveData
  <2> QED BY <1>2, <2>1 DEF ReserveData
<1> HIDE DEF r
<1>6. Revalues /\ reserve' = r /\ fee' = l.f
  BY <1>2, <1>3, <1>4, <1>5, RevaluesBy
<1>7. TotalSupply(r) = TotalSupply(l.r) /\ TotalLiabilities(r) = TotalLiabilities(l.r)
  BY <1>5 DEF TotalSupply, TotalLiabilities
<1>8. BalanceDelta(r, l.f, balance) = 0
  <2>1. /\ TotalSupply(l.r) \in Int /\ TotalLiabilities(l.r) \in Int /\ l.r.credit \in Int
        /\ l.f.credit \in Int
    BY <1>2, Balances DEF ReserveData, FeeData
  <2>2. x = balance - (TotalSupply(l.r) + l.r.credit + l.f.credit - TotalLiabilities(l.r))
    BY DEF BalanceDelta, AccountingBalance
  <2>3. BalanceDelta(r, l.f, balance)
          = balance - (TotalSupply(l.r) + r.credit + l.f.credit - TotalLiabilities(l.r))
    BY <1>7 DEF BalanceDelta, AccountingBalance
  <2> HIDE DEF x
  <2> QED BY <1>2, <1>3, <1>5, <2>1, <2>2, <2>3
<1> QED BY <1>3, <1>6, <1>8

\* What reconcile_loss stores, from what it loaded.
Reconciles(l) ==
  /\ Reconciled(l.r, l.f, balance) => reserve' = l.r /\ fee' = l.f
  /\ ~Reconciled(l.r, l.f, balance) =>
       /\ BalanceDelta(reserve', fee', balance) \in Nat
       /\ TotalSupply(reserve') < TotalSupply(l.r) => fee'.credit = 0
       /\ reserve'.credit < l.r.credit => TotalSupply(reserve') = 0
       /\ Scaled(BalanceDelta(reserve', fee', balance)) < l.r.bSupply + RateScale

LEMMA ReconcileRevalues ==
  ASSUME SharesMatchPositions, ReconcileLoss
  PROVE  Revalues /\ \E l \in Loaded : Reconciles(l)
<1>1. PICK l \in Loaded :
        LET a == IF Reconciled(l.r, l.f, balance) THEN l ELSE Absorb(l.r, l.f, balance)
        IN  /\ a.r.credit >= 0
            /\ Store([Work(l) EXCEPT !.r = a.r, !.f = a.f])
            /\ UNCHANGED <<balance, status, losses, ticks>>
  BY DEF ReconcileLoss
<1> DEFINE a == IF Reconciled(l.r, l.f, balance) THEN l ELSE Absorb(l.r, l.f, balance)
           w == [Work(l) EXCEPT !.r = a.r, !.f = a.f]
<1>2. l.r \in ReserveData /\ l.f \in FeeData /\ balance \in Nat /\ balance \in Int
  BY LoadWorks
<1>3. a.r.credit >= 0 /\ Store(w) /\ UNCHANGED <<balance, status, losses, ticks>>
  BY <1>1
<1>4. w = [Work(l) EXCEPT !.r = a.r, !.f = a.f]
  OBVIOUS
<1> HIDE DEF w
<1>5. CASE Reconciled(l.r, l.f, balance)
  <2>1. a = l
    BY <1>5
  <2> HIDE DEF a
  <2>2. Revalues /\ reserve' = l.r /\ fee' = l.f
    BY <1>2, <1>3, <1>4, <2>1, RevaluesBy
  <2> QED BY <1>5, <2>2 DEF Reconciles
<1>6. CASE ~Reconciled(l.r, l.f, balance)
  <2>1. a = Absorb(l.r, l.f, balance) /\ a.r.credit >= 0
    BY <1>3, <1>6
  <2>2. BalanceDelta(l.r, l.f, balance) < 0
    BY <1>2, <1>6, Balances DEF Reconciled
  <2> HIDE DEF a
  <2>3. /\ a.r \in ReserveData /\ a.f \in FeeData
        /\ a.r.bSupply = l.r.bSupply /\ a.r.dSupply = l.r.dSupply
        /\ BalanceDelta(a.r, a.f, balance) \in Nat
        /\ TotalSupply(a.r) < TotalSupply(l.r) => a.f.credit = 0
        /\ a.r.credit < l.r.credit => TotalSupply(a.r) = 0
        /\ Scaled(BalanceDelta(a.r, a.f, balance)) < l.r.bSupply + RateScale
    BY <1>2, <2>1, <2>2, Absorbed
  <2>4. Revalues /\ reserve' = a.r /\ fee' = a.f
    BY <1>3, <1>4, <2>3, RevaluesBy
  <2>5. Reconciles(l)
    BY ONLY <1>6, <2>3, <2>4 DEF Reconciles
  <2> QED BY <2>4, <2>5
<1> QED BY <1>5, <1>6

LEMMA TouchRevalues ==
  ASSUME SharesMatchPositions, Touch
  PROVE  Revalues /\ \E l \in Loaded : reserve' = l.r /\ fee' = l.f
<1>1. PICK l \in Loaded : Store(Work(l)) /\ UNCHANGED <<balance, status, losses, ticks>>
  BY DEF Touch
<1>2. /\ l.r \in ReserveData /\ l.f \in FeeData
      /\ Work(l) \in Works /\ Work(l).r = l.r /\ Work(l).f = l.f
  BY LoadWorks, SoundTyped
<1>3. Work(l) = [Work(l) EXCEPT !.r = l.r, !.f = l.f]
  BY <1>2 DEF Works
<1> QED BY <1>1, <1>2, <1>3, RevaluesBy

LEMMA ExchangesKeepShares ==
  ASSUME SharesMatchPositions, Exchanges, balance' \in Nat, due' = FALSE,
         UNCHANGED <<status, losses, ticks>>
  PROVE  SharesMatchPositions'
<1>1. PICK l \in Loaded : \E w : Moves(Work(l), w) /\ Ends(w)
  BY DEF Exchanges
<1>0. PICK w : Moves(Work(l), w) /\ Ends(w)
  BY <1>1
<1>2. w \in Sound /\ reserve' = w.r /\ fee' = w.f /\ position' = w.pos
  BY <1>0 DEF Moves, Ends
<1>3. Bounds
  BY DEF Bounds, SharesMatchPositions, ReserveTypeOK
<1> QED BY <1>2, <1>3, SharesStored

\* The rest of the steps: a status, a ledger, tokens from outside.
Surroundings ==
  \/ \E s \in Statuses : SetStatus(s)
  \/ Tick
  \/ \E x \in Amounts : Donate(x)
  \/ \E x \in Amounts : LoseCustody(x)

LEMMA SurroundingsSteps ==
  ASSUME SharesMatchPositions, Surroundings
  PROVE  /\ SharesMatchPositions' /\ UNCHANGED <<reserve, fee, position>>
         /\ balance <= balance' \/ losses' # losses
         /\ losses' = losses \/ losses' = losses + 1
<1>1. balance \in Nat /\ losses \in Nat /\ ticks \in Nat
  BY DEF SharesMatchPositions, ReserveTypeOK
<1>2. UNCHANGED <<reserve, fee, position>>
  BY DEF Surroundings, SetStatus, Tick, Donate, LoseCustody
<1> DEFINE P == /\ Bounds
                /\ balance <= balance' \/ losses' # losses
                /\ losses' = losses \/ losses' = losses + 1
<1>3. P
  <2> USE DEF Bounds
  <2>1. ASSUME NEW s \in Statuses, SetStatus(s) PROVE P
    BY <1>1, <2>1, ReserveAssumption DEF SetStatus, SharesMatchPositions, ReserveTypeOK
  <2>2. ASSUME Tick PROVE P
    BY <1>1, <2>2 DEF Tick, SharesMatchPositions, ReserveTypeOK
  <2>3. ASSUME NEW x \in Amounts, Donate(x) PROVE P
    BY <1>1, <2>3, ReserveAssumption DEF Donate, SharesMatchPositions, ReserveTypeOK
  <2>4. ASSUME NEW x \in Amounts, LoseCustody(x) PROVE P
    BY <1>1, <2>4, ReserveAssumption DEF LoseCustody, SharesMatchPositions, ReserveTypeOK
  <2> QED BY <2>1, <2>2, <2>3, <2>4 DEF Surroundings
<1>4. SharesMatchPositions'
  BY <1>2, <1>3 DEF SharesMatchPositions, ReserveTypeOK, Bounds
<1> QED BY <1>2, <1>3, <1>4

LEMMA SharesInit == Init => SharesMatchPositions
<1> SUFFICES ASSUME Init PROVE SharesMatchPositions
  OBVIOUS
<1>1. ReserveTypeOK
  <2>1. RateScale \in Nat /\ 0 \in 0..(RatioScale - 1)
    BY ReserveAssumption
  <2>2. /\ reserve \in [dRate : Nat, bRate : Nat, dSupply : Nat, bSupply : Nat, credit : Nat]
        /\ fee \in [credit : Nat, carry : 0..(RatioScale - 1)]
    BY <2>1 DEF Init
  <2>3. position \in [Holders -> [supply : Nat, collateral : Nat, debt : Nat]]
    BY DEF Init
  <2> QED BY <2>2, <2>3 DEF Init, ReserveTypeOK
<1>2. IsFiniteSet(Holders)
  BY HoldersFinite
<1> DEFINE f == BShares(position)
           g == DShares(position)
<1>3. \A u \in Holders : f[u] = 0 /\ g[u] = 0
  BY DEF Init, BShares, DShares
<1> HIDE DEF f, g
<1>4. SumOn(f, Holders) = 0 /\ SumOn(g, Holders) = 0
  BY <1>2, <1>3, SumZero
<1>5. SumOfHolders(f) = 0 /\ SumOfHolders(g) = 0
  BY <1>4, SumIs
<1>6. reserve.bSupply = 0 /\ reserve.dSupply = 0
  BY DEF Init
<1> QED BY <1>1, <1>5, <1>6 DEF SharesMatchPositions, f, g

LEMMA SharesStep == SharesMatchPositions /\ [Next]_vars => SharesMatchPositions'
<1> SUFFICES ASSUME SharesMatchPositions, [Next]_vars PROVE SharesMatchPositions'
  OBVIOUS
<1>1. ASSUME NEW u \in Users, NEW requests \in Batches, Submit(u, requests)
      PROVE  SharesMatchPositions'
  BY <1>1, SubmitExchanges, ExchangesKeepShares
<1>2. ASSUME NEW u \in Users, BadDebt(u) PROVE SharesMatchPositions'
  <2>1. balance' \in Nat
    BY <1>2, BadDebtExchanges DEF SharesMatchPositions, ReserveTypeOK
  <2> QED BY <1>2, <2>1, BadDebtExchanges, ExchangesKeepShares
<1>3. ASSUME DefaultBackstop PROVE SharesMatchPositions'
  BY <1>3, DefaultStored
<1>4. ASSUME NEW u \in Users, ForceWithdrawal(u) PROVE SharesMatchPositions'
  BY <1>4, ForceWithdrawalExchanges, ExchangesKeepShares
<1>5. ASSUME NEW u \in Users, NEW x \in Amounts, Clawback(u, x) PROVE SharesMatchPositions'
  BY <1>5, ClawbackExchanges, ExchangesKeepShares
<1>6. ASSUME Gulp PROVE SharesMatchPositions'
  BY <1>6, GulpRevalues DEF Revalues
<1>7. ASSUME ReconcileLoss PROVE SharesMatchPositions'
  BY <1>7, ReconcileRevalues DEF Revalues
<1>8. ASSUME Touch PROVE SharesMatchPositions'
  BY <1>8, TouchRevalues DEF Revalues
<1>9. ASSUME Surroundings PROVE SharesMatchPositions'
  BY <1>9, SurroundingsSteps
<1>10. ASSUME UNCHANGED vars PROVE SharesMatchPositions'
  BY <1>10 DEF vars, SharesMatchPositions, ReserveTypeOK
<1> QED BY <1>1, <1>2, <1>3, <1>4, <1>5, <1>6, <1>7, <1>8, <1>9, <1>10 DEF Next, Surroundings

\* The bTokens and dTokens of the accounts, the backstop among them, always add up
\* to the supplies of the reserve, and no rate, supply or credit goes below zero,
\* whatever batches of requests, hand-offs, defaults, exits and losses the pool
\* goes through (submit.rs, user.rs, bad_debt.rs, permissioned.rs, gulp.rs).
THEOREM SharesAlwaysMatchPositions == Spec => []SharesMatchPositions
<1>1. Init => SharesMatchPositions
  BY SharesInit
<1>2. SharesMatchPositions /\ [Next]_vars => SharesMatchPositions'
  BY SharesStep
<1> QED BY <1>1, <1>2, PTL DEF Spec

------------------------------------------------------------------------------
(* Shortfalls *)

LEMMA ShortfallIs ==
  ASSUME SharesMatchPositions
  PROVE  /\ reserve \in ReserveData /\ fee \in FeeData /\ balance \in Int
         /\ BalanceDelta(reserve, fee, balance) \in Int
         /\ Shortfall = IF BalanceDelta(reserve, fee, balance) >= 0 THEN 0
                        ELSE 0 - BalanceDelta(reserve, fee, balance)
<1>1. reserve \in ReserveData /\ fee \in FeeData /\ balance \in Int
  BY DEF SharesMatchPositions, ReserveTypeOK, ReserveData, FeeData
<1> DEFINE x == BalanceDelta(reserve, fee, balance)
<1>2. x \in Int
  BY <1>1, Balances
<1> HIDE DEF x
<1>3. Max({0 - x, 0}) = IF x >= 0 THEN 0 ELSE 0 - x
  BY <1>2, MaxOfTwo
<1> QED BY <1>1, <1>2, <1>3 DEF Shortfall, x

LEMMA ShortfallAfter ==
  ASSUME SharesMatchPositions'
  PROVE  /\ reserve' \in ReserveData /\ fee' \in FeeData /\ balance' \in Int
         /\ BalanceDelta(reserve', fee', balance') \in Int
         /\ Shortfall' = IF BalanceDelta(reserve', fee', balance') >= 0 THEN 0
                         ELSE 0 - BalanceDelta(reserve', fee', balance')
<1>1. reserve' \in ReserveData /\ fee' \in FeeData /\ balance' \in Int
  BY DEF SharesMatchPositions, ReserveTypeOK, ReserveData, FeeData
<1> DEFINE x == BalanceDelta(reserve', fee', balance')
<1>2. x \in Int
  BY <1>1, Balances
<1>3. Shortfall' = Max({0 - x, 0})
  BY DEF Shortfall
<1> HIDE DEF x
<1>4. Max({0 - x, 0}) = IF x >= 0 THEN 0 ELSE 0 - x
  BY <1>2, MaxOfTwo
<1> QED BY <1>1, <1>2, <1>3, <1>4 DEF x

\* Loading never uncovers anything.
LEMMA LoadsCover ==
  ASSUME SharesMatchPositions, NEW l \in Loaded
  PROVE  BalanceDelta(reserve, fee, balance) <= BalanceDelta(l.r, l.f, balance)
         /\ BalanceDelta(l.r, l.f, balance) \in Int
<1>1. /\ AccountingBalance(l.r, l.f) <= AccountingBalance(reserve, fee)
      /\ l.r \in ReserveData /\ l.f \in FeeData /\ balance \in Nat
      /\ reserve \in ReserveData /\ fee \in FeeData
  BY LoadWorks, ShortfallIs DEF Loads
<1>2. AccountingBalance(l.r, l.f) \in Int /\ AccountingBalance(reserve, fee) \in Int
  BY <1>1, Balances
<1> QED BY <1>1, <1>2 DEF BalanceDelta

\* The gap between the balance and what it must cover does not widen.
LEMMA ExchangesCover ==
  ASSUME SharesMatchPositions, Exchanges
  PROVE  BalanceDelta(reserve, fee, balance) <= BalanceDelta(reserve', fee', balance')
<1>1. PICK l \in Loaded : \E w : Moves(Work(l), w) /\ Ends(w)
  BY DEF Exchanges
<1>0. PICK w : Moves(Work(l), w) /\ Ends(w)
  BY <1>1
<1>2. /\ Settled(Work(l)) = balance /\ Work(l).r = l.r /\ Work(l).f = l.f
      /\ w \in Sound /\ Work(l) \in Sound
  BY <1>0, LoadWorks DEF Moves
<1>3. BalanceDelta(l.r, l.f, balance) <= BalanceDelta(w.r, w.f, Settled(w))
  <2>1. BalanceDelta(Work(l).r, Work(l).f, Settled(Work(l)))
          <= BalanceDelta(w.r, w.f, Settled(w))
    BY <1>0, MovesKeepBalance
  <2> QED BY <1>2, <2>1
<1>4. BalanceDelta(reserve, fee, balance) <= BalanceDelta(l.r, l.f, balance)
      /\ BalanceDelta(l.r, l.f, balance) \in Int /\ BalanceDelta(reserve, fee, balance) \in Int
  BY LoadsCover, ShortfallIs
<1>5. BalanceDelta(w.r, w.f, Settled(w)) \in Int
  <2>1. w.r \in ReserveData /\ w.f \in FeeData /\ Settled(w) \in Int
    BY <1>2, SoundTyped DEF Settled
  <2> QED BY <2>1, Balances
<1>6. BalanceDelta(reserve', fee', balance') = BalanceDelta(w.r, w.f, Settled(w))
  BY <1>0 DEF Ends
<1> QED BY <1>3, <1>4, <1>5, <1>6

\* One step: the gap does not widen, or tokens were lost, or the backstop defaulted;
\* and whoever is paid leaves none.
LEMMA ShortfallStep ==
  ASSUME SharesMatchPositions, [Next]_vars
  PROVE  /\ Shortfall' <= Shortfall \/ losses' # losses \/ DefaultBackstop
         /\ balance' < balance => losses' # losses \/ Shortfall' = 0
<1> DEFINE x == BalanceDelta(reserve, fee, balance)
           y == BalanceDelta(reserve', fee', balance')
           P == /\ x <= y \/ y >= 0 \/ losses' # losses \/ DefaultBackstop
                /\ y < 0 => balance' >= balance \/ losses' # losses
<1>1. /\ x \in Int /\ Shortfall = (IF x >= 0 THEN 0 ELSE 0 - x)
      /\ balance \in Int
  BY ShortfallIs
<1>2. y \in Int /\ Shortfall' = (IF y >= 0 THEN 0 ELSE 0 - y) /\ balance' \in Int
  BY SharesStep, ShortfallAfter
<1>3. SUFFICES P
  <2> HIDE DEF x, y
  <2>1. x <= y \/ y >= 0 => Shortfall' <= Shortfall
    BY <1>1, <1>2
  <2>2. y >= 0 => Shortfall' = 0
    BY <1>1, <1>2
  <2> QED BY <1>1, <1>2, <2>1, <2>2
<1>4. ASSUME NEW u \in Users, NEW requests \in Batches, Submit(u, requests) PROVE P
  <2>1. y >= 0
    BY <1>4, SubmitExchanges
  <2> HIDE DEF x, y
  <2> QED BY <1>2, <2>1
<1>5. ASSUME NEW u \in Users, BadDebt(u) PROVE P
  <2>1. Exchanges /\ balance' = balance
    BY <1>5, BadDebtExchanges
  <2>2. x <= y
    BY <2>1, ExchangesCover
  <2> HIDE DEF x, y
  <2> QED BY <1>1, <2>1, <2>2
<1>6. ASSUME DefaultBackstop PROVE P
  BY <1>1, <1>6, DefaultStored
<1>7. ASSUME NEW u \in Users, ForceWithdrawal(u) PROVE P
  <2>1. y >= 0
    BY <1>7, ForceWithdrawalExchanges
  <2> HIDE DEF x, y
  <2> QED BY <1>2, <2>1
<1>8. ASSUME NEW u \in Users, NEW z \in Amounts, Clawback(u, z) PROVE P
  <2>1. y >= 0
    BY <1>8, ClawbackExchanges
  <2> HIDE DEF x, y
  <2> QED BY <1>2, <2>1
<1>10. ASSUME Gulp PROVE P
  <2>1. y = 0 /\ balance' = balance
    BY <1>10, GulpRevalues DEF Revalues
  <2> QED BY <1>1, <2>1
<1>11. ASSUME ReconcileLoss PROVE P
  <2>1. PICK l \in Loaded : Reconciles(l)
    BY <1>11, ReconcileRevalues
  <2>2. balance' = balance
    BY <1>11, ReconcileRevalues DEF Revalues
  <2>3. y >= 0
    <3>1. CASE Reconciled(l.r, l.f, balance)
      BY <2>1, <2>2, <3>1 DEF Reconciles, Reconciled
    <3>2. CASE ~Reconciled(l.r, l.f, balance)
      BY <2>1, <2>2, <3>2 DEF Reconciles
    <3> QED BY <3>1, <3>2
  <2> QED BY <1>1, <1>2, <2>2, <2>3
<1>12. ASSUME Touch PROVE P
  <2>1. PICK l \in Loaded : reserve' = l.r /\ fee' = l.f
    BY <1>12, TouchRevalues
  <2>2. balance' = balance
    BY <1>12, TouchRevalues DEF Revalues
  <2>3. x <= y
    BY <2>1, <2>2, LoadsCover
  <2> QED BY <1>1, <1>2, <2>2, <2>3
<1>13. ASSUME Surroundings PROVE P
  <2>1. /\ UNCHANGED <<reserve, fee, position>> /\ (balance <= balance' \/ losses' # losses)
    BY <1>13, SurroundingsSteps
  <2>2. /\ x = balance - AccountingBalance(reserve, fee)
        /\ y = balance' - AccountingBalance(reserve, fee)
    BY <2>1 DEF BalanceDelta
  <2>3. AccountingBalance(reserve, fee) \in Int
    BY ShortfallIs, Balances
  <2> HIDE DEF x, y
  <2> QED BY <1>1, <1>2, <2>1, <2>2, <2>3
<1>14. ASSUME UNCHANGED vars PROVE P
  <2>1. x = y /\ balance' = balance
    BY <1>14 DEF vars
  <2> QED BY <1>1, <2>1
<1> QED BY <1>4, <1>5, <1>6, <1>7, <1>8, <1>10, <1>11, <1>12, <1>13, <1>14 DEF Next, Surroundings

\* Interest, fees, batches, hand-offs, exits, gulps and reconciliations never widen
\* the gap between the balance and what it must cover: only tokens taken from the
\* pool directly, or the backstop's default, do (reserve.rs, actions.rs, gulp.rs).
THEOREM ShortfallsComeFromLosses == Spec => OnlyLossesOpenAShortfall
<1>1. Spec => []SharesMatchPositions
  BY SharesAlwaysMatchPositions
<1>2. SharesMatchPositions /\ [Next]_vars =>
        [Shortfall' <= Shortfall \/ losses' # losses \/ DefaultBackstop]_vars
  BY ShortfallStep
<1> QED BY <1>1, <1>2, PTL DEF Spec, OnlyLossesOpenAShortfall

\* Whoever is paid out of the pool leaves a balance that covers everything still
\* owed, at any rates, after any interest (submit.rs, clawback.rs, permissioned.rs).
THEOREM PaymentsLeaveNoShortfall == Spec => NobodyLeavesAShortfall
<1>1. Spec => []SharesMatchPositions
  BY SharesAlwaysMatchPositions
<1>2. SharesMatchPositions /\ [Next]_vars =>
        [balance' < balance => losses' # losses \/ Shortfall' = 0]_vars
  BY ShortfallStep
<1> QED BY <1>1, <1>2, PTL DEF Spec, NobodyLeavesAShortfall

LEMMA LossStep ==
  ASSUME SharesMatchPositions, ReconcileLoss, ~due
  PROVE  /\ Shortfall' = 0
         /\ TotalSupply(reserve') < TotalSupply(reserve) => fee'.credit = 0
         /\ reserve'.credit < reserve.credit => TotalSupply(reserve') = 0
         /\ Shortfall > 0 =>
              BalanceDelta(reserve', fee', balance') * RateScale < reserve.bSupply + RateScale
<1>1. PICK l \in Loaded : Reconciles(l)
  BY ReconcileRevalues
<1>2. l.r = reserve /\ l.f = fee
  BY LoadWorks DEF Loads
<1>3. balance' = balance /\ SharesMatchPositions'
  BY ReconcileRevalues DEF Revalues
<1>4. /\ BalanceDelta(reserve, fee, balance) \in Int
      /\ Shortfall = IF BalanceDelta(reserve, fee, balance) >= 0 THEN 0
                     ELSE 0 - BalanceDelta(reserve, fee, balance)
      /\ reserve \in ReserveData /\ fee \in FeeData
  BY ShortfallIs
<1>5. Shortfall' = IF BalanceDelta(reserve', fee', balance') >= 0 THEN 0
                   ELSE 0 - BalanceDelta(reserve', fee', balance')
  BY <1>3, ShortfallAfter
<1>6. CASE Reconciled(reserve, fee, balance)
  <2>1. reserve' = reserve /\ fee' = fee /\ BalanceDelta(reserve, fee, balance) >= 0
    BY <1>1, <1>2, <1>6 DEF Reconciles, Reconciled
  <2>2. Shortfall' = 0 /\ Shortfall = 0
    BY <1>3, <1>4, <1>5, <2>1
  <2>3. TotalSupply(reserve) \in Nat /\ reserve.credit \in Nat
    BY <1>4, Balances DEF ReserveData
  <2> QED BY <2>1, <2>2, <2>3
<1>7. CASE ~Reconciled(reserve, fee, balance)
  <2>1. /\ BalanceDelta(reserve', fee', balance) \in Nat
        /\ TotalSupply(reserve') < TotalSupply(reserve) => fee'.credit = 0
        /\ reserve'.credit < reserve.credit => TotalSupply(reserve') = 0
        /\ Scaled(BalanceDelta(reserve', fee', balance)) < reserve.bSupply + RateScale
    BY <1>1, <1>2, <1>7 DEF Reconciles
  <2> QED BY <1>3, <1>5, <2>1 DEF Scaled
<1> QED BY <1>6, <1>7

\* reconcile_loss removes the whole shortfall and, but for the rounding of the rate,
\* no more; suppliers lose only what the fee credit could not pay, and the take-rate
\* credit only what the suppliers could not (gulp.rs).
THEOREM LossesAreAbsorbedInOrder == Spec => LossIsAbsorbedInOrder
<1>1. Spec => []SharesMatchPositions
  BY SharesAlwaysMatchPositions
<1>2. SharesMatchPositions /\ [Next]_vars =>
        [ReconcileLoss /\ ~due =>
           /\ Shortfall' = 0
           /\ TotalSupply(reserve') < TotalSupply(reserve) => fee'.credit = 0
           /\ reserve'.credit < reserve.credit => TotalSupply(reserve') = 0
           /\ Shortfall > 0 =>
                BalanceDelta(reserve', fee', balance') * RateScale
                  < reserve.bSupply + RateScale]_vars
  BY LossStep
<1> QED BY <1>1, <1>2, PTL DEF Spec, LossIsAbsorbedInOrder

------------------------------------------------------------------------------
(* Rounding costs the user *)

\* Between two sound states, when one account changed.
LEMMA OneChange ==
  ASSUME SharesMatchPositions, SharesMatchPositions', NEW u \in Users,
         \A v \in Holders \ {u} : position'[v] = position[v]
  PROVE  /\ reserve'.bSupply - reserve.bSupply
              = (position'[u].supply + position'[u].collateral)
                  - (position[u].supply + position[u].collateral)
         /\ reserve.dSupply - reserve'.dSupply = position[u].debt - position'[u].debt
<1> DEFINE p == position
           q == position'
           a == position'[u]
<1>1. p \in Accounts /\ q \in Accounts /\ u \in Holders
  BY HoldersFinite DEF SharesMatchPositions, ReserveTypeOK, Accounts, Account
<1>2. a \in Account /\ p[u] \in Account
  BY <1>1 DEF Accounts
<1>3. q = [p EXCEPT ![u] = a]
  BY <1>1 DEF Accounts
<1>4. /\ reserve.bSupply = SumOfHolders(BShares(p))
      /\ reserve.dSupply = SumOfHolders(DShares(p))
      /\ reserve'.bSupply = SumOfHolders(BShares(q))
      /\ reserve'.dSupply = SumOfHolders(DShares(q))
  BY DEF SharesMatchPositions
<1> HIDE DEF p, q, a
<1>5. /\ SumOfHolders(BShares(q)) = SumOfHolders(BShares(p))
           + (a.supply + a.collateral) - (p[u].supply + p[u].collateral)
      /\ SumOfHolders(DShares(q)) = SumOfHolders(DShares(p)) + a.debt - p[u].debt
      /\ SumOfHolders(BShares(p)) \in Nat /\ SumOfHolders(DShares(p)) \in Nat
  BY ONLY <1>1, <1>2, <1>3, OneAccount
<1>6. /\ a.supply \in Nat /\ a.collateral \in Nat /\ a.debt \in Nat
      /\ p[u].supply \in Nat /\ p[u].collateral \in Nat /\ p[u].debt \in Nat
  BY <1>2 DEF Account
<1>7. /\ reserve'.bSupply - reserve.bSupply
           = (a.supply + a.collateral) - (p[u].supply + p[u].collateral)
      /\ reserve.dSupply - reserve'.dSupply = p[u].debt - a.debt
  BY ONLY <1>4, <1>5, <1>6
<1> QED BY <1>7 DEF a, p

LEMMA ExchangesCost ==
  ASSUME SharesMatchPositions, SharesMatchPositions', Exchanges, NEW u \in Users,
         \A v \in Holders \ {u} : position'[v] = position[v],
         reserve'.bRate = reserve.bRate, reserve'.dRate = reserve.dRate,
         reserve'.credit = reserve.credit, fee' = fee
  PROVE  balance - balance' <= Worth(u) - Worth(u)'
<1>1. PICK l \in Loaded : \E w : Moves(Work(l), w) /\ Ends(w)
  BY DEF Exchanges
<1>0. PICK w : Moves(Work(l), w) /\ Ends(w)
  BY <1>1
<1> DEFINE v == Work(l)
<1>2. /\ v \in Sound /\ v.r = l.r /\ v.f = l.f /\ Settled(v) = balance /\ Loads(l)
      /\ w \in Sound /\ w.r.bRate = v.r.bRate /\ w.r.dRate = v.r.dRate
      /\ reserve' = w.r /\ fee' = w.f /\ balance' = Settled(w)
  BY <1>0, LoadWorks DEF Moves, Ends
<1>3. Moves(v, w)
  BY <1>0
<1> HIDE DEF v
<1>4. l.r = reserve /\ l.f = fee
  BY <1>2 DEF Loads
<1>5. PICK p \in Int, q \in Int :
        /\ Net(w) = Net(v) + p + q
        /\ v.r.bRate * (w.r.bSupply - v.r.bSupply) <= Scaled(p)
        /\ v.r.dRate * (v.r.dSupply - w.r.dSupply) <= Scaled(q)
  BY <1>3 DEF Moves
<1> DEFINE R == reserve.bRate
           D == reserve.dRate
           b == position[u].supply + position[u].collateral
           b2 == position'[u].supply + position'[u].collateral
           d == position[u].debt
           d2 == position'[u].debt
<1>6. R \in Nat /\ D \in Nat /\ b \in Nat /\ b2 \in Nat /\ d \in Nat /\ d2 \in Nat
  <2>1. /\ reserve \in ReserveData /\ position[u] \in Account /\ position'[u] \in Account
    BY HoldersFinite DEF SharesMatchPositions, ReserveTypeOK, ReserveData, Account
  <2> QED BY <2>1 DEF ReserveData, Account
<1>7. R * (b2 - b) <= Scaled(p) /\ D * (d - d2) <= Scaled(q)
  BY <1>2, <1>4, <1>5, OneChange
<1>8. balance' - balance = p + q /\ balance \in Int /\ balance' \in Int
  <2>1. /\ Net(v) = Settled(v) - reserve.credit - fee.credit
        /\ Net(w) = Settled(w) - reserve.credit - fee.credit
    <3>1. /\ v.r.credit = reserve.credit /\ v.f.credit = fee.credit
          /\ w.r.credit = reserve.credit /\ w.f.credit = fee.credit
      BY <1>2, <1>4
    <3>2. /\ v.bal \in Int /\ v.in \in Int /\ v.out \in Int
          /\ w.bal \in Int /\ w.in \in Int /\ w.out \in Int
          /\ reserve.credit \in Int /\ fee.credit \in Int
      BY <1>2, <3>1, SoundTyped
    <3> QED BY ONLY <3>1, <3>2 DEF Net, Settled
  <2>2. reserve.credit \in Int /\ fee.credit \in Int /\ Settled(v) \in Int /\ Settled(w) \in Int
    BY <1>2, <1>4, SoundTyped DEF Settled
  <2>3. balance = Settled(v) /\ balance' = Settled(w) /\ Net(w) = Net(v) + p + q
    BY <1>2, <1>5
  <2> QED BY ONLY <2>1, <2>2, <2>3, p \in Int, q \in Int
<1>9. Worth(u) = MulFloor(b, R, RateScale) - MulCeil(d, D, RateScale)
  BY DEF Worth, AssetOfB, AssetOfD
<1>10. Worth(u)' = MulFloor(b2, R, RateScale) - MulCeil(d2, D, RateScale)
  BY DEF Worth, AssetOfB, AssetOfD
<1> HIDE DEF b, b2, d, d2, R, D
<1>11. MulFloor(b2, R, RateScale) <= MulFloor(b, R, RateScale) + p
  BY <1>6, <1>7, FloorFollows
<1>12. MulCeil(d, D, RateScale) <= MulCeil(d2, D, RateScale) + q
  BY <1>6, <1>7, CeilFollows
<1>13. /\ MulFloor(b2, R, RateScale) \in Nat /\ MulFloor(b, R, RateScale) \in Nat
       /\ MulCeil(d, D, RateScale) \in Nat /\ MulCeil(d2, D, RateScale) \in Nat
  BY <1>6, WorthDown, WorthUp
<1> DEFINE before == Worth(u)
           after == Worth(u)'
           held == MulFloor(b, R, RateScale)
           holds == MulFloor(b2, R, RateScale)
           owed == MulCeil(d, D, RateScale)
           owes == MulCeil(d2, D, RateScale)
<1>14. before = held - owed /\ after = holds - owes
  BY <1>9, <1>10
<1>15. /\ holds <= held + p /\ owed <= owes + q
       /\ held \in Int /\ holds \in Int /\ owed \in Int /\ owes \in Int
  BY <1>11, <1>12, <1>13
<1> HIDE DEF before, after, held, holds, owed, owes
<1>16. before - after = (held - holds) - (owed - owes) /\ before \in Int /\ after \in Int
  BY ONLY <1>14, <1>15
<1>17. balance - balance' = 0 - (p + q)
  <2>1. \A m, n \in Int : n - m = p + q => m - n = 0 - (p + q)
    OBVIOUS
  <2>2. balance \in Int /\ balance' \in Int
    BY <1>8
  <2>3. balance' - balance = p + q
    BY <1>8
  <2> QED BY ONLY <2>1, <2>2, <2>3
<1>18. 0 - (p + q) <= (held - holds) - (owed - owes)
  BY ONLY <1>15, p \in Int, q \in Int
<1>19. balance - balance' <= before - after
  BY ONLY <1>16, <1>17, <1>18
<1> QED BY <1>19 DEF before, after

LEMMA GainStep ==
  ASSUME SharesMatchPositions, [Next]_vars, NEW u \in Users,
         position'[u] # position[u],
         \A v \in Holders \ {u} : position'[v] = position[v],
         reserve'.bRate = reserve.bRate, reserve'.dRate = reserve.dRate,
         reserve'.credit = reserve.credit, fee' = fee
  PROVE  balance - balance' <= Worth(u) - Worth(u)'
<1>1. SharesMatchPositions'
  BY SharesStep
<1>2. Exchanges => balance - balance' <= Worth(u) - Worth(u)'
  BY <1>1, ExchangesCost
<1>3. SUFFICES Exchanges
  BY <1>2
<1>4. ASSUME NEW x \in Users, NEW requests \in Batches, Submit(x, requests) PROVE Exchanges
  BY <1>4, SubmitExchanges
<1>5. ASSUME NEW x \in Users, BadDebt(x) PROVE Exchanges
  BY <1>5, BadDebtExchanges
<1>6. ASSUME NEW x \in Users, ForceWithdrawal(x) PROVE Exchanges
  BY <1>6, ForceWithdrawalExchanges
<1>7. ASSUME NEW x \in Users, NEW z \in Amounts, Clawback(x, z) PROVE Exchanges
  BY <1>7, ClawbackExchanges
<1>8. ~DefaultBackstop
  BY DefaultStored
<1>9. ~Gulp /\ ~ReconcileLoss /\ ~Touch
  BY GulpRevalues, ReconcileRevalues, TouchRevalues DEF Revalues
<1>10. ~Surroundings
  BY SurroundingsSteps
<1>11. ~UNCHANGED vars
  BY DEF vars
<1> QED BY <1>4, <1>5, <1>6, <1>7, <1>8, <1>9, <1>10, <1>11 DEF Next, Surroundings

\* No batch of requests and no forced exit pays a user more than what the position
\* loses in worth at unchanged rates: every conversion between tokens and shares,
\* both ways and however the requests are combined, rounds against the user
\* (actions.rs, reserve.rs).
THEOREM RoundingCostsTheUser == Spec => NobodyGainsByRounding
<1>1. Spec => []SharesMatchPositions
  BY SharesAlwaysMatchPositions
<1>2. SharesMatchPositions /\ [Next]_vars =>
        [\A u \in Users :
           /\ position'[u] # position[u]
           /\ \A v \in Holders \ {u} : position'[v] = position[v]
           /\ reserve'.bRate = reserve.bRate /\ reserve'.dRate = reserve.dRate
           /\ reserve'.credit = reserve.credit /\ fee' = fee
           => balance - balance' <= Worth(u) - Worth(u)']_vars
  BY GainStep
<1> QED BY <1>1, <1>2, PTL DEF Spec, NobodyGainsByRounding

================================================================================
