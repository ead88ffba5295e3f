--------------------------- MODULE LiquidationAuction ---------------------------
(***************************************************************************)
(* The liquidation of one account of a pool: an unhealthy owner's bTokens  *)
(* are auctioned for the assumption of its debt, at a price that improves  *)
(* with every ledger; an owner who lost the permission to borrow can be    *)
(* forced out the same way (pool/src/auctions/user_liquidation_auction.rs, *)
(* auction.rs, and what submit, bad_debt, clawback, and force_withdrawal   *)
(* do to the owner meanwhile).                                             *)
(*                                                                         *)
(* Shares are counted in their underlying: d_rate is one and b_rate one,   *)
(* or zero once a default has consumed the reserve.  Fillers are other     *)
(* accounts, whose own health decides whether they may fill.               *)
(***************************************************************************)
EXTENDS AuctionCurve, FiniteSets, FiniteSetsExt, Functions

CONSTANTS
  Reserves,      \* the reserves of the pool
  Scale,         \* one, for ratios and oracle prices
  Unit,          \* reserve.scalar: one whole token
  LFactor,       \* LFactor[r]: liability factor, over Scale
  CFactors,      \* values c_factor takes, over Scale
  Prices,        \* values a price takes, over Scale
  MaxPositions,  \* max_positions of the pool
  MinCollateral, \* min_collateral of the pool
  StaleLedgers,  \* AUCTION_STALE_LEDGERS, 500
  Owners,        \* bound: the positions [collateral, debt] the owner starts with
  Quoted,        \* bound: percentages somebody asks to liquidate, of 1..100
  Fills,         \* bound: percentages somebody fills
  Amounts,       \* bound: amounts the owner or an asset administrator names
  MaxOutside     \* bound: fills, and acts of the owner and of the environment

ASSUME LiquidationAssumption ==
  /\ Whole = 100
  /\ Scale \in Nat /\ Scale >= 100 /\ Scale % 100 = 0 /\ Unit \in Nat \ {0}
  /\ IsFiniteSet(Reserves) /\ LFactor \in [Reserves -> 1..Scale]
  /\ CFactors \subseteq 0..Scale /\ CFactors # {} /\ Prices \subseteq Nat \ {0}
  /\ MaxPositions \in Nat /\ MinCollateral \in Nat
  /\ StaleLedgers \in Nat /\ StaleLedgers > 2 * Ramp
  /\ \A o \in Owners : o.collateral \in [Reserves -> Nat] /\ o.debt \in [Reserves -> Nat]
  /\ Quoted \subseteq Percents /\ Fills \subseteq Percents
  /\ Amounts \subseteq Nat \ {0} /\ MaxOutside \in Nat

VARIABLES
  supply,      \* supply[r]: bTokens of the owner that secure nothing
  collateral,  \* collateral[r]: bTokens that secure the owner's debt
  debt,        \* debt[r]: dTokens the owner owes
  auction,     \* the user-liquidation auction under the owner's key, or NoAuction
  barred,      \* the controller has revoked RESERVE_BORROW_ALLOWED
  frozen,      \* the pool status is above 1: no borrowing, no cancelled auctions
  price,       \* price[r]: the oracle's price
  cFactor,     \* cFactor[r]: collateral factor of the reserve
  ruined,      \* reserves whose b_rate a default has reduced to zero
  blocked,     \* reserves whose token has deauthorized the pool
  outside      \* bound: the acts of others than the cleanups so far

position == <<supply, collateral, debt>>
market == <<price, cFactor, ruined, blocked>>
liquidationVars == <<position, auction, barred, frozen, market, outside>>

None == [r \in Reserves |-> 0]

NoAuction == [kind |-> "none", bid |-> None, lot |-> None, age |-> 0]

Live == auction.kind # "none"

Total(f) == FoldFunction(+, 0, f)

Holds(f) == {r \in Reserves : f[r] > 0}

LiquidationInit ==
  /\ supply = None
  /\ \E o \in Owners : collateral = o.collateral /\ debt = o.debt
  /\ auction = NoAuction
  /\ barred = FALSE /\ frozen = FALSE
  /\ price \in [Reserves -> Prices]
  /\ cFactor = [r \in Reserves |-> Max(CFactors)]
  /\ ruined = {} /\ blocked = {}
  /\ outside = 0

------------------------------------------------------------------------------
(* PositionData: the value of positions, rounded against their owner *)

\* to_asset_from_b_token
Asset(r, b) == IF r \in ruined THEN 0 ELSE b

\* calculate_from_positions: raw values, and base values weighted by the factors.
Data(c, d) ==
  [rawIn   |-> Total([r \in Reserves |-> DivDown(price[r], Asset(r, c[r]), Unit)]),
   baseIn  |-> Total([r \in Reserves |->
                 IF r \in blocked THEN 0
                 ELSE DivDown(price[r], DivDown(Asset(r, c[r]), cFactor[r], Scale), Unit)]),
   rawOut  |-> Total([r \in Reserves |-> DivUp(price[r], d[r], Unit)]),
   baseOut |-> Total([r \in Reserves |->
                 DivUp(price[r], DivUp(d[r], Scale, LFactor[r]), Unit)])]

HealthFactor(data) == DivDown(data.baseIn, Scale, data.baseOut)

Percent(p) == (p * Scale) \div 100

HealthOver(data, p) == data.baseOut = 0 \/ HealthFactor(data) > Percent(p)

HealthUnder(data, p) == data.baseOut # 0 /\ HealthFactor(data) < Percent(p)

Unhealthy(data) == data.baseOut > data.baseIn

\* What a submission requires; the code's 1.00001 is one at this Scale.
MayLeave(c, d) ==
  Holds(d) # {} =>
    ~HealthUnder(Data(c, d), 100) /\ Data(c, d).baseIn >= MinCollateral

------------------------------------------------------------------------------
(* Quotes *)

Only(f, S) == [r \in Reserves |-> IF r \in S THEN f[r] ELSE 0]

\* One and half of the gap that the factors leave between debt and collateral.
Incentive(data) ==
  LET cf == DivDown(data.baseIn, Scale, data.rawIn)
      lf == DivDown(data.baseOut, Scale, data.rawOut)
  IN Scale + DivUp(Scale - DivUp(cf, Scale, lf), Scale, 2 * Scale)

\* Part of f, in 1/Scale, rounded up per reserve.
Part(f, part) == [r \in Reserves |-> DivUp(f[r], part, Scale)]

Less(f, g) == [r \in Reserves |-> f[r] - g[r]]

\* What a liquidation of pct sells of the included positions.
Quote(lots, bids, pct) ==
  LET c == Only(collateral, lots)
      d == Only(debt, bids)
      data == Data(c, d)
      withdrawn == DivDown(DivDown(data.rawOut, Percent(pct), Scale), Incentive(data), Scale)
      wanted == DivUp(withdrawn, Scale, data.rawIn)
      part == IF wanted > Scale THEN Scale ELSE wanted
  IN [lot |-> Part(c, part), bid |-> Part(d, Percent(pct)),
      withdrawn |-> withdrawn, short |-> wanted > Scale]

\* Changed: a full liquidation is accepted whatever the owner would keep.
FullAcceptedUnchecked(q, after, whole) == TRUE

\* Changed: a full liquidation must restore health as a partial one does.
FullAcceptedHealing(q, after, whole) == ~HealthOver(after, 115) /\ ~HealthUnder(after, 103)

\* A full liquidation is too large if the owner could have kept enough.
FullAccepted(q, after, whole) == ~(q.withdrawn < whole.rawIn /\ HealthOver(after, 115))

\* A partial one must leave the owner between 1.03 and 1.15.
PartAccepted(after) == ~HealthOver(after, 115) /\ ~HealthUnder(after, 103)

\* Above 95 percent of everything is everything, checked at 95 percent.
CheckedPercent(full, pct) == IF full THEN 95 ELSE pct

\* create_user_liq_auction_data accepts the liquidation of pct of these positions.
Accepts(lots, bids, pct) ==
  LET whole == Data(collateral, debt)
      included == Data(Only(collateral, lots), Only(debt, bids))
      allIn == included.rawIn = whole.rawIn
      full == allIn /\ included.rawOut = whole.rawOut /\ pct > 95
      q == Quote(lots, bids, CheckedPercent(full, pct))
      after == Data(Less(collateral, q.lot), Less(debt, q.bid))
  IN /\ Cardinality(lots) + Cardinality(bids) <= MaxPositions
     /\ Unhealthy(whole)
     /\ bids # {} /\ bids \subseteq Holds(debt)
     /\ lots # {} /\ lots \subseteq Holds(collateral)
     /\ included.rawIn > 0 /\ included.baseOut > 0
     /\ q.short => allIn
     /\ IF full THEN FullAccepted(q, after, whole) ELSE PartAccepted(after)

\* The auction that is stored for it.
Offer(lots, bids, pct) ==
  LET full == /\ Data(Only(collateral, lots), None).rawIn = Data(collateral, None).rawIn
              /\ Data(None, Only(debt, bids)).rawOut = Data(None, debt).rawOut
              /\ pct > 95
      q == Quote(lots, bids, pct)
  IN [kind |-> "liquidation", age |-> 0,
      lot |-> IF full THEN Only(collateral, lots) ELSE q.lot,
      bid |-> IF full THEN Only(debt, bids) ELSE q.bid]

\* create_borrower_exit_auction_data: all debt, and as much of all collateral.
ExitOffer ==
  LET data == Data(collateral, debt)
      wanted == DivUp(DivDown(data.rawOut, Incentive(data), Scale), Scale, data.rawIn)
      part == IF wanted > Scale THEN Scale ELSE wanted
  IN [kind |-> "exit", age |-> 0, lot |-> Part(collateral, part), bid |-> debt]

------------------------------------------------------------------------------
(* The auction *)

Act == outside < MaxOutside /\ outside' = outside + 1

\* new_auction(0, owner, bid, lot, pct), by anyone.
Create(lots, bids, pct) ==
  /\ ~Live
  /\ Accepts(lots, bids, pct)
  /\ auction' = Offer(lots, bids, pct)
  /\ UNCHANGED <<position, barred, frozen, market, outside>>

\* new_forced_exit_auction(owner), by anyone.
CreateExit ==
  /\ barred
  /\ ~Live
  /\ Cardinality(Holds(debt)) + Cardinality(Holds(collateral)) <= MaxPositions
  /\ LET data == Data(collateral, debt) IN data.rawOut > 0 /\ data.rawIn > 0
  /\ auction' = ExitOffer
  /\ UNCHANGED <<position, barred, frozen, market, outside>>

\* Changed: worthless collateral stays, and with it the debt.
HandOffWorthy(c, d) ==
  IF Holds(c) = {} THEN [c |-> c, d |-> None] ELSE [c |-> c, d |-> d]

\* check_and_handle_user_bad_debt: an owner who owes forfeits what is worth
\* nothing; without collateral, the backstop takes the debt.
HandOff(c, d) ==
  LET kept == IF Holds(d) = {} THEN c
              ELSE [r \in Reserves |-> IF Asset(r, c[r]) = 0 THEN 0 ELSE c[r]]
  IN [c |-> kept, d |-> IF Holds(kept) = {} THEN None ELSE d]

\* fill, by another account: it takes the scaled lot and assumes the scaled bid.
\* The fill that leaves nothing of the auction ends it and settles the owner.
Fill(pct) ==
  LET elapsed == auction.age - 1
      bid == [r \in Reserves |-> ScaleBid(auction.bid[r], pct, elapsed)]
      lot == [r \in Reserves |-> ScaleLot(auction.lot[r], pct, elapsed)]
      rest == [auction EXCEPT !.bid = [r \in Reserves |-> bid[r].remaining],
                              !.lot = [r \in Reserves |-> lot[r].remaining]]
      c == [r \in Reserves |-> collateral[r] - lot[r].actual]
      d == [r \in Reserves |-> debt[r] - bid[r].actual]
      complete == Holds(rest.bid) = {} /\ Holds(rest.lot) = {}
      settled == IF complete THEN HandOff(c, d) ELSE [c |-> c, d |-> d]
  IN /\ Live /\ elapsed >= 0
     /\ \A r \in Reserves : c[r] >= 0 /\ d[r] >= 0
     /\ collateral' = settled.c /\ debt' = settled.d
     /\ auction' = IF complete THEN NoAuction ELSE rest
     /\ Act
     /\ UNCHANGED <<supply, barred, frozen, market>>

\* del_auction, by anyone.  The temporary keys of the auction and of its exit
\* marker live longer, and expire together.
DeleteStale ==
  /\ Live
  /\ auction.age - 1 >= StaleLedgers
  /\ auction' = NoAuction
  /\ UNCHANGED <<position, barred, frozen, market, outside>>

------------------------------------------------------------------------------
(* The owner *)

\* Changed: the owner may cancel a forced exit as well.
CancelsAny(cancel) == cancel => Live /\ ~frozen

\* delete_liquidation: not in a frozen pool, and never a forced exit.
Cancels(cancel) == cancel => Live /\ ~frozen /\ auction.kind # "exit"

\* Changed: takes what is asked for, whatever there is.
ChangeUnclamped(f, r, x) == [f EXCEPT ![r] = @ + x]

\* What one request does to one kind of position; a withdrawal or repayment of
\* more than there is takes all.
Change(f, r, x) == [f EXCEPT ![r] = IF @ + x < 0 THEN 0 ELSE @ + x]

\* submit: at most one request that moves tokens, after deleting the auction or
\* not.  With an auction still in place it fails, whatever it asks for.
Submit(cancel, kind, r, x) ==
  /\ Act
  /\ Cancels(cancel)
  /\ Live => cancel
  /\ kind = "none" => cancel
  /\ kind \in {"SupplyCollateral", "Borrow"} => ~barred
  /\ kind = "Borrow" => ~frozen
  /\ kind = "Withdraw" => supply[r] > 0
  /\ kind = "WithdrawCollateral" => collateral[r] > 0
  /\ kind = "Repay" => debt[r] > 0
  /\ kind \in {"Supply", "SupplyCollateral", "Withdraw", "WithdrawCollateral"} => r \notin ruined
  /\ supply' = CASE kind = "Supply"   -> Change(supply, r, x)
                 [] kind = "Withdraw" -> Change(supply, r, -x)
                 [] OTHER             -> supply
  /\ collateral' = CASE kind = "SupplyCollateral"   -> Change(collateral, r, x)
                     [] kind = "WithdrawCollateral" -> Change(collateral, r, -x)
                     [] OTHER                       -> collateral
  /\ debt' = CASE kind = "Borrow" -> Change(debt, r, x)
               [] kind = "Repay"  -> Change(debt, r, -x)
               [] OTHER           -> debt
  /\ LET count(c, d) == Cardinality(Holds(c)) + Cardinality(Holds(d))
     IN count(collateral', debt') > count(collateral, debt)
          => count(collateral', debt') <= MaxPositions
  /\ cancel \/ kind \in {"Borrow", "WithdrawCollateral"} => MayLeave(collateral', debt')
  /\ auction' = NoAuction
  /\ UNCHANGED <<barred, frozen, market>>

------------------------------------------------------------------------------
(* Others acting on the owner's positions *)

\* bad_debt(owner), by anyone.
BadDebt ==
  LET settled == HandOff(collateral, debt)
  IN /\ ~Live
     /\ Holds(debt) # {} /\ Holds(settled.d) = {}
     /\ collateral' = settled.c /\ debt' = settled.d
     /\ UNCHANGED <<supply, auction, barred, frozen, market, outside>>

\* Changed: the auction survives the loss of its collateral.
AfterClawbackKept(burned) == auction

\* A burned collateral share invalidates the auction.
AfterClawback(burned) == IF burned > 0 THEN NoAuction ELSE auction

\* clawback, by the administrator of the asset: ordinary supply goes first.
Clawback(r, x) ==
  LET plain == IF supply[r] < x THEN supply[r] ELSE x
  IN /\ Act
     /\ r \notin ruined
     /\ x <= supply[r] + collateral[r]
     /\ supply' = [supply EXCEPT ![r] = @ - plain]
     /\ collateral' = [collateral EXCEPT ![r] = @ - (x - plain)]
     /\ auction' = AfterClawback(x - plain)
     /\ UNCHANGED <<debt, barred, frozen, market>>

\* force_withdrawal of an owner without the permission to supply.
ForceWithdrawal(r) ==
  /\ Act
  /\ ~Live
  /\ Holds(debt) = {}
  /\ Asset(r, supply[r] + collateral[r]) > 0
  /\ supply' = [supply EXCEPT ![r] = 0]
  /\ collateral' = [collateral EXCEPT ![r] = 0]
  /\ UNCHANGED <<debt, auction, barred, frozen, market>>

------------------------------------------------------------------------------
(* Environment *)

Tick ==
  /\ Live /\ auction.age - 1 < StaleLedgers
  /\ auction' = [auction EXCEPT !.age = IF @ - 1 >= 2 * Ramp THEN StaleLedgers + 1 ELSE @ + 1]
  /\ UNCHANGED <<position, barred, frozen, market, outside>>

\* The oracle, the reserve configuration, a default of the reserve's supply, the
\* issuer of the token.
MoveMarket ==
  /\ Act
  /\ \/ \E r \in Reserves, p \in Prices :
          price[r] # p /\ price' = [price EXCEPT ![r] = p] /\ UNCHANGED <<cFactor, ruined, blocked>>
     \/ \E r \in Reserves, f \in CFactors :
          /\ cFactor[r] # f /\ cFactor' = [cFactor EXCEPT ![r] = f]
          /\ UNCHANGED <<price, ruined, blocked>>
     \/ \E r \in Reserves \ ruined :
          ruined' = ruined \cup {r} /\ UNCHANGED <<price, cFactor, blocked>>
     \/ \E r \in Reserves \ blocked :
          blocked' = blocked \cup {r} /\ UNCHANGED <<price, cFactor, ruined>>
  /\ UNCHANGED <<position, auction, barred, frozen>>

\* The controller's answer and the pool's status.
ChangeRules ==
  /\ Act
  /\ \/ barred' = ~barred /\ UNCHANGED frozen
     \/ frozen' = ~frozen /\ UNCHANGED barred
  /\ UNCHANGED <<position, auction, market>>

Kinds == {"none", "Supply", "SupplyCollateral", "Withdraw", "WithdrawCollateral",
          "Borrow", "Repay"}

LiquidationNext ==
  \/ \E lots, bids \in SUBSET Reserves, pct \in Quoted : Create(lots, bids, pct)
  \/ CreateExit
  \/ \E pct \in Fills : Fill(pct)
  \/ DeleteStale
  \/ \E cancel \in BOOLEAN, kind \in Kinds, r \in Reserves, x \in Amounts :
       Submit(cancel, kind, r, x)
  \/ BadDebt
  \/ \E r \in Reserves, x \in Amounts : Clawback(r, x)
  \/ \E r \in Reserves : ForceWithdrawal(r)
  \/ Tick
  \/ MoveMarket
  \/ ChangeRules

LiquidationSpec == LiquidationInit /\ [][LiquidationNext]_liquidationVars

\* Ledgers close, and somebody uses the permissionless cleanups.
LiquidationKeeperSpec ==
  /\ LiquidationSpec
  /\ WF_liquidationVars(Tick)
  /\ WF_liquidationVars(DeleteStale)
  /\ WF_liquidationVars(BadDebt)

------------------------------------------------------------------------------
(* Properties *)

\* Types: no position goes below zero.
LiquidationTypeOK ==
  /\ \A f \in {supply, collateral, debt} : f \in [Reserves -> Nat]
  /\ auction \in [kind : {"none", "liquidation", "exit"}, age : 0..(StaleLedgers + 1),
                  bid : [Reserves -> Nat], lot : [Reserves -> Nat]]
  /\ barred \in BOOLEAN /\ frozen \in BOOLEAN
  /\ price \in [Reserves -> Prices] /\ cFactor \in [Reserves -> CFactors]
  /\ ruined \subseteq Reserves /\ blocked \subseteq Reserves
  /\ outside \in 0..MaxOutside

\* A live auction never offers bTokens the owner no longer has, or debt the owner
\* no longer owes, whatever happens to the owner's positions in the days it runs:
\* otherwise every later fill fails and the debt is stuck.
SoldIsOwned ==
  /\ LiquidationTypeOK
  /\ \A r \in Reserves : auction.lot[r] <= collateral[r] /\ auction.bid[r] <= debt[r]

\* Under the prices the pool sees, collateral weighted by its factor is worth at
\* least a third of what it is: the configurations the percentages suit.
Gentle(data) ==
  3 * DivDown(data.baseIn, Scale, data.rawIn) >= DivDown(data.baseOut, Scale, data.rawOut)

\* No position is so small that the rounding of a percentage decides.
WholeTokens(f) == \A r \in Reserves : f[r] = 0 \/ f[r] >= Unit

\* An owner whose debt outweighs the collateral can be liquidated at once: some
\* percentage of everything is neither too small nor too large, however deep the
\* owner has sunk and however coarse whole percentages are near the end.
UnhealthyCanBeLiquidated ==
  LET data == Data(collateral, debt)
  IN /\ ~Live
     /\ Unhealthy(data)
     /\ data.rawIn > 0 /\ Gentle(data)
     /\ WholeTokens(collateral) /\ WholeTokens(debt)
     => \E pct \in Percents : Accepts(Holds(collateral), Holds(debt), pct)

\* A liquidation never offers fillers much more than the debt and its incentive,
\* although a full one sells all collateral whatever it is worth: what the owner
\* can lose beyond the incentive is a ninth of the debt, and rounding.
PremiumIsBounded ==
  [][auction.kind = "none" /\ auction'.kind = "liquidation"
       => LET sold == Data(auction'.lot, auction'.bid)
              whole == Data(Only(collateral, Holds(auction'.lot)), Only(debt, Holds(auction'.bid)))
          IN Gentle(whole) /\ WholeTokens(collateral) /\ WholeTokens(debt)
               => sold.rawIn <= DivUp(sold.rawOut, Incentive(whole), Scale) + sold.rawOut \div 9
                                + whole.rawIn \div 100]_liquidationVars

\* A borrower who is forced out cannot stop it: the auction lasts until somebody
\* takes debt or collateral from the borrower, or until nobody did in time.
ExitIsNotEscaped ==
  [][auction.kind = "exit" /\ auction'.kind # "exit"
       => \/ auction.age - 1 >= StaleLedgers
          \/ supply' = supply /\ (Holds(debt') = {} \/ Total(debt') < Total(debt))
          \/ Total(collateral') < Total(collateral)]_liquidationVars

\* A debt that nothing secures reaches the backstop, also when the collateral lost
\* its worth under a live auction, whose lot nobody will pay for any more.
BadDebtHandedOff ==
  LET hopeless == Holds(debt) # {} /\ \A r \in Reserves : Asset(r, collateral[r]) = 0
  IN hopeless ~> ~hopeless

\* docs/V3_SYSTEM_SPEC.md: an incomplete fill "MUST fail if it exhausts collateral
\* or leaves collateral and liabilities while reducing health".  The code takes
\* any part of a liquidation at the price of the moment.
IncompleteFillKeepsHealth ==
  [][(\E pct \in Fills : Fill(pct)) /\ Live' /\ Holds(debt') # {}
       => LET before == Data(collateral, debt)
              after == Data(collateral', debt')
          IN /\ Holds(collateral') # {}
             /\ after.baseIn * before.baseOut >= before.baseIn * after.baseOut
    ]_liquidationVars
=============================================================================
