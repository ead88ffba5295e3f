---------------------------- MODULE BadDebtWaterfall ----------------------------
(***************************************************************************)
(* The bad debt of one pool: debt handed to the backstop is auctioned for  *)
(* tokens of its loss tiers in their configured order, one auction at a    *)
(* time, and what no tier can pay for is defaulted on the suppliers        *)
(* (pool/src/auctions/tier_bad_debt.rs, with the backstop's draw and       *)
(* withdraw).                                                              *)
(***************************************************************************)
EXTENDS AuctionCurve, FiniteSets, Functions, FiniteSetsExt

CONSTANTS
  Reserves,     \* number of reserves: 1..Reserves is the reserve list
  Tiers,        \* number of tiers: 1..Tiers is the loss order
  Plain,        \* tiers of plain USDC, worth nothing while deauthorized
  DebtWorth,    \* DebtWorth[r]: the value of a dToken, in 1/ValueScale
  TierWorth,    \* TierWorth[t]: the value of a tier token, in 1/ValueScale
  ValueScale,   \* scale of oracle and Comet prices
  MaxBidAssets, \* the smaller of max_positions - 1 and 4
  StaleLedgers, \* AUCTION_STALE_LEDGERS, 500
  HandOffs,     \* bound: dTokens handed over by one borrower
  MaxTokens,    \* bound: tokens in one tier
  MaxOutside    \* bound: handoffs, deposits, and freezes of a behaviour

ASSUME WaterfallAssumption ==
  /\ Reserves \in Nat \ {0} /\ Tiers \in Nat
  /\ Plain \subseteq 1..Tiers
  /\ DebtWorth \in [1..Reserves -> Nat] /\ TierWorth \in [1..Tiers -> Nat]
  /\ ValueScale \in Nat \ {0} /\ MaxBidAssets \in Nat \ {0}
  /\ StaleLedgers \in Nat /\ StaleLedgers > 2 * Ramp
  /\ HandOffs \subseteq Nat \ {0}
  /\ MaxTokens \in Nat /\ MaxOutside \in Nat

VARIABLES
  debt,      \* debt[r]: dTokens of the backstop's position
  tokens,    \* tokens[t]: PoolBalance.tokens of the tier
  frozen,    \* tiers whose tokens cannot move: USDC deauthorized, or a weight gate closed
  auction,   \* the bad-debt auction under its temporary key, or NoAuction
  opened,    \* history: the bid and the lot the auction opened with
  outside    \* bound: how often the environment has acted

waterfallVars == <<debt, tokens, frozen, auction, opened, outside>>

NoAuction == [tier |-> 0, bid |-> [r \in 1..Reserves |-> 0], lot |-> 0, age |-> 0]

Open == auction.tier # 0

\* Ledgers since creation: the auction begins on the next one.
Oldest == StaleLedgers + 1

Total(f) == FoldFunction(+, 0, f)

HasDebt == \E r \in 1..Reserves : debt[r] > 0

------------------------------------------------------------------------------
(* Valuation: pool_data of the backstop *)

\* The value of some tokens of a tier; a tier price is linear.
ValueOf(t, amount) ==
  IF t \in Plain /\ t \in frozen THEN 0
  ELSE DivDown(amount, TierWorth[t], ValueScale)

Usable(t) == tokens[t] > 0 /\ ValueOf(t, tokens[t]) > 0

\* canonical_bad_debt_bid: the first liabilities in the order of the reserve list.
CanonicalBid ==
  [r \in 1..Reserves |->
     IF Cardinality({s \in 1..(r - 1) : debt[s] > 0}) < MaxBidAssets THEN debt[r] ELSE 0]

\* Changed: dust that rounds to no value has no value.
BidValueNoDust(bid) == Total([r \in 1..Reserves |-> DivDown(bid[r], DebtWorth[r], ValueScale)])

\* build_bad_debt_bid: dust is quoted at the smallest positive value.
BidValue(bid) ==
  LET value == Total([r \in 1..Reserves |-> DivDown(bid[r], DebtWorth[r], ValueScale)])
  IN IF value = 0 THEN 1 ELSE value

\* The premium: 120 percent.
Target(bid) == DivUp(BidValue(bid), 6, 5)

\* allocate_bad_debt_tier
TierLot(t, target) ==
  IF ValueOf(t, tokens[t]) <= target THEN tokens[t]
  ELSE DivUp(target, tokens[t], ValueOf(t, tokens[t]))

\* allocate_bad_debt_tier: a lot cut to size must reach the target.
LotCommits(t, lot, target) ==
  \/ ValueOf(t, tokens[t]) <= target
  \/ /\ lot > 0 /\ lot <= tokens[t]
     /\ DivDown(ValueOf(t, tokens[t]), lot, tokens[t]) >= target

------------------------------------------------------------------------------
WaterfallInit ==
  /\ debt = [r \in 1..Reserves |-> 0]
  /\ tokens \in [1..Tiers -> 0..MaxTokens]
  /\ frozen = {}
  /\ auction = NoAuction
  /\ opened = NoAuction
  /\ outside = 0

\* new_auction(1, backstop, [], [], 100)
Create ==
  /\ ~Open
  /\ HasDebt
  /\ BidValue(CanonicalBid) > 0
  /\ \E t \in 1..Tiers :
       /\ Usable(t)
       /\ \A s \in 1..(t - 1) : ~Usable(s)
       /\ LET lot == TierLot(t, Target(CanonicalBid))
          IN /\ LotCommits(t, lot, Target(CanonicalBid))
             /\ auction' = [tier |-> t, bid |-> CanonicalBid, lot |-> lot, age |-> 0]
  /\ opened' = auction'
  /\ UNCHANGED <<debt, tokens, frozen, outside>>

\* The auction ends when nothing of either side is left.
Complete(rest) == rest.lot = 0 /\ \A r \in 1..Reserves : rest.bid[r] = 0

\* Fill pct of the auction.  The tokens are drawn from the tier at once.
Fill(pct) ==
  /\ Open
  /\ auction.age >= 1
  /\ LET elapsed == auction.age - 1
         bid == [r \in 1..Reserves |-> ScaleBid(auction.bid[r], pct, elapsed)]
         lot == ScaleLot(auction.lot, pct, elapsed)
         rest == [auction EXCEPT !.lot = lot.remaining,
                                 !.bid = [r \in 1..Reserves |-> bid[r].remaining]]
     IN /\ \A r \in 1..Reserves : bid[r].actual <= debt[r]
        /\ lot.actual > 0 => auction.tier \notin frozen /\ lot.actual <= tokens[auction.tier]
        /\ debt' = [r \in 1..Reserves |-> debt[r] - bid[r].actual]
        /\ tokens' = [tokens EXCEPT ![auction.tier] = @ - lot.actual]
        /\ auction' = IF Complete(rest) THEN NoAuction ELSE rest
        /\ opened' = IF Complete(rest) THEN NoAuction ELSE opened
  /\ UNCHANGED <<frozen, outside>>

\* A selected USDC tier that became deauthorized.
SelectionUnusable ==
  /\ auction.tier \in Plain
  /\ tokens[auction.tier] > 0
  /\ ValueOf(auction.tier, tokens[auction.tier]) = 0

\* delete_stale_auction; the 46 days of the temporary key end later and do the same.
DeleteStale ==
  /\ Open
  /\ auction.age - 1 >= StaleLedgers \/ SelectionUnusable
  /\ auction' = NoAuction
  /\ opened' = NoAuction
  /\ UNCHANGED <<debt, tokens, frozen, outside>>

\* bad_debt(backstop): the supplier default, once every tier is worth nothing.
Default ==
  /\ ~Open
  /\ HasDebt
  /\ \A t \in 1..Tiers : ~Usable(t)
  /\ debt' = [r \in 1..Reserves |-> 0]
  /\ UNCHANGED <<tokens, frozen, auction, opened, outside>>

------------------------------------------------------------------------------
(* The rest of the pool and the backstop *)

Outside == outside < MaxOutside /\ outside' = outside + 1

\* Bad debt of a borrower: bad_debt(user), or a completed liquidation.
BorrowerHandOff(r, amount) ==
  /\ Outside
  /\ debt' = [debt EXCEPT ![r] = @ + amount]
  /\ UNCHANGED <<tokens, frozen, auction, opened>>

\* deposit or donate
Deposit(t) ==
  /\ Outside
  /\ t \notin frozen
  /\ tokens[t] < MaxTokens
  /\ tokens' = [tokens EXCEPT ![t] = @ + 1]
  /\ UNCHANGED <<debt, frozen, auction, opened>>

\* Changed: withdrawals do not look at the pool.
WithdrawalsAlwaysOpen == TRUE

\* execute_withdraw: the position of the backstop in the pool stops it.
WithdrawalsOpen == ~HasDebt

Withdraw(t) ==
  /\ WithdrawalsOpen
  /\ t \notin frozen
  /\ \E n \in 1..tokens[t] : tokens' = [tokens EXCEPT ![t] = @ - n]
  /\ UNCHANGED <<debt, frozen, auction, opened, outside>>

Freeze(t) ==
  /\ Outside
  /\ t \notin frozen
  /\ frozen' = frozen \cup {t}
  /\ UNCHANGED <<debt, tokens, auction, opened>>

Thaw(t) ==
  /\ t \in frozen
  /\ frozen' = frozen \ {t}
  /\ UNCHANGED <<debt, tokens, auction, opened, outside>>

\* Ages past staleness are all alike.
AuctionAges ==
  /\ Open
  /\ auction.age < Oldest
  /\ auction' = [auction EXCEPT !.age = @ + 1]
  /\ UNCHANGED <<debt, tokens, frozen, opened, outside>>

------------------------------------------------------------------------------
WaterfallNext ==
  \/ Create
  \/ \E pct \in Percents : Fill(pct)
  \/ DeleteStale
  \/ Default
  \/ AuctionAges
  \/ \E r \in 1..Reserves, amount \in HandOffs : BorrowerHandOff(r, amount)
  \/ \E t \in 1..Tiers : Deposit(t) \/ Withdraw(t) \/ Freeze(t) \/ Thaw(t)

WaterfallSpec == WaterfallInit /\ [][WaterfallNext]_waterfallVars

(***************************************************************************)
(* Keepers use the permissionless calls: somebody opens an auction or      *)
(* defaults, and deletes what cannot be filled.  Fills are only promised   *)
(* strongly: an auction may go stale unfilled, but as its lot ends up for  *)
(* nothing, not every auction does.  The weight gate of an LP tier opens   *)
(* again, since activation is permissionless.                              *)
(***************************************************************************)
WaterfallKeeperSpec ==
  /\ WaterfallSpec
  /\ WF_waterfallVars(AuctionAges)
  /\ WF_waterfallVars(Create)
  /\ WF_waterfallVars(Default)
  /\ WF_waterfallVars(DeleteStale)
  /\ SF_waterfallVars(Fill(Whole))
  /\ \A t \in (1..Tiers) \ Plain : WF_waterfallVars(Thaw(t))

------------------------------------------------------------------------------
(* Properties *)

Auctions ==
  [tier : 0..Tiers, bid : [1..Reserves -> Nat], lot : Nat, age : 0..Oldest]

\* Types: balances and positions never go below zero.
WaterfallTypeOK ==
  /\ debt \in [1..Reserves -> Nat]
  /\ tokens \in [1..Tiers -> 0..MaxTokens]
  /\ frozen \subseteq 1..Tiers
  /\ auction \in Auctions /\ opened \in Auctions
  /\ Open <=> opened.tier = auction.tier /\ opened.tier # 0
  /\ outside \in 0..MaxOutside

\* While an auction still asks for a bid, its tier holds the whole lot and the
\* backstop still owes the whole bid, whatever depositors, borrowers, and other
\* fills did since it was quoted: a full fill never fails for lack of either.
AuctionIsCovered ==
  /\ WaterfallTypeOK
  /\ Open /\ (\E r \in 1..Reserves : auction.bid[r] > 0) =>
       /\ auction.lot <= tokens[auction.tier]
       /\ \A r \in 1..Reserves : auction.bid[r] <= debt[r]

\* However a fill is split into parts, no part of the lot is released ahead of
\* the same part of every bid: what is left of the lot is at least what is left of
\* the bid, in proportion to what the auction opened with.
NoLotAheadOfItsBid ==
  Open => \A r \in 1..Reserves :
            auction.lot * opened.bid[r] >= auction.bid[r] * opened.lot

\* Bad debt is always resolved: taken over by fillers, or defaulted once the
\* tiers are worth nothing.  Withdrawals of every depositor wait for it.
BadDebtSettles == HasDebt ~> ~HasDebt

================================================================================
