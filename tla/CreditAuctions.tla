----------------------------- MODULE CreditAuctions -----------------------------
(***************************************************************************)
(* The two auctions that sell what a pool's reserves owe to others: take-  *)
(* rate credit, split over the backstop's tiers and sold for their tokens  *)
(* (pool/src/auctions/tier_interest.rs), and protocol credit, sold for     *)
(* BLNT that is burned (protocol_fee_auction.rs).  Both quote a credit     *)
(* that interest raises and a custody loss cuts while the auction is open. *)
(***************************************************************************)
EXTENDS AuctionCurve, FiniteSets, Functions

CONSTANTS
  Assets,       \* the reserves of the pool
  Regulated,    \* reserves whose issuer may deauthorize the pool
  Tiers,        \* number of tiers, in loss order
  Plain,        \* tiers of plain USDC, worth nothing while deauthorized
  Weight,       \* Weight[t]: the take-rate weight of a tier
  TierValues,   \* what the backstop may report as the value of a tier
  Lists,        \* the asset lists a caller may name
  Price,        \* value of one token of a reserve
  MinLotValue,  \* MIN_AUCTION_LOT_VALUE_USDC, 20 USDC
  StaleLedgers, \* AUCTION_STALE_LEDGERS, 500
  Losses,       \* bound: credit lost at once
  MaxCredit,    \* bound: MaxCredit[a]: credit of a reserve
  MaxFee        \* bound: MaxFee[a]: protocol credit of a reserve

ASSUME CreditAssumption ==
  /\ IsFiniteSet(Assets) /\ Regulated \subseteq Assets
  /\ Tiers \in Nat \ {0} /\ Plain \subseteq 1..Tiers
  /\ Weight \in [1..Tiers -> Nat \ {0}] /\ TierValues \subseteq Nat
  /\ Lists \subseteq SUBSET Assets /\ {} \notin Lists
  /\ Price \in Nat \ {0} /\ MinLotValue \in Nat \ {0} /\ StaleLedgers \in Nat
  /\ Losses \subseteq Nat
  /\ MaxCredit \in [Assets -> Nat] /\ MaxFee \in [Assets -> Nat]

VARIABLES
  credit,      \* credit[a]: backstop_credit of the reserve
  pending,     \* pending[a][t]: credit set aside for a tier
  carry,       \* carry[a]: what the split left over
  cursor,      \* InterestDataKey::Cursor, 1 for the first tier
  fee,         \* fee[a]: ProtocolFeeData.credit
  interest,    \* the interest auction, or NoInterest
  feeSale,     \* the protocol-fee auction, or NoFeeSale
  value,       \* value[t]: pool_data of the backstop
  authorized,  \* reserves whose token the pool may transfer
  passed       \* history: how often in a row a tier with a full lot was passed over

creditVars ==
  <<credit, pending, carry, cursor, fee, interest, feeSale, value, authorized, passed>>

Nothing == [a \in Assets |-> 0]
NoFeeSale == [lot |-> Nothing, bid |-> 0, age |-> 0]
NoInterest == [lot |-> Nothing, bid |-> 0, age |-> 0, tier |-> 0]

\* A stored auction always asks for a bid.
Open(sale) == sale.bid > 0

\* Ledgers since creation: an auction begins on the next one.
Oldest == StaleLedgers + 1

Sum(f) == FoldFunction(+, 0, f)
SumOver(S, f) == FoldFunctionOnSet(+, 0, f, S)

------------------------------------------------------------------------------
(* The split of take-rate credit *)

\* InterestReserveState::total
Total(a) == Sum(pending[a]) + carry[a]

\* allocate_take_rate: by value and weight, rounded down.
Share(amount, t) ==
  LET weighted == [s \in 1..Tiers |-> value[s] * Weight[s]]
  IN IF Sum(weighted) = 0 THEN 0 ELSE DivDown(amount, weighted[t], Sum(weighted))

\* The credit since the last split, with what that one left over.
Distribution(a) == credit[a] - Total(a) + carry[a]

SplitPending(a) == [t \in 1..Tiers |-> pending[a][t] + Share(Distribution(a), t)]

SplitCarry(a) ==
  Distribution(a) - Sum([t \in 1..Tiers |-> Share(Distribution(a), t)])

\* The value a lot of the listed assets would have for each tier.
LotValues(list) ==
  [t \in 1..Tiers |->
     IF value[t] = 0 THEN 0
     ELSE Price * SumOver(list \cap authorized, [a \in Assets |-> SplitPending(a)[t]])]

Qualifies(list, t) == LotValues(list)[t] >= MinLotValue

\* Tiers from the cursor on, round and round: how far t is from it.
Distance(t) == (t - cursor + Tiers) % Tiers

\* select_interest_tier
Selected(list, t) ==
  /\ Qualifies(list, t)
  /\ \A s \in 1..Tiers : Qualifies(list, s) => Distance(t) <= Distance(s)

\* Changed: the turn does not move on.
CursorStays(t) == t

\* Changed: the turn does not wrap.
CursorUnwrapped(t) == t + 1

CursorAfter(t) == (t % Tiers) + 1

\* The premium of both auctions: 120 percent.
BidFor(lotValue) == DivUp(lotValue, 6, 5)

------------------------------------------------------------------------------
(* Fills *)

\* Both auctions end with their bid: a lot left over is not sold.
Rest(sale, pct, elapsed) ==
  [sale EXCEPT !.bid = ScaleBid(sale.bid, pct, elapsed).remaining,
               !.lot = [a \in Assets |-> ScaleLot(@[a], pct, elapsed).remaining]]

Sold(sale, pct, elapsed) ==
  [a \in Assets |-> ScaleLot(sale.lot[a], pct, elapsed).actual]

\* Only authorized tokens can leave the pool.
Transferable(lot) == \A a \in Assets : lot[a] > 0 => a \in authorized

Deletable(sale) ==
  \/ sale.age - 1 >= StaleLedgers
  \/ \E a \in Assets : sale.lot[a] > 0 /\ a \notin authorized

------------------------------------------------------------------------------
CreditInit ==
  /\ credit = Nothing /\ carry = Nothing /\ fee = Nothing
  /\ pending = [a \in Assets |-> [t \in 1..Tiers |-> 0]]
  /\ cursor = 1
  /\ interest = NoInterest /\ feeSale = NoFeeSale
  /\ value \in [1..Tiers -> TierValues]
  /\ authorized = Assets
  /\ passed = [t \in 1..Tiers |-> 0]

\* new_auction(2, backstop, [], list, 100).  Shares of a tier are not modelled: a tier
\* of value but without shares, whose bid the code refuses to build, passes here.
CreateInterest(list) ==
  /\ ~Open(interest)
  /\ \A a \in list : Total(a) <= credit[a]
  /\ \E t \in 1..Tiers :
       /\ Selected(list, t)
       /\ LET lot == [a \in Assets |->
                        IF a \in list \cap authorized THEN SplitPending(a)[t] ELSE 0]
          IN interest' = [lot |-> lot, bid |-> BidFor(LotValues(list)[t]), age |-> 0, tier |-> t]
       /\ cursor' = CursorAfter(t)
       /\ passed' = [s \in 1..Tiers |->
                       IF s # t /\ Qualifies(list, s) THEN passed[s] + 1 ELSE 0]
  /\ pending' = [a \in Assets |-> IF a \in list THEN SplitPending(a) ELSE pending[a]]
  /\ carry' = [a \in Assets |-> IF a \in list THEN SplitCarry(a) ELSE carry[a]]
  /\ UNCHANGED <<credit, fee, feeSale, value, authorized>>

\* Fill pct of the interest auction: the lot leaves, the bid goes to the tier.
FillInterest(pct) ==
  /\ Open(interest)
  /\ interest.age >= 1
  /\ LET elapsed == interest.age - 1
         sold == Sold(interest, pct, elapsed)
         rest == Rest(interest, pct, elapsed)
         t == interest.tier
     IN /\ Transferable(sold)
        /\ \A a \in Assets : sold[a] <= credit[a] /\ sold[a] <= pending[a][t]
        /\ credit' = [a \in Assets |-> credit[a] - sold[a]]
        /\ pending' = [a \in Assets |-> [pending[a] EXCEPT ![t] = @ - sold[a]]]
        /\ interest' = IF Open(rest) THEN rest ELSE NoInterest
  /\ UNCHANGED <<carry, cursor, fee, feeSale, value, authorized, passed>>

\* delete_stale_auction(2): stale, a reserve deauthorized, or the token of the
\* tier; a USDC tier that holds tokens is worth nothing only then.
DeleteInterest ==
  /\ Open(interest)
  /\ Deletable(interest) \/ (interest.tier \in Plain /\ value[interest.tier] = 0)
  /\ interest' = NoInterest
  /\ UNCHANGED <<credit, pending, carry, cursor, fee, feeSale, value, authorized, passed>>

\* new_auction(3, backstop, [], list, 100)
CreateFeeSale(list) ==
  /\ ~Open(feeSale)
  /\ LET lot == [a \in Assets |-> IF a \in list \cap authorized THEN fee[a] ELSE 0]
     IN /\ Price * Sum(lot) >= MinLotValue
        /\ feeSale' = [lot |-> lot, bid |-> BidFor(Price * Sum(lot)), age |-> 0]
  /\ UNCHANGED <<credit, pending, carry, cursor, fee, interest, value, authorized, passed>>

FillFeeSale(pct) ==
  /\ Open(feeSale)
  /\ feeSale.age >= 1
  /\ LET elapsed == feeSale.age - 1
         sold == Sold(feeSale, pct, elapsed)
         rest == Rest(feeSale, pct, elapsed)
     IN /\ Transferable(sold)
        /\ \A a \in Assets : sold[a] <= fee[a]
        /\ fee' = [a \in Assets |-> fee[a] - sold[a]]
        /\ feeSale' = IF Open(rest) THEN rest ELSE NoFeeSale
  /\ UNCHANGED <<credit, pending, carry, cursor, interest, value, authorized, passed>>

DeleteFeeSale ==
  /\ Open(feeSale)
  /\ Deletable(feeSale)
  /\ feeSale' = NoFeeSale
  /\ UNCHANGED <<credit, pending, carry, cursor, fee, interest, value, authorized, passed>>

------------------------------------------------------------------------------
(* Custody losses *)

\* Changed: an open auction survives the loss of what it quoted.
Keeping(sale, none, a, loss) == sale

\* A loss of credit cancels the auction that quoted it.
Cancelled(sale, none, a, loss) ==
  IF loss > 0 /\ sale.lot[a] > 0 THEN none ELSE sale

\* Changed: the parts of a reduced credit round up.
ScaledUp(amount, a, loss) == DivUp(amount, credit[a] - loss, credit[a])

\* reconcile_interest_credit: every part shrinks with the credit, rounded down.
Scaled(amount, a, loss) == DivDown(amount, credit[a] - loss, credit[a])

\* reconcile_loss of reserve a, by what it takes from the two credits.  The
\* suppliers' claim stands between them: take-rate credit is cut only after all
\* protocol credit (PoolReserve models the whole loss).
ReconcileLoss(a, feeLoss, creditLoss) ==
  /\ feeLoss \in 0..fee[a] /\ creditLoss \in 0..credit[a]
  /\ feeLoss + creditLoss > 0
  /\ creditLoss > 0 => feeLoss = fee[a] /\ Total(a) <= credit[a]
  /\ fee' = [fee EXCEPT ![a] = @ - feeLoss]
  /\ feeSale' = Cancelled(feeSale, NoFeeSale, a, feeLoss)
  /\ credit' = [credit EXCEPT ![a] = @ - creditLoss]
  /\ interest' = Cancelled(interest, NoInterest, a, creditLoss)
  /\ IF creditLoss = 0 THEN UNCHANGED <<pending, carry>>
     ELSE /\ pending' = [pending EXCEPT ![a] =
                           [t \in 1..Tiers |-> Scaled(@[t], a, creditLoss)]]
          /\ carry' = [carry EXCEPT ![a] = Scaled(@, a, creditLoss)]
  /\ UNCHANGED <<cursor, value, authorized, passed>>

------------------------------------------------------------------------------
(* The rest of the pool, the backstop, and the ledger *)

\* Interest accrues, or a donation is gulped.
Accrue(a) ==
  /\ \/ /\ credit[a] < MaxCredit[a]
        /\ credit' = [credit EXCEPT ![a] = @ + 1] /\ UNCHANGED fee
     \/ /\ fee[a] < MaxFee[a]
        /\ fee' = [fee EXCEPT ![a] = @ + 1] /\ UNCHANGED credit
  /\ UNCHANGED <<pending, carry, cursor, interest, feeSale, value, authorized, passed>>

SetAuthorized(a) ==
  /\ authorized' = IF a \in authorized THEN authorized \ {a} ELSE authorized \cup {a}
  /\ UNCHANGED <<credit, pending, carry, cursor, fee, interest, feeSale, value, passed>>

\* Deposits, exits, draws, and prices move the value of a tier.
SetValue(t, v) ==
  /\ v # value[t]
  /\ value' = [value EXCEPT ![t] = v]
  /\ UNCHANGED <<credit, pending, carry, cursor, fee, interest, feeSale, authorized, passed>>

Older(sale) == IF Open(sale) /\ sale.age < Oldest THEN [sale EXCEPT !.age = @ + 1] ELSE sale

\* Ages past staleness are all alike.
Tick ==
  /\ Open(interest) \/ Open(feeSale)
  /\ interest' = Older(interest)
  /\ feeSale' = Older(feeSale)
  /\ UNCHANGED <<credit, pending, carry, cursor, fee, value, authorized, passed>>

------------------------------------------------------------------------------
CreditNext ==
  \/ \E list \in Lists : CreateInterest(list) \/ CreateFeeSale(list)
  \/ \E pct \in Percents : FillInterest(pct) \/ FillFeeSale(pct)
  \/ DeleteInterest
  \/ DeleteFeeSale
  \/ \E a \in Assets, feeLoss, creditLoss \in Losses : ReconcileLoss(a, feeLoss, creditLoss)
  \/ \E a \in Assets : Accrue(a)
  \/ \E a \in Regulated : SetAuthorized(a)
  \/ \E t \in 1..Tiers, v \in TierValues : SetValue(t, v)
  \/ Tick

CreditSpec == CreditInit /\ [][CreditNext]_creditVars

------------------------------------------------------------------------------
(* Properties *)

\* Types: credits never go below zero, and the cursor names a tier.
CreditTypeOK ==
  /\ \A a \in Assets : credit[a] \in 0..MaxCredit[a] /\ fee[a] \in 0..MaxFee[a]
  /\ pending \in [Assets -> [1..Tiers -> Nat]] /\ carry \in [Assets -> Nat]
  /\ cursor \in 1..Tiers
  /\ interest \in [lot : [Assets -> Nat], bid : Nat, age : 0..Oldest, tier : 0..Tiers]
  /\ feeSale \in [lot : [Assets -> Nat], bid : Nat, age : 0..Oldest]
  /\ value \in [1..Tiers -> TierValues]
  /\ authorized \subseteq Assets
  /\ passed \in [1..Tiers -> Nat]

\* What is set aside for the tiers, with the carry, never exceeds the credit of
\* the reserve, through splits, discounted and partial fills, and losses.  Were it
\* to, every later interest auction of the reserve and the reconciliation of its
\* losses would fail on the subtraction.
PendingIsBacked ==
  /\ CreditTypeOK
  /\ \A a \in Assets : Total(a) <= credit[a]

\* What an open auction offers is still there: in the part of the selected tier,
\* or in the protocol credit, whatever accrued, was sold, or was lost since.
LotsAreBacked ==
  /\ Open(interest) => \A a \in Assets : interest.lot[a] <= pending[a][interest.tier]
  /\ Open(feeSale) => \A a \in Assets : feeSale.lot[a] <= fee[a]

\* No tier is starved: one that has a full lot at every auction is passed over by
\* at most all the others before it has its turn, whichever assets are listed.
EveryTierGetsItsTurn == \A t \in 1..Tiers : passed[t] < Tiers

================================================================================
