------------------------------ MODULE PoolReserve ------------------------------
(***************************************************************************)
(* The accounting of one reserve of a lending pool (pool/src/pool):        *)
(* suppliers hold bTokens, borrowers owe dTokens, both valued by a rate    *)
(* that lazily accrued interest raises; the protocol fee and the backstop  *)
(* take rate are credits the reserve owes; and the pool's token balance    *)
(* must cover what all of this adds up to.                                 *)
(*                                                                         *)
(* Rates are integers over RateScale (SCALAR_12), ratios are integers over *)
(* RatioScale (SCALAR_7).  The interest curve is abstracted to the set of  *)
(* loan accruals it may return; prices and other reserves to free choices  *)
(* where a health check or another collateral would decide.                *)
(***************************************************************************)
EXTENDS Integers, FiniteSets, FiniteSetsExt, Functions, Sequences, SequencesExt

CONSTANTS
  Users,        \* accounts that submit requests
  Backstop,     \* the backstop contract: it only ever holds liabilities
  RateScale,    \* SCALAR_12
  RatioScale,   \* SCALAR_7
  FeeRate,      \* PROTOCOL_INTEREST_FEE_RATE, over RatioScale
  TakeRate,     \* bstop_rate, over RatioScale
  MaxUtil,      \* max_util, over RatioScale
  SupplyCap,    \* supply_cap, in underlying
  Accruals,     \* loan_accrual - 1 that calc_accrual may return, over RateScale
  Amounts,      \* bound: amounts a call may name
  Batches,      \* the request sequences a submission may hold
  Statuses,     \* bound: the pool statuses an instance visits
  MaxRate,      \* bound: d_rate stays under it
  MaxBalance,   \* bound: no call takes tokens that would push the balance over it
  MaxLosses,    \* bound: direct custody losses
  MaxTicks      \* bound: times a ledger closes with interest due

\* What a request may be.  "elsewhere" is what the liquidated account holds in
\* other reserves.
Requests ==
  [kind : {"Supply", "SupplyCollateral", "Withdraw", "WithdrawCollateral",
           "Borrow", "FlashLoan", "Repay"}, amount : Amounts]
    \cup [kind : {"FillLiquidation"}, of : Users, lot : Nat, bid : Nat, full : BOOLEAN,
          elsewhere : SUBSET {"debt", "collateral"}]
    \cup [kind : {"FillBadDebt", "FillInterest", "FillFee"}, amount : Nat]

ASSUME ReserveAssumption ==
  /\ IsFiniteSet(Users) /\ Backstop \notin Users
  /\ RateScale \in Nat \ {0} /\ RatioScale \in Nat \ {0}
  /\ FeeRate \in 0..RatioScale /\ TakeRate \in 0..(RatioScale - 1)
  /\ Statuses \subseteq {"Active", "OnIce", "Frozen"}
  /\ MaxUtil \in Nat /\ SupplyCap \in Nat
  /\ Accruals \subseteq Nat \ {0} /\ Amounts \subseteq Nat \ {0}
  /\ Batches \subseteq Seq(Requests)
  /\ MaxRate \in Nat /\ MaxBalance \in Nat /\ MaxLosses \in Nat
  /\ MaxTicks \in Nat

VARIABLES
  reserve,   \* ReserveData: dRate, bRate, dSupply, bSupply, credit
  fee,       \* ProtocolFeeData: credit, carry
  position,  \* position[u]: the Positions of u in this reserve
  balance,   \* what the token contract says the pool holds
  due,       \* the ledger moved past last_time: the next load accrues
  status,    \* what the pool status allows
  losses,    \* custody losses so far (bounds the model)
  ticks      \* closed ledgers so far (bounds the model)

vars == <<reserve, fee, position, balance, due, status, losses, ticks>>

Holders == Users \cup {Backstop}

(***************************************************************************)
(* Fixed-point arithmetic                                                  *)
(***************************************************************************)
MulFloor(x, y, scale) == (x * y) \div scale
MulCeil(x, y, scale) == (x * y + scale - 1) \div scale
\* A zero divisor panics in the code; the zero it yields here is refused by
\* every caller, since no caller may mint or burn zero shares.
DivFloor(x, y, scale) == IF y = 0 THEN 0 ELSE (x * scale) \div y
DivCeil(x, y, scale) == IF y = 0 THEN 0 ELSE (x * scale + y - 1) \div y

TotalSupply(r) == MulFloor(r.bSupply, r.bRate, RateScale)
TotalLiabilities(r) == MulCeil(r.dSupply, r.dRate, RateScale)
AssetOfB(r, b) == MulFloor(b, r.bRate, RateScale)
AssetOfD(r, d) == MulCeil(d, r.dRate, RateScale)
ToBDown(r, x) == DivFloor(x, r.bRate, RateScale)
ToBUp(r, x) == DivCeil(x, r.bRate, RateScale)
ToDDown(r, x) == DivFloor(x, r.dRate, RateScale)
ToDUp(r, x) == DivCeil(x, r.dRate, RateScale)

\* Utilization below 100%: all of the supply is not lent out.
BelowFullUtil(r) == TotalLiabilities(r) < TotalSupply(r) \/ TotalLiabilities(r) = 0
BelowMaxUtil(r) ==
  LET l == TotalLiabilities(r)
      s == TotalSupply(r)
  IN  \/ l = 0
      \/ l < s /\ DivCeil(l, s, RatioScale) <= MaxUtil
      \/ RatioScale <= MaxUtil

\* MIN_OPERATIONAL_B_RATE is a tenth of the scale.
MayAddRisk(r) == 10 * r.bRate >= RateScale

\* What the token balance must cover, and how far it is from that.
AccountingBalance(r, f) == TotalSupply(r) + r.credit + f.credit - TotalLiabilities(r)
BalanceDelta(r, f, bal) == bal - AccountingBalance(r, f)

\* Changed: the check forgets the protocol fee.
ReconciledButFee(r, f, bal) == BalanceDelta(r, [f EXCEPT !.credit = 0], bal) >= 0

Reconciled(r, f, bal) == BalanceDelta(r, f, bal) >= 0

\* Changed: the rate loss rounds down.
ReduceRateDown(r, loss) ==
  [r EXCEPT !.bRate = Max({@ - DivFloor(loss, r.bSupply, RateScale), 0})]

\* A loss shared by all bTokens, rounded against them.
ReduceRate(r, loss) ==
  [r EXCEPT !.bRate = Max({@ - DivCeil(loss, r.bSupply, RateScale), 0})]

(***************************************************************************)
(* Interest accrual, at every load of the reserve                          *)
(***************************************************************************)
AccrueFee(f, accrued) ==
  LET numerator == accrued * FeeRate + f.carry
  IN  [credit |-> f.credit + numerator \div RatioScale, carry |-> numerator % RatioScale]

\* Interest first pays the fee, then the take rate, then the suppliers; with
\* no bTokens the take rate gets all that is left.  A rise of the rate that rounds to
\* no interest changes nothing else.
Accrue(r, f, accrual) ==
  LET lent    == [r EXCEPT !.dRate = MulCeil(RateScale + accrual, @, RateScale)]
      accrued == TotalLiabilities(lent) - TotalLiabilities(r)
      paid    == AccrueFee(f, accrued)
      rest    == accrued - (paid.credit - f.credit)
      taken   == MulFloor(rest, TakeRate, RatioScale)
  IN  [r |-> IF accrued = 0 THEN lent
             ELSE IF r.bSupply = 0
             THEN [lent EXCEPT !.credit = @ + rest]
             ELSE [lent EXCEPT
                     !.credit = @ + taken,
                     !.bRate = DivFloor(TotalSupply(r) + rest - taken, r.bSupply, RateScale)],
       f |-> paid]

\* What loading the reserve may yield: with nothing lent, or nothing due,
\* the stored data.
Loaded ==
  IF due /\ TotalLiabilities(reserve) > 0
  THEN {l \in {Accrue(reserve, fee, a) : a \in Accruals} : l.r.dRate <= MaxRate}
  ELSE {[r |-> reserve, f |-> fee]}

(***************************************************************************)
(* Requests.  A submission folds its requests over this working state: the *)
(* loaded reserve, the positions, the balance (a fill transfers at once),  *)
(* and the transfers left for the end of the submission.                   *)
(***************************************************************************)
Work(l) == [r |-> l.r, f |-> l.f, pos |-> position, bal |-> balance,
            in |-> 0, out |-> 0, borrowed |-> FALSE, ok |-> TRUE]

Refuse(w) == [w EXCEPT !.ok = FALSE]
Demand(cond, w) == IF cond THEN w ELSE Refuse(w)

\* Positions only change by positive share amounts, and never go negative.
AddB(w, u, field, b) ==
  Demand(b > 0, [w EXCEPT !.pos[u][field] = @ + b, !.r.bSupply = @ + b])
RemoveB(w, u, field, b) ==
  Demand(b > 0 /\ b <= w.pos[u][field],
         [w EXCEPT !.pos[u][field] = @ - b, !.r.bSupply = @ - b])
AddD(w, u, d) ==
  Demand(d > 0, [w EXCEPT !.pos[u].debt = @ + d, !.r.dSupply = @ + d])
RemoveD(w, u, d) ==
  Demand(d > 0 /\ d <= w.pos[u].debt,
         [w EXCEPT !.pos[u].debt = @ - d, !.r.dSupply = @ - d])

Supplying(w, u, field, x) ==
  LET added == AddB([w EXCEPT !.in = @ + x], u, field, ToBDown(w.r, x))
  IN  Demand(status # "Frozen" /\ MayAddRisk(w.r) /\ TotalSupply(added.r) <= SupplyCap, added)

\* A withdrawal of more than the user has takes all of it.
Withdrawing(w, u, field, x) ==
  LET burn == Min({ToBUp(w.r, x), w.pos[u][field]})
      sent == IF ToBUp(w.r, x) > burn THEN AssetOfB(w.r, burn) ELSE x
      left == RemoveB([w EXCEPT !.out = @ + sent], u, field, burn)
  IN  Demand(BelowFullUtil(left.r), left)

Borrowing(w, u, x) ==
  LET lent == AddD([w EXCEPT !.out = @ + x, !.borrowed = TRUE], u, ToDUp(w.r, x))
  IN  Demand(status = "Active" /\ MayAddRisk(w.r) /\ BelowFullUtil(lent.r), lent)

\* A flash loan is a borrow ahead of the other requests, paid out before any
\* of their transfers.
FlashLoaning(w, u, x) ==
  Demand(x <= w.bal, [Borrowing(w, u, x) EXCEPT !.out = w.out, !.bal = @ - x])

\* A repayment of more than the debt is refunded.
Repaying(w, u, x) ==
  LET owed == w.pos[u].debt
      over == ToDDown(w.r, x) > owed
      paid == [w EXCEPT !.in = @ + x, !.out = @ + (IF over THEN x - AssetOfD(w.r, owed) ELSE 0)]
  IN  RemoveD(paid, u, IF over THEN owed ELSE ToDDown(w.r, x))

\* Changed: the forfeited bTokens stay with the account.
HandOffKeeping(w, u, elsewhere) ==
  LET owed == w.pos[u].debt
  IN  IF \/ owed = 0 /\ "debt" \notin elsewhere
         \/ AssetOfB(w.r, w.pos[u].collateral) > 0
         \/ "collateral" \in elsewhere
      THEN w
      ELSE [w EXCEPT !.pos[u].debt = 0, !.pos[Backstop].debt = @ + owed,
                     !.r.bSupply = @ - w.pos[u].collateral]

\* An account with debt forfeits collateral that is worth nothing; with no
\* collateral left its debt goes to the backstop.  "elsewhere" is what the
\* account holds in other reserves.
HandOff(w, u, elsewhere) ==
  LET owes      == w.pos[u].debt > 0 \/ "debt" \in elsewhere
      worthless == AssetOfB(w.r, w.pos[u].collateral) = 0
      kept      == IF owes /\ worthless
                   THEN [w EXCEPT !.pos[u].collateral = 0, !.r.bSupply = @ - w.pos[u].collateral]
                   ELSE w
  IN  IF ~owes \/ kept.pos[u].collateral > 0 \/ "collateral" \in elsewhere THEN kept
      ELSE [kept EXCEPT !.pos[u].debt = 0, !.pos[Backstop].debt = @ + w.pos[u].debt]

\* A fill moves collateral and debt shares from the liquidatee to the filler;
\* one that completes the auction settles what is left of the account.
Liquidating(w, u, q) ==
  LET v    == q.of
      lot  == IF q.lot = 0 THEN w
              ELSE AddB(RemoveB(w, v, "collateral", q.lot), u, "collateral", q.lot)
      bid  == IF q.bid = 0 THEN lot ELSE AddD(RemoveD(lot, v, q.bid), u, q.bid)
  IN  Demand(u # v, IF q.full /\ bid.ok THEN HandOff(bid, v, q.elsewhere) ELSE bid)

FillingBadDebt(w, u, d) == AddD(RemoveD(w, Backstop, d), u, d)

\* Interest and fee fills send the underlying before the batch settles.
FillingInterest(w, x) ==
  Demand(x <= w.r.credit /\ x <= w.bal, [w EXCEPT !.r.credit = @ - x, !.bal = @ - x])
FillingFee(w, x) ==
  Demand(x <= w.f.credit /\ x <= w.bal, [w EXCEPT !.f.credit = @ - x, !.bal = @ - x])

ApplyRequest(w, u, q) ==
  IF ~w.ok THEN w
  ELSE CASE q.kind = "Supply"             -> Supplying(w, u, "supply", q.amount)
         [] q.kind = "SupplyCollateral"   -> Supplying(w, u, "collateral", q.amount)
         [] q.kind = "Withdraw"           -> Withdrawing(w, u, "supply", q.amount)
         [] q.kind = "WithdrawCollateral" -> Withdrawing(w, u, "collateral", q.amount)
         [] q.kind = "Borrow"             -> Borrowing(w, u, q.amount)
         [] q.kind = "FlashLoan"          -> FlashLoaning(w, u, q.amount)
         [] q.kind = "Repay"              -> Repaying(w, u, q.amount)
         [] q.kind = "FillLiquidation"    -> Liquidating(w, u, q)
         [] q.kind = "FillBadDebt"        -> FillingBadDebt(w, u, q.amount)
         [] q.kind = "FillInterest"       -> FillingInterest(w, q.amount)
         [] q.kind = "FillFee"            -> FillingFee(w, q.amount)

(***************************************************************************)
(* The pool's entry points                                                 *)
(***************************************************************************)
Store(w) ==
  /\ reserve' = w.r
  /\ fee' = w.f
  /\ position' = w.pos
  /\ due' = FALSE

Fund(w) == [w EXCEPT !.bal = @ + w.in - w.out]

\* The requests of a submission, one after the other.
Batch(w, u, requests) == FoldLeft(LAMBDA acc, q : ApplyRequest(acc, u, q), w, requests)

\* submit: all requests, then the utilization and custody checks, then the
\* transfers.  The health of u depends on other reserves and on prices.
Submit(u, requests) ==
  \E l \in Loaded :
    LET done == Batch(Work(l), u, requests)
        w    == Fund(done)
    IN  /\ done.ok
        /\ w.borrowed => BelowMaxUtil(w.r)
        /\ Reconciled(w.r, w.f, w.bal)
        /\ w.bal \in 0..MaxBalance
        /\ Store(w)
        /\ balance' = w.bal
        /\ UNCHANGED <<status, losses, ticks>>

\* bad_debt(user)
BadDebt(u) ==
  \E l \in Loaded, elsewhere \in SUBSET {"debt"} :
    LET w == HandOff(Work(l), u, elsewhere)
    IN  /\ w.pos # position
        /\ w.pos[u].debt = 0 /\ w.pos[u].collateral = 0
        /\ Store(w)
        /\ UNCHANGED <<balance, status, losses, ticks>>

\* Changed: the rate may go below zero.
DefaultUnclamped(r, d) ==
  LET loss == DivCeil(AssetOfD(r, d), r.bSupply, RateScale)
  IN  [r EXCEPT !.dSupply = @ - d, !.bRate = IF r.bSupply = 0 THEN @ ELSE @ - loss]

\* The loss of a default lowers the rate of every bToken.
DefaultLiabilities(r, d) ==
  LET gone == [r EXCEPT !.dSupply = @ - d]
  IN  IF r.bSupply = 0 THEN gone ELSE ReduceRate(gone, AssetOfD(r, d))

\* bad_debt(backstop), once no tier has usable value
DefaultBackstop ==
  \E l \in Loaded :
    LET owed == position[Backstop].debt
    IN  /\ owed > 0
        /\ Store([Work(l) EXCEPT !.r = DefaultLiabilities(@, owed), !.pos[Backstop].debt = 0])
        /\ UNCHANGED <<balance, status, losses, ticks>>

\* force_withdrawal of a user without permission to supply
ForceWithdrawal(u) ==
  \E l \in Loaded :
    LET b    == position[u].supply + position[u].collateral
        sent == AssetOfB(l.r, b)
        w    == [Work(l) EXCEPT !.pos[u].supply = 0, !.pos[u].collateral = 0,
                                !.r.bSupply = @ - b]
    IN  /\ position[u].debt = 0
        /\ Reconciled(l.r, l.f, balance)
        /\ b > 0 /\ sent > 0 /\ sent <= balance
        /\ BelowFullUtil(w.r)
        /\ Store(w)
        /\ balance' = balance - sent
        /\ UNCHANGED <<status, losses, ticks>>

\* clawback: ordinary supply goes first, with no health check.
Clawback(u, x) ==
  \E l \in Loaded :
    LET b     == ToBUp(l.r, x)
        plain == Min({position[u].supply, b})
        w     == [Work(l) EXCEPT !.pos[u].supply = @ - plain,
                                 !.pos[u].collateral = @ - (b - plain),
                                 !.r.bSupply = @ - b]
    IN  /\ Reconciled(l.r, l.f, balance)
        /\ b > 0 /\ b <= position[u].supply + position[u].collateral
        /\ x <= balance
        /\ Store(w)
        /\ balance' = balance - x
        /\ UNCHANGED <<status, losses, ticks>>

\* gulp: a surplus joins the take-rate credit.
Gulp ==
  \E l \in Loaded :
    LET surplus == BalanceDelta(l.r, l.f, balance)
    IN  /\ status = "Active"
        /\ surplus > 0
        /\ Store([Work(l) EXCEPT !.r.credit = @ + surplus])
        /\ UNCHANGED <<balance, status, losses, ticks>>

Absorb(r, f, bal) ==
  LET short   == 0 - BalanceDelta(r, f, bal)
      feeLoss == Min({short, f.credit})
      f2      == [f EXCEPT !.credit = @ - feeLoss]
      claim   == TotalSupply(r)
      supLoss == Min({short - feeLoss, claim})
      r2      == IF r.bSupply > 0 /\ supLoss = claim THEN [r EXCEPT !.bRate = 0]
                 ELSE IF supLoss > 0 THEN ReduceRate(r, supLoss) ELSE r
      left    == Max({0 - BalanceDelta(r2, f2, bal), 0})
  IN  [r |-> [r2 EXCEPT !.credit = @ - left], f |-> f2]

\* reconcile_loss: the fee credit, then the suppliers, then the take-rate credit
ReconcileLoss ==
  \E l \in Loaded :
    LET a == IF Reconciled(l.r, l.f, balance) THEN l ELSE Absorb(l.r, l.f, balance)
    IN  /\ a.r.credit >= 0
        /\ Store([Work(l) EXCEPT !.r = a.r, !.f = a.f])
        /\ UNCHANGED <<balance, status, losses, ticks>>

\* update_pool with another take rate, and set_reserve, only load and store.
Touch ==
  \E l \in Loaded :
    /\ due
    /\ Store(Work(l))
    /\ UNCHANGED <<balance, status, losses, ticks>>

\* update_status and set_status
SetStatus(s) ==
  /\ s # status
  /\ status' = s
  /\ UNCHANGED <<reserve, fee, position, balance, due, losses, ticks>>

(***************************************************************************)
(* The environment: ledgers close, tokens arrive unasked, and an asset     *)
(* administrator may take tokens from the pool directly.                   *)
(***************************************************************************)
Tick ==
  /\ ~due /\ ticks < MaxTicks
  /\ due' = TRUE
  /\ ticks' = ticks + 1
  /\ UNCHANGED <<reserve, fee, position, balance, status, losses>>

Donate(x) ==
  /\ balance + x <= MaxBalance
  /\ balance' = balance + x
  /\ UNCHANGED <<reserve, fee, position, due, status, losses, ticks>>

LoseCustody(x) ==
  /\ losses < MaxLosses /\ x <= balance
  /\ balance' = balance - x
  /\ losses' = losses + 1
  /\ UNCHANGED <<reserve, fee, position, due, status, ticks>>

Init ==
  /\ reserve = [dRate |-> RateScale, bRate |-> RateScale, dSupply |-> 0, bSupply |-> 0,
                credit |-> 0]
  /\ fee = [credit |-> 0, carry |-> 0]
  /\ position = [u \in Holders |-> [supply |-> 0, collateral |-> 0, debt |-> 0]]
  /\ balance = 0
  /\ due = FALSE
  /\ status = "Active"
  /\ losses = 0
  /\ ticks = 0

Next ==
  \/ \E u \in Users, requests \in Batches : Submit(u, requests)
  \/ \E u \in Users : BadDebt(u)
  \/ DefaultBackstop
  \/ \E u \in Users : ForceWithdrawal(u)
  \/ \E u \in Users, x \in Amounts : Clawback(u, x)
  \/ Gulp
  \/ ReconcileLoss
  \/ Touch
  \/ \E s \in Statuses : SetStatus(s)
  \/ Tick
  \/ \E x \in Amounts : Donate(x)
  \/ \E x \in Amounts : LoseCustody(x)

Spec == Init /\ [][Next]_vars

(***************************************************************************)
(* Properties                                                              *)
(***************************************************************************)
\* The types of the reserve: rates, supplies and credits never go negative,
\* and the fee carry stays under one unit of fee.
ReserveTypeOK ==
  /\ reserve \in [dRate : Nat, bRate : Nat, dSupply : Nat, bSupply : Nat, credit : Nat]
  /\ fee \in [credit : Nat, carry : 0..(RatioScale - 1)]
  /\ position \in [Holders -> [supply : Nat, collateral : Nat, debt : Nat]]
  /\ balance \in Nat /\ losses \in Nat /\ ticks \in Nat
  /\ due \in BOOLEAN
  /\ status \in {"Active", "OnIce", "Frozen"}

SumOfHolders(f) == FoldFunctionOnSet(+, 0, f, Holders)
BShares(pos) == [u \in Holders |-> pos[u].supply + pos[u].collateral]
DShares(pos) == [u \in Holders |-> pos[u].debt]

\* The bTokens and dTokens of the accounts, the backstop among them, always
\* add up to the supplies of the reserve: no liquidation, hand-off, forfeit or
\* default creates or drops a share, and no rate or credit is taken below zero on
\* the way (submit.rs, bad_debt.rs, user.rs).
SharesMatchPositions ==
  /\ ReserveTypeOK
  /\ reserve.bSupply = SumOfHolders(BShares(position))
  /\ reserve.dSupply = SumOfHolders(DShares(position))

Shortfall == Max({0 - BalanceDelta(reserve, fee, balance), 0})

\* Only tokens taken from the pool directly, or a default, widen the gap
\* between the balance and what it must cover: every rounding of interest,
\* shares and fees goes the reserve's way (reserve.rs, actions.rs, gulp.rs).
OnlyLossesOpenAShortfall ==
  [][Shortfall' <= Shortfall \/ losses' # losses \/ DefaultBackstop]_vars

\* Nobody is paid out of a reserve that is short: any payment leaves the
\* balance covering what is still owed (submit.rs, clawback.rs,
\* permissioned.rs).
NobodyLeavesAShortfall ==
  [][balance' < balance => losses' # losses \/ Shortfall' = 0]_vars

Worth(u) ==
  AssetOfB(reserve, position[u].supply + position[u].collateral)
    - AssetOfD(reserve, position[u].debt)

\* No batch of requests, and no forced exit, pays a user more than what the
\* position loses in worth at unchanged rates: rounding always costs the user
\* (actions.rs).
NobodyGainsByRounding ==
  [][\A u \in Users :
       /\ position'[u] # position[u]
       /\ \A v \in Holders \ {u} : position'[v] = position[v]
       /\ reserve'.bRate = reserve.bRate /\ reserve'.dRate = reserve.dRate
       /\ reserve'.credit = reserve.credit /\ fee' = fee
       => balance - balance' <= Worth(u) - Worth(u)']_vars

\* reconcile_loss removes the whole shortfall and no more than a rounding of
\* the rate beyond it; suppliers lose only once the fee credit is gone, and
\* the take-rate credit only once the suppliers have nothing left (gulp.rs).
LossIsAbsorbedInOrder ==
  [][ReconcileLoss /\ ~due =>
       /\ Shortfall' = 0
       /\ TotalSupply(reserve') < TotalSupply(reserve) => fee'.credit = 0
       /\ reserve'.credit < reserve.credit => TotalSupply(reserve') = 0
       /\ Shortfall > 0 =>
            BalanceDelta(reserve', fee', balance') * RateScale < reserve.bSupply + RateScale]_vars

\* As docs/V3_SYSTEM_SPEC.md 4.6 has it, with no custody loss there is nothing
\* to reconcile: reconcile_loss reduces no credit and no rate.
ReconcilesCustodyLossesOnly ==
  [][ReconcileLoss /\ ~due /\ losses = 0 =>
       /\ fee'.credit >= fee.credit
       /\ reserve'.bRate >= reserve.bRate
       /\ reserve'.credit >= reserve.credit]_vars

================================================================================
