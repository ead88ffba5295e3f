# Verification of the BLNT contracts

TLA+ models of the Soroban contracts of this repository, the TLC instances that
check them, and the theorems TLAPS proves about them.

A Soroban call is atomic: it either completes or panics and leaves no trace, and
a contract is never re-entered. So an entry point is one action, a call that
panics is a disabled action, and what interleaves is the order of calls by
different accounts, the clock, and the state of other contracts between two
calls. That order is where these contracts are hard: nearly every safety
argument spans several calls, often of two contracts, days apart.

## Inventory

| component | state | operations | interacts with |
| --- | --- | --- | --- |
| emitter (`emitter/src`) | current recipient and its token, last paid time per recipient, queued swap, used drops | initialize, distribute, drop, queue / cancel / execute a swap | mints BLNT; reads contest-token balances and `migration_token` of candidates |
| backstop migration (`backstop/src/migration.rs`, `emissions/manager.rs`, `emissions/tier_accounting.rs`) | epoch start, attested queue, activation time, promised and funded backfill, own checkpoint | constructor, distribute (three behaviours), drop | emitter, both ways |
| backstop tier shares (`backstop/src/backstop`) | per pool and tier: shares, tokens, queued shares; per user: shares and withdrawal queue | deposit, queue, dequeue, withdraw, forced exits, draw, donate | pools (draw, donate, bad-debt position), access controllers, tokens |
| backstop emission streams (`backstop/src/emissions`) | carries of three splits, per-tier stream and index, reward zone | distribute, gulp_emissions, claim, add / remove / update reward zone | emitter, pools, Comet |
| tier valuation (`backstop/src/dependencies/comet.rs`) | none | value of LP and plain tokens | Comet pools |
| pool reserves (`pool/src/pool`) | per reserve: rates, share supplies, credits; per user: positions | submit and its ten request kinds, flash loan, bad_debt, gulp, reconcile_loss, clawback, force_withdrawal | tokens, oracle, backstop |
| pool status (`pool/src/pool/status.rs`) | one of seven statuses | update_status, set_status | backstop `pool_data` |
| pool configuration (`pool/src/pool/config.rs`) | pool config, queued reserve changes, admin | update_pool, queue / cancel / set reserve, propose / accept admin | reserves (accrual on a rate change) |
| user-liquidation auctions (`pool/src/auctions`) | one auction per user, borrower-exit marker | create, fill, delete | positions, health factor |
| bad-debt auction (`tier_bad_debt.rs`) | one auction, the backstop's liabilities | create, fill, delete, default | backstop draw and tier values |
| interest auction (`tier_interest.rs`) | one auction, cursor, pending credit and carry per asset and tier | create, fill, delete, reconcile | reserve credit, backstop donate |
| protocol-fee auction (`protocol_fee_auction.rs`) | one auction, fee credit and carry | create, fill, delete, reconcile | reserve fee, BLNT burn |
| reserve emissions (`pool/src/emissions`) | stream and index per reserve side | gulp_emissions, claim, set weights | backstop |
| access control (`access.rs` of both) | none, external controller | permission checks | controller contract |
| pool factory (`pool-factory/src`) | deployed pools | deploy, is_pool | pool constructor |

What makes them correct, per component:

- emitter: each second is minted once, to the recipient of that second; a
  recipient has one drop under its own ceiling for ever; a recipient serves at
  least a queue; the one queue slot is always freed.
- migration: an activation belongs to the queue that was executed; the two
  checkpoints never lock each other; claims are backed by minted BLNT; the single
  funding call fits its ceiling; claims open.
- tier shares: pool and user ledgers agree; nobody dilutes anybody; the queue
  stays ordered and bounded; tiers over one token stay solvent together.
- reserves: positions add up to the supplies; rounding never favours a user; only
  losses open a shortfall, nobody leaves while there is one, and it is absorbed in
  rank order.
- bad debt: an open auction stays covered by its tier and by the debt; a fill in
  parts gains nothing over a fill at once; bad debt always resolves.
- credit auctions: what is set aside for the tiers never exceeds the credit; open
  lots stay backed through losses; no tier is starved by the cursor.
- user liquidations: a live auction stays deliverable; every unhealthy owner can be
  liquidated and loses little beyond the incentive; a forced exit is not escaped; debt
  that nothing secures reaches the backstop.
- emissions: no split, stream, restart, or claim loses or invents BLNT; weights are
  current when they count; the allowance of a pool covers what it owes.
- administration: no change is early or retroactive; the office passes only by its
  holder; the status follows the queue of the backstop; an index is for ever.

The hard behaviours: contests that interleave with distribution and with the
return of former recipients; state kept per address across tenures; lazily
accrued interest read at every load; integer division in every conversion;
custody that other parties can reduce behind the contract's back; queues and
grace windows that meet at their boundaries. Nothing runs concurrently inside a
call, no message is lost or reordered, and there is no crash between two steps of
a call.

## Modules

| module | models | extends |
| --- | --- | --- |
| `EmissionSchedule` | what the emitter promises, without recipients | |
| `Emitter` | the whole emitter; refines `EmissionSchedule` | |
| `BackstopMigration` | every backstop's lifecycle, composed with the emitter | `Emitter` |
| `MigrationProofs` | theorems about `Emitter` and `BackstopMigration` | `BackstopMigration`, `LedgerLemmas` |
| `EmissionStreams` | splits, streams, and claims of the active backstop | |
| `ReserveEmissions` | streams of a pool's reserves, composed with the backstop's | `EmissionStreams` |
| `EmissionProofs` | theorems about both modules of the emissions | `ReserveEmissions`, `LedgerLemmas` |
| `TierShares` | the tiers of one pool in the backstop | |
| `SharesProofs` | theorems about `TierShares` | it, `LedgerLemmas` |
| `PoolReserve` | the accounting of one reserve of a pool | |
| `PoolAdministration` | administrator, status, take rate, and reserve queue of a pool | |
| `AdministrationProofs` | theorems about `PoolAdministration` | it, TLAPS |
| `AuctionCurve` | modifiers and partial fills, pure operators | |
| `LiquidationAuction` | the auction of one owner's positions | `AuctionCurve` |
| `LiquidationProofs` | theorems about `LiquidationAuction` | it, `LedgerLemmas` |
| `BadDebtWaterfall` | the bad-debt auction over all tiers of a pool | `AuctionCurve` |
| `ReserveProofs` | theorems about `BadDebtWaterfall` and `PoolReserve`, the two ends of a loss | both, `LedgerLemmas` |
| `CreditAuctions` | interest and protocol-fee auctions of a pool | `AuctionCurve` |
| `CreditProofs` | theorems about `CreditAuctions` | it, `LedgerLemmas` |
| `LedgerLemmas` | division, roundings, and sums over finite sets, for the proofs | |
| `MCEmitter`, `MCMigration`, `MCShares`, `MCReserve`, `MCWaterfall`, `MCCredit`, `MCLiquidation`, `MCEmissions`, `MCAdministration` | instances for TLC | |

A definition whose comment begins with "Changed:" is a variant of the definition
after it with a plausible bug. The specifications never use it; it is there to
show that a property notices the bug.

### Emitter

One variable per storage key, under its name in the code. History variables
(`emitted`, `received`, `served`, `since`, `dropAmount`) record what the token
contract and an observer know. `Tick`, `SetBalance`, and `Declare` are the
environment: the clock, the contest tokens (anyone may move them), and what a
candidate contract answers. One unit of time is one second, one unit of BLNT one
whole BLNT, and the windows are CONSTANTS (`QueueSeconds` for 31 days,
`SwapGraceSeconds` for 7).

### BackstopMigration

Extends the emitter, so that both checkpoints live in one state. The three
behaviours of the backstop's `distribute` are three actions: `Backfill` (a
candidate), `Activate` (its first call as recipient), `OngoingDistribute`.
`Distribute` and `Drop` of the emitter are reachable only through a backstop,
because they need the recipient's authorization. A former recipient
may win again, as in the code; `returned` remembers who did.

### TierShares

The tiers of one pool, with the queue of each user as a sequence. The walks of
`withdraw_shares` and `dequeue_shares` over it are said by what they leave: the entries
after the first that makes the amount full (`LastTaken`), and what is over of that one
(`Rest`); a dequeue is the same walk from the other end (`RestOfOlder`). The permission, the pool's bad-debt position, and the migration
gate are environment toggles. Claims appear as the deposit of compounded LP.

### PoolReserve

One reserve. `Submit` folds a batch over a working copy, as the code folds requests over
its cached reserve, and then checks utilization, custody, and balance. A fill of
any auction appears as what it does to this reserve; which lots are legal is the
business of the auctions. Interest is the set of accruals the curve may return,
applied at every load while `due`. Health factors and what an account holds in
other reserves are free choices: the properties hold whatever they decide.
A flash loan is a borrow ahead of the other requests, paid out first.

### AuctionCurve, BadDebtWaterfall, CreditAuctions

The curve is exact: the code's step per ledger times `Ramp` is one, so modifiers
count in `1/Ramp`. An auction is a record with its age in ledgers; ages past
staleness are alike. `BadDebtWaterfall` keeps debt per reserve and tokens per tier,
and values both by constant prices coarse enough that dust rounds to nothing.
`Freeze` covers a deauthorized USDC tier and the closed weight gate of an LP tier:
both stop transfers, the first also takes the value. `Fill` draws from the tier at
once, as the code does. `CreditAuctions` keeps the take-rate credit of each
reserve with its parts per tier, and the protocol credit. `ReconcileLoss` is given
how much of a loss reaches either credit; `PoolReserve` models how that is decided.
The value of a tier is whatever the backstop may report.

### LiquidationAuction

One owner of a pool and everyone else. `Create` quotes as the code does, with the
incentive from the factors, the percentage of collateral, and the checks on the
health after; a full liquidation is checked as one of 95 percent. `CreateExit` is
the basket of a borrower who lost the permission to borrow. `Fill` takes a
percentage at the modifiers of the moment; whether the filler stays healthy is a
free choice. `Submit` is one request of the owner, with or without the deletion of
the auction, and `BadDebt`, `Clawback`, and `ForceWithdrawal` are what others may do
to the positions while the auction runs. Amounts are counted in underlying: `d_rate`
is one, `b_rate` is one or, once a default consumed the reserve, zero.

### EmissionStreams, ReserveEmissions

The first is the active backstop: `Distribute` splits what was minted 7:3, over the
pools of the zone, and over the tiers of a pool, with a field for every remainder the
code carries; `GulpTiers` turns the part of a pool's depositors into one stream per
tier, and the pool's own part into an allowance. Depositors settle against an index
when their shares change. The second adds one pool, whose gulp calls the backstop's,
and its streams per bToken and dToken. Unlike those of the backstop, which let the
time over an empty tier go by, they wait for a holder. `Next` is composed in the
second module, so that claims of both sides and a lapse of the allowance meet.
Changes of balances are free amounts here; `TierShares` and `PoolReserve` have their
rules.

### PoolAdministration

`proposed` and `queued` are temporary entries with their lifetime. A reserve counts
its interest in take-rate credit: curve times rate per tick while it is lent, so that
`earned` (history) can say what was owed at the rates of the time. `Touch` is the
accrual every call makes that loads a reserve for writing. The queued share of the
backstop is a free choice (`MoveBackstop`). A change that is queued during Setup keeps
its immediate unlock time after the pool opens, as docs/V2_SYSTEM_SPEC.md:189-193 has
it; `ChangesWaitAWeek` excepts it. `accept_admin` leaves the proposal in storage, and
`AdminHandsOver` shows that this is harmless.

## Runs

| run | instance | shows |
| --- | --- | --- |
| `emitter` | 2 recipients, 2 tokens, horizon 6, queue 2, grace 1 | `TenurePaid`, `DropCeilings`, `MinimumTenure`; implements `EmissionSchedule`; a queue is always resolved |
| `migration` | 2 backstops, an empty and a launch list, horizon 6, the emitter initialized at 0; one return | checkpoints and activations stay consistent; claims of a first tenure are backed and its funding fits |
| `migration_return_backing` | no lists, horizon 6 | violation: see Findings |
| `shares` | 1 depositor, an LP tier of up to 4 tokens and 5 shares, 2 tiers over one token | ledgers, order, dilution, custody |
| `reserve` | 2 users, balance up to 2, cap 2, interest 11/4, one custody loss, submissions of one or two requests | shares, shortfall, nobody gains by rounding or leaves a shortfall, order of absorption |
| `reserve_custody` | no custody loss at all | violation: see Findings |
| `waterfall` | 2 reserves, an LP and a USDC tier of up to 2 tokens, 3 outside events | cover, split fills, bad debt settles |
| `credit_auctions` | 2 reserves with credit up to 3 and 2, 2 tiers, losses up to 2 | backing, cancelled lots, rotation |
| `liquidation` | 2 reserves, owners with 1 or 2 collaterals, 2 prices and factors each, percentages 40, 95, 100, 3 outside acts | live auctions deliverable, unhealthy owners liquidable near the incentive, exits last, hopeless debt handed off |
| `liquidation_partial_fills` | the same, 1 outside act | violation: see Findings |
| `emissions` | 2 pools, 2 tiers, 2 users, 2 reserve tokens, horizon 3, 2 moves | accounting of splits and streams, current weights, allowance |
| `administration` | 1 asset, 3 configurations, 2 accounts, 2 rates, 4 levels, horizon 3, 4 acts | timelock, accrual before a change, hand-over of the office, status |

A type invariant is checked as the first part of the structural invariant of its
module (`SharesConserved`, `SharesMatchPositions`, `CheckpointNotAhead`,
`AuctionIsCovered`, `PendingIsBacked`, `SoldIsOwned`, `EveryTokenIsAccounted`,
`ReserveStreamsPayTheirTranche`).

**Why the bounds are enough.** The emitter's windows keep their order relations
(a queue longer than the attestation and grace windows together, a grace window
that is not empty) and the horizon holds two complete contests, so a recipient can
be replaced and return once. In `migration`
that takes six ticks: a queue made at 0 can be swapped in, cancelled, or left to expire
at 2, and one made at 2 can be swapped in at 4. So a candidate may hold the attestation
of a queue that came to nothing when a later queue of its own is executed, and a launch
recipient may return and distribute again. With a horizon of five neither happens.
`InitializedAtZero` drops the behaviours in which time passes before the emitter is
initialized; until then nothing reads the clock, so each of them is another behaviour
shifted, with less time left. Two tokens let a swap change what the next contest
is decided in. The lists lie on both sides of both ceilings. The
reserve's rates are over 4 instead of 10^12: a coarse scale makes every rounding
large against the amounts, so a rounding in the wrong direction shows after one
or two calls. Supplies up to 2 tokens are enough for utilization of 1/2 and 1,
an interest step that pushes liabilities over supply, and a default that clamps
the rate. `MaxBalance` stops calls that would take in more tokens than that,
without it every rounding in the reserve's favour could be repeated for ever.
The auction instances shorten the curve to one or two ledgers a side and fills to
halves or thirds, which keeps an early, a full, a discounted, and a free fill apart;
a bid of one dToken and a lot of one token are where rounding shows. One batch of
the canonical bid holds one reserve, so two reserves take two auctions. Losses of
one and two against a credit of three leave remainders in every part of the split.
The liquidation instance keeps percentages whole and amounts of thousands, so that
roundings are small against them as in the code; the prices and factors make each owner
healthy, unhealthy, and deeper in debt than the collateral is worth. `PremiumIsBounded`
and `UnhealthyCanBeLiquidated` are stated for configurations whose product of collateral
and liability factor is at least a third, and for positions of at least one token: below
that the percentage checks do not bound the lot, and single shares make any percentage
too coarse. The emission instance lets an allowance lapse after a tick and streams
last two, so that a lapse, a restart over an unfinished stream, and an idle stream all
happen within three ticks; in the code an allowance lasts 180 days and a stream 7,
which makes the lapse rarer and not different. One composition of the Comet pools is
enough: only ratios of weights count, and deposits change them. `LpSupply` leaves room
for every deposit of the run. The administration
instance lets a proposal and a queued change expire as soon as the timelock is over.
`MaxTime`, `MaxTicks`, `MaxLosses`, `MaxTokens`, `MaxCredit`, `MaxFee`, and
`MaxOutside` bound the other counters.
Symmetry is used over users and recipients in runs that check no liveness.
Deadlock is not checked: at its horizon every instance may stop.

**Fairness.** `KeeperSpec` assumes that time passes and that someone uses
`cancel_swap_backstop` once it stays possible; the call needs no authorization.
It does not assume that anyone executes a swap. `MigrationKeeperSpec` assumes
that someone calls the permissionless `drop` once it stays possible.
`WaterfallKeeperSpec` assumes keepers for the permissionless creation, deletion, and
default, and that not every auction goes stale unfilled (strong fairness of a
full fill: after 400 ledgers the lot costs nothing). A frozen USDC tier may stay
frozen; the weight gate of an LP tier opens again. Handoffs and deposits end
(`MaxOutside`): a stream of new deposits, each drawn for nothing, could otherwise
put off the end of a bad debt for ever. `LiquidationKeeperSpec` assumes that ledgers close,
and keepers for the permissionless deletion of a stale auction and for `bad_debt`; it
does not assume that anyone fills. `AdministrationKeeperSpec` assumes that someone calls
the permissionless `update_status`. The pool may need two refreshes to be frozen: from
the administrator's Active to on ice, and from there.

## Proofs

Every theorem holds for all values of the constants that satisfy the assumptions of the
component's module, which TLC evaluates in each run of it. For each component the
properties follow from one inductive invariant (`IInv`; `MInv` for the migration), which
`Init` establishes and every action preserves, one lemma per action. Each was checked by
TLC on the instance of its run before it was proved. What an invariant adds to the
property is what the code relies on without saying so:

- `MigrationProofs`, on the emitter: the type invariant, `TenurePaid`, `DropCeilings`,
  `CandidateIsNotIncumbent`, `MinimumTenure`, and that the emitter implements
  `EmissionSchedule`. `TenurePaid` alone is not inductive: a swap starts the newcomer's
  clock at `now`, which is right only if all the seconds it served before were paid when
  it left. So `IInv` keeps `TenurePaid` for every address, with the facts that before
  initialization nothing has been served or paid, that `lastDistro` of the recipient is
  set and not ahead of `now`, and that the sum of what was received is what was emitted.
  `MinimumTenure` needs that the unlock time of any queue lies a whole queue after
  `since`; `DropCeilings` that an address that has not dropped has dropped nothing. The
  refinement maps a swap to one `Emit`: the checkpoint moves from the outgoing to the
  incoming recipient, and both are `now`.
- `MigrationProofs`, on the migration: the four properties of the run `migration`, over any number of
  backstops. An attestation is of the open queue, of the one that was executed, or too
  old to matter (`AttestsItsQueue`): this is where the assumption that the attestation
  and grace windows together are shorter than a queue is used. `FirstTenureIsBacked`
  counts the promises of a tenure against what was minted and what the emitter still
  owes (`TenureIsBacked`). `FundingFits` needs that a launch-sized list belongs to the
  recipient that `initialize` named and promises no backfill in its first tenure
  (`LaunchListsAtLaunch`), that promises stay in their allowance (`BooksInOrder`), and
  that the ceiling of a launch is not under that of a migration.
- `SharesProofs`: the five properties of the run `shares`, for finite sets of tiers and
  users. `QueueOrdered` needs that no entry unlocks later than one queued now
  (`NothingBeyondLock`). A withdrawal is shown to leave the sum of the queue smaller by
  what was taken through the positions of what is left over; `NoDilution` and
  `DepositKeepsValue` are products of four numbers, and follow from
  bounds on one division at a time.
- `ReserveProofs`, on the waterfall: `AuctionIsCovered` and `NoLotAheadOfItsBid`, which are inductive
  together. A fill takes the undiscounted parts off the auction and no more than them off
  the debt and the tier, so what remains stays covered; of the parts, the bid's is rounded
  up and the lot's down, so after any sequence of fills at least the bid's share of the
  lot remains (`PartRoundedUp`, `PartRoundedDown`, `ShareKept`).
- `ReserveProofs`, on the reserve: all five properties of the run `reserve`, for finite
  sets of users, any scales, rates, fees, and interest, and batches of any length.
  `SharesMatchPositions` is inductive as it stands, and every other proof starts from it.
  - One relation carries the requests. `Moves(v, w)` says of two states of the working
    copy of a submission that the shares in `w` still add up to the supplies, that rates
    and fees are as in `v`, and that the reserve took in at least what the shares
    that changed are worth. Every kind of request moves the copy, one lemma each
    (`SupplyingMoves` to `FillingFeeMoves`), the relation is transitive, and so a batch
    moves it as well (`BatchMoves`). A liquidation moves shares between two accounts, one
    of them perhaps the backstop by a hand-off, and is followed through each transfer
    (`CollateralPasses`, `DebtPasses`). What one request
    preserves, a batch of any length preserves (`BatchInduction`): the fold is a function
    on sets of places, and a smallest set where it fails does not exist.
  - A load that accrues never raises what the reserve owes its suppliers and credits by
    more than what borrowers owe it (`AccrualKeepsBalance`): the fee and the take
    rate are parts of the interest charged, rounded down, and so is the rate on the rest.
  - The calls fall into three classes: those that move shares between accounts and the
    pool (`Exchanges`: submissions, `bad_debt`, the two forced exits), those that only
    change rates and credits (`Revalues`: gulp, reconciliation, refresh), and the default
    of the backstop. `OnlyLossesOpenAShortfall` and `NobodyLeavesAShortfall` are shown per
    class; the second because each payment passes the custody check (`Ends`).
  - `LossIsAbsorbedInOrder` follows the three steps of `execute_reconcile_loss`
    (`Absorbed`): the cut of the rate is rounded up, so that suppliers give up at least
    the loss, and by less than one unit of rate per share and one token more (`RateReduced`).
  - `NobodyGainsByRounding` is the fourth reading of `Moves`: if only one account
    changed, its shares are all that changed (`OneChange`).
- `CreditProofs`: `PendingIsBacked`, `LotsAreBacked`, and `EveryTierGetsItsTurn`, for any
  number of tiers and any weights. A split never sets aside more than there is
  (`PartsWithinAmount`), and a loss shrinks the sum of the parts at least as much as the
  credit, because every part is rounded down (`ShrunkenPartsFit`). Turns are counted by a
  measure: how often a tier was passed over, plus its distance from the cursor, stays
  under the number of tiers (`TurnsAdvance`).
- `LiquidationProofs`: `SoldIsOwned` and `ExitIsNotEscaped`. A discount applies only once
  the auction is older than the lot's ramp; before, a full fill takes all that was
  asked. So the invariant keeps that the bid of an exit is the owner's whole debt
  until somebody touches it (`ExitAsksForAll`), and that its lot is never empty
  (`ExitOffersSomething`), for which the incentive must be at least one: it is, because
  no factor is above one (`LFactor`, `CFactors`).
  `InsolventOwnersAreLiquidated` is the part of `UnhealthyCanBeLiquidated` that does hold for
  every scale, mix of prices and factors, and rounding: once the collateral is worth at
  most 95 percent of the debt, a full liquidation is accepted and offers everything. The
  incentive being at least one, what 95 percent of the debt buys is all of it
  (`DebtIsPaidFor`).
- `EmissionProofs`: the five properties of the run `emissions`, for finite sets of pools,
  tiers, depositors, and tokens, and any scales and periods. Each division leaves a
  remainder, and the proofs show that the code carries it: `AdvanceIsExact` for the
  index of a stream, `RestartIsExact` for its rate, `AccrualIsExact` for a depositor,
  `VestedIsExact` and `SettlementIsExact` for a reserve token. An index pays its growth
  once per share, so that the sum over depositors needs the balance of a tier to be what
  its depositors hold, and nobody to be ahead of the index (`TierOK`); that a stream which
  has ended keeps no remainder is what lets a restart add to it (`StreamOK`). A token
  without a schedule owes nobody anything (`TokenOK`), or the code, which skips it in
  a claim, would forget what it owes. Over tiers and tokens the sums are
  compared term by term (`FundedStep`, `PartIncrease`), and `GrantsCoverTheStreams` follows
  from what each call adds to `Owed` and takes from `Ungulped`.
- `AdministrationProofs`: the type invariant, `OneIndexEach`,
  `TakeRateIsNotRetroactive`, `ChangesWaitAWeek`, and `AdminHandsOver`, from an `IInv`
  that adds three facts: the administrator is the proposer or the choice of the last
  proposal (so an accepted proposal is void or repeats itself); what is queued once the
  pool is open unlocks a week after it was queued; only listed reserves are lent (so
  `update_pool`, which accrues the reserve list, misses nothing that earns).
  `TouchCharges` is the heart of the third theorem: a call may change price or lending
  of the reserves it touches, and of no others. The product of time, curve, and rate is
  nonlinear; `OneTickMore` isolates the one fact about it.

`LedgerLemmas` holds what they share. The provers cannot use the induction theorems of
the library, whose parameters are operators. Sums over finite sets are within reach all
the same: a set of counterexamples among the subsets of a finite set has a minimal one
(`MinimalSubset`, from the well-foundedness of strict inclusion), and taking one element
from that leaves none. So the folds of the modules are shown to be sums in any order
(`SumRemove`), to change by what one term changes (`SumChange`), to add, scale, compare,
split, and survive renaming.

Only model-checked: the four liveness properties (`QueueResolves`, `BadDebtSettles`,
`BadDebtHandedOff`, `StatusFollowsTheQueue`), which need fairness and ENABLED; and
`UnhealthyCanBeLiquidated` and `PremiumIsBounded` of `LiquidationAuction`. These two are not
true for every value of the constants: a reserve whose whole token counts as one share, or
a price of one at the oracle's scale, lets the rounding of a single share outweigh the
percentages. They hold for amounts that are large against the roundings, as in the code,
and the run `liquidation` shows them for such an instance.

## Findings

1. `migration_return_backing` (`backstop/src/emissions/manager.rs:147`). A
   recipient that is replaced and later returns measures elapsed time from its own
   old checkpoint. The seconds in between were minted to its successor, so it promises
   its depositors BLNT it never received.
2. `reserve_custody` (`pool/src/pool/gulp.rs:95`). Interest may push the
   liabilities of a fully lent reserve over its supply. If all of it is
   defaulted, `b_rate` stops at zero and the rest of the loss stays as a gap between
   balance and credits. `reconcile_loss` cuts the credits for it although no custody
   was lost, where the specification has it return zero.

3. `liquidation_partial_fills` (`pool/src/auctions/user_liquidation_auction.rs:297`).
   An incomplete fill is settled at the modifiers of the moment and the owner is looked
   at only after a complete one. Once the bid falls, a part takes more weighted
   collateral than debt and leaves the owner worse off, where
   docs/V3_SYSTEM_SPEC.md:351 has such a fill fail.

Remarks that are no findings:

- A partial fill of a bad-debt bid of one dToken takes the debt whole and leaves some
  of the lot (`tier_bad_debt.rs:332`): the backstop then has no liability, and
  depositors may withdraw while the auction is open, where docs/V3_SYSTEM_SPEC.md:629
  keeps them blocked. The amounts are dust, and staleness ends such an auction.
- Tranches below one BLNT are refused by a pool's gulp. After an allowance lapsed, what
  had been granted stays uncovered until later gulps grant more; `GrantsCoverTheStreams`
  holds until then.
- A loss that the protocol's credit covers in full normally leaves the rate alone. Where
  earlier losses have left the remaining bTokens worth nothing together, though,
  `gulp.rs:130` takes nothing from nothing for a complete exhaustion and sets `b_rate` to
  zero. Nobody loses anything by it, which is why the second part of
  `LossIsAbsorbedInOrder` speaks of the worth of the supply and not of the rate.
- The first split of the emissions leaves no remainder in practice; its carry is
  modelled all the same.

`FundingFits` is stated for backstops that have not returned. For one that has it fails, by the
cause of the first finding: a launch recipient with a launch-sized list, replaced
before it first distributed, accrues backfill as a candidate that nothing was
reserved for.

## Not modelled

Storage lifetimes and archival, except of the temporary entries of the administration
and of the allowance; event contents; the arithmetic width of i128 (every sum in the
code is checked and panics); the admission checks on the emission token; oracle prices,
which are free choices; the range checks of parameters. The components marked
`not_modelled` in `PROJECT.json` have no state of their own that changes (tier
valuation, access control), only grow a set (the factory), or are not contracts of
this repository. Of the partly modelled ones:

- `PoolAdministration` leaves out `max_positions`, `min_collateral`, and the reset of
  `ir_mod`.
- `BackstopMigration` keeps the total a candidate promised, not its split.
- `PoolReserve` has one reserve; what an account holds elsewhere is a free choice, and
  the interest curve is a set of accruals.
- `CreditAuctions` has no shares of a tier: it also sells to a tier with value but
  without shares, for which the code refuses to build a bid.
- `EmissionStreams` asks for a distribution in the same tick where the code accepts one
  up to an hour old.
- `TierShares` takes claims as deposits; `EmissionStreams` has them whole.

About seven in ten lines of the source files are unit tests written into them
(`mod tests`), and of the others a fifth are events, errors, and storage accessors. The
definitions here stand for about half of the lines that are not tests.
