---------------------------- MODULE EmissionStreams ----------------------------
(***************************************************************************)
(* The emissions of the active backstop (backstop/src/emissions): what the *)
(* emitter mints is split 7:3 between depositors and pools, then over the  *)
(* pools of the reward zone by the BLNT behind their active deposits, then *)
(* over the BLNT tiers of a pool.  A pool gulps its part at most once a    *)
(* day: the part of its depositors becomes one stream per tier, which an   *)
(* index shares out lazily; its own part an allowance.                     *)
(*                                                                         *)
(* Divisions are floors over coarse scales, and every remainder the code   *)
(* carries is a field here.                                                *)
(***************************************************************************)
EXTENDS Integers, FiniteSets, Functions

CONSTANTS
  Pools,         \* registered pools
  Tiers,         \* canonical BLNT LP tokens: the tiers that earn
  Users,         \* depositors and users of the pool
  Compositions,  \* BLNT reserves, per tier, the Comet pools may hold
  LpSupply,      \* supply of a Comet pool
  Deposited,     \* Deposited[p][t][u]: active shares at the start
  Rewarded,      \* pools in the reward zone at the start
  Rate,          \* BLNT minted in one tick
  Scale,         \* SCALAR_7
  StreamTicks,   \* STREAM_SECONDS and EMISSION_STREAM_SECONDS, 7 days
  GulpTicks,     \* POOL_EMISSION_GULP_INTERVAL_SECONDS, 1 day
  AllowanceTicks,\* LEDGER_BUMP_USER, 180 days
  MaxZone        \* MAX_RZ_SIZE, 30

ASSUME StreamsAssumption ==
  /\ IsFiniteSet(Pools) /\ IsFiniteSet(Tiers) /\ IsFiniteSet(Users)
  /\ Deposited \in [Pools -> [Tiers -> [Users -> Nat]]]
  /\ Rewarded \subseteq Pools /\ Cardinality(Rewarded) <= MaxZone
  /\ \A c \in Compositions, t \in Tiers : c[t] \in Nat
  /\ LpSupply \in Nat \ {0} /\ Rate \in Nat /\ Scale \in Nat \ {0}
  /\ StreamTicks \in Nat \ {0} /\ GulpTicks \in Nat /\ AllowanceTicks \in Nat
  /\ MaxZone \in Nat \ {0}

VARIABLES
  now,       \* the ledger's time
  zone,      \* the reward zone
  ledger,    \* OngoingEmissionState
  ongoing,   \* ongoing[p]: PoolOngoingEmissions
  lastGulp,  \* lastGulp[p], or Never
  balance,   \* balance[p][t]: PoolBalance
  stream,    \* stream[p][t]: BackstopEmissionData
  position,  \* position[p][t][u]: UserBalance and UserEmissionData
  allowance, \* allowance[p]: BLNT the backstop lets the pool pay out, and until when
  history    \* history[p][t]: BLNT gulped, and what no depositor earned, over Scale

backstopVars ==
  <<zone, ledger, ongoing, lastGulp, balance, stream, position, allowance, history>>

Never == -1

\* A tier without emission data.
NoStream == [eps |-> 0, expiration |-> Never, index |-> 0, indexCarry |-> 0,
             last |-> 0, scheduleCarry |-> 0]

Least(a, b) == IF a < b THEN a ELSE b
Most(a, b) == IF a < b THEN b ELSE a

Sum(f, S) == FoldFunctionOnSet(+, 0, f, S)

\* proportional_floor
Portion(value, part, whole) == (value * part) \div whole

StreamsInit ==
  LET shares(p, t) == Sum(Deposited[p][t], Users)
  IN /\ now = 0
     /\ zone = Rewarded
     /\ ledger = [total |-> 0, toBackstop |-> 0, toPools |-> 0, claimed |-> 0,
                  splitCarry |-> 0, backstopCarry |-> 0, poolCarry |-> 0, last |-> 0]
     /\ ongoing = [p \in Pools |->
          [active |-> [t \in Tiers |-> shares(p, t)], pending |-> [t \in Tiers |-> 0],
           tierCarry |-> 0, accrued |-> 0]]
     /\ lastGulp = [p \in Pools |-> Never]
     /\ balance = [p \in Pools |-> [t \in Tiers |->
          [shares |-> shares(p, t), q4w |-> 0, tokens |-> shares(p, t)]]]
     /\ stream = [p \in Pools |-> [t \in Tiers |-> NoStream]]
     /\ position = [p \in Pools |-> [t \in Tiers |-> [u \in Users |->
          [shares |-> Deposited[p][t][u], q4w |-> 0, accrued |-> 0, carry |-> 0, index |-> 0]]]]
     /\ allowance = [p \in Pools |-> [amount |-> 0, until |-> Never]]
     /\ history = [p \in Pools |-> [t \in Tiers |-> [gulped |-> 0, unearned |-> 0]]]

------------------------------------------------------------------------------
(* Weights *)

ConvertToTokens(b, shares) ==
  IF b.shares = 0 THEN 0
  ELSE IF b.shares = shares THEN b.tokens
  ELSE Portion(shares, b.tokens, b.shares)

ConvertToShares(b, tokens) ==
  IF b.shares = 0 THEN tokens
  ELSE IF b.tokens = 0 THEN 0
  ELSE Portion(tokens, b.shares, b.tokens)

ActiveShares(b) == b.shares - b.q4w

\* pool_active_emission_assets
ActiveAssets(b) == ConvertToTokens(b, ActiveShares(b))

\* BLNT behind active LP of the tiers, at the composition c of the Comet pools.
Underlying(c, active) == [t \in Tiers |-> Portion(active[t], c[t], LpSupply)]

WeightIn(c, active) == Sum(Underlying(c, active), Tiers)

\* The code refuses to weigh more LP than the Comet pools have issued.
WithinSupply(active, ps) == \A t \in Tiers : Sum([p \in ps |-> active[p][t]], ps) <= LpSupply

ActiveNow == [p \in Pools |-> [t \in Tiers |-> ActiveAssets(balance[p][t])]]

SpotWeight(c, p) == WeightIn(c, ActiveNow[p])

\* refresh_pool_ongoing_assets, after a change of balances
Refreshed(o, b) == [o EXCEPT !.active = [t \in Tiers |-> ActiveAssets(b[t])]]

\* add_to_reward_zone.  A full zone gives up a lighter pool.  The distribution must be
\* recent: an hour old in the code, which is less than a tick here.
AddReward(p, removed, c) ==
  /\ p \notin zone
  /\ \A x \in {p, removed} : WithinSupply(ActiveNow, {x})
  /\ SpotWeight(c, p) > 0
  /\ zone # {} => now = ledger.last
  /\ IF Cardinality(zone) < MaxZone THEN removed = p
     ELSE removed \in zone /\ SpotWeight(c, p) > SpotWeight(c, removed)
  /\ zone' = (zone \ {removed}) \cup {p}
  /\ ongoing' = [ongoing EXCEPT ![p] = Refreshed(@, balance[p])]
  /\ UNCHANGED <<ledger, lastGulp, balance, stream, position, allowance, history>>

RemoveReward(p, c) ==
  /\ p \in zone
  /\ WithinSupply(ActiveNow, {p})
  /\ SpotWeight(c, p) = 0
  /\ now = ledger.last
  /\ zone' = zone \ {p}
  /\ UNCHANGED <<ledger, ongoing, lastGulp, balance, stream, position, allowance, history>>

------------------------------------------------------------------------------
(* Distribution *)

\* Changed: what the last split of the pool left over is overwritten.
CreditedAnew(o, weights, toBackstop, toPool) ==
  LET total == Sum(weights, Tiers)
      part == [t \in Tiers |-> IF total = 0 THEN 0 ELSE Portion(toBackstop, weights[t], total)]
  IN [o EXCEPT !.pending = [t \in Tiers |-> @[t] + part[t]],
               !.tierCarry = IF total = 0 THEN @ ELSE toBackstop - Sum(part, Tiers),
               !.accrued = @ + toPool]

\* allocate_pool_backstop_emissions, and the pool's own part
Credited(o, weights, toBackstop, toPool) ==
  LET distribution == toBackstop + o.tierCarry
      total == Sum(weights, Tiers)
      part == [t \in Tiers |-> IF total = 0 THEN 0 ELSE Portion(distribution, weights[t], total)]
  IN [o EXCEPT !.pending = [t \in Tiers |-> @[t] + part[t]],
               !.tierCarry = IF total = 0 THEN @ ELSE distribution - Sum(part, Tiers),
               !.accrued = @ + toPool]

\* distribute, with the emitter minting every second up to now
Distribute(c) ==
  LET amount == (now - ledger.last) * Rate
      split == amount + ledger.splitCarry
      backstopSplit == Portion(split, 7, 10)
      poolSplit == Portion(split, 3, 10)
      backstopPart == backstopSplit + ledger.backstopCarry
      poolPart == poolSplit + ledger.poolCarry
      weight == [p \in Pools |-> WeightIn(c, ongoing[p].active)]
      eligible == Sum(weight, zone)
      portion(value) ==
        [p \in zone |-> IF eligible = 0 THEN 0 ELSE Portion(value, weight[p], eligible)]
      toBackstop == portion(backstopPart)
      toPool == portion(poolPart)
  IN /\ zone # {}
     /\ now > ledger.last
     /\ WithinSupply([p \in zone |-> ongoing[p].active], zone)
     /\ ongoing' = [p \in Pools |->
          IF p \notin zone THEN ongoing[p]
          ELSE Credited(ongoing[p], Underlying(c, ongoing[p].active), toBackstop[p], toPool[p])]
     /\ ledger' = [total |-> ledger.total + amount,
                   toBackstop |-> ledger.toBackstop + Sum(toBackstop, zone),
                   toPools |-> ledger.toPools + Sum(toPool, zone),
                   claimed |-> ledger.claimed,
                   splitCarry |-> split - backstopSplit - poolSplit,
                   backstopCarry |-> backstopPart - Sum(toBackstop, zone),
                   poolCarry |-> poolPart - Sum(toPool, zone),
                   last |-> now]
     /\ UNCHANGED <<zone, lastGulp, balance, stream, position, allowance, history>>

------------------------------------------------------------------------------
(* Streams *)

\* What a stream releases between its last checkpoint and now, over Scale.  Its
\* last checkpoint also releases what the rate rounded off.
Released(s) ==
  LET end == Least(now, s.expiration)
  IN IF end <= s.last THEN 0
     ELSE (end - s.last) * s.eps + IF end = s.expiration THEN s.scheduleCarry ELSE 0

\* advance_emission_data.  Without active shares what is released is lost.
Advanced(s, shares) ==
  LET numerator == Released(s) * Scale + s.indexCarry
      ended == s.last < s.expiration /\ s.expiration <= now
      moved == [s EXCEPT !.last = now, !.scheduleCarry = IF ended THEN 0 ELSE @]
  IN IF s = NoStream THEN NoStream
     ELSE IF shares = 0 \/ Least(now, s.expiration) <= s.last THEN moved
     ELSE [moved EXCEPT !.index = @ + numerator \div shares, !.indexCarry = numerator % shares]

\* Changed: what the rate rounds off is not reduced to a remainder.
RestartedOwing(s, pending) ==
  LET total == pending * Scale + Most(0, s.expiration - now) * s.eps + s.scheduleCarry
  IN [s EXCEPT !.eps = total \div StreamTicks, !.scheduleCarry = total,
               !.expiration = now + StreamTicks, !.last = now]

\* set_backstop_emission_eps, on an advanced stream
Restarted(s, pending) ==
  LET total == pending * Scale + Most(0, s.expiration - now) * s.eps + s.scheduleCarry
  IN [s EXCEPT !.eps = total \div StreamTicks, !.scheduleCarry = total % StreamTicks,
               !.expiration = now + StreamTicks, !.last = now]

\* update_user_emissions
Accrued(user, index) ==
  LET numerator == user.shares * (index - user.index) + user.carry
  IN [user EXCEPT !.accrued = @ + numerator \div (Scale * Scale),
                  !.carry = numerator % (Scale * Scale),
                  !.index = index]

Now(p, t) == Advanced(stream[p][t], ActiveShares(balance[p][t]))

\* What the advance of a stream releases to nobody.
Lost(p, t) == IF ActiveShares(balance[p][t]) = 0 THEN Released(stream[p][t]) ELSE 0

Checkpointed(p, t, u) == Accrued(position[p][t][u], Now(p, t).index)

\* update_emissions before a change of u's balance, and the change.
Move(p, t, u, user, b) ==
  /\ stream' = [stream EXCEPT ![p][t] = Now(p, t)]
  /\ history' = [history EXCEPT ![p][t].unearned = @ + Lost(p, t)]
  /\ position' = [position EXCEPT ![p][t][u] = user]
  /\ balance' = [balance EXCEPT ![p][t] = b]
  /\ ongoing' = [ongoing EXCEPT ![p] = Refreshed(@, [balance[p] EXCEPT ![t] = b])]
  /\ UNCHANGED <<zone, ledger, lastGulp, allowance>>

Deposit(p, t, u, amount) ==
  LET b == balance[p][t]
      shares == ConvertToShares(b, amount)
  IN /\ shares > 0
     /\ Move(p, t, u, [Checkpointed(p, t, u) EXCEPT !.shares = @ + shares],
             [b EXCEPT !.shares = @ + shares, !.tokens = @ + amount])

\* Changed: the shares leave before the checkpoint.
CheckpointedLate(p, t, u, amount) ==
  Accrued([position[p][t][u] EXCEPT !.shares = @ - amount, !.q4w = @ + amount], Now(p, t).index)

\* The depositor's record once amount is queued.
QueuedUser(p, t, u, amount) ==
  [Checkpointed(p, t, u) EXCEPT !.shares = @ - amount, !.q4w = @ + amount]

\* Queued shares stop earning, and earn again once they are dequeued.
QueueWithdrawal(p, t, u, amount) ==
  /\ amount <= position[p][t][u].shares
  /\ Move(p, t, u, QueuedUser(p, t, u, amount), [balance[p][t] EXCEPT !.q4w = @ + amount])

DequeueWithdrawal(p, t, u, amount) ==
  /\ amount <= position[p][t][u].q4w
  /\ Move(p, t, u, [Checkpointed(p, t, u) EXCEPT !.shares = @ + amount, !.q4w = @ - amount],
          [balance[p][t] EXCEPT !.q4w = @ - amount])

\* Withdrawal of queued shares; when they mature is the business of TierShares.
Withdraw(p, t, u, amount) ==
  LET b == balance[p][t]
      tokens == ConvertToTokens(b, amount)
  IN /\ amount <= position[p][t][u].q4w
     /\ tokens = 0 => b.tokens = 0
     /\ Move(p, t, u, [Checkpointed(p, t, u) EXCEPT !.q4w = @ - amount],
             [shares |-> b.shares - amount, q4w |-> b.q4w - amount, tokens |-> b.tokens - tokens])

\* draw and donate change the tokens, not the shares: no stream is touched.
Revalue(p, t, tokens) ==
  /\ balance' = [balance EXCEPT ![p][t].tokens = tokens]
  /\ ongoing' = [ongoing EXCEPT ![p] = Refreshed(@, balance'[p])]
  /\ UNCHANGED <<zone, ledger, lastGulp, stream, position, allowance, history>>

Draw(p, t, amount) ==
  /\ amount <= balance[p][t].tokens
  /\ Revalue(p, t, balance[p][t].tokens - amount)

Donate(p, t, amount) == Revalue(p, t, balance[p][t].tokens + amount)

\* Changed: compounded LP is not added to the cached weight.
ClaimRefreshesNone(o, b) == o

ClaimRefreshes(o, b) == Refreshed(o, b)

\* execute_claim of a backstop tier in several pools: the BLNT becomes lp LP
\* tokens, which are credited to the same positions in proportion.
ClaimTier(u, t, ps, lp) ==
  LET due == [p \in ps |-> Checkpointed(p, t, u).accrued]
      amount == Sum(due, ps)
      tokens == [p \in Pools |-> IF p \in ps /\ amount > 0 THEN Portion(lp, due[p], amount) ELSE 0]
      mint == [p \in Pools |-> ConvertToShares(balance[p][t], tokens[p])]
  IN /\ ps # {}
     /\ amount > 0 => /\ lp > 0
                      /\ ledger.claimed + amount <= ledger.toBackstop
                      /\ \A p \in ps : tokens[p] > 0 => mint[p] > 0
     /\ ledger' = [ledger EXCEPT !.claimed = @ + amount]
     /\ stream' = [p \in Pools |->
          IF p \in ps THEN [stream[p] EXCEPT ![t] = Now(p, t)] ELSE stream[p]]
     /\ history' = [p \in Pools |->
          IF p \in ps THEN [history[p] EXCEPT ![t].unearned = @ + Lost(p, t)] ELSE history[p]]
     /\ position' = [p \in Pools |->
          IF p \notin ps THEN position[p]
          ELSE [position[p] EXCEPT ![t][u] =
                  [Checkpointed(p, t, u) EXCEPT !.accrued = 0, !.shares = @ + mint[p]]]]
     /\ balance' = [p \in Pools |->
          [balance[p] EXCEPT ![t].shares = @ + mint[p], ![t].tokens = @ + tokens[p]]]
     /\ ongoing' = [p \in Pools |->
          IF tokens[p] > 0 THEN ClaimRefreshes(ongoing[p], balance'[p]) ELSE ongoing[p]]
     /\ UNCHANGED <<zone, lastGulp, allowance>>

\* An allowance reads as zero once it has expired.
Allowed(p) == IF now <= allowance[p].until THEN allowance[p].amount ELSE 0

\* Changed: a new allowance replaces what was left of the old one.
GrantedAnew(p, amount) == [amount |-> amount, until |-> now + AllowanceTicks]

Granted(p, amount) == [amount |-> Allowed(p) + amount, until |-> now + AllowanceTicks]

\* gulp_emissions of the backstop, called by the pool p
GulpTiers(p) ==
  LET o == ongoing[p]
  IN /\ lastGulp[p] = Never \/ lastGulp[p] + GulpTicks <= now
     /\ o.accrued + Sum(o.pending, Tiers) > 0
     /\ stream' = [stream EXCEPT ![p] = [t \in Tiers |->
          IF o.pending[t] = 0 THEN stream[p][t] ELSE Restarted(Now(p, t), o.pending[t])]]
     /\ history' = [history EXCEPT ![p] = [t \in Tiers |->
          IF o.pending[t] = 0 THEN @[t]
          ELSE [gulped |-> @[t].gulped + o.pending[t], unearned |-> @[t].unearned + Lost(p, t)]]]
     /\ ongoing' = [ongoing EXCEPT ![p].pending = [t \in Tiers |-> 0], ![p].accrued = 0]
     /\ allowance' = [allowance EXCEPT ![p] =
          IF o.accrued > 0 THEN Granted(p, o.accrued) ELSE @]
     /\ lastGulp' = [lastGulp EXCEPT ![p] = now]
     /\ UNCHANGED <<zone, ledger, balance, position>>

------------------------------------------------------------------------------
(* Properties *)

StreamRecord == [eps : Nat, expiration : Nat \cup {Never}, index : Nat, indexCarry : Nat,
                 last : Nat, scheduleCarry : 0..StreamTicks-1]

StreamsTypeOK ==
  /\ now \in Nat /\ zone \subseteq Pools
  /\ ledger \in [total : Nat, toBackstop : Nat, toPools : Nat, claimed : Nat, splitCarry : Nat,
                 backstopCarry : Nat, poolCarry : Nat, last : Nat]
  /\ ongoing \in [Pools -> [active : [Tiers -> Nat], pending : [Tiers -> Nat],
                            tierCarry : Nat, accrued : Nat]]
  /\ lastGulp \in [Pools -> Nat \cup {Never}]
  /\ balance \in [Pools -> [Tiers -> [shares : Nat, q4w : Nat, tokens : Nat]]]
  /\ stream \in [Pools -> [Tiers -> StreamRecord]]
  /\ position \in [Pools -> [Tiers -> [Users -> [shares : Nat, q4w : Nat, accrued : Nat,
                                                 carry : 0..Scale*Scale-1, index : Nat]]]]
  /\ allowance \in [Pools -> [amount : Nat, until : Nat \cup {Never}]]
  /\ history \in [Pools -> [Tiers -> [gulped : Nat, unearned : Nat]]]

\* What is left of a stream's schedule, over Scale.
Unreleased(s) ==
  IF s.last < s.expiration THEN (s.expiration - s.last) * s.eps + s.scheduleCarry ELSE 0

\* What was gulped for the tiers of a pool, and what waits for the next gulp.
GulpedFor(p) == Sum([t \in Tiers |-> history[p][t].gulped], Tiers)
Waiting(p) == Sum(ongoing[p].pending, Tiers) + ongoing[p].tierCarry

\* The splits lose nothing: all BLNT minted is with a tranche or in a carry, and all a
\* tranche was given is gulped, pending or carried by some pool, in or out of the
\* zone.
EveryTokenIsAccounted ==
  /\ StreamsTypeOK
  /\ ledger.total = ledger.toBackstop + ledger.toPools
                    + ledger.splitCarry + ledger.backstopCarry + ledger.poolCarry
  /\ ledger.toBackstop = Sum([p \in Pools |-> GulpedFor(p) + Waiting(p)], Pools)

\* What a depositor has earned and not been paid, over Scale^2.
Earned(p, t, u) ==
  LET user == position[p][t][u]
  IN user.accrued * Scale * Scale + user.carry + user.shares * (stream[p][t].index - user.index)

\* What the stream of a tier owes, has left to release, and released to nobody, over
\* Scale^2.
Holding(p, t) ==
  Sum([u \in Users |-> Earned(p, t, u)], Users) + stream[p][t].indexCarry
    + (Unreleased(stream[p][t]) + history[p][t].unearned) * Scale

\* The stream of a tier pays out what was gulped for it, to the last fraction, over
\* any sequence of restarts, deposits, queueing and claims; only what is released
\* while nobody has active shares is kept from depositors.  So no claim can fail for
\* exceeding what was allocated.
ClaimsAreFunded ==
  LET tiers == Pools \X Tiers
  IN Sum([x \in tiers |-> Holding(x[1], x[2])], tiers) + ledger.claimed * Scale * Scale
       = Sum([x \in tiers |-> history[x[1]][x[2]].gulped], tiers) * Scale * Scale

\* The next distribution weighs every pool of the zone by the deposits it has now.
WeightsAreCurrent ==
  \A p \in zone, t \in Tiers : ongoing[p].active[t] = ActiveAssets(balance[p][t])
================================================================================
