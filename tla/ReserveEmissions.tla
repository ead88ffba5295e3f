--------------------------- MODULE ReserveEmissions ----------------------------
(***************************************************************************)
(* The emissions of one pool (pool/src/emissions), composed with those of  *)
(* the backstop: the pool's gulp takes its tranche from the backstop as an *)
(* allowance and starts a stream for every bToken and dToken its           *)
(* administrator targets; holders claim straight from the backstop through *)
(* that allowance.                                                         *)
(*                                                                         *)
(* Unlike a stream of the backstop, one over an empty supply waits: it     *)
(* keeps its time and pays it to whoever comes.                            *)
(***************************************************************************)
EXTENDS EmissionStreams

CONSTANTS
  Pool,          \* the pool
  ResTokens,     \* bTokens and dTokens of its reserves (res_token_id)
  ReserveOf,     \* ReserveOf[k]: the reserve of a token
  Targets,       \* emission targets the administrator sets: weights of ResTokens, 0 if absent
  Held,          \* Held[k][u]: balances at the start
  IndexScale,    \* scalar of the reserve times SCALAR_7
  Movers,        \* bound: users whose balances change
  Open,          \* bound: tiers <<p, t>> whose deposits change
  Amounts,       \* bound: amounts a call may name
  MaxTime,       \* bound: the clock stops here
  MaxMoves       \* bound: calls of users, tiers and administrators

ASSUME ReserveEmissionsAssumption ==
  /\ Pool \in Pools /\ Movers \subseteq Users /\ Open \subseteq Pools \X Tiers
  /\ IsFiniteSet(ResTokens)
  /\ Targets \subseteq [ResTokens -> Nat] /\ Held \in [ResTokens -> [Users -> Nat]]
  /\ IndexScale \in Nat \ {0} /\ Amounts \subseteq Nat
  /\ MaxTime \in Nat /\ MaxMoves \in Nat

VARIABLES
  targets,   \* pool_emissions
  enabled,   \* reserves whose configuration is enabled
  carry,     \* pool_emission_carry
  emission,  \* emission[k]: ReserveEmissionData and ReserveEmissionCarry
  holder,    \* holder[k][u]: balance and UserEmissionData of u
  moves,     \* bound: moves so far
  payments   \* history: tranches gulped and BLNT paid, per token; whether a grant lapsed

reserveVars == <<targets, enabled, carry, emission, holder, payments>>
emissionVars == <<now, backstopVars, reserveVars, moves>>

\* A token without emission data.
NoEmission == [remaining |-> 0, index |-> 0, indexCarry |-> 0, expiration |-> Never, last |-> 0]

ReserveInit ==
  /\ targets \in Targets
  /\ enabled = {ReserveOf[k] : k \in ResTokens}
  /\ carry = 0
  /\ emission = [k \in ResTokens |-> NoEmission]
  /\ holder = [k \in ResTokens |-> [u \in Users |->
       [balance |-> Held[k][u], known |-> FALSE, index |-> 0, accrued |-> 0, carry |-> 0]]]
  /\ payments = [gulped |-> [k \in ResTokens |-> 0], paid |-> [k \in ResTokens |-> 0],
                 lapsed |-> FALSE]

EmissionsInit == StreamsInit /\ ReserveInit /\ moves = 0

Act == moves < MaxMoves /\ moves' = moves + 1

------------------------------------------------------------------------------
(* Streams *)

Supply(k) == Sum([u \in Users |-> holder[k][u].balance], Users)

\* update_emission_data.  The rate eps is only published: remaining is exact.
Vested(e, supply) ==
  LET end == Least(now, e.expiration)
      vested == IF end = e.expiration THEN e.remaining
                ELSE Portion(e.remaining, end - e.last, e.expiration - e.last)
      numerator == vested * IndexScale + e.indexCarry
  IN IF \/ e.last >= e.expiration \/ now = e.last \/ supply = 0
        \/ e.remaining = 0 /\ e.indexCarry = 0
     THEN e
     ELSE [e EXCEPT !.remaining = @ - vested, !.index = @ + numerator \div supply,
                    !.indexCarry = numerator % supply, !.last = end]

Current(k) == Vested(emission[k], Supply(k))

\* Changed: somebody who held tokens before their first emission starts from now.
SinceNow(h, e) == IF h.known THEN h.index ELSE e.index

\* The index a holder has been paid up to.  Somebody who held the token before its
\* first emission is due all of it, a newcomer nothing.
Since(h, e) == IF h.known \/ h.balance > 0 THEN h.index ELSE e.index

\* update_user_emissions, without emission data nothing
Settled(k, u) ==
  LET h == holder[k][u]
      e == Current(k)
      numerator == h.balance * (e.index - Since(h, e)) + h.carry
  IN IF emission[k] = NoEmission THEN h
     ELSE [h EXCEPT !.known = TRUE, !.index = e.index, !.carry = numerator % IndexScale,
                    !.accrued = @ + numerator \div IndexScale]

\* A position mutation of the pool: the stream and the holder, then the balance.
Hold(k, u, amount) ==
  /\ Act
  /\ holder[k][u].balance + amount >= 0
  /\ emission' = [emission EXCEPT ![k] = Current(k)]
  /\ holder' = [holder EXCEPT ![k][u] = [Settled(k, u) EXCEPT !.balance = @ + amount]]
  /\ UNCHANGED <<now, backstopVars, targets, enabled, carry, payments>>

------------------------------------------------------------------------------
(* The administrator, the gulp and the claim *)

SetPoolEmissions(weights) ==
  /\ Act
  /\ targets' = weights
  /\ UNCHANGED <<now, backstopVars, enabled, carry, emission, holder, payments>>

\* A reserve change that disables or enables a reserve.
SetEnabled(r) ==
  /\ Act
  /\ enabled' = IF r \in enabled THEN enabled \ {r} ELSE enabled \cup {r}
  /\ UNCHANGED <<now, backstopVars, targets, carry, emission, holder, payments>>

\* Targets of enabled reserves.
Earning == {k \in ResTokens : targets[k] > 0 /\ ReserveOf[k] \in enabled}

\* update_reserve_emission_eps, on a vested stream
Refilled(e, amount) ==
  [e EXCEPT !.remaining = @ + amount, !.expiration = now + StreamTicks, !.last = now]

\* gulp_emissions of the pool, with the call into the backstop
Gulp ==
  LET tranche == ongoing[Pool].accrued
      distribution == tranche + carry
      share == [k \in ResTokens |->
                  IF k \in Earning THEN Portion(distribution, targets[k], Sum(targets, Earning))
                  ELSE 0]
  IN /\ Earning # {}
     /\ tranche >= Scale
     /\ GulpTiers(Pool)
     /\ emission' = [k \in ResTokens |->
          IF k \in Earning THEN Refilled(Current(k), share[k]) ELSE emission[k]]
     /\ carry' = distribution - Sum(share, Earning)
     /\ payments' = [payments EXCEPT
          !.gulped = [k \in ResTokens |-> @[k] + share[k]],
          !.lapsed = @ \/ allowance[Pool].amount > Allowed(Pool)]
     /\ UNCHANGED <<now, targets, enabled, holder, moves>>

\* claim of reserve emissions; the backstop is spent through the allowance.
ClaimReserves(u, ks) ==
  LET due == [k \in ks |-> IF emission[k] = NoEmission THEN 0 ELSE Settled(k, u).accrued]
      amount == Sum(due, ks)
  IN /\ Act
     /\ ks # {}
     /\ amount <= Allowed(Pool)
     /\ emission' = [k \in ResTokens |-> IF k \in ks THEN Current(k) ELSE emission[k]]
     /\ holder' = [k \in ResTokens |->
          IF k \in ks THEN [holder[k] EXCEPT ![u] = [Settled(k, u) EXCEPT !.accrued = 0]]
          ELSE holder[k]]
     /\ allowance' = IF amount = 0 THEN allowance
                     ELSE [allowance EXCEPT ![Pool].amount = @ - amount]
     /\ payments' = [payments EXCEPT
          !.paid = [k \in ResTokens |-> IF k \in ks THEN @[k] + due[k] ELSE @[k]]]
     /\ UNCHANGED <<now, zone, ledger, ongoing, lastGulp, balance, stream, position, history,
                    targets, enabled, carry>>

------------------------------------------------------------------------------

\* A call that concerns only the backstop.
InBackstop == Act /\ UNCHANGED <<now, reserveVars>>

\* The same, of a call that spends no move.
Upkeep == UNCHANGED <<now, reserveVars, moves>>

Tick ==
  /\ now < MaxTime
  /\ now' = now + 1
  /\ UNCHANGED <<backstopVars, reserveVars, moves>>

EmissionsNext ==
  \/ Gulp
  \/ \E weights \in Targets : SetPoolEmissions(weights)
  \/ \E r \in {ReserveOf[k] : k \in ResTokens} : SetEnabled(r)
  \/ \E u \in Users, ks \in SUBSET ResTokens : ClaimReserves(u, ks)
  \/ \E k \in ResTokens, u \in Movers, amount \in Amounts :
       Hold(k, u, amount) \/ Hold(k, u, -amount)
  \/ \E c \in Compositions : Upkeep /\ Distribute(c)
  \/ \E c \in Compositions, p, removed \in Pools : Upkeep /\ AddReward(p, removed, c)
  \/ \E c \in Compositions, p \in Pools : Upkeep /\ RemoveReward(p, c)
  \/ \E p \in Pools, t \in Tiers, amount \in Amounts :
       /\ <<p, t>> \in Open
       /\ InBackstop
       /\ \/ Draw(p, t, amount)
          \/ Donate(p, t, amount)
          \/ \E u \in Movers : \/ Deposit(p, t, u, amount)
                             \/ QueueWithdrawal(p, t, u, amount)
                             \/ DequeueWithdrawal(p, t, u, amount)
                             \/ Withdraw(p, t, u, amount)
  \/ \E u \in Users, t \in Tiers, ps \in SUBSET Pools, lp \in Amounts :
       InBackstop /\ ClaimTier(u, t, ps, lp)
  \/ Tick

EmissionsSpec == EmissionsInit /\ [][EmissionsNext]_emissionVars

------------------------------------------------------------------------------
(* Properties *)

\* Types: no grant, stream or claim goes below zero.
EmissionsTypeOK ==
  /\ targets \in Targets
  /\ enabled \subseteq {ReserveOf[k] : k \in ResTokens}
  /\ carry \in Nat
  /\ emission \in [ResTokens -> [remaining : Nat, index : Nat, indexCarry : Nat,
                                 expiration : Nat \cup {Never}, last : Nat]]
  /\ holder \in [ResTokens -> [Users -> [balance : Nat, known : BOOLEAN, index : Nat,
                                         accrued : Nat, carry : 0..IndexScale-1]]]
  /\ moves \in Nat
  /\ payments \in [gulped : [ResTokens -> Nat], paid : [ResTokens -> Nat], lapsed : BOOLEAN]

\* What a holder is due up to the last checkpoint of the stream, over IndexScale.
Due(k, u) ==
  LET h == holder[k][u]
  IN h.accrued * IndexScale + h.carry + h.balance * (emission[k].index - h.index)

\* The stream of a reserve token pays its holders exactly what was gulped for it:
\* what waits over an empty supply, what its remainders are, and what somebody is
\* due who held the token before its first emission included.
ReserveStreamsPayTheirTranche ==
  /\ EmissionsTypeOK
  /\ \A k \in ResTokens :
       Sum([u \in Users |-> Due(k, u)], Users) + emission[k].indexCarry
         + (emission[k].remaining + payments.paid[k]) * IndexScale
       = payments.gulped[k] * IndexScale

\* What the pool owes its holders or will owe them, and what it has yet to gulp.
Owed == Sum([k \in ResTokens |-> payments.gulped[k] - payments.paid[k]], ResTokens) + carry
Ungulped == Sum([p \in Pools |-> ongoing[p].accrued], Pools)

\* Until an allowance lapses unused, the pool can pay all it owes or will owe, and
\* what the backstop set aside for pools covers it.
GrantsCoverTheStreams ==
  /\ payments.lapsed \/ allowance[Pool].amount = Owed
  /\ Owed + Sum(payments.paid, ResTokens) + Ungulped = ledger.toPools
================================================================================
