------------------------------ MODULE TierShares ------------------------------
(***************************************************************************)
(* The loss tiers of one pool in the backstop contract: depositors hold    *)
(* shares of a tier's tokens, leave through a queue-for-withdrawal (Q4W),  *)
(* and share every draw, donation, and rounding through one exchange rate  *)
(* per tier (backstop/src/backstop).                                       *)
(*                                                                         *)
(* Plain-asset tiers may use the same token, so several tiers draw on one  *)
(* custody balance of the contract.                                        *)
(***************************************************************************)
EXTENDS Integers, FiniteSets, Sequences, SequencesExt

CONSTANTS
  Tiers,          \* the configured tiers of the pool
  TokenOf,        \* TokenOf[tier]: the token of the tier
  Canonical,      \* tiers holding a canonical BLNT LP: their weight earns emissions
  Users,          \* depositors
  LockSeconds,    \* Q4W_LOCK_TIME, 17 days
  MaxEntries,     \* MAX_Q4W_SIZE, 20 entries
  Amounts,        \* bound: amounts a call may name
  MaxTokens,      \* bound: MaxTokens[tier] tokens in a tier
  MaxShares,      \* largest share supply of a tier: every sum is checked against i128
  MaxTime         \* bound: horizon of the clock

ASSUME SharesAssumption ==
  /\ IsFiniteSet(Tiers) /\ IsFiniteSet(Users)
  /\ Canonical \subseteq Tiers
  /\ LockSeconds \in Nat /\ MaxEntries \in Nat
  /\ Amounts \subseteq Nat
  /\ MaxTokens \in [Tiers -> Nat] /\ MaxShares \in [Tiers -> Nat] /\ MaxTime \in Nat

VARIABLES
  now,         \* ledger timestamp
  pool,        \* pool[tier]: the PoolBalance: shares, tokens, q4w
  user,        \* user[tier][u]: the UserBalance: active shares and queue q4w
  custody,     \* custody[token]: what the contract holds of a token
  badDebt,     \* the backstop position of the pool has liabilities
  weightOpen,  \* weight of canonical tiers may change (migration.rs)
  permitted    \* users with BACKSTOP_DEPOSIT_ALLOWED

sharesVars == <<now, pool, user, custody, badDebt, weightOpen, permitted>>

Entries == [amount : Nat, exp : Nat]

SharesTypeOK ==
  /\ now \in Nat
  /\ pool \in [Tiers -> [shares : Nat, tokens : Nat, q4w : Nat]]
  /\ user \in [Tiers -> [Users -> [shares : Nat, q4w : Seq(Entries)]]]
  /\ custody \in [{TokenOf[tier] : tier \in Tiers} -> Nat]
  /\ badDebt \in BOOLEAN /\ weightOpen \in BOOLEAN
  /\ permitted \subseteq Users

SharesInit ==
  /\ now = 0
  /\ pool = [tier \in Tiers |-> [shares |-> 0, tokens |-> 0, q4w |-> 0]]
  /\ user = [tier \in Tiers |-> [u \in Users |-> [shares |-> 0, q4w |-> <<>>]]]
  /\ custody = [token \in {TokenOf[tier] : tier \in Tiers} |-> 0]
  /\ badDebt = FALSE
  /\ weightOpen = TRUE
  /\ permitted = Users

------------------------------------------------------------------------------
(* PoolBalance *)

\* Changed: a worthless tier reopens at one to one beside its old shares.
ConvertToSharesReopened(b, tokens) ==
  IF b.shares = 0 \/ b.tokens = 0 THEN tokens ELSE (tokens * b.shares) \div b.tokens

ConvertToShares(b, tokens) ==
  IF b.shares = 0 THEN tokens
  ELSE IF b.tokens = 0 THEN 0
  ELSE (tokens * b.shares) \div b.tokens

\* Changed: a redemption is rounded up.
ConvertToTokensUp(b, shares) ==
  IF b.shares = 0 THEN 0
  ELSE (shares * b.tokens + b.shares - 1) \div b.shares

\* The last shares take every token, whatever the rounding left behind.
ConvertToTokens(b, shares) ==
  IF b.shares = 0 THEN 0
  ELSE IF b.shares = shares THEN b.tokens
  ELSE (shares * b.tokens) \div b.shares

------------------------------------------------------------------------------
(* UserBalance *)

Queued(q4w) == FoldFunction(+, 0, [i \in DOMAIN q4w |-> q4w[i].amount])

\* The shares in the first k entries.
Leading(q4w, k) == Queued(SubSeq(q4w, 1, k))

Matured(entry) == entry.exp <= now

\* Where a walk from the first entry ends: at the one that completes the amount.
LastTaken(q4w, amount) ==
  Min({k \in DOMAIN q4w : Leading(q4w, k) >= amount} \cup {Len(q4w)})

\* What the walk leaves: an entry that is left over in part stays in its place.
Rest(q4w, amount) ==
  LET last == LastTaken(q4w, amount)
      over == Leading(q4w, last) - amount
  IN IF over > 0 THEN [SubSeq(q4w, last, Len(q4w)) EXCEPT ![1].amount = over]
     ELSE SubSeq(q4w, last + 1, Len(q4w))

\* Running out of shares stops the call.
Suffices(q4w, amount) == amount <= Queued(q4w)

\* withdraw_shares: oldest first, and every entry that is touched has matured.
CanTakeMatured(q4w, amount) ==
  /\ Suffices(q4w, amount)
  /\ \A k \in 1..LastTaken(q4w, amount) : Matured(q4w[k])

\* Changed: what is left of a cut entry goes to the other end of the queue.
RestOfOlderRotated(q4w, amount) == Rest(Reverse(q4w), amount)

\* dequeue_shares: newest first, matured or not.
RestOfOlder(q4w, amount) == Reverse(Rest(Reverse(q4w), amount))

\* The shares of the leading matured entries.
MaturedShares(q4w) ==
  Leading(q4w, Cardinality({i \in DOMAIN q4w : \A j \in 1..i : Matured(q4w[j])}))

\* require_q4w_entry_capacity: the entries of the user over all tiers.
EntriesOf(u) == FoldFunction(+, 0, [tier \in Tiers |-> Len(user[tier][u].q4w)])

------------------------------------------------------------------------------
(* Entry points *)

\* require_weight_mutation_allowed, for the tiers whose weight earns emissions.
WeightMayChange(tier) == tier \in Canonical => weightOpen

\* Tokens that reached the contract are credited to u as shares.
Credit(tier, u, amount) ==
  LET minted == ConvertToShares(pool[tier], amount)
  IN /\ minted > 0
     /\ pool[tier].shares + minted <= MaxShares[tier]
     /\ pool' = [pool EXCEPT ![tier].tokens = @ + amount, ![tier].shares = @ + minted]
     /\ user' = [user EXCEPT ![tier][u].shares = @ + minted]
     /\ custody' = [custody EXCEPT ![TokenOf[tier]] = @ + amount]

\* deposit
Deposit(tier, u, amount) ==
  /\ u \in permitted
  /\ WeightMayChange(tier)
  /\ pool[tier].tokens + amount <= MaxTokens[tier]
  /\ Credit(tier, u, amount)
  /\ UNCHANGED <<now, badDebt, weightOpen, permitted>>

\* claim: the LP tokens compounded from emissions are credited to the claimant,
\* who needs no permission for it.
CompoundClaim(tier, u, amount) ==
  /\ tier \in Canonical /\ WeightMayChange(tier)
  /\ pool[tier].tokens + amount <= MaxTokens[tier]
  /\ Credit(tier, u, amount)
  /\ UNCHANGED <<now, badDebt, weightOpen, permitted>>

\* execute_queue_withdrawal
QueueShares(tier, u, amount) ==
  /\ EntriesOf(u) < MaxEntries
  /\ amount <= user[tier][u].shares
  /\ WeightMayChange(tier)
  /\ user' = [user EXCEPT ![tier][u].shares = @ - amount,
                          ![tier][u].q4w = Append(@, [amount |-> amount,
                                                      exp |-> now + LockSeconds])]
  /\ pool' = [pool EXCEPT ![tier].q4w = @ + amount]
  /\ UNCHANGED <<now, custody, badDebt, weightOpen, permitted>>

\* queue_withdrawal: the owner queues any amount, zero included.
QueueWithdrawal(tier, u, amount) == QueueShares(tier, u, amount)

\* force_queue_withdrawal: anyone queues all shares of a user without permission.
ForceQueueWithdrawal(tier, u) ==
  /\ u \notin permitted
  /\ user[tier][u].shares > 0
  /\ QueueShares(tier, u, user[tier][u].shares)

\* dequeue_withdrawal
DequeueWithdrawal(tier, u, amount) ==
  /\ u \in permitted
  /\ Suffices(user[tier][u].q4w, amount)
  /\ WeightMayChange(tier)
  /\ amount <= pool[tier].q4w
  /\ user' = [user EXCEPT ![tier][u].shares = @ + amount,
                          ![tier][u].q4w = RestOfOlder(@, amount)]
  /\ pool' = [pool EXCEPT ![tier].q4w = @ - amount]
  /\ UNCHANGED <<now, custody, badDebt, weightOpen, permitted>>

\* Changed: the queued total of the pool keeps the shares that left.
RedeemKeepingQueue(b, tokens, shares) ==
  [b EXCEPT !.tokens = @ - tokens, !.shares = @ - shares]

\* Changed: the arguments of withdraw are swapped.
RedeemSwapped(b, tokens, shares) ==
  [b EXCEPT !.tokens = @ - shares, !.shares = @ - tokens, !.q4w = @ - tokens]

\* PoolBalance.withdraw
Redeem(b, tokens, shares) ==
  [b EXCEPT !.tokens = @ - tokens, !.shares = @ - shares, !.q4w = @ - shares]

\* execute_withdraw: a redemption that rounds to nothing fails while the tier
\* still holds tokens; a worthless share of an empty tier is burned.
RedeemShares(tier, u, amount) ==
  LET tokens == ConvertToTokens(pool[tier], amount)
  IN /\ ~badDebt
     /\ CanTakeMatured(user[tier][u].q4w, amount)
     /\ tokens > 0 \/ pool[tier].tokens = 0
     /\ WeightMayChange(tier)
     /\ tokens <= pool[tier].tokens
     /\ amount <= pool[tier].shares /\ amount <= pool[tier].q4w
     /\ pool' = [pool EXCEPT ![tier] = Redeem(@, tokens, amount)]
     /\ user' = [user EXCEPT ![tier][u].q4w = Rest(@, amount)]
     /\ tokens <= custody[TokenOf[tier]]
     /\ custody' = [custody EXCEPT ![TokenOf[tier]] = @ - tokens]
     /\ UNCHANGED <<now, badDebt, weightOpen, permitted>>

\* withdraw: the owner, to any address.
Withdraw(tier, u, amount) == RedeemShares(tier, u, amount)

\* force_withdrawal: anyone, to the owner, everything that matured.
ForceWithdrawal(tier, u) ==
  LET shares == MaturedShares(user[tier][u].q4w)
  IN /\ u \notin permitted
     /\ shares # 0
     /\ RedeemShares(tier, u, shares)

\* Changed: the pool's tokens are paid out without being written off.
DrawnUnrecorded(b, amount) == b

DrawnFrom(b, amount) == [b EXCEPT !.tokens = @ - amount]

\* draw, by the pool: a loss for every active and queued share of the tier.
Draw(tier, amount) ==
  /\ amount > 0
  /\ WeightMayChange(tier)
  /\ amount <= pool[tier].tokens
  /\ pool' = [pool EXCEPT ![tier] = DrawnFrom(@, amount)]
  /\ amount <= custody[TokenOf[tier]]
  /\ custody' = [custody EXCEPT ![TokenOf[tier]] = @ - amount]
  /\ UNCHANGED <<now, user, badDebt, weightOpen, permitted>>

\* donate, by the pool and a donor: a gain for every share; a tier without
\* shares accepts it too.
Donate(tier, amount) ==
  /\ WeightMayChange(tier)
  /\ pool[tier].tokens + amount <= MaxTokens[tier]
  /\ pool' = [pool EXCEPT ![tier].tokens = @ + amount]
  /\ custody' = [custody EXCEPT ![TokenOf[tier]] = @ + amount]
  /\ UNCHANGED <<now, user, badDebt, weightOpen, permitted>>

------------------------------------------------------------------------------
(* Environment *)

Tick ==
  /\ now < MaxTime
  /\ now' = now + 1
  /\ UNCHANGED <<pool, user, custody, badDebt, weightOpen, permitted>>

\* The pool hands bad debt to the backstop, and settles it.
ToggleBadDebt ==
  /\ badDebt' = ~badDebt
  /\ UNCHANGED <<now, pool, user, custody, weightOpen, permitted>>

\* The emitter has swapped the backstop in, and the backstop activates.
ToggleWeight ==
  /\ Canonical # {}
  /\ weightOpen' = ~weightOpen
  /\ UNCHANGED <<now, pool, user, custody, badDebt, permitted>>

\* The pool's access controller grants or revokes the deposit permission.
SetPermission(u) ==
  /\ permitted' = IF u \in permitted THEN permitted \ {u} ELSE permitted \cup {u}
  /\ UNCHANGED <<now, pool, user, custody, badDebt, weightOpen>>

SharesNext ==
  \/ \E tier \in Tiers, u \in Users :
       \/ \E amount \in Amounts :
            \/ Deposit(tier, u, amount)
            \/ CompoundClaim(tier, u, amount)
            \/ QueueWithdrawal(tier, u, amount)
            \/ DequeueWithdrawal(tier, u, amount)
            \/ Withdraw(tier, u, amount)
       \/ ForceQueueWithdrawal(tier, u)
       \/ ForceWithdrawal(tier, u)
  \/ \E tier \in Tiers, amount \in Amounts : Draw(tier, amount) \/ Donate(tier, amount)
  \/ Tick
  \/ ToggleBadDebt
  \/ ToggleWeight
  \/ \E u \in Users : SetPermission(u)

SharesSpec == SharesInit /\ [][SharesNext]_sharesVars

------------------------------------------------------------------------------
(* Properties *)

Total(f) == FoldFunction(+, 0, f)
TotalOn(S, f) == FoldFunctionOnSet(+, 0, f, S)

\* The two ledgers agree: the shares of a tier are exactly the active and queued
\* shares of its depositors, and its q4w exactly the queued ones, through any
\* mix of partial withdrawals, dequeues, and forced exits.
SharesConserved ==
  /\ SharesTypeOK
  /\ \A tier \in Tiers :
       LET queued == Total([u \in Users |-> Queued(user[tier][u].q4w)])
           active == Total([u \in Users |-> user[tier][u].shares])
       IN pool[tier].q4w = queued /\ pool[tier].shares = active + queued

\* The contract holds the tokens of all tiers that use them: no tier is paid out
\* of another tier's tokens.
CustodySolvent ==
  \A token \in DOMAIN custody :
    custody[token] >=
      TotalOn({tier \in Tiers : TokenOf[tier] = token},
              [tier \in Tiers |-> pool[tier].tokens])

\* A queue is ordered by expiration, so the matured entries are its first ones:
\* force_withdrawal stops at the first unmatured entry and misses nothing.
QueueOrdered ==
  \A tier \in Tiers, u \in Users :
    LET q4w == user[tier][u].q4w
    IN \A i, j \in DOMAIN q4w : i < j => q4w[i].exp <= q4w[j].exp

\* Nobody's shares lose value because someone else deposits or redeems: whenever
\* the number of shares changes, the tokens per share do not fall.
NoDilution ==
  [][\A tier \in Tiers :
       LET old == pool[tier] new == pool'[tier]
       IN new.shares # old.shares /\ old.shares # 0 /\ new.shares # 0
            => new.tokens * old.shares >= old.tokens * new.shares]_sharesVars

\* A deposit is not a gift: at the rate after it, the shares minted for it are
\* worth its tokens up to one share, in particular beside worthless old shares.
DepositKeepsValue ==
  [][\A tier \in Tiers :
       LET old == pool[tier] new == pool'[tier]
       IN new.shares > old.shares
            => (new.shares - old.shares + 1) * new.tokens
                 >= (new.tokens - old.tokens) * new.shares]_sharesVars
=============================================================================
