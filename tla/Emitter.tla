------------------------------- MODULE Emitter -------------------------------
(***************************************************************************)
(* The emitter contract (emitter/src): it mints BLNT to the one backstop   *)
(* contract it currently recognises, one BLNT per second, and lets anyone  *)
(* replace that recipient through a contest: a candidate that holds        *)
(* strictly more of the designated token than the incumbent is queued for  *)
(* 31 days and can then be swapped in during a grace window of 7 days.     *)
(*                                                                         *)
(* Every entry point is atomic (a Soroban call that panics leaves no       *)
(* trace), so each is one action, and a call that panics is a disabled     *)
(* action.  What interleaves is the order of the calls, the clock, and the *)
(* token balances and candidate contracts the emitter consults.            *)
(***************************************************************************)
EXTENDS Integers, FiniteSets, Sequences, SequencesExt

CONSTANTS
  Backstops,          \* addresses that may be, or try to become, the recipient
  Others,             \* other recipients of a launch drop
  Tokens,             \* tokens a contest may be decided in
  Deployer,           \* the one-time initialization authority
  None,               \* an absent optional value
  QueueSeconds,       \* QUEUE_SECONDS, 31 days in the code
  SwapGraceSeconds,   \* SWAP_GRACE_SECONDS, 7 days in the code
  MaxInitialDrop,     \* MAX_INITIAL_DROP
  MaxMigrationDrop,   \* MAX_MIGRATION_DROP
  DropLists,          \* bound: the lists a backstop may ask to drop
  MaxBalance,         \* bound: what all backstops hold of a contest token
  MaxTime             \* horizon of the clock, and the largest deadline that fits

ASSUME ConstantsAssumption ==
  /\ None \notin Backstops \cup Tokens \cup {Deployer}
  /\ None \notin Nat
  /\ Backstops # {}
  /\ QueueSeconds \in Nat /\ SwapGraceSeconds \in Nat
  /\ MaxInitialDrop \in Nat /\ MaxMigrationDrop \in Nat
  /\ MaxBalance \in Nat /\ MaxTime \in Nat

\* Sum of the amounts of a drop list.
DropTotal(list) == FoldFunction(+, 0, [i \in DOMAIN list |-> list[i].amount])

\* Lists of recipients and amounts.
ASSUME DropListsAssumption ==
  DropLists \subseteq Seq([to : Backstops \cup Others, amount : Int])

VARIABLES
  now,              \* ledger timestamp
  initializer,      \* InitAuth: Deployer until initialize succeeds, then None
  isInit,           \* IsInit
  backstop,         \* Backstop: the current recipient
  initialBackstop,  \* InitBstop: the launch recipient
  backstopToken,    \* BToken: the token the next contest is decided in
  lastDistro,       \* LastDistro(b): last timestamp paid to b, None if never
  swap,             \* Swap: the queued replacement, or None
  dropped,          \* Dropped(b): recipients that used their one drop
  balance,          \* balance[t][b]: contest token t held by b (external)
  declared,         \* declared[b]: what b answers to migration_token (external)
  start,            \* history: timestamp of initialize
  emitted,          \* history: BLNT minted by distributions
  received,         \* history: received[b], the part of it minted to b
  served,           \* history: served[b], seconds b has been the recipient
  since,            \* history: timestamp at which backstop became the recipient
  dropAmount        \* history: dropAmount[b], BLNT minted by b's drop

config == <<initializer, isInit, initialBackstop, start>>
recipient == <<backstop, backstopToken, since>>
ledger == <<lastDistro, emitted, received>>
drops == <<dropped, dropAmount>>
external == <<balance, declared>>
vars == <<now, config, recipient, ledger, served, swap, drops, external>>

Swaps == [newBackstop : Backstops, newToken : Tokens, unlock : Nat]

TypeOK ==
  /\ now \in Nat
  /\ initializer \in {Deployer, None}
  /\ isInit \in BOOLEAN
  /\ backstop \in Backstops \cup {None}
  /\ initialBackstop \in Backstops \cup {None}
  /\ backstopToken \in Tokens \cup {None}
  /\ lastDistro \in [Backstops -> Nat \cup {None}]
  /\ swap \in Swaps \cup {None}
  /\ dropped \subseteq Backstops
  /\ balance \in [Tokens -> [Backstops -> Nat]]
  /\ declared \in [Backstops -> Tokens \cup {None}]
  /\ start \in Nat
  /\ emitted \in Nat
  /\ received \in [Backstops -> Nat]
  /\ served \in [Backstops -> Nat]
  /\ since \in Nat
  /\ dropAmount \in [Backstops -> Int]

Init ==
  /\ now = 0
  /\ initializer = Deployer
  /\ isInit = FALSE
  /\ backstop = None
  /\ initialBackstop = None
  /\ backstopToken = None
  /\ lastDistro = [b \in Backstops |-> None]
  /\ swap = None
  /\ dropped = {}
  /\ balance = [t \in Tokens |-> [b \in Backstops |-> 0]]
  /\ declared = [b \in Backstops |-> None]
  /\ start = 0
  /\ emitted = 0
  /\ received = [b \in Backstops |-> 0]
  /\ served = [b \in Backstops |-> 0]
  /\ since = 0
  /\ dropAmount = [b \in Backstops |-> 0]

------------------------------------------------------------------------------
(* Helpers of backstop_manager.rs *)

SwapDeadline(s) == s.unlock + SwapGraceSeconds

\* Changed: a tie is enough.
IsLargerOnTie(candidate, incumbent) ==
  balance[backstopToken][candidate] >= balance[backstopToken][incumbent]

\* Strictly more of the designated token: equality does not qualify.
IsLarger(candidate, incumbent) ==
  balance[backstopToken][candidate] > balance[backstopToken][incumbent]

\* A candidate that does not answer migration_token, or answers another token,
\* does not qualify.
HasValidMigrationToken(candidate, token) == declared[candidate] = token

Qualifies(candidate, token) ==
  /\ IsLarger(candidate, backstop)
  /\ HasValidMigrationToken(candidate, token)

Expired(s) == now > SwapDeadline(s)

\* Changed: only the end of the window is checked.
UnlockedAtOnce(s) == ~Expired(s)

Unlocked(s) == s.unlock <= now

\* Changed: only a candidate that stopped qualifying can be cancelled.
CancellableUnqualified(s) == ~Qualifies(s.newBackstop, s.newToken)

Cancellable(s) == Expired(s) \/ ~Qualifies(s.newBackstop, s.newToken)

\* Changed: a recipient that returns resumes where it left.
ResumeDistro(paid, b) == [paid EXCEPT ![b] = IF @ = None THEN now ELSE @]

\* set_last_distro_time to the current time.
StartDistro(paid, b) == [paid EXCEPT ![b] = now]

\* Changed: a drop is only remembered while its recipient stays.
DroppedThisTenure(b) == b \in dropped /\ since = start

\* get_drop_status
HasDropped(b) == b \in dropped

------------------------------------------------------------------------------
(* Entry points *)

\* initialize, by the authority the constructor recorded.  The checks on the
\* emission token (a Stellar asset, seven decimals, administered by the
\* emitter) concern one immutable token and are taken as met.
Initialize(caller, b, t) ==
  /\ ~isInit
  /\ caller = initializer
  /\ backstop' = b
  /\ initialBackstop' = b
  /\ backstopToken' = t
  /\ lastDistro' = StartDistro(lastDistro, b)
  /\ initializer' = None
  /\ isInit' = TRUE
  /\ start' = now
  /\ since' = now
  /\ UNCHANGED <<now, swap, external, drops, served, emitted, received>>

\* Changed: the interval is taken the wrong way round.
ExecuteDistributeReversed(b) ==
  LET amount == lastDistro[b] - now
  IN /\ emitted' = emitted + amount
     /\ received' = [received EXCEPT ![b] = @ + amount]

\* execute_distribute: mint to b what elapsed since b was last paid.
ExecuteDistribute(b) ==
  LET amount == now - lastDistro[b]
  IN /\ emitted' = emitted + amount
     /\ received' = [received EXCEPT ![b] = @ + amount]

\* distribute: only the current recipient authorizes it.
Distribute(caller) ==
  /\ isInit
  /\ caller = backstop
  /\ ExecuteDistribute(caller)
  /\ lastDistro' = [lastDistro EXCEPT ![caller] = now]
  /\ UNCHANGED <<now, config, recipient, served, swap, drops, external>>

\* queue_swap_backstop: anyone may queue a candidate that qualifies now.  The
\* last conjunct is the code's check that the complete execution window is
\* representable; MaxTime takes the place of the largest u64.
QueueSwap(b, t) ==
  /\ isInit
  /\ swap = None
  /\ Qualifies(b, t)
  /\ swap' = [newBackstop |-> b, newToken |-> t, unlock |-> now + QueueSeconds]
  /\ now + QueueSeconds + SwapGraceSeconds < MaxTime
  /\ UNCHANGED <<now, config, recipient, ledger, served, drops, external>>

\* cancel_swap_backstop: anyone may drop a queue that expired or whose
\* candidate stopped qualifying.
CancelSwap ==
  /\ swap # None
  /\ Cancellable(swap)
  /\ swap' = None
  /\ UNCHANGED <<now, config, recipient, ledger, served, drops, external>>

\* swap_backstop: within the window, the incumbent is paid up to now, the
\* recipient and the contest token change, and the newcomer starts at now.
SwapBackstop ==
  /\ swap # None
  /\ Unlocked(swap)
  /\ ~Expired(swap)
  /\ Qualifies(swap.newBackstop, swap.newToken)
  /\ ExecuteDistribute(backstop)
  /\ lastDistro' = StartDistro([lastDistro EXCEPT ![backstop] = now],
                               swap.newBackstop)
  /\ swap' = None
  /\ backstop' = swap.newBackstop
  /\ backstopToken' = swap.newToken
  /\ since' = now
  /\ UNCHANGED <<now, config, served, drops, external>>

\* Only the launch recipient may use the larger ceiling.
MaxDrop(b) == IF b = initialBackstop THEN MaxInitialDrop ELSE MaxMigrationDrop

\* drop: once per recipient, nonnegative amounts, under the recipient's ceiling.
Drop(caller, list) ==
  /\ isInit
  /\ caller = backstop
  /\ ~HasDropped(caller)
  /\ \A i \in DOMAIN list : list[i].amount >= 0
  /\ DropTotal(list) <= MaxDrop(caller)
  /\ dropped' = dropped \cup {caller}
  /\ dropAmount' = [dropAmount EXCEPT ![caller] = @ + DropTotal(list)]
  /\ UNCHANGED <<now, config, recipient, ledger, served, swap, external>>

------------------------------------------------------------------------------
(* Environment *)

\* Ledgers close and time passes.
Tick ==
  /\ now < MaxTime
  /\ now' = now + 1
  /\ served' = [b \in Backstops |-> served[b] + IF b = backstop THEN 1 ELSE 0]
  /\ UNCHANGED <<config, recipient, ledger, swap, drops, external>>

\* Anyone may send contest tokens to a backstop, and a backstop may pay them out.
\* Bound: MaxBalance for all of them, which is enough to win, lose, or tie.
SetBalance(t, b, amount) ==
  /\ \A other \in Backstops \ {b} : balance[t][other] + amount <= MaxBalance
  /\ amount # balance[t][b]
  /\ balance' = [balance EXCEPT ![t][b] = amount]
  /\ UNCHANGED <<now, config, recipient, ledger, served, swap, drops, declared>>

\* A candidate is a contract of its own: it may be deployed, answer another
\* token, or stop answering.
Declare(b, t) ==
  /\ declared' = [declared EXCEPT ![b] = t]
  /\ UNCHANGED <<now, config, recipient, ledger, served, swap, drops, balance>>

Next ==
  \/ \E caller \in {Deployer}, b \in Backstops, t \in Tokens : Initialize(caller, b, t)
  \/ \E b \in Backstops : Distribute(b)
  \/ \E b \in Backstops, t \in Tokens : QueueSwap(b, t)
  \/ CancelSwap
  \/ SwapBackstop
  \/ \E b \in Backstops, list \in DropLists : Drop(b, list)
  \/ Tick
  \/ \E t \in Tokens, b \in Backstops, amount \in 0..MaxBalance : SetBalance(t, b, amount)
  \/ \E b \in Backstops, t \in Tokens \cup {None} : Declare(b, t)

Spec == Init /\ [][Next]_vars

\* Time passes, and someone uses the permissionless way out of a queue: both
\* cancel_swap_backstop and swap_backstop require no authorization.
KeeperSpec == Spec /\ WF_vars(Tick) /\ WF_vars(CancelSwap)

------------------------------------------------------------------------------
(* Properties *)

\* Every recipient has been minted exactly the seconds it was the recipient,
\* up to its last checkpoint: no second is paid to two recipients, to one that
\* took over later or to one that had left, however contests, swaps and
\* returns of a former recipient interleave with distribute.
TenurePaid ==
  isInit =>
    \A b \in Backstops :
      served[b] = received[b] + IF b = backstop THEN now - lastDistro[b] ELSE 0

\* Over its whole history a recipient mints at most one drop list, under the
\* ceiling that belongs to it: being replaced and swapped back in, at launch or
\* later, gives no second drop and no larger ceiling.
DropCeilings ==
  \A b \in Backstops :
    /\ dropAmount[b] <= IF b = initialBackstop THEN MaxInitialDrop ELSE MaxMigrationDrop
    /\ dropAmount[b] > 0 => b \in dropped

\* The queued candidate is another contract than the recipient it challenges,
\* across any sequence of queues, cancellations, and swaps: a swap never pays
\* one address as both the outgoing and the incoming recipient.
CandidateIsNotIncumbent ==
  isInit => (swap # None => swap.newBackstop # backstop)

\* A recipient is never replaced before it has been one for QUEUE_SECONDS: a
\* queue made against its predecessor is never left over to be executed
\* against it, so its holders always see a full queue period.
MinimumTenure ==
  [][isInit /\ backstop' # backstop => now - since >= QueueSeconds]_vars

\* A queue is always resolved, by a swap or by a cancellation: a candidate that
\* keeps qualifying but is never swapped in cannot occupy the only queue slot
\* for ever.
QueueResolves == (swap # None) ~> (swap = None)

\* The emitter refines the abstract schedule: whoever the recipient is, each
\* second since initialize is minted exactly once.  Note that a swap is one
\* abstract Emit, whose checkpoint moves from one recipient to the other.
Schedule == INSTANCE EmissionSchedule WITH
  started <- isInit,
  checkpoint <- IF isInit THEN lastDistro[backstop] ELSE 0

ImplementsSchedule == Schedule!ScheduleSpec
=============================================================================
