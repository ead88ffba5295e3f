-------------------------- MODULE PoolAdministration ---------------------------
(***************************************************************************)
(* The administration of one pool: its two-step administrator, its seven   *)
(* statuses under the queue of the backstop, the take rate, and the queue  *)
(* of reserve configurations with its one-week timelock (pool/src/pool/    *)
(* config.rs, status.rs, the administrator's entry points of contract.rs). *)
(*                                                                         *)
(* The take rate and the interest curve price what accrues between two     *)
(* touches of a reserve: interest is counted in take-rate credit, curve    *)
(* times rate per tick, while the reserve is lent.                         *)
(***************************************************************************)
EXTENDS Integers, Sequences, SequencesExt

CONSTANTS
  Assets,       \* tokens that may become reserves
  Configs,      \* reserve configurations [decimals, lFactor, curve] an administrator queues
  Accounts,     \* accounts that may become the administrator
  Deployer,     \* the administrator the pool is deployed with
  Rates,        \* take rates (bstop_rate)
  Levels,       \* q4w_pct of the backstop, in percent
  Week,         \* SECONDS_PER_WEEK, in ticks
  ProposalLife, \* ticks the temporary entry of a proposal lives, 10 days
  QueueLife,    \* ticks the temporary entry of a queued reserve lives, 120 days
  MaxReserves,  \* MAX_RESERVES, 30
  MaxTime,      \* bound: the clock stops here
  MaxActs       \* bound: acts of the administrator and the borrowers

ASSUME AdministrationAssumption ==
  /\ \A c \in Configs : c.decimals \in 0..18 /\ c.lFactor \in Nat /\ c.curve \in Nat
  /\ Rates \subseteq Nat /\ 0 \in Rates
  /\ Levels \subseteq 0..100 /\ 0 \in Levels
  /\ Week \in Nat \ {0} /\ ProposalLife \in Nat /\ QueueLife \in Nat
  /\ MaxReserves \in Nat /\ MaxTime \in Nat /\ MaxActs \in Nat
  /\ Deployer \in Accounts

VARIABLES
  status,    \* PoolConfig.status
  level,     \* queued share of the backstop's value
  tiers,     \* the pool was deployed with backstop tiers
  takeRate,  \* PoolConfig.bstop_rate
  reserves,  \* the reserve list: assets in the order of their indices
  config,    \* config[a]: configuration of a reserve
  queued,    \* queued[a]: the queued configuration, or NoQueue
  lent,      \* reserves with liabilities
  last,      \* last[a]: last_time of the reserve
  credit,    \* credit[a]: interest credited to the backstop
  admin,     \* the administrator
  proposed,  \* the last proposal, or NoProposal
  now,       \* the ledger's time
  acts,      \* bound: acts so far
  earned     \* history: interest owed to the backstop at the rates of the time

poolVars == <<status, level, tiers, takeRate>>
reserveVars == <<reserves, config, queued, lent, last, credit, earned>>
adminVars == <<admin, proposed>>
administrationVars == <<poolVars, reserveVars, adminVars, now, acts>>

AdminActive == 0
Active == 1
AdminOnIce == 2
OnIce == 3
AdminFrozen == 4
Frozen == 5
Setup == 6

Statuses == AdminActive..Setup

NoConfig == [decimals |-> 0, lFactor |-> 0, curve |-> 0]

\* What storage holds of a queued configuration, and when it was queued and in
\* which status (history).
NoQueue == [config |-> NoConfig, unlock |-> -1, at |-> -1, within |-> Setup]

NoProposal == [to |-> Deployer, by |-> Deployer, until |-> -1]

Listed == Range(reserves)

AdministrationInit ==
  /\ status = Setup
  /\ level = 0
  /\ tiers \in BOOLEAN
  /\ takeRate \in IF tiers THEN Rates ELSE {0}
  /\ reserves = <<>>
  /\ config = [a \in Assets |-> NoConfig]
  /\ queued = [a \in Assets |-> NoQueue]
  /\ lent = {}
  /\ last = [a \in Assets |-> 0]
  /\ credit = [a \in Assets |-> 0]
  /\ earned = [a \in Assets |-> 0]
  /\ admin = Deployer
  /\ proposed = NoProposal
  /\ now = 0
  /\ acts = 0

Act == acts < MaxActs /\ acts' = acts + 1

------------------------------------------------------------------------------
(* The administrator *)

ProposeAdmin(to) ==
  /\ Act
  /\ proposed' = [to |-> to, by |-> admin, until |-> now + ProposalLife]
  /\ UNCHANGED <<poolVars, reserveVars, admin, now>>

\* Changed: the former administrator can take the office back.
ProposalAfterReturning == [to |-> admin, by |-> admin, until |-> proposed.until]

\* accept_admin leaves the proposal in storage until it expires.
ProposalAfter == proposed

AcceptAdmin ==
  /\ now <= proposed.until
  /\ admin' = proposed.to
  /\ proposed' = ProposalAfter
  /\ UNCHANGED <<poolVars, reserveVars, now, acts>>

------------------------------------------------------------------------------
(* Status *)

\* Changed: a pool its administrator activated stays active.
RefreshedTrusting(s, q) ==
  CASE s = AdminOnIce  -> IF q >= 75 THEN Frozen ELSE AdminOnIce
    [] s = AdminActive -> AdminActive
    [] OTHER           -> IF q >= 60 THEN Frozen ELSE IF q >= 30 THEN OnIce ELSE Active

\* execute_update_pool_status
Refreshed(s, q) ==
  CASE s = AdminOnIce  -> IF q >= 75 THEN Frozen ELSE AdminOnIce
    [] s = AdminActive -> IF q >= 50 THEN OnIce ELSE AdminActive
    [] OTHER           -> IF q >= 60 THEN Frozen ELSE IF q >= 30 THEN OnIce ELSE Active

UpdateStatus ==
  /\ status \notin {Setup, AdminFrozen}
  /\ status' = Refreshed(status, level)
  /\ UNCHANGED <<level, tiers, takeRate, reserveVars, adminVars, now, acts>>

\* Statuses the administrator may choose.
Choosable(q) ==
  {AdminFrozen} \cup (IF q < 75 THEN {AdminOnIce, OnIce} ELSE {})
                \cup (IF q < 50 THEN {AdminActive} ELSE {})

SetStatus(s) ==
  /\ Act
  /\ s \in Choosable(level)
  /\ status' = s
  /\ UNCHANGED <<level, tiers, takeRate, reserveVars, adminVars, now>>

\* require_action_allowed
MayBorrow == status <= Active

------------------------------------------------------------------------------
(* Accrual *)

\* What a reserve has earned for the backstop since it was touched.
Accrued(a) ==
  IF a \in lent THEN (now - last[a]) * config[a].curve * takeRate ELSE 0

\* Changed: a reserve that lends nothing keeps its last_time.
TouchedAtBorrowed(S) == [a \in Assets |-> IF a \in S /\ a \in lent THEN now ELSE last[a]]

\* last_time advances even if nothing accrues: an idle time is never charged.
TouchedAt(S) == [a \in Assets |-> IF a \in S THEN now ELSE last[a]]

\* load_reserve for writing, and store, of the reserves S.
Touch(S) ==
  /\ credit' = [a \in Assets |-> IF a \in S THEN credit[a] + Accrued(a) ELSE credit[a]]
  /\ last' = TouchedAt(S)

------------------------------------------------------------------------------
(* Configuration *)

\* Changed: the take rate changes without accruing what is owed at the old one.
AccruesForNone(rate) == {}

\* Reserves that update_pool accrues before it stores the new rate.
AccruesFor(rate) == IF rate = takeRate THEN {} ELSE Listed

UpdatePool(rate) ==
  /\ Act
  /\ takeRate = 0 /\ rate > 0 => tiers
  /\ Touch(AccruesFor(rate))
  /\ takeRate' = rate
  /\ UNCHANGED <<status, level, tiers, reserves, config, queued, lent, earned, adminVars, now>>

InQueue(a) == queued[a] # NoQueue /\ now <= queued[a].at + QueueLife

\* require_valid_reserve_metadata_changes
ValidChange(old, new) ==
  old.decimals = new.decimals /\ (old.lFactor # 0 => new.lFactor # 0)

\* Changed: a frozen pool needs no timelock.
UnlockTimeFrozen == IF status >= AdminFrozen THEN now ELSE now + Week

UnlockTime == IF status = Setup THEN now ELSE now + Week

QueueSetReserve(a, c) ==
  /\ Act
  /\ ~InQueue(a)
  /\ a \in Listed => ValidChange(config[a], c)
  /\ queued' = [queued EXCEPT ![a] = [config |-> c, unlock |-> UnlockTime, at |-> now,
                                      within |-> status]]
  /\ UNCHANGED <<poolVars, reserves, config, lent, last, credit, earned, adminVars, now>>

CancelSetReserve(a) ==
  /\ Act
  /\ queued' = [queued EXCEPT ![a] = NoQueue]
  /\ UNCHANGED <<poolVars, reserves, config, lent, last, credit, earned, adminVars, now>>

\* Changed: an asset is pushed to the list whenever it is set.
ListedWithAgain(a) == Append(reserves, a)

\* A reserve keeps its index; a new one takes the next.
ListedWith(a) == IF a \in Listed THEN reserves ELSE Append(reserves, a)

\* set_reserve, by anyone.  What is owed under the old curve is accrued first.
SetReserve(a) ==
  /\ InQueue(a) /\ queued[a].unlock <= now
  /\ IF a \in Listed THEN ValidChange(config[a], queued[a].config)
                     ELSE Len(reserves) < MaxReserves
  /\ Touch({a})
  /\ reserves' = ListedWith(a)
  /\ config' = [config EXCEPT ![a] = queued[a].config]
  /\ queued' = [queued EXCEPT ![a] = NoQueue]
  /\ UNCHANGED <<poolVars, lent, earned, adminVars, now, acts>>

------------------------------------------------------------------------------
(* Borrowers and the environment *)

\* A submission by which the reserve becomes lent.
Borrow(a) ==
  /\ Act
  /\ MayBorrow
  /\ a \in Listed \ lent
  /\ Touch({a})
  /\ lent' = lent \cup {a}
  /\ UNCHANGED <<poolVars, reserves, config, queued, earned, adminVars, now>>

\* A submission that repays the last debt of the reserve.
Repay(a) ==
  /\ Act
  /\ a \in lent
  /\ Touch({a})
  /\ lent' = lent \ {a}
  /\ UNCHANGED <<poolVars, reserves, config, queued, earned, adminVars, now>>

\* A submission that leaves the reserve as lent as it was.
Use(a) ==
  /\ a \in Listed
  /\ Touch({a})
  /\ UNCHANGED <<poolVars, reserves, config, queued, lent, earned, adminVars, now, acts>>

\* Depositors of the backstop queue and dequeue, and its tokens change in value.
MoveBackstop ==
  /\ level' \in Levels \ {level}
  /\ UNCHANGED <<status, tiers, takeRate, reserveVars, adminVars, now, acts>>

Tick ==
  /\ now < MaxTime
  /\ now' = now + 1
  /\ earned' = [a \in Assets |-> IF a \in lent THEN earned[a] + config[a].curve * takeRate
                                 ELSE earned[a]]
  /\ UNCHANGED <<poolVars, reserves, config, queued, lent, last, credit, adminVars, acts>>

AdministrationNext ==
  \/ \E to \in Accounts : ProposeAdmin(to)
  \/ AcceptAdmin
  \/ UpdateStatus
  \/ \E s \in Statuses : SetStatus(s)
  \/ \E rate \in Rates : UpdatePool(rate)
  \/ \E a \in Assets, c \in Configs : QueueSetReserve(a, c)
  \/ \E a \in Assets : CancelSetReserve(a)
  \/ \E a \in Assets : SetReserve(a)
  \/ \E a \in Assets : Borrow(a)
  \/ \E a \in Assets : Repay(a)
  \/ \E a \in Assets : Use(a)
  \/ MoveBackstop
  \/ Tick

AdministrationSpec == AdministrationInit /\ [][AdministrationNext]_administrationVars

\* Somebody refreshes the status, as anyone may.
AdministrationKeeperSpec == AdministrationSpec /\ WF_administrationVars(UpdateStatus)

------------------------------------------------------------------------------
(* Properties *)

QueueRecord ==
  [config : Configs \cup {NoConfig}, unlock : Nat \cup {-1}, at : Nat \cup {-1}, within : Statuses]

AdministrationTypeOK ==
  /\ status \in Statuses /\ level \in Levels
  /\ tiers \in BOOLEAN /\ takeRate \in Rates
  /\ reserves \in Seq(Assets) /\ Len(reserves) <= MaxReserves
  /\ config \in [Assets -> Configs \cup {NoConfig}]
  /\ queued \in [Assets -> QueueRecord]
  /\ lent \subseteq Assets
  /\ last \in [Assets -> Nat] /\ \A a \in Assets : last[a] <= now
  /\ credit \in [Assets -> Nat] /\ earned \in [Assets -> Nat]
  /\ admin \in Accounts
  /\ proposed \in [to : Accounts, by : Accounts, until : Nat \cup {-1}]
  /\ now \in Nat /\ acts \in Nat

\* Every reserve has one index, however often it is queued, cancelled and set
\* again: shares are stored under the index, and a second one would lose them.
OneIndexEach == IsInjective(reserves)

\* Interest is never charged at a rate, along a curve, or over a time that was not
\* in force when it accrued: administrators change both only after accruing, and
\* idle times are skipped although reserves accrue lazily.
TakeRateIsNotRetroactive ==
  \A a \in Assets : credit[a] + Accrued(a) = earned[a]

\* No borrower meets a configuration that was not public for a week, through any
\* sequence of queueing, cancelling, freezing and expiry, unless it was queued
\* before the pool opened.
ChangesWaitAWeek ==
  [][\A a \in Assets : config'[a] # config[a]
       => /\ queued[a].config = config'[a]
          /\ queued[a].within = Setup \/ now - queued[a].at >= Week]_administrationVars

\* The office moves only to the choice of the one who holds it: proposals of former
\* administrators, which accept_admin leaves in storage, never count again.
AdminHandsOver == [][admin' # admin => proposed.by = admin]_administrationVars

\* While somebody refreshes it, a pool the administrator does not hold on ice or
\* frozen follows a run on its backstop, and recovers from it.
StatusFollowsTheQueue ==
  /\ <>[](level >= 60 /\ status \notin {AdminOnIce, AdminFrozen, Setup}) => []<>(status = Frozen)
  /\ <>[](level < 30 /\ status \in {Active, OnIce, Frozen}) => []<>(status = Active)
================================================================================
