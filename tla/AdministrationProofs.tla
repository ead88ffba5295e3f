------------------------- MODULE AdministrationProofs --------------------------
(***************************************************************************)
(* Theorems about PoolAdministration, for every set of assets,             *)
(* configurations, accounts and rates and every value of the periods.      *)
(***************************************************************************)
EXTENDS PoolAdministration, TLAPS

\* The administrator made the last proposal or came into office by it.
ProposalIsKnown == admin \in {proposed.by, proposed.to}

\* Whatever was queued once the pool was open unlocks a week later.
QueuedForAWeek ==
  \A a \in Assets : queued[a] # NoQueue
    => queued[a].within = Setup \/ queued[a].unlock - queued[a].at >= Week

\* Only reserves are lent: update_pool accrues the reserve list, and no more.
LentAreListed == lent \subseteq Listed

IInv ==
  /\ AdministrationTypeOK
  /\ ProposalIsKnown
  /\ QueuedForAWeek
  /\ OneIndexEach
  /\ LentAreListed
  /\ TakeRateIsNotRetroactive

------------------------------------------------------------------------------
(* Lemmas on the operators *)

LEMMA RefreshedIsStatus ==
  ASSUME NEW s \in Statuses, NEW q \in Nat
  PROVE  Refreshed(s, q) \in Statuses
  BY DEF Refreshed, Statuses, AdminActive, Active, AdminOnIce, OnIce, AdminFrozen, Frozen, Setup

LEMMA NoConfigTyped ==
  /\ \A c \in Configs \cup {NoConfig} : c.curve \in Nat
  BY AdministrationAssumption DEF NoConfig

LEMMA ListedWithKeeps ==
  ASSUME NEW a \in Assets, reserves \in Seq(Assets), OneIndexEach
  PROVE  /\ ListedWith(a) \in Seq(Assets)
         /\ IsInjective(ListedWith(a))
         /\ Range(reserves) \cup {a} \subseteq Range(ListedWith(a))
  <1>1. CASE a \in Listed
    BY <1>1 DEF ListedWith, OneIndexEach, Listed
  <1>2. CASE a \notin Listed
    <2>1. ListedWith(a) = Append(reserves, a)
      BY <1>2 DEF ListedWith
    <2>2. /\ Append(reserves, a) \in Seq(Assets)
          /\ DOMAIN Append(reserves, a) = 1..Len(reserves) + 1
          /\ \A i \in 1..Len(reserves) : Append(reserves, a)[i] = reserves[i]
          /\ Append(reserves, a)[Len(reserves) + 1] = a
          /\ DOMAIN reserves = 1..Len(reserves)
      OBVIOUS
    <2>3. \A i \in 1..Len(reserves) : reserves[i] # a
      BY <1>2, <2>2 DEF Listed, Range
    <2>4. IsInjective(Append(reserves, a))
      BY <2>2, <2>3 DEF IsInjective, OneIndexEach
    <2>5. Range(reserves) \cup {a} \subseteq Range(Append(reserves, a))
      <3>1. Len(reserves) \in Nat
        OBVIOUS
      <3> QED BY <2>2, <3>1 DEF Range
    <2> QED BY <2>1, <2>2, <2>4, <2>5
  <1> QED BY <1>1, <1>2

\* One more tick of an unchanged reserve.
LEMMA OneTickMore ==
  ASSUME NEW n \in Nat, NEW m \in Nat, m = n + 1, NEW l \in Nat, l <= n,
         NEW c \in Nat, NEW r \in Nat
  PROVE  (m - l) * c * r = (n - l) * c * r + c * r
  <1>1. m - l = (n - l) + 1 /\ n - l \in Nat
    OBVIOUS
  <1>2. \A x, y, z \in Nat : (x + 1) * y * z = x * y * z + y * z
    OBVIOUS
  <1> QED BY <1>1, <1>2

LEMMA AccruedTyped ==
  ASSUME AdministrationTypeOK, NEW a \in Assets
  PROVE  Accrued(a) \in Nat
  <1>1. now - last[a] \in Nat
    BY DEF AdministrationTypeOK
  <1>2. config[a].curve \in Nat /\ takeRate \in Nat
    BY NoConfigTyped, AdministrationAssumption DEF AdministrationTypeOK
  <1>3. \A x, y, z \in Nat : x * y * z \in Nat
    OBVIOUS
  <1> QED BY <1>1, <1>2, <1>3 DEF Accrued

------------------------------------------------------------------------------
(* The inductive invariant *)

LEMMA InitIInv == AdministrationInit => IInv
  <1> SUFFICES ASSUME AdministrationInit PROVE IInv
    OBVIOUS
  <1> USE AdministrationAssumption DEF AdministrationInit
  <1>1. status \in Statuses
    BY DEF Statuses, AdminActive, Setup
  <1>2. NoQueue \in QueueRecord
    BY DEF NoQueue, QueueRecord, Statuses, AdminActive, Setup
  <1>3. NoProposal \in [to : Accounts, by : Accounts, until : Nat \cup {-1}]
    BY DEF NoProposal
  <1>4. AdministrationTypeOK
    BY <1>1, <1>2, <1>3 DEF AdministrationTypeOK
  <1>5. ProposalIsKnown /\ QueuedForAWeek
    BY DEF ProposalIsKnown, NoProposal, QueuedForAWeek
  <1>6. OneIndexEach /\ LentAreListed
    BY DEF OneIndexEach, IsInjective, LentAreListed
  <1>7. TakeRateIsNotRetroactive
    BY DEF TakeRateIsNotRetroactive, Accrued
  <1> QED BY <1>4, <1>5, <1>6, <1>7 DEF IInv

LEMMA TypeStep ==
  ASSUME IInv, AdministrationNext
  PROVE  AdministrationTypeOK'
  <1> USE AdministrationAssumption DEF IInv, AdministrationTypeOK, poolVars, reserveVars, adminVars
  <1>1. ASSUME NEW to \in Accounts, ProposeAdmin(to) PROVE AdministrationTypeOK'
    BY <1>1 DEF ProposeAdmin, Act
  <1>2. CASE AcceptAdmin
    BY <1>2 DEF AcceptAdmin, ProposalAfter
  <1>3. CASE UpdateStatus
    <2>1. status \in Statuses /\ level \in Nat
      OBVIOUS
    <2>2. Refreshed(status, level) \in Statuses
      BY ONLY <2>1, RefreshedIsStatus
    <2> QED BY <1>3, <2>2 DEF UpdateStatus
  <1>4. ASSUME NEW s \in Statuses, SetStatus(s) PROVE AdministrationTypeOK'
    BY <1>4 DEF SetStatus, Act
  <1>5. ASSUME NEW S \in SUBSET Assets, Touch(S)
        PROVE  /\ credit' \in [Assets -> Nat]
               /\ last' \in [Assets -> Nat]
               /\ \A a \in Assets : last'[a] <= now
    BY <1>5, AccruedTyped DEF Touch, TouchedAt
  <1>6. Listed \subseteq Assets
    BY DEF Listed, Range
  <1>7. ASSUME NEW rate \in Rates, UpdatePool(rate) PROVE AdministrationTypeOK'
    <2>1. AccruesFor(rate) \in SUBSET Assets
      BY <1>6 DEF AccruesFor
    <2> QED BY <1>7, <1>5, <2>1 DEF UpdatePool, Act
  <1>8. ASSUME NEW a \in Assets, NEW c \in Configs, QueueSetReserve(a, c)
        PROVE  AdministrationTypeOK'
    <2>1. [config |-> c, unlock |-> UnlockTime, at |-> now, within |-> status] \in QueueRecord
      BY DEF QueueRecord, UnlockTime
    <2> QED BY <1>8, <2>1 DEF QueueSetReserve, Act
  <1>9. ASSUME NEW a \in Assets, CancelSetReserve(a) PROVE AdministrationTypeOK'
    <2>1. NoQueue \in QueueRecord
      BY DEF NoQueue, QueueRecord, Statuses, AdminActive, Setup
    <2> QED BY <1>9, <2>1 DEF CancelSetReserve, Act
  <1>10. ASSUME NEW a \in Assets, SetReserve(a) PROVE AdministrationTypeOK'
    <2>1. NoQueue \in QueueRecord
      BY DEF NoQueue, QueueRecord, Statuses, AdminActive, Setup
    <2>2. reserves' \in Seq(Assets) /\ Len(reserves') <= MaxReserves
      <3>1. ListedWith(a) \in Seq(Assets)
        BY ListedWithKeeps
      <3>2. Len(ListedWith(a)) <= MaxReserves
        BY <1>10 DEF SetReserve, ListedWith
      <3> QED BY <1>10, <3>1, <3>2 DEF SetReserve
    <2>3. config' \in [Assets -> Configs \cup {NoConfig}]
      BY <1>10 DEF SetReserve, QueueRecord
    <2>4. queued' \in [Assets -> QueueRecord]
      BY <1>10, <2>1 DEF SetReserve
    <2>5. /\ credit' \in [Assets -> Nat]
          /\ last' \in [Assets -> Nat]
          /\ \A b \in Assets : last'[b] <= now
      BY <1>10, <1>5 DEF SetReserve
    <2> QED BY <1>10, <2>2, <2>3, <2>4, <2>5 DEF SetReserve
  <1>11. ASSUME NEW a \in Assets, Borrow(a) PROVE AdministrationTypeOK'
    BY <1>11, <1>5 DEF Borrow, Act
  <1>12. ASSUME NEW a \in Assets, Repay(a) PROVE AdministrationTypeOK'
    BY <1>12, <1>5 DEF Repay, Act
  <1>13. ASSUME NEW a \in Assets, Use(a) PROVE AdministrationTypeOK'
    BY <1>13, <1>5 DEF Use
  <1>14. CASE MoveBackstop
    BY <1>14 DEF MoveBackstop
  <1>15. CASE Tick
    <2>1. \A a \in Assets : config[a].curve * takeRate \in Nat
      <3>1. \A a \in Assets : config[a].curve \in Nat /\ takeRate \in Nat
        BY NoConfigTyped
      <3>2. \A x, y \in Nat : x * y \in Nat
        OBVIOUS
      <3> QED BY <3>1, <3>2
    <2>2. earned' \in [Assets -> Nat]
      <3>1. \A a \in Assets : earned[a] + config[a].curve * takeRate \in Nat
        BY <2>1
      <3> QED BY <1>15, <3>1 DEF Tick
    <2> QED BY <1>15, <2>2 DEF Tick
  <1> QED BY <1>1, <1>2, <1>3, <1>4, <1>7, <1>8, <1>9, <1>10, <1>11, <1>12, <1>13, <1>14, <1>15
          DEF AdministrationNext

LEMMA ProposalStep ==
  ASSUME IInv, AdministrationNext
  PROVE  ProposalIsKnown'
  <1> USE DEF IInv, ProposalIsKnown, adminVars
  <1>1. ASSUME NEW to \in Accounts, ProposeAdmin(to) PROVE ProposalIsKnown'
    BY <1>1 DEF ProposeAdmin
  <1>2. CASE AcceptAdmin
    BY <1>2 DEF AcceptAdmin, ProposalAfter
  <1>3. CASE UNCHANGED adminVars
    BY <1>3
  <1> QED BY <1>1, <1>2, <1>3
          DEF AdministrationNext, UpdateStatus, SetStatus, UpdatePool, QueueSetReserve,
              CancelSetReserve, SetReserve, Borrow, Repay, Use, MoveBackstop, Tick

LEMMA QueueStep ==
  ASSUME IInv, AdministrationNext
  PROVE  QueuedForAWeek'
  <1> USE AdministrationAssumption DEF IInv, AdministrationTypeOK, QueuedForAWeek
  <1>1. ASSUME NEW a \in Assets, NEW c \in Configs, QueueSetReserve(a, c)
        PROVE  QueuedForAWeek'
    <2>1. LET entry == [config |-> c, unlock |-> UnlockTime, at |-> now, within |-> status]
          IN  entry.within = Setup \/ entry.unlock - entry.at >= Week
      BY DEF UnlockTime
    <2>2. \A b \in Assets \ {a} : queued'[b] = queued[b]
      BY <1>1 DEF QueueSetReserve
    <2>3. queued'[a] = [config |-> c, unlock |-> UnlockTime, at |-> now, within |-> status]
      BY <1>1 DEF QueueSetReserve
    <2> QED BY <2>1, <2>2, <2>3
  <1>2. ASSUME NEW a \in Assets, queued' = [queued EXCEPT ![a] = NoQueue]
        PROVE  QueuedForAWeek'
    BY <1>2
  <1>3. CASE UNCHANGED queued
    BY <1>3
  <1> QED BY <1>1, <1>2, <1>3
          DEF AdministrationNext, ProposeAdmin, AcceptAdmin, UpdateStatus, SetStatus, UpdatePool,
              CancelSetReserve, SetReserve, Borrow, Repay, Use, MoveBackstop, Tick, reserveVars

LEMMA IndexStep ==
  ASSUME IInv, AdministrationNext
  PROVE  OneIndexEach'
  <1>1. ASSUME NEW a \in Assets, SetReserve(a) PROVE OneIndexEach'
    <2>1. reserves \in Seq(Assets) /\ OneIndexEach
      BY DEF IInv, AdministrationTypeOK
    <2>2. IsInjective(ListedWith(a))
      BY <2>1, ListedWithKeeps
    <2> QED BY <1>1, <2>2 DEF SetReserve, OneIndexEach
  <1>2. CASE UNCHANGED reserves
    BY <1>2 DEF IInv, OneIndexEach
  <1> QED BY <1>1, <1>2
          DEF AdministrationNext, ProposeAdmin, AcceptAdmin, UpdateStatus, SetStatus, UpdatePool,
              QueueSetReserve, CancelSetReserve, Borrow, Repay, Use, MoveBackstop, Tick, reserveVars

LEMMA LentStep ==
  ASSUME IInv, AdministrationNext
  PROVE  LentAreListed'
  <1> USE DEF IInv, LentAreListed, Listed
  <1>1. ASSUME NEW a \in Assets, SetReserve(a) PROVE LentAreListed'
    <2>1. reserves \in Seq(Assets) /\ OneIndexEach
      BY DEF AdministrationTypeOK
    <2>2. Range(reserves) \subseteq Range(ListedWith(a))
      BY <2>1, ListedWithKeeps
    <2> QED BY <1>1, <2>2 DEF SetReserve
  <1>2. ASSUME NEW a \in Assets, Borrow(a) PROVE LentAreListed'
    BY <1>2 DEF Borrow
  <1>3. ASSUME NEW a \in Assets, Repay(a) PROVE LentAreListed'
    BY <1>3 DEF Repay
  <1>4. CASE UNCHANGED <<lent, reserves>>
    BY <1>4
  <1> QED BY <1>1, <1>2, <1>3, <1>4
          DEF AdministrationNext, ProposeAdmin, AcceptAdmin, UpdateStatus, SetStatus, UpdatePool,
              QueueSetReserve, CancelSetReserve, Use, MoveBackstop, Tick, reserveVars

\* A call that touches the reserves whose price or lending it changes charges what
\* was earned, and charges nothing more afterwards.
LEMMA TouchCharges ==
  ASSUME IInv, AdministrationTypeOK', NEW S \in SUBSET Assets, Touch(S),
         UNCHANGED <<now, earned>>,
         \A a \in Assets \ S : config'[a] = config[a] /\ (a \in lent' <=> a \in lent),
         takeRate' = takeRate \/ lent \subseteq S
  PROVE  TakeRateIsNotRetroactive'
  <1> SUFFICES ASSUME NEW a \in Assets
               PROVE  credit'[a] + Accrued(a)' = earned[a]
    BY DEF TakeRateIsNotRetroactive
  <1> USE DEF IInv, AdministrationTypeOK
  <1>1. credit[a] + Accrued(a) = earned[a]
    BY DEF TakeRateIsNotRetroactive
  <1>2. CASE a \in S
    <2>1. credit'[a] = credit[a] + Accrued(a) /\ last'[a] = now
      BY <1>2 DEF Touch, TouchedAt
    <2>2. Accrued(a)' = 0
      <3>1. now' - last'[a] = 0
        BY <2>1
      <3>2. config'[a].curve \in Nat /\ takeRate' \in Nat
        BY NoConfigTyped, AdministrationAssumption
      <3>3. \A y, z \in Nat : 0 * y * z = 0
        OBVIOUS
      <3>4. Accrued(a)' = (now' - last'[a]) * config'[a].curve * takeRate' \/ Accrued(a)' = 0
        BY DEF Accrued
      <3> QED BY <3>1, <3>2, <3>3, <3>4
    <2>3. credit[a] \in Nat /\ Accrued(a) \in Nat
      BY AccruedTyped
    <2> QED BY <1>1, <2>1, <2>2, <2>3
  <1>3. CASE a \notin S
    <2>1. credit'[a] = credit[a] /\ last'[a] = last[a]
      BY <1>3 DEF Touch, TouchedAt
    <2>2. Accrued(a)' = Accrued(a)
      BY <1>3, <2>1 DEF Accrued
    <2> QED BY <1>1, <2>1, <2>2
  <1> QED BY <1>2, <1>3

LEMMA RateStep ==
  ASSUME IInv, AdministrationNext
  PROVE  TakeRateIsNotRetroactive'
  <1> USE DEF IInv, poolVars, reserveVars
  <1>1. Listed \subseteq Assets
    BY DEF AdministrationTypeOK, Listed, Range
  <1>2. ASSUME NEW rate \in Rates, UpdatePool(rate) PROVE TakeRateIsNotRetroactive'
    <2>1. AccruesFor(rate) \in SUBSET Assets /\ (rate = takeRate \/ lent \subseteq AccruesFor(rate))
      BY <1>1 DEF AccruesFor, LentAreListed
    <2>2. UNCHANGED <<now, earned, config, lent>> /\ takeRate' = rate /\ Touch(AccruesFor(rate))
      BY <1>2 DEF UpdatePool
    <2> QED BY <2>1, <2>2, TouchCharges, TypeStep
  <1>3. ASSUME NEW a \in Assets, SetReserve(a) PROVE TakeRateIsNotRetroactive'
    <2>1. UNCHANGED <<now, earned, takeRate, lent>> /\ Touch({a})
      BY <1>3 DEF SetReserve
    <2>2. \A b \in Assets \ {a} : config'[b] = config[b]
      BY <1>3 DEF SetReserve, AdministrationTypeOK
    <2> QED BY <2>1, <2>2, TouchCharges, TypeStep
  <1>4. ASSUME NEW a \in Assets, Borrow(a) PROVE TakeRateIsNotRetroactive'
    <2>1. UNCHANGED <<now, earned, takeRate, config>> /\ Touch({a}) /\ lent' = lent \cup {a}
      BY <1>4 DEF Borrow
    <2> QED BY <2>1, TouchCharges, TypeStep
  <1>5. ASSUME NEW a \in Assets, Repay(a) PROVE TakeRateIsNotRetroactive'
    <2>1. UNCHANGED <<now, earned, takeRate, config>> /\ Touch({a}) /\ lent' = lent \ {a}
      BY <1>5 DEF Repay
    <2> QED BY <2>1, TouchCharges, TypeStep
  <1>6. ASSUME NEW a \in Assets, Use(a) PROVE TakeRateIsNotRetroactive'
    <2>1. UNCHANGED <<now, earned, takeRate, config, lent>> /\ Touch({a})
      BY <1>6 DEF Use
    <2> QED BY <2>1, TouchCharges, TypeStep
  <1>7. CASE Tick
    <2> SUFFICES ASSUME NEW a \in Assets
                 PROVE  credit[a] + Accrued(a)' = earned'[a]
      BY <1>7 DEF TakeRateIsNotRetroactive, Tick
    <2> DEFINE c == config[a].curve
    <2>1. credit[a] + Accrued(a) = earned[a]
      BY DEF TakeRateIsNotRetroactive
    <2>2. /\ now \in Nat /\ last[a] \in Nat /\ last[a] <= now
          /\ credit[a] \in Nat /\ Accrued(a) \in Nat /\ c \in Nat /\ takeRate \in Nat
      BY AccruedTyped, NoConfigTyped, AdministrationAssumption DEF AdministrationTypeOK
    <2>3. /\ last' = last /\ config' = config /\ takeRate' = takeRate /\ lent' = lent
          /\ now' = now + 1
      BY <1>7 DEF Tick
    <2>4. CASE a \in lent
      <3>1. earned'[a] = earned[a] + c * takeRate
        BY <1>7, <2>4 DEF Tick
      <3>2. Accrued(a) = (now - last[a]) * c * takeRate
        BY <2>4 DEF Accrued
      <3>3. Accrued(a)' = (now' - last[a]) * c * takeRate
        BY <2>3, <2>4, Zenon DEF Accrued
      <3> HIDE DEF c
      <3>4. Accrued(a)' = Accrued(a) + c * takeRate
        <4>1. now' \in Nat /\ now' = now + 1
          BY <2>2, <2>3
        <4> QED BY <4>1, <2>2, <3>2, <3>3, OneTickMore
      <3>5. c * takeRate \in Nat
        <4>1. \A x, y \in Nat : x * y \in Nat
          OBVIOUS
        <4> QED BY <2>2, <4>1
      <3> QED BY <2>1, <2>2, <3>1, <3>4, <3>5
    <2>5. CASE a \notin lent
      BY <1>7, <2>1, <2>3, <2>5 DEF Tick, Accrued
    <2> QED BY <2>4, <2>5
  <1>8. CASE UNCHANGED <<now, takeRate, config, lent, last, credit, earned>>
    BY <1>8 DEF TakeRateIsNotRetroactive, Accrued
  <1> QED BY <1>2, <1>3, <1>4, <1>5, <1>6, <1>7, <1>8
          DEF AdministrationNext, ProposeAdmin, AcceptAdmin, UpdateStatus, SetStatus,
              QueueSetReserve, CancelSetReserve, MoveBackstop

LEMMA Inductive == IInv /\ [AdministrationNext]_administrationVars => IInv'
  <1> SUFFICES ASSUME IInv, [AdministrationNext]_administrationVars PROVE IInv'
    OBVIOUS
  <1>1. CASE AdministrationNext
    BY <1>1, TypeStep, ProposalStep, QueueStep, IndexStep, LentStep, RateStep DEF IInv
  <1>2. CASE UNCHANGED administrationVars
    BY <1>2 DEF IInv, AdministrationTypeOK, ProposalIsKnown, QueuedForAWeek, OneIndexEach,
                LentAreListed, Listed, TakeRateIsNotRetroactive, Accrued, administrationVars,
                poolVars, reserveVars, adminVars
  <1> QED BY <1>1, <1>2

LEMMA Invariance == AdministrationSpec => []IInv
  BY InitIInv, Inductive, PTL DEF AdministrationSpec

------------------------------------------------------------------------------
(* Theorems *)

\* The variables keep their types, and no reserve was touched in the future.
THEOREM AdministrationTypeCorrect == AdministrationSpec => []AdministrationTypeOK
  <1>1. IInv => AdministrationTypeOK
    BY DEF IInv
  <1> QED BY <1>1, Invariance, PTL

\* However often a reserve is queued, cancelled and set again, set_reserve gives it
\* one index (config.rs, push_res_list).
THEOREM OneIndexEachHolds == AdministrationSpec => []OneIndexEach
  <1>1. IInv => OneIndexEach
    BY DEF IInv
  <1> QED BY <1>1, Invariance, PTL

\* The backstop is credited exactly what accrued at the rates, along the curves and
\* over the times in force: update_pool and set_reserve accrue before they change.
THEOREM TakeRateHolds == AdministrationSpec => []TakeRateIsNotRetroactive
  <1>1. IInv => TakeRateIsNotRetroactive
    BY DEF IInv
  <1> QED BY <1>1, Invariance, PTL

\* set_reserve installs only what was queued a week before, or during Setup.
THEOREM ChangesWaitAWeekHolds == AdministrationSpec => ChangesWaitAWeek
  <1> DEFINE Waited ==
        \A a \in Assets : config'[a] # config[a]
          => /\ queued[a].config = config'[a]
             /\ queued[a].within = Setup \/ now - queued[a].at >= Week
  <1>1. ASSUME IInv, [AdministrationNext]_administrationVars
        PROVE  [Waited]_administrationVars
    <2>1. ASSUME NEW b \in Assets, SetReserve(b) PROVE Waited
      <3> SUFFICES ASSUME NEW a \in Assets, config'[a] # config[a]
                   PROVE  /\ queued[a].config = config'[a]
                          /\ queued[a].within = Setup \/ now - queued[a].at >= Week
        OBVIOUS
      <3>1. a = b /\ config'[a] = queued[a].config /\ queued[a].unlock <= now /\ queued[a] # NoQueue
        BY <1>1, <2>1 DEF SetReserve, InQueue, IInv, AdministrationTypeOK
      <3>2. /\ now \in Nat /\ Week \in Nat
            /\ queued[a].unlock \in Int /\ queued[a].at \in Int
        BY <1>1, AdministrationAssumption DEF IInv, AdministrationTypeOK, QueueRecord
      <3>3. queued[a].within = Setup \/ queued[a].unlock - queued[a].at >= Week
        BY <1>1, <3>1 DEF IInv, QueuedForAWeek
      <3> QED BY <3>1, <3>2, <3>3
    <2>2. CASE UNCHANGED config
      BY <2>2
    <2> QED BY <1>1, <2>1, <2>2
            DEF AdministrationNext, ProposeAdmin, AcceptAdmin, UpdateStatus, SetStatus, UpdatePool,
                QueueSetReserve, CancelSetReserve, Borrow, Repay, Use, MoveBackstop, Tick,
                administrationVars, reserveVars
  <1> QED BY <1>1, Invariance, PTL DEF AdministrationSpec, ChangesWaitAWeek

\* accept_admin takes the office only on the proposal of the present administrator,
\* although it leaves an old proposal in storage.
THEOREM AdminHandsOverHolds == AdministrationSpec => AdminHandsOver
  <1>1. ASSUME IInv, [AdministrationNext]_administrationVars
        PROVE  [admin' # admin => proposed.by = admin]_administrationVars
    <2>1. CASE AcceptAdmin
      BY <1>1, <2>1 DEF AcceptAdmin, IInv, ProposalIsKnown
    <2>2. CASE UNCHANGED admin
      BY <2>2
    <2> QED BY <1>1, <2>1, <2>2
            DEF AdministrationNext, ProposeAdmin, UpdateStatus, SetStatus, UpdatePool, SetReserve,
                QueueSetReserve, CancelSetReserve, Borrow, Repay, Use, MoveBackstop, Tick,
                administrationVars, adminVars
  <1> QED BY <1>1, Invariance, PTL DEF AdministrationSpec, AdminHandsOver

================================================================================
