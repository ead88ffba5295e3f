---------------------------- MODULE MigrationProofs ----------------------------
(***************************************************************************)
(* Theorems about Emitter, then about BackstopMigration, for every set of  *)
(* backstops, tokens, and drop lists, and every value of the periods and   *)
(* ceilings that keeps the order of the constants in the code.             *)
(***************************************************************************)
EXTENDS BackstopMigration, LedgerLemmas

------------------------------------------------------------------------------
(* The emitter *)

\* What the storage looks like before and after initialize.
Initialized ==
  /\ isInit => /\ initializer = None
               /\ backstop \in Backstops
               /\ initialBackstop \in Backstops
               /\ backstopToken \in Tokens
               /\ lastDistro[backstop] \in Nat
  /\ ~isInit => /\ backstop = None
                /\ swap = None
                /\ dropped = {}
                /\ start = 0
                /\ emitted = 0
                /\ \A b \in Backstops : served[b] = 0 /\ received[b] = 0

\* The checkpoint of the current recipient lies within its tenure.
CheckpointInTenure ==
  isInit => since <= lastDistro[backstop] /\ lastDistro[backstop] <= now

\* The queue was made during the tenure of the recipient it challenges.
QueuedInTenure ==
  isInit => (swap # None => swap.unlock >= since + QueueSeconds)

\* A recipient that has not used its drop has minted nothing by it.
NoDropYet == \A b \in Backstops : b \notin dropped => dropAmount[b] = 0

IInv ==
  /\ TypeOK
  /\ Initialized
  /\ CheckpointInTenure
  /\ TenurePaid
  /\ CandidateIsNotIncumbent
  /\ QueuedInTenure
  /\ NoDropYet
  /\ DropCeilings

------------------------------------------------------------------------------

LEMMA InitIInv == Init => IInv
  <1> SUFFICES ASSUME Init PROVE IInv
    OBVIOUS
  <1> USE ConstantsAssumption DEF Init
  <1>1. TypeOK
    <2>1. lastDistro \in [Backstops -> Nat \cup {None}]
      OBVIOUS
    <2>2. declared \in [Backstops -> Tokens \cup {None}]
      OBVIOUS
    <2>3. balance \in [Tokens -> [Backstops -> Nat]]
      OBVIOUS
    <2>4. /\ received \in [Backstops -> Nat]
          /\ served \in [Backstops -> Nat]
          /\ dropAmount \in [Backstops -> Int]
      OBVIOUS
    <2> QED BY <2>1, <2>2, <2>3, <2>4 DEF TypeOK
  <1>2. Initialized /\ CheckpointInTenure /\ TenurePaid
    BY DEF Initialized, CheckpointInTenure, TenurePaid
  <1>3. CandidateIsNotIncumbent /\ QueuedInTenure
    BY DEF CandidateIsNotIncumbent, QueuedInTenure
  <1>4. NoDropYet /\ DropCeilings
    BY DEF NoDropYet, DropCeilings
  <1> QED BY <1>1, <1>2, <1>3, <1>4 DEF IInv

LEMMA InitializePreserves ==
  ASSUME IInv, NEW b \in Backstops, NEW t \in Tokens, Initialize(Deployer, b, t)
  PROVE  IInv'
  <1> USE ConstantsAssumption DEF IInv, Initialize, StartDistro
  <1>1. TypeOK'
    BY DEF TypeOK, drops, external
  <1>2. Initialized' /\ CheckpointInTenure' /\ TenurePaid'
    BY DEF TypeOK, Initialized, CheckpointInTenure, TenurePaid
  <1>3. CandidateIsNotIncumbent' /\ QueuedInTenure'
    BY DEF Initialized, CandidateIsNotIncumbent, QueuedInTenure
  <1>4. NoDropYet' /\ DropCeilings'
    BY DEF TypeOK, Initialized, NoDropYet, DropCeilings, drops
  <1> QED BY <1>1, <1>2, <1>3, <1>4

LEMMA DistributePreserves ==
  ASSUME IInv, NEW b \in Backstops, Distribute(b)
  PROVE  IInv'
  <1> USE ConstantsAssumption
          DEF IInv, Distribute, ExecuteDistribute, config, recipient, drops, external
  <1>1. now - lastDistro[b] \in Nat
    BY DEF TypeOK, Initialized, CheckpointInTenure
  <1>2. TypeOK'
    BY <1>1 DEF TypeOK
  <1>3. Initialized' /\ CheckpointInTenure'
    BY DEF TypeOK, Initialized, CheckpointInTenure
  <1>4. TenurePaid'
    BY <1>1 DEF TypeOK, TenurePaid
  <1>5. CandidateIsNotIncumbent' /\ QueuedInTenure' /\ NoDropYet' /\ DropCeilings'
    BY DEF CandidateIsNotIncumbent, QueuedInTenure, NoDropYet, DropCeilings
  <1> QED BY <1>2, <1>3, <1>4, <1>5

LEMMA QueueSwapPreserves ==
  ASSUME IInv, NEW b \in Backstops, NEW t \in Tokens, QueueSwap(b, t)
  PROVE  IInv'
  <1> USE ConstantsAssumption
          DEF IInv, QueueSwap, config, recipient, ledger, drops, external
  <1>1. TypeOK'
    BY DEF TypeOK, Swaps
  <1>2. Initialized' /\ CheckpointInTenure' /\ TenurePaid'
    BY DEF Initialized, CheckpointInTenure, TenurePaid
  <1>3. b # backstop
    BY DEF TypeOK, Initialized, Qualifies, IsLarger
  <1>4. CandidateIsNotIncumbent'
    BY <1>3 DEF CandidateIsNotIncumbent
  <1>5. QueuedInTenure'
    BY DEF TypeOK, Initialized, CheckpointInTenure, QueuedInTenure
  <1>6. NoDropYet' /\ DropCeilings'
    BY DEF NoDropYet, DropCeilings
  <1> QED BY <1>1, <1>2, <1>4, <1>5, <1>6

LEMMA CancelSwapPreserves ==
  ASSUME IInv, CancelSwap
  PROVE  IInv'
  <1> USE ConstantsAssumption
          DEF IInv, CancelSwap, config, recipient, ledger, drops, external
  <1>1. TypeOK'
    BY DEF TypeOK
  <1>2. Initialized' /\ CheckpointInTenure' /\ TenurePaid'
    BY DEF Initialized, CheckpointInTenure, TenurePaid
  <1>3. CandidateIsNotIncumbent' /\ QueuedInTenure' /\ NoDropYet' /\ DropCeilings'
    BY DEF CandidateIsNotIncumbent, QueuedInTenure, NoDropYet, DropCeilings
  <1> QED BY <1>1, <1>2, <1>3

LEMMA SwapBackstopPreserves ==
  ASSUME IInv, SwapBackstop
  PROVE  IInv'
  <1> USE ConstantsAssumption
          DEF IInv, SwapBackstop, ExecuteDistribute, StartDistro, config, drops, external
  <1> DEFINE b == swap.newBackstop
  <1>1. isInit /\ b \in Backstops /\ swap.newToken \in Tokens /\ b # backstop
    BY DEF TypeOK, Initialized, CandidateIsNotIncumbent, Swaps
  <1>2. /\ backstop \in Backstops
        /\ now - lastDistro[backstop] \in Nat
        /\ lastDistro' \in [Backstops -> Nat \cup {None}]
        /\ lastDistro'[b] = now
        /\ backstop' = b /\ now' = now /\ isInit' = isInit
    BY <1>1 DEF TypeOK, Initialized, CheckpointInTenure
  <1>3. TypeOK'
    BY <1>1, <1>2 DEF TypeOK
  <1>4. Initialized' /\ CheckpointInTenure'
    BY <1>1, <1>2 DEF TypeOK, Initialized, CheckpointInTenure
  <1>5. TenurePaid'
    BY <1>1, <1>2 DEF TypeOK, TenurePaid
  <1>6. CandidateIsNotIncumbent' /\ QueuedInTenure' /\ NoDropYet' /\ DropCeilings'
    BY DEF CandidateIsNotIncumbent, QueuedInTenure, NoDropYet, DropCeilings
  <1> QED BY <1>3, <1>4, <1>5, <1>6

\* The total of a list of amounts is an amount.
LEMMA DropTotalIsInteger ==
  ASSUME NEW list, NEW n \in Nat, DOMAIN list = 1..n, \A i \in 1..n : list[i].amount \in Int
  PROVE  DropTotal(list) \in Int
  <1> DEFINE f == [i \in DOMAIN list |-> list[i].amount]
             S == 1..n
  <1>1. DropTotal(list) = SumOn(f, S)
    BY DEF DropTotal, SumOn, FoldFunction
  <1>2. /\ \A i \in S : f[i] \in Int
        /\ IsFiniteSet(S)
    BY FS_Interval
  <1> HIDE DEF f, S
  <1> QED BY <1>1, <1>2, SumInt

LEMMA ListedDropTotal == \A list \in DropLists : DropTotal(list) \in Int
  <1> SUFFICES ASSUME NEW list \in DropLists PROVE DropTotal(list) \in Int
    OBVIOUS
  <1>1. list \in Seq([to : Backstops \cup Others, amount : Int])
    BY DropListsAssumption
  <1>2. /\ DOMAIN list = 1..Len(list) /\ Len(list) \in Nat
        /\ \A i \in 1..Len(list) : list[i].amount \in Int
    <2> DEFINE R == [to : Backstops \cup Others, amount : Int]
    <2>1. list \in Seq(R) /\ \A r \in R : r.amount \in Int
      BY <1>1
    <2> HIDE DEF R
    <2> QED BY <2>1
  <1> QED BY <1>2, DropTotalIsInteger

LEMMA DropPreserves ==
  ASSUME IInv, NEW b \in Backstops, NEW list, DropTotal(list) \in Int, Drop(b, list)
  PROVE  IInv'
  <1> USE ConstantsAssumption
          DEF IInv, Drop, HasDropped, config, recipient, ledger, external
  <1>1. TypeOK'
    BY DEF TypeOK
  <1>2. Initialized' /\ CheckpointInTenure' /\ TenurePaid'
    BY DEF Initialized, CheckpointInTenure, TenurePaid
  <1>3. CandidateIsNotIncumbent' /\ QueuedInTenure'
    BY DEF CandidateIsNotIncumbent, QueuedInTenure
  <1>4. NoDropYet' /\ DropCeilings'
    BY DEF TypeOK, NoDropYet, DropCeilings, MaxDrop
  <1> QED BY <1>1, <1>2, <1>3, <1>4

LEMMA TickPreserves ==
  ASSUME IInv, Tick
  PROVE  IInv'
  <1> USE ConstantsAssumption DEF IInv, Tick, config, recipient, ledger, drops, external
  <1>1. TypeOK'
    BY DEF TypeOK
  <1>2. Initialized' /\ CheckpointInTenure'
    BY DEF TypeOK, Initialized, CheckpointInTenure
  <1>3. TenurePaid'
    BY DEF TypeOK, Initialized, TenurePaid
  <1>4. CandidateIsNotIncumbent' /\ QueuedInTenure' /\ NoDropYet' /\ DropCeilings'
    BY DEF CandidateIsNotIncumbent, QueuedInTenure, NoDropYet, DropCeilings
  <1> QED BY <1>1, <1>2, <1>3, <1>4

\* What only changes the balances and the candidates' answers, or nothing.
LEMMA ExternalPreserves ==
  ASSUME IInv, TypeOK',
         UNCHANGED <<now, config, recipient, ledger, served, swap, drops>>
  PROVE  IInv'
  BY DEF IInv, config, recipient, ledger, drops, Initialized, CheckpointInTenure,
         TenurePaid, CandidateIsNotIncumbent, QueuedInTenure, NoDropYet, DropCeilings

LEMMA NextIInv == IInv /\ [Next]_vars => IInv'
  <1> SUFFICES ASSUME IInv, [Next]_vars PROVE IInv'
    OBVIOUS
  <1>1. CASE \E caller \in {Deployer}, b \in Backstops, t \in Tokens : Initialize(caller, b, t)
    BY <1>1, InitializePreserves
  <1>2. CASE \E b \in Backstops : Distribute(b)
    BY <1>2, DistributePreserves
  <1>3. CASE \E b \in Backstops, t \in Tokens : QueueSwap(b, t)
    BY <1>3, QueueSwapPreserves
  <1>4. CASE CancelSwap
    BY <1>4, CancelSwapPreserves
  <1>5. CASE SwapBackstop
    BY <1>5, SwapBackstopPreserves
  <1>6. CASE \E b \in Backstops, list \in DropLists : Drop(b, list)
    BY <1>6, ListedDropTotal, DropPreserves
  <1>7. CASE Tick
    BY <1>7, TickPreserves
  <1>8. CASE \E t \in Tokens, b \in Backstops, amount \in 0..MaxBalance :
               SetBalance(t, b, amount)
    <2>1. TypeOK'
      BY <1>8, ConstantsAssumption
      DEF IInv, TypeOK, SetBalance, config, recipient, ledger, drops
    <2> QED BY <1>8, <2>1, ExternalPreserves DEF SetBalance
  <1>9. CASE \E b \in Backstops, t \in Tokens \cup {None} : Declare(b, t)
    <2>1. TypeOK'
      BY <1>9 DEF IInv, TypeOK, Declare, config, recipient, ledger, drops
    <2> QED BY <1>9, <2>1, ExternalPreserves DEF Declare
  <1>10. CASE UNCHANGED vars
    <2>1. TypeOK'
      BY <1>10 DEF IInv, TypeOK, vars, config, recipient, ledger, drops, external
    <2> QED BY <1>10, <2>1, ExternalPreserves DEF vars
  <1> QED BY <1>1, <1>2, <1>3, <1>4, <1>5, <1>6, <1>7, <1>8, <1>9, <1>10 DEF Next

LEMMA Invariance == Spec => []IInv
  BY InitIInv, NextIInv, PTL DEF Spec

------------------------------------------------------------------------------

\* The state of the emitter has its types, whatever the deployment.
THEOREM TypeCorrect == Spec => []TypeOK
  <1>1. IInv => TypeOK
    BY DEF IInv
  <1> QED BY <1>1, Invariance, PTL

\* Each recipient has been minted exactly the seconds of its tenures, up to its
\* last checkpoint, for any number of competing backstops.
THEOREM RecipientsPaidForTheirTenure == Spec => []TenurePaid
  <1>1. IInv => TenurePaid
    BY DEF IInv
  <1> QED BY <1>1, Invariance, PTL

\* No recipient ever mints more by drops than its own ceiling.
THEOREM DropsStayUnderTheirCeilings == Spec => []DropCeilings
  <1>1. IInv => DropCeilings
    BY DEF IInv
  <1> QED BY <1>1, Invariance, PTL

\* A recipient is never challenged by a queue for itself.
THEOREM CandidatesAreNotIncumbents == Spec => []CandidateIsNotIncumbent
  <1>1. IInv => CandidateIsNotIncumbent
    BY DEF IInv
  <1> QED BY <1>1, Invariance, PTL

\* Only Initialize and SwapBackstop change the recipient, and SwapBackstop does
\* so at or after an unlock time that lies QUEUE_SECONDS into its tenure.
THEOREM TenureLastsAQueue == Spec => MinimumTenure
  <1>1. ASSUME IInv, [Next]_vars, isInit, backstop' # backstop
        PROVE  now - since >= QueueSeconds
    <2>1. CASE SwapBackstop
      BY <1>1, <2>1, ConstantsAssumption
      DEF IInv, TypeOK, Swaps, QueuedInTenure, SwapBackstop, Unlocked
    <2>2. CASE ~SwapBackstop
      BY <1>1, <2>2
      DEF Next, vars, recipient, Initialize, Distribute, QueueSwap, CancelSwap,
          Drop, Tick, SetBalance, Declare
    <2> QED BY <2>1, <2>2
  <1>2. IInv /\ [Next]_vars =>
          [isInit /\ backstop' # backstop => now - since >= QueueSeconds]_vars
    BY <1>1
  <1> QED BY <1>2, Invariance, PTL DEF Spec, MinimumTenure

------------------------------------------------------------------------------
(* The emitter refines EmissionSchedule *)

LEMMA InitRefines == Init => Schedule!ScheduleInit
  BY DEF Init, Schedule!ScheduleInit

LEMMA NextRefines ==
  IInv /\ [Next]_vars => [Schedule!ScheduleNext]_(Schedule!scheduleVars)
  <1> SUFFICES ASSUME IInv, [Next]_vars
               PROVE  Schedule!ScheduleNext \/ UNCHANGED Schedule!scheduleVars
    OBVIOUS
  <1> USE DEF IInv, config, recipient, ledger
  <1>1. CASE \E caller \in {Deployer}, b \in Backstops, t \in Tokens : Initialize(caller, b, t)
    <2>1. Schedule!Start
      BY <1>1, ConstantsAssumption
      DEF Initialize, StartDistro, TypeOK, Initialized, Schedule!Start
    <2> QED BY <2>1 DEF Schedule!ScheduleNext
  <1>2. CASE \E b \in Backstops : Distribute(b)
    <2>1. Schedule!Emit
      BY <1>2 DEF Distribute, ExecuteDistribute, TypeOK, Initialized, Schedule!Emit
    <2> QED BY <2>1 DEF Schedule!ScheduleNext
  <1>3. CASE SwapBackstop
    <2>1. Schedule!Emit
      BY <1>3
      DEF SwapBackstop, ExecuteDistribute, StartDistro, TypeOK, Swaps, Initialized,
          Schedule!Emit
    <2> QED BY <2>1 DEF Schedule!ScheduleNext
  <1>4. CASE Tick
    <2>1. Schedule!Elapse
      BY <1>4, ConstantsAssumption DEF Tick, TypeOK, Schedule!Elapse
    <2> QED BY <2>1 DEF Schedule!ScheduleNext
  <1>5. CASE UNCHANGED <<now, config, recipient, ledger>>
    BY <1>5 DEF Schedule!scheduleVars
  <1>6. CASE \/ \E b \in Backstops, t \in Tokens : QueueSwap(b, t)
             \/ CancelSwap
             \/ \E b \in Backstops, list \in DropLists : Drop(b, list)
             \/ \E t \in Tokens, b \in Backstops, amount \in 0..MaxBalance :
                  SetBalance(t, b, amount)
             \/ \E b \in Backstops, t \in Tokens \cup {None} : Declare(b, t)
             \/ UNCHANGED vars
    BY <1>5, <1>6 DEF QueueSwap, CancelSwap, Drop, SetBalance, Declare, vars
  <1> QED BY <1>1, <1>2, <1>3, <1>4, <1>6 DEF Next

\* Every behaviour of the emitter is one of the abstract schedule: one BLNT per
\* second since initialize, each second minted once, whoever receives it.
THEOREM EmitterImplementsSchedule == Spec => ImplementsSchedule
  BY InitRefines, NextRefines, Invariance, PTL
  DEF Spec, ImplementsSchedule, Schedule!ScheduleSpec

------------------------------------------------------------------------------
(* The migration of the backstop *)

\* Nothing happens to a backstop before the emitter is initialized.
NothingBeforeLaunch ==
  ~isInit => \A b \in Backstops : epochStart[b] = None /\ verifiedUnlock[b] = None
                                  /\ ~Active(b) /\ lastDistribution[b] = None

\* A contract that is not deployed answers nothing, so it can be the recipient only
\* as the one initialize named.
NothingBeforeDeployment ==
  \A b \in Backstops \ deployed :
    /\ declared[b] = None /\ dropList[b] = <<>>
    /\ epochStart[b] = None /\ ~Active(b)
    /\ backstop = b => initialBackstop = b

\* The books of one backstop: promised backfill stays in its allowance and is all
\* that a candidate promises, and no checkpoint lies in the future.
BooksInOrder ==
  \A b \in Backstops :
    /\ epochStart[b] = None => scheduled[b] = 0
    /\ epochStart[b] # None => lastDistribution[b] # None
    /\ scheduled[b] <= MaxBackfill
    /\ lastDistribution[b] # None => lastDistribution[b] <= now
    /\ Active(b) => lastDistribution[b] # None /\ lastDistro[b] # None
    /\ ~Active(b) => totalDistributed[b] = scheduled[b] /\ funded[b] = None

\* An attestation is not older than its window allows.
AttestedInWindow ==
  \A b \in Backstops : verifiedUnlock[b] # None => now >= verifiedUnlock[b] - AttestSeconds

\* An attestation is of the queue that is open for the backstop, or of the one that
\* made it the recipient, or its grace period ends before that one can be executed.
AttestsItsQueue ==
  \A b \in Backstops : verifiedUnlock[b] # None =>
    /\ swap # None /\ swap.newBackstop = b =>
         \/ swap.unlock = verifiedUnlock[b]
         \/ swap.unlock > verifiedUnlock[b] + ActivationSeconds
    /\ backstop = b =>
         \/ executedUnlock[b] = verifiedUnlock[b]
         \/ now > verifiedUnlock[b] + ActivationSeconds

\* What a backstop that never came back promised as the recipient has been minted,
\* but for the seconds the emitter still owes it.
TenureIsBacked ==
  \A b \in Backstops \ returned :
    Active(b) => totalDistributed[b] - scheduled[b]
                   <= received[b] - (lastDistro[b] - lastDistribution[b])

\* A launch list belongs to the launch recipient, which promises no backfill in its
\* first tenure.
LaunchListsAtLaunch ==
  /\ isInit => lastDistro[initialBackstop] # None
  /\ \A b \in Backstops :
       /\ DropTotal(dropList[b]) <= MaxInitialDrop
       /\ Extended(dropList[b]) =>
            /\ isInit /\ b = initialBackstop
            /\ b \notin returned /\ (backstop = b \/ Active(b)) => scheduled[b] = 0

MInv ==
  /\ IInv
  /\ CheckpointNotAhead
  /\ NothingBeforeLaunch
  /\ NothingBeforeDeployment
  /\ BooksInOrder
  /\ AttestedInWindow
  /\ AttestsItsQueue
  /\ TenureIsBacked
  /\ LaunchListsAtLaunch

------------------------------------------------------------------------------

LEMMA Typing ==
  ASSUME MInv
  PROVE  /\ IInv /\ TypeOK /\ MigrationTypeOK
         /\ now \in Nat /\ None \notin Nat /\ isInit \in BOOLEAN
         /\ epochStart \in [Backstops -> Nat \cup {None}]
         /\ verifiedUnlock \in [Backstops -> Nat \cup {None}]
         /\ activatedAt \in [Backstops -> Nat \cup {None}]
         /\ funded \in [Backstops -> Nat \cup {None}]
         /\ lastDistribution \in [Backstops -> Nat \cup {None}]
         /\ executedUnlock \in [Backstops -> Nat \cup {None}]
         /\ lastDistro \in [Backstops -> Nat \cup {None}]
         /\ scheduled \in [Backstops -> Nat] /\ totalDistributed \in [Backstops -> Nat]
         /\ received \in [Backstops -> Nat]
         /\ dropList \in [Backstops -> DropLists \cup {<<>>}]
<1>1. IInv /\ TypeOK /\ MigrationTypeOK
  BY DEF MInv, IInv, CheckpointNotAhead
<1>2. None \notin Nat
  BY ConstantsAssumption
<1> QED BY <1>1, <1>2 DEF TypeOK, MigrationTypeOK, OptionalNat

\* The recipient, once there is one, has been paid up to some time in the past.
LEMMA RecipientPaid ==
  ASSUME MInv, isInit
  PROVE  /\ backstop \in Backstops /\ lastDistro[backstop] \in Nat
         /\ lastDistro[backstop] <= now /\ initialBackstop \in Backstops
<1>1. IInv
  BY Typing
<1> QED BY <1>1 DEF IInv, Initialized, CheckpointInTenure

LEMMA EmptyDropTotal == DropTotal(<<>>) = 0
<1> DEFINE f == [i \in DOMAIN <<>> |-> <<>>[i].amount]
<1>1. DOMAIN <<>> = {}
  OBVIOUS
<1>2. DropTotal(<<>>) = SumOn(f, {})
  BY <1>1 DEF DropTotal, SumOn, FoldFunction
<1> QED BY <1>2, SumEmpty

LEMMA InitMInv == MigrationInit => MInv
<1> SUFFICES ASSUME MigrationInit PROVE MInv
  OBVIOUS
<1>1. /\ Init /\ ~isInit /\ backstop = None /\ swap = None /\ now = 0
      /\ \A b \in Backstops : declared[b] = None
  BY DEF MigrationInit, Init
<1>2. IInv /\ TypeOK
  BY <1>1, InitIInv DEF IInv
<1>3. /\ deployed = {} /\ bindingVerified = {} /\ returned = {}
      /\ dropList = [b \in Backstops |-> <<>>]
      /\ \A f \in {epochStart, verifiedUnlock, activatedAt, funded, lastDistribution,
                   executedUnlock} : f = [b \in Backstops |-> None]
      /\ scheduled = [b \in Backstops |-> 0] /\ totalDistributed = [b \in Backstops |-> 0]
      /\ eligible = [b \in Backstops |-> FALSE]
  BY DEF MigrationInit
<1>4. \A b \in Backstops :
        /\ epochStart[b] = None /\ verifiedUnlock[b] = None /\ ~Active(b)
        /\ funded[b] = None /\ lastDistribution[b] = None
        /\ scheduled[b] = 0 /\ totalDistributed[b] = 0
  BY <1>3 DEF Active
<1>5. MigrationTypeOK
  <2>1. \A f \in {epochStart, verifiedUnlock, activatedAt, funded, lastDistribution,
                  executedUnlock} : f \in [Backstops -> OptionalNat]
    BY <1>3 DEF OptionalNat
  <2>2. /\ scheduled \in [Backstops -> Nat] /\ totalDistributed \in [Backstops -> Nat]
        /\ eligible \in [Backstops -> BOOLEAN]
    BY <1>3
  <2> QED BY <1>2, <1>3, <2>1, <2>2 DEF MigrationTypeOK
<1>6. CheckpointNotAhead
  BY <1>4, <1>5 DEF CheckpointNotAhead
<1>7. NothingBeforeLaunch /\ NothingBeforeDeployment /\ BooksInOrder
  <2>1. \A b \in Backstops : b # backstop
    BY <1>1, ConstantsAssumption
  <2> QED BY <1>1, <1>3, <1>4, <2>1, MigrationAssumption
      DEF NothingBeforeLaunch, NothingBeforeDeployment, BooksInOrder
<1>8. AttestedInWindow /\ AttestsItsQueue /\ TenureIsBacked
  BY <1>4 DEF AttestedInWindow, AttestsItsQueue, TenureIsBacked
<1>9. LaunchListsAtLaunch
  BY <1>1, <1>3, EmptyDropTotal, MigrationAssumption, ConstantsAssumption
  DEF LaunchListsAtLaunch, Extended
<1> QED BY <1>2, <1>6, <1>7, <1>8, <1>9 DEF MInv

\* What changes the emitter alone, but neither its recipient nor its clock.
LEMMA EnvironmentPreserves ==
  ASSUME MInv, IInv', UNCHANGED <<local, tenures>>, now' = now,
         isInit' = isInit, backstop' = backstop, initialBackstop' = initialBackstop,
         lastDistro' = lastDistro, received' = received,
         \A b \in Backstops \ deployed : declared'[b] = declared[b],
         swap' # None => \/ swap' = swap
                         \/ swap'.unlock = now + QueueSeconds
  PROVE  MInv'
<1>1. /\ deployed' = deployed /\ dropList' = dropList /\ epochStart' = epochStart
      /\ verifiedUnlock' = verifiedUnlock /\ activatedAt' = activatedAt
      /\ scheduled' = scheduled /\ lastDistribution' = lastDistribution
      /\ totalDistributed' = totalDistributed /\ funded' = funded
      /\ bindingVerified' = bindingVerified /\ eligible' = eligible
      /\ executedUnlock' = executedUnlock /\ returned' = returned
  BY DEF local, tenures, deployment, attestation, allocation, funding
<1>2. MigrationTypeOK'
  BY <1>1, Typing DEF MigrationTypeOK, IInv
<1>3. CheckpointNotAhead'
  BY <1>1, <1>2 DEF MInv, CheckpointNotAhead, Active
<1>4. NothingBeforeLaunch' /\ NothingBeforeDeployment' /\ BooksInOrder'
  BY <1>1 DEF MInv, NothingBeforeLaunch, NothingBeforeDeployment, BooksInOrder, Active
<1>5. AttestedInWindow'
  BY <1>1 DEF MInv, AttestedInWindow
<1>6. AttestsItsQueue'
  <2> SUFFICES ASSUME NEW b \in Backstops, verifiedUnlock[b] # None,
                      swap' # None, swap'.newBackstop = b
               PROVE  \/ swap'.unlock = verifiedUnlock[b]
                      \/ swap'.unlock > verifiedUnlock[b] + ActivationSeconds
    BY <1>1 DEF MInv, AttestsItsQueue
  <2>1. CASE swap' = swap
    BY <2>1 DEF MInv, AttestsItsQueue
  <2>2. CASE swap'.unlock = now + QueueSeconds
    <3>1. verifiedUnlock[b] \in Nat /\ now >= verifiedUnlock[b] - AttestSeconds /\ now \in Nat
      BY Typing DEF MInv, AttestedInWindow
    <3> QED BY <2>2, <3>1, MigrationAssumption, ConstantsAssumption
  <2> QED BY <2>1, <2>2
<1>7. TenureIsBacked'
  BY <1>1 DEF MInv, TenureIsBacked, Active
<1>8. LaunchListsAtLaunch'
  BY <1>1 DEF MInv, LaunchListsAtLaunch, Active
<1> QED BY <1>2, <1>3, <1>4, <1>5, <1>6, <1>7, <1>8 DEF MInv

LEMMA InitializePreservesBooks ==
  ASSUME MInv, IInv', NEW b \in Backstops, NEW t \in Tokens, Initialize(Deployer, b, t),
         UNCHANGED <<local, tenures>>
  PROVE  MInv'
<1>1. /\ deployed' = deployed /\ dropList' = dropList /\ epochStart' = epochStart
      /\ verifiedUnlock' = verifiedUnlock /\ activatedAt' = activatedAt
      /\ scheduled' = scheduled /\ lastDistribution' = lastDistribution
      /\ totalDistributed' = totalDistributed /\ funded' = funded
      /\ bindingVerified' = bindingVerified /\ eligible' = eligible
      /\ executedUnlock' = executedUnlock /\ returned' = returned
  BY DEF local, tenures, deployment, attestation, allocation, funding
<1>2. /\ ~isInit /\ isInit' = TRUE /\ backstop' = b /\ initialBackstop' = b
      /\ now' = now /\ swap' = swap /\ received' = received /\ declared' = declared
      /\ lastDistro' = [lastDistro EXCEPT ![b] = now]
  BY DEF Initialize, StartDistro, external
<1>3. \A x \in Backstops : /\ epochStart[x] = None /\ verifiedUnlock[x] = None
                           /\ ~Active(x) /\ ~Active(x)' /\ lastDistribution[x] = None
  BY <1>1, <1>2 DEF MInv, NothingBeforeLaunch, Active
<1>4. MigrationTypeOK'
  BY <1>1, Typing DEF MigrationTypeOK, IInv
<1>5. CheckpointNotAhead'
  BY <1>1, <1>3, <1>4 DEF CheckpointNotAhead
<1>6. NothingBeforeLaunch' /\ NothingBeforeDeployment'
  BY <1>1, <1>2, <1>3 DEF MInv, NothingBeforeLaunch, NothingBeforeDeployment
<1>7. BooksInOrder'
  BY <1>1, <1>2, <1>3 DEF MInv, BooksInOrder
<1>8. AttestedInWindow' /\ AttestsItsQueue' /\ TenureIsBacked'
  BY <1>1, <1>3 DEF AttestedInWindow, AttestsItsQueue, TenureIsBacked
<1>9. LaunchListsAtLaunch'
  <2>1. lastDistro'[b] = now /\ now # None
    BY <1>2, Typing
  <2> QED BY <1>1, <1>2, <2>1 DEF MInv, LaunchListsAtLaunch
<1> QED BY <1>4, <1>5, <1>6, <1>7, <1>8, <1>9 DEF MInv

LEMMA TickPreservesBooks ==
  ASSUME MInv, IInv', Tick, UNCHANGED <<local, tenures>>
  PROVE  MInv'
<1>1. /\ deployed' = deployed /\ dropList' = dropList /\ epochStart' = epochStart
      /\ verifiedUnlock' = verifiedUnlock /\ activatedAt' = activatedAt
      /\ scheduled' = scheduled /\ lastDistribution' = lastDistribution
      /\ totalDistributed' = totalDistributed /\ funded' = funded
      /\ bindingVerified' = bindingVerified /\ eligible' = eligible
      /\ executedUnlock' = executedUnlock /\ returned' = returned
  BY DEF local, tenures, deployment, attestation, allocation, funding
<1>2. /\ now' = now + 1 /\ isInit' = isInit /\ backstop' = backstop
      /\ initialBackstop' = initialBackstop /\ swap' = swap /\ lastDistro' = lastDistro
      /\ received' = received /\ declared' = declared
  BY DEF Tick, config, recipient, ledger, external
<1>3. MigrationTypeOK'
  BY <1>1, Typing DEF MigrationTypeOK, IInv
<1>4. CheckpointNotAhead'
  BY <1>1, <1>2, <1>3 DEF MInv, CheckpointNotAhead, Active
<1>5. NothingBeforeLaunch' /\ NothingBeforeDeployment'
  BY <1>1, <1>2 DEF MInv, NothingBeforeLaunch, NothingBeforeDeployment, Active
<1>6. BooksInOrder'
  <2>1. \A x \in Backstops : lastDistribution[x] # None => lastDistribution[x] <= now + 1
    BY Typing DEF MInv, BooksInOrder
  <2> QED BY <1>1, <1>2, <2>1 DEF MInv, BooksInOrder, Active
<1>7. AttestedInWindow' /\ AttestsItsQueue'
  <2>1. \A x \in Backstops :
          verifiedUnlock[x] # None => /\ verifiedUnlock[x] \in Nat
                                      /\ now + 1 >= verifiedUnlock[x] - AttestSeconds
    BY Typing, MigrationAssumption DEF MInv, AttestedInWindow
  <2>2. \A x \in Backstops :
          verifiedUnlock[x] # None /\ now > verifiedUnlock[x] + ActivationSeconds
            => now + 1 > verifiedUnlock[x] + ActivationSeconds
    BY Typing, MigrationAssumption
  <2> QED BY <1>1, <1>2, <2>1, <2>2 DEF MInv, AttestedInWindow, AttestsItsQueue
<1>8. TenureIsBacked'
  BY <1>1, <1>2 DEF MInv, TenureIsBacked, Active
<1>9. LaunchListsAtLaunch'
  BY <1>1, <1>2 DEF MInv, LaunchListsAtLaunch, Active
<1> QED BY <1>3, <1>4, <1>5, <1>6, <1>7, <1>8, <1>9 DEF MInv

LEMMA DeployPreserves ==
  ASSUME MInv, IInv', NEW b \in Backstops, NEW list \in DropLists, NEW t \in Tokens,
         Deploy(b, list, t)
  PROVE  MInv'
<1>1. /\ b \notin deployed /\ DropTotal(list) <= MaxInitialDrop
      /\ Extended(list) => isInit /\ backstop = b
      /\ deployed' = deployed \cup {b} /\ dropList' = [dropList EXCEPT ![b] = list]
      /\ declared' = [declared EXCEPT ![b] = t]
  BY DEF Deploy, Declare
<1>2. /\ epochStart' = epochStart /\ verifiedUnlock' = verifiedUnlock
      /\ activatedAt' = activatedAt /\ scheduled' = scheduled
      /\ lastDistribution' = lastDistribution /\ totalDistributed' = totalDistributed
      /\ funded' = funded /\ bindingVerified' = bindingVerified /\ eligible' = eligible
      /\ executedUnlock' = executedUnlock /\ returned' = returned
      /\ now' = now /\ isInit' = isInit /\ backstop' = backstop /\ swap' = swap
      /\ initialBackstop' = initialBackstop /\ lastDistro' = lastDistro
      /\ received' = received
  BY DEF Deploy, Declare, attestation, allocation, funding, tenures, config, recipient, ledger
<1>3. /\ dropList' \in [Backstops -> DropLists \cup {<<>>}] /\ dropList'[b] = list
      /\ \A x \in Backstops \ {b} : dropList'[x] = dropList[x] /\ declared'[x] = declared[x]
  BY <1>1, Typing DEF TypeOK
<1>4. MigrationTypeOK'
  <2>1. deployed' \subseteq Backstops
    BY <1>1, Typing DEF MigrationTypeOK
  <2> QED BY <1>2, <1>3, <2>1, Typing DEF MigrationTypeOK, IInv
<1>5. CheckpointNotAhead'
  BY <1>2, <1>4 DEF MInv, CheckpointNotAhead, Active
<1>6. NothingBeforeLaunch' /\ BooksInOrder'
  BY <1>2 DEF MInv, NothingBeforeLaunch, BooksInOrder, Active
<1>7. NothingBeforeDeployment'
  BY <1>1, <1>2, <1>3 DEF MInv, NothingBeforeDeployment, Active
<1>8. AttestedInWindow' /\ AttestsItsQueue'
  BY <1>2 DEF MInv, AttestedInWindow, AttestsItsQueue
<1>9. TenureIsBacked'
  BY <1>2 DEF MInv, TenureIsBacked, Active
<1>10. LaunchListsAtLaunch'
  <2>1. ASSUME NEW x \in Backstops
        PROVE  /\ DropTotal(dropList'[x]) <= MaxInitialDrop
               /\ Extended(dropList'[x]) =>
                    /\ isInit /\ x = initialBackstop
                    /\ x \notin returned /\ (backstop = x \/ Active(x)) => scheduled[x] = 0
    <3>1. CASE x = b
      <4>1. epochStart[b] = None /\ (backstop = b => initialBackstop = b)
        BY <1>1 DEF MInv, NothingBeforeDeployment
      <4>2. scheduled[b] = 0
        BY <4>1 DEF MInv, BooksInOrder
      <4> QED BY <1>1, <1>3, <3>1, <4>1, <4>2
    <3>2. CASE x # b
      BY <1>3, <3>2 DEF MInv, LaunchListsAtLaunch
    <3> QED BY <3>1, <3>2
  <2> QED BY <1>2, <2>1 DEF MInv, LaunchListsAtLaunch, Active, Extended
<1> QED BY <1>4, <1>5, <1>6, <1>7, <1>8, <1>9, <1>10 DEF MInv

LEMMA BackfillPreserves ==
  ASSUME MInv, IInv', NEW b \in Backstops, Backfill(b)
  PROVE  MInv'
<1> DEFINE elapsed == IF epochStart[b] = None THEN 0 ELSE now - lastDistribution[b]
           amount == BackfillAmount(b, elapsed)
<1>1. /\ b \in deployed /\ isInit /\ ~Active(b) /\ backstop # b
      /\ swap # None => swap.newBackstop = b
      /\ verifiedUnlock' = [verifiedUnlock EXCEPT ![b] =
           IF swap # None /\ InAttestationWindow(swap.unlock) THEN swap.unlock ELSE None]
      /\ epochStart' = [epochStart EXCEPT ![b] = IF @ = None THEN now ELSE @]
      /\ scheduled' = [scheduled EXCEPT ![b] = @ + amount]
      /\ totalDistributed' = [totalDistributed EXCEPT ![b] = @ + amount]
      /\ lastDistribution' = [lastDistribution EXCEPT ![b] = now]
  BY DEF Backfill
<1>2. /\ deployed' = deployed /\ dropList' = dropList /\ activatedAt' = activatedAt
      /\ funded' = funded /\ bindingVerified' = bindingVerified /\ eligible' = eligible
      /\ executedUnlock' = executedUnlock /\ returned' = returned
      /\ now' = now /\ isInit' = isInit /\ backstop' = backstop /\ swap' = swap
      /\ initialBackstop' = initialBackstop /\ lastDistro' = lastDistro
      /\ received' = received /\ declared' = declared
  BY DEF Backfill, deployment, funding, tenures, vars, config, recipient, ledger, external
<1>3. elapsed \in Nat
  <2>1. epochStart[b] # None => lastDistribution[b] # None /\ lastDistribution[b] <= now
    BY DEF MInv, BooksInOrder
  <2> QED BY <2>1, Typing
<1>4. amount \in Nat /\ scheduled[b] + amount <= MaxBackfill
  <2>1. scheduled[b] \in Nat /\ scheduled[b] <= MaxBackfill /\ MaxBackfill \in Nat
    BY Typing, MigrationAssumption DEF MInv, BooksInOrder
  <2> HIDE DEF elapsed
  <2> QED BY <1>3, <2>1 DEF BackfillAmount
<1> HIDE DEF amount, elapsed
<1>5. /\ epochStart' \in [Backstops -> Nat \cup {None}] /\ epochStart'[b] # None
      /\ lastDistribution' \in [Backstops -> Nat \cup {None}] /\ lastDistribution'[b] = now
      /\ scheduled' \in [Backstops -> Nat] /\ scheduled'[b] = scheduled[b] + amount
      /\ totalDistributed' \in [Backstops -> Nat]
      /\ totalDistributed'[b] = totalDistributed[b] + amount
      /\ \A x \in Backstops \ {b} :
           /\ epochStart'[x] = epochStart[x] /\ verifiedUnlock'[x] = verifiedUnlock[x]
           /\ lastDistribution'[x] = lastDistribution[x] /\ scheduled'[x] = scheduled[x]
           /\ totalDistributed'[x] = totalDistributed[x]
  BY <1>1, <1>4, Typing
<1>6. /\ verifiedUnlock' \in [Backstops -> Nat \cup {None}]
      /\ verifiedUnlock'[b] # None => /\ swap # None /\ verifiedUnlock'[b] = swap.unlock
                                      /\ now >= swap.unlock - AttestSeconds
  <2>1. swap # None => swap.unlock \in Nat
    BY Typing DEF TypeOK, Swaps
  <2> QED BY <1>1, <2>1, Typing DEF InAttestationWindow
<1>7. MigrationTypeOK'
  BY <1>2, <1>5, <1>6, Typing DEF MigrationTypeOK, OptionalNat, IInv
<1>8. \A x \in Backstops : Active(x)' = Active(x)
  BY <1>2 DEF Active
<1>9. CheckpointNotAhead'
  <2>1. \A x \in Backstops \ {b} :
          (Active(x) \/ backstop = x) /\ lastDistribution'[x] # None
            => lastDistribution'[x] <= lastDistro[x]
    BY <1>5 DEF MInv, CheckpointNotAhead
  <2> QED BY <1>1, <1>2, <1>7, <1>8, <2>1 DEF CheckpointNotAhead
<1>10. NothingBeforeLaunch' /\ NothingBeforeDeployment'
  <2>1. NothingBeforeDeployment'
    BY <1>1, <1>2, <1>5, <1>8 DEF MInv, NothingBeforeDeployment
  <2> QED BY <1>1, <1>2, <2>1 DEF NothingBeforeLaunch
<1>11. BooksInOrder'
  <2>1. ASSUME NEW x \in Backstops
        PROVE  /\ epochStart'[x] = None => scheduled'[x] = 0
               /\ epochStart'[x] # None => lastDistribution'[x] # None
               /\ scheduled'[x] <= MaxBackfill
               /\ lastDistribution'[x] # None => lastDistribution'[x] <= now
               /\ Active(x) => lastDistribution'[x] # None /\ lastDistro[x] # None
               /\ ~Active(x) => totalDistributed'[x] = scheduled'[x] /\ funded[x] = None
    <3>1. CASE x = b
      <4>1. /\ lastDistribution'[b] = now /\ now \in Nat /\ now # None
            /\ totalDistributed[b] = scheduled[b] /\ funded[b] = None
        BY <1>1, <1>5, Typing DEF MInv, BooksInOrder
      <4> QED BY <1>1, <1>4, <1>5, <3>1, <4>1
    <3>2. CASE x # b
      BY <1>5, <3>2 DEF MInv, BooksInOrder
    <3> QED BY <3>1, <3>2
  <2> QED BY <1>2, <1>8, <2>1 DEF BooksInOrder
<1>12. AttestedInWindow'
  <2>1. \A x \in Backstops \ {b} :
          verifiedUnlock'[x] # None => now >= verifiedUnlock'[x] - AttestSeconds
    BY <1>5 DEF MInv, AttestedInWindow
  <2> QED BY <1>2, <1>6, <2>1 DEF AttestedInWindow
<1>13. AttestsItsQueue'
  <2>1. ASSUME NEW x \in Backstops, verifiedUnlock'[x] # None
        PROVE  /\ swap # None /\ swap.newBackstop = x =>
                    \/ swap.unlock = verifiedUnlock'[x]
                    \/ swap.unlock > verifiedUnlock'[x] + ActivationSeconds
               /\ backstop = x =>
                    \/ executedUnlock[x] = verifiedUnlock'[x]
                    \/ now > verifiedUnlock'[x] + ActivationSeconds
    <3>1. CASE x = b
      BY <1>1, <1>6, <2>1, <3>1
    <3>2. CASE x # b
      BY <1>5, <2>1, <3>2 DEF MInv, AttestsItsQueue
    <3> QED BY <3>1, <3>2
  <2> QED BY <1>2, <2>1 DEF AttestsItsQueue
<1>14. TenureIsBacked'
  <2>1. ASSUME NEW x \in Backstops \ returned, Active(x)
        PROVE  totalDistributed'[x] - scheduled'[x]
                 <= received[x] - (lastDistro[x] - lastDistribution'[x])
    BY <1>1, <1>5, <2>1 DEF MInv, TenureIsBacked
  <2> QED BY <1>2, <1>8, <2>1 DEF TenureIsBacked
<1>15. LaunchListsAtLaunch'
  <2>1. ASSUME NEW x \in Backstops, Extended(dropList[x])
        PROVE  /\ isInit /\ x = initialBackstop
               /\ x \notin returned /\ (backstop = x \/ Active(x)) => scheduled'[x] = 0
    BY <1>1, <1>5, <2>1 DEF MInv, LaunchListsAtLaunch
  <2> QED BY <1>2, <1>8, <2>1 DEF MInv, LaunchListsAtLaunch, Extended
<1> QED BY <1>7, <1>9, <1>10, <1>11, <1>12, <1>13, <1>14, <1>15 DEF MInv

LEMMA ActivatePreserves ==
  ASSUME MInv, IInv', NEW b \in Backstops, Activate(b)
  PROVE  MInv'
<1>1. /\ b \in deployed /\ isInit /\ ~Active(b) /\ backstop = b
      /\ lastDistribution' = [lastDistribution EXCEPT ![b] = lastDistro[b]]
      /\ activatedAt' = [activatedAt EXCEPT ![b] = now]
  BY DEF Activate, ActivationCheckpoint
<1>2. /\ deployed' = deployed /\ dropList' = dropList /\ epochStart' = epochStart
      /\ verifiedUnlock' = verifiedUnlock /\ scheduled' = scheduled
      /\ totalDistributed' = totalDistributed /\ funded' = funded
      /\ bindingVerified' = bindingVerified /\ eligible' = eligible
      /\ executedUnlock' = executedUnlock /\ returned' = returned
      /\ now' = now /\ isInit' = isInit /\ backstop' = backstop /\ swap' = swap
      /\ initialBackstop' = initialBackstop /\ lastDistro' = lastDistro
      /\ received' = received /\ declared' = declared
  BY DEF Activate, deployment, attestation, funding, tenures, vars, config, recipient, ledger,
         external
<1>3. lastDistro[b] \in Nat /\ lastDistro[b] <= now /\ now \in Nat /\ None \notin Nat
  BY <1>1, RecipientPaid, Typing
<1>4. /\ lastDistribution' \in [Backstops -> Nat \cup {None}]
      /\ activatedAt' \in [Backstops -> Nat \cup {None}]
      /\ lastDistribution'[b] = lastDistro[b] /\ Active(b)'
      /\ \A x \in Backstops \ {b} : /\ lastDistribution'[x] = lastDistribution[x]
                                    /\ Active(x)' = Active(x)
  BY <1>1, <1>3, Typing DEF Active
<1>5. MigrationTypeOK'
  BY <1>2, <1>4, Typing DEF MigrationTypeOK, OptionalNat, IInv
<1>6. CheckpointNotAhead'
  <2>1. \A x \in Backstops \ {b} :
          (Active(x) \/ backstop = x) /\ lastDistribution'[x] # None
            => lastDistribution'[x] <= lastDistro[x]
    BY <1>4 DEF MInv, CheckpointNotAhead
  <2> QED BY <1>2, <1>3, <1>4, <1>5, <2>1 DEF CheckpointNotAhead
<1>7. NothingBeforeLaunch' /\ NothingBeforeDeployment'
  <2>1. NothingBeforeDeployment'
    BY <1>1, <1>2, <1>4 DEF MInv, NothingBeforeDeployment
  <2> QED BY <1>1, <1>2, <2>1 DEF NothingBeforeLaunch
<1>8. BooksInOrder'
  <2>1. \A x \in Backstops \ {b} :
          /\ epochStart[x] # None => lastDistribution'[x] # None
          /\ lastDistribution'[x] # None => lastDistribution'[x] <= now
          /\ Active(x)' => lastDistribution'[x] # None /\ lastDistro[x] # None
          /\ ~Active(x)' => totalDistributed[x] = scheduled[x] /\ funded[x] = None
    BY <1>4 DEF MInv, BooksInOrder
  <2>2. \A x \in Backstops : /\ epochStart[x] = None => scheduled[x] = 0
                             /\ scheduled[x] <= MaxBackfill
    BY DEF MInv, BooksInOrder
  <2> QED BY <1>2, <1>3, <1>4, <2>1, <2>2 DEF BooksInOrder
<1>9. AttestedInWindow' /\ AttestsItsQueue'
  BY <1>2 DEF MInv, AttestedInWindow, AttestsItsQueue
<1>10. TenureIsBacked'
  <2>1. /\ totalDistributed[b] = scheduled[b] /\ scheduled[b] \in Nat /\ received[b] \in Nat
    BY <1>1, Typing DEF MInv, BooksInOrder
  <2>2. totalDistributed[b] - scheduled[b]
          <= received[b] - (lastDistro[b] - lastDistribution'[b])
    BY <1>3, <1>4, <2>1
  <2>3. \A x \in Backstops \ returned : x # b /\ Active(x)' =>
          totalDistributed[x] - scheduled[x]
            <= received[x] - (lastDistro[x] - lastDistribution'[x])
    BY <1>4 DEF MInv, TenureIsBacked
  <2> QED BY <1>2, <2>2, <2>3 DEF TenureIsBacked
<1>11. LaunchListsAtLaunch'
  BY <1>1, <1>2, <1>4 DEF MInv, LaunchListsAtLaunch, Extended
<1> QED BY <1>5, <1>6, <1>7, <1>8, <1>9, <1>10, <1>11 DEF MInv

LEMMA OngoingDistributePreserves ==
  ASSUME MInv, IInv', NEW b \in Backstops, OngoingDistribute(b)
  PROVE  MInv'
<1>1. /\ Active(b) /\ backstop = b /\ isInit /\ lastDistro[b] >= lastDistribution[b]
      /\ lastDistro' = [lastDistro EXCEPT ![b] = now]
      /\ received' = [received EXCEPT ![b] = @ + (now - lastDistro[b])]
      /\ totalDistributed' =
           [totalDistributed EXCEPT ![b] = @ + (now - lastDistribution[b])]
      /\ lastDistribution' = [lastDistribution EXCEPT ![b] = now]
      /\ bindingVerified' = bindingVerified \cup {b}
  BY DEF OngoingDistribute, Distribute, ExecuteDistribute
<1>2. /\ deployed' = deployed /\ dropList' = dropList /\ epochStart' = epochStart
      /\ verifiedUnlock' = verifiedUnlock /\ scheduled' = scheduled
      /\ activatedAt' = activatedAt /\ funded' = funded /\ eligible' = eligible
      /\ executedUnlock' = executedUnlock /\ returned' = returned
      /\ now' = now /\ isInit' = isInit /\ backstop' = backstop /\ swap' = swap
      /\ initialBackstop' = initialBackstop /\ declared' = declared
  BY DEF OngoingDistribute, Distribute, deployment, attestation, tenures, config, recipient,
         external
<1>3. /\ lastDistro[b] \in Nat /\ lastDistro[b] <= now /\ now \in Nat /\ None \notin Nat
      /\ lastDistribution[b] \in Nat
  BY <1>1, RecipientPaid, Typing DEF MInv, BooksInOrder
<1>4. /\ lastDistribution' \in [Backstops -> Nat \cup {None}] /\ lastDistribution'[b] = now
      /\ totalDistributed' \in [Backstops -> Nat] /\ lastDistro'[b] = now
      /\ totalDistributed'[b] = totalDistributed[b] + (now - lastDistribution[b])
      /\ received'[b] = received[b] + (now - lastDistro[b])
      /\ \A x \in Backstops \ {b} :
           /\ lastDistribution'[x] = lastDistribution[x] /\ lastDistro'[x] = lastDistro[x]
           /\ totalDistributed'[x] = totalDistributed[x] /\ received'[x] = received[x]
  BY <1>1, <1>3, Typing
<1>5. \A x \in Backstops : Active(x)' = Active(x)
  BY <1>2 DEF Active
<1>6. MigrationTypeOK'
  <2>1. bindingVerified' \subseteq Backstops
    BY <1>1, Typing DEF MigrationTypeOK
  <2> QED BY <1>2, <1>4, <2>1, Typing DEF MigrationTypeOK, OptionalNat, IInv
<1>7. CheckpointNotAhead'
  <2>1. \A x \in Backstops \ {b} :
          (Active(x) \/ backstop = x) /\ lastDistribution'[x] # None
            => lastDistribution'[x] <= lastDistro'[x]
    BY <1>4 DEF MInv, CheckpointNotAhead
  <2> QED BY <1>2, <1>3, <1>4, <1>5, <1>6, <2>1 DEF CheckpointNotAhead
<1>8. NothingBeforeLaunch' /\ NothingBeforeDeployment'
  <2>1. NothingBeforeDeployment'
    BY <1>2, <1>5 DEF MInv, NothingBeforeDeployment
  <2> QED BY <1>1, <1>2, <2>1 DEF NothingBeforeLaunch
<1>9. BooksInOrder'
  <2>1. \A x \in Backstops \ {b} :
          /\ epochStart[x] # None => lastDistribution'[x] # None
          /\ lastDistribution'[x] # None => lastDistribution'[x] <= now
          /\ Active(x) => lastDistribution'[x] # None /\ lastDistro'[x] # None
          /\ ~Active(x) => totalDistributed'[x] = scheduled[x] /\ funded[x] = None
    BY <1>4 DEF MInv, BooksInOrder
  <2>2. \A x \in Backstops : /\ epochStart[x] = None => scheduled[x] = 0
                             /\ scheduled[x] <= MaxBackfill
    BY DEF MInv, BooksInOrder
  <2> QED BY <1>1, <1>2, <1>3, <1>4, <1>5, <2>1, <2>2 DEF BooksInOrder
<1>10. AttestedInWindow' /\ AttestsItsQueue'
  BY <1>2 DEF MInv, AttestedInWindow, AttestsItsQueue
<1>11. TenureIsBacked'
  <2>1. ASSUME b \notin returned
        PROVE  totalDistributed'[b] - scheduled[b]
                 <= received'[b] - (lastDistro'[b] - lastDistribution'[b])
    <3>1. totalDistributed[b] - scheduled[b]
            <= received[b] - (lastDistro[b] - lastDistribution[b])
      BY <1>1, <2>1 DEF MInv, TenureIsBacked
    <3>2. totalDistributed[b] \in Nat /\ scheduled[b] \in Nat /\ received[b] \in Nat
      BY Typing
    <3> QED BY <1>3, <1>4, <3>1, <3>2
  <2>2. \A x \in Backstops \ returned : x # b /\ Active(x) =>
          totalDistributed'[x] - scheduled[x]
            <= received'[x] - (lastDistro'[x] - lastDistribution'[x])
    BY <1>4 DEF MInv, TenureIsBacked
  <2> QED BY <1>2, <1>5, <2>1, <2>2 DEF TenureIsBacked
<1>12. LaunchListsAtLaunch'
  <2>1. lastDistro'[initialBackstop] # None
    <3>1. lastDistro[initialBackstop] # None /\ initialBackstop \in Backstops
      BY <1>1, RecipientPaid DEF MInv, LaunchListsAtLaunch
    <3> QED BY <1>3, <1>4, <3>1
  <2> QED BY <1>2, <1>5, <2>1 DEF MInv, LaunchListsAtLaunch, Extended
<1> QED BY <1>6, <1>7, <1>8, <1>9, <1>10, <1>11, <1>12 DEF MInv

\* The list that funds the backfill names amounts too.
LEMMA FundingListTotals ==
  ASSUME MInv, NEW b \in Backstops
  PROVE  DropTotal(FundingList(b)) \in Int /\ DropTotal(dropList[b]) \in Int
<1> DEFINE R == [to : Backstops \cup Others, amount : Int]
           own == [to |-> b, amount |-> scheduled[b]]
           longer == Append(dropList[b], own)
<1>1. dropList[b] \in Seq(R)
  <2>1. dropList[b] \in DropLists \cup {<<>>} /\ DropLists \subseteq Seq(R)
    BY Typing, DropListsAssumption
  <2> HIDE DEF R
  <2>2. <<>> \in Seq(R)
    OBVIOUS
  <2> QED BY <2>1, <2>2
<1>2. own \in R
  BY Typing
<1>3. \A r \in R : r.amount \in Int
  OBVIOUS
<1>4. FundingList(b) = dropList[b] \/ FundingList(b) = longer
  BY DEF FundingList
<1> HIDE DEF R, own
<1>5. longer \in Seq(R)
  BY <1>1, <1>2
<1> HIDE DEF longer
<1>6. ASSUME NEW list \in Seq(R)
      PROVE  DropTotal(list) \in Int
  <2>1. /\ DOMAIN list = 1..Len(list) /\ Len(list) \in Nat
        /\ \A i \in 1..Len(list) : list[i].amount \in Int
    BY <1>3
  <2> QED BY <2>1, DropTotalIsInteger
<1> QED BY <1>1, <1>4, <1>5, <1>6

LEMMA FundBackfillPreserves ==
  ASSUME MInv, IInv', NEW b \in Backstops, FundBackfill(b)
  PROVE  MInv'
<1>1. /\ Active(b) /\ isInit
      /\ funded' = [funded EXCEPT ![b] = scheduled[b]]
      /\ bindingVerified' = bindingVerified \cup {b}
  BY DEF FundBackfill, Drop
<1>2. /\ deployed' = deployed /\ dropList' = dropList /\ epochStart' = epochStart
      /\ verifiedUnlock' = verifiedUnlock /\ scheduled' = scheduled
      /\ lastDistribution' = lastDistribution /\ totalDistributed' = totalDistributed
      /\ activatedAt' = activatedAt /\ eligible' = eligible
      /\ executedUnlock' = executedUnlock /\ returned' = returned
      /\ now' = now /\ isInit' = isInit /\ backstop' = backstop /\ swap' = swap
      /\ initialBackstop' = initialBackstop /\ lastDistro' = lastDistro
      /\ received' = received /\ declared' = declared
  BY DEF FundBackfill, Drop, deployment, attestation, allocation, tenures, config, recipient,
         ledger, external
<1>3. /\ funded' \in [Backstops -> Nat \cup {None}]
      /\ \A x \in Backstops \ {b} : funded'[x] = funded[x]
  BY <1>1, Typing
<1>4. MigrationTypeOK'
  <2>1. bindingVerified' \subseteq Backstops
    BY <1>1, Typing DEF MigrationTypeOK
  <2> QED BY <1>2, <1>3, <2>1, Typing DEF MigrationTypeOK, OptionalNat, IInv
<1>5. \A x \in Backstops : Active(x)' = Active(x)
  BY <1>2 DEF Active
<1>6. CheckpointNotAhead'
  BY <1>2, <1>4, <1>5 DEF MInv, CheckpointNotAhead
<1>7. NothingBeforeLaunch' /\ NothingBeforeDeployment'
  BY <1>2, <1>5 DEF MInv, NothingBeforeLaunch, NothingBeforeDeployment
<1>8. BooksInOrder'
  BY <1>1, <1>2, <1>3, <1>5 DEF MInv, BooksInOrder
<1>9. AttestedInWindow' /\ AttestsItsQueue'
  BY <1>2 DEF MInv, AttestedInWindow, AttestsItsQueue
<1>10. TenureIsBacked' /\ LaunchListsAtLaunch'
  BY <1>2, <1>5 DEF MInv, TenureIsBacked, LaunchListsAtLaunch, Extended
<1> QED BY <1>4, <1>6, <1>7, <1>8, <1>9, <1>10 DEF MInv

\* The weight of a backstop moves, or nothing does.
LEMMA ChangeWeightPreserves ==
  ASSUME MInv, IInv',
         (\E b \in Backstops : ChangeWeight(b)) \/ UNCHANGED migrationVars
  PROVE  MInv'
<1>1. /\ deployed' = deployed /\ dropList' = dropList /\ epochStart' = epochStart
      /\ verifiedUnlock' = verifiedUnlock /\ scheduled' = scheduled
      /\ lastDistribution' = lastDistribution /\ totalDistributed' = totalDistributed
      /\ activatedAt' = activatedAt /\ funded' = funded
      /\ bindingVerified' = bindingVerified
      /\ executedUnlock' = executedUnlock /\ returned' = returned
      /\ now' = now /\ isInit' = isInit /\ backstop' = backstop /\ swap' = swap
      /\ initialBackstop' = initialBackstop /\ lastDistro' = lastDistro
      /\ received' = received /\ declared' = declared
  BY DEF ChangeWeight, migrationVars, local, deployment, attestation, allocation, funding,
         tenures, vars, config, recipient, ledger, external
<1>2. eligible' \in [Backstops -> BOOLEAN]
  <2>1. eligible \in [Backstops -> BOOLEAN]
    BY Typing DEF MigrationTypeOK
  <2>2. eligible' = eligible \/ \E b \in Backstops : eligible' = [eligible EXCEPT ![b] = ~@]
    BY DEF ChangeWeight, migrationVars, local
  <2> QED BY <2>1, <2>2
<1>3. MigrationTypeOK'
  BY <1>1, <1>2, Typing DEF MigrationTypeOK, IInv
<1>4. \A x \in Backstops : Active(x)' = Active(x)
  BY <1>1 DEF Active
<1>5. CheckpointNotAhead'
  BY <1>1, <1>3, <1>4 DEF MInv, CheckpointNotAhead
<1>6. NothingBeforeLaunch' /\ NothingBeforeDeployment' /\ BooksInOrder'
  BY <1>1, <1>4 DEF MInv, NothingBeforeLaunch, NothingBeforeDeployment, BooksInOrder
<1>7. AttestedInWindow' /\ AttestsItsQueue' /\ TenureIsBacked' /\ LaunchListsAtLaunch'
  BY <1>1, <1>4
  DEF MInv, AttestedInWindow, AttestsItsQueue, TenureIsBacked, LaunchListsAtLaunch, Extended
<1> QED BY <1>3, <1>5, <1>6, <1>7 DEF MInv

LEMMA SwapInPreserves ==
  ASSUME MInv, IInv', SwapIn
  PROVE  MInv'
<1> DEFINE b == swap.newBackstop
           old == backstop
<1>1. IInv /\ swap # None /\ b \in Backstops /\ swap.newToken \in Tokens
      /\ swap.unlock \in Nat
  BY Typing DEF SwapIn, SwapBackstop, TypeOK, Swaps
<1>2. /\ isInit /\ old \in Backstops /\ b # old
      /\ lastDistro[old] \in Nat /\ lastDistro[old] <= now /\ initialBackstop \in Backstops
  BY <1>1, RecipientPaid DEF IInv, Initialized, CandidateIsNotIncumbent
<1>3. now \in Nat /\ None \notin Nat
  BY Typing
<1>4. /\ swap.unlock <= now /\ declared[b] = swap.newToken
      /\ received' = [received EXCEPT ![old] = @ + (now - lastDistro[old])]
      /\ lastDistro' = [lastDistro EXCEPT ![old] = now, ![b] = now]
      /\ swap' = None /\ backstop' = b
      /\ executedUnlock' = [executedUnlock EXCEPT ![b] = swap.unlock]
      /\ returned' = IF lastDistro[b] = None THEN returned ELSE returned \cup {b}
  BY DEF SwapIn, SwapBackstop, Unlocked, Qualifies, HasValidMigrationToken,
         ExecuteDistribute, StartDistro
<1>5. /\ deployed' = deployed /\ dropList' = dropList /\ epochStart' = epochStart
      /\ verifiedUnlock' = verifiedUnlock /\ scheduled' = scheduled
      /\ lastDistribution' = lastDistribution /\ totalDistributed' = totalDistributed
      /\ activatedAt' = activatedAt /\ funded' = funded /\ eligible' = eligible
      /\ bindingVerified' = bindingVerified
      /\ now' = now /\ isInit' = isInit /\ initialBackstop' = initialBackstop
      /\ declared' = declared
  BY DEF SwapIn, SwapBackstop, local, deployment, attestation, allocation, funding, config,
         external
<1> HIDE DEF b, old
<1>6. /\ lastDistro'[old] = now /\ lastDistro'[b] = now
      /\ received'[old] = received[old] + (now - lastDistro[old])
      /\ executedUnlock'[b] = swap.unlock
      /\ \A x \in Backstops \ {old, b} : lastDistro'[x] = lastDistro[x]
      /\ \A x \in Backstops \ {old} : received'[x] = received[x]
      /\ executedUnlock' \in [Backstops -> Nat \cup {None}]
  BY <1>1, <1>2, <1>4, Typing
<1>7. \A x \in Backstops : Active(x)' = Active(x)
  BY <1>5 DEF Active
<1>8. MigrationTypeOK'
  <2>1. returned' \subseteq Backstops
    BY <1>1, <1>4, Typing DEF MigrationTypeOK
  <2> QED BY <1>5, <1>6, <2>1, Typing DEF MigrationTypeOK, OptionalNat, IInv
<1>9. CheckpointNotAhead'
  <2>1. ASSUME NEW x \in Backstops, Active(x) \/ x = b, lastDistribution[x] # None
        PROVE  lastDistribution[x] <= lastDistro'[x]
    <3>1. CASE x = b \/ x = old
      <4>1. lastDistribution[x] <= now
        BY <2>1 DEF MInv, BooksInOrder
      <4> QED BY <1>6, <3>1, <4>1
    <3>2. CASE x # b /\ x # old
      BY <1>6, <2>1, <3>2 DEF MInv, CheckpointNotAhead
    <3> QED BY <3>1, <3>2
  <2> QED BY <1>4, <1>5, <1>7, <1>8, <2>1 DEF CheckpointNotAhead
<1>10. NothingBeforeLaunch' /\ NothingBeforeDeployment'
  <2>1. b \in deployed
    BY <1>1, <1>4, ConstantsAssumption DEF MInv, NothingBeforeDeployment
  <2>2. NothingBeforeDeployment'
    BY <1>4, <1>5, <1>7, <2>1 DEF MInv, NothingBeforeDeployment
  <2> QED BY <1>2, <1>5, <2>2 DEF NothingBeforeLaunch
<1>11. BooksInOrder'
  <2>1. \A x \in Backstops : Active(x) => lastDistro'[x] # None
    BY <1>3, <1>6 DEF MInv, BooksInOrder
  <2> QED BY <1>5, <1>7, <2>1 DEF MInv, BooksInOrder
<1>12. AttestedInWindow'
  BY <1>5 DEF MInv, AttestedInWindow
<1>13. AttestsItsQueue'
  <2>1. ASSUME verifiedUnlock[b] # None
        PROVE  \/ executedUnlock'[b] = verifiedUnlock[b]
               \/ now > verifiedUnlock[b] + ActivationSeconds
    <3>1. \/ swap.unlock = verifiedUnlock[b]
          \/ swap.unlock > verifiedUnlock[b] + ActivationSeconds
      BY <1>1, <2>1 DEF MInv, AttestsItsQueue, b
    <3>2. verifiedUnlock[b] \in Nat
      BY <1>1, <2>1, Typing
    <3> QED BY <1>1, <1>3, <1>4, <1>6, <3>1, <3>2, MigrationAssumption
  <2> QED BY <1>4, <1>5, <2>1 DEF AttestsItsQueue
<1>14. TenureIsBacked'
  <2>1. ASSUME NEW x \in Backstops \ returned', Active(x)
        PROVE  totalDistributed[x] - scheduled[x]
                 <= received'[x] - (lastDistro'[x] - lastDistribution[x])
    <3>1. lastDistro[x] # None /\ lastDistribution[x] \in Nat
      BY <2>1, Typing DEF MInv, BooksInOrder
    <3>2. x # b /\ x \notin returned
      BY <1>4, <2>1, <3>1
    <3>3. totalDistributed[x] - scheduled[x]
            <= received[x] - (lastDistro[x] - lastDistribution[x])
      BY <2>1, <3>2 DEF MInv, TenureIsBacked
    <3>4. CASE x = old
      <4>1. totalDistributed[old] \in Nat /\ scheduled[old] \in Nat /\ received[old] \in Nat
        BY <1>2, Typing
      <4>2. received'[old] - (now - lastDistribution[old])
              = received[old] - (lastDistro[old] - lastDistribution[old])
        BY <1>2, <1>3, <1>6, <3>1, <3>4, <4>1
      <4> QED BY <1>6, <3>3, <3>4, <4>2
    <3>5. CASE x # old
      BY <1>6, <3>2, <3>3, <3>5
    <3> QED BY <3>4, <3>5
  <2> QED BY <1>5, <1>7, <2>1 DEF TenureIsBacked
<1>15. LaunchListsAtLaunch'
  <2>1. lastDistro[initialBackstop] # None /\ lastDistro'[initialBackstop] # None
    BY <1>2, <1>3, <1>6 DEF MInv, LaunchListsAtLaunch
  <2>2. ASSUME NEW x \in Backstops, Extended(dropList[x])
        PROVE  /\ isInit /\ x = initialBackstop
               /\ x \notin returned' /\ (b = x \/ Active(x)) => scheduled[x] = 0
    <3>1. isInit /\ x = initialBackstop
      BY <2>2 DEF MInv, LaunchListsAtLaunch
    <3>2. x \notin returned' => x # b /\ x \notin returned
      BY <1>4, <2>1, <3>1
    <3> QED BY <2>2, <3>1, <3>2 DEF MInv, LaunchListsAtLaunch
  <2> QED BY <1>4, <1>5, <1>7, <2>1, <2>2 DEF MInv, LaunchListsAtLaunch, Extended
<1> QED BY <1>8, <1>9, <1>10, <1>11, <1>12, <1>13, <1>14, <1>15 DEF MInv

\* The emitter keeps its own invariant when it is used by these backstops: the list
\* that funds a backfill is one it did not know of.
LEMMA EmitterKept == MInv /\ [MigrationNext]_migrationVars => IInv'
<1> SUFFICES ASSUME MInv, [MigrationNext]_migrationVars PROVE IInv'
  OBVIOUS
<1>1. IInv /\ ([Next]_vars => IInv')
  BY Typing, NextIInv
<1>2. ASSUME NEW b \in Backstops, NEW list \in DropLists, NEW t \in Tokens, Deploy(b, list, t)
      PROVE  Next
  BY <1>2 DEF Deploy, Next
<1>3. ASSUME NEW b \in Backstops, Backfill(b) \/ Activate(b) \/ ChangeWeight(b)
      PROVE  UNCHANGED vars
  BY <1>3 DEF Backfill, Activate, ChangeWeight
<1>4. ASSUME NEW b \in Backstops, OngoingDistribute(b)
      PROVE  Next
  BY <1>4 DEF OngoingDistribute, Next
<1>5. ASSUME NEW b \in Backstops, FundBackfill(b)
      PROVE  IInv'
  BY <1>1, <1>5, FundingListTotals, DropPreserves DEF FundBackfill
<1>6. SwapIn => Next
  BY DEF SwapIn, Next
<1>7. EmitterStep => Next
  BY DEF EmitterStep, Next
<1>8. UNCHANGED migrationVars => UNCHANGED vars
  BY DEF migrationVars
<1> QED BY <1>1, <1>2, <1>3, <1>4, <1>5, <1>6, <1>7, <1>8 DEF MigrationNext

LEMMA EmitterStepPreserves ==
  ASSUME MInv, IInv', EmitterStep
  PROVE  MInv'
<1>1. UNCHANGED <<local, tenures>>
  BY DEF EmitterStep
<1>2. ASSUME NEW b \in Backstops, NEW t \in Tokens, Initialize(Deployer, b, t)
      PROVE  MInv'
  BY <1>1, <1>2, InitializePreservesBooks
<1>3. CASE Tick
  BY <1>1, <1>3, TickPreservesBooks
<1>4. CASE \/ \E b \in Backstops, t \in Tokens : QueueSwap(b, t)
           \/ CancelSwap
           \/ \E t \in Tokens, b \in Backstops, amount \in 0..MaxBalance :
                SetBalance(t, b, amount)
  <2>1. /\ now' = now /\ isInit' = isInit /\ backstop' = backstop
        /\ initialBackstop' = initialBackstop /\ lastDistro' = lastDistro
        /\ received' = received /\ declared' = declared
    BY <1>4 DEF QueueSwap, CancelSwap, SetBalance, config, recipient, ledger, external
  <2>2. swap' # None => swap' = swap \/ swap'.unlock = now + QueueSeconds
    BY <1>4 DEF QueueSwap, CancelSwap, SetBalance
  <2> QED BY <1>1, <2>1, <2>2, EnvironmentPreserves
<1> QED BY <1>2, <1>3, <1>4 DEF EmitterStep

LEMMA NextMInv == MInv /\ [MigrationNext]_migrationVars => MInv'
<1> SUFFICES ASSUME MInv, [MigrationNext]_migrationVars PROVE MInv'
  OBVIOUS
<1>1. IInv'
  BY EmitterKept
<1>2. ASSUME NEW b \in Backstops, NEW list \in DropLists, NEW t \in Tokens, Deploy(b, list, t)
      PROVE  MInv'
  BY <1>1, <1>2, DeployPreserves
<1>3. ASSUME NEW b \in Backstops, Backfill(b) PROVE MInv'
  BY <1>1, <1>3, BackfillPreserves
<1>4. ASSUME NEW b \in Backstops, Activate(b) PROVE MInv'
  BY <1>1, <1>4, ActivatePreserves
<1>5. ASSUME NEW b \in Backstops, OngoingDistribute(b) PROVE MInv'
  BY <1>1, <1>5, OngoingDistributePreserves
<1>6. ASSUME NEW b \in Backstops, FundBackfill(b) PROVE MInv'
  BY <1>1, <1>6, FundBackfillPreserves
<1>7. (\E b \in Backstops : ChangeWeight(b)) \/ UNCHANGED migrationVars => MInv'
  BY <1>1, ChangeWeightPreserves
<1>8. SwapIn => MInv'
  BY <1>1, SwapInPreserves
<1>9. EmitterStep => MInv'
  BY <1>1, EmitterStepPreserves
<1> QED BY <1>2, <1>3, <1>4, <1>5, <1>6, <1>7, <1>8, <1>9 DEF MigrationNext

LEMMA MigrationInvariance == MigrationSpec => []MInv
BY InitMInv, NextMInv, PTL DEF MigrationSpec

------------------------------------------------------------------------------
(* The theorems *)

\* A backstop's checkpoint is never ahead of the emitter's, for any number of backstops
\* that replace one another and return: neither of the two checks on them, in activate
\* and in distribute (migration.rs, distributor.rs), can lock the accounting.
THEOREM CheckpointsStayBehind == MigrationSpec => []CheckpointNotAhead
<1>1. MInv => CheckpointNotAhead
  BY DEF MInv
<1> QED BY <1>1, MigrationInvariance, PTL

\* Claims of a backstop that was never swapped in again are paid from BLNT that was
\* minted to it: the emitter's payments of its tenure cover what it promised as the
\* recipient, and the funded backfill what it promised before.
THEOREM FirstTenureStaysBacked == MigrationSpec => []FirstTenureIsBacked
<1>1. MInv => FirstTenureIsBacked
  <2> SUFFICES ASSUME MInv, NEW b \in Backstops \ returned, ClaimsOpen(b)
               PROVE  totalDistributed[b]
                        <= received[b] + IF funded[b] = None THEN 0 ELSE funded[b]
    BY DEF FirstTenureIsBacked, Backed
  <2>1. Active(b) /\ (scheduled[b] > 0 => funded[b] = scheduled[b])
    BY DEF ClaimsOpen
  <2>2. totalDistributed[b] - scheduled[b]
          <= received[b] - (lastDistro[b] - lastDistribution[b])
    BY <2>1 DEF MInv, TenureIsBacked
  <2>3. /\ lastDistro[b] \in Nat /\ lastDistribution[b] \in Nat
        /\ lastDistribution[b] <= lastDistro[b]
    BY <2>1, Typing DEF MInv, BooksInOrder, CheckpointNotAhead
  <2>4. /\ totalDistributed[b] \in Nat /\ scheduled[b] \in Nat /\ received[b] \in Nat
        /\ funded[b] \in Nat \cup {None} /\ None \notin Nat
    BY Typing
  <2>5. totalDistributed[b] <= received[b] + scheduled[b]
    BY <2>2, <2>3, <2>4
  <2> QED BY <2>1, <2>4, <2>5
<1> QED BY <1>1, MigrationInvariance, PTL

\* The one drop that pays for the promised backfill is not refused for its size, by
\* the backstop's ceiling or by the emitter's, for any launch list and any number of
\* candidates: a list that leaves no room for backfill belongs to the launch recipient,
\* which has promised none.
THEOREM FundingAlwaysFits == MigrationSpec => []FundingFits
<1>1. MInv => FundingFits
  <2> SUFFICES ASSUME MInv, NEW b \in Backstops \ returned, Active(b)
               PROVE  FundingTotal(b) <= FundingCeiling(b) /\ FundingCeiling(b) <= MaxDrop(b)
    BY DEF FundingFits
  <2>1. /\ DropTotal(dropList[b]) \in Int /\ DropTotal(dropList[b]) <= MaxInitialDrop
        /\ scheduled[b] \in Nat /\ scheduled[b] <= MaxBackfill
    BY FundingListTotals, Typing DEF MInv, BooksInOrder, LaunchListsAtLaunch
  <2>2. CASE Extended(dropList[b])
    <3>1. b = initialBackstop /\ scheduled[b] = 0
      BY <2>2 DEF MInv, LaunchListsAtLaunch
    <3> QED BY <2>1, <2>2, <3>1, ConstantsAssumption
        DEF FundingTotal, FundingCeiling, MaxDrop
  <2>3. CASE ~Extended(dropList[b])
    BY <2>1, <2>3, MigrationAssumption, ConstantsAssumption
    DEF FundingTotal, FundingCeiling, MaxDrop, Extended
  <2> QED BY <2>2, <2>3
<1> QED BY <1>1, MigrationInvariance, PTL

\* A backstop that promised backfill is activated under the queue that really swapped
\* it in: when another queue for it is executed, the grace period of the one it has
\* attested is over, because a queue lasts longer than both windows together.
THEOREM ActivationsFollowTheExecutedQueue == MigrationSpec => ActivatedUnderExecutedQueue
<1>1. ASSUME MInv, [MigrationNext]_migrationVars, NEW b \in Backstops,
             ~Active(b), Active(b)', epochStart[b] # None
      PROVE  verifiedUnlock[b] = executedUnlock[b]
  <2>1. Activate(b)
    <3>1. activatedAt' # activatedAt
      BY <1>1 DEF Active
    <3>2. ASSUME NEW x \in Backstops, Activate(x)
          PROVE  x = b
      <4>1. x # b => activatedAt'[b] = activatedAt[b]
        BY <3>2, Typing, <1>1 DEF Activate
      <4> QED BY <1>1, <4>1 DEF Active
    <3>3. \E x \in Backstops : Activate(x)
      BY <1>1, <3>1
      DEF MigrationNext, migrationVars, local, Deploy, Backfill, OngoingDistribute,
          FundBackfill, ChangeWeight, SwapIn, EmitterStep
    <3> QED BY <3>2, <3>3
  <2>2. /\ backstop = b /\ verifiedUnlock[b] # None
        /\ now <= verifiedUnlock[b] + ActivationSeconds
    BY <1>1, <2>1 DEF Activate, MayActivate
  <2>3. \/ executedUnlock[b] = verifiedUnlock[b]
        \/ now > verifiedUnlock[b] + ActivationSeconds
    BY <1>1, <2>2 DEF MInv, AttestsItsQueue
  <2>4. verifiedUnlock[b] \in Nat /\ now \in Nat
    BY <1>1, <2>2, Typing
  <2> QED BY <2>2, <2>3, <2>4, MigrationAssumption
<1>2. MInv /\ [MigrationNext]_migrationVars =>
        [\A b \in Backstops :
           ~Active(b) /\ Active(b)' /\ epochStart[b] # None
             => verifiedUnlock[b] = executedUnlock[b]]_migrationVars
  BY <1>1
<1> QED BY <1>2, MigrationInvariance, PTL DEF MigrationSpec, ActivatedUnderExecutedQueue

================================================================================
