-------------------------- MODULE BackstopMigration --------------------------
(***************************************************************************)
(* The emitter together with the backstop contracts that are, or contend   *)
(* to become, its recipient (backstop/src/migration.rs and the checkpoint  *)
(* of backstop/src/emissions).                                             *)
(*                                                                         *)
(* A backstop starts as a candidate that promises BLNT to its depositors   *)
(* out of a capped backfill allowance; once the emitter has swapped it in  *)
(* it must be activated within the grace period of the very queue it has   *)
(* attested; from then on it allocates what the emitter mints.  A single   *)
(* call to drop makes the emitter mint the promised backfill, and no claim *)
(* is paid before that.                                                    *)
(*                                                                         *)
(* All members of Backstops run this code.  The emitter is reached only    *)
(* through it: distribute and drop need the recipient's authorization.     *)
(***************************************************************************)
EXTENDS Emitter

CONSTANTS
  AttestSeconds,       \* QUEUE_ATTESTATION_WINDOW_SECONDS, 7 days
  ActivationSeconds,   \* ACTIVATION_GRACE_SECONDS, 7 days
  MinInterval,         \* MIN_DISTRIBUTION_INTERVAL_SECONDS, 5 seconds
  MaxBackfill          \* MAX_BACKFILLED_EMISSIONS

\* The periods and ceilings of the two contracts, as their constants have them:
\* 31 days against 7 and 7, and 10, 50, and 150 million BLNT.
ASSUME MigrationAssumption ==
  /\ AttestSeconds \in Nat /\ ActivationSeconds \in Nat
  /\ AttestSeconds + ActivationSeconds < QueueSeconds
  /\ MinInterval \in Nat \ {0}
  /\ MaxBackfill \in Nat /\ MaxBackfill <= MaxMigrationDrop
  /\ MaxMigrationDrop <= MaxInitialDrop

VARIABLES
  deployed,          \* backstops whose constructor has run
  dropList,          \* dropList[b]: immutable list given to the constructor
  epochStart,        \* epochStart[b]: MigrationEpochStart, None if not open
  verifiedUnlock,    \* verifiedUnlock[b]: VerifiedQueueUnlock, or None
  activatedAt,       \* activatedAt[b]: ActivatedAt, or None
  scheduled,         \* scheduled[b]: ScheduledBackfill
  funded,            \* funded[b]: backfill funded amount, or None
  bindingVerified,   \* backstops that have seen an exact BLNT mint
  lastDistribution,  \* lastDistribution[b]: ongoing state, or None
  totalDistributed,  \* totalDistributed[b]: BLNT promised to depositors and pools
  eligible,          \* eligible[b]: its reward zone holds eligible weight
  executedUnlock,    \* history: unlock of the queue that made b the recipient
  returned           \* history: backstops swapped in again after an earlier tenure

deployment == <<deployed, dropList>>
attestation == <<epochStart, verifiedUnlock>>
allocation == <<scheduled, lastDistribution, totalDistributed>>
funding == <<funded, bindingVerified>>
local == <<deployment, attestation, activatedAt, allocation, funding, eligible>>
tenures == <<executedUnlock, returned>>
migrationVars == <<vars, local, tenures>>

OptionalNat == Nat \cup {None}

MigrationTypeOK ==
  /\ TypeOK
  /\ deployed \subseteq Backstops
  /\ dropList \in [Backstops -> DropLists \cup {<<>>}]
  /\ \A f \in {epochStart, verifiedUnlock, activatedAt, funded, lastDistribution,
               executedUnlock} :
       f \in [Backstops -> OptionalNat]
  /\ scheduled \in [Backstops -> Nat]
  /\ totalDistributed \in [Backstops -> Nat]
  /\ bindingVerified \subseteq Backstops
  /\ eligible \in [Backstops -> BOOLEAN]
  /\ returned \subseteq Backstops

MigrationInit ==
  LET none == [b \in Backstops |-> None]
      zero == [b \in Backstops |-> 0]
  IN /\ Init
     /\ deployed = {}
     /\ dropList = [b \in Backstops |-> <<>>]
     /\ epochStart = none /\ verifiedUnlock = none /\ activatedAt = none
     /\ scheduled = zero /\ funded = none
     /\ bindingVerified = {}
     /\ lastDistribution = none /\ totalDistributed = zero
     /\ eligible = [b \in Backstops |-> FALSE]
     /\ executedUnlock = none /\ returned = {}

------------------------------------------------------------------------------
(* The lifecycle of one backstop *)

Active(b) == activatedAt[b] # None

\* A list this large leaves no room for backfill under the later ceiling.
Extended(list) == DropTotal(list) > MaxMigrationDrop - MaxBackfill

\* __constructor.  A launch list is accepted only from the address the emitter
\* already recognises; migration_token answers from now on.
Deploy(b, list, t) ==
  /\ b \notin deployed
  /\ \A i \in DOMAIN list : list[i].amount >= 0
  /\ DropTotal(list) <= MaxInitialDrop
  /\ Extended(list) => isInit /\ backstop = b
  /\ deployed' = deployed \cup {b}
  /\ dropList' = [dropList EXCEPT ![b] = list]
  /\ Declare(b, t)
  /\ UNCHANGED <<attestation, activatedAt, allocation, funding, eligible,
                 tenures>>

\* Attested at a time from which the queue can still be executed.
InAttestationWindow(unlock) ==
  now >= unlock - AttestSeconds /\ now <= unlock + ActivationSeconds

\* Changed: the allowance is not clamped.
BackfillUncapped(b, elapsed) == IF eligible[b] THEN elapsed ELSE 0

\* checkpoint_backfill: nothing without weight, and never over the allowance.
BackfillAmount(b, elapsed) ==
  IF ~eligible[b] THEN 0
  ELSE IF elapsed <= MaxBackfill - scheduled[b] THEN elapsed
  ELSE MaxBackfill - scheduled[b]

\* distribute, before activation and while another contract is the recipient:
\* attest the queue if there is one (it must be this candidate's own), open the
\* epoch at the first call, and promise the elapsed seconds.
Backfill(b) ==
  /\ b \in deployed /\ isInit
  /\ ~Active(b) /\ backstop # b
  /\ swap # None => swap.newBackstop = b /\ swap.newToken = declared[b]
  /\ verifiedUnlock' = [verifiedUnlock EXCEPT ![b] =
       IF swap # None /\ InAttestationWindow(swap.unlock) THEN swap.unlock ELSE None]
  /\ epochStart' = [epochStart EXCEPT ![b] = IF @ = None THEN now ELSE @]
  /\ LET elapsed == IF epochStart[b] = None THEN 0 ELSE now - lastDistribution[b]
         amount == BackfillAmount(b, elapsed)
     IN /\ scheduled' = [scheduled EXCEPT ![b] = @ + amount]
        /\ totalDistributed' = [totalDistributed EXCEPT ![b] = @ + amount]
  /\ lastDistribution' = [lastDistribution EXCEPT ![b] = now]
  /\ UNCHANGED <<vars, deployment, activatedAt, funding, eligible, tenures>>

\* Changed: an attestation stays good after its grace period.
MayActivateLate(b) ==
  IF verifiedUnlock[b] # None THEN verifiedUnlock[b] <= now ELSE epochStart[b] = None

\* An attested queue can be activated in its own grace period only; a backstop
\* that never promised backfill (the launch recipient) needs no attestation.
MayActivate(b) ==
  IF verifiedUnlock[b] # None
  THEN verifiedUnlock[b] <= now /\ now <= verifiedUnlock[b] + ActivationSeconds
  ELSE epochStart[b] = None

\* Changed: accounting starts at the time of the call.
ActivationCheckpointNow(b) == now

\* Accounting continues from the emitter's checkpoint for this recipient.
ActivationCheckpoint(b) == lastDistro[b]

\* distribute, at its first call after the emitter recognises this backstop.
Activate(b) ==
  /\ b \in deployed /\ isInit
  /\ ~Active(b) /\ backstop = b
  /\ MayActivate(b)
  /\ lastDistribution[b] # None => lastDistribution[b] <= lastDistro[b]
  /\ lastDistribution' = [lastDistribution EXCEPT ![b] = ActivationCheckpoint(b)]
  /\ activatedAt' = [activatedAt EXCEPT ![b] = now]
  /\ UNCHANGED <<vars, deployment, attestation, scheduled, totalDistributed,
                 funding, eligible, tenures>>

\* distribute of an active recipient: the emitter mints what it owes, and the
\* seconds since this backstop's own last checkpoint are promised.
OngoingDistribute(b) ==
  /\ Active(b) /\ backstop = b
  /\ eligible[b]
  /\ Distribute(b)
  /\ lastDistro[b] >= lastDistribution[b]
  /\ now - lastDistribution[b] >= MinInterval
  /\ b \notin bindingVerified => now > lastDistro[b]
  /\ totalDistributed' = [totalDistributed EXCEPT ![b] = @ + (now - lastDistribution[b])]
  /\ lastDistribution' = [lastDistribution EXCEPT ![b] = now]
  /\ bindingVerified' = bindingVerified \cup {b}
  /\ UNCHANGED <<deployment, attestation, activatedAt, scheduled, funded, eligible,
                 tenures>>

FundingTotal(b) == scheduled[b] + DropTotal(dropList[b])

FundingCeiling(b) ==
  IF Extended(dropList[b]) THEN MaxInitialDrop ELSE MaxMigrationDrop

\* The list given to the constructor, and the promised backfill for itself.
FundingList(b) ==
  IF scheduled[b] > 0
  THEN Append(dropList[b], [to |-> b, amount |-> scheduled[b]])
  ELSE dropList[b]

\* drop: callable by anyone, once.
FundBackfill(b) ==
  /\ funded[b] = None
  /\ Active(b)
  /\ FundingTotal(b) <= FundingCeiling(b)
  /\ Drop(b, FundingList(b))
  /\ funded' = [funded EXCEPT ![b] = scheduled[b]]
  /\ bindingVerified' = bindingVerified \cup {b}
  /\ UNCHANGED <<deployment, attestation, activatedAt, allocation, eligible,
                 tenures>>

\* Changed: claims open with the activation.
ClaimsOpenUnfunded(b) == Active(b)

\* require_backfill_funded, checked by every claim.
ClaimsOpen(b) == Active(b) /\ (scheduled[b] > 0 => funded[b] = scheduled[b])

\* Deposits, withdrawals, and reward zone changes move the eligible weight; they
\* are refused between the swap and the activation.
ChangeWeight(b) ==
  /\ b \in deployed /\ isInit
  /\ Active(b) \/ backstop # b
  /\ eligible' = [eligible EXCEPT ![b] = ~@]
  /\ UNCHANGED <<vars, deployment, attestation, activatedAt, allocation, funding,
                 tenures>>

------------------------------------------------------------------------------
(* The emitter's own entry points and environment *)

SwapIn ==
  /\ SwapBackstop
  /\ executedUnlock' = [executedUnlock EXCEPT ![swap.newBackstop] = swap.unlock]
  /\ returned' = IF lastDistro[swap.newBackstop] = None THEN returned
                 ELSE returned \cup {swap.newBackstop}
  /\ UNCHANGED local

EmitterStep ==
  /\ \/ \E b \in Backstops, t \in Tokens : Initialize(Deployer, b, t)
     \/ \E b \in Backstops, t \in Tokens : QueueSwap(b, t)
     \/ CancelSwap
     \/ Tick
     \/ \E t \in Tokens, b \in Backstops, amount \in 0..MaxBalance : SetBalance(t, b, amount)
  /\ UNCHANGED <<local, tenures>>

MigrationNext ==
  \/ \E b \in Backstops, list \in DropLists, t \in Tokens : Deploy(b, list, t)
  \/ \E b \in Backstops :
       Backfill(b) \/ Activate(b) \/ OngoingDistribute(b) \/ FundBackfill(b) \/ ChangeWeight(b)
  \/ SwapIn
  \/ EmitterStep

MigrationSpec == MigrationInit /\ [][MigrationNext]_migrationVars

------------------------------------------------------------------------------
(* Properties *)

\* A backstop that promised backfill becomes active under the queue that really
\* swapped it in: an attestation left over from a queue that was cancelled or
\* expired, or from an earlier time as recipient, never activates it.  It holds
\* because a queue lasts longer than the attestation and grace windows together.
ActivatedUnderExecutedQueue ==
  [][\A b \in Backstops :
       ~Active(b) /\ Active(b)' /\ epochStart[b] # None
         => verifiedUnlock[b] = executedUnlock[b]]_migrationVars

Backed(b) ==
  ClaimsOpen(b) =>
    totalDistributed[b] <= received[b] + IF funded[b] = None THEN 0 ELSE funded[b]

\* As long as claims are paid, everything promised to depositors and pools has
\* been minted to the backstop: by the emitter's schedule during its tenure, or
\* as funded backfill.
ClaimableIsBacked == \A b \in Backstops : Backed(b)

\* The same for every backstop that never came back after being replaced: it
\* holds while others come and go around it, and return.
FirstTenureIsBacked == \A b \in Backstops \ returned : Backed(b)

\* The one call that funds the backfill is not refused for its size, neither by
\* the backstop nor by the emitter: otherwise claims would stay closed for ever.
\* It may not fit after a return: what a launch recipient promised as a later
\* candidate has no room beside its launch list.
FundingFits ==
  \A b \in Backstops \ returned :
    Active(b) /\ funded[b] = None =>
      FundingTotal(b) <= FundingCeiling(b) /\ FundingCeiling(b) <= MaxDrop(b)

\* The backstop's checkpoint is never ahead of the emitter's: the two consistency
\* checks on them (in activate and in distribute) cannot lock the accounting.
CheckpointNotAhead ==
  /\ MigrationTypeOK
  /\ \A b \in Backstops :
       (Active(b) \/ backstop = b) /\ lastDistribution[b] # None
         => lastDistribution[b] <= lastDistro[b]
=============================================================================
