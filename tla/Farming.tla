------------------------------- MODULE Farming ------------------------------
(***************************************************************************)
(* Staking rewards (x/farming).  Coins are staked for a lock duration.     *)
(* An epoch takes up the stakings that are locked until its end, and       *)
(* divides the reward of the epoch among them when it ends.  Messages run  *)
(* before the end blocker of their block, so that a lock that ends         *)
(* together with an epoch can be undone before the epoch is accounted.     *)
(*                                                                         *)
(* Time and durations are in ticks of DaysPerTick days.  One account of    *)
(* the bank holds the stakes and the coins that anybody has sent to it for *)
(* the rewards.  The by-address indexes follow from the records.  Past     *)
(* epochs and the plain totals of an epoch are read by queries only.       *)
(***************************************************************************)
EXTENDS Integers, FiniteSets, Functions

CONSTANTS
    Staker, Denom,
    RewardDenom,    \* denom of the rewards, possibly a staked one
    Amount,         \* amounts staked
    Params,         \* parameters governance may choose
    Grant,          \* amounts sent to the module account for rewards
    DaysPerTick,
    Unit,           \* units of a LegacyDec (10^18)
    MaxStaking, MaxGrant, MaxTime   \* bounds

Asset == [ratio : 0..100, min : Nat \ {0}]

\* Params.Validate; ratios are percentages.
ValidParams(p) ==
    /\ p.enabled => p.duration > 0 /\ p.reward > 0 /\ p.locks # {} /\ DOMAIN p.assets # {}
    /\ \A l \in p.locks : l >= p.duration
    /\ DOMAIN p.assets \subseteq Denom /\ IsFiniteSet(DOMAIN p.assets) /\ \A d \in DOMAIN p.assets : p.assets[d] \in Asset
    /\ SumFunction([d \in DOMAIN p.assets |-> p.assets[d].ratio]) <= 100

\* The reward denom never changes (ValidateParamsUpdate).
ASSUME FarmingAssumption ==
    /\ Staker # {} /\ RewardDenom \in Denom
    /\ Amount \subseteq Nat \ {0} /\ Grant \subseteq Nat \ {0} /\ DaysPerTick \in Nat \ {0} /\ Unit \in Nat \ {0}
    /\ MaxStaking \in Nat /\ MaxGrant \in Nat /\ MaxTime \in Nat
    /\ \A p \in Params :
        /\ p.enabled \in BOOLEAN /\ p.duration \in Nat /\ p.reward \in Nat /\ p.locks \subseteq Nat
        /\ ValidParams(p)

VARIABLES
    now,        \* block time
    params,
    staking,    \* stakings by id
    total,      \* TotalStaking: staked and effective amount of each denom
    epoch,      \* the current epoch: status, end, effective amount of each denom
    queue,      \* the stakings of the current epoch
    balance,    \* bank balance of the module account
    claimed,    \* history: rewards paid for each staking
    granted     \* history: coins sent to the module account

farmingVars == <<now, params, staking, total, epoch, queue, balance, claimed, granted>>

StakingId == 1..MaxStaking

NoStaking == [status |-> "NONE", staker |-> CHOOSE s \in Staker : TRUE, denom |-> RewardDenom, amount |-> 0,
              effective |-> 0, start |-> 0, lock |-> 0, pending |-> 0, rewards |-> 0]

\* IterateStakingsByStatus and IterateStakingsByAddress, over the stakings in store.
StakingsByStatus(store, status) == {i \in StakingId : store[i].status = status}
StakingsByAddress(a) == {i \in StakingId : staking[i].status # "NONE" /\ staking[i].staker = a}

IsNextStaking(i) == /\ i \in StakingId /\ staking[i].status = "NONE"
                    /\ \A j \in StakingId : j < i => staking[j].status # "NONE"

LockEnd(s) == s.start + s.lock

IsEligibleAsset(d) == d \in DOMAIN params.assets

\* The genesis state: no epoch, the module account may hold coins already.
FarmingInit ==
    /\ now = 1 /\ params \in Params
    /\ staking = [i \in StakingId |-> NoStaking]
    /\ total = [d \in Denom |-> [amount |-> 0, effective |-> 0]]
    /\ epoch = [status |-> "NONE", end |-> 0, total |-> [d \in Denom |-> 0]]
    /\ queue = {} /\ balance = [d \in Denom |-> 0]
    /\ claimed = [i \in StakingId |-> 0] /\ granted = 0

----------------------------------------------------------------------------
(* Amounts and rewards *)

\* GetLockMultiplier, in units: 1 + days / 365 * 2.5.  QuoInt64 truncates, Mul rounds half to even.
HalfToEven(n) == (n \div 2) + (IF n % 4 = 3 THEN 1 ELSE 0)
LockMultiplier(lock) == Unit + HalfToEven(((lock * DaysPerTick * Unit) \div 365) * 5)

\* GetEffectiveAmount: truncated once more.
EffectiveAmount(amount, lock) == (amount * LockMultiplier(lock)) \div Unit

\* IncreaseTotalStaking and DecreaseTotalStaking.
IncreaseTotalStaking(s) ==
    total' = [total EXCEPT ![s.denom] = [amount |-> @.amount + s.amount, effective |-> @.effective + s.effective]]
DecreaseTotalStaking(s) ==
    total' = [total EXCEPT ![s.denom] = [amount |-> @.amount - s.amount, effective |-> @.effective - s.effective]]

\* The reward of a staking when the asset of its denom gets ratio per cent.
GetEpochReward_AllAssets(s, ratio) == (params.reward * s.effective) \div epoch.total[s.denom]
GetEpochReward(s, ratio) ==
    LET reward == (params.reward * ratio) \div 100
    IN (reward * s.effective) \div epoch.total[s.denom]

GetPendingReward(s) == GetEpochReward(s, params.assets[s.denom].ratio)

\* SendCoinsFromModuleToAccount; a failure undoes the message.
Pay(b, d, amount) == [b EXCEPT ![d] = @ - amount]

----------------------------------------------------------------------------
(* Messages *)

\* MsgStake.
Stake(i, a, d, amount, lock) ==
    /\ IsNextStaking(i) /\ params.enabled /\ IsEligibleAsset(d)
    /\ amount >= params.assets[d].min /\ lock \in params.locks
    /\ LET s == [status |-> "STAKED", staker |-> a, denom |-> d, amount |-> amount,
                 effective |-> EffectiveAmount(amount, lock), start |-> now, lock |-> lock,
                 pending |-> 0, rewards |-> 0]
       IN /\ staking' = [staking EXCEPT ![i] = s]
          /\ IncreaseTotalStaking(s)
    /\ balance' = [balance EXCEPT ![d] = @ + amount]
    /\ UNCHANGED <<now, params, epoch, queue, claimed, granted>>

\* MsgUnstake, which also pays the pending rewards.
Unstake(i) ==
    LET s == staking[i]  paid == Pay(Pay(balance, s.denom, s.amount), RewardDenom, s.pending)
    IN /\ s.status \in {"STAKED", "UNLOCKED"} /\ now >= LockEnd(s)
       /\ paid[s.denom] >= 0 /\ paid[RewardDenom] >= 0
       /\ balance' = paid
       /\ staking' = [staking EXCEPT ![i].status = "UNSTAKED", ![i].pending = 0]
       /\ claimed' = [claimed EXCEPT ![i] = @ + s.pending]
       /\ DecreaseTotalStaking(s)
       /\ UNCHANGED <<now, params, epoch, queue, granted>>

\* The rewards of the stakings in S are paid and reset.
PayRewards(S) ==
    LET sum == SumFunction([i \in S |-> staking[i].pending])
    IN /\ sum > 0 /\ balance[RewardDenom] >= sum
       /\ balance' = Pay(balance, RewardDenom, sum)
       /\ staking' = [i \in StakingId |-> [staking[i] EXCEPT !.pending = IF i \in S THEN 0 ELSE @]]
       /\ claimed' = [i \in StakingId |-> claimed[i] + IF i \in S THEN staking[i].pending ELSE 0]
       /\ UNCHANGED <<now, params, total, epoch, queue, granted>>

\* MsgClaim.
Claim(i) == staking[i].status \in {"STAKED", "UNLOCKED"} /\ PayRewards({i})

\* MsgClaimAll (ClaimAllRewards): whatever the status of the stakings.
ClaimAll_NoReset(a) ==
    LET S == StakingsByAddress(a)
        sum == SumFunction([i \in S |-> staking[i].pending])
    IN /\ sum > 0 /\ balance[RewardDenom] >= sum
       /\ balance' = Pay(balance, RewardDenom, sum)
       /\ claimed' = [i \in StakingId |-> claimed[i] + IF i \in S THEN staking[i].pending ELSE 0]
       /\ UNCHANGED <<now, params, staking, total, epoch, queue, granted>>
ClaimAll(a) == PayRewards(StakingsByAddress(a))

\* MsgUpdateParams.
UpdateParams(p) ==
    /\ params' = p
    /\ UNCHANGED <<now, staking, total, epoch, queue, balance, claimed, granted>>

\* A transfer to the module account (app.go takes it off the blocked addresses).
Fund(amount) ==
    /\ granted + amount <= MaxGrant
    /\ granted' = granted + amount
    /\ balance' = [balance EXCEPT ![RewardDenom] = @ + amount]
    /\ UNCHANGED <<now, params, staking, total, epoch, queue, claimed>>

----------------------------------------------------------------------------
(* The end blocker *)

\* handleMatureStakings.
Matured ==
    [i \in StakingId |-> IF staking[i].status = "STAKED" /\ now >= LockEnd(staking[i])
                         THEN [staking[i] EXCEPT !.status = "UNLOCKED"] ELSE staking[i]]

\* OnEpochEnded: the rewards of the queue, which is emptied.
Accrued ==
    [i \in StakingId |-> IF i \in queue
                         THEN [Matured[i] EXCEPT !.pending = @ + GetPendingReward(Matured[i]),
                                                 !.rewards = @ + GetPendingReward(Matured[i])]
                         ELSE Matured[i]]

\* The staking queue of an epoch: every staking that is locked until its end.
EpochStakings_AnyLock(end) == StakingsByStatus(Matured, "STAKED")
EpochStakings(end) == {i \in StakingsByStatus(Matured, "STAKED") : LockEnd(staking[i]) >= end}

\* UpdateEpochTotalStakings: the effective amount of each denom in the queue.
EpochTotalStakings(S) ==
    [d \in Denom |-> SumFunction([i \in {j \in S : staking[j].denom = d} |-> staking[i].effective])]

\* NewEpoch and OnEpochStarted.
NewEpoch(start) ==
    LET end == start + params.duration
    IN /\ queue' = EpochStakings(end)
       /\ epoch' = [status |-> "STARTED", end |-> end, total |-> EpochTotalStakings(EpochStakings(end))]

\* GetCurrentEpoch returns an epoch, and it has not been closed.
EpochIsOpen == epoch.status = "STARTED"
EpochOver == EpochIsOpen /\ now >= epoch.end

\* handleEpoch.  GetEpochReward panics when the asset of a staking is not among the parameters
\* any more, and the block is not committed.
HandleEpoch_WhileEnabled ==
    IF EpochOver /\ params.enabled
    THEN /\ \A i \in queue : IsEligibleAsset(staking[i].denom)
         /\ staking' = Accrued /\ NewEpoch(epoch.end)
    ELSE /\ staking' = Matured
         /\ IF ~EpochIsOpen /\ params.enabled THEN NewEpoch(now) ELSE UNCHANGED <<epoch, queue>>
HandleEpoch ==
    IF EpochOver
    THEN /\ \A i \in queue : IsEligibleAsset(staking[i].denom)
         /\ staking' = Accrued
         /\ IF params.enabled THEN NewEpoch(epoch.end)
            ELSE queue' = {} /\ epoch' = [epoch EXCEPT !.status = "ENDED"]
    ELSE /\ staking' = Matured
         /\ IF ~EpochIsOpen /\ params.enabled THEN NewEpoch(now) ELSE UNCHANGED <<epoch, queue>>

\* EndBlocker, and the next block.
EndBlocker ==
    /\ HandleEpoch
    /\ \/ now' \in (now + 1)..MaxTime
       \/ now = MaxTime /\ now' = now
    /\ UNCHANGED <<params, total, balance, claimed, granted>>

FarmingNext ==
    \/ \E i \in StakingId, a \in Staker, d \in Denom, amount \in Amount, p \in Params : \E lock \in p.locks :
            Stake(i, a, d, amount, lock)
    \/ \E i \in StakingId : Unstake(i) \/ Claim(i)
    \/ \E a \in Staker : ClaimAll(a)
    \/ \E p \in Params : UpdateParams(p)
    \/ \E amount \in Grant : Fund(amount)
    \/ EndBlocker

FarmingSpec == FarmingInit /\ [][FarmingNext]_farmingVars

\* Blocks keep coming.
FairSpec == FarmingSpec /\ WF_farmingVars(EndBlocker)

----------------------------------------------------------------------------
(* Properties *)

Live == {"STAKED", "UNLOCKED"}
StakedOf(d) == {i \in StakingId : staking[i].status \in Live /\ staking[i].denom = d}

\* Everything has its type.
FarmingTypeOK ==
    /\ now \in Nat /\ params \in Params
    /\ staking \in [StakingId -> [status : Live \cup {"NONE", "UNSTAKED"}, staker : Staker, denom : Denom,
                                  amount : Nat, effective : Nat, start : Nat, lock : Nat,
                                  pending : Nat, rewards : Nat]]
    /\ total \in [Denom -> [amount : Nat, effective : Nat]]
    /\ epoch \in [status : {"NONE", "STARTED", "ENDED"}, end : Nat, total : [Denom -> Nat]]
    /\ queue \subseteq StakingId /\ balance \in [Denom -> Nat]
    /\ claimed \in [StakingId -> Nat] /\ granted \in Nat

\* TotalStaking is the sum over the stakings that have not been undone, in both amounts
\* (IncreaseTotalStaking, DecreaseTotalStaking).
TotalStakingIsExact ==
    \A d \in Denom :
        /\ total[d].amount = SumFunction([i \in StakedOf(d) |-> staking[i].amount])
        /\ total[d].effective = SumFunction([i \in StakedOf(d) |-> staking[i].effective])

\* The module account holds what is staked and what was granted, less the rewards paid, in every
\* denom: no message pays a stake or a reward twice (Stake, Unstake, Claim, ClaimAllRewards).
BalanceIsAccounted ==
    \A d \in Denom :
        balance[d] = SumFunction([i \in StakedOf(d) |-> staking[i].amount])
                     + IF d = RewardDenom
                       THEN granted - SumFunction(claimed) ELSE 0

\* A reward is paid or pending, never both and never lost: through claims, claims of everything
\* and the withdrawal of the stake, in any order (PendingRewards and TotalRewards).
RewardsAreKept == \A i \in StakingId : staking[i].pending + claimed[i] = staking[i].rewards

\* The totals, the module account and the rewards agree with the stakings.
BooksBalance == FarmingTypeOK /\ TotalStakingIsExact /\ BalanceIsAccounted /\ RewardsAreKept

\* A staking that takes part in an epoch is not undone before the epoch is over, whatever happens
\* to the duration of epochs and to the list of lock durations (OnEpochStarted, Unstake).
QueuedIsLocked == \A i \in queue : staking[i].status \in Live \/ now >= epoch.end

\* A block gives away at most the reward of an epoch, all assets and stakings together, after
\* roundings and when several epochs are caught up with (OnEpochEnded, GetEpochReward).
EpochRewardIsBounded ==
    [][SumFunction([i \in StakingId |-> staking'[i].rewards - staking[i].rewards]) <= params.reward]_farmingVars

\* "Assume that the given staking is valid" (x/farming/keeper/reward.go:13): the stakings that
\* OnEpochEnded passes to GetPendingReward have an asset with a reward ratio.  Broken when
\* parameters without the asset are set during the epoch.
QueuedAssetIsKnown == \A i \in queue : IsEligibleAsset(staking[i].denom)

\* An epoch does not stay open after its end, with farming disabled in the meantime too, but for
\* one reason: the asset of a staking in its queue is not among the parameters, with which the
\* end blocker panics and no block is committed (handleEpoch, GetPendingReward).
EpochEnds ==
    \A t \in 1..MaxTime :
        []<>(~(EpochIsOpen /\ epoch.end = t) \/ (EpochOver /\ ~QueuedAssetIsKnown))

\* "claim pending rewards if any" (x/farming/keeper/msg_server.go:113): after Unstake nothing is
\* left to claim, and MsgClaim is refused.  Broken in the block in which the last epoch ends.
UnstakedIsPaid == \A i \in StakingId : staking[i].status = "UNSTAKED" => staking[i].pending = 0
=============================================================================
