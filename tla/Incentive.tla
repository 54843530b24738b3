----------------------------- MODULE Incentive ------------------------------
(***************************************************************************)
(* The rewards of x/incentive for using the Bitcoin bridge.  The module    *)
(* keeps its params, the coins of its account, the rewards of every        *)
(* address and their statistics; the operators map such a record to the    *)
(* next one.  Bridge keeps the record and applies the hooks of x/btcbridge *)
(* to it.                                                                  *)
(***************************************************************************)
EXTENDS Integers, Sequences

Coin(denom, amount) == [denom |-> denom, amount |-> amount]
Params(enabled, deposit, withdraw) ==
    [enabled |-> enabled, RewardPerDeposit |-> deposit, RewardPerWithdraw |-> withdraw]

\* rewards has the addresses that were rewarded; funds are the coins of the module account.
NoRewards == [x \in {} |-> 0]
NewIncentive(params, funds) ==
    [params |-> params, funds |-> funds, rewards |-> NoRewards,
     stats |-> [AddressCount |-> 0, TxCount |-> 0, TotalRewardAmount |-> 0]]

\* DepositIncentiveEnabled and WithdrawIncentiveEnabled
RewardIsEnabled(s, reward) == s.params.enabled /\ reward.amount > 0 /\ s.funds[reward.denom] > 0

HasRewards(s, a) == a \in DOMAIN s.rewards

\* UpdateRewardStats, before the reward is added to those of the address.
UpdateRewardStats(s, a, reward) ==
    [AddressCount |-> s.stats.AddressCount + (IF HasRewards(s, a) THEN 0 ELSE 1),
     TxCount |-> s.stats.TxCount + 1,
     TotalRewardAmount |-> s.stats.TotalRewardAmount + reward.amount]

\* AddDepositReward and AddWithdrawReward: amounts are added whatever their denomination.
Added(s, a, kind, reward) ==
    LET old == IF HasRewards(s, a) THEN s.rewards[a]
               ELSE [count |-> [deposit |-> 0, withdraw |-> 0], amount |-> [deposit |-> 0, withdraw |-> 0],
                     TotalAmount |-> 0]
    IN  [x \in DOMAIN s.rewards \union {a} |->
            IF x # a THEN s.rewards[x]
            ELSE [count |-> [old.count EXCEPT ![kind] = @ + 1],
                  amount |-> [old.amount EXCEPT ![kind] = @ + reward.amount],
                  TotalAmount |-> old.TotalAmount + reward.amount]]

\* DistributeDepositReward and DistributeWithdrawReward.  The hooks ignore their error: without
\* the funds for a whole reward nothing happens.
Distribute(s, a, kind, reward) ==
    IF ~RewardIsEnabled(s, reward) \/ s.funds[reward.denom] < reward.amount THEN s
    ELSE [s EXCEPT !.funds[reward.denom] = @ - reward.amount,
                   !.stats = UpdateRewardStats(s, a, reward),
                   !.rewards = Added(s, a, kind, reward)]

DistributeDepositReward(s, a) == Distribute(s, a, "deposit", s.params.RewardPerDeposit)

\* One reward per request, in the order of the requests.
DistributeWithdrawRewards(s, as) ==
    LET step[i \in 0..Len(as)] ==
            IF i = 0 THEN s ELSE Distribute(step[i - 1], as[i], "withdraw", s.params.RewardPerWithdraw)
    IN  step[Len(as)]
=============================================================================
