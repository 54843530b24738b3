SPECIFICATION FairSpec
CONSTANTS
    Staker = {s1}
    Denom = {btw, btct}
    RewardDenom = btw
    Amount = {73}
    Params <- TwoAssets
    Grant = {5}
    DaysPerTick = 30
    Unit = 1000
    MaxStaking = 2
    MaxGrant = 5
    MaxTime = 4
INVARIANTS BooksBalance QueuedIsLocked
PROPERTIES EpochRewardIsBounded EpochEnds
