SPECIFICATION FairSpec
CONSTANTS
    u1 = u1
    User = {u1}
    Collector = Collector
    Module = Module
    Escrow = Escrow
    Deposit <- MixedDeposits
    Amount = {9}
    RuneAmount = {3}
    FeeRate = {1}
    Validity = 1
    Period = 1
    MaxBatch = 2
    MaxUtxoNum = 2
    DepositFee = 1
    WithdrawFee = 1
    MinDeposit = 3
    MinWithdraw = 3
    MaxWithdraw = 20
    Dust = 3
    RunesOutValue = 4
    BaseSize = 0
    InSize = 1
    OutSize = 1
    Byte = 4
    Enabled <- On
    Threshold = {}
    TargetNum = 1
    Rewarding <- RewardsOn
    Funds <- SomeFunds
    MaxVersion = 1
    MaxTx = 0
    MaxRequest = 2
    MaxPacket = 0
INVARIANTS RewardsAreEarned
PROPERTIES QueueIsServed OldVaultIsEmptied
