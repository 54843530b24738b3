SPECIFICATION Spec
CONSTANTS
    u1 = u1
    User = {u1}
    Collector = Collector
    Module = Module
    Escrow = Escrow
    Deposit <- MixedDeposits
    Amount = {9}
    RuneAmount = {3}
    FeeRate = {1}
    Validity = 1
    Period = 1
    MaxBatch = 2
    MaxUtxoNum = 3
    DepositFee = 1
    WithdrawFee = 1
    MinDeposit = 3
    MinWithdraw = 3
    MaxWithdraw = 20
    Dust = 3
    RunesOutValue = 4
    BaseSize = 0
    InSize = 1
    OutSize = 1
    Byte = 4
    Enabled <- OnOff
    Threshold = {20}
    TargetNum = 1
    Rewarding <- RewardsOff
    Funds <- NoFunds
    MaxVersion = 1
    MaxTx = 2
    MaxRequest = 2
    MaxPacket = 1
INVARIANTS VouchersAreAccounted NothingIsPaidTwice
PROPERTIES LifeSpec
