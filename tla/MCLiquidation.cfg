SPECIFICATION FairSpec
CONSTANTS
    Id = {1}
    Precision = 10
    Price = {7, 10, 15}
    Params <- TwoParams
    Debt = {40}
    Collateral = {46, 100}
    Payment = {13, 20, 40}
    FeeRate = {0, 1, 5}
    NetworkFeeReserve = 6
    Dust = 3
    BaseSize = 1
    OutSize = 1
    MaxRecords = 3
INVARIANTS AuctionBalances SettlementIsRight OpenAuctionIsLiquidatable
PROPERTIES PurchaseIsFair ExhaustedIsSettled
