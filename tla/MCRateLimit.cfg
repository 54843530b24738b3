SPECIFICATION LimitSpec
CONSTANTS
    User = {u1, u2}
    Amount = {1, 2}
    Params <- HalfOrAll
    InitialSupply = {6}
    MaxQueue = 1
    MaxSupply = 7
    MaxClock = 2
SYMMETRY Users
INVARIANTS OutflowIsLimited
