CONSTANTS
    p1 = p1  p2 = p2  p3 = p3
    k1 = k1  k2 = k2
    a0 = a0  b0 = b0  a1 = a1  b1 = b1  a2 = a2  b2 = b2
    Participant = {p1, p2, p3}
    Key = {k1, k2}
    NoKey = NoKey
    MaxDkg = 2
    MaxRefresh = 2
    MaxTime = 4
    MinDKGParticipantNum = 2
    MinDKGThreshold = 2
    Address = {a0, b0, a1, b1, a2, b2}
    Addresses <- MCAddresses
    GenesisVaults <- MCGenesis
    DkgTimeoutPeriod = 2
    RefreshTimeout = {0, 2}
    Base <- MCBase
    MaxProposal = 2
SPECIFICATION Spec
CONSTRAINT Bounded
CHECK_DEADLOCK FALSE
INVARIANTS VersionsAreSound
PROPERTIES TssSpec
