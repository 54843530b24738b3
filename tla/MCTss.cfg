CONSTANTS
    Participant = {p1, p2, p3}
    Key = {k1, k2}
    NoKey = NoKey
    MaxDkg = 1
    MaxRefresh = 2
    MaxTime = 4
    DKGTimeoutDuration = 2
    Timeout = {0, 1}
    Repeats = {0, 1}
    MinDKGParticipantNum = 2
    MinDKGThreshold = 2
SPECIFICATION FairSpec
INVARIANTS ResolutionIsJustified RefreshingIsSound
PROPERTIES ResolvedDKGIsFinal RequestsAreResolved
