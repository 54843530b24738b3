CONSTANTS
    p1 = p1  p2 = p2  p3 = p3
    k1 = k1  k2 = k2  k3 = k3  k4 = k4
    o1 = o1  o2 = o2
    n1 = n1  n2 = n2  n3 = n3
    Participant = {p1, p2, p3}
    Key = {k1, k2, k3, k4}
    NoKey = NoKey
    MaxDkg = 3
    MaxTime = 5
    DKGTimeoutDuration = 2
    MinDKGParticipantNum = 2
    MinDKGThreshold = 2
    PubKey = {o1, o2}
    Nonce = {n1, n2, n3}
    List <- MCList
    Params <- MCParams
    Base <- MCBase
    LivenessInterval = 2
    LivenessTimeout = 2
    FixedTime = 4
SPECIFICATION Spec
CONSTRAINT Bounded
ACTION_CONSTRAINT SameFamily
INVARIANTS NoncesAreSound LivenessIsJustified
PROPERTIES TssSpec
