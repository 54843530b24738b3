---------------------------- MODULE MCDlcOracle ----------------------------
(* Instances of DlcOracle for TLC. *)
EXTENDS DlcOracle, TLC

CONSTANTS p1, p2, p3, k1, k2, k3, k4, o1, o2, n1, n2, n3
CONSTANT FixedTime    \* bound on the time in the second family of behaviours

\* Two batches of nonces that share one, one that repeats the oracle of another, a single key.
Lists == k1 :> [key |-> o1, nonces |-> <<n1, n2>>] @@ k2 :> [key |-> o2, nonces |-> <<n3, n2>>]
          @@ k3 :> [key |-> o1, nonces |-> <<n2, n3>>] @@ k4 :> [key |-> o1, nonces |-> <<>>]
MCList == [k \in Key |-> Lists[k]]

P(allowed, num, queueSize, interval, timeout) ==
    [allowed |-> allowed, num |-> num, threshold |-> 2, queueSize |-> queueSize, nonces |-> 2,
     interval |-> interval, timeout |-> timeout]

\* Two families of behaviours, told apart by the parameters.  In the first one the allow lists
\* change, a participant leaves and comes back, and one is listed twice; the only DCM is that of
\* p1 and p3, which both lists of x/tss allow.
Full == P(<<p1, p2, p3>>, 2, 2, 2, 2)
Reduced == P(<<p1, p2, p2>>, 2, 2, 2, 2)
\* In the second one they stay, a request is made in each block and answers come blocks later,
\* so that three requests with overlapping key lists are pending at once.
Fixed == P(<<p1, p2>>, 2, 4, 1, 2)
MCParams == {Full, Reduced, Fixed}
MCBase == {{}, {p1, p3}}

Bounded ==
    IF params = Fixed
    THEN base = {} /\ now <= FixedTime /\ \A d \in DkgId : p3 \notin dkg[d].participants
    ELSE /\ dkg[3].status = "NONE"
         /\ \A d \in DkgId : purpose[d].type = "dcm" => dkg[d].participants = {p1, p3}
         /\ \A d \in DkgId, p \in Participant : completion[d][p] \in {k1, k4, NoKey}
SameFamily == params = Fixed <=> params' = Fixed
=============================================================================
