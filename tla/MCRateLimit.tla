----------------------------- MODULE MCRateLimit ----------------------------
(* Instances of RateLimit for TLC. *)
EXTENDS RateLimit, TLC

HalfOrAll == {[period |-> 2, percentage |-> 50, addressPeriod |-> 1, addressQuota |-> 3],
              [period |-> 1, percentage |-> 100, addressPeriod |-> 2, addressQuota |-> 2]}
Users == Permutations(User)
=============================================================================
