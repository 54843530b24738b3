------------------------------ MODULE MCFarming -----------------------------
(* Instances of Farming for TLC. *)
EXTENDS Farming, TLC

Both(a, b) == [d \in Denom |-> [ratio |-> IF d = RewardDenom THEN a ELSE b, min |-> 2]]

\* Two assets; the second choice makes epochs longer, the third disables farming, and the last
\* one removes the assets with it, as the default parameters do.
TwoAssets == {[enabled |-> TRUE, duration |-> 1, reward |-> 7, locks |-> {1, 2}, assets |-> Both(60, 40)],
              [enabled |-> TRUE, duration |-> 2, reward |-> 5, locks |-> {2}, assets |-> Both(30, 70)],
              [enabled |-> FALSE, duration |-> 1, reward |-> 0, locks |-> {1}, assets |-> Both(60, 40)],
              [enabled |-> FALSE, duration |-> 1, reward |-> 0, locks |-> {1}, assets |-> [d \in {} |-> 0]]}
=============================================================================
