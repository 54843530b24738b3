------------------------------ MODULE MCBridge ------------------------------
(* Instances of Bridge for TLC. *)
EXTENDS Bridge, TLC

CONSTANT u1

BtcDeposit(u, amount, version, ibc) ==
    [from |-> u, outs |-> <<VaultOut("BTC", version, amount, 0)>>, edict |-> NoEdict, ibc |-> ibc]
RunesDeposit(u, amount, version) ==
    [from |-> u, edict |-> [out |-> 2, amount |-> amount], ibc |-> FALSE,
     outs |-> <<OpReturn, VaultOut("RUNES", version, RunesOutValue, 0), VaultOut("BTC", version, 5, 0)>>]

On == {[deposit |-> TRUE, withdraw |-> TRUE]}
OnOff == On \union {[deposit |-> FALSE, withdraw |-> FALSE]}

\* A deposit of satoshis that asks for an IBC transfer, and one of runes and satoshis to the
\* vaults of both assets.
MixedDeposits == <<BtcDeposit(u1, 40, 0, TRUE), RunesDeposit(u1, 5, 0)>>

\* The rewards are off and there are no funds for them.
NoFunds == [d \in {"ubtw"} |-> 0]
RewardsOff == {Params(FALSE, Coin("ubtw", 1), Coin("ubtw", 1))}

\* Governance changes the denomination of the rewards of deposits; the funds run out between
\* two withdrawals of a batch.
SomeFunds == [d \in {"ubtw", "other"} |-> IF d = "ubtw" THEN 4 ELSE 1]
RewardsOn == {Params(TRUE, Coin(d, 1), Coin("ubtw", 2)) : d \in {"ubtw", "other"}}
=============================================================================
