------------------------------ MODULE UtxoLife ------------------------------
(***************************************************************************)
(* What the UTXO store of x/btcbridge promises about every output of a     *)
(* vault.  The output of a deposit is free from the moment it is reported; *)
(* the output of a transaction of the bridge itself is locked until that   *)
(* transaction is confirmed; a free output is spent once.  Nothing leads   *)
(* back: an output that was ever known is not credited again.              *)
(***************************************************************************)
VARIABLES
    free,       \* outputs that may be spent
    locked,     \* outputs of transactions that are not confirmed
    spent       \* outputs that a transaction of the bridge spends

life == <<free, locked, spent>>

Known == free \union locked \union spent

Init == free = {} /\ locked = {} /\ spent = {}

\* A deposit is reported.
Credit ==
    /\ free \subseteq free' /\ (free' \ free) \intersect Known = {}
    /\ UNCHANGED <<locked, spent>>

\* A transaction is issued: inputs are spent, outputs to vaults are created.
Spend ==
    /\ free' \subseteq free
    /\ spent' = spent \union (free \ free')
    /\ locked \subseteq locked' /\ (locked' \ locked) \intersect Known = {}

\* A transaction is confirmed.
Confirm ==
    /\ locked' \subseteq locked
    /\ free' = free \union (locked \ locked')
    /\ UNCHANGED spent

Next == Credit \/ Spend \/ Confirm

Spec == Init /\ [][Next]_life
=============================================================================
