----------------------------- MODULE MCLoanDlc -----------------------------
(* Instances of LoanDlc for TLC. *)
EXTENDS LoanDlc, TLC

\* Every deposit transaction has an output for every vault.
PaysAll == [t \in Tx |-> Loan]

\* And change.
PaysAllAndChange == [t \in Tx |-> Loan \cup {"NONE"}]

\* One borrower uses the same key, and the same DCM, for every vault.
OneKey == [l \in Loan |-> "key"]

\* Vaults are interchangeable under PaysAll and OneKey, and so are transactions.
Symmetry == Permutations(Loan) \cup Permutations(Tx)
=============================================================================
