--------------------------- MODULE MCLendingPool ---------------------------
(* Instances of LendingPool for TLC. *)
EXTENDS LendingPool, TLC

\* Lenders, loans and tranches are interchangeable.
Symmetry == Permutations(Lender) \cup Permutations(Loan) \cup Permutations(Maturity)
=============================================================================
