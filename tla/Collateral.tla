----------------------------- MODULE Collateral -----------------------------
(***************************************************************************)
(* What a vault promises to lenders and borrowers, without any mechanism:  *)
(* collateral is lent against at most once and leaves the vault along one  *)
(* path only, the path that the fate of the loan calls for.  Module        *)
(* LoanDlc implements this specification.                                  *)
(***************************************************************************)
CONSTANT Loan

VARIABLES
    state,      \* "free": nothing lent; "lent"; "repaid"; "seized"
    released    \* path by which the chain let go of the collateral

vars == <<state, released>>

TypeOK ==
    /\ state \in [Loan -> {"free", "lent", "repaid", "seized"}]
    /\ released \in [Loan -> {"none", "redemption", "repayment", "liquidation"}]

Init ==
    /\ state = [l \in Loan |-> "free"]
    /\ released = [l \in Loan |-> "none"]

\* Money is lent only against collateral nobody has been allowed to take.
Lend(l) ==
    /\ state[l] = "free" /\ released[l] = "none"
    /\ state' = [state EXCEPT ![l] = "lent"]
    /\ UNCHANGED released

\* The loan is repaid, or defaults or is liquidated.
Settle(l, s) ==
    /\ state[l] = "lent"
    /\ s \in {"repaid", "seized"}
    /\ state' = [state EXCEPT ![l] = s]
    /\ UNCHANGED released

\* The paths out of the vault that each state allows.
Path(s) ==
    CASE s = "free" -> "redemption"
      [] s = "repaid" -> "repayment"
      [] s = "seized" -> "liquidation"
      [] OTHER -> "none"

\* The collateral leaves along the path of the loan's state.
Release(l) ==
    /\ state[l] # "lent"
    /\ released[l] = "none"
    /\ released' = [released EXCEPT ![l] = Path(state[l])]
    /\ UNCHANGED state

Next == \E l \in Loan : Lend(l) \/ Settle(l, "repaid") \/ Settle(l, "seized") \/ Release(l)

Spec == Init /\ [][Next]_vars
=============================================================================
