---------------------------- MODULE LendingPool ----------------------------
(***************************************************************************)
(* The accounting of one lending pool of x/lending: liquidity and its      *)
(* shares (yTokens), the amounts lent, the interest accrued on tranches at *)
(* the start of every block, repayments through the escrow account and the *)
(* settlement of liquidated loans.  Next to the pool's counters the module *)
(* keeps the coins that the bank really holds for it.                      *)
(*                                                                         *)
(* A loan enters here when it is approved (see module LoanDlc for what     *)
(* comes before); the auction of its collateral is module Liquidation, of  *)
(* which only the debt paid by liquidators is seen here.                   *)
(***************************************************************************)
EXTENDS Integers, FiniteSets, Functions

CONSTANTS
    Lender, Loan,       \* lenders and loans
    Maturity,           \* maturities, which name the tranches
    Precision,          \* one, as a LegacyDec (10^18 in the code)
    Rate,               \* values of borrowAPR / blocksPerYear, as LegacyDecs
    ReserveFactor,      \* reserve factor of the pool, as a LegacyDec
    ReferralFeeFactor,  \* factor of a referred loan, as a LegacyDec
    SupplyCap,          \* supply cap of the pool
    BorrowCap,          \* borrow cap of the pool
    Amount,             \* amounts of deposits and loans
    MaxHeight           \* bound on the number of blocks

\* ValidatePoolConfig: rates are positive, the reserve factor is less than one.
ValidPoolConfig ==
    /\ SupplyCap \in Nat /\ BorrowCap \in Nat
    /\ Rate \subseteq Nat \ {0} /\ Maturity # {}
    /\ ReserveFactor \in 0..(Precision - 1)

ASSUME PoolAssumption ==
    /\ Precision \in Nat \ {0} /\ MaxHeight \in Nat
    /\ IsFiniteSet(Lender) /\ IsFiniteSet(Loan)
    /\ ValidPoolConfig /\ Amount \subseteq Nat \ {0}
    /\ ReferralFeeFactor \in 0..Precision

VARIABLES
    height,     \* block height
    pool,       \* LendingPool without its tranches
    tranche,    \* tranches by maturity
    rate,       \* rate per block of every tranche (PoolConfig)
    shares,     \* yTokens held by every lender
    loan,       \* disbursed loans
    bank        \* coins held by the module accounts

vars == <<height, pool, tranche, rate, shares, loan, bank>>

----------------------------------------------------------------------------
(* LegacyDec of cosmossdk.io/math: integers scaled by Precision *)

ToLegacyDec(n) == n * Precision
TruncateInt(d) == d \div Precision

\* chopPrecisionAndRound: half to even.
Chop(d) ==
    LET q == d \div Precision
        r == 2 * (d % Precision)
    IN  IF r < Precision \/ (r = Precision /\ q % 2 = 0) THEN q ELSE q + 1
DecMul(a, b) == Chop(a * b)
DecQuo(a, b) == Chop((a * Precision * Precision) \div b)

\* NormalizePool sets negative totals to zero.
NonNegative(n) == IF n < 0 THEN 0 ELSE n

----------------------------------------------------------------------------
(* Records *)

NewTranche == [borrowIndex |-> Precision, totalBorrowed |-> 0, totalReserve |-> 0]

NewPool(paused) ==
    [status |-> "INACTIVE", paused |-> paused, supply |-> 0, availableAmount |-> 0,
     borrowedAmount |-> 0, totalBorrowed |-> 0, reserveAmount |-> 0, totalReserve |-> 0,
     totalYTokens |-> 0]

\* paid: escrowed repayment, or debt paid by liquidators; debt: DebtAmount of the
\* liquidation; accrued: its AccruedInterestDuringLiquidation.
NoLoan == [status |-> "NONE", maturity |-> 0, amount |-> 0, referred |-> FALSE,
           startBorrowIndex |-> Precision, paid |-> 0, debt |-> 0, accrued |-> 0]

\* MsgCreatePool, with one tranche; the status does not depend on config.Paused.
InitWith(paused) ==
    /\ height = 0
    /\ pool = NewPool(paused)
    /\ \E m \in Maturity, r \in Rate : tranche = [n \in {m} |-> NewTranche] /\ rate = [n \in {m} |-> r]
    /\ shares = [u \in Lender |-> 0]
    /\ loan = [l \in Loan |-> NoLoan]
    /\ bank = [lending |-> 0, escrow |-> 0, liquidation |-> 0]

Init == InitWith(FALSE)
InitPaused == InitWith(TRUE)

----------------------------------------------------------------------------
(* Liquidity *)

\* The assets that the shares are a claim on, as GetYTokenAmount,
\* GetUnderlyingAssetAmount and GetExchangeRate compute them.
Claim == pool.availableAmount + pool.totalBorrowed - pool.totalReserve

\* CheckSupplyCap, CheckBorrowCap: zero is "no cap".
CheckSupplyCap(a) == SupplyCap > 0 => pool.supply + a <= SupplyCap
CheckBorrowCap(a) == BorrowCap > 0 => pool.borrowedAmount + a <= BorrowCap

\* Int.Quo truncates toward zero, and the claim can be negative.
Magnitude(n) == IF n < 0 THEN -n ELSE n
Quo(a, b) ==
    LET q == Magnitude(a) \div Magnitude(b) IN IF (a < 0) = (b < 0) THEN q ELSE -q

GetYTokenAmount_RoundUp(a) == Quo(a * pool.totalYTokens + Claim - 1, Claim)
GetYTokenAmount(a) == Quo(a * pool.totalYTokens, Claim)
GetUnderlyingAssetAmount(y) == Quo(y * Claim, pool.totalYTokens)

\* MsgAddLiquidity.  The division aborts the message when the claim is zero, and
\* so does the coin of a negative amount of shares; no shares at all are fine.
AddLiquidity(u, a) ==
    LET y == IF pool.supply = 0 THEN a ELSE GetYTokenAmount(a) IN
    /\ pool.status # "PAUSED"
    /\ CheckSupplyCap(a)
    /\ pool.supply = 0 \/ Claim # 0
    /\ y >= 0
    /\ pool' = [pool EXCEPT !.status = IF pool.supply = 0 THEN "ACTIVE" ELSE @,
                            !.supply = @ + a, !.availableAmount = @ + a,
                            !.totalYTokens = @ + y]
    /\ shares' = [shares EXCEPT ![u] = @ + y]
    /\ bank' = [bank EXCEPT !.lending = @ + a]
    /\ UNCHANGED <<height, tranche, rate, loan>>

\* MsgRemoveLiquidity of y shares: what they are worth must be available, and
\* the coin of a negative amount aborts; shares worth less than a unit are burned
\* for nothing.
RemoveLiquidity(u, y) ==
    /\ pool.status = "ACTIVE"
    /\ y \in 1..shares[u]
    /\ \E w \in 0..pool.availableAmount :
          /\ w = GetUnderlyingAssetAmount(y)
          /\ pool' = [pool EXCEPT !.supply = @ - w, !.availableAmount = @ - w,
                                  !.totalYTokens = @ - y]
          /\ bank' = [bank EXCEPT !.lending = @ - w]
    /\ shares' = [shares EXCEPT ![u] = @ - y]
    /\ UNCHANGED <<height, tranche, rate, loan>>

----------------------------------------------------------------------------
(* Interest *)

\* The iteration of UpdatePoolTranches for one tranche t with rate r.
AccruedTranche(t, r) ==
    [borrowIndex |-> DecMul(t.borrowIndex, Precision + r),
     totalBorrowed |-> TruncateInt(DecMul(ToLegacyDec(t.totalBorrowed), Precision + r)),
     totalReserve |-> t.totalReserve
         + TruncateInt(DecMul(DecMul(ToLegacyDec(t.totalBorrowed), r), ReserveFactor))]

\* UpdatePool: the pool's totals are recomputed from its tranches.
UpdatePool ==
    LET ts == [m \in DOMAIN tranche |-> AccruedTranche(tranche[m], rate[m])] IN
    /\ tranche' = ts
    /\ pool' = [pool EXCEPT
           !.totalBorrowed = SumFunction([m \in DOMAIN ts |-> ts[m].totalBorrowed]),
           !.totalReserve = SumFunction([m \in DOMAIN ts |-> ts[m].totalReserve])]

\* GetInterest of loan l at borrow index i.
GetInterest(l, i) ==
    TruncateInt(DecQuo(DecMul(ToLegacyDec(loan[l].amount), i), loan[l].startBorrowIndex))
        - loan[l].amount

\* GetCurrentInterest.
GetCurrentInterest(l) ==
    CASE loan[l].status = "Open" -> GetInterest(l, tranche[loan[l].maturity].borrowIndex)
      [] loan[l].status \in {"Repaid", "Closed"} -> loan[l].paid - loan[l].amount
      [] loan[l].status \in {"Liquidated", "Settled"} -> loan[l].debt - loan[l].amount

\* GetProtocolFee, and the part of it that is not the referrer's.
GetProtocolFee(interest) == TruncateInt(DecMul(ToLegacyDec(interest), ReserveFactor))
ActualProtocolFee(l, fee) ==
    IF loan[l].referred THEN fee - TruncateInt(DecMul(ToLegacyDec(fee), ReferralFeeFactor)) ELSE fee

\* BeginBlocker of x/lending (updatePools) and then of x/liquidation
\* (calculateAccruedInterest for liquidations that are not settled).
BeginBlock ==
    /\ height < MaxHeight                                     \* bound
    /\ height' = height + 1
    /\ IF pool.status # "INACTIVE" THEN UpdatePool ELSE UNCHANGED <<pool, tranche>>
    /\ loan' = [l \in Loan |->
           IF loan[l].status = "Liquidated"
           THEN [loan[l] EXCEPT !.accrued =
                    GetInterest(l, tranche'[loan[l].maturity].borrowIndex) - GetCurrentInterest(l)]
           ELSE loan[l]]
    /\ UNCHANGED <<rate, shares, bank>>

----------------------------------------------------------------------------
(* Loans *)

\* HandleApproval and approve, with AfterPoolBorrowed: borrower and fee
\* collectors together receive the amount.
Approve(l, m, a, referred) ==
    /\ loan[l].status = "NONE"
    /\ m \in DOMAIN tranche
    /\ CheckBorrowCap(a)
    /\ pool.status = "ACTIVE"
    /\ pool.availableAmount >= a
    /\ bank' = [bank EXCEPT !.lending = @ - a]
    /\ pool' = [pool EXCEPT !.availableAmount = @ - a, !.borrowedAmount = @ + a,
                            !.totalBorrowed = @ + a]
    /\ tranche' = [tranche EXCEPT ![m].totalBorrowed = @ + a]
    /\ loan' = [loan EXCEPT ![l] =
                   [status |-> "Open", maturity |-> m, amount |-> a, referred |-> referred,
                    startBorrowIndex |-> tranche[m].borrowIndex,
                    paid |-> 0, debt |-> 0, accrued |-> 0]]
    /\ UNCHANGED <<height, rate, shares>>

\* MsgRepay: principal and interest are escrowed.
Repay(l) ==
    LET amount == loan[l].amount + GetCurrentInterest(l) IN
    /\ loan[l].status = "Open"
    /\ bank' = [bank EXCEPT !.escrow = @ + amount]
    /\ loan' = [loan EXCEPT ![l].status = "Repaid", ![l].paid = amount]
    /\ UNCHANGED <<height, pool, tranche, rate, shares>>

\* AfterPoolRepaid, as the pool and the tranche it leaves (NormalizePool
\* included).  The reserve of the tranche keeps the fee.
RepaidPool_FeeSupplied(principal, interest, fee, actualFee) ==
    [pool EXCEPT !.supply = @ + interest,
                 !.availableAmount = @ + principal + interest - fee,
                 !.borrowedAmount = @ - principal,
                 !.totalBorrowed = NonNegative(@ - (principal + interest)),
                 !.reserveAmount = @ + actualFee,
                 !.totalReserve = NonNegative(@ - fee)]
RepaidPool_FeeAvailable(principal, interest, fee, actualFee) ==
    [pool EXCEPT !.supply = @ + interest,
                 !.availableAmount = @ + principal + interest,
                 !.borrowedAmount = @ - principal,
                 !.totalBorrowed = NonNegative(@ - (principal + interest)),
                 !.reserveAmount = @ + actualFee,
                 !.totalReserve = NonNegative(@ - fee)]
RepaidPool(principal, interest, fee, actualFee) ==
    [pool EXCEPT !.supply = @ + interest - fee,
                 !.availableAmount = @ + principal + interest - fee,
                 !.borrowedAmount = @ - principal,
                 !.totalBorrowed = NonNegative(@ - (principal + interest)),
                 !.reserveAmount = @ + actualFee,
                 !.totalReserve = NonNegative(@ - fee)]
RepaidTranche(m, repaid) == [tranche[m] EXCEPT !.totalBorrowed = NonNegative(@ - repaid)]

\* CompleteRepayment, once the repayment CET is signed.
CompleteRepayment(l) ==
    LET interest == GetCurrentInterest(l)
        repaid == loan[l].amount + interest
        fee == GetProtocolFee(interest)
    IN
    /\ loan[l].status = "Repaid"
    /\ bank' = [bank EXCEPT !.escrow = @ - repaid, !.lending = @ + repaid - fee]
    /\ pool' = RepaidPool(loan[l].amount, interest, fee, ActualProtocolFee(l, fee))
    /\ tranche' = [tranche EXCEPT ![loan[l].maturity] = RepaidTranche(loan[l].maturity, repaid)]
    /\ loan' = [loan EXCEPT ![l].status = "Closed"]
    /\ UNCHANGED <<height, rate, shares>>

\* HandleLiquidation: the debt is fixed when the liquidation is created.
Liquidate(l) ==
    /\ loan[l].status = "Open"
    /\ loan' = [loan EXCEPT ![l].status = "Liquidated",
                            ![l].debt = loan[l].amount + GetCurrentInterest(l)]
    /\ UNCHANGED <<height, pool, tranche, rate, shares, bank>>

\* MsgLiquidate of x/liquidation: at most the remaining debt is paid (see module
\* Liquidation).
PayDebt(l, a) ==
    LET remaining == loan[l].debt - loan[l].paid
        d == IF remaining < a THEN remaining ELSE a
    IN
    /\ loan[l].status = "Liquidated"
    /\ remaining > 0
    /\ bank' = [bank EXCEPT !.liquidation = @ + d]
    /\ loan' = [loan EXCEPT ![l].paid = @ + d]
    /\ UNCHANGED <<height, pool, tranche, rate, shares>>

\* HandleLiquidatedDebt: the part of the paid debt that is principal; a payment
\* that does not exceed the interest owed is all interest.
LiquidatedPrincipal_All(l) == loan[l].paid
LiquidatedPrincipal(l) ==
    IF loan[l].paid > GetCurrentInterest(l) THEN loan[l].paid - GetCurrentInterest(l) ELSE 0

\* HandleSettlementSignatures with HandleLiquidatedDebt: AfterPoolRepaid, then
\* RebalancePool by the interest accrued since the liquidation began.
Settle(l) ==
    LET principal == LiquidatedPrincipal(l)
        interest == loan[l].paid - principal
        fee == GetProtocolFee(interest)
        accruedFee == GetProtocolFee(loan[l].accrued)
        m == loan[l].maturity
        p == RepaidPool(principal, interest, fee, ActualProtocolFee(l, fee))
        t == RepaidTranche(m, loan[l].paid)
    IN
    /\ loan[l].status = "Liquidated"
    /\ bank' = [bank EXCEPT !.liquidation = @ - loan[l].paid, !.lending = @ + loan[l].paid - fee]
    /\ pool' = [p EXCEPT !.totalBorrowed = NonNegative(@ - loan[l].accrued),
                         !.totalReserve = NonNegative(@ - accruedFee)]
    /\ tranche' = [tranche EXCEPT ![m] =
                      [t EXCEPT !.totalBorrowed = NonNegative(@ - loan[l].accrued),
                                !.totalReserve = NonNegative(@ - accruedFee)]]
    /\ loan' = [loan EXCEPT ![l].status = "Settled"]
    /\ UNCHANGED <<height, rate, shares>>

----------------------------------------------------------------------------
(* Governance *)

\* UpdatePoolStatus.
UpdatedStatus(paused) ==
    CASE paused /\ ~pool.paused -> "PAUSED"
      [] ~paused /\ pool.paused -> IF pool.supply = 0 THEN "INACTIVE" ELSE "ACTIVE"
      [] OTHER -> pool.status

\* MsgUpdatePoolConfig that pauses or resumes the pool and sets the rate of a
\* tranche, which is created if it is new (OnPoolTranchesConfigChanged).  An
\* update that drops a tranche is left out: UpdatePoolTranches would dereference
\* the missing configuration.
UpdatePoolConfig(paused, m, r) ==
    /\ pool' = [pool EXCEPT !.status = UpdatedStatus(paused), !.paused = paused]
    /\ rate' = [n \in DOMAIN rate \cup {m} |-> IF n = m THEN r ELSE rate[n]]
    /\ tranche' = [n \in DOMAIN tranche \cup {m} |->
                      IF n \in DOMAIN tranche THEN tranche[n] ELSE NewTranche]
    /\ UNCHANGED <<height, shares, loan, bank>>

Next ==
    \/ \E u \in Lender, a \in Amount : AddLiquidity(u, a)
    \/ \E u \in Lender : \E y \in 1..shares[u] : RemoveLiquidity(u, y)
    \/ BeginBlock
    \/ \E l \in Loan, m \in Maturity, a \in Amount, referred \in BOOLEAN : Approve(l, m, a, referred)
    \/ \E l \in Loan : Repay(l)
    \/ \E l \in Loan : CompleteRepayment(l)
    \/ \E l \in Loan : Liquidate(l)
    \/ \E l \in Loan, a \in Amount : PayDebt(l, a)
    \/ \E l \in Loan : Settle(l)
    \/ \E paused \in BOOLEAN, m \in Maturity, r \in Rate : UpdatePoolConfig(paused, m, r)

Spec == Init /\ [][Next]_vars
PausedSpec == InitPaused /\ [][Next]_vars

----------------------------------------------------------------------------
(* Properties *)

LoanStatus == {"NONE", "Open", "Repaid", "Closed", "Liquidated", "Settled"}

\* Every variable has its type; in particular no counter of the pool, no balance
\* and no share is ever negative, which the coin arithmetic would panic on.
TypeOK ==
    /\ height \in 0..MaxHeight
    /\ pool \in [status: {"INACTIVE", "ACTIVE", "PAUSED"}, paused: BOOLEAN, supply: Nat,
                 availableAmount: Nat, borrowedAmount: Nat, totalBorrowed: Nat,
                 reserveAmount: Nat, totalReserve: Nat, totalYTokens: Nat]
    /\ DOMAIN tranche \subseteq Maturity /\ DOMAIN rate = DOMAIN tranche
    /\ \A m \in DOMAIN tranche :
          /\ tranche[m] \in [borrowIndex: Nat \ {0}, totalBorrowed: Nat, totalReserve: Nat]
          /\ rate[m] \in Rate
    /\ shares \in [Lender -> Nat]
    /\ \A l \in Loan : /\ loan[l].status \in LoanStatus
                       /\ loan[l].paid \in Nat /\ loan[l].debt \in Nat /\ loan[l].accrued \in Nat
    /\ bank \in [lending: Nat, escrow: Nat, liquidation: Nat]

\* The nominal supply is what is available plus what is lent, over deposits,
\* withdrawals, loans, fees, repayments and liquidations with losses: this is
\* why the subtraction in MsgRemoveLiquidity, which is guarded by the available
\* amount only, never makes the supply negative.
SupplyIsBacked == pool.supply = pool.availableAmount + pool.borrowedAmount

\* The module account holds exactly what the pool believes to be available.
AvailableIsHeld == bank.lending = pool.availableAmount

SumOverLoans(S, f(_)) == SumFunction([l \in {k \in Loan : loan[k].status \in S} |-> f(l)])

\* The escrow and liquidation accounts hold exactly the payments that have not
\* reached the pool yet, so no settlement can fail for lack of funds.
PaymentsAreHeld ==
    /\ bank.escrow = SumOverLoans({"Repaid"}, LAMBDA l : loan[l].paid)
    /\ bank.liquidation = SumOverLoans({"Liquidated"}, LAMBDA l : loan[l].paid)

\* The principal that a settled liquidation did not recover: interest is paid first.
Unrecovered(l) == loan[l].amount - NonNegative(loan[l].paid - (loan[l].debt - loan[l].amount))

\* The borrowed amount is the principal of the loans that are not closed; the
\* principal that a liquidation did not recover stays in it for good.
BorrowedIsPrincipal ==
    pool.borrowedAmount = SumOverLoans({"Open", "Repaid", "Liquidated"}, LAMBDA l : loan[l].amount)
                          + SumOverLoans({"Settled"}, Unrecovered)

\* The loans and the books agree: no counter is negative, payments under way are held, and what
\* is borrowed is the principal of the loans (AfterPoolBorrowed, AfterPoolRepaid, RebalancePool).
LoansAreBooked == TypeOK /\ PaymentsAreHeld /\ BorrowedIsPrincipal

\* Deposits and withdrawals never lower what a share is worth to the others, for
\* all the truncations of GetYTokenAmount and GetUnderlyingAssetAmount.  Fees that
\* stay in a tranche's reserve can leave a negative claim: then no share is
\* issued, and shares are burned for nothing.
NoDilution ==
    [][pool'.totalYTokens # pool.totalYTokens /\ pool.supply > 0
          => IF Claim >= 0 THEN Claim' * pool.totalYTokens >= Claim * pool'.totalYTokens
             ELSE Claim' = Claim /\ pool'.totalYTokens < pool.totalYTokens]_vars

\* The shares issued one to one are the first ones: the comment at that branch of
\* MsgAddLiquidity says "activate pool on first deposit", and its test is that
\* the supply is zero.  Interest that nobody owes breaks it.
FirstDepositFindsNoShares == pool.supply = 0 => pool.totalYTokens = 0

\* What the borrowers owe: principal and interest, the debt of a liquidation
\* and its interest, the payment that is still held in escrow.
Owed(l) == IF loan[l].status = "Repaid" THEN loan[l].paid
           ELSE loan[l].amount + GetInterest(l, tranche[loan[l].maturity].borrowIndex)

\* The assets that the shares are worth exist: the comment of
\* GetUnderlyingAssetAmount says that it "calculates the underlying asset amount
\* from the given yToken amount".  Debt that a liquidation did not recover is
\* written here to the account of the assets, and a unit per loan is allowed
\* for rounding.  Interest charged after the amount of a repayment is fixed breaks it.
SharesAreCovered ==
    (\A l \in Loan : loan[l].status # "Settled") =>
        Claim <= pool.availableAmount + Cardinality(Loan)
                 + SumOverLoans({"Open", "Repaid", "Liquidated"}, Owed)

\* A paused pool takes no deposits: the comment of PoolConfig says of the field
\* that it "indicates if the pool is paused".  A pool created paused (PausedSpec) breaks it.
PausedTakesNoDeposits == [][pool.paused => pool'.totalYTokens <= pool.totalYTokens]_vars
=============================================================================
