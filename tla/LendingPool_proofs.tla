------------------------- MODULE LendingPool_proofs -------------------------
(***************************************************************************)
(* Theorems about module LendingPool, for any precision, rates, factors,   *)
(* caps and amounts and any number of lenders, loans and tranches.         *)
(*                                                                         *)
(* Supply and available amounts need no sum over loans or tranches (IInv). *)
(* That the books agree with the loans (BooksInv) does: sums over finite   *)
(* sets follow the one loan that a step changes, by induction on the set.  *)
(* That no counter turns negative rests on interest: an index never falls, *)
(* so what a loan owes never falls below its principal.                    *)
(***************************************************************************)
EXTENDS LendingPool, FiniteSetTheorems, WellFoundedInduction, TLAPS

USE DEF ValidPoolConfig

----------------------------------------------------------------------------
(* Arithmetic of LegacyDec *)

\* The scaled quotient of a positive precision is an integer.
LEMMA ChopType == ASSUME NEW d \in Nat PROVE Chop(d) \in Nat
<1>1. Precision \in Nat /\ Precision > 0
    BY PoolAssumption
<1>2. d \div Precision \in Nat /\ d % Precision \in Nat
    BY <1>1
<1> QED BY <1>1, <1>2 DEF Chop

\* A positive index stays positive when it is multiplied by one plus a rate.
LEMMA IndexGrows ==
    ASSUME NEW i \in Nat \ {0}, NEW r \in Nat
    PROVE  DecMul(i, Precision + r) \in Nat \ {0}
<1> DEFINE x == i * (Precision + r)
           q == x \div Precision
<1>1. Precision \in Nat /\ Precision > 0
    BY PoolAssumption
<1>2. x \in Nat
    BY <1>1
<1>3. x >= Precision
    BY <1>1
<1>4. q \in Nat /\ q # 0
    BY <1>1, <1>2, <1>3
<1>5. Chop(x) \in {q, q + 1}
    BY DEF Chop
<1> QED BY <1>4, <1>5 DEF DecMul

----------------------------------------------------------------------------
(* The inductive invariant *)

\* Indexes are positive, which every interest is divided by.
TrancheInv ==
    /\ DOMAIN tranche \subseteq Maturity /\ DOMAIN rate = DOMAIN tranche
    /\ \A m \in DOMAIN tranche :
          /\ "borrowIndex" \in DOMAIN tranche[m]
          /\ tranche[m].borrowIndex \in Nat \ {0}
          /\ rate[m] \in Rate

\* A loan belongs to a tranche of the pool.
LoanInv ==
    /\ DOMAIN loan = Loan
    /\ \A l \in Loan :
          /\ DOMAIN loan[l] = {"status", "maturity", "amount", "referred", "startBorrowIndex",
                               "paid", "debt", "accrued"}
          /\ loan[l].status \in LoanStatus
          /\ loan[l].amount \in Nat /\ loan[l].startBorrowIndex \in Nat \ {0}
          /\ loan[l].paid \in Int /\ loan[l].debt \in Int /\ loan[l].accrued \in Int
          /\ loan[l].status # "NONE" => loan[l].maturity \in DOMAIN tranche

\* The counters that the two theorems are about are integers.
CounterInv ==
    /\ {"supply", "availableAmount", "borrowedAmount"} \subseteq DOMAIN pool
    /\ pool.supply \in Int /\ pool.availableAmount \in Int /\ pool.borrowedAmount \in Int
    /\ DOMAIN bank = {"lending", "escrow", "liquidation"}
    /\ bank.lending \in Int /\ bank.escrow \in Int /\ bank.liquidation \in Int

\* SupplyIsBacked and AvailableIsHeld are inductive together with the types.
IInv == TrancheInv /\ LoanInv /\ CounterInv /\ SupplyIsBacked /\ AvailableIsHeld

\* Interest of a loan at a positive index is an integer.
LEMMA InterestType ==
    ASSUME LoanInv, NEW l \in Loan, NEW i \in Nat \ {0}
    PROVE  GetInterest(l, i) \in Int
<1>1. loan[l].amount \in Nat /\ loan[l].startBorrowIndex \in Nat /\ loan[l].startBorrowIndex > 0
    BY DEF LoanInv
<1>2. Precision \in Nat /\ Precision > 0
    BY PoolAssumption
<1>3. DecMul(ToLegacyDec(loan[l].amount), i) \in Nat
    <2>1. loan[l].amount * Precision * i \in Nat
        BY <1>1, <1>2
    <2> QED BY <2>1, ChopType DEF DecMul, ToLegacyDec
<1> DEFINE a == DecMul(ToLegacyDec(loan[l].amount), i)
           s == loan[l].startBorrowIndex
<1>4. DecQuo(a, s) \in Nat
    <2> HIDE DEF a
    <2>1. a * Precision * Precision \in Nat
        BY <1>2, <1>3 DEF a
    <2>2. (a * Precision * Precision) \div s \in Nat
        BY <1>1, <2>1
    <2> QED BY <2>2, ChopType DEF DecQuo
<1>5. TruncateInt(DecQuo(a, s)) \in Int
    BY <1>2, <1>4 DEF TruncateInt
<1> QED BY <1>1, <1>5 DEF GetInterest

\* The interest that a repayment is asked for is a natural number (GetCurrentInterest).
LEMMA CurrentInterestType ==
    ASSUME TrancheInv, LoanInv, NEW l \in Loan, loan[l].status # "NONE"
    PROVE  GetCurrentInterest(l) \in Int
<1>1. GetInterest(l, tranche[loan[l].maturity].borrowIndex) \in Int
    BY InterestType DEF TrancheInv, LoanInv
<1>2. loan[l].status \in LoanStatus /\ loan[l].paid \in Int /\ loan[l].debt \in Int /\ loan[l].amount \in Int
    BY DEF LoanInv
<1> QED BY <1>1, <1>2 DEF GetCurrentInterest, LoanStatus

\* Fees are integers, for interest of either sign.
LEMMA FeeType == ASSUME NEW n \in Int PROVE GetProtocolFee(n) \in Int
<1>1. Precision \in Nat /\ Precision > 0 /\ ReserveFactor \in Int
    BY PoolAssumption
<1>2. n * Precision * ReserveFactor \in Int
    BY <1>1
<1> DEFINE d == n * Precision * ReserveFactor
<1>3. d \div Precision \in Int
    BY <1>1, <1>2
<1>4. Chop(d) \in {d \div Precision, d \div Precision + 1}
    BY DEF Chop
<1>5. Chop(d) \in Int
    BY <1>3, <1>4
<1> QED BY <1>1, <1>5 DEF GetProtocolFee, DecMul, ToLegacyDec, TruncateInt

\* The invariant holds initially.
LEMMA InitInv == Init => IInv
BY PoolAssumption DEF Init, InitWith, NewPool, NewTranche, NoLoan, IInv, TrancheInv, LoanInv,
    LoanStatus, CounterInv, SupplyIsBacked, AvailableIsHeld

----------------------------------------------------------------------------
(* Every action preserves it *)

\* AddLiquidity moves what it counts into the pool account.
LEMMA AddLiquidityStep ==
    ASSUME IInv, NEW u \in Lender, NEW a \in Amount, AddLiquidity(u, a) PROVE IInv'
<1>1. a \in Int
    BY PoolAssumption
<1>2. CounterInv' /\ SupplyIsBacked' /\ AvailableIsHeld'
    BY <1>1 DEF IInv, AddLiquidity, CounterInv, SupplyIsBacked, AvailableIsHeld
<1>3. TrancheInv' /\ LoanInv'
    BY DEF IInv, AddLiquidity, TrancheInv, LoanInv
<1> QED BY <1>2, <1>3 DEF IInv

\* RemoveLiquidity pays out of what is available, which the supply covers.
LEMMA RemoveLiquidityStep ==
    ASSUME IInv, NEW u \in Lender, NEW y, RemoveLiquidity(u, y) PROVE IInv'
<1>1. PICK w \in 0..pool.availableAmount :
          /\ pool' = [pool EXCEPT !.supply = @ - w, !.availableAmount = @ - w, !.totalYTokens = @ - y]
          /\ bank' = [bank EXCEPT !.lending = @ - w]
    BY DEF RemoveLiquidity
<1>2. w \in Int
    OBVIOUS
<1>3. CounterInv' /\ SupplyIsBacked' /\ AvailableIsHeld'
    BY <1>1, <1>2 DEF IInv, CounterInv, SupplyIsBacked, AvailableIsHeld
<1>4. TrancheInv' /\ LoanInv'
    BY DEF IInv, RemoveLiquidity, TrancheInv, LoanInv
<1> QED BY <1>3, <1>4 DEF IInv

\* The begin blocker changes indexes and no amounts.
LEMMA BeginBlockStep == ASSUME IInv, BeginBlock PROVE IInv'
<1>1. TrancheInv'
    <2>1. CASE pool.status # "INACTIVE"
        <3>1. tranche' = [m \in DOMAIN tranche |-> AccruedTranche(tranche[m], rate[m])]
            BY <2>1 DEF BeginBlock, UpdatePool
        <3>2. \A m \in DOMAIN tranche : rate[m] \in Nat
            BY PoolAssumption DEF IInv, TrancheInv
        <3>3. \A m \in DOMAIN tranche : tranche'[m].borrowIndex \in Nat \ {0}
            BY <3>1, <3>2, IndexGrows DEF IInv, TrancheInv, AccruedTranche
        <3>4. \A m \in DOMAIN tranche : "borrowIndex" \in DOMAIN tranche'[m]
            BY <3>1 DEF AccruedTranche
        <3> QED BY <3>1, <3>3, <3>4 DEF IInv, TrancheInv, BeginBlock
    <2>2. CASE pool.status = "INACTIVE"
        BY <2>2 DEF IInv, TrancheInv, BeginBlock
    <2> QED BY <2>1, <2>2
<1>2. DOMAIN tranche' = DOMAIN tranche
    BY DEF BeginBlock, UpdatePool
<1>3. LoanInv'
    <2>1. ASSUME NEW l \in Loan, loan[l].status = "Liquidated"
          PROVE  GetInterest(l, tranche'[loan[l].maturity].borrowIndex) - GetCurrentInterest(l) \in Int
        <3>1. loan[l].maturity \in DOMAIN tranche'
            BY <1>2, <2>1 DEF IInv, LoanInv
        <3>2. tranche'[loan[l].maturity].borrowIndex \in Nat \ {0}
            BY <1>1, <3>1 DEF TrancheInv
        <3>3. GetInterest(l, tranche'[loan[l].maturity].borrowIndex) \in Int
            BY <3>2, InterestType DEF IInv
        <3>4. GetCurrentInterest(l) \in Int
            BY <2>1, CurrentInterestType DEF IInv
        <3> QED BY <3>3, <3>4
    <2> QED BY <1>2, <2>1 DEF BeginBlock, IInv, LoanInv
<1>4. CounterInv' /\ SupplyIsBacked' /\ AvailableIsHeld'
    BY DEF IInv, CounterInv, SupplyIsBacked, AvailableIsHeld, BeginBlock, UpdatePool
<1> QED BY <1>1, <1>3, <1>4 DEF IInv

\* An approved loan moves its amount from available to borrowed.
LEMMA ApproveStep ==
    ASSUME IInv, NEW l \in Loan, NEW m \in Maturity, NEW a \in Amount, NEW referred \in BOOLEAN,
           Approve(l, m, a, referred)
    PROVE  IInv'
<1>1. a \in Nat
    BY PoolAssumption
<1>2. CounterInv' /\ SupplyIsBacked' /\ AvailableIsHeld'
    BY <1>1 DEF IInv, Approve, CounterInv, SupplyIsBacked, AvailableIsHeld
<1>3. TrancheInv'
    BY DEF IInv, Approve, TrancheInv
<1>4. LoanInv'
    <2>1. tranche[m].borrowIndex \in Nat \ {0}
        BY DEF IInv, TrancheInv, Approve
    <2>2. DOMAIN tranche' = DOMAIN tranche /\ m \in DOMAIN tranche
        BY DEF Approve
    <2> QED BY <1>1, <2>1, <2>2 DEF IInv, LoanInv, LoanStatus, Approve
<1> QED BY <1>2, <1>3, <1>4 DEF IInv

\* A repayment waits in escrow until the loan is closed.
LEMMA RepayStep == ASSUME IInv, NEW l \in Loan, Repay(l) PROVE IInv'
<1>1. loan[l].amount + GetCurrentInterest(l) \in Int
    BY CurrentInterestType DEF IInv, Repay, LoanInv
<1>2. CounterInv' /\ SupplyIsBacked' /\ AvailableIsHeld'
    BY <1>1 DEF IInv, Repay, CounterInv, SupplyIsBacked, AvailableIsHeld
<1>3. TrancheInv'
    BY DEF IInv, Repay, TrancheInv
<1>4. LoanInv'
    BY <1>1 DEF IInv, Repay, LoanInv, LoanStatus
<1> QED BY <1>2, <1>3, <1>4 DEF IInv

\* The counters q that a repayment of principal p with interest i and fee f leaves.
IsRepaid(q, p, i, f) ==
    /\ {"supply", "availableAmount", "borrowedAmount"} \subseteq DOMAIN q
    /\ q.availableAmount = pool.availableAmount + p + i - f
    /\ q.supply \in Int /\ q.availableAmount \in Int /\ q.borrowedAmount \in Int
    /\ q.supply = q.availableAmount + q.borrowedAmount

\* A repayment adds to supply, available and lent amounts consistently.
LEMMA RepaidPoolCounters ==
    ASSUME CounterInv, SupplyIsBacked, NEW p \in Int, NEW i \in Int, NEW f \in Int, NEW af
    PROVE  IsRepaid(RepaidPool(p, i, f, af), p, i, f)
BY DEF CounterInv, SupplyIsBacked, RepaidPool, IsRepaid

\* A completed repayment returns principal and interest to the pool.
LEMMA CompleteRepaymentStep == ASSUME IInv, NEW l \in Loan, CompleteRepayment(l) PROVE IInv'
<1> DEFINE interest == GetCurrentInterest(l)
           fee == GetProtocolFee(interest)
<1>1. interest \in Int /\ loan[l].amount \in Int
    BY CurrentInterestType DEF IInv, CompleteRepayment, LoanInv
<1>2. fee \in Int
    BY <1>1, FeeType
<1>3. CounterInv' /\ SupplyIsBacked' /\ AvailableIsHeld'
    <2>1. pool' = RepaidPool(loan[l].amount, interest, fee, ActualProtocolFee(l, fee))
        BY DEF CompleteRepayment
    <2>2. bank' = [bank EXCEPT !.escrow = @ - (loan[l].amount + interest),
                               !.lending = @ + (loan[l].amount + interest) - fee]
        BY DEF CompleteRepayment
    <2> HIDE DEF interest, fee
    <2>3. /\ DOMAIN bank' = {"lending", "escrow", "liquidation"}
          /\ bank'.lending \in Int /\ bank'.escrow \in Int /\ bank'.liquidation \in Int
        BY <1>1, <1>2, <2>2 DEF IInv, CounterInv
    <2>4. bank'.lending = bank.lending + (loan[l].amount + interest) - fee
        BY <2>2 DEF IInv, CounterInv
    <2> QED BY <1>1, <1>2, <2>1, <2>3, <2>4, RepaidPoolCounters DEF IsRepaid, IInv, CounterInv, SupplyIsBacked, AvailableIsHeld
<1>4. TrancheInv'
    BY DEF IInv, CompleteRepayment, RepaidTranche, TrancheInv
<1>5. LoanInv'
    BY DEF IInv, CompleteRepayment, LoanInv, LoanStatus
<1> QED BY <1>3, <1>4, <1>5 DEF IInv

\* A liquidation starts without moving assets.
LEMMA LiquidateStep == ASSUME IInv, NEW l \in Loan, Liquidate(l) PROVE IInv'
<1>1. loan[l].amount + GetCurrentInterest(l) \in Int
    BY CurrentInterestType DEF IInv, Liquidate, LoanInv
<1>2. CounterInv' /\ SupplyIsBacked' /\ AvailableIsHeld' /\ TrancheInv'
    BY DEF IInv, Liquidate, CounterInv, SupplyIsBacked, AvailableIsHeld, TrancheInv
<1>3. LoanInv'
    BY <1>1 DEF IInv, Liquidate, LoanInv, LoanStatus
<1> QED BY <1>2, <1>3 DEF IInv

\* A liquidator pays into the escrow of the liquidation module.
LEMMA PayDebtStep == ASSUME IInv, NEW l \in Loan, NEW a \in Amount, PayDebt(l, a) PROVE IInv'
<1> DEFINE remaining == loan[l].debt - loan[l].paid
           d == IF remaining < a THEN remaining ELSE a
<1>1. d \in Int
    BY PoolAssumption DEF IInv, LoanInv
<1>2. bank' = [bank EXCEPT !.liquidation = @ + d] /\ loan' = [loan EXCEPT ![l].paid = @ + d]
    BY DEF PayDebt
<1> HIDE DEF d
<1>3. CounterInv' /\ SupplyIsBacked' /\ AvailableIsHeld' /\ TrancheInv'
    BY <1>1, <1>2 DEF IInv, PayDebt, CounterInv, SupplyIsBacked, AvailableIsHeld, TrancheInv
<1>4. LoanInv'
    BY <1>1, <1>2 DEF IInv, PayDebt, LoanInv
<1> QED BY <1>3, <1>4 DEF IInv

\* A settlement hands the pool what the liquidators paid.
LEMMA SettleStep == ASSUME IInv, NEW l \in Loan, Settle(l) PROVE IInv'
<1> DEFINE principal == LiquidatedPrincipal(l)
           interest == loan[l].paid - principal
           fee == GetProtocolFee(interest)
           p == RepaidPool(principal, interest, fee, ActualProtocolFee(l, fee))
           m == loan[l].maturity
<1>1. principal \in Int /\ interest \in Int /\ loan[l].paid \in Int
    BY CurrentInterestType DEF IInv, Settle, LoanInv, LiquidatedPrincipal
<1>2. fee \in Int
    BY <1>1, FeeType
<1>3. CounterInv' /\ SupplyIsBacked' /\ AvailableIsHeld'
    <2>1. pool' = [p EXCEPT !.totalBorrowed = NonNegative(@ - loan[l].accrued),
                            !.totalReserve = NonNegative(@ - GetProtocolFee(loan[l].accrued))]
        BY DEF Settle
    <2>2. bank' = [bank EXCEPT !.liquidation = @ - loan[l].paid, !.lending = @ + loan[l].paid - fee]
        BY DEF Settle
    <2>3. IsRepaid(p, principal, interest, fee)
        <3>1. CounterInv /\ SupplyIsBacked
            BY DEF IInv
        <3> HIDE DEF principal, interest, fee
        <3> QED BY <1>1, <1>2, <3>1, RepaidPoolCounters
    <2>4. principal + interest = loan[l].paid
        <3> HIDE DEF principal
        <3> QED BY <1>1
    <2> HIDE DEF p, principal, interest, fee
    <2>5. /\ DOMAIN bank' = {"lending", "escrow", "liquidation"}
          /\ bank'.lending \in Int /\ bank'.escrow \in Int /\ bank'.liquidation \in Int
        BY <1>1, <1>2, <2>2 DEF IInv, CounterInv
    <2>6. bank'.lending = bank.lending + loan[l].paid - fee
        BY <2>2 DEF IInv, CounterInv
    <2>7. /\ {"supply", "availableAmount", "borrowedAmount"} \subseteq DOMAIN pool'
          /\ pool'.supply = p.supply /\ pool'.availableAmount = p.availableAmount
          /\ pool'.borrowedAmount = p.borrowedAmount
        BY <2>1, <2>3 DEF IsRepaid
    <2> QED BY <1>1, <1>2, <2>3, <2>4, <2>5, <2>6, <2>7 DEF IsRepaid, IInv, CounterInv, SupplyIsBacked, AvailableIsHeld
<1>4. TrancheInv'
    <2> DEFINE t == RepaidTranche(m, loan[l].paid)
               u == [t EXCEPT !.totalBorrowed = NonNegative(@ - loan[l].accrued),
                              !.totalReserve = NonNegative(@ - GetProtocolFee(loan[l].accrued))]
    <2>1. tranche' = [tranche EXCEPT ![m] = u]
        BY DEF Settle
    <2>2. m \in DOMAIN tranche
        BY DEF IInv, LoanInv, Settle
    <2>3. "borrowIndex" \in DOMAIN u /\ u.borrowIndex = tranche[m].borrowIndex
        BY <2>2 DEF RepaidTranche, IInv, TrancheInv
    <2>4. UNCHANGED rate
        BY DEF Settle
    <2> HIDE DEF u, m
    <2> QED BY <2>1, <2>2, <2>3, <2>4 DEF IInv, TrancheInv
<1>5. LoanInv'
    <2>1. DOMAIN tranche' = DOMAIN tranche
        BY DEF Settle
    <2>2. loan' = [loan EXCEPT ![l].status = "Settled"] /\ loan[l].status = "Liquidated"
        BY DEF Settle
    <2> QED BY <2>1, <2>2 DEF IInv, LoanInv, LoanStatus
<1> QED BY <1>3, <1>4, <1>5 DEF IInv

\* A change of the configuration moves nothing.
LEMMA UpdatePoolConfigStep ==
    ASSUME IInv, NEW paused \in BOOLEAN, NEW m \in Maturity, NEW r \in Rate, UpdatePoolConfig(paused, m, r)
    PROVE  IInv'
<1>1. CounterInv' /\ SupplyIsBacked' /\ AvailableIsHeld'
    BY DEF IInv, UpdatePoolConfig, CounterInv, SupplyIsBacked, AvailableIsHeld
<1>2. NewTranche.borrowIndex \in Nat \ {0} /\ "borrowIndex" \in DOMAIN NewTranche
    BY PoolAssumption DEF NewTranche
<1>3. TrancheInv'
    BY <1>2 DEF IInv, UpdatePoolConfig, TrancheInv
<1>4. LoanInv'
    BY DEF IInv, UpdatePoolConfig, LoanInv
<1> QED BY <1>1, <1>3, <1>4 DEF IInv

\* A stuttering step keeps the invariant.
LEMMA StutterStep == ASSUME IInv, UNCHANGED vars PROVE IInv'
BY DEF IInv, vars, TrancheInv, LoanInv, CounterInv, SupplyIsBacked, AvailableIsHeld

----------------------------------------------------------------------------
(* Theorems *)

\* IInv is an invariant of the pool.
LEMMA Invariance == Spec => []IInv
<1>1. IInv /\ [Next]_vars => IInv'
    BY AddLiquidityStep, RemoveLiquidityStep, BeginBlockStep, ApproveStep, RepayStep,
       CompleteRepaymentStep, LiquidateStep, PayDebtStep, SettleStep, UpdatePoolConfigStep,
       StutterStep DEF Next
<1> QED BY InitInv, <1>1, PTL DEF Spec

\* Nominal supply is what is available plus what is lent, so the subtraction of
\* MsgRemoveLiquidity cannot make it negative.
THEOREM SupplyIsBackedHolds == Spec => []SupplyIsBacked
BY Invariance, PTL DEF IInv

\* The module account holds exactly what the pool believes to be available, so no
\* withdrawal and no disbursement that the pool accepts fails for lack of coins.
THEOREM AvailableIsHeldHolds == Spec => []AvailableIsHeld
BY Invariance, PTL DEF IInv
----------------------------------------------------------------------------
(* Sums over finite sets *)

\* A set of subsets of S that contains every set whose proper subsets it contains is all of them.
LEMMA SubsetInduction ==
    ASSUME NEW S, IsFiniteSet(S), NEW A,
           \A T \in SUBSET S : (\A U \in SUBSET T : U # T => U \in A) => T \in A
    PROVE  \A T \in SUBSET S : T \in A
<1> DEFINE W == {T \in SUBSET S : T \notin A}
           R == StrictSubsetOrdering(S)
<1> SUFFICES ASSUME W # {} PROVE FALSE
    OBVIOUS
<1>1. IsWellFoundedOn(R, SUBSET S)
    <2>1. IsWellFoundedOn(R, FiniteSubsetsOf(S))
        BY FS_StrictSubsetOrderingWellFounded, Zenon
    <2>2. FiniteSubsetsOf(S) = SUBSET S
        BY FS_FiniteSubsetsOfFinite, Zenon
    <2> QED BY <2>1, <2>2, Zenon
<1>2. W \subseteq SUBSET S
    OBVIOUS
<1>3. \A T, U \in SUBSET S : U \subseteq T /\ U # T => <<U, T>> \in R
    BY DEF StrictSubsetOrdering
<1> HIDE DEF R
<1>4. PICK T \in W : \A U \in W : ~(<<U, T>> \in R)
    <2> DEFINE Q == SUBSET S
    <2>1. IsWellFoundedOn(R, Q)
        BY <1>1
    <2>2. W \subseteq Q /\ W # {}
        BY <1>2
    <2> HIDE DEF W, Q
    <2> QED BY ONLY <2>1, <2>2, WFMin, Zenon
<1>5. ASSUME NEW U \in SUBSET T, U # T PROVE U \in A
    <2>1. U \in SUBSET S /\ T \in SUBSET S
        BY <1>4
    <2>2. <<U, T>> \in R
        BY <1>3, <1>5, <2>1
    <2>3. U \notin W
        <3> HIDE DEF W
        <3> QED BY <1>4, <2>2
    <2> QED BY <2>1, <2>3
<1> QED BY <1>4, <1>5

\* The recursion that SumFunctionOnSet is defined by.
Pick(s) == CHOOSE x \in s : TRUE
Body(f, S, g) == [s \in SUBSET S |-> IF s = {} THEN 0 ELSE f[Pick(s)] + g[s \ {Pick(s)}]]
Iter(f, S) == CHOOSE g : g = Body(f, S, g)

LEMMA SumIsIter == \A f, S : SumFunctionOnSet(f, S) = Iter(f, S)[S]
    BY DEF SumFunctionOnSet, FoldFunctionOnSet, MapThenFoldSet, Iter, Body, Pick

LEMMA PickIn == \A s : s # {} => Pick(s) \in s
    BY DEF Pick

\* What the recursion computes for a set does not depend on the set it was started from.
LEMMA IterLocal ==
    ASSUME NEW f, NEW T, IsFiniteSet(T), NEW S, NEW P, T \subseteq S, T \subseteq P,
           NEW g, g = Body(f, S, g), NEW h, h = Body(f, P, h)
    PROVE  g[T] = h[T]
<1> DEFINE A == {U \in SUBSET T : g[U] = h[U]}
<1>1. \A U \in SUBSET T : (\A V \in SUBSET U : V # U => V \in A) => U \in A
    <2> SUFFICES ASSUME NEW U \in SUBSET T, \A V \in SUBSET U : V # U => V \in A PROVE g[U] = h[U]
        OBVIOUS
    <2>1. /\ g[U] = IF U = {} THEN 0 ELSE f[Pick(U)] + g[U \ {Pick(U)}]
          /\ h[U] = IF U = {} THEN 0 ELSE f[Pick(U)] + h[U \ {Pick(U)}]
        <3>1. U \in SUBSET S /\ U \in SUBSET P
            OBVIOUS
        <3> QED BY <3>1, Zenon DEF Body
    <2>2. CASE U = {}
        BY <2>1, <2>2
    <2>3. CASE U # {}
        <3>1. U \ {Pick(U)} \in A
            BY <2>3, PickIn
        <3> QED BY <2>1, <3>1
    <2> QED BY <2>2, <2>3
<1>2. \A U \in SUBSET T : U \in A
    <2> HIDE DEF A
    <2> QED BY <1>1, SubsetInduction
<1> QED BY <1>2

\* The recursion has a solution.
LEMMA IterExists ==
    ASSUME NEW f, NEW S, IsFiniteSet(S)
    PROVE  Iter(f, S) = Body(f, S, Iter(f, S))
<1> DEFINE A == {T \in SUBSET S : \E g : g = Body(f, T, g)}
<1>1. ASSUME NEW T \in A PROVE Iter(f, T) = Body(f, T, Iter(f, T))
    BY <1>1, Zenon DEF Iter
<1>2. \A T \in SUBSET S : (\A U \in SUBSET T : U # T => U \in A) => T \in A
    <2> SUFFICES ASSUME NEW T \in SUBSET S, \A U \in SUBSET T : U # T => U \in A
                 PROVE  \E g : g = Body(f, T, g)
        OBVIOUS
    <2> DEFINE h == [s \in SUBSET T |-> IF s = {} THEN 0
                                        ELSE f[Pick(s)] + Iter(f, s \ {Pick(s)})[s \ {Pick(s)}]]
    <2>1. ASSUME NEW u \in SUBSET T, u # T PROVE h[u] = Iter(f, u)[u]
        <3>1. Iter(f, u) = Body(f, u, Iter(f, u))
            BY <1>1, <2>1
        <3>2. Iter(f, u)[u] = IF u = {} THEN 0 ELSE f[Pick(u)] + Iter(f, u)[u \ {Pick(u)}]
            BY <3>1, Zenon DEF Body
        <3>3. CASE u = {}
            BY <3>2, <3>3
        <3>4. CASE u # {}
            <4> DEFINE v == u \ {Pick(u)}
            <4>1. v \subseteq u /\ v \in SUBSET T /\ v # T
                BY <3>4, PickIn
            <4>2. Iter(f, v) = Body(f, v, Iter(f, v))
                BY <1>1, <4>1
            <4>3. IsFiniteSet(v)
                BY <4>1, FS_Subset
            <4>4. Iter(f, u)[v] = Iter(f, v)[v]
                <5> HIDE DEF v
                <5> QED BY <3>1, <4>1, <4>2, <4>3, IterLocal
            <4> QED BY <3>2, <3>4, <4>4
        <3> QED BY <3>3, <3>4
    <2>2. ASSUME NEW s \in SUBSET T, s # {}
          PROVE  h[s \ {Pick(s)}] = Iter(f, s \ {Pick(s)})[s \ {Pick(s)}]
        <3>1. s \ {Pick(s)} \in SUBSET T /\ s \ {Pick(s)} # T
            BY <2>2, PickIn
        <3> HIDE DEF h
        <3> QED BY <2>1, <3>1
    <2>3. h = [s \in SUBSET T |-> IF s = {} THEN 0 ELSE f[Pick(s)] + h[s \ {Pick(s)}]]
        <3> DEFINE k == [s \in SUBSET T |-> IF s = {} THEN 0 ELSE f[Pick(s)] + h[s \ {Pick(s)}]]
        <3>1. DOMAIN h = DOMAIN k
            OBVIOUS
        <3>2. \A s \in SUBSET T : h[s] = k[s]
            BY <2>2
        <3> QED BY <3>1, <3>2
    <2> HIDE DEF h
    <2> QED BY <2>3 DEF Body
<1>3. S \in A
    <2> HIDE DEF A
    <2> QED BY <1>2, SubsetInduction
<1> QED BY <1>1, <1>3

\* A sum is the sum without some element, and that element.
LEMMA SumPicks ==
    ASSUME NEW f, NEW S, IsFiniteSet(S)
    PROVE  /\ S = {} => SumFunctionOnSet(f, S) = 0
           /\ S # {} => SumFunctionOnSet(f, S) = f[Pick(S)] + SumFunctionOnSet(f, S \ {Pick(S)})
<1> DEFINE g == Iter(f, S)
           T == S \ {Pick(S)}
<1>1. g = Body(f, S, g)
    BY IterExists
<1> HIDE DEF g
<1>2. g[S] = IF S = {} THEN 0 ELSE f[Pick(S)] + g[S \ {Pick(S)}]
    BY <1>1, Zenon DEF Body
<1>3. IsFiniteSet(T) /\ T \subseteq S
    BY FS_Subset
<1>4. Iter(f, T) = Body(f, T, Iter(f, T))
    BY <1>3, IterExists
<1>5. g[T] = Iter(f, T)[T]
    <2> HIDE DEF T
    <2> QED BY <1>1, <1>3, <1>4, IterLocal
<1> QED BY <1>2, <1>5, SumIsIter DEF g

\* Sums of integers are integers, and sums of natural numbers are natural numbers.
LEMMA SumType ==
    ASSUME NEW f, NEW S, IsFiniteSet(S)
    PROVE  /\ (\A x \in S : f[x] \in Int) => SumFunctionOnSet(f, S) \in Int
           /\ (\A x \in S : f[x] \in Nat) => SumFunctionOnSet(f, S) \in Nat
<1> DEFINE Sum(T) == SumFunctionOnSet(f, T)
           A == {T \in SUBSET S : /\ (\A x \in T : f[x] \in Int) => Sum(T) \in Int
                                  /\ (\A x \in T : f[x] \in Nat) => Sum(T) \in Nat}
<1>1. \A T \in SUBSET S : (\A U \in SUBSET T : U # T => U \in A) => T \in A
    <2> SUFFICES ASSUME NEW T \in SUBSET S, \A U \in SUBSET T : U # T => U \in A PROVE T \in A
        OBVIOUS
    <2>1. IsFiniteSet(T)
        BY FS_Subset
    <2>2. CASE T = {}
        <3>1. Sum(T) = 0
            BY <2>1, <2>2, SumPicks
        <3> HIDE DEF Sum
        <3> QED BY <3>1
    <2>3. CASE T # {}
        <3>1. T \ {Pick(T)} \in A /\ Pick(T) \in T
            BY <2>3, PickIn
        <3>2. Sum(T) = f[Pick(T)] + Sum(T \ {Pick(T)})
            BY <2>1, <2>3, SumPicks
        <3> HIDE DEF Sum
        <3> QED BY <3>1, <3>2
    <2> QED BY <2>2, <2>3
<1>2. S \in A
    <2> HIDE DEF A
    <2> QED BY <1>1, SubsetInduction
<1> QED BY <1>2

\* The sum depends on the values of the elements only.
LEMMA SumSame ==
    ASSUME NEW f, NEW g, NEW S, IsFiniteSet(S), \A x \in S : f[x] = g[x]
    PROVE  SumFunctionOnSet(f, S) = SumFunctionOnSet(g, S)
<1> DEFINE A == {T \in SUBSET S : SumFunctionOnSet(f, T) = SumFunctionOnSet(g, T)}
<1>1. \A T \in SUBSET S : (\A U \in SUBSET T : U # T => U \in A) => T \in A
    <2> SUFFICES ASSUME NEW T \in SUBSET S, \A U \in SUBSET T : U # T => U \in A PROVE T \in A
        OBVIOUS
    <2>1. IsFiniteSet(T)
        BY FS_Subset
    <2>2. CASE T = {}
        BY <2>1, <2>2, SumPicks
    <2>3. CASE T # {}
        <3>1. T \ {Pick(T)} \in A /\ Pick(T) \in T
            BY <2>3, PickIn
        <3>2. /\ SumFunctionOnSet(f, T) = f[Pick(T)] + SumFunctionOnSet(f, T \ {Pick(T)})
              /\ SumFunctionOnSet(g, T) = g[Pick(T)] + SumFunctionOnSet(g, T \ {Pick(T)})
            BY <2>1, <2>3, SumPicks
        <3> QED BY <3>1, <3>2
    <2> QED BY <2>2, <2>3
<1>2. S \in A
    <2> HIDE DEF A
    <2> QED BY <1>1, SubsetInduction
<1> QED BY <1>2

\* Any element can be taken out of a sum of integers first.
LEMMA SumRemove ==
    ASSUME NEW f, NEW S, IsFiniteSet(S), \A x \in S : f[x] \in Int, NEW e \in S
    PROVE  SumFunctionOnSet(f, S) = f[e] + SumFunctionOnSet(f, S \ {e})
<1> DEFINE Sum(T) == SumFunctionOnSet(f, T)
           A == {T \in SUBSET S : \A x \in T : Sum(T) = f[x] + Sum(T \ {x})}
<1>1. \A T \in SUBSET S : (\A U \in SUBSET T : U # T => U \in A) => T \in A
    <2> SUFFICES ASSUME NEW T \in SUBSET S, \A U \in SUBSET T : U # T => U \in A, NEW x \in T
                 PROVE  Sum(T) = f[x] + Sum(T \ {x})
        OBVIOUS
    <2> DEFINE y == Pick(T)
    <2>1. y \in T /\ Sum(T) = f[y] + Sum(T \ {y})
        BY FS_Subset, PickIn, SumPicks
    <2> HIDE DEF y
    <2>2. CASE x = y
        BY <2>1, <2>2
    <2>3. CASE x # y
        <3>1. T \ {x} \in A /\ T \ {y} \in A
            BY <2>1
        <3>2. Sum(T \ {x}) = f[y] + Sum((T \ {x}) \ {y}) /\ Sum(T \ {y}) = f[x] + Sum((T \ {y}) \ {x})
            BY <2>1, <2>3, <3>1
        <3>3. (T \ {x}) \ {y} = (T \ {y}) \ {x}
            OBVIOUS
        <3>4. IsFiniteSet((T \ {y}) \ {x})
            BY FS_Subset
        <3>5. Sum((T \ {y}) \ {x}) \in Int
            BY <3>4, SumType
        <3> DEFINE a == Sum((T \ {y}) \ {x})
        <3>6. Sum(T) = f[y] + (f[x] + a) /\ Sum(T \ {x}) = f[y] + a
            BY <2>1, <3>2, <3>3
        <3>7. a \in Int /\ f[x] \in Int /\ f[y] \in Int
            BY <2>1, <3>5
        <3> HIDE DEF Sum, a
        <3> QED BY <3>6, <3>7
    <2> QED BY <2>2, <2>3
<1>2. S \in A
    <2> HIDE DEF A
    <2> QED BY <1>1, SubsetInduction
<1> QED BY <1>2

\* The sum of a function follows a change of one of its values.
LEMMA SumUpdate ==
    ASSUME NEW S, IsFiniteSet(S), NEW f, NEW g, DOMAIN f = S, DOMAIN g = S, NEW e \in S,
           \A x \in S : f[x] \in Int /\ g[x] \in Int, \A x \in S \ {e} : g[x] = f[x]
    PROVE  SumFunction(f) \in Int /\ SumFunction(g) = SumFunction(f) - f[e] + g[e]
<1>1. IsFiniteSet(S \ {e})
    BY FS_Subset
<1>2. SumFunctionOnSet(f, S \ {e}) = SumFunctionOnSet(g, S \ {e}) /\ SumFunctionOnSet(f, S \ {e}) \in Int
    BY <1>1, SumSame, SumType
<1>3. /\ SumFunctionOnSet(f, S) = f[e] + SumFunctionOnSet(f, S \ {e})
      /\ SumFunctionOnSet(g, S) = g[e] + SumFunctionOnSet(g, S \ {e})
    BY SumRemove
<1> QED BY <1>2, <1>3 DEF SumFunction

\* The sum over a part of a set, as a sum over the set.
LEMMA SumPart ==
    ASSUME NEW S, IsFiniteSet(S), NEW T \in SUBSET S, NEW f, NEW g,
           \A x \in T : g[x] = f[x] /\ f[x] \in Int, \A x \in S \ T : g[x] = 0
    PROVE  SumFunctionOnSet(g, S) = SumFunctionOnSet(f, T)
<1> DEFINE Sum(h, U) == SumFunctionOnSet(h, U)
           A == {U \in SUBSET S : Sum(g, U) = Sum(f, U \cap T)}
<1>1. \A U \in SUBSET S : (\A V \in SUBSET U : V # U => V \in A) => U \in A
    <2> SUFFICES ASSUME NEW U \in SUBSET S, \A V \in SUBSET U : V # U => V \in A
                 PROVE  Sum(g, U) = Sum(f, U \cap T)
        OBVIOUS
    <2>1. IsFiniteSet(U) /\ IsFiniteSet(U \cap T)
        BY FS_Subset
    <2>2. CASE U = {}
        <3>1. U \cap T = {}
            BY <2>2
        <3> QED BY <2>1, <2>2, <3>1, SumPicks
    <2>3. CASE U # {}
        <3> DEFINE x == Pick(U)
        <3>1. x \in U /\ Sum(g, U) = g[x] + Sum(g, U \ {x})
            BY <2>1, <2>3, PickIn, SumPicks
        <3> HIDE DEF x
        <3>2. Sum(g, U \ {x}) = Sum(f, (U \ {x}) \cap T)
            BY <3>1
        <3>3. CASE x \in T
            <4>1. (U \ {x}) \cap T = (U \cap T) \ {x} /\ x \in U \cap T /\ \A y \in U \cap T : f[y] \in Int
                BY <3>1, <3>3
            <4>2. Sum(f, U \cap T) = f[x] + Sum(f, (U \cap T) \ {x})
                BY <2>1, <4>1, SumRemove
            <4>3. g[x] = f[x]
                BY <3>3
            <4> HIDE DEF Sum
            <4> QED BY <3>1, <3>2, <4>1, <4>2, <4>3
        <3>4. CASE x \notin T
            <4>1. (U \ {x}) \cap T = U \cap T /\ g[x] = 0
                BY <3>1, <3>4
            <4>2. \A y \in U \cap T : f[y] \in Int
                OBVIOUS
            <4>3. Sum(f, U \cap T) \in Int
                BY <2>1, <4>2, SumType
            <4> HIDE DEF Sum
            <4> QED BY <3>1, <3>2, <4>1, <4>3
        <3> QED BY <3>3, <3>4
    <2> QED BY <2>2, <2>3
<1>2. S \in A
    <2> HIDE DEF A
    <2> QED BY <1>1, SubsetInduction
<1>3. S \cap T = T
    OBVIOUS
<1> QED BY <1>2, <1>3

----------------------------------------------------------------------------
(* Interest and fees *)

\* A product of natural numbers is one, and a smaller factor makes a smaller product.
LEMMA Products ==
    ASSUME NEW a \in Nat, NEW b \in Nat, NEW c \in Nat, a <= b
    PROVE  a * c \in Nat /\ b * c \in Nat /\ a * c <= b * c
OBVIOUS

\* Quotient and remainder.
LEMMA Quotients ==
    ASSUME NEW n \in Nat, NEW d \in Nat \ {0}
    PROVE  n \div d \in Nat /\ n % d \in Nat /\ n % d < d /\ n = d * (n \div d) + (n % d)
OBVIOUS

\* A quotient is at least m if the dividend is at least m times the divisor.
LEMMA QuotientAtLeast ==
    ASSUME NEW n \in Nat, NEW d \in Nat \ {0}, NEW m \in Nat, d * m <= n
    PROVE  m <= n \div d
<1> DEFINE q == n \div d
<1>1. q \in Nat /\ n < d * q + d
    BY Quotients
<1> HIDE DEF q
<1> SUFFICES ASSUME q < m PROVE FALSE
    BY <1>1 DEF q
<1>2. q + 1 <= m
    BY <1>1
<1>3. (q + 1) * d <= m * d
    BY <1>1, <1>2, Products
<1>4. (q + 1) * d = d * q + d /\ m * d = d * m
    BY <1>1
<1>5. d * q \in Nat /\ d * m \in Nat
    BY <1>1
<1> QED BY <1>1, <1>3, <1>4, <1>5

\* Quotients are monotonic.
LEMMA QuotientsGrow ==
    ASSUME NEW a \in Nat, NEW b \in Nat, NEW d \in Nat \ {0}, a <= b
    PROVE  a \div d <= b \div d
<1> DEFINE q == a \div d
<1>1. q \in Nat /\ d * q <= a
    BY Quotients
<1> HIDE DEF q
<1>2. d * q \in Nat /\ d * q <= b
    BY <1>1
<1> QED BY <1>1, <1>2, QuotientAtLeast DEF q

\* Rounding half to even is monotonic.
LEMMA ChopGrows ==
    ASSUME NEW a \in Nat, NEW b \in Nat, a <= b
    PROVE  Chop(a) <= Chop(b)
<1> DEFINE P == Precision
           p == a \div P
           q == b \div P
           r == a % P
           s == b % P
<1>1. P \in Nat \ {0}
    BY PoolAssumption
<1>2. p \in Nat /\ q \in Nat /\ r \in Nat /\ s \in Nat /\ a = P * p + r /\ b = P * q + s
    BY <1>1, Quotients
<1>3. p <= q
    BY <1>1, QuotientsGrow
<1>4. /\ Chop(a) = IF 2 * r < P \/ (2 * r = P /\ p % 2 = 0) THEN p ELSE p + 1
      /\ Chop(b) = IF 2 * s < P \/ (2 * s = P /\ q % 2 = 0) THEN q ELSE q + 1
    BY DEF Chop
<1> HIDE DEF P, p, q, r, s
<1>5. CASE p = q
    <2>1. P * p \in Nat
        BY <1>1, <1>2
    <2>2. r <= s
        BY <1>2, <1>5, <2>1
    <2> DEFINE even == p % 2 = 0
    <2>3. /\ Chop(a) = IF 2 * r < P \/ (2 * r = P /\ even) THEN p ELSE p + 1
          /\ Chop(b) = IF 2 * s < P \/ (2 * s = P /\ even) THEN p ELSE p + 1
        BY <1>4, <1>5
    <2> HIDE DEF even
    <2> QED BY <1>1, <1>2, <2>2, <2>3
<1>6. CASE p < q
    <2>1. Chop(a) <= p + 1
        BY <1>2, <1>4
    <2>2. q <= Chop(b)
        BY <1>2, <1>4
    <2>3. Chop(a) \in Nat /\ Chop(b) \in Nat
        BY ChopType
    <2> QED BY <1>2, <1>6, <2>1, <2>2, <2>3
<1> QED BY <1>2, <1>3, <1>5, <1>6

\* A whole number is not rounded.
LEMMA ChopWhole == ASSUME NEW n \in Nat PROVE Chop(n * Precision) = n
<1> DEFINE x == n * Precision
<1>1. Precision \in Nat \ {0} /\ x \in Nat
    BY PoolAssumption
<1>2. x \div Precision = n /\ x % Precision = 0
    BY <1>1
<1> HIDE DEF x
<1>3. Chop(x) = n
    BY <1>1, <1>2 DEF Chop
<1> QED BY <1>3 DEF x

\* An index never falls.
LEMMA IndexRises ==
    ASSUME NEW i \in Nat, NEW r \in Nat
    PROVE  i <= DecMul(i, Precision + r)
<1>1. Precision \in Nat \ {0}
    BY PoolAssumption
<1>2. i * Precision \in Nat /\ i * (Precision + r) \in Nat /\ i * Precision <= i * (Precision + r)
    <2>1. i * r \in Nat /\ i * (Precision + r) = i * Precision + i * r /\ i * Precision \in Nat
        BY <1>1
    <2> QED BY <2>1
<1> QED BY <1>2, ChopGrows, ChopWhole DEF DecMul

\* GetInterest of a loan record.
Interest(x, i) ==
    TruncateInt(DecQuo(DecMul(ToLegacyDec(x.amount), i), x.startBorrowIndex)) - x.amount

\* An amount times a decimal is exact.
LEMMA AmountTimes ==
    ASSUME NEW a \in Nat, NEW i \in Nat
    PROVE  DecMul(ToLegacyDec(a), i) = a * i /\ a * i \in Nat
<1>1. Precision \in Nat \ {0} /\ a * i \in Nat
    BY PoolAssumption
<1>2. ToLegacyDec(a) * i = (a * i) * Precision
    BY <1>1 DEF ToLegacyDec
<1> QED BY <1>1, <1>2, ChopWhole DEF DecMul

\* What an amount has grown to.
LEMMA Grown ==
    ASSUME NEW a \in Nat, NEW i \in Nat, NEW s \in Nat \ {0}
    PROVE  /\ DecMul(ToLegacyDec(a), i) = a * i /\ a * i \in Nat
           /\ (a * i * Precision * Precision) \in Nat
           /\ ((a * i * Precision * Precision) \div s) \in Nat
           /\ TruncateInt(DecQuo(a * i, s)) \in Nat
<1>1. Precision \in Nat \ {0} /\ a * i \in Nat
    BY PoolAssumption
<1>2. DecMul(ToLegacyDec(a), i) = a * i
    BY AmountTimes
<1> DEFINE x == a * i
<1>3. x \in Nat
    BY <1>1
<1> HIDE DEF x
<1>4. x * Precision \in Nat /\ (x * Precision) * Precision \in Nat
    BY <1>1, <1>3
<1>5. ((x * Precision) * Precision) \div s \in Nat
    BY <1>4, Quotients
<1>6. DecQuo(x, s) \in Nat
    BY <1>5, ChopType DEF DecQuo
<1>7. TruncateInt(DecQuo(x, s)) \in Nat
    BY <1>1, <1>6, Quotients DEF TruncateInt
<1> QED BY <1>1, <1>2, <1>4, <1>5, <1>7 DEF x

\* Interest is not negative as long as the index is not below the one at the start.
LEMMA InterestNotNegative ==
    ASSUME NEW a \in Nat, NEW s \in Nat \ {0}, NEW i \in Nat, s <= i
    PROVE  a <= TruncateInt(DecQuo(a * i, s))
<1> DEFINE P == Precision
           n == a * i * P * P
           m == a * P * P
           q == n \div s
<1>1. P \in Nat \ {0}
    BY PoolAssumption
<1>2. n \in Nat /\ q \in Nat
    BY Grown
<1>3. m \in Nat /\ a * P \in Nat
    BY <1>1
<1>4. s * m <= n
    <2>1. s * m <= i * m
        BY <1>3, Products
    <2>2. i * m = n
        BY <1>1
    <2> QED BY <2>1, <2>2
<1> HIDE DEF n
<1>5. m <= q
    <2> HIDE DEF m
    <2> QED BY <1>2, <1>3, <1>4, QuotientAtLeast
<1>6. a * P <= Chop(q)
    <2>1. Chop(m) = a * P
        BY <1>3, ChopWhole DEF P
    <2> HIDE DEF m, q
    <2> QED BY <1>2, <1>3, <1>5, <2>1, ChopGrows
<1>7. Chop(q) \in Nat
    BY <1>2, ChopType
<1> HIDE DEF q
<1>8. P * a <= Chop(q)
    BY <1>1, <1>6
<1>9. a <= Chop(q) \div P
    BY <1>1, <1>7, <1>8, QuotientAtLeast
<1> QED BY <1>9 DEF TruncateInt, DecQuo, n, q, P

\* Interest grows with the index.
LEMMA InterestGrows ==
    ASSUME NEW a \in Nat, NEW s \in Nat \ {0}, NEW i \in Nat, NEW j \in Nat, i <= j
    PROVE  TruncateInt(DecQuo(a * i, s)) <= TruncateInt(DecQuo(a * j, s))
<1> DEFINE P == Precision
           n(k) == (a * k * P * P) \div s
<1>1. P \in Nat \ {0}
    BY PoolAssumption
<1>2. n(i) \in Nat /\ n(j) \in Nat
    BY Grown
<1>3. a * i * P * P <= a * j * P * P
    <2>1. a * P * P \in Nat
        BY <1>1
    <2>2. i * (a * P * P) <= j * (a * P * P)
        BY <2>1, Products
    <2>3. i * (a * P * P) = a * i * P * P /\ j * (a * P * P) = a * j * P * P
        BY <1>1
    <2> QED BY <2>2, <2>3
<1>4. n(i) <= n(j)
    <2>1. a * i * P * P \in Nat /\ a * j * P * P \in Nat
        BY Grown
    <2> QED BY <1>3, <2>1, QuotientsGrow
<1> HIDE DEF n
<1>5. Chop(n(i)) <= Chop(n(j)) /\ Chop(n(i)) \in Nat /\ Chop(n(j)) \in Nat
    BY <1>2, <1>4, ChopGrows, ChopType
<1>6. Chop(n(i)) \div P <= Chop(n(j)) \div P
    BY <1>1, <1>5, QuotientsGrow
<1> QED BY <1>6 DEF TruncateInt, DecQuo, n, P

\* A part of a natural number, by a factor of at most one, is between zero and it.
LEMMA PartOf ==
    ASSUME NEW n \in Nat, NEW f \in 0..Precision
    PROVE  TruncateInt(DecMul(ToLegacyDec(n), f)) \in 0..n
<1>1. Precision \in Nat \ {0} /\ f \in Nat /\ f <= Precision
    BY PoolAssumption
<1>2. n * f \in Nat /\ ToLegacyDec(n) * f = (n * f) * Precision
    BY <1>1 DEF ToLegacyDec
<1>3. DecMul(ToLegacyDec(n), f) = n * f
    BY <1>2, ChopWhole DEF DecMul
<1>4. f * n <= Precision * n
    BY <1>1, Products
<1>5. n * f = f * n /\ (Precision * n) \div Precision = n /\ Precision * n \in Nat
    BY <1>1
<1>6. (n * f) \div Precision <= n /\ (n * f) \div Precision \in Nat
    <2> DEFINE x == n * f
               y == Precision * n
    <2>1. x \in Nat /\ y \in Nat /\ x <= y /\ y \div Precision = n
        BY <1>2, <1>4, <1>5
    <2> HIDE DEF x, y
    <2>2. x \div Precision <= n /\ x \div Precision \in Nat
        BY <1>1, <2>1, QuotientsGrow, Quotients
    <2> QED BY <2>2 DEF x
<1> QED BY <1>3, <1>6 DEF TruncateInt

\* The fees of an interest are parts of it.
LEMMA FeesArePart ==
    ASSUME NEW n \in Nat, NEW l
    PROVE  GetProtocolFee(n) \in 0..n /\ ActualProtocolFee(l, GetProtocolFee(n)) \in Nat
<1>1. ReserveFactor \in 0..Precision /\ ReferralFeeFactor \in 0..Precision
    BY PoolAssumption
<1>2. GetProtocolFee(n) \in 0..n
    BY <1>1, PartOf DEF GetProtocolFee
<1> DEFINE fee == GetProtocolFee(n)
<1>3. fee \in Nat
    BY <1>2
<1> HIDE DEF fee
<1>4. TruncateInt(DecMul(ToLegacyDec(fee), ReferralFeeFactor)) \in 0..fee
    BY <1>1, <1>3, PartOf
<1>5. ActualProtocolFee(l, fee) \in Nat
    BY <1>3, <1>4 DEF ActualProtocolFee
<1> QED BY <1>2, <1>5 DEF fee

----------------------------------------------------------------------------
(* Loans and the books *)

\* What a loan contributes to the escrow, to the account of the auctions and to the borrowed
\* amount, as principal that is due or that was lost.
Escrowed(x) == IF x.status = "Repaid" THEN x.paid ELSE 0
Auctioned(x) == IF x.status = "Liquidated" THEN x.paid ELSE 0
Lent(x) == IF x.status \in {"Open", "Repaid", "Liquidated"} THEN x.amount ELSE 0
Lost(x) == IF x.status = "Settled" THEN x.amount - NonNegative(x.paid - (x.debt - x.amount)) ELSE 0

EscrowedSum == SumFunction([l \in Loan |-> Escrowed(loan[l])])
AuctionedSum == SumFunction([l \in Loan |-> Auctioned(loan[l])])
LentSum == SumFunction([l \in Loan |-> Lent(loan[l])])
LostSum == SumFunction([l \in Loan |-> Lost(loan[l])])

\* Amounts of a loan of a tranche with borrow index i: interest is owed from the start of the
\* loan, a repayment covers the principal, and the debt of a liquidation is not overpaid.
GoodLoan(x, i) ==
    /\ x.status \in LoanStatus
    /\ x.amount \in Nat /\ x.startBorrowIndex \in Nat \ {0}
    /\ x.paid \in Nat /\ x.debt \in Nat /\ x.accrued \in Nat
    /\ x.status \in {"Open", "Liquidated"} => x.startBorrowIndex <= i
    /\ x.status = "Open" => x.paid = 0
    /\ x.status = "Repaid" => x.amount <= x.paid
    /\ x.status \in {"Liquidated", "Settled"} => x.paid <= x.debt /\ x.amount <= x.debt
    /\ x.status = "Liquidated" => x.debt - x.amount <= Interest(x, i)

PoolType == [status: {"INACTIVE", "ACTIVE", "PAUSED"}, paused: BOOLEAN, supply: Nat,
             availableAmount: Nat, borrowedAmount: Nat, totalBorrowed: Nat,
             reserveAmount: Nat, totalReserve: Nat, totalYTokens: Nat]
TrancheType == [borrowIndex: Nat \ {0}, totalBorrowed: Nat, totalReserve: Nat]
BankType == [lending: Nat, escrow: Nat, liquidation: Nat]

LoansAreGood == \A l \in Loan : GoodLoan(loan[l], tranche[loan[l].maturity].borrowIndex)

\* The parts of LoansAreBooked by loan, and the shares, which bound what may be withdrawn.
BooksInv ==
    /\ height \in 0..MaxHeight
    /\ pool \in PoolType /\ bank \in BankType /\ shares \in [Lender -> Nat]
    /\ IsFiniteSet(DOMAIN tranche) /\ \A m \in DOMAIN tranche : tranche[m] \in TrancheType
    /\ LoansAreGood
    /\ bank.escrow = EscrowedSum /\ bank.liquidation = AuctionedSum
    /\ pool.borrowedAmount = LentSum + LostSum
    /\ pool.totalYTokens = SumFunction(shares)

\* Contributions are not negative.
LEMMA ContributionType ==
    ASSUME NEW x, NEW i, GoodLoan(x, i)
    PROVE  Escrowed(x) \in Nat /\ Auctioned(x) \in Nat /\ Lent(x) \in Nat /\ Lost(x) \in Nat
<1>1. Escrowed(x) \in Nat /\ Auctioned(x) \in Nat /\ Lent(x) \in Nat
    BY DEF GoodLoan, Escrowed, Auctioned, Lent
<1>2. Lost(x) \in Nat
    BY DEF GoodLoan, Lost, NonNegative
<1> QED BY <1>1, <1>2

\* A loan stays good when the index rises.
LEMMA RisingIndex ==
    ASSUME NEW x, NEW i \in Nat, NEW j \in Nat, i <= j, GoodLoan(x, i)
    PROVE  GoodLoan(x, j)
<1>1. x.amount \in Nat /\ x.startBorrowIndex \in Nat \ {0} /\ x.debt \in Nat
    BY DEF GoodLoan
<1>2. Interest(x, i) <= Interest(x, j) /\ Interest(x, i) \in Int /\ Interest(x, j) \in Int
    <2>1. /\ Interest(x, i) = TruncateInt(DecQuo(x.amount * i, x.startBorrowIndex)) - x.amount
          /\ Interest(x, j) = TruncateInt(DecQuo(x.amount * j, x.startBorrowIndex)) - x.amount
          /\ TruncateInt(DecQuo(x.amount * i, x.startBorrowIndex)) \in Nat
          /\ TruncateInt(DecQuo(x.amount * j, x.startBorrowIndex)) \in Nat
        BY <1>1, Grown DEF Interest
    <2>2. TruncateInt(DecQuo(x.amount * i, x.startBorrowIndex))
            <= TruncateInt(DecQuo(x.amount * j, x.startBorrowIndex))
        BY <1>1, InterestGrows
    <2> QED BY <1>1, <2>1, <2>2
<1> HIDE DEF Interest
<1>3. x.status = "Liquidated" => x.debt - x.amount <= Interest(x, j)
    BY <1>1, <1>2 DEF GoodLoan
<1>4. x.status \in {"Open", "Liquidated"} => x.startBorrowIndex <= j
    BY <1>1 DEF GoodLoan
<1> QED BY <1>3, <1>4 DEF GoodLoan

\* Indexes do not fall and tranches stay.
IndexesRise ==
    /\ DOMAIN tranche \subseteq DOMAIN tranche'
    /\ \A m \in DOMAIN tranche :
          tranche'[m].borrowIndex \in Nat /\ tranche[m].borrowIndex <= tranche'[m].borrowIndex

\* A loan that is left alone stays good.
LEMMA LoanKept ==
    ASSUME IInv, BooksInv, IndexesRise, NEW k \in Loan
    PROVE  GoodLoan(loan[k], tranche'[loan[k].maturity].borrowIndex)
<1> DEFINE x == loan[k]
           m == x.maturity
           i == tranche[m].borrowIndex
           j == tranche'[m].borrowIndex
<1>1. GoodLoan(x, i)
    BY DEF BooksInv, LoansAreGood
<1>2. CASE x.status = "NONE"
    <2> HIDE DEF x, i, j
    <2>1. GoodLoan(x, j)
        BY <1>1, <1>2 DEF GoodLoan
    <2> QED BY <2>1 DEF x, j
<1>3. CASE x.status # "NONE"
    <2>1. m \in DOMAIN tranche
        BY <1>3 DEF IInv, LoanInv
    <2>2. i \in Nat /\ j \in Nat /\ i <= j
        BY <2>1 DEF IInv, TrancheInv, IndexesRise
    <2> HIDE DEF x, i, j
    <2>3. GoodLoan(x, j)
        BY <1>1, <2>2, RisingIndex
    <2> QED BY <2>3 DEF x, j
<1> QED BY <1>2, <1>3

\* The sum over the loans follows one of them.
LEMMA SumOne ==
    ASSUME NEW f \in [Loan -> Nat], NEW g \in [Loan -> Nat], NEW l \in Loan,
           \A k \in Loan \ {l} : g[k] = f[k]
    PROVE  SumFunction(f) \in Nat /\ SumFunction(g) \in Nat /\ SumFunction(g) = SumFunction(f) - f[l] + g[l]
<1>1. IsFiniteSet(Loan) /\ DOMAIN f = Loan /\ DOMAIN g = Loan
    BY PoolAssumption
<1>2. \A x \in Loan : f[x] \in Nat /\ g[x] \in Nat /\ f[x] \in Int /\ g[x] \in Int
    OBVIOUS
<1>3. SumFunction(f) \in Nat /\ SumFunction(g) \in Nat
    BY <1>1, <1>2, SumType DEF SumFunction
<1>4. SumFunction(g) = SumFunction(f) - f[l] + g[l]
    BY <1>1, <1>2, SumUpdate
<1> QED BY <1>3, <1>4

\* The contributions after a step that changes loan l to n.
Follows(l, n) ==
    /\ EscrowedSum' \in Nat /\ EscrowedSum' = EscrowedSum - Escrowed(loan[l]) + Escrowed(n)
    /\ AuctionedSum' \in Nat /\ AuctionedSum' = AuctionedSum - Auctioned(loan[l]) + Auctioned(n)
    /\ LentSum' \in Nat /\ LentSum' = LentSum - Lent(loan[l]) + Lent(n)
    /\ LostSum' \in Nat /\ LostSum' = LostSum - Lost(loan[l]) + Lost(n)
    /\ EscrowedSum \in Nat /\ AuctionedSum \in Nat /\ LentSum \in Nat /\ LostSum \in Nat

LEMMA OneLoan ==
    ASSUME IInv, BooksInv, IndexesRise, NEW l \in Loan, NEW n, loan' = [loan EXCEPT ![l] = n],
           GoodLoan(n, tranche'[n.maturity].borrowIndex)
    PROVE  LoansAreGood' /\ Follows(l, n)
<1>1. \A k \in Loan : loan'[k] = IF k = l THEN n ELSE loan[k]
    BY DEF IInv, LoanInv
<1>2. LoansAreGood'
    <2>1. ASSUME NEW k \in Loan PROVE GoodLoan(loan'[k], tranche'[loan'[k].maturity].borrowIndex)
        BY <1>1, LoanKept
    <2> QED BY <2>1 DEF LoansAreGood
<1>3. \A k \in Loan : /\ Escrowed(loan[k]) \in Nat /\ Auctioned(loan[k]) \in Nat
                      /\ Lent(loan[k]) \in Nat /\ Lost(loan[k]) \in Nat
    BY ContributionType DEF BooksInv, LoansAreGood
<1>4. Escrowed(n) \in Nat /\ Auctioned(n) \in Nat /\ Lent(n) \in Nat /\ Lost(n) \in Nat
    BY ContributionType
<1>5. EscrowedSum \in Nat /\ EscrowedSum' \in Nat /\ EscrowedSum' = EscrowedSum - Escrowed(loan[l]) + Escrowed(n)
    <2> DEFINE f == [k \in Loan |-> Escrowed(loan[k])]
               g == [k \in Loan |-> Escrowed(loan'[k])]
    <2>1. f \in [Loan -> Nat] /\ g \in [Loan -> Nat]
        BY <1>1, <1>3, <1>4
    <2>2. f[l] = Escrowed(loan[l]) /\ g[l] = Escrowed(n) /\ \A k \in Loan \ {l} : g[k] = f[k]
        BY <1>1
    <2>3. EscrowedSum = SumFunction(f) /\ EscrowedSum' = SumFunction(g)
        BY DEF EscrowedSum
    <2> HIDE DEF f, g
    <2> QED BY <2>1, <2>2, <2>3, SumOne
<1>6. AuctionedSum \in Nat /\ AuctionedSum' \in Nat /\ AuctionedSum' = AuctionedSum - Auctioned(loan[l]) + Auctioned(n)
    <2> DEFINE f == [k \in Loan |-> Auctioned(loan[k])]
               g == [k \in Loan |-> Auctioned(loan'[k])]
    <2>1. f \in [Loan -> Nat] /\ g \in [Loan -> Nat]
        BY <1>1, <1>3, <1>4
    <2>2. f[l] = Auctioned(loan[l]) /\ g[l] = Auctioned(n) /\ \A k \in Loan \ {l} : g[k] = f[k]
        BY <1>1
    <2>3. AuctionedSum = SumFunction(f) /\ AuctionedSum' = SumFunction(g)
        BY DEF AuctionedSum
    <2> HIDE DEF f, g
    <2> QED BY <2>1, <2>2, <2>3, SumOne
<1>7. LentSum \in Nat /\ LentSum' \in Nat /\ LentSum' = LentSum - Lent(loan[l]) + Lent(n)
    <2> DEFINE f == [k \in Loan |-> Lent(loan[k])]
               g == [k \in Loan |-> Lent(loan'[k])]
    <2>1. f \in [Loan -> Nat] /\ g \in [Loan -> Nat]
        BY <1>1, <1>3, <1>4
    <2>2. f[l] = Lent(loan[l]) /\ g[l] = Lent(n) /\ \A k \in Loan \ {l} : g[k] = f[k]
        BY <1>1
    <2>3. LentSum = SumFunction(f) /\ LentSum' = SumFunction(g)
        BY DEF LentSum
    <2> HIDE DEF f, g
    <2> QED BY <2>1, <2>2, <2>3, SumOne
<1>8. LostSum \in Nat /\ LostSum' \in Nat /\ LostSum' = LostSum - Lost(loan[l]) + Lost(n)
    <2> DEFINE f == [k \in Loan |-> Lost(loan[k])]
               g == [k \in Loan |-> Lost(loan'[k])]
    <2>1. f \in [Loan -> Nat] /\ g \in [Loan -> Nat]
        BY <1>1, <1>3, <1>4
    <2>2. f[l] = Lost(loan[l]) /\ g[l] = Lost(n) /\ \A k \in Loan \ {l} : g[k] = f[k]
        BY <1>1
    <2>3. LostSum = SumFunction(f) /\ LostSum' = SumFunction(g)
        BY DEF LostSum
    <2> HIDE DEF f, g
    <2> QED BY <2>1, <2>2, <2>3, SumOne
<1> QED BY <1>2, <1>5, <1>6, <1>7, <1>8 DEF Follows

\* Loans that nothing is done to.
LEMMA NoLoanChanges ==
    ASSUME IInv, BooksInv, IndexesRise, UNCHANGED loan
    PROVE  /\ LoansAreGood'
           /\ EscrowedSum' = EscrowedSum /\ AuctionedSum' = AuctionedSum
           /\ LentSum' = LentSum /\ LostSum' = LostSum
<1>1. LoansAreGood'
    <2>1. ASSUME NEW k \in Loan PROVE GoodLoan(loan'[k], tranche'[loan'[k].maturity].borrowIndex)
        BY LoanKept
    <2> QED BY <2>1 DEF LoansAreGood
<1> QED BY <1>1 DEF EscrowedSum, AuctionedSum, LentSum, LostSum

\* The shares of one lender change.
LEMMA SharesFollow ==
    ASSUME BooksInv, NEW u \in Lender, NEW y \in Nat, shares' = [shares EXCEPT ![u] = y]
    PROVE  /\ shares' \in [Lender -> Nat] /\ SumFunction(shares') \in Nat
           /\ SumFunction(shares') = SumFunction(shares) - shares[u] + y
<1>1. shares \in [Lender -> Nat] /\ IsFiniteSet(Lender)
    BY PoolAssumption DEF BooksInv
<1>2. shares' \in [Lender -> Nat] /\ shares'[u] = y
      /\ \A v \in Lender \ {u} : shares'[v] = shares[v]
    BY <1>1
<1>3. /\ DOMAIN shares = Lender /\ DOMAIN shares' = Lender
      /\ \A v \in Lender : shares[v] \in Int /\ shares'[v] \in Int /\ shares'[v] \in Nat
    BY <1>1, <1>2
<1>4. SumFunction(shares) \in Int /\ SumFunction(shares') = SumFunction(shares) - shares[u] + shares'[u]
    <2> DEFINE f == shares
               g == shares'
    <2>1. /\ DOMAIN f = Lender /\ DOMAIN g = Lender /\ \A v \in Lender : f[v] \in Int /\ g[v] \in Int
          /\ \A v \in Lender \ {u} : g[v] = f[v]
        BY <1>2, <1>3
    <2> HIDE DEF f, g
    <2>2. SumFunction(f) \in Int /\ SumFunction(g) = SumFunction(f) - f[u] + g[u]
        BY <1>1, <2>1, SumUpdate
    <2> QED BY <2>2 DEF f, g
<1>5. SumFunction(shares') \in Nat
    BY <1>1, <1>3, SumType DEF SumFunction
<1> QED BY <1>2, <1>3, <1>4, <1>5

\* Truncation toward zero: a quotient of a number that is not negative has the sign of the divisor.
LEMMA Truncations ==
    ASSUME NEW n \in Nat, NEW b \in Int, b # 0
    PROVE  /\ Quo(n, b) \in Int
           /\ b > 0 => Quo(n, b) = n \div b
           /\ b < 0 => Quo(n, b) <= 0
<1>1. CASE b > 0
    BY <1>1, Quotients DEF Quo, Magnitude
<1>2. CASE b < 0
    <2>1. -b \in Nat \ {0}
        BY <1>2
    <2>2. n \div (-b) \in Nat
        BY <2>1, Quotients
    <2>3. Quo(n, b) = -(n \div (-b))
        BY <1>2 DEF Quo, Magnitude
    <2> QED BY <1>2, <2>2, <2>3
<1> QED BY <1>1, <1>2

\* And the quotient of a negative number by a positive one is not positive.
LEMMA NegativeTruncations ==
    ASSUME NEW n \in Int, n < 0, NEW b \in Nat \ {0}
    PROVE  Quo(n, b) \in Int /\ Quo(n, b) <= 0
<1>1. -n \in Nat
    OBVIOUS
<1>2. (-n) \div b \in Nat
    BY <1>1, Quotients
<1> QED BY <1>2 DEF Quo, Magnitude

LEMMA AddLiquidityBooks ==
    ASSUME IInv, BooksInv, NEW u \in Lender, NEW a \in Amount, AddLiquidity(u, a)
    PROVE  BooksInv'
<1> DEFINE y == IF pool.supply = 0 THEN a ELSE GetYTokenAmount(a)
<1>1. a \in Nat /\ pool \in PoolType /\ bank \in BankType /\ shares \in [Lender -> Nat]
    BY PoolAssumption DEF BooksInv
<1>2. y \in Nat
    <2>1. CASE pool.supply = 0
        BY <1>1, <2>1
    <2>2. CASE pool.supply # 0
        <3>1. Claim \in Int /\ Claim # 0
            BY <1>1, <2>2 DEF AddLiquidity, PoolType, Claim
        <3>2. a * pool.totalYTokens \in Nat
            BY <1>1 DEF PoolType
        <3> HIDE DEF Claim
        <3>3. Quo(a * pool.totalYTokens, Claim) \in Int
            BY <3>1, <3>2, Truncations
        <3>4. y \in Int
            BY <2>2, <3>3 DEF GetYTokenAmount
        <3>5. y >= 0
            BY DEF AddLiquidity
        <3> HIDE DEF y
        <3> QED BY <3>4, <3>5
    <2> QED BY <2>1, <2>2
<1> DEFINE status == IF pool.supply = 0 THEN "ACTIVE" ELSE pool.status
<1>3. /\ shares' = [shares EXCEPT ![u] = @ + y] /\ bank' = [bank EXCEPT !.lending = @ + a]
      /\ UNCHANGED <<height, tranche, loan>>
    BY DEF AddLiquidity
<1>4. pool' \in PoolType /\ pool'.borrowedAmount = pool.borrowedAmount
      /\ pool'.totalYTokens = pool.totalYTokens + y
    <2>1. pool' = [pool EXCEPT !.status = status, !.supply = pool.supply + a,
                       !.availableAmount = pool.availableAmount + a, !.totalYTokens = pool.totalYTokens + y]
        BY DEF AddLiquidity
    <2>2. status \in {"INACTIVE", "ACTIVE", "PAUSED"}
        BY <1>1 DEF PoolType
    <2> HIDE DEF y, status
    <2>3. pool.supply + a \in Nat /\ pool.availableAmount + a \in Nat /\ pool.totalYTokens + y \in Nat
        BY <1>1, <1>2 DEF PoolType
    <2> QED BY <1>1, <2>1, <2>2, <2>3 DEF PoolType
<1> HIDE DEF y
<1>5. bank' \in BankType /\ bank'.escrow = bank.escrow /\ bank'.liquidation = bank.liquidation
    BY <1>1, <1>3 DEF BankType
<1>6. shares' \in [Lender -> Nat] /\ SumFunction(shares') = SumFunction(shares) + y
    <2> DEFINE v == shares[u] + y
    <2>1. v \in Nat /\ shares[u] \in Nat /\ shares' = [shares EXCEPT ![u] = v]
        BY <1>1, <1>2, <1>3
    <2>2. SumFunction(shares) = pool.totalYTokens /\ pool.totalYTokens \in Nat
        BY <1>1 DEF BooksInv, PoolType
    <2>3. shares' \in [Lender -> Nat] /\ SumFunction(shares') = SumFunction(shares) - shares[u] + v
        <3> HIDE DEF v
        <3> QED BY <2>1, SharesFollow
    <2> QED BY <1>2, <2>1, <2>2, <2>3
<1>7. IndexesRise
    BY <1>3 DEF IInv, TrancheInv, IndexesRise
<1>8. /\ LoansAreGood' /\ EscrowedSum' = EscrowedSum /\ AuctionedSum' = AuctionedSum
      /\ LentSum' = LentSum /\ LostSum' = LostSum
    BY <1>3, <1>7, NoLoanChanges
<1> QED BY <1>3, <1>4, <1>5, <1>6, <1>8 DEF BooksInv

LEMMA RemoveLiquidityBooks ==
    ASSUME IInv, BooksInv, NEW u \in Lender, NEW y, RemoveLiquidity(u, y)
    PROVE  BooksInv'
<1>1. pool \in PoolType /\ bank \in BankType /\ shares \in [Lender -> Nat]
      /\ pool.supply = pool.availableAmount + pool.borrowedAmount /\ bank.lending = pool.availableAmount
    BY DEF BooksInv, IInv, SupplyIsBacked, AvailableIsHeld
<1>2. y \in 1..shares[u] /\ shares' = [shares EXCEPT ![u] = @ - y] /\ UNCHANGED <<height, tranche, loan>>
    BY DEF RemoveLiquidity
<1>3. PICK w \in 0..pool.availableAmount :
          /\ pool' = [pool EXCEPT !.supply = @ - w, !.availableAmount = @ - w, !.totalYTokens = @ - y]
          /\ bank' = [bank EXCEPT !.lending = @ - w]
    BY DEF RemoveLiquidity
<1>4. y \in Int /\ shares[u] \in Nat /\ shares[u] - y \in Nat /\ w \in Nat /\ w <= pool.availableAmount
    BY <1>1, <1>2
<1>5. /\ shares' \in [Lender -> Nat] /\ SumFunction(shares') \in Nat
      /\ SumFunction(shares') = SumFunction(shares) - y
    <2> DEFINE v == shares[u] - y
    <2>1. v \in Nat /\ shares' = [shares EXCEPT ![u] = v]
        BY <1>2, <1>4
    <2>2. /\ shares' \in [Lender -> Nat] /\ SumFunction(shares') \in Nat
          /\ SumFunction(shares') = SumFunction(shares) - shares[u] + v
        <3> HIDE DEF v
        <3> QED BY <2>1, SharesFollow
    <2>3. SumFunction(shares) = pool.totalYTokens /\ pool.totalYTokens \in Nat
        BY <1>1 DEF BooksInv, PoolType
    <2> QED BY <1>4, <2>2, <2>3
<1>6. pool.totalYTokens - y \in Nat
    BY <1>5 DEF BooksInv
<1>7. pool' \in PoolType /\ pool'.borrowedAmount = pool.borrowedAmount
      /\ pool'.totalYTokens = pool.totalYTokens - y
    <2>1. pool.supply - w \in Nat /\ pool.availableAmount - w \in Nat
        BY <1>1, <1>4 DEF PoolType
    <2> QED BY <1>1, <1>3, <1>6, <2>1 DEF PoolType
<1>8. bank' \in BankType /\ bank'.escrow = bank.escrow /\ bank'.liquidation = bank.liquidation
    BY <1>1, <1>3, <1>4 DEF BankType
<1>9. IndexesRise
    BY <1>2 DEF IInv, TrancheInv, IndexesRise
<1>10. /\ LoansAreGood' /\ EscrowedSum' = EscrowedSum /\ AuctionedSum' = AuctionedSum
       /\ LentSum' = LentSum /\ LostSum' = LostSum
    BY <1>2, <1>9, NoLoanChanges
<1> QED BY <1>2, <1>5, <1>7, <1>8, <1>10 DEF BooksInv

LEMMA ApproveBooks ==
    ASSUME IInv, BooksInv, NEW l \in Loan, NEW m \in Maturity, NEW a \in Amount,
           NEW referred \in BOOLEAN, Approve(l, m, a, referred)
    PROVE  BooksInv'
<1> DEFINE n == [status |-> "Open", maturity |-> m, amount |-> a, referred |-> referred,
                 startBorrowIndex |-> tranche[m].borrowIndex, paid |-> 0, debt |-> 0, accrued |-> 0]
<1>1. /\ a \in Nat /\ pool \in PoolType /\ bank \in BankType /\ m \in DOMAIN tranche
      /\ tranche[m] \in TrancheType /\ pool.availableAmount >= a /\ bank.lending = pool.availableAmount
    BY PoolAssumption DEF BooksInv, Approve, IInv, AvailableIsHeld
<1>2. /\ bank' = [bank EXCEPT !.lending = @ - a]
      /\ pool' = [pool EXCEPT !.availableAmount = @ - a, !.borrowedAmount = @ + a, !.totalBorrowed = @ + a]
      /\ tranche' = [tranche EXCEPT ![m] = [tranche[m] EXCEPT !.totalBorrowed = @ + a]]
      /\ loan' = [loan EXCEPT ![l] = n] /\ loan[l].status = "NONE" /\ UNCHANGED <<height, shares>>
    BY <1>1 DEF Approve, TrancheType
<1>3. /\ n.status = "Open" /\ n.maturity = m /\ n.amount = a /\ n.startBorrowIndex = tranche[m].borrowIndex
      /\ n.paid = 0 /\ n.debt = 0 /\ n.accrued = 0
    OBVIOUS
<1> HIDE DEF n
<1>4. pool' \in PoolType /\ pool'.borrowedAmount = pool.borrowedAmount + a
      /\ pool'.totalYTokens = pool.totalYTokens
    <2>1. /\ pool.availableAmount - a \in Nat /\ pool.borrowedAmount + a \in Nat
          /\ pool.totalBorrowed + a \in Nat
        BY <1>1 DEF PoolType
    <2>2. pool' = [pool EXCEPT !.availableAmount = pool.availableAmount - a,
                       !.borrowedAmount = pool.borrowedAmount + a, !.totalBorrowed = pool.totalBorrowed + a]
        BY <1>2
    <2> QED BY <1>1, <2>1, <2>2 DEF PoolType
<1>5. bank' \in BankType /\ bank'.escrow = bank.escrow /\ bank'.liquidation = bank.liquidation
    BY <1>1, <1>2 DEF BankType
<1>6. /\ DOMAIN tranche' = DOMAIN tranche
      /\ \A k \in DOMAIN tranche : tranche'[k] \in TrancheType /\ tranche'[k].borrowIndex = tranche[k].borrowIndex
    <2> DEFINE t == [tranche[m] EXCEPT !.totalBorrowed = @ + a]
    <2>1. t \in TrancheType /\ t.borrowIndex = tranche[m].borrowIndex
        BY <1>1 DEF TrancheType
    <2>2. DOMAIN tranche' = DOMAIN tranche /\ \A k \in DOMAIN tranche : tranche'[k] = IF k = m THEN t ELSE tranche[k]
        BY <1>2
    <2> HIDE DEF t
    <2> QED BY <2>1, <2>2 DEF BooksInv
<1>7. IndexesRise
    BY <1>6 DEF IInv, TrancheInv, IndexesRise
<1>8. GoodLoan(n, tranche'[n.maturity].borrowIndex)
    <2>1. tranche'[n.maturity].borrowIndex = tranche[m].borrowIndex /\ tranche[m].borrowIndex \in Nat \ {0}
        BY <1>1, <1>3, <1>6 DEF TrancheType
    <2> QED BY <1>1, <1>3, <2>1 DEF GoodLoan, LoanStatus
<1>9. LoansAreGood' /\ Follows(l, n)
    BY <1>2, <1>7, <1>8, OneLoan
<1>10. /\ Escrowed(n) = 0 /\ Auctioned(n) = 0 /\ Lent(n) = a /\ Lost(n) = 0
       /\ Escrowed(loan[l]) = 0 /\ Auctioned(loan[l]) = 0 /\ Lent(loan[l]) = 0 /\ Lost(loan[l]) = 0
    BY <1>2, <1>3 DEF Escrowed, Auctioned, Lent, Lost
<1>11. EscrowedSum' = EscrowedSum /\ AuctionedSum' = AuctionedSum /\ LentSum' = LentSum + a /\ LostSum' = LostSum
       /\ LentSum \in Nat /\ LostSum \in Nat
    BY <1>9, <1>10 DEF Follows
<1> QED BY <1>1, <1>2, <1>4, <1>5, <1>6, <1>9, <1>11 DEF BooksInv

\* Amounts that are all zero add up to zero.
LEMMA SumZero ==
    ASSUME NEW f, NEW S, IsFiniteSet(S), DOMAIN f = S, \A x \in S : f[x] = 0
    PROVE  SumFunction(f) = 0
<1>1. SumFunctionOnSet(f, S) = SumFunctionOnSet(f, {})
    BY SumPart
<1>2. SumFunctionOnSet(f, {}) = 0
    BY FS_EmptySet, SumPicks
<1> QED BY <1>1, <1>2 DEF SumFunction

LEMMA InitBooks == Init => BooksInv
<1> SUFFICES ASSUME Init PROVE BooksInv
    OBVIOUS
<1>1. Precision \in Nat \ {0} /\ IsFiniteSet(Loan) /\ IsFiniteSet(Lender) /\ MaxHeight \in Nat
    BY PoolAssumption
<1>2. PICK m \in Maturity : tranche = [k \in {m} |-> NewTranche]
    BY DEF Init, InitWith
<1>3. pool \in PoolType /\ bank \in BankType /\ height \in 0..MaxHeight /\ shares \in [Lender -> Nat]
      /\ bank.escrow = 0 /\ bank.liquidation = 0 /\ pool.borrowedAmount = 0 /\ pool.totalYTokens = 0
    BY <1>1 DEF Init, InitWith, NewPool, PoolType, BankType
<1>4. IsFiniteSet(DOMAIN tranche) /\ \A k \in DOMAIN tranche : tranche[k] \in TrancheType
    <2>1. IsFiniteSet({m})
        BY FS_Singleton
    <2> QED BY <1>1, <1>2, <2>1 DEF NewTranche, TrancheType
<1>5. \A l \in Loan : loan[l] = NoLoan
    BY DEF Init, InitWith
<1>6. LoansAreGood
    <2>1. \A i : GoodLoan(NoLoan, i)
        BY <1>1 DEF GoodLoan, NoLoan, LoanStatus
    <2> QED BY <1>5, <2>1 DEF LoansAreGood
<1>7. Escrowed(NoLoan) = 0 /\ Auctioned(NoLoan) = 0 /\ Lent(NoLoan) = 0 /\ Lost(NoLoan) = 0
    BY DEF NoLoan, Escrowed, Auctioned, Lent, Lost
<1>8. EscrowedSum = 0
    BY <1>1, <1>5, <1>7, SumZero DEF EscrowedSum
<1>9. AuctionedSum = 0
    BY <1>1, <1>5, <1>7, SumZero DEF AuctionedSum
<1>10. LentSum = 0
    BY <1>1, <1>5, <1>7, SumZero DEF LentSum
<1>11. LostSum = 0
    BY <1>1, <1>5, <1>7, SumZero DEF LostSum
<1>12. SumFunction(shares) = 0
    BY <1>1, SumZero DEF Init, InitWith
<1> QED BY <1>3, <1>4, <1>6, <1>8, <1>9, <1>10, <1>11, <1>12 DEF BooksInv

\* A block accrues to natural numbers.
LEMMA AccruedTrancheType ==
    ASSUME NEW t \in TrancheType, NEW r \in Nat
    PROVE  AccruedTranche(t, r) \in TrancheType
           /\ t.borrowIndex <= AccruedTranche(t, r).borrowIndex
<1> DEFINE b == t.totalBorrowed
<1>1. /\ Precision \in Nat \ {0} /\ ReserveFactor \in Nat
      /\ b \in Nat /\ t.totalReserve \in Nat /\ t.borrowIndex \in Nat \ {0}
    BY PoolAssumption DEF TrancheType
<1> HIDE DEF b
<1>2. t.borrowIndex <= DecMul(t.borrowIndex, Precision + r)
      /\ DecMul(t.borrowIndex, Precision + r) \in Nat \ {0}
    <2>1. t.borrowIndex <= DecMul(t.borrowIndex, Precision + r)
        BY <1>1, IndexRises
    <2>2. t.borrowIndex * (Precision + r) \in Nat
        BY <1>1
    <2>3. DecMul(t.borrowIndex, Precision + r) \in Nat
        BY <2>2, ChopType DEF DecMul
    <2> QED BY <1>1, <2>1, <2>3
<1>3. TruncateInt(DecMul(ToLegacyDec(b), Precision + r)) \in Nat
    <2>1. DecMul(ToLegacyDec(b), Precision + r) \in Nat
        <3> DEFINE g == Precision + r
        <3>1. g \in Nat
            BY <1>1
        <3> HIDE DEF g
        <3>2. DecMul(ToLegacyDec(b), g) \in Nat
            BY <1>1, <3>1, AmountTimes
        <3> QED BY <3>2 DEF g
    <2> QED BY <1>1, <2>1, Quotients DEF TruncateInt
<1>4. TruncateInt(DecMul(DecMul(ToLegacyDec(b), r), ReserveFactor)) \in Nat
    <2> DEFINE d == DecMul(ToLegacyDec(b), r)
    <2>1. d \in Nat
        <3>1. d = b * r /\ b * r \in Nat
            BY <1>1, AmountTimes
        <3> HIDE DEF d
        <3> QED BY <3>1
    <2> HIDE DEF d
    <2>2. d * ReserveFactor \in Nat
        BY <1>1, <2>1
    <2>3. DecMul(d, ReserveFactor) \in Nat
        BY <2>2, ChopType DEF DecMul
    <2>4. TruncateInt(DecMul(d, ReserveFactor)) \in Nat
        BY <1>1, <2>3, Quotients DEF TruncateInt
    <2> QED BY <2>4 DEF d
<1> DEFINE i == DecMul(t.borrowIndex, Precision + r)
           c == TruncateInt(DecMul(ToLegacyDec(b), Precision + r))
           f == TruncateInt(DecMul(DecMul(ToLegacyDec(b), r), ReserveFactor))
<1>5. AccruedTranche(t, r) = [borrowIndex |-> i, totalBorrowed |-> c, totalReserve |-> t.totalReserve + f]
    BY DEF AccruedTranche, b
<1>6. i \in Nat \ {0} /\ t.borrowIndex <= i /\ c \in Nat /\ f \in Nat
    BY <1>2, <1>3, <1>4
<1> HIDE DEF i, c, f
<1>7. t.totalReserve + f \in Nat
    BY <1>1, <1>6
<1> QED BY <1>5, <1>6, <1>7 DEF TrancheType

\* Interest at an index that is not below the one at the start.
LEMMA InterestIsNat ==
    ASSUME NEW x, NEW i \in Nat, x.amount \in Nat, x.startBorrowIndex \in Nat \ {0}, x.startBorrowIndex <= i
    PROVE  Interest(x, i) \in Nat
<1>1. /\ Interest(x, i) = TruncateInt(DecQuo(x.amount * i, x.startBorrowIndex)) - x.amount
      /\ TruncateInt(DecQuo(x.amount * i, x.startBorrowIndex)) \in Nat
    BY Grown DEF Interest
<1>2. x.amount <= TruncateInt(DecQuo(x.amount * i, x.startBorrowIndex))
    BY InterestNotNegative
<1> QED BY <1>1, <1>2

LEMMA BeginBlockBooks == ASSUME IInv, BooksInv, BeginBlock PROVE BooksInv'
<1>1. pool \in PoolType /\ bank \in BankType /\ shares \in [Lender -> Nat]
      /\ IsFiniteSet(DOMAIN tranche) /\ \A m \in DOMAIN tranche : tranche[m] \in TrancheType /\ rate[m] \in Nat
    BY PoolAssumption DEF BooksInv, IInv, TrancheInv
<1>2. height' \in 0..MaxHeight
    <2>1. MaxHeight \in Nat /\ height \in 0..MaxHeight /\ height < MaxHeight /\ height' = height + 1
        BY PoolAssumption DEF BeginBlock, BooksInv
    <2> QED BY <2>1
<1>3. /\ DOMAIN tranche' = DOMAIN tranche
      /\ \A m \in DOMAIN tranche : tranche'[m] \in TrancheType /\ tranche[m].borrowIndex <= tranche'[m].borrowIndex
    <2>1. CASE pool.status # "INACTIVE"
        <3>1. tranche' = [m \in DOMAIN tranche |-> AccruedTranche(tranche[m], rate[m])]
            BY <2>1 DEF BeginBlock, UpdatePool
        <3> QED BY <1>1, <3>1, AccruedTrancheType
    <2>2. CASE pool.status = "INACTIVE"
        <3>1. tranche' = tranche
            BY <2>2 DEF BeginBlock
        <3>2. \A m \in DOMAIN tranche : tranche[m].borrowIndex \in Nat
            BY <1>1 DEF TrancheType
        <3> QED BY <1>1, <3>1, <3>2
    <2> QED BY <2>1, <2>2
<1>4. IndexesRise
    BY <1>3 DEF IndexesRise, TrancheType
<1>5. pool' \in PoolType /\ pool'.borrowedAmount = pool.borrowedAmount
      /\ pool'.totalYTokens = pool.totalYTokens
    <2>1. CASE pool.status # "INACTIVE"
        <3> DEFINE ts == [m \in DOMAIN tranche |-> AccruedTranche(tranche[m], rate[m])]
                   b == SumFunction([m \in DOMAIN ts |-> ts[m].totalBorrowed])
                   v == SumFunction([m \in DOMAIN ts |-> ts[m].totalReserve])
        <3>1. tranche' = ts /\ pool' = [pool EXCEPT !.totalBorrowed = b, !.totalReserve = v]
            BY <2>1 DEF BeginBlock, UpdatePool
        <3> HIDE DEF ts
        <3>2. IsFiniteSet(DOMAIN ts) /\ \A m \in DOMAIN ts : ts[m] \in TrancheType
            BY <1>1, <1>3, <3>1
        <3>3. b \in Nat
            <4> DEFINE f == [m \in DOMAIN ts |-> ts[m].totalBorrowed]
            <4>1. DOMAIN f = DOMAIN ts /\ \A m \in DOMAIN ts : f[m] \in Nat
                BY <3>2 DEF TrancheType
            <4> HIDE DEF f
            <4>2. SumFunction(f) \in Nat
                BY <3>2, <4>1, SumType DEF SumFunction
            <4> QED BY <4>2 DEF f
        <3>4. v \in Nat
            <4> DEFINE f == [m \in DOMAIN ts |-> ts[m].totalReserve]
            <4>1. DOMAIN f = DOMAIN ts /\ \A m \in DOMAIN ts : f[m] \in Nat
                BY <3>2 DEF TrancheType
            <4> HIDE DEF f
            <4>2. SumFunction(f) \in Nat
                BY <3>2, <4>1, SumType DEF SumFunction
            <4> QED BY <4>2 DEF f
        <3> HIDE DEF b, v
        <3> QED BY <1>1, <3>1, <3>3, <3>4 DEF PoolType
    <2>2. CASE pool.status = "INACTIVE"
        <3>1. pool' = pool
            BY <2>2 DEF BeginBlock
        <3> QED BY <1>1, <3>1
    <2> QED BY <2>1, <2>2
<1> DEFINE acc(l) == GetInterest(l, tranche'[loan[l].maturity].borrowIndex) - GetCurrentInterest(l)
<1>6. \A l \in Loan : loan'[l] = IF loan[l].status = "Liquidated" THEN [loan[l] EXCEPT !.accrued = acc(l)]
                                                                  ELSE loan[l]
    BY DEF BeginBlock
<1>7. ASSUME NEW l \in Loan, loan[l].status = "Liquidated" PROVE acc(l) \in Nat
    <2> DEFINE x == loan[l]
               j == tranche'[x.maturity].borrowIndex
    <2>1. GoodLoan(x, j)
        BY <1>4, LoanKept
    <2>2. j \in Nat
        BY <1>3, <1>7 DEF IInv, LoanInv, TrancheType
    <2>3. GetInterest(l, j) = Interest(x, j) /\ GetCurrentInterest(l) = x.debt - x.amount
        BY <1>7 DEF GetInterest, Interest, GetCurrentInterest
    <2> HIDE DEF x, j
    <2>4. x.status = "Liquidated"
        BY <1>7 DEF x
    <2>5. x.debt - x.amount <= Interest(x, j) /\ x.debt - x.amount \in Int /\ Interest(x, j) \in Nat
        BY <2>1, <2>2, <2>4, InterestIsNat DEF GoodLoan
    <2> QED BY <2>3, <2>5 DEF j, x
<1> HIDE DEF acc
<1>8. ASSUME NEW l \in Loan
      PROVE  /\ GoodLoan(loan'[l], tranche'[loan'[l].maturity].borrowIndex)
             /\ Escrowed(loan'[l]) = Escrowed(loan[l]) /\ Auctioned(loan'[l]) = Auctioned(loan[l])
             /\ Lent(loan'[l]) = Lent(loan[l]) /\ Lost(loan'[l]) = Lost(loan[l])
    <2>1. GoodLoan(loan[l], tranche'[loan[l].maturity].borrowIndex)
        BY <1>4, LoanKept
    <2>2. CASE loan[l].status = "Liquidated"
        <3> DEFINE x == loan[l]
                   y == loan'[l]
        <3>1. /\ y.status = x.status /\ y.amount = x.amount /\ y.startBorrowIndex = x.startBorrowIndex
              /\ y.paid = x.paid /\ y.debt = x.debt /\ y.maturity = x.maturity /\ y.accrued \in Nat
            BY <1>6, <1>7, <2>2 DEF IInv, LoanInv
        <3> HIDE DEF x, y
        <3>2. GoodLoan(x, tranche'[x.maturity].borrowIndex)
            BY <2>1 DEF x
        <3>3. GoodLoan(y, tranche'[y.maturity].borrowIndex)
            BY <3>1, <3>2 DEF GoodLoan, Interest
        <3>4. /\ Escrowed(y) = Escrowed(x) /\ Auctioned(y) = Auctioned(x)
              /\ Lent(y) = Lent(x) /\ Lost(y) = Lost(x)
            BY <3>1 DEF Escrowed, Auctioned, Lent, Lost
        <3> QED BY <3>3, <3>4 DEF x, y
    <2>3. CASE loan[l].status # "Liquidated"
        BY <1>6, <2>1, <2>3
    <2> QED BY <2>2, <2>3
<1>9. LoansAreGood'
    BY <1>8 DEF LoansAreGood
<1>10. EscrowedSum' = EscrowedSum /\ AuctionedSum' = AuctionedSum /\ LentSum' = LentSum /\ LostSum' = LostSum
    BY <1>8 DEF EscrowedSum, AuctionedSum, LentSum, LostSum
<1>11. UNCHANGED <<shares, bank>>
    BY DEF BeginBlock
<1> QED BY <1>1, <1>2, <1>3, <1>5, <1>9, <1>10, <1>11 DEF BooksInv

\* What the borrower of an open loan is asked for on top of the principal.
LEMMA OpenInterest ==
    ASSUME IInv, BooksInv, NEW l \in Loan, loan[l].status = "Open"
    PROVE  /\ GetCurrentInterest(l) = Interest(loan[l], tranche[loan[l].maturity].borrowIndex)
           /\ GetCurrentInterest(l) \in Nat
<1> DEFINE x == loan[l]
           i == tranche[x.maturity].borrowIndex
<1>1. GoodLoan(x, i) /\ x.status = "Open"
    BY DEF BooksInv, LoansAreGood
<1>2. i \in Nat
    BY <1>1 DEF IInv, LoanInv, TrancheInv
<1>3. GetCurrentInterest(l) = Interest(x, i)
    BY <1>1 DEF GetCurrentInterest, GetInterest, Interest
<1> HIDE DEF x, i
<1>4. Interest(x, i) \in Nat
    BY <1>1, <1>2, InterestIsNat DEF GoodLoan
<1> QED BY <1>3, <1>4 DEF x, i

LEMMA RepayBooks == ASSUME IInv, BooksInv, NEW l \in Loan, Repay(l) PROVE BooksInv'
<1> DEFINE x == loan[l]
           i == tranche[x.maturity].borrowIndex
           a == x.amount + GetCurrentInterest(l)
           n == [x EXCEPT !.status = "Repaid", !.paid = a]
<1>1. /\ bank' = [bank EXCEPT !.escrow = @ + a] /\ loan' = [loan EXCEPT ![l] = n]
      /\ x.status = "Open" /\ UNCHANGED <<height, pool, tranche, shares>>
    BY DEF Repay, IInv, LoanInv
<1>2. GoodLoan(x, i)
    BY DEF BooksInv, LoansAreGood
<1>3. a \in Nat /\ x.amount \in Nat /\ x.amount <= a
    BY <1>1, <1>2, OpenInterest DEF GoodLoan
<1>4. /\ n.status = "Repaid" /\ n.amount = x.amount /\ n.startBorrowIndex = x.startBorrowIndex
      /\ n.paid = a /\ n.debt = x.debt /\ n.accrued = x.accrued /\ n.maturity = x.maturity
    BY DEF IInv, LoanInv
<1> HIDE DEF n, a, x, i
<1>5. IndexesRise
    BY <1>1 DEF IInv, TrancheInv, IndexesRise
<1>6. GoodLoan(n, tranche'[n.maturity].borrowIndex)
    BY <1>2, <1>3, <1>4 DEF GoodLoan, LoanStatus
<1>7. LoansAreGood' /\ Follows(l, n)
    BY <1>1, <1>5, <1>6, OneLoan
<1>8. /\ Escrowed(n) = a /\ Auctioned(n) = 0 /\ Lent(n) = x.amount /\ Lost(n) = 0
      /\ Escrowed(x) = 0 /\ Auctioned(x) = 0 /\ Lent(x) = x.amount /\ Lost(x) = 0
    BY <1>1, <1>4 DEF Escrowed, Auctioned, Lent, Lost
<1>9. /\ EscrowedSum' = EscrowedSum + a /\ EscrowedSum \in Nat /\ AuctionedSum' = AuctionedSum
      /\ LentSum' = LentSum /\ LostSum' = LostSum
    BY <1>3, <1>7, <1>8 DEF Follows, x
<1>10. /\ bank' \in BankType /\ bank'.escrow = bank.escrow + a /\ bank'.liquidation = bank.liquidation
    <2>1. bank \in BankType
        BY DEF BooksInv
    <2> QED BY <1>1, <1>3, <2>1 DEF BankType
<1> QED BY <1>1, <1>7, <1>9, <1>10 DEF BooksInv

LEMMA LiquidateBooks == ASSUME IInv, BooksInv, NEW l \in Loan, Liquidate(l) PROVE BooksInv'
<1> DEFINE x == loan[l]
           i == tranche[x.maturity].borrowIndex
           d == x.amount + GetCurrentInterest(l)
           n == [x EXCEPT !.status = "Liquidated", !.debt = d]
<1>1. /\ loan' = [loan EXCEPT ![l] = n]
      /\ x.status = "Open" /\ UNCHANGED <<height, pool, tranche, shares, bank>>
    BY DEF Liquidate, IInv, LoanInv
<1>2. GoodLoan(x, i) /\ x.paid = 0
    BY <1>1 DEF BooksInv, LoansAreGood, GoodLoan
<1>3. d \in Nat /\ x.amount \in Nat /\ x.amount <= d /\ d - x.amount = Interest(x, i)
    BY <1>1, <1>2, OpenInterest DEF GoodLoan
<1>4. /\ n.status = "Liquidated" /\ n.amount = x.amount /\ n.startBorrowIndex = x.startBorrowIndex
      /\ n.paid = x.paid /\ n.debt = d /\ n.accrued = x.accrued /\ n.maturity = x.maturity
    BY DEF IInv, LoanInv
<1> HIDE DEF n, d, x, i
<1>5. IndexesRise
    BY <1>1 DEF IInv, TrancheInv, IndexesRise
<1>6. GoodLoan(n, i)
    BY <1>1, <1>2, <1>3, <1>4 DEF GoodLoan, LoanStatus, Interest
<1>7. LoansAreGood' /\ Follows(l, n)
    BY <1>1, <1>4, <1>5, <1>6, OneLoan DEF i
<1>8. /\ Escrowed(n) = 0 /\ Auctioned(n) = 0 /\ Lent(n) = x.amount /\ Lost(n) = 0
      /\ Escrowed(x) = 0 /\ Auctioned(x) = 0 /\ Lent(x) = x.amount /\ Lost(x) = 0
    BY <1>1, <1>2, <1>4 DEF Escrowed, Auctioned, Lent, Lost
<1>9. /\ EscrowedSum' = EscrowedSum /\ AuctionedSum' = AuctionedSum
      /\ LentSum' = LentSum /\ LostSum' = LostSum
    BY <1>3, <1>7, <1>8 DEF Follows, x
<1> QED BY <1>1, <1>7, <1>9 DEF BooksInv

LEMMA PayDebtBooks == ASSUME IInv, BooksInv, NEW l \in Loan, NEW a \in Amount, PayDebt(l, a) PROVE BooksInv'
<1> DEFINE x == loan[l]
           i == tranche[x.maturity].borrowIndex
           d == IF x.debt - x.paid < a THEN x.debt - x.paid ELSE a
           n == [x EXCEPT !.paid = x.paid + d]
<1>1. /\ bank' = [bank EXCEPT !.liquidation = @ + d] /\ loan' = [loan EXCEPT ![l] = n]
      /\ x.status = "Liquidated" /\ x.debt - x.paid > 0 /\ UNCHANGED <<height, pool, tranche, shares>>
    BY DEF PayDebt, IInv, LoanInv
<1>2. GoodLoan(x, i)
    BY DEF BooksInv, LoansAreGood
<1>3. d \in Nat /\ x.paid \in Nat /\ x.debt \in Nat /\ x.amount \in Nat /\ x.paid + d <= x.debt
    BY <1>1, <1>2, PoolAssumption DEF GoodLoan
<1>4. /\ n.status = "Liquidated" /\ n.amount = x.amount /\ n.startBorrowIndex = x.startBorrowIndex
      /\ n.paid = x.paid + d /\ n.debt = x.debt /\ n.accrued = x.accrued /\ n.maturity = x.maturity
    BY <1>1 DEF IInv, LoanInv
<1> HIDE DEF n, d, x, i
<1>5. IndexesRise
    BY <1>1 DEF IInv, TrancheInv, IndexesRise
<1>6. GoodLoan(n, i)
    BY <1>1, <1>2, <1>3, <1>4 DEF GoodLoan, Interest
<1>7. LoansAreGood' /\ Follows(l, n)
    BY <1>1, <1>4, <1>5, <1>6, OneLoan DEF i
<1>8. /\ Escrowed(n) = 0 /\ Auctioned(n) = x.paid + d /\ Lent(n) = x.amount /\ Lost(n) = 0
      /\ Escrowed(x) = 0 /\ Auctioned(x) = x.paid /\ Lent(x) = x.amount /\ Lost(x) = 0
    BY <1>1, <1>4 DEF Escrowed, Auctioned, Lent, Lost
<1>9. /\ EscrowedSum' = EscrowedSum /\ AuctionedSum' = AuctionedSum + d /\ AuctionedSum \in Nat
      /\ LentSum' = LentSum /\ LostSum' = LostSum
    BY <1>3, <1>7, <1>8 DEF Follows, x
<1>10. /\ bank' \in BankType /\ bank'.liquidation = bank.liquidation + d /\ bank'.escrow = bank.escrow
    <2>1. bank \in BankType
        BY DEF BooksInv
    <2> QED BY <1>1, <1>3, <2>1 DEF BankType
<1> QED BY <1>1, <1>7, <1>9, <1>10 DEF BooksInv

\* What a repayment of principal p and interest i with fee f leaves of the pool.
LEMMA RepaidPoolBooks ==
    ASSUME pool \in PoolType, NEW p \in Nat, NEW i \in Nat, NEW f \in 0..i, NEW af \in Nat,
           p <= pool.borrowedAmount
    PROVE  /\ RepaidPool(p, i, f, af) \in PoolType
           /\ RepaidPool(p, i, f, af).borrowedAmount = pool.borrowedAmount - p
           /\ RepaidPool(p, i, f, af).totalYTokens = pool.totalYTokens
<1> DEFINE s == pool.supply + i - f
           v == pool.availableAmount + p + i - f
           b == pool.borrowedAmount - p
           t == NonNegative(pool.totalBorrowed - (p + i))
           w == pool.reserveAmount + af
           r == NonNegative(pool.totalReserve - f)
<1>1. s \in Nat /\ v \in Nat /\ b \in Nat /\ w \in Nat
    BY DEF PoolType
<1>2. t \in Nat /\ r \in Nat
    BY DEF PoolType, NonNegative
<1>3. RepaidPool(p, i, f, af) = [pool EXCEPT !.supply = s, !.availableAmount = v, !.borrowedAmount = b,
                                             !.totalBorrowed = t, !.reserveAmount = w, !.totalReserve = r]
    BY DEF RepaidPool
<1> DEFINE q == RepaidPool(p, i, f, af)
<1>4. b = pool.borrowedAmount - p
    OBVIOUS
<1> HIDE DEF s, v, b, t, w, r, q
<1>5. q = [pool EXCEPT !.supply = s, !.availableAmount = v, !.borrowedAmount = b,
                       !.totalBorrowed = t, !.reserveAmount = w, !.totalReserve = r]
    BY <1>3 DEF q
<1>6. q = [status |-> pool.status, paused |-> pool.paused, supply |-> s, availableAmount |-> v,
           borrowedAmount |-> b, totalBorrowed |-> t, reserveAmount |-> w, totalReserve |-> r,
           totalYTokens |-> pool.totalYTokens]
    BY <1>5 DEF PoolType
<1>7. pool.status \in {"INACTIVE", "ACTIVE", "PAUSED"} /\ pool.paused \in BOOLEAN /\ pool.totalYTokens \in Nat
    BY DEF PoolType
<1>8. q \in PoolType /\ q.borrowedAmount = b /\ q.totalYTokens = pool.totalYTokens
    BY <1>1, <1>2, <1>6, <1>7 DEF PoolType
<1> QED BY <1>4, <1>8 DEF q

\* One tranche changes and keeps its index.
LEMMA OneTranche ==
    ASSUME IInv, BooksInv, NEW m \in DOMAIN tranche, NEW t \in TrancheType,
           t.borrowIndex = tranche[m].borrowIndex, tranche' = [tranche EXCEPT ![m] = t]
    PROVE  /\ DOMAIN tranche' = DOMAIN tranche /\ \A k \in DOMAIN tranche : tranche'[k] \in TrancheType
           /\ IndexesRise /\ tranche'[m].borrowIndex = tranche[m].borrowIndex
<1>1. DOMAIN tranche' = DOMAIN tranche /\ \A k \in DOMAIN tranche : tranche'[k] = IF k = m THEN t ELSE tranche[k]
    OBVIOUS
<1>2. \A k \in DOMAIN tranche : tranche'[k] \in TrancheType /\ tranche'[k].borrowIndex = tranche[k].borrowIndex
    BY <1>1 DEF BooksInv
<1> QED BY <1>1, <1>2 DEF IInv, TrancheInv, IndexesRise

LEMMA CompleteRepaymentBooks == ASSUME IInv, BooksInv, NEW l \in Loan, CompleteRepayment(l) PROVE BooksInv'
<1> DEFINE x == loan[l]
           m == x.maturity
           interest == GetCurrentInterest(l)
           fee == GetProtocolFee(interest)
           af == ActualProtocolFee(l, fee)
           t == RepaidTranche(m, x.amount + interest)
           n == [x EXCEPT !.status = "Closed"]
<1>1. /\ bank' = [bank EXCEPT !.escrow = @ - (x.amount + interest), !.lending = @ + (x.amount + interest) - fee]
      /\ pool' = RepaidPool(x.amount, interest, fee, af)
      /\ tranche' = [tranche EXCEPT ![m] = t] /\ loan' = [loan EXCEPT ![l] = n]
      /\ x.status = "Repaid" /\ UNCHANGED <<height, shares>>
    BY DEF CompleteRepayment, IInv, LoanInv
<1>2. GoodLoan(x, tranche[m].borrowIndex) /\ pool \in PoolType /\ bank \in BankType
    BY DEF BooksInv, LoansAreGood
<1>3. x.amount \in Nat /\ x.paid \in Nat /\ interest = x.paid - x.amount /\ interest \in Nat
    BY <1>1, <1>2 DEF GoodLoan, GetCurrentInterest
<1>4. fee \in 0..interest /\ af \in Nat
    <2> HIDE DEF interest
    <2> QED BY <1>3, FeesArePart
<1>5. m \in DOMAIN tranche /\ tranche[m] \in TrancheType
    BY <1>1 DEF IInv, LoanInv, BooksInv
<1>6. t \in TrancheType /\ t.borrowIndex = tranche[m].borrowIndex
    <2> DEFINE b == NonNegative(tranche[m].totalBorrowed - (x.amount + interest))
    <2>1. b \in Nat
        <3> HIDE DEF interest, x
        <3> QED BY <1>3, <1>5 DEF TrancheType, NonNegative
    <2>2. t = [tranche[m] EXCEPT !.totalBorrowed = b]
        BY DEF RepaidTranche
    <2> HIDE DEF b, t
    <2> QED BY <1>5, <2>1, <2>2 DEF TrancheType
<1>7. /\ n.status = "Closed" /\ n.amount = x.amount /\ n.startBorrowIndex = x.startBorrowIndex
      /\ n.paid = x.paid /\ n.debt = x.debt /\ n.accrued = x.accrued /\ n.maturity = m
    BY DEF IInv, LoanInv
<1> HIDE DEF n, t, af, fee, interest, m, x
<1>8. /\ DOMAIN tranche' = DOMAIN tranche /\ \A k \in DOMAIN tranche : tranche'[k] \in TrancheType
      /\ IndexesRise
    BY <1>1, <1>5, <1>6, OneTranche
<1>9. GoodLoan(n, tranche'[n.maturity].borrowIndex)
    BY <1>2, <1>7 DEF GoodLoan, LoanStatus
<1>10. LoansAreGood' /\ Follows(l, n)
    BY <1>1, <1>8, <1>9, OneLoan
<1>11. /\ Escrowed(n) = 0 /\ Auctioned(n) = 0 /\ Lent(n) = 0 /\ Lost(n) = 0
       /\ Escrowed(x) = x.paid /\ Auctioned(x) = 0 /\ Lent(x) = x.amount /\ Lost(x) = 0
    BY <1>1, <1>7 DEF Escrowed, Auctioned, Lent, Lost
<1>12. /\ EscrowedSum' = EscrowedSum - x.paid /\ EscrowedSum' \in Nat /\ AuctionedSum' = AuctionedSum
       /\ LentSum' = LentSum - x.amount /\ LentSum' \in Nat /\ LostSum' = LostSum
       /\ EscrowedSum \in Nat /\ LentSum \in Nat /\ LostSum \in Nat
    BY <1>3, <1>10, <1>11 DEF Follows, x
<1>13. x.amount <= pool.borrowedAmount
    BY <1>3, <1>12 DEF BooksInv
<1>14. /\ pool' \in PoolType /\ pool'.borrowedAmount = pool.borrowedAmount - x.amount
       /\ pool'.totalYTokens = pool.totalYTokens
    BY <1>1, <1>2, <1>3, <1>4, <1>13, RepaidPoolBooks
<1>15. bank' \in BankType /\ bank'.escrow = bank.escrow - x.paid /\ bank'.liquidation = bank.liquidation
    <2>1. x.amount + interest = x.paid /\ bank.escrow - x.paid \in Nat
        BY <1>3, <1>12 DEF BooksInv
    <2>2. bank.lending + x.paid - fee \in Nat
        BY <1>2, <1>3, <1>4 DEF BankType
    <2>3. bank' = [bank EXCEPT !.escrow = bank.escrow - x.paid, !.lending = bank.lending + x.paid - fee]
        BY <1>1, <1>2, <2>1 DEF BankType
    <2> QED BY <1>2, <2>1, <2>2, <2>3 DEF BankType
<1>16. pool'.borrowedAmount = LentSum' + LostSum' /\ bank'.escrow = EscrowedSum' /\ bank'.liquidation = AuctionedSum'
    BY <1>3, <1>12, <1>14, <1>15 DEF BooksInv
<1>17. pool'.totalYTokens = SumFunction(shares') /\ height' \in 0..MaxHeight /\ shares' \in [Lender -> Nat]
       /\ IsFiniteSet(DOMAIN tranche')
    BY <1>1, <1>8, <1>14 DEF BooksInv
<1> QED BY <1>8, <1>10, <1>14, <1>15, <1>16, <1>17 DEF BooksInv

LEMMA SettleBooks == ASSUME IInv, BooksInv, NEW l \in Loan, Settle(l) PROVE BooksInv'
<1> DEFINE x == loan[l]
           m == x.maturity
           principal == LiquidatedPrincipal(l)
           interest == x.paid - principal
           fee == GetProtocolFee(interest)
           af == ActualProtocolFee(l, fee)
           e == GetProtocolFee(x.accrued)
           p == RepaidPool(principal, interest, fee, af)
           t == RepaidTranche(m, x.paid)
           u == [t EXCEPT !.totalBorrowed = NonNegative(@ - x.accrued), !.totalReserve = NonNegative(@ - e)]
           n == [x EXCEPT !.status = "Settled"]
<1>1. /\ bank' = [bank EXCEPT !.liquidation = @ - x.paid, !.lending = @ + x.paid - fee]
      /\ pool' = [p EXCEPT !.totalBorrowed = NonNegative(@ - x.accrued), !.totalReserve = NonNegative(@ - e)]
      /\ tranche' = [tranche EXCEPT ![m] = u] /\ loan' = [loan EXCEPT ![l] = n]
      /\ x.status = "Liquidated" /\ UNCHANGED <<height, shares>>
    BY DEF Settle, IInv, LoanInv
<1>2. GoodLoan(x, tranche[m].borrowIndex) /\ pool \in PoolType /\ bank \in BankType
    BY DEF BooksInv, LoansAreGood
<1>3. /\ x.amount \in Nat /\ x.paid \in Nat /\ x.debt \in Nat /\ x.accrued \in Nat
      /\ x.paid <= x.debt /\ x.amount <= x.debt
    BY <1>1, <1>2 DEF GoodLoan
<1>4. /\ principal = NonNegative(x.paid - (x.debt - x.amount))
      /\ principal \in 0..x.paid /\ principal <= x.amount
    <2> DEFINE g == x.debt - x.amount
               q == NonNegative(x.paid - g)
    <2>1. GetCurrentInterest(l) = g
        BY <1>1 DEF GetCurrentInterest
    <2>2. principal = IF x.paid > g THEN x.paid - g ELSE 0
        BY <2>1 DEF LiquidatedPrincipal
    <2>3. q = IF x.paid - g < 0 THEN 0 ELSE x.paid - g
        BY DEF NonNegative
    <2> HIDE DEF x, principal, q
    <2> QED BY <1>3, <2>2, <2>3 DEF q
<1>5. interest \in Nat /\ principal \in Nat /\ principal + interest = x.paid
    <2> HIDE DEF principal
    <2> QED BY <1>3, <1>4
<1>6. fee \in 0..interest /\ af \in Nat /\ e \in Nat
    <2>1. fee \in 0..interest /\ af \in Nat
        <3> HIDE DEF interest
        <3> QED BY <1>5, FeesArePart
    <2>2. GetProtocolFee(x.accrued) \in 0..x.accrued
        BY <1>3, FeesArePart
    <2> QED BY <1>3, <2>1, <2>2
<1>7. m \in DOMAIN tranche /\ tranche[m] \in TrancheType
    BY <1>1 DEF IInv, LoanInv, BooksInv
<1>8. u \in TrancheType /\ u.borrowIndex = tranche[m].borrowIndex
    <2> DEFINE b == NonNegative(tranche[m].totalBorrowed - x.paid)
               c == NonNegative(b - x.accrued)
               r == NonNegative(tranche[m].totalReserve - e)
    <2>1. b \in Nat
        <3> HIDE DEF x
        <3> QED BY <1>3, <1>7 DEF TrancheType, NonNegative
    <2>2. c \in Nat /\ r \in Nat
        <3> HIDE DEF b, x, e
        <3> QED BY <1>3, <1>6, <1>7, <2>1 DEF TrancheType, NonNegative
    <2>3. u = [tranche[m] EXCEPT !.totalBorrowed = c, !.totalReserve = r]
        BY <1>7 DEF RepaidTranche, TrancheType
    <2> HIDE DEF b, c, r, u
    <2> QED BY <1>7, <2>2, <2>3 DEF TrancheType
<1>9. /\ n.status = "Settled" /\ n.amount = x.amount /\ n.startBorrowIndex = x.startBorrowIndex
      /\ n.paid = x.paid /\ n.debt = x.debt /\ n.accrued = x.accrued /\ n.maturity = m
    BY DEF IInv, LoanInv
<1> HIDE DEF n, u, t, p, e, af, fee, interest, principal, m, x
<1>10. /\ DOMAIN tranche' = DOMAIN tranche /\ \A k \in DOMAIN tranche : tranche'[k] \in TrancheType
       /\ IndexesRise
    BY <1>1, <1>7, <1>8, OneTranche
<1>11. GoodLoan(n, tranche'[n.maturity].borrowIndex)
    BY <1>1, <1>2, <1>9 DEF GoodLoan, LoanStatus
<1>12. LoansAreGood' /\ Follows(l, n)
    BY <1>1, <1>10, <1>11, OneLoan
<1>13. /\ Escrowed(n) = 0 /\ Auctioned(n) = 0 /\ Lent(n) = 0 /\ Lost(n) = x.amount - principal
       /\ Escrowed(x) = 0 /\ Auctioned(x) = x.paid /\ Lent(x) = x.amount /\ Lost(x) = 0
    BY <1>1, <1>4, <1>9 DEF Escrowed, Auctioned, Lent, Lost
<1>14. /\ EscrowedSum' = EscrowedSum /\ AuctionedSum' = AuctionedSum - x.paid /\ AuctionedSum' \in Nat
       /\ LentSum' = LentSum - x.amount /\ LentSum' \in Nat
       /\ LostSum' = LostSum + (x.amount - principal) /\ LostSum' \in Nat
       /\ AuctionedSum \in Nat /\ LentSum \in Nat /\ LostSum \in Nat
    BY <1>3, <1>5, <1>12, <1>13 DEF Follows, x
<1>15. principal <= pool.borrowedAmount /\ LentSum' + LostSum' = pool.borrowedAmount - principal
    BY <1>3, <1>4, <1>5, <1>14 DEF BooksInv
<1>16. p \in PoolType /\ p.borrowedAmount = pool.borrowedAmount - principal /\ p.totalYTokens = pool.totalYTokens
    BY <1>2, <1>5, <1>6, <1>15, RepaidPoolBooks DEF p
<1>17. /\ pool' \in PoolType /\ pool'.borrowedAmount = pool.borrowedAmount - principal
       /\ pool'.totalYTokens = pool.totalYTokens
    <2> DEFINE c == NonNegative(p.totalBorrowed - x.accrued)
               r == NonNegative(p.totalReserve - e)
    <2>1. c \in Nat /\ r \in Nat
        BY <1>3, <1>6, <1>16 DEF PoolType, NonNegative
    <2>2. pool' = [p EXCEPT !.totalBorrowed = c, !.totalReserve = r]
        BY <1>1, <1>16 DEF PoolType
    <2> HIDE DEF c, r
    <2> QED BY <1>16, <2>1, <2>2 DEF PoolType
<1>18. bank' \in BankType /\ bank'.liquidation = bank.liquidation - x.paid /\ bank'.escrow = bank.escrow
    <2>1. bank.liquidation - x.paid \in Nat
        BY <1>3, <1>14 DEF BooksInv
    <2>2. bank.lending + x.paid - fee \in Nat
        BY <1>2, <1>3, <1>4, <1>5, <1>6 DEF BankType
    <2>3. bank' = [bank EXCEPT !.liquidation = bank.liquidation - x.paid, !.lending = bank.lending + x.paid - fee]
        BY <1>1, <1>2 DEF BankType
    <2> QED BY <1>2, <2>1, <2>2, <2>3 DEF BankType
<1>19. pool'.borrowedAmount = LentSum' + LostSum' /\ bank'.escrow = EscrowedSum' /\ bank'.liquidation = AuctionedSum'
    BY <1>3, <1>14, <1>15, <1>17, <1>18 DEF BooksInv
<1>20. pool'.totalYTokens = SumFunction(shares') /\ height' \in 0..MaxHeight /\ shares' \in [Lender -> Nat]
       /\ IsFiniteSet(DOMAIN tranche')
    BY <1>1, <1>10, <1>17 DEF BooksInv
<1> QED BY <1>10, <1>12, <1>17, <1>18, <1>19, <1>20 DEF BooksInv

LEMMA UpdatePoolConfigBooks ==
    ASSUME IInv, BooksInv, NEW paused \in BOOLEAN, NEW m \in Maturity, NEW r \in Rate,
           UpdatePoolConfig(paused, m, r)
    PROVE  BooksInv'
<1> DEFINE status == UpdatedStatus(paused)
<1>1. /\ pool' = [pool EXCEPT !.status = status, !.paused = paused]
      /\ tranche' = [k \in DOMAIN tranche \cup {m} |-> IF k \in DOMAIN tranche THEN tranche[k] ELSE NewTranche]
      /\ UNCHANGED <<height, shares, loan, bank>>
    BY DEF UpdatePoolConfig
<1>2. pool \in PoolType /\ status \in {"INACTIVE", "ACTIVE", "PAUSED"}
    BY DEF BooksInv, PoolType, UpdatedStatus
<1> HIDE DEF status
<1>3. pool' \in PoolType /\ pool'.borrowedAmount = pool.borrowedAmount /\ pool'.totalYTokens = pool.totalYTokens
    BY <1>1, <1>2 DEF PoolType
<1>4. NewTranche \in TrancheType
    BY PoolAssumption DEF NewTranche, TrancheType
<1>5. IsFiniteSet(DOMAIN tranche')
    <2>1. IsFiniteSet(DOMAIN tranche \cup {m})
        BY FS_AddElement DEF BooksInv
    <2> QED BY <1>1, <2>1
<1>6. \A k \in DOMAIN tranche' : tranche'[k] \in TrancheType
    BY <1>1, <1>4 DEF BooksInv
<1>7. IndexesRise
    <2>1. \A k \in DOMAIN tranche : tranche'[k] = tranche[k] /\ tranche[k].borrowIndex \in Nat
        BY <1>1 DEF IInv, TrancheInv
    <2> QED BY <1>1, <2>1 DEF IndexesRise
<1>8. /\ LoansAreGood' /\ EscrowedSum' = EscrowedSum /\ AuctionedSum' = AuctionedSum
      /\ LentSum' = LentSum /\ LostSum' = LostSum
    BY <1>1, <1>7, NoLoanChanges
<1> QED BY <1>1, <1>3, <1>5, <1>6, <1>8 DEF BooksInv

LEMMA NextBooks == IInv /\ BooksInv /\ [Next]_vars => BooksInv'
<1> SUFFICES ASSUME IInv, BooksInv, [Next]_vars PROVE BooksInv'
    OBVIOUS
<1>1. CASE Next
    BY <1>1, AddLiquidityBooks, RemoveLiquidityBooks, BeginBlockBooks, ApproveBooks, RepayBooks,
       CompleteRepaymentBooks, LiquidateBooks, PayDebtBooks, SettleBooks, UpdatePoolConfigBooks DEF Next
<1>2. CASE UNCHANGED vars
    BY <1>2 DEF vars, BooksInv, LoansAreGood, EscrowedSum, AuctionedSum, LentSum, LostSum
<1> QED BY <1>1, <1>2

----------------------------------------------------------------------------
(* The books of the model *)

\* A sum over some loans, as one over all of them.
LEMMA SumOverSome ==
    ASSUME NEW f, NEW g, DOMAIN g = Loan, DOMAIN f \in SUBSET Loan,
           \A l \in DOMAIN f : g[l] = f[l] /\ f[l] \in Int, \A l \in Loan \ DOMAIN f : g[l] = 0
    PROVE  SumFunction(f) = SumFunction(g)
<1>1. IsFiniteSet(Loan)
    BY PoolAssumption
<1>2. SumFunctionOnSet(g, Loan) = SumFunctionOnSet(f, DOMAIN f)
    BY <1>1, SumPart
<1> QED BY <1>2 DEF SumFunction

\* BooksInv is LoansAreBooked, loan by loan.
LEMMA BooksAreBooked == IInv /\ BooksInv => LoansAreBooked
<1> SUFFICES ASSUME IInv, BooksInv PROVE LoansAreBooked
    OBVIOUS
<1>1. \A l \in Loan : /\ loan[l].status \in LoanStatus /\ loan[l].amount \in Nat
                      /\ loan[l].paid \in Nat /\ loan[l].debt \in Nat /\ loan[l].accrued \in Nat
    BY DEF BooksInv, LoansAreGood, GoodLoan
<1>2. TypeOK
    BY <1>1 DEF TypeOK, BooksInv, PoolType, BankType, TrancheType, IInv, TrancheInv
<1>3. SumOverLoans({"Repaid"}, LAMBDA l : loan[l].paid) = EscrowedSum
    <2> DEFINE f == [l \in {k \in Loan : loan[k].status \in {"Repaid"}} |-> loan[l].paid]
               g == [l \in Loan |-> Escrowed(loan[l])]
    <2>1. /\ DOMAIN g = Loan /\ DOMAIN f \in SUBSET Loan
          /\ \A l \in DOMAIN f : g[l] = f[l] /\ f[l] \in Int
          /\ \A l \in Loan \ DOMAIN f : g[l] = 0
        BY <1>1 DEF Escrowed
    <2>2. SumFunction(f) = SumFunction(g)
        <3> HIDE DEF f, g
        <3> QED BY <2>1, SumOverSome
    <2> QED BY <2>2 DEF SumOverLoans, EscrowedSum
<1>4. SumOverLoans({"Liquidated"}, LAMBDA l : loan[l].paid) = AuctionedSum
    <2> DEFINE f == [l \in {k \in Loan : loan[k].status \in {"Liquidated"}} |-> loan[l].paid]
               g == [l \in Loan |-> Auctioned(loan[l])]
    <2>1. /\ DOMAIN g = Loan /\ DOMAIN f \in SUBSET Loan
          /\ \A l \in DOMAIN f : g[l] = f[l] /\ f[l] \in Int
          /\ \A l \in Loan \ DOMAIN f : g[l] = 0
        BY <1>1 DEF Auctioned
    <2>2. SumFunction(f) = SumFunction(g)
        <3> HIDE DEF f, g
        <3> QED BY <2>1, SumOverSome
    <2> QED BY <2>2 DEF SumOverLoans, AuctionedSum
<1>5. SumOverLoans({"Open", "Repaid", "Liquidated"}, LAMBDA l : loan[l].amount) = LentSum
    <2> DEFINE f == [l \in {k \in Loan : loan[k].status \in {"Open", "Repaid", "Liquidated"}} |-> loan[l].amount]
               g == [l \in Loan |-> Lent(loan[l])]
    <2>1. /\ DOMAIN g = Loan /\ DOMAIN f \in SUBSET Loan
          /\ \A l \in DOMAIN f : g[l] = f[l] /\ f[l] \in Int
          /\ \A l \in Loan \ DOMAIN f : g[l] = 0
        BY <1>1 DEF Lent
    <2>2. SumFunction(f) = SumFunction(g)
        <3> HIDE DEF f, g
        <3> QED BY <2>1, SumOverSome
    <2> QED BY <2>2 DEF SumOverLoans, LentSum
<1>6. SumOverLoans({"Settled"}, Unrecovered) = LostSum
    <2> DEFINE f == [l \in {k \in Loan : loan[k].status \in {"Settled"}} |-> Unrecovered(l)]
               g == [l \in Loan |-> Lost(loan[l])]
    <2>1. \A l \in Loan : Unrecovered(l) \in Int
        BY <1>1 DEF Unrecovered, NonNegative
    <2>2. /\ DOMAIN g = Loan /\ DOMAIN f \in SUBSET Loan
          /\ \A l \in DOMAIN f : g[l] = f[l] /\ f[l] \in Int
          /\ \A l \in Loan \ DOMAIN f : g[l] = 0
        BY <2>1 DEF Lost, Unrecovered
    <2>3. SumFunction(f) = SumFunction(g)
        <3> HIDE DEF f, g
        <3> QED BY <2>2, SumOverSome
    <2> QED BY <2>3 DEF SumOverLoans, LostSum
<1>7. PaymentsAreHeld
    BY <1>3, <1>4 DEF PaymentsAreHeld, BooksInv
<1>8. BorrowedIsPrincipal
    BY <1>5, <1>6 DEF BorrowedIsPrincipal, BooksInv
<1> QED BY <1>2, <1>7, <1>8 DEF LoansAreBooked

\* No counter of the pool is ever negative, the escrow and the account of the auctions hold
\* exactly the payments under way, and what is lent is the principal of the loans, however many
\* loans, tranches and blocks there are (AfterPoolBorrowed, AfterPoolRepaid, HandleLiquidatedDebt).
THEOREM LoansAreBookedHolds == Spec => []LoansAreBooked
<1>1. Init => BooksInv
    BY InitBooks
<1>2. IInv /\ BooksInv /\ [Next]_vars => BooksInv'
    BY NextBooks
<1>3. IInv /\ BooksInv => LoansAreBooked
    BY BooksAreBooked
<1> QED BY <1>1, <1>2, <1>3, Invariance, PTL DEF Spec

----------------------------------------------------------------------------
(* What a share is worth *)

\* Quotient of an integer.
LEMMA IntegerQuotients ==
    ASSUME NEW n \in Int, NEW d \in Nat \ {0}
    PROVE  n \div d \in Int /\ d * (n \div d) <= n
OBVIOUS

\* Shares are issued for at most what is paid for them.
LEMMA IssueIsFair ==
    ASSUME NEW c \in Int, NEW s \in Nat, NEW a \in Nat, NEW y \in Nat, c * y <= a * s
    PROVE  (c + a) * s >= c * (s + y)
<1>1. (c + a) * s = c * s + a * s /\ c * (s + y) = c * s + c * y
    OBVIOUS
<1>2. c * s \in Int /\ a * s \in Int /\ c * y \in Int
    OBVIOUS
<1> DEFINE cs == c * s
           as == a * s
           cy == c * y
<1>3. cs \in Int /\ as \in Int /\ cy \in Int /\ cy <= as /\ (c + a) * s = cs + as /\ c * (s + y) = cs + cy
    BY <1>1, <1>2
<1> HIDE DEF cs, as, cy
<1> QED BY <1>3

\* Shares are redeemed for at most what they are worth.
LEMMA RedemptionIsFair ==
    ASSUME NEW c \in Int, NEW s \in Nat, NEW w \in Nat, NEW y \in Nat, s * w <= y * c
    PROVE  (c - w) * s >= c * (s - y)
<1>1. (c - w) * s = c * s - s * w /\ c * (s - y) = c * s - y * c
    OBVIOUS
<1> DEFINE cs == c * s
           sw == s * w
           yc == y * c
<1>2. cs \in Int /\ sw \in Int /\ yc \in Int /\ sw <= yc /\ (c - w) * s = cs - sw /\ c * (s - y) = cs - yc
    BY <1>1
<1> HIDE DEF cs, sw, yc
<1> QED BY <1>2

\* A step changes no shares, or issues or redeems them fairly.
LEMMA ShareSteps ==
    ASSUME IInv, BooksInv, [Next]_vars, pool'.totalYTokens # pool.totalYTokens, pool.supply > 0
    PROVE  IF Claim >= 0 THEN Claim' * pool.totalYTokens >= Claim * pool'.totalYTokens
           ELSE Claim' = Claim /\ pool'.totalYTokens < pool.totalYTokens
<1> DEFINE c == Claim
           s == pool.totalYTokens
           Fair == IF c >= 0 THEN Claim' * s >= c * pool'.totalYTokens
                   ELSE Claim' = c /\ pool'.totalYTokens < s
<1>1. c \in Int /\ s \in Nat /\ pool \in PoolType
    BY DEF BooksInv, PoolType, Claim
<1>2. ASSUME NEW u \in Lender, NEW a \in Amount, AddLiquidity(u, a)
      PROVE  Fair
    <2> DEFINE y == Quo(a * s, c)
    <2>1. a \in Nat /\ c # 0 /\ y >= 0
        BY <1>1, <1>2, PoolAssumption DEF AddLiquidity, GetYTokenAmount
    <2>2. a * s \in Nat
        BY <1>1, <2>1
    <2> HIDE DEF c
    <2>3. y \in Int /\ (c > 0 => y = (a * s) \div c) /\ (c < 0 => y <= 0)
        BY <1>1, <2>1, <2>2, Truncations
    <2> USE DEF c
    <2>4. Claim' = c + a /\ pool'.totalYTokens = s + y
        <3> DEFINE z == IF pool.supply = 0 THEN a ELSE GetYTokenAmount(a)
        <3>1. pool' = [pool EXCEPT !.status = IF pool.supply = 0 THEN "ACTIVE" ELSE @,
                           !.supply = @ + a, !.availableAmount = @ + a, !.totalYTokens = @ + z]
            BY <1>2 DEF AddLiquidity
        <3>2. z = y
            BY <1>1 DEF GetYTokenAmount, PoolType
        <3> HIDE DEF y, z
        <3>3. /\ pool'.availableAmount = pool.availableAmount + a /\ pool'.totalBorrowed = pool.totalBorrowed
              /\ pool'.totalReserve = pool.totalReserve /\ pool'.totalYTokens = s + y
            BY <1>1, <3>1, <3>2 DEF PoolType
        <3>4. /\ pool.availableAmount \in Nat /\ pool.totalBorrowed \in Nat /\ pool.totalReserve \in Nat
            BY <1>1 DEF PoolType
        <3>5. Claim' = (pool.availableAmount + a) + pool.totalBorrowed - pool.totalReserve
            BY <3>3 DEF Claim
        <3>6. c = pool.availableAmount + pool.totalBorrowed - pool.totalReserve
            BY DEF Claim
        <3> HIDE DEF c, s
        <3> QED BY <2>1, <3>3, <3>4, <3>5, <3>6
    <2> HIDE DEF c, s, y
    <2>5. CASE c > 0
        <3>1. c \in Nat \ {0}
            BY <1>1, <2>5
        <3>2. y \in Nat /\ c * y <= a * s
            <4> DEFINE n == a * s
            <4>1. n \in Nat /\ n \in Int
                BY <2>2
            <4>2. y = n \div c
                BY <2>5, <2>3
            <4> HIDE DEF n
            <4>3. y \in Nat /\ c * y <= n
                BY <3>1, <4>1, <4>2, Quotients, IntegerQuotients
            <4> QED BY <4>3 DEF n
        <3>3. (c + a) * s >= c * (s + y)
            BY <1>1, <2>1, <3>2, IssueIsFair
        <3> QED BY <1>1, <2>4, <2>5, <3>3
    <2>6. CASE c < 0
        <3>1. y = 0
            BY <2>1, <2>6, <2>3
        <3>2. pool'.totalYTokens = s
            BY <1>1, <2>4, <3>1
        <3>3. FALSE
            BY <3>2 DEF s
        <3> QED BY <3>3
    <2> QED BY <1>1, <2>1, <2>5, <2>6
<1>3. ASSUME NEW u \in Lender, NEW y \in 1..shares[u], RemoveLiquidity(u, y)
      PROVE  Fair
    <2>1. PICK w \in 0..pool.availableAmount :
              /\ w = Quo(y * c, s)
              /\ pool' = [pool EXCEPT !.supply = @ - w, !.availableAmount = @ - w, !.totalYTokens = @ - y]
        BY <1>3 DEF RemoveLiquidity, GetUnderlyingAssetAmount
    <2>2. w \in Nat /\ y \in Nat \ {0}
        <3>1. shares[u] \in Nat /\ pool.availableAmount \in Nat
            BY <1>1 DEF BooksInv, PoolType
        <3> QED BY <3>1
    <2>3. s \in Nat \ {0}
        <3>1. /\ shares' = [shares EXCEPT ![u] = shares[u] - y] /\ shares[u] - y \in Nat
              /\ shares[u] \in Nat
            BY <1>3 DEF RemoveLiquidity, BooksInv
        <3> DEFINE v == shares[u] - y
        <3>2. v \in Nat /\ shares' = [shares EXCEPT ![u] = v] /\ shares[u] - v = y
            BY <2>2, <3>1
        <3>3. SumFunction(shares') \in Nat /\ SumFunction(shares') = SumFunction(shares) - shares[u] + v
            <4> HIDE DEF v
            <4> QED BY <3>2, SharesFollow
        <3>4. SumFunction(shares) = s
            BY DEF BooksInv
        <3> QED BY <1>1, <2>2, <3>1, <3>2, <3>3, <3>4
    <2>4. Claim' = c - w /\ pool'.totalYTokens = s - y
        <3>1. /\ pool'.availableAmount = pool.availableAmount - w /\ pool'.totalBorrowed = pool.totalBorrowed
              /\ pool'.totalReserve = pool.totalReserve /\ pool'.totalYTokens = s - y
            BY <1>1, <2>1 DEF PoolType
        <3>2. /\ pool.availableAmount \in Nat /\ pool.totalBorrowed \in Nat /\ pool.totalReserve \in Nat
            BY <1>1 DEF PoolType
        <3>3. Claim' = (pool.availableAmount - w) + pool.totalBorrowed - pool.totalReserve
            BY <3>1 DEF Claim
        <3>4. c = pool.availableAmount + pool.totalBorrowed - pool.totalReserve
            BY DEF Claim
        <3> HIDE DEF c, s
        <3> QED BY <2>2, <3>1, <3>2, <3>3, <3>4
    <2> HIDE DEF c, s
    <2>5. y * c \in Int
        BY <1>1, <2>2
    <2>6. CASE c >= 0
        <3>1. y * c \in Nat
            BY <1>1, <2>2, <2>6
        <3>2. s \in Int /\ s # 0 /\ s > 0
            BY <2>3
        <3>3. w = (y * c) \div s
            BY <2>1, <3>1, <3>2, Truncations
        <3>4. s * w <= y * c
            BY <2>3, <2>5, <3>3, IntegerQuotients
        <3>5. (c - w) * s >= c * (s - y)
            BY <1>1, <2>2, <3>4, RedemptionIsFair
        <3> QED BY <1>1, <2>4, <2>6, <3>5
    <2>7. CASE c < 0
        <3> DEFINE yc == y * c
        <3>1. yc < 0
            BY <1>1, <2>2, <2>7
        <3>2. yc \in Int /\ w = Quo(yc, s)
            BY <2>1, <2>5
        <3> HIDE DEF yc
        <3>3. w <= 0
            BY <2>3, <3>1, <3>2, NegativeTruncations
        <3>4. w = 0
            BY <2>2, <3>3
        <3>5. Claim' = c /\ pool'.totalYTokens < s
            BY <1>1, <2>2, <2>4, <3>4
        <3> QED BY <1>1, <2>7, <3>5
    <2> QED BY <1>1, <2>6, <2>7
<1>4. ASSUME UNCHANGED pool PROVE FALSE
    BY <1>4
<1>5. ASSUME NEW l \in Loan, NEW m \in Maturity, NEW a \in Amount, NEW referred \in BOOLEAN,
             Approve(l, m, a, referred)
      PROVE  FALSE
    BY <1>1, <1>5 DEF Approve, PoolType
<1>6. ASSUME BeginBlock PROVE FALSE
    BY <1>1, <1>6 DEF BeginBlock, UpdatePool, PoolType
<1>7. ASSUME NEW p, NEW i, NEW f, NEW af, pool' = RepaidPool(p, i, f, af) PROVE FALSE
    BY <1>1, <1>7 DEF RepaidPool, PoolType
<1>8. ASSUME NEW l \in Loan, CompleteRepayment(l) PROVE FALSE
    BY <1>7, <1>8 DEF CompleteRepayment
<1>9. ASSUME NEW l \in Loan, Settle(l) PROVE FALSE
    BY <1>1, <1>9 DEF Settle, RepaidPool, PoolType
<1>10. ASSUME NEW paused, NEW m, NEW r, UpdatePoolConfig(paused, m, r) PROVE FALSE
    BY <1>1, <1>10 DEF UpdatePoolConfig, PoolType
<1>11. ASSUME NEW l \in Loan, Repay(l) \/ Liquidate(l) \/ \E a \in Amount : PayDebt(l, a) PROVE FALSE
    BY <1>4, <1>11 DEF Repay, Liquidate, PayDebt
<1> HIDE DEF c, s
<1> QED BY <1>2, <1>3, <1>4, <1>5, <1>6, <1>8, <1>9, <1>10, <1>11 DEF Next, vars, c, s

\* Deposits and withdrawals never lower what a share is worth to the others, for any amounts and
\* both truncations toward zero (GetYTokenAmount, GetUnderlyingAssetAmount); while the claim of the
\* shares is negative, none are issued and nothing is paid for those that are burned.
THEOREM NoDilutionHolds == Spec => NoDilution
<1>1. IInv /\ BooksInv /\ [Next]_vars
        => [pool'.totalYTokens # pool.totalYTokens /\ pool.supply > 0
              => IF Claim >= 0 THEN Claim' * pool.totalYTokens >= Claim * pool'.totalYTokens
                 ELSE Claim' = Claim /\ pool'.totalYTokens < pool.totalYTokens]_vars
    BY ShareSteps
<1>2. Init => BooksInv
    BY InitBooks
<1>3. IInv /\ BooksInv /\ [Next]_vars => BooksInv'
    BY NextBooks
<1> QED BY <1>1, <1>2, <1>3, Invariance, PTL DEF Spec, NoDilution
=============================================================================
