------------------------- MODULE Liquidation_proofs -------------------------
(***************************************************************************)
(* Theorems about module Liquidation, for any precision, prices, params,   *)
(* debts, collaterals and payments and any number of liquidations.         *)
(***************************************************************************)
EXTENDS Liquidation, FiniteSetTheorems, WellFoundedInduction, SequenceTheorems, TLAPS

USE DEF ValidParams, NewRecords, RecordOuts

----------------------------------------------------------------------------
(* Sums over finite sets *)

\* A set of subsets of S that contains every set whose proper subsets it contains is all of them.
LEMMA SubsetInduction ==
    ASSUME NEW S, IsFiniteSet(S), NEW A,
           \A T \in SUBSET S : (\A U \in SUBSET T : U # T => U \in A) => T \in A
    PROVE  \A T \in SUBSET S : T \in A
<1> DEFINE W == {T \in SUBSET S : T \notin A}
           R == StrictSubsetOrdering(S)
<1> SUFFICES ASSUME W # {} PROVE FALSE
    OBVIOUS
<1>1. IsWellFoundedOn(R, SUBSET S)
    <2>1. IsWellFoundedOn(R, FiniteSubsetsOf(S))
        BY FS_StrictSubsetOrderingWellFounded, Zenon
    <2>2. FiniteSubsetsOf(S) = SUBSET S
        BY FS_FiniteSubsetsOfFinite, Zenon
    <2> QED BY <2>1, <2>2, Zenon
<1>2. W \subseteq SUBSET S
    OBVIOUS
<1>3. \A T, U \in SUBSET S : U \subseteq T /\ U # T => <<U, T>> \in R
    BY DEF StrictSubsetOrdering
<1> HIDE DEF R
<1>4. PICK T \in W : \A U \in W : ~(<<U, T>> \in R)
    <2> DEFINE Q == SUBSET S
    <2>1. IsWellFoundedOn(R, Q)
        BY <1>1
    <2>2. W \subseteq Q /\ W # {}
        BY <1>2
    <2> HIDE DEF W, Q
    <2> QED BY ONLY <2>1, <2>2, WFMin, Zenon
<1>5. ASSUME NEW U \in SUBSET T, U # T PROVE U \in A
    <2>1. U \in SUBSET S /\ T \in SUBSET S
        BY <1>4
    <2>2. <<U, T>> \in R
        BY <1>3, <1>5, <2>1
    <2>3. U \notin W
        <3> HIDE DEF W
        <3> QED BY <1>4, <2>2
    <2> QED BY <2>1, <2>3
<1> QED BY <1>4, <1>5

\* The recursion that SumFunctionOnSet is defined by.
Pick(s) == CHOOSE x \in s : TRUE
Body(f, S, g) == [s \in SUBSET S |-> IF s = {} THEN 0 ELSE f[Pick(s)] + g[s \ {Pick(s)}]]
Iter(f, S) == CHOOSE g : g = Body(f, S, g)

LEMMA SumIsIter == \A f, S : SumFunctionOnSet(f, S) = Iter(f, S)[S]
    BY DEF SumFunctionOnSet, FoldFunctionOnSet, MapThenFoldSet, Iter, Body, Pick

LEMMA PickIn == \A s : s # {} => Pick(s) \in s
    BY DEF Pick

\* What the recursion computes for a set does not depend on the set it was started from.
LEMMA IterLocal ==
    ASSUME NEW f, NEW T, IsFiniteSet(T), NEW S, NEW P, T \subseteq S, T \subseteq P,
           NEW g, g = Body(f, S, g), NEW h, h = Body(f, P, h)
    PROVE  g[T] = h[T]
<1> DEFINE A == {U \in SUBSET T : g[U] = h[U]}
<1>1. \A U \in SUBSET T : (\A V \in SUBSET U : V # U => V \in A) => U \in A
    <2> SUFFICES ASSUME NEW U \in SUBSET T, \A V \in SUBSET U : V # U => V \in A PROVE g[U] = h[U]
        OBVIOUS
    <2>1. /\ g[U] = IF U = {} THEN 0 ELSE f[Pick(U)] + g[U \ {Pick(U)}]
          /\ h[U] = IF U = {} THEN 0 ELSE f[Pick(U)] + h[U \ {Pick(U)}]
        <3>1. U \in SUBSET S /\ U \in SUBSET P
            OBVIOUS
        <3> QED BY <3>1, Zenon DEF Body
    <2>2. CASE U = {}
        BY <2>1, <2>2
    <2>3. CASE U # {}
        <3>1. U \ {Pick(U)} \in A
            BY <2>3, PickIn
        <3> QED BY <2>1, <3>1
    <2> QED BY <2>2, <2>3
<1>2. \A U \in SUBSET T : U \in A
    <2> HIDE DEF A
    <2> QED BY <1>1, SubsetInduction
<1> QED BY <1>2

\* The recursion has a solution.
LEMMA IterExists ==
    ASSUME NEW f, NEW S, IsFiniteSet(S)
    PROVE  Iter(f, S) = Body(f, S, Iter(f, S))
<1> DEFINE A == {T \in SUBSET S : \E g : g = Body(f, T, g)}
<1>1. ASSUME NEW T \in A PROVE Iter(f, T) = Body(f, T, Iter(f, T))
    BY <1>1, Zenon DEF Iter
<1>2. \A T \in SUBSET S : (\A U \in SUBSET T : U # T => U \in A) => T \in A
    <2> SUFFICES ASSUME NEW T \in SUBSET S, \A U \in SUBSET T : U # T => U \in A
                 PROVE  \E g : g = Body(f, T, g)
        OBVIOUS
    <2> DEFINE h == [s \in SUBSET T |-> IF s = {} THEN 0
                                        ELSE f[Pick(s)] + Iter(f, s \ {Pick(s)})[s \ {Pick(s)}]]
    <2>1. ASSUME NEW u \in SUBSET T, u # T PROVE h[u] = Iter(f, u)[u]
        <3>1. Iter(f, u) = Body(f, u, Iter(f, u))
            BY <1>1, <2>1
        <3>2. Iter(f, u)[u] = IF u = {} THEN 0 ELSE f[Pick(u)] + Iter(f, u)[u \ {Pick(u)}]
            BY <3>1, Zenon DEF Body
        <3>3. CASE u = {}
            BY <3>2, <3>3
        <3>4. CASE u # {}
            <4> DEFINE v == u \ {Pick(u)}
            <4>1. v \subseteq u /\ v \in SUBSET T /\ v # T
                BY <3>4, PickIn
            <4>2. Iter(f, v) = Body(f, v, Iter(f, v))
                BY <1>1, <4>1
            <4>3. IsFiniteSet(v)
                BY <4>1, FS_Subset
            <4>4. Iter(f, u)[v] = Iter(f, v)[v]
                <5> HIDE DEF v
                <5> QED BY <3>1, <4>1, <4>2, <4>3, IterLocal
            <4> QED BY <3>2, <3>4, <4>4
        <3> QED BY <3>3, <3>4
    <2>2. ASSUME NEW s \in SUBSET T, s # {}
          PROVE  h[s \ {Pick(s)}] = Iter(f, s \ {Pick(s)})[s \ {Pick(s)}]
        <3>1. s \ {Pick(s)} \in SUBSET T /\ s \ {Pick(s)} # T
            BY <2>2, PickIn
        <3> HIDE DEF h
        <3> QED BY <2>1, <3>1
    <2>3. h = [s \in SUBSET T |-> IF s = {} THEN 0 ELSE f[Pick(s)] + h[s \ {Pick(s)}]]
        <3> DEFINE k == [s \in SUBSET T |-> IF s = {} THEN 0 ELSE f[Pick(s)] + h[s \ {Pick(s)}]]
        <3>1. DOMAIN h = DOMAIN k
            OBVIOUS
        <3>2. \A s \in SUBSET T : h[s] = k[s]
            BY <2>2
        <3> QED BY <3>1, <3>2
    <2> HIDE DEF h
    <2> QED BY <2>3 DEF Body
<1>3. S \in A
    <2> HIDE DEF A
    <2> QED BY <1>2, SubsetInduction
<1> QED BY <1>1, <1>3

\* A sum is the sum without some element, and that element.
LEMMA SumPicks ==
    ASSUME NEW f, NEW S, IsFiniteSet(S)
    PROVE  /\ S = {} => SumFunctionOnSet(f, S) = 0
           /\ S # {} => SumFunctionOnSet(f, S) = f[Pick(S)] + SumFunctionOnSet(f, S \ {Pick(S)})
<1> DEFINE g == Iter(f, S)
           T == S \ {Pick(S)}
<1>1. g = Body(f, S, g)
    BY IterExists
<1> HIDE DEF g
<1>2. g[S] = IF S = {} THEN 0 ELSE f[Pick(S)] + g[S \ {Pick(S)}]
    BY <1>1, Zenon DEF Body
<1>3. IsFiniteSet(T) /\ T \subseteq S
    BY FS_Subset
<1>4. Iter(f, T) = Body(f, T, Iter(f, T))
    BY <1>3, IterExists
<1>5. g[T] = Iter(f, T)[T]
    <2> HIDE DEF T
    <2> QED BY <1>1, <1>3, <1>4, IterLocal
<1> QED BY <1>2, <1>5, SumIsIter DEF g

\* Sums of integers are integers, and sums of natural numbers are natural numbers.
LEMMA SumType ==
    ASSUME NEW f, NEW S, IsFiniteSet(S)
    PROVE  /\ (\A x \in S : f[x] \in Int) => SumFunctionOnSet(f, S) \in Int
           /\ (\A x \in S : f[x] \in Nat) => SumFunctionOnSet(f, S) \in Nat
<1> DEFINE Sum(T) == SumFunctionOnSet(f, T)
           A == {T \in SUBSET S : /\ (\A x \in T : f[x] \in Int) => Sum(T) \in Int
                                  /\ (\A x \in T : f[x] \in Nat) => Sum(T) \in Nat}
<1>1. \A T \in SUBSET S : (\A U \in SUBSET T : U # T => U \in A) => T \in A
    <2> SUFFICES ASSUME NEW T \in SUBSET S, \A U \in SUBSET T : U # T => U \in A PROVE T \in A
        OBVIOUS
    <2>1. IsFiniteSet(T)
        BY FS_Subset
    <2>2. CASE T = {}
        <3>1. Sum(T) = 0
            BY <2>1, <2>2, SumPicks
        <3> HIDE DEF Sum
        <3> QED BY <3>1
    <2>3. CASE T # {}
        <3>1. T \ {Pick(T)} \in A /\ Pick(T) \in T
            BY <2>3, PickIn
        <3>2. Sum(T) = f[Pick(T)] + Sum(T \ {Pick(T)})
            BY <2>1, <2>3, SumPicks
        <3> HIDE DEF Sum
        <3> QED BY <3>1, <3>2
    <2> QED BY <2>2, <2>3
<1>2. S \in A
    <2> HIDE DEF A
    <2> QED BY <1>1, SubsetInduction
<1> QED BY <1>2

\* The sum depends on the values of the elements only.
LEMMA SumSame ==
    ASSUME NEW f, NEW g, NEW S, IsFiniteSet(S), \A x \in S : f[x] = g[x]
    PROVE  SumFunctionOnSet(f, S) = SumFunctionOnSet(g, S)
<1> DEFINE A == {T \in SUBSET S : SumFunctionOnSet(f, T) = SumFunctionOnSet(g, T)}
<1>1. \A T \in SUBSET S : (\A U \in SUBSET T : U # T => U \in A) => T \in A
    <2> SUFFICES ASSUME NEW T \in SUBSET S, \A U \in SUBSET T : U # T => U \in A PROVE T \in A
        OBVIOUS
    <2>1. IsFiniteSet(T)
        BY FS_Subset
    <2>2. CASE T = {}
        BY <2>1, <2>2, SumPicks
    <2>3. CASE T # {}
        <3>1. T \ {Pick(T)} \in A /\ Pick(T) \in T
            BY <2>3, PickIn
        <3>2. /\ SumFunctionOnSet(f, T) = f[Pick(T)] + SumFunctionOnSet(f, T \ {Pick(T)})
              /\ SumFunctionOnSet(g, T) = g[Pick(T)] + SumFunctionOnSet(g, T \ {Pick(T)})
            BY <2>1, <2>3, SumPicks
        <3> QED BY <3>1, <3>2
    <2> QED BY <2>2, <2>3
<1>2. S \in A
    <2> HIDE DEF A
    <2> QED BY <1>1, SubsetInduction
<1> QED BY <1>2

\* Any element can be taken out of a sum of integers first.
LEMMA SumRemove ==
    ASSUME NEW f, NEW S, IsFiniteSet(S), \A x \in S : f[x] \in Int, NEW e \in S
    PROVE  SumFunctionOnSet(f, S) = f[e] + SumFunctionOnSet(f, S \ {e})
<1> DEFINE Sum(T) == SumFunctionOnSet(f, T)
           A == {T \in SUBSET S : \A x \in T : Sum(T) = f[x] + Sum(T \ {x})}
<1>1. \A T \in SUBSET S : (\A U \in SUBSET T : U # T => U \in A) => T \in A
    <2> SUFFICES ASSUME NEW T \in SUBSET S, \A U \in SUBSET T : U # T => U \in A, NEW x \in T
                 PROVE  Sum(T) = f[x] + Sum(T \ {x})
        OBVIOUS
    <2> DEFINE y == Pick(T)
    <2>1. y \in T /\ Sum(T) = f[y] + Sum(T \ {y})
        BY FS_Subset, PickIn, SumPicks
    <2> HIDE DEF y
    <2>2. CASE x = y
        BY <2>1, <2>2
    <2>3. CASE x # y
        <3>1. T \ {x} \in A /\ T \ {y} \in A
            BY <2>1
        <3>2. Sum(T \ {x}) = f[y] + Sum((T \ {x}) \ {y}) /\ Sum(T \ {y}) = f[x] + Sum((T \ {y}) \ {x})
            BY <2>1, <2>3, <3>1
        <3>3. (T \ {x}) \ {y} = (T \ {y}) \ {x}
            OBVIOUS
        <3>4. IsFiniteSet((T \ {y}) \ {x})
            BY FS_Subset
        <3>5. Sum((T \ {y}) \ {x}) \in Int
            BY <3>4, SumType
        <3> DEFINE a == Sum((T \ {y}) \ {x})
        <3>6. Sum(T) = f[y] + (f[x] + a) /\ Sum(T \ {x}) = f[y] + a
            BY <2>1, <3>2, <3>3
        <3>7. a \in Int /\ f[x] \in Int /\ f[y] \in Int
            BY <2>1, <3>5
        <3> HIDE DEF Sum, a
        <3> QED BY <3>6, <3>7
    <2> QED BY <2>2, <2>3
<1>2. S \in A
    <2> HIDE DEF A
    <2> QED BY <1>1, SubsetInduction
<1> QED BY <1>2

----------------------------------------------------------------------------
(* Arithmetic *)

\* Min of two integers.
LEMMA MinPair ==
    ASSUME NEW a \in Int, NEW b \in Int
    PROVE  Min({a, b}) = IF a <= b THEN a ELSE b
<1> DEFINE m == IF a <= b THEN a ELSE b
           P(x) == x \in {a, b} /\ \A y \in {a, b} : x <= y
<1>1. P(m)
    OBVIOUS
<1>2. \A x : P(x) => x = m
    OBVIOUS
<1>3. (CHOOSE x : P(x)) = m
    <2> HIDE DEF P, m
    <2> QED BY <1>1, <1>2
<1> QED BY <1>3 DEF Min

\* A quotient times the divisor does not exceed the dividend.
LEMMA QuotientFloor ==
    ASSUME NEW x \in Nat, NEW d \in Nat \ {0}
    PROVE  x \div d \in Nat /\ (x \div d) * d <= x
    OBVIOUS

\* Multiplication by a natural is monotonic.
LEMMA TimesMonotonic ==
    ASSUME NEW a \in Int, NEW b \in Int, NEW d \in Nat, a <= b
    PROVE  a * d <= b * d
    OBVIOUS

\* A positive factor can be cancelled.
LEMMA TimesCancel ==
    ASSUME NEW a \in Int, NEW b \in Int, NEW d \in Nat \ {0}, a * d <= b * d
    PROVE  a <= b
    OBVIOUS

\* MulTruncate of naturals is a natural.
LEMMA MulTruncateType ==
    ASSUME NEW n \in Nat, NEW d \in Nat
    PROVE  MulTruncate(n, d) \in Nat
<1>1. Precision \in Nat \ {0} /\ n * d \in Nat
    BY LiquidationAssumption
<1> QED BY <1>1, QuotientFloor DEF MulTruncate

\* QuoTruncate by a positive number is a natural, at most one half of a last digit
\* (in units of 1 / Precision) above the exact quotient.
LEMMA QuoTruncateBound ==
    ASSUME NEW n \in Nat, NEW d \in Nat \ {0}
    PROVE  /\ QuoTruncate(n, d) \in Nat
           /\ QuoTruncate(n, d) * Precision <= ((n * Precision * Precision) \div d) + 1
<1> DEFINE x == n * Precision * Precision
           q == x \div d
           R == IF 2 * (x % d) < d \/ (2 * (x % d) = d /\ q % 2 = 0) THEN q ELSE q + 1
<1>1. Precision \in Nat \ {0}
    BY LiquidationAssumption
<1>2. x \in Nat
    BY <1>1
<1>3. q \in Nat
    <2> HIDE DEF x
    <2> QED BY <1>2, QuotientFloor
<1>4. R \in Nat /\ R <= q + 1
    <2> HIDE DEF q, x
    <2> QED BY <1>3
<1>5. QuoTruncate(n, d) = R \div Precision
    BY DEF QuoTruncate
<1>6. R \div Precision \in Nat /\ (R \div Precision) * Precision <= R
    <2> HIDE DEF R
    <2> QED BY <1>1, <1>4, QuotientFloor
<1> HIDE DEF R, q
<1> QED BY <1>1, <1>3, <1>4, <1>5, <1>6 DEF q

\* The debt computed back from less collateral than n buys at price d does not exceed n.
LEMMA RoundTrip ==
    ASSUME NEW n \in Nat, NEW d \in Nat \ {0}, NEW c \in Nat, c < QuoTruncate(n, d)
    PROVE  MulTruncate(c, d) <= n
<1> DEFINE P == Precision
           x == n * P * P
           q == x \div d
           T == QuoTruncate(n, d)
<1>1. P \in Nat \ {0}
    BY LiquidationAssumption
<1>2. n * P \in Nat /\ x \in Nat
    BY <1>1
<1>3. T \in Nat /\ T * P <= q + 1
    BY QuoTruncateBound
<1>4. q \in Nat /\ q * d <= x
    <2> HIDE DEF x
    <2> QED BY <1>2, QuotientFloor
<1>5. c * P <= q
    <2>1. (c + 1) * P <= T * P
        <3> HIDE DEF T, P
        <3>1. c + 1 <= T
            BY <1>3 DEF T
        <3> QED BY <1>1, <1>3, <3>1, TimesMonotonic
    <2>2. (c + 1) * P = c * P + P /\ c * P \in Nat
        BY <1>1
    <2> HIDE DEF T, q, P
    <2>3. T * P \in Int
        BY <1>1, <1>3
    <2> QED BY <1>1, <1>3, <1>4, <2>1, <2>2, <2>3
<1>6. (c * P) * d <= q * d
    <2>1. c * P \in Int
        BY <1>1
    <2> HIDE DEF P, q
    <2> QED BY <1>4, <1>5, <2>1, TimesMonotonic
<1>7. (c * d) * P <= (n * P) * P
    <2>1. (c * P) * d = (c * d) * P
        BY <1>1
    <2>2. (c * P) * d \in Int /\ q * d \in Int
        BY <1>1, <1>4
    <2> QED BY <1>2, <1>4, <1>6, <2>1, <2>2
<1>8. c * d \in Nat /\ c * d <= n * P
    <2> HIDE DEF P
    <2>1. c * d \in Nat
        OBVIOUS
    <2> QED BY <1>1, <1>2, <1>7, <2>1, TimesCancel
<1> DEFINE k == MulTruncate(c, d)
<1>9. k \in Nat /\ k * P <= c * d
    BY <1>1, <1>8, QuotientFloor DEF MulTruncate
<1>10. k * P <= n * P
    <2> HIDE DEF k, P
    <2> QED BY <1>1, <1>2, <1>8, <1>9
<1> HIDE DEF k, P
<1> QED BY <1>1, <1>9, <1>10, TimesCancel DEF k

----------------------------------------------------------------------------
(* The inductive invariant *)

Fields == {"status", "actual", "debt", "unliquidated", "liquidatedCollateral",
           "liquidatedDebt", "bonus", "fee"}

\* The counters of a liquidation.  After the settlement transaction has been built,
\* unliquidated is its change output and no longer part of the balance.
GoodLiquidation(l) ==
    /\ DOMAIN l = Fields
    /\ l.status \in Status
    /\ l.debt \in Nat /\ l.liquidatedDebt \in Nat /\ l.liquidatedDebt <= l.debt
    /\ l.status \in {"LIQUIDATING", "LIQUIDATED"} =>
          /\ l.actual \in Nat /\ l.unliquidated \in Nat /\ l.liquidatedCollateral \in Nat
          /\ l.liquidatedCollateral + l.unliquidated + NetworkFeeReserve = l.actual

\* Payments are computed from the price and the params, which are well-formed.
IInv ==
    /\ DOMAIN liquidation = Id
    /\ \A i \in Id : GoodLiquidation(liquidation[i])
    /\ price \in Price \cup {NoPrice}
    /\ params \in Params

\* Initially there are no liquidations.
LEMMA InitInv == Init => IInv
<1> SUFFICES ASSUME Init PROVE IInv
    OBVIOUS
<1>1. GoodLiquidation(NoLiquidation)
    BY DEF GoodLiquidation, NoLiquidation, Fields, Status
<1> QED BY <1>1 DEF Init, IInv

\* A new liquidation reserves the network fee out of the output of the CET.
LEMMA CreateStep ==
    ASSUME IInv, NEW i \in Id, NEW c \in Collateral, NEW d \in Debt, CreateLiquidation(i, c, d)
    PROVE  IInv'
<1> DEFINE n == [NoLiquidation EXCEPT !.status = "LIQUIDATING", !.actual = c, !.debt = d,
                                      !.unliquidated = c - NetworkFeeReserve]
<1>1. c \in Nat /\ NetworkFeeReserve \in Nat /\ c - NetworkFeeReserve \in Nat /\ d \in Nat
    BY LiquidationAssumption
<1>2. GoodLiquidation(n)
    BY <1>1 DEF GoodLiquidation, NoLiquidation, Fields, Status
<1>3. liquidation' = [liquidation EXCEPT ![i] = n] /\ UNCHANGED <<price, params>>
    BY DEF CreateLiquidation
<1> HIDE DEF n
<1> QED BY <1>2, <1>3 DEF IInv

\* A purchase takes no more than the remaining debt and the remaining collateral.
LEMMA PurchaseBound ==
    ASSUME NEW l, GoodLiquidation(l), l.status = "LIQUIDATING", price \in Price,
           NEW d \in Payment
    PROVE  LET p == Purchase(l, d) IN
           /\ p.debt \in Nat /\ p.debt <= Remaining(l)
           /\ p.collateral \in Nat /\ p.collateral <= l.unliquidated
<1> DEFINE debt == Min({d, Remaining(l)})
           c == GetCollateralAmount(debt, price)
<1>1. d \in Nat /\ price \in Nat \ {0} /\ l.unliquidated \in Nat /\ Remaining(l) \in Nat
    BY LiquidationAssumption DEF GoodLiquidation, Remaining
<1>2. debt \in Nat /\ debt <= Remaining(l)
    BY <1>1, MinPair
<1> HIDE DEF debt
<1>3. c \in Nat
    BY <1>1, <1>2, QuoTruncateBound DEF GetCollateralAmount
<1>4. CASE l.unliquidated < c
    <2>1. GetDebtAmount(l.unliquidated, price) \in Nat
        BY <1>1, MulTruncateType DEF GetDebtAmount
    <2>2. GetDebtAmount(l.unliquidated, price) <= debt
        BY <1>1, <1>2, <1>4, RoundTrip DEF GetDebtAmount, GetCollateralAmount
    <2>3. Purchase(l, d) = [debt |-> GetDebtAmount(l.unliquidated, price),
                            collateral |-> l.unliquidated]
        BY <1>4 DEF Purchase, debt
    <2> QED BY <1>1, <1>2, <2>1, <2>2, <2>3
<1>5. CASE ~(l.unliquidated < c)
    <2>1. Purchase(l, d) = [debt |-> debt, collateral |-> c]
        BY <1>5 DEF Purchase, debt
    <2> QED BY <1>1, <1>2, <1>3, <1>5, <2>1
<1> QED BY <1>4, <1>5

\* The bonus comes out of the collateral that is left, and the protocol fee out of the bonus.
LEMMA PurchaseAmounts ==
    ASSUME IInv, NEW i \in Id, NEW d \in Payment, HandleLiquidation(i, d)
    PROVE  LET l == liquidation[i]
               p == Purchase(l, d)
               b == Bonus(l, p)
               f == MulTruncate(b, params.fee)
               t == GetCollateralAmount(MulTruncate(p.debt, params.bonus), price)
           IN  /\ GoodLiquidation(l) /\ l.status = "LIQUIDATING" /\ price \in Price
               /\ p.debt \in Nat /\ p.debt <= Remaining(l)
               /\ p.collateral \in Nat /\ p.collateral <= l.unliquidated
               /\ b \in Nat /\ b <= l.unliquidated - p.collateral /\ b <= t
               /\ f \in Nat /\ f <= b
<1> DEFINE l == liquidation[i]
           p == Purchase(l, d)
           b == Bonus(l, p)
           f == MulTruncate(b, params.fee)
           t == GetCollateralAmount(MulTruncate(p.debt, params.bonus), price)
<1>1. GoodLiquidation(l) /\ l.status = "LIQUIDATING" /\ price \in Price
    BY DEF IInv, HandleLiquidation, Acceptable
<1>2. /\ p.debt \in Nat /\ p.debt <= Remaining(l)
      /\ p.collateral \in Nat /\ p.collateral <= l.unliquidated
    <2> HIDE DEF l
    <2> QED BY <1>1, PurchaseBound
<1>3. /\ params.bonus \in Nat /\ params.fee \in Nat /\ params.fee < Precision
      /\ price \in Nat \ {0} /\ Precision \in Nat \ {0} /\ l.unliquidated \in Nat
    BY <1>1, LiquidationAssumption DEF IInv, GoodLiquidation
<1> HIDE DEF l, p
<1>4. b \in Nat /\ b <= l.unliquidated - p.collateral /\ b <= t
    <2>1. MulTruncate(p.debt, params.bonus) \in Nat
        BY <1>2, <1>3, MulTruncateType
    <2>2. t \in Nat
        BY <1>3, <2>1, QuoTruncateBound DEF GetCollateralAmount
    <2>3. l.unliquidated - p.collateral \in Nat
        BY <1>2, <1>3
    <2>4. b = Min({t, l.unliquidated - p.collateral})
        BY DEF Bonus
    <2> HIDE DEF t, b
    <2> QED BY <2>2, <2>3, <2>4, MinPair
<1> HIDE DEF b
<1>5. f \in Nat /\ f <= b
    <2>1. f \in Nat /\ f * Precision <= b * params.fee
        <3>1. b * params.fee \in Nat
            BY <1>3, <1>4
        <3> QED BY <1>3, <3>1, QuotientFloor DEF MulTruncate
    <2> HIDE DEF f
    <2>2. params.fee * b <= Precision * b
        BY <1>3, <1>4, TimesMonotonic
    <2>3. params.fee * b = b * params.fee /\ Precision * b = b * Precision
          /\ b * params.fee \in Nat /\ b * Precision \in Nat /\ f * Precision \in Nat
        BY <1>3, <1>4, <2>1
    <2>4. f * Precision <= b * Precision
        BY <2>1, <2>2, <2>3
    <2> QED BY <1>3, <1>4, <2>1, <2>4, TimesCancel
<1> HIDE DEF f, t
<1> QED BY <1>1, <1>2, <1>4, <1>5 DEF l, p, b, f, t

\* A payment moves collateral from the unliquidated to the liquidated part.
LEMMA LiquidateStep ==
    ASSUME IInv, NEW i \in Id, NEW d \in Payment, HandleLiquidation(i, d)
    PROVE  IInv'
<1> DEFINE l == liquidation[i]
           p == Purchase(l, d)
           b == Bonus(l, p)
           f == MulTruncate(b, params.fee)
           n == Charged(l, p, b, f)
<1>1. GoodLiquidation(l) /\ l.status = "LIQUIDATING"
    BY PurchaseAmounts
<1>2. /\ p.debt \in Nat /\ p.debt <= Remaining(l)
      /\ p.collateral \in Nat /\ p.collateral <= l.unliquidated
    BY PurchaseAmounts
<1>3. /\ l.unliquidated \in Nat /\ l.liquidatedCollateral \in Nat /\ l.liquidatedDebt \in Nat
      /\ l.debt \in Nat /\ l.actual \in Nat /\ DOMAIN l = Fields
      /\ l.liquidatedCollateral + l.unliquidated + NetworkFeeReserve = l.actual
    BY <1>1 DEF GoodLiquidation
<1>4. b \in Nat /\ b <= l.unliquidated - p.collateral
    BY PurchaseAmounts
<1>5. liquidation' = [liquidation EXCEPT ![i] = n] /\ UNCHANGED <<price, params>>
    BY DEF HandleLiquidation
<1>6. GoodLiquidation(n)
    <2> HIDE DEF l, p, b, f
    <2>1. /\ DOMAIN n = Fields /\ n.status = l.status /\ n.debt = l.debt /\ n.actual = l.actual
          /\ n.liquidatedDebt = l.liquidatedDebt + p.debt
          /\ n.liquidatedCollateral = l.liquidatedCollateral + p.collateral + b
          /\ n.unliquidated = l.unliquidated - p.collateral - b
        BY <1>3 DEF Charged, Fields
    <2>2. l.liquidatedDebt + p.debt <= l.debt
        BY <1>2, <1>3 DEF Remaining
    <2> HIDE DEF n
    <2>3. NetworkFeeReserve \in Nat
        BY LiquidationAssumption
    <2> QED BY <1>1, <1>2, <1>3, <1>4, <2>1, <2>2, <2>3 DEF GoodLiquidation
<1> HIDE DEF n
<1> QED BY <1>5, <1>6 DEF IInv

\* The end blocker changes the status, and unliquidated only with a settlement transaction.
LEMMA EndBlockStep == IInv /\ EndBlock => IInv'
<1> SUFFICES ASSUME IInv, EndBlock PROVE IInv'
    OBVIOUS
<1>1. ASSUME NEW i \in Id PROVE GoodLiquidation(Completed(i))
    <2> DEFINE l == liquidation[i]
               m == Pending(l)
    <2>1. GoodLiquidation(l)
        BY DEF IInv
    <2>2. GoodLiquidation(m)
        <3> HIDE DEF l
        <3> QED BY <2>1 DEF Pending, GoodLiquidation, Fields, Status
    <2>3. CASE Built(i) = NoTx
        BY <2>2, <2>3 DEF Completed
    <2>4. CASE Built(i) # NoTx
        <3> DEFINE n == [m EXCEPT !.status = "SETTLING", !.unliquidated = Built(i).change]
        <3>1. Completed(i) = n
            BY <2>4 DEF Completed
        <3> HIDE DEF m
        <3> QED BY <2>2, <3>1 DEF GoodLiquidation, Fields, Status
    <2> QED BY <2>3, <2>4
<1> QED BY <1>1 DEF IInv, EndBlock

\* A signed settlement transaction ends the liquidation.
LEMMA SettledStep ==
    ASSUME IInv, NEW i \in Id, HandleSettlementSignatures(i)
    PROVE  IInv'
<1> DEFINE l == liquidation[i]
           n == [l EXCEPT !.status = "SETTLED"]
<1>1. GoodLiquidation(l)
    BY DEF IInv
<1>2. GoodLiquidation(n)
    <2> HIDE DEF l
    <2> QED BY <1>1 DEF GoodLiquidation, Fields, Status
<1>3. liquidation' = [liquidation EXCEPT ![i] = n] /\ UNCHANGED <<price, params>>
    BY DEF HandleSettlementSignatures
<1> HIDE DEF n
<1> QED BY <1>2, <1>3 DEF IInv

\* Every step keeps the invariant.
LEMMA NextInv == IInv /\ [Next]_vars => IInv'
<1> SUFFICES ASSUME IInv, [Next]_vars PROVE IInv'
    OBVIOUS
<1>1. ASSUME NEW i \in Id, NEW c \in Collateral, NEW d \in Debt, CreateLiquidation(i, c, d)
      PROVE  IInv'
    BY <1>1, CreateStep
<1>2. ASSUME NEW i \in Id, NEW d \in Payment, HandleLiquidation(i, d) PROVE IInv'
    BY <1>2, LiquidateStep
<1>3. CASE EndBlock
    BY <1>3, EndBlockStep
<1>4. ASSUME NEW i \in Id, HandleSettlementSignatures(i) PROVE IInv'
    BY <1>4, SettledStep
<1>5. ASSUME NEW p \in Price \cup {NoPrice}, SetPrice(p) PROVE IInv'
    BY <1>5 DEF SetPrice, IInv
<1>6. ASSUME NEW r \in FeeRate, SetFeeRate(r) PROVE IInv'
    BY <1>6 DEF SetFeeRate, IInv
<1>7. ASSUME NEW q \in Params, UpdateParams(q) PROVE IInv'
    BY <1>7 DEF UpdateParams, IInv
<1>8. CASE UNCHANGED vars
    BY <1>8 DEF vars, IInv
<1> QED BY <1>1, <1>2, <1>3, <1>4, <1>5, <1>6, <1>7, <1>8 DEF Next

\* The invariant holds of every behaviour.
LEMMA Invariance == Spec => []IInv
    BY InitInv, NextInv, PTL DEF Spec

----------------------------------------------------------------------------
(* Theorems *)

\* The collateral sold, the collateral left and the reserve always add up to the output
\* of the CET, for all prices and roundings, and liquidators never pay more than the debt,
\* although the payment is computed back from the collateral when there is not enough of it
\* (HandleLiquidation of x/liquidation).
THEOREM AuctionBalancesHolds == Spec => []AuctionBalances
<1>1. IInv => CollateralIsConserved
    BY DEF IInv, GoodLiquidation, CollateralIsConserved
<1>2. IInv => DebtIsNotOverpaid
    BY DEF IInv, GoodLiquidation, DebtIsNotOverpaid
<1>3. IInv => AuctionBalances
    BY <1>1, <1>2 DEF AuctionBalances
<1> QED BY <1>3, Invariance, PTL
----------------------------------------------------------------------------
(* Purchases at the price *)

\* A number is its quotient times the divisor and its remainder.
LEMMA QuotientRemainder ==
    ASSUME NEW x \in Nat, NEW d \in Nat \ {0}
    PROVE  x \div d \in Nat /\ x % d \in Nat /\ x % d < d /\ x = (x \div d) * d + (x % d)
    OBVIOUS

\* Quotients by a positive number are monotonic.
LEMMA QuotientMonotonic ==
    ASSUME NEW a \in Nat, NEW b \in Nat, a <= b, NEW P \in Nat \ {0}
    PROVE  a \div P <= b \div P
<1> DEFINE u == a \div P
           v == b \div P
<1>1. u \in Nat /\ v \in Nat /\ u * P <= a
    BY QuotientFloor
<1>2. b % P < P /\ b % P \in Nat /\ b = v * P + (b % P)
    BY QuotientRemainder
<1> HIDE DEF u, v
<1> SUFFICES ASSUME v + 1 <= u PROVE FALSE
    BY <1>1 DEF u, v
<1>3. (v + 1) * P <= u * P
    BY <1>1, TimesMonotonic
<1>4. (v + 1) * P = v * P + P /\ v * P \in Nat /\ u * P \in Nat
    BY <1>1
<1> QED BY <1>1, <1>2, <1>3, <1>4

\* QuoTruncate of n by d, and the number of units of 1 / Precision that it truncates.
LEMMA QuoTruncateRounds ==
    ASSUME NEW n \in Nat, NEW d \in Nat \ {0}
    PROVE  \E R \in Nat :
              /\ QuoTruncate(n, d) = R \div Precision
              /\ 2 * (R * d) <= 2 * (n * Precision * Precision) + d
              /\ 2 * (n * Precision * Precision) <= 2 * (R * d) + d
<1> DEFINE x == n * Precision * Precision
           q == x \div d
           r == x % d
           R == IF 2 * r < d \/ (2 * r = d /\ q % 2 = 0) THEN q ELSE q + 1
<1>1. Precision \in Nat \ {0}
    BY LiquidationAssumption
<1>2. x \in Nat
    BY <1>1
<1>3. q \in Nat /\ r \in Nat /\ r < d /\ x = q * d + r
    <2> HIDE DEF x
    <2> QED BY <1>2, QuotientRemainder
<1>4. QuoTruncate(n, d) = R \div Precision
    BY DEF QuoTruncate
<1>5. R \in Nat /\ 2 * (R * d) <= 2 * x + d /\ 2 * x <= 2 * (R * d) + d
    <2> HIDE DEF x, q, r
    <2>1. q * d \in Nat /\ (q + 1) * d = q * d + d
        BY <1>3
    <2>2. CASE R = q
        BY <1>3, <2>1, <2>2
    <2>3. CASE R = q + 1
        BY <1>3, <2>1, <2>3
    <2> QED BY <2>2, <2>3
<1> HIDE DEF R, x
<1> QED BY <1>4, <1>5 DEF x

\* A larger debt never buys less collateral, although quotients are rounded half to even.
LEMMA QuoTruncateMonotonic ==
    ASSUME NEW m \in Nat, NEW n \in Nat, m <= n, NEW d \in Nat \ {0}
    PROVE  QuoTruncate(m, d) <= QuoTruncate(n, d)
<1> DEFINE x(k) == k * Precision * Precision
           q(k) == x(k) \div d
           r(k) == x(k) % d
           R(k) == IF 2 * r(k) < d \/ (2 * r(k) = d /\ q(k) % 2 = 0) THEN q(k) ELSE q(k) + 1
<1>1. Precision \in Nat \ {0}
    BY LiquidationAssumption
<1>2. x(m) \in Nat /\ x(n) \in Nat /\ x(m) <= x(n)
    <2>1. m * Precision <= n * Precision /\ m * Precision \in Nat /\ n * Precision \in Nat
        BY <1>1, TimesMonotonic
    <2> QED BY <1>1, <2>1, TimesMonotonic
<1>3. \A k \in {m, n} : q(k) \in Nat /\ r(k) \in Nat /\ r(k) < d /\ x(k) = q(k) * d + r(k)
    <2>1. \A y \in Nat : y \div d \in Nat /\ y % d \in Nat /\ y % d < d /\ y = (y \div d) * d + (y % d)
        BY QuotientRemainder
    <2> HIDE DEF x
    <2> QED BY <1>2, <2>1
<1>4. q(m) < q(n) \/ (q(m) = q(n) /\ r(m) <= r(n))
    <2> HIDE DEF x, q, r
    <2>1. CASE q(n) < q(m)
        <3>1. (q(n) + 1) * d <= q(m) * d
            BY <1>3, <2>1, TimesMonotonic
        <3>2. (q(n) + 1) * d = q(n) * d + d /\ q(n) * d \in Nat /\ q(m) * d \in Nat
            BY <1>3
        <3> QED BY <1>2, <1>3, <3>1, <3>2
    <2>2. CASE q(n) = q(m)
        <3>1. q(n) * d = q(m) * d /\ q(n) * d \in Nat
            BY <1>3, <2>2
        <3> QED BY <1>2, <1>3, <2>2, <3>1
    <2> QED BY <1>3, <2>1, <2>2
<1>5. R(m) \in Nat /\ R(n) \in Nat /\ R(m) <= R(n)
    <2> HIDE DEF x, q, r
    <2> QED BY <1>3, <1>4
<1>6. QuoTruncate(m, d) = R(m) \div Precision /\ QuoTruncate(n, d) = R(n) \div Precision
    BY DEF QuoTruncate
<1>7. \A a, b \in Nat : a <= b => a \div Precision <= b \div Precision
    BY <1>1, QuotientMonotonic
<1> HIDE DEF R
<1> QED BY <1>5, <1>6, <1>7

\* The debt of a liquidation that is left is acceptable as long as the end blocker leaves
\* the auction open and the least payment is worth more than dust.
LEMMA RemainingIsAcceptable ==
    ASSUME IInv, NEW i \in Id, Completed(i).status = "LIQUIDATING", price # NoPrice,
           ~IsDust(GetCollateralAmount(MinLiquidationDebt(liquidation[i]), price))
    PROVE  Acceptable(liquidation[i], Remaining(liquidation[i]))
<1> DEFINE l == liquidation[i]
           rem == Remaining(l)
           c == GetCollateralAmount(rem, price)
           p == Purchase(l, rem)
           b == Bonus(l, p)
<1>1. l.status = "LIQUIDATING" /\ ~Exhausted(l)
    <2>1. Built(i) = NoTx
        <3> SUFFICES ASSUME Built(i) # NoTx PROVE FALSE
            OBVIOUS
        <3>1. Pending(l).status = "LIQUIDATED"
            BY DEF Built
        <3>2. GoodLiquidation(l)
            BY DEF IInv
        <3>3. DOMAIN Pending(l) = Fields
            <4> HIDE DEF l
            <4> QED BY <3>2 DEF Pending, GoodLiquidation, Fields
        <3>4. Completed(i) = [Pending(l) EXCEPT !.status = "SETTLING",
                                                !.unliquidated = Built(i).change]
            BY DEF Completed
        <3>5. Completed(i).status = "SETTLING"
            <4> DEFINE m == Pending(l)
            <4> HIDE DEF m
            <4> QED BY <3>3, <3>4 DEF Fields, m
        <3> QED BY <3>5
    <2>2. Pending(l).status = "LIQUIDATING"
        BY <2>1 DEF Completed
    <2>3. GoodLiquidation(l)
        BY DEF IInv
    <2> HIDE DEF l
    <2> QED BY <2>2, <2>3 DEF Pending, GoodLiquidation, Fields
<1>2. /\ l.unliquidated \in Nat /\ rem \in Nat /\ price \in Nat \ {0} /\ l.debt \in Nat
      /\ params.min \in Nat /\ params.bonus \in Nat /\ Dust \in Nat \ {0}
    BY <1>1, LiquidationAssumption DEF IInv, GoodLiquidation, Remaining
<1>3. MinLiquidationDebt(l) \in Nat
    BY <1>2, MulTruncateType DEF MinLiquidationDebt
<1> HIDE DEF l
<1>4. l.unliquidated # 0 /\ rem # 0 /\ l.unliquidated >= Dust
    BY <1>1, <1>2 DEF Exhausted, IsDust
<1> HIDE DEF rem
<1>5. rem >= Min({MinLiquidationDebt(l), rem})
    BY <1>2, <1>3, MinPair
<1>6. c \in Nat /\ c >= Dust
    <2>1. c \in Nat
        BY <1>2, QuoTruncateBound DEF GetCollateralAmount
    <2>2. CASE rem < MinLiquidationDebt(l)
        BY <1>1, <1>2, <2>1, <2>2 DEF Exhausted, IsDust, rem
    <2>3. CASE MinLiquidationDebt(l) <= rem
        <3> DEFINE m == QuoTruncate(MinLiquidationDebt(l), price)
        <3>1. m \in Nat
            BY <1>2, <1>3, QuoTruncateBound
        <3>2. m >= Dust
            BY <1>2, <3>1 DEF IsDust, GetCollateralAmount, l
        <3>3. m <= QuoTruncate(rem, price)
            BY <1>2, <1>3, <2>3, QuoTruncateMonotonic
        <3> HIDE DEF m
        <3> QED BY <1>2, <2>1, <3>1, <3>2, <3>3 DEF GetCollateralAmount
    <2> QED BY <1>2, <1>3, <2>2, <2>3
<1>7. p.debt \in Nat /\ p.collateral \in Nat /\ p.collateral >= Dust /\ p.collateral <= l.unliquidated
    <2>1. Min({rem, Remaining(l)}) = rem
        BY <1>2, MinPair DEF rem
    <2>2. CASE l.unliquidated < c
        <3>1. p = [debt |-> GetDebtAmount(l.unliquidated, price), collateral |-> l.unliquidated]
            BY <2>1, <2>2 DEF Purchase
        <3>2. GetDebtAmount(l.unliquidated, price) \in Nat
            BY <1>2, MulTruncateType DEF GetDebtAmount
        <3> HIDE DEF p
        <3> QED BY <1>2, <1>4, <3>1, <3>2
    <2>3. CASE ~(l.unliquidated < c)
        <3>1. p = [debt |-> rem, collateral |-> c]
            BY <2>1, <2>3 DEF Purchase
        <3> HIDE DEF p, c
        <3> QED BY <1>2, <1>6, <2>3, <3>1
    <2> QED BY <2>2, <2>3
<1> HIDE DEF p, c
<1>8. b \in Nat
    <2>1. GetCollateralAmount(MulTruncate(p.debt, params.bonus), price) \in Nat
        BY <1>2, <1>7, MulTruncateType, QuoTruncateBound DEF GetCollateralAmount
    <2>2. l.unliquidated - p.collateral \in Nat
        BY <1>2, <1>7
    <2> QED BY <2>1, <2>2, MinPair DEF Bonus
<1> HIDE DEF b
<1>9. ~IsDust(p.collateral + b)
    BY <1>2, <1>7, <1>8 DEF IsDust
<1> QED BY <1>1, <1>4, <1>5, <1>9 DEF Acceptable, p, b, rem, l

\* An auction that the end blocker leaves open can be taken up by a liquidator, for all prices
\* and params at which the minimum payment is worth more than dust: an offer of all of the
\* remaining debt is accepted (handlePendingLiquidations and HandleLiquidation).
THEOREM OpenAuctionIsLiquidatableHolds == Spec => []OpenAuctionIsLiquidatable
<1>1. IInv => OpenAuctionIsLiquidatable
    <2> SUFFICES ASSUME IInv, NEW i \in Id, Completed(i).status = "LIQUIDATING", price # NoPrice,
                        ~IsDust(GetCollateralAmount(MinLiquidationDebt(liquidation[i]), price))
                 PROVE  \E d \in 1..Remaining(liquidation[i]) : Acceptable(liquidation[i], d)
        BY DEF OpenAuctionIsLiquidatable
    <2> DEFINE rem == Remaining(liquidation[i])
    <2>1. Acceptable(liquidation[i], rem)
        BY RemainingIsAcceptable
    <2>2. rem \in Nat /\ rem # 0
        BY <2>1 DEF IInv, GoodLiquidation, Remaining, Acceptable
    <2>3. rem \in 1..rem
        BY <2>2
    <2> QED BY <2>1, <2>3
<1> QED BY <1>1, Invariance, PTL
----------------------------------------------------------------------------
(* The price of a purchase *)

\* The collateral that n buys at price d is worth no more than n, as long as the rounding of
\* the last digit is worth less than one unit; one more unit of it is worth at least n.
LEMMA QuoTruncateIsFair ==
    ASSUME NEW n \in Nat, NEW d \in Nat \ {0}
    PROVE  /\ d < 2 * (Precision * Precision) => MulTruncate(QuoTruncate(n, d), d) <= n
           /\ MulTruncate(QuoTruncate(n, d) + 1, d) >= n
<1> DEFINE P == Precision
           T == QuoTruncate(n, d)
<1>1. P \in Nat \ {0}
    BY LiquidationAssumption
<1>2. PICK R \in Nat : /\ T = R \div P
                       /\ 2 * (R * d) <= 2 * (n * P * P) + d
                       /\ 2 * (n * P * P) <= 2 * (R * d) + d
    BY QuoTruncateRounds
<1>3. T \in Nat /\ T * P <= R /\ R < T * P + P
    <2> HIDE DEF P, T
    <2>1. T \in Nat /\ R % P \in Nat /\ R % P < P /\ R = T * P + (R % P)
        BY <1>1, <1>2, QuotientRemainder
    <2>2. T * P \in Nat
        BY <1>1, <2>1
    <2> QED BY <1>1, <2>1, <2>2
<1>4. MulTruncate(T, d) = (T * d) \div P /\ MulTruncate(T + 1, d) = ((T + 1) * d) \div P
    BY DEF MulTruncate
<1> HIDE DEF P, T
<1>5. n * P \in Nat /\ n * P * P \in Nat /\ T * d \in Nat /\ R * d \in Nat /\ P * P \in Nat /\ T * P \in Nat
    BY <1>1, <1>3
<1>6. ASSUME d < 2 * (P * P) PROVE MulTruncate(T, d) <= n
    <2> DEFINE k == (T * d) \div P
    <2>1. k \in Nat /\ k * P <= T * d
        BY <1>1, <1>5, QuotientFloor
    <2> HIDE DEF k
    <2> SUFFICES ASSUME n + 1 <= k PROVE FALSE
        BY <1>4, <2>1 DEF k
    <2>2. (n + 1) * P <= k * P
        BY <1>1, <2>1, TimesMonotonic
    <2>3. (n + 1) * P \in Nat /\ k * P \in Nat
        BY <1>1, <2>1
    <2>4. (n + 1) * P <= T * d
        BY <1>5, <2>1, <2>2, <2>3
    <2>5. ((n + 1) * P) * P <= (T * d) * P
        BY <1>1, <1>5, <2>3, <2>4, TimesMonotonic
    <2>6. ((n + 1) * P) * P = n * P * P + P * P
        BY <1>1
    <2>7. (T * P) * d <= R * d
        BY <1>3, <1>5, TimesMonotonic
    <2>8. (T * d) * P = (T * P) * d /\ (T * P) * d \in Nat
        BY <1>1, <1>3
    <2> QED BY <1>2, <1>5, <1>6, <2>5, <2>6, <2>7, <2>8
<1>7. MulTruncate(T + 1, d) >= n
    <2>1. (R + 1) * d <= (T * P + P) * d
        BY <1>1, <1>3, <1>5, TimesMonotonic
    <2>2. (R + 1) * d = R * d + d
        BY <1>5
    <2>3. (T * P + P) * d = ((T + 1) * d) * P
        BY <1>1, <1>3
    <2>4. (T + 1) * d \in Nat
        BY <1>3
    <2>5. ((T + 1) * d) * P \in Nat
        BY <1>1, <2>4
    <2>6. (n * P) * P <= ((T + 1) * d) * P
        BY <1>2, <1>5, <2>1, <2>2, <2>3, <2>5
    <2>7. n * P <= (T + 1) * d
        BY <1>1, <1>5, <2>4, <2>6, TimesCancel
    <2>8. (n * P) \div P <= ((T + 1) * d) \div P
        BY <1>1, <1>5, <2>4, <2>7, QuotientMonotonic
    <2>9. (n * P) \div P = n
        <3> DEFINE q == (n * P) \div P
                   r == (n * P) % P
        <3>1. q \in Nat /\ r \in Nat /\ r < P /\ n * P = q * P + r
            BY <1>1, <1>5, QuotientRemainder
        <3> HIDE DEF q, r
        <3>2. q * P \in Nat
            BY <1>1, <3>1
        <3>3. q <= n
            <4>1. q * P <= n * P
                BY <1>5, <3>1, <3>2
            <4> QED BY <1>1, <3>1, <4>1, TimesCancel
        <3>4. ~(q + 1 <= n)
            <4> SUFFICES ASSUME q + 1 <= n PROVE FALSE
                OBVIOUS
            <4>1. (q + 1) * P <= n * P
                BY <1>1, <3>1, TimesMonotonic
            <4>2. (q + 1) * P = q * P + P
                BY <1>1, <3>1
            <4> QED BY <1>1, <1>5, <3>1, <3>2, <4>1, <4>2
        <3>5. q = n
            BY <3>1, <3>3, <3>4
        <3> QED BY <3>5 DEF q
    <2>10. ((T + 1) * d) \div P \in Nat
        BY <1>1, <2>4, QuotientFloor
    <2> QED BY <1>4, <2>8, <2>9, <2>10
<1> QED BY <1>6, <1>7 DEF P, T

\* MulTruncate is monotonic.
LEMMA MulTruncateMonotonic ==
    ASSUME NEW a \in Nat, NEW b \in Nat, a <= b, NEW d \in Nat
    PROVE  MulTruncate(a, d) <= MulTruncate(b, d)
<1>1. a * d <= b * d /\ a * d \in Nat /\ b * d \in Nat /\ Precision \in Nat \ {0}
    BY TimesMonotonic, LiquidationAssumption
<1> QED BY <1>1, QuotientMonotonic DEF MulTruncate

\* The records of a liquidation are a sequence.
RecordsTypeOK ==
    /\ DOMAIN records = Id
    /\ \A i \in Id : records[i] \in Seq([debt : Nat, collateral : Nat, bonus : Nat])

\* A purchase is at the price, and the record of it is appended to the others.
LEMMA RecordIsFair ==
    ASSUME IInv, RecordsTypeOK, \A p \in Price : p < 2 * (Precision * Precision),
           NEW i \in Id, NEW d \in Payment, HandleLiquidation(i, d)
    PROVE  /\ RecordsTypeOK'
           /\ \A j \in Id \ {i} : records'[j] = records[j]
           /\ LET r == Last(records'[i])
              IN  /\ GetDebtAmount(r.collateral, price) <= r.debt
                  /\ GetDebtAmount(r.collateral + 1, price) >= r.debt
                  /\ GetDebtAmount(r.bonus, price) <= MulTruncate(r.debt, params.bonus)
<1> DEFINE l == liquidation[i]
           p == Purchase(l, d)
           b == Bonus(l, p)
           f == MulTruncate(b, params.fee)
           debt == Min({d, Remaining(l)})
           c == GetCollateralAmount(debt, price)
           r == [debt |-> p.debt, collateral |-> p.collateral, bonus |-> b - f]
<1>1. GoodLiquidation(l) /\ l.status = "LIQUIDATING" /\ price \in Price
    BY PurchaseAmounts
<1>2. records' = [records EXCEPT ![i] = Append(records[i], r)]
    BY DEF HandleLiquidation
<1>2a. /\ b \in Nat /\ f \in Nat /\ f <= b
       /\ b <= GetCollateralAmount(MulTruncate(p.debt, params.bonus), price)
    BY PurchaseAmounts
<1>3. /\ d \in Nat /\ price \in Nat \ {0} /\ l.unliquidated \in Nat /\ Remaining(l) \in Nat
      /\ params.bonus \in Nat /\ params.fee \in Nat /\ params.fee < Precision
      /\ Precision \in Nat \ {0} /\ price < 2 * (Precision * Precision)
    BY <1>1, LiquidationAssumption DEF IInv, GoodLiquidation, Remaining
<1>4. debt \in Nat
    BY <1>3, MinPair
<1> HIDE DEF debt
<1>5. /\ p.debt \in Nat /\ p.collateral \in Nat /\ p.collateral <= l.unliquidated
      /\ GetDebtAmount(p.collateral, price) <= p.debt
      /\ GetDebtAmount(p.collateral + 1, price) >= p.debt
    <2>1. p.debt \in Nat /\ p.collateral \in Nat /\ p.collateral <= l.unliquidated
        <3> HIDE DEF l
        <3> QED BY <1>1, PurchaseBound
    <2>2. CASE l.unliquidated < c
        <3>1. p = [debt |-> GetDebtAmount(l.unliquidated, price), collateral |-> l.unliquidated]
            BY <2>2 DEF Purchase, debt
        <3>2. GetDebtAmount(l.unliquidated, price) \in Nat
            BY <1>3, MulTruncateType DEF GetDebtAmount
        <3>3. GetDebtAmount(l.unliquidated, price) <= GetDebtAmount(l.unliquidated + 1, price)
            BY <1>3, MulTruncateMonotonic DEF GetDebtAmount
        <3>4. GetDebtAmount(l.unliquidated + 1, price) \in Nat
            <4> DEFINE u == l.unliquidated + 1
            <4>1. u \in Nat
                BY <1>3
            <4> HIDE DEF u
            <4>2. GetDebtAmount(u, price) \in Nat
                BY <1>3, <4>1, MulTruncateType DEF GetDebtAmount
            <4> QED BY <4>2 DEF u
        <3> HIDE DEF p, l
        <3> QED BY <2>1, <3>1, <3>2, <3>3, <3>4
    <2>3. CASE ~(l.unliquidated < c)
        <3>1. p = [debt |-> debt, collateral |-> c]
            BY <2>3 DEF Purchase, debt
        <3> HIDE DEF p, l
        <3> QED BY <1>3, <1>4, <2>1, <3>1, QuoTruncateIsFair DEF GetDebtAmount, GetCollateralAmount
    <2> QED BY <2>2, <2>3
<1> HIDE DEF p, l
<1> DEFINE m == MulTruncate(p.debt, params.bonus)
           t == GetCollateralAmount(m, price)
<1>6. m \in Nat /\ t \in Nat
    BY <1>3, <1>5, MulTruncateType, QuoTruncateBound DEF GetCollateralAmount
<1> HIDE DEF b, f
<1>9. b - f \in Nat /\ b - f <= t
    <2>1. b <= t
        BY <1>2a
    <2> HIDE DEF t
    <2> QED BY <1>2a, <1>6, <2>1
<1>10. GetDebtAmount(b - f, price) <= m
    <2>1. GetDebtAmount(t, price) <= m
        <3> HIDE DEF m
        <3> QED BY <1>3, <1>6, QuoTruncateIsFair DEF GetDebtAmount, GetCollateralAmount
    <2>2. GetDebtAmount(b - f, price) <= GetDebtAmount(t, price)
        <3> HIDE DEF t
        <3> QED BY <1>3, <1>6, <1>9, MulTruncateMonotonic DEF GetDebtAmount
    <2>3. GetDebtAmount(b - f, price) \in Nat /\ GetDebtAmount(t, price) \in Nat
        <3> HIDE DEF t
        <3> QED BY <1>3, <1>6, <1>9, MulTruncateType DEF GetDebtAmount
    <2> HIDE DEF m, t
    <2> QED BY <1>6, <2>1, <2>2, <2>3
<1>11. r \in [debt : Nat, collateral : Nat, bonus : Nat]
    BY <1>5, <1>9
<1>12. /\ records[i] \in Seq([debt : Nat, collateral : Nat, bonus : Nat]) /\ DOMAIN records = Id
       /\ r.debt = p.debt /\ r.collateral = p.collateral /\ r.bonus = b - f
    BY DEF RecordsTypeOK
<1> HIDE DEF r
<1>13. /\ records'[i] = Append(records[i], r)
       /\ records'[i] \in Seq([debt : Nat, collateral : Nat, bonus : Nat])
       /\ Last(records'[i]) = r
    BY <1>2, <1>11, <1>12 DEF Last
<1>14. RecordsTypeOK' /\ \A j \in Id \ {i} : records'[j] = records[j]
    BY <1>2, <1>13 DEF RecordsTypeOK
<1> HIDE DEF m
<1> QED BY <1>5, <1>10, <1>12, <1>13, <1>14 DEF m

\* Every purchase is at the price, with and without a shortage of collateral, and the bonus never
\* exceeds its factor (HandleLiquidation), for all prices below 2 * Precision^2.  Above it, half
\* of the last digit of a quotient is worth more than one unit of debt; with the 18 decimals of
\* a LegacyDec that is a price of 2 * 10^18.
THEOREM PurchaseIsFairHolds ==
    ASSUME \A p \in Price : p < 2 * (Precision * Precision)
    PROVE  Spec => PurchaseIsFair
<1> DEFINE Fair == \A i \in Id : Len(records'[i]) > Len(records[i]) =>
                      LET r == Last(records'[i])
                      IN  /\ GetDebtAmount(r.collateral, price) <= r.debt
                          /\ GetDebtAmount(r.collateral + 1, price) >= r.debt
                          /\ GetDebtAmount(r.bonus, price) <= MulTruncate(r.debt, params.bonus)
<1>1. Init => RecordsTypeOK
    BY DEF Init, RecordsTypeOK
<1>2. ASSUME IInv, RecordsTypeOK, [Next]_vars
      PROVE  RecordsTypeOK' /\ [Fair]_vars
    <2>1. ASSUME NEW i \in Id, NEW d \in Payment, HandleLiquidation(i, d)
          PROVE  RecordsTypeOK' /\ Fair
        <3> DEFINE G(r) == /\ GetDebtAmount(r.collateral, price) <= r.debt
                           /\ GetDebtAmount(r.collateral + 1, price) >= r.debt
                           /\ GetDebtAmount(r.bonus, price) <= MulTruncate(r.debt, params.bonus)
        <3>1. /\ RecordsTypeOK' /\ G(Last(records'[i]))
              /\ \A j \in Id \ {i} : records'[j] = records[j]
            BY <1>2, <2>1, RecordIsFair
        <3> HIDE DEF G
        <3>2. ASSUME NEW j \in Id, Len(records'[j]) > Len(records[j]) PROVE G(Last(records'[j]))
            <4>1. CASE j = i
                BY <3>1, <4>1
            <4>2. CASE j # i
                <5>1. records'[j] = records[j] /\ Len(records[j]) \in Nat
                    BY <1>2, <3>1, <4>2 DEF RecordsTypeOK
                <5> QED BY <3>2, <5>1
            <4> QED BY <4>1, <4>2
        <3> QED BY <3>1, <3>2 DEF G
    <2>2. CASE UNCHANGED records
        <3>1. ASSUME NEW j \in Id PROVE ~(Len(records'[j]) > Len(records[j]))
            BY <1>2, <2>2 DEF RecordsTypeOK
        <3> QED BY <1>2, <2>2, <3>1 DEF RecordsTypeOK
    <2>3. UNCHANGED records \/ \E i \in Id, d \in Payment : HandleLiquidation(i, d)
        BY <1>2 DEF Next, vars, CreateLiquidation, EndBlock, HandleSettlementSignatures,
                    SetPrice, SetFeeRate, UpdateParams
    <2> HIDE DEF Fair
    <2> QED BY <2>1, <2>2, <2>3
<1> HIDE DEF Fair
<1>3. Spec => [][Fair]_vars
    BY <1>1, <1>2, Invariance, PTL DEF Spec
<1> QED BY <1>3 DEF PurchaseIsFair, Fair
----------------------------------------------------------------------------
(* Settlements *)

\* Max of two integers.
LEMMA MaxPair ==
    ASSUME NEW a \in Int, NEW b \in Int
    PROVE  Max({a, b}) = IF a >= b THEN a ELSE b
<1> DEFINE m == IF a >= b THEN a ELSE b
           P(x) == x \in {a, b} /\ \A y \in {a, b} : x >= y
<1>1. P(m)
    OBVIOUS
<1>2. \A x : P(x) => x = m
    OBVIOUS
<1>3. (CHOOSE x : P(x)) = m
    <2> HIDE DEF P, m
    <2> QED BY <1>1, <1>2
<1> QED BY <1>3 DEF Max

\* The sum of a sequence grows by what is appended.
LEMMA SumAppend ==
    ASSUME NEW n \in Nat, NEW f, NEW g, DOMAIN f = 1..n, DOMAIN g = 1..(n + 1),
           \A k \in 1..n : f[k] \in Int /\ g[k] = f[k], g[n + 1] \in Int
    PROVE  SumFunction(f) \in Int /\ SumFunction(g) = SumFunction(f) + g[n + 1]
<1> DEFINE S == 1..n
           T == 1..(n + 1)
<1>1. IsFiniteSet(S) /\ IsFiniteSet(T)
    BY FS_Interval
<1>2. T \ {n + 1} = S /\ n + 1 \in T /\ \A k \in T : g[k] \in Int
    OBVIOUS
<1> HIDE DEF S, T
<1>3. SumFunctionOnSet(g, T) = g[n + 1] + SumFunctionOnSet(g, S)
    BY <1>1, <1>2, SumRemove
<1>4. SumFunctionOnSet(f, S) = SumFunctionOnSet(g, S) /\ SumFunctionOnSet(f, S) \in Int
    BY <1>1, SumSame, SumType DEF S
<1> QED BY <1>3, <1>4 DEF SumFunction, S, T

\* The sum of a function follows a change of one of its values.
LEMMA SumUpdate ==
    ASSUME NEW S, IsFiniteSet(S), NEW f, NEW g, DOMAIN f = S, DOMAIN g = S, NEW e \in S,
           \A x \in S : f[x] \in Int /\ g[x] \in Int, \A x \in S \ {e} : g[x] = f[x]
    PROVE  SumFunction(f) \in Int /\ SumFunction(g) = SumFunction(f) - f[e] + g[e]
<1>1. IsFiniteSet(S \ {e})
    BY FS_Subset
<1>2. SumFunctionOnSet(f, S \ {e}) = SumFunctionOnSet(g, S \ {e}) /\ SumFunctionOnSet(f, S \ {e}) \in Int
    BY <1>1, SumSame, SumType
<1>3. /\ SumFunctionOnSet(f, S) = f[e] + SumFunctionOnSet(f, S \ {e})
      /\ SumFunctionOnSet(g, S) = g[e] + SumFunctionOnSet(g, S \ {e})
    BY SumRemove
<1> QED BY <1>2, <1>3 DEF SumFunction

LiquidationRecord == [debt : Nat, collateral : Nat, bonus : Nat]
SettlementTx == [outs : Seq(Nat), protocolOut : Nat, change : Nat, rate : Int]
LiquidationType == [status : Status, actual : Nat, debt : Nat, unliquidated : Nat,
                    liquidatedCollateral : Nat, liquidatedDebt : Nat, bonus : Nat, fee : Nat]
RecordDebts(rs) == [k \in 1..Len(rs) |-> rs[k].debt]

\* The totals of a liquidation are those of its records.
Booked(l, rs) ==
    /\ l \in LiquidationType /\ rs \in Seq(LiquidationRecord)
    /\ l.liquidatedCollateral = l.fee + SumFunction(RecordOuts(rs))
    /\ l.liquidatedDebt = SumFunction(RecordDebts(rs))
    /\ l.status = "NONE" => l = NoLiquidation /\ rs = <<>>

\* The network fee of tx, paid out of the output of the CET, relays tx and is bounded.
FeeIsBounded(actual, tx) ==
    LET fee == actual - Paid(tx) - tx.change
    IN  /\ fee >= VirtualSize(Outputs(tx) + (IF tx.change > 0 THEN 1 ELSE 0))
        /\ fee <= Max({NetworkFeeReserve, tx.rate * VirtualSize(Outputs(tx) + 1)}) + 2 * (Dust - 1)

\* A settlement transaction pays the records.
Settles(tx, l, rs) == tx.outs = RecordOuts(rs) /\ FeeIsBounded(l.actual, tx)
Relayed(l, rs, tx) ==
    /\ tx \in SettlementTx
    /\ l.status \in {"SETTLING", "SETTLED"} => Settles(tx, l, rs)

\* What the module account holds for l.
HeldFor(l) == IF l.status = "SETTLED" THEN 0 ELSE l.liquidatedDebt

\* The parts of SettlementIsRight, by liquidation, and the types.
SInv ==
    /\ DOMAIN records = Id /\ DOMAIN settlement = Id
    /\ \A i \in Id : Booked(liquidation[i], records[i])
    /\ \A i \in Id : Relayed(liquidation[i], records[i], settlement[i])
    /\ feeRate \in FeeRate \cup {0}
    /\ held = SumFunction([i \in Id |-> HeldFor(liquidation[i])])

\* Initially there are no records and no payments.
LEMMA InitSInv == Init => SInv
<1> SUFFICES ASSUME Init PROVE SInv
    OBVIOUS
<1>1. SumFunction([k \in 1..0 |-> 0]) = 0
    <2>1. IsFiniteSet({}) /\ DOMAIN [k \in 1..0 |-> 0] = {}
        BY FS_EmptySet
    <2> QED BY <2>1, SumPicks DEF SumFunction
<1>2. RecordOuts(<<>>) = [k \in 1..0 |-> 0] /\ RecordDebts(<<>>) = [k \in 1..0 |-> 0]
    BY DEF RecordDebts
<1>3. Booked(NoLiquidation, <<>>)
    <2> HIDE DEF RecordOuts
    <2> QED BY <1>1, <1>2 DEF Booked, NoLiquidation, LiquidationType, Status
<1>4. Relayed(NoLiquidation, <<>>, NoTx)
    BY DEF Relayed, NoLiquidation, NoTx, SettlementTx
<1>5. SumFunction([i \in Id |-> HeldFor(NoLiquidation)]) = 0
    <2> DEFINE f == [i \in Id |-> HeldFor(NoLiquidation)]
    <2>1. \A i \in Id : f[i] = 0
        BY DEF HeldFor, NoLiquidation
    <2> HIDE DEF f
    <2> DEFINE A == {T \in SUBSET Id : SumFunctionOnSet(f, T) = 0}
    <2>2. IsFiniteSet(Id)
        BY LiquidationAssumption
    <2>3. \A T \in SUBSET Id : (\A U \in SUBSET T : U # T => U \in A) => T \in A
        <3> SUFFICES ASSUME NEW T \in SUBSET Id, \A U \in SUBSET T : U # T => U \in A
                     PROVE  SumFunctionOnSet(f, T) = 0
            OBVIOUS
        <3>1. IsFiniteSet(T)
            BY <2>2, FS_Subset
        <3>2. CASE T = {}
            BY <3>1, <3>2, SumPicks
        <3>3. CASE T # {}
            <4>1. T \ {Pick(T)} \in A /\ f[Pick(T)] = 0
                BY <2>1, <3>3, PickIn
            <4> QED BY <3>1, <3>3, <4>1, SumPicks
        <3> QED BY <3>2, <3>3
    <2>4. Id \in A
        <3> HIDE DEF A
        <3> QED BY <2>2, <2>3, SubsetInduction
    <2>5. DOMAIN f = Id
        BY DEF f
    <2> QED BY <2>4, <2>5 DEF SumFunction, f
<1>6. [i \in Id |-> HeldFor(liquidation[i])] = [i \in Id |-> HeldFor(NoLiquidation)]
    BY DEF Init
<1> QED BY <1>3, <1>4, <1>5, <1>6 DEF Init, SInv

\* What is held for a liquidation, and for all of them, is no negative amount.
LEMMA HeldType ==
    ASSUME SInv
    PROVE  held \in Nat /\ \A i \in Id : HeldFor(liquidation[i]) \in Nat
<1> DEFINE f == [i \in Id |-> HeldFor(liquidation[i])]
<1>1. \A l, rs : Booked(l, rs) => HeldFor(l) \in Nat
    BY DEF Booked, HeldFor, LiquidationType
<1>2. \A i \in Id : f[i] \in Nat
    BY <1>1 DEF SInv
<1>3. DOMAIN f = Id /\ IsFiniteSet(Id) /\ held = SumFunction(f)
    BY LiquidationAssumption DEF SInv
<1>4. \A i \in Id : HeldFor(liquidation[i]) \in Nat
    BY <1>2
<1> HIDE DEF f
<1> QED BY <1>2, <1>3, <1>4, SumType DEF SumFunction

\* One liquidation, its records and what is held for it change.
LEMMA OneChanges ==
    ASSUME SInv, IInv, NEW i \in Id, NEW n, NEW rs, liquidation' = [liquidation EXCEPT ![i] = n],
           DOMAIN records' = Id, \A j \in Id : records'[j] = IF j = i THEN rs ELSE records[j],
           UNCHANGED <<settlement, feeRate>>,
           Booked(n, rs), Relayed(n, rs, settlement[i]),
           held' = held - HeldFor(liquidation[i]) + HeldFor(n)
    PROVE  SInv'
<1> DEFINE f == [j \in Id |-> HeldFor(liquidation[j])]
           g == [j \in Id |-> HeldFor(liquidation'[j])]
<1>1. DOMAIN liquidation = Id /\ IsFiniteSet(Id)
    BY LiquidationAssumption DEF IInv
<1>2. \A j \in Id : liquidation'[j] = IF j = i THEN n ELSE liquidation[j]
    BY <1>1
<1>4. \A j \in Id : Booked(liquidation'[j], records'[j])
    BY <1>2 DEF SInv
<1>5. \A j \in Id : Relayed(liquidation'[j], records'[j], settlement'[j])
    BY <1>2 DEF SInv
<1>6. \A j \in Id : f[j] \in Int /\ g[j] \in Int
    <2>1. \A l, s : Booked(l, s) => HeldFor(l) \in Int
        BY DEF Booked, HeldFor, LiquidationType
    <2> QED BY <1>4, <2>1 DEF SInv
<1>7. \A j \in Id \ {i} : g[j] = f[j]
    BY <1>2
<1>8. f[i] = HeldFor(liquidation[i]) /\ g[i] = HeldFor(n) /\ DOMAIN f = Id /\ DOMAIN g = Id
    BY <1>2
<1> HIDE DEF f, g
<1>9. SumFunction(g) = SumFunction(f) - f[i] + g[i]
    BY <1>1, <1>6, <1>7, <1>8, SumUpdate
<1>10. held' = SumFunction(g)
    BY <1>8, <1>9 DEF SInv, f
<1> QED BY <1>4, <1>5, <1>10 DEF SInv, g

\* A new liquidation has no records.
LEMMA CreateSInv ==
    ASSUME SInv, IInv, NEW i \in Id, NEW c \in Collateral, NEW d \in Debt, CreateLiquidation(i, c, d)
    PROVE  SInv'
<1> DEFINE n == [NoLiquidation EXCEPT !.status = "LIQUIDATING", !.actual = c, !.debt = d,
                                      !.unliquidated = c - NetworkFeeReserve]
<1>1. c \in Nat /\ NetworkFeeReserve \in Nat /\ c - NetworkFeeReserve \in Nat /\ d \in Nat
    BY LiquidationAssumption
<1>2. liquidation[i] = NoLiquidation /\ records[i] = <<>> /\ Booked(NoLiquidation, <<>>)
    BY DEF SInv, Booked, CreateLiquidation
<1>3. /\ n \in LiquidationType /\ n.liquidatedCollateral = NoLiquidation.liquidatedCollateral
      /\ n.fee = NoLiquidation.fee /\ n.liquidatedDebt = NoLiquidation.liquidatedDebt
      /\ n.status = "LIQUIDATING"
    BY <1>1 DEF NoLiquidation, LiquidationType, Status
<1>3a. liquidation' = [liquidation EXCEPT ![i] = n]
    BY DEF CreateLiquidation
<1> HIDE DEF n
<1>4. Booked(n, <<>>)
    <2> HIDE DEF RecordOuts
    <2> QED BY <1>2, <1>3 DEF Booked
<1>5. Relayed(n, <<>>, settlement[i])
    BY <1>3 DEF SInv, Relayed
<1>6. HeldFor(n) = 0 /\ HeldFor(liquidation[i]) = 0
    BY <1>2, <1>3 DEF HeldFor, NoLiquidation
<1>7. held \in Int
    BY HeldType
<1>8. /\ DOMAIN records' = Id /\ \A j \in Id : records'[j] = IF j = i THEN <<>> ELSE records[j]
      /\ UNCHANGED <<settlement, feeRate>> /\ held' = held - HeldFor(liquidation[i]) + HeldFor(n)
    <2>1. UNCHANGED <<settlement, feeRate, records, held>>
        BY DEF CreateLiquidation
    <2> QED BY <1>2, <1>6, <1>7, <2>1 DEF SInv
<1> QED BY <1>3a, <1>4, <1>5, <1>8, OneChanges
\* The record of a purchase adds to the totals what the purchase adds to them.
LEMMA ChargedIsBooked ==
    ASSUME NEW l, NEW rs, Booked(l, rs), l.status = "LIQUIDATING", NEW p, NEW b \in Nat, NEW f \in Nat,
           p.debt \in Nat, p.collateral \in Nat, f <= b, p.collateral + b <= l.unliquidated
    PROVE  Booked(Charged(l, p, b, f),
                  Append(rs, [debt |-> p.debt, collateral |-> p.collateral, bonus |-> b - f]))
<1> DEFINE r == [debt |-> p.debt, collateral |-> p.collateral, bonus |-> b - f]
           n == Charged(l, p, b, f)
           ss == Append(rs, r)
<1>1. l \in LiquidationType /\ rs \in Seq(LiquidationRecord)
    BY DEF Booked
<1>2. /\ n \in LiquidationType /\ n.status = "LIQUIDATING" /\ n.fee = l.fee + f
      /\ n.liquidatedCollateral = l.liquidatedCollateral + p.collateral + b
      /\ n.liquidatedDebt = l.liquidatedDebt + p.debt
    <2>1. /\ l.status = "LIQUIDATING" /\ l.actual \in Nat /\ l.debt \in Nat /\ l.unliquidated \in Nat
          /\ l.liquidatedCollateral \in Nat /\ l.liquidatedDebt \in Nat /\ l.bonus \in Nat /\ l.fee \in Nat
        BY <1>1 DEF LiquidationType
    <2>2. DOMAIN l = Fields
        BY <1>1 DEF LiquidationType, Fields
    <2>3. /\ n.status = l.status /\ n.debt = l.debt /\ n.actual = l.actual
          /\ n.liquidatedDebt = l.liquidatedDebt + p.debt
          /\ n.liquidatedCollateral = l.liquidatedCollateral + p.collateral + b
          /\ n.unliquidated = l.unliquidated - p.collateral - b
          /\ n.bonus = l.bonus + b /\ n.fee = l.fee + f
        BY <2>2 DEF Charged, Fields
    <2>4. n = [x \in Fields |-> n[x]]
        BY <2>2 DEF Charged, Fields
    <2>5. l.unliquidated - p.collateral - b \in Nat
        BY <2>1
    <2> HIDE DEF n
    <2>6. /\ n.status \in Status /\ n.actual \in Nat /\ n.debt \in Nat /\ n.unliquidated \in Nat
          /\ n.liquidatedCollateral \in Nat /\ n.liquidatedDebt \in Nat /\ n.bonus \in Nat /\ n.fee \in Nat
        BY <2>1, <2>3, <2>5 DEF Status
    <2>7. n \in LiquidationType
        BY <2>4, <2>6 DEF LiquidationType, Fields
    <2> QED BY <2>1, <2>3, <2>7
<1>3. r \in LiquidationRecord /\ Received(r) = p.collateral + b - f /\ r.debt = p.debt
    BY DEF LiquidationRecord, Received
<1> HIDE DEF r, n
<1>4. /\ ss \in Seq(LiquidationRecord) /\ Len(rs) \in Nat /\ Len(ss) = Len(rs) + 1
      /\ \A k \in 1..Len(rs) : ss[k] = rs[k] /\ rs[k] \in LiquidationRecord
      /\ ss[Len(rs) + 1] = r
    <2> DEFINE R == LiquidationRecord
    <2>1. rs \in Seq(R) /\ r \in R
        BY <1>1, <1>3
    <2> HIDE DEF R
    <2>2. ss \in Seq(R) /\ Len(rs) \in Nat /\ Len(ss) = Len(rs) + 1 /\ ss[Len(rs) + 1] = r
        BY <2>1
    <2>3. \A k \in 1..Len(rs) : ss[k] = rs[k] /\ rs[k] \in R
        BY <2>1
    <2> QED BY <2>2, <2>3 DEF R
<1> HIDE DEF ss
<1>5. \A k \in 1..Len(rs) : Received(rs[k]) \in Int /\ rs[k].debt \in Int
    <2>1. \A x \in LiquidationRecord : Received(x) \in Int /\ x.debt \in Int
        BY DEF Received, LiquidationRecord
    <2> QED BY <1>4, <2>1
<1>6. /\ SumFunction(RecordOuts(rs)) \in Int
      /\ SumFunction(RecordOuts(ss)) = SumFunction(RecordOuts(rs)) + (p.collateral + b - f)
    <2> DEFINE F == RecordOuts(rs)
               G == RecordOuts(ss)
    <2>1. DOMAIN F = 1..Len(rs) /\ DOMAIN G = 1..(Len(rs) + 1)
        BY <1>4
    <2>2. \A k \in 1..Len(rs) : F[k] \in Int /\ G[k] = F[k]
        BY <1>4, <1>5
    <2>3. G[Len(rs) + 1] = p.collateral + b - f /\ G[Len(rs) + 1] \in Int
        BY <1>3, <1>4
    <2> HIDE DEF F, G
    <2>4. SumFunction(F) \in Int /\ SumFunction(G) = SumFunction(F) + G[Len(rs) + 1]
        <3> DEFINE k == Len(rs)
        <3>1. /\ k \in Nat /\ DOMAIN F = 1..k /\ DOMAIN G = 1..(k + 1) /\ G[k + 1] \in Int
              /\ \A j \in 1..k : F[j] \in Int /\ G[j] = F[j]
            BY <1>4, <2>1, <2>2, <2>3
        <3> HIDE DEF k
        <3>2. SumFunction(F) \in Int /\ SumFunction(G) = SumFunction(F) + G[k + 1]
            BY <3>1, SumAppend
        <3> QED BY <3>2 DEF k
    <2> QED BY <2>3, <2>4 DEF F, G
<1>7. /\ SumFunction(RecordDebts(rs)) \in Int
      /\ SumFunction(RecordDebts(ss)) = SumFunction(RecordDebts(rs)) + p.debt
    <2> DEFINE F == RecordDebts(rs)
               G == RecordDebts(ss)
    <2>1. DOMAIN F = 1..Len(rs) /\ DOMAIN G = 1..(Len(rs) + 1)
        BY <1>4 DEF RecordDebts
    <2>2. \A k \in 1..Len(rs) : F[k] \in Int /\ G[k] = F[k]
        BY <1>4, <1>5 DEF RecordDebts
    <2>3. G[Len(rs) + 1] = p.debt /\ G[Len(rs) + 1] \in Int
        BY <1>3, <1>4 DEF RecordDebts
    <2> HIDE DEF F, G
    <2>4. SumFunction(F) \in Int /\ SumFunction(G) = SumFunction(F) + G[Len(rs) + 1]
        <3> DEFINE k == Len(rs)
        <3>1. /\ k \in Nat /\ DOMAIN F = 1..k /\ DOMAIN G = 1..(k + 1) /\ G[k + 1] \in Int
              /\ \A j \in 1..k : F[j] \in Int /\ G[j] = F[j]
            BY <1>4, <2>1, <2>2, <2>3
        <3> HIDE DEF k
        <3>2. SumFunction(F) \in Int /\ SumFunction(G) = SumFunction(F) + G[k + 1]
            BY <3>1, SumAppend
        <3> QED BY <3>2 DEF k
    <2> QED BY <2>3, <2>4 DEF F, G
<1> HIDE DEF RecordOuts
<1>8. n.liquidatedCollateral = n.fee + SumFunction(RecordOuts(ss))
    <2>1. l.liquidatedCollateral = l.fee + SumFunction(RecordOuts(rs)) /\ l.fee \in Nat
        BY <1>1 DEF Booked, LiquidationType
    <2> QED BY <1>2, <1>6, <2>1
<1>9. n.liquidatedDebt = SumFunction(RecordDebts(ss))
    BY <1>2, <1>7 DEF Booked
<1>10. Booked(n, ss)
    BY <1>2, <1>4, <1>8, <1>9 DEF Booked
<1> QED BY <1>10 DEF n, ss, r

\* A payment is recorded and held.
LEMMA LiquidateSInv ==
    ASSUME SInv, IInv, NEW i \in Id, NEW d \in Payment, HandleLiquidation(i, d)
    PROVE  SInv'
<1> DEFINE l == liquidation[i]
           p == Purchase(l, d)
           b == Bonus(l, p)
           f == MulTruncate(b, params.fee)
           r == [debt |-> p.debt, collateral |-> p.collateral, bonus |-> b - f]
           n == Charged(l, p, b, f)
           rs == Append(records[i], r)
<1>1. GoodLiquidation(l) /\ l.status = "LIQUIDATING" /\ Booked(l, records[i])
    BY PurchaseAmounts DEF SInv
<1>2. /\ p.debt \in Nat /\ p.collateral \in Nat /\ b \in Nat /\ f \in Nat /\ f <= b
      /\ p.collateral <= l.unliquidated /\ b <= l.unliquidated - p.collateral
    BY PurchaseAmounts
<1>3. /\ liquidation' = [liquidation EXCEPT ![i] = n] /\ records' = [records EXCEPT ![i] = rs]
      /\ held' = held + p.debt /\ UNCHANGED <<settlement, feeRate>>
    BY DEF HandleLiquidation
<1> HIDE DEF l, p, b, f
<1>4. l.unliquidated \in Nat /\ l.liquidatedDebt \in Nat /\ l \in LiquidationType
    BY <1>1 DEF Booked, LiquidationType
<1>5. Booked(n, rs)
    BY <1>1, <1>2, <1>4, ChargedIsBooked
<1>6. n.status = "LIQUIDATING" /\ n.liquidatedDebt = l.liquidatedDebt + p.debt
    BY <1>1, <1>4 DEF Charged, LiquidationType
<1> HIDE DEF n, rs
<1>7. Relayed(n, rs, settlement[i])
    BY <1>6 DEF SInv, Relayed
<1>8. HeldFor(n) = l.liquidatedDebt + p.debt /\ HeldFor(l) = l.liquidatedDebt
    BY <1>1, <1>6 DEF HeldFor
<1>9. held \in Nat
    BY HeldType
<1>10. held' = held - HeldFor(liquidation[i]) + HeldFor(n)
    BY <1>2, <1>3, <1>4, <1>8, <1>9 DEF l
<1>11. DOMAIN records' = Id /\ \A j \in Id : records'[j] = IF j = i THEN rs ELSE records[j]
    BY <1>3 DEF SInv
<1> QED BY <1>3, <1>5, <1>7, <1>10, <1>11, OneChanges

\* A signed settlement releases what was held for the liquidation.
LEMMA SettledSInv ==
    ASSUME SInv, IInv, NEW i \in Id, HandleSettlementSignatures(i)
    PROVE  SInv'
<1> DEFINE l == liquidation[i]
           n == [l EXCEPT !.status = "SETTLED"]
<1>1. l.status = "SETTLING" /\ Booked(l, records[i]) /\ Relayed(l, records[i], settlement[i])
    BY DEF SInv, HandleSettlementSignatures
<1>2. /\ liquidation' = [liquidation EXCEPT ![i] = n] /\ held' = held - l.liquidatedDebt
      /\ UNCHANGED <<records, settlement, feeRate>>
    BY DEF HandleSettlementSignatures
<1> HIDE DEF l
<1>3. l \in LiquidationType
    BY <1>1 DEF Booked
<1>4. /\ n \in LiquidationType /\ n.status = "SETTLED" /\ n.actual = l.actual /\ n.fee = l.fee
      /\ n.liquidatedCollateral = l.liquidatedCollateral /\ n.liquidatedDebt = l.liquidatedDebt
    BY <1>3 DEF LiquidationType, Status
<1> HIDE DEF n, RecordOuts
<1>5. Booked(n, records[i])
    BY <1>1, <1>4 DEF Booked
<1>6. Relayed(n, records[i], settlement[i])
    BY <1>1, <1>4 DEF Relayed, Settles
<1>7. HeldFor(n) = 0 /\ HeldFor(l) = l.liquidatedDebt /\ l.liquidatedDebt \in Nat
    BY <1>1, <1>3, <1>4 DEF HeldFor, LiquidationType
<1>8. held \in Nat
    BY HeldType
<1>9. held' = held - HeldFor(liquidation[i]) + HeldFor(n)
    BY <1>2, <1>7, <1>8 DEF l
<1>10. DOMAIN records' = Id /\ \A j \in Id : records'[j] = IF j = i THEN records[i] ELSE records[j]
    BY <1>2 DEF SInv
<1> QED BY <1>2, <1>5, <1>6, <1>9, <1>10, OneChanges
----------------------------------------------------------------------------
(* The settlement transaction *)

\* tx with its change and its fee rate, and what it has in common with tx.
With(tx, c, r) == [tx EXCEPT !.change = c, !.rate = r]
PaysAs(built, tx, c, r) ==
    /\ built \in SettlementTx /\ built.change = c /\ built.rate = r /\ built.outs = tx.outs
    /\ Paid(built) = Paid(tx) /\ Outputs(built) = Outputs(tx)

\* What a transaction pays and how large it is does not depend on its change and its fee rate.
LEMMA WithChangeAndRate ==
    ASSUME NEW tx \in SettlementTx, NEW c \in Nat, NEW r \in Int
    PROVE  PaysAs(With(tx, c, r), tx, c, r)
<1> DEFINE built == With(tx, c, r)
<1>1. /\ built \in SettlementTx /\ built.change = c /\ built.rate = r /\ built.outs = tx.outs
      /\ built.protocolOut = tx.protocolOut
    BY DEF SettlementTx, With
<1> HIDE DEF built
<1>2. PaysAs(built, tx, c, r)
    BY <1>1 DEF PaysAs, Paid, Outputs
<1> QED BY <1>2 DEF built

\* Outputs are not negative.
LEMMA PaidType ==
    ASSUME NEW tx \in SettlementTx
    PROVE  Paid(tx) \in Nat /\ Outputs(tx) \in Nat
<1> DEFINE outs == tx.outs
<1>1. outs \in Seq(Nat) /\ tx.protocolOut \in Nat
    BY DEF SettlementTx
<1> HIDE DEF outs
<1>2. DOMAIN outs = 1..Len(outs) /\ Len(outs) \in Nat /\ \A k \in 1..Len(outs) : outs[k] \in Nat
    BY <1>1
<1>3. IsFiniteSet(1..Len(outs))
    BY <1>2, FS_Interval
<1>4. SumFunction(outs) \in Nat
    BY <1>2, <1>3, SumType DEF SumFunction
<1>5. Paid(tx) = SumFunction(outs) + tx.protocolOut
      /\ Outputs(tx) = Len(outs) + (IF tx.protocolOut > 0 THEN 1 ELSE 0)
    BY DEF Paid, Outputs, outs
<1> QED BY <1>1, <1>2, <1>4, <1>5

\* The virtual size grows with the outputs.
LEMMA SizeType ==
    ASSUME NEW n \in Nat
    PROVE  /\ VirtualSize(n) \in Nat /\ VirtualSize(n + 1) \in Nat
           /\ VirtualSize(n) <= VirtualSize(n + 1)
<1>1. BaseSize \in Nat /\ OutSize \in Nat
    BY LiquidationAssumption
<1>2. n * OutSize \in Nat /\ (n + 1) * OutSize = n * OutSize + OutSize
    BY <1>1
<1> QED BY <1>1, <1>2 DEF VirtualSize

\* The bounds of a fee, by what is left of the inputs and by the change.
LEMMA FeeBounds ==
    ASSUME NEW tx \in SettlementTx, NEW actual \in Nat,
           NEW fee \in Int, fee = actual - Paid(tx) - tx.change,
           tx.change > 0 => fee >= VirtualSize(Outputs(tx) + 1),
           fee >= VirtualSize(Outputs(tx)),
           \/ fee <= NetworkFeeReserve + (Dust - 1)
           \/ fee <= tx.rate * VirtualSize(Outputs(tx) + 1) + (Dust - 1)
    PROVE  FeeIsBounded(actual, tx)
<1> DEFINE R == NetworkFeeReserve
           V == tx.rate * VirtualSize(Outputs(tx) + 1)
           M == Max({R, V})
<1>1. R \in Int /\ Dust \in Nat \ {0} /\ tx.rate \in Int /\ tx.change \in Nat
    BY LiquidationAssumption DEF SettlementTx
<1>2. VirtualSize(Outputs(tx) + 1) \in Nat
    BY PaidType, SizeType
<1>3. V \in Int /\ Outputs(tx) \in Nat
    BY PaidType, <1>1, <1>2
<1> HIDE DEF V
<1>4. M \in Int /\ R <= M /\ V <= M
    BY <1>1, <1>3, MaxPair
<1> HIDE DEF M
<1>5. fee <= M + 2 * (Dust - 1)
    <2>1. fee <= R + (Dust - 1) \/ fee <= V + (Dust - 1)
        BY DEF V
    <2> HIDE DEF R
    <2> QED BY <1>1, <1>3, <1>4, <2>1
<1>6. fee >= VirtualSize(Outputs(tx) + (IF tx.change > 0 THEN 1 ELSE 0))
    <2>1. CASE tx.change > 0
        BY <2>1
    <2>2. CASE ~(tx.change > 0)
        <3>1. Outputs(tx) + (IF tx.change > 0 THEN 1 ELSE 0) = Outputs(tx)
            BY <1>3, <2>2
        <3> QED BY <3>1
    <2> QED BY <2>1, <2>2
<1> QED BY <1>5, <1>6 DEF FeeIsBounded, M, V

\* Dropped change is less than Dust.
LEMMA DropDustType ==
    ASSUME NEW n \in Nat
    PROVE  DropDust(n) \in Nat /\ DropDust(n) <= n /\ n - DropDust(n) <= Dust - 1
           /\ (DropDust(n) = 0 \/ DropDust(n) = n)
<1>1. Dust \in Nat \ {0}
    BY LiquidationAssumption
<1> QED BY <1>1 DEF DropDust, IsDust

\* A transaction that is built at the fee rate (BuildUnsignedTransaction).
LEMMA AtRate ==
    ASSUME NEW tx \in SettlementTx, NEW in \in Nat,
           tx.change = 0, feeRate \in Nat \ {0}, BuildUnsignedTransaction(in, tx) # NoTx
    PROVE  LET built == BuildUnsignedTransaction(in, tx)
           IN  built \in SettlementTx /\ built.outs = tx.outs /\ FeeIsBounded(in, built)
<1> DEFINE left == in - Paid(tx)
           V0 == VirtualSize(Outputs(tx))
           V1 == VirtualSize(Outputs(tx) + 1)
           F0 == feeRate * V0
           F1 == feeRate * V1
           change == left - F1
           built == BuildUnsignedTransaction(in, tx)
<1>1. V0 \in Nat /\ V1 \in Nat /\ V0 <= V1
    BY PaidType, SizeType
<1>2. Dust \in Nat \ {0} /\ left \in Int
    BY PaidType, LiquidationAssumption
<1>3. F0 \in Nat /\ F1 \in Nat /\ V0 <= F0 /\ V1 <= F1
    <2> HIDE DEF V0, V1
    <2>1. 1 * V0 <= feeRate * V0 /\ 1 * V1 <= feeRate * V1
        BY <1>1, TimesMonotonic
    <2> QED BY <1>1, <2>1
<1>4. change \in Int
    <2> HIDE DEF F1, left
    <2> QED BY <1>2, <1>3
<1>5. CASE change > 0
    <2> DEFINE c == DropDust(change)
    <2>1. built = With(tx, c, feeRate)
        BY <1>5 DEF BuildUnsignedTransaction, With
    <2>2. c \in Nat /\ c <= change /\ change - c <= Dust - 1
        <3> HIDE DEF change
        <3> QED BY <1>4, <1>5, DropDustType
    <2> HIDE DEF c
    <2> HIDE DEF built
    <2>3. /\ built \in SettlementTx /\ built.change = c /\ built.rate = feeRate /\ built.outs = tx.outs
          /\ Paid(built) = Paid(tx) /\ Outputs(built) = Outputs(tx)
        <3>1. feeRate \in Int /\ c \in Nat
            BY <2>2
        <3>2. PaysAs(built, tx, c, feeRate)
            BY <2>1, <3>1, WithChangeAndRate
        <3> QED BY <3>2 DEF PaysAs
    <2>4. in - Paid(built) - built.change = F1 + (change - c)
        <3>1. in - Paid(built) = left /\ built.change = c
            BY <2>3
        <3> HIDE DEF left, F1
        <3> QED BY <1>2, <1>3, <2>2, <3>1
    <2>5. /\ F1 + (change - c) >= V1 /\ F1 + (change - c) >= V0
          /\ F1 + (change - c) <= F1 + (Dust - 1)
        <3> HIDE DEF change, F1, V0, V1
        <3> QED BY <1>1, <1>2, <1>3, <1>4, <2>2
    <2>6. built.rate * VirtualSize(Outputs(built) + 1) = F1 /\ VirtualSize(Outputs(built)) = V0
          /\ VirtualSize(Outputs(built) + 1) = V1
        BY <2>3
    <2> DEFINE fee == F1 + (change - c)
    <2> HIDE DEF V0, V1, F1, change
    <2>7. FeeIsBounded(in, built)
        <3>1. fee \in Int
            BY <1>2, <1>3, <1>4, <2>2
        <3>2. fee = in - Paid(built) - built.change
            BY <2>3, <2>4
        <3>3. /\ built.change > 0 => fee >= VirtualSize(Outputs(built) + 1)
              /\ fee >= VirtualSize(Outputs(built))
              /\ fee <= built.rate * VirtualSize(Outputs(built) + 1) + (Dust - 1)
            BY <2>5, <2>6
        <3> HIDE DEF fee
        <3> QED BY <2>3, <3>1, <3>2, <3>3, FeeBounds
    <2> QED BY <2>3, <2>7 DEF built
<1>6. CASE ~(change > 0)
    <2>1. ~(change < 0 /\ left < F0) /\ built = [tx EXCEPT !.rate = feeRate]
        BY <1>6 DEF BuildUnsignedTransaction
    <2>2. built = With(tx, 0, feeRate)
        <3> HIDE DEF built
        <3> QED BY <2>1 DEF SettlementTx, With
    <2> HIDE DEF built
    <2>3. /\ built \in SettlementTx /\ built.change = 0 /\ built.rate = feeRate /\ built.outs = tx.outs
          /\ Paid(built) = Paid(tx) /\ Outputs(built) = Outputs(tx)
        <3>1. feeRate \in Int /\ 0 \in Nat
            OBVIOUS
        <3>2. PaysAs(built, tx, 0, feeRate)
            BY <2>2, <3>1, WithChangeAndRate
        <3> QED BY <3>2 DEF PaysAs
    <2>4. in - Paid(built) - built.change = left
        BY <1>2, <2>3
    <2>5. left >= V0 /\ left <= F1 + (Dust - 1)
        <3> HIDE DEF left, F0, F1, V0, V1
        <3> QED BY <1>1, <1>2, <1>3, <1>6, <2>1
    <2>6. built.rate * VirtualSize(Outputs(built) + 1) = F1 /\ VirtualSize(Outputs(built)) = V0
        BY <2>3
    <2> HIDE DEF V0, F1, left
    <2>7. FeeIsBounded(in, built)
        <3>1. left = in - Paid(built) - built.change
            BY <2>3, <2>4
        <3>2. ~(built.change > 0)
            BY <2>3
        <3>3. /\ left >= VirtualSize(Outputs(built))
              /\ left <= built.rate * VirtualSize(Outputs(built) + 1) + (Dust - 1)
            BY <2>5, <2>6
        <3> QED BY <1>2, <2>3, <3>1, <3>2, <3>3, FeeBounds
    <2> QED BY <2>3, <2>7 DEF built
<1> QED BY <1>5, <1>6

\* A transaction that the reserve pays for (BuildUnsignedTransactionWithFee).
LEMMA WithFee ==
    ASSUME NEW tx \in SettlementTx, NEW in \in Nat,
           BuildUnsignedTransactionWithFee(in, tx) # NoTx
    PROVE  LET built == BuildUnsignedTransactionWithFee(in, tx)
           IN  built \in SettlementTx /\ built.outs = tx.outs /\ FeeIsBounded(in, built)
<1> DEFINE R == NetworkFeeReserve
           change == in - Paid(tx) - R
           c == IF change > 0 THEN DropDust(change) ELSE 0
           b == [tx EXCEPT !.change = c, !.rate = 0]
           V0 == VirtualSize(Outputs(tx))
           V1 == VirtualSize(Outputs(tx) + 1)
           size == VirtualSize(Outputs(tx) + (IF b.change > 0 THEN 1 ELSE 0))
<1>1. V0 \in Nat /\ V1 \in Nat /\ V0 <= V1
    BY PaidType, SizeType
<1>2. Dust \in Nat \ {0} /\ R \in Nat /\ change \in Int
    BY PaidType, LiquidationAssumption
<1>3. BuildUnsignedTransactionWithFee(in, tx) = IF change < 0 \/ R < size THEN NoTx ELSE b
    BY DEF BuildUnsignedTransactionWithFee
<1> HIDE DEF b, size
<1>4. change >= 0 /\ ~(R < size) /\ BuildUnsignedTransactionWithFee(in, tx) = b
    <2>1. ~(change < 0 \/ R < size) /\ BuildUnsignedTransactionWithFee(in, tx) = b
        BY <1>3, Zenon
    <2> HIDE DEF change
    <2> QED BY <1>2, <2>1
<1>5. c \in Nat /\ c <= change /\ change - c <= Dust - 1
    <2> HIDE DEF change
    <2> QED BY <1>2, <1>4, DropDustType
<1> HIDE DEF c
<1>6. /\ b \in SettlementTx /\ b.change = c /\ b.rate = 0 /\ b.outs = tx.outs
      /\ Paid(b) = Paid(tx) /\ Outputs(b) = Outputs(tx)
    <2>1. b = With(tx, c, 0)
        BY DEF b, With
    <2>2. 0 \in Int /\ c \in Nat
        BY <1>5
    <2>3. PaysAs(b, tx, c, 0)
        BY <2>1, <2>2, WithChangeAndRate
    <2> QED BY <2>3 DEF PaysAs
<1>7. (c > 0 => V1 <= R) /\ V0 <= R
    <2>1. CASE c > 0
        <3>1. size = V1
            BY <1>6, <2>1 DEF size
        <3> HIDE DEF V0, V1, R
        <3> QED BY <1>1, <1>2, <1>4, <3>1
    <2>2. CASE ~(c > 0)
        <3>1. size = V0
            BY <1>6, <2>2, PaidType DEF size
        <3> HIDE DEF V0, V1, R
        <3> QED BY <1>1, <1>2, <1>4, <2>2, <3>1
    <2> QED BY <2>1, <2>2
<1>8. in - Paid(b) - b.change = R + (change - c)
    BY <1>2, <1>5, <1>6, PaidType
<1>9. VirtualSize(Outputs(b)) = V0 /\ VirtualSize(Outputs(b) + 1) = V1
    BY <1>6
<1> HIDE DEF V0, V1, change
<1>10. /\ c > 0 => R + (change - c) >= V1
       /\ R + (change - c) >= V0 /\ R + (change - c) <= R + (Dust - 1)
    <2> HIDE DEF R
    <2> QED BY <1>1, <1>2, <1>5, <1>7
<1>11. FeeIsBounded(in, b)
    <2> DEFINE fee == R + (change - c)
    <2>1. fee \in Int
        BY <1>2, <1>5
    <2>2. fee = in - Paid(b) - b.change
        BY <1>6, <1>8
    <2>3. /\ b.change > 0 => fee >= VirtualSize(Outputs(b) + 1)
          /\ fee >= VirtualSize(Outputs(b)) /\ fee <= NetworkFeeReserve + (Dust - 1)
        BY <1>6, <1>9, <1>10
    <2> HIDE DEF fee
    <2> QED BY <1>6, <2>1, <2>2, <2>3, FeeBounds
<1> QED BY <1>4, <1>6, <1>11
\* The transaction that BuildBatchTransferPsbt starts from.
Outgoing(outs, fee) == [NoTx EXCEPT !.outs = outs, !.protocolOut = fee]

LEMMA OutgoingType ==
    ASSUME NEW outs \in Seq(Nat), NEW fee \in Nat
    PROVE  LET tx == Outgoing(outs, fee)
           IN  tx \in SettlementTx /\ tx.change = 0 /\ tx.outs = outs
<1>1. NoTx \in SettlementTx /\ NoTx.change = 0
    BY DEF NoTx, SettlementTx
<1> QED BY <1>1 DEF Outgoing, SettlementTx

\* The settlement transaction of booked records is right, if it can be built
\* (BuildBatchTransferPsbt).
LEMMA BatchSettles ==
    ASSUME NEW l, NEW rs, Booked(l, rs), feeRate \in Nat, BuildBatchTransferPsbt(l, rs) # NoTx
    PROVE  LET tx == BuildBatchTransferPsbt(l, rs)
           IN  tx \in SettlementTx /\ Settles(tx, l, rs)
<1> DEFINE outs == RecordOuts(rs)
           fee == DropDust(l.fee)
           tx == Outgoing(outs, fee)
           at == IF feeRate # 0 THEN BuildUnsignedTransaction(l.actual, tx) ELSE NoTx
           batch == BuildBatchTransferPsbt(l, rs)
<1>1. rs \in Seq(LiquidationRecord) /\ l.fee \in Nat /\ l.actual \in Nat
    BY DEF Booked, LiquidationType
<1>2. outs \in Seq(Nat)
    <2>1. Len(rs) \in Nat /\ \A k \in 1..Len(rs) : rs[k] \in LiquidationRecord
        BY <1>1
    <2>2. \A r \in LiquidationRecord : Received(r) \in Nat
        BY DEF Received, LiquidationRecord
    <2> QED BY <2>1, <2>2
<1>3. fee \in Nat
    BY <1>1, DropDustType
<1> HIDE DEF outs, fee
<1>4. tx \in SettlementTx /\ tx.change = 0 /\ tx.outs = outs
    BY <1>2, <1>3, OutgoingType
<1>5. batch = IF at # NoTx THEN at ELSE BuildUnsignedTransactionWithFee(l.actual, tx)
    BY DEF BuildBatchTransferPsbt, Outgoing, outs, fee
<1> HIDE DEF tx
<1>6. CASE at # NoTx
    <2>1. feeRate \in Nat \ {0} /\ at = BuildUnsignedTransaction(l.actual, tx)
        BY <1>6
    <2>2. at \in SettlementTx /\ at.outs = tx.outs /\ FeeIsBounded(l.actual, at)
        <3> HIDE DEF at
        <3> QED BY <1>1, <1>4, <1>6, <2>1, AtRate
    <2>3. batch = at
        BY <1>5, <1>6
    <2> QED BY <1>4, <2>2, <2>3 DEF Settles, outs
<1>7. CASE at = NoTx
    <2> DEFINE paid == BuildUnsignedTransactionWithFee(l.actual, tx)
    <2>1. batch = paid
        BY <1>5, <1>7
    <2>2. paid \in SettlementTx /\ paid.outs = tx.outs /\ FeeIsBounded(l.actual, paid)
        BY <1>1, <1>4, <2>1, WithFee
    <2> QED BY <1>4, <2>1, <2>2 DEF Settles, outs
<1> QED BY <1>6, <1>7

\* Closing an auction changes no amount (handlePendingLiquidations).
LEMMA PendingIsBooked ==
    ASSUME NEW l, NEW rs, Booked(l, rs)
    PROVE  LET n == Pending(l)
           IN  /\ Booked(n, rs) /\ HeldFor(n) = HeldFor(l)
               /\ n.status = l.status \/ n.status = "LIQUIDATED"
               /\ n.actual = l.actual
<1> DEFINE n == Pending(l)
<1>1. l \in LiquidationType
    BY DEF Booked
<1>2. CASE l.status = "LIQUIDATING" /\ Exhausted(l)
    <2>1. n = [l EXCEPT !.status = "LIQUIDATED"]
        BY <1>2 DEF Pending
    <2>2. /\ n \in LiquidationType /\ n.status = "LIQUIDATED" /\ n.actual = l.actual /\ n.fee = l.fee
          /\ n.liquidatedCollateral = l.liquidatedCollateral /\ n.liquidatedDebt = l.liquidatedDebt
        <3> HIDE DEF n
        <3> QED BY <1>1, <2>1 DEF LiquidationType, Status
    <2> HIDE DEF n, RecordOuts
    <2>3. Booked(n, rs)
        BY <2>2 DEF Booked
    <2> QED BY <1>2, <2>2, <2>3 DEF HeldFor, n
<1>3. CASE ~(l.status = "LIQUIDATING" /\ Exhausted(l))
    <2>1. n = l
        BY <1>3 DEF Pending
    <2> QED BY <2>1
<1> QED BY <1>2, <1>3

\* A liquidation after the end blocker, with its settlement transaction.
LEMMA CompletedIsBooked ==
    ASSUME SInv, NEW i \in Id
    PROVE  LET tx == IF Built(i) = NoTx THEN settlement[i] ELSE Built(i)
           IN  /\ Booked(Completed(i), records[i]) /\ Relayed(Completed(i), records[i], tx)
               /\ HeldFor(Completed(i)) = HeldFor(liquidation[i])
<1> DEFINE l == liquidation[i]
           p == Pending(l)
           rs == records[i]
           n == Completed(i)
           tx == IF Built(i) = NoTx THEN settlement[i] ELSE Built(i)
<1>1. Booked(l, rs) /\ Relayed(l, rs, settlement[i]) /\ feeRate \in Nat
    <2>1. feeRate \in FeeRate \cup {0} /\ FeeRate \subseteq Nat
        BY LiquidationAssumption DEF SInv
    <2>2. feeRate \in Nat
        BY <2>1
    <2> QED BY <2>2 DEF SInv
<1>2. /\ Booked(p, rs) /\ HeldFor(p) = HeldFor(l) /\ p.actual = l.actual
      /\ p.status = l.status \/ p.status = "LIQUIDATED"
    <2> HIDE DEF l, rs
    <2> QED BY <1>1, PendingIsBooked
<1>3. CASE Built(i) = NoTx
    <2>1. n = p /\ tx = settlement[i]
        BY <1>3 DEF Completed
    <2> HIDE DEF l, p, rs, n, tx, RecordOuts
    <2>2. Relayed(p, rs, settlement[i])
        BY <1>1, <1>2 DEF Relayed, Settles
    <2> QED BY <1>2, <2>1, <2>2 DEF l, rs, n, tx
<1>4. CASE Built(i) # NoTx
    <2>1. /\ Built(i) = BuildBatchTransferPsbt(p, rs) /\ p.status = "LIQUIDATED" /\ tx = Built(i)
          /\ n = [p EXCEPT !.status = "SETTLING", !.unliquidated = Built(i).change]
        BY <1>4 DEF Built, Completed
    <2> HIDE DEF l, p, rs, n, tx, RecordOuts
    <2>2. tx \in SettlementTx /\ Settles(tx, p, rs)
        BY <1>1, <1>2, <1>4, <2>1, BatchSettles
    <2>3. p \in LiquidationType /\ tx.change \in Nat
        BY <1>2, <2>2 DEF Booked, SettlementTx
    <2>4. /\ n \in LiquidationType /\ n.status = "SETTLING" /\ n.actual = p.actual /\ n.fee = p.fee
          /\ n.liquidatedCollateral = p.liquidatedCollateral /\ n.liquidatedDebt = p.liquidatedDebt
        BY <2>1, <2>3 DEF LiquidationType, Status
    <2>5. Booked(n, rs)
        BY <1>2, <2>4 DEF Booked
    <2>6. Relayed(n, rs, tx)
        BY <2>2, <2>4 DEF Relayed, Settles
    <2>7. HeldFor(n) = HeldFor(l)
        BY <1>2, <2>1, <2>4 DEF HeldFor
    <2> QED BY <2>5, <2>6, <2>7 DEF l, rs, n, tx
<1> QED BY <1>3, <1>4

\* The end blocker closes auctions and builds settlements.
LEMMA EndBlockSInv ==
    ASSUME SInv, EndBlock
    PROVE  SInv'
<1> DEFINE tx(i) == IF Built(i) = NoTx THEN settlement[i] ELSE Built(i)
<1>1. /\ liquidation' = [i \in Id |-> Completed(i)] /\ settlement' = [i \in Id |-> tx(i)]
      /\ UNCHANGED <<records, feeRate, held>>
    BY DEF EndBlock
<1>2. ASSUME NEW i \in Id
      PROVE  /\ Booked(Completed(i), records[i]) /\ Relayed(Completed(i), records[i], tx(i))
             /\ HeldFor(Completed(i)) = HeldFor(liquidation[i])
    BY CompletedIsBooked
<1> HIDE DEF tx
<1>3. \A i \in Id : liquidation'[i] = Completed(i) /\ settlement'[i] = tx(i) /\ records'[i] = records[i]
    BY <1>1
<1>4. \A i \in Id : Booked(liquidation'[i], records'[i]) /\ Relayed(liquidation'[i], records'[i], settlement'[i])
    BY <1>2, <1>3
<1>5. [i \in Id |-> HeldFor(liquidation[i])]' = [i \in Id |-> HeldFor(liquidation[i])]
    BY <1>2, <1>3
<1>6. DOMAIN records' = Id /\ DOMAIN settlement' = Id /\ feeRate' \in FeeRate \cup {0} /\ held' = held
    BY <1>1 DEF SInv
<1>7. held' = SumFunction([i \in Id |-> HeldFor(liquidation'[i])])
    BY <1>5, <1>6 DEF SInv
<1> QED BY <1>4, <1>6, <1>7 DEF SInv
LEMMA NextSInv == SInv /\ IInv /\ [Next]_vars => SInv'
<1> SUFFICES ASSUME SInv, IInv, [Next]_vars PROVE SInv'
    OBVIOUS
<1>1. CASE \E i \in Id, c \in Collateral, d \in Debt : CreateLiquidation(i, c, d)
    BY <1>1, CreateSInv
<1>2. CASE \E i \in Id, d \in Payment : HandleLiquidation(i, d)
    BY <1>2, LiquidateSInv
<1>3. CASE EndBlock
    BY <1>3, EndBlockSInv
<1>4. CASE \E i \in Id : HandleSettlementSignatures(i)
    BY <1>4, SettledSInv
<1>5. CASE UNCHANGED <<liquidation, records, settlement, held>> /\ feeRate' \in FeeRate \cup {0}
    <2> HIDE DEF RecordOuts
    <2> QED BY <1>5 DEF SInv
<1>6. CASE \E p \in Price \cup {NoPrice} : SetPrice(p)
    BY <1>5, <1>6 DEF SetPrice, SInv
<1>7. CASE \E r \in FeeRate : SetFeeRate(r)
    BY <1>5, <1>7 DEF SetFeeRate
<1>8. CASE \E q \in Params : UpdateParams(q)
    BY <1>5, <1>8 DEF UpdateParams, SInv
<1>9. CASE UNCHANGED vars
    BY <1>5, <1>9 DEF vars, SInv
<1> QED BY <1>1, <1>2, <1>3, <1>4, <1>6, <1>7, <1>8, <1>9 DEF Next

\* The totals by liquidation make the totals of the module.
LEMMA SettlementParts ==
    ASSUME SInv, IInv
    PROVE  SettlementIsRight
<1>1. \A i \in Id : Booked(liquidation[i], records[i]) /\ Relayed(liquidation[i], records[i], settlement[i])
    BY DEF SInv
<1>2. TypeOK
    <2>1. held \in Nat
        BY HeldType
    <2>2. price \in Price \cup {NoPrice} /\ params \in Params /\ feeRate \in FeeRate \cup {0}
        BY DEF IInv, SInv
    <2> QED BY <1>1, <2>1, <2>2
            DEF TypeOK, Booked, Relayed, LiquidationType, LiquidationRecord, SettlementTx
<1>3. SoldIsOwed
    BY <1>1 DEF SoldIsOwed, Booked
<1>4. PaidDebtIsHeld
    <2> DEFINE paid(i) == SumFunction([k \in 1..Len(records[i]) |-> records[i][k].debt])
    <2>1. ASSUME NEW i \in Id
          PROVE  HeldFor(liquidation[i]) = IF liquidation[i].status = "SETTLED" THEN 0 ELSE paid(i)
        BY <1>1 DEF HeldFor, Booked, RecordDebts
    <2> HIDE DEF paid
    <2>2. [i \in Id |-> HeldFor(liquidation[i])]
            = [i \in Id |-> IF liquidation[i].status = "SETTLED" THEN 0 ELSE paid(i)]
        BY <2>1
    <2> QED BY <2>2 DEF SInv, PaidDebtIsHeld, paid
<1>5. \A i \in Id : IsSettled(i) => Settles(settlement[i], liquidation[i], records[i])
    BY <1>1 DEF IsSettled, Relayed
<1>6. LiquidatorsArePaid
    BY <1>5 DEF LiquidatorsArePaid, Settles
<1>7. SettlementFeeIsBounded
    BY <1>5 DEF SettlementFeeIsBounded, Settles, FeeIsBounded, NetworkFee, TxSize
<1> QED BY <1>2, <1>3, <1>4, <1>6, <1>7 DEF SettlementIsRight, RecordsAddUp

\* However many liquidators buy whatever parts of an auction, at whatever prices, params and
\* fee rates, the records add up to its totals and to the coins held, no amount is negative,
\* and the settlement transaction pays every record and a bounded fee that relays it
\* (HandleLiquidation, handleCompletedLiquidations, BuildBatchTransferPsbt).
THEOREM SettlementIsRightHolds == Spec => []SettlementIsRight
<1>1. Init => SInv
    BY InitSInv
<1>2. SInv /\ IInv /\ [Next]_vars => SInv'
    BY NextSInv
<1>3. SInv /\ IInv => SettlementIsRight
    BY SettlementParts
<1> QED BY <1>1, <1>2, <1>3, Invariance, PTL DEF Spec
=============================================================================
