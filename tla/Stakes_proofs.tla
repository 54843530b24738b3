--------------------------- MODULE Stakes_proofs ---------------------------
(***************************************************************************)
(* Theorems about components that weigh by stake.  PriceOracle: x/oracle   *)
(* averages prices and selects headers by the stake of the validators that *)
(* report them.  Farming: x/farming divides the rewards of an epoch by the *)
(* stakes of the queue.  The theorems hold for any finite set of           *)
(* validators with any stakes, any trees of blocks, and any stakers,       *)
(* amounts and parameters.                                                 *)
(*                                                                         *)
(* The module extends both, and uses what they assume of their constants.  *)
(***************************************************************************)
EXTENDS PriceOracle, Farming, FiniteSetTheorems, WellFoundedInduction, TLAPS

-----------------------------------------------------------------------------
(* Sums over finite sets. *)

\* A set of subsets of S that contains every set whose proper subsets it contains is all of them.
LEMMA SubsetInduction ==
    ASSUME NEW S, IsFiniteSet(S), NEW A,
           \A T \in SUBSET S : (\A U \in SUBSET T : U # T => U \in A) => T \in A
    PROVE  \A T \in SUBSET S : T \in A
<1> DEFINE W == {T \in SUBSET S : T \notin A}
           R == StrictSubsetOrdering(S)
<1> SUFFICES ASSUME W # {} PROVE FALSE
    OBVIOUS
<1>1. IsWellFoundedOn(R, SUBSET S)
    <2>1. IsWellFoundedOn(R, FiniteSubsetsOf(S))
        BY FS_StrictSubsetOrderingWellFounded, Zenon
    <2>2. FiniteSubsetsOf(S) = SUBSET S
        BY FS_FiniteSubsetsOfFinite, Zenon
    <2> QED BY <2>1, <2>2, Zenon
<1>2. W \subseteq SUBSET S
    OBVIOUS
<1>3. \A T, U \in SUBSET S : U \subseteq T /\ U # T => <<U, T>> \in R
    BY DEF StrictSubsetOrdering
<1> HIDE DEF R
<1>4. PICK T \in W : \A U \in W : ~(<<U, T>> \in R)
    <2> DEFINE Q == SUBSET S
    <2>1. IsWellFoundedOn(R, Q)
        BY <1>1
    <2>2. W \subseteq Q /\ W # {}
        BY <1>2
    <2> HIDE DEF W, Q
    <2> QED BY ONLY <2>1, <2>2, WFMin, Zenon
<1>5. ASSUME NEW U \in SUBSET T, U # T PROVE U \in A
    <2>1. U \in SUBSET S /\ T \in SUBSET S
        BY <1>4
    <2>2. <<U, T>> \in R
        BY <1>3, <1>5, <2>1
    <2>3. U \notin W
        <3> HIDE DEF W
        <3> QED BY <1>4, <2>2
    <2> QED BY <2>1, <2>3
<1> QED BY <1>4, <1>5

\* The recursion that SumFunctionOnSet is defined by.
Pick(s) == CHOOSE x \in s : TRUE

\* One step of the recursion of SumFunctionOnSet, and the function it defines.
Body(f, S, g) == [s \in SUBSET S |-> IF s = {} THEN 0 ELSE f[Pick(s)] + g[s \ {Pick(s)}]]
Iter(f, S) == CHOOSE g : g = Body(f, S, g)

\* The sum of the community module is that function.
LEMMA SumIsIter == \A f, S : SumFunctionOnSet(f, S) = Iter(f, S)[S]
    BY DEF SumFunctionOnSet, FoldFunctionOnSet, MapThenFoldSet, Iter, Body, Pick

\* An element is picked if there is one.
LEMMA PickIn == \A s : s # {} => Pick(s) \in s
    BY DEF Pick

\* What the recursion computes for a set does not depend on the set it was started from.
LEMMA IterLocal ==
    ASSUME NEW f, NEW T, IsFiniteSet(T), NEW S, NEW P, T \subseteq S, T \subseteq P,
           NEW g, g = Body(f, S, g), NEW h, h = Body(f, P, h)
    PROVE  g[T] = h[T]
<1> DEFINE A == {U \in SUBSET T : g[U] = h[U]}
<1>1. \A U \in SUBSET T : (\A V \in SUBSET U : V # U => V \in A) => U \in A
    <2> SUFFICES ASSUME NEW U \in SUBSET T, \A V \in SUBSET U : V # U => V \in A PROVE g[U] = h[U]
        OBVIOUS
    <2>1. /\ g[U] = IF U = {} THEN 0 ELSE f[Pick(U)] + g[U \ {Pick(U)}]
          /\ h[U] = IF U = {} THEN 0 ELSE f[Pick(U)] + h[U \ {Pick(U)}]
        <3>1. U \in SUBSET S /\ U \in SUBSET P
            OBVIOUS
        <3> QED BY <3>1, Zenon DEF Body
    <2>2. CASE U = {}
        BY <2>1, <2>2
    <2>3. CASE U # {}
        <3>1. U \ {Pick(U)} \in A
            BY <2>3, PickIn
        <3> QED BY <2>1, <3>1
    <2> QED BY <2>2, <2>3
<1>2. \A U \in SUBSET T : U \in A
    <2> HIDE DEF A
    <2> QED BY <1>1, SubsetInduction
<1> QED BY <1>2

\* The recursion has a solution.
LEMMA IterExists ==
    ASSUME NEW f, NEW S, IsFiniteSet(S)
    PROVE  Iter(f, S) = Body(f, S, Iter(f, S))
<1> DEFINE A == {T \in SUBSET S : \E g : g = Body(f, T, g)}
<1>1. ASSUME NEW T \in A PROVE Iter(f, T) = Body(f, T, Iter(f, T))
    BY <1>1, Zenon DEF Iter
<1>2. \A T \in SUBSET S : (\A U \in SUBSET T : U # T => U \in A) => T \in A
    <2> SUFFICES ASSUME NEW T \in SUBSET S, \A U \in SUBSET T : U # T => U \in A
                 PROVE  \E g : g = Body(f, T, g)
        OBVIOUS
    <2> DEFINE h == [s \in SUBSET T |-> IF s = {} THEN 0
                                        ELSE f[Pick(s)] + Iter(f, s \ {Pick(s)})[s \ {Pick(s)}]]
    <2>1. ASSUME NEW u \in SUBSET T, u # T PROVE h[u] = Iter(f, u)[u]
        <3>1. Iter(f, u) = Body(f, u, Iter(f, u))
            BY <1>1, <2>1
        <3>2. Iter(f, u)[u] = IF u = {} THEN 0 ELSE f[Pick(u)] + Iter(f, u)[u \ {Pick(u)}]
            BY <3>1, Zenon DEF Body
        <3>3. CASE u = {}
            BY <3>2, <3>3
        <3>4. CASE u # {}
            <4> DEFINE v == u \ {Pick(u)}
            <4>1. v \subseteq u /\ v \in SUBSET T /\ v # T
                BY <3>4, PickIn
            <4>2. Iter(f, v) = Body(f, v, Iter(f, v))
                BY <1>1, <4>1
            <4>3. IsFiniteSet(v)
                BY <4>1, FS_Subset
            <4>4. Iter(f, u)[v] = Iter(f, v)[v]
                <5> HIDE DEF v
                <5> QED BY <3>1, <4>1, <4>2, <4>3, IterLocal
            <4> QED BY <3>2, <3>4, <4>4
        <3> QED BY <3>3, <3>4
    <2>2. ASSUME NEW s \in SUBSET T, s # {}
          PROVE  h[s \ {Pick(s)}] = Iter(f, s \ {Pick(s)})[s \ {Pick(s)}]
        <3>1. s \ {Pick(s)} \in SUBSET T /\ s \ {Pick(s)} # T
            BY <2>2, PickIn
        <3> HIDE DEF h
        <3> QED BY <2>1, <3>1
    <2>3. h = [s \in SUBSET T |-> IF s = {} THEN 0 ELSE f[Pick(s)] + h[s \ {Pick(s)}]]
        <3> DEFINE k == [s \in SUBSET T |-> IF s = {} THEN 0 ELSE f[Pick(s)] + h[s \ {Pick(s)}]]
        <3>1. DOMAIN h = DOMAIN k
            OBVIOUS
        <3>2. \A s \in SUBSET T : h[s] = k[s]
            BY <2>2
        <3> QED BY <3>1, <3>2
    <2> HIDE DEF h
    <2> QED BY <2>3 DEF Body
<1>3. S \in A
    <2> HIDE DEF A
    <2> QED BY <1>2, SubsetInduction
<1> QED BY <1>1, <1>3

\* A sum is the sum without some element, and that element.
LEMMA SumPicks ==
    ASSUME NEW f, NEW S, IsFiniteSet(S)
    PROVE  /\ S = {} => SumFunctionOnSet(f, S) = 0
           /\ S # {} => SumFunctionOnSet(f, S) = f[Pick(S)] + SumFunctionOnSet(f, S \ {Pick(S)})
<1> DEFINE g == Iter(f, S)
           T == S \ {Pick(S)}
<1>1. g = Body(f, S, g)
    BY IterExists
<1> HIDE DEF g
<1>2. g[S] = IF S = {} THEN 0 ELSE f[Pick(S)] + g[S \ {Pick(S)}]
    BY <1>1, Zenon DEF Body
<1>3. IsFiniteSet(T) /\ T \subseteq S
    BY FS_Subset
<1>4. Iter(f, T) = Body(f, T, Iter(f, T))
    BY <1>3, IterExists
<1>5. g[T] = Iter(f, T)[T]
    <2> HIDE DEF T
    <2> QED BY <1>1, <1>3, <1>4, IterLocal
<1> QED BY <1>2, <1>5, SumIsIter DEF g

\* Sums of integers are integers, and sums of natural numbers are natural numbers.
LEMMA SumType ==
    ASSUME NEW f, NEW S, IsFiniteSet(S)
    PROVE  /\ (\A x \in S : f[x] \in Int) => SumFunctionOnSet(f, S) \in Int
           /\ (\A x \in S : f[x] \in Nat) => SumFunctionOnSet(f, S) \in Nat
<1> DEFINE Sum(T) == SumFunctionOnSet(f, T)
           A == {T \in SUBSET S : /\ (\A x \in T : f[x] \in Int) => Sum(T) \in Int
                                  /\ (\A x \in T : f[x] \in Nat) => Sum(T) \in Nat}
<1>1. \A T \in SUBSET S : (\A U \in SUBSET T : U # T => U \in A) => T \in A
    <2> SUFFICES ASSUME NEW T \in SUBSET S, \A U \in SUBSET T : U # T => U \in A PROVE T \in A
        OBVIOUS
    <2>1. IsFiniteSet(T)
        BY FS_Subset
    <2>2. CASE T = {}
        <3>1. Sum(T) = 0
            BY <2>1, <2>2, SumPicks
        <3> HIDE DEF Sum
        <3> QED BY <3>1
    <2>3. CASE T # {}
        <3>1. T \ {Pick(T)} \in A /\ Pick(T) \in T
            BY <2>3, PickIn
        <3>2. Sum(T) = f[Pick(T)] + Sum(T \ {Pick(T)})
            BY <2>1, <2>3, SumPicks
        <3> HIDE DEF Sum
        <3> QED BY <3>1, <3>2
    <2> QED BY <2>2, <2>3
<1>2. S \in A
    <2> HIDE DEF A
    <2> QED BY <1>1, SubsetInduction
<1> QED BY <1>2

\* The sum depends on the values of the elements only.
LEMMA SumSame ==
    ASSUME NEW f, NEW g, NEW S, IsFiniteSet(S), \A x \in S : f[x] = g[x]
    PROVE  SumFunctionOnSet(f, S) = SumFunctionOnSet(g, S)
<1> DEFINE A == {T \in SUBSET S : SumFunctionOnSet(f, T) = SumFunctionOnSet(g, T)}
<1>1. \A T \in SUBSET S : (\A U \in SUBSET T : U # T => U \in A) => T \in A
    <2> SUFFICES ASSUME NEW T \in SUBSET S, \A U \in SUBSET T : U # T => U \in A PROVE T \in A
        OBVIOUS
    <2>1. IsFiniteSet(T)
        BY FS_Subset
    <2>2. CASE T = {}
        BY <2>1, <2>2, SumPicks
    <2>3. CASE T # {}
        <3>1. T \ {Pick(T)} \in A /\ Pick(T) \in T
            BY <2>3, PickIn
        <3>2. /\ SumFunctionOnSet(f, T) = f[Pick(T)] + SumFunctionOnSet(f, T \ {Pick(T)})
              /\ SumFunctionOnSet(g, T) = g[Pick(T)] + SumFunctionOnSet(g, T \ {Pick(T)})
            BY <2>1, <2>3, SumPicks
        <3> QED BY <3>1, <3>2
    <2> QED BY <2>2, <2>3
<1>2. S \in A
    <2> HIDE DEF A
    <2> QED BY <1>1, SubsetInduction
<1> QED BY <1>2

\* Any element can be taken out of a sum of integers first.
LEMMA SumRemove ==
    ASSUME NEW f, NEW S, IsFiniteSet(S), \A x \in S : f[x] \in Int, NEW e \in S
    PROVE  SumFunctionOnSet(f, S) = f[e] + SumFunctionOnSet(f, S \ {e})
<1> DEFINE Sum(T) == SumFunctionOnSet(f, T)
           A == {T \in SUBSET S : \A x \in T : Sum(T) = f[x] + Sum(T \ {x})}
<1>1. \A T \in SUBSET S : (\A U \in SUBSET T : U # T => U \in A) => T \in A
    <2> SUFFICES ASSUME NEW T \in SUBSET S, \A U \in SUBSET T : U # T => U \in A, NEW x \in T
                 PROVE  Sum(T) = f[x] + Sum(T \ {x})
        OBVIOUS
    <2> DEFINE y == Pick(T)
    <2>1. y \in T /\ Sum(T) = f[y] + Sum(T \ {y})
        BY FS_Subset, PickIn, SumPicks
    <2> HIDE DEF y
    <2>2. CASE x = y
        BY <2>1, <2>2
    <2>3. CASE x # y
        <3>1. T \ {x} \in A /\ T \ {y} \in A
            BY <2>1
        <3>2. Sum(T \ {x}) = f[y] + Sum((T \ {x}) \ {y}) /\ Sum(T \ {y}) = f[x] + Sum((T \ {y}) \ {x})
            BY <2>1, <2>3, <3>1
        <3>3. (T \ {x}) \ {y} = (T \ {y}) \ {x}
            OBVIOUS
        <3>4. IsFiniteSet((T \ {y}) \ {x})
            BY FS_Subset
        <3>5. Sum((T \ {y}) \ {x}) \in Int
            BY <3>4, SumType
        <3> DEFINE a == Sum((T \ {y}) \ {x})
        <3>6. Sum(T) = f[y] + (f[x] + a) /\ Sum(T \ {x}) = f[y] + a
            BY <2>1, <3>2, <3>3
        <3>7. a \in Int /\ f[x] \in Int /\ f[y] \in Int
            BY <2>1, <3>5
        <3> HIDE DEF Sum, a
        <3> QED BY <3>6, <3>7
    <2> QED BY <2>2, <2>3
<1>2. S \in A
    <2> HIDE DEF A
    <2> QED BY <1>1, SubsetInduction
<1> QED BY <1>2

\* The sum of a function follows a change of one of its values.
LEMMA SumUpdate ==
    ASSUME NEW S, IsFiniteSet(S), NEW f, NEW g, DOMAIN f = S, DOMAIN g = S, NEW e \in S,
           \A x \in S : f[x] \in Int /\ g[x] \in Int, \A x \in S \ {e} : g[x] = f[x]
    PROVE  SumFunction(f) \in Int /\ SumFunction(g) = SumFunction(f) - f[e] + g[e]
<1>1. IsFiniteSet(S \ {e})
    BY FS_Subset
<1>2. SumFunctionOnSet(f, S \ {e}) = SumFunctionOnSet(g, S \ {e}) /\ SumFunctionOnSet(f, S \ {e}) \in Int
    BY <1>1, SumSame, SumType
<1>3. /\ SumFunctionOnSet(f, S) = f[e] + SumFunctionOnSet(f, S \ {e})
      /\ SumFunctionOnSet(g, S) = g[e] + SumFunctionOnSet(g, S \ {e})
    BY SumRemove
<1> QED BY <1>2, <1>3 DEF SumFunction

\* The sum over two disjoint sets.
LEMMA SumUnion ==
    ASSUME NEW f, NEW S, IsFiniteSet(S), NEW P, IsFiniteSet(P), S \cap P = {}, \A x \in S \cup P : f[x] \in Int
    PROVE  SumFunctionOnSet(f, S \cup P) = SumFunctionOnSet(f, S) + SumFunctionOnSet(f, P)
<1> DEFINE Sum(T) == SumFunctionOnSet(f, T)
           A == {T \in SUBSET P : Sum(S \cup T) = Sum(S) + Sum(T)}
<1>1. \A T \in SUBSET P : (\A U \in SUBSET T : U # T => U \in A) => T \in A
    <2> SUFFICES ASSUME NEW T \in SUBSET P, \A U \in SUBSET T : U # T => U \in A
                 PROVE  Sum(S \cup T) = Sum(S) + Sum(T)
        OBVIOUS
    <2>1. IsFiniteSet(T) /\ IsFiniteSet(S \cup T)
        BY FS_Subset, FS_Union
    <2>2. Sum(S) \in Int
        BY SumType
    <2>3. CASE T = {}
        <3>1. Sum(T) = 0
            BY <2>1, <2>3, SumPicks
        <3>2. Sum(S \cup T) = Sum(S)
            <4>1. S \cup T = S
                BY <2>3
            <4> HIDE DEF Sum
            <4> QED BY <4>1, Zenon
        <3> HIDE DEF Sum
        <3> QED BY <2>2, <3>1, <3>2
    <2>4. CASE T # {}
        <3> DEFINE x == Pick(T)
        <3>1. x \in T
            BY <2>4, PickIn
        <3> HIDE DEF x
        <3>2. (S \cup T) \ {x} = S \cup (T \ {x})
            BY <3>1
        <3>3. Sum(S \cup T) = f[x] + Sum((S \cup T) \ {x})
            BY <2>1, <3>1, SumRemove
        <3>4. Sum(T) = f[x] + Sum(T \ {x})
            BY <2>1, <3>1, SumRemove
        <3>5. Sum(S \cup (T \ {x})) = Sum(S) + Sum(T \ {x})
            BY <3>1
        <3>6. Sum(T \ {x}) \in Int /\ f[x] \in Int
            <4>1. IsFiniteSet(T \ {x})
                BY <2>1, FS_Subset
            <4> QED BY <3>1, <4>1, SumType
        <3>7. Sum((S \cup T) \ {x}) = Sum(S \cup (T \ {x}))
            <4> HIDE DEF Sum
            <4> QED BY <3>2, Zenon
        <3> DEFINE a == Sum(S)
                   b == Sum(T)
                   c == Sum(T \ {x})
                   d == Sum(S \cup T)
                   e == f[x]
        <3>8. a \in Int /\ c \in Int /\ e \in Int /\ b = e + c /\ d = e + (a + c)
            <4>1. d = e + Sum(S \cup (T \ {x}))
                BY <3>3, <3>7
            <4> QED BY <2>2, <3>4, <3>5, <3>6, <4>1
        <3>9. d = a + b
            <4> HIDE DEF a, b, c, d, e
            <4> QED BY <3>8
        <3> QED BY <3>9
    <2> QED BY <2>3, <2>4
<1>2. P \in A
    <2> HIDE DEF A
    <2> QED BY <1>1, SubsetInduction
<1> QED BY <1>2

\* The sum over one element, and over none.
LEMMA SumSmall ==
    ASSUME NEW f
    PROVE  /\ SumFunctionOnSet(f, {}) = 0
           /\ \A x : f[x] \in Int => SumFunctionOnSet(f, {x}) = f[x]
<1>1. SumFunctionOnSet(f, {}) = 0
    BY SumPicks, FS_EmptySet
<1>2. ASSUME NEW x, f[x] \in Int PROVE SumFunctionOnSet(f, {x}) = f[x]
    <2> DEFINE S == {x}
    <2>1. IsFiniteSet(S) /\ x \in S /\ S \ {x} = {} /\ \A y \in S : f[y] \in Int
        BY <1>2, FS_Singleton
    <2>2. SumFunctionOnSet(f, S) = f[x] + SumFunctionOnSet(f, S \ {x})
        <3> HIDE DEF S
        <3> QED BY <2>1, SumRemove
    <2> QED BY <1>1, <1>2, <2>1, <2>2
<1> QED BY <1>1, <1>2

\* A sum of zeros.
LEMMA SumZero == ASSUME NEW f, NEW S, IsFiniteSet(S), \A x \in S : f[x] = 0 PROVE SumFunctionOnSet(f, S) = 0
<1> DEFINE A == {T \in SUBSET S : SumFunctionOnSet(f, T) = 0}
<1>1. \A T \in SUBSET S : (\A U \in SUBSET T : U # T => U \in A) => T \in A
    <2> SUFFICES ASSUME NEW T \in SUBSET S, \A U \in SUBSET T : U # T => U \in A
                 PROVE  SumFunctionOnSet(f, T) = 0
        OBVIOUS
    <2>1. IsFiniteSet(T)
        BY FS_Subset
    <2>2. CASE T = {}
        BY <2>1, <2>2, SumPicks
    <2>3. CASE T # {}
        <3>1. T \ {Pick(T)} \in A /\ Pick(T) \in T
            BY <2>3, PickIn
        <3>2. SumFunctionOnSet(f, T) = f[Pick(T)] + SumFunctionOnSet(f, T \ {Pick(T)})
            BY <2>1, <2>3, SumPicks
        <3>3. f[Pick(T)] = 0
            BY <3>1
        <3> QED BY <3>1, <3>2, <3>3
    <2> QED BY <2>2, <2>3
<1>2. S \in A
    <2> HIDE DEF A
    <2> QED BY <1>1, SubsetInduction
<1> QED BY <1>2

\* The sum over a part of a set, as a sum over the set.
LEMMA SumPart ==
    ASSUME NEW S, IsFiniteSet(S), NEW T \in SUBSET S, NEW f, NEW g,
           \A x \in T : g[x] = f[x] /\ f[x] \in Int, \A x \in S \ T : g[x] = 0
    PROVE  SumFunctionOnSet(g, S) = SumFunctionOnSet(f, T)
<1> DEFINE Sum(h, U) == SumFunctionOnSet(h, U)
           A == {U \in SUBSET S : Sum(g, U) = Sum(f, U \cap T)}
<1>1. \A U \in SUBSET S : (\A V \in SUBSET U : V # U => V \in A) => U \in A
    <2> SUFFICES ASSUME NEW U \in SUBSET S, \A V \in SUBSET U : V # U => V \in A
                 PROVE  Sum(g, U) = Sum(f, U \cap T)
        OBVIOUS
    <2>1. IsFiniteSet(U) /\ IsFiniteSet(U \cap T)
        BY FS_Subset
    <2>2. CASE U = {}
        <3>1. U \cap T = {}
            BY <2>2
        <3> QED BY <2>1, <2>2, <3>1, SumPicks
    <2>3. CASE U # {}
        <3> DEFINE x == Pick(U)
        <3>1. x \in U /\ Sum(g, U) = g[x] + Sum(g, U \ {x})
            BY <2>1, <2>3, PickIn, SumPicks
        <3> HIDE DEF x
        <3>2. Sum(g, U \ {x}) = Sum(f, (U \ {x}) \cap T)
            BY <3>1
        <3>3. CASE x \in T
            <4>1. (U \ {x}) \cap T = (U \cap T) \ {x} /\ x \in U \cap T /\ \A y \in U \cap T : f[y] \in Int
                BY <3>1, <3>3
            <4>2. Sum(f, U \cap T) = f[x] + Sum(f, (U \cap T) \ {x})
                BY <2>1, <4>1, SumRemove
            <4>3. g[x] = f[x]
                BY <3>3
            <4> HIDE DEF Sum
            <4> QED BY <3>1, <3>2, <4>1, <4>2, <4>3
        <3>4. CASE x \notin T
            <4>1. (U \ {x}) \cap T = U \cap T /\ g[x] = 0
                BY <3>1, <3>4
            <4>2. \A y \in U \cap T : f[y] \in Int
                OBVIOUS
            <4>3. Sum(f, U \cap T) \in Int
                BY <2>1, <4>2, SumType
            <4> HIDE DEF Sum
            <4> QED BY <3>1, <3>2, <4>1, <4>3
        <3> QED BY <3>3, <3>4
    <2> QED BY <2>2, <2>3
<1>2. S \in A
    <2> HIDE DEF A
    <2> QED BY <1>1, SubsetInduction
<1>3. S \cap T = T
    OBVIOUS
<1> QED BY <1>2, <1>3

\* A product of natural numbers is one, and a smaller factor makes a smaller product.
LEMMA Products ==
    ASSUME NEW a \in Nat, NEW b \in Nat, NEW c \in Nat, a <= b
    PROVE  a * c \in Nat /\ b * c \in Nat /\ a * c <= b * c
OBVIOUS

\* Quotient and remainder.
LEMMA Quotients ==
    ASSUME NEW n \in Nat, NEW d \in Nat \ {0}
    PROVE  n \div d \in Nat /\ n % d \in Nat /\ n % d < d /\ n = d * (n \div d) + (n % d)
OBVIOUS

\* Sums can be added element by element.
LEMMA SumAdd ==
    ASSUME NEW S, IsFiniteSet(S), NEW f, NEW g, NEW h,
           \A x \in S : f[x] \in Int /\ g[x] \in Int /\ h[x] = f[x] + g[x]
    PROVE  SumFunctionOnSet(h, S) = SumFunctionOnSet(f, S) + SumFunctionOnSet(g, S)
<1> DEFINE Sum(k, T) == SumFunctionOnSet(k, T)
           A == {T \in SUBSET S : Sum(h, T) = Sum(f, T) + Sum(g, T)}
<1>1. \A T \in SUBSET S : (\A U \in SUBSET T : U # T => U \in A) => T \in A
    <2> SUFFICES ASSUME NEW T \in SUBSET S, \A U \in SUBSET T : U # T => U \in A
                 PROVE  Sum(h, T) = Sum(f, T) + Sum(g, T)
        OBVIOUS
    <2>1. IsFiniteSet(T)
        BY FS_Subset
    <2>2. CASE T = {}
        <3>1. Sum(h, T) = 0 /\ Sum(f, T) = 0 /\ Sum(g, T) = 0
            BY <2>1, <2>2, SumPicks
        <3> HIDE DEF Sum
        <3> QED BY <3>1
    <2>3. CASE T # {}
        <3> DEFINE x == Pick(T)
                   U == T \ {x}
        <3>1. x \in T /\ Sum(h, T) = h[x] + Sum(h, U) /\ Sum(f, T) = f[x] + Sum(f, U)
              /\ Sum(g, T) = g[x] + Sum(g, U)
            BY <2>1, <2>3, PickIn, SumPicks
        <3> HIDE DEF x
        <3>2. Sum(h, U) = Sum(f, U) + Sum(g, U)
            BY <3>1
        <3>3. IsFiniteSet(U) /\ (\A y \in U : f[y] \in Int /\ g[y] \in Int)
            BY <2>1, FS_Subset
        <3>4. Sum(f, U) \in Int /\ Sum(g, U) \in Int
            BY <3>3, SumType
        <3>5. f[x] \in Int /\ g[x] \in Int /\ h[x] = f[x] + g[x]
            BY <3>1
        <3> HIDE DEF Sum, U
        <3> QED BY <3>1, <3>2, <3>4, <3>5
    <2> QED BY <2>2, <2>3
<1>2. S \in A
    <2> HIDE DEF A
    <2> QED BY <1>1, SubsetInduction
<1> QED BY <1>2

\* The ratios of two products, without the common factor.
LEMMA Factors ==
    ASSUME NEW m \in Nat, NEW n \in Nat, NEW a \in Nat, NEW b \in Nat, NEW c \in Nat, NEW d \in Nat,
           m * a <= n * b, m * c <= n * d
    PROVE  m * (a + c) <= n * (b + d)
<1>1. m * (a + c) = m * a + m * c /\ n * (b + d) = n * b + n * d
    OBVIOUS
<1>2. m * a \in Nat /\ m * c \in Nat /\ n * b \in Nat /\ n * d \in Nat
    OBVIOUS
<1> DEFINE p == m * a
           q == m * c
           r == n * b
           s == n * d
<1>3. p + q <= r + s
    <2>1. p \in Nat /\ q \in Nat /\ r \in Nat /\ s \in Nat /\ p <= r /\ q <= s
        BY <1>2
    <2> HIDE DEF p, q, r, s
    <2> QED BY <2>1
<1> QED BY <1>1, <1>3

\* If no f[x] is larger in proportion than g[x], the sum of f is not either.
Scaled(m, f, n, g, S) == \A x \in S : f[x] \in Nat /\ g[x] \in Nat /\ m * f[x] <= n * g[x]
LEMMA SumScaled ==
    ASSUME NEW S, IsFiniteSet(S), NEW f, NEW g, NEW m \in Nat, NEW n \in Nat, Scaled(m, f, n, g, S)
    PROVE  /\ SumFunctionOnSet(f, S) \in Nat /\ SumFunctionOnSet(g, S) \in Nat
           /\ m * SumFunctionOnSet(f, S) <= n * SumFunctionOnSet(g, S)
<1> DEFINE Sum(k, T) == SumFunctionOnSet(k, T)
           A == {T \in SUBSET S : Sum(f, T) \in Nat /\ Sum(g, T) \in Nat /\ m * Sum(f, T) <= n * Sum(g, T)}
<1>1. \A T \in SUBSET S : (\A U \in SUBSET T : U # T => U \in A) => T \in A
    <2> SUFFICES ASSUME NEW T \in SUBSET S, \A U \in SUBSET T : U # T => U \in A
                 PROVE  Sum(f, T) \in Nat /\ Sum(g, T) \in Nat /\ m * Sum(f, T) <= n * Sum(g, T)
        OBVIOUS
    <2>1. IsFiniteSet(T)
        BY FS_Subset
    <2>2. CASE T = {}
        <3>1. Sum(f, T) = 0 /\ Sum(g, T) = 0
            BY <2>1, <2>2, SumPicks
        <3> HIDE DEF Sum
        <3> QED BY <3>1
    <2>3. CASE T # {}
        <3> DEFINE x == Pick(T)
                   U == T \ {x}
        <3>1. x \in T /\ Sum(f, T) = f[x] + Sum(f, U) /\ Sum(g, T) = g[x] + Sum(g, U)
            BY <2>1, <2>3, PickIn, SumPicks
        <3> HIDE DEF x
        <3>2. Sum(f, U) \in Nat /\ Sum(g, U) \in Nat /\ m * Sum(f, U) <= n * Sum(g, U)
            BY <3>1
        <3>3. f[x] \in Nat /\ g[x] \in Nat /\ m * f[x] <= n * g[x]
            BY <3>1 DEF Scaled
        <3> HIDE DEF Sum, U
        <3>4. m * (f[x] + Sum(f, U)) <= n * (g[x] + Sum(g, U))
            BY <3>2, <3>3, Factors
        <3> QED BY <3>1, <3>2, <3>3, <3>4
    <2> QED BY <2>2, <2>3
<1>2. S \in A
    <2> HIDE DEF A
    <2> QED BY <1>1, SubsetInduction
<1> QED BY <1>2

\* The sum over a set is the sum over its parts: the elements with each key.
PartOf(S, key, k) == {x \in S : key[x] = k}
LEMMA SumByKey ==
    ASSUME NEW S, IsFiniteSet(S), NEW K, IsFiniteSet(K), NEW key, \A x \in S : key[x] \in K,
           NEW f, \A x \in S : f[x] \in Int
    PROVE  SumFunctionOnSet(f, S) = SumFunctionOnSet([k \in K |-> SumFunctionOnSet(f, PartOf(S, key, k))], K)
<1> DEFINE part == [k \in K |-> SumFunctionOnSet(f, PartOf(S, key, k))]
           Keyed(L) == {x \in S : key[x] \in L}
           A == {L \in SUBSET K : SumFunctionOnSet(f, Keyed(L)) = SumFunctionOnSet(part, L)}
<1>1. \A L \in SUBSET K : (\A U \in SUBSET L : U # L => U \in A) => L \in A
    <2> SUFFICES ASSUME NEW L \in SUBSET K, \A U \in SUBSET L : U # L => U \in A
                 PROVE  SumFunctionOnSet(f, Keyed(L)) = SumFunctionOnSet(part, L)
        OBVIOUS
    <2>1. IsFiniteSet(L)
        BY FS_Subset
    <2>2. CASE L = {}
        <3>1. Keyed(L) = {}
            BY <2>2
        <3>2. SumFunctionOnSet(f, {}) = 0 /\ SumFunctionOnSet(part, {}) = 0
            BY SumSmall
        <3> HIDE DEF Keyed, part
        <3> QED BY <2>2, <3>1, <3>2
    <2>3. CASE L # {}
        <3> DEFINE k == Pick(L)
        <3>1. k \in L /\ SumFunctionOnSet(part, L) = part[k] + SumFunctionOnSet(part, L \ {k})
            <4> HIDE DEF part
            <4> QED BY <2>1, <2>3, PickIn, SumPicks
        <3> HIDE DEF k
        <3> DEFINE P == PartOf(S, key, k)
                   R == Keyed(L \ {k})
        <3>2. /\ IsFiniteSet(P) /\ IsFiniteSet(R) /\ P \cap R = {} /\ P \cup R = Keyed(L)
              /\ \A x \in P \cup R : f[x] \in Int
            <4>1. P \subseteq S /\ R \subseteq S
                BY DEF PartOf
            <4> QED BY <3>1, <4>1, FS_Subset DEF PartOf
        <3>3. SumFunctionOnSet(f, R) = SumFunctionOnSet(part, L \ {k})
            BY <3>1
        <3>4. part[k] = SumFunctionOnSet(f, P)
            BY <3>1
        <3> HIDE DEF P, R, Keyed, part
        <3>5. SumFunctionOnSet(f, P \cup R) = SumFunctionOnSet(f, P) + SumFunctionOnSet(f, R)
            BY <3>2, SumUnion
        <3> QED BY <3>1, <3>2, <3>3, <3>4, <3>5
    <2> QED BY <2>2, <2>3
<1>2. K \in A
    <2> HIDE DEF A
    <2> QED BY <1>1, SubsetInduction
<1>3. Keyed(K) = S
    OBVIOUS
<1> HIDE DEF Keyed
<1> QED BY <1>2, <1>3

\* What is divided in proportion, rounded down, is not more than what there was.
LEMMA Shares ==
    ASSUME NEW S, IsFiniteSet(S), NEW e, \A x \in S : e[x] \in Nat \ {0}, NEW r \in Nat, NEW q,
           \A x \in S : q[x] = (r * e[x]) \div SumFunctionOnSet(e, S)
    PROVE  SumFunctionOnSet(q, S) \in Nat /\ SumFunctionOnSet(q, S) <= r
<1> DEFINE t == SumFunctionOnSet(e, S)
<1>1. t \in Nat
    BY SumType
<1>2. CASE S = {}
    <2>1. SumFunctionOnSet(q, S) = 0
        BY <1>2, SumPicks
    <2> QED BY <2>1
<1>3. CASE S # {}
    <2>1. t > 0
        <3>1. PICK x \in S : TRUE
            BY <1>3
        <3>2. IsFiniteSet(S \ {x}) /\ \A y \in S \ {x} : e[y] \in Nat
            BY FS_Subset
        <3>3. SumFunctionOnSet(e, S \ {x}) \in Nat
            BY <3>2, SumType
        <3>4. t = e[x] + SumFunctionOnSet(e, S \ {x})
            BY SumRemove
        <3>5. e[x] \in Nat \ {0}
            OBVIOUS
        <3> HIDE DEF t
        <3> QED BY <3>3, <3>4, <3>5
    <2>2. ASSUME NEW x \in S PROVE q[x] \in Nat /\ e[x] \in Nat /\ t * q[x] <= r * e[x]
        <3>1. q[x] = (r * e[x]) \div t /\ e[x] \in Nat
            OBVIOUS
        <3> HIDE DEF t
        <3>2. r * e[x] \in Nat
            BY <3>1
        <3> DEFINE n == r * e[x]
        <3>3. n \div t \in Nat /\ n % t \in Nat /\ n = t * (n \div t) + (n % t)
            <4>1. n \in Nat /\ t \in Nat \ {0}
                BY <1>1, <2>1, <3>2
            <4> HIDE DEF n
            <4> QED BY <4>1, Quotients
        <3>4. t * (n \div t) <= n
            <4> DEFINE a == n \div t
                       b == t * a
                       c == n % t
            <4>1. b \in Nat /\ n = b + c /\ c \in Nat
                BY <1>1, <3>3
            <4>2. b <= n
                <5> HIDE DEF b, c, n
                <5> QED BY <4>1
            <4> QED BY <4>2
        <3> QED BY <3>1, <3>3, <3>4
    <2>3. Scaled(t, q, r, e, S)
        BY <2>2 DEF Scaled
    <2> DEFINE s == SumFunctionOnSet(q, S)
    <2>4. s \in Nat /\ t * s <= r * t
        BY <1>1, <2>3, SumScaled
    <2> HIDE DEF s, t
    <2>5. s <= r
        <3> SUFFICES ASSUME s >= r + 1 PROVE FALSE
            BY <2>4
        <3>1. (r + 1) * t <= s * t
            BY <1>1, <2>4, Products
        <3>2. (r + 1) * t = r * t + t /\ s * t = t * s /\ r * t \in Nat /\ t * s \in Nat
            BY <1>1, <2>4
        <3> DEFINE u == r * t
                   v == t * s
        <3>3. u + t <= v /\ v <= u /\ u \in Nat /\ v \in Nat
            BY <2>4, <3>1, <3>2
        <3> HIDE DEF u, v
        <3> QED BY <1>1, <2>1, <3>3
    <2> QED BY <2>4, <2>5 DEF s
<1> QED BY <1>2, <1>3

\* A finite set of numbers has a smallest and a largest one.
LEMMA LeastAndMost ==
    ASSUME NEW S, IsFiniteSet(S), S # {}, NEW f, \A x \in S : f[x] \in Nat
    PROVE  (\E a \in S : \A x \in S : f[a] <= f[x]) /\ (\E b \in S : \A x \in S : f[x] <= f[b])
<1> DEFINE Ends(T) == (\E a \in T : \A x \in T : f[a] <= f[x]) /\ (\E b \in T : \A x \in T : f[x] <= f[b])
           A == {T \in SUBSET S : T = {} \/ Ends(T)}
<1>1. ASSUME NEW T \in SUBSET S, \A U \in SUBSET T : U # T => U \in A PROVE T \in A
    <2> SUFFICES ASSUME T # {} PROVE Ends(T)
        OBVIOUS
    <2>1. PICK e \in T : TRUE
        OBVIOUS
    <2> DEFINE U == T \ {e}
    <2>2. U \in SUBSET T /\ U # T
        BY <2>1
    <2>3. U = {} \/ Ends(U)
        BY <1>1, <2>2
    <2>4. \A x \in T : x = e \/ x \in U
        OBVIOUS
    <2>5. \A x \in T : f[x] \in Nat
        OBVIOUS
    <2> HIDE DEF U
    <2>6. CASE U = {}
        <3>1. \A x \in T : f[e] <= f[x] /\ f[x] <= f[e]
            BY <2>4, <2>5, <2>6
        <3> QED BY <2>1, <3>1
    <2>7. CASE Ends(U)
        <3>1. PICK a \in U : \A x \in U : f[a] <= f[x]
            BY <2>7
        <3>2. PICK b \in U : \A x \in U : f[x] <= f[b]
            BY <2>7
        <3>3. a \in T /\ b \in T
            BY <2>2
        <3>4. \E c \in T : \A x \in T : f[c] <= f[x]
            <4>1. CASE f[e] <= f[a]
                <5>1. \A x \in T : f[e] <= f[x]
                    BY <2>4, <2>5, <3>1, <3>3, <4>1
                <5> QED BY <2>1, <5>1
            <4>2. CASE ~(f[e] <= f[a])
                <5>1. \A x \in T : f[a] <= f[x]
                    BY <2>1, <2>4, <2>5, <3>1, <3>3, <4>2
                <5> QED BY <3>3, <5>1
            <4> QED BY <4>1, <4>2
        <3>5. \E c \in T : \A x \in T : f[x] <= f[c]
            <4>1. CASE f[e] >= f[b]
                <5>1. \A x \in T : f[x] <= f[e]
                    BY <2>4, <2>5, <3>2, <3>3, <4>1
                <5> QED BY <2>1, <5>1
            <4>2. CASE ~(f[e] >= f[b])
                <5>1. \A x \in T : f[x] <= f[b]
                    BY <2>1, <2>4, <2>5, <3>2, <3>3, <4>2
                <5> QED BY <3>3, <5>1
            <4> QED BY <4>1, <4>2
        <3> QED BY <3>4, <3>5
    <2> QED BY <2>3, <2>6, <2>7
<1> HIDE DEF A
<1>2. \A T \in SUBSET S : T \in A
    BY <1>1, SubsetInduction
<1> QED BY <1>2 DEF A

\* A quotient lies between the bounds of its dividend.
LEMMA QuotientBetween ==
    ASSUME NEW n \in Nat, NEW d \in Nat \ {0}, NEW a \in Nat, NEW b \in Nat, a * d <= n, n <= b * d
    PROVE  n \div d \in Nat /\ a <= n \div d /\ n \div d <= b
<1> DEFINE q == n \div d
           r == n % d
<1>1. q \in Nat /\ r \in Nat /\ r < d /\ n = d * q + r
    BY Quotients
<1> HIDE DEF q, r
<1>2. a <= q
    <2> SUFFICES ASSUME ~(a <= q) PROVE FALSE
        OBVIOUS
    <2>1. q + 1 <= a /\ q + 1 \in Nat
        BY <1>1
    <2>2. (q + 1) * d <= a * d
        BY <2>1, Products
    <2>3. (q + 1) * d = d * q + d
        BY <1>1
    <2> DEFINE m == d * q
               k == a * d
    <2>4. m \in Nat /\ k \in Nat /\ m + d <= k /\ k <= n /\ n = m + r
        BY <1>1, <2>2, <2>3
    <2> HIDE DEF m, k
    <2> QED BY <1>1, <2>4
<1>3. q <= b
    <2> SUFFICES ASSUME ~(q <= b) PROVE FALSE
        OBVIOUS
    <2>1. b + 1 <= q /\ b + 1 \in Nat
        BY <1>1
    <2>2. (b + 1) * d <= q * d
        BY <1>1, <2>1, Products
    <2>3. (b + 1) * d = b * d + d /\ q * d = d * q
        BY <1>1
    <2> DEFINE m == d * q
               k == b * d
    <2>4. m \in Nat /\ k \in Nat /\ k + d <= m /\ n <= k /\ n = m + r
        BY <1>1, <2>2, <2>3
    <2> HIDE DEF m, k
    <2> QED BY <1>1, <2>4
<1> QED BY <1>1, <1>2, <1>3 DEF q

\* A weighted average lies between two of the values.
LEMMA WeightedAverage ==
    ASSUME NEW S, IsFiniteSet(S), S # {}, NEW p, NEW w, NEW q,
           \A x \in S : p[x] \in Nat /\ w[x] \in Nat \ {0} /\ q[x] = p[x] * w[x]
    PROVE  LET W == SumFunctionOnSet(w, S)  Q == SumFunctionOnSet(q, S)
           IN  /\ W \in Nat \ {0} /\ Q \div W \in Nat
               /\ \E a, b \in S : p[a] <= Q \div W /\ Q \div W <= p[b]
<1> DEFINE W == SumFunctionOnSet(w, S)
           Q == SumFunctionOnSet(q, S)
<1>1. PICK a \in S : \A x \in S : p[a] <= p[x]
    BY LeastAndMost
<1>2. PICK b \in S : \A x \in S : p[x] <= p[b]
    BY LeastAndMost
<1>3. \A x \in S : q[x] \in Nat /\ p[a] * w[x] <= 1 * q[x] /\ 1 * q[x] <= p[b] * w[x]
    <2> TAKE x \in S
    <2> DEFINE l == p[a]
               m == p[x]
               h == p[b]
               v == w[x]
    <2>1. l \in Nat /\ m \in Nat /\ h \in Nat /\ v \in Nat /\ l <= m /\ m <= h /\ q[x] = m * v
        BY <1>1, <1>2
    <2> HIDE DEF l, m, h, v
    <2>2. l * v <= m * v /\ m * v <= h * v /\ m * v \in Nat
        BY <2>1, Products
    <2>3. q[x] \in Nat /\ l * v <= 1 * q[x] /\ 1 * q[x] <= h * v
        <3> DEFINE lv == l * v
                   hv == h * v
        <3>1. lv <= q[x] /\ q[x] <= hv /\ q[x] \in Nat
            BY <2>1, <2>2
        <3> HIDE DEF lv, hv
        <3>2. lv <= 1 * q[x] /\ 1 * q[x] <= hv
            BY <3>1
        <3> QED BY <3>1, <3>2 DEF lv, hv
    <2> QED BY <2>3 DEF l, h, v
<1>4. Scaled(p[a], w, 1, q, S) /\ Scaled(1, q, p[b], w, S)
    BY <1>3 DEF Scaled
<1>5. W \in Nat /\ Q \in Nat /\ p[a] * W <= 1 * Q /\ 1 * Q <= p[b] * W
    BY <1>4, SumScaled
<1>6. W \in Nat \ {0}
    <2>1. W = w[a] + SumFunctionOnSet(w, S \ {a})
        BY SumRemove
    <2>2. SumFunctionOnSet(w, S \ {a}) \in Nat
        BY FS_Subset, SumType
    <2> HIDE DEF W
    <2> QED BY <2>1, <2>2
<1>7. p[a] \in Nat /\ p[b] \in Nat
    OBVIOUS
<1> HIDE DEF W, Q
<1>8. p[a] * W <= Q /\ Q <= p[b] * W
    <2> DEFINE l == p[a] * W
               h == p[b] * W
    <2>1. l <= 1 * Q /\ 1 * Q <= h
        BY <1>5
    <2> HIDE DEF l, h
    <2>2. l <= Q /\ Q <= h
        BY <1>5, <2>1
    <2> QED BY <2>2 DEF l, h
<1>9. Q \div W \in Nat /\ p[a] <= Q \div W /\ Q \div W <= p[b]
    BY <1>5, <1>6, <1>7, <1>8, QuotientBetween
<1> QED BY <1>6, <1>9 DEF W, Q

\* The number of elements is a sum of ones.
LEMMA CountIsSum ==
    ASSUME NEW S, IsFiniteSet(S)
    PROVE  Cardinality(S) = SumFunctionOnSet([x \in S |-> 1], S)
<1> DEFINE one == [x \in S |-> 1]
           A == {T \in SUBSET S : Cardinality(T) = SumFunctionOnSet(one, T)}
<1>1. ASSUME NEW T \in SUBSET S, \A U \in SUBSET T : U # T => U \in A PROVE T \in A
    <2>1. IsFiniteSet(T)
        BY FS_Subset
    <2>2. CASE T = {}
        <3>1. Cardinality(T) = 0 /\ SumFunctionOnSet(one, T) = 0
            BY <2>2, FS_EmptySet, SumSmall
        <3> QED BY <3>1
    <2>3. CASE T # {}
        <3>1. PICK e \in T : TRUE
            BY <2>3
        <3> DEFINE U == T \ {e}
        <3>2. U \in SUBSET T /\ U # T /\ IsFiniteSet(U)
            BY <2>1, <3>1, FS_Subset
        <3>3. Cardinality(U) = SumFunctionOnSet(one, U)
            BY <1>1, <3>2
        <3>4. Cardinality(U) = Cardinality(T) - 1 /\ Cardinality(T) \in Nat
            BY <2>1, <3>1, FS_RemoveElement, FS_CardinalityType
        <3>5. SumFunctionOnSet(one, T) = one[e] + SumFunctionOnSet(one, U)
            BY <2>1, <3>1, SumRemove
        <3>6. one[e] = 1
            BY <3>1
        <3> DEFINE c == Cardinality(T)
                   t == SumFunctionOnSet(one, T)
        <3>7. c \in Nat /\ t = 1 + (c - 1)
            BY <3>3, <3>4, <3>5, <3>6
        <3> HIDE DEF c, t
        <3>8. c = t
            BY <3>7
        <3> QED BY <3>8 DEF c, t
    <2> QED BY <2>2, <2>3
<1> HIDE DEF A
<1>2. \A T \in SUBSET S : T \in A
    BY <1>1, SubsetInduction
<1> QED BY <1>2 DEF A

-----------------------------------------------------------------------------
(* Bitcoin chains. *)

\* Induction along the positions of a list.
LEMMA Positions ==
    ASSUME NEW n \in Nat, NEW A, \A i \in 1..n : (i = 1 \/ i - 1 \in A) => i \in A
    PROVE  1..n \subseteq A
<1> SUFFICES ASSUME NEW x \in 1..n, x \notin A PROVE FALSE
    OBVIOUS
<1> DEFINE T == {i \in 1..n : i \notin A}
           R == OpToRel(<, Nat)
<1>1. T \subseteq Nat /\ T # {} /\ IsWellFoundedOn(R, Nat)
    <2>1. IsWellFoundedOn(R, Nat)
        BY NatLessThanWellFounded, Zenon
    <2> HIDE DEF R
    <2> QED BY <2>1
<1> HIDE DEF R
<1>2. PICK i \in T : \A j \in T : <<j, i>> \notin R
    <2> HIDE DEF T
    <2> QED BY <1>1, WFMin
<1>3. i \in 1..n /\ i \notin A
    OBVIOUS
<1>4. CASE i = 1
    BY <1>3, <1>4
<1>5. CASE i # 1
    <2>1. i - 1 \in 1..n /\ i - 1 < i /\ i - 1 \in Nat /\ i \in Nat
        BY <1>3, <1>5
    <2>2. i - 1 \notin A
        BY <1>3
    <2>3. <<i - 1, i>> \in R
        BY <2>1 DEF R, OpToRel
    <2> QED BY <1>2, <2>1, <2>2, <2>3
<1> QED BY <1>4, <1>5

\* The largest of some numbers up to n.
LEMMA MaxFacts ==
    ASSUME NEW n \in Nat, NEW S \in SUBSET (0..n), S # {}
    PROVE  Max(S) \in S /\ \A x \in S : x <= Max(S)
<1> DEFINE T == {n - x : x \in S}
           R == OpToRel(<, Nat)
<1>1. T \subseteq Nat /\ T # {} /\ IsWellFoundedOn(R, Nat)
    <2>1. IsWellFoundedOn(R, Nat)
        BY NatLessThanWellFounded, Zenon
    <2>2. \A x \in S : n - x \in Nat
        OBVIOUS
    <2> HIDE DEF R
    <2> QED BY <2>1, <2>2
<1> HIDE DEF R
<1>2. PICK t \in T : \A j \in T : <<j, t>> \notin R
    <2> HIDE DEF T
    <2> QED BY <1>1, WFMin
<1>3. PICK m \in S : t = n - m
    OBVIOUS
<1>4. \A x \in S : m >= x
    <2> TAKE x \in S
    <2>1. n - x \in T /\ n - x \in Nat /\ n - m \in Nat /\ m \in 0..n /\ x \in 0..n
        OBVIOUS
    <2>2. ~(n - x < n - m)
        BY <1>2, <1>3, <2>1 DEF R, OpToRel
    <2> QED BY <2>1, <2>2
<1>5. \E y \in S : \A x \in S : y >= x
    BY <1>4
<1>6. Max(S) \in S /\ \A x \in S : Max(S) >= x
    BY <1>5 DEF Max
<1> QED BY <1>6

\* Induction along the parents of blocks.
LEMMA BlockInduction ==
    ASSUME NEW A, \A b \in Blocks : (Parent[b] = NoBlock \/ (Parent[b] \in Blocks /\ Parent[b] \in A)) => b \in A
    PROVE  Blocks \subseteq A
<1> SUFFICES ASSUME ~(Blocks \subseteq A) PROVE FALSE
    OBVIOUS
<1> DEFINE S == Blocks \ A
<1>1. S \in SUBSET Blocks /\ S # {}
    OBVIOUS
<1>2. PICK b \in S : Parent[b] \notin S
    <2>1. \A P \in SUBSET Blocks : P # {} => \E b \in P : Parent[b] \notin P
        BY OracleAssumption
    <2> HIDE DEF S
    <2> QED BY <1>1, <2>1
<1>3. Parent[b] \in Blocks \cup {NoBlock}
    BY OracleAssumption
<1> QED BY <1>2, <1>3

\* The chains of the blocks of T.
ChainsOf(T, g) ==
    /\ T \subseteq Blocks /\ \A b \in T : Parent[b] \in T \cup {NoBlock}
    /\ g = [b \in T |-> IF Parent[b] = NoBlock THEN <<b>> ELSE Append(g[Parent[b]], b)]

\* Two functions that satisfy the equation of Chain agree where both are defined.
LEMMA ChainsAgree ==
    ASSUME NEW T, NEW g, ChainsOf(T, g), NEW U, NEW h, ChainsOf(U, h)
    PROVE  \A b \in T \cap U : g[b] = h[b]
<1> DEFINE A == {b \in Blocks : b \in T \cap U => g[b] = h[b]}
<1>1. ASSUME NEW b \in Blocks, Parent[b] = NoBlock \/ (Parent[b] \in Blocks /\ Parent[b] \in A) PROVE b \in A
    <2> SUFFICES ASSUME b \in T, b \in U PROVE g[b] = h[b]
        OBVIOUS
    <2>1. /\ g[b] = IF Parent[b] = NoBlock THEN <<b>> ELSE Append(g[Parent[b]], b)
          /\ h[b] = IF Parent[b] = NoBlock THEN <<b>> ELSE Append(h[Parent[b]], b)
        BY Zenon DEF ChainsOf
    <2>2. Parent[b] # NoBlock => Parent[b] \in T /\ Parent[b] \in U
        BY DEF ChainsOf
    <2> QED BY <1>1, <2>1, <2>2
<1> HIDE DEF A
<1>2. Blocks \subseteq A
    BY <1>1, BlockInduction
<1> QED BY <1>2 DEF A, ChainsOf

\* Every block is in the domain of such a function.
LEMMA ChainsExist == \A b \in Blocks : \E T, g : b \in T /\ ChainsOf(T, g)
<1> DEFINE A == {b \in Blocks : \E T, g : b \in T /\ ChainsOf(T, g)}
<1>1. ASSUME NEW b \in Blocks, Parent[b] = NoBlock \/ (Parent[b] \in Blocks /\ Parent[b] \in A) PROVE b \in A
    <2>1. CASE Parent[b] = NoBlock
        <3> DEFINE T == {b}
                   g == [c \in T |-> <<c>>]
        <3>1. ChainsOf(T, g)
            BY <2>1 DEF ChainsOf
        <3> QED BY <3>1
    <2>2. CASE Parent[b] \in Blocks /\ Parent[b] \in A
        <3>1. PICK T, g : Parent[b] \in T /\ ChainsOf(T, g)
            BY <2>2
        <3>2. CASE b \in T
            BY <3>1, <3>2
        <3>3. CASE b \notin T
            <4> DEFINE U == T \cup {b}
                       h == [c \in U |-> IF c = b THEN Append(g[Parent[b]], b) ELSE g[c]]
            <4>1. Parent[b] # NoBlock /\ Parent[b] # b
                BY <2>2, <3>1, <3>3, OracleAssumption
            <4>2. U \subseteq Blocks /\ \A c \in U : Parent[c] \in U \cup {NoBlock}
                BY <3>1 DEF ChainsOf
            <4>3. ASSUME NEW c \in U
                  PROVE  h[c] = IF Parent[c] = NoBlock THEN <<c>> ELSE Append(h[Parent[c]], c)
                <5>1. CASE c = b
                    BY <3>1, <4>1, <5>1
                <5>2. CASE c # b
                    <6>1. c \in T /\ Parent[c] \in T \cup {NoBlock} /\ h[c] = g[c]
                        BY <3>1, <5>2 DEF ChainsOf
                    <6>2. g[c] = IF Parent[c] = NoBlock THEN <<c>> ELSE Append(g[Parent[c]], c)
                        BY <3>1, <6>1, Zenon DEF ChainsOf
                    <6>3. Parent[c] # NoBlock => h[Parent[c]] = g[Parent[c]]
                        BY <3>3, <6>1
                    <6> QED BY <6>1, <6>2, <6>3
                <5> QED BY <5>1, <5>2
            <4>4. h = [c \in U |-> IF Parent[c] = NoBlock THEN <<c>> ELSE Append(h[Parent[c]], c)]
                <5>1. h = [c \in U |-> h[c]]
                    OBVIOUS
                <5> HIDE DEF h, U
                <5> QED BY <4>3, <5>1
            <4> HIDE DEF h
            <4>5. ChainsOf(U, h)
                BY <4>2, <4>4 DEF ChainsOf
            <4> QED BY <4>5
        <3> QED BY <3>2, <3>3
    <2> QED BY <1>1, <2>1, <2>2
<1> HIDE DEF A
<1>2. Blocks \subseteq A
    BY <1>1, BlockInduction
<1> QED BY <1>2 DEF A

\* The recursion of Chain.
ChainBody(g) == [b \in Blocks |-> IF Parent[b] = NoBlock THEN <<b>> ELSE Append(g[Parent[b]], b)]
LEMMA ChainEquation ==
    ASSUME NEW b \in Blocks
    PROVE  Chain[b] = IF Parent[b] = NoBlock THEN <<b>> ELSE Append(Chain[Parent[b]], b)
<1> DEFINE Good(c, g) == \E T : c \in T /\ ChainsOf(T, g)
           G == [c \in Blocks |-> (CHOOSE g : Good(c, g))[c]]
           K == CHOOSE g : g = ChainBody(g)
<1>1. \A c \in Blocks : Good(c, CHOOSE g : Good(c, g))
    BY ChainsExist
<1>2. ASSUME NEW c \in Blocks PROVE G[c] = IF Parent[c] = NoBlock THEN <<c>> ELSE Append(G[Parent[c]], c)
    <2> DEFINE g == CHOOSE h : Good(c, h)
               h == CHOOSE k : Good(Parent[c], k)
    <2>1. PICK T : c \in T /\ ChainsOf(T, g)
        BY <1>1
    <2>2. G[c] = g[c]
        OBVIOUS
    <2> HIDE DEF g
    <2>3. g[c] = (IF Parent[c] = NoBlock THEN <<c>> ELSE Append(g[Parent[c]], c)) /\ Parent[c] \in T \cup {NoBlock}
        BY <2>1, Zenon DEF ChainsOf
    <2>4. ASSUME Parent[c] # NoBlock PROVE g[Parent[c]] = G[Parent[c]]
        <3>1. Parent[c] \in Blocks /\ Parent[c] \in T
            BY <2>1, <2>3, <2>4 DEF ChainsOf
        <3>2. PICK U : Parent[c] \in U /\ ChainsOf(U, h)
            BY <1>1, <3>1
        <3>3. G[Parent[c]] = h[Parent[c]]
            BY <3>1
        <3> HIDE DEF h
        <3> QED BY <2>1, <3>1, <3>2, <3>3, ChainsAgree
    <2> HIDE DEF G
    <2> QED BY <2>2, <2>3, <2>4
<1>3. G = ChainBody(G)
    <2>1. G = [c \in Blocks |-> G[c]]
        OBVIOUS
    <2> HIDE DEF G
    <2> QED BY <1>2, <2>1 DEF ChainBody
<1> HIDE DEF G
<1>4. K = ChainBody(K)
    BY <1>3
<1>5. Chain = [c \in Blocks |-> K[c]]
    BY DEF Chain, ChainBody
<1> HIDE DEF K
<1>6. \A c \in Blocks : K[c] = IF Parent[c] = NoBlock THEN <<c>> ELSE Append(K[Parent[c]], c)
    BY <1>4, Zenon DEF ChainBody
<1>7. Parent[b] \in Blocks \cup {NoBlock}
    BY OracleAssumption
<1> QED BY <1>5, <1>6, <1>7

\* A chain is a sequence of blocks that ends in its block.
LEMMA ChainType ==
    ASSUME NEW b \in Blocks
    PROVE  Chain[b] \in Seq(Blocks) /\ Len(Chain[b]) \in Nat \ {0} /\ Chain[b][Len(Chain[b])] = b
<1> DEFINE A == {c \in Blocks : Chain[c] \in Seq(Blocks) /\ Len(Chain[c]) \in Nat \ {0} /\ Chain[c][Len(Chain[c])] = c}
<1>1. ASSUME NEW c \in Blocks, Parent[c] = NoBlock \/ (Parent[c] \in Blocks /\ Parent[c] \in A) PROVE c \in A
    <2>1. CASE Parent[c] = NoBlock
        <3>1. Chain[c] = <<c>>
            BY <2>1, ChainEquation
        <3>2. <<c>> \in Seq(Blocks) /\ Len(<<c>>) = 1 /\ <<c>>[1] = c
            OBVIOUS
        <3>3. Chain[c] \in Seq(Blocks) /\ Len(Chain[c]) = 1 /\ Chain[c][1] = c
            BY <3>1, <3>2, Zenon
        <3> QED BY <3>3
    <2>2. CASE Parent[c] # NoBlock
        <3> DEFINE p == Chain[Parent[c]]
        <3>1. p \in Seq(Blocks) /\ Len(p) \in Nat \ {0} /\ Chain[c] = Append(p, c)
            BY <1>1, <2>2, ChainEquation
        <3> HIDE DEF p
        <3>2. Append(p, c) \in Seq(Blocks) /\ Len(Append(p, c)) = Len(p) + 1 /\ Append(p, c)[Len(p) + 1] = c
            BY <3>1
        <3> QED BY <3>1, <3>2
    <2> QED BY <2>1, <2>2
<1> HIDE DEF A
<1>2. Blocks \subseteq A
    BY <1>1, BlockInduction
<1> QED BY <1>2 DEF A

\* A child's chain continues that of its parent.
Continues(c, b) ==
    /\ Len(Chain[c]) = Len(Chain[b]) + 1 /\ Chain[c][Len(Chain[b]) + 1] = c
    /\ \A j \in 1..Len(Chain[b]) : Chain[c][j] = Chain[b][j]
LEMMA ChildFacts == ASSUME NEW b \in Blocks, NEW c \in Blocks, Parent[c] = b PROVE Continues(c, b)
<1>1. b # NoBlock
    BY OracleAssumption
<1>2. Chain[c] = Append(Chain[b], c)
    BY <1>1, ChainEquation
<1> DEFINE p == Chain[b]
<1>3. p \in Seq(Blocks)
    BY ChainType
<1> HIDE DEF p
<1>4. /\ Len(Append(p, c)) = Len(p) + 1 /\ Append(p, c)[Len(p) + 1] = c
      /\ \A j \in 1..Len(p) : Append(p, c)[j] = p[j]
    BY <1>3
<1> QED BY <1>2, <1>4 DEF Continues, p

\* The block at position h of a chain is a block of height h, whose chain is the beginning of it.
PartOfChain(b, h) ==
    LET c == Chain[b][h]
    IN  /\ c \in Blocks /\ Len(Chain[c]) = h /\ (\A j \in 1..h : Chain[c][j] = Chain[b][j])
        /\ Parent[c] = IF h = 1 THEN NoBlock ELSE Chain[b][h - 1]
LEMMA ChainParts == ASSUME NEW b \in Blocks, NEW h \in 1..Len(Chain[b]) PROVE PartOfChain(b, h)
<1> DEFINE A == {c \in Blocks : \A n \in 1..Len(Chain[c]) : PartOfChain(c, n)}
<1>1. ASSUME NEW c \in Blocks, Parent[c] = NoBlock \/ (Parent[c] \in Blocks /\ Parent[c] \in A) PROVE c \in A
    <2> SUFFICES ASSUME NEW n \in 1..Len(Chain[c]) PROVE PartOfChain(c, n)
        OBVIOUS
    <2>1. CASE Parent[c] = NoBlock
        <3>1. Chain[c] = <<c>>
            BY <2>1, ChainEquation
        <3>2. Len(<<c>>) = 1 /\ <<c>>[1] = c
            OBVIOUS
        <3>3. n = 1 /\ Chain[c][n] = c /\ Len(Chain[c]) = 1
            BY <3>1, <3>2
        <3> QED BY <2>1, <3>3 DEF PartOfChain
    <2>2. CASE Parent[c] # NoBlock
        <3> DEFINE p == Parent[c]
                   l == Len(Chain[p])
        <3>1. /\ p \in Blocks /\ \A k \in 1..l : PartOfChain(p, k)
              /\ l \in Nat \ {0} /\ Chain[p][l] = p
            BY <1>1, <2>2, ChainType
        <3>2. Continues(c, p)
            BY <3>1, ChildFacts
        <3>3. Len(Chain[c]) = l + 1 /\ Chain[c][l + 1] = c /\ \A j \in 1..l : Chain[c][j] = Chain[p][j]
            BY <3>2 DEF Continues
        <3> HIDE DEF l
        <3>4. CASE n = l + 1
            <4>1. Chain[c][n] = c /\ Len(Chain[c]) = n /\ n # 1 /\ Chain[c][n - 1] = p
                BY <3>1, <3>3, <3>4
            <4> QED BY <4>1 DEF PartOfChain
        <3>5. CASE n # l + 1
            <4>1. n \in 1..l /\ \A j \in 1..n : j \in 1..l
                BY <3>1, <3>3, <3>5
            <4>2. PartOfChain(p, n) /\ Chain[c][n] = Chain[p][n] /\ \A j \in 1..n : Chain[c][j] = Chain[p][j]
                <5> HIDE DEF p
                <5> QED BY <3>1, <3>3, <4>1
            <4>3. n # 1 => Chain[c][n - 1] = Chain[p][n - 1]
                <5>1. n # 1 => n - 1 \in 1..l
                    BY <3>1, <4>1
                <5> HIDE DEF p
                <5> QED BY <3>3, <5>1
            <4> HIDE DEF p
            <4> QED BY <4>2, <4>3 DEF PartOfChain
        <3> QED BY <3>4, <3>5
    <2> QED BY <2>1, <2>2
<1> HIDE DEF A
<1>2. Blocks \subseteq A
    BY <1>1, BlockInduction
<1> QED BY <1>2 DEF A

\* Heights.
LEMMA HeightFacts ==
    /\ HeightOf(NoBlock) = 0 /\ NoBlock \notin Blocks
    /\ \A b \in Blocks : HeightOf(b) = Len(Chain[b]) /\ HeightOf(b) \in Nat \ {0}
    /\ \A b \in Blocks : Parent[b] \in Blocks \cup {NoBlock} /\ HeightOf(b) = HeightOf(Parent[b]) + 1
<1>1. NoBlock \notin Blocks /\ HeightOf(NoBlock) = 0
    BY OracleAssumption DEF HeightOf
<1>2. \A b \in Blocks : HeightOf(b) = Len(Chain[b]) /\ HeightOf(b) \in Nat \ {0}
    BY <1>1, ChainType DEF HeightOf
<1>3. ASSUME NEW b \in Blocks PROVE Parent[b] \in Blocks \cup {NoBlock} /\ HeightOf(b) = HeightOf(Parent[b]) + 1
    <2>1. Parent[b] \in Blocks \cup {NoBlock}
        BY OracleAssumption
    <2>2. CASE Parent[b] = NoBlock
        <3>1. Chain[b] = <<b>>
            BY <2>2, ChainEquation
        <3>2. Len(<<b>>) = 1
            OBVIOUS
        <3>3. Len(Chain[b]) = 1
            BY <3>1, <3>2, Zenon
        <3>4. HeightOf(b) = 1
            BY <1>2, <3>3
        <3>5. HeightOf(Parent[b]) = 0
            BY <1>1, <2>2, Zenon
        <3> QED BY <2>1, <3>4, <3>5
    <2>3. CASE Parent[b] \in Blocks
        BY <1>2, <2>1, <2>3, ChildFacts DEF Continues
    <2> QED BY <2>1, <2>2, <2>3
<1> QED BY <1>1, <1>2, <1>3

\* The first n headers of the list continue the chain of best.
Links(best, list, n) ==
    \A i \in 1..n : IF i = 1 THEN best \in {NoBlock, Parent[list[1]]} ELSE Parent[list[i]] = list[i-1]
LEMMA LinkedFacts ==
    ASSUME NEW best, NEW list \in Seq(Blocks)
    PROVE  /\ Linked(best, list) \in 0..Len(list) /\ Links(best, list, Linked(best, list))
           /\ \A n \in 0..Len(list) : Links(best, list, n) => n <= Linked(best, list)
<1> DEFINE S == {n \in 0..Len(list) : Links(best, list, n)}
<1>1. Linked(best, list) = Max(S)
    BY DEF Linked, Links
<1>2. Len(list) \in Nat /\ S \in SUBSET (0..Len(list)) /\ 0 \in S
    BY DEF Links
<1>3. \A x : x \in S <=> x \in 0..Len(list) /\ Links(best, list, x)
    OBVIOUS
<1> HIDE DEF S
<1>4. Max(S) \in S /\ \A x \in S : x <= Max(S)
    BY <1>2, MaxFacts
<1> QED BY <1>1, <1>3, <1>4

\* A list that continues best, at position i.
Appended(best, list, i) ==
    /\ HeightOf(list[i]) = HeightOf(best) + i
    /\ \A j \in 1..HeightOf(best) : Chain[list[i]][j] = Chain[best][j]
    /\ \A j \in 1..i : Chain[list[i]][HeightOf(best) + j] = list[j]
LEMMA AppendedFacts ==
    ASSUME NEW best \in Blocks, NEW list \in Seq(Blocks), NEW n \in 0..Len(list), Links(best, list, n)
    PROVE  \A i \in 1..n : Appended(best, list, i)
<1> DEFINE A == {i \in 1..n : Appended(best, list, i)}
           H == HeightOf(best)
<1>1. ASSUME NEW i \in 1..n, i = 1 \/ i - 1 \in A PROVE i \in A
    <2>1. i \in 1..Len(list) /\ list[i] \in Blocks /\ H \in Nat \ {0} /\ i \in Nat
        BY HeightFacts
    <2>2. CASE i = 1
        <3>1. Parent[list[1]] = best
            BY <2>2, HeightFacts DEF Links
        <3>2. Continues(list[1], best)
            BY <2>1, <2>2, <3>1, ChildFacts
        <3>3. Len(Chain[best]) = H
            BY HeightFacts
        <3>4. Appended(best, list, 1)
            BY <2>1, <2>2, <3>2, <3>3, HeightFacts DEF Continues, Appended
        <3> QED BY <2>2, <3>4
    <2>3. CASE i # 1
        <3> DEFINE p == list[i - 1]
                   c == list[i]
        <3>1. i - 1 \in 1..Len(list) /\ p \in Blocks /\ c \in Blocks /\ Parent[c] = p
            BY <2>1, <2>3 DEF Links
        <3>2. Appended(best, list, i - 1)
            BY <1>1, <2>3
        <3>3. Continues(c, p)
            BY <3>1, ChildFacts
        <3>4. HeightOf(p) = H + (i - 1) /\ HeightOf(p) = Len(Chain[p]) /\ HeightOf(c) = Len(Chain[c])
            BY <3>1, <3>2, HeightFacts DEF Appended
        <3>5. HeightOf(c) = H + i
            <4>1. HeightOf(c) = HeightOf(p) + 1
                BY <3>1, HeightFacts
            <4> HIDE DEF H
            <4> QED BY <2>1, <3>4, <4>1
        <3>6. \A j \in 1..(H + (i - 1)) : Chain[c][j] = Chain[p][j]
            BY <3>3, <3>4 DEF Continues
        <3>7. Chain[c][H + i] = c
            <4>1. H + (i - 1) + 1 = H + i
                BY <2>1
            <4> QED BY <3>3, <3>4, <4>1 DEF Continues
        <3>8. \A j \in 1..H : Chain[c][j] = Chain[best][j]
            <4> TAKE j \in 1..H
            <4>1. j \in 1..(H + (i - 1))
                BY <2>1
            <4> QED BY <3>2, <3>6, <4>1 DEF Appended
        <3>9. \A j \in 1..i : Chain[c][H + j] = list[j]
            <4> TAKE j \in 1..i
            <4>1. CASE j = i
                BY <3>7, <4>1
            <4>2. CASE j # i
                <5>1. j \in 1..(i - 1) /\ H + j \in 1..(H + (i - 1))
                    BY <2>1, <4>2
                <5>2. Chain[p][H + j] = list[j]
                    BY <3>2, <5>1 DEF Appended
                <5> QED BY <3>6, <5>1, <5>2
            <4> QED BY <4>1, <4>2
        <3>10. Appended(best, list, i)
            BY <3>5, <3>8, <3>9 DEF Appended
        <3> QED BY <3>10
    <2> QED BY <2>2, <2>3
<1>2. n \in Nat
    OBVIOUS
<1> HIDE DEF A
<1>3. 1..n \subseteq A
    BY <1>1, <1>2, Positions
<1> QED BY <1>3 DEF A

\* The smallest and the largest of two numbers.
LEMMA MinMaxOfTwo ==
    ASSUME NEW a \in Int, NEW b \in Int
    PROVE  /\ Min({a, b}) = IF a <= b THEN a ELSE b
           /\ Max({a, b}) = IF a >= b THEN a ELSE b
<1>1. \E x \in {a, b} : \A y \in {a, b} : x <= y
    OBVIOUS
<1>2. \E x \in {a, b} : \A y \in {a, b} : x >= y
    OBVIOUS
<1>3. Min({a, b}) \in {a, b} /\ \A y \in {a, b} : Min({a, b}) <= y
    BY <1>1 DEF Min
<1>4. Max({a, b}) \in {a, b} /\ \A y \in {a, b} : Max({a, b}) >= y
    BY <1>2 DEF Max
<1> QED BY <1>3, <1>4

\* Blocks over the same genesis block that are short of the tip by Confirmation agree, as long as forks
\* are short.
ConfirmedChain(b) == SubSeq(Chain[b], 1, Len(Chain[b]) - Confirmation + 1)
Depth(b) == HeightOf(b) - Confirmation + 1
LEMMA ForksAgree ==
    ASSUME NEW g \in ShortForks, NEW x \in Blocks, NEW y \in Blocks, Chain[x][1] = g, Chain[y][1] = g,
           NEW h \in Nat \ {0}, h <= Depth(x), h <= Depth(y)
    PROVE  Chain[x][h] = Chain[y][h]
<1>1. ASSUME NEW b \in Blocks, Chain[b][1] = g PROVE b \in {g} \cup Longer(g)
    <2>1. HeightOf(b) = Len(Chain[b]) /\ HeightOf(b) \in Nat \ {0} /\ Chain[b][Len(Chain[b])] = b
        BY ChainType, HeightFacts
    <2>2. PartOfChain(b, 1)
        BY <2>1, ChainParts
    <2>3. g \in Blocks /\ Len(Chain[g]) = 1 /\ Chain[g][1] = Chain[b][1]
        BY <1>1, <2>2 DEF PartOfChain
    <2>4. HeightOf(g) = 1
        BY <2>3, HeightFacts
    <2>5. CASE HeightOf(b) = 1
        BY <1>1, <2>1, <2>5
    <2>6. CASE HeightOf(b) # 1
        <3>1. HeightOf(b) > HeightOf(g)
            <4> DEFINE m == HeightOf(b)
                       k == HeightOf(g)
            <4>1. m \in Nat /\ m # 0 /\ m # 1 /\ k = 1
                BY <2>1, <2>4, <2>6
            <4> HIDE DEF m, k
            <4>2. m > k
                BY <4>1
            <4> QED BY <4>2 DEF m, k
        <3>2. b \in Longer(g)
            BY <2>3, <3>1, Zenon DEF Longer
        <3> QED BY <3>2
    <2> QED BY <2>5, <2>6
<1>2. IsPrefix(ConfirmedChain(x), ConfirmedChain(y)) \/ IsPrefix(ConfirmedChain(y), ConfirmedChain(x))
    BY <1>1 DEF ShortForks, ConfirmedChain
<1>3. ASSUME NEW b \in Blocks, h <= Depth(b)
      PROVE  ConfirmedChain(b) \in Seq(Blocks) /\ h \in 1..Len(ConfirmedChain(b)) /\ ConfirmedChain(b)[h] = Chain[b][h]
    <2> DEFINE c == Chain[b]
               m == Len(c) - Confirmation + 1
    <2>1. c \in Seq(Blocks) /\ Len(c) \in Nat /\ Confirmation \in Nat \ {0} /\ h <= m
        BY <1>3, ChainType, HeightFacts, OracleAssumption DEF Depth
    <2> HIDE DEF c
    <2>2. m \in Nat /\ m <= Len(c)
        BY <2>1
    <2> HIDE DEF m
    <2>3. SubSeq(c, 1, m) \in Seq(Blocks) /\ Len(SubSeq(c, 1, m)) = m /\ SubSeq(c, 1, m)[h] = c[h]
        BY <2>1, <2>2
    <2> QED BY <2>1, <2>2, <2>3 DEF ConfirmedChain, c, m
<1>4. ASSUME NEW s \in Seq(Blocks), NEW t \in Seq(Blocks), IsPrefix(s, t), h \in 1..Len(s)
      PROVE  s[h] = t[h]
    <2>1. Len(s) <= Len(t) /\ SubSeq(s, 1, Len(s)) = SubSeq(t, 1, Len(s))
        BY <1>4 DEF IsPrefix
    <2>2. SubSeq(s, 1, Len(s))[h] = s[h] /\ SubSeq(t, 1, Len(s))[h] = t[h]
        BY <1>4, <2>1
    <2> QED BY <2>1, <2>2
<1> QED BY <1>2, <1>3, <1>4

-----------------------------------------------------------------------------
(* The headers that a validator reports. *)

\* The node of a validator, before and after its reads.
SameTree(t, u) == t \in Blocks /\ u \in Blocks /\ (u = t \/ u \in Longer(t))

\* What a validator reports: the list starts above its best header.
ReportLength(best, t) == Max({0, Min({Depth(t), HeightOf(best) + Window}) - HeightOf(best)})
ReportOf(best, t, u, k) == [i \in 1..ReportLength(best, t) |-> HeaderAt(t, u, k, HeightOf(best) + i)]
LEMMA ReportCases ==
    ASSUME NEW best, NEW t, NEW u, NEW k
    PROVE  LET list == getBitcoinHeaders(best, t, u, k)  top == BestAt(t, u, k, Depth(t))
           IN  \/ list = <<>>
               \/ ~(Depth(t) < 1) /\ height % 2 # 0 /\ best \in {NoBlock, Parent[top]} /\ list = <<top>>
               \/ ~(Depth(t) < 1) /\ height % 2 # 0 /\ best # NoBlock /\ list = ReportOf(best, t, u, k)
BY DEF getBitcoinHeaders, ReportOf, ReportLength, Depth

\* The length of a report, and where its headers are read.
LEMMA ReportShape ==
    ASSUME NEW best \in Blocks, NEW t \in Blocks, NEW u \in Blocks, NEW k
    PROVE  /\ ReportLength(best, t) \in Nat /\ ReportLength(best, t) <= Window
           /\ DOMAIN ReportOf(best, t, u, k) = 1..ReportLength(best, t)
           /\ \A i \in 1..ReportLength(best, t) :
                 HeightOf(best) + i <= Depth(t) /\ ReportOf(best, t, u, k)[i] = HeaderAt(t, u, k, HeightOf(best) + i)
<1> DEFINE list == ReportOf(best, t, u, k)
           H == HeightOf(best)
           D == Depth(t)
           last == Min({D, H + Window})
           n == ReportLength(best, t)
<1>1. H \in Nat /\ D \in Int /\ Window \in Nat
    BY HeightFacts, OracleAssumption DEF Depth
<1>2. last = (IF D <= H + Window THEN D ELSE H + Window) /\ last \in Int
    <2> HIDE DEF H, D
    <2> QED BY <1>1, MinMaxOfTwo
<1>3. list = [i \in 1..n |-> HeaderAt(t, u, k, H + i)]
    BY DEF ReportOf
<1>4. n = Max({0, last - H})
    BY DEF ReportLength
<1> HIDE DEF H, D, last, list, n
<1>7. n = IF 0 >= last - H THEN 0 ELSE last - H
    <2> DEFINE d == last - H
    <2>1. d \in Int
        BY <1>1, <1>2
    <2> HIDE DEF d
    <2>2. Max({0, d}) = IF 0 >= d THEN 0 ELSE d
        BY <2>1, MinMaxOfTwo
    <2> QED BY <1>4, <2>2 DEF d
<1>5. n \in Nat /\ n <= Window /\ \A i \in 1..n : H + i <= D
    BY <1>1, <1>2, <1>7
<1>6. DOMAIN list = 1..n /\ \A i \in 1..n : list[i] = HeaderAt(t, u, k, H + i)
    BY <1>3
<1> QED BY <1>5, <1>6 DEF H, D, last, list, n

\* A report is a list of at most Window blocks, and of one without a best header.
LEMMA ReportType ==
    ASSUME NEW best \in Blocks \cup {NoBlock}, NEW t, NEW u, SameTree(t, u), NEW k
    PROVE  LET list == getBitcoinHeaders(best, t, u, k)
           IN  /\ list \in Seq(Blocks) /\ Len(list) <= Window /\ (best = NoBlock => Len(list) <= 1)
               /\ height % 2 = 0 => list = <<>>
<1> DEFINE list == getBitcoinHeaders(best, t, u, k)
           top == BestAt(t, u, k, Depth(t))
<1>1. t \in Blocks /\ u \in Blocks /\ HeightOf(t) \in Nat \ {0} /\ HeightOf(t) <= HeightOf(u)
      /\ HeightOf(t) = Len(Chain[t]) /\ HeightOf(u) = Len(Chain[u]) /\ HeightOf(u) \in Nat \ {0}
    BY HeightFacts DEF SameTree, Longer
<1>2. Depth(t) \in Int /\ Depth(t) <= HeightOf(t) /\ Window \in Nat \ {0}
    BY <1>1, OracleAssumption DEF Depth
<1>3. CASE list = <<>>
    <2>1. <<>> \in Seq(Blocks) /\ Len(<<>>) = 0
        OBVIOUS
    <2> QED BY <1>2, <1>3, <2>1
<1>4. CASE ~(Depth(t) < 1) /\ height % 2 # 0 /\ list = <<top>>
    <2>1. Depth(t) \in 1..Len(Chain[t]) /\ Depth(t) \in 1..Len(Chain[u])
        BY <1>1, <1>2, <1>4
    <2>2. top \in Blocks
        BY <1>1, <2>1, ChainParts DEF PartOfChain, BestAt
    <2> HIDE DEF top
    <2>3. <<top>> \in Seq(Blocks) /\ Len(<<top>>) = 1
        BY <2>2
    <2> HIDE DEF list
    <2>4. list \in Seq(Blocks) /\ Len(list) = 1
        BY <1>4, <2>3, Zenon
    <2> QED BY <1>2, <1>4, <2>4 DEF list
<1>5. CASE ~(Depth(t) < 1) /\ height % 2 # 0 /\ best # NoBlock /\ list = ReportOf(best, t, u, k)
    <2> DEFINE n == ReportLength(best, t)
               l == ReportOf(best, t, u, k)
    <2>1. /\ n \in Nat /\ n <= Window /\ DOMAIN l = 1..n
          /\ \A i \in 1..n : HeightOf(best) + i <= Depth(t) /\ l[i] = HeaderAt(t, u, k, HeightOf(best) + i)
        BY <1>1, <1>5, ReportShape
    <2>2. l = [i \in 1..n |-> l[i]]
        BY DEF ReportOf
    <2>3. HeightOf(best) \in Nat
        BY <1>5, HeightFacts
    <2> HIDE DEF n, l
    <2>4. \A i \in 1..n : l[i] \in Blocks
        <3> TAKE i \in 1..n
        <3> DEFINE h == HeightOf(best) + i
        <3>1. h \in 1..Len(Chain[t]) /\ h \in 1..Len(Chain[u])
            BY <1>1, <1>2, <2>1, <2>3
        <3>2. Chain[t][h] \in Blocks /\ Chain[u][h] \in Blocks
            BY <1>1, <3>1, ChainParts DEF PartOfChain
        <3> QED BY <2>1, <3>2 DEF HeaderAt
    <2>5. l \in Seq(Blocks) /\ Len(l) = n
        BY <2>1, <2>2, <2>4
    <2> HIDE DEF list
    <2>6. list \in Seq(Blocks) /\ Len(list) = n
        BY <1>5, <2>5 DEF l
    <2> QED BY <1>5, <2>1, <2>6 DEF list
<1>6. \/ list = <<>>
      \/ ~(Depth(t) < 1) /\ height % 2 # 0 /\ list = <<top>>
      \/ ~(Depth(t) < 1) /\ height % 2 # 0 /\ best # NoBlock /\ list = ReportOf(best, t, u, k)
    BY ReportCases
<1> QED BY <1>3, <1>4, <1>5, <1>6

\* A block that some chain over g has confirmed.
Deep(b, g) ==
    /\ b \in Blocks
    /\ \E x \in Blocks : Chain[x][1] = g /\ HeightOf(b) <= Depth(x) /\ Chain[x][HeightOf(b)] = b

\* The blocks of a chain over g, down from its confirmed ones, are confirmed.
LEMMA DeepBlocks ==
    ASSUME NEW t \in Blocks, NEW h \in Nat \ {0}, h <= Depth(t)
    PROVE  Deep(Chain[t][h], Chain[t][1]) /\ HeightOf(Chain[t][h]) = h
<1>1. HeightOf(t) = Len(Chain[t]) /\ HeightOf(t) \in Nat /\ Depth(t) \in Int /\ Depth(t) <= HeightOf(t)
    BY HeightFacts, OracleAssumption DEF Depth
<1>2. h \in 1..Len(Chain[t])
    BY <1>1
<1>3. PartOfChain(t, h)
    BY <1>2, ChainParts
<1>4. Chain[t][h] \in Blocks /\ HeightOf(Chain[t][h]) = h
    BY <1>3, HeightFacts DEF PartOfChain
<1> QED BY <1>4 DEF Deep

\* As long as forks are short, a report continues the best header, with confirmed blocks.
LEMMA ReportFits ==
    ASSUME NEW best \in Blocks \cup {NoBlock}, NEW t, NEW u, SameTree(t, u), NEW k,
           Chain[t][1] \in ShortForks, best = NoBlock \/ Deep(best, Chain[t][1])
    PROVE  LET list == getBitcoinHeaders(best, t, u, k)
           IN  Links(best, list, Len(list)) /\ \A i \in 1..Len(list) : Deep(list[i], Chain[t][1])
<1> DEFINE list == getBitcoinHeaders(best, t, u, k)
           top == BestAt(t, u, k, Depth(t))
           g == Chain[t][1]
<1>1. /\ t \in Blocks /\ u \in Blocks /\ HeightOf(t) \in Nat \ {0} /\ HeightOf(u) \in Nat \ {0}
      /\ HeightOf(t) <= HeightOf(u) /\ Chain[u][1] = g
      /\ HeightOf(t) = Len(Chain[t]) /\ HeightOf(u) = Len(Chain[u])
    BY HeightFacts DEF SameTree, Longer
<1>2. /\ Depth(t) \in Int /\ Depth(u) \in Int /\ Depth(t) <= HeightOf(t) /\ Depth(t) <= Depth(u)
    BY <1>1, OracleAssumption DEF Depth
<1>3. CASE list = <<>>
    <2>1. Len(<<>>) = 0
        OBVIOUS
    <2>2. Len(list) = 0
        BY <1>3, <2>1, Zenon
    <2> QED BY <2>2 DEF Links
<1>4. CASE ~(Depth(t) < 1) /\ best \in {NoBlock, Parent[top]} /\ list = <<top>>
    <2>1. Depth(t) \in Nat \ {0} /\ Depth(t) <= Depth(t)
        BY <1>2, <1>4
    <2>2. Deep(top, g)
        <3>1. Chain[u][Depth(t)] = Chain[t][Depth(t)]
            BY <1>1, <1>2, <2>1, ForksAgree
        <3>2. top = Chain[t][Depth(t)]
            BY <3>1 DEF BestAt
        <3> QED BY <1>1, <2>1, <3>2, DeepBlocks
    <2> HIDE DEF top, g
    <2>3. Len(<<top>>) = 1 /\ <<top>>[1] = top
        OBVIOUS
    <2> HIDE DEF list
    <2>4. Len(list) = 1 /\ list[1] = top
        BY <1>4, <2>3, Zenon
    <2>5. Links(best, list, Len(list)) /\ \A i \in 1..Len(list) : Deep(list[i], g)
        BY <1>4, <2>2, <2>4 DEF Links
    <2> QED BY <2>5 DEF list, g
<1>5. CASE best # NoBlock /\ list = ReportOf(best, t, u, k)
    <2> DEFINE H == HeightOf(best)
               n == ReportLength(best, t)
               l == ReportOf(best, t, u, k)
    <2>1. best \in Blocks /\ H \in Nat \ {0}
        BY <1>5, HeightFacts
    <2>2. /\ n \in Nat /\ DOMAIN l = 1..n
          /\ \A i \in 1..n : H + i <= Depth(t) /\ l[i] = HeaderAt(t, u, k, H + i)
        BY <1>1, <2>1, ReportShape
    <2> HIDE DEF n
    <2>3. \A h \in Nat \ {0} : h <= Depth(t) => Chain[u][h] = Chain[t][h]
        <3> TAKE h \in Nat \ {0}
        <3>1. h <= Depth(t) => h <= Depth(u)
            BY <1>2
        <3> QED BY <1>1, <3>1, ForksAgree
    <2>4. \A i \in 1..n : l[i] = Chain[t][H + i]
        <3> TAKE i \in 1..n
        <3>1. H + i \in Nat \ {0} /\ H + i <= Depth(t)
            BY <2>1, <2>2
        <3>2. Chain[u][H + i] = Chain[t][H + i]
            BY <2>3, <3>1
        <3> QED BY <2>2, <3>2 DEF HeaderAt
    <2>5. n # 0 => Chain[t][H] = best
        <3> SUFFICES ASSUME n # 0 PROVE Chain[t][H] = best
            OBVIOUS
        <3>1. PICK x \in Blocks : Chain[x][1] = g /\ H <= Depth(x) /\ Chain[x][H] = best
            BY <1>5 DEF Deep
        <3>2. 1 \in 1..n
            BY <2>2
        <3>3. H + 1 <= Depth(t)
            BY <2>2, <3>2
        <3>4. H <= Depth(t)
            BY <1>2, <2>1, <3>3
        <3>5. Chain[t][H] = Chain[x][H]
            BY <1>1, <2>1, <3>1, <3>4, ForksAgree
        <3> QED BY <3>1, <3>5
    <2>6. ASSUME NEW i \in 1..n
          PROVE  /\ IF i = 1 THEN best \in {NoBlock, Parent[l[1]]} ELSE Parent[l[i]] = l[i-1]
                 /\ Deep(l[i], g)
        <3>1. H + i \in Nat \ {0} /\ H + i <= Depth(t) /\ H + i \in 1..Len(Chain[t]) /\ H + i # 1
              /\ (H + i) - 1 = H + (i - 1)
            <4>1. H + i <= Depth(t)
                BY <2>2
            <4> HIDE DEF H
            <4> QED BY <1>1, <1>2, <2>1, <4>1
        <3>2. PartOfChain(t, H + i) /\ Deep(Chain[t][H + i], g)
            BY <1>1, <3>1, ChainParts, DeepBlocks
        <3>3. Parent[l[i]] = Chain[t][H + (i - 1)]
            BY <2>4, <3>1, <3>2 DEF PartOfChain
        <3>4. CASE i = 1
            <4>1. H + (i - 1) = H /\ n # 0
                BY <2>1, <3>4
            <4> QED BY <2>4, <2>5, <3>2, <3>3, <3>4, <4>1
        <3>5. CASE i # 1
            <4>1. i - 1 \in 1..n
                BY <2>2, <3>5
            <4> QED BY <2>4, <3>2, <3>3, <3>5, <4>1
        <3> QED BY <3>4, <3>5
    <2>7. Len(l) = n
        <3>1. l = [i \in 1..n |-> l[i]]
            BY DEF ReportOf, n
        <3> HIDE DEF l
        <3> QED BY <2>2, <3>1
    <2> HIDE DEF l, g, H
    <2>8. Links(best, l, n) /\ \A i \in 1..n : Deep(l[i], g)
        BY <2>6 DEF Links
    <2>9. list = l
        BY <1>5 DEF l
    <2> HIDE DEF list
    <2>10. Links(best, list, Len(list)) /\ \A i \in 1..Len(list) : Deep(list[i], g)
        BY <2>7, <2>8, <2>9
    <2> QED BY <2>10 DEF list, g
<1>6. \/ list = <<>>
      \/ ~(Depth(t) < 1) /\ best \in {NoBlock, Parent[top]} /\ list = <<top>>
      \/ best # NoBlock /\ list = ReportOf(best, t, u, k)
    BY ReportCases
<1> QED BY <1>3, <1>4, <1>5, <1>6

-----------------------------------------------------------------------------
(* The headers that a replica stores. *)

\* What a replica stores.
PriceRange == {p \in Nat : \E q \in Prices \cup {0} \cup UNION {Quote[x] : x \in Exchange} : p <= q}
Heights == {HeightOf(b) : b \in Blocks}
Replica == [price : PriceRange, best : Blocks \cup {NoBlock}, headers : SUBSET Blocks,
            index : [Heights -> Blocks \cup {NoBlock}]]
Indexed(s) ==
    \A h \in DOMAIN s.index :
        s.index[h] # NoBlock /\ h <= HeightOf(s.best)
          => s.index[h] = Chain[s.best][h] /\ \A g \in h..HeightOf(s.best) : s.index[g] # NoBlock
EmptyIndex(s) == s.best = NoBlock => \A h \in DOMAIN s.index : s.index[h] = NoBlock

\* The fields after SetBlockHeaders.
NewHeaders(s, list) == {list[i] : i \in 1..Linked(s.best, list)}
LEMMA SetFields ==
    ASSUME NEW s \in Replica, NEW list \in Seq(Blocks)
    PROVE  LET r == SetBlockHeaders(s, list)  n == Linked(s.best, list)
           IN  /\ r \in Replica /\ r.price = s.price
               /\ r.best = IF n > 0 /\ n = Len(list) THEN list[n] ELSE s.best
               /\ DOMAIN r.index = Heights /\ DOMAIN s.index = Heights
               /\ \A h \in Heights : r.index[h] = IF \E b \in NewHeaders(s, list) : HeightOf(b) = h
                                                  THEN CHOOSE b \in NewHeaders(s, list) : HeightOf(b) = h
                                                  ELSE s.index[h]
<1> DEFINE r == SetBlockHeaders(s, list)
           n == Linked(s.best, list)
           new == NewHeaders(s, list)
           at(h) == IF \E b \in new : HeightOf(b) = h THEN CHOOSE b \in new : HeightOf(b) = h ELSE s.index[h]
           top == IF n > 0 /\ n = Len(list) THEN list[n] ELSE s.best
           idx == [h \in Heights |-> at(h)]
<1>1. /\ s.index \in [Heights -> Blocks \cup {NoBlock}] /\ s.best \in Blocks \cup {NoBlock} /\ s.headers \in SUBSET Blocks
      /\ DOMAIN s.index = Heights
    BY DEF Replica
<1>2. n \in 0..Len(list) /\ \A i \in 1..n : list[i] \in Blocks
    BY <1>1, LinkedFacts
<1>3. new \in SUBSET Blocks
    BY <1>2 DEF NewHeaders
<1>4. r = [s EXCEPT !.headers = s.headers \cup new, !.index = [h \in DOMAIN s.index |-> at(h)], !.best = top]
    BY DEF SetBlockHeaders, NewHeaders
<1> HIDE DEF r, n, new
<1>5. \A h \in Heights : at(h) \in Blocks \cup {NoBlock}
    BY <1>1, <1>3
<1>6. top \in Blocks \cup {NoBlock}
    BY <1>1, <1>2
<1> HIDE DEF at, top
<1>7. [h \in DOMAIN s.index |-> at(h)] = idx /\ idx \in [Heights -> Blocks \cup {NoBlock}]
    BY <1>1, <1>5
<1>8. r = [s EXCEPT !.headers = s.headers \cup new, !.index = idx, !.best = top]
    BY <1>4, <1>7
<1>9. \A h \in Heights : idx[h] = at(h)
    OBVIOUS
<1> HIDE DEF idx
<1>10. s.headers \cup new \in SUBSET Blocks
    BY <1>1, <1>3
<1>11. r \in Replica /\ r.price = s.price /\ r.best = top /\ r.index = idx
    BY <1>6, <1>7, <1>8, <1>10 DEF Replica
<1>12. DOMAIN r.index = Heights
    BY <1>7, <1>11
<1>13. \A h \in Heights : r.index[h] = at(h)
    BY <1>9, <1>11
<1> QED BY <1>1, <1>11, <1>12, <1>13 DEF r, at, top, n, new

\* The heights up to that of a block are heights of blocks.
LEMMA HeightsBelow == ASSUME NEW b \in Blocks, NEW h \in 1..HeightOf(b) PROVE h \in Heights
<1>1. h \in 1..Len(Chain[b])
    BY HeightFacts
<1>2. PartOfChain(b, h)
    BY <1>1, ChainParts
<1>3. Chain[b][h] \in Blocks /\ HeightOf(Chain[b][h]) = h
    BY <1>2, HeightFacts DEF PartOfChain
<1> QED BY <1>3 DEF Heights

\* The headers that are stored over a best header, and where they are indexed.
LEMMA IndexOver ==
    ASSUME NEW s \in Replica, NEW list \in Seq(Blocks), s.best \in Blocks, NEW h \in Heights
    PROVE  LET r == SetBlockHeaders(s, list)  n == Linked(s.best, list)  H == HeightOf(s.best)
           IN  r.index[h] = IF h \in (H + 1)..(H + n) THEN list[h - H] ELSE s.index[h]
<1> DEFINE r == SetBlockHeaders(s, list)
           n == Linked(s.best, list)
           H == HeightOf(s.best)
           new == NewHeaders(s, list)
<1>1. n \in 0..Len(list) /\ Links(s.best, list, n) /\ n \in Nat /\ H \in Nat
    BY LinkedFacts, HeightFacts
<1>2. \A i \in 1..n : HeightOf(list[i]) = H + i
    BY <1>1, AppendedFacts DEF Appended
<1>3. r.index[h] = IF \E b \in new : HeightOf(b) = h THEN CHOOSE b \in new : HeightOf(b) = h ELSE s.index[h]
    BY SetFields
<1>4. h \in Int
    BY HeightFacts DEF Heights
<1>5. \A b : b \in new <=> \E i \in 1..n : b = list[i]
    BY DEF NewHeaders
<1> HIDE DEF r, n, H, new
<1>6. CASE h \in (H + 1)..(H + n)
    <2> DEFINE k == h - H
    <2>1. k \in 1..n /\ H + k = h
        BY <1>1, <1>6
    <2>2. \A i \in 1..n : H + i = h => i = k
        BY <1>1
    <2> HIDE DEF k
    <2>3. list[k] \in new /\ HeightOf(list[k]) = h
        BY <1>2, <1>5, <2>1
    <2>4. \A b \in new : HeightOf(b) = h => b = list[k]
        BY <1>2, <1>5, <2>2
    <2>5. r.index[h] = list[k]
        BY <1>3, <2>3, <2>4
    <2> QED BY <1>6, <2>5 DEF r, n, H, k
<1>7. CASE h \notin (H + 1)..(H + n)
    <2>1. \A i \in 1..n : H + i # h
        BY <1>1, <1>4, <1>7
    <2>2. ~\E b \in new : HeightOf(b) = h
        BY <1>2, <1>5, <2>1
    <2>3. r.index[h] = s.index[h]
        BY <1>3, <2>2, Zenon
    <2> QED BY <1>7, <2>3 DEF r, n, H
<1> QED BY <1>6, <1>7

\* The best header after SetBlockHeaders descends from the one before.
Descends(b, best) == best # NoBlock => b \in Blocks /\ best \in Range(Chain[b])
LEMMA BestDescends ==
    ASSUME NEW s \in Replica, NEW list \in Seq(Blocks)
    PROVE  LET r == SetBlockHeaders(s, list)
           IN  Descends(r.best, s.best) /\ (r.best = s.best \/ \E i \in 1..Len(list) : r.best = list[i])
<1> DEFINE r == SetBlockHeaders(s, list)
           n == Linked(s.best, list)
           H == HeightOf(s.best)
<1>1. n \in 0..Len(list) /\ Links(s.best, list, n) /\ s.best \in Blocks \cup {NoBlock} /\ Len(list) \in Nat
    BY LinkedFacts DEF Replica
<1>2. r.best = IF n > 0 /\ n = Len(list) THEN list[n] ELSE s.best
    BY SetFields
<1>3. ASSUME s.best # NoBlock PROVE r.best \in Blocks /\ s.best \in Range(Chain[r.best])
    <2>1. s.best \in Blocks /\ H = Len(Chain[s.best]) /\ H \in 1..H /\ Chain[s.best][H] = s.best
        BY <1>1, <1>3, HeightFacts, ChainType
    <2>2. CASE n > 0 /\ n = Len(list)
        <3>1. n \in 1..n /\ list[n] \in Blocks /\ r.best = list[n]
            BY <1>1, <1>2, <2>2
        <3>2. Appended(s.best, list, n)
            BY <1>1, <2>1, <3>1, AppendedFacts
        <3>3. Chain[list[n]][H] = s.best /\ HeightOf(list[n]) = H + n
            BY <2>1, <3>2 DEF Appended
        <3>4. H \in 1..Len(Chain[list[n]]) /\ Chain[list[n]] \in Seq(Blocks)
            <4>1. Len(Chain[list[n]]) = H + n /\ H \in Nat /\ n \in Nat
                BY <1>1, <2>1, <3>1, <3>3, HeightFacts
            <4>2. H \in 1..(H + n)
                <5> HIDE DEF H, n
                <5> QED BY <2>1, <4>1
            <4> QED BY <3>1, <4>1, <4>2, ChainType
        <3>5. H \in DOMAIN Chain[list[n]]
            BY <3>4
        <3> QED BY <3>1, <3>3, <3>5 DEF Range
    <2>3. CASE ~(n > 0 /\ n = Len(list))
        <3>1. r.best = s.best
            BY <1>2, <2>3
        <3>2. H \in DOMAIN Chain[s.best]
            <4>1. Chain[s.best] \in Seq(Blocks)
                BY <2>1, ChainType
            <4> QED BY <2>1, <4>1
        <3> QED BY <2>1, <3>1, <3>2 DEF Range
    <2> QED BY <2>2, <2>3
<1>4. r.best = s.best \/ \E i \in 1..Len(list) : r.best = list[i]
    BY <1>1, <1>2
<1> QED BY <1>3, <1>4 DEF Descends

\* The index stays that of the chain of the best header.
LEMMA IndexKept ==
    ASSUME NEW s \in Replica, NEW list \in Seq(Blocks), Indexed(s), EmptyIndex(s), s.best = NoBlock => Len(list) <= 1
    PROVE  LET r == SetBlockHeaders(s, list) IN Indexed(r) /\ EmptyIndex(r)
<1> DEFINE r == SetBlockHeaders(s, list)
           n == Linked(s.best, list)
           H == HeightOf(s.best)
<1>1. n \in 0..Len(list) /\ Links(s.best, list, n) /\ Len(list) \in Nat /\ n \in Nat /\ s.best \in Blocks \cup {NoBlock}
    BY LinkedFacts DEF Replica
<1>2. /\ r \in Replica /\ r.best = IF n > 0 /\ n = Len(list) THEN list[n] ELSE s.best
      /\ DOMAIN r.index = Heights /\ DOMAIN s.index = Heights
    BY SetFields
<1>3. \A h \in Heights : h \in Nat \ {0}
    BY HeightFacts DEF Heights
<1>4. CASE s.best = NoBlock
    <2>1. \A h \in Heights : s.index[h] = NoBlock
        BY <1>2, <1>4 DEF EmptyIndex
    <2>2. CASE n = 0
        <3>1. NewHeaders(s, list) = {}
            BY <2>2 DEF NewHeaders
        <3>2. \A h \in Heights : r.index[h] = NoBlock
            BY <2>1, <3>1, SetFields
        <3> HIDE DEF r
        <3>3. Indexed(r) /\ EmptyIndex(r)
            BY <1>2, <3>2 DEF Indexed, EmptyIndex
        <3> QED BY <3>3 DEF r
    <2>3. CASE n # 0
        <3>1. n = 1 /\ Len(list) = 1 /\ list[1] \in Blocks
            BY <1>1, <1>4, <2>3
        <3>2. NewHeaders(s, list) = {list[1]}
            BY <3>1 DEF NewHeaders
        <3> DEFINE b == list[1]
        <3>3. r.best = b /\ b \in Blocks /\ b # NoBlock /\ HeightOf(b) \in Nat /\ Chain[b][HeightOf(b)] = b
            <4>1. r.best = list[n]
                BY <1>2, <3>1
            <4> QED BY <3>1, <4>1, HeightFacts, ChainType
        <3>4. \A h \in Heights : r.index[h] = IF HeightOf(b) = h THEN b ELSE NoBlock
            <4> TAKE h \in Heights
            <4>1. r.index[h] = IF \E c \in {b} : HeightOf(c) = h THEN CHOOSE c \in {b} : HeightOf(c) = h ELSE s.index[h]
                BY <3>2, SetFields
            <4> HIDE DEF b, r
            <4> QED BY <2>1, <4>1
        <3> HIDE DEF r, b
        <3>5. Indexed(r)
            <4> SUFFICES ASSUME NEW h \in Heights, r.index[h] # NoBlock, h <= HeightOf(b)
                         PROVE  r.index[h] = Chain[b][h] /\ \A g \in h..HeightOf(b) : r.index[g] # NoBlock
                BY <1>2, <3>3 DEF Indexed
            <4>1. HeightOf(b) = h /\ r.index[h] = b
                BY <3>4
            <4>2. \A g \in h..HeightOf(b) : g = h
                BY <3>3, <4>1
            <4> QED BY <3>3, <4>1, <4>2
        <3>6. EmptyIndex(r)
            BY <3>3 DEF EmptyIndex
        <3> QED BY <3>5, <3>6 DEF r
    <2> QED BY <2>2, <2>3
<1>5. CASE s.best \in Blocks
    <2>1. H \in Nat \ {0} /\ s.best # NoBlock /\ \A i \in 1..n : Appended(s.best, list, i) /\ list[i] \in Blocks
        BY <1>1, <1>5, AppendedFacts, HeightFacts
    <2>2. \A h \in Heights : r.index[h] = IF h \in (H + 1)..(H + n) THEN list[h - H] ELSE s.index[h]
        BY <1>5, IndexOver
    <2>3. \A h \in Heights : s.index[h] # NoBlock /\ h <= H
             => s.index[h] = Chain[s.best][h] /\ \A g \in h..H : s.index[g] # NoBlock
        BY <1>2 DEF Indexed
    <2>4. \A h \in Nat \ {0} : h <= H => h \in Heights
        <3> TAKE h \in Nat \ {0}
        <3>1. h <= H => h \in 1..H
            BY <2>1
        <3> QED BY <1>5, <3>1, HeightsBelow
    <2> HIDE DEF r
    <2>5. CASE n > 0 /\ n = Len(list)
        <3> DEFINE b == list[n]
        <3>1. r.best = b /\ b \in Blocks /\ b # NoBlock /\ Appended(s.best, list, n) /\ n \in 1..n
            BY <1>1, <1>2, <2>1, <2>5, HeightFacts
        <3>2. /\ HeightOf(b) = H + n
              /\ \A j \in 1..H : Chain[b][j] = Chain[s.best][j]
              /\ \A j \in 1..n : Chain[b][H + j] = list[j]
            BY <3>1 DEF Appended
        <3> HIDE DEF b, H, n
        <3>3. \A g \in 1..(H + n) : g \in Heights
            BY <3>1, <3>2, HeightsBelow
        <3>4. ASSUME NEW h \in Heights, r.index[h] # NoBlock, h <= H + n
              PROVE  r.index[h] = Chain[b][h] /\ \A g \in h..(H + n) : r.index[g] # NoBlock
            <4>0. h \in Nat \ {0}
                BY <1>3
            <4>1. ASSUME NEW g \in Heights, g \in (H + 1)..(H + n) PROVE r.index[g] = Chain[b][g] /\ r.index[g] # NoBlock
                <5>1. g - H \in 1..n /\ H + (g - H) = g
                    BY <1>1, <2>1, <4>1
                <5>2. list[g - H] \in Blocks /\ list[g - H] # NoBlock
                    BY <2>1, <5>1, HeightFacts
                <5>3. Chain[b][g] = list[g - H]
                    BY <3>2, <5>1
                <5> QED BY <2>2, <4>1, <5>2, <5>3
            <4>2. CASE h > H
                <5>1. h \in (H + 1)..(H + n)
                    BY <1>1, <2>1, <3>4, <4>0, <4>2
                <5>2. \A g \in h..(H + n) : g \in 1..(H + n) /\ g \in (H + 1)..(H + n)
                    BY <1>1, <2>1, <4>0, <5>1
                <5> QED BY <3>3, <4>1, <5>1, <5>2
            <4>3. CASE ~(h > H)
                <5>1. h <= H /\ h \notin (H + 1)..(H + n) /\ h \in 1..H
                    BY <2>1, <4>0, <4>3
                <5>2. r.index[h] = s.index[h]
                    BY <2>2, <5>1
                <5>3. s.index[h] = Chain[s.best][h] /\ \A g \in h..H : s.index[g] # NoBlock
                    BY <2>3, <3>4, <5>1, <5>2
                <5>4. Chain[b][h] = Chain[s.best][h]
                    BY <3>2, <5>1
                <5>5. ASSUME NEW g \in h..(H + n) PROVE r.index[g] # NoBlock
                    <6>1. g \in Heights /\ g \in 1..(H + n)
                        BY <1>1, <2>1, <3>3, <4>0
                    <6>2. CASE g \in (H + 1)..(H + n)
                        BY <4>1, <6>1, <6>2
                    <6>3. CASE g \notin (H + 1)..(H + n)
                        <7>1. g \in h..H
                            BY <1>1, <2>1, <4>0, <6>3
                        <7> QED BY <2>2, <5>3, <6>1, <6>3, <7>1
                    <6> QED BY <6>2, <6>3
                <5> QED BY <5>2, <5>3, <5>4, <5>5
            <4> QED BY <4>2, <4>3
        <3>5. Indexed(r)
            BY <1>2, <3>1, <3>2, <3>4 DEF Indexed
        <3> QED BY <3>1, <3>5 DEF EmptyIndex, r
    <2>6. CASE ~(n > 0 /\ n = Len(list))
        <3>1. r.best = s.best
            BY <1>2, <2>6
        <3> HIDE DEF H, n
        <3>2. \A h \in Heights : h <= H => r.index[h] = s.index[h]
            <4> TAKE h \in Heights
            <4>1. h <= H => h \notin (H + 1)..(H + n)
                BY <1>3, <2>1
            <4> QED BY <2>2, <4>1
        <3>3. \A h \in Heights : \A g \in h..H : g \in Heights /\ g <= H
            <4> TAKE h \in Heights
            <4> TAKE g \in h..H
            <4>1. g \in Nat \ {0} /\ g <= H
                BY <1>3, <2>1
            <4> QED BY <2>4, <4>1
        <3>4. ASSUME NEW h \in Heights, r.index[h] # NoBlock, h <= H
              PROVE  r.index[h] = Chain[s.best][h] /\ \A g \in h..H : r.index[g] # NoBlock
            BY <2>3, <3>2, <3>3, <3>4
        <3>5. Indexed(r)
            BY <1>2, <3>1, <3>4 DEF Indexed, H
        <3> QED BY <2>1, <3>1, <3>5 DEF EmptyIndex, r
    <2> QED BY <2>5, <2>6
<1> QED BY <1>1, <1>4, <1>5

-----------------------------------------------------------------------------
(* The quotes of the exchanges. *)

\* The feed of a validator; what has no price is no quote.
FeedType == [connected : SUBSET Exchange, synced : BOOLEAN, cache : [Exchange -> [price : PriceRange, age : Age]]]
Quoted(f) == f \in FeedType /\ \A x \in Exchange : f.cache[x].price = 0 => f.cache[x] = NoQuote

LEMMA PriceRangeFacts ==
    /\ 0 \in PriceRange /\ Prices \subseteq PriceRange /\ (\A p \in PriceRange : p \in Nat)
    /\ \A x \in Exchange : \A p \in Quote[x] : p \in PriceRange /\ p \in Nat \ {0}
    /\ \A p \in Nat, q \in PriceRange : p <= q => p \in PriceRange
<1>1. Prices \subseteq Nat \ {0} /\ \A x \in Exchange : Quote[x] \subseteq Nat \ {0}
    BY OracleAssumption
<1>2. \A p \in Nat, q \in PriceRange : p <= q => p \in PriceRange
    <2> TAKE p \in Nat, q \in PriceRange
    <2>1. PICK m \in Prices \cup {0} \cup UNION {Quote[x] : x \in Exchange} : q <= m
        BY DEF PriceRange
    <2>2. m \in Nat /\ q \in Nat
        BY <1>1 DEF PriceRange
    <2>3. p <= q => p <= m
        BY <2>1, <2>2
    <2> QED BY <2>3 DEF PriceRange
<1>3. \A p \in Prices \cup {0} \cup UNION {Quote[x] : x \in Exchange} : p \in Nat /\ p <= p
    BY <1>1
<1>4. \A p \in Prices \cup {0} \cup UNION {Quote[x] : x \in Exchange} : p \in PriceRange
    BY <1>3 DEF PriceRange
<1> QED BY <1>1, <1>2, <1>4 DEF PriceRange

\* Quotes that change their age stay quotes.
LEMMA AgeFacts ==
    ASSUME NEW f, Quoted(f), NEW S, \A x \in S : f.cache[x] # NoQuote, NEW age \in Age
    PROVE  Quoted(WithAge(f, S, age))
<1> DEFINE c == [x \in Exchange |-> IF x \in S THEN [f.cache[x] EXCEPT !.age = age] ELSE f.cache[x]]
           g == [f EXCEPT !.cache = c]
<1>1. g = WithAge(f, S, age)
    BY DEF WithAge
<1>2. f \in FeedType /\ f.cache \in [Exchange -> [price : PriceRange, age : Age]]
    BY DEF Quoted, FeedType
<1>3. ASSUME NEW x \in Exchange
      PROVE  c[x] \in [price : PriceRange, age : Age] /\ (c[x].price = 0 => c[x] = NoQuote)
    <2>1. f.cache[x] \in [price : PriceRange, age : Age] /\ (f.cache[x].price = 0 => f.cache[x] = NoQuote)
        BY <1>2 DEF Quoted
    <2>2. CASE x \in S
        <3>1. c[x] = [f.cache[x] EXCEPT !.age = age] /\ f.cache[x].price # 0
            BY <2>1, <2>2
        <3> HIDE DEF c
        <3> QED BY <2>1, <3>1
    <2>3. CASE x \notin S
        BY <2>1, <2>3
    <2> QED BY <2>2, <2>3
<1>4. c \in [Exchange -> [price : PriceRange, age : Age]]
    <2>1. c = [x \in Exchange |-> c[x]]
        OBVIOUS
    <2> HIDE DEF c
    <2> QED BY <1>3, <2>1
<1> HIDE DEF c
<1>5. g \in FeedType /\ g.cache = c
    BY <1>2, <1>4 DEF FeedType
<1> HIDE DEF g
<1>6. Quoted(g)
    BY <1>3, <1>5 DEF Quoted
<1> QED BY <1>1, <1>6

\* Whatever happens to a feed, it stays one.
LEMMA FeedSteps ==
    /\ Quoted(NewFeed)
    /\ \A f : Quoted(f) =>
         /\ Quoted(Sync(f)) /\ (\A S \in SUBSET QuotesOf(f, "new") : Quoted(NextTime(f, S)))
         /\ \A x \in Exchange :
              /\ Quoted(Dial(f, x)) /\ Quoted(Close(f, x))
              /\ \A price \in Quote[x], age \in Age : Quoted(CachePrice(f, x, price, age))
<1>1. Quoted(NewFeed)
    <2>1. NoQuote \in [price : PriceRange, age : Age]
        BY PriceRangeFacts DEF NoQuote, Age
    <2>2. [x \in Exchange |-> NoQuote] \in [Exchange -> [price : PriceRange, age : Age]]
        BY <2>1
    <2> QED BY <2>2 DEF NewFeed, Quoted, FeedType
<1>2. ASSUME NEW f, Quoted(f) PROVE Quoted(Sync(f))
    <2> DEFINE g == WithAge(f, QuotesOf(f, "due"), "past")
    <2>1. Quoted(g)
        BY <1>2, AgeFacts DEF QuotesOf, Age
    <2> HIDE DEF g
    <2>2. Quoted([g EXCEPT !.synced = TRUE])
        <3>1. g \in FeedType
            BY <2>1 DEF Quoted
        <3>2. [g EXCEPT !.synced = TRUE] \in FeedType /\ [g EXCEPT !.synced = TRUE].cache = g.cache
            BY <3>1 DEF FeedType
        <3> QED BY <2>1, <3>2 DEF Quoted
    <2> QED BY <2>2 DEF Sync, g
<1>3. ASSUME NEW f, Quoted(f), NEW S \in SUBSET QuotesOf(f, "new") PROVE Quoted(NextTime(f, S))
    <2>1. \A x \in S : f.cache[x] # NoQuote
        BY DEF QuotesOf
    <2> QED BY <1>3, <2>1, AgeFacts DEF NextTime, Age
<1>4. ASSUME NEW f, Quoted(f), NEW x \in Exchange PROVE Quoted(Dial(f, x)) /\ Quoted(Close(f, x))
    <2>1. ASSUME NEW N \in SUBSET Exchange PROVE Quoted([f EXCEPT !.connected = N])
        <3>1. f \in FeedType
            BY <1>4 DEF Quoted
        <3>2. [f EXCEPT !.connected = N] \in FeedType /\ [f EXCEPT !.connected = N].cache = f.cache
            BY <3>1 DEF FeedType
        <3> QED BY <1>4, <3>2 DEF Quoted
    <2>2. f.connected \cup {x} \in SUBSET Exchange /\ f.connected \ {x} \in SUBSET Exchange
        BY <1>4 DEF Quoted, FeedType
    <2>3. Dial(f, x) = [f EXCEPT !.connected = f.connected \cup {x}] /\ Close(f, x) = [f EXCEPT !.connected = f.connected \ {x}]
        BY DEF Dial, Close
    <2> QED BY <2>1, <2>2, <2>3
<1>5. ASSUME NEW f, Quoted(f), NEW x \in Exchange, NEW price \in Quote[x], NEW age \in Age
      PROVE  Quoted(CachePrice(f, x, price, age))
    <2> DEFINE q == [price |-> price, age |-> age]
               c == [f.cache EXCEPT ![x] = q]
               g == [f EXCEPT !.cache = c]
    <2>1. g = CachePrice(f, x, price, age)
        <3>1. f \in FeedType
            BY <1>5 DEF Quoted
        <3> QED BY <3>1 DEF CachePrice, FeedType
    <2>2. q \in [price : PriceRange, age : Age] /\ q.price # 0
        BY PriceRangeFacts
    <2>3. f \in FeedType /\ f.cache \in [Exchange -> [price : PriceRange, age : Age]]
        BY <1>5 DEF Quoted, FeedType
    <2> HIDE DEF q
    <2>4. c \in [Exchange -> [price : PriceRange, age : Age]] /\ c[x] = q /\ \A y \in Exchange : y # x => c[y] = f.cache[y]
        BY <2>2, <2>3
    <2> HIDE DEF c
    <2>5. g \in FeedType /\ g.cache = c
        BY <2>3, <2>4 DEF FeedType
    <2> HIDE DEF g
    <2>6. \A y \in Exchange : g.cache[y].price = 0 => g.cache[y] = NoQuote
        BY <1>5, <2>2, <2>4, <2>5 DEF Quoted
    <2> QED BY <2>1, <2>5, <2>6 DEF Quoted
<1> QED BY <1>1, <1>2, <1>3, <1>4, <1>5

\* The average of a feed lies between quotes that are fresh.
FreshQuotes(f) == {f.cache[x].price : x \in {y \in Exchange : f.synced => f.cache[y].age # "past"}} \ {0}
LEMMA AverageFacts ==
    ASSUME NEW f, Quoted(f)
    PROVE  /\ AveragePrice(f) \in PriceRange
           /\ AveragePrice(f) > 0 => \E a, b \in FreshQuotes(f) : a <= AveragePrice(f) /\ AveragePrice(f) <= b
<1> DEFINE S == GetPrices(f)
           p == [x \in S |-> f.cache[x].price]
           one == [x \in S |-> 1]
<1>1. CASE S = {}
    <2>1. AveragePrice(f) = 0
        BY <1>1 DEF AveragePrice
    <2> QED BY <2>1, PriceRangeFacts
<1>2. CASE S # {}
    <2>1. AveragePrice(f) = SumFunction(p) \div Cardinality(S)
        BY <1>2 DEF AveragePrice
    <2>2. S \subseteq Exchange /\ IsFiniteSet(S)
        <3>1. S \subseteq Exchange
            BY DEF GetPrices
        <3> QED BY <3>1, FS_Subset, OracleAssumption
    <2>3. SumFunction(p) = SumFunctionOnSet(p, S)
        BY DEF SumFunction
    <2>4. \A x \in S : p[x] \in PriceRange /\ p[x] \in Nat /\ p[x] \in FreshQuotes(f)
        <3> TAKE x \in S
        <3>1. x \in Exchange /\ f.cache[x] # NoQuote /\ (f.cache[x].age # "past" \/ ~f.synced)
            BY DEF GetPrices
        <3>2. f.cache[x].price \in PriceRange /\ f.cache[x].price # 0
            BY <3>1 DEF Quoted, FeedType
        <3> QED BY <3>1, <3>2, PriceRangeFacts DEF FreshQuotes
    <2>5. Cardinality(S) = SumFunctionOnSet(one, S)
        BY <2>2, CountIsSum
    <2>6. \A x \in S : p[x] \in Nat /\ one[x] \in Nat \ {0} /\ p[x] = p[x] * one[x]
        <3> TAKE x \in S
        <3>1. one[x] = 1 /\ p[x] \in Nat
            BY <2>4
        <3> HIDE DEF one, p
        <3> QED BY <3>1
    <2> HIDE DEF S, p, one
    <2> DEFINE q == SumFunctionOnSet(p, S) \div SumFunctionOnSet(one, S)
    <2>7. q \in Nat /\ \E a, b \in S : p[a] <= q /\ q <= p[b]
        BY <1>2, <2>2, <2>6, WeightedAverage
    <2>8. AveragePrice(f) = q
        BY <2>1, <2>3, <2>5
    <2> HIDE DEF q
    <2>9. PICK a \in S, b \in S : p[a] <= q /\ q <= p[b]
        BY <2>7
    <2>10. q \in PriceRange
        BY <2>4, <2>7, <2>9, PriceRangeFacts
    <2> QED BY <2>4, <2>8, <2>9, <2>10
<1> QED BY <1>1, <1>2

-----------------------------------------------------------------------------
(* The invariant of the price oracle. *)

\* Vote extensions, and what the lists of headers in them are worth.
VoteExtension == [height : -1..MaxHeight, price : PriceRange, blocks : Seq(Blocks)]
Report(list, best, g) ==
    /\ Len(list) <= Window /\ (best = NoBlock => Len(list) <= 1)
    /\ g \in ShortForks => Links(best, list, Len(list)) /\ \A i \in 1..Len(list) : Deep(list[i], g)

\* The invariant, part by part: types; the quotes of the feeds.
OracleTypes ==
    /\ height \in 1..MaxHeight /\ tip \in [Validators -> Blocks]
    /\ votes \in [Validators -> VoteExtension] /\ commit \in [Validators -> VoteExtension]
    /\ store \in [Validators -> Replica]
FeedsQuoted == DOMAIN feed = Fed /\ feed = [v \in Fed |-> feed[v]] /\ \A v \in Fed : Quoted(feed[v])

\* All nodes follow the same network.
Genesis(v) == Chain[tip[v]][1]
OneNetwork == \A v, w \in Validators : Genesis(v) = Genesis(w)

\* The index of a replica is that of its best header, which some chain over g has confirmed.
StoreSound(s, g) == Indexed(s) /\ EmptyIndex(s) /\ (g \in ShortForks => s.best = NoBlock \/ Deep(s.best, g))
StoresSound == \A v \in Validators : StoreSound(store[v], Genesis(v))

\* Headers are reported at odd heights, and applied at even ones to the state they were computed from.
ReportsSound ==
    \A v \in Validators :
        IF height % 2 = 1
        THEN commit[v].blocks = <<>> /\ Report(votes[v].blocks, store[v].best, Genesis(v))
        ELSE votes[v].blocks = <<>> /\ \A w \in Validators : Report(commit[v].blocks, store[w].best, Genesis(w))

\* The inductive invariant.
OracleInv == OracleTypes /\ FeedsQuoted /\ OneNetwork /\ StoresSound /\ ReportsSound

\* The stake of a set of validators.
LEMMA PowerFacts ==
    ASSUME NEW C \in SUBSET Validators
    PROVE  IsFiniteSet(C) /\ PowerOf(C) = SumFunctionOnSet(Power, C) /\ PowerOf(C) \in Nat
<1>1. IsFiniteSet(C)
    BY OracleAssumption, FS_Subset
<1>2. \A v \in C : Power[v] \in Nat
    BY OracleAssumption
<1> DEFINE w == [v \in C |-> Power[v]]
<1>3. DOMAIN w = C /\ \A v \in C : w[v] = Power[v]
    OBVIOUS
<1>4. PowerOf(C) = SumFunctionOnSet(w, DOMAIN w)
    BY DEF PowerOf, SumFunction
<1> HIDE DEF w
<1>5. PowerOf(C) = SumFunctionOnSet(w, C)
    BY <1>3, <1>4
<1>6. SumFunctionOnSet(w, C) = SumFunctionOnSet(Power, C)
    BY <1>1, <1>2, <1>3, SumSame
<1>7. SumFunctionOnSet(Power, C) \in Nat
    BY <1>1, <1>2, SumType
<1> QED BY <1>1, <1>5, <1>6, <1>7

\* The price that the commit decides lies between prices that its reporters name.
Bracketed(p) == \E a, b \in PriceReporters : commit[a].price <= p /\ p <= commit[b].price
LEMMA FinalPriceFacts ==
    ASSUME OracleTypes
    PROVE  /\ finalPrice \in PriceRange
           /\ finalPrice > 0 => PowerOf(PriceReporters) * 2 >= totalStake /\ Bracketed(finalPrice)
<1> DEFINE P == PriceReporters
           vp == PowerOf(P)
           q == [v \in P |-> commit[v].price * Power[v]]
           p == [v \in P |-> commit[v].price]
<1>1. P \in SUBSET Validators /\ IsFiniteSet(P) /\ vp = SumFunctionOnSet(Power, P) /\ vp \in Nat
    <2>1. P \in SUBSET Validators
        BY DEF PriceReporters, InCommit
    <2> QED BY <2>1, PowerFacts
<1>2. \A v \in P : commit[v].price \in PriceRange /\ commit[v].price \in Nat
    BY <1>1, PriceRangeFacts DEF OracleTypes, VoteExtension
<1>3. finalPrice = IF vp * 2 >= totalStake /\ vp > 0 THEN SumFunction(q) \div vp ELSE 0
    BY DEF finalPrice
<1>4. CASE ~(vp * 2 >= totalStake /\ vp > 0)
    <2>1. finalPrice = 0
        BY <1>3, <1>4
    <2> QED BY <2>1, PriceRangeFacts
<1>5. CASE vp * 2 >= totalStake /\ vp > 0
    <2>1. P # {}
        <3>1. SUFFICES ASSUME P = {} PROVE vp = 0
            BY <1>1, <1>5
        <3> QED BY <1>1, <3>1, SumZero
    <2>2. \A v \in P : p[v] \in Nat /\ Power[v] \in Nat \ {0} /\ q[v] = p[v] * Power[v] /\ p[v] = commit[v].price
        BY <1>1, <1>2, OracleAssumption
    <2>3. SumFunction(q) = SumFunctionOnSet(q, P)
        BY DEF SumFunction
    <2> DEFINE Q == SumFunctionOnSet(q, P)  fp == Q \div vp
    <2>4. fp = finalPrice
        BY <1>3, <1>5, <2>3
    <2> HIDE DEF q, p, vp, P
    <2>5. LET W == SumFunctionOnSet(Power, P)
          IN  Q \div W \in Nat /\ \E a, b \in P : p[a] <= Q \div W /\ Q \div W <= p[b]
        BY <1>1, <2>1, <2>2, WeightedAverage, Zenon
    <2>6. fp \in Nat /\ \E a, b \in P : p[a] <= fp /\ fp <= p[b]
        BY <1>1, <2>5, Zenon
    <2>7. PICK a \in P, b \in P : p[a] <= fp /\ fp <= p[b]
        BY <2>6
    <2> HIDE DEF fp
    <2>8. commit[a].price <= fp /\ fp <= commit[b].price /\ commit[b].price \in PriceRange
        BY <1>2, <2>2, <2>7
    <2>9. finalPrice \in PriceRange
        BY <2>4, <2>6, <2>8, PriceRangeFacts
    <2>10. Bracketed(finalPrice)
        BY <2>4, <2>8 DEF Bracketed, P
    <2> QED BY <1>5, <2>9, <2>10 DEF vp, P
<1> QED BY <1>4, <1>5

\* Extensions without headers.
LEMMA NoReport ==
    /\ NoVote \in VoteExtension /\ EmptyExtension \in VoteExtension
    /\ NoVote.blocks = <<>> /\ EmptyExtension.blocks = <<>>
    /\ \A best, g : Report(<<>>, best, g)
<1>1. 0 \in -1..MaxHeight /\ -1 \in -1..MaxHeight /\ Window \in Nat
    BY OracleAssumption
<1>2. <<>> \in Seq(Blocks) /\ Len(<<>>) = 0
    OBVIOUS
<1>3. NoVote \in VoteExtension /\ EmptyExtension \in VoteExtension
    BY <1>1, <1>2, PriceRangeFacts DEF NoVote, EmptyExtension, VoteExtension
<1>4. NoVote.blocks = <<>> /\ EmptyExtension.blocks = <<>>
    BY DEF NoVote, EmptyExtension
<1>5. ASSUME NEW best, NEW g PROVE Report(<<>>, best, g)
    BY <1>1, <1>2 DEF Report, Links
<1> QED BY <1>3, <1>4, <1>5

\* It holds initially, and every action keeps it.
LEMMA InitHolds == Init => OracleInv
<1> SUFFICES ASSUME Init PROVE OracleInv
    OBVIOUS
<1>1. PICK b \in Blocks : tip = [v \in Validators |-> b]
    BY DEF Init
<1> DEFINE new == [price |-> 0, best |-> NoBlock, headers |-> {}, index |-> [h \in Heights |-> NoBlock]]
<1>2. store = [v \in Validators |-> new]
    BY DEF Init, Heights
<1>3. new \in Replica /\ new.best = NoBlock /\ DOMAIN new.index = Heights /\ \A h \in Heights : new.index[h] = NoBlock
    BY PriceRangeFacts DEF Replica
<1> HIDE DEF new
<1>4. height = 1 /\ votes = [v \in Validators |-> NoVote] /\ commit = [v \in Validators |-> NoVote] /\ feed = [v \in Fed |-> NewFeed]
    BY DEF Init
<1>5. OracleTypes
    BY <1>1, <1>2, <1>3, <1>4, NoReport, OracleAssumption DEF OracleTypes
<1>6. FeedsQuoted
    BY <1>4, FeedSteps DEF FeedsQuoted
<1>7. OneNetwork
    BY <1>1 DEF OneNetwork, Genesis
<1>8. StoresSound
    BY <1>2, <1>3 DEF StoresSound, StoreSound, Indexed, EmptyIndex
<1>9. ReportsSound
    <2>1. \A v \in Validators : commit[v].blocks = <<>> /\ votes[v].blocks = <<>>
        BY <1>4, NoReport
    <2> QED BY <1>4, <2>1, NoReport DEF ReportsSound
<1> QED BY <1>5, <1>6, <1>7, <1>8, <1>9 DEF OracleInv

\* What the steps other than FinalizeBlock do to nodes and votes.
LEMMA SameGenesis ==
    ASSUME OracleTypes, NEW v \in Validators, NEW u, SameTree(tip[v], u), tip' = [tip EXCEPT ![v] = u]
    PROVE  tip' \in [Validators -> Blocks] /\ \A w \in Validators : Genesis(w)' = Genesis(w)
<1>1. tip \in [Validators -> Blocks] /\ u \in Blocks /\ Chain[u][1] = Chain[tip[v]][1]
    BY DEF OracleTypes, SameTree, Longer
<1>2. tip' \in [Validators -> Blocks] /\ \A w \in Validators : tip'[w] = IF w = v THEN u ELSE tip[w]
    BY <1>1
<1> QED BY <1>1, <1>2 DEF Genesis

\* A node moves within its network.
LEMMA BitcoinMovesKeeps == ASSUME OracleInv, NEW v \in Validators, BitcoinMoves(v) PROVE OracleInv'
<1>1. PICK b \in Longer(tip[v]) : tip' = [tip EXCEPT ![v] = b]
    BY DEF BitcoinMoves
<1>2. SameTree(tip[v], b)
    BY <1>1 DEF SameTree, Longer, OracleInv, OracleTypes
<1>3. tip' \in [Validators -> Blocks] /\ \A w \in Validators : Genesis(w)' = Genesis(w)
    BY <1>1, <1>2, SameGenesis DEF OracleInv
<1>4. UNCHANGED <<height, votes, commit, feed, store>>
    BY DEF BitcoinMoves
<1>5. OracleTypes'
    BY <1>3, <1>4 DEF OracleTypes, OracleInv
<1>6. FeedsQuoted'
    BY <1>4 DEF FeedsQuoted, OracleInv
<1>7. OneNetwork'
    BY <1>3 DEF OneNetwork, OracleInv
<1>8. StoresSound'
    BY <1>3, <1>4 DEF StoresSound, OracleInv
<1>9. ReportsSound'
    BY <1>3, <1>4 DEF ReportsSound, OracleInv
<1> QED BY <1>5, <1>6, <1>7, <1>8, <1>9 DEF OracleInv

\* A step of the feeds.
LEMMA FeedsKeep ==
    ASSUME OracleInv, FeedsQuoted', UNCHANGED <<height, tip, votes, commit, store>>
    PROVE  OracleInv'
<1>1. OracleTypes'
    BY DEF OracleTypes, OracleInv
<1>2. OneNetwork'
    BY DEF OneNetwork, Genesis, OracleInv
<1>3. StoresSound'
    BY DEF StoresSound, Genesis, OracleInv
<1>4. ReportsSound'
    BY DEF ReportsSound, Genesis, OracleInv
<1> QED BY <1>1, <1>2, <1>3, <1>4 DEF OracleInv

\* A step of one feed.
LEMMA FeedChange ==
    ASSUME FeedsQuoted, NEW v \in Fed, NEW f, Quoted(f), feed' = [feed EXCEPT ![v] = f]
    PROVE  FeedsQuoted'
<1>1. DOMAIN feed' = Fed /\ \A w \in Fed : feed'[w] = IF w = v THEN f ELSE feed[w]
    BY DEF FeedsQuoted
<1>2. feed' = [w \in Fed |-> feed'[w]]
    BY DEF FeedsQuoted
<1> QED BY <1>1, <1>2 DEF FeedsQuoted

\* Connections and quotes (Subscribe, CachePrice).
LEMMA SubscribeKeeps == ASSUME OracleInv, NEW v \in Fed, NEW x \in Exchange, Subscribe(v, x) PROVE OracleInv'
<1>1. FeedsQuoted /\ Quoted(feed[v])
    BY DEF OracleInv, FeedsQuoted
<1>2. \E f : Quoted(f) /\ feed' = [feed EXCEPT ![v] = f]
    <2>1. CASE feed' = [feed EXCEPT ![v] = Dial(@, x)]
        BY <1>1, <2>1, FeedSteps DEF FeedsQuoted
    <2>2. CASE feed' = [feed EXCEPT ![v] = Close(@, x)]
        BY <1>1, <2>2, FeedSteps DEF FeedsQuoted
    <2>3. CASE \E price \in Quote[x], age \in Age : feed' = [feed EXCEPT ![v] = CachePrice(@, x, price, age)]
        BY <1>1, <2>3, FeedSteps DEF FeedsQuoted
    <2> QED BY <2>1, <2>2, <2>3 DEF Subscribe
<1>3. FeedsQuoted'
    BY <1>1, <1>2, FeedChange
<1> QED BY <1>3, FeedsKeep DEF Subscribe

\* A restart empties the cache.
LEMMA RestartKeeps == ASSUME OracleInv, NEW v \in Fed, Restart(v) PROVE OracleInv'
<1>1. FeedsQuoted'
    BY FeedSteps, FeedChange DEF Restart, OracleInv
<1> QED BY <1>1, FeedsKeep DEF Restart

\* The extension that a validator makes.
LEMMA ExtensionFacts ==
    ASSUME OracleInv, NEW v \in Validators, NEW p \in getAllVolumeWeightedPrices(v), NEW read \in Reads(v)
    PROVE  LET ext == Extension(v, p, read)
           IN  /\ SameTree(tip[v], read.to) /\ ext \in VoteExtension
               /\ Report(ext.blocks, store[v].best, Genesis(v)) /\ (height % 2 = 0 => ext.blocks = <<>>)
<1> DEFINE u == read.to
           k == read.at
           ext == Extension(v, p, read)
           reported == getBitcoinHeaders(store[v].best, tip[v], u, k)
           list == IF read.ok THEN reported ELSE <<>>
<1>1. tip[v] \in Blocks /\ store[v] \in Replica /\ store[v].best \in Blocks \cup {NoBlock} /\ height \in 1..MaxHeight
    BY DEF OracleInv, OracleTypes, Replica
<1>2. SameTree(tip[v], u)
    <2>1. u = tip[v] \/ u \in Longer(tip[v])
        BY DEF Reads
    <2> QED BY <1>1, <2>1 DEF SameTree, Longer
<1>3. list \in Seq(Blocks) /\ Len(list) <= Window /\ (store[v].best = NoBlock => Len(list) <= 1) /\ (height % 2 = 0 => list = <<>>)
    <2> HIDE DEF u, k
    <2>1. /\ reported \in Seq(Blocks) /\ Len(reported) <= Window /\ (store[v].best = NoBlock => Len(reported) <= 1)
          /\ (height % 2 = 0 => reported = <<>>)
        BY <1>1, <1>2, ReportType
    <2> HIDE DEF reported
    <2>2. CASE read.ok
        BY <2>1, <2>2
    <2>3. CASE ~read.ok
        <3>1. <<>> \in Seq(Blocks) /\ Len(<<>>) = 0 /\ Window \in Nat
            BY OracleAssumption
        <3> QED BY <2>3, <3>1
    <2> QED BY <2>2, <2>3
<1>4. Genesis(v) \in ShortForks => Links(store[v].best, list, Len(list)) /\ \A i \in 1..Len(list) : Deep(list[i], Genesis(v))
    <2> SUFFICES ASSUME Genesis(v) \in ShortForks
                 PROVE  Links(store[v].best, list, Len(list)) /\ \A i \in 1..Len(list) : Deep(list[i], Genesis(v))
        OBVIOUS
    <2>1. store[v].best = NoBlock \/ Deep(store[v].best, Genesis(v))
        BY DEF OracleInv, StoresSound, StoreSound
    <2> HIDE DEF u, k
    <2>2. Links(store[v].best, reported, Len(reported)) /\ \A i \in 1..Len(reported) : Deep(reported[i], Genesis(v))
        BY <1>1, <1>2, <2>1, ReportFits DEF Genesis
    <2>3. Links(store[v].best, <<>>, Len(<<>>)) /\ \A i \in 1..Len(<<>>) : Deep(<<>>[i], Genesis(v))
        BY DEF Links
    <2> HIDE DEF reported
    <2> QED BY <2>2, <2>3
<1>5. p \in PriceRange
    <2>1. CASE v \in Fed
        BY <2>1, AverageFacts DEF getAllVolumeWeightedPrices, OracleInv, FeedsQuoted
    <2>2. CASE v \notin Fed
        BY <2>2, PriceRangeFacts DEF getAllVolumeWeightedPrices
    <2> QED BY <2>1, <2>2
<1>6. ext = IF Extends(v) THEN [height |-> height, price |-> p, blocks |-> list] ELSE EmptyExtension
    BY DEF Extension
<1> HIDE DEF ext, list
<1>7. CASE Extends(v)
    <2>1. height \in -1..MaxHeight
        BY <1>1, OracleAssumption
    <2>2. ext \in VoteExtension /\ ext.blocks = list
        BY <1>3, <1>5, <1>6, <1>7, <2>1 DEF VoteExtension
    <2>3. Report(list, store[v].best, Genesis(v))
        BY <1>3, <1>4 DEF Report
    <2> QED BY <1>2, <1>3, <2>2, <2>3 DEF ext, u, k
<1>8. CASE ~Extends(v)
    <2>1. ext = EmptyExtension
        BY <1>6, <1>8
    <2> QED BY <1>2, <2>1, NoReport DEF ext, u, k
<1> QED BY <1>7, <1>8

\* A vote reports headers that fit the best header of its replica (ExtendVoteHandler).
LEMMA ExtendVoteKeeps == ASSUME OracleInv, NEW v \in Validators, ExtendVote(v) PROVE OracleInv'
<1>1. PICK p \in getAllVolumeWeightedPrices(v), read \in Reads(v) :
         /\ votes' = [votes EXCEPT ![v] = Extension(v, p, read)]
         /\ tip' = [tip EXCEPT ![v] = read.to]
    BY DEF ExtendVote
<1> DEFINE ext == Extension(v, p, read)
<1>2. /\ SameTree(tip[v], read.to) /\ ext \in VoteExtension
      /\ Report(ext.blocks, store[v].best, Genesis(v)) /\ (height % 2 = 0 => ext.blocks = <<>>)
    BY ExtensionFacts
<1>3. votes' = [votes EXCEPT ![v] = ext]
    BY <1>1
<1> HIDE DEF ext
<1>4. UNCHANGED <<height, commit, store>>
    BY DEF ExtendVote
<1>5. tip' \in [Validators -> Blocks] /\ \A w \in Validators : Genesis(w)' = Genesis(w)
    BY <1>1, <1>2, SameGenesis DEF OracleInv
<1>6. votes' \in [Validators -> VoteExtension] /\ \A w \in Validators : votes'[w] = IF w = v THEN ext ELSE votes[w]
    BY <1>2, <1>3 DEF OracleInv, OracleTypes
<1>7. OracleTypes'
    BY <1>4, <1>5, <1>6 DEF OracleTypes, OracleInv
<1>8. FeedsQuoted'
    <2>1. CASE v \in Fed /\ Extends(v)
        <3>1. feed' = [feed EXCEPT ![v] = Sync(feed[v])]
            BY <2>1 DEF ExtendVote
        <3>2. FeedsQuoted /\ Quoted(feed[v])
            BY <2>1 DEF OracleInv, FeedsQuoted
        <3> QED BY <2>1, <3>1, <3>2, FeedSteps, FeedChange
    <2>2. CASE ~(v \in Fed /\ Extends(v))
        BY <2>2 DEF ExtendVote, FeedsQuoted, OracleInv
    <2> QED BY <2>1, <2>2
<1>9. OneNetwork'
    BY <1>5 DEF OneNetwork, OracleInv
<1>10. StoresSound'
    BY <1>4, <1>5 DEF StoresSound, OracleInv
<1>11. ReportsSound'
    <2>1. ASSUME NEW w \in Validators
          PROVE  IF height % 2 = 1
                 THEN commit[w].blocks = <<>> /\ Report(votes'[w].blocks, store[w].best, Genesis(w))
                 ELSE votes'[w].blocks = <<>> /\ \A z \in Validators : Report(commit[w].blocks, store[z].best, Genesis(z))
        <3>1. height % 2 # 1 => height % 2 = 0
            BY DEF OracleInv, OracleTypes
        <3> QED BY <1>2, <1>6, <3>1 DEF OracleInv, ReportsSound
    <2> QED BY <1>4, <1>5, <2>1 DEF ReportsSound
<1> QED BY <1>7, <1>8, <1>9, <1>10, <1>11 DEF OracleInv

\* The lists that a replica may pick were reported, or are empty.
LEMMA SelectedReported ==
    ASSUME OracleInv, NEW list \in SelectedHeaders
    PROVE  /\ list \in Seq(Blocks) /\ \A w \in Validators : Report(list, store[w].best, Genesis(w))
           /\ height % 2 = 1 => list = <<>>
<1>1. list = <<>> \/ \E v \in Validators : list = commit[v].blocks
    BY DEF SelectedHeaders, HeaderLists, InCommit
<1>2. CASE list = <<>>
    BY <1>2, NoReport
<1>3. CASE \E v \in Validators : list = commit[v].blocks
    <2>1. PICK v \in Validators : list = commit[v].blocks
        BY <1>3
    <2>2. list \in Seq(Blocks)
        BY <2>1 DEF OracleInv, OracleTypes, VoteExtension
    <2>3. CASE height % 2 = 1
        <3>1. list = <<>>
            BY <2>1, <2>3 DEF OracleInv, ReportsSound
        <3> QED BY <1>2, <3>1
    <2>4. CASE height % 2 # 1
        BY <2>1, <2>2, <2>4 DEF OracleInv, ReportsSound
    <2> QED BY <2>3, <2>4
<1> QED BY <1>1, <1>2, <1>3

\* What the pre-blocker does to a replica: its headers stay sound and its best header only extends.
Executed(r, s, g) ==
    /\ r \in Replica /\ StoreSound(r, g) /\ Descends(r.best, s.best)
    /\ r.price # s.price => finalPrice > 0 /\ r.price = finalPrice
LEMMA PreBlockerFacts ==
    ASSUME OracleInv, NEW v \in Validators, NEW list \in SelectedHeaders
    PROVE  LET r == PreBlocker(store[v], list)
           IN  Executed(r, store[v], Genesis(v)) /\ (height % 2 = 1 => r.best = store[v].best)
<1> DEFINE s == store[v]
           p == IF finalPrice > 0 THEN finalPrice ELSE s.price
           s1 == [s EXCEPT !.price = p]
           r == SetBlockHeaders(s1, list)
<1>1. s \in Replica /\ StoreSound(s, Genesis(v)) /\ OracleTypes
    BY DEF OracleInv, OracleTypes, StoresSound
<1>2. PreBlocker(s, list) = r
    BY DEF PreBlocker
<1>3. p \in PriceRange /\ (p # s.price => finalPrice > 0 /\ p = finalPrice)
    BY <1>1, FinalPriceFacts DEF Replica
<1> HIDE DEF p
<1>4. s1 \in Replica /\ s1.price = p /\ s1.best = s.best /\ s1.index = s.index
    BY <1>1, <1>3 DEF Replica
<1>5. list \in Seq(Blocks) /\ Report(list, s.best, Genesis(v)) /\ (height % 2 = 1 => list = <<>>)
    BY SelectedReported
<1> HIDE DEF s, s1
<1>6. Indexed(s1) /\ EmptyIndex(s1) /\ (s1.best = NoBlock => Len(list) <= 1)
    BY <1>1, <1>4, <1>5 DEF StoreSound, Indexed, EmptyIndex, Report
<1>7. r \in Replica /\ r.price = s1.price
    BY <1>4, <1>5, SetFields
<1>8. Indexed(r) /\ EmptyIndex(r)
    BY <1>4, <1>5, <1>6, IndexKept
<1>9. Descends(r.best, s1.best) /\ (r.best = s1.best \/ \E i \in 1..Len(list) : r.best = list[i])
    BY <1>4, <1>5, BestDescends
<1> HIDE DEF r
<1>10. Genesis(v) \in ShortForks => r.best = NoBlock \/ Deep(r.best, Genesis(v))
    BY <1>1, <1>4, <1>5, <1>9 DEF StoreSound, Report
<1>11. height % 2 = 1 => r.best = s.best
    <2>1. list = <<>> => 1..Len(list) = {}
        OBVIOUS
    <2> QED BY <1>4, <1>5, <1>9, <2>1
<1>12. Executed(r, s, Genesis(v))
    BY <1>3, <1>4, <1>7, <1>8, <1>9, <1>10 DEF Executed, StoreSound
<1> QED BY <1>2, <1>11, <1>12 DEF s

\* The replicas after a block.
LEMMA BlockFacts ==
    ASSUME OracleInv, FinalizeBlock
    PROVE  /\ store' \in [Validators -> Replica]
           /\ \A v \in Validators : /\ Executed(store'[v], store[v], Genesis(v))
                                    /\ height % 2 = 1 => store'[v].best = store[v].best
<1>1. store \in [Validators -> Replica] /\ \A v \in Validators : StoreSound(store[v], Genesis(v))
    BY DEF OracleInv, OracleTypes, StoresSound
<1>2. CASE voteExtensionEnabled(height)
    <2>1. PICK pick \in [Validators -> SelectedHeaders] : store' = [v \in Validators |-> PreBlocker(store[v], pick[v])]
        BY <1>2 DEF FinalizeBlock
    <2>2. \A v \in Validators : store'[v] = PreBlocker(store[v], pick[v]) /\ pick[v] \in SelectedHeaders
        BY <2>1
    <2>3. ASSUME NEW v \in Validators
          PROVE  Executed(store'[v], store[v], Genesis(v)) /\ (height % 2 = 1 => store'[v].best = store[v].best)
        BY <2>2, PreBlockerFacts
    <2>4. \A v \in Validators : store'[v] \in Replica
        BY <2>3 DEF Executed
    <2> QED BY <2>1, <2>3, <2>4
<1>3. CASE ~voteExtensionEnabled(height)
    <2>1. store' = store
        BY <1>3 DEF FinalizeBlock
    <2>2. \A v \in Validators : Descends(store[v].best, store[v].best)
        <3> SUFFICES ASSUME NEW b \in Blocks PROVE b \in Range(Chain[b])
            BY <1>1 DEF Descends, Replica
        <3>1. Chain[b] \in Seq(Blocks) /\ Len(Chain[b]) \in Nat \ {0} /\ Chain[b][Len(Chain[b])] = b
            BY ChainType
        <3> QED BY <3>1 DEF Range
    <2> QED BY <1>1, <2>1, <2>2 DEF Executed
<1> QED BY <1>2, <1>3

\* Headers are applied to the best header that they were computed from: the block after an odd
\* height has none to apply (PreBlocker).
LEMMA FinalizeBlockKeeps == ASSUME OracleInv, FinalizeBlock PROVE OracleInv'
<1>1. height \in 1..MaxHeight /\ MaxHeight \in Nat /\ MaxHeight > 1
    BY OracleAssumption DEF OracleInv, OracleTypes
<1>2. height' \in 1..MaxHeight /\ (height % 2 = 1 => height' % 2 # 1) /\ (height % 2 # 1 => height' % 2 = 1)
    BY <1>1 DEF FinalizeBlock, NextHeight
<1>3. tip' = tip /\ \A v \in Validators : Genesis(v)' = Genesis(v)
    BY DEF FinalizeBlock, Genesis
<1>4. votes' = [v \in Validators |-> NoVote]
    BY DEF FinalizeBlock
<1>5. PICK C \in SUBSET {v \in Validators : votes[v] # NoVote} :
         commit' = [v \in Validators |-> IF v \in C THEN votes[v] ELSE NoVote]
    BY DEF FinalizeBlock
<1>6. /\ store' \in [Validators -> Replica]
      /\ \A v \in Validators : /\ Executed(store'[v], store[v], Genesis(v))
                               /\ height % 2 = 1 => store'[v].best = store[v].best
    BY BlockFacts
<1>7. OracleTypes'
    BY <1>2, <1>3, <1>4, <1>5, <1>6, NoReport DEF OracleTypes, OracleInv
<1>8. FeedsQuoted'
    <2>1. PICK due \in [Fed -> SUBSET Exchange] :
             /\ \A v \in Fed : due[v] \subseteq QuotesOf(feed[v], "new")
             /\ feed' = [v \in Fed |-> NextTime(feed[v], due[v])]
        BY DEF FinalizeBlock
    <2>2. ASSUME NEW v \in Fed PROVE Quoted(feed'[v])
        <3>1. Quoted(feed[v]) /\ due[v] \in SUBSET QuotesOf(feed[v], "new")
            BY <2>1 DEF OracleInv, FeedsQuoted
        <3> QED BY <2>1, <3>1, FeedSteps
    <2>3. DOMAIN feed' = Fed /\ feed' = [v \in Fed |-> feed'[v]]
        BY <2>1
    <2> QED BY <2>2, <2>3 DEF FeedsQuoted
<1>9. OneNetwork'
    BY <1>3 DEF OneNetwork, OracleInv
<1>10. StoresSound'
    BY <1>3, <1>6 DEF StoresSound, Executed
<1>11. ReportsSound'
    <2>1. CASE height % 2 = 1
        <3>1. \A v \in Validators : votes'[v].blocks = <<>>
            BY <1>4, NoReport
        <3>2. ASSUME NEW v \in Validators, NEW w \in Validators
              PROVE  Report(commit'[v].blocks, store'[w].best, Genesis(w))
            <4>1. store'[w].best = store[v].best /\ Genesis(w) = Genesis(v)
                <5>1. store[v] = store[w]
                    BY DEF FinalizeBlock
                <5> QED BY <1>6, <2>1, <5>1 DEF OracleInv, OneNetwork
            <4>2. commit'[v] = votes[v] \/ commit'[v] = NoVote
                BY <1>5
            <4>3. Report(votes[v].blocks, store[v].best, Genesis(v))
                BY <2>1 DEF OracleInv, ReportsSound
            <4> QED BY <4>1, <4>2, <4>3, NoReport
        <3> QED BY <1>2, <1>3, <2>1, <3>1, <3>2 DEF ReportsSound
    <2>2. CASE height % 2 # 1
        <3>1. \A v \in Validators : votes[v].blocks = <<>>
            BY <2>2 DEF OracleInv, ReportsSound
        <3>2. \A v \in Validators : commit'[v].blocks = <<>> /\ votes'[v].blocks = <<>>
            BY <1>4, <1>5, <3>1, NoReport
        <3> QED BY <1>2, <2>2, <3>2, NoReport DEF ReportsSound
    <2> QED BY <2>1, <2>2
<1> QED BY <1>7, <1>8, <1>9, <1>10, <1>11 DEF OracleInv

\* Every step keeps the invariant.
LEMMA NextKeeps == OracleInv /\ [Next]_vars => OracleInv'
<1> SUFFICES ASSUME OracleInv, [Next]_vars PROVE OracleInv'
    OBVIOUS
<1>1. ASSUME NEW v \in Validators, BitcoinMoves(v) PROVE OracleInv'
    BY <1>1, BitcoinMovesKeeps
<1>2. ASSUME NEW v \in Validators, ExtendVote(v) PROVE OracleInv'
    BY <1>2, ExtendVoteKeeps
<1>3. ASSUME NEW v \in Fed, NEW x \in Exchange, Subscribe(v, x) PROVE OracleInv'
    BY <1>3, SubscribeKeeps
<1>4. ASSUME NEW v \in Fed, Restart(v) PROVE OracleInv'
    BY <1>4, RestartKeeps
<1>5. CASE FinalizeBlock
    BY <1>5, FinalizeBlockKeeps
<1>6. CASE UNCHANGED vars
    <2>1. UNCHANGED <<height, tip, votes, commit, feed, store>>
        BY <1>6 DEF vars
    <2>2. FeedsQuoted'
        BY <2>1 DEF OracleInv, FeedsQuoted
    <2> QED BY <2>1, <2>2, FeedsKeep
<1> QED BY <1>1, <1>2, <1>3, <1>4, <1>5, <1>6 DEF Next

\* The invariant of the price oracle holds in every reachable state (ExtendVoteHandler, PreBlocker).
THEOREM OracleInvHolds == Spec => []OracleInv
BY InitHolds, NextKeeps, PTL DEF Spec

\* The invariant says what HeadersAreSound says.
LEMMA InvIsSound == OracleInv => HeadersAreSound
<1> SUFFICES ASSUME OracleInv PROVE HeadersAreSound
    OBVIOUS
<1>1. TypeOK
    <2>1. feed \in [Fed -> FeedType]
        BY DEF OracleInv, FeedsQuoted, Quoted
    <2>2. ASSUME NEW v \in Validators, NEW ext \in {votes[v], commit[v]}
          PROVE  /\ ext.height \in -1..MaxHeight /\ ext.price \in PriceRange
                 /\ ext.blocks \in Seq(Blocks) /\ Len(ext.blocks) <= Window
        <3>1. ext \in VoteExtension
            BY DEF OracleInv, OracleTypes
        <3>2. Len(ext.blocks) <= Window
            BY NoReport DEF OracleInv, ReportsSound, Report
        <3> QED BY <3>1, <3>2 DEF VoteExtension
    <2>3. height \in 1..MaxHeight /\ tip \in [Validators -> Blocks] /\ store \in [Validators -> Replica]
        BY DEF OracleInv, OracleTypes
    <2> QED BY <2>1, <2>2, <2>3 DEF TypeOK, FeedType, Replica, PriceRange, Heights
<1>2. BestChainIsIndexed
    BY DEF OracleInv, StoresSound, StoreSound, BestChainIsIndexed, Indexed
<1>3. ReportedHeadersFit
    <2> SUFFICES ASSUME NEW v \in Validators, NEW list \in SelectedHeaders, Genesis(v) \in ShortForks
                 PROVE  Linked(store[v].best, list) = Len(list)
        BY DEF ReportedHeadersFit, Genesis
    <2>1. list \in Seq(Blocks) /\ Report(list, store[v].best, Genesis(v))
        BY SelectedReported
    <2>2. Links(store[v].best, list, Len(list)) /\ Len(list) \in 0..Len(list) /\ Len(list) \in Nat
        BY <2>1 DEF Report
    <2>3. Len(list) <= Linked(store[v].best, list) /\ Linked(store[v].best, list) \in 0..Len(list)
        BY <2>1, <2>2, LinkedFacts
    <2> QED BY <2>2, <2>3
<1> QED BY <1>1, <1>2, <1>3 DEF HeadersAreSound

\* The chain of headers is indexed and what is about to be stored continues it, as long as forks are
\* shorter than the confirmation depth (getBitcoinHeaders, SetBlockHeaders).
THEOREM HeadersAreSoundHolds == Spec => []HeadersAreSound
BY OracleInvHolds, InvIsSound, PTL

\* The steps other than FinalizeBlock leave the replicas alone, and all but ExtendVote the votes.
LEMMA OtherSteps ==
    ASSUME [Next]_vars
    PROVE  FinalizeBlock \/ (store' = store /\ (votes' = votes \/ \E v \in Validators : ExtendVote(v)))
<1>1. \A v \in Validators : BitcoinMoves(v) => store' = store /\ votes' = votes
    BY DEF BitcoinMoves
<1>2. \A v \in Validators : ExtendVote(v) => store' = store
    BY DEF ExtendVote
<1>3. \A v \in Fed : (Restart(v) \/ \E x \in Exchange : Subscribe(v, x)) => store' = store /\ votes' = votes
    BY DEF Subscribe, Restart
<1>4. UNCHANGED vars => store' = store /\ votes' = votes
    BY DEF vars
<1> QED BY <1>1, <1>2, <1>3, <1>4 DEF Next

\* What BestOnlyExtends says of a step.
BestStep ==
    \A v \in Validators :
        store'[v].best # store[v].best /\ store[v].best # NoBlock => store[v].best \in Range(Chain[store'[v].best])
LEMMA NextExtends == OracleInv /\ [Next]_vars => BestStep
<1> SUFFICES ASSUME OracleInv, [Next]_vars PROVE BestStep
    OBVIOUS
<1>1. CASE FinalizeBlock
    <2>1. \A v \in Validators : Descends(store'[v].best, store[v].best)
        BY <1>1, BlockFacts DEF Executed
    <2> QED BY <2>1 DEF BestStep, Descends
<1>2. CASE store' = store
    BY <1>2 DEF BestStep
<1> QED BY <1>1, <1>2, OtherSteps

\* The best header is only ever replaced by a descendant (SetBlockHeaders).
THEOREM BestOnlyExtendsHolds == Spec => BestOnlyExtends
<1>1. OracleInv /\ [Next]_vars => [BestStep]_vars
    BY NextExtends
<1> QED BY <1>1, OracleInvHolds, PTL DEF Spec, BestOnlyExtends, BestStep

\* What PriceIsBracketed says of the stored prices in a step.
PriceStep ==
    \A v \in Validators : store'[v].price # store[v].price =>
        /\ PowerOf(PriceReporters) * 2 >= totalStake
        /\ \E a, b \in PriceReporters :
             commit[a].price <= store'[v].price /\ store'[v].price <= commit[b].price
LEMMA NextBrackets == OracleInv /\ [Next]_vars => PriceStep
<1> SUFFICES ASSUME OracleInv, [Next]_vars PROVE PriceStep
    OBVIOUS
<1>1. CASE FinalizeBlock
    <2>1. ASSUME NEW v \in Validators, store'[v].price # store[v].price
          PROVE  PowerOf(PriceReporters) * 2 >= totalStake /\ Bracketed(store'[v].price)
        <3>1. finalPrice > 0 /\ store'[v].price = finalPrice
            BY <1>1, <2>1, BlockFacts DEF Executed
        <3> QED BY <3>1, FinalPriceFacts DEF OracleInv
    <2> QED BY <2>1 DEF PriceStep, Bracketed
<1>2. CASE store' = store
    BY <1>2 DEF PriceStep
<1> QED BY <1>1, <1>2, OtherSteps

\* What it says of the reported ones.
ReportStep == \A v \in Fed : ReportIsFresh(v)
LEMMA NextReports == OracleInv /\ [Next]_vars => ReportStep
<1> SUFFICES ASSUME OracleInv, [Next]_vars, NEW v \in Fed, votes[v] = NoVote, votes'[v].price > 0
             PROVE  \E a, b \in FreshQuotes(feed[v]) : a <= votes'[v].price /\ votes'[v].price <= b
    BY DEF ReportStep, ReportIsFresh, FreshQuotes
<1>1. v \in Validators /\ Quoted(feed[v]) /\ ~(NoVote.price > 0)
    BY OracleAssumption DEF OracleInv, FeedsQuoted, NoVote
<1>2. CASE FinalizeBlock
    BY <1>1, <1>2 DEF FinalizeBlock
<1>3. CASE votes' = votes
    BY <1>1, <1>3
<1>4. CASE \E w \in Validators : ExtendVote(w)
    <2>1. PICK w \in Validators : ExtendVote(w)
        BY <1>4
    <2>2. PICK p \in getAllVolumeWeightedPrices(w), read \in Reads(w) :
             votes' = [votes EXCEPT ![w] = Extension(w, p, read)]
        BY <2>1 DEF ExtendVote
    <2>3. w = v
        BY <1>1, <2>2 DEF OracleInv, OracleTypes
    <2>4. votes'[v] = Extension(v, p, read)
        BY <1>1, <2>2, <2>3 DEF OracleInv, OracleTypes
    <2>5. votes'[v].price = p
        <3>1. ~(EmptyExtension.price > 0)
            BY DEF EmptyExtension
        <3> QED BY <2>4, <3>1 DEF Extension
    <2>6. p = AveragePrice(feed[v])
        BY <2>2, <2>3 DEF getAllVolumeWeightedPrices
    <2> QED BY <1>1, <2>5, <2>6, AverageFacts
<1> QED BY <1>2, <1>3, <1>4, OtherSteps

\* A price changes only to one between reported prices, which lie between quotes that are not stale
\* (extractPricesAndBlockHeaders, getAllVolumeWeightedPrices, GetPrices).
THEOREM PriceIsBracketedHolds == Spec => PriceIsBracketed
<1>1. OracleInv /\ [Next]_vars => [PriceStep /\ ReportStep]_vars
    BY NextBrackets, NextReports
<1> QED BY <1>1, OracleInvHolds, PTL DEF Spec, PriceIsBracketed, PriceStep, ReportStep

\* The stake of two disjoint sets of a commit is at most its own.
LEMMA PowerParts ==
    ASSUME NEW C \in SUBSET Validators, NEW A \in SUBSET C, NEW B \in SUBSET C, A \cap B = {}
    PROVE  PowerOf(A) \in Nat /\ PowerOf(B) \in Nat /\ PowerOf(C) \in Nat /\ PowerOf(A) + PowerOf(B) <= PowerOf(C)
<1> DEFINE U == A \cup B
           R == C \ U
           Sum(S) == SumFunctionOnSet(Power, S)
<1>1. \A S \in SUBSET Validators : IsFiniteSet(S) /\ PowerOf(S) = Sum(S) /\ Sum(S) \in Nat
    BY PowerFacts
<1>2. A \in SUBSET Validators /\ B \in SUBSET Validators /\ U \in SUBSET Validators /\ R \in SUBSET Validators
      /\ U \cap R = {} /\ U \cup R = C
    OBVIOUS
<1>3. \A v \in Validators : Power[v] \in Int
    BY OracleAssumption
<1>4. Sum(U) = Sum(A) + Sum(B)
    BY <1>1, <1>2, <1>3, SumUnion
<1> HIDE DEF U, R
<1>5. Sum(U \cup R) = Sum(U) + Sum(R)
    BY <1>1, <1>2, <1>3, SumUnion
<1>6. Sum(C) = Sum(U) + Sum(R)
    BY <1>2, <1>5
<1> HIDE DEF Sum
<1> QED BY <1>1, <1>2, <1>4, <1>6

\* Two lists that may be picked are one, unless the commit is tied.
LEMMA OneSelection ==
    ASSUME ~Tied, NEW a \in SelectedHeaders, NEW b \in SelectedHeaders
    PROVE  a = b
<1> DEFINE half == {list \in HeaderLists : PowerOf(ReportersOf(list)) * 2 >= totalStake}
<1>1. SelectedHeaders = IF half = {} THEN {<<>>} ELSE half
    BY DEF SelectedHeaders
<1>2. CASE half = {}
    BY <1>1, <1>2
<1>3. CASE half # {}
    <2> SUFFICES ASSUME a # b PROVE FALSE
        OBVIOUS
    <2> DEFINE A == ReportersOf(a)
               B == ReportersOf(b)
               C == InCommit
    <2>1. /\ PowerOf(A) * 2 >= PowerOf(C) /\ PowerOf(B) * 2 >= PowerOf(C)
          /\ a \in HeaderLists /\ b \in HeaderLists
        BY <1>1, <1>3 DEF totalStake
    <2>2. C \in SUBSET Validators /\ A \in SUBSET C /\ B \in SUBSET C /\ A \cap B = {}
        BY DEF InCommit, ReportersOf
    <2>3. PICK v \in C, w \in C : commit[v].blocks = a /\ commit[w].blocks = b
        BY <2>1 DEF HeaderLists
    <2> HIDE DEF A, B, C
    <2>5. PowerOf(A) \in Nat /\ PowerOf(B) \in Nat /\ PowerOf(C) \in Nat /\ PowerOf(A) + PowerOf(B) <= PowerOf(C)
        BY <2>2, PowerParts
    <2>6. PowerOf(A) * 2 = PowerOf(C) /\ PowerOf(B) * 2 = PowerOf(C)
        <3>1. \A x, y, z \in Nat : x * 2 >= z /\ y * 2 >= z /\ x + y <= z => x * 2 = z /\ y * 2 = z
            OBVIOUS
        <3> QED BY ONLY <2>1, <2>5, <3>1
    <2> QED BY <2>3, <2>6 DEF Tied, totalStake, A, B, C
<1> QED BY <1>2, <1>3

\* The price that a replica stores does not depend on the list it picks.
LEMMA PriceOfBlock ==
    ASSUME NEW s \in Replica, NEW list
    PROVE  PreBlocker(s, list).price = IF finalPrice > 0 THEN finalPrice ELSE s.price
BY DEF PreBlocker, SetBlockHeaders, Replica

\* Replicas with the same prices, in states of the right types.
SamePrices == \A v, w \in Validators : store[v].price = store[w].price
AgreeInv == OracleTypes /\ SamePrices

\* What ReplicasAgree says of a step.
AgreeStep ==
    \A v, w \in Validators : store'[v] # store'[w] =>
        store'[v].price = store'[w].price /\ (store[v] = store[w] => Tied)
LEMMA NextAgrees == AgreeInv /\ [Next]_vars => AgreeStep /\ SamePrices'
<1> SUFFICES ASSUME AgreeInv, [Next]_vars PROVE AgreeStep /\ SamePrices'
    OBVIOUS
<1>1. CASE store' = store
    BY <1>1 DEF AgreeInv, SamePrices, AgreeStep
<1>2. CASE FinalizeBlock /\ store' # store
    <2>1. PICK pick \in [Validators -> SelectedHeaders] : store' = [v \in Validators |-> PreBlocker(store[v], pick[v])]
        BY <1>2 DEF FinalizeBlock
    <2>2. ASSUME NEW v \in Validators, NEW w \in Validators
          PROVE  store'[v].price = store'[w].price /\ (~Tied => store'[v] = store'[w])
        <3>1. store[v] = store[w] /\ store[v] \in Replica
            BY <1>2 DEF FinalizeBlock, AgreeInv, OracleTypes
        <3>2. store'[v] = PreBlocker(store[v], pick[v]) /\ store'[w] = PreBlocker(store[v], pick[w])
            BY <2>1, <3>1
        <3>3. store'[v].price = store'[w].price
            BY <3>1, <3>2, PriceOfBlock
        <3>4. ~Tied => pick[v] = pick[w]
            BY OneSelection
        <3> QED BY <3>2, <3>3, <3>4
    <2> QED BY <2>2 DEF AgreeStep, SamePrices
<1> QED BY <1>1, <1>2, OtherSteps

\* Replicas never differ in a price, and come to differ in their headers only by a tie (the loop
\* over the map of header lists in extractPricesAndBlockHeaders stops at the first list with half
\* of the stake).
THEOREM ReplicasAgreeHolds == Spec => ReplicasAgree
<1>1. Init => SamePrices
    BY DEF Init, SamePrices
<1>2. OracleInv => OracleTypes
    BY DEF OracleInv
<1>3. OracleTypes /\ SamePrices /\ [Next]_vars => AgreeStep /\ SamePrices'
    BY NextAgrees DEF AgreeInv
<1> QED BY <1>1, <1>2, <1>3, OracleInvHolds, PTL DEF Spec, ReplicasAgree, AgreeStep

-----------------------------------------------------------------------------
(* Farming. *)

\* SumFunction is a sum over a domain.
LEMMA SameSums == \A f : SumFunction(f) = SumFunctionOnSet(f, DOMAIN f)
BY DEF SumFunction

\* The stakings, the live amounts among them, and their sums.
StakingRecord == [status : Live \cup {"NONE", "UNSTAKED"}, staker : Staker, denom : Denom,
                  amount : Nat, effective : Nat, start : Nat, lock : Nat, pending : Nat, rewards : Nat]
Stakings == [StakingId -> StakingRecord]

\* What the staking s counts for in the totals of denom d.
Counts(s, d) == s.status \in Live /\ s.denom = d
AmountOf(s, d) == IF Counts(s, d) THEN s.amount ELSE 0
EffectiveOf(s, d) == IF Counts(s, d) THEN s.effective ELSE 0
AmountIn(st, d) == [i \in StakingId |-> AmountOf(st[i], d)]
EffectiveIn(st, d) == [i \in StakingId |-> EffectiveOf(st[i], d)]
SumOfStakings(f) == SumFunctionOnSet(f, StakingId)

\* The books, as sums over all stakings.
TotalsOf(st, tot) ==
    \A d \in Denom : tot[d].amount = SumOfStakings(AmountIn(st, d)) /\ tot[d].effective = SumOfStakings(EffectiveIn(st, d))
Held(st, bal, gr, cl) ==
    \A d \in Denom :
        bal[d] = SumOfStakings(AmountIn(st, d)) + IF d = RewardDenom THEN gr - SumOfStakings(cl) ELSE 0

\* A staking that is not in store has never had rewards, the others count for something, and one
\* that was undone had reached the end of its lock.
StakingsInv ==
    \A i \in StakingId :
        /\ staking[i].status = "NONE" => staking[i].pending = 0 /\ staking[i].rewards = 0
        /\ staking[i].status # "NONE" => staking[i].effective > 0
        /\ staking[i].status = "UNSTAKED" => now >= LockEnd(staking[i])

\* The queue holds stakings that are locked until the end of the epoch, and the totals of the
\* epoch are theirs.
EpochInv ==
    /\ ~EpochIsOpen => queue = {}
    /\ EpochIsOpen => epoch.total = EpochTotalStakings(queue)
    /\ \A i \in queue : staking[i].status # "NONE" /\ LockEnd(staking[i]) >= epoch.end

\* The inductive invariant of Farming.
FarmingInv ==
    /\ FarmingTypeOK /\ TotalsOf(staking, total) /\ Held(staking, balance, granted, claimed)
    /\ RewardsAreKept /\ StakingsInv /\ EpochInv

\* Stakings are finitely many, with the fields of their type.
LEMMA StakingFacts ==
    /\ IsFiniteSet(StakingId)
    /\ \A st \in Stakings, i \in StakingId :
        /\ st[i] \in StakingRecord /\ st[i].denom \in Denom
        /\ st[i].amount \in Nat /\ st[i].effective \in Nat /\ st[i].start \in Nat /\ st[i].lock \in Nat
        /\ st[i].pending \in Nat /\ st[i].rewards \in Nat
<1>1. IsFiniteSet(StakingId)
    <2>1. MaxStaking \in Nat
        BY FarmingAssumption
    <2> QED BY <2>1, FS_Interval DEF StakingId
<1> QED BY <1>1 DEF Stakings, StakingRecord

\* The sums over the stakings of a denom are those of the invariant.
LEMMA StakedSums ==
    ASSUME NEW st \in Stakings, NEW d,
           NEW S, S = {i \in StakingId : st[i].status \in Live /\ st[i].denom = d}
    PROVE  /\ SumFunction([i \in S |-> st[i].amount]) = SumOfStakings(AmountIn(st, d))
           /\ SumFunction([i \in S |-> st[i].effective]) = SumOfStakings(EffectiveIn(st, d))
<1>1. IsFiniteSet(StakingId) /\ S \in SUBSET StakingId
    BY StakingFacts
<1>2. \A i \in StakingId : st[i].amount \in Nat /\ st[i].effective \in Nat
    BY StakingFacts
<1> DEFINE f == [i \in S |-> st[i].amount]
           h == [i \in S |-> st[i].effective]
           J == StakingId
<1>3. DOMAIN f = S /\ DOMAIN h = S
    OBVIOUS
<1>4. /\ \A i \in S : AmountIn(st, d)[i] = f[i] /\ f[i] \in Int
      /\ \A i \in J \ S : AmountIn(st, d)[i] = 0
    BY <1>1, <1>2 DEF AmountIn, AmountOf, Counts
<1>5. /\ \A i \in S : EffectiveIn(st, d)[i] = h[i] /\ h[i] \in Int
      /\ \A i \in J \ S : EffectiveIn(st, d)[i] = 0
    BY <1>1, <1>2 DEF EffectiveIn, EffectiveOf, Counts
<1> HIDE DEF f, h, J
<1>6. SumFunctionOnSet(AmountIn(st, d), J) = SumFunctionOnSet(f, S)
    BY <1>1, <1>4, SumPart DEF J
<1>7. SumFunctionOnSet(EffectiveIn(st, d), J) = SumFunctionOnSet(h, S)
    BY <1>1, <1>5, SumPart DEF J
<1>8. SumFunction(f) = SumFunctionOnSet(f, S) /\ SumFunction(h) = SumFunctionOnSet(h, S)
    BY <1>3, SameSums
<1> QED BY <1>6, <1>7, <1>8 DEF f, h, J, SumOfStakings

\* The invariant gives the books of the specification.
LEMMA BooksFollow == FarmingInv => BooksBalance
<1> SUFFICES ASSUME FarmingInv PROVE BooksBalance
    OBVIOUS
<1>1. FarmingTypeOK /\ TotalsOf(staking, total) /\ Held(staking, balance, granted, claimed)
    BY DEF FarmingInv
<1>2. staking \in Stakings /\ claimed \in [StakingId -> Nat]
    BY <1>1 DEF FarmingTypeOK, Stakings, StakingRecord
<1>3. \A d : /\ SumFunction([i \in StakedOf(d) |-> staking[i].amount]) = SumOfStakings(AmountIn(staking, d))
             /\ SumFunction([i \in StakedOf(d) |-> staking[i].effective]) = SumOfStakings(EffectiveIn(staking, d))
    BY <1>1, <1>2, StakedSums DEF StakedOf
<1>4. SumFunction(claimed) = SumOfStakings(claimed)
    BY <1>2, SameSums DEF SumOfStakings
<1>5. TotalStakingIsExact
    BY <1>1, <1>3 DEF TotalsOf, TotalStakingIsExact
<1>6. BalanceIsAccounted
    BY <1>1, <1>3, <1>4 DEF Held, BalanceIsAccounted
<1> QED BY <1>1, <1>5, <1>6 DEF BooksBalance, FarmingInv

\* A staking that takes part in an epoch is not undone before its end.
LEMMA LockFollows == FarmingInv => QueuedIsLocked
<1> SUFFICES ASSUME FarmingInv, NEW i \in queue PROVE staking[i].status \in Live \/ now >= epoch.end
    BY DEF QueuedIsLocked
<1>1. i \in StakingId /\ staking \in Stakings /\ now \in Nat /\ epoch.end \in Nat
    BY DEF FarmingInv, FarmingTypeOK, Stakings, StakingRecord
<1>2. staking[i].status \in Live \cup {"NONE", "UNSTAKED"} /\ staking[i].status # "NONE"
      /\ LockEnd(staking[i]) >= epoch.end
    BY <1>1 DEF FarmingInv, EpochInv, Stakings, StakingRecord
<1>3. staking[i].status = "UNSTAKED" => now >= LockEnd(staking[i])
    BY <1>1 DEF FarmingInv, StakingsInv
<1>4. LockEnd(staking[i]) \in Nat
    BY <1>1, StakingFacts DEF LockEnd, FarmingInv
<1> QED BY <1>1, <1>2, <1>3, <1>4

\* The amounts of all stakings, when one of them becomes s.
Replaced(st, st2, i, s, d) ==
    /\ SumOfStakings(AmountIn(st, d)) \in Int /\ SumOfStakings(EffectiveIn(st, d)) \in Int
    /\ SumOfStakings(AmountIn(st2, d)) = SumOfStakings(AmountIn(st, d)) - AmountOf(st[i], d) + AmountOf(s, d)
    /\ SumOfStakings(EffectiveIn(st2, d))
         = SumOfStakings(EffectiveIn(st, d)) - EffectiveOf(st[i], d) + EffectiveOf(s, d)
LEMMA OneStaking ==
    ASSUME NEW st \in Stakings, NEW i \in StakingId, NEW s \in StakingRecord,
           NEW st2, st2 = [st EXCEPT ![i] = s]
    PROVE  st2 \in Stakings /\ \A d : Replaced(st, st2, i, s, d)
<1> SUFFICES ASSUME NEW d PROVE st2 \in Stakings /\ Replaced(st, st2, i, s, d)
    OBVIOUS
<1> DEFINE J == StakingId
           f == AmountIn(st, d)
           g == AmountIn(st2, d)
           p == EffectiveIn(st, d)
           q == EffectiveIn(st2, d)
<1>1. st2 \in Stakings /\ st2[i] = s /\ \A j \in J \ {i} : st2[j] = st[j]
    BY DEF Stakings
<1>2. IsFiniteSet(J) /\ DOMAIN f = J /\ DOMAIN g = J /\ DOMAIN p = J /\ DOMAIN q = J
    BY StakingFacts DEF AmountIn, EffectiveIn
<1>3. \A j \in J : f[j] \in Int /\ g[j] \in Int /\ p[j] \in Int /\ q[j] \in Int
    <2> TAKE j \in J
    <2>1. /\ st[j].amount \in Nat /\ st[j].effective \in Nat
          /\ st2[j].amount \in Nat /\ st2[j].effective \in Nat
        BY <1>1, StakingFacts
    <2>2. /\ f[j] = AmountOf(st[j], d)
          /\ g[j] = AmountOf(st2[j], d)
          /\ p[j] = EffectiveOf(st[j], d)
          /\ q[j] = EffectiveOf(st2[j], d)
        BY DEF AmountIn, EffectiveIn
    <2> HIDE DEF f, g, p, q
    <2> QED BY <2>1, <2>2 DEF AmountOf, EffectiveOf
<1>4. \A j \in J \ {i} : g[j] = f[j] /\ q[j] = p[j]
    BY <1>1 DEF AmountIn, EffectiveIn
<1>5. /\ f[i] = AmountOf(st[i], d) /\ g[i] = AmountOf(s, d)
      /\ p[i] = EffectiveOf(st[i], d)
      /\ q[i] = EffectiveOf(s, d)
    BY <1>1 DEF AmountIn, EffectiveIn
<1>6. i \in J
    OBVIOUS
<1> HIDE DEF J, f, g, p, q
<1>7. SumFunction(f) \in Int /\ SumFunction(g) = SumFunction(f) - f[i] + g[i]
    BY <1>2, <1>3, <1>4, <1>6, SumUpdate
<1>8. SumFunction(p) \in Int /\ SumFunction(q) = SumFunction(p) - p[i] + q[i]
    BY <1>2, <1>3, <1>4, <1>6, SumUpdate
<1>9. /\ SumFunction(f) = SumFunctionOnSet(f, J) /\ SumFunction(g) = SumFunctionOnSet(g, J)
      /\ SumFunction(p) = SumFunctionOnSet(p, J) /\ SumFunction(q) = SumFunctionOnSet(q, J)
    BY <1>2 DEF SumFunction
<1> DEFINE a == SumFunctionOnSet(f, J)
           b == SumFunctionOnSet(g, J)
           c == SumFunctionOnSet(p, J)
           e == SumFunctionOnSet(q, J)
<1>10. a \in Int /\ b = a - f[i] + g[i] /\ c \in Int /\ e = c - p[i] + q[i]
    BY <1>7, <1>8, <1>9
<1>11. /\ a \in Int /\ b = a - AmountOf(st[i], d) + AmountOf(s, d)
       /\ c \in Int /\ e = c - EffectiveOf(st[i], d) + EffectiveOf(s, d)
    <2> HIDE DEF a, b, c, e
    <2> QED BY <1>5, <1>10
<1> QED BY <1>1, <1>11 DEF Replaced, SumOfStakings, J, f, g, p, q

\* Steps that move no stake: the stakings keep what they count for.
SameStakes(st, st2) ==
    \A i \in StakingId :
        /\ st2[i].denom = st[i].denom /\ st2[i].amount = st[i].amount /\ st2[i].effective = st[i].effective
        /\ st2[i].start = st[i].start /\ st2[i].lock = st[i].lock
        /\ st2[i].status \in Live <=> st[i].status \in Live
        /\ st2[i].status = "NONE" <=> st[i].status = "NONE"
        /\ st2[i].status = "UNSTAKED" <=> st[i].status = "UNSTAKED"

\* Stakings with the same amounts have the same sums.
LEMMA SameStakesSums ==
    ASSUME NEW st, NEW st2, SameStakes(st, st2), NEW d
    PROVE  AmountIn(st2, d) = AmountIn(st, d) /\ EffectiveIn(st2, d) = EffectiveIn(st, d)
BY DEF SameStakes, AmountIn, EffectiveIn, AmountOf, EffectiveOf, Counts

\* The totals of a queue follow from the stakes in it.
LEMMA SameStakesTotals ==
    ASSUME SameStakes(staking, staking'), NEW Q \in SUBSET StakingId
    PROVE  EpochTotalStakings(Q)' = EpochTotalStakings(Q)
<1>1. ASSUME NEW d
      PROVE  [i \in {j \in Q : staking'[j].denom = d} |-> staking'[i].effective]
             = [i \in {j \in Q : staking[j].denom = d} |-> staking[i].effective]
    <2>1. {j \in Q : staking'[j].denom = d} = {j \in Q : staking[j].denom = d}
        BY DEF SameStakes
    <2>2. \A i \in Q : staking'[i].effective = staking[i].effective
        BY DEF SameStakes
    <2> QED BY <2>1, <2>2
<1> QED BY <1>1 DEF EpochTotalStakings

\* Initially the books are empty.
LEMMA FarmingStarts == FarmingInit => FarmingInv
<1> SUFFICES ASSUME FarmingInit PROVE FarmingInv
    OBVIOUS
<1>0. (CHOOSE s \in Staker : TRUE) \in Staker /\ RewardDenom \in Denom /\ params \in Params
    BY FarmingAssumption DEF FarmingInit
<1>1. staking \in Stakings /\ claimed \in [StakingId -> Nat] /\ \A i \in StakingId : staking[i] = NoStaking
    BY <1>0 DEF FarmingInit, NoStaking, Stakings, StakingRecord
<1>2. FarmingTypeOK
    BY <1>0, <1>1 DEF FarmingInit, FarmingTypeOK, Stakings, StakingRecord
<1>3. \A d : SumOfStakings(AmountIn(staking, d)) = 0 /\ SumOfStakings(EffectiveIn(staking, d)) = 0
    <2> TAKE d
    <2>1. \A i \in StakingId : AmountIn(staking, d)[i] = 0 /\ EffectiveIn(staking, d)[i] = 0
        <3>1. \A i \in StakingId : ~Counts(staking[i], d)
            <4>1. \A i \in StakingId : staking[i].status = "NONE"
                <5>1. NoStaking.status = "NONE"
                    BY DEF NoStaking
                <5> QED BY <1>1, <5>1
            <4> QED BY <4>1 DEF Counts, Live
        <3> QED BY <3>1 DEF AmountIn, EffectiveIn, AmountOf, EffectiveOf
    <2>2. IsFiniteSet(StakingId)
        BY StakingFacts
    <2> QED BY <2>1, <2>2, SumZero DEF SumOfStakings
<1>4. SumOfStakings(claimed) = 0
    <2>1. \A i \in StakingId : claimed[i] = 0
        BY DEF FarmingInit
    <2>2. IsFiniteSet(StakingId)
        BY StakingFacts
    <2> QED BY <2>1, <2>2, SumZero DEF SumOfStakings
<1>5. TotalsOf(staking, total) /\ Held(staking, balance, granted, claimed)
    BY <1>3, <1>4 DEF TotalsOf, Held, FarmingInit
<1>6. RewardsAreKept /\ StakingsInv /\ EpochInv
    BY <1>1 DEF RewardsAreKept, StakingsInv, EpochInv, NoStaking, FarmingInit, EpochIsOpen
<1> QED BY <1>2, <1>5, <1>6 DEF FarmingInv

\* The effective amount is a natural number and not less than the amount (GetEffectiveAmount).
LEMMA EffectiveType ==
    ASSUME NEW amount \in Nat \ {0}, NEW lock \in Nat
    PROVE  EffectiveAmount(amount, lock) \in Nat /\ EffectiveAmount(amount, lock) > 0
<1> DEFINE days == lock * DaysPerTick
           n == days * Unit
           k == (n \div 365) * 5
           h == HalfToEven(k)
           m == Unit + h
<1>1. Unit \in Nat \ {0} /\ DaysPerTick \in Nat
    BY FarmingAssumption
<1>2. days \in Nat
    BY <1>1, Products
<1>3. n \in Nat
    <2> HIDE DEF days
    <2> QED BY <1>1, <1>2, Products
<1>4. k \in Nat
    <2> HIDE DEF n
    <2>1. n \div 365 \in Nat
        BY <1>3, Quotients
    <2> QED BY <2>1
<1>5. h \in Nat
    <2> HIDE DEF k
    <2>1. k \div 2 \in Nat
        BY <1>4, Quotients
    <2> QED BY <2>1 DEF HalfToEven
<1>6. EffectiveAmount(amount, lock) = (amount * m) \div Unit
    BY DEF EffectiveAmount, LockMultiplier
<1> HIDE DEF h
<1>7. m \in Nat /\ m >= Unit
    BY <1>1, <1>5
<1> HIDE DEF m
<1> DEFINE x == amount * m
<1>8. x \in Nat /\ x >= Unit
    <2>1. (amount - 1) * m \in Nat
        BY <1>7, Products
    <2>2. x = (amount - 1) * m + m
        BY <1>7
    <2> QED BY <1>1, <1>7, <2>1, <2>2
<1> HIDE DEF x
<1> DEFINE q == x \div Unit
<1>9. q \in Nat /\ x % Unit \in Nat /\ x % Unit < Unit /\ x = Unit * q + (x % Unit)
    BY <1>1, <1>8, Quotients
<1>10. q > 0
    <2> SUFFICES ASSUME q = 0 PROVE FALSE
        BY <1>9
    <2>1. Unit * q = 0
        BY <1>1
    <2> HIDE DEF q
    <2> QED BY <1>1, <1>8, <1>9, <2>1
<1> QED BY <1>6, <1>9, <1>10 DEF x

\* What the invariant says of the types.
LEMMA FarmingTypes ==
    ASSUME FarmingInv
    PROVE  /\ FarmingTypeOK /\ staking \in Stakings /\ claimed \in [StakingId -> Nat]
           /\ now \in Nat /\ params \in Params /\ total \in [Denom -> [amount : Nat, effective : Nat]]
           /\ epoch \in [status : {"NONE", "STARTED", "ENDED"}, end : Nat, total : [Denom -> Nat]]
           /\ queue \subseteq StakingId /\ balance \in [Denom -> Nat] /\ granted \in Nat
           /\ RewardDenom \in Denom
BY FarmingAssumption DEF FarmingInv, FarmingTypeOK, Stakings, StakingRecord

\* The totals of natural amounts are natural.
LEMMA TotalsType ==
    ASSUME NEW st \in Stakings, NEW d
    PROVE  SumOfStakings(AmountIn(st, d)) \in Nat /\ SumOfStakings(EffectiveIn(st, d)) \in Nat
<1>1. IsFiniteSet(StakingId) /\ \A i \in StakingId : st[i].amount \in Nat /\ st[i].effective \in Nat
    BY StakingFacts
<1>2. \A i \in StakingId : AmountIn(st, d)[i] \in Nat /\ EffectiveIn(st, d)[i] \in Nat
    BY <1>1 DEF AmountIn, EffectiveIn, AmountOf, EffectiveOf
<1> QED BY <1>1, <1>2, SumType DEF SumOfStakings

\* MsgStake keeps the invariant.
LEMMA StakeStep ==
    ASSUME FarmingInv, NEW i \in StakingId, NEW a \in Staker, NEW d \in Denom, NEW amount \in Amount,
           NEW p \in Params, NEW lock \in p.locks, Stake(i, a, d, amount, lock)
    PROVE  FarmingInv'
<1> DEFINE s == [status |-> "STAKED", staker |-> a, denom |-> d, amount |-> amount,
                 effective |-> EffectiveAmount(amount, lock), start |-> now, lock |-> lock,
                 pending |-> 0, rewards |-> 0]
<1>1. /\ staking[i].status = "NONE" /\ staking' = [staking EXCEPT ![i] = s]
      /\ total' = [total EXCEPT ![d] = [amount |-> total[d].amount + s.amount,
                                        effective |-> total[d].effective + s.effective]]
      /\ balance' = [balance EXCEPT ![d] = balance[d] + amount]
      /\ UNCHANGED <<now, params, epoch, queue, claimed, granted>>
    BY DEF Stake, IsNextStaking, IncreaseTotalStaking
<1>2. amount \in Nat \ {0} /\ lock \in Nat
    BY FarmingTypes, FarmingAssumption
<1>3. s.effective \in Nat /\ s.effective > 0
    BY <1>2, FarmingTypes, EffectiveType
<1>4. s \in StakingRecord
    BY <1>2, <1>3, FarmingTypes DEF StakingRecord, Live
<1>5. /\ s.denom = d /\ s.amount = amount /\ s.start = now /\ s.lock = lock /\ s.pending = 0 /\ s.rewards = 0
      /\ s.status = "STAKED" /\ (\A c : Counts(s, c) <=> c = d) /\ \A c : ~Counts(staking[i], c)
    BY <1>1 DEF Counts, Live
<1> HIDE DEF s
<1>6. staking' \in Stakings
    BY <1>1, <1>4, FarmingTypes, OneStaking
<1>7. \A c : /\ SumOfStakings(AmountIn(staking', c)) = SumOfStakings(AmountIn(staking, c)) + IF c = d THEN amount ELSE 0
             /\ SumOfStakings(EffectiveIn(staking', c)) = SumOfStakings(EffectiveIn(staking, c)) + IF c = d THEN s.effective ELSE 0
    <2> TAKE c
    <2> DEFINE u == SumOfStakings(AmountIn(staking, c))
               v == SumOfStakings(EffectiveIn(staking, c))
    <2>1. /\ u \in Int /\ v \in Int
          /\ SumOfStakings(AmountIn(staking', c)) = u - 0 + IF c = d THEN amount ELSE 0
          /\ SumOfStakings(EffectiveIn(staking', c)) = v - 0 + IF c = d THEN s.effective ELSE 0
        <3>1. /\ u \in Int /\ v \in Int
              /\ SumOfStakings(AmountIn(staking', c)) = u
                   - AmountOf(staking[i], c) + AmountOf(s, c)
              /\ SumOfStakings(EffectiveIn(staking', c)) = v
                   - EffectiveOf(staking[i], c) + EffectiveOf(s, c)
            <4>1. staking \in Stakings /\ staking' = [staking EXCEPT ![i] = s]
                BY <1>1, FarmingTypes
            <4>2. Replaced(staking, staking', i, s, c)
                BY <1>4, <4>1, OneStaking
            <4> QED BY <4>2 DEF Replaced
        <3> HIDE DEF u, v
        <3> QED BY <1>5, <3>1 DEF AmountOf, EffectiveOf
    <2> HIDE DEF u, v
    <2>2. u - 0 = u /\ v - 0 = v
        BY <2>1
    <2> QED BY <2>1, <2>2 DEF u, v
<1>8. TotalsOf(staking', total')
    <2> SUFFICES ASSUME NEW c \in Denom
                 PROVE  total'[c].amount = SumOfStakings(AmountIn(staking', c))
                        /\ total'[c].effective = SumOfStakings(EffectiveIn(staking', c))
        BY DEF TotalsOf
    <2>1. total[c].amount = SumOfStakings(AmountIn(staking, c)) /\ total[c].effective = SumOfStakings(EffectiveIn(staking, c))
          /\ total[c].amount \in Nat /\ total[c].effective \in Nat
        BY FarmingTypes DEF FarmingInv, TotalsOf
    <2>2. CASE c = d
        <3>1. total'[c].amount = total[c].amount + amount /\ total'[c].effective = total[c].effective + s.effective
            BY <1>1, <1>5, <2>2, FarmingTypes
        <3> QED BY <1>7, <2>1, <2>2, <3>1
    <2>3. CASE c # d
        <3>1. total'[c] = total[c]
            BY <1>1, <2>3, FarmingTypes
        <3> QED BY <1>7, <2>1, <2>3, <3>1
    <2> QED BY <2>2, <2>3
<1>9. Held(staking', balance', granted', claimed')
    <2> SUFFICES ASSUME NEW c \in Denom
                 PROVE  balance'[c] = SumOfStakings(AmountIn(staking', c))
                            + IF c = RewardDenom THEN granted - SumOfStakings(claimed) ELSE 0
        BY <1>1 DEF Held
    <2> DEFINE u == SumOfStakings(AmountIn(staking, c))
               w == IF c = RewardDenom THEN granted - SumOfStakings(claimed) ELSE 0
               b == balance[c]
    <2>1. b = u + w /\ b \in Nat
        BY FarmingTypes DEF FarmingInv, Held
    <2>2. u \in Nat /\ w \in Int
        <3>1. SumOfStakings(claimed) \in Nat
            BY FarmingTypes, StakingFacts, SumType DEF SumOfStakings
        <3> QED BY <3>1, FarmingTypes, TotalsType
    <2>3. balance'[c] = IF c = d THEN b + amount ELSE b
        BY <1>1, FarmingTypes
    <2>4. SumOfStakings(AmountIn(staking', c)) = u + IF c = d THEN amount ELSE 0
        BY <1>7
    <2> HIDE DEF u, w, b
    <2>5. balance'[c] = SumOfStakings(AmountIn(staking', c)) + w
        BY <1>2, <2>1, <2>2, <2>3, <2>4
    <2> QED BY <2>5 DEF w
<1>10. FarmingTypeOK'
    <2>1. total' \in [Denom -> [amount : Nat, effective : Nat]]
        <3>1. total[d].amount + s.amount \in Nat /\ total[d].effective + s.effective \in Nat
            BY <1>2, <1>3, <1>5, FarmingTypes
        <3> QED BY <1>1, <3>1, FarmingTypes
    <2>2. balance' \in [Denom -> Nat]
        <3>1. balance[d] + amount \in Nat
            BY <1>2, FarmingTypes
        <3> QED BY <1>1, <3>1, FarmingTypes
    <2> QED BY <1>1, <1>6, <2>1, <2>2, FarmingTypes DEF FarmingTypeOK, Stakings, StakingRecord
<1>11. RewardsAreKept' /\ StakingsInv'
    <2> SUFFICES ASSUME NEW j \in StakingId
                 PROVE  /\ staking'[j].pending + claimed'[j] = staking'[j].rewards
                        /\ staking'[j].status = "NONE" => staking'[j].pending = 0 /\ staking'[j].rewards = 0
                        /\ staking'[j].status # "NONE" => staking'[j].effective > 0
                        /\ staking'[j].status = "UNSTAKED" => now' >= LockEnd(staking'[j])
        BY DEF RewardsAreKept, StakingsInv, LockEnd
    <2>1. /\ staking[j].pending + claimed[j] = staking[j].rewards
          /\ staking[j].status = "NONE" => staking[j].pending = 0 /\ staking[j].rewards = 0
          /\ staking[j].status # "NONE" => staking[j].effective > 0
          /\ staking[j].status = "UNSTAKED" => now >= LockEnd(staking[j])
          /\ claimed[j] \in Nat
        BY FarmingTypes DEF FarmingInv, RewardsAreKept, StakingsInv
    <2>2. CASE j = i
        <3>1. staking'[j] = s
            BY <1>1, <2>2, FarmingTypes DEF Stakings
        <3>2. claimed[j] = 0
            BY <1>1, <2>1, <2>2
        <3> QED BY <1>1, <1>3, <1>5, <3>1, <3>2
    <2>3. CASE j # i
        <3>1. staking'[j] = staking[j]
            BY <1>1, <2>3, FarmingTypes DEF Stakings
        <3> QED BY <1>1, <2>1, <3>1
    <2> QED BY <2>2, <2>3
<1>12. EpochInv'
    <2>1. \A j \in queue : j # i /\ j \in StakingId /\ staking'[j] = staking[j]
        BY <1>1, FarmingTypes DEF FarmingInv, EpochInv, Stakings
    <2>2. EpochTotalStakings(queue)' = EpochTotalStakings(queue)
        <3>1. ASSUME NEW c
              PROVE  [k \in {j \in queue : staking'[j].denom = c} |-> staking'[k].effective]
                     = [k \in {j \in queue : staking[j].denom = c} |-> staking[k].effective]
            <4>1. {j \in queue : staking'[j].denom = c} = {j \in queue : staking[j].denom = c}
                BY <2>1
            <4> QED BY <2>1, <4>1
        <3> QED BY <1>1, <3>1 DEF EpochTotalStakings
    <2> QED BY <1>1, <2>1, <2>2 DEF FarmingInv, EpochInv, EpochIsOpen, LockEnd
<1> QED BY <1>8, <1>9, <1>10, <1>11, <1>12, FarmingTypes DEF FarmingInv

\* MsgUnstake keeps the invariant.
LEMMA UnstakeStep == ASSUME FarmingInv, NEW i \in StakingId, Unstake(i) PROVE FarmingInv'
<1> DEFINE s == [staking[i] EXCEPT !.status = "UNSTAKED", !.pending = 0]
           m == staking[i].amount
           e == staking[i].effective
           k == staking[i].pending
           d == staking[i].denom
           paid == Pay(Pay(balance, d, m), RewardDenom, k)
<1>1. /\ staking[i].status \in Live /\ now >= LockEnd(staking[i])
      /\ paid[d] >= 0 /\ paid[RewardDenom] >= 0 /\ balance' = paid
      /\ staking' = [staking EXCEPT ![i] = s]
      /\ claimed' = [claimed EXCEPT ![i] = claimed[i] + k]
      /\ total' = [total EXCEPT ![d] = [amount |-> total[d].amount - m, effective |-> total[d].effective - e]]
      /\ UNCHANGED <<now, params, epoch, queue, granted>>
    BY FarmingTypes DEF Unstake, DecreaseTotalStaking, Live, Stakings
<1>2. m \in Nat /\ e \in Nat /\ k \in Nat /\ d \in Denom /\ staking[i] \in StakingRecord
    BY FarmingTypes, StakingFacts
<1>3. s \in StakingRecord
    BY <1>2 DEF StakingRecord
<1>4. /\ s.denom = d /\ s.amount = m /\ s.effective = e /\ s.start = staking[i].start /\ s.lock = staking[i].lock
      /\ s.pending = 0 /\ s.rewards = staking[i].rewards /\ s.status = "UNSTAKED" /\ \A c : ~Counts(s, c)
    BY <1>2 DEF Counts, Live, StakingRecord
<1>5. \A c : Counts(staking[i], c) <=> c = d
    BY <1>1 DEF Counts
<1> HIDE DEF s
<1>6. staking' \in Stakings /\ \A c : Replaced(staking, staking', i, s, c)
    BY <1>1, <1>3, FarmingTypes, OneStaking
<1>7. \A c : /\ SumOfStakings(AmountIn(staking', c)) = SumOfStakings(AmountIn(staking, c)) - IF c = d THEN m ELSE 0
             /\ SumOfStakings(EffectiveIn(staking', c)) = SumOfStakings(EffectiveIn(staking, c)) - IF c = d THEN e ELSE 0
    <2> TAKE c
    <2> DEFINE u == SumOfStakings(AmountIn(staking, c))
               v == SumOfStakings(EffectiveIn(staking, c))
    <2>1. /\ u \in Int /\ v \in Int
          /\ SumOfStakings(AmountIn(staking', c)) = u - AmountOf(staking[i], c) + AmountOf(s, c)
          /\ SumOfStakings(EffectiveIn(staking', c)) = v - EffectiveOf(staking[i], c) + EffectiveOf(s, c)
        BY <1>6 DEF Replaced
    <2>2. /\ AmountOf(staking[i], c) = (IF c = d THEN m ELSE 0) /\ AmountOf(s, c) = 0
          /\ EffectiveOf(staking[i], c) = (IF c = d THEN e ELSE 0) /\ EffectiveOf(s, c) = 0
        BY <1>4, <1>5 DEF AmountOf, EffectiveOf
    <2> HIDE DEF u, v, m, e, d
    <2>3. /\ SumOfStakings(AmountIn(staking', c)) = u - IF c = d THEN m ELSE 0
          /\ SumOfStakings(EffectiveIn(staking', c)) = v - IF c = d THEN e ELSE 0
        BY <1>2, <2>1, <2>2
    <2> QED BY <2>3 DEF u, v
<1>8. TotalsOf(staking', total')
    <2> SUFFICES ASSUME NEW c \in Denom
                 PROVE  total'[c].amount = SumOfStakings(AmountIn(staking', c))
                        /\ total'[c].effective = SumOfStakings(EffectiveIn(staking', c))
        BY DEF TotalsOf
    <2>1. total[c].amount = SumOfStakings(AmountIn(staking, c)) /\ total[c].effective = SumOfStakings(EffectiveIn(staking, c))
          /\ total[c].amount \in Nat /\ total[c].effective \in Nat
        BY FarmingTypes DEF FarmingInv, TotalsOf
    <2> HIDE DEF m, e, d
    <2>2. CASE c = d
        <3>1. total'[c].amount = total[c].amount - m /\ total'[c].effective = total[c].effective - e
            BY <1>1, <2>2, FarmingTypes
        <3> QED BY <1>7, <2>1, <2>2, <3>1
    <2>3. CASE c # d
        <3>1. total'[c] = total[c]
            BY <1>1, <2>3, FarmingTypes
        <3> QED BY <1>7, <2>1, <2>3, <3>1
    <2> QED BY <2>2, <2>3
<1>9. \A c \in Denom : balance'[c] = balance[c] - (IF c = d THEN m ELSE 0) - (IF c = RewardDenom THEN k ELSE 0)
    <2> HIDE DEF m, k, d
    <2> TAKE c \in Denom
    <2>1. balance \in [Denom -> Nat] /\ RewardDenom \in Denom
        BY FarmingTypes
    <2> QED BY <1>1, <1>2, <2>1 DEF Pay
<1>10. SumOfStakings(claimed) \in Nat /\ SumOfStakings(claimed') = SumOfStakings(claimed) + k
    <2>1. claimed' \in [StakingId -> Nat] /\ claimed \in [StakingId -> Nat] /\ claimed'[i] = claimed[i] + k
          /\ \A j \in StakingId \ {i} : claimed'[j] = claimed[j]
        <3> HIDE DEF k
        <3> QED BY <1>1, <1>2, FarmingTypes
    <2> DEFINE J == StakingId
               f == claimed
               g == claimed'
    <2>2. /\ IsFiniteSet(J) /\ DOMAIN f = J /\ DOMAIN g = J /\ i \in J /\ g[i] = f[i] + k /\ f[i] \in Nat
          /\ (\A j \in J : f[j] \in Int /\ g[j] \in Int) /\ (\A j \in J : f[j] \in Nat)
          /\ \A j \in J \ {i} : g[j] = f[j]
        BY <2>1, FarmingTypes, StakingFacts
    <2> HIDE DEF J, f, g, k
    <2>3. SumFunction(f) \in Int /\ SumFunction(g) = SumFunction(f) - f[i] + g[i]
        BY <2>2, SumUpdate
    <2>4. SumFunction(f) = SumFunctionOnSet(f, J) /\ SumFunction(g) = SumFunctionOnSet(g, J)
        BY <2>2 DEF SumFunction
    <2>5. SumFunctionOnSet(f, J) \in Nat
        BY <2>2, SumType
    <2> DEFINE a == SumFunctionOnSet(f, J)
               b == SumFunctionOnSet(g, J)
    <2>6. a \in Nat /\ b = a - f[i] + (f[i] + k)
        BY <2>2, <2>3, <2>4, <2>5
    <2>7. b = a + k
        <3> HIDE DEF a, b
        <3> QED BY <1>2, <2>2, <2>6 DEF k
    <2> QED BY <2>6, <2>7 DEF SumOfStakings, J, f, g
<1>11. Held(staking', balance', granted', claimed')
    <2> SUFFICES ASSUME NEW c \in Denom
                 PROVE  balance'[c] = SumOfStakings(AmountIn(staking', c))
                            + IF c = RewardDenom THEN granted - SumOfStakings(claimed') ELSE 0
        BY <1>1 DEF Held
    <2> DEFINE u == SumOfStakings(AmountIn(staking, c))
               w == SumOfStakings(claimed)
               b == balance[c]
    <2>1. b = u + (IF c = RewardDenom THEN granted - w ELSE 0) /\ b \in Nat /\ granted \in Nat
        BY FarmingTypes DEF FarmingInv, Held
    <2>2. u \in Nat /\ w \in Nat
        BY <1>10, FarmingTypes, TotalsType
    <2>3. SumOfStakings(AmountIn(staking', c)) = u - IF c = d THEN m ELSE 0
        BY <1>7
    <2>4. balance'[c] = b - (IF c = d THEN m ELSE 0) - (IF c = RewardDenom THEN k ELSE 0)
        BY <1>9
    <2>5. SumOfStakings(claimed') = w + k
        BY <1>10
    <2> HIDE DEF u, w, b, m, k, d
    <2> QED BY <1>2, <2>1, <2>2, <2>3, <2>4, <2>5
<1>12. FarmingTypeOK'
    <2>1. total' \in [Denom -> [amount : Nat, effective : Nat]]
        <3>1. \A c \in Denom : total'[c].amount \in Nat /\ total'[c].effective \in Nat
            BY <1>6, <1>8, FarmingTypes, TotalsType DEF TotalsOf
        <3>2. DOMAIN total' = Denom /\ \A c \in Denom : total'[c] = [amount |-> total'[c].amount, effective |-> total'[c].effective]
            <4> HIDE DEF m, e, d
            <4>1. ASSUME NEW c \in Denom PROVE total'[c] = [amount |-> total'[c].amount, effective |-> total'[c].effective]
                <5>1. CASE c = d BY <1>1, <5>1, FarmingTypes
                <5>2. CASE c # d
                    <6>1. total'[c] = total[c] /\ total[c] \in [amount : Nat, effective : Nat]
                        BY <1>1, <5>2, FarmingTypes
                    <6> QED BY <6>1
                <5> QED BY <5>1, <5>2
            <4> QED BY <1>1, <4>1, FarmingTypes
        <3>3. \A c \in Denom : total'[c] \in [amount : Nat, effective : Nat]
            BY <3>1, <3>2
        <3> QED BY <1>1, <3>2, <3>3, FarmingTypes
    <2>2. balance' \in [Denom -> Nat]
        <3>1. \A c \in Denom : balance'[c] \in Nat
            <4> TAKE c \in Denom
            <4>1. balance[c] \in Nat
                BY FarmingTypes
            <4>2. CASE c \in {d, RewardDenom}
                <5>1. balance'[c] >= 0
                    BY <1>1, <4>2
                <5> HIDE DEF m, k, d, paid
                <5> QED BY <1>2, <1>9, <4>1, <5>1
            <4>3. CASE c \notin {d, RewardDenom}
                BY <1>9, <4>1, <4>3
            <4> QED BY <4>2, <4>3
        <3>2. balance' = [c \in Denom |-> balance'[c]]
            <4> HIDE DEF m, k, d
            <4> QED BY <1>1, FarmingTypes DEF Pay
        <3> QED BY <3>1, <3>2
    <2>3. claimed' \in [StakingId -> Nat]
        <3> HIDE DEF k
        <3> QED BY <1>1, <1>2, FarmingTypes
    <2> QED BY <1>1, <1>6, <2>1, <2>2, <2>3, FarmingTypes DEF FarmingTypeOK, Stakings, StakingRecord
<1>13. RewardsAreKept' /\ StakingsInv'
    <2> SUFFICES ASSUME NEW j \in StakingId
                 PROVE  /\ staking'[j].pending + claimed'[j] = staking'[j].rewards
                        /\ staking'[j].status = "NONE" => staking'[j].pending = 0 /\ staking'[j].rewards = 0
                        /\ staking'[j].status # "NONE" => staking'[j].effective > 0
                        /\ staking'[j].status = "UNSTAKED" => now' >= LockEnd(staking'[j])
        BY DEF RewardsAreKept, StakingsInv, LockEnd
    <2>1. /\ staking[j].pending + claimed[j] = staking[j].rewards
          /\ staking[j].status = "NONE" => staking[j].pending = 0 /\ staking[j].rewards = 0
          /\ staking[j].status # "NONE" => staking[j].effective > 0
          /\ staking[j].status = "UNSTAKED" => now >= LockEnd(staking[j])
          /\ claimed[j] \in Nat
        BY FarmingTypes DEF FarmingInv, RewardsAreKept, StakingsInv
    <2>2. CASE j = i
        <3>1. staking'[j] = s /\ claimed'[j] = claimed[j] + k
            <4> HIDE DEF k
            <4> QED BY <1>1, <2>2, FarmingTypes DEF Stakings
        <3>2. e > 0
            BY <1>1, <2>1, <2>2 DEF Live
        <3>3. s.pending + claimed'[j] = s.rewards
            <4>1. k + claimed[j] = staking[j].rewards /\ claimed[j] \in Nat /\ s.pending = 0 /\ s.rewards = staking[j].rewards
                BY <1>4, <2>1, <2>2
            <4> HIDE DEF k
            <4> QED BY <1>2, <3>1, <4>1
        <3>4. now' >= LockEnd(s)
            BY <1>1, <1>4 DEF LockEnd
        <3> QED BY <1>4, <3>1, <3>2, <3>3, <3>4
    <2>3. CASE j # i
        <3>1. staking'[j] = staking[j] /\ claimed'[j] = claimed[j]
            <4> HIDE DEF k
            <4> QED BY <1>1, <2>3, FarmingTypes DEF Stakings
        <3> QED BY <1>1, <2>1, <3>1
    <2> QED BY <2>2, <2>3
<1>14. EpochInv'
    <2>1. \A j \in queue : /\ staking'[j].status # "NONE" /\ staking'[j].denom = staking[j].denom
                           /\ staking'[j].effective = staking[j].effective /\ LockEnd(staking'[j]) >= epoch.end
        <3> TAKE j \in queue
        <3>1. j \in StakingId /\ staking[j].status # "NONE" /\ LockEnd(staking[j]) >= epoch.end
            BY FarmingTypes DEF FarmingInv, EpochInv
        <3>2. staking'[j] = IF j = i THEN s ELSE staking[j]
            BY <1>1, <3>1, FarmingTypes DEF Stakings
        <3> QED BY <1>4, <3>1, <3>2 DEF LockEnd
    <2>2. EpochTotalStakings(queue)' = EpochTotalStakings(queue)
        <3>1. ASSUME NEW c
              PROVE  [n \in {j \in queue : staking'[j].denom = c} |-> staking'[n].effective]
                     = [n \in {j \in queue : staking[j].denom = c} |-> staking[n].effective]
            <4>1. {j \in queue : staking'[j].denom = c} = {j \in queue : staking[j].denom = c}
                BY <2>1
            <4> QED BY <2>1, <4>1
        <3> QED BY <1>1, <3>1 DEF EpochTotalStakings
    <2> QED BY <1>1, <2>1, <2>2 DEF FarmingInv, EpochInv, EpochIsOpen, LockEnd
<1> QED BY <1>8, <1>11, <1>12, <1>13, <1>14, FarmingTypes DEF FarmingInv

\* Steps that only change the rewards and the status within the live ones keep the totals.
LEMMA StakesStay ==
    ASSUME FarmingInv, SameStakes(staking, staking'), staking' \in Stakings, UNCHANGED <<total, epoch, queue>>
    PROVE  TotalsOf(staking', total') /\ EpochInv'
<1>1. TotalsOf(staking', total')
    BY SameStakesSums DEF FarmingInv, TotalsOf
<1>2. queue \in SUBSET StakingId
    BY FarmingTypes
<1>3. EpochTotalStakings(queue)' = EpochTotalStakings(queue)
    BY <1>2, SameStakesTotals
<1>4. \A i \in queue : staking'[i].status # "NONE" /\ LockEnd(staking'[i]) >= epoch.end
    BY <1>2 DEF FarmingInv, EpochInv, SameStakes, LockEnd
<1> QED BY <1>1, <1>3, <1>4 DEF FarmingInv, EpochInv, EpochIsOpen

\* Claims keep the invariant: what is paid for the stakings in S was pending (MsgClaim, ClaimAllRewards).
LEMMA PayStep == ASSUME FarmingInv, NEW S \in SUBSET StakingId, PayRewards(S) PROVE FarmingInv'
<1> DEFINE J == StakingId
           h == [i \in S |-> staking[i].pending]
           sum == SumFunction(h)
           g == [i \in J |-> IF i \in S THEN staking[i].pending ELSE 0]
           next(i) == [staking[i] EXCEPT !.pending = IF i \in S THEN 0 ELSE staking[i].pending]
<1>1. /\ sum > 0 /\ balance[RewardDenom] >= sum
      /\ balance' = [balance EXCEPT ![RewardDenom] = balance[RewardDenom] - sum]
      /\ staking' = [i \in J |-> next(i)]
      /\ claimed' = [i \in J |-> claimed[i] + g[i]]
      /\ UNCHANGED <<now, params, total, epoch, queue, granted>>
    BY DEF PayRewards, Pay
<1>2. /\ IsFiniteSet(J) /\ \A i \in J : staking[i].pending \in Nat /\ staking[i] \in StakingRecord
    BY FarmingTypes, StakingFacts
<1>3. \A i \in J : /\ next(i) \in StakingRecord /\ next(i).denom = staking[i].denom
                   /\ next(i).amount = staking[i].amount /\ next(i).effective = staking[i].effective
                   /\ next(i).start = staking[i].start /\ next(i).lock = staking[i].lock
                   /\ next(i).status = staking[i].status /\ next(i).rewards = staking[i].rewards
                   /\ next(i).pending = IF i \in S THEN 0 ELSE staking[i].pending
    BY <1>2 DEF StakingRecord
<1> HIDE DEF next
<1>4. staking' \in Stakings /\ SameStakes(staking, staking') /\ \A i \in J : staking'[i] = next(i)
    BY <1>1, <1>3 DEF Stakings, SameStakes
<1>5. sum = SumFunctionOnSet(g, J)
    <2>1. (\A i \in S : g[i] = h[i] /\ h[i] \in Int) /\ (\A i \in J \ S : g[i] = 0) /\ DOMAIN h = S
        BY <1>2
    <2> HIDE DEF g, h
    <2>2. SumFunctionOnSet(g, J) = SumFunctionOnSet(h, S)
        BY <1>2, <2>1, SumPart DEF J
    <2> QED BY <2>1, <2>2, SameSums
<1>6. \A i \in J : g[i] \in Nat /\ claimed[i] \in Nat /\ claimed'[i] = claimed[i] + g[i]
    BY <1>1, <1>2, FarmingTypes
<1> HIDE DEF g
<1>7. /\ sum \in Nat /\ SumOfStakings(claimed) \in Nat
      /\ SumOfStakings(claimed') = SumOfStakings(claimed) + sum
    <2>1. SumFunctionOnSet(g, J) \in Nat /\ SumFunctionOnSet(claimed, J) \in Nat
        BY <1>2, <1>6, SumType
    <2>2. \A i \in J : claimed[i] \in Int /\ g[i] \in Int /\ claimed'[i] = claimed[i] + g[i]
        BY <1>6
    <2>3. SumFunctionOnSet(claimed', J) = SumFunctionOnSet(claimed, J) + SumFunctionOnSet(g, J)
        <3> HIDE DEF J
        <3> QED BY <1>2, <2>2, SumAdd
    <2> HIDE DEF sum
    <2> QED BY <1>5, <2>1, <2>3 DEF SumOfStakings
<1> HIDE DEF sum
<1>8. TotalsOf(staking', total') /\ EpochInv'
    BY <1>1, <1>4, StakesStay
<1>9. Held(staking', balance', granted', claimed')
    <2> SUFFICES ASSUME NEW c \in Denom
                 PROVE  balance'[c] = SumOfStakings(AmountIn(staking', c))
                            + IF c = RewardDenom THEN granted - SumOfStakings(claimed') ELSE 0
        BY <1>1 DEF Held
    <2> DEFINE u == SumOfStakings(AmountIn(staking, c))
               w == SumOfStakings(claimed)
               b == balance[c]
    <2>1. /\ b = u + (IF c = RewardDenom THEN granted - w ELSE 0)
          /\ b \in Nat /\ granted \in Nat
        BY FarmingTypes DEF FarmingInv, Held
    <2>2. u \in Nat /\ w \in Nat
        BY <1>7, FarmingTypes, TotalsType
    <2>3. SumOfStakings(AmountIn(staking', c)) = u
        BY <1>4, SameStakesSums
    <2>4. balance'[c] = IF c = RewardDenom THEN b - sum ELSE b
        BY <1>1, FarmingTypes
    <2>5. SumOfStakings(claimed') = w + sum
        BY <1>7
    <2> HIDE DEF u, w, b
    <2> QED BY <1>7, <2>1, <2>2, <2>3, <2>4, <2>5
<1>10. FarmingTypeOK'
    <2>1. balance[RewardDenom] - sum \in Nat
        BY <1>1, <1>7, FarmingTypes
    <2>2. balance' \in [Denom -> Nat]
        BY <1>1, <2>1, FarmingTypes
    <2>3. claimed' \in [J -> Nat]
        BY <1>1, <1>6
    <2> QED BY <1>1, <1>4, <2>2, <2>3, FarmingTypes DEF FarmingTypeOK, Stakings, StakingRecord
<1>11. RewardsAreKept' /\ StakingsInv'
    <2> SUFFICES ASSUME NEW j \in J
                 PROVE  /\ staking'[j].pending + claimed'[j] = staking'[j].rewards
                        /\ staking'[j].status = "NONE" => staking'[j].pending = 0 /\ staking'[j].rewards = 0
                        /\ staking'[j].status # "NONE" => staking'[j].effective > 0
                        /\ staking'[j].status = "UNSTAKED" => now' >= LockEnd(staking'[j])
        BY DEF RewardsAreKept, StakingsInv, LockEnd
    <2>1. /\ staking[j].pending + claimed[j] = staking[j].rewards
          /\ staking[j].status = "NONE" => staking[j].pending = 0 /\ staking[j].rewards = 0
          /\ staking[j].status # "NONE" => staking[j].effective > 0
          /\ staking[j].status = "UNSTAKED" => now >= LockEnd(staking[j])
        BY FarmingTypes DEF FarmingInv, RewardsAreKept, StakingsInv
    <2>2. staking'[j].pending + claimed'[j] = staking'[j].rewards
        <3>1. staking'[j].pending = (IF j \in S THEN 0 ELSE staking[j].pending) /\ staking'[j].rewards = staking[j].rewards
            BY <1>3, <1>4
        <3>2. claimed'[j] = claimed[j] + IF j \in S THEN staking[j].pending ELSE 0
            BY <1>6 DEF g
        <3>3. staking[j].pending \in Nat /\ claimed[j] \in Nat
            BY <1>2, <1>6
        <3> QED BY <2>1, <3>1, <3>2, <3>3
    <2>3. LockEnd(staking'[j]) = LockEnd(staking[j])
        BY <1>3, <1>4 DEF LockEnd
    <2> QED BY <1>1, <1>3, <1>4, <2>1, <2>2, <2>3
<1> QED BY <1>8, <1>9, <1>10, <1>11, FarmingTypes DEF FarmingInv

\* New parameters keep the invariant.
LEMMA ParamsStep == ASSUME FarmingInv, NEW p \in Params, UpdateParams(p) PROVE FarmingInv'
<1>1. params' = p /\ UNCHANGED <<now, staking, total, epoch, queue, balance, claimed, granted>>
    BY DEF UpdateParams
<1>2. TotalsOf(staking', total') /\ EpochInv'
    BY <1>1, FarmingTypes, StakesStay DEF SameStakes
<1> QED BY <1>1, <1>2 DEF FarmingInv, FarmingTypeOK, Held, RewardsAreKept, StakingsInv, LockEnd

\* A grant keeps the invariant.
LEMMA FundStep == ASSUME FarmingInv, NEW amount \in Grant, Fund(amount) PROVE FarmingInv'
<1>1. /\ granted' = granted + amount
      /\ balance' = [balance EXCEPT ![RewardDenom] = balance[RewardDenom] + amount]
      /\ UNCHANGED <<now, params, staking, total, epoch, queue, claimed>>
    BY DEF Fund
<1>2. amount \in Nat
    BY FarmingTypes, FarmingAssumption
<1>3. Held(staking', balance', granted', claimed')
    <2> SUFFICES ASSUME NEW c \in Denom
                 PROVE  balance'[c] = SumOfStakings(AmountIn(staking, c))
                            + IF c = RewardDenom THEN granted' - SumOfStakings(claimed) ELSE 0
        BY <1>1 DEF Held
    <2> DEFINE u == SumOfStakings(AmountIn(staking, c))
               w == SumOfStakings(claimed)
               b == balance[c]
    <2>1. /\ b = u + (IF c = RewardDenom THEN granted - w ELSE 0)
          /\ b \in Nat /\ granted \in Nat
        BY FarmingTypes DEF FarmingInv, Held
    <2>2. u \in Nat /\ w \in Nat
        BY FarmingTypes, StakingFacts, SumType, TotalsType DEF SumOfStakings
    <2>3. balance'[c] = IF c = RewardDenom THEN b + amount ELSE b
        BY <1>1, FarmingTypes
    <2> HIDE DEF u, w, b
    <2>4. balance'[c] = u + IF c = RewardDenom THEN granted' - w ELSE 0
        BY <1>1, <1>2, <2>1, <2>2, <2>3
    <2> QED BY <2>4 DEF u, w
<1>4. FarmingTypeOK'
    <2>1. balance[RewardDenom] + amount \in Nat /\ granted + amount \in Nat
        BY <1>2, FarmingTypes
    <2> QED BY <1>1, <2>1, FarmingTypes DEF FarmingTypeOK
<1>5. TotalsOf(staking', total') /\ EpochInv'
    BY <1>1, FarmingTypes, StakesStay DEF SameStakes
<1> QED BY <1>1, <1>3, <1>4, <1>5 DEF FarmingInv, RewardsAreKept, StakingsInv, LockEnd

\* The stakings st2 are those in store, with a natural reward added to some of the stakings.
Earned(st, st2, i, n) == st2[i].pending = st[i].pending + n /\ st2[i].rewards = st[i].rewards + n
Kept(st2) ==
    /\ st2 \in Stakings /\ SameStakes(staking, st2)
    /\ \A i \in StakingId : \E n \in Nat : Earned(staking, st2, i, n) /\ (staking[i].status = "NONE" => n = 0)

\* handleMatureStakings changes nothing but the status.
LEMMA MaturedFacts ==
    ASSUME FarmingInv
    PROVE  /\ Matured \in Stakings /\ SameStakes(staking, Matured)
           /\ \A i \in StakingId : Matured[i].pending = staking[i].pending /\ Matured[i].rewards = staking[i].rewards
<1>1. ASSUME NEW i \in StakingId
      PROVE  /\ Matured[i] \in StakingRecord
             /\ Matured[i].denom = staking[i].denom /\ Matured[i].amount = staking[i].amount
             /\ Matured[i].effective = staking[i].effective /\ Matured[i].start = staking[i].start
             /\ Matured[i].lock = staking[i].lock
             /\ Matured[i].pending = staking[i].pending /\ Matured[i].rewards = staking[i].rewards
             /\ Matured[i].status \in Live <=> staking[i].status \in Live
             /\ Matured[i].status = "NONE" <=> staking[i].status = "NONE"
             /\ Matured[i].status = "UNSTAKED" <=> staking[i].status = "UNSTAKED"
    <2>1. staking[i] \in StakingRecord
        BY FarmingTypes, StakingFacts
    <2>2. Matured[i] = IF staking[i].status = "STAKED" /\ now >= LockEnd(staking[i])
                         THEN [staking[i] EXCEPT !.status = "UNLOCKED"] ELSE staking[i]
        BY DEF Matured
    <2>3. CASE staking[i].status = "STAKED" /\ now >= LockEnd(staking[i])
        <3>1. Matured[i] = [staking[i] EXCEPT !.status = "UNLOCKED"]
            BY <2>2, <2>3
        <3> QED BY <2>1, <2>3, <3>1 DEF StakingRecord, Live
    <2>4. CASE ~(staking[i].status = "STAKED" /\ now >= LockEnd(staking[i]))
        <3>1. Matured[i] = staking[i]
            BY <2>2, <2>4
        <3> QED BY <2>1, <3>1
    <2> QED BY <2>3, <2>4
<1>2. Matured = [i \in StakingId |-> Matured[i]]
    BY DEF Matured
<1> QED BY <1>1, <1>2 DEF Stakings, SameStakes

\* Stakings that are unlocked keep their amounts and rewards.
LEMMA MaturedKept == ASSUME FarmingInv PROVE Kept(Matured)
<1>1. \A i \in StakingId : Earned(staking, Matured, i, 0)
    <2> TAKE i \in StakingId
    <2>1. staking[i].pending \in Nat /\ staking[i].rewards \in Nat
        BY FarmingTypes, StakingFacts
    <2> QED BY <2>1, MaturedFacts DEF Earned
<1> QED BY <1>1, MaturedFacts DEF Kept

\* An epoch's effective amount of a denom counts every staking of the queue in that denom.
LEMMA EpochTotals ==
    ASSUME FarmingInv, EpochIsOpen, NEW i \in queue
    PROVE  epoch.total[staking[i].denom] \in Nat \ {0}
<1> DEFINE d == staking[i].denom
           T == {j \in queue : staking[j].denom = d}
           h == [j \in T |-> staking[j].effective]
<1>1. /\ queue \in SUBSET StakingId /\ i \in StakingId /\ d \in Denom /\ IsFiniteSet(StakingId)
      /\ \A j \in StakingId : staking[j].effective \in Nat
    BY FarmingTypes, StakingFacts
<1>2. IsFiniteSet(T) /\ i \in T /\ IsFiniteSet(T \ {i})
    BY <1>1, FS_Subset
<1>3. epoch.total[d] = SumFunction(h)
    BY <1>1 DEF FarmingInv, EpochInv, EpochTotalStakings
<1>4. SumFunction(h) = SumFunctionOnSet(h, T)
    BY SameSums
<1>5. h[i] \in Nat \ {0} /\ \A j \in T : h[j] \in Nat
    BY <1>1, <1>2 DEF FarmingInv, EpochInv, StakingsInv
<1> HIDE DEF d, T, h
<1>6. SumFunctionOnSet(h, T) = h[i] + SumFunctionOnSet(h, T \ {i})
    BY <1>2, <1>5, SumRemove
<1>7. SumFunctionOnSet(h, T \ {i}) \in Nat
    BY <1>2, <1>5, SumType
<1> DEFINE rest == SumFunctionOnSet(h, T \ {i})
<1>8. h[i] + rest \in Nat \ {0}
    <2> HIDE DEF rest
    <2> QED BY <1>5, <1>7 DEF rest
<1> QED BY <1>3, <1>4, <1>6, <1>8 DEF d

\* The part of the reward of an epoch that a denom gets, and the part of it for a staking.
DenomReward(d) == (params.reward * params.assets[d].ratio) \div 100
LEMMA RewardType ==
    ASSUME FarmingInv, NEW d, IsEligibleAsset(d)
    PROVE  params.reward \in Nat /\ params.assets[d].ratio \in Nat /\ DenomReward(d) \in Nat
           /\ 100 * DenomReward(d) <= params.reward * params.assets[d].ratio
<1>1. params.reward \in Nat /\ params.assets[d].ratio \in Nat
    <2>1. params \in Params
        BY FarmingTypes
    <2>2. params.reward \in Nat /\ ValidParams(params)
        BY <2>1, FarmingTypes, FarmingAssumption
    <2>3. params.assets[d] \in Asset
        BY <2>2 DEF ValidParams, IsEligibleAsset
    <2> QED BY <2>2, <2>3 DEF Asset
<1> DEFINE n == params.reward * params.assets[d].ratio
<1>2. n \in Nat
    BY <1>1
<1> HIDE DEF n
<1> DEFINE q == n \div 100
<1>3. q \in Nat /\ n % 100 \in Nat /\ n = 100 * q + (n % 100)
    BY <1>2, Quotients
<1>4. 100 * q <= n
    <2> HIDE DEF q
    <2> DEFINE r == n % 100
    <2>1. r \in Nat /\ n = 100 * q + r
        BY <1>3
    <2> HIDE DEF r
    <2> QED BY <1>3, <2>1
<1> QED BY <1>1, <1>3, <1>4 DEF DenomReward, n

\* OnEpochEnded adds its reward to every staking of the queue.
EpochReward(i) == (DenomReward(staking[i].denom) * staking[i].effective) \div epoch.total[staking[i].denom]
LEMMA AccruedFacts ==
    ASSUME FarmingInv, EpochIsOpen, \A i \in queue : IsEligibleAsset(staking[i].denom)
    PROVE  /\ Accrued \in Stakings /\ SameStakes(staking, Accrued)
           /\ \A i \in queue : EpochReward(i) \in Nat
           /\ \A i \in StakingId : Earned(staking, Accrued, i, IF i \in queue THEN EpochReward(i) ELSE 0)
<1>1. ASSUME NEW i \in queue PROVE EpochReward(i) \in Nat
    <2> DEFINE r == DenomReward(staking[i].denom)
               e == staking[i].effective
               t == epoch.total[staking[i].denom]
    <2>1. r \in Nat /\ e \in Nat /\ t \in Nat \ {0}
        BY EpochTotals, RewardType, FarmingTypes, StakingFacts
    <2>2. (r * e) \div t \in Nat
        <3> HIDE DEF r, e, t
        <3>1. r * e \in Nat
            BY <2>1
        <3> QED BY <2>1, <3>1, Quotients
    <2> QED BY <2>2 DEF EpochReward
<1> DEFINE n(i) == IF i \in queue THEN EpochReward(i) ELSE 0
<1>2. ASSUME NEW i \in StakingId
      PROVE  /\ Accrued[i] \in StakingRecord /\ Earned(staking, Accrued, i, n(i))
             /\ Accrued[i].denom = Matured[i].denom /\ Accrued[i].amount = Matured[i].amount
             /\ Accrued[i].effective = Matured[i].effective /\ Accrued[i].start = Matured[i].start
             /\ Accrued[i].lock = Matured[i].lock /\ Accrued[i].status = Matured[i].status
    <2> DEFINE m == Matured[i]
    <2>1. /\ m \in StakingRecord /\ m.pending = staking[i].pending /\ m.rewards = staking[i].rewards
          /\ m.denom = staking[i].denom /\ m.effective = staking[i].effective
          /\ m.pending \in Nat /\ m.rewards \in Nat
        BY MaturedFacts, FarmingTypes, StakingFacts DEF SameStakes
    <2>2. CASE i \in queue
        <3>1. GetPendingReward(m) = EpochReward(i)
            BY <2>1 DEF GetPendingReward, GetEpochReward, EpochReward, DenomReward
        <3>2. Accrued[i] = [m EXCEPT !.pending = m.pending + EpochReward(i), !.rewards = m.rewards + EpochReward(i)]
            BY <2>2, <3>1 DEF Accrued
        <3>3. m.pending + EpochReward(i) \in Nat /\ m.rewards + EpochReward(i) \in Nat
            BY <1>1, <2>1, <2>2
        <3> HIDE DEF m
        <3>4. /\ Accrued[i] \in StakingRecord
              /\ Accrued[i].pending = m.pending + EpochReward(i) /\ Accrued[i].rewards = m.rewards + EpochReward(i)
              /\ Accrued[i].denom = m.denom /\ Accrued[i].amount = m.amount
              /\ Accrued[i].effective = m.effective /\ Accrued[i].start = m.start
              /\ Accrued[i].lock = m.lock /\ Accrued[i].status = m.status
            BY <2>1, <3>2, <3>3 DEF StakingRecord
        <3> QED BY <2>1, <2>2, <3>4 DEF Earned, m
    <2>3. CASE i \notin queue
        <3>1. Accrued[i] = m
            BY <2>3 DEF Accrued
        <3> QED BY <2>1, <2>3, <3>1 DEF Earned
    <2> QED BY <2>2, <2>3
<1>3. Accrued = [i \in StakingId |-> Accrued[i]]
    BY DEF Accrued
<1>4. Accrued \in Stakings /\ SameStakes(staking, Accrued)
    <2>1. Accrued \in Stakings
        <3>1. \A i \in StakingId : Accrued[i] \in StakingRecord
            BY <1>2
        <3> QED BY <1>3, <3>1, Zenon DEF Stakings
    <2>2. SameStakes(staking, Matured)
        BY MaturedFacts
    <2>3. \A i \in StakingId :
             /\ Accrued[i].denom = Matured[i].denom /\ Accrued[i].amount = Matured[i].amount
             /\ Accrued[i].effective = Matured[i].effective /\ Accrued[i].start = Matured[i].start
             /\ Accrued[i].lock = Matured[i].lock /\ Accrued[i].status = Matured[i].status
        BY <1>2
    <2> QED BY <2>1, <2>2, <2>3 DEF SameStakes
<1> QED BY <1>1, <1>2, <1>4

\* Stakings that receive the rewards of an epoch keep their amounts.
LEMMA AccruedKept ==
    ASSUME FarmingInv, EpochIsOpen, \A i \in queue : IsEligibleAsset(staking[i].denom)
    PROVE  Kept(Accrued)
<1>1. \A i \in StakingId : \E n \in Nat : Earned(staking, Accrued, i, n) /\ (staking[i].status = "NONE" => n = 0)
    <2> TAKE i \in StakingId
    <2> DEFINE n == IF i \in queue THEN EpochReward(i) ELSE 0
    <2>1. n \in Nat /\ Earned(staking, Accrued, i, n)
        BY AccruedFacts
    <2>2. staking[i].status = "NONE" => n = 0
        BY DEF FarmingInv, EpochInv
    <2> HIDE DEF n
    <2> QED BY <2>1, <2>2
<1> QED BY <1>1, AccruedFacts DEF Kept

\* NewEpoch takes up stakings that are locked until its end, with their totals.
LEMMA NewEpochFacts ==
    ASSUME FarmingInv, NEW start \in Nat, SameStakes(staking, staking'), NewEpoch(start)
    PROVE  /\ EpochInv' /\ queue' \in SUBSET StakingId
           /\ epoch' \in [status : {"NONE", "STARTED", "ENDED"}, end : Nat, total : [Denom -> Nat]]
<1> DEFINE end == start + params.duration
           Q == EpochStakings(end)
<1>1. queue' = Q /\ epoch' = [status |-> "STARTED", end |-> end, total |-> EpochTotalStakings(Q)]
    BY DEF NewEpoch
<1>2. end \in Nat
    BY FarmingTypes, FarmingAssumption
<1>3. \A i \in Q : i \in StakingId /\ staking[i].status = "STAKED" /\ LockEnd(staking[i]) >= end
    <2> TAKE i \in Q
    <2>1. i \in StakingId /\ Matured[i].status = "STAKED" /\ LockEnd(staking[i]) >= end
        BY DEF EpochStakings, StakingsByStatus
    <2>2. staking[i].status = "STAKED"
        <3>1. staking[i] \in StakingRecord
            BY <2>1, FarmingTypes, StakingFacts
        <3>2. Matured[i] = IF staking[i].status = "STAKED" /\ now >= LockEnd(staking[i])
                             THEN [staking[i] EXCEPT !.status = "UNLOCKED"] ELSE staking[i]
            BY <2>1 DEF Matured
        <3>3. [staking[i] EXCEPT !.status = "UNLOCKED"].status = "UNLOCKED"
            BY <3>1 DEF StakingRecord
        <3> QED BY <2>1, <3>2, <3>3
    <2> QED BY <2>1, <2>2
<1>4. Q \in SUBSET StakingId
    BY <1>3
<1>5. EpochTotalStakings(Q) \in [Denom -> Nat]
    <2>1. ASSUME NEW d PROVE SumFunction([i \in {j \in Q : staking[j].denom = d} |-> staking[i].effective]) \in Nat
        <3> DEFINE T == {j \in Q : staking[j].denom = d}
                   h == [i \in T |-> staking[i].effective]
        <3>1. IsFiniteSet(T) /\ \A i \in T : h[i] \in Nat
            <4>1. T \in SUBSET StakingId /\ IsFiniteSet(StakingId) /\ \A i \in StakingId : staking[i].effective \in Nat
                BY <1>4, FarmingTypes, StakingFacts
            <4> QED BY <4>1, FS_Subset
        <3>2. SumFunction(h) = SumFunctionOnSet(h, T)
            BY SameSums
        <3> HIDE DEF T, h
        <3>3. SumFunctionOnSet(h, T) \in Nat
            BY <3>1, SumType
        <3> QED BY <3>2, <3>3 DEF T, h
    <2> QED BY <2>1 DEF EpochTotalStakings
<1> HIDE DEF Q, end
<1>6. EpochTotalStakings(queue)' = EpochTotalStakings(Q)
    <2>1. ASSUME NEW P \in SUBSET StakingId, queue' = P
          PROVE  EpochTotalStakings(queue)' = EpochTotalStakings(P)
        <3>1. EpochTotalStakings(P)' = EpochTotalStakings(P)
            BY SameStakesTotals
        <3> QED BY <2>1, <3>1 DEF EpochTotalStakings
    <2> QED BY <1>1, <1>4, <2>1
<1>7. \A i \in queue' : staking'[i].status # "NONE" /\ LockEnd(staking'[i]) >= epoch'.end
    <2>1. \A i \in Q : staking'[i].status # "NONE" /\ LockEnd(staking'[i]) = LockEnd(staking[i])
        BY <1>3 DEF SameStakes, LockEnd
    <2> QED BY <1>1, <1>3, <2>1
<1> QED BY <1>1, <1>2, <1>4, <1>5, <1>6, <1>7 DEF EpochInv, EpochIsOpen, LockEnd

\* What the end blocker does to the stakings and to the epoch.
LEMMA EpochStep ==
    ASSUME FarmingInv, HandleEpoch
    PROVE  /\ Kept(staking') /\ EpochInv' /\ queue' \in SUBSET StakingId
           /\ epoch' \in [status : {"NONE", "STARTED", "ENDED"}, end : Nat, total : [Denom -> Nat]]
<1>1. CASE EpochOver
    <2>1. /\ \A i \in queue : IsEligibleAsset(staking[i].denom)
          /\ EpochIsOpen /\ staking' = Accrued
          /\ \/ NewEpoch(epoch.end)
             \/ queue' = {} /\ epoch' = [epoch EXCEPT !.status = "ENDED"]
        BY <1>1 DEF HandleEpoch, EpochOver
    <2>2. Kept(staking') /\ SameStakes(staking, staking')
        BY <2>1, AccruedKept DEF Kept
    <2>3. epoch.end \in Nat
        BY FarmingTypes
    <2>4. CASE NewEpoch(epoch.end)
        BY <2>2, <2>3, <2>4, NewEpochFacts
    <2>5. CASE queue' = {} /\ epoch' = [epoch EXCEPT !.status = "ENDED"]
        <3>1. /\ epoch' \in [status : {"NONE", "STARTED", "ENDED"}, end : Nat, total : [Denom -> Nat]]
              /\ epoch'.status = "ENDED"
            BY <2>5, FarmingTypes
        <3> QED BY <2>2, <2>5, <3>1 DEF EpochInv, EpochIsOpen
    <2> QED BY <2>1, <2>4, <2>5
<1>2. CASE ~EpochOver
    <2>1. /\ staking' = Matured
          /\ NewEpoch(now) \/ UNCHANGED <<epoch, queue>>
        BY <1>2 DEF HandleEpoch
    <2>2. Kept(staking') /\ SameStakes(staking, staking')
        BY <2>1, MaturedKept DEF Kept
    <2>3. CASE NewEpoch(now)
        BY <2>2, <2>3, FarmingTypes, NewEpochFacts
    <2>4. CASE UNCHANGED <<epoch, queue>>
        <3>1. \A i \in queue : staking'[i].status # "NONE" /\ LockEnd(staking'[i]) >= epoch.end
            BY <2>2, FarmingTypes DEF FarmingInv, EpochInv, SameStakes, LockEnd
        <3>2. EpochTotalStakings(queue)' = EpochTotalStakings(queue)
            <4>1. queue \in SUBSET StakingId
                BY FarmingTypes
            <4>2. ASSUME NEW P \in SUBSET StakingId, queue = P, queue' = P
                  PROVE  EpochTotalStakings(queue)' = EpochTotalStakings(queue)
                <5>1. EpochTotalStakings(P)' = EpochTotalStakings(P)
                    BY <2>2, SameStakesTotals
                <5> QED BY <4>2, <5>1 DEF EpochTotalStakings
            <4> QED BY <2>4, <4>1, <4>2
        <3>3. EpochIsOpen' => epoch'.total = EpochTotalStakings(queue)'
            BY <2>4, <3>2 DEF FarmingInv, EpochInv, EpochIsOpen
        <3>4. ~EpochIsOpen' => queue' = {}
            BY <2>4 DEF FarmingInv, EpochInv, EpochIsOpen
        <3> QED BY <2>2, <2>4, <3>1, <3>3, <3>4, FarmingTypes DEF EpochInv, LockEnd
    <2> QED BY <2>1, <2>3, <2>4
<1> QED BY <1>1, <1>2

\* The end blocker keeps the invariant.
LEMMA EndBlockerStep == ASSUME FarmingInv, EndBlocker PROVE FarmingInv'
<1>1. /\ HandleEpoch /\ UNCHANGED <<params, total, balance, claimed, granted>>
      /\ now' \in Nat /\ now' >= now
    <2>1. now \in Nat /\ MaxTime \in Nat
        BY FarmingTypes, FarmingAssumption
    <2> QED BY <2>1 DEF EndBlocker
<1>2. /\ Kept(staking') /\ EpochInv' /\ queue' \in SUBSET StakingId
      /\ epoch' \in [status : {"NONE", "STARTED", "ENDED"}, end : Nat, total : [Denom -> Nat]]
    BY <1>1, EpochStep
<1>3. staking' \in Stakings /\ SameStakes(staking, staking')
    BY <1>2 DEF Kept
<1>4. TotalsOf(staking', total') /\ Held(staking', balance', granted', claimed')
    BY <1>1, <1>3, SameStakesSums DEF FarmingInv, TotalsOf, Held
<1>5. FarmingTypeOK'
    BY <1>1, <1>2, <1>3, FarmingTypes DEF FarmingTypeOK, Stakings, StakingRecord
<1>6. RewardsAreKept' /\ StakingsInv'
    <2> SUFFICES ASSUME NEW j \in StakingId
                 PROVE  /\ staking'[j].pending + claimed'[j] = staking'[j].rewards
                        /\ staking'[j].status = "NONE" => staking'[j].pending = 0 /\ staking'[j].rewards = 0
                        /\ staking'[j].status # "NONE" => staking'[j].effective > 0
                        /\ staking'[j].status = "UNSTAKED" => now' >= LockEnd(staking'[j])
        BY DEF RewardsAreKept, StakingsInv, LockEnd
    <2>1. /\ staking[j].pending + claimed[j] = staking[j].rewards
          /\ staking[j].status = "NONE" => staking[j].pending = 0 /\ staking[j].rewards = 0
          /\ staking[j].status # "NONE" => staking[j].effective > 0
          /\ staking[j].status = "UNSTAKED" => now >= LockEnd(staking[j])
        BY FarmingTypes DEF FarmingInv, RewardsAreKept, StakingsInv
    <2>2. PICK n \in Nat : Earned(staking, staking', j, n) /\ (staking[j].status = "NONE" => n = 0)
        BY <1>2 DEF Kept
    <2>3. staking'[j].pending = staking[j].pending + n /\ staking'[j].rewards = staking[j].rewards + n
        BY <2>2 DEF Earned
    <2>4. /\ staking[j].pending \in Nat /\ staking[j].rewards \in Nat /\ claimed[j] \in Nat /\ now \in Nat
          /\ LockEnd(staking[j]) \in Nat
        BY FarmingTypes, StakingFacts DEF LockEnd
    <2>5. staking'[j].pending + claimed[j] = staking'[j].rewards
        BY <2>1, <2>3, <2>4
    <2>6. LockEnd(staking'[j]) = LockEnd(staking[j])
        BY <1>3 DEF LockEnd, SameStakes
    <2>7. now >= LockEnd(staking[j]) => now' >= LockEnd(staking[j])
        BY <1>1, <2>4
    <2>8. /\ staking'[j].status = "NONE" <=> staking[j].status = "NONE"
          /\ staking'[j].status = "UNSTAKED" <=> staking[j].status = "UNSTAKED"
          /\ staking'[j].effective = staking[j].effective
        BY <1>3 DEF SameStakes
    <2>9. staking'[j].status = "NONE" => staking'[j].pending = 0 /\ staking'[j].rewards = 0
        BY <2>1, <2>2, <2>3, <2>8
    <2> QED BY <1>1, <2>1, <2>5, <2>6, <2>7, <2>8, <2>9
<1> QED BY <1>2, <1>4, <1>5, <1>6, FarmingTypes DEF FarmingInv

\* Every step keeps the invariant.
LEMMA FarmingSteps == ASSUME FarmingInv, [FarmingNext]_farmingVars PROVE FarmingInv'
<1>1. CASE FarmingNext
    <2>1. ASSUME NEW i \in StakingId, NEW a \in Staker, NEW d \in Denom, NEW amount \in Amount,
                 NEW p \in Params, NEW lock \in p.locks, Stake(i, a, d, amount, lock)
          PROVE  FarmingInv'
        BY <2>1, StakeStep
    <2>2. ASSUME NEW i \in StakingId, Unstake(i) \/ Claim(i) PROVE FarmingInv'
        <3>1. CASE Unstake(i) BY <3>1, UnstakeStep
        <3>2. CASE Claim(i)
            <4>1. {i} \in SUBSET StakingId /\ PayRewards({i})
                BY <3>2 DEF Claim
            <4> QED BY <4>1, PayStep
        <3> QED BY <2>2, <3>1, <3>2
    <2>3. ASSUME NEW a \in Staker, ClaimAll(a) PROVE FarmingInv'
        <3>1. StakingsByAddress(a) \in SUBSET StakingId /\ PayRewards(StakingsByAddress(a))
            BY <2>3 DEF ClaimAll, StakingsByAddress
        <3> QED BY <3>1, PayStep
    <2>4. ASSUME NEW p \in Params, UpdateParams(p) PROVE FarmingInv'
        BY <2>4, ParamsStep
    <2>5. ASSUME NEW amount \in Grant, Fund(amount) PROVE FarmingInv'
        BY <2>5, FundStep
    <2>6. ASSUME EndBlocker PROVE FarmingInv'
        BY <2>6, EndBlockerStep
    <2> QED BY <1>1, <2>1, <2>2, <2>3, <2>4, <2>5, <2>6 DEF FarmingNext
<1>2. CASE UNCHANGED farmingVars
    <2>1. UNCHANGED <<now, params, staking, total, epoch, queue, balance, claimed, granted>>
        BY <1>2 DEF farmingVars
    <2>2. TotalsOf(staking', total') /\ EpochInv'
        BY <2>1, FarmingTypes, StakesStay DEF SameStakes
    <2> QED BY <2>1, <2>2 DEF FarmingInv, FarmingTypeOK, Held, RewardsAreKept, StakingsInv, LockEnd
<1> QED BY <1>1, <1>2

\* The invariant holds in every reachable state.
LEMMA FarmingInvariant == FarmingSpec => []FarmingInv
<1>1. FarmingInit => FarmingInv
    BY FarmingStarts
<1>2. FarmingInv /\ [FarmingNext]_farmingVars => FarmingInv'
    BY FarmingSteps
<1> QED BY <1>1, <1>2, PTL DEF FarmingSpec

\* The module's books balance (TotalStaking, the module account, PendingRewards and TotalRewards).
THEOREM BooksBalanceHolds == FarmingSpec => []BooksBalance
BY FarmingInvariant, BooksFollow, PTL

\* A staking that takes part in an epoch is not undone before it is over.
THEOREM QueuedIsLockedHolds == FarmingSpec => []QueuedIsLocked
BY FarmingInvariant, LockFollows, PTL

\* An epoch's rewards for one denom: its part of the reward is divided in proportion.
DenomOf == [i \in queue |-> staking[i].denom]
EpochRewards == [i \in queue |-> EpochReward(i)]
RewardsIn(d) == SumFunctionOnSet(EpochRewards, PartOf(queue, DenomOf, d))
LEMMA DenomRewards ==
    ASSUME FarmingInv, EpochIsOpen, NEW d \in Denom, IsEligibleAsset(d)
    PROVE  RewardsIn(d) \in Nat /\ RewardsIn(d) <= DenomReward(d)
<1> DEFINE S == PartOf(queue, DenomOf, d)
           e == [i \in S |-> staking[i].effective]
           r == DenomReward(d)
           q == EpochRewards
<1>1. /\ queue \in SUBSET StakingId /\ IsFiniteSet(StakingId)
      /\ \A j \in StakingId : staking[j].effective \in Nat
    BY FarmingTypes, StakingFacts
<1>2. S = {j \in queue : staking[j].denom = d} /\ IsFiniteSet(S)
    <2>1. S = {j \in queue : staking[j].denom = d}
        BY DEF PartOf, DenomOf
    <2>2. S \in SUBSET StakingId
        BY <1>1, <2>1
    <2> QED BY <1>1, <2>1, <2>2, FS_Subset
<1>3. epoch.total[d] = SumFunctionOnSet(e, S)
    <2>1. epoch.total[d] = SumFunction(e)
        BY <1>2 DEF FarmingInv, EpochInv, EpochTotalStakings
    <2> QED BY <2>1, SameSums
<1>4. \A i \in S : e[i] \in Nat \ {0}
    BY <1>1, <1>2 DEF FarmingInv, EpochInv, StakingsInv
<1>5. r \in Nat
    BY RewardType
<1>6. \A i \in S : q[i] = (r * e[i]) \div SumFunctionOnSet(e, S)
    <2> TAKE i \in S
    <2>1. i \in queue /\ staking[i].denom = d /\ e[i] = staking[i].effective
        BY <1>2
    <2>2. q[i] = (DenomReward(d) * staking[i].effective) \div epoch.total[d]
        BY <2>1 DEF EpochRewards, EpochReward
    <2> QED BY <1>3, <2>1, <2>2
<1> HIDE DEF S, e, r, q
<1>7. SumFunctionOnSet(q, S) \in Nat /\ SumFunctionOnSet(q, S) <= r
    BY <1>2, <1>4, <1>5, <1>6, Shares
<1> QED BY <1>7 DEF RewardsIn, S, q, r

\* All of them together.
LEMMA AllRewards ==
    ASSUME FarmingInv, EpochIsOpen, \A i \in queue : IsEligibleAsset(staking[i].denom)
    PROVE  SumFunctionOnSet(EpochRewards, queue) \in Nat /\ SumFunctionOnSet(EpochRewards, queue) <= params.reward
<1> DEFINE K == DOMAIN params.assets
           part == [d \in K |-> RewardsIn(d)]
           ratio == [d \in K |-> params.assets[d].ratio]
           n == params.reward
<1>1. ValidParams(params) /\ n \in Nat
    BY FarmingTypes, FarmingAssumption
<1>2. K \subseteq Denom /\ IsFiniteSet(K) /\ SumFunctionOnSet(ratio, K) <= 100
    BY <1>1, SameSums DEF ValidParams
<1>3. IsFiniteSet(queue) /\ (\A i \in queue : DenomOf[i] \in K) /\ \A i \in queue : EpochRewards[i] \in Int
    <2>1. IsFiniteSet(queue)
        BY FarmingTypes, StakingFacts, FS_Subset
    <2>2. \A i \in queue : EpochRewards[i] \in Int
        BY AccruedFacts DEF EpochRewards
    <2> QED BY <2>1, <2>2 DEF DenomOf, IsEligibleAsset
<1>4. Scaled(100, part, n, ratio, K)
    <2> SUFFICES ASSUME NEW d \in K PROVE part[d] \in Nat /\ ratio[d] \in Nat /\ 100 * part[d] <= n * ratio[d]
        BY DEF Scaled
    <2>1. d \in Denom /\ IsEligibleAsset(d)
        BY <1>2 DEF IsEligibleAsset
    <2>2. part[d] \in Nat /\ part[d] <= DenomReward(d)
        BY <2>1, DenomRewards
    <2>3. ratio[d] \in Nat /\ DenomReward(d) \in Nat /\ 100 * DenomReward(d) <= n * ratio[d]
        BY <2>1, RewardType
    <2> DEFINE m == n * ratio[d]
    <2>4. m \in Nat
        BY <1>1, <2>3
    <2> HIDE DEF part, m
    <2>5. 100 * part[d] <= m
        BY <2>2, <2>3, <2>4 DEF m
    <2> QED BY <2>2, <2>3, <2>5 DEF m
<1>5. SumFunctionOnSet(EpochRewards, queue) = SumFunctionOnSet(part, K)
    <2>1. part = [k \in K |-> SumFunctionOnSet(EpochRewards, PartOf(queue, DenomOf, k))]
        BY DEF RewardsIn
    <2> HIDE DEF K, part
    <2> QED BY <1>2, <1>3, <2>1, SumByKey
<1> HIDE DEF K, part, ratio
<1>6. /\ SumFunctionOnSet(part, K) \in Nat /\ SumFunctionOnSet(ratio, K) \in Nat
      /\ 100 * SumFunctionOnSet(part, K) <= n * SumFunctionOnSet(ratio, K)
    BY <1>1, <1>2, <1>4, SumScaled
<1> DEFINE a == SumFunctionOnSet(part, K)
           b == SumFunctionOnSet(ratio, K)
<1>7. a \in Nat /\ b \in Nat /\ b <= 100 /\ 100 * a <= n * b
    BY <1>2, <1>6
<1>8. a <= n
    <2> HIDE DEF a, b
    <2>1. b * n \in Nat /\ b * n <= 100 * n
        BY <1>1, <1>7, Products
    <2>2. n * b = b * n
        BY <1>1, <1>7
    <2> HIDE DEF n
    <2> DEFINE m == b * n
    <2>3. m \in Nat /\ m <= 100 * n /\ 100 * a <= m
        BY <1>7, <2>1, <2>2
    <2> HIDE DEF m
    <2> QED BY <1>1, <1>7, <2>3
<1> QED BY <1>5, <1>7, <1>8

\* How much the rewards of all stakings grow in a step.
Growth == [i \in StakingId |-> staking'[i].rewards - staking[i].rewards]
LEMMA GrowthStep == ASSUME FarmingInv, FarmingNext PROVE SumFunction(Growth) <= params.reward
<1> DEFINE J == StakingId
<1>1. IsFiniteSet(J) /\ params.reward \in Nat /\ \A i \in J : staking[i].rewards \in Nat
    BY FarmingTypes, StakingFacts, FarmingAssumption
<1>2. SumFunction(Growth) = SumFunctionOnSet(Growth, J)
    BY SameSums DEF Growth
<1>3. ASSUME \A i \in J : staking'[i].rewards = staking[i].rewards PROVE SumFunction(Growth) <= params.reward
    <2>1. \A i \in J : Growth[i] = 0
        <3>1. \A i \in J : Growth[i] = staking[i].rewards - staking[i].rewards
            BY <1>3 DEF Growth
        <3> QED BY <1>1, <3>1
    <2>2. SumFunctionOnSet(Growth, J) = 0
        BY <1>1, <2>1, SumZero
    <2> QED BY <1>1, <1>2, <2>2
<1>4. ASSUME NEW i \in J, NEW a \in Staker, NEW d \in Denom, NEW amount \in Amount,
             NEW p \in Params, NEW lock \in p.locks, Stake(i, a, d, amount, lock)
      PROVE  SumFunction(Growth) <= params.reward
    <2>1. PICK s : s.rewards = 0 /\ staking[i].status = "NONE" /\ staking' = [staking EXCEPT ![i] = s]
        BY <1>4 DEF Stake, IsNextStaking
    <2>2. staking[i].rewards = 0
        BY <2>1 DEF FarmingInv, StakingsInv
    <2>3. \A j \in J : staking'[j] = IF j = i THEN s ELSE staking[j]
        BY <2>1, FarmingTypes DEF Stakings
    <2> QED BY <1>3, <2>1, <2>2, <2>3
<1>5. ASSUME NEW i \in J, Unstake(i) PROVE SumFunction(Growth) <= params.reward
    <2>1. staking' = [staking EXCEPT ![i].status = "UNSTAKED", ![i].pending = 0]
        BY <1>5 DEF Unstake
    <2>2. \A j \in J : staking'[j].rewards = staking[j].rewards
        <3>1. \A j \in J : staking[j] \in StakingRecord
            BY FarmingTypes, StakingFacts
        <3> QED BY <2>1, <3>1, FarmingTypes DEF Stakings, StakingRecord
    <2> QED BY <1>3, <2>2
<1>6. ASSUME NEW S, PayRewards(S) PROVE SumFunction(Growth) <= params.reward
    <2>1. staking' = [i \in J |-> [staking[i] EXCEPT !.pending = IF i \in S THEN 0 ELSE staking[i].pending]]
        BY <1>6 DEF PayRewards
    <2>2. \A j \in J : staking'[j].rewards = staking[j].rewards
        <3>1. \A j \in J : staking[j] \in StakingRecord
            BY FarmingTypes, StakingFacts
        <3> QED BY <2>1, <3>1 DEF StakingRecord
    <2> QED BY <1>3, <2>2
<1>7. ASSUME NEW p \in Params, UpdateParams(p) PROVE SumFunction(Growth) <= params.reward
    BY <1>3, <1>7 DEF UpdateParams
<1>8. ASSUME NEW amount \in Grant, Fund(amount) PROVE SumFunction(Growth) <= params.reward
    BY <1>3, <1>8 DEF Fund
<1>9. ASSUME EndBlocker PROVE SumFunction(Growth) <= params.reward
    <2>1. \/ EpochIsOpen /\ staking' = Accrued /\ \A i \in queue : IsEligibleAsset(staking[i].denom)
          \/ staking' = Matured
        BY <1>9 DEF EndBlocker, HandleEpoch, EpochOver
    <2>2. CASE staking' = Matured
        BY <1>3, <2>2, MaturedFacts
    <2>3. CASE EpochIsOpen /\ staking' = Accrued /\ \A i \in queue : IsEligibleAsset(staking[i].denom)
        <3>1. queue \in SUBSET J
            BY FarmingTypes
        <3>2. \A i \in queue : EpochRewards[i] \in Nat
            BY <2>3, AccruedFacts DEF EpochRewards
        <3>3. \A i \in J : staking'[i].rewards = staking[i].rewards + IF i \in queue THEN EpochRewards[i] ELSE 0
            <4> TAKE i \in J
            <4>1. Earned(staking, Accrued, i, IF i \in queue THEN EpochReward(i) ELSE 0)
                BY <2>3, AccruedFacts
            <4>2. Accrued[i].rewards = staking[i].rewards + IF i \in queue THEN EpochReward(i) ELSE 0
                BY <4>1 DEF Earned
            <4> QED BY <2>3, <4>2 DEF EpochRewards
        <3>4. /\ \A i \in queue : Growth[i] = EpochRewards[i]
              /\ \A i \in J \ queue : Growth[i] = 0
            <4>1. ASSUME NEW i \in J PROVE Growth[i] = IF i \in queue THEN EpochRewards[i] ELSE 0
                <5> DEFINE x == staking[i].rewards
                           y == IF i \in queue THEN EpochRewards[i] ELSE 0
                <5>1. Growth[i] = (x + y) - x /\ x \in Nat /\ y \in Nat
                    BY <1>1, <3>2, <3>3 DEF Growth
                <5> HIDE DEF x, y
                <5>2. Growth[i] = y
                    BY <5>1
                <5> QED BY <5>2 DEF y
            <4> QED BY <3>1, <4>1
        <3>5. SumFunctionOnSet(Growth, J) = SumFunctionOnSet(EpochRewards, queue)
            BY <1>1, <3>1, <3>2, <3>4, SumPart
        <3>6. SumFunctionOnSet(EpochRewards, queue) <= params.reward
            BY <2>3, AllRewards
        <3> QED BY <1>2, <3>5, <3>6
    <2> QED BY <2>1, <2>2, <2>3
<1> QED BY <1>4, <1>5, <1>6, <1>7, <1>8, <1>9 DEF FarmingNext, Claim, ClaimAll

\* A block gives away at most the reward of an epoch, all assets and stakings together, after
\* roundings (OnEpochEnded, GetEpochReward).
THEOREM EpochRewardIsBoundedHolds == FarmingSpec => EpochRewardIsBounded
<1>1. FarmingInv /\ [FarmingNext]_farmingVars
      => [SumFunction([i \in StakingId |-> staking'[i].rewards - staking[i].rewards]) <= params.reward]_farmingVars
    BY GrowthStep DEF Growth
<1> QED BY <1>1, FarmingInvariant, PTL DEF FarmingSpec, EpochRewardIsBounded
=============================================================================
