--------------------------- MODULE MCPriceOracle ---------------------------
(* Prices, headers and agreement: an instance of PriceOracle for TLC. *)
EXTENDS PriceOracle, TLC

CONSTANTS v1, v2, v3, a1, f1, b1, b2, b3, b4, c3, d1, d2, d3, d4, d5, e2, e3, e4, e5, e6,
    x1, x2

\* A block needs v1 and another validator.  A commit of all three may be tied, v1 against the
\* others; in a commit of two v1 has two thirds of the stake.
MCPower == v1 :> 2 @@ v2 :> 1 @@ v3 :> 1

\* A Bitcoin chain for each family of behaviours: a single block, with prices of all validators
\* and one exchange; a single block, with the price of one validator and two exchanges; and,
\* without prices, a chain with a fork of one block and a chain that is replaced from its second
\* block on.  With d1 as the best header, a node on d5 that moves to e6 between two reads reports
\* d2, d3 and e4, or d2, e3 and e4, lists that are stored half way.
MCParent ==
    a1 :> NoBlock @@ f1 :> NoBlock @@
    b1 :> NoBlock @@ b2 :> b1 @@ b3 :> b2 @@ b4 :> b3 @@ c3 :> b2 @@
    d1 :> NoBlock @@ d2 :> d1 @@ d3 :> d2 @@ d4 :> d3 @@ d5 :> d4 @@
    e2 :> d1 @@ e3 :> e2 @@ e4 :> e3 @@ e5 :> e4 @@ e6 :> e5

\* Over the long fork nodes catch up in large steps, and one of v2 and v3 does not take part.
LongFork ==
    Chain[tip[v1]][1] = d1 =>
        /\ Range(tip) \cap {d3, d4, e2, e3} = {}
        /\ \E v \in {v2, v3} : tip[v] = d1 /\ votes[v] = NoVote

Families ==
    /\ LongFork
    /\ \A v \in Validators :
           IF v \notin Fed THEN tip[v] # a1 => votes[v].price = 0 /\ commit[v].price = 0
           ELSE CASE tip[v] = f1 -> TRUE
                  [] tip[v] = a1 -> feed[v].connected \subseteq {x1}
                  [] OTHER -> /\ feed[v].connected = {}
                              /\ votes[v].height > 0 \/ commit[v].height > 0 => feed[v].synced

\* Each exchange has a price of its own.
MCQuote == x1 :> {3} @@ x2 :> {5}

\* Validators of equal power are interchangeable.
Symmetry == Permutations({v2, v3})
=============================================================================
