---------------------------- MODULE PriceOracle ----------------------------
(***************************************************************************)
(* The vote extensions of x/oracle: with its precommit every validator     *)
(* reports an average exchange price and the headers its own Bitcoin node  *)
(* has confirmed since the best header in the state; the pre-blocker of    *)
(* the next block merges the extensions of the commit, weighted by stake,  *)
(* and stores a price and a chain of headers.  The bridge reads the depth  *)
(* of a deposit off that chain.                                            *)
(*                                                                         *)
(* Every validator runs a replica of the state.  The replicas apply the    *)
(* same commit, but Go iterates over the map of header lists in an order   *)
(* of its own on each of them, so the model lets each replica choose.      *)
(* Validators follow the code; their Bitcoin nodes lag and reorganize.     *)
(***************************************************************************)
EXTENDS Integers, Sequences, FiniteSets, FiniteSetsExt, SequencesExt, Functions, PriceFeed

CONSTANTS
    Validators, Power,      \* the validator set and the power of each
    Enabled,                \* validators with enable = true in [oracle]
    Blocks, Parent,         \* Bitcoin blocks, as trees
    NoBlock,                \* no block: the parent of the first one
    Confirmation,           \* depth at which a block is reported (6)
    Window,                 \* headers reported at once (10)
    Fed,                    \* validators whose exchange feeds are followed (PriceFeed)
    Prices,                 \* what the exchanges of the others may average to
    EnableHeight,           \* VoteExtensionsEnableHeight of the consensus
    MaxHeight               \* bound on the height; see NextHeight

\* Powers, the trees of blocks and the bounds are well formed; the first block has a commit.
\* No block is among its own ancestors.
ASSUME OracleAssumption ==
    /\ IsFiniteSet(Validators) /\ IsFiniteSet(Exchange)
    /\ Power \in [Validators -> Nat \ {0}]
    /\ Enabled \subseteq Validators
    /\ Parent \in [Blocks -> Blocks \cup {NoBlock}] /\ NoBlock \notin Blocks
    /\ \A S \in SUBSET Blocks : S # {} => \E b \in S : Parent[b] \notin S
    /\ Confirmation \in Nat \ {0} /\ Window \in Nat \ {0}
    /\ Fed \subseteq Validators /\ Prices \subseteq Nat \ {0} /\ Quote \in [Exchange -> SUBSET (Nat \ {0})]
    /\ EnableHeight \in Nat /\ MaxHeight \in Nat /\ MaxHeight > EnableHeight + 1

VARIABLES
    height,     \* the block being decided
    tip,        \* per validator: the tip of the main chain of its node
    votes,      \* extensions of the precommits for the block being decided
    commit,     \* extensions in the commit of the previous block
    feed,       \* per validator of Fed: its connections and cached quotes
    store       \* per validator: price, best, headers and index of its replica

vars == <<height, tip, votes, commit, feed, store>>

-----------------------------------------------------------------------------
(* Bitcoin: the chain that ends in a block; a block at position h of it has
   height h. *)
Chain ==
    LET chain[b \in Blocks] == IF Parent[b] = NoBlock THEN <<b>> ELSE Append(chain[Parent[b]], b)
    IN  [b \in Blocks |-> chain[b]]

HeightOf(b) == IF b = NoBlock THEN 0 ELSE Len(Chain[b])

\* A node moves to a chain with more work, from the same genesis block.
Longer(b) == {c \in Blocks : HeightOf(c) > HeightOf(b) /\ Chain[c][1] = Chain[b][1]}

\* The genesis blocks over which two chains never differ in a block that both have confirmed.
ShortForks ==
    LET Confirmed(b) == SubSeq(Chain[b], 1, Len(Chain[b]) - Confirmation + 1)
    IN  {g \in Blocks : \A x, y \in {g} \cup Longer(g) :
            IsPrefix(Confirmed(x), Confirmed(y)) \/ IsPrefix(Confirmed(y), Confirmed(x))}

PowerOf(vs) == SumFunction([v \in vs |-> Power[v]])

NoVote == [height |-> -1, price |-> 0, blocks |-> <<>>]

EmptyExtension == [height |-> 0, price |-> 0, blocks |-> <<>>]

voteExtensionEnabled(h) == EnableHeight # 0 /\ h > EnableHeight

\* Only the parity of the height and its place above EnableHeight matter.
NextHeight == IF height < MaxHeight THEN height + 1 ELSE height - 1

-----------------------------------------------------------------------------
(* The headers a validator reports.  They are read from its node one by one,
   and the node may move from the chain of t to the one of u between two of
   these calls: after the block count if k < 0, else after the best header and
   the headers up to height k. *)
HeaderAt(t, u, k, h) == IF h <= k THEN Chain[t][h] ELSE Chain[u][h]

BestAt(t, u, k, h) == IF k < 0 THEN Chain[u][h] ELSE Chain[t][h]

getBitcoinHeaders_EveryBlock(localBest, t, u, k) ==
    LET bestHeight == HeightOf(t) - Confirmation + 1
        best == BestAt(t, u, k, bestHeight)
        last == Min({bestHeight, HeightOf(localBest) + Window})
    IN  IF bestHeight < 1 THEN <<>>
        ELSE IF localBest = NoBlock \/ localBest = Parent[best] THEN <<best>>
        ELSE IF localBest = best THEN <<>>
        ELSE [i \in 1..Max({0, last - HeightOf(localBest)}) |->
                 HeaderAt(t, u, k, HeightOf(localBest) + i)]

getBitcoinHeaders(localBest, t, u, k) ==
    LET bestHeight == HeightOf(t) - Confirmation + 1
        best == BestAt(t, u, k, bestHeight)
        last == Min({bestHeight, HeightOf(localBest) + Window})
    IN  IF height % 2 = 0 \/ bestHeight < 1 THEN <<>>
        ELSE IF localBest = NoBlock \/ localBest = Parent[best] THEN <<best>>
        ELSE IF localBest = best THEN <<>>
        ELSE [i \in 1..Max({0, last - HeightOf(localBest)}) |->
                 HeaderAt(t, u, k, HeightOf(localBest) + i)]

\* The validator's average of what its exchanges have sent since its last
\* vote, 0 when they have sent nothing.
getAllVolumeWeightedPrices(v) == IF v \in Fed THEN {AveragePrice(feed[v])} ELSE Prices \cup {0}

\* Extensions are made by validators with enable = true above EnableHeight.
Extends(v) == v \in Enabled /\ voteExtensionEnabled(height)

\* If a call of the node fails, the price is reported without headers.
Extension(v, p, read) ==
    IF Extends(v)
    THEN [height |-> height, price |-> p,
          blocks |-> IF read.ok THEN getBitcoinHeaders(store[v].best, tip[v], read.to, read.at) ELSE <<>>]
    ELSE EmptyExtension

\* The other validators count a precommit only if its extension names the
\* height.  Headers carry their own proof of work.
VerifyVoteExtension(ext) == voteExtensionEnabled(height) => ext.height = height

-----------------------------------------------------------------------------
(* What the pre-blocker makes of the commit. *)
InCommit == {v \in Validators : commit[v] # NoVote}
totalStake == PowerOf(InCommit)

PriceReporters == {v \in InCommit : commit[v].price > 0}

\* The stake-weighted average of the prices, if those who report one have
\* half of the stake in the commit; 0 otherwise.
finalPrice ==
    LET vp == PowerOf(PriceReporters)
    IN  IF vp * 2 >= totalStake /\ vp > 0
        THEN SumFunction([v \in PriceReporters |-> commit[v].price * Power[v]]) \div vp
        ELSE 0

ReportersOf(list) == {v \in InCommit : commit[v].blocks = list}

\* The lists of headers with half of the stake, of which the loop takes the
\* first one that the iteration over the map meets; none if there is none.
HeaderLists == {commit[v].blocks : v \in InCommit}

SelectedHeaders_AThird ==
    LET third == {list \in HeaderLists : PowerOf(ReportersOf(list)) * 3 >= totalStake}
    IN  IF third = {} THEN {<<>>} ELSE third

SelectedHeaders ==
    LET half == {list \in HeaderLists : PowerOf(ReportersOf(list)) * 2 >= totalStake}
    IN  IF half = {} THEN {<<>>} ELSE half

\* Length of the part of the list that continues the chain of best.
Linked_Unchecked(best, list) == Len(list)

Linked(best, list) ==
    Max({n \in 0..Len(list) : \A i \in 1..n :
            IF i = 1 THEN best \in {NoBlock, Parent[list[1]]}
                     ELSE Parent[list[i]] = list[i-1]})

\* The headers are stored one by one until one does not continue the chain;
\* best moves only if all of them do.  The lists come sorted by height.
SetBlockHeaders(s, list) ==
    LET n == Linked(s.best, list)
        new == {list[i] : i \in 1..n}
    IN  [s EXCEPT !.headers = @ \cup new,
                  !.index = [h \in DOMAIN @ |->
                                IF \E b \in new : HeightOf(b) = h
                                THEN CHOOSE b \in new : HeightOf(b) = h ELSE @[h]],
                  !.best = IF n > 0 /\ n = Len(list) THEN list[n] ELSE @]

\* The pre-blocker of one replica, which picks list.
PreBlocker(s, list) ==
    SetBlockHeaders([s EXCEPT !.price = IF finalPrice > 0 THEN finalPrice ELSE @], list)

-----------------------------------------------------------------------------
Init ==
    /\ height = 1
    /\ \E b \in Blocks : Parent[b] = NoBlock /\ tip = [v \in Validators |-> b]
    /\ votes = [v \in Validators |-> NoVote]
    /\ commit = [v \in Validators |-> NoVote]
    /\ feed = [v \in Fed |-> NewFeed]
    /\ store = [v \in Validators |->
                  [price |-> 0, best |-> NoBlock, headers |-> {},
                   index |-> [h \in {HeightOf(b) : b \in Blocks} |-> NoBlock]]]

\* The Bitcoin node of v follows the network, or switches to another chain.
BitcoinMoves(v) ==
    /\ \E b \in Longer(tip[v]) : tip' = [tip EXCEPT ![v] = b]
    /\ UNCHANGED <<height, votes, commit, feed, store>>

\* The chain that the node of v is on after the reads, the height at which it got there, and
\* whether all calls succeed.  Nothing is read at an even height.
Reads(v) ==
    [to : {tip[v]}, at : {0}, ok : BOOLEAN] \cup
    [to : {b \in Longer(tip[v]) : height % 2 = 1},
     at : {-1} \cup HeightOf(store[v].best)..HeightOf(tip[v]), ok : {TRUE}]

\* v precommits; its node may move while the headers are read.
ExtendVote(v) ==
    /\ votes[v] = NoVote
    /\ \E p \in getAllVolumeWeightedPrices(v), read \in Reads(v) :
         LET ext == Extension(v, p, read)
         IN  /\ VerifyVoteExtension(ext)
             /\ votes' = [votes EXCEPT ![v] = ext]
             /\ tip' = [tip EXCEPT ![v] = read.to]
    /\ feed' = IF v \in Fed /\ Extends(v) THEN [feed EXCEPT ![v] = Sync(@)] ELSE feed
    /\ UNCHANGED <<height, commit, store>>

\* The exchanges of v: connections open and fail, quotes arrive, in order or late.
Subscribe(v, x) ==
    /\ \/ x \notin feed[v].connected /\ feed' = [feed EXCEPT ![v] = Dial(@, x)]
       \/ x \in feed[v].connected /\ feed' = [feed EXCEPT ![v] = Close(@, x)]
       \/ /\ x \in feed[v].connected
          /\ \E price \in Quote[x], age \in Age : feed' = [feed EXCEPT ![v] = CachePrice(@, x, price, age)]
    /\ UNCHANGED <<height, tip, votes, commit, store>>

\* The process of v restarts, with the state of its last block and without a cache.
Restart(v) ==
    /\ feed' = [feed EXCEPT ![v] = NewFeed]
    /\ UNCHANGED <<height, tip, votes, commit, store>>

\* The block is decided with the precommits of more than two thirds, whoever
\* they are, and every replica executes it.  Its header holds the hash of the
\* state, so no block is decided by replicas that differ.
FinalizeBlock ==
    /\ \A v, w \in Validators : store[v] = store[w]
    /\ \E C \in SUBSET {v \in Validators : votes[v] # NoVote} :
         /\ PowerOf(C) * 3 > PowerOf(Validators) * 2
         /\ commit' = [v \in Validators |-> IF v \in C THEN votes[v] ELSE NoVote]
    /\ IF voteExtensionEnabled(height)
       THEN \E pick \in [Validators -> SelectedHeaders] :
              store' = [v \in Validators |-> PreBlocker(store[v], pick[v])]
       ELSE store' = store
    /\ votes' = [v \in Validators |-> NoVote]
    /\ height' = NextHeight
    /\ \E due \in [Fed -> SUBSET Exchange] :
         /\ \A v \in Fed : due[v] \subseteq QuotesOf(feed[v], "new")
         /\ feed' = [v \in Fed |-> NextTime(feed[v], due[v])]
    /\ UNCHANGED tip

Next ==
    \/ \E v \in Validators : BitcoinMoves(v)
    \/ \E v \in Validators : ExtendVote(v)
    \/ \E v \in Fed, x \in Exchange : Subscribe(v, x)
    \/ \E v \in Fed : Restart(v)
    \/ FinalizeBlock

Spec == Init /\ [][Next]_vars

-----------------------------------------------------------------------------
(* Every variable has its type; a stored price is at most the largest reported one. *)
TypeOK ==
    LET Heights == {HeightOf(b) : b \in Blocks}
        Price == {p \in Nat : \E q \in Prices \cup {0} \cup UNION {Quote[x] : x \in Exchange} : p <= q}
    IN  /\ height \in 1..MaxHeight
        /\ feed \in [Fed -> [connected : SUBSET Exchange, synced : BOOLEAN,
                             cache : [Exchange -> [price : Price, age : Age]]]]
        /\ tip \in [Validators -> Blocks]
        /\ \A v \in Validators : \A ext \in {votes[v], commit[v]} :
             /\ ext.height \in -1..MaxHeight /\ ext.price \in Price
             /\ ext.blocks \in Seq(Blocks) /\ Len(ext.blocks) <= Window
        /\ store \in [Validators ->
             [price : Price, best : Blocks \cup {NoBlock},
              headers : SUBSET Blocks, index : [Heights -> Blocks \cup {NoBlock}]]]

\* Exactly half of the stake in the commit reports one list, the other half another.
Tied ==
    \E v, w \in InCommit :
        /\ commit[v].blocks # commit[w].blocks
        /\ \A list \in {commit[v].blocks, commit[w].blocks} : PowerOf(ReportersOf(list)) * 2 = totalStake

(* Replicas that execute the same blocks hold the same prices and headers,
   whatever the order in which each of them iterates over a map: they never
   differ in a price, and their headers come to differ only if the commit is
   tied, each half of its stake with a list of its own. *)
ReplicasAgree ==
    [][\A v, w \in Validators : store'[v] # store'[w] =>
          store'[v].price = store'[w].price /\ (store[v] = store[w] => Tied)]_vars

(* NOT an invariant, checked in no run: all replicas hold the "canonical
   stake-weighted average prices and block headers" (extension.go:252).  It
   fails after a tied commit, of which each replica stores the list that it
   meets first (extension.go:403). *)
ReplicasNeverDiffer == \A v, w \in Validators : store[v] = store[w]

(* The best header is only ever replaced by a descendant, though Bitcoin
   nodes reorganize, disagree, and change chains between two reads. *)
BestOnlyExtends ==
    [][\A v \in Validators :
         store'[v].best # store[v].best /\ store[v].best # NoBlock
           => store[v].best \in Range(Chain[store'[v].best])]_vars

(* From the first stored header up to the best one, the header stored for a
   height is the ancestor of the best header at that height, also after a
   list was abandoned half way with some of its headers stored. *)
BestChainIsIndexed ==
    \A v \in Validators : LET s == store[v] IN
        \A h \in DOMAIN s.index :
            s.index[h] # NoBlock /\ h <= HeightOf(s.best)
              => /\ s.index[h] = Chain[s.best][h]
                 /\ \A g \in h..HeightOf(s.best) : s.index[g] # NoBlock

(* As long as forks are shorter than Confirmation, headers that half of the
   stake reports still fit the best header when they are applied, one block
   after they were read and two after the state they were computed from. *)
ReportedHeadersFit ==
    \A v \in Validators, list \in SelectedHeaders :
        voteExtensionEnabled(height) /\ Chain[tip[v]][1] \in ShortForks
          => Linked(store[v].best, list) = Len(list)

(* The chain of headers is sound: it is indexed, and what is about to be
   stored continues it, in a state of the right types. *)
HeadersAreSound == TypeOK /\ BestChainIsIndexed /\ ReportedHeadersFit

(* A vote of v reports a price between quotes of its exchanges that were made
   after the last block it voted on, if it remembers that block. *)
ReportIsFresh(v) ==
    votes[v] = NoVote /\ votes'[v].price > 0 =>
        LET f == feed[v]
            fresh == {f.cache[x].price : x \in {y \in Exchange : f.synced => f.cache[y].age # "past"}} \ {0}
        IN  \E a, b \in fresh : a <= votes'[v].price /\ votes'[v].price <= b

(* A price changes only to one that lies between prices reported in the
   commit, by validators with at least half of its stake, and what they report
   lies between quotes that are not stale, although caches keep the quotes of
   exchanges that are gone, and late quotes replace newer ones. *)
PriceIsBracketed ==
    [][/\ \A v \in Validators : store'[v].price # store[v].price =>
            /\ PowerOf(PriceReporters) * 2 >= totalStake
            /\ \E a, b \in PriceReporters :
                 commit[a].price <= store'[v].price /\ store'[v].price <= commit[b].price
       /\ \A v \in Fed : ReportIsFresh(v)]_vars
=============================================================================
