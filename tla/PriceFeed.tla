----------------------------- MODULE PriceFeed ------------------------------
(***************************************************************************)
(* The exchange prices of one validator, x/oracle/types and providers: a   *)
(* goroutine per exchange keeps a websocket open and caches the last quote *)
(* it was sent; a vote averages the quotes made since the validator's      *)
(* previous vote.  The operators map the record of a feed to the next one, *)
(* and PriceOracle keeps the records.                                      *)
(*                                                                         *)
(* A quote carries the time at which the exchange made it.  Only its order *)
(* to two times matters, and it is kept as an age: "new", after the time   *)
(* of the block that is being decided; "due", not after that but after     *)
(* the last block that the validator voted on; "past", before that block.  *)
(* Messages without a symbol or a price change nothing.                    *)
(***************************************************************************)
EXTENDS Integers, FiniteSets, Functions

CONSTANTS
    Exchange,   \* the providers that are started
    Quote       \* per exchange: the prices that it may quote

Age == {"new", "due", "past"}
NoQuote == [price |-> 0, age |-> "past"]

\* A process starts without connections and quotes; lastPriceSyncTS is 0.
NewFeed == [connected |-> {}, cache |-> [x \in Exchange |-> NoQuote], synced |-> FALSE]

\* Subscribe: dialling, and a read that fails.  What was cached stays.
Dial(f, x) == [f EXCEPT !.connected = @ \union {x}]
Close(f, x) == [f EXCEPT !.connected = @ \ {x}]

\* CachePrice: the quote received last replaces another one, whenever it was made.
CachePrice(f, x, price, age) == [f EXCEPT !.cache[x] = [price |-> price, age |-> age]]

\* GetPrices: the exchanges with a quote made after lastPriceSyncTS.
GetPrices_All(f) == {x \in Exchange : f.cache[x] # NoQuote}
GetPrices(f) == {x \in Exchange : f.cache[x] # NoQuote /\ (f.cache[x].age # "past" \/ ~f.synced)}

\* getAllVolumeWeightedPrices: their average, which has no weights; 0 without a quote.
AveragePrice(f) ==
    LET S == GetPrices(f)
    IN  IF S = {} THEN 0 ELSE SumFunction([x \in S |-> f.cache[x].price]) \div Cardinality(S)

WithAge(f, S, age) == [f EXCEPT !.cache = [x \in Exchange |-> IF x \in S THEN [@[x] EXCEPT !.age = age] ELSE @[x]]]
QuotesOf(f, age) == {x \in Exchange : f.cache[x] # NoQuote /\ f.cache[x].age = age}

\* The validator votes: lastPriceSyncTS becomes the time of the block.
Sync(f) == [WithAge(f, QuotesOf(f, "due"), "past") EXCEPT !.synced = TRUE]

\* The time of the next block: quotes of S were not made after it.
NextTime(f, S) == WithAge(f, S, "due")
=============================================================================
