# TLA+ verification of bitway

bitway is a Cosmos SDK chain that lends against Bitcoin collateral, bridges
Bitcoin and runes, and runs the threshold-key network that both need. This
directory models its modules (`src/x/*`), checks the models with TLC and proves
the most important results with TLAPS. Paths below are relative to `src/`.

1. [The system](#1-the-system)
2. [Modules and how they correspond to the code](#2-modules-and-how-they-correspond-to-the-code)
3. [Runs: what is checked](#3-runs-what-is-checked)
4. [Bounds and fairness](#4-bounds-and-fairness)
5. [Proofs](#5-proofs)
6. [Where code and comments disagree](#6-where-code-and-comments-disagree)
7. [What is not modelled](#7-what-is-not-modelled)
8. [Plan](#8-plan)

## 1. The system

The program is a replicated state machine. A block is: the pre-blocker of
`x/oracle`, begin blockers, the messages of the block one after the other, and
end blockers in the order fixed by `app/app.go` (tss, btcbridge, liquidation,
dlc, lending, ..., oracle, incentive, farming). Inside a block everything is
sequential. What makes it hard is what happens *between* blocks: most operations
are started by a message, continued by off-chain parties (threshold signers,
relayers, Bitcoin miners, validators) who answer in any order, late, twice or
never, and finished by an end blocker that works from what is in the store by
then.

| Component | State | Operations | Talks to | What is hard |
|---|---|---|---|---|
| Threshold keys, `x/tss` | DKG requests and completions, refreshing requests and completions | `MsgCompleteDKG`, `MsgRefresh`, `MsgCompleteRefreshing`, end blocker | called by dlc, lending; calls back completion and timeout handlers | overlapping requests, the last answer against the timeout, requests checked at one time and applied at another |
| Threshold signing, `x/tss` | signing requests | `InitiateSigningRequest`, `MsgSubmitSignatures` | lending, dlc, liquidation | no timeout: progress needs the signers; handlers run against a changed state |
| Events and attestations, `x/dlc` | events, queue of pending events and its counter, attestations | nonce handling, `GetAvailableLendingEvent`, `TriggerDLCEvent`, attestation handling | lending, tss | one nonce must never sign two outcomes; outcome read when the signature arrives |
| Oracles, nonces, DCMs, liveness, `x/dlc` | oracles, DCMs, nonces, liveness records, params | end blocker (nonce generation, liveness checks), tss callbacks, params updates | tss | overlapping DKGs, late answers, changing allow lists |
| Loans, `x/lending` | loans, DLC metadata, authorizations, deposit logs, redemptions, liquidation queue | `MsgApply`, `MsgSubmitCets`, `MsgSubmitDepositTransaction`, `MsgRedeem`, `MsgRepay`, signature handlers, end blocker with four loops | dlc, tss, liquidation, oracle, pool | redemption against approval, signatures and attestations in either order, queue edited while iterated |
| Lending pool, `x/lending` | pool counters, tranches, shares, bank balances | deposits, withdrawals, borrowing, interest in every begin blocker, repayment, liquidation, rebalancing | loans, bank | counters kept in several places, rounding, amounts fixed at one time and booked at another |
| Auctions, `x/liquidation` | liquidations, records, settlement transactions | `MsgLiquidate`, end blocker, settlement signatures | lending, oracle, btcbridge (fee rate), tss | two-way conversions with truncation, dust, missing fee rate |
| Bridge, `x/btcbridge` | UTXOs and their locks, withdrawal requests and queue, signing requests, IBC queue, minted history | deposits, withdrawals, batches, signatures, confirmations, consolidation, vault transfer | bank, IBC, oracle headers | relayers report anything in any order and again; one pool of UTXOs is used by four builders |
| Rate limit, `x/btcbridge` | global and per-address quota and use | check on packet receipt, charge, epochs, params updates | bridge | checked in one block, charged in another |
| Vaults, `x/btcbridge` | DKG and refreshing requests of its own, vault list inside the params, latest version | DKG completion, `MsgUpdateParams`, vault transfer | tss allow list | a proposal carries the vaults its author saw |
| Price and headers, `x/oracle` | price, best Bitcoin header, header index; in memory: connections and cached quotes per exchange, time of the last vote | a goroutine per exchange, vote extensions, their verification, pre-blocker | bridge, lending | validators see different chains and exchanges; replicas must agree; the cache outlives connections but not the process |
| Farming, `x/farming` | stakings, totals, epoch, queue | stake, unstake, claim, params updates, end blocker | bank | lock and epoch end in one block; divisions by totals |
| Incentives, `x/incentive` | params, coins of the module account, rewards per address, statistics | deposit and withdrawal rewards, params updates | called by hooks of the bridge, which ignore the errors; bank | funds run out in the middle of a batch; denominations change while amounts are added |
| Referrals; app; crypto; queries | | | | not modelled, see section 7 |

The properties that make each component correct are the ones of section 3; what
can go wrong that a unit test would hardly reach is the `hazards` list of
`PROJECT.json`, each with the properties that would notice.

## 2. Modules and how they correspond to the code

One module per component, one action per message handler, callback or
end-blocker step; the comment of every definition names the function it
translates and `PROJECT.json` ("map") gives its lines. Phases (`phase`, `todo`,
`step`) order the actions of a block: end-blocker loops take one step per item
over the snapshot they iterate and no message comes in between.

| Module | Code | Remarks |
|---|---|---|
| `Tss` | `x/tss/keeper/{dkg,refreshing,msg_server}.go`, `x/tss/module/abci.go` | A list of public keys is one value; time 0 is Go's zero time |
| `LoanDlc` | `x/lending/keeper/{msg_server_loan,approval,liquidation,repayment,redemption,authorization,loan}.go`, `x/lending/module/abci.go`, `x/dlc/keeper/{event,attestation,nonce}.go`, `x/tss/keeper/signing.go`, `x/lending/types/{dlc,taproot}.go`, `x/dlc/types/dlc.go` | Composition of loans, events and signing. A transaction is filed under the vault its first message names, whether it pays it or not, and a redemption names any of its outputs; a signature on it is good for every vault with the same keys (`KeyOf`). Amounts are in `LendingPool`; what the pool answers is an input |
| `Collateral` | abstract | What a vault promises: lent against once, released along the path the fate of the loan calls for. `LoanDlc` refines it, for vaults whose deposits are well filed (`WellFiled`) |
| `LendingPool` | `x/lending/keeper/{pool,msg_server_pool,...}.go`, `x/lending/types/lending.go` | `LegacyDec` arithmetic with its rounding, `Precision` a constant. Pool counters and the coins in the bank are separate variables |
| `Liquidation` | `x/liquidation/keeper/liquidation.go`, `x/liquidation/types/bitcoin.go`, `x/liquidation/module/abci.go` | The settlement transaction with its outputs, change and both fee modes |
| `Bridge` | `x/btcbridge/keeper/{deposit,withdraw,utxo,transfer,consolidation,ibc,...}.go`, `x/btcbridge/types/{bitcoin,runes}.go` | One rune; selection of UTXOs, change, batches, consolidation, transfer |
| `Incentive` | `x/incentive/keeper/{reward,params}.go`, `x/incentive/types/params.go` | Operators on the state of `x/incentive`, which `Bridge` keeps and changes in its hooks (`x/btcbridge/keeper/hooks.go`) |
| `UtxoLife` | abstract | Life of an output: free, locked, spent, never back. `Bridge` refines it |
| `RateLimit` | `x/btcbridge/keeper/rate_limit.go` and its callers | History variables record what left in an epoch |
| `BridgeVaults` | `x/btcbridge/keeper/{dkg,refreshing,transfer,msg_server}.go` | `INSTANCE Tss`: the bridge's copy of the request machinery refines the one of `x/tss` |
| `DlcOracle` | `x/dlc/keeper/{tss,nonce,dcm,oracle,liveness}.go`, `x/dlc/module/abci.go` | `INSTANCE Tss`: what x/dlc asks of x/tss is a behaviour of `Tss`. The allow list is a sequence, which may name a participant twice |
| `PriceFeed` | `x/oracle/types/{cache,provider}.go`, `x/oracle/module/service.go` | Operators on the connections and the cache of one validator. The time of a quote is kept as its order to the current block and to the last vote |
| `PriceOracle` | `x/oracle/abci/extension.go`, `x/oracle/keeper` | One replica of the store per validator; map iteration is a choice of the replica. A Bitcoin node may fail, or switch to another chain before or between the reads of a report. Validators of `Fed` have a `PriceFeed`, which fails, reconnects and restarts; the others report any of `Prices`. Once replicas differ no block is decided any more: what a chain does after that is not modelled |
| `Farming` | `x/farming/keeper`, `x/farming/types/farming.go` | Time in ticks; totals, queue and bank balance side by side |
| `MC*` | | Instances for TLC |
| `*_proofs` | | Theorems, see section 5 |

Composition: `LoanDlc` holds lending, dlc events and tss signing in one state,
because their interleaving is the point. `DlcOracle` and `BridgeVaults` run on
top of an instance of `Tss`. `LendingPool` and `Liquidation` meet `LoanDlc` at
one action each (approval and settlement): the events they exchange are inputs
on one side and outputs on the other. `RateLimit` is what `Bridge` calls "the
withdrawal may be refused".

Operators with a suffix (`QueueAfter_Dropped`, `Matured_NeedsPrice`) are
variants with a plausible mistake; `PROJECT.json` ("mutants") substitutes them
to show that each property notices one.

## 3. Runs: what is checked

All runs are exhaustive over their instance. Times are for one machine with two
TLC workers.

| Run | States | Properties and what they say |
|---|---|---|
| `tss` | 103 k, 9 s | `ResolutionIsJustified`: a DKG completes only with equal keys of *all* participants and times out only with an absentee (or because its list names a participant twice). `RefreshingIsSound`: removed participants stay removed, and while refreshings of a DKG do not overlap the threshold is kept and everybody who remains has answered. `ResolvedDKGIsFinal`. `RequestsAreResolved` (liveness): every DKG, and every refreshing with a timeout, is resolved with no help from a participant |
| `loan_safety` | 736 k, 2-3 min | `AttestationIsSound`: one nonce signs one outcome and the attested outcome is the fate of the loan. `QueuesAreExact`: event queue and counter, liquidation queue. `DisbursedIsCovered`: a disbursed loan has confirmed deposits, which no redemption for this loan takes, and none for another loan as long as they are well filed. `ContractIsSound`: a CET that the chain calls signed is valid on Bitcoin, spends all deposits of the loan and pays the right party; no CET of an open loan is valid; no redemption can spend well filed deposits of an open loan; borrower and DCM never hold valid transactions against each other before the final timeout. `CollateralSpec`: refinement of `Collateral` |
| `loan_liveness` | 16 k, 40 s | `LoansEnd` (liveness): every application is decided and every open loan ends if only blocks keep coming; nothing else is fair. `SigningsComplete` (liveness): if signers answer too, which is its hypothesis, repaid loans are closed, liquidation CETs and redemptions get signed |
| `pool` | 999 k, 1 min | `SupplyIsBacked`, `AvailableIsHeld`: counters against lent principal and against the bank. `LoansAreBooked`: what single loans owe against what tranches record. `NoDilution`: no deposit or withdrawal lowers what the shares of others are worth; while the claim of the shares is negative, none are issued and those that are burned get nothing |
| `liquidation` | 37 k, 40 s | `AuctionBalances`: collateral and debt of an auction are conserved. `SettlementIsRight`: what was sold is owed to the liquidators by the records, what they paid is held or passed on, the settlement transaction pays every one of them, and its fee is within the reserve. `OpenAuctionIsLiquidatable`: no auction is stuck. `PurchaseIsFair`. `ExhaustedIsSettled` (liveness), whatever the fee rate does |
| `bridge` | 519 k, 65 s | `VouchersAreAccounted`: what the vaults lack to pay vouchers and queued withdrawals is, to the satoshi, the fees of consolidations and transfers and what batches cost beyond the fees burned by then, and their runes are the rune vouchers. It does not say that every voucher can be paid (`VouchersArePayable`, section 6). `NothingIsPaidTwice`: no output in two transactions, no request in two, and exactly the outputs of confirmed transactions are spendable. `LifeSpec`: refinement of `UtxoLife` |
| `bridge_progress` | 40 k, 1-2 min | `QueueIsServed` (liveness): a withdrawal stays queued for ever only if from some time on its batch cannot be built. `OldVaultIsEmptied` (liveness): when a DKG asks for it, the old vaults end up empty, of change in flight and of late deposits too, up to spendable remainders that cannot pay for their own transfer. `RewardsAreEarned`: nobody has more rewards than mints and confirmed withdrawals, and records, statistics and the coins that left agree, though the hooks drop errors and the funds run out within a batch |
| `rate_limit` | 235 k, 4 s | `OutflowIsLimited`: an epoch lets out at most the widest quota that was in force in it, in total and per address |
| `farming` | 218 k, 31 s | `BooksBalance`: totals, stakings and bank agree, and no reward is paid twice or lost. `QueuedIsLocked`. `EpochRewardIsBounded`. `EpochEnds` (liveness): every epoch ends, with farming disabled in the meantime too, unless the asset of a staking in it was removed, with which the end blocker panics (`QueuedAssetIsKnown`, section 6) |
| `dlc_oracle` | 175 k, 1-2 min | `NoncesAreSound`: no nonce twice, every event belongs to the oracle it was generated with, and completed keys are shared by enough different participants. `LivenessIsJustified`: a dead participant has missed a request others answered. `TssSpec`: refinement of `Tss` |
| `bridge_vaults` | 232 k, 36 s | `VersionsAreSound`: versions are created whole and lost only to a proposal older than them. `TssSpec` |
| `price_oracle` | 312 k, 2-3 min | `ReplicasAgree`: replicas never differ in a price, and come to differ in their headers only by a commit that is tied between two lists. `HeadersAreSound`: as long as forks are short a list with half of the stake fits the stored chain, which stays indexed, also by lists that mix two chains and are stored half way. `BestOnlyExtends`: the best header is only replaced by a descendant. `PriceIsBracketed`: a stored price lies between reported prices with half of the stake behind them, and a report between quotes made after the validator's last vote |

`TypeOK` of each module is checked too, as a conjunct of one of its invariants.

## 4. Bounds and fairness

Every bound is a constant whose name begins with `Max`, or a small set of
values, and appears as a conjunct of a guard marked `bound` or as a constraint
of the MC module. They are chosen so that the interesting cases occur:

- `tss`: one DKG, **two** refreshings of it, three participants with a threshold
  of two, so that each refreshing may remove one; time long enough for both to
  expire; timeouts 0 (parameter, or never) and 1. A list of participants may name
  one of them twice (`Repeats`).
- `loan_safety`: two loans compete for two events and share both deposit
  transactions (each transaction pays both vaults) and their keys, two redemptions,
  which spend outputs of either vault. `loan_liveness` has one
  loan, since no fairness condition depends on another loan, and transactions with
  a second output, for a redemption of something else than the vault.
- `pool`: two loans in two tranches, precision 10 so that every rounding occurs,
  two blocks of interest at a rate (19) and a reserve factor (9) with which fees can
  exceed what the borrowers owe, so that the claim of the shares turns negative; cap
  at two deposits. `liquidation`: three records,
  prices that move both ways, collateral above and below the debt, fee rates 0
  (unset), affordable and not affordable.
- `bridge`: a BTC deposit with IBC memo and a runes deposit, two signing
  requests, two withdrawals, one packet, two vault versions. Two transactions
  are what a double spend needs; the theorems of `Bridge_proofs`
  cover the rest for every bound.
- `bridge_progress`: the same deposits, two withdrawals that need one UTXO each or
  both, at most two inputs in a transaction (so that a batch that cannot be built
  is reached), one new vault version, funds for two rewards if a deposit is paid
  in the other denomination and for one if not. `MaxTx` 0: governance issues no
  transactions; batches and transfers of the end blocker are not bounded by it.
- `rate_limit`: two users, epochs of different lengths, a parameter change in
  between, a chain with and without a rate limit at the start.
- `dlc_oracle`: the allow list may be replaced by one that names a participant twice;
  while allow lists change, DCMs are requested of one pair of participants.
- `dlc_oracle` and `bridge_vaults`: two families of behaviours each (a constraint
  in the MC module separates them), because the full product is out of reach.
- `price_oracle`: confirmation depth 2 instead of 6, lists of 3 headers instead of
  10, three validators of powers 2, 1 and 1: a commit of all three may be tied, one
  of two is not. The genesis block chosen initially separates four families
  (constraint `Families`): prices of all validators with one exchange, one validator
  with two exchanges of different prices, and, without prices, a chain with a short
  fork and one with a fork of five blocks from its second block on. In the last one
  (constraint `LongFork`) two validators commit, and their nodes catch up in large
  steps: a list can mix both branches and be stored up to the place where they meet,
  and a branch of which a part was stored that way can be replaced by the other.

Symmetry is used only in runs without liveness properties.

Fairness is what the chain guarantees: blocks keep coming, so end-blocker steps
and the passing of time are weakly fair (`Tss`, `LoanDlc`, `Farming`,
`Liquidation`). `LoansEnd` is checked under that alone (`FairSpec` of `LoanDlc`).
`SigningsComplete`, of which it is the hypothesis (`SigningFairness`), and
`ExhaustedIsSettled`, of whose specification it is part, also assume that the
signing network answers each request; in `LoanDlc` it is strong fairness because
a signature is refused while its handler's status check fails and must be
submitted again when it would be accepted. The liveness of `Bridge` needs its
off-chain parties: blocks are weakly fair (`BlockFairness`), and strongly fair
are the report of a fee rate, which expires after `Validity` blocks, and the
confirmation of a transaction the bridge has built (`RelayerFairness`): relayers
repeat both, and a message that is valid again and again reaches a block. Its
instance leaves withdrawals enabled. Messages of users and governance and the
reports of prices are never fair.

Deadlock is checked everywhere but in `bridge_vaults`, where the end blocker
panics in a reachable state (section 6) and the chain stops.

## 5. Proofs

`tlapm` checks the modules `*_proofs` for every value of the constants that
satisfies the named assumptions, which are the parameter validations of the code.

| Module | Theorems | Inductive invariant |
|---|---|---|
| `Tss_proofs` | `TypeCorrect`, `ResolutionIsJustifiedHolds`, `RefreshingIsSoundHolds`, `ResolvedDKGIsFinalHolds` | `TypeOK`; completions come from participants; the loop's snapshot holds pending requests; refreshings are of completed DKGs; answers came before the expiration; at most one refreshing of a DKG is pending where that is claimed. The last is needed because the completion test counts answers: only when nobody else changes the participants does the count identify them |
| `LendingPool_proofs` | `SupplyIsBackedHolds`, `AvailableIsHeldHolds`, `LoansAreBookedHolds`, `NoDilutionHolds` | `IInv`: typing of tranches, loans and counters together with both equations; a repayment preserves them only because fee and interest are integers that cancel (`RepaidPoolCounters`). `BooksInv`: every loan is good (`GoodLoan`: it began at an index that is not above the present one, its repayment covers the principal, its liquidation is not overpaid and owes at most the present interest), the accounts and the borrowed amount are sums over the loans, the shares issued are the sum of those held. That no counter turns negative follows: an index never falls (`IndexRises`), rounding is monotonic (`ChopGrows`), so interest is never negative (`InterestNotNegative`) nor shrinks (`InterestGrows`). `NoDilution` follows from the types in them: the quotients are truncated toward zero, and a negative claim, which the invariants allow, is a case of its own |
| `Liquidation_proofs` | `AuctionBalancesHolds`, `OpenAuctionIsLiquidatableHolds`, `PurchaseIsFairHolds`, `SettlementIsRightHolds` | `IInv`: every auction is good: sold, unsold and reserve add up, debt paid is within the debt (`RoundTrip`: converting debt to collateral and back with truncation never exceeds the debt). `SInv`, for the settlement: the totals of every auction are the sums over its records, its transaction pays the records and a bounded fee (`AtRate` and `WithFee`, one for each way to pay the fee), and the coins held are the sum over the auctions that are not settled |
| `Bridge_proofs` | `NoDoubleSpendHolds`, `LifeSpecHolds`, `NothingIsPaidTwiceHolds`, `VouchersAreAccountedHolds`, `RewardsAreEarnedHolds` | `IInv`: signing requests form a sequence; the index of free outputs is within the store; a known output was minted or created by the bridge; unlocked outputs are indexed; no output is input of two transactions. `StoreInv` and `OwedInv`: what is spendable is confirmed and recorded as minted, so that a deposit and a change output cannot both save it; a queued request has no transaction, and a request has the transaction that pays it. `Backed`: the store, the requests, the packets, the accounts and the transactions are typed (`Typed`), the value of the outputs in the store is the vouchers, plus the withdrawals in the queue, plus the network fees burned minus those paid (`Slack`, in the four parts of `fees`, which may be negative), and their runes are the rune vouchers. The typing is part of the induction: that no output of a transaction is negative follows from the way the builder pays for change (`Built`). `RewardsInv`: records, statistics and what left the account agree (`IncentiveOK`), and every account, whether it has a record or not, has at most as many rewards of a kind as deposits minted or withdrawals confirmed; what is minted stays minted and what is confirmed stays paid, because a request gets its transaction once (`RequestsKept`, from `OwedInv`) |
| `LoanDlc_proofs` | `AttestationIsSoundHolds`, `QueuesAreExactHolds`, `DisbursedIsCoveredHolds`, `ContractIsSoundHolds`, `CollateralSpecHolds` | tables that say which status of a loan allows which state of its event, its CETs, its vault and its redemptions (`LoansFit`, `CetsFit`, `EventsFit`, `FatesFit`), that a deposit is filed under one vault and a redemption spends outputs of transactions filed under the vault it was requested for, whose loan is never disbursed (`VaultsFit`), what a disbursed loan has (`Covered`), that the snapshot of an end-blocker loop only holds what is still due (`SnapshotFits`), and the two queues. The tables are needed because every handler looks at one record and changes another; that no redemption of another loan takes well filed deposits follows from `VaultsFit` (`TakenByItsOwn`); the refinement compares the abstract state of a vault in each row before and after a step, and no step changes which deposits of a disbursed loan are well filed |
| `BridgeVaults_proofs` | `TssSpecHolds`, `VersionsAreSoundHolds`, `RequestsAreSound` | `TP!IInv`, the invariant of `Tss_proofs` for the requests of the bridge, and: no vault is of a version to come, lists of vaults hold whole versions, and a version once made is kept |
| | `OutflowIsLimitedHolds` (module `RateLimit`) | `LimitsInv`: what left in the epoch is what the record says was used, and the quota in force is at most the widest of the epoch, for the global and for every address record, and when there is none |
| `DlcOracle_proofs` | `TssSpecHolds`, `NoncesAreSoundHolds`, `LivenessIsJustifiedHolds` | `TP!IInv` for the requests of x/dlc, and: the store is typed, every pending request has a known purpose, the nonces in the store, in events and in the running handler are disjoint, and liveness records follow the allow list. A request counts the entries of a list, which may name a participant twice; one that does never completes, so the keys that do exist are shared by enough different participants (`SharesAreDistinct`) |
| `Stakes_proofs` | `HeadersAreSoundHolds`, `BestOnlyExtendsHolds`, `PriceIsBracketedHolds` (module `PriceOracle`) | `OracleInv`: all nodes are on trees over one genesis block; the index of a replica is that of its best header, or empty if there is none; the best header was confirmed by some chain; headers are reported at odd heights and applied at even ones, so that a list always meets the best header it was computed from, whichever validators commit (`ReportsSound`). The last is what makes the induction work: a list is computed from the state of one block and applied two blocks later, and fits only because nothing is applied in between |
| | `ReplicasAgreeHolds` (module `PriceOracle`) | `AgreeInv`: the replicas have the same price, in states of the right types. Two lists with half of the stake have disjoint reporters, so that each has exactly half of the commit: without a tie there is one list to pick (`OneSelection`). The price does not depend on it (`PriceOfBlock`) |
| | `BooksBalanceHolds`, `QueuedIsLockedHolds`, `EpochRewardIsBoundedHolds` (module `Farming`) | `FarmingInv`: the totals of every denomination and the balance of the account are sums over the stakings; a staking that counts has a positive effective amount; the queue of an epoch holds stakings locked until its end and the totals of the epoch are theirs. The bound on the rewards divides them by denomination (`SumByKey`), within one by effective amount (`Shares`: quotients of parts sum up to at most the whole), and uses that the ratios of the assets add up to at most 100 |

Each invariant was first checked with TLC, then its three facts are proved (one
lemma per action) and combined. Some techniques are used in several places:

- `BridgeVaults` and `DlcOracle` contain the requests of x/tss. Their proof modules
  take `TP == INSTANCE Tss_proofs` with the same substitution as the model's
  `T == INSTANCE Tss`, show that every step is a step of `T` or leaves its variables
  alone (`TssSpecHolds`), and get the invariant of `Tss_proofs` for their requests from it.
- Sums: the community module's `SumFunctionOnSet` folds over a set in an arbitrary
  order. `SubsetInduction` is induction over the subsets of a finite set, stated for
  a set of sets rather than a predicate and proved from well-founded minima; with
  it `SumRemove` shows that any element may be taken out first, `SumUpdate` and
  `SumAppend` follow what one step changes, and `SumPart` extends a sum over the loans
  of one status to all loans. `Stakes_proofs` adds sums by key, shares of a sum and weighted averages
  (`SumByKey`, `Shares`, `WeightedAverage`). In `Bridge_proofs` one step exchanges many outputs:
  `SumUnion` and `SumExchange` take a set of inputs out of the sum and a set of change
  outputs in, and `SumReindex` carries a sum over the outputs of a transaction to the
  same sum over outpoints.
- The loop that rewards the withdrawals of one transaction is a recursive function:
  `LoopExists` shows by `CountingUp` (induction for a set of numbers rather than a
  predicate) that it is defined for every length, and `Rewarded` follows what its
  iterations keep.
- `Chain` in `PriceOracle` is recursive along the parents of a block. `BlockInduction`
  is induction over sets of blocks, from the assumption that no block is among its own
  ancestors; `ChainEquation` shows with it that the recursive function exists, and
  `ChainParts` that a chain consists of the chains of its blocks.
- `Stakes_proofs` extends `PriceOracle` and `Farming`, `BridgeVaults_proofs` extends
  `BridgeVaults` and `RateLimit`. A module of theorems can extend two models because the
  names that every model has (`Init`, `Next`, `Spec`, `TypeOK`, `vars`) begin with
  `Farming` and `Limit` in those two, as do the few others they would share. The theorems
  of one model use the assumptions of that model alone.

Assumptions beyond the parameter validations: the sets of auctions, loans and
lenders are finite (`IsFiniteSet(Id)`, `IsFiniteSet(Loan)`, `IsFiniteSet(Lender)`), as
the stores of a chain are, and so are the set of users of the bridge and
the set of denominations in the account of x/incentive; deposits are
transactions with natural amounts (`Deposit \in Seq(DepositTx)`); the value of an
output that carries runes (546 satoshis, a constant of the code) is a natural number
that is not dust. `PurchaseIsFairHolds` has the hypothesis that a price is below
2 * 10^18 (`2 * (Precision * Precision)` as a LegacyDec) units of debt per unit of
collateral: a quotient is rounded half to even at the last of 18 digits before it is
truncated, and at a higher price half of that digit is worth more than a unit of debt,
so that a purchase may get a unit of collateral too much.

`PriceOracle` assumes that the sets of
validators and exchanges are finite and that blocks have no cycle of parents, which their
hashes exclude; `Farming` that there is a staker and that the assets of the parameters
are a finite set of denominations.

Only model-checked: liveness and everything under fairness (`RequestsAreResolved`,
`LoansEnd`, `SigningsComplete`, `ExhaustedIsSettled`, `QueueIsServed`,
`OldVaultIsEmptied`, `EpochEnds`), since the prover does not reason about ENABLED. Every
safety property of the runs is a theorem.

## 6. Where code and comments disagree

The following statements are kept in the modules, with the reason, but are
checked in no run because they do not hold. Each was found by TLC on a small
instance.

| Statement | What the comment or error text says | What the code does |
|---|---|---|
| `Tss!ThresholdKept` | "remaining participants %d cannot be less than threshold %d for dkg %d" (`x/tss/keeper/msg_server.go:120`) | The number does not take pending refreshings of the same DKG into account, and two of them together leave fewer participants than the threshold. `RefreshingIsSound` claims it for refreshings that do not overlap |
| `Tss!FinalizedByAllParticipants`, `RefreshingIsResolved` | "The refreshing request will be finalized when all participants submit valid completions before timeout" (`x/tss/keeper/refreshing.go:193`) | The end blocker compares *numbers* (`x/tss/module/abci.go:86`). After an overlapping refreshing the answer of a removed participant stands in for a missing one; or there are more answers than participants and a request without timeout stays pending for ever |
| `LoanDlc!DisbursedIsUntouched` | "deposit tx does not match the loan id" (`x/lending/keeper/msg_server_loan.go:336`) | The test is on the log of the transaction, which is filed under the vault that the first message names; neither filing nor `MsgRedeem` looks at the output that is spent. A transaction that pays the vaults of two loans with the same keys, filed under the one that is cancelled, is redeemed there with the output of the other, disbursed one. `DisbursedIsCovered`, `ContractIsSound` and `CollateralSpec` claim it for deposits that are filed under their own vault or one with other keys (`WellFiled`) |
| `LendingPool!PausedTakesNoDeposits` | `paused` "indicates if the pool is paused" (`proto/bitway/lending/lending.proto:97`) | `CreatePool` sets INACTIVE whatever `paused` is, and the first deposit activates the pool |
| `LendingPool!FirstDepositFindsNoShares` | "activate pool on first deposit" (`x/lending/keeper/msg_server_pool.go:79`) | The branch tests for zero supply. Shares can be left over when everything available is withdrawn, and a later deposit is priced one to one |
| `LendingPool!SharesAreCovered` | "calculates the underlying asset amount from the given yToken amount" (`x/lending/keeper/pool.go:244`) | Interest is charged on the tranche between `MsgRepay` and the completed repayment, which subtracts the amount fixed by `MsgRepay`; the difference stays in `total_borrowed` although nobody owes it |
| `Liquidation!OutputsAreNotDust` | "check if the total received collateral amount is dust" (`x/liquidation/keeper/liquidation.go:86`) | The test includes the protocol fee, the output does not |
| `Bridge!VouchersArePayable` | "burn btc network fee" (`x/btcbridge/keeper/withdraw.go:105`) | Only withdrawals burn vouchers for their network fee, at the fee rate of the request. Consolidations and transfers take theirs from the vaults, and a batch is built at a later rate: the vaults may hold less than the vouchers. `VouchersAreAccounted` says by how much, exactly |
| `Bridge!QueueIsHandled` | "dispatched to the batch withdrawal queue which is handled periodically" (`x/btcbridge/keeper/withdraw.go:79`) | The batch is always the head of the queue; if it needs more than `MaxUtxoNum` inputs it fails in every period and everything behind it waits. `QueueIsServed`, checked by `bridge_progress`, is what holds |
| `RateLimit!PercentageIsMaximum` | "Maximum withdrawable supply percentage ...; 100 means no limit" (`proto/bitway/btcbridge/params.proto:121`) | A quota that rounds to 0 also means no limit, e.g. in the first epoch of a new chain |
| `Farming!UnstakedIsPaid` | "claim pending rewards if any" (`x/farming/keeper/msg_server.go:113`) | A staking that is withdrawn in the block in which the epoch ends gets the reward of that epoch afterwards; `MsgClaim` refuses it, `MsgClaimAll` pays it |
| `Farming!QueuedAssetIsKnown` | "Assume that the given staking is valid" (`x/farming/keeper/reward.go:13`) | `UpdateParams` accepts the removal of an asset with stakings in the epoch; the end blocker then multiplies by a nil decimal |
| `DlcOracle!ParticipantsAreDistinct` | "duplicate participant" in `MsgCreateDCM` (`x/dlc/types/msg_create_dcm.go:36`) and the same test of the allow list of x/tss | `validateOracleParticipants` (`x/dlc/types/params.go:86`) accepts an allow list that names a participant twice. A key generation then counts it twice, starts with fewer different participants than its minimum and can only time out |
| `DlcOracle!LaterAnswerKeepsAlive` | "skip if the last dkg is later than the current one" (`x/dlc/keeper/tss.go:60`) | A late answer to an old request moves `LastDkgId` back |
| `BridgeVaults!VaultsAreDistinct` | "duplicate vault" (`x/btcbridge/types/params.go:287`) | `CheckVaults` runs when a completion is submitted; two DKGs that complete in one block with the same addresses both pass |
| `BridgeVaults!TransferIsDefined` | "handleVaultTransfer performs the vault asset transfer" (`x/btcbridge/module/abci.go:125`) | After a params proposal has dropped the new vaults, the source version is 0 - 1 and the vault that is dereferenced does not exist: the end blocker panics |
| `PriceOracle!ReplicasNeverDiffer` | "store the canonical stake-weighted average prices and block headers" (`x/oracle/abci/extension.go:252`) | Two header lists with exactly half of the stake each are both eligible and the first in map order wins (line 403), on each replica for itself. `ReplicasAgree` says that they differ only so, and never in a price |

## 7. What is not modelled

- Keys, signatures, proofs of possession, adaptor signatures, Bitcoin scripts:
  abstract values; a signature of p is an action of p. Of a CET its inputs, its
  payee and the point of its adaptor signatures are kept, of a script who has to
  sign; fees, weights and bytes are not.
- The light client behind `ValidateTransaction`: a reported transaction is
  confirmed. Transaction weight limits.
- The registry of referrers: `LendingPool` splits the protocol fee with a
  referrer; who may register is not modelled. Tranche reconfiguration.
- Transfers of a vault that governance proposes as a psbt are well formed: the handler
  (`x/btcbridge/keeper/transfer.go:80`) looks neither at the amount of the edict nor at the
  pointer of the runestone, and `TransferVaultPsbt` sends all runes to the vault.
- Fee sponsorship (an ante handler) and IBC acknowledgements and timeouts (ibc-go).
- The parsers of the exchanges' messages, and clocks: what arrives is a price with
  a time. Validators of `PriceOracle` follow the code.
- Two outputs of one deposit transaction to one vault (`LoanDlc`): redemption marks
  the transaction (`x/lending/keeper/msg_server_loan.go:341`), so the second output
  could not be redeemed once the first has been signed.
- Genesis export and import, an offline procedure: it restores the requests but
  not the id counters or completions (`x/tss/module/genesis.go:17`), and locked
  outputs of the bridge come back indexed.
- Queries, command line, application wiring, and generated code. The protobuf
  code (`api/**/*.pulsar.go`, `x/*/types/*.pb.go`, `*.pb.gw.go`) is nine tenths of
  the Go lines of the repository and has no behaviour of its own to model.

## 8. Plan

Done, in this order: `Tss` and its proofs; `LoanDlc` with `Collateral`;
`LendingPool`; `Liquidation`; `Bridge` with `UtxoLife`; `RateLimit`; `Farming`;
`DlcOracle` and `BridgeVaults` over `Tss`; `PriceOracle`; `PriceFeed` in
`PriceOracle`; `Incentive` in `Bridge`; progress of the bridge.

Next:

1. The contract on Bitcoin after the final timeout: the refund transaction and
   spends that the chain does not see, composed with `LoanDlc`; several outputs
   per deposit transaction.
2. Genesis export and import as an action of `Tss` and of `Bridge`.
