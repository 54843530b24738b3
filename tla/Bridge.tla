------------------------------- MODULE Bridge -------------------------------
(***************************************************************************)
(* The Bitcoin bridge of x/btcbridge.  Relayers report deposits to the     *)
(* vaults, which are minted as vouchers; withdrawals burn vouchers and are *)
(* paid by Bitcoin transactions that the bridge builds out of its UTXOs,   *)
(* the TSS network signs and relayers report again when they are           *)
(* confirmed.  Governance consolidates UTXOs and moves them from one       *)
(* version of the vaults to the next.  Deposits and withdrawals of BTC are *)
(* rewarded (module Incentive).                                            *)
(*                                                                         *)
(* One rune is modelled.  A relayed transaction has passed                 *)
(* ValidateTransaction: it is confirmed on Bitcoin.  What the rate limit   *)
(* refuses is module RateLimit; here a withdrawal may be refused.  The     *)
(* steps of the end blocker are actions of their own, ordered by phase;    *)
(* no message is handled between them.                                     *)
(***************************************************************************)
EXTENDS Integers, Sequences, FiniteSets, FiniteSetsExt, SequencesExt, Incentive

CONSTANTS
    User, Collector, Module, Escrow,    \* accounts: users, fee collector, x/btcbridge, ICS-20
    Deposit,            \* the transactions of depositors, a sequence
    Amount, RuneAmount, \* amounts asked for by withdrawals
    FeeRate, Validity,  \* fee rates of the providers, FeeRateValidityPeriod
    Period, MaxBatch, MaxUtxoNum,       \* WithdrawParams
    DepositFee, WithdrawFee,            \* ProtocolFees
    MinDeposit, MinWithdraw, MaxWithdraw,   \* ProtocolLimits
    Dust, RunesOutValue, BaseSize, InSize, OutSize,     \* Bitcoin
    Byte,               \* the values of a byte (256)
    Enabled,            \* values of DepositEnabled and WithdrawEnabled
    Threshold, TargetNum,   \* inputs of consolidations and transfers
    Rewarding, Funds,   \* params of x/incentive, and the coins that its account starts with
    MaxVersion, MaxTx, MaxRequest, MaxPacket    \* bounds

Account == User \union {Collector, Module, Escrow}
Asset == {"BTC", "RUNES"}

\* An output: "USER" pays an account, "OP_RETURN" carries the runes payload, the others are
\* of the vault of that asset and version.  req is the withdrawal that it pays.
Out(asset, version, amount, runes, account, req) ==
    [asset |-> asset, version |-> version, amount |-> amount, runes |-> runes,
     account |-> account, req |-> req]
VaultOut(asset, version, amount, runes) == Out(asset, version, amount, runes, Module, 0)
UserOut(account, amount, runes, req) == Out("USER", 0, amount, runes, account, req)
OpReturn == Out("OP_RETURN", 0, 0, 0, Module, 0)

\* A deposit: its outputs, the account of its first input, the edict of its runes payload (out
\* is 0 without one) and whether it asks for an IBC transfer.
DepositOut == [asset : Asset \union {"USER", "OP_RETURN"}, version : Nat, amount : Nat,
               runes : {0}, account : Account, req : {0}]
DepositTx == [from : User, outs : Seq(DepositOut), edict : [out : Nat, amount : Nat], ibc : BOOLEAN]
NoEdict == [out |-> 0, amount |-> 0]

\* Validate of the params: validateFeeRateValidityPeriod, validateWithdrawParams and
\* validateProtocolParams.
ValidParams ==
    /\ Validity \in Nat \ {0} /\ Period \in Nat \ {0} /\ MaxBatch \in Nat \ {0} /\ MaxUtxoNum \in Nat \ {0}
    /\ DepositFee \in Nat /\ WithdrawFee \in Nat /\ MinDeposit \in Nat
    /\ MinWithdraw \in Nat /\ MaxWithdraw \in Nat /\ MinWithdraw <= MaxWithdraw

\* The vaults of version 0 come with the genesis state.
ASSUME BridgeAssumption ==
    /\ IsFiniteSet(User) /\ Deposit \in Seq(DepositTx)
    /\ Amount \subseteq Nat \ {0} /\ RuneAmount \subseteq Nat \ {0} /\ FeeRate \subseteq Nat \ {0}
    /\ ValidParams /\ Byte \in Nat \ {0, 1}
    /\ Dust \in Nat \ {0} /\ RunesOutValue \in Nat /\ RunesOutValue >= Dust /\ Enabled \subseteq [deposit : BOOLEAN, withdraw : BOOLEAN]
    /\ BaseSize \in Nat /\ InSize \in Nat \ {0} /\ OutSize \in Nat \ {0}
    /\ MaxVersion \in Nat /\ MaxTx \in Nat /\ MaxRequest \in Nat /\ MaxPacket \in Nat

\* Validate of the params of x/incentive: rewards are valid coins.  Funds has all denominations
\* that they may be in.
ASSUME RewardAssumption ==
    /\ IsFiniteSet(DOMAIN Funds) /\ Funds \in [DOMAIN Funds -> Nat]
    /\ \A p \in Rewarding : \A c \in {p.RewardPerDeposit, p.RewardPerWithdraw} : c.amount \in Nat /\ c.denom \in DOMAIN Funds

VARIABLES
    utxo,       \* UTXO by outpoint <<transaction, output>>
    index,      \* outpoints of the owner indexes, from which UTXOs are selected
    minted,     \* the mint history: transactions
    signing,    \* the SigningRequests, a sequence
    request,    \* the WithdrawRequests, a sequence
    queue,      \* withdrawals waiting for a batch
    packets,    \* the IBC withdrawals received, a sequence
    ibcQueue,   \* those that wait for the end of the block
    balance,    \* BTC vouchers of every account
    runes,      \* rune vouchers of every account
    feeRate,    \* the last fee rate and its age in blocks
    height,     \* the height modulo BtcBatchWithdrawPeriod
    enabled,    \* the params
    latest,     \* the latest vault version
    incentive,  \* the state of x/incentive
    transfers,  \* versions that a completed DKG asked to move to the latest one
    phase,      \* "txs", or the next step of the end blocker
    todo,       \* what that step has left to do
    fees        \* history: satoshis of the vaults that no voucher stands for, and network fees

vars == <<utxo, index, minted, signing, request, queue, packets, ibcQueue, balance, runes,
          feeRate, height, enabled, latest, transfers, incentive, phase, todo, fees>>
ledger == <<utxo, index, minted, signing>>
withdrawals == <<request, queue, packets, ibcQueue>>
bank == <<balance, runes>>
settings == <<feeRate, height, enabled, latest, transfers>>
config == <<settings, incentive>>

\* carried: satoshis of the outputs with deposited runes; spare: network fees burned in advance;
\* moved: network fees of consolidations and transfers; excess: what batches cost beyond all that
\* was spare by then.
NoFees == [carried |-> 0, spare |-> 0, moved |-> 0, excess |-> 0]
Carry(n) == [fees EXCEPT !.carried = @ + n]
SetAside(n) == [fees EXCEPT !.spare = @ + n]
PayForMove(n) == [fees EXCEPT !.moved = @ + n]
PayForBatch(n) ==
    IF n <= fees.spare THEN [fees EXCEPT !.spare = @ - n]
    ELSE [fees EXCEPT !.spare = 0, !.excess = @ + (n - fees.spare)]

EmptyFunction == [x \in {} |-> 0]

Init ==
    /\ utxo = EmptyFunction /\ index = {} /\ minted = {} /\ signing = <<>>
    /\ request = <<>> /\ queue = {} /\ packets = <<>> /\ ibcQueue = {}
    /\ balance = [a \in Account |-> 0] /\ runes = [a \in Account |-> 0]
    /\ feeRate = [value |-> 0, age |-> 0] /\ height = 0 /\ enabled \in Enabled
    /\ \E p \in Rewarding : incentive = NewIncentive(p, Funds)
    /\ latest = 0 /\ transfers = {} /\ phase = "txs" /\ todo = <<>> /\ fees = NoFees

SumOver(S, F(_)) == SumFunction([x \in S |-> F(x)])
Satoshis(o) == utxo[o].amount
RunesIn(o) == utxo[o].runes
Value(S) == SumOver(S, Satoshis)
Runes(S) == SumOver(S, RunesIn)
Unlocked(asset, version) == {o \in index : utxo[o].asset = asset /\ utxo[o].version = version}
FirstOf(S, n) == {x \in S : Cardinality({y \in S : y < x}) < n}
\* The iterators of the store go through identifiers in ascending order.
InOrder(S) == [i \in 1..Cardinality(S) |-> CHOOSE x \in S : Cardinality({y \in S : y < x}) = i - 1]
AddCoins(f, a, n) == [f EXCEPT ![a] = @ + n]
SubCoins(f, a, n) == [f EXCEPT ![a] = @ - n]

FeeRateIsValid == feeRate.value # 0 /\ feeRate.age <= Validity

----------------------------------------------------------------------------
(* Deposits *)

\* Outpoints that are saved unlocked: with their owner indexes.
SaveUTXOs(t, outs, S) ==
    /\ utxo' = [o \in DOMAIN utxo \union {<<t, i>> : i \in S} |->
                   IF o[1] = t /\ o[2] \in S
                   THEN [asset |-> outs[o[2]].asset, version |-> outs[o[2]].version,
                         amount |-> outs[o[2]].amount, runes |-> outs[o[2]].runes, locked |-> FALSE]
                   ELSE utxo[o]]
    /\ index' = index \union {<<t, i>> : i \in S}

OutsOf(outs, asset) == {i \in DOMAIN outs : outs[i].asset = asset}
NonVaultOuts(outs) == OutsOf(outs, "USER") \union OutsOf(outs, "OP_RETURN")

\* ExtractRecipientAddr: the last output that is no vault's, or the first input.
Recipient(tx) ==
    LET users == OutsOf(tx.outs, "USER")
    IN  IF users = {} THEN tx.from ELSE tx.outs[Max(users)].account

\* IBCTransfer moves the vouchers to the escrow account or fails, and UnescrowToken gives
\* back what was escrowed by then; AfterDeposit goes on in both cases.
UnescrowToken(tx) == Recipient(tx)
IBCTransfer(tx) == {Escrow, UnescrowToken(tx)}
Receivers(tx) == IF tx.ibc THEN IBCTransfer(tx) ELSE {Recipient(tx)}

\* Of several outputs to a BTC vault the first one is minted.
OutputForMintBTC(outs) == Min(OutsOf(outs, "BTC"))

MintBTC(t, tx) ==
    LET i == OutputForMintBTC(tx.outs)
        amount == tx.outs[i].amount - DepositFee
    IN  /\ tx.edict = NoEdict /\ OutsOf(tx.outs, "BTC") # {} /\ Cardinality(NonVaultOuts(tx.outs)) <= 2
        /\ amount >= MinDeposit
        /\ SaveUTXOs(t, tx.outs, {i})
        /\ \E to \in Receivers(tx) : balance' = AddCoins(AddCoins(balance, Collector, DepositFee), to, amount)
        /\ incentive' = DistributeDepositReward(incentive, Recipient(tx))
        /\ UNCHANGED <<runes, fees>>

\* The edict names the last output to the runes vault.
OutputForMintRunes(outs, i) == i \in OutsOf(outs, "RUNES") /\ i = Max(OutsOf(outs, "RUNES"))

\* mintRunes of the edict, with handleRunesProtocolFee on the last output of a BTC vault.
MintRunes(t, tx) ==
    LET payments == OutsOf(tx.outs, "BTC")
        fee == tx.outs[Max(payments)].amount
        saved == {tx.edict.out} \union (IF DepositFee > 0 THEN {Max(payments)} ELSE {})
    IN  /\ OutputForMintRunes(tx.outs, tx.edict.out)
        /\ Cardinality(NonVaultOuts(tx.outs)) <= 3
        /\ DepositFee > 0 => payments # {} /\ fee >= DepositFee
        /\ SaveUTXOs(t, [tx.outs EXCEPT ![tx.edict.out].runes = tx.edict.amount], saved)
        /\ runes' = AddCoins(runes, Recipient(tx), tx.edict.amount)
        /\ balance' = IF DepositFee > 0
                      THEN AddCoins(AddCoins(balance, Collector, DepositFee), Module, fee - DepositFee)
                      ELSE balance
        /\ fees' = Carry(tx.outs[tx.edict.out].amount)
        /\ UNCHANGED incentive

\* Transactions are numbered: the deposits, then those of the bridge in their order.
Txid(s) == Len(Deposit) + s
NextTx == Txid(Len(signing) + 1)
Transactions == 1..(NextTx - 1)

\* A confirmed transaction as relayers see it.
Transaction(t) ==
    IF t <= Len(Deposit) THEN Deposit[t]
    ELSE LET r == signing[t - Len(Deposit)]
         IN  [from |-> Module, edict |-> r.edict, outs |-> r.outs, ibc |-> FALSE]

SubmitDepositTransaction(t) ==
    /\ phase = "txs" /\ enabled.deposit
    /\ t \notin minted /\ \A i \in DOMAIN Transaction(t).outs : Transaction(t).outs[i].version <= latest
    /\ minted' = minted \union {t}
    /\ MintBTC(t, Transaction(t)) \/ MintRunes(t, Transaction(t))
    /\ UNCHANGED <<signing, withdrawals, settings, phase, todo>>

----------------------------------------------------------------------------
(* Building transactions *)

VirtualSize(nIn, nOut) == BaseSize + nIn * InSize + nOut * OutSize
IsDust(amount) == amount < Dust

\* Store keys order UTXOs by an amount and, among equal amounts, by transaction and output.  An
\* amount of satoshis is big-endian in its key (BtcOwnerUtxoByAmountKey), one of runes is
\* little-endian (MarshalRuneAmount): 16 bytes, compared from the least significant one on.
ByteOf(n, k) == (n \div Byte^k) % Byte
KeyLarger(m, n) ==
    \E k \in 0..15 : ByteOf(m, k) > ByteOf(n, k) /\ \A j \in 0..(k - 1) : ByteOf(m, j) = ByteOf(n, j)
Larger(o, p, field) ==
    \/ IF field = "runes" THEN KeyLarger(utxo[o].runes, utxo[p].runes) ELSE utxo[o].amount > utxo[p].amount
    \/ utxo[o][field] = utxo[p][field] /\ (o[1] > p[1] \/ (o[1] = p[1] /\ o[2] > p[2]))

\* The first n UTXOs of S from the largest on, and in the order of UTXOIterator: the smallest
\* one, then the others from the largest on.
Largest(S, n, field) == {o \in S : Cardinality({p \in S : Larger(p, o, field)}) < n}
Payment(S, n) ==
    LET smallest == {o \in S : \A p \in S \ {o} : Larger(p, o, "amount")}
    IN  smallest \union Largest(S \ smallest, n - 1, "amount")

Failed == [ok |-> FALSE, selected |-> {}, change |-> 0, fee |-> 0]

\* BuildUnsignedTransaction with AddPaymentUTXOsToTx: UTXOs of the BTC vault are added to the
\* base inputs until they pay for the outputs and the fee.  What is left is the change unless
\* it is dust.
BuildUnsignedTransaction(base, outs, version) ==
    LET pool == Unlocked("BTC", version)
        diff == Value(base) - SumOver(DOMAIN outs, LAMBDA i : outs[i].amount)
        left(n) == Value(Payment(pool, n)) + diff
        size(n, extra) == VirtualSize(Cardinality(base) + n, Len(outs) + extra)
        enough == {n \in 1..Cardinality(pool) : left(n) >= size(n, 0) * feeRate.value}
        n == Min(enough)
        change == left(n) - size(n, 1) * feeRate.value
    IN  IF \/ pool = {} \/ enough = {} \/ Cardinality(base) + n > MaxUtxoNum
           \/ \E i \in DOMAIN outs : outs[i].asset # "OP_RETURN" /\ IsDust(outs[i].amount)
        THEN Failed
        ELSE [ok |-> TRUE, selected |-> Payment(pool, n),
              change |-> IF IsDust(change) THEN 0 ELSE change,
              fee |-> left(n) - (IF IsDust(change) THEN 0 ELSE change)]

WithChange(outs, tx, version) ==
    IF tx.change = 0 THEN outs ELSE Append(outs, VaultOut("BTC", version, tx.change, 0))

\* BuildTransferAllBtcPsbt: everything but the fee goes to one output.
BuildTransferAllBtc(S) ==
    LET fee == VirtualSize(Cardinality(S), 1) * feeRate.value
    IN  IF IsDust(Value(S) - fee) THEN Failed
        ELSE [ok |-> TRUE, selected |-> S, change |-> Value(S) - fee, fee |-> fee]

\* BuildTransferAllRunesPsbt: the runes of S to a vault; BTC UTXOs of version source pay.
TransferAllRunesOuts(S, dest) == <<OpReturn, VaultOut("RUNES", dest, RunesOutValue, Runes(S))>>
BuildTransferAllRunes(S, source, dest) ==
    BuildUnsignedTransaction(S, TransferAllRunesOuts(S, dest), source)

\* SpendUTXOs: the outpoints that stay in the store.
SpendUTXOs(ins) == DOMAIN utxo \ ins

\* lockChangeUTXOs: outputs to vaults enter the store locked, without owner indexes, and their
\* transaction is marked as minted.
ChangeOuts(outs) == {i \in DOMAIN outs : outs[i].asset \in Asset}
ChangeUTXO_NoRunes(out) == [asset |-> out.asset, version |-> out.version, amount |-> out.amount,
                            runes |-> 0, locked |-> TRUE]
ChangeUTXO(out) == [asset |-> out.asset, version |-> out.version, amount |-> out.amount,
                    runes |-> out.runes, locked |-> TRUE]
MarkMinted_Never(t, outs) == minted
MarkMinted(t, outs) == IF ChangeOuts(outs) = {} THEN minted ELSE minted \union {t}

\* SetSigningRequest
SigningRequest(ins, outs, edict) == [status |-> "PENDING", ins |-> ins, outs |-> outs, edict |-> edict]

\* A transaction of the bridge spends ins and waits to be signed.
IssueTransaction(ins, outs, edict) ==
    LET t == NextTx
    IN  /\ utxo' = [o \in SpendUTXOs(ins) \union {<<t, i>> : i \in ChangeOuts(outs)} |->
                       IF o[1] = t THEN ChangeUTXO(outs[o[2]]) ELSE utxo[o]]
        /\ index' = index \intersect SpendUTXOs(ins)
        /\ minted' = MarkMinted(t, outs)
        /\ signing' = Append(signing, SigningRequest(ins, outs, edict))

----------------------------------------------------------------------------
(* Withdrawals *)

\* IncreaseWithdrawRequestSequence
NextRequest == Len(request) + 1
NewWithdrawRequest(u, amount, txid) ==
    request' = Append(request, [user |-> u, amount |-> amount, txid |-> txid])

\* BurnAsset and BurnBtcNetworkFee fail without the vouchers, and the message with them.
CanBurn(u, amount, fee) == balance[u] >= amount + fee

\* WithdrawToBitcoin, before HandleWithdrawal.
CanWithdraw == phase = "txs" /\ enabled.withdraw /\ Len(request) < MaxRequest

\* EstimateWithdrawalNetworkFee: of a transaction that pays this withdrawal alone.
EstimateWithdrawalTx(u, amount) == BuildUnsignedTransaction({}, <<UserOut(u, amount, 0, 0)>>, latest)

WithdrawBtc(u, asked) ==
    LET amount == asked - WithdrawFee
        tx == EstimateWithdrawalTx(u, amount)
    IN  /\ CanWithdraw
        /\ WithdrawFee > 0 => amount \in MinWithdraw..MaxWithdraw
        /\ FeeRateIsValid /\ amount > 0 /\ tx.ok /\ CanBurn(u, asked, tx.fee)
        /\ balance' = AddCoins(SubCoins(balance, u, asked + tx.fee), Collector, WithdrawFee)
        /\ fees' = SetAside(tx.fee)
        /\ NewWithdrawRequest(u, amount, 0)
        /\ queue' = queue \union {NextRequest}
        /\ UNCHANGED <<ledger, packets, ibcQueue, runes, config, phase, todo>>

\* GetTargetRunesUTXOs: from the largest on until they hold the amount, in the
\* order of their keys.
TargetRunesUTXOs(version, amount) ==
    LET pool == Unlocked("RUNES", version)
        enough == {n \in 1..Min({Cardinality(pool), MaxUtxoNum}) : Runes(Largest(pool, n, "runes")) >= amount}
    IN  IF enough = {} THEN {} ELSE Largest(pool, Min(enough), "runes")

\* BuildRunesPsbt: the payload, the runes that are left and the runes withdrawn.
RunesOuts(u, amount, rest) ==
    LET withdrawn == UserOut(u, RunesOutValue, amount, NextRequest)
    IN  IF rest > 0 THEN <<OpReturn, VaultOut("RUNES", latest, RunesOutValue, rest), withdrawn>>
        ELSE <<OpReturn, withdrawn>>

\* Withdrawals of runes get their transaction at once.
WithdrawRunes(u, amount) ==
    LET base == TargetRunesUTXOs(latest, amount)
        outs == RunesOuts(u, amount, Runes(base) - amount)
        tx == BuildUnsignedTransaction(base, outs, latest)
    IN  /\ CanWithdraw
        /\ FeeRateIsValid /\ base # {} /\ tx.ok
        /\ runes[u] >= amount /\ CanBurn(u, WithdrawFee + RunesOutValue, tx.fee)
        /\ balance' = AddCoins(SubCoins(balance, u, WithdrawFee + tx.fee + RunesOutValue), Collector, WithdrawFee)
        /\ runes' = SubCoins(runes, u, amount)
        /\ IssueTransaction(base \union tx.selected, WithChange(outs, tx, latest),
                            [out |-> Len(outs), amount |-> amount])
        /\ NewWithdrawRequest(u, amount, NextTx)
        /\ UNCHANGED <<queue, packets, ibcQueue, config, phase, todo, fees>>

PendingIBCWithdrawRequests == InOrder(FirstOf(ibcQueue, MaxBatch))

\* Vouchers come back over IBC with the callback that asks for a withdrawal.
IBCReceivePacketCallback(u, amount) ==
    /\ phase = "txs" /\ enabled.withdraw /\ Len(packets) < MaxPacket /\ balance[Escrow] >= amount
    /\ balance' = AddCoins(SubCoins(balance, Escrow, amount), u, amount)
    /\ packets' = Append(packets, [user |-> u, amount |-> amount])
    /\ ibcQueue' = ibcQueue \union {Len(packets) + 1}
    /\ UNCHANGED <<ledger, request, queue, runes, config, phase, todo, fees>>

----------------------------------------------------------------------------
(* Signing *)

SubmitSignatures(s) ==
    /\ phase = "txs" /\ signing[s].status = "PENDING"
    /\ signing' = [signing EXCEPT ![s].status = "BROADCASTED"]
    /\ UNCHANGED <<utxo, index, minted, withdrawals, bank, config, phase, todo, fees>>

UTXOsByTxHash(t) == {o \in DOMAIN utxo : o[1] = t}
UnlockUTXO(u) == [u EXCEPT !.locked = FALSE]

\* AfterWithdraw: a reward for every withdrawal of BTC that the transaction pays.
WithdrawRequestsByTxHash(t) == InOrder({r \in DOMAIN request : request[r].txid = t})
AfterWithdraw(s) ==
    LET paid == WithdrawRequestsByTxHash(Txid(s))
    IN  IF signing[s].edict # NoEdict THEN incentive
        ELSE DistributeWithdrawRewards(incentive, [i \in DOMAIN paid |-> request[paid[i]].user])

\* A signed transaction may be confirmed before its signatures are submitted.
ConfirmTransaction(s, indexed) ==
    /\ phase = "txs"
    /\ signing' = [signing EXCEPT ![s].status = "CONFIRMED"]
    /\ utxo' = [o \in DOMAIN utxo |-> IF o[1] = Txid(s) THEN UnlockUTXO(utxo[o]) ELSE utxo[o]]
    /\ index' = index \union indexed
    /\ incentive' = AfterWithdraw(s)
    /\ UNCHANGED <<minted, withdrawals, bank, settings, phase, todo, fees>>
SubmitWithdrawTransaction_NoIndex(s) == signing[s].status # "CONFIRMED" /\ ConfirmTransaction(s, {})
SubmitWithdrawTransaction_Again(s) == ConfirmTransaction(s, UTXOsByTxHash(Txid(s)))
SubmitWithdrawTransaction(s) == signing[s].status # "CONFIRMED" /\ ConfirmTransaction(s, UTXOsByTxHash(Txid(s)))

SubmitFeeRate(r) ==
    /\ phase = "txs" /\ feeRate' = [value |-> r, age |-> 0]
    /\ UNCHANGED <<ledger, withdrawals, bank, height, enabled, latest, transfers, incentive, phase, todo, fees>>

UpdateParams(p) ==
    /\ phase = "txs" /\ enabled' = p
    /\ UNCHANGED <<ledger, withdrawals, bank, feeRate, height, latest, transfers, incentive, phase, todo, fees>>

UpdateIncentiveParams(p) ==
    /\ phase = "txs" /\ incentive' = [incentive EXCEPT !.params = p]
    /\ UNCHANGED <<ledger, withdrawals, bank, settings, phase, todo, fees>>

----------------------------------------------------------------------------
(* Moving UTXOs: consolidations stay in a vault, transfers go to another version. *)

TransferTx(asset, S, source, dest) ==
    IF asset = "BTC" THEN BuildTransferAllBtc(S) ELSE BuildTransferAllRunes(S, source, dest)
TransferOuts(asset, S, dest, tx) ==
    IF asset = "BTC" THEN <<VaultOut("BTC", dest, tx.change, 0)>>
    ELSE WithChange(TransferAllRunesOuts(S, dest), tx, dest)

\* The network fee is paid by the vault.
Transfer(asset, S, source, dest) ==
    LET tx == TransferTx(asset, S, source, dest)
    IN  /\ tx.ok
        /\ IssueTransaction(S \union tx.selected, TransferOuts(asset, S, dest, tx), NoEdict)
        /\ fees' = PayForMove(tx.fee)

CanIssue == phase = "txs" /\ Len(signing) < MaxTx

\* The unlocked UTXOs of a vault up to a threshold of satoshis, or of runes.
SizeOf(o, asset) == IF asset = "BTC" THEN utxo[o].amount ELSE utxo[o].runes
UnlockedUpTo(asset, version, threshold) == {o \in Unlocked(asset, version) : SizeOf(o, asset) <= threshold}

\* ConsolidateVaults, of BTC in the order of the transaction hashes or of runes in the
\* order of their keys; a maximum of 0 takes all.
ConsolidateVaults(asset, version, threshold, maxNum) ==
    LET small == UnlockedUpTo(asset, version, threshold)
        num == IF maxNum = 0 THEN Cardinality(small) ELSE Min({maxNum, MaxUtxoNum, Cardinality(small)})
    IN  /\ CanIssue /\ FeeRateIsValid /\ small # {}
        /\ \E S \in kSubset(num, small) :
               /\ asset = "RUNES" => \A x \in S, y \in small \ S : ~KeyLarger(SizeOf(x, asset), SizeOf(y, asset))
               /\ Transfer(asset, S, version, version)
        /\ UNCHANGED <<withdrawals, bank, config, phase, todo>>

\* Which UTXOs TransferVault takes: up to the target number, in the order of the hashes.
TransferChoice(asset, source, target) ==
    kSubset(Min({target, MaxUtxoNum, Cardinality(Unlocked(asset, source))}), Unlocked(asset, source))

TransferVault(asset, source, dest, target) ==
    /\ CanIssue /\ source # dest /\ FeeRateIsValid /\ Unlocked(asset, source) # {}
    /\ \E S \in TransferChoice(asset, source, target) : Transfer(asset, S, source, dest)
    /\ UNCHANGED <<withdrawals, bank, config, phase, todo>>

\* TransferVault of a transaction that the proposal brings: handleTransferVaultTx.  It pays the
\* fee rate r and sends all runes of its inputs to the vault: that governance writes such
\* transactions is assumed, the handler does not look at the edict and its pointer.
TransferVaultPsbt(asset, source, dest, ins, r) ==
    LET outs(fee) == IF asset = "BTC" THEN <<VaultOut("BTC", dest, Value(ins) - fee, 0)>>
                     ELSE <<OpReturn, VaultOut("RUNES", dest, RunesOutValue, Runes(ins)),
                            VaultOut("BTC", dest, Value(ins) - RunesOutValue - fee, 0)>>
        fee == VirtualSize(Cardinality(ins), Len(outs(0))) * r
    IN  /\ CanIssue /\ source # dest /\ ins # {} /\ Cardinality(ins) <= MaxUtxoNum
        /\ \A o \in ins : ~utxo[o].locked /\ utxo[o].version = source
        /\ asset = "BTC" => \A o \in ins : utxo[o].asset = "BTC"
        /\ asset = "RUNES" => Runes(ins) > 0
        /\ \A i \in ChangeOuts(outs(fee)) : ~IsDust(outs(fee)[i].amount)
        /\ IssueTransaction(ins, outs(fee), IF asset = "BTC" THEN NoEdict ELSE [out |-> 2, amount |-> Runes(ins)])
        /\ fees' = PayForMove(fee)
        /\ UNCHANGED <<withdrawals, bank, config, phase, todo>>

----------------------------------------------------------------------------
(* The end blocker *)

\* handleDKGRequests: a completed DKG adds vaults of a new version and may ask for the transfer
\* of the previous ones.  Then handleIBCWithdrawRequests takes the pending requests.
EndBlocker(vaults, enableTransfer) ==
    /\ phase = "txs"
    /\ vaults => latest < MaxVersion
    /\ latest' = IF vaults THEN latest + 1 ELSE latest
    /\ transfers' = IF vaults /\ enableTransfer THEN transfers \union {latest} ELSE transfers
    /\ phase' = "withdrawals"
    /\ todo' = IF FeeRateIsValid THEN PendingIBCWithdrawRequests ELSE <<>>
    /\ UNCHANGED <<ledger, withdrawals, bank, feeRate, height, enabled, incentive, fees>>

\* The network fee is deducted from what was received.
AcceptIBCWithdraw(p) ==
    LET amount == p.amount - WithdrawFee
        tx == EstimateWithdrawalTx(p.user, amount)
    IN  /\ Len(request) < MaxRequest
        /\ balance[p.user] >= p.amount /\ amount \in MinWithdraw..MaxWithdraw
        /\ tx.ok /\ amount - tx.fee >= MinWithdraw
        /\ balance' = AddCoins(SubCoins(balance, p.user, p.amount), Collector, WithdrawFee)
        /\ fees' = SetAside(tx.fee)
        /\ NewWithdrawRequest(p.user, amount - tx.fee, 0)
        /\ queue' = queue \union {NextRequest}

\* A request that is refused, by the rate limit too, is dropped: the vouchers stay.
HandleIBCWithdrawRequest ==
    /\ phase = "withdrawals" /\ todo # <<>>
    /\ todo' = Tail(todo) /\ ibcQueue' = ibcQueue \ {Head(todo)}
    /\ \/ AcceptIBCWithdraw(packets[Head(todo)])
       \/ UNCHANGED <<request, queue, balance, fees>>
    /\ UNCHANGED <<ledger, packets, runes, config, phase>>

Batch == InOrder(FirstOf(queue, MaxBatch))
BatchOuts == [i \in DOMAIN Batch |-> UserOut(request[Batch[i]].user, request[Batch[i]].amount, 0, Batch[i])]
BatchTx == BuildUnsignedTransaction({}, BatchOuts, latest)
BatchIsDue_OffByOne(tx) == enabled.withdraw /\ height = Period /\ queue # {} /\ FeeRateIsValid /\ tx.ok
BatchIsDue(tx) == enabled.withdraw /\ height = 0 /\ queue # {} /\ FeeRateIsValid /\ tx.ok

\* The vaults to move, runes first.
TransferList ==
    LET versions == InOrder(transfers)
    IN  FlattenSeq([i \in DOMAIN versions |-> <<<<"RUNES", versions[i]>>, <<"BTC", versions[i]>>>>])

Dequeued_None(q) == q
Dequeued(q) == q \ Range(Batch)

HandleBtcWithdrawRequests ==
    \E tx \in {BatchTx}, paid \in {Range(Batch)} :
        /\ phase = "withdrawals" /\ todo = <<>>
        /\ phase' = "transfer" /\ todo' = TransferList
        /\ \/ /\ BatchIsDue(tx)
              /\ IssueTransaction(tx.selected, WithChange(BatchOuts, tx, latest), NoEdict)
              /\ request' = [r \in DOMAIN request |->
                                IF r \in paid THEN [request[r] EXCEPT !.txid = NextTx] ELSE request[r]]
              /\ queue' = Dequeued(queue)
              /\ fees' = PayForBatch(tx.fee)
           \/ /\ ~BatchIsDue(tx)
              /\ UNCHANGED <<ledger, request, queue, fees>>
        /\ UNCHANGED <<packets, ibcQueue, bank, config>>

VaultTransferCompleted(asset, version) == Unlocked(asset, version) = {}

\* One transfer of handleVaultTransfer; BTC moves when no unlocked runes are left.
HandleVaultTransfer ==
    LET asset == Head(todo)[1]
        source == Head(todo)[2]
        due == /\ ~VaultTransferCompleted(asset, source) /\ FeeRateIsValid
               /\ asset = "BTC" => VaultTransferCompleted("RUNES", source)
    IN  /\ phase = "transfer" /\ todo # <<>> /\ todo' = Tail(todo)
        /\ \/ /\ due
              /\ \E S \in TransferChoice(asset, source, TargetNum) :
                    \/ Transfer(asset, S, source, latest)
                    \/ ~TransferTx(asset, S, source, latest).ok /\ UNCHANGED <<ledger, fees>>
           \/ ~due /\ UNCHANGED <<ledger, fees>>
        /\ UNCHANGED <<withdrawals, bank, config, phase>>

NextBlock ==
    /\ phase = "transfer" /\ todo = <<>>
    /\ phase' = "txs" /\ height' = (height + 1) % Period
    /\ feeRate' = [feeRate EXCEPT !.age = Min({@ + 1, Validity + 1})]
    /\ UNCHANGED <<ledger, withdrawals, bank, enabled, latest, transfers, incentive, todo, fees>>

Next ==
    \/ \E t \in Transactions : SubmitDepositTransaction(t)
    \/ \E u \in User, a \in Amount : WithdrawBtc(u, a) \/ IBCReceivePacketCallback(u, a)
    \/ \E u \in User, a \in RuneAmount : WithdrawRunes(u, a)
    \/ \E s \in DOMAIN signing : SubmitSignatures(s) \/ SubmitWithdrawTransaction(s)
    \/ \E r \in FeeRate : SubmitFeeRate(r)
    \/ \E p \in Enabled : UpdateParams(p)
    \/ \E p \in Rewarding : UpdateIncentiveParams(p)
    \/ \E asset \in Asset, v \in 0..latest, th \in Threshold, n \in {0, TargetNum} :
           ConsolidateVaults(asset, v, th, n)
    \/ \E asset \in Asset, v \in 0..latest, w \in 0..latest : TransferVault(asset, v, w, TargetNum)
    \/ \E asset \in Asset, v \in 0..latest, w \in 0..latest, ins \in SUBSET DOMAIN utxo, r \in FeeRate :
           TransferVaultPsbt(asset, v, w, ins, r)
    \/ \E vaults, enableTransfer \in BOOLEAN : EndBlocker(vaults, enableTransfer)
    \/ HandleIBCWithdrawRequest \/ HandleBtcWithdrawRequests \/ HandleVaultTransfer \/ NextBlock

Spec == Init /\ [][Next]_vars

\* Blocks are produced whether or not there are messages; nothing of the end blocker can be
\* left out.
BlockFairness ==
    WF_vars(\/ EndBlocker(FALSE, FALSE) \/ HandleIBCWithdrawRequest \/ HandleBtcWithdrawRequests
            \/ HandleVaultTransfer \/ NextBlock)
\* Fee providers keep reporting, signers sign and relayers report what Bitcoin confirms: their
\* messages are offered again and again, and they reach some block.
RelayerFairness ==
    /\ SF_vars(phase = "txs" /\ \E r \in FeeRate : SubmitFeeRate(r))
    /\ SF_vars(\E s \in DOMAIN signing : SubmitWithdrawTransaction(s))
FairSpec == Spec /\ BlockFairness /\ RelayerFairness

----------------------------------------------------------------------------
(* Properties *)

\* Everything has its type.
TypeOK ==
    /\ DOMAIN utxo \subseteq Transactions \X Nat /\ index \subseteq DOMAIN utxo
    /\ \A o \in DOMAIN utxo : utxo[o] \in [asset : Asset, version : 0..latest, amount : Nat,
                                           runes : Nat, locked : BOOLEAN]
    /\ minted \subseteq Transactions
    /\ \A s \in DOMAIN signing : signing[s].status \in {"PENDING", "BROADCASTED", "CONFIRMED"}
    /\ \A r \in DOMAIN request : request[r] \in [user : User, amount : Nat, txid : {0} \union Transactions]
    /\ queue \subseteq DOMAIN request /\ ibcQueue \subseteq DOMAIN packets
    /\ balance \in [Account -> Nat] /\ runes \in [Account -> Nat]
    /\ feeRate \in [value : {0} \union FeeRate, age : 0..(Validity + 1)] /\ height \in 0..(Period - 1)
    /\ enabled \in Enabled /\ latest \in 0..MaxVersion /\ transfers \subseteq 0..(latest - 1)
    /\ phase \in {"txs", "withdrawals", "transfer"} /\ fees \in [carried : Nat, spare : Nat, moved : Nat, excess : Nat]

\* No output is spent by two transactions of the bridge, and none that is spent is still in the
\* store (SpendUTXOs and the selections of the withdrawals, batches, consolidations, transfers).
NoDoubleSpend ==
    \A s \in DOMAIN signing :
        /\ signing[s].ins \intersect DOMAIN utxo = {}
        /\ \A r \in DOMAIN signing \ {s} : signing[r].ins \intersect signing[s].ins = {}

\* UTXOs are selected from the owner indexes, which hold exactly the outputs whose transaction
\* is confirmed: the change of a transaction that Bitcoin may never see is not spent.
SpendableIsConfirmed ==
    \A o \in DOMAIN utxo :
        /\ o \in index <=> ~utxo[o].locked
        /\ utxo[o].locked <=> (\E s \in DOMAIN signing : Txid(s) = o[1] /\ signing[s].status # "CONFIRMED")

\* What the vaults lack to pay the vouchers and the queued withdrawals was paid to Bitcoin: it is
\* the network fees of consolidations and transfers, which nobody burned, and what batches cost
\* beyond the fees burned by then; what they have too much was burned as a fee in advance, or
\* carries runes.  Nothing else, such as minting a change output, can change one side alone
\* (mintBTC, BurnAsset, BurnBtcNetworkFee, BuildUnsignedTransaction).
Claims == SumOver(Account, LAMBDA a : balance[a]) + SumOver(queue, LAMBDA r : request[r].amount)
SatoshisAreAccounted == Value(DOMAIN utxo) + fees.moved + fees.excess = Claims + fees.carried + fees.spare

\* NOT an invariant, checked in no run: the vaults can pay all vouchers and queued withdrawals.
\* Consolidations and transfers take their network fee from the vaults, and a batch is built at
\* the fee rate of its block, while the fees were burned at that of the requests
\* (BurnBtcNetworkFee, withdraw.go:95).
VouchersArePayable == Value(DOMAIN utxo) >= Claims

\* The runes of the vaults are exactly the rune vouchers (mintRunes, GetTargetRunesUTXOs).
RunesAreBacked == Runes(DOMAIN utxo) = SumOver(Account, LAMBDA a : runes[a])

\* Every satoshi and every rune of the vouchers is in a vault or was paid to Bitcoin as a fee of
\* the bridge's own transactions, in a state of the right types.
VouchersAreAccounted == TypeOK /\ SatoshisAreAccounted /\ RunesAreBacked

\* A withdrawal is either queued and not paid or paid by exactly one output of the transaction
\* it names, with its amount (handleBtcWithdrawRequests, HandleRunesWithdrawal).
Payments(r) == UNION {{<<s, i>> : i \in {j \in DOMAIN signing[s].outs : signing[s].outs[j].req = r}}
                        : s \in DOMAIN signing}
WithdrawalIsPaidOnce ==
    \A r \in DOMAIN request :
        IF r \in queue THEN request[r].txid = 0 /\ Payments(r) = {}
        ELSE \E o \in Payments(r) :
                /\ Payments(r) = {o} /\ Txid(o[1]) = request[r].txid
                /\ LET out == signing[o[1]].outs[o[2]]
                   IN  /\ out.account = request[r].user
                       /\ request[r].amount = IF signing[o[1]].edict = NoEdict THEN out.amount ELSE out.runes

\* Neither an output nor a withdrawal is used twice, across all kinds of transactions, and what
\* can be selected for a payment exists on Bitcoin.
NothingIsPaidTwice == NoDoubleSpend /\ SpendableIsConfirmed /\ WithdrawalIsPaidOnce

\* Rewards are earned and recorded, although the hooks ignore the errors of the rewards and one
\* of several withdrawals may go without: nobody has more rewards than deposits minted to them
\* or withdrawals of theirs that are confirmed, and what the records and the statistics say is
\* what left the account of x/incentive (AfterDeposit, AfterWithdraw, UpdateRewardStats).
Minted(a) == {t \in minted : t <= Len(Deposit) /\ Deposit[t].edict = NoEdict /\ Recipient(Deposit[t]) = a}
Paid(a) == {r \in DOMAIN request : /\ request[r].user = a /\ request[r].txid # 0
                                   /\ signing[request[r].txid - Len(Deposit)].status = "CONFIRMED"}
RewardsAreEarned ==
    LET rewards == incentive.rewards
        total == SumOver(DOMAIN rewards, LAMBDA a : rewards[a].TotalAmount)
    IN  /\ \A a \in DOMAIN rewards : /\ rewards[a].count.deposit <= Cardinality(Minted(a))
                                     /\ rewards[a].count.withdraw <= Cardinality(Paid(a))
                                     /\ rewards[a].TotalAmount = rewards[a].amount.deposit + rewards[a].amount.withdraw
        /\ total = SumOver(DOMAIN Funds, LAMBDA d : Funds[d] - incentive.funds[d])
        /\ \A d \in DOMAIN Funds : incentive.funds[d] \in 0..Funds[d]
        /\ incentive.stats = [AddressCount |-> Cardinality(DOMAIN rewards),
                              TxCount |-> SumOver(DOMAIN rewards, LAMBDA a : rewards[a].count.deposit + rewards[a].count.withdraw),
                              TotalRewardAmount |-> total]

\* A withdrawal that is queued for good waits for a batch that cannot be built any more.
QueueIsServed ==
    \A r \in 1..MaxRequest : <>[](r \in queue) => <>[](queue # {} => ~enabled.withdraw \/ ~BatchTx.ok)

\* The vaults that a DKG asked to move are emptied, of change that was in flight at that time
\* and of late deposits too: what stays is spendable and cannot pay for its own transfer
\* (handleVaultTransfer).
OutputsOf(v) == {o \in DOMAIN utxo : utxo[o].version = v}
CannotMove(asset, v) == \E S \in TransferChoice(asset, v, TargetNum) : ~TransferTx(asset, S, v, latest).ok
OldVaultIsEmptied ==
    \A v \in 0..(MaxVersion - 1) : v \in transfers ~>
        /\ v \in transfers /\ OutputsOf(v) \subseteq index
        /\ \A asset \in {utxo[o].asset : o \in OutputsOf(v)} : CannotMove(asset, v)

\* "Btc withdrawal request will be dispatched to the batch withdrawal queue which is handled
\* periodically" (x/btcbridge/keeper/withdraw.go:79): a queued request leaves the queue.  It does
\* not when the first requests of the queue need more than MaxUtxoNum outputs together.
QueueIsHandled == \A r \in 1..MaxRequest : r \in queue ~> r \notin queue

----------------------------------------------------------------------------
(* What the store of UTXOs promises: module UtxoLife *)

Spent == UNION {signing[s].ins : s \in DOMAIN signing}
Life == INSTANCE UtxoLife WITH free <- index, locked <- DOMAIN utxo \ index, spent <- Spent

\* The UTXO store implements the life of an output: it is credited or created once, is
\* spendable after its confirmation and is spent once, whatever the relayers report again.
LifeSpec == Life!Spec
=============================================================================
