---------------------------- MODULE Liquidation ----------------------------
(***************************************************************************)
(* The auctions of x/liquidation.  A liquidation is created by x/lending   *)
(* for a defaulted or liquidated loan (module LoanDlc); liquidators pay    *)
(* its debt piecewise for collateral at the price of the oracle; the end   *)
(* blocker closes an exhausted auction and builds the Bitcoin transaction  *)
(* that pays everyone out of the output of the liquidation CET; when the   *)
(* DCM has signed it, the paid debt goes to the pool (Settle of module     *)
(* LendingPool).                                                           *)
(*                                                                         *)
(* Collateral and debt have the same number of decimals here, so that only *)
(* the price converts between them, and the collateral is the base asset   *)
(* of the price.                                                           *)
(***************************************************************************)
EXTENDS Integers, Sequences, FiniteSets, Functions, SequencesExt, FiniteSetsExt

CONSTANTS
    Id,             \* liquidations
    Precision,      \* one, as a LegacyDec (10^18 in the code)
    Price,          \* prices of the oracle, as LegacyDecs
    Params,         \* values of the module's params
    Debt,           \* values of DebtAmount
    Collateral,     \* values of ActualCollateralAmount: the output of the CET
    Payment,        \* amounts offered by liquidators
    FeeRate,        \* fee rates of x/btcbridge
    NetworkFeeReserve,  \* LiquidationNetworkFeeReserve
    Dust,           \* DefaultDustOutValue, the highest dust limit of an address
    BaseSize, OutSize,  \* virtual size of a transaction and of an output of it
    MaxRecords      \* bound on the records of a liquidation

\* Params.Validate; MaxLiquidationBonusFactor is 0.1.
ValidParams ==
    [min : 1..Precision, bonus : {b \in 1..Precision : 10 * b <= Precision}, fee : 0..(Precision - 1)]

\* CreateLiquidation panics on a CET output below the reserve;
\* the reserve relays a transaction of MaxRecords + 2 outputs.
ASSUME LiquidationAssumption ==
    /\ IsFiniteSet(Id) /\ Precision \in Nat \ {0} /\ Price \subseteq Nat \ {0}
    /\ Params \subseteq ValidParams
    /\ Debt \subseteq Nat \ {0} /\ Payment \subseteq Nat \ {0} /\ FeeRate \subseteq Nat
    /\ NetworkFeeReserve \in Nat /\ Collateral \subseteq {c \in Nat : c >= NetworkFeeReserve}
    /\ Dust \in Nat \ {0} /\ BaseSize \in Nat /\ OutSize \in Nat /\ MaxRecords \in Nat
    /\ NetworkFeeReserve >= BaseSize + (MaxRecords + 2) * OutSize

VARIABLES
    liquidation,    \* Liquidation by id
    records,        \* its LiquidationRecords, in order
    settlement,     \* its settlement transaction
    price,          \* the oracle's price, NoPrice when there is none
    feeRate,        \* the bridge's fee rate, 0 when there is none
    params,         \* the module's params
    held            \* coins of the module account

vars == <<liquidation, records, settlement, price, feeRate, params, held>>

NoPrice == 0

NoLiquidation == [status |-> "NONE", actual |-> 0, debt |-> 0, unliquidated |-> 0,
                  liquidatedCollateral |-> 0, liquidatedDebt |-> 0, bonus |-> 0, fee |-> 0]

\* rate: the fee rate that a transaction was built with; -1: there is no transaction.
NoTx == [outs |-> <<>>, protocolOut |-> 0, change |-> 0, rate |-> -1]

Init ==
    /\ liquidation = [i \in Id |-> NoLiquidation]
    /\ records = [i \in Id |-> <<>>]
    /\ settlement = [i \in Id |-> NoTx]
    /\ price = NoPrice /\ feeRate = 0 /\ held = 0
    /\ params \in Params

\* Records are numbered in the order of the purchases; GetLiquidationRecords reads them so.
NewRecords(i, r) == [records EXCEPT ![i] = Append(@, r)]
Received(r) == r.collateral + r.bonus
RecordOuts(rs) == [k \in 1..Len(rs) |-> Received(rs[k])]
Remaining(l) == l.debt - l.liquidatedDebt

----------------------------------------------------------------------------
(* Amounts.  An integer times a LegacyDec is exact; a quotient is rounded   *)
(* half to even before it is truncated (cosmossdk.io/math).                 *)

MulTruncate(n, d) == (n * d) \div Precision

QuoTruncate(n, d) ==
    LET x == n * Precision * Precision
        q == x \div d
        r == 2 * (x % d)
    IN  (IF r < d \/ (r = d /\ q % 2 = 0) THEN q ELSE q + 1) \div Precision

GetCollateralAmount(debt, p) == QuoTruncate(debt, p)
GetDebtAmount(collateral, p) == MulTruncate(collateral, p)

MinLiquidationDebt(l) == MulTruncate(l.debt, params.min)

IsDust(amount) == amount < Dust

----------------------------------------------------------------------------
(* The auction *)

\* CreateLiquidation, called by the HandleLiquidation of x/lending.
CreateLiquidation(i, actual, debt) ==
    /\ liquidation[i].status = "NONE"
    /\ liquidation' = [liquidation EXCEPT ![i] =
           [NoLiquidation EXCEPT !.status = "LIQUIDATING", !.actual = actual, !.debt = debt,
                                 !.unliquidated = actual - NetworkFeeReserve]]
    /\ UNCHANGED <<records, settlement, price, feeRate, params, held>>

\* What an offer of d buys: at most the remaining debt and the remaining collateral.
Purchase_Overpaid(l, d) ==
    LET debt == Min({d, Remaining(l)})
    IN  [debt |-> debt, collateral |-> Min({GetCollateralAmount(debt, price), l.unliquidated})]
Purchase_Uncapped(l, d) ==
    LET collateral == GetCollateralAmount(d, price)
    IN  IF l.unliquidated < collateral
        THEN [debt |-> GetDebtAmount(l.unliquidated, price), collateral |-> l.unliquidated]
        ELSE [debt |-> d, collateral |-> collateral]
Purchase(l, d) ==
    LET debt == Min({d, Remaining(l)})
        collateral == GetCollateralAmount(debt, price)
    IN  IF l.unliquidated < collateral
        THEN [debt |-> GetDebtAmount(l.unliquidated, price), collateral |-> l.unliquidated]
        ELSE [debt |-> debt, collateral |-> collateral]

\* The bonus of a purchase, out of the collateral that is left after it.
Bonus(l, p) ==
    Min({GetCollateralAmount(MulTruncate(p.debt, params.bonus), price),
         l.unliquidated - p.collateral})

\* The conditions of HandleLiquidation on an offer of d.
Acceptable_AnyStatus(l, d) ==
    /\ l.status # "NONE" /\ l.unliquidated # 0 /\ Remaining(l) # 0
    /\ d >= Min({MinLiquidationDebt(l), Remaining(l)})
    /\ price # NoPrice
    /\ LET p == Purchase(l, d) IN ~IsDust(p.collateral + Bonus(l, p))
Acceptable(l, d) ==
    /\ l.status = "LIQUIDATING" /\ l.unliquidated # 0 /\ Remaining(l) # 0
    /\ d >= Min({MinLiquidationDebt(l), Remaining(l)})
    /\ price # NoPrice
    /\ LET p == Purchase(l, d) IN ~IsDust(p.collateral + Bonus(l, p))

\* The liquidation after a purchase p with bonus b and protocol fee f.
Charged(l, p, b, f) ==
    [l EXCEPT !.liquidatedCollateral = @ + p.collateral + b, !.liquidatedDebt = @ + p.debt,
              !.bonus = @ + b, !.fee = @ + f,
              !.unliquidated = @ - p.collateral - b]

\* MsgLiquidate: a liquidator offers d.
HandleLiquidation(i, d) ==
    LET l == liquidation[i]
        p == Purchase(l, d)
        b == Bonus(l, p)
        f == MulTruncate(b, params.fee)
    IN  /\ Len(records[i]) < MaxRecords
        /\ Acceptable(l, d)
        /\ liquidation' = [liquidation EXCEPT ![i] = Charged(l, p, b, f)]
        /\ records' = NewRecords(i, [debt |-> p.debt, collateral |-> p.collateral, bonus |-> b - f])
        /\ held' = held + p.debt
        /\ UNCHANGED <<settlement, price, feeRate, params>>

----------------------------------------------------------------------------
(* The end blocker *)

\* handlePendingLiquidations: the auction of l is over.
Exhausted_NoDustRule(l) ==
    \/ l.unliquidated = 0 \/ Remaining(l) = 0
    \/ /\ Remaining(l) < MinLiquidationDebt(l)
       /\ price # NoPrice
       /\ IsDust(GetCollateralAmount(Remaining(l), price))
Exhausted(l) ==
    \/ l.unliquidated = 0 \/ Remaining(l) = 0
    \/ IsDust(l.unliquidated)
    \/ /\ Remaining(l) < MinLiquidationDebt(l)
       /\ price # NoPrice
       /\ IsDust(GetCollateralAmount(Remaining(l), price))

\* GetTxVirtualSize of a transaction with n outputs.
VirtualSize(n) == BaseSize + n * OutSize

DropDust(amount) == IF IsDust(amount) THEN 0 ELSE amount
Outputs(tx) == Len(tx.outs) + (IF tx.protocolOut > 0 THEN 1 ELSE 0)
Paid(tx) == SumFunction(tx.outs) + tx.protocolOut

\* BuildUnsignedTransaction: NoTx is ErrInsufficientUTXOs.  The fee without a change
\* output is only looked at when the one with it is not covered.
BuildUnsignedTransaction(in, tx) ==
    LET left == in - Paid(tx)
        change == left - feeRate * VirtualSize(Outputs(tx) + 1)
    IN  IF change > 0 THEN [tx EXCEPT !.change = DropDust(change), !.rate = feeRate]
        ELSE IF change < 0 /\ left < feeRate * VirtualSize(Outputs(tx)) THEN NoTx
        ELSE [tx EXCEPT !.rate = feeRate]

\* BuildUnsignedTransactionWithFee: the reserve is the fee; its rate is recorded as 0.
BuildUnsignedTransactionWithFee(in, tx) ==
    LET change == in - Paid(tx) - NetworkFeeReserve
        built == [tx EXCEPT !.change = IF change > 0 THEN DropDust(change) ELSE 0, !.rate = 0]
        size == VirtualSize(Outputs(tx) + (IF built.change > 0 THEN 1 ELSE 0))
    IN  IF change < 0 \/ NetworkFeeReserve < size THEN NoTx ELSE built

\* BuildBatchTransferPsbt: the fee rate first, then the reserve.
BuildBatchTransferPsbt_RateOnly(l, rs) ==
    LET tx == [NoTx EXCEPT !.outs = RecordOuts(rs), !.protocolOut = DropDust(l.fee)]
    IN  IF feeRate # 0 THEN BuildUnsignedTransaction(l.actual, tx)
        ELSE BuildUnsignedTransactionWithFee(l.actual, tx)
BuildBatchTransferPsbt(l, rs) ==
    LET tx == [NoTx EXCEPT !.outs = RecordOuts(rs), !.protocolOut = DropDust(l.fee)]
        atRate == IF feeRate # 0 THEN BuildUnsignedTransaction(l.actual, tx) ELSE NoTx
    IN  IF atRate # NoTx THEN atRate ELSE BuildUnsignedTransactionWithFee(l.actual, tx)

\* handlePendingLiquidations, then handleCompletedLiquidations, each for every
\* liquidation; the settlement transaction goes to the DCM for signing.
Pending(l) ==
    IF l.status = "LIQUIDATING" /\ Exhausted(l) THEN [l EXCEPT !.status = "LIQUIDATED"] ELSE l

Built(i) ==
    LET l == Pending(liquidation[i])
    IN  IF l.status = "LIQUIDATED" THEN BuildBatchTransferPsbt(l, records[i]) ELSE NoTx

Completed(i) ==
    LET l == Pending(liquidation[i])
    IN  IF Built(i) = NoTx THEN l
        ELSE [l EXCEPT !.status = "SETTLING", !.unliquidated = Built(i).change]

EndBlock ==
    /\ liquidation' = [i \in Id |-> Completed(i)]
    /\ settlement' = [i \in Id |-> IF Built(i) = NoTx THEN settlement[i] ELSE Built(i)]
    /\ UNCHANGED <<records, price, feeRate, params, held>>

\* SigningCompletedHandler: HandleLiquidatedDebt passes all of the paid debt on.
HandleSettlementSignatures(i) ==
    /\ liquidation[i].status = "SETTLING"
    /\ held >= liquidation[i].liquidatedDebt
    /\ held' = held - liquidation[i].liquidatedDebt
    /\ liquidation' = [liquidation EXCEPT ![i].status = "SETTLED"]
    /\ UNCHANGED <<records, settlement, price, feeRate, params>>

----------------------------------------------------------------------------
(* What the module reads of the others *)

SetPrice(p) == price' = p /\ UNCHANGED <<liquidation, records, settlement, feeRate, params, held>>
SetFeeRate(r) == feeRate' = r /\ UNCHANGED <<liquidation, records, settlement, price, params, held>>
UpdateParams(q) == params' = q /\ UNCHANGED <<liquidation, records, settlement, price, feeRate, held>>

Next ==
    \/ \E i \in Id, c \in Collateral, d \in Debt : CreateLiquidation(i, c, d)
    \/ \E i \in Id, d \in Payment : HandleLiquidation(i, d)
    \/ EndBlock
    \/ \E i \in Id : HandleSettlementSignatures(i)
    \/ \E p \in Price \cup {NoPrice} : SetPrice(p)
    \/ \E r \in FeeRate : SetFeeRate(r)
    \/ \E q \in Params : UpdateParams(q)

Spec == Init /\ [][Next]_vars

\* Blocks go on, and the members of the DCM answer its signing requests.
Fairness == WF_vars(EndBlock) /\ \A i \in Id : WF_vars(HandleSettlementSignatures(i))
FairSpec == Spec /\ Fairness

----------------------------------------------------------------------------
(* Properties *)

Status == {"NONE", "LIQUIDATING", "LIQUIDATED", "SETTLING", "SETTLED"}

\* Types of the variables: no amount ever becomes negative (a negative coin panics).
TypeOK ==
    /\ \A i \in Id :
          /\ liquidation[i] \in [status : Status, actual : Nat, debt : Nat, unliquidated : Nat,
                                 liquidatedCollateral : Nat, liquidatedDebt : Nat, bonus : Nat,
                                 fee : Nat]
          /\ records[i] \in Seq([debt : Nat, collateral : Nat, bonus : Nat])
          /\ settlement[i] \in [outs : Seq(Nat), protocolOut : Nat, change : Nat, rate : Int]
    /\ price \in Price \cup {NoPrice} /\ feeRate \in FeeRate \cup {0} /\ params \in Params
    /\ held \in Nat

\* However the purchases and bonuses of an auction are rounded and capped, what has been
\* sold, what is left and the reserve for the network fee add up to the output of the
\* CET, so that the settlement can always be paid out of it (HandleLiquidation).
CollateralIsConserved ==
    \A i \in Id : liquidation[i].status \in {"LIQUIDATING", "LIQUIDATED"} =>
        liquidation[i].liquidatedCollateral + liquidation[i].unliquidated + NetworkFeeReserve
            = liquidation[i].actual

\* The collateral sold is what the records give to the liquidators and the fee gives to
\* the protocol, although the fee of every record is rounded (HandleLiquidation).
SoldIsOwed ==
    \A i \in Id : liquidation[i].liquidatedCollateral
        = liquidation[i].fee + SumFunction([k \in 1..Len(records[i]) |-> Received(records[i][k])])

\* The liquidators never pay more than the debt, also when a shortage of collateral makes
\* HandleLiquidation compute the payment back from the collateral with roundings both ways.
DebtIsNotOverpaid == \A i \in Id : liquidation[i].liquidatedDebt <= liquidation[i].debt

\* An auction sells what it has for what is owed (HandleLiquidation).
AuctionBalances == CollateralIsConserved /\ DebtIsNotOverpaid

\* The module account holds exactly what the records say liquidators have paid for
\* liquidations that are not settled (HandleLiquidation, HandleSettlementSignatures).
PaidDebtIsHeld ==
    held = SumFunction([i \in Id |-> IF liquidation[i].status = "SETTLED" THEN 0
                                     ELSE SumFunction([k \in 1..Len(records[i]) |-> records[i][k].debt])])

\* The records of an auction add up to its totals and to the coins held, and no amount is
\* negative (HandleLiquidation, HandleSettlementSignatures).
RecordsAddUp == TypeOK /\ SoldIsOwed /\ PaidDebtIsHeld

NetworkFee(i) == liquidation[i].actual - Paid(settlement[i]) - settlement[i].change
TxSize(i) == VirtualSize(Outputs(settlement[i]) + (IF settlement[i].change > 0 THEN 1 ELSE 0))
IsSettled(i) == liquidation[i].status \in {"SETTLING", "SETTLED"}

\* The settlement transaction pays every record there is, also after later messages
\* (the status guard of HandleLiquidation against handleCompletedLiquidations).
LiquidatorsArePaid ==
    \A i \in Id : IsSettled(i) =>
        settlement[i].outs = [k \in 1..Len(records[i]) |-> Received(records[i][k])]

\* Whatever the fee rate was, the settlement transaction pays at least one unit per
\* virtual byte, so that it is relayed ("sufficient to relay the tx by design",
\* handleCompletedLiquidations), and the fee that the debtor bears is bounded by the
\* reserve or the fee rate and by two dropped outputs.
SettlementFeeIsBounded ==
    \A i \in Id : IsSettled(i) =>
        /\ NetworkFee(i) >= TxSize(i)
        /\ NetworkFee(i) <= Max({NetworkFeeReserve,
                                 settlement[i].rate * VirtualSize(Outputs(settlement[i]) + 1)})
                            + 2 * (Dust - 1)

\* The records of an auction add up before, during and after its settlement, and the settlement
\* transaction pays every one of them and can be relayed (handleCompletedLiquidations).
SettlementIsRight == RecordsAddUp /\ LiquidatorsArePaid /\ SettlementFeeIsBounded

\* The outputs of the settlement transaction are relayed: HandleLiquidation rejects
\* payments for a dust output.  It does so before the protocol fee is taken, which breaks this.
OutputsAreNotDust ==
    \A i \in Id : IsSettled(i) =>
        \A k \in 1..Len(settlement[i].outs) : ~IsDust(settlement[i].outs[k])

\* Every purchase is at the price, with and without a shortage of collateral: the
\* collateral is worth no more than the debt paid, and one more unit of it would be worth
\* more than that; the bonus never exceeds its factor (HandleLiquidation).
PurchaseIsFair ==
    [][\A i \in Id : Len(records'[i]) > Len(records[i]) =>
          LET r == Last(records'[i])
          IN  /\ GetDebtAmount(r.collateral, price) <= r.debt
              /\ GetDebtAmount(r.collateral + 1, price) >= r.debt
              /\ GetDebtAmount(r.bonus, price) <= MulTruncate(r.debt, params.bonus)]_vars

\* An auction that the end blocker leaves open can be taken up by a liquidator, as long
\* as the minimum payment is worth more than dust (the two dust rules of
\* handlePendingLiquidations against the checks of HandleLiquidation).
OpenAuctionIsLiquidatable ==
    \A i \in Id : LET l == liquidation[i] IN
        /\ Completed(i).status = "LIQUIDATING"
        /\ price # NoPrice
        /\ ~IsDust(GetCollateralAmount(MinLiquidationDebt(l), price))
        => \E d \in 1..Remaining(l) : Acceptable(l, d)

\* An exhausted auction is settled, whatever the fee rate does: with too high a rate the
\* reserve pays for the transaction (BuildBatchTransferPsbt).
ExhaustedIsSettled ==
    \A i \in Id : liquidation[i].status = "LIQUIDATED"
                  \/ (liquidation[i].status = "LIQUIDATING" /\ Remaining(liquidation[i]) = 0)
                  ~> liquidation[i].status = "SETTLED"
=============================================================================
