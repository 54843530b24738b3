------------------------------ MODULE RateLimit -----------------------------
(***************************************************************************)
(* The rate limit of BTC withdrawals in x/btcbridge.  A global quota, a    *)
(* percentage of the voucher supply when its epoch begins, and a quota per *)
(* address limit what may be withdrawn in an epoch.  Withdrawals by        *)
(* message are charged at once.  Withdrawals over IBC are only checked     *)
(* when their packet arrives; they are charged at the end of the block,    *)
(* where they are dropped if the quota is used up by then.  Epochs end in  *)
(* the end blocker, after the withdrawals of the block.                    *)
(*                                                                         *)
(* An account's vouchers are not modelled: an IBC withdrawal may be        *)
(* dropped for other reasons (module Bridge).  Fees are left out.          *)
(***************************************************************************)
EXTENDS Integers, Sequences

CONSTANTS
    User,
    Amount,         \* amounts of deposits and withdrawals
    Params,         \* RateLimitParams that governance may choose
    InitialSupply,  \* voucher supply at genesis or at the upgrade
    MaxQueue, MaxSupply, MaxClock    \* bounds

\* validateRateLimitParams
ValidParams == [period : Nat \ {0}, percentage : 1..100, addressPeriod : Nat \ {0}, addressQuota : Nat]

ASSUME RateLimitAssumption ==
    /\ Params \subseteq ValidParams
    /\ Amount \subseteq Nat \ {0} /\ InitialSupply \subseteq Nat
    /\ MaxQueue \in Nat /\ MaxSupply \in Nat /\ MaxClock \in Nat

VARIABLES
    clock,      \* block time
    supply,     \* supply of BTC vouchers
    params,     \* RateLimitParams
    status,     \* whether the rate limit exists
    global,     \* GlobalRateLimit: quota, used, end; a quota of 0 is no limit
    address,    \* AddressRateLimit: quota, end
    used,       \* AddressRateLimitDetails
    queue,      \* withdrawals received over IBC, a sequence
    stage,      \* the messages of a block or its end
    out, cap,       \* history of the global epoch: withdrawn, and the widest quota
    outOf, capOf,   \* history of the address epoch
    peak        \* history: the largest supply of the global epoch

record == <<status, global, address, used>>
history == <<out, cap, outOf, capOf>>
limitVars == <<clock, supply, params, record, queue, stage, history, peak>>

Larger(a, b) == IF a > b THEN a ELSE b
Wider(q, r) == IF q = 0 \/ r = 0 THEN 0 ELSE Larger(q, r)

\* GetGlobalRateLimitQuota
GlobalQuota(p) == IF p.percentage = 100 THEN 0 ELSE (supply * p.percentage) \div 100

NewGlobalRateLimit == [quota |-> GlobalQuota(params), used |-> 0, end |-> clock + params.period]
NewAddressRateLimit == [quota |-> params.addressQuota, end |-> clock + params.addressPeriod]
NoUse == [u \in User |-> 0]

\* The genesis state has a rate limit; a chain that is upgraded to this version has none.
LimitInit ==
    /\ clock = 0 /\ supply \in InitialSupply /\ params \in Params /\ status \in {"absent", "present"}
    /\ global = IF status = "present" THEN NewGlobalRateLimit ELSE [quota |-> 0, used |-> 0, end |-> 0]
    /\ address = IF status = "present" THEN NewAddressRateLimit ELSE [quota |-> 0, end |-> 0]
    /\ used = NoUse /\ queue = <<>> /\ stage = "txs"
    /\ out = 0 /\ cap = global.quota
    /\ outOf = NoUse /\ capOf = address.quota
    /\ peak = supply

----------------------------------------------------------------------------
CheckGlobalRateLimit(a) == global.quota = 0 \/ global.used + a <= global.quota
CheckAddressRateLimit(u, a) == address.quota = 0 \/ used[u] + a <= address.quota
CheckRateLimit(u, a) == status = "present" => CheckAddressRateLimit(u, a) /\ CheckGlobalRateLimit(a)

\* The record is written even if there was none: then with quotas and ends of 0.
UpdateRateLimitUsedQuotas(u, a) ==
    /\ status' = "present"
    /\ global' = [global EXCEPT !.used = @ + a]
    /\ used' = [used EXCEPT ![u] = @ + a]
    /\ UNCHANGED address

\* HandleRateLimit, then the vouchers are burned.
HandleRateLimit(u, a) == CheckRateLimit(u, a) /\ UpdateRateLimitUsedQuotas(u, a)
Burn(u, a) ==
    /\ supply >= a /\ supply' = supply - a
    /\ out' = out + a /\ outOf' = [outOf EXCEPT ![u] = @ + a]
    /\ UNCHANGED <<cap, capOf, peak>>

WithdrawToBitcoin(u, a) ==
    /\ stage = "txs" /\ HandleRateLimit(u, a) /\ Burn(u, a)
    /\ UNCHANGED <<clock, params, queue, stage>>

IBCReceivePacketCallback(u, a) ==
    /\ stage = "txs" /\ Len(queue) < MaxQueue /\ CheckRateLimit(u, a)
    /\ queue' = Append(queue, [user |-> u, amount |-> a])
    /\ UNCHANGED <<clock, supply, params, record, stage, history, peak>>

SubmitDepositTransaction(a) ==
    /\ stage = "txs" /\ supply + out + a <= MaxSupply
    /\ supply' = supply + a /\ peak' = Larger(peak, supply')
    /\ UNCHANGED <<clock, params, record, queue, stage, history>>

\* MsgUpdateParams with UpdateRateLimitTotalQuotas: quotas change, epochs and uses do not.
UpdateLimitParams(p) ==
    /\ stage = "txs" /\ params' = p
    /\ IF status = "present"
       THEN /\ global' = [global EXCEPT !.quota = GlobalQuota(p)]
            /\ address' = [address EXCEPT !.quota = p.addressQuota]
       ELSE UNCHANGED <<global, address>>
    /\ cap' = Wider(cap, global'.quota) /\ capOf' = Wider(capOf, address'.quota)
    /\ UNCHANGED <<clock, supply, status, used, queue, stage, out, outOf, peak>>

----------------------------------------------------------------------------
(* The end blocker *)

EndBlocker == stage = "txs" /\ stage' = "ending" /\ UNCHANGED <<clock, supply, params, record, queue, history, peak>>

\* handleIBCWithdrawRequests: a request is handled or dropped, and stays without a fee rate.
HandleIBCWithdrawRequest_Checked ==
    /\ stage = "ending" /\ queue # <<>> /\ queue' = Tail(queue)
    /\ \/ UNCHANGED record /\ Burn(Head(queue).user, Head(queue).amount)
       \/ UNCHANGED <<record, supply, history, peak>>
    /\ UNCHANGED <<clock, params, stage>>
HandleIBCWithdrawRequest ==
    /\ stage = "ending" /\ queue # <<>> /\ queue' = Tail(queue)
    /\ \/ HandleRateLimit(Head(queue).user, Head(queue).amount) /\ Burn(Head(queue).user, Head(queue).amount)
       \/ UNCHANGED <<record, supply, history, peak>>
    /\ UNCHANGED <<clock, params, stage>>

GlobalEpochEnds == status = "absent" \/ clock >= global.end
AddressEpochEnds == status = "absent" \/ clock >= address.end

\* updateRateLimit, and the next block.
UpdateRateLimit ==
    /\ stage = "ending" /\ stage' = "txs" /\ status' = "present"
    /\ IF GlobalEpochEnds
       THEN /\ global' = NewGlobalRateLimit
            /\ out' = 0 /\ cap' = global'.quota /\ peak' = supply
       ELSE UNCHANGED <<global, out, cap, peak>>
    /\ IF AddressEpochEnds
       THEN /\ address' = NewAddressRateLimit /\ used' = NoUse
            /\ outOf' = NoUse /\ capOf' = address'.quota
       ELSE UNCHANGED <<address, used, outOf, capOf>>
    /\ clock' \in clock..MaxClock
    /\ UNCHANGED <<supply, params, queue>>

LimitNext ==
    \/ \E u \in User, a \in Amount : WithdrawToBitcoin(u, a) \/ IBCReceivePacketCallback(u, a)
    \/ \E a \in Amount : SubmitDepositTransaction(a)
    \/ \E p \in Params : UpdateLimitParams(p)
    \/ EndBlocker \/ HandleIBCWithdrawRequest \/ UpdateRateLimit

LimitSpec == LimitInit /\ [][LimitNext]_limitVars

----------------------------------------------------------------------------
(* Properties *)

\* Everything has its type.
LimitTypeOK ==
    /\ clock \in Nat /\ supply \in Nat /\ params \in Params /\ status \in {"absent", "present"}
    /\ global \in [quota : Nat, used : Nat, end : Nat] /\ address \in [quota : Nat, end : Nat]
    /\ used \in [User -> Nat] /\ queue \in Seq([user : User, amount : Amount])
    /\ stage \in {"txs", "ending"} /\ out \in Nat /\ cap \in Nat /\ peak \in Nat
    /\ outOf \in [User -> Nat] /\ capOf \in Nat

\* In an epoch that never was without a limit, no more is withdrawn than the widest quota that
\* was in force: the messages and the IBC withdrawals of its blocks together, whatever the
\* parameters were changed to in the meantime (CheckGlobalRateLimit, updateRateLimit).
EpochOutflowIsLimited == cap # 0 => out <= cap

\* The same for what one address withdraws (CheckAddressRateLimit).
AddressOutflowIsLimited == capOf # 0 => \A u \in User : outOf[u] <= capOf

\* Both limits of the epochs hold (CheckRateLimit, updateRateLimit).
OutflowIsLimited == EpochOutflowIsLimited /\ AddressOutflowIsLimited

\* "Maximum withdrawable supply percentage during the rate limit period; 100 means no limit"
\* (proto/bitway/btcbridge/params.proto:121): under one percentage below 100, an epoch lets out
\* at most that percentage of the largest supply it has seen.  A quota that rounds to 0 breaks it.
PercentageIsMaximum ==
    global.end # 0 /\ params.percentage # 100 => out * 100 <= params.percentage * peak
=============================================================================
