------------------------------ MODULE LoanDlc ------------------------------
(***************************************************************************)
(* The life of a loan of x/lending and of the discreet log contract that   *)
(* guards its collateral: the loan and its contract execution transactions *)
(* (CETs), the deposits and redemptions of its vault, the event of x/dlc   *)
(* it is bound to, and the signing requests to x/tss by which the oracle   *)
(* attests an outcome and the DCM signs transactions.                      *)
(*                                                                         *)
(* A block is a phase "deliver" (messages) followed by the end blocker of  *)
(* x/lending: handleApprovals, handleLiquidations, handleLiquidatedLoans,  *)
(* handleRepayments, each a loop of one step per loan over the loans it    *)
(* iterates.  A loan is identified by its vault.  Amounts are left to      *)
(* module LendingPool: what the pool answers to an approval is an input.   *)
(***************************************************************************)
EXTENDS Integers, FiniteSets

CONSTANTS
    Loan,               \* vault addresses
    Tx,                 \* bitcoin deposit transactions
    Pays,               \* Pays[t]: the vaults that t has an output for; "NONE" stands for any other output
    KeyOf,              \* KeyOf[l]: the borrower's and the DCM's key in the scripts of vault l
    Maturity,           \* maturity of the tranche, in block time
    MaxTime,            \* bound on block time
    MaxPrice,           \* prices are 1..MaxPrice, 0 is "no price set"
    MaxEvent,           \* bound on the number of DLC events
    MaxRedemption       \* bound on the number of redemptions

\* No vault is the marker of an absent vault.
ASSUME VaultAssumption == "NONE" \notin Loan
\* The outputs of a transaction are known from the transaction itself.
ASSUME PaysAssumption == Pays \in [Tx -> SUBSET (Loan \cup {"NONE"})]
\* The keys of a vault are part of its address; two vaults may have the same ones.
ASSUME KeyAssumption == DOMAIN KeyOf = Loan
\* Maturities are positive (validatePoolTranches), bounds are naturals.
ASSUME BoundAssumption ==
    /\ Maturity \in Nat \ {0} /\ MaxTime \in Nat /\ MaxPrice \in Nat
    /\ MaxEvent \in Nat /\ MaxRedemption \in Nat

VARIABLES
    now,                \* block time
    price,              \* oracle price of the pool's pair
    phase,              \* position in the block
    todo,               \* loans the running end-blocker loop has still to visit
    loan,               \* loans by vault
    cet,                \* signatures collected for the CETs of a loan (DLCMeta)
    liquidationQueue,   \* loans whose liquidation CET is not signed yet
    depositLog,         \* deposit logs by transaction
    redemption,         \* redemptions by id
    event,              \* DLC events by id
    pendingEvents,      \* queue of events not bound to a loan
    pendingEventCount,  \* the counter kept beside that queue
    attestation,        \* attested outcome of an event
    pendingSig,         \* signing requests of x/tss that are PENDING
    signedSig           \* signing requests of x/tss that are SIGNED

blockVars == <<now, price, phase, todo>>
loanVars == <<loan, cet, liquidationQueue>>
vaultVars == <<depositLog, redemption>>
dlcVars == <<event, pendingEvents, pendingEventCount, attestation>>
sigVars == <<pendingSig, signedSig>>
vars == <<blockVars, loanVars, vaultVars, dlcVars, sigVars>>

EventId == 1..MaxEvent
RedemptionId == 1..MaxRedemption

\* LiquidatedOutcomeIndex, DefaultLiquidatedOutcomeIndex, RepaidOutcomeIndex.
LiquidatedOutcome == 0
DefaultLiquidatedOutcome == 1
RepaidOutcome == 2
Outcome == {LiquidatedOutcome, DefaultLiquidatedOutcome, RepaidOutcome}
NoOutcome == -1

\* LoanStatus; "NONE" is a vault without a loan.
LoanStatus == {"NONE", "Requested", "Cancelled", "Authorized", "Rejected",
               "Open", "Repaid", "Defaulted", "Liquidated", "Closed"}

\* LoanDisbursed: the statuses from Open on.
Disbursed == {"Open", "Repaid", "Defaulted", "Liquidated", "Closed"}

DepositStatus == {"NONE", "PENDING", "VERIFIED", "REDEEMING", "REDEEMED"}

\* CetType, which are also the signing intents of x/lending for CETs.
Cet == {"REPAYMENT", "LIQUIDATION", "DEFAULT_LIQUIDATION"}

\* Signing requests: a CET of a loan, a redemption, an outcome of an event.
CetRequest(c, l) == <<"CET", c, l>>
RedemptionRequest(r) == <<"REDEMPTION", r>>
AttestationRequest(e, o) == <<"ATTESTATION", e, o>>
Request == {CetRequest(c, l) : c \in Cet, l \in Loan}
           \cup {RedemptionRequest(r) : r \in RedemptionId}
           \cup {AttestationRequest(e, o) : e \in EventId, o \in Outcome}

\* Authorizations: at most one is ever created (SubmitCets needs Requested).
AuthorizationStatus == {"NONE", "PENDING", "AUTHORIZED", "REJECTED"}

LoanRecord == [status: LoanStatus, event: EventId \cup {0}, maturityTime: Nat,
               liquidationPrice: 0..MaxPrice, auth: AuthorizationStatus,
               deposits: SUBSET Tx]
\* inputs, payee and point are what the borrower submitted: the deposits that the CET spends, who it
\* pays, and the outcome that its adaptor signatures wait for.
CetRecord == [inputs: SUBSET Tx, payee: {"BORROWER", "DCM"}, point: Outcome \cup {NoOutcome},
              dcm: BOOLEAN, adapted: BOOLEAN, signed: BOOLEAN]
DepositLog == [status: DepositStatus, vault: Loan \cup {"NONE"}]
\* Outputs of deposit transactions.
Output == {o \in Tx \X (Loan \cup {"NONE"}) : o[2] \in Pays[o[1]]}
Redemption == [loan: Loan \cup {"NONE"}, inputs: SUBSET Output, dcm: BOOLEAN]
Event == [exists: BOOLEAN, triggered: BOOLEAN, outcome: Outcome \cup {NoOutcome}]

NoLoan == [status |-> "NONE", event |-> 0, maturityTime |-> 0,
           liquidationPrice |-> 0, auth |-> "NONE", deposits |-> {}]
NoCet == [inputs |-> {}, payee |-> "BORROWER", point |-> NoOutcome,
          dcm |-> FALSE, adapted |-> FALSE, signed |-> FALSE]
NoDepositLog == [status |-> "NONE", vault |-> "NONE"]
NoRedemption == [loan |-> "NONE", inputs |-> {}, dcm |-> FALSE]
NoEvent == [exists |-> FALSE, triggered |-> FALSE, outcome |-> NoOutcome]

Init ==
    /\ now = 1
    /\ price = 0
    /\ phase = "deliver"
    /\ todo = {}
    /\ loan = [l \in Loan |-> NoLoan]
    /\ cet = [l \in Loan |-> [c \in Cet |-> NoCet]]
    /\ liquidationQueue = {}
    /\ depositLog = [t \in Tx |-> NoDepositLog]
    /\ redemption = [r \in RedemptionId |-> NoRedemption]
    /\ event = [e \in EventId |-> NoEvent]
    /\ pendingEvents = {}
    /\ pendingEventCount = 0
    /\ attestation = [e \in EventId |-> NoOutcome]
    /\ pendingSig = [q \in Request |-> 0]
    /\ signedSig = [q \in Request |-> 0]

----------------------------------------------------------------------------
(* x/tss signing *)

\* InitiateSigningRequest, for all requests S a step makes.
InitiateSigningRequests(S) ==
    /\ pendingSig' = [q \in Request |-> IF q \in S THEN pendingSig[q] + 1 ELSE pendingSig[q]]
    /\ UNCHANGED signedSig

\* MsgSubmitSignatures: the request is PENDING and becomes SIGNED; the module
\* handler is conjoined by the caller, and an error of it aborts the message.
SubmitSignatures(q) ==
    /\ phase = "deliver"
    /\ pendingSig[q] > 0
    /\ pendingSig' = [pendingSig EXCEPT ![q] = @ - 1]
    /\ signedSig' = [signedSig EXCEPT ![q] = @ + 1]
    /\ UNCHANGED blockVars

----------------------------------------------------------------------------
(* x/dlc *)

\* HandleNonce for a lending event: the next event joins the pending queue.
\* (Called by the end blocker of x/tss, between messages and x/lending.)
HandleNonce(e) ==
    /\ phase = "deliver"
    /\ ~event[e].exists /\ \A d \in EventId : d < e => event[d].exists
    /\ event' = [event EXCEPT ![e].exists = TRUE]
    /\ pendingEvents' = pendingEvents \cup {e}
    /\ pendingEventCount' = pendingEventCount + 1
    /\ UNCHANGED <<blockVars, loanVars, vaultVars, attestation, sigVars>>

\* GetAvailableLendingEvent: take the oldest pending event e off the queue.
GetAvailableLendingEvent_NoRemove(e) ==
    /\ e \in pendingEvents /\ \A d \in pendingEvents : e <= d
    /\ UNCHANGED <<pendingEvents, pendingEventCount>>
GetAvailableLendingEvent(e) ==
    /\ e \in pendingEvents /\ \A d \in pendingEvents : e <= d
    /\ pendingEvents' = pendingEvents \ {e}
    /\ pendingEventCount' = IF pendingEventCount = 0 THEN 0 ELSE pendingEventCount - 1

\* TriggerDLCEvent: no test that the event has not been triggered before; its
\* signing request is one of those the caller makes.
TriggerDLCEvent_NotTriggered(e, o) ==
    /\ event' = [event EXCEPT ![e].outcome = o]
    /\ UNCHANGED <<pendingEvents, pendingEventCount, attestation>>
TriggerDLCEvent(e, o) ==
    /\ event' = [event EXCEPT ![e].triggered = TRUE, ![e].outcome = o]
    /\ UNCHANGED <<pendingEvents, pendingEventCount, attestation>>

\* HandleAttestation: the attested outcome is the event's outcome at the time
\* the signature arrives.
HandleAttestation(e, o) ==
    /\ SubmitSignatures(AttestationRequest(e, o))
    /\ event[e].exists /\ event[e].triggered
    /\ attestation[e] = NoOutcome
    /\ attestation' = [attestation EXCEPT ![e] = event[e].outcome]
    /\ UNCHANGED <<loanVars, vaultVars, event, pendingEvents, pendingEventCount>>

----------------------------------------------------------------------------
(* The contract on Bitcoin.  A vault is a taproot output whose scripts ask for
   signatures of the borrower, of the borrower's key for authorizations and of
   the DCM.  Its third script refunds the borrower at the final timeout, at
   least 90 days after the maturity and beyond the horizon of this module.
   Fees, sizes and weights of the CETs are left out. *)

\* GetVaultScripts: the signatures that each script asks for.
VaultScript == [LIQUIDATION |-> {"AUTH", "DCM"}, REPAYMENT |-> {"BORROWER", "DCM"}]

\* GetCetSigHashes: the script by which a CET spends the vault.
ScriptOf(c) == IF c = "REPAYMENT" THEN "REPAYMENT" ELSE "LIQUIDATION"

\* GetSignaturePointFromEvent: points of one event differ as its outcomes do.
OutcomeOf(c) ==
    CASE c = "REPAYMENT" -> RepaidOutcome
      [] c = "LIQUIDATION" -> LiquidatedOutcome
      [] c = "DEFAULT_LIQUIDATION" -> DefaultLiquidatedOutcome

\* Every deposit transaction has an output for the vault; the module knows one each.
ParseDepositTxs(T, l) == \A t \in T : l \in Pays[t]
GetVaultUtxos(T, l) == {t \in T : l \in Pays[t]}

\* The adaptor signatures of the borrower's authorization key are for one outcome, and the CET
\* moves every deposit to the DCM.
VerifyLiquidationCet(l, T, tx, point, outcome) ==
    tx.payee = "DCM" /\ tx.inputs = GetVaultUtxos(T, l) /\ point = outcome

\* The borrower signs, and chooses the outputs of, the repayment CET.
VerifyRepaymentCet(l, T, inputs) == inputs = GetVaultUtxos(T, l)

VerifyCets_OnePoint(l, T, tx, p, d, inputs) ==
    /\ VerifyLiquidationCet(l, T, tx, p, OutcomeOf("LIQUIDATION"))
    /\ VerifyLiquidationCet(l, T, tx, d, OutcomeOf("LIQUIDATION"))
    /\ VerifyRepaymentCet(l, T, inputs)
VerifyCets(l, T, tx, p, d, inputs) ==
    /\ VerifyLiquidationCet(l, T, tx, p, OutcomeOf("LIQUIDATION"))
    /\ VerifyLiquidationCet(l, T, tx, d, OutcomeOf("DEFAULT_LIQUIDATION"))
    /\ VerifyRepaymentCet(l, T, inputs)

\* UpdateDLCMeta; the point of the repayment CET is that of the request to the DCM
\* (InitiateRepaymentCetSigningRequest).
UpdateDLCMeta(l, tx, p, d, inputs) ==
    cet' = [cet EXCEPT ![l] = [c \in Cet |->
        [NoCet EXCEPT !.inputs = IF c = "REPAYMENT" THEN inputs ELSE tx.inputs,
                      !.payee = IF c = "REPAYMENT" THEN "BORROWER" ELSE tx.payee,
                      !.point = CASE c = "REPAYMENT" -> OutcomeOf(c)
                                  [] c = "LIQUIDATION" -> p
                                  [] c = "DEFAULT_LIQUIDATION" -> d]]]

\* The keys whose signatures on a CET anybody can make out of the chain's data: adaptor
\* signatures count once their outcome is attested.
CetSignatures(l, c) ==
    LET attested == attestation[loan[l].event] = cet[l][c].point
    IN  IF c = "REPAYMENT"
        THEN {"BORROWER"} \cup (IF cet[l][c].dcm /\ attested THEN {"DCM"} ELSE {})
        ELSE (IF cet[l][c].dcm THEN {"DCM"} ELSE {}) \cup (IF attested THEN {"AUTH"} ELSE {})

\* BuildSignedCet gives a transaction that Bitcoin accepts.
CetIsValid(l, c) ==
    /\ cet[l][c].inputs # {}
    /\ VaultScript[ScriptOf(c)] \subseteq CetSignatures(l, c)

----------------------------------------------------------------------------
(* Messages of x/lending *)

\* MsgApply: the vault is new and an event is available.  UpdateDLCEvent only
\* fills in the texts of the outcomes.
Apply(l, e) ==
    /\ phase = "deliver"
    /\ loan[l].status = "NONE"
    /\ now + Maturity <= MaxTime                              \* bound
    /\ GetAvailableLendingEvent(e)
    /\ loan' = [loan EXCEPT ![l] = [NoLoan EXCEPT !.status = "Requested", !.event = e,
                                                  !.maturityTime = now + Maturity]]
    /\ UNCHANGED <<blockVars, cet, liquidationQueue, vaultVars, event, attestation, sigVars>>

\* MsgSubmitCets by the borrower with deposit transactions T, a transaction tx
\* for both liquidation CETs with adaptor signatures for the outcomes p and d,
\* and a repayment CET: one authorization, a PENDING log for each transaction
\* without one, and the request for the DCM's adaptor signatures on the
\* repayment CET.
SubmitCets(l, T, lp) ==
    /\ phase = "deliver"
    /\ loan[l].status = "Requested"
    /\ T # {} /\ ParseDepositTxs(T, l)
    /\ \E tx \in [inputs: SUBSET Tx, payee: {"BORROWER", "DCM"}], p, d \in Outcome, inputs \in SUBSET Tx :
        /\ VerifyCets(l, T, tx, p, d, inputs)
        /\ UpdateDLCMeta(l, tx, p, d, inputs)
    /\ loan' = [loan EXCEPT ![l].status = "Authorized", ![l].auth = "PENDING",
                            ![l].deposits = T, ![l].liquidationPrice = lp]
    /\ depositLog' = [t \in Tx |-> IF t \in T /\ depositLog[t].status = "NONE"
                                   THEN [status |-> "PENDING", vault |-> l]
                                   ELSE depositLog[t]]
    /\ InitiateSigningRequests({CetRequest("REPAYMENT", l)})
    /\ UNCHANGED <<blockVars, liquidationQueue, redemption, dlcVars>>

\* MsgSubmitDepositTransaction: t is proved to be on the bitcoin chain.  The log
\* is keyed by the transaction alone, and a new log is filed under the vault the
\* message names.
SubmitDepositTransaction(t, l) ==
    /\ phase = "deliver"
    /\ loan[l].status \in {"Requested", "Cancelled", "Authorized", "Rejected"}
    /\ depositLog[t].status \in {"NONE", "PENDING"}
    /\ depositLog' = [depositLog EXCEPT ![t] =
                         [status |-> "VERIFIED",
                          vault |-> IF @.status = "NONE" THEN l ELSE @.vault]]
    /\ UNCHANGED <<blockVars, loanVars, redemption, dlcVars, sigVars>>

\* CollateralRedeemable.
CollateralRedeemable_Authorized(l) ==
    loan[l].status \in {"Requested", "Cancelled", "Authorized", "Rejected"}
CollateralRedeemable(l) ==
    IF loan[l].auth # "NONE" THEN loan[l].status = "Rejected"
    ELSE loan[l].status \in {"Requested", "Cancelled", "Rejected"}

\* A Requested loan is cancelled by a redemption.
StatusAfterRedeem(status) == IF status = "Requested" THEN "Cancelled" ELSE status

\* SetDepositLog, for the deposits T a redemption spends.
SetDepositStatus(T, status) ==
    depositLog' = [t \in Tx |-> IF t \in T THEN [depositLog[t] EXCEPT !.status = status]
                                ELSE depositLog[t]]

\* The transactions of a set of outputs.
TxsOf(S) == {o[1] : o \in S}

\* MsgRedeem by the borrower, spending outputs S.  The handler looks up the log of the
\* transaction of each input, and marks it before the next one; it does not ask whether
\* the output that is spent is for vault l.
Redeem(r, l, S) ==
    /\ phase = "deliver"
    /\ redemption[r].loan = "NONE" /\ \A s \in RedemptionId : s < r => redemption[s].loan # "NONE"
    /\ CollateralRedeemable(l)
    /\ S # {} /\ \A o, p \in S : o[1] = p[1] => o = p
    /\ \A t \in TxsOf(S) : depositLog[t] = [status |-> "VERIFIED", vault |-> l]
    /\ SetDepositStatus(TxsOf(S), "REDEEMING")
    /\ redemption' = [redemption EXCEPT ![r] = [loan |-> l, inputs |-> S, dcm |-> FALSE]]
    /\ InitiateSigningRequests({RedemptionRequest(r)})
    /\ loan' = [loan EXCEPT ![l].status = StatusAfterRedeem(@)]
    /\ UNCHANGED <<blockVars, cet, liquidationQueue, dlcVars>>

\* The status check of MsgRepay.
Repayable(l) == loan[l].status = "Open"

\* MsgRepay, by anyone: the amount owed is escrowed and the event triggered.
Repay(l) ==
    /\ phase = "deliver"
    /\ Repayable(l)
    /\ loan' = [loan EXCEPT ![l].status = "Repaid"]
    /\ TriggerDLCEvent(loan[l].event, RepaidOutcome)
    /\ InitiateSigningRequests({AttestationRequest(loan[l].event, RepaidOutcome)})
    /\ UNCHANGED <<blockVars, cet, liquidationQueue, vaultVars>>

\* The status in which the handler of a CET's DCM signatures accepts them
\* (HandleRepaymentAdaptorSignatures, HandleLiquidationSignatures,
\* handleDefaultLiquidationSignatures).
AcceptsSignatures(c, l) ==
    CASE c = "REPAYMENT" -> loan[l].status \notin Disbursed \cup {"NONE"}
      [] c = "LIQUIDATION" -> loan[l].status = "Liquidated"
      [] c = "DEFAULT_LIQUIDATION" -> loan[l].status = "Defaulted"

\* SigningCompletedHandler for the CET intents.
SignCet(c, l) ==
    /\ SubmitSignatures(CetRequest(c, l))
    /\ AcceptsSignatures(c, l)
    /\ ~cet[l][c].dcm
    /\ cet' = [cet EXCEPT ![l][c].dcm = TRUE]
    /\ UNCHANGED <<loan, liquidationQueue, vaultVars, dlcVars>>

\* HandleRedemptionSignatures: the redemption is final, its deposits REDEEMED.
SignRedemption(r) ==
    /\ SubmitSignatures(RedemptionRequest(r))
    /\ redemption[r].loan # "NONE"
    /\ ~redemption[r].dcm
    /\ redemption' = [redemption EXCEPT ![r].dcm = TRUE]
    /\ SetDepositStatus(TxsOf(redemption[r].inputs), "REDEEMED")
    /\ UNCHANGED <<loanVars, dlcVars>>

----------------------------------------------------------------------------
(* End blocker of x/lending *)

\* The maturity test that HandleApproval and HandleLiquidation make before they
\* look at the price.
Matured_NeedsPrice(l) == price # 0 /\ now >= loan[l].maturityTime
Matured(l) == now >= loan[l].maturityTime

\* ToBeLiquidated, for collateral that is the base asset of the price.
ToBeLiquidated(l) == price <= loan[l].liquidationPrice

\* RepaymentCetSigned and DepositsVerified.
RepaymentCetSigned(l) == cet[l]["REPAYMENT"].dcm
DepositsVerified_Any(l) == \E t \in loan[l].deposits : depositLog[t].status = "VERIFIED"
DepositsVerified(l) == \A t \in loan[l].deposits : depositLog[t].status = "VERIFIED"

\* The four loops in the order of EndBlocker, and the loans each iterates.
LoopLoans(p) ==
    CASE p = "approve" -> {l \in Loan : loan[l].status \in {"Requested", "Authorized"}}
      [] p = "liquidate" -> {l \in Loan : loan[l].status = "Open"}
      [] p = "queue" -> liquidationQueue
      [] p = "repay" -> {l \in Loan : loan[l].status = "Repaid"}

\* A loop starts when the one before it has visited its last loan.
StartLoop(from, to) ==
    /\ phase = from /\ todo = {}
    /\ phase' = to
    /\ todo' = LoopLoans(to)
    /\ UNCHANGED <<now, price, loanVars, vaultVars, dlcVars, sigVars>>

Visit(p, l) ==
    /\ phase = p
    /\ l \in todo
    /\ todo' = todo \ {l}
    /\ UNCHANGED <<now, price, phase>>

\* reject: the authorization, if any, is rejected with the loan.
Reject(l) ==
    loan' = [loan EXCEPT ![l].status = "Rejected",
                         ![l].auth = IF @ = "NONE" THEN @ ELSE "REJECTED"]

\* HandleApproval.  ok: the LTV, the borrow cap, the pool's status and its
\* liquidity allow the disbursement; otherwise the loan is rejected.
HandleApproval(l, ok) ==
    LET matured == Matured(l)
        priced == loan[l].auth # "NONE" /\ price # 0
        ready == RepaymentCetSigned(l) /\ DepositsVerified(l)
    IN
    /\ Visit("approve", l)
    /\ \/ /\ matured
          /\ Reject(l)
       \/ /\ ~matured /\ priced /\ ToBeLiquidated(l)
          /\ Reject(l)
       \/ /\ ~matured /\ priced /\ ~ToBeLiquidated(l) /\ ready /\ ~ok
          /\ Reject(l)
       \/ /\ ~matured /\ priced /\ ~ToBeLiquidated(l) /\ ready /\ ok
          /\ loan' = [loan EXCEPT ![l].status = "Open", ![l].auth = "AUTHORIZED"]
       \/ /\ ~matured /\ (~priced \/ (~ToBeLiquidated(l) /\ ~ready))
          /\ UNCHANGED loan
    /\ UNCHANGED <<cet, liquidationQueue, vaultVars, dlcVars, sigVars>>

\* The part of HandleLiquidation common to default and liquidation: the loan is
\* queued, its event triggered, and the attestation and the DCM's signatures on
\* the liquidation CET are requested.
Liquidate(l, status, outcome, c) ==
    /\ loan' = [loan EXCEPT ![l].status = status]
    /\ liquidationQueue' = liquidationQueue \cup {l}
    /\ TriggerDLCEvent(loan[l].event, outcome)
    /\ InitiateSigningRequests({AttestationRequest(loan[l].event, outcome), CetRequest(c, l)})

\* HandleLiquidation of an Open loan.
HandleLiquidation(l) ==
    /\ Visit("liquidate", l)
    /\ \/ /\ Matured(l)
          /\ Liquidate(l, "Defaulted", DefaultLiquidatedOutcome, "DEFAULT_LIQUIDATION")
       \/ /\ ~Matured(l) /\ price # 0 /\ ToBeLiquidated(l)
          /\ Liquidate(l, "Liquidated", LiquidatedOutcome, "LIQUIDATION")
       \/ /\ ~Matured(l) /\ ~(price # 0 /\ ToBeLiquidated(l))
          /\ UNCHANGED <<loan, liquidationQueue, dlcVars, sigVars>>
    /\ UNCHANGED <<cet, vaultVars>>

\* GetLiquidationCetAndType.
LiquidationCet(l) ==
    IF loan[l].status = "Defaulted" THEN "DEFAULT_LIQUIDATION" ELSE "LIQUIDATION"

\* RemoveFromLiquidationQueue, once the CET is signed.
QueueAfter_Dropped(l, signed) == liquidationQueue \ {l}
QueueAfter(l, signed) == IF signed THEN liquidationQueue \ {l} ELSE liquidationQueue

\* One iteration of handleLiquidatedLoans: adapt the borrower's signatures once
\* the event is attested, and sign the CET once the DCM's signatures are there.
HandleLiquidatedLoan(l) ==
    LET c == LiquidationCet(l)
        adapted == cet[l][c].adapted \/ attestation[loan[l].event] # NoOutcome
        signed == adapted /\ cet[l][c].dcm
    IN
    /\ Visit("queue", l)
    /\ cet' = [cet EXCEPT ![l][c].adapted = adapted, ![l][c].signed = signed]
    /\ liquidationQueue' = QueueAfter(l, signed)
    /\ UNCHANGED <<loan, vaultVars, dlcVars, sigVars>>

\* One iteration of handleRepayments: the attestation decrypts the DCM's adaptor
\* signatures, the repayment CET is signed and CompleteRepayment closes the loan.
HandleRepayment(l) ==
    LET adapted == cet[l]["REPAYMENT"].adapted \/ attestation[loan[l].event] # NoOutcome IN
    /\ Visit("repay", l)
    /\ IF adapted
       THEN /\ cet' = [cet EXCEPT ![l]["REPAYMENT"].adapted = TRUE,
                                  ![l]["REPAYMENT"].signed = TRUE]
            /\ loan' = [loan EXCEPT ![l].status = "Closed"]
       ELSE UNCHANGED <<cet, loan>>
    /\ UNCHANGED <<liquidationQueue, vaultVars, dlcVars, sigVars>>

\* The next block: time grows up to MaxTime, the oracle may set a new price.
NextBlock(p) ==
    /\ phase = "repay" /\ todo = {}
    /\ p = price \/ p > 0
    /\ phase' = "deliver"
    /\ price' = p
    /\ now' = IF now < MaxTime THEN now + 1 ELSE now
    /\ UNCHANGED <<todo, loanVars, vaultVars, dlcVars, sigVars>>

EndBlocker ==
    \/ StartLoop("deliver", "approve")
    \/ \E l \in Loan, ok \in BOOLEAN : HandleApproval(l, ok)
    \/ StartLoop("approve", "liquidate")
    \/ \E l \in Loan : HandleLiquidation(l)
    \/ StartLoop("liquidate", "queue")
    \/ \E l \in Loan : HandleLiquidatedLoan(l)
    \/ StartLoop("queue", "repay")
    \/ \E l \in Loan : HandleRepayment(l)
    \/ \E p \in 0..MaxPrice : NextBlock(p)

\* MsgSubmitSignatures, for every kind of request.
Sign ==
    \/ \E c \in Cet, l \in Loan : SignCet(c, l)
    \/ \E r \in RedemptionId : SignRedemption(r)
    \/ \E e \in EventId, o \in Outcome : HandleAttestation(e, o)

Next ==
    \/ \E e \in EventId : HandleNonce(e)
    \/ \E l \in Loan, e \in EventId : Apply(l, e)
    \/ \E l \in Loan, T \in SUBSET Tx, lp \in 1..MaxPrice : SubmitCets(l, T, lp)
    \/ \E t \in Tx, l \in Loan : SubmitDepositTransaction(t, l)
    \/ \E r \in RedemptionId, l \in Loan, S \in SUBSET Output : Redeem(r, l, S)
    \/ \E l \in Loan : Repay(l)
    \/ Sign
    \/ EndBlocker

Spec == Init /\ [][Next]_vars

\* Consensus keeps producing blocks; a pending signing request stays pending
\* until it is answered, and the TSS participants answer every request.
BlockFairness == WF_vars(EndBlocker)
SigningFairness ==
    /\ \A c \in Cet, l \in Loan : SF_vars(SignCet(c, l))
    /\ \A r \in RedemptionId : SF_vars(SignRedemption(r))
    /\ \A e \in EventId, o \in Outcome : SF_vars(HandleAttestation(e, o))

\* Blocks keep coming; nothing is assumed of the signers.
FairSpec == Spec /\ BlockFairness

----------------------------------------------------------------------------
(* Properties *)

\* Every variable has its type.
TypeOK ==
    /\ now \in Nat
    /\ price \in 0..MaxPrice
    /\ phase \in {"deliver", "approve", "liquidate", "queue", "repay"}
    /\ todo \subseteq Loan
    /\ loan \in [Loan -> LoanRecord]
    /\ cet \in [Loan -> [Cet -> CetRecord]]
    /\ liquidationQueue \subseteq Loan
    /\ depositLog \in [Tx -> DepositLog]
    /\ redemption \in [RedemptionId -> Redemption]
    /\ event \in [EventId -> Event]
    /\ pendingEvents \subseteq EventId
    /\ pendingEventCount \in Nat
    /\ attestation \in [EventId -> Outcome \cup {NoOutcome}]
    /\ pendingSig \in [Request -> Nat]
    /\ signedSig \in [Request -> Nat]

\* Requests ever made for the signature on outcome o of event e.
Requested(e, o) == pendingSig[AttestationRequest(e, o)] + signedSig[AttestationRequest(e, o)]

\* The oracle is never asked to sign twice with the nonce of an event: two
\* signatures under one nonce reveal the oracle's key, and two outcomes would
\* unlock two CETs (TriggerDLCEvent itself has no such test; it rests on the
\* life of the loan and on the event queue).
OneSignaturePerNonce ==
    \A e \in EventId, o, p \in Outcome :
        /\ Requested(e, o) <= 1
        /\ Requested(e, o) > 0 /\ Requested(e, p) > 0 => o = p

\* Events are bound to one loan each, and the queue holds exactly the events
\* that are bound to none: they are untriggered and the counter that throttles
\* nonce generation counts them (GetAvailableLendingEvent).
EventQueueExact ==
    /\ pendingEventCount = Cardinality(pendingEvents)
    /\ \A l \in Loan : loan[l].status # "NONE" => loan[l].event \notin pendingEvents
    /\ \A l, m \in Loan : loan[l].status # "NONE" /\ loan[m].status # "NONE" /\ l # m
                             => loan[l].event # loan[m].event
    /\ \A e \in pendingEvents : event[e].exists /\ ~event[e].triggered

\* The attested outcome is the one the loan's fate calls for, so that the
\* signatures it decrypts belong to that CET and no other.
AttestationFollowsLoan ==
    \A l \in Loan : loan[l].status # "NONE" /\ attestation[loan[l].event] # NoOutcome =>
        LET o == attestation[loan[l].event] IN
        \/ o = RepaidOutcome /\ loan[l].status \in {"Repaid", "Closed"}
        \/ o = LiquidatedOutcome /\ loan[l].status = "Liquidated"
        \/ o = DefaultLiquidatedOutcome /\ loan[l].status = "Defaulted"

\* An oracle signs once per event, and what it signs is what happened to the loan
\* (TriggerDLCEvent, HandleAttestation).
AttestationIsSound == OneSignaturePerNonce /\ AttestationFollowsLoan

\* Redeemed(l): the borrower has obtained a redemption for loan l.
Redeemed(l) == \E r \in RedemptionId : redemption[r].loan = l

\* Redemption r takes a deposit of loan l: the signatures on it are made with the keys of the
\* vault it was requested for, and are good for every vault with the same ones (GetVaultScripts).
Takes(r, l) ==
    /\ redemption[r].loan # "NONE" /\ KeyOf[redemption[r].loan] = KeyOf[l]
    /\ \E t \in loan[l].deposits : <<t, l>> \in redemption[r].inputs

\* The deposits of loan l are out of reach of the redemptions of other loans: each is filed under
\* l, or under a vault with other keys.  A transaction is filed under the vault that the first
\* message about it names, which need not be one that it pays.
WellFiled(l) ==
    \A t \in loan[l].deposits : depositLog[t].vault = l \/ KeyOf[depositLog[t].vault] # KeyOf[l]

\* A disbursed loan is covered: the DCM's adaptor signatures on the repayment CET are on chain,
\* every deposit of the authorization was confirmed, no redemption was ever granted for the loan,
\* and if its deposits are well filed none of them is taken by the redemption of any loan
\* (HandleApproval against SubmitCets, SubmitDepositTransaction and Redeem in any order).
DisbursedIsCovered ==
    \A l \in Loan : loan[l].status \in Disbursed =>
        /\ RepaymentCetSigned(l)
        /\ ~Redeemed(l)
        /\ loan[l].deposits # {}
        /\ \A t \in loan[l].deposits :
              /\ depositLog[t].status \notin {"NONE", "PENDING"}
              /\ depositLog[t].vault = l => depositLog[t].status = "VERIFIED"
        /\ WellFiled(l) => \A r \in RedemptionId : ~Takes(r, l)

\* NOT an invariant, checked in no run: no redemption takes a deposit of a disbursed loan, wherever
\* it is filed.  "deposit tx does not match the loan id" (msg_server_loan.go:336) is said of the log
\* of the transaction alone; a transaction that pays the vaults of two loans with the same keys, and
\* is filed under the one that is not disbursed, can be redeemed there with the output of the other.
DisbursedIsUntouched ==
    \A l \in Loan, r \in RedemptionId : loan[l].status \in Disbursed => ~Takes(r, l)

\* The queue of handleLiquidatedLoans holds exactly the defaulted and liquidated
\* loans whose liquidation CET is not signed: none is dropped, none stays.
LiquidationQueueExact ==
    \A l \in Loan : l \in liquidationQueue <=>
        /\ loan[l].status \in {"Defaulted", "Liquidated"}
        /\ ~cet[l][LiquidationCet(l)].signed

\* Both queues, of x/dlc and of x/lending, hold exactly what their end blockers have left to do,
\* in a state of the right types (GetAvailableLendingEvent, handleLiquidatedLoans).
QueuesAreExact == TypeOK /\ EventQueueExact /\ LiquidationQueueExact

\* What leaves a vault before the final timeout.  A CET that the chain calls signed is one that
\* Bitcoin accepts, spends all of the deposits of the loan and pays whom it should (VerifyCets,
\* BuildSignedCet, which assumes that signatures match); while a loan is open none of its CETs is
\* valid; no borrower and DCM ever hold valid transactions against each other, and, when the
\* deposits are well filed, no signed redemption of any loan competes with an open loan or a CET.
ContractIsSound ==
    \A l \in Loan : loan[l].event # 0 =>
        LET redeemable == \E r \in RedemptionId : redemption[r].dcm /\ (redemption[r].loan = l \/ Takes(r, l))
            valid == {c \in Cet : CetIsValid(l, c)}
        IN  /\ \A c \in Cet : cet[l][c].signed =>
                  /\ c \in valid /\ cet[l][c].inputs = loan[l].deposits
                  /\ cet[l][c].payee = IF c = "REPAYMENT" THEN "BORROWER" ELSE "DCM"
            /\ loan[l].status = "Open" => valid = {}
            /\ \A c, d \in valid : cet[l][c].payee = cet[l][d].payee
            /\ WellFiled(l) /\ redeemable => valid = {} /\ loan[l].status # "Open"

\* The abstract state of the collateral; a vault whose deposits are not well filed promises nothing.
StateOf(l) ==
    CASE loan[l].status = "Open" -> "lent"
      [] loan[l].status \in {"Repaid", "Closed"} -> "repaid"
      [] loan[l].status \in {"Defaulted", "Liquidated"} -> "seized"
      [] OTHER -> "free"
AbstractState == [l \in Loan |-> IF WellFiled(l) THEN StateOf(l) ELSE "free"]

\* The path along which the collateral was released.
Released(l) ==
    LET redeemed == Redeemed(l) \/ \E r \in RedemptionId : Takes(r, l)
        liquidated == cet[l]["LIQUIDATION"].signed \/ cet[l]["DEFAULT_LIQUIDATION"].signed
    IN  CASE redeemed -> "redemption"
          [] ~redeemed /\ cet[l]["REPAYMENT"].signed -> "repayment"
          [] ~redeemed /\ ~cet[l]["REPAYMENT"].signed /\ liquidated -> "liquidation"
          [] OTHER -> "none"
AbstractReleased == [l \in Loan |-> IF WellFiled(l) THEN Released(l) ELSE "none"]

C == INSTANCE Collateral WITH state <- AbstractState, released <- AbstractReleased

\* The loan module keeps the promise of module Collateral for vaults whose deposits are well
\* filed: the collateral leaves along one path only, the one the fate of the loan calls for.
CollateralSpec == C!Spec

\* Every application is decided at the latest when the maturity is reached, even
\* with no price, no deposit and no signature.
LoanIsDecided ==
    \A l \in Loan : loan[l].status \in {"Requested", "Authorized"}
        ~> loan[l].status \notin {"NONE", "Requested", "Authorized"}

\* Every open loan is repaid, liquidated or defaulted.
OpenLoanEnds ==
    \A l \in Loan : loan[l].status = "Open"
        ~> loan[l].status \in {"Repaid", "Closed", "Liquidated", "Defaulted"}

\* Every repaid loan is closed with its repayment CET signed.
RepaidIsClosed ==
    \A l \in Loan : loan[l].status = "Repaid"
        ~> loan[l].status = "Closed" /\ cet[l]["REPAYMENT"].signed

\* Every defaulted or liquidated loan gets its liquidation CET signed.
LiquidationIsSigned ==
    \A l \in Loan : loan[l].status \in {"Defaulted", "Liquidated"}
        ~> cet[l][LiquidationCet(l)].signed

\* Every redemption is signed by the DCM and its deposits marked redeemed.
RedemptionIsSigned ==
    \A r \in RedemptionId : redemption[r].loan # "NONE"
        ~> /\ redemption[r].dcm
           /\ \A t \in TxsOf(redemption[r].inputs) : depositLog[t].status = "REDEEMED"

\* The chain alone decides every application and ends every loan (handleApprovals,
\* handleLiquidations).
LoansEnd == LoanIsDecided /\ OpenLoanEnds

\* If the signers answer, the signatures that a borrower, a lender or a liquidator waits for are
\* made (handleLiquidatedLoans, handleRepayments, SigningCompletedHandler).
SigningsComplete == SigningFairness => RepaidIsClosed /\ LiquidationIsSigned /\ RedemptionIsSigned
=============================================================================
