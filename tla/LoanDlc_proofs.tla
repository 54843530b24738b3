--------------------------- MODULE LoanDlc_proofs ---------------------------
(***************************************************************************)
(* Theorems about module LoanDlc, for any loans, deposit transactions,     *)
(* prices, events and redemptions.                                         *)
(***************************************************************************)
EXTENDS LoanDlc, FiniteSetTheorems, TLAPS

----------------------------------------------------------------------------
(* The inductive invariant.  What the runs check is not inductive: it rests on *)
(* what a loop of the end blocker may still find in its snapshot, on which     *)
(* signatures can have been asked for in which status, and on what became of   *)
(* the event of a loan.                                                        *)

\* Between its messages and the next block the loans that a loop has still to
\* visit are in the status for which it took them.
SnapshotFits ==
    /\ phase = "deliver" => todo = {}
    /\ \A l \in todo :
        /\ phase = "approve" => loan[l].status \in {"Requested", "Authorized"}
        /\ phase = "liquidate" => loan[l].status = "Open"
        /\ phase = "queue" => l \in liquidationQueue
        /\ phase = "repay" => loan[l].status = "Repaid"

\* A loan is bound to an event, and has deposits and an authorization once it was submitted.
LoanFits(l) ==
    /\ loan[l].status = "NONE" => loan[l].event = 0
    /\ loan[l].status # "NONE" => loan[l].event \in EventId /\ event[loan[l].event].exists
    /\ loan[l].status \in {"NONE", "Requested", "Cancelled"} => loan[l].auth = "NONE"
    /\ loan[l].status \in Disbursed \cup {"Authorized"} => loan[l].auth # "NONE"
    /\ loan[l].auth = "NONE" => loan[l].deposits = {}
LoansFit == \A l \in Loan : LoanFits(l)

\* The status in which a CET is signed, which is also the one in which the DCM
\* signs a liquidation CET.
SignedStatus(c) ==
    CASE c = "REPAYMENT" -> "Closed"
      [] c = "LIQUIDATION" -> "Liquidated"
      [] c = "DEFAULT_LIQUIDATION" -> "Defaulted"

\* Before SubmitCets nothing is known or asked of a CET, afterwards it spends
\* the deposits to the right party and waits for its own outcome.
CetFits(l, c) ==
    /\ loan[l].auth = "NONE" =>
        /\ cet[l][c] = NoCet
        /\ pendingSig[CetRequest(c, l)] = 0
    /\ loan[l].auth # "NONE" =>
        /\ loan[l].deposits # {} /\ cet[l][c].inputs = loan[l].deposits
        /\ cet[l][c].payee = IF c = "REPAYMENT" THEN "BORROWER" ELSE "DCM"
        /\ cet[l][c].point = OutcomeOf(c)
    /\ cet[l][c].dcm /\ c # "REPAYMENT" => loan[l].status = SignedStatus(c)
    /\ cet[l][c].adapted => attestation[loan[l].event] # NoOutcome
    /\ cet[l][c].signed =>
        cet[l][c].dcm /\ cet[l][c].adapted /\ loan[l].status = SignedStatus(c)
CetsFit == \A l \in Loan, c \in Cet : CetFits(l, c)

\* An event is triggered once: one outcome of it is requested, and attested.
EventFits(e) ==
    /\ event[e].triggered => event[e].exists /\ event[e].outcome \in Outcome
    /\ attestation[e] # NoOutcome => event[e].triggered /\ attestation[e] = event[e].outcome
    /\ \A o \in Outcome :
        Requested(e, o) = IF event[e].triggered /\ event[e].outcome = o THEN 1 ELSE 0
EventsFit == \A e \in EventId : EventFits(e)

\* The outcome that the fate of a loan calls for, if it is decided.
Fate(status) ==
    CASE status \in {"Repaid", "Closed"} -> RepaidOutcome
      [] status = "Liquidated" -> LiquidatedOutcome
      [] status = "Defaulted" -> DefaultLiquidatedOutcome
      [] OTHER -> NoOutcome

\* The event of a loan is triggered when its fate is decided, with its outcome.
FateFits(l) ==
    loan[l].status # "NONE" =>
        /\ event[loan[l].event].triggered <=> Fate(loan[l].status) # NoOutcome
        /\ event[loan[l].event].triggered => event[loan[l].event].outcome = Fate(loan[l].status)
FatesFit == \A l \in Loan : FateFits(l)

\* A deposit is filed under one vault, at the latest when it is authorized; redemptions
\* spend deposits filed under their vault, whose loan was not disbursed and will not be.
VaultsFit ==
    /\ \A t \in Tx : depositLog[t].status = "NONE" <=> depositLog[t].vault = "NONE"
    /\ \A l \in Loan : \A t \in loan[l].deposits : depositLog[t].vault # "NONE"
    /\ \A r \in RedemptionId : redemption[r].loan # "NONE" =>
        /\ loan[redemption[r].loan].status \in {"Cancelled", "Rejected"}
        /\ \A t \in TxsOf(redemption[r].inputs) : depositLog[t].vault = redemption[r].loan

\* DisbursedIsCovered without what other loans' redemptions may take, which follows from it
\* and VaultsFit.
Covered ==
    \A l \in Loan : loan[l].status \in Disbursed =>
        /\ RepaymentCetSigned(l)
        /\ ~Redeemed(l)
        /\ loan[l].deposits # {}
        /\ \A t \in loan[l].deposits :
              /\ depositLog[t].status \notin {"NONE", "PENDING"}
              /\ depositLog[t].vault = l => depositLog[t].status = "VERIFIED"

IInv ==
    /\ TypeOK
    /\ SnapshotFits
    /\ LoansFit
    /\ CetsFit
    /\ EventsFit
    /\ FatesFit
    /\ VaultsFit
    /\ EventQueueExact
    /\ LiquidationQueueExact
    /\ Covered

----------------------------------------------------------------------------
(* Requests, signatures and events *)

USE DEF LiquidatedOutcome, DefaultLiquidatedOutcome, RepaidOutcome, Outcome, NoOutcome, Disbursed

\* Signing requests of different purposes are different.
LEMMA Requests ==
    /\ \A c \in Cet, l \in Loan : CetRequest(c, l) \in Request
    /\ \A r \in RedemptionId : RedemptionRequest(r) \in Request
    /\ \A e \in EventId, o \in Outcome : AttestationRequest(e, o) \in Request
    /\ \A c, d, l, m : CetRequest(c, l) = CetRequest(d, m) => c = d /\ l = m
    /\ \A e, d, o, p : AttestationRequest(e, o) = AttestationRequest(d, p) => e = d /\ o = p
    /\ \A c, l, r : CetRequest(c, l) # RedemptionRequest(r)
    /\ \A c, l, e, o : CetRequest(c, l) # AttestationRequest(e, o)
    /\ \A r, e, o : RedemptionRequest(r) # AttestationRequest(e, o)
<1>1. /\ \A c \in Cet, l \in Loan : CetRequest(c, l) \in Request
      /\ \A r \in RedemptionId : RedemptionRequest(r) \in Request
      /\ \A e \in EventId, o \in Outcome : AttestationRequest(e, o) \in Request
  BY DEF Request
<1>2. /\ \A c, d, l, m : CetRequest(c, l) = CetRequest(d, m) => c = d /\ l = m
      /\ \A e, d, o, p : AttestationRequest(e, o) = AttestationRequest(d, p) => e = d /\ o = p
  BY DEF CetRequest, AttestationRequest
<1>3. /\ \A c, l, r : CetRequest(c, l) # RedemptionRequest(r)
      /\ \A c, l, e, o : CetRequest(c, l) # AttestationRequest(e, o)
      /\ \A r, e, o : RedemptionRequest(r) # AttestationRequest(e, o)
  BY DEF CetRequest, AttestationRequest, RedemptionRequest
<1> QED BY <1>1, <1>2, <1>3

\* What a step that makes requests leaves of the counts (InitiateSigningRequest).
LEMMA Asked ==
    ASSUME TypeOK, NEW S, InitiateSigningRequests(S)
    PROVE  /\ pendingSig' \in [Request -> Nat] /\ signedSig' \in [Request -> Nat]
           /\ signedSig' = signedSig
           /\ \A q \in Request : pendingSig[q] \in Nat /\ signedSig[q] \in Nat
           /\ \A q \in Request : q \in S => pendingSig'[q] = pendingSig[q] + 1
           /\ \A q \in Request : q \notin S => pendingSig'[q] = pendingSig[q]
  BY DEF TypeOK, InitiateSigningRequests

\* What a step that answers a request leaves of the counts (MsgSubmitSignatures).
LEMMA Answered ==
    ASSUME TypeOK, NEW q \in Request, SubmitSignatures(q)
    PROVE  /\ pendingSig' \in [Request -> Nat] /\ signedSig' \in [Request -> Nat]
           /\ \A r \in Request : pendingSig[r] \in Nat /\ signedSig[r] \in Nat
           /\ \A r \in Request : r # q => pendingSig'[r] = pendingSig[r] /\ signedSig'[r] = signedSig[r]
           /\ pendingSig[q] > 0 /\ pendingSig'[q] = pendingSig[q] - 1 /\ signedSig'[q] = signedSig[q] + 1
  BY DEF TypeOK, SubmitSignatures

\* A redemption spends outputs of transactions.
LEMMA InputTxs ==
    /\ \A S \in SUBSET Output : TxsOf(S) \subseteq Tx
    /\ TypeOK => \A r \in RedemptionId :
          /\ redemption[r].inputs \subseteq Output /\ redemption[r].loan \in Loan \cup {"NONE"}
          /\ TxsOf(redemption[r].inputs) \subseteq Tx
<1>1. \A S \in SUBSET Output : TxsOf(S) \subseteq Tx BY DEF Output, TxsOf
<1>2. TypeOK => \A r \in RedemptionId :
          redemption[r].inputs \subseteq Output /\ redemption[r].loan \in Loan \cup {"NONE"}
  BY DEF TypeOK, Redemption
<1> QED BY <1>1, <1>2

\* The queue of pending events is finite, so that its length is a natural.
LEMMA QueueFinite ==
    ASSUME TypeOK
    PROVE  IsFiniteSet(pendingEvents) /\ Cardinality(pendingEvents) \in Nat
<1>1. IsFiniteSet(EventId) BY FS_Interval, BoundAssumption DEF EventId
<1>2. IsFiniteSet(pendingEvents) BY <1>1, FS_Subset DEF TypeOK
<1> QED BY <1>2, FS_CardinalityType

\* The tables of outcomes and statuses.
LEMMA Tables ==
    /\ Cet = {"REPAYMENT", "LIQUIDATION", "DEFAULT_LIQUIDATION"}
    /\ SignedStatus("REPAYMENT") = "Closed" /\ SignedStatus("LIQUIDATION") = "Liquidated"
    /\ SignedStatus("DEFAULT_LIQUIDATION") = "Defaulted"
    /\ OutcomeOf("REPAYMENT") = 2 /\ OutcomeOf("LIQUIDATION") = 0
    /\ OutcomeOf("DEFAULT_LIQUIDATION") = 1
    /\ Fate("Repaid") = 2 /\ Fate("Closed") = 2 /\ Fate("Liquidated") = 0 /\ Fate("Defaulted") = 1
    /\ \A s \in {"NONE", "Requested", "Cancelled", "Authorized", "Rejected", "Open"} : Fate(s) = -1
  BY DEF Cet, SignedStatus, OutcomeOf, Fate

LEMMA InitInv == Init => IInv
<1> SUFFICES ASSUME Init PROVE IInv OBVIOUS
<1>1. TypeOK
  BY Requests, BoundAssumption
  DEF Init, TypeOK, NoLoan, NoCet, NoDepositLog, NoRedemption, NoEvent, LoanRecord, CetRecord, DepositLog,
      Redemption, Event, LoanStatus, AuthorizationStatus, DepositStatus
<1>2. SnapshotFits /\ LoansFit
  BY DEF Init, SnapshotFits, LoansFit, LoanFits, NoLoan
<1>3. CetsFit BY Requests DEF Init, CetsFit, CetFits, NoLoan, NoCet
<1>4. EventsFit BY Requests DEF Init, EventsFit, EventFits, NoEvent, Requested
<1>5. FatesFit /\ VaultsFit
  BY DEF Init, FatesFit, FateFits, VaultsFit, NoLoan, NoDepositLog, NoRedemption
<1>6. EventQueueExact BY FS_EmptySet DEF Init, EventQueueExact, NoLoan
<1>7. LiquidationQueueExact /\ Covered
  BY DEF Init, LiquidationQueueExact, Covered, NoLoan
<1> QED BY <1>1, <1>2, <1>3, <1>4, <1>5, <1>6, <1>7 DEF IInv
----------------------------------------------------------------------------
(* Every step keeps the invariant. *)

\* What the invariant says of one loan, one contract execution transaction, one event.
LEMMA Facts ==
    ASSUME IInv
    PROVE  /\ \A l \in Loan : LoanFits(l) /\ FateFits(l) /\ loan[l] \in LoanRecord
           /\ \A l \in Loan, c \in Cet : CetFits(l, c) /\ cet[l][c] \in CetRecord
           /\ \A e \in EventId : EventFits(e) /\ event[e] \in Event
  BY DEF IInv, TypeOK, LoansFit, FatesFit, CetsFit, EventsFit

LEMMA HandleNonceStep == ASSUME IInv, NEW e \in EventId, HandleNonce(e) PROVE IInv'
<1> USE DEF HandleNonce, blockVars, loanVars, vaultVars, sigVars
<1>1. /\ event' \in [EventId -> Event] /\ \A d \in EventId : d # e => event'[d] = event[d]
      /\ event'[e].exists /\ event'[e].triggered = event[e].triggered /\ event'[e].outcome = event[e].outcome
      /\ ~event[e].exists
  BY DEF IInv, TypeOK, Event
<1>2. TypeOK /\ EventFits(e) /\ ~event[e].triggered /\ e \notin pendingEvents
  BY Facts, <1>1 DEF IInv, EventFits, EventQueueExact
<1>3. TypeOK' BY <1>1 DEF IInv, TypeOK
<1>4. SnapshotFits' BY DEF IInv, SnapshotFits
<1>5. LoansFit' BY <1>1 DEF IInv, LoansFit, LoanFits
<1>6. CetsFit' BY DEF IInv, CetsFit, CetFits
<1>7. EventsFit'
  <2>1. \A d \in EventId, o \in Outcome : Requested(d, o)' = Requested(d, o) BY DEF Requested
  <2> QED BY <1>1, <1>2, <2>1 DEF IInv, EventsFit, EventFits
<1>8. FatesFit' BY <1>1, Facts DEF IInv, FatesFit, FateFits, LoanFits
<1>9. VaultsFit' BY DEF IInv, VaultsFit
<1>10. EventQueueExact'
  <2>1. pendingEventCount' = Cardinality(pendingEvents')
    BY <1>2, QueueFinite, FS_AddElement DEF IInv, EventQueueExact
  <2>2. \A l \in Loan : loan[l].status # "NONE" => loan[l].event # e
    BY <1>1, Facts DEF LoanFits
  <2> QED BY <1>1, <1>2, <2>1, <2>2 DEF IInv, EventQueueExact
<1>11. LiquidationQueueExact' BY DEF IInv, LiquidationQueueExact, LiquidationCet
<1>12. Covered' BY DEF IInv, Covered, RepaymentCetSigned, Redeemed
<1> QED BY <1>3, <1>4, <1>5, <1>6, <1>7, <1>8, <1>9, <1>10, <1>11, <1>12 DEF IInv

\* Steps that keep the deposits, the files and the redemptions, and revive no cancelled or
\* rejected loan, keep VaultsFit.
LEMMA VaultsStep ==
    ASSUME IInv,
           \A m \in Loan : loan'[m].deposits = loan[m].deposits,
           \A m \in Loan : loan[m].status \in {"Cancelled", "Rejected"} => loan'[m].status \in {"Cancelled", "Rejected"},
           \A t \in Tx : depositLog'[t].status = "NONE" <=> depositLog'[t].vault = "NONE",
           \A t \in Tx : depositLog[t].vault # "NONE" => depositLog'[t].vault = depositLog[t].vault,
           \A r \in RedemptionId : redemption'[r].loan = redemption[r].loan
                                   /\ redemption'[r].inputs = redemption[r].inputs
    PROVE  VaultsFit'
<1>1. \A l \in Loan : \A t \in loan'[l].deposits : depositLog'[t].vault # "NONE"
  BY DEF IInv, TypeOK, LoanRecord, VaultsFit
<1>2. ASSUME NEW r \in RedemptionId, redemption'[r].loan # "NONE"
      PROVE  /\ loan'[redemption'[r].loan].status \in {"Cancelled", "Rejected"}
             /\ \A t \in TxsOf(redemption'[r].inputs) : depositLog'[t].vault = redemption'[r].loan
  <2>1. redemption[r].loan \in Loan /\ TxsOf(redemption[r].inputs) \subseteq Tx BY <1>2, InputTxs DEF IInv
  <2>2. /\ loan[redemption[r].loan].status \in {"Cancelled", "Rejected"}
        /\ \A t \in TxsOf(redemption[r].inputs) : depositLog[t].vault = redemption[r].loan
    BY <1>2 DEF IInv, VaultsFit
  <2> QED BY <1>2, <2>1, <2>2
<1> QED BY <1>1, <1>2 DEF VaultsFit

LEMMA ApplyStep == ASSUME IInv, NEW l \in Loan, NEW e \in EventId, Apply(l, e) PROVE IInv'
<1> USE DEF Apply, blockVars, loanVars, vaultVars, sigVars
<1>1. /\ loan' \in [Loan -> LoanRecord] /\ \A m \in Loan : m # l => loan'[m] = loan[m]
      /\ loan[l].status = "NONE" /\ loan'[l].status = "Requested" /\ loan'[l].event = e
      /\ loan'[l].auth = "NONE" /\ loan'[l].deposits = {}
  <2> DEFINE new == [NoLoan EXCEPT !.status = "Requested", !.event = e, !.maturityTime = now + Maturity]
  <2>1. now + Maturity \in Nat /\ 0 \in 0..MaxPrice BY BoundAssumption DEF IInv, TypeOK
  <2>2. new \in LoanRecord BY <2>1 DEF LoanRecord, NoLoan, LoanStatus, AuthorizationStatus
  <2>3. new.status = "Requested" /\ new.event = e /\ new.auth = "NONE" /\ new.deposits = {} BY DEF NoLoan
  <2>4. loan' = [loan EXCEPT ![l] = new] /\ loan \in [Loan -> LoanRecord] /\ loan[l].status = "NONE"
    BY DEF IInv, TypeOK
  <2> HIDE DEF new
  <2> QED BY <2>2, <2>3, <2>4
<1>2. /\ TypeOK /\ e \in pendingEvents /\ event[e].exists /\ ~event[e].triggered
      /\ pendingEvents' = pendingEvents \ {e}
      /\ \A m \in Loan : loan[m].status # "NONE" => loan[m].event # e
      /\ loan[l].auth = "NONE" /\ l \notin liquidationQueue
  BY <1>1, Facts DEF IInv, EventQueueExact, GetAvailableLendingEvent, LoanFits, LiquidationQueueExact
<1>3. pendingEventCount' = Cardinality(pendingEvents') /\ pendingEventCount' \in Nat
  <2>1. /\ IsFiniteSet(pendingEvents) /\ Cardinality(pendingEvents) \in Nat
        /\ Cardinality(pendingEvents \ {e}) = Cardinality(pendingEvents) - 1
    BY <1>2, QueueFinite, FS_RemoveElement
  <2>2. Cardinality(pendingEvents) # 0 BY <1>2, <2>1, FS_EmptySet
  <2> QED BY <1>2, <2>1, <2>2 DEF IInv, EventQueueExact, GetAvailableLendingEvent
<1>4. TypeOK' BY <1>1, <1>2, <1>3 DEF IInv, TypeOK
<1>5. SnapshotFits' BY DEF IInv, SnapshotFits
<1>6. LoansFit' BY <1>1, <1>2 DEF IInv, LoansFit, LoanFits
<1>7. CetsFit'
  <2>1. \A c \in Cet : CetFits(l, c)' BY <1>1, <1>2, Facts DEF CetFits, NoCet
  <2> QED BY <1>1, <2>1 DEF IInv, CetsFit, CetFits
<1>8. EventsFit' BY DEF IInv, EventsFit, EventFits, Requested
<1>9. FatesFit' BY <1>1, <1>2, Tables DEF IInv, FatesFit, FateFits
<1>10. VaultsFit' BY <1>1 DEF IInv, VaultsFit
<1>11. EventQueueExact' BY <1>1, <1>2, <1>3 DEF IInv, EventQueueExact
<1>12. LiquidationQueueExact' BY <1>1, <1>2 DEF IInv, LiquidationQueueExact, LiquidationCet
<1>13. Covered' BY <1>1 DEF IInv, Covered, RepaymentCetSigned, Redeemed
<1> QED BY <1>4, <1>5, <1>6, <1>7, <1>8, <1>9, <1>10, <1>11, <1>12, <1>13 DEF IInv

LEMMA SubmitCetsStep ==
    ASSUME IInv, NEW l \in Loan, NEW T \in SUBSET Tx, NEW lp \in 1..MaxPrice, SubmitCets(l, T, lp)
    PROVE  IInv'
<1>1. PICK tx \in [inputs: SUBSET Tx, payee: {"BORROWER", "DCM"}], p \in Outcome, d \in Outcome, inputs \in SUBSET Tx :
        VerifyCets(l, T, tx, p, d, inputs) /\ UpdateDLCMeta(l, tx, p, d, inputs)
  BY DEF SubmitCets
<1>2. tx.inputs = T /\ tx.payee = "DCM" /\ p = 0 /\ d = 1 /\ inputs = T /\ T # {}
  <2>1. GetVaultUtxos(T, l) = T BY DEF SubmitCets, ParseDepositTxs, GetVaultUtxos
  <2> QED BY <1>1, <2>1, Tables DEF VerifyCets, VerifyLiquidationCet, VerifyRepaymentCet, SubmitCets
<1>3. /\ cet' \in [Loan -> [Cet -> CetRecord]] /\ \A m \in Loan : m # l => cet'[m] = cet[m]
      /\ \A c \in Cet :
            /\ cet'[l][c].inputs = T /\ cet'[l][c].point = OutcomeOf(c)
            /\ cet'[l][c].payee = IF c = "REPAYMENT" THEN "BORROWER" ELSE "DCM"
            /\ ~cet'[l][c].dcm /\ ~cet'[l][c].adapted /\ ~cet'[l][c].signed
  BY <1>1, <1>2, Tables DEF IInv, TypeOK, UpdateDLCMeta, CetRecord, NoCet
<1> USE DEF SubmitCets, blockVars, dlcVars
<1>4. /\ loan' \in [Loan -> LoanRecord] /\ \A m \in Loan : m # l => loan'[m] = loan[m]
      /\ loan[l].status = "Requested" /\ loan'[l].status = "Authorized" /\ loan'[l].event = loan[l].event
      /\ loan'[l].auth = "PENDING" /\ loan'[l].deposits = T /\ loan[l].auth = "NONE"
  <2> DEFINE new == [loan[l] EXCEPT !.status = "Authorized", !.auth = "PENDING", !.deposits = T,
                                    !.liquidationPrice = lp]
  <2>0. /\ loan' = [loan EXCEPT ![l].status = "Authorized", ![l].auth = "PENDING",
                               ![l].deposits = T, ![l].liquidationPrice = lp]
        /\ loan[l].status = "Requested"
    OBVIOUS
  <2> HIDE DEF SubmitCets
  <2>1. loan[l] \in LoanRecord /\ loan \in [Loan -> LoanRecord] /\ loan' = [loan EXCEPT ![l] = new]
        /\ loan[l].status = "Requested" /\ loan[l].auth = "NONE" /\ lp \in 0..MaxPrice
    <3>1. loan[l].auth = "NONE" BY <2>0, Facts DEF LoanFits
    <3>2. loan \in [Loan -> LoanRecord] BY DEF IInv, TypeOK
    <3>3. lp \in 0..MaxPrice BY BoundAssumption
    <3> QED BY <2>0, <3>1, <3>2, <3>3
  <2>2. /\ new \in LoanRecord /\ new.status = "Authorized" /\ new.auth = "PENDING"
        /\ new.event = loan[l].event /\ new.deposits = T
    BY ONLY <2>1, T \in SUBSET Tx DEF LoanRecord, LoanStatus, AuthorizationStatus, new
  <2> HIDE DEF new
  <2> QED BY <2>1, <2>2
<1> DEFINE q == CetRequest("REPAYMENT", l)
<1>5. /\ pendingSig' \in [Request -> Nat] /\ signedSig' = signedSig /\ q \in Request
      /\ \A r \in Request : r # q => pendingSig'[r] = pendingSig[r]
  BY Asked, Requests, Tables DEF IInv
<1>6. /\ depositLog' \in [Tx -> DepositLog]
      /\ \A t \in Tx : depositLog'[t] = depositLog[t]
           \/ (depositLog[t].status = "NONE" /\ depositLog'[t] = [status |-> "PENDING", vault |-> l])
  BY DEF IInv, TypeOK, DepositLog, DepositStatus
<1>7. TypeOK' BY <1>3, <1>4, <1>5, <1>6 DEF IInv, TypeOK
<1>8. SnapshotFits' BY DEF IInv, SnapshotFits
<1>9. LoansFit' BY <1>4 DEF IInv, LoansFit, LoanFits
<1>10. CetsFit'
  <2>1. \A c \in Cet : CetFits(l, c)' BY <1>2, <1>3, <1>4 DEF CetFits
  <2>2. ASSUME NEW m \in Loan, m # l, NEW c \in Cet PROVE CetFits(m, c)'
    <3>1. pendingSig'[CetRequest(c, m)] = pendingSig[CetRequest(c, m)] BY <1>5, <2>2, Requests
    <3> QED BY <1>3, <1>4, <2>2, <3>1, Facts DEF CetFits
  <2> QED BY <2>1, <2>2 DEF CetsFit
<1>11. EventsFit'
  <2>1. \A e \in EventId, o \in Outcome : Requested(e, o)' = Requested(e, o) BY <1>5, Requests DEF Requested
  <2> QED BY <2>1 DEF IInv, EventsFit, EventFits
<1>12. FatesFit' BY <1>4, Tables DEF IInv, FatesFit, FateFits
<1>13. VaultsFit'
  <2>1. \A t \in Tx : depositLog'[t].status = "NONE" <=> depositLog'[t].vault = "NONE"
    BY <1>6, VaultAssumption DEF IInv, VaultsFit
  <2>2. \A t \in Tx : depositLog[t].vault # "NONE" => depositLog'[t].vault = depositLog[t].vault
    BY <1>6 DEF IInv, VaultsFit
  <2>3. \A r \in RedemptionId : TxsOf(redemption[r].inputs) \subseteq Tx BY InputTxs DEF IInv
  <2>4. \A r \in RedemptionId : redemption[r].loan \in Loan \cup {"NONE"} BY DEF IInv, TypeOK, Redemption
  <2>5. \A m \in Loan : \A t \in loan'[m].deposits : depositLog'[t].vault # "NONE"
    <3>1. \A t \in T : depositLog'[t].status # "NONE" BY <1>6
    <3>2. \A t \in T : depositLog'[t].vault # "NONE" BY <2>1, <3>1
    <3>3. ASSUME NEW m \in Loan, m # l PROVE \A t \in loan'[m].deposits : depositLog'[t].vault # "NONE"
      BY <1>4, <2>2, <3>3 DEF IInv, VaultsFit, TypeOK, LoanRecord
    <3> QED BY <1>4, <3>2, <3>3
  <2>6. ASSUME NEW r \in RedemptionId, redemption[r].loan # "NONE"
        PROVE  /\ loan'[redemption[r].loan].status \in {"Cancelled", "Rejected"}
               /\ \A t \in TxsOf(redemption[r].inputs) : depositLog'[t].vault = redemption[r].loan
    BY <1>4, <2>2, <2>3, <2>4, <2>6 DEF IInv, VaultsFit
  <2>7. UNCHANGED redemption OBVIOUS
  <2> HIDE DEF SubmitCets
  <2> QED BY <2>1, <2>5, <2>6, <2>7 DEF VaultsFit
<1>14. EventQueueExact' BY <1>4 DEF IInv, EventQueueExact
<1>15. LiquidationQueueExact' BY <1>3, <1>4 DEF IInv, LiquidationQueueExact, LiquidationCet
<1>16. Covered'
  <2> SUFFICES ASSUME NEW m \in Loan, loan'[m].status \in Disbursed
               PROVE  RepaymentCetSigned(m)' /\ ~Redeemed(m)' /\ loan'[m].deposits # {}
                      /\ \A t \in loan'[m].deposits :
                            /\ depositLog'[t].status \notin {"NONE", "PENDING"}
                            /\ depositLog'[t].vault = m => depositLog'[t].status = "VERIFIED"
    BY DEF Covered
  <2>1. m # l BY <1>4
  <2> QED BY <1>3, <1>4, <1>6, <2>1 DEF IInv, Covered, RepaymentCetSigned, Redeemed, TypeOK, LoanRecord
<1> QED BY <1>7, <1>8, <1>9, <1>10, <1>11, <1>12, <1>13, <1>14, <1>15, <1>16 DEF IInv
LEMMA SubmitDepositTransactionStep ==
    ASSUME IInv, NEW t \in Tx, NEW l \in Loan, SubmitDepositTransaction(t, l) PROVE IInv'
<1> USE DEF SubmitDepositTransaction, blockVars, loanVars, dlcVars, sigVars
<1>1. /\ depositLog' \in [Tx -> DepositLog] /\ \A u \in Tx : u # t => depositLog'[u] = depositLog[u]
      /\ depositLog[t].status \in {"NONE", "PENDING"} /\ depositLog'[t].status = "VERIFIED"
      /\ depositLog[t].status = "NONE" => depositLog'[t].vault = l
      /\ depositLog[t].status # "NONE" => depositLog'[t].vault = depositLog[t].vault
  BY DEF IInv, TypeOK, DepositLog, DepositStatus
<1>2. TypeOK' BY <1>1 DEF IInv, TypeOK
<1>3. SnapshotFits' BY DEF IInv, SnapshotFits
<1>4. LoansFit' BY DEF IInv, LoansFit, LoanFits
<1>5. CetsFit' BY DEF IInv, CetsFit, CetFits
<1>6. EventsFit' BY DEF IInv, EventsFit, EventFits, Requested
<1>7. FatesFit' BY DEF IInv, FatesFit, FateFits
<1>8. VaultsFit'
  <2>1. \A u \in Tx : depositLog'[u].status = "NONE" <=> depositLog'[u].vault = "NONE"
    BY <1>1, VaultAssumption DEF IInv, VaultsFit
  <2>2. \A u \in Tx : depositLog[u].vault # "NONE" => depositLog'[u].vault = depositLog[u].vault
    BY <1>1 DEF IInv, VaultsFit
  <2> QED BY <2>1, <2>2, VaultsStep
<1>9. EventQueueExact' BY DEF IInv, EventQueueExact
<1>10. LiquidationQueueExact' BY DEF IInv, LiquidationQueueExact, LiquidationCet
<1>11. Covered'
  BY <1>1 DEF IInv, TypeOK, LoanRecord, Covered, RepaymentCetSigned, Redeemed
<1> QED BY <1>2, <1>3, <1>4, <1>5, <1>6, <1>7, <1>8, <1>9, <1>10, <1>11 DEF IInv

LEMMA RedeemStep ==
    ASSUME IInv, NEW r \in RedemptionId, NEW l \in Loan, NEW S \in SUBSET Output, Redeem(r, l, S) PROVE IInv'
<1> USE DEF Redeem, blockVars, dlcVars
<1>1. /\ loan[l].status \in {"Requested", "Cancelled", "Rejected"}
      /\ loan'[l].status = StatusAfterRedeem(loan[l].status)
      /\ loan'[l].status \in {"Cancelled", "Rejected"}
      /\ loan' \in [Loan -> LoanRecord] /\ \A m \in Loan : m # l => loan'[m] = loan[m]
      /\ loan'[l].event = loan[l].event /\ loan'[l].auth = loan[l].auth /\ loan'[l].deposits = loan[l].deposits
  <2>1. loan[l] \in LoanRecord /\ loan[l].status \in {"Requested", "Cancelled", "Rejected"}
    BY DEF IInv, TypeOK, CollateralRedeemable
  <2> DEFINE new == [loan[l] EXCEPT !.status = StatusAfterRedeem(loan[l].status)]
  <2>2. StatusAfterRedeem(loan[l].status) \in {"Cancelled", "Rejected"} BY <2>1 DEF StatusAfterRedeem
  <2>3. /\ new \in LoanRecord /\ new.status = StatusAfterRedeem(loan[l].status)
        /\ new.event = loan[l].event /\ new.auth = loan[l].auth /\ new.deposits = loan[l].deposits
    BY <2>1, <2>2 DEF LoanRecord, LoanStatus
  <2>4. loan' = [loan EXCEPT ![l] = new] /\ loan \in [Loan -> LoanRecord] BY DEF IInv, TypeOK
  <2> HIDE DEF new
  <2> QED BY <2>1, <2>2, <2>3, <2>4
<1>2. /\ depositLog' \in [Tx -> DepositLog]
      /\ \A t \in Tx : depositLog'[t].vault = depositLog[t].vault
      /\ \A t \in TxsOf(S) : depositLog[t].vault = l /\ depositLog[t].status = "VERIFIED"
                            /\ depositLog'[t].status = "REDEEMING"
      /\ \A t \in Tx \ TxsOf(S) : depositLog'[t] = depositLog[t]
  <2>1. TxsOf(S) \subseteq Tx BY InputTxs
  <2>2. \A t \in TxsOf(S) : depositLog[t].vault = l /\ depositLog[t].status = "VERIFIED" OBVIOUS
  <2>3. depositLog \in [Tx -> DepositLog] BY DEF IInv, TypeOK
  <2> HIDE DEF Redeem
  <2>4. depositLog' = [t \in Tx |-> IF t \in TxsOf(S) THEN [depositLog[t] EXCEPT !.status = "REDEEMING"]
                                    ELSE depositLog[t]]
    BY DEF Redeem, SetDepositStatus
  <2> QED BY <2>1, <2>2, <2>3, <2>4 DEF DepositLog, DepositStatus
<1>3. /\ redemption' \in [RedemptionId -> Redemption]
      /\ \A s \in RedemptionId : s # r => redemption'[s] = redemption[s]
      /\ redemption[r].loan = "NONE" /\ redemption'[r].loan = l /\ redemption'[r].inputs = S
  BY DEF IInv, TypeOK, Redemption
<1>4. /\ pendingSig' \in [Request -> Nat] /\ signedSig' = signedSig
      /\ \A q \in Request : q # RedemptionRequest(r) => pendingSig'[q] = pendingSig[q]
  BY Asked DEF IInv
<1>5. TypeOK' BY <1>1, <1>2, <1>3, <1>4 DEF IInv, TypeOK
<1>6. SnapshotFits' BY DEF IInv, SnapshotFits
<1>7. LoansFit' BY <1>1, Facts DEF LoansFit, LoanFits, StatusAfterRedeem
<1>8. CetsFit'
  <2> SUFFICES ASSUME NEW m \in Loan, NEW c \in Cet PROVE CetFits(m, c)' BY DEF CetsFit
  <2>1. pendingSig'[CetRequest(c, m)] = pendingSig[CetRequest(c, m)] BY <1>4, Requests
  <2>2. c = "REPAYMENT" \/ c = "LIQUIDATION" \/ c = "DEFAULT_LIQUIDATION" BY DEF Cet
  <2>3. CASE m # l BY <1>1, <2>1, <2>3, Facts DEF CetFits
  <2>4. CASE m = l BY <1>1, <2>1, <2>2, <2>4, Facts, Tables DEF CetFits
  <2> QED BY <2>3, <2>4
<1>9. EventsFit'
  <2>1. \A e \in EventId, o \in Outcome : Requested(e, o)' = Requested(e, o) BY <1>4, Requests DEF Requested
  <2> QED BY <2>1 DEF IInv, EventsFit, EventFits
<1>10. FatesFit' BY <1>1, Tables DEF IInv, FatesFit, FateFits
<1>11. VaultsFit'
  <2>1. \A t \in Tx : depositLog'[t].status = "NONE" <=> depositLog'[t].vault = "NONE"
    BY <1>2, VaultAssumption DEF IInv, VaultsFit
  <2>2. \A s \in RedemptionId : TxsOf(redemption[s].inputs) \subseteq Tx /\ redemption[s].loan \in Loan \cup {"NONE"}
    BY InputTxs DEF IInv
  <2>3. \A m \in Loan : \A t \in loan'[m].deposits : depositLog'[t].vault # "NONE"
    <3>1. \A m \in Loan : loan'[m].deposits = loan[m].deposits BY <1>1
    <3> QED BY <1>2, <3>1 DEF IInv, VaultsFit, TypeOK, LoanRecord
  <2>4. ASSUME NEW s \in RedemptionId, redemption'[s].loan # "NONE"
        PROVE  /\ loan'[redemption'[s].loan].status \in {"Cancelled", "Rejected"}
               /\ \A t \in TxsOf(redemption'[s].inputs) : depositLog'[t].vault = redemption'[s].loan
    <3>1. CASE s = r
      <4>1. TxsOf(S) \subseteq Tx BY InputTxs
      <4> QED BY <1>1, <1>2, <1>3, <3>1, <4>1
    <3>2. CASE s # r
      <4>1. redemption[s].loan \in Loan /\ redemption'[s] = redemption[s] BY <1>3, <2>2, <2>4, <3>2
      <4>2. /\ loan[redemption[s].loan].status \in {"Cancelled", "Rejected"}
            /\ \A t \in TxsOf(redemption[s].inputs) : depositLog[t].vault = redemption[s].loan
        BY <2>4, <4>1 DEF IInv, VaultsFit
      <4> QED BY <1>1, <1>2, <2>2, <4>1, <4>2
    <3> QED BY <3>1, <3>2
  <2> QED BY <2>1, <2>3, <2>4 DEF VaultsFit
<1>12. EventQueueExact' BY <1>1 DEF IInv, EventQueueExact
<1>13. LiquidationQueueExact' BY <1>1 DEF IInv, LiquidationQueueExact, LiquidationCet
<1>14. Covered'
  <2> SUFFICES ASSUME NEW m \in Loan, loan'[m].status \in Disbursed
               PROVE  RepaymentCetSigned(m)' /\ ~Redeemed(m)' /\ loan'[m].deposits # {}
                      /\ \A t \in loan'[m].deposits :
                            /\ depositLog'[t].status \notin {"NONE", "PENDING"}
                            /\ depositLog'[t].vault = m => depositLog'[t].status = "VERIFIED"
    BY DEF Covered
  <2>1. m # l BY <1>1
  <2>2. ~Redeemed(m)' BY <1>1, <1>3, <2>1 DEF IInv, Covered, Redeemed
  <2>3. loan[m].deposits \subseteq Tx BY DEF IInv, TypeOK, LoanRecord
  <2> QED BY <1>1, <1>2, <2>1, <2>2, <2>3 DEF IInv, Covered, RepaymentCetSigned
<1> QED BY <1>5, <1>6, <1>7, <1>8, <1>9, <1>10, <1>11, <1>12, <1>13, <1>14 DEF IInv

LEMMA SignCetStep == ASSUME IInv, NEW c \in Cet, NEW l \in Loan, SignCet(c, l) PROVE IInv'
<1> USE DEF SignCet, vaultVars, dlcVars
<1>1. /\ cet' \in [Loan -> [Cet -> CetRecord]]
      /\ \A m \in Loan, d \in Cet : m # l \/ d # c => cet'[m][d] = cet[m][d]
      /\ cet'[l][c] = [cet[l][c] EXCEPT !.dcm = TRUE]
      /\ cet[l][c] \in CetRecord
  <2> DEFINE new == [cet[l][c] EXCEPT !.dcm = TRUE]
  <2>1. cet[l][c] \in CetRecord /\ cet \in [Loan -> [Cet -> CetRecord]] BY DEF IInv, TypeOK
  <2>2. new \in CetRecord BY <2>1 DEF CetRecord
  <2>3. cet' = [cet EXCEPT ![l] = [cet[l] EXCEPT ![c] = new]] OBVIOUS
  <2> HIDE DEF new
  <2>4. cet'[l][c] = new BY <2>1, <2>2, <2>3
  <2> QED BY <2>1, <2>2, <2>3, <2>4 DEF new
<1>2. /\ cet'[l][c].dcm /\ cet'[l][c].inputs = cet[l][c].inputs /\ cet'[l][c].payee = cet[l][c].payee
      /\ cet'[l][c].point = cet[l][c].point /\ cet'[l][c].adapted = cet[l][c].adapted
      /\ cet'[l][c].signed = cet[l][c].signed
  BY <1>1 DEF CetRecord
<1> DEFINE q == CetRequest(c, l)
<1>3. /\ pendingSig' \in [Request -> Nat] /\ signedSig' \in [Request -> Nat] /\ pendingSig[q] > 0
      /\ \A r \in Request : r # q => pendingSig'[r] = pendingSig[r] /\ signedSig'[r] = signedSig[r]
      /\ phase = "deliver" /\ UNCHANGED blockVars
  BY Answered, Requests DEF IInv, SubmitSignatures
<1>4. loan[l].auth # "NONE" BY <1>3, Facts DEF CetFits
<1> USE DEF blockVars
<1>5. TypeOK' BY <1>1, <1>3 DEF IInv, TypeOK
<1>6. SnapshotFits' BY <1>3 DEF IInv, SnapshotFits
<1>7. LoansFit' BY DEF IInv, LoansFit, LoanFits
<1>8. CetsFit'
  <2>1. CetFits(l, c)'
    <3>1. c # "REPAYMENT" => loan[l].status = SignedStatus(c) BY Tables DEF AcceptsSignatures
    <3> QED BY <1>2, <1>4, <3>1, Facts DEF CetFits
  <2>2. ASSUME NEW m \in Loan, NEW d \in Cet, m # l \/ d # c PROVE CetFits(m, d)'
    <3>1. pendingSig'[CetRequest(d, m)] = pendingSig[CetRequest(d, m)] BY <1>3, <2>2, Requests
    <3> QED BY <1>1, <2>2, <3>1, Facts DEF CetFits
  <2> QED BY <2>1, <2>2 DEF CetsFit
<1>9. EventsFit'
  <2>1. \A e \in EventId, o \in Outcome : Requested(e, o)' = Requested(e, o) BY <1>3, Requests DEF Requested
  <2> QED BY <2>1 DEF IInv, EventsFit, EventFits
<1>10. FatesFit' BY DEF IInv, FatesFit, FateFits
<1>11. VaultsFit' BY DEF IInv, VaultsFit
<1>12. EventQueueExact' BY DEF IInv, EventQueueExact
<1>13. \A m \in Loan, d \in Cet : cet'[m][d].signed = cet[m][d].signed BY <1>1, <1>2
<1>14. LiquidationQueueExact' BY <1>13, Tables DEF IInv, LiquidationQueueExact, LiquidationCet
<1>15. Covered'
  BY <1>1, <1>2, Tables DEF IInv, Covered, RepaymentCetSigned, Redeemed
<1> QED BY <1>5, <1>6, <1>7, <1>8, <1>9, <1>10, <1>11, <1>12, <1>14, <1>15 DEF IInv

LEMMA SignRedemptionStep == ASSUME IInv, NEW r \in RedemptionId, SignRedemption(r) PROVE IInv'
<1> USE DEF SignRedemption, loanVars, dlcVars
<1>1. /\ redemption' \in [RedemptionId -> Redemption]
      /\ \A s \in RedemptionId : redemption'[s].loan = redemption[s].loan /\ redemption'[s].inputs = redemption[s].inputs
      /\ redemption[r].loan \in Loan /\ \A s \in RedemptionId : TxsOf(redemption[s].inputs) \subseteq Tx
  BY InputTxs DEF IInv, TypeOK, Redemption
<1>2. /\ depositLog' \in [Tx -> DepositLog]
      /\ \A t \in Tx : depositLog'[t].vault = depositLog[t].vault
      /\ \A t \in TxsOf(redemption[r].inputs) : depositLog[t].vault = redemption[r].loan
                                         /\ depositLog'[t].status = "REDEEMED"
      /\ \A t \in Tx \ TxsOf(redemption[r].inputs) : depositLog'[t] = depositLog[t]
  BY <1>1 DEF IInv, TypeOK, DepositLog, DepositStatus, SetDepositStatus, VaultsFit
<1> DEFINE q == RedemptionRequest(r)
<1>3. /\ pendingSig' \in [Request -> Nat] /\ signedSig' \in [Request -> Nat]
      /\ \A s \in Request : s # q => pendingSig'[s] = pendingSig[s] /\ signedSig'[s] = signedSig[s]
      /\ phase = "deliver" /\ UNCHANGED blockVars
  BY Answered, Requests DEF IInv, SubmitSignatures
<1> USE DEF blockVars
<1>4. TypeOK' BY <1>1, <1>2, <1>3 DEF IInv, TypeOK
<1>5. SnapshotFits' BY <1>3 DEF IInv, SnapshotFits
<1>6. LoansFit' BY DEF IInv, LoansFit, LoanFits
<1>7. CetsFit' BY <1>3, Requests DEF IInv, CetsFit, CetFits
<1>8. EventsFit'
  <2>1. \A e \in EventId, o \in Outcome : Requested(e, o)' = Requested(e, o) BY <1>3, Requests DEF Requested
  <2> QED BY <2>1 DEF IInv, EventsFit, EventFits
<1>9. FatesFit' BY DEF IInv, FatesFit, FateFits
<1>10. VaultsFit'
  <2>1. \A t \in Tx : depositLog'[t].status = "NONE" <=> depositLog'[t].vault = "NONE"
    BY <1>1, <1>2, VaultAssumption DEF IInv, VaultsFit
  <2> QED BY <1>1, <1>2, <2>1, VaultsStep
<1>11. EventQueueExact' BY DEF IInv, EventQueueExact
<1>12. LiquidationQueueExact' BY DEF IInv, LiquidationQueueExact, LiquidationCet
<1>13. Covered'
  <2> SUFFICES ASSUME NEW m \in Loan, loan'[m].status \in Disbursed
               PROVE  RepaymentCetSigned(m)' /\ ~Redeemed(m)' /\ loan'[m].deposits # {}
                      /\ \A t \in loan'[m].deposits :
                            /\ depositLog'[t].status \notin {"NONE", "PENDING"}
                            /\ depositLog'[t].vault = m => depositLog'[t].status = "VERIFIED"
    BY DEF Covered
  <2>1. ~Redeemed(m)' /\ redemption[r].loan # m BY <1>1 DEF IInv, Covered, Redeemed
  <2>2. loan[m].deposits \subseteq Tx BY DEF IInv, TypeOK, LoanRecord
  <2> QED BY <1>2, <2>1, <2>2 DEF IInv, Covered, RepaymentCetSigned
<1> QED BY <1>4, <1>5, <1>6, <1>7, <1>8, <1>9, <1>10, <1>11, <1>12, <1>13 DEF IInv

LEMMA HandleAttestationStep ==
    ASSUME IInv, NEW e \in EventId, NEW o \in Outcome, HandleAttestation(e, o) PROVE IInv'
<1> USE DEF HandleAttestation, loanVars, vaultVars
<1>1. /\ attestation' \in [EventId -> Outcome \cup {NoOutcome}]
      /\ \A d \in EventId : d # e => attestation'[d] = attestation[d]
      /\ attestation'[e] = event[e].outcome /\ event[e].outcome \in Outcome /\ event[e].triggered
      /\ attestation[e] = NoOutcome
  <2>1. event[e].outcome \in Outcome BY Facts DEF EventFits
  <2> QED BY <2>1 DEF IInv, TypeOK
<1> DEFINE q == AttestationRequest(e, o)
<1>2. /\ pendingSig' \in [Request -> Nat] /\ signedSig' \in [Request -> Nat]
      /\ \A r \in Request : pendingSig[r] \in Nat /\ signedSig[r] \in Nat
      /\ \A r \in Request : r # q => pendingSig'[r] = pendingSig[r] /\ signedSig'[r] = signedSig[r]
      /\ pendingSig'[q] = pendingSig[q] - 1 /\ signedSig'[q] = signedSig[q] + 1 /\ q \in Request
      /\ phase = "deliver" /\ UNCHANGED blockVars
  BY Answered, Requests DEF IInv, SubmitSignatures
<1> USE DEF blockVars
<1>3. TypeOK' BY <1>1, <1>2 DEF IInv, TypeOK
<1>4. SnapshotFits' BY <1>2 DEF IInv, SnapshotFits
<1>5. LoansFit' BY DEF IInv, LoansFit, LoanFits
<1>6. CetsFit'
  <2> SUFFICES ASSUME NEW m \in Loan, NEW c \in Cet PROVE CetFits(m, c)' BY DEF CetsFit
  <2>1. pendingSig'[CetRequest(c, m)] = pendingSig[CetRequest(c, m)] BY <1>2, Requests
  <2>2. cet[m][c].adapted => loan[m].status # "NONE" /\ loan[m].event \in EventId
    BY Facts DEF CetFits, LoanFits, NoCet
  <2> QED BY <1>1, <2>1, <2>2, Facts DEF CetFits
<1>7. EventsFit'
  <2>1. \A d \in EventId, p \in Outcome : Requested(d, p)' = Requested(d, p) BY <1>2, Requests DEF Requested
  <2> QED BY <1>1, <2>1 DEF IInv, EventsFit, EventFits
<1>8. FatesFit' BY DEF IInv, FatesFit, FateFits
<1>9. VaultsFit' BY DEF IInv, VaultsFit
<1>10. EventQueueExact' BY DEF IInv, EventQueueExact
<1>11. LiquidationQueueExact' BY DEF IInv, LiquidationQueueExact, LiquidationCet
<1>12. Covered' BY DEF IInv, Covered, RepaymentCetSigned, Redeemed
<1> QED BY <1>3, <1>4, <1>5, <1>6, <1>7, <1>8, <1>9, <1>10, <1>11, <1>12 DEF IInv
\* What an Open loan becomes when its fate is decided, and its event with it: Repay and
\* HandleLiquidation, up to the liquidation queue and the position in the block.
LEMMA Decided ==
    ASSUME IInv, NEW l \in Loan, loan[l].status = "Open",
           NEW s \in {"Repaid", "Defaulted", "Liquidated"}, loan' = [loan EXCEPT ![l].status = s],
           TriggerDLCEvent(loan[l].event, Fate(s)),
           NEW c \in Cet, NEW S \in SUBSET {AttestationRequest(loan[l].event, Fate(s)), CetRequest(c, l)},
           AttestationRequest(loan[l].event, Fate(s)) \in S, InitiateSigningRequests(S),
           UNCHANGED <<cet, vaultVars>>,
           now' \in Nat, price' \in 0..MaxPrice, todo' \subseteq Loan, liquidationQueue' \subseteq Loan,
           phase' \in {"deliver", "approve", "liquidate", "queue", "repay"}
    PROVE  /\ TypeOK' /\ LoansFit' /\ CetsFit' /\ EventsFit' /\ FatesFit' /\ VaultsFit'
           /\ EventQueueExact' /\ Covered'
           /\ loan'[l].status = s /\ \A m \in Loan : m # l => loan'[m] = loan[m]
<1> USE DEF TriggerDLCEvent, vaultVars
<1> DEFINE e == loan[l].event
           q == AttestationRequest(e, Fate(s))
<1>1. /\ loan' \in [Loan -> LoanRecord] /\ \A m \in Loan : m # l => loan'[m] = loan[m]
      /\ loan'[l].status = s /\ loan'[l].event = e /\ loan'[l].auth = loan[l].auth
      /\ loan'[l].deposits = loan[l].deposits /\ loan[l].auth # "NONE"
  <2> DEFINE new == [loan[l] EXCEPT !.status = s]
  <2>1. /\ loan[l] \in LoanRecord /\ loan \in [Loan -> LoanRecord] /\ loan' = [loan EXCEPT ![l] = new]
        /\ loan[l].auth # "NONE"
    BY Facts DEF IInv, TypeOK, LoanFits
  <2>2. /\ new \in LoanRecord /\ new.status = s
        /\ new.event = loan[l].event /\ new.auth = loan[l].auth /\ new.deposits = loan[l].deposits
    BY <2>1 DEF LoanRecord, LoanStatus
  <2> HIDE DEF new
  <2> QED BY <2>1, <2>2
<1>2. e \in EventId /\ event[e].exists /\ ~event[e].triggered /\ Fate(s) \in Outcome
  BY Facts, Tables DEF LoanFits, FateFits
<1>3. /\ event' \in [EventId -> Event] /\ \A d \in EventId : d # e => event'[d] = event[d]
      /\ event'[e].exists /\ event'[e].triggered /\ event'[e].outcome = Fate(s)
  <2> DEFINE new == [event[e] EXCEPT !.triggered = TRUE, !.outcome = Fate(s)]
  <2>1. event[e] \in Event /\ event \in [EventId -> Event] BY <1>2 DEF IInv, TypeOK
  <2>2. new \in Event /\ new.exists /\ new.triggered /\ new.outcome = Fate(s) BY <1>2, <2>1 DEF Event
  <2>3. event' = [event EXCEPT ![e] = new] OBVIOUS
  <2> HIDE DEF new
  <2> QED BY <1>2, <2>1, <2>2, <2>3
<1>4. /\ e \notin pendingEvents
      /\ \A m \in Loan : m # l /\ loan[m].status # "NONE" => loan[m].event # e
  BY DEF IInv, EventQueueExact
<1>5. /\ pendingSig' \in [Request -> Nat] /\ signedSig' = signedSig /\ q \in Request
      /\ \A r \in Request : pendingSig[r] \in Nat /\ signedSig[r] \in Nat
      /\ pendingSig'[q] = pendingSig[q] + 1
      /\ \A r \in Request : r \notin {q, CetRequest(c, l)} => pendingSig'[r] = pendingSig[r]
  BY <1>2, Asked, Requests DEF IInv
<1>6. TypeOK' BY <1>1, <1>3, <1>5 DEF IInv, TypeOK
<1>7. LoansFit' BY <1>1, <1>2, <1>3, Facts DEF LoansFit, LoanFits
<1>8. CetsFit'
  <2> SUFFICES ASSUME NEW m \in Loan, NEW d \in Cet PROVE CetFits(m, d)' BY DEF CetsFit
  <2>1. CASE m = l
    <3>1. d = "REPAYMENT" \/ d = "LIQUIDATION" \/ d = "DEFAULT_LIQUIDATION" BY DEF Cet
    <3>2. ~cet[l][d].signed /\ (cet[l][d].dcm => d = "REPAYMENT") BY <3>1, Facts, Tables DEF CetFits
    <3> QED BY <1>1, <2>1, <3>2, Facts DEF CetFits
  <2>2. CASE m # l
    <3>1. pendingSig'[CetRequest(d, m)] = pendingSig[CetRequest(d, m)] BY <1>5, <2>2, Requests
    <3> QED BY <1>1, <2>2, <3>1, Facts DEF CetFits
  <2> QED BY <2>1, <2>2
<1>9. EventsFit'
  <2>1. \A d \in EventId, o \in Outcome : d # e \/ o # Fate(s) => Requested(d, o)' = Requested(d, o)
    BY <1>5, Requests DEF Requested
  <2>2. Requested(e, Fate(s))' = Requested(e, Fate(s)) + 1 BY <1>5 DEF Requested
  <2>3. \A o \in Outcome : Requested(e, o) = 0 BY <1>2, Facts DEF EventFits
  <2>4. EventFits(e)' BY <1>2, <1>3, <2>1, <2>2, <2>3, Facts DEF EventFits
  <2>5. ASSUME NEW d \in EventId, d # e PROVE EventFits(d)' BY <1>3, <2>1, <2>5, Facts DEF EventFits
  <2> QED BY <2>4, <2>5 DEF EventsFit
<1>10. FatesFit'
  <2>1. FateFits(l)' BY <1>1, <1>2, <1>3 DEF FateFits
  <2>2. ASSUME NEW m \in Loan, m # l PROVE FateFits(m)'
    BY <1>1, <1>3, <1>4, <2>2, Facts DEF FateFits, LoanFits
  <2> QED BY <2>1, <2>2 DEF FatesFit
<1>11. VaultsFit' BY <1>1 DEF IInv, VaultsFit
<1>12. EventQueueExact'
  <2>1. \A d \in pendingEvents : d \in EventId /\ d # e BY <1>4 DEF IInv, TypeOK
  <2> QED BY <1>1, <1>3, <2>1 DEF IInv, EventQueueExact
<1>13. Covered' BY <1>1 DEF IInv, Covered, RepaymentCetSigned, Redeemed
<1> QED BY <1>1, <1>6, <1>7, <1>8, <1>9, <1>10, <1>11, <1>12, <1>13

LEMMA RepayStep == ASSUME IInv, NEW l \in Loan, Repay(l) PROVE IInv'
<1> USE DEF Repay, Repayable, blockVars
<1>1. /\ TypeOK' /\ LoansFit' /\ CetsFit' /\ EventsFit' /\ FatesFit' /\ VaultsFit'
      /\ EventQueueExact' /\ Covered'
      /\ loan'[l].status = "Repaid" /\ \A m \in Loan : m # l => loan'[m] = loan[m]
  <2>1. Fate("Repaid") = RepaidOutcome BY DEF Fate
  <2>2. /\ now' \in Nat /\ price' \in 0..MaxPrice /\ todo' \subseteq Loan /\ liquidationQueue' \subseteq Loan
        /\ phase' \in {"deliver", "approve", "liquidate", "queue", "repay"}
    BY DEF IInv, TypeOK
  <2>3. "REPAYMENT" \in Cet BY DEF Cet
  <2> DEFINE S == {AttestationRequest(loan[l].event, Fate("Repaid"))}
  <2>4. /\ S \in SUBSET {AttestationRequest(loan[l].event, Fate("Repaid")), CetRequest("REPAYMENT", l)}
        /\ AttestationRequest(loan[l].event, Fate("Repaid")) \in S
    OBVIOUS
  <2>5. /\ TriggerDLCEvent(loan[l].event, Fate("Repaid")) /\ InitiateSigningRequests(S)
        /\ loan' = [loan EXCEPT ![l].status = "Repaid"] /\ UNCHANGED <<cet, vaultVars>>
        /\ loan[l].status = "Open"
    BY <2>1
  <2> HIDE DEF S
  <2>6. "Repaid" \in {"Repaid", "Defaulted", "Liquidated"} OBVIOUS
  <2> QED BY <2>2, <2>3, <2>4, <2>5, <2>6, Decided
<1>2. SnapshotFits' BY DEF IInv, SnapshotFits
<1>3. LiquidationQueueExact' BY <1>1 DEF IInv, LiquidationQueueExact, LiquidationCet
<1> QED BY <1>1, <1>2, <1>3 DEF IInv

LEMMA HandleLiquidationStep == ASSUME IInv, NEW l \in Loan, HandleLiquidation(l) PROVE IInv'
<1> USE DEF HandleLiquidation, Visit
<1>1. /\ now' \in Nat /\ price' \in 0..MaxPrice /\ todo' \subseteq Loan /\ l \in todo
      /\ phase' = "liquidate" /\ phase = "liquidate" /\ todo' = todo \ {l}
      /\ loan[l].status = "Open" /\ l \notin liquidationQueue
  BY DEF IInv, TypeOK, SnapshotFits, LiquidationQueueExact
<1>2. ASSUME NEW s \in {"Defaulted", "Liquidated"}, NEW c \in Cet, c = LiquidationCet(l)', SignedStatus(c) = s,
             Liquidate(l, s, Fate(s), c)
      PROVE  IInv'
  <2> USE DEF Liquidate
  <2>0. liquidationQueue' \subseteq Loan /\ UNCHANGED <<cet, vaultVars>> BY DEF IInv, TypeOK
  <2>1. /\ TypeOK' /\ LoansFit' /\ CetsFit' /\ EventsFit' /\ FatesFit' /\ VaultsFit'
        /\ EventQueueExact' /\ Covered'
        /\ loan'[l].status = s /\ \A m \in Loan : m # l => loan'[m] = loan[m]
    <3> DEFINE S == {AttestationRequest(loan[l].event, Fate(s)), CetRequest(c, l)}
    <3>1. /\ TriggerDLCEvent(loan[l].event, Fate(s)) /\ InitiateSigningRequests(S)
          /\ loan' = [loan EXCEPT ![l].status = s]
      BY <1>2
    <3>2. S \in SUBSET {AttestationRequest(loan[l].event, Fate(s)), CetRequest(c, l)}
          /\ AttestationRequest(loan[l].event, Fate(s)) \in S OBVIOUS
    <3> HIDE DEF S
    <3>3. s \in {"Repaid", "Defaulted", "Liquidated"} OBVIOUS
    <3> QED BY <1>1, <2>0, <3>1, <3>2, <3>3, Decided
  <2>2. SnapshotFits' BY <1>1, <2>1 DEF IInv, SnapshotFits
  <2>3. ~cet[l][c].signed BY <1>1, <1>2, Facts DEF CetFits
  <2>4. LiquidationQueueExact'
    <3>1. \A m \in Loan : m # l => LiquidationCet(m)' = LiquidationCet(m) BY <2>1 DEF LiquidationCet
    <3> QED BY <1>1, <1>2, <2>0, <2>1, <2>3, <3>1 DEF IInv, LiquidationQueueExact
  <2> QED BY <2>1, <2>2, <2>4 DEF IInv
<1>3. /\ loan \in [Loan -> LoanRecord] /\ loan[l] \in LoanRecord BY DEF IInv, TypeOK
<1>4. CASE Liquidate(l, "Defaulted", DefaultLiquidatedOutcome, "DEFAULT_LIQUIDATION")
  <2>1. LiquidationCet(l)' = "DEFAULT_LIQUIDATION" BY <1>3, <1>4 DEF Liquidate, LiquidationCet, LoanRecord
  <2> QED BY <1>2, <1>4, <2>1, Tables
<1>5. CASE Liquidate(l, "Liquidated", LiquidatedOutcome, "LIQUIDATION")
  <2>1. LiquidationCet(l)' = "LIQUIDATION" BY <1>3, <1>5 DEF Liquidate, LiquidationCet, LoanRecord
  <2> QED BY <1>2, <1>5, <2>1, Tables
<1>6. CASE UNCHANGED <<loan, liquidationQueue, dlcVars, sigVars>>
  BY <1>1, <1>6 DEF dlcVars, sigVars, vaultVars, IInv, TypeOK, SnapshotFits, LoansFit, LoanFits, CetsFit, CetFits,
     EventsFit, EventFits, Requested, FatesFit, FateFits, VaultsFit, EventQueueExact, LiquidationQueueExact,
     LiquidationCet, Covered, RepaymentCetSigned, Redeemed
<1> QED BY <1>4, <1>5, <1>6
LEMMA HandleApprovalStep == ASSUME IInv, NEW l \in Loan, NEW ok \in BOOLEAN, HandleApproval(l, ok) PROVE IInv'
<1> USE DEF vaultVars, dlcVars, sigVars
<1>1. /\ todo' = todo \ {l} /\ l \in todo /\ phase = "approve" /\ phase' = phase
      /\ now' = now /\ price' = price /\ UNCHANGED <<cet, liquidationQueue, vaultVars, dlcVars, sigVars>>
      /\ loan[l].status \in {"Requested", "Authorized"} /\ l \notin liquidationQueue
  BY DEF HandleApproval, Visit, IInv, SnapshotFits, LiquidationQueueExact
\* The loan is rejected, opened or left as it is; it is opened only when it is covered.
<1>2. ASSUME NEW s \in {"Rejected", "Open"}, NEW a \in AuthorizationStatus,
             loan' = [loan EXCEPT ![l].status = s, ![l].auth = a],
             s = "Rejected" => (a = "NONE" <=> loan[l].auth = "NONE"),
             s = "Open" => /\ a # "NONE" /\ loan[l].auth # "NONE"
                           /\ RepaymentCetSigned(l) /\ DepositsVerified(l)
      PROVE  IInv'
  <2>1. /\ loan' \in [Loan -> LoanRecord] /\ \A m \in Loan : m # l => loan'[m] = loan[m]
        /\ loan'[l].status = s /\ loan'[l].event = loan[l].event /\ loan'[l].auth = a
        /\ loan'[l].deposits = loan[l].deposits
    <3> DEFINE new == [loan[l] EXCEPT !.status = s, !.auth = a]
    <3>1. loan[l] \in LoanRecord /\ loan \in [Loan -> LoanRecord] /\ loan' = [loan EXCEPT ![l] = new]
      BY <1>2 DEF IInv, TypeOK
    <3>2. /\ new \in LoanRecord /\ new.status = s /\ new.auth = a
          /\ new.event = loan[l].event /\ new.deposits = loan[l].deposits
      BY <3>1 DEF LoanRecord, LoanStatus
    <3> HIDE DEF new
    <3> QED BY <3>1, <3>2
  <2>2. TypeOK' BY <1>1, <2>1 DEF IInv, TypeOK
  <2>3. SnapshotFits' BY <1>1, <2>1 DEF IInv, TypeOK, SnapshotFits
  <2>4. LoansFit' BY <1>1, <1>2, <2>1, Facts DEF LoansFit, LoanFits
  <2>5. CetsFit'
    <3> SUFFICES ASSUME NEW m \in Loan, NEW c \in Cet PROVE CetFits(m, c)' BY DEF CetsFit
    <3>1. c = "REPAYMENT" \/ c = "LIQUIDATION" \/ c = "DEFAULT_LIQUIDATION" BY DEF Cet
    <3>2. CASE m # l BY <1>1, <2>1, <3>2, Facts DEF CetFits
    <3>3. CASE m = l
      <4>1. ~cet[l][c].signed /\ (cet[l][c].dcm => c = "REPAYMENT") BY <1>1, <3>1, Facts, Tables DEF CetFits
      <4>2. loan'[l].auth = "NONE" <=> loan[l].auth = "NONE" BY <1>2, <2>1
      <4> QED BY <1>1, <2>1, <3>3, <4>1, <4>2, Facts DEF CetFits
    <3> QED BY <3>2, <3>3
  <2>6. EventsFit' BY <1>1 DEF IInv, EventsFit, EventFits, Requested
  <2>7. FatesFit' BY <1>1, <2>1, Tables DEF IInv, FatesFit, FateFits
  <2>8. VaultsFit'
    <3>1. /\ \A m \in Loan : loan'[m].deposits = loan[m].deposits
          /\ \A m \in Loan : loan[m].status \in {"Cancelled", "Rejected"} => loan'[m].status \in {"Cancelled", "Rejected"}
      BY <1>1, <2>1
    <3>2. \A t \in Tx : depositLog'[t].status = "NONE" <=> depositLog'[t].vault = "NONE"
      BY <1>1 DEF IInv, VaultsFit
    <3> QED BY <1>1, <3>1, <3>2, VaultsStep
  <2>9. EventQueueExact' BY <1>1, <2>1 DEF IInv, EventQueueExact
  <2>10. LiquidationQueueExact' BY <1>1, <2>1 DEF IInv, LiquidationQueueExact, LiquidationCet
  <2>11. Covered'
    <3>1. ~Redeemed(l) BY <1>1, VaultAssumption DEF IInv, VaultsFit, Redeemed
    <3>2. s = "Open" => loan[l].deposits # {} BY <1>2, Facts, Tables DEF CetFits
    <3>3. loan[l].deposits \subseteq Tx BY DEF IInv, TypeOK, LoanRecord
    <3> QED BY <1>1, <1>2, <2>1, <3>1, <3>2, <3>3
        DEF IInv, Covered, RepaymentCetSigned, Redeemed, DepositsVerified
  <2> QED BY <2>2, <2>3, <2>4, <2>5, <2>6, <2>7, <2>8, <2>9, <2>10, <2>11 DEF IInv
<1>3. loan[l].auth \in AuthorizationStatus /\ loan \in [Loan -> LoanRecord] BY DEF IInv, TypeOK, LoanRecord
<1>4. CASE Reject(l)
  <2> DEFINE a == IF loan[l].auth = "NONE" THEN loan[l].auth ELSE "REJECTED"
  <2>1. a \in AuthorizationStatus /\ (a = "NONE" <=> loan[l].auth = "NONE") BY <1>3 DEF AuthorizationStatus
  <2>2. loan' = [loan EXCEPT ![l].status = "Rejected", ![l].auth = a] BY <1>3, <1>4 DEF Reject, LoanRecord
  <2> HIDE DEF a
  <2> QED BY <1>2, <2>1, <2>2
<1>5. CASE /\ loan[l].auth # "NONE" /\ RepaymentCetSigned(l) /\ DepositsVerified(l)
           /\ loan' = [loan EXCEPT ![l].status = "Open", ![l].auth = "AUTHORIZED"]
  <2>1. "AUTHORIZED" \in AuthorizationStatus BY DEF AuthorizationStatus
  <2> QED BY <1>2, <1>5, <2>1
<1>6. CASE UNCHANGED loan
  BY <1>1, <1>6 DEF IInv, TypeOK, SnapshotFits, LoansFit, LoanFits, CetsFit, CetFits,
     EventsFit, EventFits, Requested, FatesFit, FateFits, VaultsFit, EventQueueExact, LiquidationQueueExact,
     LiquidationCet, Covered, RepaymentCetSigned, Redeemed
<1> QED BY <1>4, <1>5, <1>6 DEF HandleApproval

\* What an update of one contract execution transaction leaves.
LEMMA CetUpdate ==
    ASSUME TypeOK, NEW l \in Loan, NEW c \in Cet, NEW a \in BOOLEAN, NEW s \in BOOLEAN,
           cet' = [cet EXCEPT ![l][c].adapted = a, ![l][c].signed = s]
    PROVE  /\ cet' \in [Loan -> [Cet -> CetRecord]]
           /\ \A m \in Loan, d \in Cet : m # l \/ d # c => cet'[m][d] = cet[m][d]
           /\ cet'[l][c].adapted = a /\ cet'[l][c].signed = s /\ cet'[l][c].dcm = cet[l][c].dcm
           /\ cet'[l][c].inputs = cet[l][c].inputs /\ cet'[l][c].payee = cet[l][c].payee
           /\ cet'[l][c].point = cet[l][c].point
<1> DEFINE new == [cet[l][c] EXCEPT !.adapted = a, !.signed = s]
<1>1. cet[l][c] \in CetRecord /\ cet \in [Loan -> [Cet -> CetRecord]] BY DEF TypeOK
<1>2. new \in CetRecord BY <1>1 DEF CetRecord
<1>3. cet' = [cet EXCEPT ![l] = [cet[l] EXCEPT ![c] = new]] BY <1>1
<1>4. /\ new.adapted = a /\ new.signed = s /\ new.dcm = cet[l][c].dcm
      /\ new.inputs = cet[l][c].inputs /\ new.payee = cet[l][c].payee /\ new.point = cet[l][c].point
  BY <1>1 DEF CetRecord
<1> HIDE DEF new
<1>5. cet'[l][c] = new BY <1>1, <1>2, <1>3
<1>6. cet' \in [Loan -> [Cet -> CetRecord]] BY <1>1, <1>2, <1>3
<1>7. \A m \in Loan, d \in Cet : m # l \/ d # c => cet'[m][d] = cet[m][d] BY <1>1, <1>3
<1> QED BY <1>4, <1>5, <1>6, <1>7

LEMMA HandleLiquidatedLoanStep == ASSUME IInv, NEW l \in Loan, HandleLiquidatedLoan(l) PROVE IInv'
<1> USE DEF vaultVars, dlcVars, sigVars
<1>0. PICK c : c = LiquidationCet(l) OBVIOUS
<1> DEFINE adapted == cet[l][c].adapted \/ attestation[loan[l].event] # NoOutcome
           signed == adapted /\ cet[l][c].dcm
<1>1. /\ todo' = todo \ {l} /\ l \in todo /\ phase = "queue" /\ phase' = phase
      /\ now' = now /\ price' = price /\ UNCHANGED <<loan, vaultVars, dlcVars, sigVars>>
      /\ cet' = [cet EXCEPT ![l][c].adapted = adapted, ![l][c].signed = signed]
      /\ liquidationQueue' = IF signed THEN liquidationQueue \ {l} ELSE liquidationQueue
  BY <1>0 DEF HandleLiquidatedLoan, Visit, QueueAfter
<1>2. /\ l \in liquidationQueue /\ loan[l].status \in {"Defaulted", "Liquidated"}
      /\ c \in Cet /\ c # "REPAYMENT" /\ loan[l].status = SignedStatus(c) /\ ~cet[l][c].signed
  BY <1>0, <1>1, Tables DEF IInv, SnapshotFits, LiquidationQueueExact, LiquidationCet
<1>3. cet[l][c] \in CetRecord /\ adapted \in BOOLEAN /\ signed \in BOOLEAN /\ TypeOK
  BY <1>2, Facts DEF CetRecord, IInv
<1>4. cet[l][c].adapted => attestation[loan[l].event] # NoOutcome BY <1>2, Facts DEF CetFits
<1>5. /\ adapted => attestation[loan[l].event] # NoOutcome
      /\ signed => cet[l][c].dcm /\ adapted
  BY <1>4
<1> HIDE DEF adapted, signed
<1>6. /\ cet' \in [Loan -> [Cet -> CetRecord]]
      /\ \A m \in Loan, d \in Cet : m # l \/ d # c => cet'[m][d] = cet[m][d]
      /\ cet'[l][c].adapted = adapted /\ cet'[l][c].signed = signed /\ cet'[l][c].dcm = cet[l][c].dcm
      /\ cet'[l][c].inputs = cet[l][c].inputs /\ cet'[l][c].payee = cet[l][c].payee
      /\ cet'[l][c].point = cet[l][c].point
  BY <1>1, <1>2, <1>3, CetUpdate
<1>7. TypeOK' BY <1>1, <1>6 DEF IInv, TypeOK
<1>8. SnapshotFits' BY <1>1 DEF IInv, SnapshotFits
<1>9. LoansFit' BY <1>1 DEF IInv, LoansFit, LoanFits
<1>10. CetsFit'
  <2>1. CetFits(l, c)'
    <3>1. loan[l].auth # "NONE" BY <1>2, Facts DEF LoanFits
    <3> QED BY <1>1, <1>2, <1>5, <1>6, <3>1, Facts DEF CetFits
  <2>2. ASSUME NEW m \in Loan, NEW d \in Cet, m # l \/ d # c PROVE CetFits(m, d)'
    BY <1>1, <1>6, <2>2, Facts DEF CetFits
  <2> QED BY <2>1, <2>2 DEF CetsFit
<1>11. EventsFit' BY <1>1 DEF IInv, EventsFit, EventFits, Requested
<1>12. FatesFit' BY <1>1 DEF IInv, FatesFit, FateFits
<1>13. VaultsFit' BY <1>1 DEF IInv, VaultsFit
<1>14. EventQueueExact' BY <1>1 DEF IInv, EventQueueExact
<1>15. LiquidationQueueExact'
  <2>1. \A m \in Loan : LiquidationCet(m)' = LiquidationCet(m) /\ LiquidationCet(m) \in Cet
    BY <1>1 DEF LiquidationCet, Cet
  <2>2. \A m \in Loan : m # l => cet'[m][LiquidationCet(m)].signed = cet[m][LiquidationCet(m)].signed
    BY <1>6, <2>1
  <2>3. LiquidationCet(l) = c BY <1>0
  <2> QED BY <1>1, <1>2, <1>3, <1>6, <2>1, <2>2, <2>3 DEF IInv, LiquidationQueueExact
<1>16. Covered'
  <2>1. \A m \in Loan : RepaymentCetSigned(m)' = RepaymentCetSigned(m)
    BY <1>2, <1>6, Tables DEF RepaymentCetSigned
  <2> QED BY <1>1, <2>1 DEF IInv, Covered, Redeemed
<1> QED BY <1>7, <1>8, <1>9, <1>10, <1>11, <1>12, <1>13, <1>14, <1>15, <1>16 DEF IInv

LEMMA HandleRepaymentStep == ASSUME IInv, NEW l \in Loan, HandleRepayment(l) PROVE IInv'
<1> USE DEF vaultVars, dlcVars, sigVars
<1> DEFINE c == "REPAYMENT"
           adapted == cet[l][c].adapted \/ attestation[loan[l].event] # NoOutcome
<1>1. /\ todo' = todo \ {l} /\ l \in todo /\ phase = "repay" /\ phase' = phase /\ loan[l].status = "Repaid"
      /\ now' = now /\ price' = price /\ UNCHANGED <<liquidationQueue, vaultVars, dlcVars, sigVars>>
      /\ l \notin liquidationQueue
  BY DEF HandleRepayment, Visit, IInv, SnapshotFits, LiquidationQueueExact
<1>2. CASE ~adapted
  <2>1. UNCHANGED <<cet, loan>> BY <1>2 DEF HandleRepayment
  <2> QED BY <1>1, <2>1 DEF IInv, TypeOK, SnapshotFits, LoansFit, LoanFits, CetsFit, CetFits,
      EventsFit, EventFits, Requested, FatesFit, FateFits, VaultsFit, EventQueueExact, LiquidationQueueExact,
      LiquidationCet, Covered, RepaymentCetSigned, Redeemed
<1>3. CASE adapted
  <2>1. /\ c \in Cet /\ attestation[loan[l].event] # NoOutcome /\ cet[l][c].dcm /\ loan[l].auth # "NONE" /\ TypeOK
    BY <1>1, <1>3, Facts DEF CetFits, LoanFits, Cet, IInv, Covered, RepaymentCetSigned
  <2>2. cet' = [cet EXCEPT ![l][c].adapted = TRUE, ![l][c].signed = TRUE] BY <1>3 DEF HandleRepayment
  <2> HIDE DEF c, adapted
  <2>3. /\ cet' \in [Loan -> [Cet -> CetRecord]]
        /\ \A m \in Loan, d \in Cet : m # l \/ d # c => cet'[m][d] = cet[m][d]
        /\ cet'[l][c].adapted = TRUE /\ cet'[l][c].signed = TRUE /\ cet'[l][c].dcm = cet[l][c].dcm
        /\ cet'[l][c].inputs = cet[l][c].inputs /\ cet'[l][c].payee = cet[l][c].payee
        /\ cet'[l][c].point = cet[l][c].point
    BY <2>1, <2>2, CetUpdate
  <2>4. /\ loan' \in [Loan -> LoanRecord] /\ \A m \in Loan : m # l => loan'[m] = loan[m]
        /\ loan'[l].status = "Closed" /\ loan'[l].event = loan[l].event /\ loan'[l].auth = loan[l].auth
        /\ loan'[l].deposits = loan[l].deposits
    <3> DEFINE new == [loan[l] EXCEPT !.status = "Closed"]
    <3>1. loan[l] \in LoanRecord /\ loan \in [Loan -> LoanRecord] /\ loan' = [loan EXCEPT ![l] = new]
      BY <1>3 DEF IInv, TypeOK, HandleRepayment, adapted, c
    <3>2. /\ new \in LoanRecord /\ new.status = "Closed" /\ new.auth = loan[l].auth
          /\ new.event = loan[l].event /\ new.deposits = loan[l].deposits
      BY <3>1 DEF LoanRecord, LoanStatus
    <3> HIDE DEF new
    <3> QED BY <3>1, <3>2
  <2>5. TypeOK' BY <1>1, <2>3, <2>4 DEF IInv, TypeOK
  <2>6. SnapshotFits' BY <1>1, <2>4 DEF IInv, TypeOK, SnapshotFits
  <2>7. LoansFit' BY <1>1, <2>1, <2>4, Facts DEF LoansFit, LoanFits
  <2>8. CetsFit'
    <3>1. CetFits(l, c)' BY <1>1, <2>1, <2>3, <2>4, Facts, Tables DEF CetFits, c
    <3>2. ASSUME NEW d \in Cet, d # c PROVE CetFits(l, d)'
      <4>1. d = "LIQUIDATION" \/ d = "DEFAULT_LIQUIDATION" BY <3>2 DEF Cet, c
      <4>2. ~cet[l][d].signed /\ ~cet[l][d].dcm BY <1>1, <4>1, Facts, Tables DEF CetFits
      <4> QED BY <1>1, <2>1, <2>3, <2>4, <3>2, <4>2, Facts DEF CetFits
    <3>3. ASSUME NEW m \in Loan, m # l, NEW d \in Cet PROVE CetFits(m, d)'
      BY <1>1, <2>3, <2>4, <3>3, Facts DEF CetFits
    <3> QED BY <3>1, <3>2, <3>3 DEF CetsFit
  <2>9. EventsFit' BY <1>1 DEF IInv, EventsFit, EventFits, Requested
  <2>10. FatesFit'
    <3>1. FateFits(l)' BY <1>1, <2>4, Facts, Tables DEF FateFits
    <3> QED BY <1>1, <2>4, <3>1, Facts DEF FatesFit, FateFits
  <2>11. VaultsFit'
    <3>1. /\ \A m \in Loan : loan'[m].deposits = loan[m].deposits
          /\ \A m \in Loan : loan[m].status \in {"Cancelled", "Rejected"} => loan'[m].status \in {"Cancelled", "Rejected"}
      BY <1>1, <2>4
    <3>2. \A t \in Tx : depositLog'[t].status = "NONE" <=> depositLog'[t].vault = "NONE"
      BY <1>1 DEF IInv, VaultsFit
    <3> QED BY <1>1, <3>1, <3>2, VaultsStep
  <2>12. EventQueueExact' BY <1>1, <2>4 DEF IInv, EventQueueExact
  <2>13. LiquidationQueueExact'
    <3>1. \A m \in Loan : m # l => LiquidationCet(m)' = LiquidationCet(m) /\ LiquidationCet(m) \in Cet
      BY <2>4 DEF LiquidationCet, Cet
    <3> QED BY <1>1, <2>3, <2>4, <3>1 DEF IInv, LiquidationQueueExact
  <2>14. Covered'
    <3>1. \A m \in Loan : RepaymentCetSigned(m)' = RepaymentCetSigned(m)
      BY <2>3 DEF RepaymentCetSigned, c, Cet
    <3> QED BY <1>1, <2>4, <3>1 DEF IInv, Covered, Redeemed
  <2> QED BY <2>5, <2>6, <2>7, <2>8, <2>9, <2>10, <2>11, <2>12, <2>13, <2>14 DEF IInv
<1> QED BY <1>2, <1>3
\* The steps of a block that touch no loan: the next loop, the next block, stuttering.
LEMMA ClockStep ==
    ASSUME IInv, UNCHANGED <<loanVars, vaultVars, dlcVars, sigVars>>,
           \/ \E to \in {"approve", "liquidate", "queue", "repay"} :
                 phase' = to /\ todo' = LoopLoans(to) /\ UNCHANGED <<now, price>>
           \/ phase' = "deliver" /\ todo = {} /\ UNCHANGED todo /\ now' \in Nat /\ price' \in 0..MaxPrice
           \/ UNCHANGED blockVars
    PROVE  IInv'
<1> USE DEF loanVars, vaultVars, dlcVars, sigVars, blockVars
<1>1. TypeOK' BY DEF IInv, TypeOK, LoopLoans
<1>2. SnapshotFits' BY DEF IInv, SnapshotFits, LoopLoans
<1> QED BY <1>1, <1>2 DEF IInv, TypeOK, LoansFit, LoanFits, CetsFit, CetFits,
    EventsFit, EventFits, Requested, FatesFit, FateFits, VaultsFit, EventQueueExact, LiquidationQueueExact,
    LiquidationCet, Covered, RepaymentCetSigned, Redeemed

LEMMA StartLoopStep ==
    ASSUME IInv, NEW from, NEW to \in {"approve", "liquidate", "queue", "repay"}, StartLoop(from, to)
    PROVE  IInv'
<1>1. /\ phase' = to /\ todo' = LoopLoans(to) /\ UNCHANGED <<now, price>>
      /\ UNCHANGED <<loanVars, vaultVars, dlcVars, sigVars>>
  BY DEF StartLoop
<1> QED BY <1>1, ClockStep

LEMMA NextBlockStep == ASSUME IInv, NEW p \in 0..MaxPrice, NextBlock(p) PROVE IInv'
<1>1. /\ phase' = "deliver" /\ todo = {} /\ UNCHANGED todo /\ now' \in Nat /\ price' \in 0..MaxPrice
      /\ UNCHANGED <<loanVars, vaultVars, dlcVars, sigVars>>
  BY DEF NextBlock, IInv, TypeOK
<1> QED BY <1>1, ClockStep

LEMMA NextInv == ASSUME IInv, [Next]_vars PROVE IInv'
<1>1. ASSUME NEW e \in EventId, HandleNonce(e) PROVE IInv' BY <1>1, HandleNonceStep
<1>2. ASSUME NEW l \in Loan, NEW e \in EventId, Apply(l, e) PROVE IInv' BY <1>2, ApplyStep
<1>3. ASSUME NEW l \in Loan, NEW T \in SUBSET Tx, NEW lp \in 1..MaxPrice, SubmitCets(l, T, lp) PROVE IInv'
  BY <1>3, SubmitCetsStep
<1>4. ASSUME NEW t \in Tx, NEW l \in Loan, SubmitDepositTransaction(t, l) PROVE IInv'
  BY <1>4, SubmitDepositTransactionStep
<1>5. ASSUME NEW r \in RedemptionId, NEW l \in Loan, NEW S \in SUBSET Output, Redeem(r, l, S) PROVE IInv'
  BY <1>5, RedeemStep
<1>6. ASSUME NEW l \in Loan, Repay(l) PROVE IInv' BY <1>6, RepayStep
<1>7. CASE Sign BY <1>7, SignCetStep, SignRedemptionStep, HandleAttestationStep DEF Sign
<1>8. CASE EndBlocker
  BY <1>8, StartLoopStep, HandleApprovalStep, HandleLiquidationStep, HandleLiquidatedLoanStep,
     HandleRepaymentStep, NextBlockStep DEF EndBlocker
<1>9. CASE UNCHANGED vars BY <1>9, ClockStep DEF vars
<1> QED BY <1>1, <1>2, <1>3, <1>4, <1>5, <1>6, <1>7, <1>8, <1>9 DEF Next

LEMMA Invariant == Spec => []IInv
<1>1. IInv /\ [Next]_vars => IInv' BY NextInv
<1> QED BY InitInv, <1>1, PTL DEF Spec

----------------------------------------------------------------------------
(* What follows from the invariant *)

\* The oracle is asked for one signature per event, for the outcome of which the loan's fate
\* calls, whatever the order of messages, loops and signatures (TriggerDLCEvent, HandleAttestation).
THEOREM AttestationIsSoundHolds == Spec => []AttestationIsSound
<1>1. ASSUME IInv PROVE OneSignaturePerNonce
  BY <1>1, Facts DEF OneSignaturePerNonce, EventFits
<1>2. ASSUME IInv PROVE AttestationFollowsLoan
  <2> SUFFICES ASSUME NEW l \in Loan, loan[l].status # "NONE", attestation[loan[l].event] # NoOutcome
               PROVE  LET o == attestation[loan[l].event] IN
                      \/ o = RepaidOutcome /\ loan[l].status \in {"Repaid", "Closed"}
                      \/ o = LiquidatedOutcome /\ loan[l].status = "Liquidated"
                      \/ o = DefaultLiquidatedOutcome /\ loan[l].status = "Defaulted"
    BY DEF AttestationFollowsLoan
  <2>1. attestation[loan[l].event] = Fate(loan[l].status) /\ Fate(loan[l].status) # NoOutcome
    BY <1>2, Facts DEF LoanFits, EventFits, FateFits
  <2>2. loan[l].status \in LoanStatus BY <1>2, Facts DEF LoanRecord
  <2> QED BY <2>1, <2>2, Tables DEF LoanStatus
<1>3. IInv => AttestationIsSound BY <1>1, <1>2 DEF AttestationIsSound
<1> QED BY Invariant, <1>3, PTL

\* The queue of pending events and the liquidation queue hold exactly what is left to do, and the
\* counter beside the former is its length (GetAvailableLendingEvent, RemoveFromLiquidationQueue).
THEOREM QueuesAreExactHolds == Spec => []QueuesAreExact
<1>1. IInv => QueuesAreExact BY DEF IInv, QueuesAreExact
<1> QED BY Invariant, <1>1, PTL

\* A redemption that takes a deposit of a loan whose deposits are well filed is one of that loan.
LEMMA TakenByItsOwn ==
    IInv => \A l \in Loan : WellFiled(l) /\ (\E r \in RedemptionId : Takes(r, l)) => Redeemed(l)
<1> SUFFICES ASSUME IInv, NEW l \in Loan, WellFiled(l), NEW r \in RedemptionId, Takes(r, l)
             PROVE  Redeemed(l)
  OBVIOUS
<1>1. PICK t \in loan[l].deposits : <<t, l>> \in redemption[r].inputs BY DEF Takes
<1>2. redemption[r].loan # "NONE" /\ KeyOf[redemption[r].loan] = KeyOf[l] BY DEF Takes
<1>3. t \in TxsOf(redemption[r].inputs) BY <1>1 DEF TxsOf
<1>4. depositLog[t].vault = redemption[r].loan BY <1>2, <1>3 DEF IInv, VaultsFit
<1> QED BY <1>1, <1>2, <1>4 DEF WellFiled, Redeemed

\* No loan is disbursed before its deposits and the DCM's signatures for the repayment are on
\* chain, nor against deposits that a redemption may take, of this loan or, if the deposits are
\* well filed, of another (HandleApproval, Redeem).
THEOREM DisbursedIsCoveredHolds == Spec => []DisbursedIsCovered
<1>1. ASSUME IInv PROVE DisbursedIsCovered
  <2> SUFFICES ASSUME NEW l \in Loan, loan[l].status \in Disbursed
               PROVE  /\ RepaymentCetSigned(l)
                      /\ ~Redeemed(l)
                      /\ loan[l].deposits # {}
                      /\ \A t \in loan[l].deposits :
                            /\ depositLog[t].status \notin {"NONE", "PENDING"}
                            /\ depositLog[t].vault = l => depositLog[t].status = "VERIFIED"
                      /\ WellFiled(l) => \A r \in RedemptionId : ~Takes(r, l)
    BY DEF DisbursedIsCovered
  <2>1. Covered BY <1>1 DEF IInv
  <2>2. WellFiled(l) => \A r \in RedemptionId : ~Takes(r, l) BY <1>1, <2>1, TakenByItsOwn DEF Covered
  <2> QED BY <2>1, <2>2 DEF Covered
<1>2. IInv => DisbursedIsCovered BY <1>1
<1> QED BY Invariant, <1>2, PTL

\* A CET that Bitcoin accepts was authorized, and its outcome is attested.
LEMMA ValidIsAttested ==
    ASSUME IInv, NEW l \in Loan, NEW c \in Cet, CetIsValid(l, c)
    PROVE  loan[l].auth # "NONE" /\ attestation[loan[l].event] = OutcomeOf(c)
<1>1. loan[l].auth # "NONE" BY Facts DEF CetIsValid, CetFits, NoCet
<1>2. attestation[loan[l].event] = cet[l][c].point
  <2>1. CASE c = "REPAYMENT" BY <2>1 DEF CetIsValid, CetSignatures, ScriptOf, VaultScript
  <2>2. CASE c # "REPAYMENT" BY <2>2 DEF CetIsValid, CetSignatures, ScriptOf, VaultScript
  <2> QED BY <2>1, <2>2
<1> QED BY <1>1, <1>2, Facts DEF CetFits

\* The attested outcome of a loan's event is that of its fate.
LEMMA AttestedIsFate ==
    ASSUME IInv, NEW l \in Loan, loan[l].status # "NONE"
    PROVE  attestation[loan[l].event] \in {NoOutcome, Fate(loan[l].status)}
  BY Facts DEF LoanFits, EventFits, FateFits

\* A CET that the chain calls signed is one that Bitcoin accepts, no two parties ever hold valid
\* transactions against each other, and no redemption competes with an open loan, or with a CET,
\* whose deposits are well filed (VerifyCets, BuildSignedCet, GetVaultScripts, Redeem).
THEOREM ContractIsSoundHolds == Spec => []ContractIsSound
<1>1. ASSUME IInv PROVE ContractIsSound
  <2> DEFINE redeemable(l) == \E r \in RedemptionId : redemption[r].dcm /\ (redemption[r].loan = l \/ Takes(r, l))
             valid(l) == {c \in Cet : CetIsValid(l, c)}
  <2> SUFFICES ASSUME NEW l \in Loan, loan[l].event # 0
               PROVE  /\ \A c \in Cet : cet[l][c].signed =>
                            /\ c \in valid(l) /\ cet[l][c].inputs = loan[l].deposits
                            /\ cet[l][c].payee = IF c = "REPAYMENT" THEN "BORROWER" ELSE "DCM"
                      /\ loan[l].status = "Open" => valid(l) = {}
                      /\ \A c, d \in valid(l) : cet[l][c].payee = cet[l][d].payee
                      /\ WellFiled(l) /\ redeemable(l) => valid(l) = {} /\ loan[l].status # "Open"
    BY DEF ContractIsSound
  <2>1. loan[l].status # "NONE" BY <1>1, Facts DEF LoanFits
  <2>2. ASSUME NEW c \in Cet, cet[l][c].signed
        PROVE  /\ CetIsValid(l, c) /\ cet[l][c].inputs = loan[l].deposits
               /\ cet[l][c].payee = IF c = "REPAYMENT" THEN "BORROWER" ELSE "DCM"
    <3>1. /\ loan[l].auth # "NONE" /\ cet[l][c].dcm /\ loan[l].status = SignedStatus(c)
          /\ attestation[loan[l].event] # NoOutcome
      BY <1>1, <2>2, Facts DEF CetFits, NoCet
    <3>2. /\ cet[l][c].inputs # {} /\ cet[l][c].inputs = loan[l].deposits /\ cet[l][c].point = OutcomeOf(c)
          /\ cet[l][c].payee = IF c = "REPAYMENT" THEN "BORROWER" ELSE "DCM"
      BY <1>1, <3>1, Facts DEF CetFits
    <3>3. c = "REPAYMENT" \/ c = "LIQUIDATION" \/ c = "DEFAULT_LIQUIDATION" BY DEF Cet
    <3>4. Fate(loan[l].status) = OutcomeOf(c) BY <3>1, <3>3, Tables
    <3>5. attestation[loan[l].event] = cet[l][c].point BY <1>1, <2>1, <3>1, <3>2, <3>4, AttestedIsFate
    <3>6. VaultScript[ScriptOf(c)] \subseteq CetSignatures(l, c)
      <4>1. CASE c = "REPAYMENT" BY <3>1, <3>5, <4>1 DEF CetSignatures, ScriptOf, VaultScript
      <4>2. CASE c # "REPAYMENT" BY <3>1, <3>5, <4>2 DEF CetSignatures, ScriptOf, VaultScript
      <4> QED BY <4>1, <4>2
    <3> QED BY <3>2, <3>6 DEF CetIsValid
  <2>3. ASSUME NEW c \in Cet, CetIsValid(l, c)
        PROVE  Fate(loan[l].status) = OutcomeOf(c) /\ OutcomeOf(c) # NoOutcome
    BY <1>1, <2>1, <2>3, ValidIsAttested, AttestedIsFate, Tables
  <2>4. loan[l].status = "Open" => valid(l) = {} BY <2>3, Tables
  <2>6. ASSUME NEW c \in valid(l), NEW d \in valid(l) PROVE c = d
    BY <2>3, Tables
  <2>7. WellFiled(l) /\ redeemable(l) => valid(l) = {} /\ loan[l].status # "Open"
    <3>1. WellFiled(l) /\ redeemable(l) => Redeemed(l) BY <1>1, TakenByItsOwn DEF Redeemed
    <3>2. Redeemed(l) => loan[l].status \in {"Cancelled", "Rejected"}
      BY <1>1, VaultAssumption DEF IInv, VaultsFit, Redeemed
    <3> QED BY <2>3, <3>1, <3>2, Tables
  <2> QED BY <2>2, <2>4, <2>6, <2>7
<1>2. IInv => ContractIsSound BY <1>1
<1> QED BY Invariant, <1>2, PTL
----------------------------------------------------------------------------
(* The refinement of module Collateral *)

\* What becomes of the deposit logs: a transaction stays filed where it is, and only SubmitCets
\* changes the deposits of a loan.  So a step leaves alone which vaults are well filed.
Filed == \A m \in Loan : WellFiled(m)' = WellFiled(m)
LEMMA FiledStep ==
    ASSUME IInv, NEW m \in Loan, loan'[m].deposits = loan[m].deposits,
           \A t \in Tx : depositLog[t].vault # "NONE" => depositLog'[t].vault = depositLog[t].vault
    PROVE  WellFiled(m)' = WellFiled(m)
<1>1. \A t \in loan[m].deposits : t \in Tx /\ depositLog[t].vault # "NONE"
  BY DEF IInv, TypeOK, LoanRecord, VaultsFit
<1> QED BY <1>1 DEF WellFiled

\* While the deposits of a loan are well filed, its collateral is released by a redemption
\* exactly when one was granted for it (TakenByItsOwn).
ReleasedPath(l) ==
    IF ~WellFiled(l) THEN "none"
    ELSE IF Redeemed(l) THEN "redemption"
    ELSE IF cet[l]["REPAYMENT"].signed THEN "repayment"
    ELSE IF cet[l]["LIQUIDATION"].signed \/ cet[l]["DEFAULT_LIQUIDATION"].signed THEN "liquidation"
    ELSE "none"
LEMMA ReleasedIs == IInv => \A l \in Loan : AbstractReleased[l] = ReleasedPath(l)
<1> SUFFICES ASSUME IInv, NEW l \in Loan PROVE AbstractReleased[l] = ReleasedPath(l) OBVIOUS
<1> DEFINE redeemed == Redeemed(l) \/ \E r \in RedemptionId : Takes(r, l)
<1>1. WellFiled(l) => (redeemed <=> Redeemed(l)) BY TakenByItsOwn
<1>2. AbstractReleased[l] = IF WellFiled(l) THEN Released(l) ELSE "none" BY DEF AbstractReleased
<1> HIDE DEF redeemed
<1>3. Released(l) = CASE redeemed -> "redemption"
          [] ~redeemed /\ cet[l]["REPAYMENT"].signed -> "repayment"
          [] ~redeemed /\ ~cet[l]["REPAYMENT"].signed
             /\ (cet[l]["LIQUIDATION"].signed \/ cet[l]["DEFAULT_LIQUIDATION"].signed) -> "liquidation"
          [] OTHER -> "none"
  BY DEF Released, redeemed
<1> QED BY <1>1, <1>2, <1>3 DEF ReleasedPath
LEMMA ReleasedWillBe == IInv' => \A l \in Loan : AbstractReleased'[l] = ReleasedPath(l)'
<1>1. (IInv => \A l \in Loan : AbstractReleased[l] = ReleasedPath(l))' BY ReleasedIs, PTL
<1> QED BY <1>1

\* The abstract state and release path of a vault, case by case.
LEMMA AbstractTables ==
    ASSUME NEW l \in Loan
    PROVE  /\ WellFiled(l) /\ loan[l].status = "Open" => AbstractState[l] = "lent"
           /\ WellFiled(l) /\ loan[l].status \in {"Repaid", "Closed"} => AbstractState[l] = "repaid"
           /\ WellFiled(l) /\ loan[l].status \in {"Defaulted", "Liquidated"} => AbstractState[l] = "seized"
           /\ ~WellFiled(l) \/ loan[l].status \notin Disbursed => AbstractState[l] = "free"
  BY DEF AbstractState, StateOf
LEMMA ReleasedTables ==
    ASSUME IInv, NEW l \in Loan
    PROVE  /\ WellFiled(l) /\ Redeemed(l) => AbstractReleased[l] = "redemption"
           /\ ~WellFiled(l) => AbstractReleased[l] = "none"
           /\ ~Redeemed(l) /\ (\A c \in Cet : ~cet[l][c].signed) => AbstractReleased[l] = "none"
  BY ReleasedIs DEF ReleasedPath, Cet

\* Both are functions of the vaults, which equal the functions with the same values.
LEMMA AbstractFunctions ==
    /\ DOMAIN AbstractState = Loan /\ AbstractState = [l \in Loan |-> AbstractState[l]]
    /\ DOMAIN AbstractReleased = Loan /\ AbstractReleased = [l \in Loan |-> AbstractReleased[l]]
  BY DEF AbstractState, AbstractReleased

\* The abstract state of a vault whose loan keeps its status, and its release path while no
\* redemption is granted and no CET signed.
LEMMA SameState ==
    ASSUME NEW l \in Loan, WellFiled(l)' = WellFiled(l), loan'[l].status = loan[l].status
    PROVE  AbstractState'[l] = AbstractState[l]
  BY DEF AbstractState, StateOf
LEMMA SameReleased ==
    ASSUME IInv, IInv', NEW l \in Loan, WellFiled(l)' = WellFiled(l), Redeemed(l)' = Redeemed(l),
           \A c \in Cet : cet'[l][c].signed = cet[l][c].signed
    PROVE  AbstractReleased'[l] = AbstractReleased[l]
<1>1. ReleasedPath(l)' = ReleasedPath(l) BY DEF ReleasedPath, Cet
<1> QED BY <1>1, ReleasedIs, ReleasedWillBe

\* A step that changes the abstract state of one vault only, or nothing.
LEMMA OneVault ==
    ASSUME NEW l \in Loan,
           \A m \in Loan : m # l => AbstractState'[m] = AbstractState[m] /\ AbstractReleased'[m] = AbstractReleased[m]
    PROVE  /\ AbstractState' = [AbstractState EXCEPT ![l] = AbstractState'[l]]
           /\ AbstractReleased' = [AbstractReleased EXCEPT ![l] = AbstractReleased'[l]]
           /\ AbstractState'[l] = AbstractState[l] => UNCHANGED AbstractState
           /\ AbstractReleased'[l] = AbstractReleased[l] => UNCHANGED AbstractReleased
<1>1. /\ DOMAIN AbstractState = Loan /\ AbstractState = [m \in Loan |-> AbstractState[m]]
      /\ AbstractState' = [m \in Loan |-> AbstractState'[m]]
  BY DEF AbstractState
<1>2. /\ DOMAIN AbstractReleased = Loan /\ AbstractReleased = [m \in Loan |-> AbstractReleased[m]]
      /\ AbstractReleased' = [m \in Loan |-> AbstractReleased'[m]]
  BY DEF AbstractReleased
<1> QED BY <1>1, <1>2
\* Steps after which every loan has its status, every redemption its vault and every CET its
\* signature leave the abstract state alone.
LEMMA QuietStep ==
    ASSUME IInv, IInv', Filed,
           \A m \in Loan : loan'[m].status = loan[m].status,
           \A r \in RedemptionId : redemption'[r].loan = redemption[r].loan,
           \A m \in Loan, c \in Cet : cet'[m][c].signed = cet[m][c].signed
    PROVE  UNCHANGED C!vars
<1>1. \A m \in Loan : Redeemed(m)' = Redeemed(m) BY DEF Redeemed
<1>2. \A m \in Loan : AbstractState'[m] = AbstractState[m] BY SameState DEF Filed
<1>3. \A m \in Loan : AbstractReleased'[m] = AbstractReleased[m] BY <1>1, SameReleased DEF Filed
<1>4. AbstractState' = AbstractState
  <2>1. AbstractState' = [m \in Loan |-> AbstractState'[m]] BY DEF AbstractState
  <2> QED BY <1>2, <2>1, AbstractFunctions
<1>5. AbstractReleased' = AbstractReleased
  <2>1. AbstractReleased' = [m \in Loan |-> AbstractReleased'[m]] BY DEF AbstractReleased
  <2> QED BY <1>3, <2>1, AbstractFunctions
<1> QED BY <1>4, <1>5 DEF C!vars

\* What happens to a vault whose deposits are not well filed is nothing to the abstract state.
LEMMA Unpromised ==
    ASSUME IInv, IInv', Filed, NEW l \in Loan, ~WellFiled(l),
           \A m \in Loan : m # l => loan'[m].status = loan[m].status /\ Redeemed(m)' = Redeemed(m),
           \A m \in Loan, c \in Cet : m # l => cet'[m][c].signed = cet[m][c].signed
    PROVE  UNCHANGED C!vars
<1>1. ~WellFiled(l)' BY DEF Filed
<1>2. AbstractState[l] = "free" /\ AbstractReleased[l] = "none" BY AbstractTables, ReleasedTables
<1>3. AbstractState'[l] = "free" BY <1>1 DEF AbstractState
<1>4. AbstractReleased'[l] = "none" BY <1>1, ReleasedWillBe DEF ReleasedPath
<1>5. \A m \in Loan : m # l => AbstractState'[m] = AbstractState[m] BY SameState DEF Filed
<1>6. \A m \in Loan : m # l => AbstractReleased'[m] = AbstractReleased[m] BY SameReleased DEF Filed
<1> QED BY <1>2, <1>3, <1>4, <1>5, <1>6, OneVault DEF C!vars

\* Steps that change the status of one loan and neither redemptions nor signatures: lending,
\* settling, or nothing.
LEMMA StatusStep ==
    ASSUME IInv, IInv', Filed, NEW l \in Loan, \A m \in Loan : m # l => loan'[m].status = loan[m].status,
           UNCHANGED redemption, \A m \in Loan, c \in Cet : cet'[m][c].signed = cet[m][c].signed
    PROVE  /\ AbstractState' = [AbstractState EXCEPT ![l] = AbstractState'[l]]
           /\ AbstractState'[l] = AbstractState[l] => UNCHANGED AbstractState
           /\ UNCHANGED AbstractReleased
<1>1. \A m \in Loan : Redeemed(m)' = Redeemed(m) BY DEF Redeemed
<1>2. \A m \in Loan : AbstractReleased'[m] = AbstractReleased[m] BY <1>1, SameReleased DEF Filed
<1>3. \A m \in Loan : m # l => AbstractState'[m] = AbstractState[m] BY SameState DEF Filed
<1> QED BY <1>2, <1>3, OneVault

\* Nothing has been released of a vault without redemption in whose loan's status no CET is signed.
LEMMA Unreleased ==
    ASSUME IInv, NEW l \in Loan, ~Redeemed(l), \A c \in Cet : cet[l][c].signed => loan[l].status # SignedStatus(c)
    PROVE  AbstractReleased[l] = "none"
<1>1. \A c \in Cet : ~cet[l][c].signed BY Facts DEF CetFits
<1> QED BY <1>1, ReleasedTables

\* HandleApproval lends against the vault or leaves it free.
LEMMA ApprovalRefines ==
    ASSUME IInv, IInv', Filed, NEW l \in Loan, NEW ok \in BOOLEAN, HandleApproval(l, ok)
    PROVE  [C!Next]_(C!vars)
<1>1. /\ loan[l].status \in {"Requested", "Authorized"} /\ UNCHANGED <<cet, redemption>>
      /\ loan \in [Loan -> LoanRecord]
  BY DEF HandleApproval, Visit, IInv, TypeOK, SnapshotFits, vaultVars
<1>2. /\ \A m \in Loan : m # l => loan'[m].status = loan[m].status
      /\ loan'[l].status \in {loan[l].status, "Rejected", "Open"}
  <2>1. \/ Reject(l) \/ UNCHANGED loan
        \/ loan' = [loan EXCEPT ![l].status = "Open", ![l].auth = "AUTHORIZED"]
    BY DEF HandleApproval
  <2> QED BY <1>1, <2>1 DEF Reject, LoanRecord
<1>3. /\ AbstractState' = [AbstractState EXCEPT ![l] = AbstractState'[l]]
      /\ AbstractState'[l] = AbstractState[l] => UNCHANGED AbstractState
      /\ UNCHANGED AbstractReleased
  BY <1>1, <1>2, StatusStep
<1>4. AbstractState[l] = "free" BY <1>1, AbstractTables
<1>5. CASE loan'[l].status = "Open" /\ WellFiled(l)
  <2>1. AbstractState'[l] = "lent" BY <1>5 DEF AbstractState, StateOf, Filed
  <2>2. ~Redeemed(l) BY <1>1, VaultAssumption DEF IInv, VaultsFit, Redeemed
  <2>3. AbstractReleased[l] = "none" BY <1>1, <2>2, Unreleased, Tables
  <2>4. C!Lend(l) BY <1>3, <1>4, <2>1, <2>3 DEF C!Lend
  <2> QED BY <2>4 DEF C!Next
<1>6. CASE loan'[l].status # "Open" \/ ~WellFiled(l)
  <2>1. AbstractState'[l] = "free" BY <1>1, <1>2, <1>6 DEF AbstractState, StateOf, Filed
  <2> QED BY <1>3, <1>4, <2>1 DEF C!vars
<1> QED BY <1>5, <1>6

\* Repay and HandleLiquidation settle an open loan.
LEMMA SettleRefines ==
    ASSUME IInv, IInv', Filed, NEW l \in Loan, loan[l].status = "Open",
           NEW s \in {"Repaid", "Defaulted", "Liquidated"},
           loan' = [loan EXCEPT ![l].status = s], UNCHANGED <<cet, redemption>>
    PROVE  [C!Next]_(C!vars)
<1>1. /\ \A m \in Loan : m # l => loan'[m].status = loan[m].status
      /\ loan'[l].status = s
  BY DEF IInv, TypeOK, LoanRecord
<1>2. /\ AbstractState' = [AbstractState EXCEPT ![l] = AbstractState'[l]]
      /\ UNCHANGED AbstractReleased
  BY <1>1, StatusStep
<1>3. CASE ~WellFiled(l)
  <2>1. \A m \in Loan : Redeemed(m)' = Redeemed(m) BY DEF Redeemed
  <2> QED BY <1>1, <1>3, <2>1, Unpromised
<1>4. CASE WellFiled(l) /\ s = "Repaid"
  <2>1. AbstractState[l] = "lent" BY <1>4, AbstractTables
  <2>2. AbstractState'[l] = "repaid" BY <1>1, <1>4 DEF AbstractState, StateOf, Filed
  <2>3. C!Settle(l, "repaid") BY <1>2, <2>1, <2>2 DEF C!Settle
  <2> QED BY <2>3 DEF C!Next
<1>5. CASE WellFiled(l) /\ s # "Repaid"
  <2>1. AbstractState[l] = "lent" BY <1>5, AbstractTables
  <2>2. AbstractState'[l] = "seized" BY <1>1, <1>5 DEF AbstractState, StateOf, Filed
  <2>3. C!Settle(l, "seized") BY <1>2, <2>1, <2>2 DEF C!Settle
  <2> QED BY <2>3 DEF C!Next
<1> QED BY <1>3, <1>4, <1>5

\* Releasing the collateral of a vault along the path of its state is a step of the abstract
\* specification.
LEMMA ReleaseRefines ==
    ASSUME NEW l \in Loan, \A m \in Loan : AbstractState'[m] = AbstractState[m],
           \A m \in Loan : m # l => AbstractReleased'[m] = AbstractReleased[m],
           AbstractState[l] # "lent", AbstractReleased[l] = "none",
           AbstractReleased'[l] = C!Path(AbstractState[l])
    PROVE  C!Next
<1>1. /\ UNCHANGED AbstractState
      /\ AbstractReleased' = [AbstractReleased EXCEPT ![l] = C!Path(AbstractState[l])]
  BY OneVault
<1>2. C!Release(l) BY <1>1 DEF C!Release
<1> QED BY <1>2 DEF C!Next

\* The first redemption of a vault releases its collateral, later ones add nothing.
LEMMA RedeemRefines ==
    ASSUME IInv, IInv', Filed, NEW r \in RedemptionId, NEW l \in Loan, NEW S \in SUBSET Output, Redeem(r, l, S)
    PROVE  [C!Next]_(C!vars)
<1>1. /\ loan[l].status \in {"Requested", "Cancelled", "Rejected"} /\ UNCHANGED cet
      /\ loan'[l].status \in {"Requested", "Cancelled", "Rejected"}
      /\ \A m \in Loan : m # l => loan'[m] = loan[m]
  BY DEF Redeem, IInv, TypeOK, LoanRecord, CollateralRedeemable, StatusAfterRedeem
<1>2. /\ redemption \in [RedemptionId -> Redemption]
      /\ redemption' = [redemption EXCEPT ![r] = [loan |-> l, inputs |-> S, dcm |-> FALSE]]
      /\ redemption[r].loan = "NONE" /\ l # "NONE"
  BY VaultAssumption DEF Redeem, IInv, TypeOK
<1>3. redemption'[r].loan = l /\ \A s \in RedemptionId : s # r => redemption'[s] = redemption[s]
  BY <1>2
<1>4. /\ Redeemed(l)'
      /\ \A m \in Loan : m # l => Redeemed(m)' = Redeemed(m)
  BY <1>2, <1>3, VaultAssumption DEF Redeemed
<1>5. \A m \in Loan : AbstractState'[m] = AbstractState[m]
  BY <1>1 DEF AbstractState, StateOf, Filed
<1>6. \A m \in Loan : m # l => AbstractReleased'[m] = AbstractReleased[m] BY <1>1, <1>4, SameReleased DEF Filed
<1>7. AbstractState[l] = "free" BY <1>1, AbstractTables
<1>8. CASE ~WellFiled(l)
  <2>1. AbstractReleased[l] = "none" BY <1>8, ReleasedTables
  <2>2. AbstractReleased'[l] = "none" BY <1>8, ReleasedWillBe DEF ReleasedPath, Filed
  <2> QED BY <1>5, <1>6, <2>1, <2>2, OneVault DEF C!vars
<1>9. CASE WellFiled(l)
  <2>1. AbstractReleased'[l] = "redemption" BY <1>4, <1>9, ReleasedWillBe DEF ReleasedPath, Filed
  <2>2. CASE Redeemed(l)
    <3>1. AbstractReleased[l] = "redemption" BY <1>9, <2>2, ReleasedTables
    <3> QED BY <1>5, <1>6, <2>1, <3>1, OneVault DEF C!vars
  <2>3. CASE ~Redeemed(l)
    <3>1. AbstractReleased[l] = "none" BY <1>1, <2>3, Unreleased, Tables
    <3>2. C!Path("free") = "redemption" BY DEF C!Path
    <3> QED BY <1>5, <1>6, <1>7, <2>1, <3>1, <3>2, ReleaseRefines
  <2> QED BY <2>2, <2>3
<1> QED BY <1>8, <1>9

\* Signing a liquidation CET releases the collateral to the liquidators.
LEMMA LiquidatedLoanRefines ==
    ASSUME IInv, IInv', Filed, NEW l \in Loan, HandleLiquidatedLoan(l) PROVE [C!Next]_(C!vars)
<1>0. PICK c : c = LiquidationCet(l) OBVIOUS
<1> DEFINE adapted == cet[l][c].adapted \/ attestation[loan[l].event] # NoOutcome
           signed == adapted /\ cet[l][c].dcm
<1>1. /\ l \in liquidationQueue /\ UNCHANGED <<loan, redemption>>
      /\ cet' = [cet EXCEPT ![l][c].adapted = adapted, ![l][c].signed = signed]
  BY <1>0 DEF HandleLiquidatedLoan, Visit, IInv, SnapshotFits, vaultVars
<1>2. /\ loan[l].status \in {"Defaulted", "Liquidated"} /\ ~cet[l][c].signed
      /\ c \in {"LIQUIDATION", "DEFAULT_LIQUIDATION"} /\ c \in Cet /\ loan[l].status = SignedStatus(c)
  BY <1>0, <1>1, Tables DEF IInv, LiquidationQueueExact, LiquidationCet
<1>3. cet[l][c] \in CetRecord /\ adapted \in BOOLEAN /\ signed \in BOOLEAN /\ TypeOK
  BY <1>2, Facts DEF CetRecord, IInv
<1> HIDE DEF adapted, signed
<1>4. /\ \A m \in Loan, d \in Cet : m # l \/ d # c => cet'[m][d] = cet[m][d]
      /\ cet'[l][c].signed = signed
  BY <1>1, <1>2, <1>3, CetUpdate
<1>5. CASE ~signed
  <2>1. \A m \in Loan, d \in Cet : cet'[m][d].signed = cet[m][d].signed
    BY <1>2, <1>3, <1>4, <1>5, Facts DEF CetRecord
  <2> QED BY <1>1, <2>1, QuietStep
<1>6. CASE signed /\ ~WellFiled(l)
  <2>1. \A m \in Loan : Redeemed(m)' = Redeemed(m) BY <1>1 DEF Redeemed
  <2> QED BY <1>1, <1>4, <1>6, <2>1, Unpromised
<1>7. CASE signed /\ WellFiled(l)
  <2>1. \A m \in Loan : AbstractState'[m] = AbstractState[m] BY <1>1, SameState DEF Filed
  <2>2. \A m \in Loan : Redeemed(m)' = Redeemed(m) BY <1>1 DEF Redeemed
  <2>3. \A m \in Loan : m # l => AbstractReleased'[m] = AbstractReleased[m] BY <1>4, <2>2, SameReleased DEF Filed
  <2>4. ~Redeemed(l) BY <1>2 DEF IInv, Covered
  <2>5. \A d \in Cet : ~cet[l][d].signed
    <3>1. ASSUME NEW d \in Cet, cet[l][d].signed PROVE FALSE
      <4>1. loan[l].status = SignedStatus(d) BY <3>1, Facts DEF CetFits
      <4>2. d = c BY <1>2, <4>1, Tables
      <4> QED BY <1>2, <3>1, <4>2
    <3> QED BY <3>1
  <2>6. AbstractReleased[l] = "none" BY <2>4, <2>5, ReleasedTables
  <2>7. ~cet'[l]["REPAYMENT"].signed BY <1>2, <1>4, <2>5, Tables
  <2>8. AbstractReleased'[l] = "liquidation"
    <3>1. ReleasedPath(l)' = "liquidation"
      BY <1>2, <1>4, <1>7, <2>2, <2>4, <2>7 DEF ReleasedPath, Filed
    <3> QED BY <3>1, ReleasedWillBe
  <2>9. AbstractState[l] = "seized" /\ C!Path("seized") = "liquidation" BY <1>2, <1>7, AbstractTables DEF C!Path
  <2> QED BY <2>1, <2>3, <2>6, <2>8, <2>9, ReleaseRefines
<1> QED BY <1>5, <1>6, <1>7

\* Closing a repaid loan releases its collateral to the borrower.
LEMMA RepaymentRefines ==
    ASSUME IInv, IInv', Filed, NEW l \in Loan, HandleRepayment(l) PROVE [C!Next]_(C!vars)
<1> DEFINE adapted == cet[l]["REPAYMENT"].adapted \/ attestation[loan[l].event] # NoOutcome
<1>1. loan[l].status = "Repaid" /\ UNCHANGED redemption /\ TypeOK /\ "REPAYMENT" \in Cet
  BY DEF HandleRepayment, Visit, IInv, SnapshotFits, vaultVars, Cet
<1>2. CASE ~adapted
  <2>1. UNCHANGED <<cet, loan>> BY <1>2 DEF HandleRepayment
  <2> QED BY <1>1, <2>1, QuietStep
<1>3. CASE adapted
  <2>1. /\ cet' = [cet EXCEPT ![l]["REPAYMENT"].adapted = TRUE, ![l]["REPAYMENT"].signed = TRUE]
        /\ loan' = [loan EXCEPT ![l].status = "Closed"]
    BY <1>3 DEF HandleRepayment
  <2>2. /\ \A m \in Loan, d \in Cet : m # l \/ d # "REPAYMENT" => cet'[m][d] = cet[m][d]
        /\ cet'[l]["REPAYMENT"].signed = TRUE
    BY <1>1, <2>1, CetUpdate
  <2>3. loan'[l].status = "Closed" /\ \A m \in Loan : m # l => loan'[m] = loan[m]
    BY <2>1 DEF IInv, TypeOK, LoanRecord
  <2>4. \A m \in Loan : AbstractState'[m] = AbstractState[m]
    BY <1>1, <2>3 DEF AbstractState, StateOf, Filed
  <2>5. \A m \in Loan : Redeemed(m)' = Redeemed(m) BY <1>1 DEF Redeemed
  <2>6. \A m \in Loan : m # l => AbstractReleased'[m] = AbstractReleased[m] BY <2>2, <2>5, SameReleased DEF Filed
  <2>7. ~Redeemed(l) BY <1>1 DEF IInv, Covered
  <2>8. AbstractReleased[l] = "none"
    <3>1. \A d \in Cet : loan[l].status # SignedStatus(d) BY <1>1, Tables
    <3> QED BY <2>7, <3>1, Unreleased
  <2>9. CASE WellFiled(l)
    <3>1. ReleasedPath(l)' = "repayment" BY <2>2, <2>5, <2>7, <2>9 DEF ReleasedPath, Filed
    <3>2. AbstractReleased'[l] = "repayment" BY <3>1, ReleasedWillBe
    <3>3. AbstractState[l] = "repaid" /\ C!Path("repaid") = "repayment" BY <1>1, <2>9, AbstractTables DEF C!Path
    <3> QED BY <2>4, <2>6, <2>8, <3>2, <3>3, ReleaseRefines
  <2>10. CASE ~WellFiled(l) BY <2>2, <2>3, <2>5, <2>10, Unpromised
  <2> QED BY <2>9, <2>10
<1> QED BY <1>2, <1>3
\* Steps that file no transaction anew leave alone which vaults are well filed.
LEMMA KeepsFiled ==
    ASSUME IInv, \A m \in Loan : loan'[m].deposits = loan[m].deposits,
           \A t \in Tx : depositLog[t].vault # "NONE" => depositLog'[t].vault = depositLog[t].vault
    PROVE  Filed
  BY FiledStep DEF Filed

\* What SubmitCets makes of the deposits of a vault concerns no abstract state: the loan is not
\* disbursed, and nothing is released.
LEMMA SubmitCetsRefines ==
    ASSUME IInv, IInv', NEW l \in Loan, NEW T \in SUBSET Tx, NEW lp \in 1..MaxPrice, SubmitCets(l, T, lp)
    PROVE  UNCHANGED C!vars
<1>1. /\ \A m \in Loan : m # l => loan'[m] = loan[m]
      /\ loan[l].status = "Requested" /\ loan'[l].status = "Authorized" /\ UNCHANGED redemption
  BY DEF SubmitCets, IInv, TypeOK, LoanRecord
<1>2. \A t \in Tx : depositLog[t].vault # "NONE" => depositLog'[t].vault = depositLog[t].vault
  BY DEF SubmitCets, IInv, VaultsFit, TypeOK, DepositLog
<1>3. \A m \in Loan : m # l => WellFiled(m)' = WellFiled(m) BY <1>1, <1>2, FiledStep
<1>4. \A m \in Loan : Redeemed(m)' = Redeemed(m) BY <1>1 DEF Redeemed
<1>5. PICK tx, p, d, inputs : UpdateDLCMeta(l, tx, p, d, inputs) BY DEF SubmitCets
<1>6. \A c \in Cet : ~cet'[l][c].signed /\ ~cet[l][c].signed
  <2>1. \A c \in Cet : loan[l].status # SignedStatus(c) BY <1>1, Tables
  <2>2. \A c \in Cet : ~cet[l][c].signed BY <2>1, Facts DEF CetFits
  <2>3. \A c \in Cet : cet'[l][c].signed = FALSE BY <1>5 DEF UpdateDLCMeta, NoCet, IInv, TypeOK
  <2> QED BY <2>2, <2>3
<1>7. \A m \in Loan : m # l => cet'[m] = cet[m] BY <1>5 DEF UpdateDLCMeta, IInv, TypeOK
<1>8. ~Redeemed(l) BY <1>1, VaultAssumption DEF IInv, VaultsFit, Redeemed
<1>9. AbstractState[l] = "free" /\ AbstractReleased[l] = "none"
  BY <1>1, <1>6, <1>8, AbstractTables, ReleasedTables
<1>10. AbstractState'[l] = "free" BY <1>1 DEF AbstractState, StateOf
<1>11. AbstractReleased'[l] = "none"
  <2>1. ReleasedPath(l)' = "none" BY <1>4, <1>6, <1>8 DEF ReleasedPath, Cet
  <2> QED BY <2>1, ReleasedWillBe
<1>12. \A m \in Loan : m # l => AbstractState'[m] = AbstractState[m] BY <1>1, <1>3, SameState
<1>13. \A m \in Loan : m # l => AbstractReleased'[m] = AbstractReleased[m]
  BY <1>3, <1>4, <1>7, SameReleased
<1> QED BY <1>9, <1>10, <1>11, <1>12, <1>13, OneVault DEF C!vars

\* The other steps file no transaction anew.
LEMMA NextKeepsFiled ==
    ASSUME IInv, [Next]_vars, \A l \in Loan, T \in SUBSET Tx, lp \in 1..MaxPrice : ~SubmitCets(l, T, lp)
    PROVE  Filed
<1> USE DEF loanVars, vaultVars
<1>1. ASSUME NEW e \in EventId, HandleNonce(e) PROVE Filed BY <1>1, KeepsFiled DEF HandleNonce
<1>2. ASSUME NEW l \in Loan, NEW e \in EventId, Apply(l, e) PROVE Filed
  <2>1. loan[l].deposits = {} BY <1>2, Facts DEF Apply, LoanFits
  <2>2. loan'[l].deposits = {} /\ \A m \in Loan : m # l => loan'[m] = loan[m] /\ UNCHANGED depositLog
    BY <1>2 DEF Apply, NoLoan, IInv, TypeOK
  <2>3. UNCHANGED depositLog BY <1>2 DEF Apply
  <2> QED BY <2>1, <2>2, <2>3, KeepsFiled
<1>3. ASSUME NEW t \in Tx, NEW l \in Loan, SubmitDepositTransaction(t, l) PROVE Filed
  <2>1. \A u \in Tx : depositLog[u].vault # "NONE" => depositLog'[u].vault = depositLog[u].vault
    BY <1>3 DEF SubmitDepositTransaction, IInv, TypeOK, DepositLog, VaultsFit
  <2> QED BY <1>3, <2>1, KeepsFiled DEF SubmitDepositTransaction
<1>4. ASSUME NEW r \in RedemptionId, NEW l \in Loan, NEW S \in SUBSET Output, Redeem(r, l, S) PROVE Filed
  <2>1. \A u \in Tx : depositLog'[u].vault = depositLog[u].vault
    BY <1>4 DEF Redeem, SetDepositStatus, IInv, TypeOK, DepositLog
  <2>2. \A m \in Loan : loan'[m].deposits = loan[m].deposits BY <1>4 DEF Redeem, IInv, TypeOK, LoanRecord
  <2> QED BY <2>1, <2>2, KeepsFiled
<1>5. ASSUME NEW l \in Loan, Repay(l) PROVE Filed
  <2>1. \A m \in Loan : loan'[m].deposits = loan[m].deposits BY <1>5 DEF Repay, IInv, TypeOK, LoanRecord
  <2> QED BY <1>5, <2>1, KeepsFiled DEF Repay
<1>6. CASE Sign
  <2>1. UNCHANGED loan
    BY <1>6 DEF Sign, SignCet, SignRedemption, HandleAttestation
  <2>2. \A u \in Tx : depositLog'[u].vault = depositLog[u].vault
    BY <1>6 DEF Sign, SignCet, SignRedemption, HandleAttestation, SetDepositStatus, IInv, TypeOK, DepositLog
  <2> QED BY <2>1, <2>2, KeepsFiled
<1>7. CASE EndBlocker
  <2>1. UNCHANGED depositLog
    BY <1>7 DEF EndBlocker, StartLoop, HandleApproval, HandleLiquidation, HandleLiquidatedLoan,
       HandleRepayment, NextBlock
  <2>2. \/ UNCHANGED loan
        \/ \E l \in Loan, s \in LoanStatus : loan' = [loan EXCEPT ![l].status = s]
        \/ \E l \in Loan, s \in LoanStatus : \E a : loan' = [loan EXCEPT ![l].status = s, ![l].auth = a]
    <3>1. ASSUME NEW l \in Loan, NEW ok \in BOOLEAN, HandleApproval(l, ok)
          PROVE  \/ UNCHANGED loan
                 \/ \E s \in LoanStatus : \E a : loan' = [loan EXCEPT ![l].status = s, ![l].auth = a]
      <4>1. \/ Reject(l) \/ UNCHANGED loan
            \/ loan' = [loan EXCEPT ![l].status = "Open", ![l].auth = "AUTHORIZED"]
        BY <3>1 DEF HandleApproval
      <4>2. CASE Reject(l)
        <5> DEFINE a == IF loan[l].auth = "NONE" THEN loan[l].auth ELSE "REJECTED"
        <5>1. loan' = [loan EXCEPT ![l].status = "Rejected", ![l].auth = a]
          BY <4>2 DEF Reject, IInv, TypeOK, LoanRecord
        <5> HIDE DEF a
        <5> QED BY <5>1 DEF LoanStatus
      <4> QED BY <4>1, <4>2 DEF LoanStatus
    <3>2. ASSUME NEW l \in Loan, HandleLiquidation(l)
          PROVE  UNCHANGED loan \/ \E s \in LoanStatus : loan' = [loan EXCEPT ![l].status = s]
      BY <3>2 DEF HandleLiquidation, Liquidate, LoanStatus
    <3>3. ASSUME NEW l \in Loan, HandleRepayment(l)
          PROVE  UNCHANGED loan \/ \E s \in LoanStatus : loan' = [loan EXCEPT ![l].status = s]
      BY <3>3 DEF HandleRepayment, LoanStatus
    <3> QED BY <1>7, <3>1, <3>2, <3>3 DEF EndBlocker, StartLoop, HandleLiquidatedLoan, NextBlock
  <2>3. loan \in [Loan -> LoanRecord] BY DEF IInv, TypeOK
  <2>4. ASSUME NEW l \in Loan, NEW s, loan' = [loan EXCEPT ![l].status = s]
        PROVE  \A m \in Loan : loan'[m].deposits = loan[m].deposits
    BY ONLY <2>3, <2>4 DEF LoanRecord
  <2>5. ASSUME NEW l \in Loan, NEW s, NEW a, loan' = [loan EXCEPT ![l].status = s, ![l].auth = a]
        PROVE  \A m \in Loan : loan'[m].deposits = loan[m].deposits
    BY ONLY <2>3, <2>5 DEF LoanRecord
  <2>6. \A m \in Loan : loan'[m].deposits = loan[m].deposits BY <2>2, <2>4, <2>5
  <2> QED BY <2>1, <2>6, KeepsFiled
<1>8. CASE UNCHANGED vars BY <1>8, KeepsFiled DEF vars
<1> QED BY <1>1, <1>2, <1>3, <1>4, <1>5, <1>6, <1>7, <1>8 DEF Next

\* Every step of the loans is a step of the abstract specification or leaves its state alone.
LEMMA NextRefines == ASSUME IInv, [Next]_vars PROVE [C!Next]_(C!vars)
<1> USE DEF loanVars, vaultVars, dlcVars, sigVars, blockVars
<1>0. IInv' BY NextInv
<1>10. ASSUME NEW l \in Loan, NEW T \in SUBSET Tx, NEW lp \in 1..MaxPrice, SubmitCets(l, T, lp)
      PROVE  UNCHANGED C!vars
  BY <1>0, <1>10, SubmitCetsRefines
<1> SUFFICES ASSUME \A l \in Loan, T \in SUBSET Tx, lp \in 1..MaxPrice : ~SubmitCets(l, T, lp)
             PROVE  [C!Next]_(C!vars)
  BY <1>10
<1>11. Filed BY NextKeepsFiled
<1>1. ASSUME NEW e \in EventId, HandleNonce(e) PROVE UNCHANGED C!vars BY <1>1, <1>0, <1>11, QuietStep DEF HandleNonce
<1>2. ASSUME NEW l \in Loan, NEW e \in EventId, Apply(l, e) PROVE UNCHANGED C!vars
  <2>1. /\ \A m \in Loan : m # l => loan'[m].status = loan[m].status
        /\ loan[l].status = "NONE" /\ loan'[l].status = "Requested" /\ UNCHANGED <<cet, redemption>>
    BY <1>2 DEF Apply, IInv, TypeOK, NoLoan
  <2>2. AbstractState'[l] = AbstractState[l] BY <1>11, <2>1 DEF AbstractState, StateOf, Filed
  <2> QED BY <2>1, <2>2, <1>0, <1>11, StatusStep DEF C!vars
<1>4. ASSUME NEW t \in Tx, NEW l \in Loan, SubmitDepositTransaction(t, l) PROVE UNCHANGED C!vars
  BY <1>4, <1>0, <1>11, QuietStep DEF SubmitDepositTransaction
<1>5. ASSUME NEW r \in RedemptionId, NEW l \in Loan, NEW S \in SUBSET Output, Redeem(r, l, S)
      PROVE  [C!Next]_(C!vars)
  BY <1>5, <1>0, <1>11, RedeemRefines
<1>6. ASSUME NEW l \in Loan, Repay(l) PROVE [C!Next]_(C!vars)
  <2>1. /\ loan[l].status = "Open" /\ loan' = [loan EXCEPT ![l].status = "Repaid"]
        /\ UNCHANGED <<cet, redemption>>
    BY <1>6 DEF Repay, Repayable
  <2> QED BY <2>1, <1>0, <1>11, SettleRefines
<1>7. CASE Sign
  <2>1. ASSUME NEW c \in Cet, NEW l \in Loan, SignCet(c, l) PROVE UNCHANGED C!vars
    <3>1. \A m \in Loan, d \in Cet : cet'[m][d].signed = cet[m][d].signed
      <4> DEFINE new == [cet[l][c] EXCEPT !.dcm = TRUE]
      <4>1. cet \in [Loan -> [Cet -> CetRecord]] BY DEF IInv, TypeOK
      <4>2. cet' = [cet EXCEPT ![l] = [cet[l] EXCEPT ![c] = new]] BY <2>1 DEF SignCet
      <4>3. new.signed = cet[l][c].signed BY <4>1 DEF CetRecord
      <4> HIDE DEF new
      <4> QED BY <4>1, <4>2, <4>3
    <3> QED BY <2>1, <3>1, <1>0, <1>11, QuietStep DEF SignCet
  <2>2. ASSUME NEW r \in RedemptionId, SignRedemption(r) PROVE UNCHANGED C!vars
    <3>1. \A s \in RedemptionId : redemption'[s].loan = redemption[s].loan
      BY <2>2 DEF SignRedemption, IInv, TypeOK, Redemption
    <3> QED BY <2>2, <3>1, <1>0, <1>11, QuietStep DEF SignRedemption
  <2>3. ASSUME NEW e \in EventId, NEW o \in Outcome, HandleAttestation(e, o) PROVE UNCHANGED C!vars
    BY <2>3, <1>0, <1>11, QuietStep DEF HandleAttestation
  <2> QED BY <1>7, <2>1, <2>2, <2>3 DEF Sign
<1>8. CASE EndBlocker
  <2>1. ASSUME NEW from, NEW to, StartLoop(from, to) PROVE UNCHANGED C!vars
    BY <2>1, <1>0, <1>11, QuietStep DEF StartLoop
  <2>2. ASSUME NEW l \in Loan, HandleLiquidation(l) PROVE [C!Next]_(C!vars)
    <3>1. loan[l].status = "Open" /\ UNCHANGED <<cet, redemption>>
      BY <2>2 DEF HandleLiquidation, Visit, IInv, SnapshotFits
    <3>2. \/ UNCHANGED loan
          \/ \E s \in {"Defaulted", "Liquidated"} : loan' = [loan EXCEPT ![l].status = s]
      BY <2>2 DEF HandleLiquidation, Liquidate
    <3> QED BY <3>1, <3>2, <1>0, <1>11, SettleRefines, QuietStep
  <2>3. ASSUME NEW p, NextBlock(p) PROVE UNCHANGED C!vars
    BY <2>3, <1>0, <1>11, QuietStep DEF NextBlock
  <2> QED BY <1>8, <2>1, <2>2, <2>3, <1>0, <1>11, ApprovalRefines, LiquidatedLoanRefines, RepaymentRefines DEF EndBlocker
<1>9. CASE UNCHANGED vars BY <1>9, <1>0, <1>11, QuietStep DEF vars
<1> QED BY <1>1, <1>2, <1>4, <1>5, <1>6, <1>7, <1>8, <1>9 DEF Next

\* Initially all collateral is free and none is released.
LEMMA InitRefines == Init => C!Init
<1> SUFFICES ASSUME Init PROVE C!Init OBVIOUS
<1>1. \A l \in Loan : ~Redeemed(l) /\ (\A c \in Cet : ~cet[l][c].signed) /\ loan[l].status = "NONE"
  BY VaultAssumption DEF Init, Redeemed, NoRedemption, NoCet, NoLoan
<1>2. \A l \in Loan : AbstractState[l] = "free" /\ AbstractReleased[l] = "none"
  BY <1>1, InitInv, AbstractTables, ReleasedTables
<1> QED BY <1>2, AbstractFunctions DEF C!Init

\* The loans implement Collateral for vaults whose deposits are well filed: such a vault is lent
\* against at most once, only while nobody was allowed to take its collateral by a redemption of
\* this loan or another, and it leaves along one path, that of the loan's fate (all of the handlers
\* of x/lending, x/dlc and x/tss above).
THEOREM CollateralSpecHolds == Spec => CollateralSpec
<1>1. IInv /\ [Next]_vars => [C!Next]_(C!vars) BY NextRefines
<1> QED BY Invariant, InitRefines, <1>1, PTL DEF Spec, CollateralSpec, C!Spec
=============================================================================
