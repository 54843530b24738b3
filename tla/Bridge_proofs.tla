---------------------------- MODULE Bridge_proofs ---------------------------
(***************************************************************************)
(* Proofs about the bridge, for every deposit, amount, fee rate and        *)
(* parameter: no output is spent twice, the store implements the life of   *)
(* an output of module UtxoLife, no withdrawal is paid twice, the vouchers *)
(* of both assets are backed by outputs of the vaults, and rewards are     *)
(* earned and recorded.                                                    *)
(***************************************************************************)
EXTENDS Bridge, SequenceTheorems, FiniteSetTheorems, WellFoundedInduction, TLAPS

USE DEF ValidParams, UTXOsByTxHash, UnlockUTXO

Status == {"PENDING", "BROADCASTED", "CONFIRMED"}
SigningRecord(I, X, Y) == [status : Status, ins : I, outs : X, edict : Y]

\* The signing requests are a sequence of records.
SigningIsSeq == \E I, X, Y : signing \in Seq(SigningRecord(I, X, Y))

\* Every output that was ever known belongs to a transaction of the mint history.
KnownIsMinted == \A o \in DOMAIN utxo \union Spent : o[1] \in minted /\ o[1] \in Transactions

\* What is not locked is in the owner indexes.
UnlockedIsIndexed == \A o \in DOMAIN utxo : o \in index \/ utxo[o].locked = TRUE

IInv ==
    /\ SigningIsSeq /\ index \subseteq DOMAIN utxo
    /\ KnownIsMinted /\ UnlockedIsIndexed /\ NoDoubleSpend

\* An element is appended to a sequence.
LEMMA Appended ==
    ASSUME NEW S, NEW T, NEW s \in Seq(S), NEW e \in T, S \subseteq T
    PROVE  /\ Append(s, e) \in Seq(T) /\ Len(Append(s, e)) = Len(s) + 1 /\ Len(s) \in Nat
           /\ DOMAIN s = 1..Len(s) /\ DOMAIN Append(s, e) = 1..(Len(s) + 1)
           /\ \A i \in 1..Len(s) : Append(s, e)[i] = s[i]
           /\ Append(s, e)[Len(s) + 1] = e
<1>1. s \in Seq(T) OBVIOUS
<1> QED BY <1>1

\* The outpoints of vaults that the next transaction creates.
Created(outs) == {<<NextTx, i>> : i \in ChangeOuts(outs)}

\* What a transaction changes: it is appended, its inputs leave the store and its outputs to
\* vaults, which were never known, enter it (SpendUTXOs, lockChangeUTXOs, SetSigningRequest).
LEMMA Issued ==
    ASSUME IInv, NEW ins, NEW outs, NEW edict, ins \subseteq index, IssueTransaction(ins, outs, edict)
    PROVE  /\ SigningIsSeq' /\ Len(signing) \in Nat /\ Len(signing') = Len(signing) + 1
           /\ DOMAIN signing = 1..Len(signing) /\ DOMAIN signing' = 1..(Len(signing) + 1)
           /\ \A i \in 1..Len(signing) : signing'[i] = signing[i]
           /\ signing'[Len(signing) + 1].status = "PENDING" /\ signing'[Len(signing) + 1].ins = ins
           /\ signing'[Len(signing) + 1].outs = outs /\ signing'[Len(signing) + 1].edict = edict
           /\ NextTx \in Nat /\ NextTx \notin Transactions /\ Transactions \subseteq Transactions'
           /\ NextTx \in Transactions'
           /\ \A o \in Created(outs) : o[1] = NextTx
           /\ Created(outs) \intersect (DOMAIN utxo \union Spent) = {}
           /\ DOMAIN utxo' = (DOMAIN utxo \ ins) \union Created(outs) /\ index' = index \ ins
           /\ \A o \in DOMAIN utxo \ ins : utxo'[o] = utxo[o]
           /\ \A o \in Created(outs) : utxo'[o] = ChangeUTXO(outs[o[2]])
           /\ minted \subseteq minted' /\ (ChangeOuts(outs) # {} => NextTx \in minted')
<1> DEFINE e == SigningRequest(ins, outs, edict)
           C == Created(outs)
           n == Len(signing)
<1>1. PICK I, X, Y : signing \in Seq(SigningRecord(I, X, Y)) BY DEF IInv, SigningIsSeq
<1>2. signing' = Append(signing, e) BY DEF IssueTransaction
<1>3. e \in SigningRecord(I \union {ins}, X \union {outs}, Y \union {edict})
  BY DEF SigningRecord, Status, SigningRequest
<1>4. SigningRecord(I, X, Y) \subseteq SigningRecord(I \union {ins}, X \union {outs}, Y \union {edict})
  BY DEF SigningRecord
<1> HIDE DEF e
<1> DEFINE S == SigningRecord(I, X, Y)
           T == SigningRecord(I \union {ins}, X \union {outs}, Y \union {edict})
<1>4a. signing \in Seq(S) /\ e \in T /\ S \subseteq T BY <1>1, <1>3, <1>4
<1> HIDE DEF S, T
<1>4b. /\ Append(signing, e) \in Seq(T) /\ Len(Append(signing, e)) = Len(signing) + 1 /\ Len(signing) \in Nat
      /\ DOMAIN signing = 1..Len(signing) /\ DOMAIN Append(signing, e) = 1..(Len(signing) + 1)
      /\ \A i \in 1..Len(signing) : Append(signing, e)[i] = signing[i]
      /\ Append(signing, e)[Len(signing) + 1] = e
  BY <1>4a, Appended
<1>5. /\ signing' \in Seq(T)
      /\ Len(signing') = n + 1 /\ n \in Nat /\ DOMAIN signing = 1..n /\ DOMAIN signing' = 1..(n + 1)
      /\ \A i \in 1..n : signing'[i] = signing[i]
      /\ signing'[n + 1] = e
  BY <1>2, <1>4b
<1>6. SigningIsSeq' BY <1>5 DEF SigningIsSeq, SigningRecord, Status, T
<1>9. NextTx \in Nat /\ NextTx' = NextTx + 1 /\ NextTx \notin Transactions /\ Transactions \subseteq Transactions'
      /\ NextTx \in Transactions'
  BY <1>5, BridgeAssumption DEF NextTx, Txid, Transactions
<1>10. \A o \in C : o[1] = NextTx BY DEF Created
<1>11. C \intersect (DOMAIN utxo \union Spent) = {}
  <2> HIDE DEF C
  <2> QED BY <1>9, <1>10 DEF IInv, KnownIsMinted
<1>12. /\ DOMAIN utxo' = (DOMAIN utxo \ ins) \union C
       /\ index' = index \ ins
       /\ \A o \in DOMAIN utxo \ ins : utxo'[o] = utxo[o]
       /\ \A o \in C : utxo'[o] = ChangeUTXO(outs[o[2]])
       /\ minted' = MarkMinted(NextTx, outs)
  <2>1. DOMAIN utxo' = (DOMAIN utxo \ ins) \union C /\ minted' = MarkMinted(NextTx, outs)
    BY DEF IssueTransaction, SpendUTXOs, Created
  <2>2. index' = index \ ins BY DEF IssueTransaction, SpendUTXOs, IInv
  <2>3. ASSUME NEW o \in DOMAIN utxo \ ins PROVE utxo'[o] = utxo[o]
    <3>1. o[1] # NextTx BY <1>9 DEF IInv, KnownIsMinted
    <3> QED BY <3>1 DEF IssueTransaction, SpendUTXOs
  <2>4. ASSUME NEW o \in C PROVE utxo'[o] = ChangeUTXO(outs[o[2]])
    BY <1>10 DEF IssueTransaction, Created
  <2> QED BY <2>1, <2>2, <2>3, <2>4
<1>13. minted \subseteq minted' /\ (ChangeOuts(outs) # {} => NextTx \in minted')
  BY <1>12 DEF MarkMinted
<1>14. e.status = "PENDING" /\ e.ins = ins /\ e.outs = outs /\ e.edict = edict BY DEF SigningRequest, e
<1> HIDE DEF C
<1> QED BY <1>5, <1>6, <1>9, <1>10, <1>11, <1>12, <1>13, <1>14 DEF C

\* A transaction that spends indexed outputs keeps the invariant and is a step of the life of
\* outputs.
LEMMA IssueStep ==
    ASSUME IInv, NEW ins, NEW outs, NEW edict, ins \subseteq index, IssueTransaction(ins, outs, edict)
    PROVE  IInv' /\ Life!Spend
<1> DEFINE C == Created(outs)
           n == Len(signing)
<1>5. /\ SigningIsSeq' /\ n \in Nat /\ DOMAIN signing = 1..n /\ DOMAIN signing' = 1..(n + 1)
      /\ \A i \in 1..n : signing'[i] = signing[i]
      /\ signing'[n + 1].ins = ins
      /\ NextTx \in Nat /\ NextTx \notin Transactions /\ Transactions \subseteq Transactions'
      /\ NextTx \in Transactions'
  BY Issued
<1>12. /\ \A o \in C : o[1] = NextTx
       /\ C \intersect (DOMAIN utxo \union Spent) = {}
       /\ DOMAIN utxo' = (DOMAIN utxo \ ins) \union C /\ index' = index \ ins
       /\ \A o \in DOMAIN utxo \ ins : utxo'[o] = utxo[o]
       /\ \A o \in C : utxo'[o] = ChangeUTXO(outs[o[2]])
       /\ minted \subseteq minted' /\ (ChangeOuts(outs) # {} => NextTx \in minted')
  <2>1. \A o \in C : o[1] = NextTx BY Issued
  <2>2. C \intersect (DOMAIN utxo \union Spent) = {} BY Issued
  <2>3. DOMAIN utxo' = (DOMAIN utxo \ ins) \union C /\ index' = index \ ins BY Issued
  <2>4. \A o \in DOMAIN utxo \ ins : utxo'[o] = utxo[o] BY Issued
  <2>5. \A o \in C : utxo'[o] = ChangeUTXO(outs[o[2]]) BY Issued
  <2>6. minted \subseteq minted' /\ (ChangeOuts(outs) # {} => NextTx \in minted') BY Issued
  <2> QED BY <2>1, <2>2, <2>3, <2>4, <2>5, <2>6
<1>13. C # {} => NextTx \in minted' BY <1>12 DEF Created
<1>13a. \A o \in C : utxo'[o].locked = TRUE BY <1>12 DEF ChangeUTXO
<1> HIDE DEF C
<1>8. Spent' = Spent \union ins BY <1>5 DEF Spent
<1>14. KnownIsMinted'
  <2> SUFFICES ASSUME NEW o \in DOMAIN utxo' \union Spent' PROVE o[1] \in minted' /\ o[1] \in Transactions'
    BY DEF KnownIsMinted
  <2>1. CASE o \in C BY <1>5, <1>12, <1>13, <2>1
  <2>2. CASE o \notin C
    <3>1. o \in DOMAIN utxo \union Spent BY <1>8, <1>12, <2>2 DEF IInv
    <3> QED BY <1>5, <1>12, <3>1 DEF IInv, KnownIsMinted
  <2> QED BY <2>1, <2>2
<1>15. UnlockedIsIndexed' BY <1>12, <1>13a DEF IInv, UnlockedIsIndexed
<1>16. index' \subseteq DOMAIN utxo' BY <1>12 DEF IInv
<1>17. NoDoubleSpend'
  <2>1. \A s \in 1..n : signing[s].ins \subseteq Spent BY <1>5 DEF Spent
  <2>2. \A s \in 1..n : signing[s].ins \intersect DOMAIN utxo = {} BY <1>5 DEF IInv, NoDoubleSpend
  <2>3. ins \subseteq DOMAIN utxo BY DEF IInv
  <2>4. ASSUME NEW s \in DOMAIN signing' PROVE signing'[s].ins \intersect DOMAIN utxo' = {}
    <3>1. CASE s \in 1..n BY <1>5, <1>12, <2>1, <2>2, <3>1
    <3>2. CASE s = n + 1
      <4>1. ins \intersect C = {} BY <1>12, <2>3
      <4> QED BY <1>5, <1>12, <3>2, <4>1
    <3> QED BY <1>5, <3>1, <3>2
  <2>5. ASSUME NEW s \in DOMAIN signing', NEW r \in DOMAIN signing' \ {s}
        PROVE  signing'[r].ins \intersect signing'[s].ins = {}
    <3>1. CASE s \in 1..n /\ r \in 1..n BY <1>5, <3>1 DEF IInv, NoDoubleSpend
    <3>2. CASE s = n + 1 /\ r \in 1..n BY <1>5, <2>2, <2>3, <3>2
    <3>3. CASE s \in 1..n /\ r = n + 1 BY <1>5, <2>2, <2>3, <3>3
    <3> QED BY <1>5, <3>1, <3>2, <3>3
  <2> QED BY <2>4, <2>5 DEF NoDoubleSpend
<1>18. Life!Spend
  <2>1. index' \subseteq index /\ Spent' = Spent \union (index \ index') BY <1>8, <1>12
  <2>2. (DOMAIN utxo' \ index') = (DOMAIN utxo \ index) \union C
    BY <1>12 DEF IInv
  <2>3. C \intersect (index \union (DOMAIN utxo \ index) \union Spent) = {} BY <1>12 DEF IInv
  <2> QED BY <2>1, <2>2, <2>3 DEF Life!Spend, Life!Known
<1> QED BY <1>5, <1>14, <1>15, <1>16, <1>17, <1>18 DEF IInv

\* A report of a deposit keeps the invariant and credits outputs that were never known
\* (existsInHistory, saveUTXO).
LEMMA DepositStep ==
    ASSUME IInv, NEW t \in Transactions, SubmitDepositTransaction(t)
    PROVE  IInv' /\ Life!Credit
<1>1. t \notin minted /\ minted' = minted \union {t} /\ signing' = signing BY DEF SubmitDepositTransaction
<1>2. PICK outs, S : SaveUTXOs(t, outs, S)
  BY DEF SubmitDepositTransaction, MintBTC, MintRunes
<1> DEFINE N == {<<t, i>> : i \in S}
<1>3. \A o \in N : o[1] = t OBVIOUS
<1>4. N \intersect (DOMAIN utxo \union Spent) = {} BY <1>1, <1>3 DEF IInv, KnownIsMinted
<1>5. DOMAIN utxo' = DOMAIN utxo \union N /\ index' = index \union N BY <1>2 DEF SaveUTXOs
<1>6. ASSUME NEW o \in DOMAIN utxo PROVE utxo'[o] = utxo[o]
  <2>1. o[1] # t BY <1>1 DEF IInv, KnownIsMinted
  <2> QED BY <1>2, <2>1 DEF SaveUTXOs
<1> HIDE DEF N
<1>7. Spent' = Spent /\ Transactions' = Transactions BY <1>1 DEF Spent, Transactions, NextTx, Txid
<1>8. SigningIsSeq' BY <1>1 DEF IInv, SigningIsSeq, SigningRecord, Status
<1>9. index' \subseteq DOMAIN utxo' BY <1>5 DEF IInv
<1>10. KnownIsMinted' BY <1>1, <1>3, <1>5, <1>7 DEF IInv, KnownIsMinted
<1>11. UnlockedIsIndexed' BY <1>5, <1>6 DEF IInv, UnlockedIsIndexed
<1>12. NoDoubleSpend'
  <2>1. \A s \in DOMAIN signing : signing[s].ins \intersect N = {} BY <1>4 DEF Spent
  <2> QED BY <1>1, <1>5, <2>1 DEF IInv, NoDoubleSpend
<1>13. Life!Credit
  <2>1. (DOMAIN utxo' \ index') = (DOMAIN utxo \ index) BY <1>4, <1>5
  <2>2. index \subseteq index' /\ (index' \ index) \intersect (index \union (DOMAIN utxo \ index) \union Spent) = {}
    BY <1>4, <1>5 DEF IInv
  <2> QED BY <1>7, <2>1, <2>2 DEF Life!Credit, Life!Known
<1> QED BY <1>8, <1>9, <1>10, <1>11, <1>12, <1>13 DEF IInv

\* A change of the status of one signing request leaves what it spends alone.
LEMMA StatusStep ==
    ASSUME IInv, NEW s \in DOMAIN signing, NEW v \in Status, signing' = [signing EXCEPT ![s].status = v]
    PROVE  /\ SigningIsSeq' /\ Len(signing') = Len(signing) /\ DOMAIN signing' = DOMAIN signing
           /\ \A r \in DOMAIN signing : signing'[r].ins = signing[r].ins
           /\ Spent' = Spent /\ Transactions' = Transactions
<1>1. PICK I, X, Y : signing \in Seq(SigningRecord(I, X, Y)) BY DEF IInv, SigningIsSeq
<1> DEFINE S == SigningRecord(I, X, Y)
<1>2. \A r \in DOMAIN signing : signing[r] \in S
  <2> HIDE DEF S
  <2>1. signing \in Seq(S) BY <1>1 DEF S
  <2> QED BY <2>1
<1>3. [signing[s] EXCEPT !.status = v] \in S /\ [signing[s] EXCEPT !.status = v].ins = signing[s].ins
  BY <1>2 DEF SigningRecord
<1> DEFINE w == [signing[s] EXCEPT !.status = v]
<1>4. signing' = [signing EXCEPT ![s] = w] OBVIOUS
<1> HIDE DEF S, w
<1>5. signing \in Seq(S) /\ w \in S /\ w.ins = signing[s].ins BY <1>1, <1>3 DEF S, w
<1>6. /\ signing' \in Seq(S) /\ Len(signing') = Len(signing) /\ DOMAIN signing' = DOMAIN signing
      /\ \A r \in DOMAIN signing : signing'[r] = IF r = s THEN w ELSE signing[r]
  BY <1>4, <1>5
<1>7. SigningIsSeq' BY <1>6 DEF SigningIsSeq, SigningRecord, Status, S
<1>8. \A r \in DOMAIN signing : signing'[r].ins = signing[r].ins BY <1>5, <1>6
<1>9. Spent' = Spent BY <1>6, <1>8 DEF Spent
<1>10. Transactions' = Transactions BY <1>6 DEF Transactions, NextTx, Txid
<1> QED BY <1>6, <1>7, <1>8, <1>9, <1>10

\* Signatures change no output.
LEMMA SignaturesStep ==
    ASSUME IInv, NEW s \in DOMAIN signing, SubmitSignatures(s)
    PROVE  IInv' /\ UNCHANGED Life!life
<1>1. "BROADCASTED" \in Status BY DEF Status
<1>2. signing' = [signing EXCEPT ![s].status = "BROADCASTED"] /\ UNCHANGED <<utxo, index, minted>>
  BY DEF SubmitSignatures
<1>3. /\ SigningIsSeq' /\ DOMAIN signing' = DOMAIN signing
      /\ \A r \in DOMAIN signing : signing'[r].ins = signing[r].ins
      /\ Spent' = Spent /\ Transactions' = Transactions
  BY <1>1, <1>2, StatusStep
<1>4. KnownIsMinted' /\ UnlockedIsIndexed' BY <1>2, <1>3 DEF IInv, KnownIsMinted, UnlockedIsIndexed
<1>5. NoDoubleSpend' BY <1>2, <1>3 DEF IInv, NoDoubleSpend
<1> QED BY <1>2, <1>3, <1>4, <1>5 DEF IInv, Life!life

\* A confirmation unlocks the outputs of its transaction (unlockChangeUTXOs).
LEMMA ConfirmStep ==
    ASSUME IInv, NEW s \in DOMAIN signing, SubmitWithdrawTransaction(s)
    PROVE  IInv' /\ Life!Confirm
<1>1. "CONFIRMED" \in Status BY DEF Status
<1>2. signing' = [signing EXCEPT ![s].status = "CONFIRMED"] /\ minted' = minted
  BY DEF SubmitWithdrawTransaction, ConfirmTransaction
<1>3. /\ SigningIsSeq' /\ DOMAIN signing' = DOMAIN signing
      /\ \A r \in DOMAIN signing : signing'[r].ins = signing[r].ins
      /\ Spent' = Spent /\ Transactions' = Transactions
  BY <1>1, <1>2, StatusStep
<1> DEFINE N == {o \in DOMAIN utxo : o[1] = Txid(s)}
<1>4. DOMAIN utxo' = DOMAIN utxo /\ index' = index \union N BY DEF SubmitWithdrawTransaction, ConfirmTransaction
<1>5. \A o \in DOMAIN utxo \ N : utxo'[o] = utxo[o] BY DEF SubmitWithdrawTransaction, ConfirmTransaction
<1>6. KnownIsMinted' BY <1>2, <1>3, <1>4 DEF IInv, KnownIsMinted
<1>7. UnlockedIsIndexed' BY <1>4, <1>5 DEF IInv, UnlockedIsIndexed
<1>8. NoDoubleSpend' BY <1>3, <1>4 DEF IInv, NoDoubleSpend
<1>9. index' \subseteq DOMAIN utxo' BY <1>4 DEF IInv
<1>10. Life!Confirm BY <1>3, <1>4 DEF IInv, Life!Confirm
<1> QED BY <1>3, <1>6, <1>7, <1>8, <1>9, <1>10 DEF IInv

----------------------------------------------------------------------------
(* Every builder selects from the owner indexes. *)

\* UTXOIterator and AddPaymentUTXOsToTx.
LEMMA PaymentSubset == ASSUME NEW S, NEW n PROVE Payment(S, n) \subseteq S
BY DEF Payment, Largest

\* A transaction that is built pays with unlocked UTXOs (BuildUnsignedTransaction).
LEMMA BuiltFromIndex ==
    ASSUME NEW base, NEW outs, NEW v, BuildUnsignedTransaction(base, outs, v).ok
    PROVE  BuildUnsignedTransaction(base, outs, v).selected \subseteq index
<1>1. Unlocked("BTC", v) \subseteq index BY DEF Unlocked
<1>2. ~Failed.ok BY DEF Failed
<1>3. \E n : BuildUnsignedTransaction(base, outs, v).selected = Payment(Unlocked("BTC", v), n)
  BY <1>2, Zenon DEF BuildUnsignedTransaction
<1> QED BY <1>1, <1>3, PaymentSubset

\* GetTargetRunesUTXOs
LEMMA RunesFromIndex == ASSUME NEW v, NEW amount PROVE TargetRunesUTXOs(v, amount) \subseteq index
<1>1. Unlocked("RUNES", v) \subseteq index BY DEF Unlocked
<1>2. ASSUME NEW S, NEW n PROVE Largest(S, n, "runes") \subseteq S BY DEF Largest
<1> QED BY <1>1, <1>2 DEF TargetRunesUTXOs

\* A transfer or consolidation of indexed UTXOs spends indexed UTXOs only
\* (BuildTransferAllBtcPsbt, BuildTransferAllRunesPsbt).
LEMMA TransferFromIndex ==
    ASSUME NEW asset, NEW S, NEW source, NEW dest, S \subseteq index, TransferTx(asset, S, source, dest).ok
    PROVE  S \union TransferTx(asset, S, source, dest).selected \subseteq index
<1>1. CASE asset = "BTC"
  <2>1. TransferTx(asset, S, source, dest) = BuildTransferAllBtc(S) BY <1>1 DEF TransferTx
  <2>2. BuildTransferAllBtc(S).ok => BuildTransferAllBtc(S).selected = S
    <3>1. ~Failed.ok BY DEF Failed
    <3> QED BY <3>1, Zenon DEF BuildTransferAllBtc
  <2> QED BY <2>1, <2>2
<1>2. CASE asset # "BTC"
  <2>1. TransferTx(asset, S, source, dest) = BuildUnsignedTransaction(S, TransferAllRunesOuts(S, dest), source)
    BY <1>2 DEF TransferTx, BuildTransferAllRunes
  <2> QED BY <2>1, BuiltFromIndex
<1> QED BY <1>1, <1>2

\* So does every step of Transfer.
LEMMA TransferStep ==
    ASSUME IInv, NEW asset, NEW S, NEW source, NEW dest, S \subseteq index, Transfer(asset, S, source, dest)
    PROVE  IInv' /\ Life!Spend
<1>1. TransferTx(asset, S, source, dest).ok BY DEF Transfer
<1>2. S \union TransferTx(asset, S, source, dest).selected \subseteq index BY <1>1, TransferFromIndex
<1>3. IssueTransaction(S \union TransferTx(asset, S, source, dest).selected,
                       TransferOuts(asset, S, dest, TransferTx(asset, S, source, dest)), NoEdict)
  BY DEF Transfer
<1> QED BY <1>2, <1>3, IssueStep

\* A step that leaves the ledger alone.
LEMMA QuietStep == ASSUME IInv, UNCHANGED ledger PROVE IInv' /\ UNCHANGED Life!life
<1>1. UNCHANGED <<utxo, index, minted, signing>> BY DEF ledger
<1> QED BY <1>1 DEF IInv, SigningIsSeq, SigningRecord, Status, KnownIsMinted, UnlockedIsIndexed, NoDoubleSpend,
           Spent, Transactions, NextTx, Txid, Life!life

\* The invariant holds initially, and the store is empty.
LEMMA InitInv == Init => IInv /\ Life!Init
<1> SUFFICES ASSUME Init PROVE IInv /\ Life!Init OBVIOUS
<1>1. DOMAIN utxo = {} /\ index = {} /\ minted = {} /\ signing = <<>> BY DEF Init, EmptyFunction
<1>2. DOMAIN signing = {} BY <1>1
<1>3. Spent = {} BY <1>2 DEF Spent
<1>4. SigningIsSeq BY <1>1 DEF SigningIsSeq
<1>5. KnownIsMinted /\ UnlockedIsIndexed /\ NoDoubleSpend
  BY <1>1, <1>2, <1>3 DEF KnownIsMinted, UnlockedIsIndexed, NoDoubleSpend
<1> QED BY <1>1, <1>3, <1>4, <1>5 DEF IInv, Life!Init

\* Every step keeps the invariant and is a step, or a stutter, of the life of outputs.
LEMMA NextInv == ASSUME IInv, [Next]_vars PROVE IInv' /\ [Life!Next]_(Life!life)
<1> DEFINE Goal == IInv' /\ [Life!Next]_(Life!life)
<1>0a. ASSUME IInv' /\ Life!Spend PROVE Goal BY <1>0a DEF Life!Next
<1>0b. ASSUME UNCHANGED ledger PROVE Goal BY <1>0b, QuietStep
<1>1. ASSUME NEW t \in Transactions, SubmitDepositTransaction(t) PROVE Goal BY <1>1, DepositStep DEF Life!Next
<1>2. ASSUME NEW u, NEW a, WithdrawBtc(u, a) \/ IBCReceivePacketCallback(u, a) PROVE Goal
  BY <1>2, <1>0b DEF WithdrawBtc, IBCReceivePacketCallback
<1>3. ASSUME NEW u, NEW a, WithdrawRunes(u, a) PROVE Goal
  <2> DEFINE base == TargetRunesUTXOs(latest, a)
             outs == RunesOuts(u, a, Runes(base) - a)
             tx == BuildUnsignedTransaction(base, outs, latest)
  <2>1. tx.ok /\ IssueTransaction(base \union tx.selected, WithChange(outs, tx, latest), [out |-> Len(outs), amount |-> a])
    BY <1>3 DEF WithdrawRunes
  <2>2. base \union tx.selected \subseteq index BY <2>1, BuiltFromIndex, RunesFromIndex
  <2> HIDE DEF base, outs, tx
  <2> QED BY <2>1, <2>2, IssueStep, <1>0a
<1>4. ASSUME NEW s \in DOMAIN signing, SubmitSignatures(s) PROVE Goal BY <1>4, SignaturesStep
<1>5. ASSUME NEW s \in DOMAIN signing, SubmitWithdrawTransaction(s) PROVE Goal BY <1>5, ConfirmStep DEF Life!Next
<1>6. ASSUME NEW r, SubmitFeeRate(r) PROVE Goal BY <1>6, <1>0b DEF SubmitFeeRate
<1>7. ASSUME NEW p, UpdateParams(p) PROVE Goal BY <1>7, <1>0b DEF UpdateParams
<1>7a. ASSUME NEW p, UpdateIncentiveParams(p) PROVE Goal BY <1>7a, <1>0b DEF UpdateIncentiveParams
<1>8. ASSUME NEW asset, NEW v, NEW th, NEW n, ConsolidateVaults(asset, v, th, n) PROVE Goal
  <2>1. PICK S : S \subseteq Unlocked(asset, v) /\ Transfer(asset, S, v, v) BY <1>8 DEF ConsolidateVaults, UnlockedUpTo, kSubset
  <2>2. S \subseteq index BY <2>1 DEF Unlocked
  <2> QED BY <2>1, <2>2, TransferStep, <1>0a
<1>9. ASSUME NEW asset, NEW v, NEW w, NEW n, TransferVault(asset, v, w, n) PROVE Goal
  <2>1. PICK S : S \subseteq Unlocked(asset, v) /\ Transfer(asset, S, v, w) BY <1>9 DEF TransferVault, TransferChoice, kSubset
  <2>2. S \subseteq index BY <2>1 DEF Unlocked
  <2> QED BY <2>1, <2>2, TransferStep, <1>0a
<1>10. ASSUME NEW asset, NEW v, NEW w, NEW ins \in SUBSET DOMAIN utxo, NEW r, TransferVaultPsbt(asset, v, w, ins, r) PROVE Goal
  <2>1. \A o \in ins : ~utxo[o].locked BY <1>10 DEF TransferVaultPsbt
  <2>2. ins \subseteq index BY <2>1 DEF IInv, UnlockedIsIndexed
  <2>3. \E outs, edict : IssueTransaction(ins, outs, edict) BY <1>10 DEF TransferVaultPsbt
  <2> QED BY <2>2, <2>3, IssueStep, <1>0a
<1>11. ASSUME NEW x, NEW y, EndBlocker(x, y) PROVE Goal
  <2>1. UNCHANGED ledger BY <1>11, Zenon DEF EndBlocker
  <2> QED BY <2>1, <1>0b
<1>12. CASE HandleIBCWithdrawRequest BY <1>12, <1>0b DEF HandleIBCWithdrawRequest
<1>13. CASE HandleBtcWithdrawRequests
  <2>1. CASE UNCHANGED ledger BY <2>1, <1>0b
  <2>2. CASE BatchIsDue(BatchTx) /\ IssueTransaction(BatchTx.selected, WithChange(BatchOuts, BatchTx, latest), NoEdict)
    <3>1. BatchTx.selected \subseteq index BY <2>2, BuiltFromIndex DEF BatchIsDue, BatchTx
    <3> QED BY <2>2, <3>1, IssueStep, <1>0a
  <2> QED BY <1>13, <2>1, <2>2 DEF HandleBtcWithdrawRequests, ledger
<1>14. CASE HandleVaultTransfer
  <2>1. CASE UNCHANGED ledger BY <2>1, <1>0b
  <2>2. CASE ~UNCHANGED ledger
    <3>1. PICK asset, v, S : S \in TransferChoice(asset, v, TargetNum) /\ Transfer(asset, S, v, latest)
      BY <1>14, <2>2 DEF HandleVaultTransfer
    <3>2. S \subseteq index BY <3>1 DEF TransferChoice, kSubset, Unlocked
    <3> QED BY <3>1, <3>2, TransferStep, <1>0a
  <2> QED BY <2>1, <2>2
<1>15. CASE NextBlock BY <1>15, <1>0b DEF NextBlock
<1>16. CASE UNCHANGED vars BY <1>16, <1>0b DEF vars, ledger
<1> QED BY <1>1, <1>2, <1>3, <1>4, <1>5, <1>6, <1>7, <1>7a, <1>8, <1>9, <1>10, <1>11, <1>12, <1>13, <1>14, <1>15, <1>16 DEF Next

\* No output is spent by two transactions of the bridge, whatever the builders, relayers and
\* governance do in whatever order (SpendUTXOs, lockChangeUTXOs, existsInHistory).
THEOREM NoDoubleSpendHolds == Spec => []NoDoubleSpend
<1>1. IInv /\ [Next]_vars => IInv' BY NextInv
<1>2. IInv => NoDoubleSpend BY DEF IInv
<1> QED BY InitInv, <1>1, <1>2, PTL DEF Spec

\* The UTXO store implements UtxoLife: an output is credited or created once, spent once and
\* only after its confirmation.
THEOREM LifeSpecHolds == Spec => LifeSpec
<1>1. IInv /\ [Next]_vars => IInv' BY NextInv
<1>2. IInv /\ [Next]_vars => [Life!Next]_(Life!life) BY NextInv
<1>3. Init => IInv /\ Life!Init BY InitInv
<1> QED BY <1>1, <1>2, <1>3, PTL DEF Spec, LifeSpec, Life!Spec

----------------------------------------------------------------------------
(* Ascending lists *)

\* A set of integers that is listed in ascending order is listed completely, every element once.
LEMMA InOrderLists ==
    ASSUME NEW S \in SUBSET Int, IsFiniteSet(S)
    PROVE  /\ DOMAIN InOrder(S) = 1..Cardinality(S) /\ Cardinality(S) \in Nat
           /\ InOrder(S) \in Seq(S)
           /\ \A i \in DOMAIN InOrder(S) : InOrder(S)[i] \in S
           /\ \A i, j \in DOMAIN InOrder(S) : InOrder(S)[i] = InOrder(S)[j] => i = j
           /\ \A x \in S : \E i \in DOMAIN InOrder(S) : InOrder(S)[i] = x
<1> DEFINE n == Cardinality(S)
           below(x) == {y \in S : y < x}
           rank == [x \in S |-> Cardinality(below(x))]
<1>1. n \in Nat
    BY FS_CardinalityType
<1>2. ASSUME NEW x \in S PROVE rank[x] \in 0..(n - 1)
    <2>1. IsFiniteSet(below(x)) /\ Cardinality(below(x)) <= n /\ (n = Cardinality(below(x)) => S = below(x))
        <3>1. below(x) \in SUBSET S
            OBVIOUS
        <3> HIDE DEF below
        <3> QED BY <3>1, FS_Subset
    <2>2. S # below(x)
        OBVIOUS
    <2>3. Cardinality(below(x)) \in Nat
        BY <2>1, FS_CardinalityType
    <2> QED BY <1>1, <2>1, <2>2, <2>3
<1>3. ASSUME NEW x \in S, NEW y \in S, x < y PROVE rank[x] # rank[y]
    <2>1. IsFiniteSet(below(y))
        BY FS_Subset
    <2>2. below(x) \in SUBSET below(y) /\ below(x) # below(y)
        <3>1. x \in below(y) /\ x \notin below(x)
            BY <1>3
        <3>2. \A z \in S : z < x => z < y
            BY <1>3
        <3> QED BY <3>1, <3>2
    <2>3. Cardinality(below(y)) # Cardinality(below(x))
        <3> HIDE DEF below
        <3> QED BY <2>1, <2>2, FS_Subset
    <2> QED BY <2>3
<1>4. rank \in Injection(S, 0..(n - 1))
    <2>1. \A x, y \in S : rank[x] = rank[y] => x = y
        BY <1>3
    <2>2. rank \in [S -> 0..(n - 1)]
        BY <1>2
    <2> HIDE DEF rank
    <2> QED BY <2>1, <2>2 DEF Injection, IsInjective
<1>5. rank \in Surjection(S, 0..(n - 1))
    <2>1. IsFiniteSet(0..(n - 1)) /\ Cardinality(0..(n - 1)) = n
        BY <1>1, FS_Interval
    <2> DEFINE T == 0..(n - 1)
    <2>2. rank \in Injection(S, T) /\ IsFiniteSet(T) /\ Cardinality(S) = Cardinality(T)
        BY <1>4, <2>1
    <2> HIDE DEF rank, T
    <2>3. rank \in Surjection(S, T)
        BY <2>2, FS_Injection
    <2> QED BY <2>3 DEF T
<1>6. \A k \in 0..(n - 1) : \E x \in S : rank[x] = k
    <2> HIDE DEF rank
    <2> QED BY <1>5 DEF Surjection
<1>7. DOMAIN InOrder(S) = 1..n
    BY DEF InOrder
<1>8. ASSUME NEW i \in 1..n PROVE InOrder(S)[i] \in S /\ rank[InOrder(S)[i]] = i - 1
    <2>1. i - 1 \in 0..(n - 1)
        BY <1>1
    <2>2. PICK x \in S : rank[x] = i - 1
        BY <1>6, <2>1
    <2>3. InOrder(S)[i] = CHOOSE z \in S : Cardinality({y \in S : y < z}) = i - 1
        BY DEF InOrder
    <2> QED BY <2>2, <2>3
<1>9. ASSUME NEW x \in S PROVE rank[x] + 1 \in 1..n /\ InOrder(S)[rank[x] + 1] = x
    <2>1. rank[x] \in 0..(n - 1)
        BY <1>2
    <2> DEFINE i == rank[x] + 1
    <2>2. i \in 1..n
        BY <1>1, <2>1
    <2>3. InOrder(S)[i] \in S /\ rank[InOrder(S)[i]] = i - 1
        BY <1>8, <2>2
    <2>4. i - 1 = rank[x]
        BY <2>1
    <2>5. \A y, z \in S : rank[y] = rank[z] => y = z
        BY <1>4 DEF Injection, IsInjective
    <2> HIDE DEF i, rank
    <2>6. InOrder(S)[i] = x
        BY <2>3, <2>4, <2>5
    <2> QED BY <2>2, <2>6 DEF i
<1>10. InOrder(S) \in Seq(S)
    <2> DEFINE e(i) == CHOOSE x \in S : Cardinality({y \in S : y < x}) = i - 1
    <2>1. InOrder(S) = [i \in 1..n |-> e(i)]
        BY DEF InOrder
    <2>2. \A i \in 1..n : e(i) \in S
        BY <1>8 DEF InOrder
    <2> HIDE DEF e
    <2>3. InOrder(S) \in [1..n -> S]
        BY <2>1, <2>2
    <2> DEFINE f == InOrder(S)
               m == n
    <2>4. f \in [1..m -> S] /\ m \in Nat
        BY <1>1, <2>3
    <2> HIDE DEF f, m
    <2>5. f \in Seq(S)
        BY <2>4
    <2> QED BY <2>5 DEF f
<1>11. \A i, j \in 1..n : InOrder(S)[i] = InOrder(S)[j] => i = j
    <2> SUFFICES ASSUME NEW i \in 1..n, NEW j \in 1..n, InOrder(S)[i] = InOrder(S)[j] PROVE i = j
        OBVIOUS
    <2>1. i - 1 = j - 1
        BY <1>8
    <2> QED BY <1>1, <2>1
<1> HIDE DEF rank
<1> QED BY <1>1, <1>7, <1>8, <1>9, <1>10, <1>11

\* A set of natural numbers has a least element.
LEMMA MinIn == ASSUME NEW S \in SUBSET Nat, S # {} PROVE Min(S) \in S /\ \A y \in S : Min(S) =< y
<1>1. IsWellFoundedOn(OpToRel(<, Nat), Nat)
    BY NatLessThanWellFounded, Zenon
<1>2. \A x, y \in Nat : x < y => <<x, y>> \in OpToRel(<, Nat)
    BY DEF OpToRel
<1> DEFINE R == OpToRel(<, Nat)
<1>3. IsWellFoundedOn(R, Nat) /\ \A x, y \in Nat : x < y => <<x, y>> \in R
    BY <1>1, <1>2
<1> HIDE DEF R
<1>4. PICK x \in S : \A y \in S : ~(<<y, x>> \in R)
    <2> DEFINE Q == Nat
    <2>1. IsWellFoundedOn(R, Q) /\ S \subseteq Q /\ S # {}
        BY <1>3
    <2> HIDE DEF Q
    <2> QED BY ONLY <2>1, WFMin, Zenon
<1>5. \A y \in S : x =< y
    <2>1. \A y \in S : y \in Nat /\ x \in Nat /\ ~(y < x)
        BY <1>3, <1>4
    <2> QED BY <2>1
<1>6. \E z \in S : \A y \in S : z =< y
    BY <1>5
<1> QED BY <1>6, Zenon DEF Min

----------------------------------------------------------------------------
(* Nothing is paid twice *)

\* What is in the store has the fields of a UTXO.
IsUTXO(u) == u = [asset |-> u.asset, version |-> u.version, amount |-> u.amount, runes |-> u.runes, locked |-> u.locked]
UTXOsAreRecords == \A o \in DOMAIN utxo : IsUTXO(utxo[o]) /\ utxo[o].locked \in BOOLEAN

\* A transaction of the bridge that is not in the mint history has no output to a vault, so a
\* report of it as a deposit mints nothing.
ChangeIsMinted == \A s \in DOMAIN signing : ChangeOuts(signing[s].outs) # {} => Txid(s) \in minted

RequestRecord(U, A, T) == [user : U, amount : A, txid : T]
RequestIsSeq == \E U, A, T : request \in Seq(RequestRecord(U, A, T))

\* Outputs pay withdrawals that exist.
PaidAreRequests ==
    \A s \in DOMAIN signing : \A j \in DOMAIN signing[s].outs : signing[s].outs[j].req \in 0..Len(request)

\* The two halves: what is in the store, and what is owed.
StoreInv == UTXOsAreRecords /\ SpendableIsConfirmed /\ ChangeIsMinted
OwedInv == RequestIsSeq /\ queue \subseteq DOMAIN request /\ PaidAreRequests /\ WithdrawalIsPaidOnce

\* What is reported as a deposit and mints was made by a depositor.
LEMMA DepositIs ==
    ASSUME IInv, StoreInv, NEW t \in Transactions, SubmitDepositTransaction(t)
    PROVE  /\ Len(signing) \in Nat /\ DOMAIN signing = 1..Len(signing) /\ t \in 1..Len(Deposit)
           /\ Transaction(t) = Deposit[t] /\ Deposit[t] \in DepositTx
<1>1. t \notin minted
    BY DEF SubmitDepositTransaction
<1>2. Len(signing) \in Nat /\ DOMAIN signing = 1..Len(signing) /\ Len(Deposit) \in Nat
    <2>1. PICK I, X, Y : signing \in Seq(SigningRecord(I, X, Y))
        BY DEF IInv, SigningIsSeq
    <2> DEFINE T == SigningRecord(I, X, Y)
    <2>2. signing \in Seq(T)
        BY <2>1
    <2> HIDE DEF T
    <2> QED BY <2>2, BridgeAssumption
<1>3. t \in 1..Len(Deposit)
    <2> SUFFICES ASSUME t \notin 1..Len(Deposit) PROVE FALSE
        OBVIOUS
    <2> DEFINE s == t - Len(Deposit)
    <2>1. s \in DOMAIN signing /\ Txid(s) = t /\ ~(t <= Len(Deposit))
        BY <1>2 DEF Transactions, NextTx, Txid
    <2>2. ChangeOuts(signing[s].outs) = {}
        BY <1>1, <2>1 DEF StoreInv, ChangeIsMinted
    <2>3. Transaction(t).outs = signing[s].outs
        BY <2>1 DEF Transaction
    <2>4. OutsOf(Transaction(t).outs, "BTC") = {} /\ OutsOf(Transaction(t).outs, "RUNES") = {}
        BY <2>2, <2>3 DEF ChangeOuts, OutsOf, Asset
    <2> QED BY <2>4 DEF SubmitDepositTransaction, MintBTC, MintRunes, OutputForMintRunes
<1>4. t <= Len(Deposit)
    BY <1>2, <1>3
<1> QED BY <1>2, <1>3, <1>4, BridgeAssumption DEF Transaction

\* A report of a deposit adds spendable outputs that no transaction of the bridge made.
LEMMA DepositStore ==
    ASSUME IInv, StoreInv, NEW t \in Transactions, SubmitDepositTransaction(t) PROVE StoreInv'
<1>1. t \notin minted /\ minted' = minted \union {t} /\ signing' = signing
    BY DEF SubmitDepositTransaction
<1>2. PICK outs, S : SaveUTXOs(t, outs, S)
    BY DEF SubmitDepositTransaction, MintBTC, MintRunes
<1>3. Len(signing) \in Nat /\ DOMAIN signing = 1..Len(signing) /\ Len(Deposit) \in Nat
    BY DepositIs, BridgeAssumption
<1>4. t \in 1..Len(Deposit)
    BY DepositIs
<1> DEFINE N == {<<t, i>> : i \in S}
<1>5. \A o \in N : o[1] = t
    OBVIOUS
<1>6. \A o \in DOMAIN utxo : o[1] # t
    BY <1>1 DEF IInv, KnownIsMinted
<1>7. DOMAIN utxo' = DOMAIN utxo \union N /\ index' = index \union N
    BY <1>2 DEF SaveUTXOs
<1>8. \A o \in DOMAIN utxo : utxo'[o] = utxo[o]
    BY <1>2, <1>6 DEF SaveUTXOs
<1>9. \A o \in N : utxo'[o].locked = FALSE /\ IsUTXO(utxo'[o])
    <2> SUFFICES ASSUME NEW i \in S PROVE utxo'[<<t, i>>].locked = FALSE /\ IsUTXO(utxo'[<<t, i>>])
        OBVIOUS
    <2> DEFINE u == [asset |-> outs[i].asset, version |-> outs[i].version,
                     amount |-> outs[i].amount, runes |-> outs[i].runes, locked |-> FALSE]
    <2>1. utxo'[<<t, i>>] = u
        BY <1>2 DEF SaveUTXOs
    <2>2. u.locked = FALSE /\ IsUTXO(u)
        BY DEF IsUTXO
    <2> QED BY <2>1, <2>2
<1> HIDE DEF N
<1>10. UTXOsAreRecords'
    BY <1>7, <1>8, <1>9 DEF StoreInv, UTXOsAreRecords, IsUTXO
<1>11. ChangeIsMinted'
    BY <1>1 DEF StoreInv, ChangeIsMinted, Txid
<1>12. SpendableIsConfirmed'
    <2> SUFFICES ASSUME NEW o \in DOMAIN utxo'
                 PROVE  /\ o \in index' <=> ~utxo'[o].locked
                        /\ utxo'[o].locked <=> (\E s \in DOMAIN signing : Txid(s) = o[1] /\ signing[s].status # "CONFIRMED")
        BY <1>1 DEF SpendableIsConfirmed, Txid
    <2>1. CASE o \in N
        <3>1. \A s \in DOMAIN signing : Txid(s) # o[1]
            BY <1>3, <1>4, <1>5, <2>1 DEF Txid
        <3> QED BY <1>7, <1>9, <2>1, <3>1
    <2>2. CASE o \notin N
        BY <1>7, <1>8, <2>2 DEF StoreInv, SpendableIsConfirmed
    <2> QED BY <2>1, <2>2
<1> QED BY <1>10, <1>11, <1>12 DEF StoreInv

\* The change of a transaction is locked while the transaction is not confirmed.
LEMMA IssueStore ==
    ASSUME IInv, StoreInv, NEW ins, NEW outs, NEW edict, ins \subseteq index, IssueTransaction(ins, outs, edict)
    PROVE  StoreInv'
<1> DEFINE C == Created(outs)
           n == Len(signing)
<1>1. n \in Nat /\ DOMAIN signing = 1..n /\ DOMAIN signing' = 1..(n + 1)
    BY Issued
<1>2. \A i \in 1..n : signing'[i] = signing[i]
    BY Issued
<1>3. signing'[n + 1].status = "PENDING" /\ signing'[n + 1].outs = outs
    BY Issued
<1>4. (\A o \in C : o[1] = NextTx) /\ C \intersect (DOMAIN utxo \union Spent) = {}
    BY Issued
<1>5. DOMAIN utxo' = (DOMAIN utxo \ ins) \union C /\ index' = index \ ins
    BY Issued
<1>6. \A o \in DOMAIN utxo \ ins : utxo'[o] = utxo[o]
    BY Issued
<1>7. \A o \in C : utxo'[o] = ChangeUTXO(outs[o[2]])
    BY Issued
<1>8. \A o \in C : utxo'[o].locked = TRUE /\ IsUTXO(utxo'[o])
    <2> SUFFICES ASSUME NEW o \in C PROVE utxo'[o].locked = TRUE /\ IsUTXO(utxo'[o])
        OBVIOUS
    <2>1. ASSUME NEW out PROVE ChangeUTXO(out).locked = TRUE /\ IsUTXO(ChangeUTXO(out))
        BY DEF ChangeUTXO, IsUTXO
    <2>2. utxo'[o] = ChangeUTXO(outs[o[2]])
        BY <1>7
    <2> QED BY <2>1, <2>2
<1>9. minted \subseteq minted' /\ (ChangeOuts(outs) # {} => NextTx \in minted')
    BY Issued
<1>10. NextTx = Txid(n + 1) /\ Len(Deposit) \in Nat
    BY BridgeAssumption DEF NextTx
<1>11. \A o \in DOMAIN utxo : o[1] \in Transactions /\ o[1] # NextTx
    <2>1. NextTx \notin Transactions
        BY Issued
    <2> QED BY <2>1 DEF IInv, KnownIsMinted
<1> HIDE DEF C, n
<1>12. UTXOsAreRecords'
    BY <1>5, <1>6, <1>8 DEF StoreInv, UTXOsAreRecords, IsUTXO
<1>13. ChangeIsMinted'
    <2> SUFFICES ASSUME NEW s \in DOMAIN signing', ChangeOuts(signing'[s].outs) # {} PROVE Txid(s) \in minted'
        BY DEF ChangeIsMinted, Txid, ChangeOuts
    <2>1. CASE s \in 1..n
        BY <1>1, <1>2, <1>9, <2>1 DEF StoreInv, ChangeIsMinted
    <2>2. CASE s = n + 1
        BY <1>3, <1>9, <1>10, <2>2
    <2> QED BY <1>1, <2>1, <2>2
<1>14. SpendableIsConfirmed'
    <2> SUFFICES ASSUME NEW o \in DOMAIN utxo'
                 PROVE  /\ o \in index' <=> ~utxo'[o].locked
                        /\ utxo'[o].locked <=> (\E s \in DOMAIN signing' : Txid(s) = o[1] /\ signing'[s].status # "CONFIRMED")
        BY DEF SpendableIsConfirmed, Txid
    <2>1. CASE o \in C
        <3>1. o \notin index'
            BY <1>4, <1>5, <2>1 DEF IInv
        <3>2. n + 1 \in DOMAIN signing' /\ Txid(n + 1) = o[1] /\ signing'[n + 1].status # "CONFIRMED"
            BY <1>1, <1>3, <1>4, <1>10, <2>1
        <3> QED BY <1>8, <2>1, <3>1, <3>2
    <2>2. CASE o \notin C
        <3>1. o \in DOMAIN utxo \ ins /\ utxo'[o] = utxo[o] /\ (o \in index' <=> o \in index)
            BY <1>5, <1>6, <2>2
        <3>2. Txid(n + 1) # o[1]
            BY <1>10, <1>11, <3>1
        <3>3. (\E s \in DOMAIN signing' : Txid(s) = o[1] /\ signing'[s].status # "CONFIRMED")
              <=> (\E s \in DOMAIN signing : Txid(s) = o[1] /\ signing[s].status # "CONFIRMED")
            BY <1>1, <1>2, <3>2
        <3> QED BY <3>1, <3>3 DEF StoreInv, SpendableIsConfirmed
    <2> QED BY <2>1, <2>2
<1> QED BY <1>12, <1>13, <1>14 DEF StoreInv

\* What a change of one status leaves alone, and what it changes.
LEMMA StatusFields ==
    ASSUME IInv, NEW s \in DOMAIN signing, NEW v \in Status, signing' = [signing EXCEPT ![s].status = v]
    PROVE  /\ Len(signing) \in Nat /\ DOMAIN signing = 1..Len(signing) /\ DOMAIN signing' = DOMAIN signing
           /\ \A r \in DOMAIN signing : signing'[r].outs = signing[r].outs /\ signing'[r].edict = signing[r].edict
           /\ \A r \in DOMAIN signing \ {s} : signing'[r].status = signing[r].status
           /\ signing'[s].status = v
<1>1. PICK I, X, Y : signing \in Seq(SigningRecord(I, X, Y))
    BY DEF IInv, SigningIsSeq
<1> DEFINE S == SigningRecord(I, X, Y)
<1>2. signing \in Seq(S)
    BY <1>1
<1>3. Len(signing) \in Nat /\ DOMAIN signing = 1..Len(signing) /\ \A r \in DOMAIN signing : signing[r] \in S
    <2> HIDE DEF S
    <2> QED BY <1>2
<1> DEFINE w == [signing[s] EXCEPT !.status = v]
<1>4. w.outs = signing[s].outs /\ w.edict = signing[s].edict /\ w.status = v
    BY <1>3 DEF SigningRecord
<1>5. signing' = [signing EXCEPT ![s] = w]
    OBVIOUS
<1> HIDE DEF S, w
<1> QED BY <1>3, <1>4, <1>5

\* Signatures change no output and confirm nothing.
LEMMA SignaturesStore ==
    ASSUME IInv, StoreInv, NEW s \in DOMAIN signing, SubmitSignatures(s) PROVE StoreInv'
<1>1. "BROADCASTED" \in Status /\ "BROADCASTED" # "CONFIRMED"
    BY DEF Status
<1>2. /\ signing' = [signing EXCEPT ![s].status = "BROADCASTED"] /\ signing[s].status = "PENDING"
      /\ utxo' = utxo /\ index' = index /\ minted' = minted
    BY DEF SubmitSignatures
<1>3. /\ DOMAIN signing' = DOMAIN signing /\ signing'[s].status = "BROADCASTED"
      /\ \A r \in DOMAIN signing : signing'[r].outs = signing[r].outs
      /\ \A r \in DOMAIN signing \ {s} : signing'[r].status = signing[r].status
    BY <1>1, <1>2, StatusFields
<1>4. \A r \in DOMAIN signing : signing'[r].status # "CONFIRMED" <=> signing[r].status # "CONFIRMED"
    BY <1>2, <1>3
<1>5. UTXOsAreRecords'
    BY <1>2 DEF StoreInv, UTXOsAreRecords, IsUTXO
<1>6. ChangeIsMinted'
    BY <1>2, <1>3 DEF StoreInv, ChangeIsMinted, Txid
<1>7. SpendableIsConfirmed'
    BY <1>2, <1>3, <1>4 DEF StoreInv, SpendableIsConfirmed, Txid
<1> QED BY <1>5, <1>6, <1>7 DEF StoreInv

\* A confirmation makes exactly the outputs of its transaction spendable.
LEMMA ConfirmStore ==
    ASSUME IInv, StoreInv, NEW s \in DOMAIN signing, SubmitWithdrawTransaction(s) PROVE StoreInv'
<1>1. "CONFIRMED" \in Status
    BY DEF Status
<1>2. signing' = [signing EXCEPT ![s].status = "CONFIRMED"] /\ minted' = minted
    BY DEF SubmitWithdrawTransaction, ConfirmTransaction
<1>3. /\ DOMAIN signing' = DOMAIN signing /\ signing'[s].status = "CONFIRMED"
      /\ \A r \in DOMAIN signing : signing'[r].outs = signing[r].outs
      /\ \A r \in DOMAIN signing \ {s} : signing'[r].status = signing[r].status
      /\ Len(signing) \in Nat /\ DOMAIN signing = 1..Len(signing)
    BY <1>1, <1>2, StatusFields
<1> DEFINE N == {o \in DOMAIN utxo : o[1] = Txid(s)}
<1>4. DOMAIN utxo' = DOMAIN utxo /\ index' = index \union N
    BY DEF SubmitWithdrawTransaction, ConfirmTransaction
<1>5. \A o \in DOMAIN utxo \ N : utxo'[o] = utxo[o]
    BY DEF SubmitWithdrawTransaction, ConfirmTransaction
<1>6. ASSUME NEW o \in N PROVE utxo'[o].locked = FALSE /\ IsUTXO(utxo'[o])
    <2> DEFINE u == utxo[o]
    <2>1. PICK a, b, c, d, l : u = [asset |-> a, version |-> b, amount |-> c, runes |-> d, locked |-> l]
        BY DEF StoreInv, UTXOsAreRecords, IsUTXO
    <2>2. utxo'[o] = [u EXCEPT !.locked = FALSE]
        BY DEF SubmitWithdrawTransaction, ConfirmTransaction
    <2> HIDE DEF u
    <2> DEFINE w == [asset |-> a, version |-> b, amount |-> c, runes |-> d, locked |-> FALSE]
    <2>3. [u EXCEPT !.locked = FALSE] = w
        <3>1. \A x : [[asset |-> a, version |-> b, amount |-> c, runes |-> d, locked |-> l] EXCEPT !.locked = x]
                     = [asset |-> a, version |-> b, amount |-> c, runes |-> d, locked |-> x]
            OBVIOUS
        <3> QED BY <2>1, <3>1, Zenon
    <2>4. w.locked = FALSE /\ IsUTXO(w)
        BY DEF IsUTXO
    <2> QED BY <2>2, <2>3, <2>4
<1>7. UTXOsAreRecords'
    <2> HIDE DEF N
    <2> QED BY <1>4, <1>5, <1>6 DEF StoreInv, UTXOsAreRecords, IsUTXO
<1>8. ChangeIsMinted'
    BY <1>2, <1>3 DEF StoreInv, ChangeIsMinted, Txid
<1>9. SpendableIsConfirmed'
    <2> SUFFICES ASSUME NEW o \in DOMAIN utxo
                 PROVE  /\ o \in index' <=> ~utxo'[o].locked
                        /\ utxo'[o].locked <=> (\E r \in DOMAIN signing : Txid(r) = o[1] /\ signing'[r].status # "CONFIRMED")
        BY <1>3, <1>4 DEF SpendableIsConfirmed, Txid
    <2>1. CASE o \in N
        <3>1. \A r \in DOMAIN signing : Txid(r) = o[1] => r = s
            <4>1. Len(Deposit) \in Nat
                BY BridgeAssumption
            <4> QED BY <1>3, <2>1, <4>1 DEF Txid
        <3> QED BY <1>3, <1>4, <1>6, <2>1, <3>1
    <2>2. CASE o \notin N
        <3>1. o[1] # Txid(s)
            BY <2>2
        <3>2. utxo'[o] = utxo[o] /\ (o \in index' <=> o \in index)
            BY <1>4, <1>5, <2>2
        <3> QED BY <1>3, <3>1, <3>2 DEF StoreInv, SpendableIsConfirmed
    <2> QED BY <2>1, <2>2
<1> QED BY <1>7, <1>8, <1>9 DEF StoreInv

\* The payments of a withdrawal, one by one.
LEMMA PaymentsAre ==
    ASSUME NEW r, NEW o
    PROVE  o \in Payments(r) <=> \E s \in DOMAIN signing : \E j \in DOMAIN signing[s].outs :
                                     signing[s].outs[j].req = r /\ o = <<s, j>>
BY DEF Payments

PaidOnce(r) ==
    IF r \in queue THEN request[r].txid = 0 /\ Payments(r) = {}
    ELSE \E o \in Payments(r) :
            /\ Payments(r) = {o} /\ Txid(o[1]) = request[r].txid
            /\ LET out == signing[o[1]].outs[o[2]]
               IN  /\ out.account = request[r].user
                   /\ request[r].amount = IF signing[o[1]].edict = NoEdict THEN out.amount ELSE out.runes

\* A withdrawal is not disturbed by transactions that do not pay it.
LEMMA PaidStays ==
    ASSUME NEW r, PaidOnce(r), request'[r] = request[r], r \in queue' <=> r \in queue,
           Payments(r)' = Payments(r), DOMAIN signing \subseteq DOMAIN signing',
           \A s \in DOMAIN signing : signing'[s].outs = signing[s].outs /\ signing'[s].edict = signing[s].edict
    PROVE  PaidOnce(r)'
<1>1. CASE r \in queue
    BY <1>1 DEF PaidOnce
<1>2. CASE r \notin queue
    <2>1. PICK o \in Payments(r) :
              /\ Payments(r) = {o} /\ Txid(o[1]) = request[r].txid
              /\ signing[o[1]].outs[o[2]].account = request[r].user
              /\ request[r].amount = IF signing[o[1]].edict = NoEdict
                                     THEN signing[o[1]].outs[o[2]].amount ELSE signing[o[1]].outs[o[2]].runes
        BY <1>2 DEF PaidOnce
    <2>2. o[1] \in DOMAIN signing
        BY PaymentsAre
    <2>3. signing'[o[1]].outs = signing[o[1]].outs /\ signing'[o[1]].edict = signing[o[1]].edict
        BY <2>2
    <2> QED BY <1>2, <2>1, <2>3 DEF PaidOnce, Txid
<1> QED BY <1>1, <1>2

\* The requests are numbered.
LEMMA RequestNumbers ==
    ASSUME RequestIsSeq PROVE Len(request) \in Nat /\ DOMAIN request = 1..Len(request)
<1>1. PICK U, A, T : request \in Seq(RequestRecord(U, A, T))
    BY DEF RequestIsSeq
<1> DEFINE S == RequestRecord(U, A, T)
<1>2. request \in Seq(S)
    BY <1>1
<1> HIDE DEF S
<1> QED BY <1>2

\* The bridge pays nobody but with new transactions, and numbers requests one by one.
LEMMA QuietOwed ==
    ASSUME OwedInv, request' = request, queue' = queue, DOMAIN signing' = DOMAIN signing,
           \A s \in DOMAIN signing : signing'[s].outs = signing[s].outs /\ signing'[s].edict = signing[s].edict
    PROVE  OwedInv'
<1>1. \A r : Payments(r)' = Payments(r)
    BY DEF Payments
<1>2. RequestIsSeq' /\ queue' \subseteq DOMAIN request'
    BY DEF OwedInv, RequestIsSeq, RequestRecord
<1>3. PaidAreRequests'
    BY DEF OwedInv, PaidAreRequests
<1>4. \A r \in DOMAIN request : PaidOnce(r)
    BY DEF OwedInv, WithdrawalIsPaidOnce, PaidOnce
<1>5. \A r \in DOMAIN request : PaidOnce(r)'
    BY <1>1, <1>4, PaidStays
<1>6. WithdrawalIsPaidOnce'
    BY <1>5 DEF WithdrawalIsPaidOnce, PaidOnce
<1> QED BY <1>2, <1>3, <1>6 DEF OwedInv

\* A new request: it gets the next number, which no output pays.
LEMMA RequestAdded ==
    ASSUME OwedInv, NEW u, NEW a, NEW t, NewWithdrawRequest(u, a, t)
    PROVE  /\ RequestIsSeq' /\ DOMAIN request = 1..Len(request) /\ Len(request) \in Nat
           /\ DOMAIN request' = 1..(Len(request) + 1) /\ Len(request') = Len(request) + 1
           /\ \A r \in 1..Len(request) : request'[r] = request[r]
           /\ request'[NextRequest].user = u /\ request'[NextRequest].amount = a
           /\ request'[NextRequest].txid = t
           /\ Payments(NextRequest) = {} /\ NextRequest \notin queue
<1>1. PICK U, A, T : request \in Seq(RequestRecord(U, A, T))
    BY DEF OwedInv, RequestIsSeq
<1> DEFINE e == [user |-> u, amount |-> a, txid |-> t]
           S == RequestRecord(U, A, T)
           R == RequestRecord(U \union {u}, A \union {a}, T \union {t})
<1>2. request \in Seq(S) /\ e \in R /\ S \subseteq R
    BY <1>1 DEF RequestRecord
<1>3. request' = Append(request, e)
    BY DEF NewWithdrawRequest
<1>4. e.user = u /\ e.amount = a /\ e.txid = t
    OBVIOUS
<1> HIDE DEF e, S, R
<1>5. /\ request' \in Seq(R) /\ Len(request') = Len(request) + 1 /\ Len(request) \in Nat
      /\ DOMAIN request = 1..Len(request) /\ DOMAIN request' = 1..(Len(request) + 1)
      /\ \A i \in 1..Len(request) : request'[i] = request[i]
      /\ request'[Len(request) + 1] = e
    BY <1>2, <1>3, Appended
<1>6. RequestIsSeq'
    BY <1>5 DEF R, RequestIsSeq, RequestRecord
<1>7. Payments(NextRequest) = {}
    <2>1. \A s \in DOMAIN signing : \A j \in DOMAIN signing[s].outs : signing[s].outs[j].req # NextRequest
        BY <1>5 DEF OwedInv, PaidAreRequests, NextRequest
    <2> QED BY <2>1, PaymentsAre
<1>8. NextRequest \notin queue
    BY <1>5 DEF OwedInv, NextRequest
<1> QED BY <1>4, <1>5, <1>6, <1>7, <1>8 DEF NextRequest

\* A withdrawal of BTC waits in the queue and nothing pays it yet.
LEMMA QueuedOwed ==
    ASSUME OwedInv, NEW u, NEW a, NewWithdrawRequest(u, a, 0), queue' = queue \union {NextRequest}, signing' = signing
    PROVE  OwedInv'
<1> DEFINE n == Len(request)
<1>1. /\ RequestIsSeq' /\ DOMAIN request = 1..n /\ n \in Nat
      /\ DOMAIN request' = 1..(n + 1) /\ Len(request') = n + 1
    BY RequestAdded
<1>2. /\ \A r \in 1..n : request'[r] = request[r]
      /\ request'[n + 1].txid = 0
      /\ Payments(n + 1) = {}
    BY RequestAdded DEF NextRequest
<1>3. \A r : Payments(r)' = Payments(r)
    BY DEF Payments
<1>4. queue' \subseteq DOMAIN request' /\ queue' = queue \union {n + 1} /\ n + 1 \notin queue
    BY <1>1 DEF OwedInv, NextRequest
<1>5. PaidAreRequests'
    BY <1>1 DEF OwedInv, PaidAreRequests
<1> HIDE DEF n
<1>6. ASSUME NEW r \in DOMAIN request' PROVE PaidOnce(r)'
    <2>1. CASE r \in 1..n
        <3>1. PaidOnce(r)
            BY <1>1, <2>1 DEF OwedInv, WithdrawalIsPaidOnce, PaidOnce
        <3>2. request'[r] = request[r] /\ (r \in queue' <=> r \in queue)
            BY <1>1, <1>2, <1>4, <2>1
        <3> QED BY <1>3, <3>1, <3>2, PaidStays
    <2>2. CASE r = n + 1
        BY <1>2, <1>3, <1>4, <2>2 DEF PaidOnce
    <2> QED BY <1>1, <2>1, <2>2
<1>7. WithdrawalIsPaidOnce'
    BY <1>6 DEF WithdrawalIsPaidOnce, PaidOnce
<1> QED BY <1>1, <1>4, <1>5, <1>7 DEF OwedInv

\* The outputs of one transaction that pay a withdrawal.
PaidBy(s, outs, r) == {<<s, j>> : j \in {j \in DOMAIN outs : outs[j].req = r}}

LEMMA PaidByNone ==
    ASSUME NEW s, NEW outs, NEW r, \A j \in DOMAIN outs : outs[j].req # r PROVE PaidBy(s, outs, r) = {}
BY DEF PaidBy

LEMMA PaidByOne ==
    ASSUME NEW s, NEW outs, NEW r, NEW k \in DOMAIN outs, \A j \in DOMAIN outs : outs[j].req = r <=> j = k
    PROVE  PaidBy(s, outs, r) = {<<s, k>>}
BY DEF PaidBy

\* What a new transaction pays.
LEMMA IssuePayments ==
    ASSUME IInv, NEW ins, NEW outs, NEW edict, ins \subseteq index, IssueTransaction(ins, outs, edict), NEW r
    PROVE  Payments(r)' = Payments(r) \union PaidBy(Len(signing) + 1, outs, r)
<1> DEFINE n == Len(signing)
           P == PaidBy(n + 1, outs, r)
<1>1. n \in Nat /\ DOMAIN signing = 1..n /\ DOMAIN signing' = 1..(n + 1)
    BY Issued
<1>2. \A i \in 1..n : signing'[i] = signing[i]
    BY Issued
<1>3. signing'[n + 1].outs = outs
    BY Issued
<1>4. ASSUME NEW o PROVE o \in Payments(r)' <=> \E s \in DOMAIN signing' : \E j \in DOMAIN signing'[s].outs :
                                                   signing'[s].outs[j].req = r /\ o = <<s, j>>
    BY DEF Payments
<1>5. ASSUME NEW o PROVE o \in P <=> \E j \in DOMAIN outs : outs[j].req = r /\ o = <<n + 1, j>>
    BY DEF PaidBy
<1> HIDE DEF P
<1>6. ASSUME NEW o PROVE o \in Payments(r)' <=> o \in Payments(r) \/ o \in P
    <2>1. 1..(n + 1) = 1..n \union {n + 1} /\ n + 1 \notin 1..n
        BY <1>1
    <2>2. (\E s \in 1..(n + 1) : \E j \in DOMAIN signing'[s].outs : signing'[s].outs[j].req = r /\ o = <<s, j>>)
          <=> \/ \E s \in 1..n : \E j \in DOMAIN signing'[s].outs : signing'[s].outs[j].req = r /\ o = <<s, j>>
              \/ \E j \in DOMAIN outs : outs[j].req = r /\ o = <<n + 1, j>>
        BY <1>3, <2>1
    <2>3. (\E s \in 1..n : \E j \in DOMAIN signing'[s].outs : signing'[s].outs[j].req = r /\ o = <<s, j>>)
          <=> (\E s \in 1..n : \E j \in DOMAIN signing[s].outs : signing[s].outs[j].req = r /\ o = <<s, j>>)
        BY <1>2
    <2> QED BY <1>1, <1>4, <1>5, <2>2, <2>3, PaymentsAre
<1> QED BY <1>6 DEF P

\* The place of a new transaction among the signing requests.
LEMMA IssuedLast ==
    ASSUME IInv, NEW ins, NEW outs, NEW edict, ins \subseteq index, IssueTransaction(ins, outs, edict)
    PROVE  /\ Len(signing) \in Nat /\ DOMAIN signing = 1..Len(signing) /\ DOMAIN signing' = 1..(Len(signing) + 1)
           /\ signing'[Len(signing) + 1].outs = outs /\ signing'[Len(signing) + 1].edict = edict
           /\ NextTx = Txid(Len(signing) + 1)
<1>1. Len(signing) \in Nat /\ DOMAIN signing = 1..Len(signing) /\ DOMAIN signing' = 1..(Len(signing) + 1)
    BY Issued
<1>2. signing'[Len(signing) + 1].outs = outs /\ signing'[Len(signing) + 1].edict = edict
    BY Issued
<1> QED BY <1>1, <1>2 DEF NextTx

\* The facts that PaidStays asks for.
LEMMA IssueKeeps ==
    ASSUME IInv, NEW ins, NEW outs, NEW edict, ins \subseteq index, IssueTransaction(ins, outs, edict)
    PROVE  /\ DOMAIN signing \subseteq DOMAIN signing'
           /\ \A s \in DOMAIN signing : signing'[s].outs = signing[s].outs /\ signing'[s].edict = signing[s].edict
<1>1. Len(signing) \in Nat /\ DOMAIN signing = 1..Len(signing) /\ DOMAIN signing' = 1..(Len(signing) + 1)
    BY Issued
<1>2. \A i \in 1..Len(signing) : signing'[i] = signing[i]
    BY Issued
<1> QED BY <1>1, <1>2

\* Consolidations and transfers pay nobody.
LEMMA MoveOwed ==
    ASSUME IInv, OwedInv, NEW ins, NEW outs, NEW edict, ins \subseteq index, IssueTransaction(ins, outs, edict),
           request' = request, queue' = queue, \A j \in DOMAIN outs : outs[j].req = 0
    PROVE  OwedInv'
<1>1. Len(request) \in Nat /\ DOMAIN request = 1..Len(request)
    BY RequestNumbers DEF OwedInv
<1>2. ASSUME NEW r \in DOMAIN request PROVE Payments(r)' = Payments(r)
    <2>1. PaidBy(Len(signing) + 1, outs, r) = {}
        BY <1>1, PaidByNone
    <2>2. Payments(r)' = Payments(r) \union PaidBy(Len(signing) + 1, outs, r)
        BY IssuePayments
    <2> QED BY <2>1, <2>2
<1>3. /\ DOMAIN signing \subseteq DOMAIN signing'
      /\ \A s \in DOMAIN signing : signing'[s].outs = signing[s].outs /\ signing'[s].edict = signing[s].edict
    BY IssueKeeps
<1>4. \A r \in DOMAIN request : PaidOnce(r)'
    <2>1. \A r \in DOMAIN request : PaidOnce(r)
        BY DEF OwedInv, WithdrawalIsPaidOnce, PaidOnce
    <2> QED BY <1>2, <1>3, <2>1, PaidStays
<1>5. WithdrawalIsPaidOnce'
    BY <1>4 DEF WithdrawalIsPaidOnce, PaidOnce
<1>6. PaidAreRequests'
    <2>1. Len(signing) \in Nat /\ DOMAIN signing = 1..Len(signing) /\ DOMAIN signing' = 1..(Len(signing) + 1)
        BY Issued
    <2>2. signing'[Len(signing) + 1].outs = outs
        BY Issued
    <2> SUFFICES ASSUME NEW s \in DOMAIN signing', NEW j \in DOMAIN signing'[s].outs
                 PROVE  signing'[s].outs[j].req \in 0..Len(request)
        BY DEF PaidAreRequests
    <2>3. CASE s \in DOMAIN signing
        BY <1>3, <2>3 DEF OwedInv, PaidAreRequests
    <2>4. CASE s = Len(signing) + 1
        BY <1>1, <2>2, <2>4
    <2> QED BY <2>1, <2>3, <2>4
<1>7. RequestIsSeq' /\ queue' \subseteq DOMAIN request'
    BY DEF OwedInv, RequestIsSeq, RequestRecord
<1> QED BY <1>5, <1>6, <1>7 DEF OwedInv

\* Change pays nobody.
LEMMA ChangePays ==
    ASSUME NEW S, NEW outs \in Seq(S), NEW tx, NEW v
    PROVE  /\ DOMAIN outs = 1..Len(outs) /\ Len(outs) \in Nat
           /\ DOMAIN WithChange(outs, tx, v) \in {1..Len(outs), 1..(Len(outs) + 1)}
           /\ \A j \in 1..Len(outs) : WithChange(outs, tx, v)[j] = outs[j]
           /\ \A j \in DOMAIN WithChange(outs, tx, v) \ 1..Len(outs) : WithChange(outs, tx, v)[j].req = 0
<1> DEFINE c == VaultOut("BTC", v, tx.change, 0)
<1>1. c.req = 0
    BY DEF VaultOut, Out
<1> HIDE DEF c
<1>2. /\ DOMAIN outs = 1..Len(outs) /\ Len(outs) \in Nat
      /\ DOMAIN Append(outs, c) = 1..(Len(outs) + 1)
      /\ \A j \in 1..Len(outs) : Append(outs, c)[j] = outs[j]
      /\ Append(outs, c)[Len(outs) + 1] = c
    <2>1. outs \in Seq(S) /\ c \in {c} \union S /\ S \subseteq {c} \union S
        OBVIOUS
    <2> QED BY <2>1, Appended
<1>3. CASE tx.change = 0
    <2>1. WithChange(outs, tx, v) = outs
        BY <1>3 DEF WithChange
    <2> QED BY <1>2, <2>1
<1>4. CASE tx.change # 0
    <2>1. WithChange(outs, tx, v) = Append(outs, c)
        BY <1>4 DEF WithChange, c
    <2> QED BY <1>1, <1>2, <2>1
<1> QED BY <1>3, <1>4

\* A withdrawal of runes is paid by the last output that is asked for.
LEMMA RunesOutsAre ==
    ASSUME NEW u, NEW a, NEW rest
    PROVE  /\ \E S : RunesOuts(u, a, rest) \in Seq(S)
           /\ Len(RunesOuts(u, a, rest)) \in Nat \ {0}
           /\ \A j \in 1..(Len(RunesOuts(u, a, rest)) - 1) : RunesOuts(u, a, rest)[j].req = 0
           /\ RunesOuts(u, a, rest)[Len(RunesOuts(u, a, rest))] = UserOut(u, RunesOutValue, a, NextRequest)
<1> DEFINE v == VaultOut("RUNES", latest, RunesOutValue, rest)
           w == UserOut(u, RunesOutValue, a, NextRequest)
<1>1. OpReturn.req = 0 /\ v.req = 0
    BY DEF OpReturn, VaultOut, Out
<1> HIDE DEF v, w
<1>2. CASE rest > 0
    <2> DEFINE s == <<OpReturn, v, w>>
    <2>1. RunesOuts(u, a, rest) = s
        BY <1>2 DEF RunesOuts, v, w
    <2>2. s \in Seq({OpReturn, v, w}) /\ Len(s) = 3 /\ s[1] = OpReturn /\ s[2] = v /\ s[3] = w
        OBVIOUS
    <2> HIDE DEF s
    <2>3. \A j \in 1..(Len(s) - 1) : s[j].req = 0
        BY <1>1, <2>2
    <2> QED BY <2>1, <2>2, <2>3 DEF w
<1>3. CASE ~(rest > 0)
    <2> DEFINE s == <<OpReturn, w>>
    <2>1. RunesOuts(u, a, rest) = s
        BY <1>3 DEF RunesOuts, w
    <2>2. s \in Seq({OpReturn, w}) /\ Len(s) = 2 /\ s[1] = OpReturn /\ s[2] = w
        OBVIOUS
    <2> HIDE DEF s
    <2>3. \A j \in 1..(Len(s) - 1) : s[j].req = 0
        BY <1>1, <2>2
    <2> QED BY <2>1, <2>2, <2>3 DEF w
<1> QED BY <1>2, <1>3

\* A withdrawal of runes is paid at once, by the transaction it names.
LEMMA RunesOwed ==
    ASSUME IInv, OwedInv, NEW u, NEW a \in RuneAmount, WithdrawRunes(u, a) PROVE OwedInv'
<1> DEFINE base == TargetRunesUTXOs(latest, a)
           rest == Runes(base) - a
           outs0 == RunesOuts(u, a, rest)
           tx == BuildUnsignedTransaction(base, outs0, latest)
           ins == base \union tx.selected
           outs == WithChange(outs0, tx, latest)
           edict == [out |-> Len(outs0), amount |-> a]
           n == Len(request)
           m == Len(signing)
           k == Len(outs0)
<1>1. tx.ok /\ IssueTransaction(ins, outs, edict) /\ NewWithdrawRequest(u, a, NextTx) /\ queue' = queue
    BY DEF WithdrawRunes
<1>2. ins \subseteq index
    BY <1>1, BuiltFromIndex, RunesFromIndex
<1>3. edict # NoEdict
    BY BridgeAssumption DEF NoEdict
<1>4. PICK S : outs0 \in Seq(S)
    BY RunesOutsAre
<1>5. k \in Nat \ {0} /\ outs0[k] = UserOut(u, RunesOutValue, a, NextRequest) /\ \A j \in 1..(k - 1) : outs0[j].req = 0
    BY RunesOutsAre
<1> HIDE DEF tx, outs0, base, edict, rest
<1>6. /\ DOMAIN outs \in {1..k, 1..(k + 1)}
      /\ \A j \in 1..k : outs[j] = outs0[j]
      /\ \A j \in DOMAIN outs \ 1..k : outs[j].req = 0
    BY <1>4, ChangePays
<1> HIDE DEF ins, outs, k
<1>7. /\ outs[k].req = n + 1 /\ outs[k].account = u /\ outs[k].runes = a
      /\ k \in DOMAIN outs /\ \A j \in DOMAIN outs \ {k} : outs[j].req = 0
    <2>1. outs[k] = UserOut(u, RunesOutValue, a, NextRequest)
        BY <1>5, <1>6
    <2>2. outs[k].req = NextRequest /\ outs[k].account = u /\ outs[k].runes = a
        BY <2>1 DEF UserOut, Out
    <2>3. ASSUME NEW j \in DOMAIN outs \ {k} PROVE outs[j].req = 0
        <3>1. j \in 1..(k - 1) \/ j \notin 1..k
            BY <1>5, <1>6
        <3> QED BY <1>5, <1>6, <3>1
    <2> QED BY <1>5, <1>6, <2>2, <2>3 DEF NextRequest
<1>8. /\ RequestIsSeq' /\ DOMAIN request = 1..n /\ n \in Nat
      /\ DOMAIN request' = 1..(n + 1) /\ Len(request') = n + 1
    BY <1>1, RequestAdded
<1>9. /\ \A r \in 1..n : request'[r] = request[r]
      /\ request'[n + 1].user = u /\ request'[n + 1].amount = a /\ request'[n + 1].txid = NextTx
      /\ Payments(n + 1) = {} /\ n + 1 \notin queue
    BY <1>1, RequestAdded DEF NextRequest
<1>10. m \in Nat /\ DOMAIN signing = 1..m /\ DOMAIN signing' = 1..(m + 1)
    BY <1>1, <1>2, IssuedLast
<1>11. signing'[m + 1].outs = outs /\ signing'[m + 1].edict = edict
    BY <1>1, <1>2, IssuedLast
<1>12. /\ DOMAIN signing \subseteq DOMAIN signing'
       /\ \A s \in DOMAIN signing : signing'[s].outs = signing[s].outs /\ signing'[s].edict = signing[s].edict
    BY <1>1, <1>2, IssueKeeps
<1>13. ASSUME NEW r PROVE Payments(r)' = Payments(r) \union PaidBy(m + 1, outs, r)
    BY <1>1, <1>2, IssuePayments
<1>14. NextTx = Txid(m + 1)
    BY DEF NextTx
<1> HIDE DEF n, m
<1>15. ASSUME NEW r \in 1..n PROVE PaidOnce(r)'
    <2>1. \A j \in DOMAIN outs : outs[j].req # r
        BY <1>7, <1>8
    <2>2. PaidBy(m + 1, outs, r) = {}
        BY <2>1, PaidByNone
    <2>3. Payments(r)' = Payments(r)
        BY <1>13, <2>2
    <2>4. PaidOnce(r)
        BY <1>8 DEF OwedInv, WithdrawalIsPaidOnce, PaidOnce
    <2> QED BY <1>1, <1>9, <1>12, <2>3, <2>4, PaidStays
<1>16. ASSUME NEW r, r = n + 1 PROVE PaidOnce(r)'
    <2> DEFINE o == <<m + 1, k>>
    <2>1. \A j \in DOMAIN outs : outs[j].req = r <=> j = k
        BY <1>7, <1>8, <1>16
    <2>2. PaidBy(m + 1, outs, r) = {o}
        BY <1>7, <2>1, PaidByOne
    <2>3. Payments(r)' = {o}
        BY <1>9, <1>13, <1>16, <2>2
    <2>4. o[1] = m + 1 /\ o[2] = k
        OBVIOUS
    <2> HIDE DEF o
    <2>5. r \notin queue'
        BY <1>1, <1>9, <1>16
    <2>6. /\ signing'[o[1]].outs[o[2]].account = request'[r].user
          /\ signing'[o[1]].edict # NoEdict /\ request'[r].amount = signing'[o[1]].outs[o[2]].runes
          /\ Txid(o[1]) = request'[r].txid
        BY <1>3, <1>7, <1>9, <1>11, <1>14, <1>16, <2>4
    <2>7. \E p \in Payments(r)' : Payments(r)' = {p} /\ Txid(p[1]) = request'[r].txid
              /\ signing'[p[1]].outs[p[2]].account = request'[r].user
              /\ request'[r].amount = IF signing'[p[1]].edict = NoEdict
                                      THEN signing'[p[1]].outs[p[2]].amount ELSE signing'[p[1]].outs[p[2]].runes
        BY <2>3, <2>6
    <2> QED BY <2>5, <2>7 DEF PaidOnce, Txid
<1>17. WithdrawalIsPaidOnce'
    <2>1. \A r \in 1..(n + 1) : r \in 1..n \/ r = n + 1
        BY <1>8
    <2>2. \A r \in DOMAIN request' : PaidOnce(r)'
        BY <1>8, <1>15, <1>16, <2>1
    <2> QED BY <2>2 DEF WithdrawalIsPaidOnce, PaidOnce
<1>18. PaidAreRequests'
    <2> SUFFICES ASSUME NEW s \in DOMAIN signing', NEW j \in DOMAIN signing'[s].outs
                 PROVE  signing'[s].outs[j].req \in 0..(n + 1)
        BY <1>8 DEF PaidAreRequests
    <2>1. CASE s \in DOMAIN signing
        <3>1. signing[s].outs[j].req \in 0..n
            BY <1>12, <2>1 DEF OwedInv, PaidAreRequests, n
        <3> QED BY <1>8, <1>12, <2>1, <3>1
    <2>2. CASE s = m + 1
        BY <1>7, <1>8, <1>11, <2>2
    <2> QED BY <1>10, <2>1, <2>2
<1>19. queue' \subseteq DOMAIN request'
    BY <1>1, <1>8 DEF OwedInv
<1> QED BY <1>8, <1>17, <1>18, <1>19 DEF OwedInv

\* A batch lists queued withdrawals, each of them once (handleBtcWithdrawRequests).
LEMMA BatchIs ==
    ASSUME OwedInv
    PROVE  /\ Len(Batch) \in Nat /\ DOMAIN Batch = 1..Len(Batch)
           /\ \A i \in DOMAIN Batch : Batch[i] \in queue
           /\ \A i, j \in DOMAIN Batch : Batch[i] = Batch[j] => i = j
           /\ \A r : r \in Range(Batch) <=> \E i \in DOMAIN Batch : Batch[i] = r
<1> DEFINE S == FirstOf(queue, MaxBatch)
<1>1. Len(request) \in Nat /\ DOMAIN request = 1..Len(request)
    BY RequestNumbers DEF OwedInv
<1>2. S \subseteq queue /\ S \subseteq 1..Len(request)
    BY <1>1 DEF FirstOf, OwedInv
<1>3. S \in SUBSET Int
    BY <1>1, <1>2
<1>4. IsFiniteSet(S)
    <2>1. IsFiniteSet(1..Len(request))
        BY <1>1, FS_Interval
    <2> HIDE DEF S
    <2> QED BY <1>2, <2>1, FS_Subset
<1>5. Batch = InOrder(S)
    BY DEF Batch
<1> HIDE DEF S
<1>6. InOrder(S) \in Seq(S)
    BY <1>3, <1>4, InOrderLists
<1>7. Len(Batch) \in Nat /\ DOMAIN Batch = 1..Len(Batch) /\ \A i \in DOMAIN Batch : Batch[i] \in S
    BY <1>5, <1>6
<1>8. \A i, j \in DOMAIN Batch : Batch[i] = Batch[j] => i = j
    BY <1>3, <1>4, <1>5, InOrderLists
<1>9. \A r : r \in Range(Batch) <=> \E i \in DOMAIN Batch : Batch[i] = r
    BY DEF Range
<1> QED BY <1>2, <1>7, <1>8, <1>9

\* A batch pays its withdrawals, each of them by one output, and takes them off the queue.
LEMMA BatchOwed ==
    ASSUME IInv, OwedInv, BatchTx.ok,
           IssueTransaction(BatchTx.selected, WithChange(BatchOuts, BatchTx, latest), NoEdict),
           request' = [r \in DOMAIN request |-> IF r \in Range(Batch) THEN [request[r] EXCEPT !.txid = NextTx] ELSE request[r]],
           queue' = Dequeued(queue)
    PROVE  OwedInv'
<1> DEFINE outs == WithChange(BatchOuts, BatchTx, latest)
           ins == BatchTx.selected
           n == Len(request)
           m == Len(signing)
           k == Len(Batch)
<1>1. IssueTransaction(ins, outs, NoEdict)
    OBVIOUS
<1>2. ins \subseteq index
    BY BuiltFromIndex DEF BatchTx
<1>3. n \in Nat /\ DOMAIN request = 1..n
    BY RequestNumbers DEF OwedInv
<1>4. k \in Nat /\ DOMAIN Batch = 1..k /\ \A i \in 1..k : Batch[i] \in queue /\ Batch[i] \in 1..n
    BY <1>3, BatchIs DEF OwedInv
<1>5. \A i, j \in 1..k : Batch[i] = Batch[j] => i = j
    BY <1>4, BatchIs
<1>6. \A r : r \in Range(Batch) <=> \E i \in 1..k : Batch[i] = r
    BY <1>4, BatchIs
<1>7. ASSUME NEW i \in 1..k
      PROVE  BatchOuts[i].req = Batch[i] /\ BatchOuts[i].account = request[Batch[i]].user
             /\ BatchOuts[i].amount = request[Batch[i]].amount
    <2>1. BatchOuts[i] = UserOut(request[Batch[i]].user, request[Batch[i]].amount, 0, Batch[i])
        BY <1>4 DEF BatchOuts
    <2> QED BY <2>1 DEF UserOut, Out
<1>8. /\ DOMAIN outs \in {1..k, 1..(k + 1)}
      /\ \A i \in 1..k : outs[i] = BatchOuts[i]
      /\ \A i \in DOMAIN outs \ 1..k : outs[i].req = 0
    <2> DEFINE out(i) == UserOut(request[Batch[i]].user, request[Batch[i]].amount, 0, Batch[i])
               S == {out(i) : i \in 1..k}
               b == [i \in 1..k |-> out(i)]
    <2>1. BatchOuts = b
        BY <1>4 DEF BatchOuts
    <2>2. b \in [1..k -> S] /\ k \in Nat
        <3> HIDE DEF out
        <3> QED BY <1>4
    <2> HIDE DEF b, S
    <2>3. b \in Seq(S) /\ Len(b) = k
        <3> HIDE DEF k
        <3> QED BY <2>2
    <2> HIDE DEF k
    <2> QED BY <2>1, <2>3, ChangePays
<1> HIDE DEF outs, ins
<1>9. m \in Nat /\ DOMAIN signing = 1..m /\ DOMAIN signing' = 1..(m + 1)
      /\ signing'[m + 1].outs = outs /\ signing'[m + 1].edict = NoEdict /\ NextTx = Txid(m + 1)
    BY <1>1, <1>2, IssuedLast
<1>10. /\ DOMAIN signing \subseteq DOMAIN signing'
       /\ \A s \in DOMAIN signing : signing'[s].outs = signing[s].outs /\ signing'[s].edict = signing[s].edict
    BY <1>1, <1>2, IssueKeeps
<1>11. ASSUME NEW r PROVE Payments(r)' = Payments(r) \union PaidBy(m + 1, outs, r)
    BY <1>1, <1>2, IssuePayments
<1>12. DOMAIN request' = 1..n /\ \A r \in 1..n \ Range(Batch) : request'[r] = request[r]
    BY <1>3
<1>13. PICK U, A, T : request \in Seq(RequestRecord(U, A, T))
    BY DEF OwedInv, RequestIsSeq
<1>14. \A r \in 1..n : request[r] \in RequestRecord(U, A, T)
    <2> DEFINE S == RequestRecord(U, A, T)
    <2>1. request \in Seq(S)
        BY <1>13
    <2> HIDE DEF S
    <2>2. \A r \in 1..n : request[r] \in S
        BY <2>1
    <2> QED BY <2>2 DEF S
<1>15. ASSUME NEW r \in Range(Batch)
       PROVE  /\ request'[r].txid = NextTx /\ request'[r].user = request[r].user /\ request'[r].amount = request[r].amount
              /\ request'[r] \in RequestRecord(U, A, T \union {NextTx})
    <2>1. r \in 1..n
        BY <1>4, <1>6
    <2>2. request'[r] = [request[r] EXCEPT !.txid = NextTx]
        BY <1>3, <2>1
    <2>3. request[r] \in RequestRecord(U, A, T)
        BY <1>14, <2>1
    <2> QED BY <2>2, <2>3 DEF RequestRecord
<1>16. RequestIsSeq' /\ Len(request') = n
    <2> DEFINE R == RequestRecord(U, A, T \union {NextTx})
    <2>1. \A r \in 1..n : request'[r] \in R
        <3>1. RequestRecord(U, A, T) \subseteq R
            BY DEF RequestRecord
        <3> HIDE DEF R
        <3>2. \A r \in Range(Batch) : request'[r] \in R
            BY <1>15 DEF R
        <3> QED BY <1>12, <1>14, <3>1, <3>2
    <2> HIDE DEF R
    <2> DEFINE f == request'
               h == n
    <2>2. f = [r \in 1..h |-> f[r]]
        BY <1>3
    <2>3. (\A r \in 1..h : f[r] \in R) /\ h \in Nat
        BY <1>3, <2>1
    <2> HIDE DEF f, h
    <2>4. f \in [1..h -> R]
        BY <2>2, <2>3
    <2>5. f \in Seq(R) /\ Len(f) = h
        BY <2>3, <2>4
    <2>6. \E UU, AA, TT : f \in Seq(RequestRecord(UU, AA, TT))
        BY <2>5 DEF R
    <2> QED BY <2>5, <2>6 DEF RequestIsSeq, RequestRecord, f, h
<1>17. queue' = queue \ Range(Batch)
    BY DEF Dequeued
<1> HIDE DEF n, m, k
<1>18. ASSUME NEW r \in 1..n, r \notin Range(Batch) PROVE PaidOnce(r)'
    <2>1. \A j \in DOMAIN outs : outs[j].req # r
        <3> SUFFICES ASSUME NEW j \in DOMAIN outs, outs[j].req = r PROVE FALSE
            OBVIOUS
        <3>1. CASE j \in 1..k
            BY <1>6, <1>7, <1>8, <1>18, <3>1
        <3>2. CASE j \notin 1..k
            BY <1>3, <1>8, <3>2
        <3> QED BY <3>1, <3>2
    <2>2. PaidBy(m + 1, outs, r) = {}
        BY <2>1, PaidByNone
    <2>3. Payments(r)' = Payments(r)
        BY <1>11, <2>2
    <2>4. PaidOnce(r)
        BY <1>3 DEF OwedInv, WithdrawalIsPaidOnce, PaidOnce
    <2>5. request'[r] = request[r] /\ (r \in queue' <=> r \in queue)
        BY <1>12, <1>17, <1>18
    <2> QED BY <1>10, <2>3, <2>4, <2>5, PaidStays
<1>19. ASSUME NEW r \in Range(Batch) PROVE PaidOnce(r)'
    <2>1. PICK i \in 1..k : Batch[i] = r
        BY <1>6
    <2>2. r \in queue /\ r \in 1..n
        BY <1>4, <2>1
    <2> DEFINE o == <<m + 1, i>>
    <2>3. i \in DOMAIN outs
        BY <1>4, <1>8
    <2>4. \A j \in DOMAIN outs : outs[j].req = r <=> j = i
        <3> SUFFICES ASSUME NEW j \in DOMAIN outs PROVE outs[j].req = r <=> j = i
            OBVIOUS
        <3>1. CASE j \in 1..k
            BY <1>5, <1>7, <1>8, <2>1, <3>1
        <3>2. CASE j \notin 1..k
            BY <1>3, <1>8, <2>2, <3>2
        <3> QED BY <3>1, <3>2
    <2>5. PaidBy(m + 1, outs, r) = {o}
        BY <2>3, <2>4, PaidByOne
    <2>6. Payments(r) = {}
        BY <1>3, <2>2 DEF OwedInv, WithdrawalIsPaidOnce
    <2>7. Payments(r)' = {o}
        BY <1>11, <2>5, <2>6
    <2>8. o[1] = m + 1 /\ o[2] = i
        OBVIOUS
    <2> HIDE DEF o
    <2>9. r \notin queue'
        BY <1>17
    <2>10. /\ signing'[o[1]].outs[o[2]].account = request'[r].user
           /\ signing'[o[1]].edict = NoEdict /\ request'[r].amount = signing'[o[1]].outs[o[2]].amount
           /\ Txid(o[1]) = request'[r].txid
        <3>1. signing'[o[1]].outs[o[2]] = BatchOuts[i] /\ signing'[o[1]].edict = NoEdict
            BY <1>8, <1>9, <2>8
        <3>2. BatchOuts[i].account = request[r].user /\ BatchOuts[i].amount = request[r].amount
            BY <1>7, <2>1
        <3>3. request'[r].user = request[r].user /\ request'[r].amount = request[r].amount /\ request'[r].txid = NextTx
            BY <1>15
        <3> QED BY <1>9, <2>8, <3>1, <3>2, <3>3
    <2>11. \E p \in Payments(r)' : Payments(r)' = {p} /\ Txid(p[1]) = request'[r].txid
              /\ signing'[p[1]].outs[p[2]].account = request'[r].user
              /\ request'[r].amount = IF signing'[p[1]].edict = NoEdict
                                      THEN signing'[p[1]].outs[p[2]].amount ELSE signing'[p[1]].outs[p[2]].runes
        BY <2>7, <2>10
    <2> QED BY <2>9, <2>11 DEF PaidOnce, Txid
<1>20. WithdrawalIsPaidOnce'
    <2>1. \A r \in DOMAIN request' : PaidOnce(r)'
        BY <1>12, <1>18, <1>19
    <2> QED BY <2>1 DEF WithdrawalIsPaidOnce, PaidOnce
<1>21. PaidAreRequests'
    <2> SUFFICES ASSUME NEW s \in DOMAIN signing', NEW j \in DOMAIN signing'[s].outs
                 PROVE  signing'[s].outs[j].req \in 0..n
        BY <1>16 DEF PaidAreRequests
    <2>1. CASE s \in DOMAIN signing
        BY <1>10, <2>1 DEF OwedInv, PaidAreRequests, n
    <2>2. CASE s = m + 1
        <3>1. CASE j \in 1..k
            BY <1>3, <1>4, <1>7, <1>8, <1>9, <2>2, <3>1
        <3>2. CASE j \notin 1..k
            BY <1>3, <1>8, <1>9, <2>2, <3>2
        <3> QED BY <3>1, <3>2
    <2> QED BY <1>9, <2>1, <2>2
<1>22. queue' \subseteq DOMAIN request'
    BY <1>3, <1>12, <1>17 DEF OwedInv
<1> QED BY <1>16, <1>20, <1>21, <1>22 DEF OwedInv

\* What a consolidation or a transfer pays to: vaults, and the payload of runes.
LEMMA TransferPays ==
    ASSUME NEW asset, NEW S, NEW dest, NEW tx
    PROVE  \A j \in DOMAIN TransferOuts(asset, S, dest, tx) : TransferOuts(asset, S, dest, tx)[j].req = 0
<1>1. ASSUME NEW a, NEW v, NEW x, NEW r PROVE VaultOut(a, v, x, r).req = 0
    BY DEF VaultOut, Out
<1>2. CASE asset = "BTC"
    <2> DEFINE v == VaultOut("BTC", dest, tx.change, 0)
    <2>1. TransferOuts(asset, S, dest, tx) = <<v>> /\ v.req = 0
        BY <1>1, <1>2 DEF TransferOuts
    <2> HIDE DEF v
    <2> QED BY <2>1
<1>3. CASE asset # "BTC"
    <2> DEFINE v == VaultOut("RUNES", dest, RunesOutValue, Runes(S))
               s == <<OpReturn, v>>
    <2>1. TransferOuts(asset, S, dest, tx) = WithChange(s, tx, dest) /\ v.req = 0
        BY <1>1, <1>3 DEF TransferOuts, TransferAllRunesOuts
    <2>2. OpReturn.req = 0
        BY DEF OpReturn, Out
    <2> HIDE DEF v
    <2>3. s \in Seq({OpReturn, v}) /\ Len(s) = 2 /\ s[1].req = 0 /\ s[2].req = 0
        BY <2>1, <2>2
    <2> HIDE DEF s
    <2>4. \A j \in 1..Len(s) : WithChange(s, tx, dest)[j] = s[j]
        BY <2>3, ChangePays
    <2>5. \A j \in DOMAIN WithChange(s, tx, dest) \ 1..Len(s) : WithChange(s, tx, dest)[j].req = 0
        BY <2>3, ChangePays
    <2>6. \A j \in 1..Len(s) : s[j].req = 0
        BY <2>3
    <2> QED BY <2>1, <2>4, <2>5, <2>6
<1> QED BY <1>2, <1>3

\* A consolidation or a transfer keeps both halves.
LEMMA TransferPaid ==
    ASSUME IInv, StoreInv, OwedInv, NEW asset, NEW S, NEW source, NEW dest, S \subseteq index,
           Transfer(asset, S, source, dest), request' = request, queue' = queue
    PROVE  StoreInv' /\ OwedInv'
<1> DEFINE tx == TransferTx(asset, S, source, dest)
<1>1. tx.ok /\ IssueTransaction(S \union tx.selected, TransferOuts(asset, S, dest, tx), NoEdict)
    BY DEF Transfer
<1>2. S \union tx.selected \subseteq index
    BY <1>1, TransferFromIndex
<1> HIDE DEF tx
<1>3. \A j \in DOMAIN TransferOuts(asset, S, dest, tx) : TransferOuts(asset, S, dest, tx)[j].req = 0
    BY TransferPays
<1> QED BY <1>1, <1>2, <1>3, IssueStore, MoveOwed

\* A proposed transaction pays vaults only (handleTransferVaultTx).
LEMMA PsbtPaid ==
    ASSUME IInv, StoreInv, OwedInv, NEW asset, NEW v, NEW w, NEW ins \in SUBSET DOMAIN utxo, NEW r,
           TransferVaultPsbt(asset, v, w, ins, r)
    PROVE  StoreInv' /\ OwedInv'
<1> DEFINE outs(fee) == IF asset = "BTC" THEN <<VaultOut("BTC", w, Value(ins) - fee, 0)>>
                        ELSE <<OpReturn, VaultOut("RUNES", w, RunesOutValue, Runes(ins)),
                               VaultOut("BTC", w, Value(ins) - RunesOutValue - fee, 0)>>
<1>1. ins \subseteq index
    <2>1. \A o \in ins : ~utxo[o].locked
        BY DEF TransferVaultPsbt
    <2> QED BY <2>1 DEF IInv, UnlockedIsIndexed
<1>2. PICK fee, edict : IssueTransaction(ins, outs(fee), edict)
    BY DEF TransferVaultPsbt
<1>3. request' = request /\ queue' = queue
    BY DEF TransferVaultPsbt, withdrawals
<1>4. ASSUME NEW a, NEW d, NEW x, NEW y PROVE VaultOut(a, d, x, y).req = 0
    BY DEF VaultOut, Out
<1>5. OpReturn.req = 0
    BY DEF OpReturn, Out
<1>6. \A j \in DOMAIN outs(fee) : outs(fee)[j].req = 0
    <2> DEFINE x == VaultOut("BTC", w, Value(ins) - fee, 0)
               y == VaultOut("RUNES", w, RunesOutValue, Runes(ins))
               z == VaultOut("BTC", w, Value(ins) - RunesOutValue - fee, 0)
    <2>1. x.req = 0 /\ y.req = 0 /\ z.req = 0
        BY <1>4
    <2>2. outs(fee) = IF asset = "BTC" THEN <<x>> ELSE <<OpReturn, y, z>>
        OBVIOUS
    <2> HIDE DEF x, y, z, outs
    <2> QED BY <1>5, <2>1, <2>2
<1> HIDE DEF outs
<1> QED BY <1>1, <1>2, <1>3, <1>6, IssueStore, MoveOwed

\* A step that leaves the ledger and the requests alone.
LEMMA QuietPaid ==
    ASSUME IInv, StoreInv, OwedInv, UNCHANGED ledger, request' = request, queue' = queue
    PROVE  StoreInv' /\ OwedInv'
<1>1. utxo' = utxo /\ index' = index /\ minted' = minted /\ signing' = signing
    BY DEF ledger
<1>2. StoreInv'
    BY <1>1 DEF StoreInv, UTXOsAreRecords, IsUTXO, SpendableIsConfirmed, ChangeIsMinted, Txid
<1>3. OwedInv'
    BY <1>1, QuietOwed
<1> QED BY <1>2, <1>3

\* Initially nothing is stored or owed.
LEMMA InitPaid == Init => StoreInv /\ OwedInv
<1> SUFFICES ASSUME Init PROVE StoreInv /\ OwedInv
    OBVIOUS
<1>1. DOMAIN utxo = {} /\ signing = <<>> /\ request = <<>> /\ queue = {}
    BY DEF Init, EmptyFunction
<1>2. DOMAIN signing = {} /\ DOMAIN request = {}
    BY <1>1
<1>3. RequestIsSeq
    BY <1>1 DEF RequestIsSeq
<1> QED BY <1>1, <1>2, <1>3 DEF StoreInv, OwedInv, UTXOsAreRecords, SpendableIsConfirmed, ChangeIsMinted,
           PaidAreRequests, WithdrawalIsPaidOnce

\* Every step keeps both halves.
LEMMA NextPaid == ASSUME IInv, StoreInv, OwedInv, [Next]_vars PROVE StoreInv' /\ OwedInv'
<1> DEFINE Goal == StoreInv' /\ OwedInv'
<1>0. ASSUME UNCHANGED ledger, request' = request, queue' = queue PROVE Goal
    BY <1>0, QuietPaid
<1>1. ASSUME NEW t \in Transactions, SubmitDepositTransaction(t) PROVE Goal
    <2>1. signing' = signing /\ request' = request /\ queue' = queue
        BY <1>1 DEF SubmitDepositTransaction, withdrawals
    <2> QED BY <1>1, <2>1, DepositStore, QuietOwed
<1>2. ASSUME NEW u, NEW a, WithdrawBtc(u, a) PROVE Goal
    <2>1. UNCHANGED ledger /\ NewWithdrawRequest(u, a - WithdrawFee, 0) /\ queue' = queue \union {NextRequest}
        BY <1>2 DEF WithdrawBtc
    <2>2. utxo' = utxo /\ index' = index /\ minted' = minted /\ signing' = signing
        BY <2>1 DEF ledger
    <2>3. StoreInv'
        BY <2>2 DEF StoreInv, UTXOsAreRecords, IsUTXO, SpendableIsConfirmed, ChangeIsMinted, Txid
    <2> QED BY <2>1, <2>2, <2>3, QueuedOwed
<1>3. ASSUME NEW u, NEW a, IBCReceivePacketCallback(u, a) PROVE Goal
    BY <1>0, <1>3 DEF IBCReceivePacketCallback
<1>4. ASSUME NEW u, NEW a \in RuneAmount, WithdrawRunes(u, a) PROVE Goal
    <2> DEFINE base == TargetRunesUTXOs(latest, a)
               outs == RunesOuts(u, a, Runes(base) - a)
               tx == BuildUnsignedTransaction(base, outs, latest)
    <2>1. tx.ok /\ IssueTransaction(base \union tx.selected, WithChange(outs, tx, latest), [out |-> Len(outs), amount |-> a])
        BY <1>4 DEF WithdrawRunes
    <2>2. base \union tx.selected \subseteq index
        BY <2>1, BuiltFromIndex, RunesFromIndex
    <2> HIDE DEF base, outs, tx
    <2>3. StoreInv'
        BY <2>1, <2>2, IssueStore
    <2> QED BY <1>4, <2>3, RunesOwed
<1>5. ASSUME NEW s \in DOMAIN signing, SubmitSignatures(s) PROVE Goal
    <2>1. request' = request /\ queue' = queue /\ signing' = [signing EXCEPT ![s].status = "BROADCASTED"]
        BY <1>5 DEF SubmitSignatures, withdrawals
    <2>2. "BROADCASTED" \in Status
        BY DEF Status
    <2>3. /\ DOMAIN signing' = DOMAIN signing
          /\ \A r \in DOMAIN signing : signing'[r].outs = signing[r].outs /\ signing'[r].edict = signing[r].edict
        BY <2>1, <2>2, StatusFields
    <2> QED BY <1>5, <2>1, <2>3, SignaturesStore, QuietOwed
<1>6. ASSUME NEW s \in DOMAIN signing, SubmitWithdrawTransaction(s) PROVE Goal
    <2>1. request' = request /\ queue' = queue /\ signing' = [signing EXCEPT ![s].status = "CONFIRMED"]
        BY <1>6 DEF SubmitWithdrawTransaction, ConfirmTransaction, withdrawals
    <2>2. "CONFIRMED" \in Status
        BY DEF Status
    <2>3. /\ DOMAIN signing' = DOMAIN signing
          /\ \A r \in DOMAIN signing : signing'[r].outs = signing[r].outs /\ signing'[r].edict = signing[r].edict
        BY <2>1, <2>2, StatusFields
    <2> QED BY <1>6, <2>1, <2>3, ConfirmStore, QuietOwed
<1>7. ASSUME NEW r, SubmitFeeRate(r) PROVE Goal
    BY <1>0, <1>7 DEF SubmitFeeRate, withdrawals
<1>8. ASSUME NEW p, UpdateParams(p) \/ UpdateIncentiveParams(p) PROVE Goal
    BY <1>0, <1>8 DEF UpdateParams, UpdateIncentiveParams, withdrawals
<1>9. ASSUME NEW asset, NEW v, NEW th, NEW n, ConsolidateVaults(asset, v, th, n) PROVE Goal
    <2>1. PICK S : S \subseteq Unlocked(asset, v) /\ Transfer(asset, S, v, v)
        BY <1>9 DEF ConsolidateVaults, UnlockedUpTo, kSubset
    <2>2. S \subseteq index
        BY <2>1 DEF Unlocked
    <2>3. request' = request /\ queue' = queue
        BY <1>9 DEF ConsolidateVaults, withdrawals
    <2> QED BY <2>1, <2>2, <2>3, TransferPaid
<1>10. ASSUME NEW asset, NEW v, NEW w, NEW n, TransferVault(asset, v, w, n) PROVE Goal
    <2>1. PICK S : S \subseteq Unlocked(asset, v) /\ Transfer(asset, S, v, w)
        BY <1>10 DEF TransferVault, TransferChoice, kSubset
    <2>2. S \subseteq index
        BY <2>1 DEF Unlocked
    <2>3. request' = request /\ queue' = queue
        BY <1>10 DEF TransferVault, withdrawals
    <2> QED BY <2>1, <2>2, <2>3, TransferPaid
<1>11. ASSUME NEW asset, NEW v, NEW w, NEW ins \in SUBSET DOMAIN utxo, NEW r, TransferVaultPsbt(asset, v, w, ins, r) PROVE Goal
    BY <1>11, PsbtPaid
<1>12. ASSUME NEW x, NEW y, EndBlocker(x, y) PROVE Goal
    <2>1. UNCHANGED ledger /\ UNCHANGED withdrawals
        BY <1>12, Zenon DEF EndBlocker
    <2> QED BY <1>0, <2>1 DEF withdrawals
<1>13. CASE HandleIBCWithdrawRequest
    <2>1. UNCHANGED ledger
        BY <1>13 DEF HandleIBCWithdrawRequest
    <2>2. CASE request' = request /\ queue' = queue
        BY <1>0, <2>1, <2>2
    <2>3. CASE AcceptIBCWithdraw(packets[Head(todo)])
        <3>1. PICK u, a : NewWithdrawRequest(u, a, 0) /\ queue' = queue \union {NextRequest}
            BY <2>3 DEF AcceptIBCWithdraw
        <3>2. utxo' = utxo /\ index' = index /\ minted' = minted /\ signing' = signing
            BY <2>1 DEF ledger
        <3>3. StoreInv'
            BY <3>2 DEF StoreInv, UTXOsAreRecords, IsUTXO, SpendableIsConfirmed, ChangeIsMinted, Txid
        <3> QED BY <3>1, <3>2, <3>3, QueuedOwed
    <2> QED BY <1>13, <2>2, <2>3 DEF HandleIBCWithdrawRequest
<1>14. CASE HandleBtcWithdrawRequests
    <2>1. CASE UNCHANGED <<ledger, request, queue, fees>>
        BY <1>0, <2>1
    <2>2. CASE /\ BatchIsDue(BatchTx)
               /\ IssueTransaction(BatchTx.selected, WithChange(BatchOuts, BatchTx, latest), NoEdict)
               /\ request' = [r \in DOMAIN request |->
                                 IF r \in Range(Batch) THEN [request[r] EXCEPT !.txid = NextTx] ELSE request[r]]
               /\ queue' = Dequeued(queue)
        <3>1. BatchTx.ok
            BY <2>2 DEF BatchIsDue
        <3>2. BatchTx.selected \subseteq index
            BY <3>1, BuiltFromIndex DEF BatchTx
        <3> QED BY <2>2, <3>1, <3>2, IssueStore, BatchOwed
    <2> QED BY <1>14, <2>1, <2>2 DEF HandleBtcWithdrawRequests
<1>15. CASE HandleVaultTransfer
    <2>1. request' = request /\ queue' = queue
        BY <1>15 DEF HandleVaultTransfer, withdrawals
    <2>2. CASE UNCHANGED ledger
        BY <1>0, <2>1, <2>2
    <2>3. CASE ~UNCHANGED ledger
        <3>1. PICK asset, v, S : S \in TransferChoice(asset, v, TargetNum) /\ Transfer(asset, S, v, latest)
            BY <1>15, <2>3 DEF HandleVaultTransfer
        <3>2. S \subseteq index
            BY <3>1 DEF TransferChoice, kSubset, Unlocked
        <3> QED BY <2>1, <3>1, <3>2, TransferPaid
    <2> QED BY <2>2, <2>3
<1>16. CASE NextBlock
    BY <1>0, <1>16 DEF NextBlock, withdrawals
<1>17. CASE UNCHANGED vars
    BY <1>0, <1>17 DEF vars, ledger
<1> QED BY <1>1, <1>2, <1>3, <1>4, <1>5, <1>6, <1>7, <1>8, <1>9, <1>10, <1>11, <1>12, <1>13, <1>14, <1>15, <1>16, <1>17 DEF Next

\* Neither an output nor a withdrawal is used twice, and what is selected for a payment exists
\* on Bitcoin (SpendUTXOs, lockChangeUTXOs, handleBtcWithdrawRequests, HandleRunesWithdrawal).
THEOREM NothingIsPaidTwiceHolds == Spec => []NothingIsPaidTwice
<1>1. IInv /\ StoreInv /\ OwedInv /\ [Next]_vars => (IInv /\ StoreInv /\ OwedInv)'
    BY NextInv, NextPaid
<1>2. Init => IInv /\ StoreInv /\ OwedInv
    BY InitInv, InitPaid
<1>3. IInv /\ StoreInv /\ OwedInv => NothingIsPaidTwice
    BY DEF IInv, StoreInv, OwedInv, NothingIsPaidTwice
<1> QED BY <1>1, <1>2, <1>3, PTL DEF Spec

----------------------------------------------------------------------------
(* Sums over finite sets *)

\* A set of subsets of S that contains every set whose proper subsets it contains is all of them.
LEMMA SubsetInduction ==
    ASSUME NEW S, IsFiniteSet(S), NEW A,
           \A T \in SUBSET S : (\A U \in SUBSET T : U # T => U \in A) => T \in A
    PROVE  \A T \in SUBSET S : T \in A
<1> DEFINE W == {T \in SUBSET S : T \notin A}
           R == StrictSubsetOrdering(S)
<1> SUFFICES ASSUME W # {} PROVE FALSE
    OBVIOUS
<1>1. IsWellFoundedOn(R, SUBSET S)
    <2>1. IsWellFoundedOn(R, FiniteSubsetsOf(S))
        BY FS_StrictSubsetOrderingWellFounded, Zenon
    <2>2. FiniteSubsetsOf(S) = SUBSET S
        BY FS_FiniteSubsetsOfFinite, Zenon
    <2> QED BY <2>1, <2>2, Zenon
<1>2. W \subseteq SUBSET S
    OBVIOUS
<1>3. \A T, U \in SUBSET S : U \subseteq T /\ U # T => <<U, T>> \in R
    BY DEF StrictSubsetOrdering
<1> HIDE DEF R
<1>4. PICK T \in W : \A U \in W : ~(<<U, T>> \in R)
    <2> DEFINE Q == SUBSET S
    <2>1. IsWellFoundedOn(R, Q)
        BY <1>1
    <2>2. W \subseteq Q /\ W # {}
        BY <1>2
    <2> HIDE DEF W, Q
    <2> QED BY ONLY <2>1, <2>2, WFMin, Zenon
<1>5. ASSUME NEW U \in SUBSET T, U # T PROVE U \in A
    <2>1. U \in SUBSET S /\ T \in SUBSET S
        BY <1>4
    <2>2. <<U, T>> \in R
        BY <1>3, <1>5, <2>1
    <2>3. U \notin W
        <3> HIDE DEF W
        <3> QED BY <1>4, <2>2
    <2> QED BY <2>1, <2>3
<1> QED BY <1>4, <1>5

\* The recursion that SumFunctionOnSet is defined by.
Pick(s) == CHOOSE x \in s : TRUE
Body(f, S, g) == [s \in SUBSET S |-> IF s = {} THEN 0 ELSE f[Pick(s)] + g[s \ {Pick(s)}]]
Iter(f, S) == CHOOSE g : g = Body(f, S, g)

LEMMA SumIsIter == \A f, S : SumFunctionOnSet(f, S) = Iter(f, S)[S]
    BY DEF SumFunctionOnSet, FoldFunctionOnSet, MapThenFoldSet, Iter, Body, Pick

LEMMA PickIn == \A s : s # {} => Pick(s) \in s
    BY DEF Pick

\* What the recursion computes for a set does not depend on the set it was started from.
LEMMA IterLocal ==
    ASSUME NEW f, NEW T, IsFiniteSet(T), NEW S, NEW P, T \subseteq S, T \subseteq P,
           NEW g, g = Body(f, S, g), NEW h, h = Body(f, P, h)
    PROVE  g[T] = h[T]
<1> DEFINE A == {U \in SUBSET T : g[U] = h[U]}
<1>1. \A U \in SUBSET T : (\A V \in SUBSET U : V # U => V \in A) => U \in A
    <2> SUFFICES ASSUME NEW U \in SUBSET T, \A V \in SUBSET U : V # U => V \in A PROVE g[U] = h[U]
        OBVIOUS
    <2>1. /\ g[U] = IF U = {} THEN 0 ELSE f[Pick(U)] + g[U \ {Pick(U)}]
          /\ h[U] = IF U = {} THEN 0 ELSE f[Pick(U)] + h[U \ {Pick(U)}]
        <3>1. U \in SUBSET S /\ U \in SUBSET P
            OBVIOUS
        <3> QED BY <3>1, Zenon DEF Body
    <2>2. CASE U = {}
        BY <2>1, <2>2
    <2>3. CASE U # {}
        <3>1. U \ {Pick(U)} \in A
            BY <2>3, PickIn
        <3> QED BY <2>1, <3>1
    <2> QED BY <2>2, <2>3
<1>2. \A U \in SUBSET T : U \in A
    <2> HIDE DEF A
    <2> QED BY <1>1, SubsetInduction
<1> QED BY <1>2

\* The recursion has a solution.
LEMMA IterExists ==
    ASSUME NEW f, NEW S, IsFiniteSet(S)
    PROVE  Iter(f, S) = Body(f, S, Iter(f, S))
<1> DEFINE A == {T \in SUBSET S : \E g : g = Body(f, T, g)}
<1>1. ASSUME NEW T \in A PROVE Iter(f, T) = Body(f, T, Iter(f, T))
    BY <1>1, Zenon DEF Iter
<1>2. \A T \in SUBSET S : (\A U \in SUBSET T : U # T => U \in A) => T \in A
    <2> SUFFICES ASSUME NEW T \in SUBSET S, \A U \in SUBSET T : U # T => U \in A
                 PROVE  \E g : g = Body(f, T, g)
        OBVIOUS
    <2> DEFINE h == [s \in SUBSET T |-> IF s = {} THEN 0
                                        ELSE f[Pick(s)] + Iter(f, s \ {Pick(s)})[s \ {Pick(s)}]]
    <2>1. ASSUME NEW u \in SUBSET T, u # T PROVE h[u] = Iter(f, u)[u]
        <3>1. Iter(f, u) = Body(f, u, Iter(f, u))
            BY <1>1, <2>1
        <3>2. Iter(f, u)[u] = IF u = {} THEN 0 ELSE f[Pick(u)] + Iter(f, u)[u \ {Pick(u)}]
            BY <3>1, Zenon DEF Body
        <3>3. CASE u = {}
            BY <3>2, <3>3
        <3>4. CASE u # {}
            <4> DEFINE v == u \ {Pick(u)}
            <4>1. v \subseteq u /\ v \in SUBSET T /\ v # T
                BY <3>4, PickIn
            <4>2. Iter(f, v) = Body(f, v, Iter(f, v))
                BY <1>1, <4>1
            <4>3. IsFiniteSet(v)
                BY <4>1, FS_Subset
            <4>4. Iter(f, u)[v] = Iter(f, v)[v]
                <5> HIDE DEF v
                <5> QED BY <3>1, <4>1, <4>2, <4>3, IterLocal
            <4> QED BY <3>2, <3>4, <4>4
        <3> QED BY <3>3, <3>4
    <2>2. ASSUME NEW s \in SUBSET T, s # {}
          PROVE  h[s \ {Pick(s)}] = Iter(f, s \ {Pick(s)})[s \ {Pick(s)}]
        <3>1. s \ {Pick(s)} \in SUBSET T /\ s \ {Pick(s)} # T
            BY <2>2, PickIn
        <3> HIDE DEF h
        <3> QED BY <2>1, <3>1
    <2>3. h = [s \in SUBSET T |-> IF s = {} THEN 0 ELSE f[Pick(s)] + h[s \ {Pick(s)}]]
        <3> DEFINE k == [s \in SUBSET T |-> IF s = {} THEN 0 ELSE f[Pick(s)] + h[s \ {Pick(s)}]]
        <3>1. DOMAIN h = DOMAIN k
            OBVIOUS
        <3>2. \A s \in SUBSET T : h[s] = k[s]
            BY <2>2
        <3> QED BY <3>1, <3>2
    <2> HIDE DEF h
    <2> QED BY <2>3 DEF Body
<1>3. S \in A
    <2> HIDE DEF A
    <2> QED BY <1>2, SubsetInduction
<1> QED BY <1>1, <1>3

\* A sum is the sum without some element, and that element.
LEMMA SumPicks ==
    ASSUME NEW f, NEW S, IsFiniteSet(S)
    PROVE  /\ S = {} => SumFunctionOnSet(f, S) = 0
           /\ S # {} => SumFunctionOnSet(f, S) = f[Pick(S)] + SumFunctionOnSet(f, S \ {Pick(S)})
<1> DEFINE g == Iter(f, S)
           T == S \ {Pick(S)}
<1>1. g = Body(f, S, g)
    BY IterExists
<1> HIDE DEF g
<1>2. g[S] = IF S = {} THEN 0 ELSE f[Pick(S)] + g[S \ {Pick(S)}]
    BY <1>1, Zenon DEF Body
<1>3. IsFiniteSet(T) /\ T \subseteq S
    BY FS_Subset
<1>4. Iter(f, T) = Body(f, T, Iter(f, T))
    BY <1>3, IterExists
<1>5. g[T] = Iter(f, T)[T]
    <2> HIDE DEF T
    <2> QED BY <1>1, <1>3, <1>4, IterLocal
<1> QED BY <1>2, <1>5, SumIsIter DEF g

\* Sums of integers are integers, and sums of natural numbers are natural numbers.
LEMMA SumType ==
    ASSUME NEW f, NEW S, IsFiniteSet(S)
    PROVE  /\ (\A x \in S : f[x] \in Int) => SumFunctionOnSet(f, S) \in Int
           /\ (\A x \in S : f[x] \in Nat) => SumFunctionOnSet(f, S) \in Nat
<1> DEFINE Sum(T) == SumFunctionOnSet(f, T)
           A == {T \in SUBSET S : /\ (\A x \in T : f[x] \in Int) => Sum(T) \in Int
                                  /\ (\A x \in T : f[x] \in Nat) => Sum(T) \in Nat}
<1>1. \A T \in SUBSET S : (\A U \in SUBSET T : U # T => U \in A) => T \in A
    <2> SUFFICES ASSUME NEW T \in SUBSET S, \A U \in SUBSET T : U # T => U \in A PROVE T \in A
        OBVIOUS
    <2>1. IsFiniteSet(T)
        BY FS_Subset
    <2>2. CASE T = {}
        <3>1. Sum(T) = 0
            BY <2>1, <2>2, SumPicks
        <3> HIDE DEF Sum
        <3> QED BY <3>1
    <2>3. CASE T # {}
        <3>1. T \ {Pick(T)} \in A /\ Pick(T) \in T
            BY <2>3, PickIn
        <3>2. Sum(T) = f[Pick(T)] + Sum(T \ {Pick(T)})
            BY <2>1, <2>3, SumPicks
        <3> HIDE DEF Sum
        <3> QED BY <3>1, <3>2
    <2> QED BY <2>2, <2>3
<1>2. S \in A
    <2> HIDE DEF A
    <2> QED BY <1>1, SubsetInduction
<1> QED BY <1>2

\* The sum depends on the values of the elements only.
LEMMA SumSame ==
    ASSUME NEW f, NEW g, NEW S, IsFiniteSet(S), \A x \in S : f[x] = g[x]
    PROVE  SumFunctionOnSet(f, S) = SumFunctionOnSet(g, S)
<1> DEFINE A == {T \in SUBSET S : SumFunctionOnSet(f, T) = SumFunctionOnSet(g, T)}
<1>1. \A T \in SUBSET S : (\A U \in SUBSET T : U # T => U \in A) => T \in A
    <2> SUFFICES ASSUME NEW T \in SUBSET S, \A U \in SUBSET T : U # T => U \in A PROVE T \in A
        OBVIOUS
    <2>1. IsFiniteSet(T)
        BY FS_Subset
    <2>2. CASE T = {}
        BY <2>1, <2>2, SumPicks
    <2>3. CASE T # {}
        <3>1. T \ {Pick(T)} \in A /\ Pick(T) \in T
            BY <2>3, PickIn
        <3>2. /\ SumFunctionOnSet(f, T) = f[Pick(T)] + SumFunctionOnSet(f, T \ {Pick(T)})
              /\ SumFunctionOnSet(g, T) = g[Pick(T)] + SumFunctionOnSet(g, T \ {Pick(T)})
            BY <2>1, <2>3, SumPicks
        <3> QED BY <3>1, <3>2
    <2> QED BY <2>2, <2>3
<1>2. S \in A
    <2> HIDE DEF A
    <2> QED BY <1>1, SubsetInduction
<1> QED BY <1>2

\* Any element can be taken out of a sum of integers first.
LEMMA SumRemove ==
    ASSUME NEW f, NEW S, IsFiniteSet(S), \A x \in S : f[x] \in Int, NEW e \in S
    PROVE  SumFunctionOnSet(f, S) = f[e] + SumFunctionOnSet(f, S \ {e})
<1> DEFINE Sum(T) == SumFunctionOnSet(f, T)
           A == {T \in SUBSET S : \A x \in T : Sum(T) = f[x] + Sum(T \ {x})}
<1>1. \A T \in SUBSET S : (\A U \in SUBSET T : U # T => U \in A) => T \in A
    <2> SUFFICES ASSUME NEW T \in SUBSET S, \A U \in SUBSET T : U # T => U \in A, NEW x \in T
                 PROVE  Sum(T) = f[x] + Sum(T \ {x})
        OBVIOUS
    <2> DEFINE y == Pick(T)
    <2>1. y \in T /\ Sum(T) = f[y] + Sum(T \ {y})
        BY FS_Subset, PickIn, SumPicks
    <2> HIDE DEF y
    <2>2. CASE x = y
        BY <2>1, <2>2
    <2>3. CASE x # y
        <3>1. T \ {x} \in A /\ T \ {y} \in A
            BY <2>1
        <3>2. Sum(T \ {x}) = f[y] + Sum((T \ {x}) \ {y}) /\ Sum(T \ {y}) = f[x] + Sum((T \ {y}) \ {x})
            BY <2>1, <2>3, <3>1
        <3>3. (T \ {x}) \ {y} = (T \ {y}) \ {x}
            OBVIOUS
        <3>4. IsFiniteSet((T \ {y}) \ {x})
            BY FS_Subset
        <3>5. Sum((T \ {y}) \ {x}) \in Int
            BY <3>4, SumType
        <3> DEFINE a == Sum((T \ {y}) \ {x})
        <3>6. Sum(T) = f[y] + (f[x] + a) /\ Sum(T \ {x}) = f[y] + a
            BY <2>1, <3>2, <3>3
        <3>7. a \in Int /\ f[x] \in Int /\ f[y] \in Int
            BY <2>1, <3>5
        <3> HIDE DEF Sum, a
        <3> QED BY <3>6, <3>7
    <2> QED BY <2>2, <2>3
<1>2. S \in A
    <2> HIDE DEF A
    <2> QED BY <1>1, SubsetInduction
<1> QED BY <1>2

\* The sum of a function follows a change of one of its values.
LEMMA SumUpdate ==
    ASSUME NEW S, IsFiniteSet(S), NEW f, NEW g, DOMAIN f = S, DOMAIN g = S, NEW e \in S,
           \A x \in S : f[x] \in Int /\ g[x] \in Int, \A x \in S \ {e} : g[x] = f[x]
    PROVE  SumFunction(f) \in Int /\ SumFunction(g) = SumFunction(f) - f[e] + g[e]
<1>1. IsFiniteSet(S \ {e})
    BY FS_Subset
<1>2. SumFunctionOnSet(f, S \ {e}) = SumFunctionOnSet(g, S \ {e}) /\ SumFunctionOnSet(f, S \ {e}) \in Int
    BY <1>1, SumSame, SumType
<1>3. /\ SumFunctionOnSet(f, S) = f[e] + SumFunctionOnSet(f, S \ {e})
      /\ SumFunctionOnSet(g, S) = g[e] + SumFunctionOnSet(g, S \ {e})
    BY SumRemove
<1> QED BY <1>2, <1>3 DEF SumFunction

\* The sum over two disjoint sets.
LEMMA SumUnion ==
    ASSUME NEW f, NEW S, IsFiniteSet(S), NEW P, IsFiniteSet(P), S \cap P = {}, \A x \in S \cup P : f[x] \in Int
    PROVE  SumFunctionOnSet(f, S \cup P) = SumFunctionOnSet(f, S) + SumFunctionOnSet(f, P)
<1> DEFINE Sum(T) == SumFunctionOnSet(f, T)
           A == {T \in SUBSET P : Sum(S \cup T) = Sum(S) + Sum(T)}
<1>1. \A T \in SUBSET P : (\A U \in SUBSET T : U # T => U \in A) => T \in A
    <2> SUFFICES ASSUME NEW T \in SUBSET P, \A U \in SUBSET T : U # T => U \in A
                 PROVE  Sum(S \cup T) = Sum(S) + Sum(T)
        OBVIOUS
    <2>1. IsFiniteSet(T) /\ IsFiniteSet(S \cup T)
        BY FS_Subset, FS_Union
    <2>2. Sum(S) \in Int
        BY SumType
    <2>3. CASE T = {}
        <3>1. Sum(T) = 0
            BY <2>1, <2>3, SumPicks
        <3>2. Sum(S \cup T) = Sum(S)
            <4>1. S \cup T = S
                BY <2>3
            <4> HIDE DEF Sum
            <4> QED BY <4>1, Zenon
        <3> HIDE DEF Sum
        <3> QED BY <2>2, <3>1, <3>2
    <2>4. CASE T # {}
        <3> DEFINE x == Pick(T)
        <3>1. x \in T
            BY <2>4, PickIn
        <3> HIDE DEF x
        <3>2. (S \cup T) \ {x} = S \cup (T \ {x})
            BY <3>1
        <3>3. Sum(S \cup T) = f[x] + Sum((S \cup T) \ {x})
            BY <2>1, <3>1, SumRemove
        <3>4. Sum(T) = f[x] + Sum(T \ {x})
            BY <2>1, <3>1, SumRemove
        <3>5. Sum(S \cup (T \ {x})) = Sum(S) + Sum(T \ {x})
            BY <3>1
        <3>6. Sum(T \ {x}) \in Int /\ f[x] \in Int
            <4>1. IsFiniteSet(T \ {x})
                BY <2>1, FS_Subset
            <4> QED BY <3>1, <4>1, SumType
        <3>7. Sum((S \cup T) \ {x}) = Sum(S \cup (T \ {x}))
            <4> HIDE DEF Sum
            <4> QED BY <3>2, Zenon
        <3> DEFINE a == Sum(S)
                   b == Sum(T)
                   c == Sum(T \ {x})
                   d == Sum(S \cup T)
                   e == f[x]
        <3>8. a \in Int /\ c \in Int /\ e \in Int /\ b = e + c /\ d = e + (a + c)
            <4>1. d = e + Sum(S \cup (T \ {x}))
                BY <3>3, <3>7
            <4> QED BY <2>2, <3>4, <3>5, <3>6, <4>1
        <3>9. d = a + b
            <4> HIDE DEF a, b, c, d, e
            <4> QED BY <3>8
        <3> QED BY <3>9
    <2> QED BY <2>3, <2>4
<1>2. P \in A
    <2> HIDE DEF A
    <2> QED BY <1>1, SubsetInduction
<1> QED BY <1>2

\* Elements leave a set and others enter it.
LEMMA SumExchange ==
    ASSUME NEW D, IsFiniteSet(D), NEW R \in SUBSET D, NEW C, IsFiniteSet(C), C \cap D = {}, NEW f, NEW g,
           \A x \in D : f[x] \in Int, \A x \in C : g[x] \in Int, \A x \in D \ R : g[x] = f[x]
    PROVE  /\ SumFunctionOnSet(f, D) \in Int /\ SumFunctionOnSet(f, R) \in Int /\ SumFunctionOnSet(g, C) \in Int
           /\ SumFunctionOnSet(g, (D \ R) \cup C)
              = SumFunctionOnSet(f, D) - SumFunctionOnSet(f, R) + SumFunctionOnSet(g, C)
<1> DEFINE K == D \ R
<1>1. IsFiniteSet(K) /\ IsFiniteSet(R)
    BY FS_Subset
<1>2. K \cup R = D /\ K \cap R = {} /\ K \cap C = {} /\ \A x \in K : f[x] \in Int /\ g[x] = f[x]
    OBVIOUS
<1> HIDE DEF K
<1>3. SumFunctionOnSet(g, K \cup C) = SumFunctionOnSet(g, K) + SumFunctionOnSet(g, C)
    BY <1>1, <1>2, SumUnion
<1>4. SumFunctionOnSet(g, K) = SumFunctionOnSet(f, K)
    BY <1>1, <1>2, SumSame
<1>5. SumFunctionOnSet(f, D) = SumFunctionOnSet(f, K) + SumFunctionOnSet(f, R)
    BY <1>1, <1>2, SumUnion
<1>6. SumFunctionOnSet(f, K) \in Int /\ SumFunctionOnSet(f, R) \in Int /\ SumFunctionOnSet(g, C) \in Int
      /\ SumFunctionOnSet(f, D) \in Int
    BY <1>1, <1>2, SumType
<1> QED BY <1>3, <1>4, <1>5, <1>6 DEF K

\* The sum does not depend on how its elements are named: h names the elements of J by those of S.
Names(h, S, J) ==
    /\ \A y : y \in J <=> \E x \in S : y = h[x]
    /\ \A x, y \in S : h[x] = h[y] => x = y
LEMMA SumReindex ==
    ASSUME NEW S, IsFiniteSet(S), NEW h, NEW J, Names(h, S, J), NEW f, NEW g,
           \A x \in S : f[x] \in Int /\ g[h[x]] = f[x]
    PROVE  IsFiniteSet(J) /\ SumFunctionOnSet(g, J) = SumFunctionOnSet(f, S)
<1> USE DEF Names
<1> DEFINE Im(T) == {h[x] : x \in T}
           A == {T \in SUBSET S : IsFiniteSet(Im(T)) /\ SumFunctionOnSet(g, Im(T)) = SumFunctionOnSet(f, T)}
<1>1. \A T \in SUBSET S : (\A U \in SUBSET T : U # T => U \in A) => T \in A
    <2> SUFFICES ASSUME NEW T \in SUBSET S, \A U \in SUBSET T : U # T => U \in A
                 PROVE  IsFiniteSet(Im(T)) /\ SumFunctionOnSet(g, Im(T)) = SumFunctionOnSet(f, T)
        OBVIOUS
    <2>1. IsFiniteSet(T)
        BY FS_Subset
    <2>2. CASE T = {}
        <3>1. Im(T) = {}
            BY <2>2
        <3>2. SumFunctionOnSet(g, {}) = 0 /\ SumFunctionOnSet(f, {}) = 0 /\ IsFiniteSet({})
            BY SumPicks, FS_EmptySet
        <3> HIDE DEF Im
        <3> QED BY <2>2, <3>1, <3>2
    <2>3. CASE T # {}
        <3> DEFINE x == Pick(T)
        <3>1. x \in T
            BY <2>3, PickIn
        <3> HIDE DEF x
        <3>2. T \ {x} \in A
            BY <3>1
        <3>3. Im(T) = Im(T \ {x}) \cup {h[x]} /\ h[x] \notin Im(T \ {x}) /\ h[x] \in Im(T)
            BY <3>1
        <3>4. \A y \in Im(T) : g[y] \in Int
            OBVIOUS
        <3>5. IsFiniteSet(Im(T \ {x})) /\ SumFunctionOnSet(g, Im(T \ {x})) = SumFunctionOnSet(f, T \ {x})
            BY <3>2
        <3> HIDE DEF Im
        <3>6. IsFiniteSet(Im(T)) /\ Im(T) \ {h[x]} = Im(T \ {x})
            <4> DEFINE I == Im(T \ {x})
                       e == h[x]
            <4>1. IsFiniteSet(I \cup {e})
                <5>1. IsFiniteSet(I)
                    BY <3>5
                <5> HIDE DEF I, e
                <5> QED BY <5>1, FS_AddElement
            <4> QED BY <3>3, <4>1
        <3>7. SumFunctionOnSet(g, Im(T)) = g[h[x]] + SumFunctionOnSet(g, Im(T) \ {h[x]})
            <4> DEFINE I == Im(T)
                       e == h[x]
            <4>1. IsFiniteSet(I) /\ e \in I /\ \A y \in I : g[y] \in Int
                BY <3>3, <3>4, <3>6
            <4> HIDE DEF I, e
            <4>2. SumFunctionOnSet(g, I) = g[e] + SumFunctionOnSet(g, I \ {e})
                BY <4>1, SumRemove
            <4> QED BY <4>2 DEF I, e
        <3>8. SumFunctionOnSet(f, T) = f[x] + SumFunctionOnSet(f, T \ {x})
            BY <2>1, <3>1, SumRemove
        <3> QED BY <3>1, <3>5, <3>6, <3>7, <3>8
    <2> QED BY <2>2, <2>3
<1>2. S \in A
    <2> HIDE DEF A
    <2> QED BY <1>1, SubsetInduction
<1>3. Im(S) = J
    OBVIOUS
<1> HIDE DEF Im
<1> QED BY <1>2, <1>3

\* What is named by a finite set is finite.
LEMMA NamesFinite == ASSUME NEW S, IsFiniteSet(S), NEW h, NEW J, Names(h, S, J) PROVE IsFiniteSet(J)
<1> DEFINE f == [x \in S |-> 0]
           g == [y \in J |-> 0]
<1>1. \A x \in S : f[x] \in Int /\ g[h[x]] = f[x]
    BY DEF Names
<1> HIDE DEF f, g
<1> QED BY <1>1, SumReindex

\* The sum over one element, and over none.
LEMMA SumSmall ==
    ASSUME NEW f
    PROVE  /\ SumFunctionOnSet(f, {}) = 0
           /\ \A x : f[x] \in Int => SumFunctionOnSet(f, {x}) = f[x]
<1>1. SumFunctionOnSet(f, {}) = 0
    BY SumPicks, FS_EmptySet
<1>2. ASSUME NEW x, f[x] \in Int PROVE SumFunctionOnSet(f, {x}) = f[x]
    <2> DEFINE S == {x}
    <2>1. IsFiniteSet(S) /\ x \in S /\ S \ {x} = {} /\ \A y \in S : f[y] \in Int
        BY <1>2, FS_Singleton
    <2>2. SumFunctionOnSet(f, S) = f[x] + SumFunctionOnSet(f, S \ {x})
        <3> HIDE DEF S
        <3> QED BY <2>1, SumRemove
    <2> QED BY <1>1, <1>2, <2>1, <2>2
<1> QED BY <1>1, <1>2

\* A sum of zeros.
LEMMA SumZero == ASSUME NEW f, NEW S, IsFiniteSet(S), \A x \in S : f[x] = 0 PROVE SumFunctionOnSet(f, S) = 0
<1> DEFINE A == {T \in SUBSET S : SumFunctionOnSet(f, T) = 0}
<1>1. \A T \in SUBSET S : (\A U \in SUBSET T : U # T => U \in A) => T \in A
    <2> SUFFICES ASSUME NEW T \in SUBSET S, \A U \in SUBSET T : U # T => U \in A
                 PROVE  SumFunctionOnSet(f, T) = 0
        OBVIOUS
    <2>1. IsFiniteSet(T)
        BY FS_Subset
    <2>2. CASE T = {}
        BY <2>1, <2>2, SumPicks
    <2>3. CASE T # {}
        <3>1. T \ {Pick(T)} \in A /\ Pick(T) \in T
            BY <2>3, PickIn
        <3>2. SumFunctionOnSet(f, T) = f[Pick(T)] + SumFunctionOnSet(f, T \ {Pick(T)})
            BY <2>1, <2>3, SumPicks
        <3>3. f[Pick(T)] = 0
            BY <3>1
        <3> QED BY <3>1, <3>2, <3>3
    <2> QED BY <2>2, <2>3
<1>2. S \in A
    <2> HIDE DEF A
    <2> QED BY <1>1, SubsetInduction
<1> QED BY <1>2

----------------------------------------------------------------------------
(* The vouchers are backed *)

\* A bounded set of natural numbers has a greatest element.
LEMMA MaxIn == ASSUME NEW n \in Nat, NEW S \in SUBSET (1..n), S # {} PROVE Max(S) \in S
<1> DEFINE D == {n - x : x \in S}
<1>1. D \in SUBSET Nat /\ D # {}
    <2>1. \A x \in S : n - x \in Nat
        OBVIOUS
    <2> QED BY <2>1
<1>2. Min(D) \in D /\ \A y \in D : Min(D) =< y
    <2> HIDE DEF D
    <2> QED BY <1>1, MinIn
<1>3. PICK x \in S : Min(D) = n - x
    BY <1>2
<1>4. \A y \in S : x >= y
    <2> SUFFICES ASSUME NEW y \in S PROVE x >= y
        OBVIOUS
    <2>1. n - y \in D
        OBVIOUS
    <2>2. n - x =< n - y
        BY <1>2, <1>3, <2>1
    <2> QED BY <2>2
<1>5. \E z \in S : \A y \in S : z >= y
    BY <1>4
<1> QED BY <1>5, Zenon DEF Max

\* The parts of a well typed state: the UTXOs, the requests, the vouchers and the rest.
UTXORecord == [asset : Asset, version : 0..latest, amount : Nat, runes : Nat, locked : BOOLEAN]
LedgerOK ==
    /\ IsFiniteSet(DOMAIN utxo) /\ DOMAIN utxo \subseteq Transactions \X Nat /\ index \subseteq DOMAIN utxo
    /\ \A o \in DOMAIN utxo : utxo[o] \in UTXORecord
    /\ \A o \in DOMAIN utxo : utxo[o].asset = "BTC" => utxo[o].runes = 0
    /\ minted \subseteq Transactions
    /\ \A s \in DOMAIN signing : signing[s].status \in Status
RequestsOK ==
    /\ \A r \in DOMAIN request : request[r] \in [user : User, amount : Nat, txid : {0} \union Transactions]
    /\ queue \subseteq DOMAIN request
PacketsOK ==
    /\ ibcQueue \subseteq DOMAIN packets
    /\ packets \in Seq([user : User, amount : Nat])
    /\ phase = "withdrawals" => todo \in Seq(DOMAIN packets)
FeesType == [carried : Nat, spare : Nat, moved : Nat, excess : Nat]
BankOK == balance \in [Account -> Nat] /\ runes \in [Account -> Nat]
ConfigOK ==
    /\ feeRate \in [value : {0} \union FeeRate, age : 0..(Validity + 1)] /\ height \in 0..(Period - 1)
    /\ enabled \in Enabled /\ latest \in 0..MaxVersion /\ transfers \subseteq 0..(latest - 1)
    /\ phase \in {"txs", "withdrawals", "transfer"} /\ fees \in FeesType
Typed == LedgerOK /\ RequestsOK /\ PacketsOK /\ BankOK /\ ConfigOK

LEMMA TypedIsTyped == Typed => TypeOK
BY DEF Typed, LedgerOK, RequestsOK, PacketsOK, BankOK, ConfigOK, FeesType, TypeOK, UTXORecord, Status

\* What the vaults have too much or lack, and how the history of the fees changes it.
Slack == fees.carried + fees.spare - fees.moved - fees.excess
LEMMA SlackIsInt == ASSUME fees \in FeesType PROVE Slack \in Int
BY DEF FeesType, Slack
LEMMA SameSlack == ASSUME fees' = fees PROVE Slack' = Slack
BY DEF Slack
LEMMA SlackGrows ==
    ASSUME fees \in FeesType, NEW n \in Nat, fees' = SetAside(n) \/ fees' = Carry(n)
    PROVE  fees' \in FeesType /\ Slack' = Slack + n /\ Slack \in Int /\ Slack' \in Int
BY DEF FeesType, Slack, SetAside, Carry
LEMMA SlackShrinks ==
    ASSUME fees \in FeesType, NEW n \in Nat, fees' = PayForMove(n) \/ fees' = PayForBatch(n)
    PROVE  fees' \in FeesType /\ Slack' = Slack - n /\ Slack \in Int /\ Slack' \in Int
<1>1. CASE fees' = PayForMove(n)
    BY <1>1 DEF FeesType, Slack, PayForMove
<1>2. CASE fees' = PayForBatch(n) /\ n <= fees.spare
    BY <1>2 DEF FeesType, Slack, PayForBatch
<1>3. CASE fees' = PayForBatch(n) /\ ~(n <= fees.spare)
    <2>1. /\ fees' = [fees EXCEPT !.spare = 0, !.excess = @ + (n - fees.spare)]
          /\ n \in Nat /\ fees.spare \in Nat /\ fees.excess \in Nat /\ n > fees.spare
        BY <1>3 DEF FeesType, PayForBatch
    <2>2. n - fees.spare \in Nat /\ fees.excess + (n - fees.spare) \in Nat
        BY <2>1
    <2>3. /\ fees'.spare = 0 /\ fees'.excess = fees.excess + (n - fees.spare)
          /\ fees'.carried = fees.carried /\ fees'.moved = fees.moved /\ fees' \in FeesType
        BY <2>1, <2>2 DEF FeesType
    <2>4. /\ fees.carried \in Nat /\ fees.moved \in Nat
        BY DEF FeesType
    <2> QED BY <2>1, <2>3, <2>4 DEF Slack
<1> QED BY <1>1, <1>2, <1>3

\* The sums, over functions that do not depend on what is summed.
AmountOf == [o \in DOMAIN utxo |-> utxo[o].amount]
RunesOf == [o \in DOMAIN utxo |-> utxo[o].runes]
OwedOf == [r \in DOMAIN request |-> request[r].amount]
Stored == Value(DOMAIN utxo)
StoredRunes == Runes(DOMAIN utxo)
Owed == SumOver(queue, LAMBDA r : request[r].amount)
Vouchers == SumOver(Account, LAMBDA a : balance[a])
RuneVouchers == SumOver(Account, LAMBDA a : runes[a])

LEMMA ValueIs ==
    ASSUME LedgerOK, NEW S \in SUBSET DOMAIN utxo
    PROVE  /\ Value(S) = SumFunctionOnSet(AmountOf, S) /\ Value(S) \in Nat
           /\ Runes(S) = SumFunctionOnSet(RunesOf, S) /\ Runes(S) \in Nat
<1>1. IsFiniteSet(S)
    BY FS_Subset DEF LedgerOK
<1>2. \A o \in S : AmountOf[o] = utxo[o].amount /\ utxo[o].amount \in Nat
    BY DEF LedgerOK, UTXORecord, AmountOf
<1>3. \A o \in S : RunesOf[o] = utxo[o].runes /\ utxo[o].runes \in Nat
    BY DEF LedgerOK, UTXORecord, RunesOf
<1> DEFINE f == [o \in S |-> utxo[o].amount]
           g == [o \in S |-> utxo[o].runes]
<1>4. Value(S) = SumFunctionOnSet(f, S) /\ Runes(S) = SumFunctionOnSet(g, S)
    BY DEF Value, Runes, SumOver, Satoshis, RunesIn, SumFunction
<1>5. /\ \A o \in S : f[o] = AmountOf[o] /\ AmountOf[o] \in Nat
      /\ \A o \in S : g[o] = RunesOf[o] /\ RunesOf[o] \in Nat
    BY <1>2, <1>3
<1> HIDE DEF f, g
<1>6. SumFunctionOnSet(f, S) = SumFunctionOnSet(AmountOf, S) /\ SumFunctionOnSet(g, S) = SumFunctionOnSet(RunesOf, S)
    BY <1>1, <1>5, SumSame
<1>7. SumFunctionOnSet(AmountOf, S) \in Nat /\ SumFunctionOnSet(RunesOf, S) \in Nat
    BY <1>1, <1>5, SumType
<1> QED BY <1>4, <1>6, <1>7

LEMMA OwedIs ==
    ASSUME RequestIsSeq, RequestsOK, NEW S \in SUBSET DOMAIN request
    PROVE  /\ IsFiniteSet(S) /\ SumFunctionOnSet(OwedOf, S) \in Nat
           /\ SumOver(S, LAMBDA r : request[r].amount) = SumFunctionOnSet(OwedOf, S)
<1>1. IsFiniteSet(S)
    <2>1. IsFiniteSet(DOMAIN request)
        BY RequestNumbers, FS_Interval
    <2> QED BY <2>1, FS_Subset
<1> DEFINE f == [r \in S |-> request[r].amount]
<1>2. \A r \in S : f[r] = OwedOf[r] /\ OwedOf[r] \in Nat
    BY DEF RequestsOK, OwedOf
<1>3. SumOver(S, LAMBDA r : request[r].amount) = SumFunctionOnSet(f, S)
    BY DEF SumOver, SumFunction
<1> HIDE DEF f
<1>4. SumFunctionOnSet(f, S) = SumFunctionOnSet(OwedOf, S) /\ SumFunctionOnSet(OwedOf, S) \in Nat
    BY <1>1, <1>2, SumSame, SumType
<1> QED BY <1>1, <1>3, <1>4

\* The accounts are finitely many, and the sum follows two changes.
LEMMA AccountIsFinite == IsFiniteSet(Account)
<1>1. IsFiniteSet(User) /\ IsFiniteSet({Collector, Module, Escrow})
    <2>1. IsFiniteSet({Collector} \union {Module} \union {Escrow})
        BY FS_Singleton, FS_Union
    <2>2. {Collector} \union {Module} \union {Escrow} = {Collector, Module, Escrow}
        OBVIOUS
    <2> QED BY <2>1, <2>2, BridgeAssumption
<1> QED BY <1>1, FS_Union DEF Account

LEMMA Credited ==
    ASSUME NEW f \in [Account -> Nat], NEW a \in Account, NEW x \in Nat
    PROVE  /\ AddCoins(f, a, x) \in [Account -> Nat]
           /\ SumFunction(f) \in Int /\ SumFunction(AddCoins(f, a, x)) = SumFunction(f) + x
<1> DEFINE g == AddCoins(f, a, x)
<1>1. g \in [Account -> Nat] /\ g[a] = f[a] + x /\ \A c \in Account \ {a} : g[c] = f[c]
    BY DEF AddCoins
<1>2. DOMAIN f = Account /\ DOMAIN g = Account /\ \A c \in Account : f[c] \in Int /\ g[c] \in Int
    BY <1>1
<1> HIDE DEF g
<1>3. SumFunction(f) \in Int /\ SumFunction(g) = SumFunction(f) - f[a] + g[a]
    BY <1>1, <1>2, AccountIsFinite, SumUpdate
<1>4. SumFunction(g) = SumFunction(f) + x
    BY <1>1, <1>2, <1>3
<1> QED BY <1>1, <1>3, <1>4 DEF g

LEMMA Debited ==
    ASSUME NEW f \in [Account -> Nat], NEW a \in Account, NEW x \in Int, f[a] >= x
    PROVE  /\ SubCoins(f, a, x) \in [Account -> Nat]
           /\ SumFunction(f) \in Int /\ SumFunction(SubCoins(f, a, x)) = SumFunction(f) - x
<1> DEFINE g == SubCoins(f, a, x)
<1>1. g \in [Account -> Nat] /\ g[a] = f[a] - x /\ \A c \in Account \ {a} : g[c] = f[c]
    BY DEF SubCoins
<1>2. DOMAIN f = Account /\ DOMAIN g = Account /\ \A c \in Account : f[c] \in Int /\ g[c] \in Int
    BY <1>1
<1> HIDE DEF g
<1>3. SumFunction(f) \in Int /\ SumFunction(g) = SumFunction(f) - f[a] + g[a]
    BY <1>1, <1>2, AccountIsFinite, SumUpdate
<1>4. SumFunction(g) = SumFunction(f) - x
    BY <1>1, <1>2, <1>3
<1> QED BY <1>1, <1>3, <1>4 DEF g

LEMMA VouchersAre ==
    /\ balance \in [Account -> Nat] => Vouchers = SumFunction(balance) /\ Vouchers \in Int
    /\ runes \in [Account -> Nat] => RuneVouchers = SumFunction(runes) /\ RuneVouchers \in Int
    /\ balance' \in [Account -> Nat] => Vouchers' = SumFunction(balance') /\ Vouchers' \in Int
    /\ runes' \in [Account -> Nat] => RuneVouchers' = SumFunction(runes') /\ RuneVouchers' \in Int
<1>1. ASSUME NEW f \in [Account -> Nat] PROVE SumFunction(f) \in Int /\ [a \in Account |-> f[a]] = f
    <2>1. DOMAIN f = Account /\ \A c \in Account : f[c] \in Int
        OBVIOUS
    <2> QED BY <2>1, AccountIsFinite, SumType DEF SumFunction
<1> QED BY <1>1 DEF Vouchers, RuneVouchers, SumOver

\* What a transaction pays to vaults, and what it has to be like.
ChangeValue(outs) == SumFunction([i \in ChangeOuts(outs) |-> outs[i].amount])
ChangeOfRunes(outs) == SumFunction([i \in ChangeOuts(outs) |-> outs[i].runes])
ChangeIsOK(outs) ==
    /\ IsFiniteSet(ChangeOuts(outs)) /\ ChangeOuts(outs) \subseteq Nat
    /\ \A i \in ChangeOuts(outs) :
           /\ outs[i].version \in 0..latest /\ outs[i].amount \in Nat /\ outs[i].runes \in Nat
           /\ outs[i].asset = "BTC" => outs[i].runes = 0

\* What a new transaction does to the store and its sums.
LEMMA IssueLedger ==
    ASSUME IInv, LedgerOK, NEW ins, NEW outs, NEW edict, ins \subseteq index, IssueTransaction(ins, outs, edict),
           ChangeIsOK(outs), latest' = latest
    PROVE  /\ LedgerOK' /\ Transactions \subseteq Transactions' /\ NextTx \in Transactions'
           /\ Stored \in Nat /\ Value(ins) \in Nat /\ ChangeValue(outs) \in Nat
           /\ Stored' = Stored - Value(ins) + ChangeValue(outs)
           /\ StoredRunes \in Nat /\ Runes(ins) \in Nat /\ ChangeOfRunes(outs) \in Nat
           /\ StoredRunes' = StoredRunes - Runes(ins) + ChangeOfRunes(outs)
<1> DEFINE C == Created(outs)
           K == ChangeOuts(outs)
           D == DOMAIN utxo
           n == Len(signing)
           h == [i \in K |-> <<NextTx, i>>]
           fa == [i \in K |-> outs[i].amount]
           fr == [i \in K |-> outs[i].runes]
<1>1. n \in Nat /\ DOMAIN signing = 1..n /\ DOMAIN signing' = 1..(n + 1)
    BY Issued
<1>2. \A i \in 1..n : signing'[i] = signing[i]
    BY Issued
<1>3. signing'[n + 1].status = "PENDING"
    BY Issued
<1>4. NextTx \in Nat /\ NextTx \notin Transactions
    BY Issued
<1>5. Transactions \subseteq Transactions' /\ NextTx \in Transactions'
    BY Issued
<1>6. C \intersect D = {}
    BY Issued
<1>7. DOMAIN utxo' = (D \ ins) \union C /\ index' = index \ ins
    BY Issued
<1>8. \A o \in D \ ins : utxo'[o] = utxo[o]
    BY Issued
<1>9. \A o \in C : utxo'[o] = ChangeUTXO(outs[o[2]])
    BY Issued
<1>10. IsFiniteSet(D) /\ ins \subseteq D /\ \A o \in D : utxo[o] \in UTXORecord
    BY DEF LedgerOK
<1>11. \A x \in K : h[x] = <<NextTx, x>>
    OBVIOUS
<1>12. (\A y : y \in C <=> \E x \in K : y = h[x]) /\ \A x, y \in K : h[x] = h[y] => x = y
    BY <1>11 DEF Created
<1>12a. Names(h, K, C)
    BY <1>12 DEF Names
<1>13. IsFiniteSet(K) /\ K \subseteq Nat
    BY DEF ChangeIsOK
<1>14. \A i \in K : outs[i].asset \in Asset
    BY DEF ChangeOuts
<1>15. \A i \in K : h[i] \in C /\ utxo'[h[i]] = ChangeUTXO(outs[i])
    BY <1>9, <1>11, <1>12
<1>16. \A i \in K : /\ utxo'[h[i]] \in [asset : Asset, version : 0..latest, amount : Nat, runes : Nat, locked : BOOLEAN]
                    /\ utxo'[h[i]].amount = fa[i] /\ utxo'[h[i]].runes = fr[i]
                    /\ utxo'[h[i]].asset = "BTC" => utxo'[h[i]].runes = 0
                    /\ fa[i] \in Nat /\ fr[i] \in Nat
    <2> SUFFICES ASSUME NEW i \in K
                 PROVE  /\ ChangeUTXO(outs[i]) \in [asset : Asset, version : 0..latest, amount : Nat, runes : Nat, locked : BOOLEAN]
                        /\ ChangeUTXO(outs[i]).amount = outs[i].amount /\ ChangeUTXO(outs[i]).runes = outs[i].runes
                        /\ ChangeUTXO(outs[i]).asset = "BTC" => ChangeUTXO(outs[i]).runes = 0
                        /\ outs[i].amount \in Nat /\ outs[i].runes \in Nat
        BY <1>15
    <2> DEFINE out == outs[i]
    <2>1. out.asset \in Asset /\ out.version \in 0..latest /\ out.amount \in Nat /\ out.runes \in Nat
          /\ (out.asset = "BTC" => out.runes = 0)
        BY <1>14 DEF ChangeIsOK
    <2> HIDE DEF out
    <2>2. /\ ChangeUTXO(out) \in [asset : Asset, version : 0..latest, amount : Nat, runes : Nat, locked : BOOLEAN]
          /\ ChangeUTXO(out).amount = out.amount /\ ChangeUTXO(out).runes = out.runes /\ ChangeUTXO(out).asset = out.asset
        BY <2>1 DEF ChangeUTXO
    <2> QED BY <2>1, <2>2 DEF out
<1>17. IsFiniteSet(C)
    <2> HIDE DEF h, K, C
    <2> QED BY <1>12a, <1>13, NamesFinite
<1>18. \A o \in C : /\ utxo'[o] \in UTXORecord /\ (utxo'[o].asset = "BTC" => utxo'[o].runes = 0)
                    /\ o \in Transactions' \X Nat
    <2> SUFFICES ASSUME NEW i \in K
                 PROVE  /\ utxo'[h[i]] \in UTXORecord /\ (utxo'[h[i]].asset = "BTC" => utxo'[h[i]].runes = 0)
                        /\ h[i] \in Transactions' \X Nat
        BY <1>12
    <2> QED BY <1>5, <1>11, <1>13, <1>16 DEF UTXORecord
<1>19. \A i \in K : AmountOf'[h[i]] = fa[i] /\ RunesOf'[h[i]] = fr[i]
    <2>1. \A o \in DOMAIN utxo' : AmountOf'[o] = utxo'[o].amount /\ RunesOf'[o] = utxo'[o].runes
        BY DEF AmountOf, RunesOf
    <2> QED BY <1>7, <1>15, <1>16, <2>1
<1>20. Stored' = SumFunctionOnSet(AmountOf', DOMAIN utxo') /\ StoredRunes' = SumFunctionOnSet(RunesOf', DOMAIN utxo')
    BY DEF Stored, StoredRunes, Value, Runes, SumOver, Satoshis, RunesIn, SumFunction, AmountOf, RunesOf
<1>21. ChangeValue(outs) = SumFunctionOnSet(fa, K) /\ ChangeOfRunes(outs) = SumFunctionOnSet(fr, K)
    BY DEF ChangeValue, ChangeOfRunes, SumFunction
<1>22. \A o \in D \ ins : AmountOf'[o] = AmountOf[o] /\ RunesOf'[o] = RunesOf[o]
    BY <1>7, <1>8 DEF AmountOf, RunesOf
<1>23. \A o \in D : AmountOf[o] \in Int /\ RunesOf[o] \in Int
    BY <1>10 DEF AmountOf, RunesOf, UTXORecord
<1>24. SumFunctionOnSet(AmountOf', C) = SumFunctionOnSet(fa, K) /\ SumFunctionOnSet(RunesOf', C) = SumFunctionOnSet(fr, K)
    <2>1. \A x \in K : fa[x] \in Int /\ fr[x] \in Int
        <3> HIDE DEF fa, fr, h, K
        <3> QED BY <1>16
    <2> HIDE DEF fa, fr, h, K, C
    <2>2. SumFunctionOnSet(AmountOf', C) = SumFunctionOnSet(fa, K)
        <3>1. IsFiniteSet(K) /\ Names(h, K, C)
            BY <1>12a, <1>13
        <3>2. \A x \in K : fa[x] \in Int /\ AmountOf'[h[x]] = fa[x]
            BY <1>19, <2>1
        <3> QED BY ONLY <3>1, <3>2, SumReindex
    <2>3. SumFunctionOnSet(RunesOf', C) = SumFunctionOnSet(fr, K)
        <3>1. IsFiniteSet(K) /\ Names(h, K, C)
            BY <1>12a, <1>13
        <3>2. \A x \in K : fr[x] \in Int /\ RunesOf'[h[x]] = fr[x]
            BY <1>19, <2>1
        <3> QED BY ONLY <3>1, <3>2, SumReindex
    <2> QED BY <2>2, <2>3
<1>25. \A o \in C : AmountOf'[o] \in Int /\ RunesOf'[o] \in Int
    BY <1>12, <1>16, <1>19
<1>26. SumFunctionOnSet(fa, K) \in Nat /\ SumFunctionOnSet(fr, K) \in Nat
    <2> HIDE DEF h, K
    <2> QED BY <1>13, <1>16, SumType
<1>27. SumFunctionOnSet(AmountOf', (D \ ins) \union C) = SumFunctionOnSet(AmountOf, D) - SumFunctionOnSet(AmountOf, ins) + SumFunctionOnSet(AmountOf', C)
    <2> HIDE DEF C, D
    <2> QED BY <1>6, <1>10, <1>17, <1>22, <1>23, <1>25, SumExchange
<1>28. SumFunctionOnSet(RunesOf', (D \ ins) \union C) = SumFunctionOnSet(RunesOf, D) - SumFunctionOnSet(RunesOf, ins) + SumFunctionOnSet(RunesOf', C)
    <2> HIDE DEF C, D
    <2> QED BY <1>6, <1>10, <1>17, <1>22, <1>23, <1>25, SumExchange
<1>29. /\ Stored = SumFunctionOnSet(AmountOf, D) /\ Stored \in Nat
       /\ StoredRunes = SumFunctionOnSet(RunesOf, D) /\ StoredRunes \in Nat
    BY ValueIs DEF Stored, StoredRunes
<1>30. /\ Value(ins) = SumFunctionOnSet(AmountOf, ins) /\ Value(ins) \in Nat
       /\ Runes(ins) = SumFunctionOnSet(RunesOf, ins) /\ Runes(ins) \in Nat
    BY <1>10, ValueIs
<1>31. LedgerOK'
    <2>1. IsFiniteSet(DOMAIN utxo')
        <3>1. IsFiniteSet(D \ ins)
            BY <1>10, FS_Subset
        <3> HIDE DEF C, D
        <3> QED BY <1>7, <1>17, <3>1, FS_Union
    <2>2. DOMAIN utxo' \subseteq Transactions' \X Nat /\ index' \subseteq DOMAIN utxo'
        <3>1. D \subseteq Transactions \X Nat /\ index \subseteq D
            BY DEF LedgerOK
        <3> HIDE DEF C, D
        <3> QED BY <1>5, <1>7, <1>18, <3>1
    <2>3. \A o \in DOMAIN utxo' : utxo'[o] \in UTXORecord /\ (utxo'[o].asset = "BTC" => utxo'[o].runes = 0)
        <3>1. \A o \in D : utxo[o] \in UTXORecord /\ (utxo[o].asset = "BTC" => utxo[o].runes = 0)
            BY DEF LedgerOK
        <3> HIDE DEF C, D
        <3> QED BY <1>7, <1>8, <1>18, <3>1
    <2>4. minted' \subseteq Transactions'
        BY <1>5 DEF IssueTransaction, MarkMinted, LedgerOK
    <2>5. \A s \in DOMAIN signing' : signing'[s].status \in Status
        BY <1>1, <1>2, <1>3 DEF LedgerOK, Status
    <2>6. UTXORecord' = UTXORecord
        BY DEF UTXORecord
    <2> QED BY <2>1, <2>2, <2>3, <2>4, <2>5, <2>6 DEF LedgerOK
<1> HIDE DEF C, K, D, h, fa, fr
<1> QED BY <1>5, <1>7, <1>20, <1>21, <1>24, <1>26, <1>27, <1>28, <1>29, <1>30, <1>31

----------------------------------------------------------------------------
(* Transactions that are built and what they pay *)

\* What a transaction pays altogether.
OutValue(outs) == SumOver(DOMAIN outs, LAMBDA i : outs[i].amount)

LEMMA SizeIsNat == ASSUME NEW i \in Nat, NEW j \in Nat, NEW r \in Nat PROVE VirtualSize(i, j) * r \in Nat
<1>1. ASSUME NEW x \in Nat, NEW y \in Nat PROVE x * y \in Nat
    OBVIOUS
<1>2. i * InSize \in Nat /\ j * OutSize \in Nat /\ BaseSize \in Nat
    BY <1>1, BridgeAssumption
<1> DEFINE s == VirtualSize(i, j)
<1>3. s \in Nat
    BY <1>2 DEF VirtualSize
<1>4. s * r \in Nat
    <2> HIDE DEF s
    <2> QED BY <1>1, <1>3
<1> QED BY <1>4

LEMMA FeeRateIsNat == ASSUME ConfigOK PROVE feeRate.value \in Nat
<1>1. feeRate.value \in {0} \union FeeRate
    BY DEF ConfigOK
<1>2. FeeRate \subseteq Nat
    BY BridgeAssumption
<1> DEFINE x == feeRate.value
<1>3. x \in {0} \union FeeRate
    BY <1>1
<1>4. x \in Nat
    <2> HIDE DEF x
    <2> QED BY <1>2, <1>3
<1> QED BY <1>4

LEMMA UnlockedIs ==
    ASSUME LedgerOK, NEW asset, NEW v
    PROVE  /\ Unlocked(asset, v) \subseteq index /\ Unlocked(asset, v) \subseteq DOMAIN utxo
           /\ Cardinality(Unlocked(asset, v)) \in Nat /\ \A o \in Unlocked(asset, v) : utxo[o].asset = asset
<1>1. Unlocked(asset, v) \subseteq DOMAIN utxo
    BY DEF Unlocked, LedgerOK
<1>2. IsFiniteSet(Unlocked(asset, v))
    BY <1>1, FS_Subset DEF LedgerOK
<1> QED BY <1>1, <1>2, FS_CardinalityType DEF Unlocked

LEMMA OutValueType ==
    ASSUME NEW outs, IsFiniteSet(DOMAIN outs), \A i \in DOMAIN outs : outs[i].amount \in Nat
    PROVE  OutValue(outs) \in Nat
<1> DEFINE f == [i \in DOMAIN outs |-> outs[i].amount]
<1>1. OutValue(outs) = SumFunctionOnSet(f, DOMAIN outs)
    BY DEF OutValue, SumOver, SumFunction
<1>2. \A i \in DOMAIN outs : f[i] \in Nat
    OBVIOUS
<1> HIDE DEF f
<1> QED BY <1>1, <1>2, SumType

\* The inputs of a built transaction are worth its outputs, its change and its fee.
LEMMA Built ==
    ASSUME LedgerOK, ConfigOK, NEW base \in SUBSET DOMAIN utxo, NEW outs, NEW v,
           IsFiniteSet(DOMAIN outs), Len(outs) \in Nat, \A i \in DOMAIN outs : outs[i].amount \in Nat,
           NEW tx, tx = BuildUnsignedTransaction(base, outs, v), tx.ok
    PROVE  /\ tx.selected \subseteq Unlocked("BTC", v) /\ tx.change \in Nat /\ tx.fee \in Nat /\ OutValue(outs) \in Nat
           /\ Value(base) \in Nat /\ Value(tx.selected) \in Nat
           /\ Value(base) + Value(tx.selected) = OutValue(outs) + tx.change + tx.fee
<1> DEFINE pool == Unlocked("BTC", v)
           diff == Value(base) - OutValue(outs)
           left(n) == Value(Payment(pool, n)) + diff
           size(n, extra) == VirtualSize(Cardinality(base) + n, Len(outs) + extra)
           enough == {n \in 1..Cardinality(pool) : left(n) >= size(n, 0) * feeRate.value}
           n == Min(enough)
           change == left(n) - size(n, 1) * feeRate.value
           kept == IF IsDust(change) THEN 0 ELSE change
<1>1. /\ pool # {} /\ enough # {}
      /\ tx = [ok |-> TRUE, selected |-> Payment(pool, n), change |-> kept, fee |-> left(n) - kept]
    <2>1. ~Failed.ok
        BY DEF Failed
    <2> QED BY <2>1 DEF BuildUnsignedTransaction, OutValue
<1>2. OutValue(outs) \in Nat
    BY OutValueType
<1>3. Value(base) \in Nat
    BY ValueIs
<1>4. Cardinality(pool) \in Nat /\ pool \subseteq DOMAIN utxo
    BY UnlockedIs
<1>5. Cardinality(base) \in Nat
    <2>1. IsFiniteSet(base)
        BY FS_Subset DEF LedgerOK
    <2> QED BY <2>1, FS_CardinalityType
<1>6. \A i : Payment(pool, i) \subseteq pool
    BY PaymentSubset
<1>7. \A i : Value(Payment(pool, i)) \in Nat
    <2> SUFFICES ASSUME NEW i PROVE Value(Payment(pool, i)) \in Nat
        OBVIOUS
    <2>1. Payment(pool, i) \in SUBSET DOMAIN utxo
        BY <1>4, <1>6
    <2> QED BY <2>1, ValueIs
<1>8. n \in enough
    <2>1. enough \in SUBSET Nat
        BY <1>4
    <2> HIDE DEF enough
    <2> QED BY <1>1, <2>1, MinIn
<1>9. n \in Nat
    BY <1>4, <1>8
<1>10. size(n, 0) * feeRate.value \in Nat /\ size(n, 1) * feeRate.value \in Nat
    <2>1. Cardinality(base) + n \in Nat /\ Len(outs) + 0 \in Nat /\ Len(outs) + 1 \in Nat
        BY <1>5, <1>9
    <2> HIDE DEF n
    <2> QED BY <2>1, SizeIsNat, FeeRateIsNat
<1>11. left(n) >= size(n, 0) * feeRate.value
    BY <1>8
<1> DEFINE a == size(n, 0) * feeRate.value
           b == size(n, 1) * feeRate.value
           l == left(n)
           w == Value(Payment(pool, n))
<1>12. a \in Nat /\ b \in Nat /\ l >= a /\ l = w + diff /\ w \in Nat /\ diff \in Int /\ change = l - b
    BY <1>2, <1>3, <1>7, <1>10, <1>11
<1>13. /\ tx.selected = Payment(pool, n) /\ tx.change = kept /\ tx.fee = l - kept
       /\ kept = IF change < Dust THEN 0 ELSE change
    BY <1>1 DEF IsDust
<1> HIDE DEF a, b, l, w, diff, left, size, enough, n, change, kept
<1>14. l \in Nat /\ change \in Int /\ kept \in Nat /\ l - kept \in Nat
    BY <1>12, <1>13, BridgeAssumption
<1>15. Value(base) + w = OutValue(outs) + kept + (l - kept)
    <2> DEFINE V == Value(base)
               O == OutValue(outs)
    <2>1. l = w + (V - O) /\ V \in Nat /\ O \in Nat
        BY <1>2, <1>3, <1>12 DEF diff
    <2>2. V + w = O + kept + (l - kept)
        <3> HIDE DEF V, O
        <3> QED BY <1>12, <1>14, <2>1
    <2> QED BY <2>2
<1> QED BY <1>2, <1>3, <1>6, <1>12, <1>13, <1>14, <1>15 DEF w

\* The UTXOs that are selected for a withdrawal of runes hold them.
LEMMA RunesTargeted ==
    ASSUME LedgerOK, NEW v, NEW amount, TargetRunesUTXOs(v, amount) # {}
    PROVE  /\ TargetRunesUTXOs(v, amount) \subseteq Unlocked("RUNES", v)
           /\ Runes(TargetRunesUTXOs(v, amount)) >= amount
<1> DEFINE pool == Unlocked("RUNES", v)
           enough == {n \in 1..Min({Cardinality(pool), MaxUtxoNum}) : Runes(Largest(pool, n, "runes")) >= amount}
<1>1. enough # {} /\ TargetRunesUTXOs(v, amount) = Largest(pool, Min(enough), "runes")
    BY DEF TargetRunesUTXOs
<1>2. Min({Cardinality(pool), MaxUtxoNum}) \in Nat
    <2> DEFINE S == {Cardinality(pool), MaxUtxoNum}
    <2>1. S \in SUBSET Nat /\ S # {}
        <3>1. Cardinality(pool) \in Nat /\ MaxUtxoNum \in Nat
            BY UnlockedIs, BridgeAssumption DEF ValidParams
        <3> QED BY <3>1
    <2>2. Min(S) \in Nat
        <3> HIDE DEF S
        <3> QED BY <2>1, MinIn
    <2> QED BY <2>2
<1>3. Min(enough) \in enough
    <2>1. enough \in SUBSET Nat
        BY <1>2
    <2> HIDE DEF enough
    <2> QED BY <1>1, <2>1, MinIn
<1>4. \A n : Largest(pool, n, "runes") \subseteq pool
    BY DEF Largest
<1> QED BY <1>1, <1>3, <1>4

\* Outputs that a transaction may have, and what each of them gives to a vault.
IsOut(x) ==
    /\ x.amount \in Nat /\ x.runes \in Nat
    /\ x.asset \in Asset => x.version \in 0..latest
    /\ x.asset = "BTC" => x.runes = 0
AreOuts(s, n) == n \in Nat /\ DOMAIN s = 1..n /\ \A i \in 1..n : IsOut(s[i])
ToVault(x, n) == IF x.asset \in Asset THEN n ELSE 0

LEMMA OutsAreOK ==
    ASSUME NEW s, NEW n, AreOuts(s, n)
    PROVE  /\ ChangeIsOK(s) /\ IsFiniteSet(DOMAIN s) /\ \A i \in DOMAIN s : s[i].amount \in Nat
           /\ OutValue(s) \in Nat /\ ChangeValue(s) \in Nat /\ ChangeOfRunes(s) \in Nat
<1> DEFINE C == ChangeOuts(s)
           fa == [i \in C |-> s[i].amount]
           fr == [i \in C |-> s[i].runes]
<1>1. IsFiniteSet(DOMAIN s)
    BY FS_Interval DEF AreOuts
<1>2. C \subseteq DOMAIN s /\ \A i \in C : s[i].asset \in Asset
    BY DEF ChangeOuts
<1>3. IsFiniteSet(C)
    BY <1>1, <1>2, FS_Subset
<1>4. \A i \in DOMAIN s : s[i].amount \in Nat /\ s[i].runes \in Nat
    BY DEF AreOuts, IsOut
<1>5. ChangeIsOK(s)
    BY <1>2, <1>3 DEF ChangeIsOK, AreOuts, IsOut
<1>6. ChangeValue(s) = SumFunctionOnSet(fa, C) /\ ChangeOfRunes(s) = SumFunctionOnSet(fr, C)
    BY DEF ChangeValue, ChangeOfRunes, SumFunction
<1>7. \A i \in C : fa[i] \in Nat /\ fr[i] \in Nat
    BY <1>2, <1>4
<1>8. SumFunctionOnSet(fa, C) \in Nat /\ SumFunctionOnSet(fr, C) \in Nat
    <2> HIDE DEF C, fa, fr
    <2> QED BY <1>3, <1>7, SumType
<1> HIDE DEF C, fa, fr
<1> QED BY <1>1, <1>4, <1>5, <1>6, <1>8, OutValueType

\* A sum gets one more element.
LEMMA SumMore ==
    ASSUME NEW f, NEW g, NEW k, IsFiniteSet(DOMAIN f), k \notin DOMAIN f, DOMAIN g = DOMAIN f \union {k},
           \A x \in DOMAIN f : f[x] \in Int /\ g[x] = f[x], g[k] \in Int
    PROVE  SumFunction(f) \in Int /\ SumFunction(g) = SumFunction(f) + g[k]
<1> DEFINE K == DOMAIN f
           G == DOMAIN g
<1>1. IsFiniteSet(G)
    BY FS_AddElement
<1>2. k \in G /\ G \ {k} = K /\ \A x \in G : g[x] \in Int
    OBVIOUS
<1>3. SumFunctionOnSet(g, K) = SumFunctionOnSet(f, K)
    BY SumSame
<1>4. SumFunctionOnSet(f, K) \in Int
    BY SumType
<1>5. SumFunctionOnSet(g, G) = g[k] + SumFunctionOnSet(g, G \ {k})
    <2> HIDE DEF G, K
    <2> QED BY <1>1, <1>2, SumRemove
<1>6. SumFunction(f) = SumFunctionOnSet(f, K) /\ SumFunction(g) = SumFunctionOnSet(g, G)
    BY DEF SumFunction
<1>7. SumFunctionOnSet(g, G \ {k}) = SumFunctionOnSet(f, K)
    <2> HIDE DEF G, K
    <2> QED BY <1>2, <1>3
<1> HIDE DEF G, K
<1> DEFINE a == SumFunctionOnSet(f, K)
           b == g[k]
           c == SumFunctionOnSet(g, G)
<1>8. a \in Int /\ b \in Int /\ c = b + a
    BY <1>4, <1>5, <1>7
<1>9. c = a + b
    <2> HIDE DEF a, b, c
    <2> QED BY <1>8
<1> QED BY <1>4, <1>6, <1>9

\* One more output.
LEMMA OneMore ==
    ASSUME NEW s, NEW t, NEW n \in Nat, AreOuts(s, n), AreOuts(t, n + 1), \A i \in 1..n : t[i] = s[i]
    PROVE  /\ OutValue(t) = OutValue(s) + t[n + 1].amount
           /\ ChangeValue(t) = ChangeValue(s) + ToVault(t[n + 1], t[n + 1].amount)
           /\ ChangeOfRunes(t) = ChangeOfRunes(s) + ToVault(t[n + 1], t[n + 1].runes)
<1> DEFINE k == n + 1
           C == ChangeOuts(s)
           D == ChangeOuts(t)
<1>1. DOMAIN s = 1..n /\ DOMAIN t = 1..n \union {k} /\ k \notin 1..n /\ k \in DOMAIN t
    BY DEF AreOuts
<1>2. \A i \in DOMAIN t : t[i].amount \in Nat /\ t[i].runes \in Nat
    BY DEF AreOuts, IsOut
<1>3. C \subseteq 1..n /\ (\A i \in 1..n : i \in C <=> t[i].asset \in Asset)
      /\ D = C \union (IF t[k].asset \in Asset THEN {k} ELSE {}) /\ k \notin C
    BY <1>1 DEF ChangeOuts
<1>4. IsFiniteSet(1..n) /\ IsFiniteSet(C)
    <2>1. IsFiniteSet(1..n)
        BY FS_Interval
    <2> HIDE DEF C
    <2> QED BY <1>3, <2>1, FS_Subset
<1> HIDE DEF k, C, D
<1>5. OutValue(t) = OutValue(s) + t[k].amount
    <2> DEFINE f == [i \in DOMAIN s |-> s[i].amount]
               g == [i \in DOMAIN t |-> t[i].amount]
    <2>1. OutValue(s) = SumFunction(f) /\ OutValue(t) = SumFunction(g)
        BY DEF OutValue, SumOver
    <2>2. /\ DOMAIN f = 1..n /\ DOMAIN g = DOMAIN f \union {k} /\ k \notin DOMAIN f
          /\ (\A x \in DOMAIN f : f[x] \in Int /\ g[x] = f[x]) /\ g[k] = t[k].amount /\ g[k] \in Int
        BY <1>1, <1>2
    <2> HIDE DEF f, g
    <2> QED BY <1>4, <2>1, <2>2, SumMore
<1>6. CASE t[k].asset \in Asset
    <2>1. D = C \union {k}
        BY <1>3, <1>6
    <2>2. ChangeValue(t) = ChangeValue(s) + t[k].amount
        <3> DEFINE f == [i \in C |-> s[i].amount]
                   g == [i \in D |-> t[i].amount]
        <3>1. ChangeValue(s) = SumFunction(f) /\ ChangeValue(t) = SumFunction(g)
            BY DEF ChangeValue, C, D
        <3>2. /\ DOMAIN f = C /\ DOMAIN g = DOMAIN f \union {k} /\ k \notin DOMAIN f
              /\ (\A x \in DOMAIN f : f[x] \in Int /\ g[x] = f[x]) /\ g[k] = t[k].amount /\ g[k] \in Int
            BY <1>1, <1>2, <1>3, <2>1
        <3> HIDE DEF f, g
        <3> QED BY <1>4, <3>1, <3>2, SumMore
    <2>3. ChangeOfRunes(t) = ChangeOfRunes(s) + t[k].runes
        <3> DEFINE f == [i \in C |-> s[i].runes]
                   g == [i \in D |-> t[i].runes]
        <3>1. ChangeOfRunes(s) = SumFunction(f) /\ ChangeOfRunes(t) = SumFunction(g)
            BY DEF ChangeOfRunes, C, D
        <3>2. /\ DOMAIN f = C /\ DOMAIN g = DOMAIN f \union {k} /\ k \notin DOMAIN f
              /\ (\A x \in DOMAIN f : f[x] \in Int /\ g[x] = f[x]) /\ g[k] = t[k].runes /\ g[k] \in Int
            BY <1>1, <1>2, <1>3, <2>1
        <3> HIDE DEF f, g
        <3> QED BY <1>4, <3>1, <3>2, SumMore
    <2> QED BY <1>5, <1>6, <2>2, <2>3 DEF ToVault, k
<1>7. CASE t[k].asset \notin Asset
    <2>1. D = C
        BY <1>3, <1>7
    <2>2. [i \in D |-> t[i].amount] = [i \in C |-> s[i].amount] /\ [i \in D |-> t[i].runes] = [i \in C |-> s[i].runes]
        BY <1>3, <2>1
    <2>3. ChangeValue(t) = ChangeValue(s) /\ ChangeOfRunes(t) = ChangeOfRunes(s)
        BY <2>2 DEF ChangeValue, ChangeOfRunes, C, D
    <2>4. ChangeValue(s) \in Nat /\ ChangeOfRunes(s) \in Nat
        BY OutsAreOK
    <2> QED BY <1>5, <1>7, <2>3, <2>4 DEF ToVault, k
<1> QED BY <1>6, <1>7

\* Transactions of one, two and three outputs.
LEMMA OneOut ==
    ASSUME NEW a, IsOut(a)
    PROVE  /\ AreOuts(<<a>>, 1) /\ OutValue(<<a>>) = a.amount
           /\ ChangeValue(<<a>>) = ToVault(a, a.amount) /\ ChangeOfRunes(<<a>>) = ToVault(a, a.runes)
<1> DEFINE s == <<>>
           t == <<a>>
<1>1. AreOuts(s, 0) /\ AreOuts(t, 0 + 1) /\ t[0 + 1] = a /\ \A i \in 1..0 : t[i] = s[i]
    BY DEF AreOuts
<1>2. OutValue(s) = 0 /\ ChangeValue(s) = 0 /\ ChangeOfRunes(s) = 0
    <2>1. DOMAIN s = {} /\ ChangeOuts(s) = {}
        BY DEF ChangeOuts
    <2> HIDE DEF s
    <2>2. \A f : DOMAIN f = {} => SumFunction(f) = 0
        BY SumSmall DEF SumFunction
    <2> QED BY <2>1, <2>2 DEF OutValue, SumOver, ChangeValue, ChangeOfRunes
<1>3. a.amount \in Nat /\ ToVault(a, a.amount) \in Nat /\ ToVault(a, a.runes) \in Nat
    BY DEF IsOut, ToVault
<1> HIDE DEF s, t
<1>4. /\ OutValue(t) = OutValue(s) + t[0 + 1].amount
      /\ ChangeValue(t) = ChangeValue(s) + ToVault(t[0 + 1], t[0 + 1].amount)
      /\ ChangeOfRunes(t) = ChangeOfRunes(s) + ToVault(t[0 + 1], t[0 + 1].runes)
    BY <1>1, OneMore
<1>5. /\ AreOuts(t, 1) /\ OutValue(t) = a.amount
      /\ ChangeValue(t) = ToVault(a, a.amount) /\ ChangeOfRunes(t) = ToVault(a, a.runes)
    BY <1>1, <1>2, <1>3, <1>4
<1> QED BY <1>5 DEF t

LEMMA TwoOuts ==
    ASSUME NEW a, NEW b, IsOut(a), IsOut(b)
    PROVE  /\ AreOuts(<<a, b>>, 2) /\ OutValue(<<a, b>>) = a.amount + b.amount
           /\ ChangeValue(<<a, b>>) = ToVault(a, a.amount) + ToVault(b, b.amount)
           /\ ChangeOfRunes(<<a, b>>) = ToVault(a, a.runes) + ToVault(b, b.runes)
<1> DEFINE s == <<a>>
           t == <<a, b>>
<1>1. AreOuts(t, 1 + 1) /\ t[1 + 1] = b /\ \A i \in 1..1 : t[i] = s[i]
    BY DEF AreOuts
<1>2. /\ AreOuts(s, 1) /\ OutValue(s) = a.amount
      /\ ChangeValue(s) = ToVault(a, a.amount) /\ ChangeOfRunes(s) = ToVault(a, a.runes)
    BY OneOut
<1> HIDE DEF s, t
<1>3. /\ OutValue(t) = OutValue(s) + t[1 + 1].amount
      /\ ChangeValue(t) = ChangeValue(s) + ToVault(t[1 + 1], t[1 + 1].amount)
      /\ ChangeOfRunes(t) = ChangeOfRunes(s) + ToVault(t[1 + 1], t[1 + 1].runes)
    BY <1>1, <1>2, OneMore
<1>4. /\ AreOuts(t, 2) /\ OutValue(t) = a.amount + b.amount
      /\ ChangeValue(t) = ToVault(a, a.amount) + ToVault(b, b.amount)
      /\ ChangeOfRunes(t) = ToVault(a, a.runes) + ToVault(b, b.runes)
    BY <1>1, <1>2, <1>3
<1> QED BY <1>4 DEF t

LEMMA ThreeOuts ==
    ASSUME NEW a, NEW b, NEW c, IsOut(a), IsOut(b), IsOut(c)
    PROVE  /\ AreOuts(<<a, b, c>>, 3) /\ OutValue(<<a, b, c>>) = a.amount + b.amount + c.amount
           /\ ChangeValue(<<a, b, c>>) = ToVault(a, a.amount) + ToVault(b, b.amount) + ToVault(c, c.amount)
           /\ ChangeOfRunes(<<a, b, c>>) = ToVault(a, a.runes) + ToVault(b, b.runes) + ToVault(c, c.runes)
<1> DEFINE s == <<a, b>>
           t == <<a, b, c>>
<1>1. AreOuts(t, 2 + 1) /\ t[2 + 1] = c /\ \A i \in 1..2 : t[i] = s[i]
    BY DEF AreOuts
<1>2. /\ AreOuts(s, 2) /\ OutValue(s) = a.amount + b.amount
      /\ ChangeValue(s) = ToVault(a, a.amount) + ToVault(b, b.amount)
      /\ ChangeOfRunes(s) = ToVault(a, a.runes) + ToVault(b, b.runes)
    BY TwoOuts
<1> HIDE DEF s, t
<1>3. /\ OutValue(t) = OutValue(s) + t[2 + 1].amount
      /\ ChangeValue(t) = ChangeValue(s) + ToVault(t[2 + 1], t[2 + 1].amount)
      /\ ChangeOfRunes(t) = ChangeOfRunes(s) + ToVault(t[2 + 1], t[2 + 1].runes)
    BY <1>1, <1>2, OneMore
<1>4. /\ AreOuts(t, 3) /\ OutValue(t) = a.amount + b.amount + c.amount
      /\ ChangeValue(t) = ToVault(a, a.amount) + ToVault(b, b.amount) + ToVault(c, c.amount)
      /\ ChangeOfRunes(t) = ToVault(a, a.runes) + ToVault(b, b.runes) + ToVault(c, c.runes)
    BY <1>1, <1>2, <1>3
<1> QED BY <1>4 DEF t

\* The outputs that the bridge makes.
LEMMA OutsAre ==
    /\ IsOut(OpReturn) /\ OpReturn.amount = 0 /\ OpReturn.runes = 0 /\ OpReturn.asset \notin Asset
    /\ \A u, q : \A x, r \in Nat : /\ IsOut(UserOut(u, x, r, q)) /\ UserOut(u, x, r, q).asset \notin Asset
                                   /\ UserOut(u, x, r, q).amount = x
    /\ \A v \in 0..latest : \A x, r \in Nat :
           /\ IsOut(VaultOut("BTC", v, x, 0)) /\ IsOut(VaultOut("RUNES", v, x, r))
           /\ VaultOut("BTC", v, x, 0).amount = x /\ VaultOut("BTC", v, x, 0).runes = 0 /\ VaultOut("BTC", v, x, 0).asset \in Asset
           /\ VaultOut("RUNES", v, x, r).amount = x /\ VaultOut("RUNES", v, x, r).runes = r /\ VaultOut("RUNES", v, x, r).asset \in Asset
<1>1. IsOut(OpReturn) /\ OpReturn.amount = 0 /\ OpReturn.runes = 0 /\ OpReturn.asset \notin Asset
    BY DEF OpReturn, Out, IsOut, Asset
<1>2. ASSUME NEW u, NEW q, NEW x \in Nat, NEW r \in Nat
      PROVE  IsOut(UserOut(u, x, r, q)) /\ UserOut(u, x, r, q).asset \notin Asset /\ UserOut(u, x, r, q).amount = x
    BY DEF UserOut, Out, IsOut, Asset
<1>3. ASSUME NEW v \in 0..latest, NEW x \in Nat, NEW r \in Nat
      PROVE  /\ IsOut(VaultOut("BTC", v, x, 0)) /\ IsOut(VaultOut("RUNES", v, x, r))
             /\ VaultOut("BTC", v, x, 0).amount = x /\ VaultOut("BTC", v, x, 0).runes = 0 /\ VaultOut("BTC", v, x, 0).asset \in Asset
             /\ VaultOut("RUNES", v, x, r).amount = x /\ VaultOut("RUNES", v, x, r).runes = r /\ VaultOut("RUNES", v, x, r).asset \in Asset
    BY DEF VaultOut, Out, IsOut, Asset
<1> QED BY <1>1, <1>2, <1>3

\* Change is one more output.
LEMMA ChangeAdded ==
    ASSUME NEW S, NEW outs \in Seq(S), AreOuts(outs, Len(outs)), NEW tx, tx.change \in Nat, NEW v \in 0..latest
    PROVE  /\ ChangeIsOK(WithChange(outs, tx, v))
           /\ ChangeValue(WithChange(outs, tx, v)) = ChangeValue(outs) + tx.change
           /\ ChangeOfRunes(WithChange(outs, tx, v)) = ChangeOfRunes(outs)
           /\ ChangeValue(outs) \in Nat /\ ChangeOfRunes(outs) \in Nat
<1> DEFINE c == VaultOut("BTC", v, tx.change, 0)
           t == Append(outs, c)
           n == Len(outs)
<1>1. IsOut(c) /\ c.amount = tx.change /\ c.runes = 0 /\ c.asset \in Asset
    BY OutsAre
<1>2. ChangeIsOK(outs) /\ ChangeValue(outs) \in Nat /\ ChangeOfRunes(outs) \in Nat
    BY OutsAreOK
<1> HIDE DEF c
<1>3. n \in Nat /\ DOMAIN t = 1..(n + 1) /\ (\A i \in 1..n : t[i] = outs[i]) /\ t[n + 1] = c
    <2>1. outs \in Seq(S) /\ c \in {c} \union S /\ S \subseteq {c} \union S
        OBVIOUS
    <2> QED BY <2>1, Appended
<1> HIDE DEF t, n
<1>4. AreOuts(outs, n) /\ AreOuts(t, n + 1)
    <2>1. AreOuts(outs, n)
        BY DEF n
    <2>2. \A i \in 1..(n + 1) : IsOut(t[i])
        BY <1>1, <1>3, <2>1 DEF AreOuts
    <2>3. n + 1 \in Nat
        BY <1>3
    <2>4. AreOuts(t, n + 1)
        BY <1>3, <2>2, <2>3 DEF AreOuts
    <2> QED BY <2>1, <2>4
<1>5. ChangeValue(t) = ChangeValue(outs) + ToVault(c, c.amount) /\ ChangeOfRunes(t) = ChangeOfRunes(outs) + ToVault(c, c.runes)
    <2>1. /\ ChangeValue(t) = ChangeValue(outs) + ToVault(t[n + 1], t[n + 1].amount)
          /\ ChangeOfRunes(t) = ChangeOfRunes(outs) + ToVault(t[n + 1], t[n + 1].runes)
        BY <1>3, <1>4, OneMore
    <2> QED BY <1>3, <2>1
<1>6. ToVault(c, c.amount) = tx.change /\ ToVault(c, c.runes) = 0
    BY <1>1 DEF ToVault
<1>7. ChangeIsOK(t)
    BY <1>4, OutsAreOK
<1>8. CASE tx.change = 0
    <2>1. WithChange(outs, tx, v) = outs
        BY <1>8 DEF WithChange
    <2> QED BY <1>2, <1>8, <2>1
<1>9. CASE tx.change # 0
    <2>1. WithChange(outs, tx, v) = t
        BY <1>9 DEF WithChange, t, c
    <2> QED BY <1>2, <1>5, <1>6, <1>7, <2>1
<1> QED BY <1>8, <1>9

\* Two disjoint sets of UTXOs are worth the sum of what they are worth.
LEMMA ValueUnion ==
    ASSUME LedgerOK, NEW S \in SUBSET DOMAIN utxo, NEW P \in SUBSET DOMAIN utxo, S \intersect P = {}
    PROVE  Value(S \union P) = Value(S) + Value(P) /\ Runes(S \union P) = Runes(S) + Runes(P)
<1>1. IsFiniteSet(S) /\ IsFiniteSet(P)
    BY FS_Subset DEF LedgerOK
<1>2. \A o \in S \union P : AmountOf[o] \in Int /\ RunesOf[o] \in Int
    BY DEF LedgerOK, UTXORecord, AmountOf, RunesOf
<1>3. SumFunctionOnSet(AmountOf, S \union P) = SumFunctionOnSet(AmountOf, S) + SumFunctionOnSet(AmountOf, P)
    BY <1>1, <1>2, SumUnion
<1>4. SumFunctionOnSet(RunesOf, S \union P) = SumFunctionOnSet(RunesOf, S) + SumFunctionOnSet(RunesOf, P)
    BY <1>1, <1>2, SumUnion
<1>5. S \union P \in SUBSET DOMAIN utxo
    OBVIOUS
<1> QED BY <1>3, <1>4, <1>5, ValueIs

\* BTC outputs hold no runes.
LEMMA NoRunes ==
    ASSUME LedgerOK, NEW S \in SUBSET DOMAIN utxo, \A o \in S : utxo[o].asset = "BTC"
    PROVE  Runes(S) = 0
<1>1. \A o \in S : RunesOf[o] = 0
    BY DEF LedgerOK, RunesOf
<1>2. IsFiniteSet(S)
    BY FS_Subset DEF LedgerOK
<1> QED BY <1>1, <1>2, SumZero, ValueIs

----------------------------------------------------------------------------
(* What every kind of transaction does to the sums *)

\* A consolidation or a transfer keeps every satoshi but the fee, and every rune.
LEMMA TransferLedger ==
    ASSUME IInv, LedgerOK, ConfigOK, NEW asset, NEW source, NEW S \in SUBSET Unlocked(asset, source),
           NEW dest \in 0..latest, Transfer(asset, S, source, dest), latest' = latest
    PROVE  /\ LedgerOK' /\ Transactions \subseteq Transactions' /\ fees' \in FeesType
           /\ Stored' - Slack' = Stored - Slack /\ StoredRunes' = StoredRunes
<1> DEFINE tx == TransferTx(asset, S, source, dest)
           outs == TransferOuts(asset, S, dest, tx)
           ins == S \union tx.selected
<1>1. tx.ok /\ IssueTransaction(ins, outs, NoEdict) /\ fees' = PayForMove(tx.fee)
    BY DEF Transfer
<1>2. S \subseteq index /\ S \in SUBSET DOMAIN utxo /\ \A o \in S : utxo[o].asset = asset
    BY UnlockedIs
<1>3. ins \subseteq index /\ ins \in SUBSET DOMAIN utxo
    <2>1. ins \subseteq index
        BY <1>1, <1>2, TransferFromIndex
    <2> QED BY <2>1 DEF LedgerOK
<1>4. ASSUME ChangeIsOK(outs), tx.fee \in Nat, Value(ins) = ChangeValue(outs) + tx.fee, Runes(ins) = ChangeOfRunes(outs)
      PROVE  /\ LedgerOK' /\ Transactions \subseteq Transactions' /\ fees' \in FeesType
             /\ Stored' - Slack' = Stored - Slack /\ StoredRunes' = StoredRunes
    <2> HIDE DEF tx, outs, ins
    <2>1. LedgerOK' /\ Transactions \subseteq Transactions'
        BY <1>1, <1>3, <1>4, IssueLedger
    <2>2. /\ Stored \in Nat /\ Value(ins) \in Nat /\ ChangeValue(outs) \in Nat
          /\ Stored' = Stored - Value(ins) + ChangeValue(outs)
        BY <1>1, <1>3, <1>4, IssueLedger
    <2>3. /\ StoredRunes \in Nat /\ Runes(ins) \in Nat /\ ChangeOfRunes(outs) \in Nat
          /\ StoredRunes' = StoredRunes - Runes(ins) + ChangeOfRunes(outs)
        BY <1>1, <1>3, <1>4, IssueLedger
    <2>4. fees' \in FeesType /\ Slack' = Slack - tx.fee /\ Slack \in Int
        BY <1>1, <1>4, SlackShrinks DEF ConfigOK
    <2>5. fees' \in FeesType /\ Stored' - Slack' = Stored - Slack
        BY <1>4, <2>2, <2>4
    <2>6. StoredRunes' = StoredRunes
        BY <1>4, <2>3
    <2> QED BY <2>1, <2>5, <2>6
<1>5. CASE asset = "BTC"
    <2> DEFINE fee == VirtualSize(Cardinality(S), 1) * feeRate.value
               v == VaultOut("BTC", dest, tx.change, 0)
    <2>1. tx = BuildTransferAllBtc(S)
        BY <1>5 DEF TransferTx
    <2>2. ~IsDust(Value(S) - fee) /\ tx.selected = S /\ tx.change = Value(S) - fee /\ tx.fee = fee
        <3>1. ~Failed.ok
            BY DEF Failed
        <3> QED BY <1>1, <2>1, <3>1 DEF BuildTransferAllBtc
    <2>3. fee \in Nat
        <3>1. IsFiniteSet(S)
            BY <1>2, FS_Subset DEF LedgerOK
        <3>2. Cardinality(S) \in Nat
            BY <3>1, FS_CardinalityType
        <3> QED BY <3>2, SizeIsNat, FeeRateIsNat
    <2>4. Value(S) \in Nat
        BY <1>2, ValueIs
    <2>5. tx.change \in Nat /\ tx.fee \in Nat /\ Value(S) = tx.change + tx.fee
        <3> DEFINE V == Value(S)
        <3>1. V - fee >= Dust /\ tx.change = V - fee /\ tx.fee = fee /\ V \in Nat /\ fee \in Nat
            <4>1. V \in Nat /\ fee \in Nat
                BY <2>3, <2>4
            <4>2. tx.change = V - fee /\ tx.fee = fee /\ ~(V - fee < Dust)
                BY <2>2 DEF IsDust
            <4> HIDE DEF V, fee, tx
            <4> QED BY <4>1, <4>2, BridgeAssumption
        <3> HIDE DEF V, fee, tx
        <3>2. tx.change \in Nat /\ tx.fee \in Nat /\ V = tx.change + tx.fee
            BY <3>1, BridgeAssumption
        <3> QED BY <3>2 DEF V
    <2>6. IsOut(v) /\ v.amount = tx.change /\ v.runes = 0 /\ v.asset \in Asset
        BY <2>5, OutsAre
    <2>7. outs = <<v>>
        BY <1>5 DEF TransferOuts
    <2>8. ins = S
        BY <2>2
    <2>9. AreOuts(<<v>>, 1) /\ ChangeValue(<<v>>) = ToVault(v, v.amount) /\ ChangeOfRunes(<<v>>) = ToVault(v, v.runes)
        BY <2>6, OneOut
    <2>10. ChangeIsOK(<<v>>)
        BY <2>9, OutsAreOK
    <2>11. Runes(S) = 0
        BY <1>2, <1>5, NoRunes
    <2> HIDE DEF tx, outs, ins, v, fee
    <2>12. ChangeIsOK(outs) /\ ChangeValue(outs) = tx.change /\ ChangeOfRunes(outs) = 0
        BY <2>6, <2>7, <2>9, <2>10 DEF ToVault
    <2> QED BY <1>4, <2>5, <2>8, <2>11, <2>12
<1>6. CASE asset # "BTC"
    <2> DEFINE r == Runes(S)
               v == VaultOut("RUNES", dest, RunesOutValue, r)
               s == <<OpReturn, v>>
    <2>1. r \in Nat /\ RunesOutValue \in Nat
        BY <1>2, ValueIs, BridgeAssumption
    <2>2. IsOut(v) /\ v.amount = RunesOutValue /\ v.runes = r /\ v.asset \in Asset
        <3> HIDE DEF r
        <3> QED BY <2>1, OutsAre
    <2>3. s = TransferAllRunesOuts(S, dest) /\ outs = WithChange(s, tx, dest) /\ tx = BuildUnsignedTransaction(S, s, source)
        BY <1>6 DEF TransferOuts, TransferTx, BuildTransferAllRunes, TransferAllRunesOuts
    <2> HIDE DEF r, v, tx, outs
    <2>4. /\ AreOuts(s, 2) /\ OutValue(s) = OpReturn.amount + v.amount
          /\ ChangeValue(s) = ToVault(OpReturn, OpReturn.amount) + ToVault(v, v.amount)
          /\ ChangeOfRunes(s) = ToVault(OpReturn, OpReturn.runes) + ToVault(v, v.runes)
        <3>1. IsOut(OpReturn) /\ IsOut(v)
            BY <2>2, OutsAre
        <3> QED BY <3>1, TwoOuts
    <2>5. s \in Seq({OpReturn, v}) /\ Len(s) = 2
        OBVIOUS
    <2>6. OutValue(s) = RunesOutValue /\ ChangeValue(s) = RunesOutValue /\ ChangeOfRunes(s) = r
        <3>1. OpReturn.amount = 0 /\ OpReturn.runes = 0 /\ OpReturn.asset \notin Asset
            BY OutsAre
        <3> HIDE DEF s
        <3> QED BY <2>1, <2>2, <2>4, <3>1 DEF ToVault
    <2> HIDE DEF s
    <2>7. IsFiniteSet(DOMAIN s) /\ \A i \in DOMAIN s : s[i].amount \in Nat
        BY <2>4, OutsAreOK
    <2>8. /\ tx.selected \subseteq Unlocked("BTC", source) /\ tx.change \in Nat /\ tx.fee \in Nat
          /\ Value(S) \in Nat /\ Value(tx.selected) \in Nat
          /\ Value(S) + Value(tx.selected) = OutValue(s) + tx.change + tx.fee
        <3>1. Len(s) \in Nat
            BY <2>5
        <3> QED BY <1>1, <1>2, <2>3, <2>7, <3>1, Built
    <2>9. /\ ChangeIsOK(outs) /\ ChangeValue(outs) = RunesOutValue + tx.change /\ ChangeOfRunes(outs) = r
        <3>1. AreOuts(s, Len(s))
            BY <2>4, <2>5
        <3>2. ChangeIsOK(outs) /\ ChangeValue(outs) = ChangeValue(s) + tx.change /\ ChangeOfRunes(outs) = ChangeOfRunes(s)
            BY <2>3, <2>5, <2>8, <3>1, ChangeAdded
        <3> QED BY <2>6, <3>2
    <2>10. tx.selected \in SUBSET DOMAIN utxo /\ \A o \in tx.selected : utxo[o].asset = "BTC"
        BY <2>8, UnlockedIs
    <2>11. S \intersect tx.selected = {}
        BY <1>2, <1>6, <2>10
    <2>12. Value(ins) = Value(S) + Value(tx.selected) /\ Runes(ins) = Runes(S) + Runes(tx.selected)
        BY <1>2, <2>10, <2>11, ValueUnion
    <2>13. Runes(tx.selected) = 0
        BY <2>10, NoRunes
    <2>14. Runes(ins) = r
        BY <2>1, <2>12, <2>13 DEF r
    <2>15. Value(ins) = ChangeValue(outs) + tx.fee
        BY <2>1, <2>6, <2>8, <2>9, <2>12
    <2> QED BY <1>4, <2>8, <2>9, <2>14, <2>15
<1> QED BY <1>5, <1>6

\* So does a proposed transaction (handleTransferVaultTx).
LEMMA PsbtLedger ==
    ASSUME IInv, LedgerOK, ConfigOK, NEW asset, NEW v, NEW w \in 0..latest, NEW ins \in SUBSET DOMAIN utxo,
           NEW r \in FeeRate, TransferVaultPsbt(asset, v, w, ins, r), latest' = latest
    PROVE  /\ LedgerOK' /\ Transactions \subseteq Transactions' /\ fees' \in FeesType
           /\ Stored' - Slack' = Stored - Slack /\ StoredRunes' = StoredRunes
<1> DEFINE V == Value(ins)
           R == Runes(ins)
           pays(fee) == IF asset = "BTC" THEN <<VaultOut("BTC", w, V - fee, 0)>>
                        ELSE <<OpReturn, VaultOut("RUNES", w, RunesOutValue, R), VaultOut("BTC", w, V - RunesOutValue - fee, 0)>>
           size == VirtualSize(Cardinality(ins), Len(pays(0))) * r
           outs == pays(size)
<1>1. /\ \A i \in ChangeOuts(outs) : ~IsDust(outs[i].amount)
      /\ fees' = PayForMove(size)
      /\ \A o \in ins : ~utxo[o].locked
      /\ asset = "BTC" => \A o \in ins : utxo[o].asset = "BTC"
    BY DEF TransferVaultPsbt
<1>2. PICK edict : IssueTransaction(ins, outs, edict)
    BY DEF TransferVaultPsbt
<1>3. ins \subseteq index
    BY <1>1 DEF IInv, UnlockedIsIndexed
<1>4. V \in Nat /\ R \in Nat
    BY ValueIs
<1>5. size \in Nat
    <2>1. IsFiniteSet(ins)
        BY FS_Subset DEF LedgerOK
    <2>2. Cardinality(ins) \in Nat
        BY <2>1, FS_CardinalityType
    <2>3. Len(pays(0)) \in Nat
        <3> DEFINE x == VaultOut("BTC", w, V - 0, 0)
                   y == VaultOut("RUNES", w, RunesOutValue, R)
                   z == VaultOut("BTC", w, V - RunesOutValue - 0, 0)
        <3>1. pays(0) = IF asset = "BTC" THEN <<x>> ELSE <<OpReturn, y, z>>
            OBVIOUS
        <3>2. Len(<<x>>) = 1 /\ Len(<<OpReturn, y, z>>) = 3
            OBVIOUS
        <3> HIDE DEF x, y, z, pays
        <3> QED BY <3>1, <3>2
    <2>4. r \in Nat
        BY BridgeAssumption
    <2> HIDE DEF pays
    <2> QED BY <2>2, <2>3, <2>4, SizeIsNat
<1>6. ASSUME ChangeIsOK(outs), V = ChangeValue(outs) + size, R = ChangeOfRunes(outs)
      PROVE  /\ LedgerOK' /\ Transactions \subseteq Transactions' /\ fees' \in FeesType
             /\ Stored' - Slack' = Stored - Slack /\ StoredRunes' = StoredRunes
    <2> HIDE DEF outs, size, pays
    <2>1. LedgerOK' /\ Transactions \subseteq Transactions'
        BY <1>2, <1>3, <1>6, IssueLedger
    <2>2. /\ Stored \in Nat /\ V \in Nat /\ ChangeValue(outs) \in Nat
          /\ Stored' = Stored - V + ChangeValue(outs)
        BY <1>2, <1>3, <1>6, IssueLedger
    <2>3. /\ StoredRunes \in Nat /\ R \in Nat /\ ChangeOfRunes(outs) \in Nat
          /\ StoredRunes' = StoredRunes - R + ChangeOfRunes(outs)
        BY <1>2, <1>3, <1>6, IssueLedger
    <2>4. fees' \in FeesType /\ Slack' = Slack - size /\ Slack \in Int
        BY <1>1, <1>5, SlackShrinks DEF ConfigOK
    <2> HIDE DEF V, R
    <2>5. fees' \in FeesType /\ Stored' - Slack' = Stored - Slack
        BY <1>5, <1>6, <2>2, <2>4
    <2>6. StoredRunes' = StoredRunes
        BY <1>6, <2>3
    <2> QED BY <2>1, <2>5, <2>6
<1>7. CASE asset = "BTC"
    <2> DEFINE n == V - size
               x == VaultOut("BTC", w, n, 0)
    <2>1. outs = <<x>>
        BY <1>7
    <2>2. n \in Int
        BY <1>4, <1>5
    <2>3. x.amount = n /\ x.asset \in Asset
        BY DEF VaultOut, Out, Asset
    <2> HIDE DEF outs, x
    <2>4. 1 \in ChangeOuts(outs) /\ outs[1] = x
        BY <2>1, <2>3 DEF ChangeOuts
    <2>5. n \in Nat /\ V = n + size
        <3>1. ~IsDust(n)
            BY <1>1, <2>3, <2>4
        <3>2. V = n + size
            <4> HIDE DEF V, size
            <4> QED BY <1>4, <1>5
        <3> HIDE DEF n
        <3> QED BY <2>2, <3>1, <3>2, BridgeAssumption DEF IsDust
    <2>6. IsOut(x) /\ x.runes = 0
        <3> HIDE DEF n
        <3> QED BY <2>5, OutsAre DEF x
    <2>7. AreOuts(<<x>>, 1) /\ ChangeValue(<<x>>) = ToVault(x, x.amount) /\ ChangeOfRunes(<<x>>) = ToVault(x, x.runes)
        BY <2>6, OneOut
    <2>8. ChangeIsOK(<<x>>)
        BY <2>7, OutsAreOK
    <2>9. R = 0
        BY <1>1, <1>7, NoRunes
    <2> HIDE DEF V, R, size, n
    <2>10. ChangeIsOK(outs) /\ ChangeValue(outs) = n /\ ChangeOfRunes(outs) = 0
        BY <2>1, <2>3, <2>6, <2>7, <2>8 DEF ToVault
    <2> QED BY <1>6, <2>5, <2>9, <2>10
<1>8. CASE asset # "BTC"
    <2> DEFINE n == V - RunesOutValue - size
               y == VaultOut("RUNES", w, RunesOutValue, R)
               z == VaultOut("BTC", w, n, 0)
    <2>1. outs = <<OpReturn, y, z>>
        BY <1>8
    <2>2. n \in Int
        BY <1>4, <1>5, BridgeAssumption
    <2>3. z.amount = n /\ z.asset \in Asset
        BY DEF VaultOut, Out, Asset
    <2> HIDE DEF outs, y, z
    <2>4. 3 \in ChangeOuts(outs) /\ outs[3] = z
        BY <2>1, <2>3 DEF ChangeOuts
    <2>5. n \in Nat /\ V = RunesOutValue + n + size
        <3>1. ~IsDust(n)
            BY <1>1, <2>3, <2>4
        <3>2. V = RunesOutValue + n + size
            <4> HIDE DEF V, size
            <4> QED BY <1>4, <1>5, BridgeAssumption
        <3> HIDE DEF n
        <3> QED BY <2>2, <3>1, <3>2, BridgeAssumption DEF IsDust
    <2>6. IsOut(z) /\ z.runes = 0
        <3> HIDE DEF n
        <3> QED BY <2>5, OutsAre DEF z
    <2>7. RunesOutValue \in Nat
        BY BridgeAssumption
    <2>8. IsOut(y) /\ y.runes = R /\ y.amount = RunesOutValue /\ y.asset \in Asset
        <3> HIDE DEF R
        <3> QED BY <1>4, <2>7, OutsAre DEF y
    <2>9. IsOut(OpReturn) /\ OpReturn.amount = 0 /\ OpReturn.runes = 0 /\ OpReturn.asset \notin Asset
        BY OutsAre
    <2> DEFINE s == <<OpReturn, y, z>>
    <2>10. /\ AreOuts(s, 3)
           /\ ChangeValue(s) = ToVault(OpReturn, OpReturn.amount) + ToVault(y, y.amount) + ToVault(z, z.amount)
           /\ ChangeOfRunes(s) = ToVault(OpReturn, OpReturn.runes) + ToVault(y, y.runes) + ToVault(z, z.runes)
        BY <2>6, <2>8, <2>9, ThreeOuts
    <2>11. outs = s
        BY <2>1
    <2> HIDE DEF V, R, size, n, s
    <2>12. ChangeIsOK(s)
        BY <2>10, OutsAreOK
    <2>13. ChangeIsOK(outs) /\ ChangeValue(outs) = RunesOutValue + n /\ ChangeOfRunes(outs) = R
        BY <1>4, <2>3, <2>5, <2>6, <2>7, <2>8, <2>9, <2>10, <2>11, <2>12 DEF ToVault
    <2> QED BY <1>6, <2>5, <2>13
<1> QED BY <1>7, <1>8

\* The outputs of a withdrawal of runes.
LEMMA RunesOutsSum ==
    ASSUME ConfigOK, NEW u, NEW a \in Nat, NEW rest \in Nat
    PROVE  /\ AreOuts(RunesOuts(u, a, rest), Len(RunesOuts(u, a, rest)))
           /\ OutValue(RunesOuts(u, a, rest)) = ChangeValue(RunesOuts(u, a, rest)) + RunesOutValue
           /\ ChangeOfRunes(RunesOuts(u, a, rest)) = rest
<1> DEFINE v == VaultOut("RUNES", latest, RunesOutValue, rest)
           w == UserOut(u, RunesOutValue, a, NextRequest)
<1>1. RunesOutValue \in Nat /\ latest \in 0..latest
    BY BridgeAssumption DEF ConfigOK
<1>2. IsOut(OpReturn) /\ OpReturn.amount = 0 /\ OpReturn.runes = 0 /\ OpReturn.asset \notin Asset
    BY OutsAre
<1>3. IsOut(v) /\ v.amount = RunesOutValue /\ v.runes = rest /\ v.asset \in Asset
    BY <1>1, OutsAre
<1>4. IsOut(w) /\ w.amount = RunesOutValue /\ w.asset \notin Asset
    BY <1>1, OutsAre
<1>5. RunesOuts(u, a, rest) = IF rest > 0 THEN <<OpReturn, v, w>> ELSE <<OpReturn, w>>
    BY DEF RunesOuts
<1> HIDE DEF v, w
<1>6. CASE rest > 0
    <2> DEFINE s == <<OpReturn, v, w>>
    <2>1. Len(s) = 3 /\ RunesOuts(u, a, rest) = s
        BY <1>5, <1>6
    <2>2. /\ AreOuts(s, 3) /\ OutValue(s) = OpReturn.amount + v.amount + w.amount
          /\ ChangeValue(s) = ToVault(OpReturn, OpReturn.amount) + ToVault(v, v.amount) + ToVault(w, w.amount)
          /\ ChangeOfRunes(s) = ToVault(OpReturn, OpReturn.runes) + ToVault(v, v.runes) + ToVault(w, w.runes)
        BY <1>2, <1>3, <1>4, ThreeOuts
    <2> HIDE DEF s
    <2>3. /\ ToVault(OpReturn, OpReturn.amount) = 0 /\ ToVault(OpReturn, OpReturn.runes) = 0
          /\ ToVault(v, v.amount) = RunesOutValue /\ ToVault(v, v.runes) = rest
          /\ ToVault(w, w.amount) = 0 /\ ToVault(w, w.runes) = 0
        BY <1>2, <1>3, <1>4 DEF ToVault
    <2>4. OutValue(s) = RunesOutValue + RunesOutValue /\ ChangeValue(s) = RunesOutValue /\ ChangeOfRunes(s) = rest
        BY <1>1, <1>2, <1>3, <1>4, <2>2, <2>3
    <2> QED BY <1>1, <2>1, <2>2, <2>4
<1>7. CASE ~(rest > 0)
    <2> DEFINE s == <<OpReturn, w>>
    <2>1. Len(s) = 2 /\ RunesOuts(u, a, rest) = s /\ rest = 0
        BY <1>5, <1>7
    <2>2. /\ AreOuts(s, 2) /\ OutValue(s) = OpReturn.amount + w.amount
          /\ ChangeValue(s) = ToVault(OpReturn, OpReturn.amount) + ToVault(w, w.amount)
          /\ ChangeOfRunes(s) = ToVault(OpReturn, OpReturn.runes) + ToVault(w, w.runes)
        BY <1>2, <1>4, TwoOuts
    <2> HIDE DEF s
    <2>3. /\ ToVault(OpReturn, OpReturn.amount) = 0 /\ ToVault(OpReturn, OpReturn.runes) = 0
          /\ ToVault(w, w.amount) = 0 /\ ToVault(w, w.runes) = 0
        BY <1>2, <1>4 DEF ToVault
    <2>4. OutValue(s) = RunesOutValue /\ ChangeValue(s) = 0 /\ ChangeOfRunes(s) = 0
        BY <1>1, <1>2, <1>4, <2>2, <2>3
    <2> DEFINE R == RunesOuts(u, a, rest)
    <2>5. R = s /\ Len(s) = 2 /\ rest = 0
        BY <2>1
    <2>6. AreOuts(R, Len(R)) /\ OutValue(R) = ChangeValue(R) + RunesOutValue /\ ChangeOfRunes(R) = rest
        <3> HIDE DEF R
        <3> QED BY <1>1, <2>2, <2>4, <2>5
    <2> QED BY <2>6
<1> QED BY <1>6, <1>7

\* A withdrawal of runes takes the fee and its output out of the vaults, and its runes.
LEMMA RunesLedger ==
    ASSUME IInv, LedgerOK, ConfigOK, NEW u, NEW a \in RuneAmount, WithdrawRunes(u, a)
    PROVE  \E fee \in Nat :
               /\ balance[u] >= WithdrawFee + fee + RunesOutValue
               /\ balance' = AddCoins(SubCoins(balance, u, WithdrawFee + fee + RunesOutValue), Collector, WithdrawFee)
               /\ LedgerOK' /\ Transactions \subseteq Transactions' /\ NextTx \in Transactions'
               /\ Stored' = Stored - (fee + RunesOutValue) /\ StoredRunes' = StoredRunes - a
               /\ Stored \in Nat /\ StoredRunes \in Nat
<1> DEFINE base == TargetRunesUTXOs(latest, a)
           rest == Runes(base) - a
           outs == RunesOuts(u, a, rest)
           tx == BuildUnsignedTransaction(base, outs, latest)
           ins == base \union tx.selected
           all == WithChange(outs, tx, latest)
<1>1. /\ base # {} /\ tx.ok /\ CanBurn(u, WithdrawFee + RunesOutValue, tx.fee)
      /\ balance' = AddCoins(SubCoins(balance, u, WithdrawFee + tx.fee + RunesOutValue), Collector, WithdrawFee)
      /\ latest' = latest
    BY DEF WithdrawRunes, config, settings
<1>2. PICK edict : IssueTransaction(ins, all, edict)
    BY DEF WithdrawRunes
<1>3. a \in Nat /\ RunesOutValue \in Nat /\ WithdrawFee \in Nat /\ latest \in 0..latest
    BY BridgeAssumption DEF ConfigOK, ValidParams
<1>4. base \subseteq Unlocked("RUNES", latest) /\ Runes(base) >= a
    BY <1>1, RunesTargeted
<1>5. base \in SUBSET DOMAIN utxo /\ \A o \in base : utxo[o].asset = "RUNES"
    BY <1>4, UnlockedIs
<1>6. rest \in Nat /\ Runes(base) = rest + a
    <2> DEFINE R == Runes(base)
    <2>1. R \in Nat
        BY <1>5, ValueIs
    <2>2. R >= a
        BY <1>4
    <2>3. R - a \in Nat /\ R = (R - a) + a
        <3> HIDE DEF R
        <3> QED BY <1>3, <2>1, <2>2
    <2> QED BY <2>3
<1> HIDE DEF rest
<1>7. /\ AreOuts(outs, Len(outs)) /\ OutValue(outs) = ChangeValue(outs) + RunesOutValue
      /\ ChangeOfRunes(outs) = rest
    BY <1>3, <1>6, RunesOutsSum
<1>8. PICK T : outs \in Seq(T)
    BY RunesOutsAre
<1>9. Len(outs) \in Nat
    BY <1>7 DEF AreOuts
<1> HIDE DEF outs, base
<1>10. IsFiniteSet(DOMAIN outs) /\ \A i \in DOMAIN outs : outs[i].amount \in Nat
    BY <1>7, OutsAreOK
<1>11. /\ tx.selected \subseteq Unlocked("BTC", latest) /\ tx.change \in Nat /\ tx.fee \in Nat
       /\ Value(base) \in Nat /\ Value(tx.selected) \in Nat
       /\ Value(base) + Value(tx.selected) = OutValue(outs) + tx.change + tx.fee
    BY <1>1, <1>5, <1>9, <1>10, Built
<1> HIDE DEF tx
<1>12. /\ ChangeIsOK(all) /\ ChangeValue(all) = ChangeValue(outs) + tx.change /\ ChangeOfRunes(all) = ChangeOfRunes(outs)
       /\ ChangeValue(outs) \in Nat
    BY <1>3, <1>7, <1>8, <1>11, ChangeAdded
<1>13. tx.selected \in SUBSET DOMAIN utxo /\ \A o \in tx.selected : utxo[o].asset = "BTC"
    BY <1>11, UnlockedIs
<1>14. base \intersect tx.selected = {}
    BY <1>5, <1>13
<1>15. Value(ins) = Value(base) + Value(tx.selected) /\ Runes(ins) = Runes(base) + Runes(tx.selected)
    BY <1>5, <1>13, <1>14, ValueUnion
<1>16. Runes(tx.selected) = 0
    BY <1>13, NoRunes
<1>17. ins \subseteq index
    BY <1>4, <1>11, UnlockedIs
<1> HIDE DEF ins, all
<1>18. LedgerOK' /\ Transactions \subseteq Transactions' /\ NextTx \in Transactions'
    BY <1>1, <1>2, <1>12, <1>17, IssueLedger
<1>19. Stored \in Nat /\ Value(ins) \in Nat /\ ChangeValue(all) \in Nat /\ Stored' = Stored - Value(ins) + ChangeValue(all)
    BY <1>1, <1>2, <1>12, <1>17, IssueLedger
<1>20. StoredRunes \in Nat /\ Runes(ins) \in Nat /\ StoredRunes' = StoredRunes - Runes(ins) + ChangeOfRunes(all)
    BY <1>1, <1>2, <1>12, <1>17, IssueLedger
<1>21. Stored' = Stored - (tx.fee + RunesOutValue)
    <2> DEFINE X == Value(ins)
               Y == ChangeValue(all)
               c == tx.change
               f == tx.fee
               o == OutValue(outs)
               p == ChangeValue(outs)
               b == Value(base)
               s == Value(tx.selected)
    <2>1. /\ X = b + s /\ Y = p + c /\ o = p + RunesOutValue /\ b + s = o + c + f
          /\ X \in Nat /\ Y \in Nat /\ c \in Nat /\ f \in Nat /\ p \in Nat /\ b \in Nat /\ s \in Nat
        BY <1>7, <1>11, <1>12, <1>15, <1>19
    <2>2. Stored' = Stored - X + Y /\ Stored \in Nat
        BY <1>19
    <2>3. Stored' = Stored - (f + RunesOutValue)
        <3> HIDE DEF X, Y, c, f, o, p, b, s
        <3> QED BY <1>3, <2>1, <2>2
    <2> QED BY <2>3
<1>22. StoredRunes' = StoredRunes - a
    BY <1>3, <1>6, <1>7, <1>12, <1>15, <1>16, <1>20
<1>23. balance[u] >= WithdrawFee + tx.fee + RunesOutValue
    <2>1. balance[u] >= WithdrawFee + RunesOutValue + tx.fee
        BY <1>1 DEF CanBurn
    <2>2. WithdrawFee + RunesOutValue + tx.fee = WithdrawFee + tx.fee + RunesOutValue
        BY <1>3, <1>11
    <2> QED BY <2>1, <2>2
<1> QED BY <1>1, <1>11, <1>18, <1>19, <1>20, <1>21, <1>22, <1>23

\* A new request, queued or paid at once.
LEMMA RequestAppended ==
    ASSUME RequestIsSeq, RequestsOK, NEW u \in User, NEW x \in Nat, NEW t, NewWithdrawRequest(u, x, t),
           t \in {0} \union Transactions', Transactions \subseteq Transactions',
           queue' \in {queue, queue \union {NextRequest}}
    PROVE  /\ RequestsOK' /\ Owed \in Nat
           /\ queue' = queue => Owed' = Owed
           /\ queue' = queue \union {NextRequest} => Owed' = Owed + x
<1> DEFINE e == [user |-> u, amount |-> x, txid |-> t]
           n == Len(request)
           k == NextRequest
<1>1. /\ n \in Nat /\ DOMAIN request = 1..n /\ DOMAIN request' = 1..(n + 1)
      /\ (\A i \in 1..n : request'[i] = request[i]) /\ request'[n + 1] = e
    <2>1. PICK U, A, T : request \in Seq(RequestRecord(U, A, T))
        BY DEF RequestIsSeq
    <2> DEFINE S == RequestRecord(U, A, T)
    <2>2. request \in Seq(S) /\ e \in {e} \union S /\ S \subseteq {e} \union S
        BY <2>1
    <2>3. request' = Append(request, e)
        BY DEF NewWithdrawRequest
    <2> HIDE DEF S, e
    <2> QED BY <2>2, <2>3, Appended
<1>2. k = n + 1 /\ k \notin queue /\ queue \subseteq DOMAIN request
    BY <1>1 DEF NextRequest, RequestsOK
<1>3. e.amount = x /\ e \in [user : User, amount : Nat, txid : {0} \union Transactions']
    OBVIOUS
<1> HIDE DEF e, n, k
<1>4. RequestsOK'
    <2>1. \A r \in 1..n : request[r] \in [user : User, amount : Nat, txid : {0} \union Transactions']
        BY <1>1 DEF RequestsOK
    <2>2. \A r \in DOMAIN request' : request'[r] \in [user : User, amount : Nat, txid : {0} \union Transactions']
        BY <1>1, <1>3, <2>1
    <2>3. queue' \subseteq DOMAIN request'
        BY <1>1, <1>2 DEF k
    <2> QED BY <2>2, <2>3 DEF RequestsOK
<1>5. Owed = SumFunctionOnSet(OwedOf, queue) /\ Owed \in Nat /\ IsFiniteSet(queue)
    BY <1>2, OwedIs DEF Owed
<1> DEFINE f == [r \in queue |-> request[r].amount]
           g == [r \in queue' |-> request'[r].amount]
<1>6. Owed = SumFunction(f) /\ Owed' = SumFunction(g)
    BY DEF Owed, SumOver
<1>7. \A r \in queue : f[r] \in Int /\ request'[r].amount = f[r]
    BY <1>1, <1>2 DEF RequestsOK
<1>8. ASSUME queue' = queue PROVE Owed' = Owed
    <2>1. f = g
        BY <1>7, <1>8
    <2> QED BY <1>6, <2>1
<1>9. ASSUME queue' = queue \union {k} PROVE Owed' = Owed + x
    <2>1. DOMAIN f = queue /\ DOMAIN g = DOMAIN f \union {k} /\ k \notin DOMAIN f /\ g[k] = x /\ g[k] \in Int
        BY <1>1, <1>2, <1>3, <1>9
    <2>2. \A r \in DOMAIN f : f[r] \in Int /\ g[r] = f[r]
        BY <1>7, <1>9
    <2> HIDE DEF f, g
    <2> QED BY <1>5, <1>6, <2>1, <2>2, SumMore
<1> QED BY <1>4, <1>5, <1>8, <1>9 DEF k

\* A batch is worth what the queue owes to its withdrawals.
LEMMA BatchValue ==
    ASSUME OwedInv, RequestsOK
    PROVE  /\ AreOuts(BatchOuts, Len(Batch)) /\ (\E S : BatchOuts \in Seq(S)) /\ Len(BatchOuts) = Len(Batch)
           /\ ChangeOuts(BatchOuts) = {} /\ Range(Batch) \subseteq queue
           /\ OutValue(BatchOuts) = SumFunctionOnSet(OwedOf, Range(Batch))
<1> DEFINE k == Len(Batch)
           J == Range(Batch)
<1>1. k \in Nat /\ DOMAIN Batch = 1..k
    BY BatchIs
<1>2. \A i \in 1..k : Batch[i] \in queue
    BY <1>1, BatchIs
<1>3. \A i, j \in 1..k : Batch[i] = Batch[j] => i = j
    BY <1>1, BatchIs
<1>4. \A r : r \in J <=> \E i \in 1..k : r = Batch[i]
    BY <1>1, BatchIs
<1>5. Names(Batch, 1..k, J) /\ J \subseteq queue
    <2> HIDE DEF k, J
    <2> QED BY <1>2, <1>3, <1>4 DEF Names
<1>6. \A i \in 1..k : request[Batch[i]].amount \in Nat /\ OwedOf[Batch[i]] = request[Batch[i]].amount
    BY <1>2 DEF RequestsOK, OwedOf
<1> DEFINE s == BatchOuts
           o(i) == UserOut(request[Batch[i]].user, request[Batch[i]].amount, 0, Batch[i])
<1>7. DOMAIN s = 1..k /\ \A i \in 1..k : s[i] = o(i)
    BY <1>1 DEF BatchOuts
<1>8. \A i \in 1..k : IsOut(o(i)) /\ o(i).asset \notin Asset /\ o(i).amount = request[Batch[i]].amount
    <2> SUFFICES ASSUME NEW i \in 1..k PROVE IsOut(o(i)) /\ o(i).asset \notin Asset /\ o(i).amount = request[Batch[i]].amount
        OBVIOUS
    <2> DEFINE x == request[Batch[i]].amount
               u == request[Batch[i]].user
    <2>1. x \in Nat /\ 0 \in Nat
        BY <1>6
    <2> HIDE DEF x, u
    <2>2. IsOut(UserOut(u, x, 0, Batch[i])) /\ UserOut(u, x, 0, Batch[i]).asset \notin Asset /\ UserOut(u, x, 0, Batch[i]).amount = x
        BY <2>1, OutsAre
    <2> QED BY <2>2 DEF x, u
<1>9. \E S : s \in Seq(S) /\ Len(s) = k
    <2> DEFINE S == {o(i) : i \in 1..k}
    <2>1. s = [i \in 1..k |-> o(i)]
        BY <1>1 DEF BatchOuts
    <2>2. s \in [1..k -> S]
        BY <2>1
    <2>3. s \in Seq(S) /\ Len(s) = k
        <3> HIDE DEF S, s, k
        <3> QED BY <1>1, <2>2
    <2> QED BY <2>3
<1> HIDE DEF s, o
<1>10. AreOuts(s, k)
    BY <1>1, <1>7, <1>8 DEF AreOuts
<1>11. ChangeOuts(s) = {}
    BY <1>7, <1>8 DEF ChangeOuts
<1> DEFINE f == [i \in DOMAIN s |-> s[i].amount]
<1>12. OutValue(s) = SumFunctionOnSet(f, 1..k)
    BY <1>7 DEF OutValue, SumOver, SumFunction
<1>13. \A i \in 1..k : f[i] \in Int /\ OwedOf[Batch[i]] = f[i]
    BY <1>6, <1>7, <1>8
<1>14. IsFiniteSet(1..k)
    BY <1>1, FS_Interval
<1>15. SumFunctionOnSet(OwedOf, J) = SumFunctionOnSet(f, 1..k)
    <2> DEFINE K == 1..k
               h == Batch
    <2>1. IsFiniteSet(K) /\ Names(h, K, J)
        BY <1>5, <1>14
    <2>2. \A x \in K : f[x] \in Int /\ OwedOf[h[x]] = f[x]
        BY <1>13
    <2> HIDE DEF f, J, k, K, h
    <2>3. SumFunctionOnSet(OwedOf, J) = SumFunctionOnSet(f, K)
        BY ONLY <2>1, <2>2, SumReindex
    <2> QED BY <2>3 DEF K
<1> QED BY <1>5, <1>9, <1>10, <1>11, <1>12, <1>15 DEF s

\* A batch takes its withdrawals and its fee out of the vaults and its withdrawals off the queue.
LEMMA BatchLedger ==
    ASSUME IInv, OwedInv, LedgerOK, ConfigOK, RequestsOK, BatchTx.ok,
           IssueTransaction(BatchTx.selected, WithChange(BatchOuts, BatchTx, latest), NoEdict),
           request' = [r \in DOMAIN request |-> IF r \in Range(Batch) THEN [request[r] EXCEPT !.txid = NextTx] ELSE request[r]],
           queue' = Dequeued(queue), fees' = PayForBatch(BatchTx.fee), latest' = latest
    PROVE  /\ LedgerOK' /\ RequestsOK' /\ Transactions \subseteq Transactions' /\ fees' \in FeesType
           /\ Stored' - Owed' - Slack' = Stored - Owed - Slack /\ StoredRunes' = StoredRunes
           /\ Stored' \in Int /\ Owed' \in Int
<1> DEFINE tx == BatchTx
           all == WithChange(BatchOuts, tx, latest)
           ins == tx.selected
           none == {}
           J == Range(Batch)
<1>1. /\ AreOuts(BatchOuts, Len(Batch)) /\ Len(BatchOuts) = Len(Batch) /\ ChangeOuts(BatchOuts) = {} /\ J \subseteq queue
      /\ OutValue(BatchOuts) = SumFunctionOnSet(OwedOf, J)
    BY BatchValue
<1>2. PICK S : BatchOuts \in Seq(S)
    BY BatchValue
<1>3. AreOuts(BatchOuts, Len(BatchOuts)) /\ Len(BatchOuts) \in Nat
    BY <1>1 DEF AreOuts
<1>4. tx = BuildUnsignedTransaction(none, BatchOuts, latest) /\ latest \in 0..latest
    BY DEF BatchTx, ConfigOK
<1>5. IsFiniteSet(DOMAIN BatchOuts) /\ \A i \in DOMAIN BatchOuts : BatchOuts[i].amount \in Nat
    BY <1>3, OutsAreOK
<1>6. none \in SUBSET DOMAIN utxo
    OBVIOUS
<1>7. Value(none) = 0
    <2>1. Value(none) = SumFunctionOnSet(AmountOf, {})
        BY <1>6, ValueIs
    <2> QED BY <2>1, SumSmall
<1>8. tx.ok
    OBVIOUS
<1> HIDE DEF none, tx
<1>9. /\ tx.selected \subseteq Unlocked("BTC", latest) /\ tx.change \in Nat /\ tx.fee \in Nat
      /\ Value(tx.selected) \in Nat /\ OutValue(BatchOuts) \in Nat
      /\ Value(none) + Value(tx.selected) = OutValue(BatchOuts) + tx.change + tx.fee
    BY <1>3, <1>4, <1>5, <1>6, <1>8, Built
<1>10. ChangeIsOK(all) /\ ChangeValue(all) = ChangeValue(BatchOuts) + tx.change /\ ChangeOfRunes(all) = ChangeOfRunes(BatchOuts)
    BY <1>2, <1>3, <1>4, <1>9, ChangeAdded
<1>11. ChangeValue(BatchOuts) = 0 /\ ChangeOfRunes(BatchOuts) = 0
    BY <1>1, SumSmall DEF ChangeValue, ChangeOfRunes, SumFunction
<1>12. ins \subseteq index /\ ins \in SUBSET DOMAIN utxo /\ \A o \in ins : utxo[o].asset = "BTC"
    BY <1>9, UnlockedIs
<1>13. Runes(ins) = 0
    BY <1>12, NoRunes
<1>14. IssueTransaction(ins, all, NoEdict) /\ fees' = PayForBatch(tx.fee)
    BY DEF tx
<1> HIDE DEF ins, all
<1>15. LedgerOK' /\ Transactions \subseteq Transactions' /\ NextTx \in Transactions'
    BY <1>10, <1>12, <1>14, IssueLedger
<1>16. Stored \in Nat /\ Value(ins) \in Nat /\ ChangeValue(all) \in Nat /\ Stored' = Stored - Value(ins) + ChangeValue(all)
    BY <1>10, <1>12, <1>14, IssueLedger
<1>17. StoredRunes \in Nat /\ StoredRunes' = StoredRunes - Runes(ins) + ChangeOfRunes(all)
    BY <1>10, <1>12, <1>14, IssueLedger
<1>18. StoredRunes' = StoredRunes
    BY <1>10, <1>11, <1>13, <1>17
<1>19. /\ DOMAIN request' = DOMAIN request
       /\ \A r \in DOMAIN request : /\ request'[r].amount = request[r].amount
                                    /\ request'[r] \in [user : User, amount : Nat, txid : {0} \union Transactions']
    <2> SUFFICES ASSUME NEW r \in DOMAIN request
                 PROVE  /\ request'[r].amount = request[r].amount
                        /\ request'[r] \in [user : User, amount : Nat, txid : {0} \union Transactions']
        OBVIOUS
    <2>1. request[r] \in [user : User, amount : Nat, txid : {0} \union Transactions]
        BY DEF RequestsOK
    <2>2. \A x \in [user : User, amount : Nat, txid : {0} \union Transactions] :
              /\ [x EXCEPT !.txid = NextTx].amount = x.amount
              /\ [x EXCEPT !.txid = NextTx] \in [user : User, amount : Nat, txid : {0} \union Transactions']
              /\ x \in [user : User, amount : Nat, txid : {0} \union Transactions']
        BY <1>15
    <2> QED BY <2>1, <2>2
<1>20. queue' = queue \ J /\ queue \subseteq DOMAIN request
    BY DEF Dequeued, OwedInv
<1>21. RequestsOK'
    BY <1>19, <1>20 DEF RequestsOK
<1>22. IsFiniteSet(queue) /\ IsFiniteSet(J) /\ IsFiniteSet(queue \ J)
    <2>1. IsFiniteSet(queue)
        BY <1>20, OwedIs DEF OwedInv
    <2> QED BY <1>1, <2>1, FS_Subset
<1>23. \A r \in queue : OwedOf[r] \in Int /\ request'[r].amount = OwedOf[r]
    BY <1>19, <1>20 DEF OwedOf, RequestsOK
<1>24. Owed = SumFunctionOnSet(OwedOf, queue)
    BY <1>20, OwedIs DEF Owed, OwedInv
<1>25. Owed' = SumFunctionOnSet(OwedOf, queue \ J)
    <2> DEFINE g == [r \in queue' |-> request'[r].amount]
    <2>1. Owed' = SumFunctionOnSet(g, queue')
        BY DEF Owed, SumOver, SumFunction
    <2>2. \A r \in queue \ J : g[r] = OwedOf[r]
        BY <1>20, <1>23
    <2> HIDE DEF g, J
    <2>3. SumFunctionOnSet(g, queue \ J) = SumFunctionOnSet(OwedOf, queue \ J)
        BY <1>22, <2>2, SumSame
    <2> QED BY <1>20, <2>1, <2>3
<1> HIDE DEF J
<1>26. SumFunctionOnSet(OwedOf, queue) = SumFunctionOnSet(OwedOf, queue \ J) + SumFunctionOnSet(OwedOf, J)
    <2> DEFINE K == queue \ J
    <2>1. K \union J = queue /\ K \intersect J = {} /\ \A r \in K \union J : OwedOf[r] \in Int
        BY <1>1, <1>23
    <2>2. IsFiniteSet(K)
        BY <1>22
    <2> HIDE DEF K
    <2>3. SumFunctionOnSet(OwedOf, K \union J) = SumFunctionOnSet(OwedOf, K) + SumFunctionOnSet(OwedOf, J)
        BY <1>22, <2>1, <2>2, SumUnion
    <2> QED BY <2>1, <2>3 DEF K
<1>27. SumFunctionOnSet(OwedOf, queue \ J) \in Int
    BY <1>22, <1>23, SumType
<1>28. fees' \in FeesType /\ Slack' = Slack - tx.fee /\ Slack \in Int
    BY <1>9, <1>14, SlackShrinks DEF ConfigOK
<1>29. /\ fees' \in FeesType /\ Stored' \in Int /\ Owed' \in Int
       /\ Stored' - Owed' - Slack' = Stored - Owed - Slack
    <2> DEFINE X == Value(ins)
               Y == ChangeValue(all)
               c == tx.change
               f == tx.fee
               b == OutValue(BatchOuts)
               q == SumFunctionOnSet(OwedOf, queue \ J)
    <2>1. /\ X = b + c + f /\ Y = c /\ X \in Nat /\ c \in Nat /\ f \in Nat /\ b \in Nat /\ q \in Int
        BY <1>7, <1>9, <1>10, <1>11, <1>16, <1>27 DEF ins
    <2>2. Owed = q + b /\ Owed' = q /\ Stored' = Stored - X + Y /\ Stored \in Nat /\ Slack' = Slack - f
        BY <1>1, <1>16, <1>24, <1>25, <1>26, <1>28
    <2> HIDE DEF X, Y, c, f, b, q
    <2> QED BY <1>28, <2>1, <2>2
<1> QED BY <1>15, <1>18, <1>21, <1>29

\* The outputs that a report of a deposit saves, and what they are worth.
SavedValue(outs, S) == SumFunction([i \in S |-> outs[i].amount])
SavedRunes(outs, S) == SumFunction([i \in S |-> outs[i].runes])
SavedIsOK(outs, S) ==
    \A i \in S : /\ outs[i].asset \in Asset /\ outs[i].version \in 0..latest
                 /\ outs[i].amount \in Nat /\ outs[i].runes \in Nat
                 /\ outs[i].asset = "BTC" => outs[i].runes = 0

\* What a report of a deposit does to the store and its sums.
LEMMA SavedLedger ==
    ASSUME IInv, LedgerOK, NEW t \in Transactions, t \notin minted, minted' = minted \union {t}, signing' = signing,
           latest' = latest, NEW outs, NEW S \in SUBSET Nat, IsFiniteSet(S), SavedIsOK(outs, S), SaveUTXOs(t, outs, S)
    PROVE  /\ LedgerOK' /\ Transactions' = Transactions /\ Stored \in Nat /\ StoredRunes \in Nat
           /\ SavedValue(outs, S) \in Nat /\ Stored' = Stored + SavedValue(outs, S)
           /\ SavedRunes(outs, S) \in Nat /\ StoredRunes' = StoredRunes + SavedRunes(outs, S)
<1> DEFINE C == {<<t, i>> : i \in S}
           D == DOMAIN utxo
           h == [i \in S |-> <<t, i>>]
           fa == [i \in S |-> outs[i].amount]
           fr == [i \in S |-> outs[i].runes]
           none == {}
<1>1. \A o \in D : o[1] # t
    BY DEF IInv, KnownIsMinted
<1>2. \A o \in C : o[1] = t
    OBVIOUS
<1>3. C \intersect D = {}
    <2> HIDE DEF C, D
    <2> QED BY <1>1, <1>2
<1>4. DOMAIN utxo' = D \union C /\ index' = index \union C
    BY DEF SaveUTXOs
<1>5. \A o \in D : utxo'[o] = utxo[o]
    BY <1>1 DEF SaveUTXOs
<1>6. \A i \in S : utxo'[<<t, i>>] = [asset |-> outs[i].asset, version |-> outs[i].version,
                                      amount |-> outs[i].amount, runes |-> outs[i].runes, locked |-> FALSE]
    BY DEF SaveUTXOs
<1>7. \A i \in S : /\ utxo'[<<t, i>>] \in UTXORecord /\ (utxo'[<<t, i>>].asset = "BTC" => utxo'[<<t, i>>].runes = 0)
                   /\ utxo'[<<t, i>>].amount = outs[i].amount /\ utxo'[<<t, i>>].runes = outs[i].runes
                   /\ outs[i].amount \in Nat /\ outs[i].runes \in Nat
    <2> SUFFICES ASSUME NEW i \in S
                 PROVE  /\ utxo'[<<t, i>>] \in UTXORecord /\ (utxo'[<<t, i>>].asset = "BTC" => utxo'[<<t, i>>].runes = 0)
                        /\ utxo'[<<t, i>>].amount = outs[i].amount /\ utxo'[<<t, i>>].runes = outs[i].runes
                        /\ outs[i].amount \in Nat /\ outs[i].runes \in Nat
        OBVIOUS
    <2> DEFINE u == utxo'[<<t, i>>]
               x == outs[i]
    <2>1. /\ x.asset \in Asset /\ x.version \in 0..latest /\ x.amount \in Nat /\ x.runes \in Nat
          /\ (x.asset = "BTC" => x.runes = 0)
        BY DEF SavedIsOK
    <2>2. u = [asset |-> x.asset, version |-> x.version, amount |-> x.amount, runes |-> x.runes, locked |-> FALSE]
        BY <1>6
    <2> HIDE DEF u, x
    <2>3. /\ u \in UTXORecord /\ (u.asset = "BTC" => u.runes = 0) /\ u.amount = x.amount /\ u.runes = x.runes
          /\ x.amount \in Nat /\ x.runes \in Nat
        BY <2>1, <2>2 DEF UTXORecord
    <2> QED BY <2>3 DEF u, x
<1>8. IsFiniteSet(D) /\ \A o \in D : utxo[o] \in UTXORecord
    BY DEF LedgerOK
<1>9. Names(h, S, C)
    BY DEF Names
<1>10. IsFiniteSet(C)
    <2> HIDE DEF h, C
    <2> QED BY <1>9, NamesFinite
<1>11. \A o \in C : /\ utxo'[o] \in UTXORecord /\ (utxo'[o].asset = "BTC" => utxo'[o].runes = 0)
                    /\ o \in Transactions \X Nat
    BY <1>7
<1>12. Transactions' = Transactions
    BY DEF Transactions, NextTx, Txid
<1>13. \A o \in DOMAIN utxo' : AmountOf'[o] = utxo'[o].amount /\ RunesOf'[o] = utxo'[o].runes
    BY DEF AmountOf, RunesOf
<1>14. \A i \in S : h[i] = <<t, i>> /\ h[i] \in DOMAIN utxo'
    BY <1>4
<1>15. \A i \in S : fa[i] \in Int /\ AmountOf'[h[i]] = fa[i]
    BY <1>7, <1>13, <1>14
<1>16. \A i \in S : fr[i] \in Int /\ RunesOf'[h[i]] = fr[i]
    BY <1>7, <1>13, <1>14
<1>17. Stored' = SumFunctionOnSet(AmountOf', DOMAIN utxo') /\ StoredRunes' = SumFunctionOnSet(RunesOf', DOMAIN utxo')
    BY DEF Stored, StoredRunes, Value, Runes, SumOver, Satoshis, RunesIn, SumFunction, AmountOf, RunesOf
<1>18. SavedValue(outs, S) = SumFunctionOnSet(fa, S) /\ SavedRunes(outs, S) = SumFunctionOnSet(fr, S)
    BY DEF SavedValue, SavedRunes, SumFunction
<1>19. SumFunctionOnSet(AmountOf', C) = SumFunctionOnSet(fa, S)
    <2> DEFINE K == S
    <2>1. IsFiniteSet(K) /\ Names(h, K, C)
        BY <1>9
    <2>2. \A x \in K : fa[x] \in Int /\ AmountOf'[h[x]] = fa[x]
        BY <1>15
    <2> HIDE DEF fa, h, C, K
    <2>3. SumFunctionOnSet(AmountOf', C) = SumFunctionOnSet(fa, K)
        BY ONLY <2>1, <2>2, SumReindex
    <2> QED BY <2>3 DEF K
<1>20. SumFunctionOnSet(RunesOf', C) = SumFunctionOnSet(fr, S)
    <2> DEFINE K == S
    <2>1. IsFiniteSet(K) /\ Names(h, K, C)
        BY <1>9
    <2>2. \A x \in K : fr[x] \in Int /\ RunesOf'[h[x]] = fr[x]
        BY <1>16
    <2> HIDE DEF fr, h, C, K
    <2>3. SumFunctionOnSet(RunesOf', C) = SumFunctionOnSet(fr, K)
        BY ONLY <2>1, <2>2, SumReindex
    <2> QED BY <2>3 DEF K
<1>21. \A i \in S : fa[i] \in Nat /\ fr[i] \in Nat
    BY <1>7
<1>22. SumFunctionOnSet(fa, S) \in Nat /\ SumFunctionOnSet(fr, S) \in Nat
    <2> HIDE DEF fa, fr
    <2> QED BY <1>21, SumType
<1>23. \A o \in D : AmountOf[o] \in Int /\ RunesOf[o] \in Int /\ AmountOf'[o] = AmountOf[o] /\ RunesOf'[o] = RunesOf[o]
    BY <1>4, <1>5, <1>8 DEF AmountOf, RunesOf, UTXORecord
<1>24. \A o \in C : AmountOf'[o] \in Int /\ RunesOf'[o] \in Int
    BY <1>4, <1>11, <1>13 DEF UTXORecord
<1>25. none \in SUBSET D /\ (D \ none) = D
    OBVIOUS
<1>26. Stored = SumFunctionOnSet(AmountOf, D) /\ Stored \in Nat /\ StoredRunes = SumFunctionOnSet(RunesOf, D) /\ StoredRunes \in Nat
    BY ValueIs DEF Stored, StoredRunes
<1>27. SumFunctionOnSet(AmountOf', D \union C) = SumFunctionOnSet(AmountOf, D) + SumFunctionOnSet(AmountOf', C)
    <2>1. SumFunctionOnSet(AmountOf, none) = 0
        BY SumSmall
    <2> HIDE DEF C, D, none
    <2>2. SumFunctionOnSet(AmountOf', (D \ none) \union C)
          = SumFunctionOnSet(AmountOf, D) - SumFunctionOnSet(AmountOf, none) + SumFunctionOnSet(AmountOf', C)
        BY <1>3, <1>8, <1>10, <1>23, <1>24, <1>25, SumExchange
    <2> DEFINE a == SumFunctionOnSet(AmountOf, D)
               b == SumFunctionOnSet(AmountOf', C)
               z == SumFunctionOnSet(AmountOf, none)
    <2>3. a \in Nat /\ b \in Nat /\ z = 0
        BY <1>22, <1>19, <1>26, <2>1
    <2>4. a - z + b = a + b
        <3> HIDE DEF a, b, z
        <3> QED BY <2>3
    <2> QED BY <1>25, <2>2, <2>4
<1>28. SumFunctionOnSet(RunesOf', D \union C) = SumFunctionOnSet(RunesOf, D) + SumFunctionOnSet(RunesOf', C)
    <2>1. SumFunctionOnSet(RunesOf, none) = 0
        BY SumSmall
    <2> HIDE DEF C, D, none
    <2>2. SumFunctionOnSet(RunesOf', (D \ none) \union C)
          = SumFunctionOnSet(RunesOf, D) - SumFunctionOnSet(RunesOf, none) + SumFunctionOnSet(RunesOf', C)
        BY <1>3, <1>8, <1>10, <1>23, <1>24, <1>25, SumExchange
    <2> DEFINE a == SumFunctionOnSet(RunesOf, D)
               b == SumFunctionOnSet(RunesOf', C)
               z == SumFunctionOnSet(RunesOf, none)
    <2>3. a \in Nat /\ b \in Nat /\ z = 0
        BY <1>22, <1>20, <1>26, <2>1
    <2>4. a - z + b = a + b
        <3> HIDE DEF a, b, z
        <3> QED BY <2>3
    <2> QED BY <1>25, <2>2, <2>4
<1>29. LedgerOK'
    <2>1. IsFiniteSet(DOMAIN utxo')
        <3> HIDE DEF C, D
        <3> QED BY <1>4, <1>8, <1>10, FS_Union
    <2>2. DOMAIN utxo' \subseteq Transactions' \X Nat /\ index' \subseteq DOMAIN utxo'
        <3>1. D \subseteq Transactions \X Nat /\ index \subseteq D
            BY DEF LedgerOK
        <3> HIDE DEF C, D
        <3> QED BY <1>4, <1>11, <1>12, <3>1
    <2>3. \A o \in DOMAIN utxo' : utxo'[o] \in UTXORecord /\ (utxo'[o].asset = "BTC" => utxo'[o].runes = 0)
        <3>1. \A o \in D : utxo[o] \in UTXORecord /\ (utxo[o].asset = "BTC" => utxo[o].runes = 0)
            BY DEF LedgerOK
        <3> HIDE DEF C, D
        <3> QED BY <1>4, <1>5, <1>11, <3>1
    <2>4. minted' \subseteq Transactions'
        BY <1>12 DEF LedgerOK
    <2>5. \A s \in DOMAIN signing' : signing'[s].status \in Status
        BY DEF LedgerOK
    <2>6. UTXORecord' = UTXORecord
        BY DEF UTXORecord
    <2> QED BY <2>1, <2>2, <2>3, <2>4, <2>5, <2>6 DEF LedgerOK
<1> HIDE DEF C, D, fa, fr, h
<1> QED BY <1>4, <1>12, <1>17, <1>18, <1>19, <1>20, <1>22, <1>26, <1>27, <1>28, <1>29

LEMMA SavedOne ==
    ASSUME NEW outs, NEW i, outs[i].amount \in Nat, outs[i].runes \in Nat
    PROVE  SavedValue(outs, {i}) = outs[i].amount /\ SavedRunes(outs, {i}) = outs[i].runes
<1> DEFINE fa == [j \in {i} |-> outs[j].amount]
           fr == [j \in {i} |-> outs[j].runes]
<1>1. fa[i] \in Int /\ fr[i] \in Int /\ fa[i] = outs[i].amount /\ fr[i] = outs[i].runes
    OBVIOUS
<1>2. SavedValue(outs, {i}) = SumFunctionOnSet(fa, {i}) /\ SavedRunes(outs, {i}) = SumFunctionOnSet(fr, {i})
    BY DEF SavedValue, SavedRunes, SumFunction
<1> HIDE DEF fa, fr
<1> QED BY <1>1, <1>2, SumSmall

LEMMA SavedTwo ==
    ASSUME NEW outs, NEW i, NEW j, i # j, outs[i].amount \in Nat, outs[i].runes \in Nat,
           outs[j].amount \in Nat, outs[j].runes \in Nat
    PROVE  /\ SavedValue(outs, {i, j}) = outs[i].amount + outs[j].amount
           /\ SavedRunes(outs, {i, j}) = outs[i].runes + outs[j].runes
<1> DEFINE fa == [k \in {i} |-> outs[k].amount]
           fr == [k \in {i} |-> outs[k].runes]
           ga == [k \in {i, j} |-> outs[k].amount]
           gr == [k \in {i, j} |-> outs[k].runes]
<1>1. IsFiniteSet({i})
    BY FS_Singleton
<1>2. DOMAIN fa = {i} /\ DOMAIN ga = {i} \union {j} /\ \A x \in {i} : fa[x] \in Int /\ ga[x] = fa[x]
    OBVIOUS
<1>3. DOMAIN fr = {i} /\ DOMAIN gr = {i} \union {j} /\ \A x \in {i} : fr[x] \in Int /\ gr[x] = fr[x]
    OBVIOUS
<1>4. ga[j] = outs[j].amount /\ gr[j] = outs[j].runes /\ j \notin {i}
    OBVIOUS
<1>5. SumFunction(fa) = outs[i].amount /\ SumFunction(fr) = outs[i].runes
    BY SavedOne DEF SavedValue, SavedRunes
<1>6. SavedValue(outs, {i, j}) = SumFunction(ga) /\ SavedRunes(outs, {i, j}) = SumFunction(gr)
    BY DEF SavedValue, SavedRunes
<1> HIDE DEF fa, fr, ga, gr
<1>7. SumFunction(ga) = SumFunction(fa) + ga[j]
    BY <1>1, <1>2, <1>4, SumMore
<1>8. SumFunction(gr) = SumFunction(fr) + gr[j]
    BY <1>1, <1>3, <1>4, SumMore
<1> QED BY <1>4, <1>5, <1>6, <1>7, <1>8

\* What a deposit is made of.
LEMMA DepositTyped ==
    ASSUME NEW tx \in DepositTx
    PROVE  /\ Recipient(tx) \in Account /\ tx.edict.out \in Nat /\ tx.edict.amount \in Nat
           /\ Len(tx.outs) \in Nat /\ DOMAIN tx.outs = 1..Len(tx.outs)
           /\ \A i \in 1..Len(tx.outs) : tx.outs[i] \in DepositOut
<1>1. tx.from \in User /\ tx.outs \in Seq(DepositOut) /\ tx.edict \in [out : Nat, amount : Nat]
    BY DEF DepositTx
<1> DEFINE s == tx.outs
           n == Len(s)
           users == OutsOf(s, "USER")
<1>2. n \in Nat /\ DOMAIN s = 1..n /\ \A i \in 1..n : s[i] \in DepositOut
    <2> HIDE DEF s
    <2>1. s \in Seq(DepositOut)
        BY <1>1 DEF s
    <2> QED BY <2>1
<1>3. users \in SUBSET (1..n)
    BY <1>2 DEF OutsOf
<1>4. Recipient(tx) \in Account
    <2>1. CASE users = {}
        BY <1>1, <2>1 DEF Recipient, Account
    <2>2. CASE users # {}
        <3> DEFINE m == Max(users)
        <3>1. m \in users
            <4> HIDE DEF users, n
            <4> QED BY <1>2, <1>3, <2>2, MaxIn
        <3>2. s[m] \in DepositOut
            <4> HIDE DEF m
            <4> QED BY <1>2, <1>3, <3>1
        <3>3. s[m].account \in Account
            <4> DEFINE x == s[m]
            <4>1. x \in DepositOut
                BY <3>2
            <4> HIDE DEF x
            <4>2. x.account \in Account
                BY <4>1 DEF DepositOut
            <4> QED BY <4>2 DEF x
        <3>4. Recipient(tx) = s[m].account
            BY <2>2 DEF Recipient
        <3> QED BY <3>3, <3>4
    <2> QED BY <2>1, <2>2
<1>5. tx.edict.out \in Nat /\ tx.edict.amount \in Nat
    BY <1>1
<1> QED BY <1>2, <1>4, <1>5

\* A deposit of BTC mints what it brings to the vault (mintBTC).
LEMMA MintBtcLedger ==
    ASSUME IInv, LedgerOK, BankOK, ConfigOK, NEW t \in Transactions, t \notin minted, minted' = minted \union {t},
           signing' = signing, latest' = latest, NEW tx \in DepositTx, MintBTC(t, tx),
           \A i \in DOMAIN tx.outs : tx.outs[i].version <= latest
    PROVE  /\ LedgerOK' /\ BankOK' /\ Transactions' = Transactions /\ fees' \in FeesType
           /\ Stored' - Vouchers' - Slack' = Stored - Vouchers - Slack
           /\ StoredRunes' - RuneVouchers' = StoredRunes - RuneVouchers
<1> DEFINE s == tx.outs
           n == Len(s)
           P == OutsOf(s, "BTC")
           i == Min(P)
           out == s[i]
           amount == out.amount - DepositFee
<1>1. n \in Nat /\ DOMAIN s = 1..n /\ \A j \in 1..n : s[j] \in DepositOut
    BY DepositTyped
<1>2. i \in P /\ i \in 1..n
    <2>1. P \in SUBSET Nat /\ P # {} /\ P \subseteq 1..n
        BY <1>1 DEF MintBTC, OutsOf
    <2>2. Min(P) \in P
        <3> HIDE DEF P
        <3> QED BY <2>1, MinIn
    <2> QED BY <2>1, <2>2
<1>3. out.asset = "BTC" /\ out \in DepositOut /\ out.version <= latest
    BY <1>1, <1>2 DEF OutsOf
<1>4. out.amount \in Nat /\ out.runes = 0 /\ out.version \in 0..latest /\ out.asset = "BTC" /\ out.asset \in Asset
    <2> DEFINE x == out
    <2>1. x.asset = "BTC" /\ x \in DepositOut /\ x.version <= latest
        BY <1>3
    <2>2. latest \in Nat
        BY BridgeAssumption DEF ConfigOK
    <2> HIDE DEF x
    <2>3. x.amount \in Nat /\ x.runes = 0 /\ x.version \in 0..latest /\ x.asset \in Asset
        BY <2>1, <2>2 DEF DepositOut, Asset
    <2> QED BY <2>1, <2>3 DEF x
<1>5. DepositFee \in Nat /\ MinDeposit \in Nat
    BY BridgeAssumption DEF ValidParams
<1>6. amount >= MinDeposit /\ SaveUTXOs(t, s, {i}) /\ runes' = runes /\ fees' = fees
    BY DEF MintBTC, OutputForMintBTC
<1>7. PICK to \in Receivers(tx) : balance' = AddCoins(AddCoins(balance, Collector, DepositFee), to, amount)
    BY DEF MintBTC, OutputForMintBTC
<1>8. to \in Account
    BY DepositTyped DEF Receivers, IBCTransfer, UnescrowToken, Account
<1> HIDE DEF P, i
<1>9. /\ LedgerOK' /\ Transactions' = Transactions /\ Stored \in Nat /\ StoredRunes \in Nat
      /\ Stored' = Stored + SavedValue(s, {i}) /\ StoredRunes' = StoredRunes + SavedRunes(s, {i})
    <2>1. SavedIsOK(s, {i})
        BY <1>4 DEF SavedIsOK
    <2>2a. IsFiniteSet({i})
        BY FS_Singleton
    <2>2b. i \in Nat
        BY <1>1, <1>2
    <2>2. IsFiniteSet({i}) /\ i \in Nat
        BY <2>2a, <2>2b
    <2> DEFINE S == {i}
    <2>3. IsFiniteSet(S) /\ S \in SUBSET Nat /\ SavedIsOK(s, S) /\ SaveUTXOs(t, s, S)
        BY <1>6, <2>1, <2>2
    <2> HIDE DEF S
    <2>4. /\ LedgerOK' /\ Transactions' = Transactions /\ Stored \in Nat /\ StoredRunes \in Nat
          /\ Stored' = Stored + SavedValue(s, S) /\ StoredRunes' = StoredRunes + SavedRunes(s, S)
        BY <2>3, SavedLedger
    <2> QED BY <2>4 DEF S
<1>10. SavedValue(s, {i}) = out.amount /\ SavedRunes(s, {i}) = 0
    BY <1>4, SavedOne
<1> DEFINE x == out.amount
           b == AddCoins(balance, Collector, DepositFee)
<1>11. /\ balance \in [Account -> Nat] /\ runes \in [Account -> Nat] /\ Collector \in Account
       /\ fees' \in FeesType /\ Slack \in Int /\ Slack' = Slack
    BY <1>6, SlackIsInt, SameSlack DEF BankOK, ConfigOK, Account
<1>12. b \in [Account -> Nat] /\ SumFunction(balance) \in Int /\ SumFunction(b) = SumFunction(balance) + DepositFee
    BY <1>5, <1>11, Credited
<1>13. x \in Nat /\ amount = x - DepositFee /\ amount \in Nat
    BY <1>4, <1>5, <1>6
<1> HIDE DEF out, amount, x, b
<1>14. balance' = AddCoins(b, to, amount)
    BY <1>7 DEF b
<1>15. balance' \in [Account -> Nat] /\ SumFunction(balance') = SumFunction(b) + amount
    BY <1>8, <1>12, <1>13, <1>14, Credited
<1>16. Vouchers = SumFunction(balance) /\ Vouchers \in Int
    BY <1>11, VouchersAre
<1>17. Vouchers' = SumFunction(balance') /\ Vouchers' \in Int
    BY <1>15, VouchersAre
<1>18. RuneVouchers' = RuneVouchers
    BY <1>6 DEF RuneVouchers, SumOver
<1>19. BankOK'
    BY <1>6, <1>11, <1>15 DEF BankOK
<1>20. Stored' = Stored + x /\ StoredRunes' = StoredRunes
    BY <1>9, <1>10, <1>13 DEF x
<1>21. Vouchers' = Vouchers + x
    BY <1>5, <1>12, <1>13, <1>15, <1>16, <1>17
<1>22. Stored' - Vouchers' - Slack' = Stored - Vouchers - Slack
    BY <1>9, <1>11, <1>13, <1>16, <1>20, <1>21
<1>23. StoredRunes' - RuneVouchers' = StoredRunes - RuneVouchers
    BY <1>18, <1>20
<1> QED BY <1>9, <1>11, <1>19, <1>22, <1>23

\* A deposit of runes mints the runes of its edict, and the satoshis of the output that pays
\* the fee; those of the runes output itself are surplus (mintRunes, handleRunesProtocolFee).
LEMMA MintRunesLedger ==
    ASSUME IInv, LedgerOK, BankOK, ConfigOK, NEW t \in Transactions, t \notin minted, minted' = minted \union {t},
           signing' = signing, latest' = latest, NEW tx \in DepositTx, MintRunes(t, tx),
           \A i \in DOMAIN tx.outs : tx.outs[i].version <= latest
    PROVE  /\ LedgerOK' /\ BankOK' /\ Transactions' = Transactions /\ fees' \in FeesType
           /\ Stored' - Vouchers' - Slack' = Stored - Vouchers - Slack
           /\ StoredRunes' - RuneVouchers' = StoredRunes - RuneVouchers
<1> DEFINE s == tx.outs
           n == Len(s)
           e == tx.edict.out
           a == tx.edict.amount
           P == OutsOf(s, "BTC")
           f == Max(P)
           outs == [s EXCEPT ![e].runes = a]
           S == {e} \union (IF DepositFee > 0 THEN {f} ELSE {})
<1>1. n \in Nat /\ DOMAIN s = 1..n /\ \A j \in 1..n : s[j] \in DepositOut
    BY DepositTyped
<1>2. e \in Nat /\ a \in Nat /\ Recipient(tx) \in Account
    BY DepositTyped
<1>3. latest \in Nat
    BY BridgeAssumption DEF ConfigOK
<1>4. e \in 1..n /\ s[e].asset = "RUNES"
    BY <1>1 DEF MintRunes, OutputForMintRunes, OutsOf
<1>5. /\ DepositFee > 0 => P # {} /\ s[f].amount >= DepositFee
      /\ SaveUTXOs(t, outs, S) /\ runes' = AddCoins(runes, Recipient(tx), a)
    BY DEF MintRunes
<1>6. /\ balance' = IF DepositFee > 0
                    THEN AddCoins(AddCoins(balance, Collector, DepositFee), Module, s[f].amount - DepositFee)
                    ELSE balance
      /\ fees' = Carry(s[e].amount)
    BY DEF MintRunes
<1>7. DepositFee \in Nat
    BY BridgeAssumption DEF ValidParams
<1>8. P \in SUBSET (1..n)
    BY <1>1 DEF OutsOf
<1>9. DepositFee > 0 => f \in P
    <2> HIDE DEF P, n
    <2> QED BY <1>1, <1>5, <1>8, MaxIn
<1>10. DepositFee > 0 => f \in 1..n /\ s[f].asset = "BTC"
    BY <1>1, <1>8, <1>9 DEF OutsOf
<1>11. \A j \in 1..n : s[j].version <= latest
    BY <1>1
<1>12. \A o \in DepositOut : o.amount \in Nat /\ o.version \in Nat /\ o.runes = 0
    BY DEF DepositOut
<1>13. /\ outs[e] = [s[e] EXCEPT !.runes = a]
       /\ \A j \in 1..n : j # e => outs[j] = s[j]
    BY <1>1, <1>4
<1>14. /\ outs[e].asset = "RUNES" /\ outs[e].version \in 0..latest /\ outs[e].amount = s[e].amount
       /\ s[e].amount \in Nat /\ outs[e].runes = a
    <2> DEFINE x == s[e]
               y == outs[e]
    <2>1. x \in DepositOut /\ x.version <= latest /\ x.asset = "RUNES"
        BY <1>1, <1>4, <1>11
    <2>2. y = [x EXCEPT !.runes = a]
        BY <1>13
    <2> HIDE DEF x, y
    <2>3. /\ y.asset = "RUNES" /\ y.version \in 0..latest /\ y.amount = x.amount /\ x.amount \in Nat /\ y.runes = a
        BY <1>3, <2>1, <2>2 DEF DepositOut
    <2> QED BY <2>3 DEF x, y
<1>15. DepositFee > 0 => /\ outs[f].asset = "BTC" /\ outs[f].version \in 0..latest /\ outs[f].amount = s[f].amount
                         /\ s[f].amount \in Nat /\ outs[f].runes = 0 /\ f # e
    <2> SUFFICES ASSUME DepositFee > 0
                 PROVE  /\ outs[f].asset = "BTC" /\ outs[f].version \in 0..latest /\ outs[f].amount = s[f].amount
                        /\ s[f].amount \in Nat /\ outs[f].runes = 0 /\ f # e
        OBVIOUS
    <2> HIDE DEF f
    <2>1. f # e /\ f \in 1..n
        BY <1>4, <1>10
    <2>2. outs[f] = s[f]
        <3> HIDE DEF outs, e
        <3> QED BY <1>13, <2>1
    <2>3. s[f] \in DepositOut /\ s[f].version <= latest /\ s[f].asset = "BTC"
        BY <1>1, <1>10, <1>11, <2>1
    <2>4. s[f].amount \in Nat /\ s[f].version \in Nat /\ s[f].runes = 0
        BY <1>12, <2>3
    <2> HIDE DEF outs, s, e
    <2> QED BY <1>3, <2>1, <2>2, <2>3, <2>4
<1>16. "BTC" \in Asset /\ "RUNES" \in Asset /\ "RUNES" # "BTC"
    BY DEF Asset
<1>17. /\ balance \in [Account -> Nat] /\ runes \in [Account -> Nat] /\ Collector \in Account /\ Module \in Account
       /\ fees' \in FeesType /\ Slack \in Int /\ Slack' = Slack + s[e].amount
    BY <1>6, <1>14, SlackGrows DEF BankOK, ConfigOK, Account
<1> DEFINE x == s[e].amount
           y == IF DepositFee > 0 THEN s[f].amount ELSE 0
<1>18. x \in Nat /\ y \in Nat /\ Slack' = Slack + x /\ fees' \in FeesType
    BY <1>14, <1>15, <1>17
<1>19. runes' \in [Account -> Nat] /\ RuneVouchers' = RuneVouchers + a /\ RuneVouchers \in Int
    <2> HIDE DEF a
    <2>1. /\ AddCoins(runes, Recipient(tx), a) \in [Account -> Nat] /\ SumFunction(runes) \in Int
          /\ SumFunction(AddCoins(runes, Recipient(tx), a)) = SumFunction(runes) + a
        BY <1>2, <1>17, Credited
    <2>2. runes' \in [Account -> Nat] /\ SumFunction(runes') = SumFunction(runes) + a
        BY <1>5, <2>1
    <2>3. RuneVouchers = SumFunction(runes) /\ RuneVouchers \in Int
        BY <1>17, VouchersAre
    <2>4. RuneVouchers' = SumFunction(runes')
        BY <2>2, VouchersAre
    <2> QED BY <2>2, <2>3, <2>4
<1>20. balance' \in [Account -> Nat] /\ Vouchers' = Vouchers + y /\ Vouchers \in Int
    <2>1. Vouchers = SumFunction(balance) /\ Vouchers \in Int
        BY <1>17, VouchersAre
    <2>2. CASE DepositFee > 0
        <3> DEFINE b == AddCoins(balance, Collector, DepositFee)
                   z == s[f].amount - DepositFee
        <3>1. balance' = AddCoins(b, Module, z)
            BY <1>6, <2>2
        <3>2. z \in Nat /\ y = z + DepositFee
            <4> DEFINE w == s[f].amount
            <4>1. w >= DepositFee /\ w \in Nat
                BY <1>5, <1>15, <2>2
            <4>2. w - DepositFee \in Nat /\ w = (w - DepositFee) + DepositFee
                <5> HIDE DEF w
                <5> QED BY <1>7, <4>1
            <4> QED BY <2>2, <4>2
        <3> HIDE DEF z, y
        <3>3. b \in [Account -> Nat] /\ SumFunction(b) = SumFunction(balance) + DepositFee
            BY <1>7, <1>17, Credited
        <3> HIDE DEF b
        <3>4. balance' \in [Account -> Nat] /\ SumFunction(balance') = SumFunction(b) + z
            BY <1>17, <3>1, <3>2, <3>3, Credited
        <3>5. Vouchers' = SumFunction(balance')
            BY <3>4, VouchersAre
        <3> QED BY <1>7, <2>1, <3>2, <3>3, <3>4, <3>5
    <2>3. CASE ~(DepositFee > 0)
        <3>1. balance' = balance /\ y = 0
            BY <1>6, <2>3
        <3>2. Vouchers' = SumFunction(balance')
            BY <1>17, <3>1, VouchersAre
        <3> HIDE DEF y
        <3> QED BY <1>17, <2>1, <3>1, <3>2
    <2> QED BY <2>2, <2>3
<1>21. /\ SavedIsOK(outs, S) /\ IsFiniteSet(S) /\ S \in SUBSET Nat
       /\ SavedValue(outs, S) = x + y /\ SavedRunes(outs, S) = a
    <2>1. CASE DepositFee > 0
        <3>1. S = {e, f} /\ y = s[f].amount
            BY <2>1
        <3>2. IsFiniteSet({e, f})
            <4>1. IsFiniteSet({e} \union {f})
                BY FS_Singleton, FS_Union
            <4>2. {e} \union {f} = {e, f}
                OBVIOUS
            <4> HIDE DEF e, f
            <4> QED BY <4>1, <4>2
        <3>3. e \in Nat /\ f \in Nat
            BY <1>2, <1>10, <2>1
        <3>4. /\ e # f /\ outs[e].amount = x /\ outs[e].runes = a /\ outs[f].amount = y /\ outs[f].runes = 0
              /\ outs[e].asset = "RUNES" /\ outs[f].asset = "BTC" /\ outs[e].version \in 0..latest /\ outs[f].version \in 0..latest
            BY <1>14, <1>15, <2>1, <3>1
        <3> HIDE DEF S, e, f, x, y, a, outs
        <3>5. SavedIsOK(outs, {e, f})
            BY <1>2, <1>16, <1>18, <3>4 DEF SavedIsOK
        <3>6. SavedValue(outs, {e, f}) = outs[e].amount + outs[f].amount /\ SavedRunes(outs, {e, f}) = outs[e].runes + outs[f].runes
            <4>1. e # f /\ outs[e].amount \in Nat /\ outs[e].runes \in Nat /\ outs[f].amount \in Nat /\ outs[f].runes \in Nat
                BY <1>2, <1>18, <3>4
            <4> QED BY <4>1, SavedTwo
        <3>7. {e, f} \in SUBSET Nat
            BY <3>3
        <3>8. SavedValue(outs, {e, f}) = x + y /\ SavedRunes(outs, {e, f}) = a
            BY <1>2, <3>4, <3>6
        <3> QED BY <3>1, <3>2, <3>5, <3>7, <3>8
    <2>2. CASE ~(DepositFee > 0)
        <3>1. S = {e} /\ y = 0
            BY <2>2
        <3>2. outs[e].amount = x /\ outs[e].runes = a /\ outs[e].asset = "RUNES" /\ outs[e].version \in 0..latest
            BY <1>14
        <3> HIDE DEF S, e, x, y, a, outs
        <3>3. SavedIsOK(outs, {e})
            BY <1>2, <1>16, <1>18, <3>2 DEF SavedIsOK
        <3>4. SavedValue(outs, {e}) = outs[e].amount /\ SavedRunes(outs, {e}) = outs[e].runes
            BY <1>2, <1>18, <3>2, SavedOne
        <3>5. IsFiniteSet({e})
            BY FS_Singleton
        <3>6. {e} \in SUBSET Nat
            BY <1>2
        <3>7. SavedValue(outs, {e}) = x + y /\ SavedRunes(outs, {e}) = a
            BY <1>18, <3>1, <3>2, <3>4
        <3> QED BY <3>1, <3>3, <3>5, <3>6, <3>7
    <2> QED BY <2>1, <2>2
<1> HIDE DEF S, e, f, x, y, a, outs
<1>22. /\ LedgerOK' /\ Transactions' = Transactions /\ Stored \in Nat /\ StoredRunes \in Nat
       /\ Stored' = Stored + SavedValue(outs, S) /\ StoredRunes' = StoredRunes + SavedRunes(outs, S)
    BY <1>5, <1>21, SavedLedger
<1>23. BankOK'
    BY <1>19, <1>20 DEF BankOK
<1>24. Stored' = Stored + (x + y) /\ StoredRunes' = StoredRunes + a
    BY <1>21, <1>22
<1> QED BY <1>2, <1>17, <1>18, <1>19, <1>20, <1>22, <1>23, <1>24

----------------------------------------------------------------------------
(* Every step keeps the books balanced *)

\* The sums are integers.
LEMMA SumsAreInt ==
    ASSUME Typed, RequestIsSeq
    PROVE  /\ Stored \in Nat /\ StoredRunes \in Nat /\ Vouchers \in Int /\ RuneVouchers \in Int
           /\ Owed \in Nat /\ Slack \in Int
<1>1. Stored \in Nat /\ StoredRunes \in Nat
    BY ValueIs DEF Stored, StoredRunes, Typed
<1>2. Vouchers \in Int /\ RuneVouchers \in Int
    BY VouchersAre DEF Typed, BankOK
<1>3. Owed \in Nat
    <2>1. queue \in SUBSET DOMAIN request
        BY DEF Typed, RequestsOK
    <2> QED BY <2>1, OwedIs DEF Typed, Owed
<1> QED BY <1>1, <1>2, <1>3, SlackIsInt DEF Typed, ConfigOK

\* The parts stay as they are when nothing of them changes; the ledger also when UTXOs are
\* unlocked, statuses change or there is a later vault version.
LEMMA LedgerStays ==
    ASSUME LedgerOK, DOMAIN utxo' = DOMAIN utxo, index' \subseteq DOMAIN utxo, minted' = minted,
           Transactions' = Transactions, latest \in Nat, latest' \in Nat, latest <= latest',
           \A s \in DOMAIN signing' : signing'[s].status \in Status,
           \A o \in DOMAIN utxo : utxo'[o] = utxo[o] \/ utxo'[o] = UnlockUTXO(utxo[o])
    PROVE  LedgerOK' /\ Stored' = Stored /\ StoredRunes' = StoredRunes
<1>1. \A x \in UTXORecord : /\ UnlockUTXO(x) \in UTXORecord /\ UnlockUTXO(x).amount = x.amount
                            /\ UnlockUTXO(x).runes = x.runes /\ UnlockUTXO(x).asset = x.asset
    BY DEF UTXORecord, UnlockUTXO
<1>2. \A x \in UTXORecord : x \in UTXORecord'
    <2>1. 0..latest \subseteq 0..latest'
        OBVIOUS
    <2> QED BY <2>1 DEF UTXORecord
<1>3. \A o \in DOMAIN utxo : utxo[o] \in UTXORecord
    BY DEF LedgerOK
<1>4. \A o \in DOMAIN utxo : /\ utxo'[o] \in UTXORecord' /\ utxo'[o].amount = utxo[o].amount
                             /\ utxo'[o].runes = utxo[o].runes /\ utxo'[o].asset = utxo[o].asset
    BY <1>1, <1>2, <1>3
<1>5. LedgerOK'
    BY <1>4 DEF LedgerOK
<1>6. Stored' = Stored
    BY <1>4 DEF Stored, Value, SumOver, Satoshis
<1>7. StoredRunes' = StoredRunes
    BY <1>4 DEF StoredRunes, Runes, SumOver, RunesIn
<1> QED BY <1>5, <1>6, <1>7

LEMMA LedgerQuiet ==
    ASSUME LedgerOK, UNCHANGED ledger, latest \in Nat, latest' \in Nat, latest <= latest'
    PROVE  LedgerOK' /\ Stored' = Stored /\ StoredRunes' = StoredRunes /\ Transactions' = Transactions
<1>1. utxo' = utxo /\ index' = index /\ minted' = minted /\ signing' = signing
    BY DEF ledger
<1>2. Transactions' = Transactions
    BY <1>1 DEF Transactions, NextTx, Txid
<1> QED BY <1>1, <1>2, LedgerStays DEF LedgerOK

LEMMA RequestsQuiet ==
    ASSUME RequestsOK, request' = request, queue' = queue, Transactions \subseteq Transactions'
    PROVE  RequestsOK' /\ Owed' = Owed
<1>1. RequestsOK'
    BY DEF RequestsOK
<1>2. Owed' = Owed
    BY DEF Owed, SumOver
<1> QED BY <1>1, <1>2

LEMMA BankQuiet ==
    ASSUME BankOK, UNCHANGED bank PROVE BankOK' /\ Vouchers' = Vouchers /\ RuneVouchers' = RuneVouchers
BY DEF BankOK, bank, Vouchers, RuneVouchers, SumOver

LEMMA ConfigQuiet ==
    ASSUME ConfigOK, UNCHANGED settings, phase' = phase, fees' \in FeesType PROVE ConfigOK' /\ latest' = latest /\ latest \in Nat
BY BridgeAssumption DEF ConfigOK, settings

LEMMA PacketsQuiet ==
    ASSUME PacketsOK, packets' = packets, ibcQueue' = ibcQueue, phase' = phase, todo' = todo PROVE PacketsOK'
BY DEF PacketsOK

\* The parts together.
Backed == Typed /\ Stored = Vouchers + Owed + Slack /\ StoredRunes = RuneVouchers

LEMMA InitBacked == Init => Backed
<1> SUFFICES ASSUME Init PROVE Backed
    OBVIOUS
<1>1. /\ DOMAIN utxo = {} /\ index = {} /\ minted = {} /\ signing = <<>>
      /\ request = <<>> /\ queue = {} /\ packets = <<>> /\ ibcQueue = {} /\ phase = "txs" /\ fees = NoFees
      /\ latest = 0 /\ transfers = {} /\ height = 0 /\ enabled \in Enabled
      /\ balance = [a \in Account |-> 0] /\ runes = [a \in Account |-> 0] /\ feeRate = [value |-> 0, age |-> 0]
    BY DEF Init, EmptyFunction
<1>1a. fees \in FeesType /\ Slack = 0
    BY <1>1 DEF NoFees, FeesType, Slack
<1>2. LedgerOK
    <2>1. IsFiniteSet({})
        BY FS_EmptySet
    <2>2. DOMAIN signing = {}
        BY <1>1
    <2> QED BY <1>1, <2>1, <2>2 DEF LedgerOK
<1>3. RequestsOK
    <2>1. DOMAIN request = {}
        BY <1>1
    <2> QED BY <1>1, <2>1 DEF RequestsOK
<1>4. PacketsOK
    <2>1. packets \in Seq([user : User, amount : Nat])
        BY <1>1
    <2> QED BY <1>1, <2>1 DEF PacketsOK
<1>5. BankOK
    BY <1>1 DEF BankOK
<1>6. ConfigOK
    BY <1>1, <1>1a, BridgeAssumption DEF ConfigOK, ValidParams
<1>7. Stored = 0 /\ StoredRunes = 0 /\ Owed = 0
    BY <1>1, SumSmall DEF Stored, StoredRunes, Owed, Value, Runes, SumOver, SumFunction
<1>8. Vouchers = 0 /\ RuneVouchers = 0
    <2>1. \A f : (IsFiniteSet(Account) /\ \A a \in Account : f[a] = 0) => SumFunctionOnSet(f, Account) = 0
        BY SumZero
    <2> QED BY <1>1, <2>1, AccountIsFinite DEF Vouchers, RuneVouchers, SumOver, SumFunction
<1> QED BY <1>1a, <1>2, <1>3, <1>4, <1>5, <1>6, <1>7, <1>8 DEF Backed, Typed

LEMMA StoredThen == LedgerOK' => Stored' \in Nat /\ StoredRunes' \in Nat
<1> SUFFICES ASSUME LedgerOK' PROVE Stored' \in Nat /\ StoredRunes' \in Nat
    OBVIOUS
<1>1. Stored' = SumFunctionOnSet(AmountOf', DOMAIN utxo') /\ StoredRunes' = SumFunctionOnSet(RunesOf', DOMAIN utxo')
    BY DEF Stored, StoredRunes, Value, Runes, SumOver, Satoshis, RunesIn, SumFunction, AmountOf, RunesOf
<1>2. IsFiniteSet(DOMAIN utxo') /\ \A o \in DOMAIN utxo' : AmountOf'[o] \in Nat /\ RunesOf'[o] \in Nat
    BY DEF LedgerOK, UTXORecord, AmountOf, RunesOf
<1> QED BY <1>1, <1>2, SumType

\* Vouchers are burned and others minted.
LEMMA Burned ==
    ASSUME balance \in [Account -> Nat], NEW u \in Account, NEW x \in Int, balance[u] >= x,
           NEW c \in Account, NEW y \in Nat, balance' = AddCoins(SubCoins(balance, u, x), c, y)
    PROVE  balance' \in [Account -> Nat] /\ Vouchers' = Vouchers - x + y /\ Vouchers \in Int
<1> DEFINE b == SubCoins(balance, u, x)
<1>1. b \in [Account -> Nat] /\ SumFunction(balance) \in Int /\ SumFunction(b) = SumFunction(balance) - x
    BY Debited
<1>2. balance' = AddCoins(b, c, y)
    OBVIOUS
<1> HIDE DEF b
<1>3. balance' \in [Account -> Nat] /\ SumFunction(balance') = SumFunction(b) + y
    BY <1>1, <1>2, Credited
<1>4. Vouchers = SumFunction(balance) /\ Vouchers' = SumFunction(balance')
    BY <1>3, VouchersAre
<1> QED BY <1>1, <1>3, <1>4

LEMMA EstimatedFee ==
    ASSUME LedgerOK, ConfigOK, NEW u, NEW amount \in Nat, EstimateWithdrawalTx(u, amount).ok
    PROVE  EstimateWithdrawalTx(u, amount).fee \in Nat
<1> DEFINE o == UserOut(u, amount, 0, 0)
           outs == <<o>>
           tx == EstimateWithdrawalTx(u, amount)
           none == {}
<1>1. IsOut(o)
    BY OutsAre
<1> HIDE DEF o
<1>2. AreOuts(outs, 1) /\ Len(outs) \in Nat
    BY <1>1, OneOut
<1>3. IsFiniteSet(DOMAIN outs) /\ \A i \in DOMAIN outs : outs[i].amount \in Nat
    BY <1>2, OutsAreOK
<1>4. tx = BuildUnsignedTransaction(none, outs, latest) /\ tx.ok /\ none \in SUBSET DOMAIN utxo
    BY DEF EstimateWithdrawalTx, o
<1> HIDE DEF outs, tx, none
<1>5. tx.fee \in Nat
    BY <1>2, <1>3, <1>4, Built
<1> QED BY <1>5 DEF tx

\* A withdrawal of BTC: what is burned is owed, is the fee of the protocol or is surplus until
\* the batch pays its network fee (BurnAsset, BurnBtcNetworkFee).
LEMMA WithdrawBtcBacked ==
    ASSUME IInv, OwedInv, Backed, NEW u \in User, NEW a \in Amount, WithdrawBtc(u, a)
    PROVE  Backed'
<1> DEFINE amount == a - WithdrawFee
           tx == EstimateWithdrawalTx(u, amount)
           fee == tx.fee
<1>1. WithdrawFee \in Nat /\ a \in Nat
    BY BridgeAssumption DEF ValidParams
<1>2. amount > 0 /\ tx.ok /\ balance[u] >= a + fee /\ fees' = SetAside(fee)
    BY DEF WithdrawBtc, CanBurn
<1>3. /\ balance' = AddCoins(SubCoins(balance, u, a + fee), Collector, WithdrawFee)
      /\ NewWithdrawRequest(u, amount, 0) /\ queue' = queue \union {NextRequest}
    BY DEF WithdrawBtc
<1>4. /\ UNCHANGED ledger /\ packets' = packets /\ ibcQueue' = ibcQueue /\ runes' = runes /\ UNCHANGED settings
      /\ phase' = phase /\ todo' = todo
    BY DEF WithdrawBtc, config
<1>5. amount \in Nat
    BY <1>1, <1>2
<1>6. LedgerOK /\ RequestsOK /\ PacketsOK /\ BankOK /\ ConfigOK /\ RequestIsSeq
    BY DEF Backed, Typed, OwedInv
<1>7. fee \in Nat
    <2> HIDE DEF amount
    <2> QED BY <1>2, <1>5, <1>6, EstimatedFee
<1>8. u \in Account /\ Collector \in Account
    BY DEF Account
<1> HIDE DEF amount, tx, fee
<1>9. fees' \in FeesType /\ Slack' = Slack + fee /\ Slack \in Int
    BY <1>2, <1>6, <1>7, SlackGrows DEF ConfigOK
<1>10. ConfigOK' /\ latest' = latest /\ latest \in Nat
    BY <1>4, <1>6, <1>9, ConfigQuiet
<1>11. LedgerOK' /\ Stored' = Stored /\ StoredRunes' = StoredRunes /\ Transactions' = Transactions
    BY <1>4, <1>6, <1>10, LedgerQuiet
<1>12. balance' \in [Account -> Nat] /\ Vouchers' = Vouchers - (a + fee) + WithdrawFee /\ Vouchers \in Int
    <2>1. balance \in [Account -> Nat] /\ a + fee \in Int
        BY <1>1, <1>6, <1>7 DEF BankOK
    <2> DEFINE x == a + fee
    <2>2. x \in Int /\ balance[u] >= x /\ balance' = AddCoins(SubCoins(balance, u, x), Collector, WithdrawFee)
        BY <1>2, <1>3, <2>1
    <2> HIDE DEF x
    <2>3. balance' \in [Account -> Nat] /\ Vouchers' = Vouchers - x + WithdrawFee /\ Vouchers \in Int
        BY <1>1, <1>8, <2>1, <2>2, Burned
    <2> QED BY <2>3 DEF x
<1>13. RequestsOK' /\ Owed \in Nat /\ Owed' = Owed + amount
    BY <1>3, <1>5, <1>6, <1>11, RequestAppended
<1>14. PacketsOK'
    BY <1>4, <1>6, PacketsQuiet
<1>15. BankOK' /\ RuneVouchers' = RuneVouchers
    BY <1>4, <1>6, <1>12 DEF BankOK, RuneVouchers, SumOver
<1>16. Stored = Vouchers + Owed + Slack /\ StoredRunes = RuneVouchers
    BY DEF Backed
<1>17. Stored' = Vouchers' + Owed' + Slack'
    <2>1. amount = a - WithdrawFee
        BY DEF amount
    <2> QED BY <1>1, <1>2, <1>7, <1>9, <1>11, <1>12, <1>13, <1>16, <2>1
<1> QED BY <1>10, <1>11, <1>13, <1>14, <1>15, <1>16, <1>17 DEF Backed, Typed

\* A withdrawal of runes: its transaction pays the runes and their satoshis at once.
LEMMA WithdrawRunesBacked ==
    ASSUME IInv, OwedInv, Backed, NEW u \in User, NEW a \in RuneAmount, WithdrawRunes(u, a)
    PROVE  Backed'
<1>1. WithdrawFee \in Nat /\ a \in Nat /\ RunesOutValue \in Nat
    BY BridgeAssumption DEF ValidParams
<1>2. LedgerOK /\ RequestsOK /\ PacketsOK /\ BankOK /\ ConfigOK /\ RequestIsSeq
    BY DEF Backed, Typed, OwedInv
<1>3. PICK fee \in Nat :
          /\ balance[u] >= WithdrawFee + fee + RunesOutValue
          /\ balance' = AddCoins(SubCoins(balance, u, WithdrawFee + fee + RunesOutValue), Collector, WithdrawFee)
          /\ LedgerOK' /\ Transactions \subseteq Transactions' /\ NextTx \in Transactions'
          /\ Stored' = Stored - (fee + RunesOutValue) /\ StoredRunes' = StoredRunes - a
          /\ Stored \in Nat /\ StoredRunes \in Nat
    BY <1>2, RunesLedger
<1>4. /\ runes[u] >= a /\ runes' = SubCoins(runes, u, a) /\ NewWithdrawRequest(u, a, NextTx) /\ queue' = queue
      /\ packets' = packets /\ ibcQueue' = ibcQueue /\ UNCHANGED settings
      /\ phase' = phase /\ todo' = todo /\ fees' = fees
    BY DEF WithdrawRunes, config
<1>5. u \in Account /\ Collector \in Account
    BY DEF Account
<1>6. fees' \in FeesType /\ Slack' = Slack /\ Slack \in Int
    BY <1>2, <1>4, SlackIsInt, SameSlack DEF ConfigOK
<1>7. ConfigOK'
    BY <1>2, <1>4, <1>6, ConfigQuiet
<1> DEFINE x == WithdrawFee + fee + RunesOutValue
<1>8. x \in Int /\ balance[u] >= x /\ balance' = AddCoins(SubCoins(balance, u, x), Collector, WithdrawFee)
    BY <1>1, <1>3
<1>9. x = WithdrawFee + (fee + RunesOutValue)
    BY <1>1
<1> HIDE DEF x
<1>10. balance' \in [Account -> Nat] /\ Vouchers' = Vouchers - x + WithdrawFee /\ Vouchers \in Int
    BY <1>1, <1>2, <1>5, <1>8, Burned DEF BankOK
<1>11. runes' \in [Account -> Nat] /\ RuneVouchers' = RuneVouchers - a /\ RuneVouchers \in Int
    <2>1. runes \in [Account -> Nat]
        BY <1>2 DEF BankOK
    <2>2. runes' \in [Account -> Nat] /\ SumFunction(runes) \in Int /\ SumFunction(runes') = SumFunction(runes) - a
        BY <1>1, <1>4, <1>5, <2>1, Debited
    <2> QED BY <2>1, <2>2, VouchersAre
<1>12. RequestsOK' /\ Owed \in Nat /\ Owed' = Owed
    BY <1>1, <1>2, <1>3, <1>4, RequestAppended
<1>13. PacketsOK'
    BY <1>2, <1>4, PacketsQuiet
<1>14. BankOK'
    BY <1>10, <1>11 DEF BankOK
<1>15. Stored = Vouchers + Owed + Slack /\ StoredRunes = RuneVouchers
    BY DEF Backed
<1>16. Stored' = Vouchers' + Owed' + Slack'
    BY <1>1, <1>3, <1>4, <1>6, <1>9, <1>10, <1>12, <1>15
<1>17. StoredRunes' = RuneVouchers'
    BY <1>3, <1>11, <1>15
<1> QED BY <1>3, <1>7, <1>12, <1>13, <1>14, <1>16, <1>17 DEF Backed, Typed

\* A report of a deposit mints what it brings.
LEMMA DepositBacked ==
    ASSUME IInv, StoreInv, OwedInv, Backed, NEW t \in Transactions, SubmitDepositTransaction(t)
    PROVE  Backed'
<1>1. LedgerOK /\ RequestsOK /\ PacketsOK /\ BankOK /\ ConfigOK /\ RequestIsSeq
    BY DEF Backed, Typed, OwedInv
<1>2. Transaction(t) = Deposit[t] /\ Deposit[t] \in DepositTx
    BY DepositIs
<1> DEFINE tx == Deposit[t]
<1>3. /\ t \notin minted /\ minted' = minted \union {t} /\ signing' = signing
      /\ request' = request /\ queue' = queue /\ packets' = packets /\ ibcQueue' = ibcQueue
      /\ UNCHANGED settings /\ phase' = phase /\ todo' = todo
    BY DEF SubmitDepositTransaction, withdrawals
<1>4. /\ \A i \in DOMAIN tx.outs : tx.outs[i].version <= latest
      /\ MintBTC(t, tx) \/ MintRunes(t, tx)
    BY <1>2 DEF SubmitDepositTransaction
<1>5. tx \in DepositTx /\ latest' = latest
    BY <1>2, <1>3 DEF settings
<1> HIDE DEF tx
<1>6. /\ LedgerOK' /\ BankOK' /\ Transactions' = Transactions /\ fees' \in FeesType
      /\ Stored' - Vouchers' - Slack' = Stored - Vouchers - Slack
      /\ StoredRunes' - RuneVouchers' = StoredRunes - RuneVouchers
    <2>1. CASE MintBTC(t, tx)
        BY <1>1, <1>3, <1>4, <1>5, <2>1, MintBtcLedger
    <2>2. CASE MintRunes(t, tx)
        BY <1>1, <1>3, <1>4, <1>5, <2>2, MintRunesLedger
    <2> QED BY <1>4, <2>1, <2>2
<1>7. ConfigOK'
    BY <1>1, <1>3, <1>6, ConfigQuiet
<1>8. RequestsOK' /\ Owed' = Owed
    BY <1>1, <1>3, <1>6, RequestsQuiet
<1>9. PacketsOK'
    BY <1>1, <1>3, PacketsQuiet
<1>10. Stored' \in Nat /\ StoredRunes' \in Nat
    BY <1>6, StoredThen
<1>11. Vouchers' \in Int /\ RuneVouchers' \in Int
    BY <1>6, VouchersAre DEF BankOK
<1>12. /\ Stored \in Nat /\ StoredRunes \in Nat /\ Vouchers \in Int /\ RuneVouchers \in Int
       /\ Owed \in Nat /\ Slack \in Int
    BY <1>1, SumsAreInt DEF Backed
<1>13. Stored = Vouchers + Owed + Slack /\ StoredRunes = RuneVouchers
    BY DEF Backed
<1>14. Stored' = Vouchers' + Owed' + Slack'
    <2>0. Slack' \in Int
        BY <1>6 DEF FeesType, Slack
    <2>1. PICK b \in Int, w \in Int, d \in Int : b = Stored' /\ w = Vouchers' /\ d = Slack'
        BY <1>10, <1>11, <2>0
    <2>2. b - w - d = Stored - Vouchers - Slack
        BY <1>6, <2>1
    <2>3. b = w + Owed + d
        BY <1>12, <1>13, <2>2
    <2> QED BY <1>8, <2>1, <2>3
<1>15. StoredRunes' = RuneVouchers'
    <2>1. PICK b \in Int, w \in Int : b = StoredRunes' /\ w = RuneVouchers'
        BY <1>10, <1>11
    <2>2. b - w = StoredRunes - RuneVouchers
        BY <1>6, <2>1
    <2>3. b = w
        BY <1>12, <1>13, <2>2
    <2> QED BY <2>1, <2>3
<1> QED BY <1>6, <1>7, <1>8, <1>9, <1>14, <1>15 DEF Backed, Typed

\* Vouchers come back over IBC.
LEMMA PacketBacked ==
    ASSUME IInv, OwedInv, Backed, NEW u \in User, NEW a \in Amount, IBCReceivePacketCallback(u, a)
    PROVE  Backed'
<1>1. LedgerOK /\ RequestsOK /\ PacketsOK /\ BankOK /\ ConfigOK /\ RequestIsSeq
    BY DEF Backed, Typed, OwedInv
<1>2. /\ UNCHANGED ledger /\ request' = request /\ queue' = queue /\ runes' = runes /\ UNCHANGED settings
      /\ phase' = phase /\ phase = "txs" /\ fees' = fees
    BY DEF IBCReceivePacketCallback, config
<1>3. /\ balance[Escrow] >= a /\ balance' = AddCoins(SubCoins(balance, Escrow, a), u, a)
      /\ packets' = Append(packets, [user |-> u, amount |-> a])
      /\ ibcQueue' = ibcQueue \union {Len(packets) + 1}
    BY DEF IBCReceivePacketCallback
<1>4. a \in Nat /\ u \in Account /\ Escrow \in Account
    BY BridgeAssumption DEF Account
<1>5. balance' \in [Account -> Nat] /\ Vouchers' = Vouchers - a + a /\ Vouchers \in Int
    BY <1>1, <1>3, <1>4, Burned DEF BankOK
<1>6. BankOK' /\ RuneVouchers' = RuneVouchers
    BY <1>1, <1>2, <1>5 DEF BankOK, RuneVouchers, SumOver
<1>7. fees' \in FeesType /\ Slack' = Slack /\ Slack \in Int
    BY <1>1, <1>2, SlackIsInt, SameSlack DEF ConfigOK
<1>8. ConfigOK' /\ latest' = latest /\ latest \in Nat
    BY <1>1, <1>2, <1>7, ConfigQuiet
<1>9. LedgerOK' /\ Stored' = Stored /\ StoredRunes' = StoredRunes /\ Transactions' = Transactions
    BY <1>1, <1>2, <1>8, LedgerQuiet
<1>10. RequestsOK' /\ Owed' = Owed
    BY <1>1, <1>2, <1>9, RequestsQuiet
<1>11. PacketsOK'
    <2> DEFINE P == [user : User, amount : Nat]
               p == [user |-> u, amount |-> a]
    <2>1. p \in P /\ packets \in Seq(P) /\ packets' = Append(packets, p)
        BY <1>1, <1>3, <1>4 DEF PacketsOK
    <2> HIDE DEF P, p
    <2>2. packets' \in Seq(P) /\ Len(packets) \in Nat /\ DOMAIN packets = 1..Len(packets) /\ DOMAIN packets' = 1..(Len(packets) + 1)
        BY <2>1
    <2>3. ibcQueue' \subseteq DOMAIN packets'
        BY <1>1, <1>3, <2>2 DEF PacketsOK
    <2> QED BY <1>2, <2>2, <2>3 DEF PacketsOK, P
<1>12. Stored = Vouchers + Owed + Slack /\ StoredRunes = RuneVouchers
    BY DEF Backed
<1>13. Vouchers' = Vouchers
    BY <1>4, <1>5
<1> QED BY <1>2, <1>6, <1>7, <1>8, <1>9, <1>10, <1>11, <1>12, <1>13 DEF Backed, Typed

\* What leaves the ledger, the requests and the vouchers alone but for statuses, locks and the
\* latest version.
LEMMA StoreBacked ==
    ASSUME Backed, LedgerOK', Stored' = Stored, StoredRunes' = StoredRunes, Transactions' = Transactions,
           request' = request, queue' = queue, UNCHANGED bank, fees' = fees, PacketsOK', ConfigOK'
    PROVE  Backed'
<1>1. RequestsOK /\ BankOK
    BY DEF Backed, Typed
<1>2. RequestsOK' /\ Owed' = Owed
    BY <1>1, RequestsQuiet
<1>3. BankOK' /\ Vouchers' = Vouchers /\ RuneVouchers' = RuneVouchers
    BY <1>1, BankQuiet
<1>4. Slack' = Slack
    BY SameSlack
<1> QED BY <1>2, <1>3, <1>4 DEF Backed, Typed

\* Signatures and confirmations change the status of one transaction and unlock its outputs.
LEMMA StatusBacked ==
    ASSUME IInv, Backed, NEW s \in DOMAIN signing, SubmitSignatures(s) \/ SubmitWithdrawTransaction(s)
    PROVE  Backed'
<1>1. LedgerOK /\ PacketsOK /\ ConfigOK
    BY DEF Backed, Typed
<1>2. PICK v \in Status : signing' = [signing EXCEPT ![s].status = v]
    BY DEF SubmitSignatures, SubmitWithdrawTransaction, ConfirmTransaction, Status
<1>3. /\ minted' = minted /\ request' = request /\ queue' = queue /\ packets' = packets /\ ibcQueue' = ibcQueue
      /\ UNCHANGED bank /\ UNCHANGED settings /\ phase' = phase /\ todo' = todo /\ fees' = fees
    BY DEF SubmitSignatures, SubmitWithdrawTransaction, ConfirmTransaction, withdrawals, config
<1>4. /\ DOMAIN utxo' = DOMAIN utxo
      /\ \A o \in DOMAIN utxo : utxo'[o] = utxo[o] \/ utxo'[o] = UnlockUTXO(utxo[o])
    BY DEF SubmitSignatures, SubmitWithdrawTransaction, ConfirmTransaction
<1>5. index' \subseteq DOMAIN utxo
    BY <1>1 DEF SubmitSignatures, SubmitWithdrawTransaction, ConfirmTransaction, UTXOsByTxHash, LedgerOK
<1>6. Transactions' = Transactions
    BY <1>2, StatusStep
<1>7. \A r \in DOMAIN signing' : signing'[r].status \in Status
    <2>1. /\ DOMAIN signing' = DOMAIN signing /\ signing'[s].status = v
          /\ \A r \in DOMAIN signing \ {s} : signing'[r].status = signing[r].status
        BY <1>2, StatusFields
    <2> QED BY <1>1, <2>1 DEF LedgerOK
<1>8. fees' \in FeesType
    BY <1>1, <1>3 DEF ConfigOK
<1>9. ConfigOK' /\ latest' = latest /\ latest \in Nat
    BY <1>1, <1>3, <1>8, ConfigQuiet
<1>10. LedgerOK' /\ Stored' = Stored /\ StoredRunes' = StoredRunes
    BY <1>1, <1>3, <1>4, <1>5, <1>6, <1>7, <1>9, LedgerStays
<1>11. PacketsOK'
    BY <1>1, <1>3, PacketsQuiet
<1> QED BY <1>3, <1>6, <1>9, <1>10, <1>11, StoreBacked

\* Consolidations and transfers: the vaults pay the network fee.
LEMMA MoveBacked ==
    ASSUME Backed, OwedInv, LedgerOK', Transactions \subseteq Transactions', fees' \in FeesType, Stored' - Slack' = Stored - Slack,
           StoredRunes' = StoredRunes, request' = request, queue' = queue, UNCHANGED bank, UNCHANGED settings,
           phase' = phase, PacketsOK'
    PROVE  Backed'
<1>1. RequestsOK /\ BankOK /\ ConfigOK /\ RequestIsSeq
    BY DEF Backed, Typed, OwedInv
<1>2. RequestsOK' /\ Owed' = Owed
    BY <1>1, RequestsQuiet
<1>3. BankOK' /\ Vouchers' = Vouchers /\ RuneVouchers' = RuneVouchers
    BY <1>1, BankQuiet
<1>4. ConfigOK'
    BY <1>1, ConfigQuiet
<1>5. Stored' \in Nat
    BY StoredThen
<1>6. Stored \in Nat /\ Vouchers \in Int /\ Owed \in Nat /\ Slack \in Int
    BY <1>1, SumsAreInt DEF Backed
<1>7. Stored = Vouchers + Owed + Slack /\ StoredRunes = RuneVouchers
    BY DEF Backed
<1>8. Stored' = Vouchers' + Owed' + Slack'
    <2>0. Slack' \in Int
        BY DEF FeesType, Slack
    <2>1. PICK b \in Int, d \in Int : b = Stored' /\ d = Slack'
        BY <1>5, <2>0
    <2>2. b - d = Stored - Slack
        BY <2>1
    <2>3. b = Vouchers + Owed + d
        BY <1>6, <1>7, <2>2
    <2> QED BY <1>2, <1>3, <2>1, <2>3
<1> QED BY <1>2, <1>3, <1>4, <1>7, <1>8 DEF Backed, Typed

\* The requests of a block are some of those that were received.
LEMMA PendingAre == ASSUME PacketsOK PROVE PendingIBCWithdrawRequests \in Seq(DOMAIN packets)
<1> DEFINE P == [user : User, amount : Nat]
           D == DOMAIN packets
           S == FirstOf(ibcQueue, MaxBatch)
<1>1. Len(packets) \in Nat /\ D = 1..Len(packets)
    <2>1. packets \in Seq(P)
        BY DEF PacketsOK
    <2> HIDE DEF P
    <2> QED BY <2>1
<1>2. S \subseteq D
    BY DEF FirstOf, PacketsOK
<1>3. S \in SUBSET Int /\ IsFiniteSet(S)
    <2>1. IsFiniteSet(D)
        BY <1>1, FS_Interval
    <2> QED BY <1>1, <1>2, <2>1, FS_Subset
<1>4. PendingIBCWithdrawRequests = InOrder(S)
    BY DEF PendingIBCWithdrawRequests
<1> HIDE DEF S, D
<1>5. InOrder(S) \in Seq(S)
    BY <1>3, InOrderLists
<1>6. InOrder(S) \in Seq(D)
    <2> DEFINE l == InOrder(S)
    <2>1. l \in Seq(S) /\ S \subseteq D
        BY <1>2, <1>5
    <2> HIDE DEF l
    <2>2. l \in Seq(D)
        BY <2>1
    <2> QED BY <2>2 DEF l
<1> QED BY <1>4, <1>6 DEF D

\* A later vault version, and the requests of this block.
LEMMA EndBlockerBacked ==
    ASSUME Backed, NEW x \in BOOLEAN, NEW y \in BOOLEAN, EndBlocker(x, y) PROVE Backed'
<1>1. LedgerOK /\ PacketsOK /\ ConfigOK
    BY DEF Backed, Typed
<1>2. /\ UNCHANGED ledger /\ UNCHANGED withdrawals /\ UNCHANGED bank
      /\ feeRate' = feeRate /\ height' = height /\ enabled' = enabled /\ fees' = fees /\ phase' = "withdrawals"
    BY Zenon DEF EndBlocker
<1>3. /\ x => latest < MaxVersion
      /\ latest' = (IF x THEN latest + 1 ELSE latest)
      /\ transfers' = (IF x /\ y THEN transfers \union {latest} ELSE transfers)
      /\ todo' = IF FeeRateIsValid THEN PendingIBCWithdrawRequests ELSE <<>>
    BY Zenon DEF EndBlocker
<1>4. MaxVersion \in Nat /\ latest \in 0..MaxVersion /\ transfers \subseteq 0..(latest - 1)
    BY <1>1, BridgeAssumption DEF ConfigOK
<1>5. latest' \in 0..MaxVersion /\ transfers' \subseteq 0..(latest' - 1) /\ latest <= latest' /\ latest \in Nat /\ latest' \in Nat
    <2>1. CASE x
        BY <1>3, <1>4, <2>1
    <2>2. CASE ~x
        BY <1>3, <1>4, <2>2
    <2> QED BY <2>1, <2>2
<1>6. ConfigOK'
    BY <1>1, <1>2, <1>5 DEF ConfigOK
<1>7. LedgerOK' /\ Stored' = Stored /\ StoredRunes' = StoredRunes /\ Transactions' = Transactions
    BY <1>1, <1>2, <1>5, LedgerQuiet
<1>8. request' = request /\ queue' = queue /\ packets' = packets /\ ibcQueue' = ibcQueue
    BY <1>2 DEF withdrawals
<1>9. PacketsOK'
    <2>1. PendingIBCWithdrawRequests \in Seq(DOMAIN packets) /\ <<>> \in Seq(DOMAIN packets)
        BY <1>1, PendingAre
    <2>2. todo' \in Seq(DOMAIN packets)
        BY <1>3, <2>1
    <2> QED BY <1>1, <1>8, <2>2 DEF PacketsOK
<1> QED BY <1>2, <1>6, <1>7, <1>8, <1>9, StoreBacked

\* A request that came over IBC is dropped, or what it brought is burned.
LEMMA IBCBacked == ASSUME IInv, OwedInv, Backed, HandleIBCWithdrawRequest PROVE Backed'
<1>1. LedgerOK /\ RequestsOK /\ PacketsOK /\ BankOK /\ ConfigOK /\ RequestIsSeq
    BY DEF Backed, Typed, OwedInv
<1>2. /\ phase = "withdrawals" /\ todo # <<>> /\ todo' = Tail(todo) /\ ibcQueue' = ibcQueue \ {Head(todo)}
      /\ UNCHANGED ledger /\ packets' = packets /\ runes' = runes /\ UNCHANGED settings /\ phase' = phase
    BY DEF HandleIBCWithdrawRequest, config
<1>3. todo' \in Seq(DOMAIN packets) /\ Head(todo) \in DOMAIN packets
    <2> DEFINE D == DOMAIN packets
    <2>1. todo \in Seq(D)
        BY <1>1, <1>2 DEF PacketsOK
    <2> HIDE DEF D
    <2>2. Tail(todo) \in Seq(D) /\ Head(todo) \in D
        BY <1>2, <2>1
    <2> QED BY <1>2, <2>2 DEF D
<1>4. PacketsOK'
    BY <1>1, <1>2, <1>3 DEF PacketsOK
<1>5. fees \in FeesType /\ Slack \in Int
    BY <1>1, SlackIsInt DEF ConfigOK
<1>6. CASE UNCHANGED <<request, queue, balance, fees>>
    <2>1. ConfigOK' /\ latest' = latest /\ latest \in Nat
        BY <1>1, <1>2, <1>5, <1>6, ConfigQuiet
    <2>2. LedgerOK' /\ Stored' = Stored /\ StoredRunes' = StoredRunes /\ Transactions' = Transactions
        BY <1>1, <1>2, <2>1, LedgerQuiet
    <2>3. UNCHANGED bank
        BY <1>2, <1>6 DEF bank
    <2> QED BY <1>4, <1>6, <2>1, <2>2, <2>3, StoreBacked
<1>7. CASE AcceptIBCWithdraw(packets[Head(todo)])
    <2> DEFINE p == packets[Head(todo)]
               u == p.user
               x == p.amount
               amount == x - WithdrawFee
               tx == EstimateWithdrawalTx(u, amount)
               fee == tx.fee
               paid == amount - fee
    <2>1. p \in [user : User, amount : Nat]
        <3> DEFINE P == [user : User, amount : Nat]
                   i == Head(todo)
        <3>1. packets \in Seq(P) /\ i \in DOMAIN packets
            BY <1>1, <1>3 DEF PacketsOK
        <3> HIDE DEF P, i
        <3>2. packets[i] \in P
            BY <3>1
        <3> QED BY <3>2 DEF P, i
    <2>2. u \in User /\ x \in Nat
        <3> HIDE DEF p
        <3> QED BY <2>1
    <2>3. /\ balance[u] >= x /\ amount \in MinWithdraw..MaxWithdraw /\ tx.ok /\ paid >= MinWithdraw
          /\ balance' = AddCoins(SubCoins(balance, u, x), Collector, WithdrawFee)
          /\ fees' = SetAside(fee) /\ NewWithdrawRequest(u, paid, 0) /\ queue' = queue \union {NextRequest}
        BY <1>7, Zenon DEF AcceptIBCWithdraw
    <2>4. WithdrawFee \in Nat /\ MinWithdraw \in Nat /\ MaxWithdraw \in Nat
        BY BridgeAssumption DEF ValidParams
    <2> HIDE DEF p, u, x
    <2>5. amount \in Nat
        BY <2>2, <2>3, <2>4
    <2>6. fee \in Nat
        <3> HIDE DEF amount
        <3> QED BY <1>1, <2>3, <2>5, EstimatedFee
    <2> HIDE DEF tx, fee
    <2>7. paid \in Nat /\ paid = x - WithdrawFee - fee
        BY <2>2, <2>3, <2>4, <2>5, <2>6
    <2> HIDE DEF amount, paid
    <2>8. u \in Account /\ Collector \in Account
        BY <2>2 DEF Account
    <2>9. fees' \in FeesType /\ Slack' = Slack + fee
        BY <1>5, <2>3, <2>6, SlackGrows
    <2>10. ConfigOK' /\ latest' = latest /\ latest \in Nat
        BY <1>1, <1>2, <2>9, ConfigQuiet
    <2>11. LedgerOK' /\ Stored' = Stored /\ StoredRunes' = StoredRunes /\ Transactions' = Transactions
        BY <1>1, <1>2, <2>10, LedgerQuiet
    <2>12. balance' \in [Account -> Nat] /\ Vouchers' = Vouchers - x + WithdrawFee /\ Vouchers \in Int
        BY <1>1, <2>2, <2>3, <2>4, <2>8, Burned DEF BankOK
    <2>13. RequestsOK' /\ Owed \in Nat /\ Owed' = Owed + paid
        BY <1>1, <2>2, <2>3, <2>7, <2>11, RequestAppended
    <2>14. BankOK' /\ RuneVouchers' = RuneVouchers
        BY <1>1, <1>2, <2>12 DEF BankOK, RuneVouchers, SumOver
    <2>15. Stored = Vouchers + Owed + Slack /\ StoredRunes = RuneVouchers
        BY DEF Backed
    <2>16. Stored' = Vouchers' + Owed' + Slack'
        BY <1>5, <2>2, <2>4, <2>6, <2>7, <2>9, <2>11, <2>12, <2>13, <2>15
    <2> QED BY <1>4, <2>10, <2>11, <2>13, <2>14, <2>15, <2>16 DEF Backed, Typed
<1> QED BY <1>6, <1>7 DEF HandleIBCWithdrawRequest

\* The batch pays what is owed to its withdrawals.
LEMMA BatchBacked == ASSUME IInv, OwedInv, Backed, HandleBtcWithdrawRequests PROVE Backed'
<1>1. LedgerOK /\ RequestsOK /\ PacketsOK /\ BankOK /\ ConfigOK /\ RequestIsSeq
    BY DEF Backed, Typed, OwedInv
<1>2. /\ phase' = "transfer" /\ packets' = packets /\ ibcQueue' = ibcQueue
      /\ UNCHANGED bank /\ UNCHANGED settings
    BY DEF HandleBtcWithdrawRequests, config
<1>3. PacketsOK'
    BY <1>1, <1>2 DEF PacketsOK
<1>4. BankOK' /\ Vouchers' = Vouchers /\ RuneVouchers' = RuneVouchers
    BY <1>1, <1>2, BankQuiet
<1>5. latest' = latest /\ latest \in Nat
    BY <1>1, <1>2, BridgeAssumption DEF ConfigOK, settings
<1>6. fees' \in FeesType \/ fees' = fees => ConfigOK'
    BY <1>1, <1>2 DEF ConfigOK, settings
<1>7. /\ Stored \in Nat /\ Vouchers \in Int /\ Owed \in Nat /\ Slack \in Int
      /\ Stored = Vouchers + Owed + Slack /\ StoredRunes = RuneVouchers
    BY <1>1, SumsAreInt DEF Backed
<1>8. CASE UNCHANGED <<ledger, request, queue, fees>>
    <2>1. LedgerOK' /\ Stored' = Stored /\ StoredRunes' = StoredRunes /\ Transactions' = Transactions
        BY <1>1, <1>5, <1>8, LedgerQuiet
    <2> QED BY <1>2, <1>3, <1>6, <1>7, <1>8, <2>1, StoreBacked
<1>9. CASE /\ BatchIsDue(BatchTx)
           /\ IssueTransaction(BatchTx.selected, WithChange(BatchOuts, BatchTx, latest), NoEdict)
           /\ request' = [r \in DOMAIN request |->
                             IF r \in Range(Batch) THEN [request[r] EXCEPT !.txid = NextTx] ELSE request[r]]
           /\ queue' = Dequeued(queue) /\ fees' = PayForBatch(BatchTx.fee)
    <2>1. BatchTx.ok
        BY <1>9 DEF BatchIsDue
    <2>2. /\ LedgerOK' /\ RequestsOK' /\ Transactions \subseteq Transactions' /\ fees' \in FeesType
          /\ Stored' - Owed' - Slack' = Stored - Owed - Slack /\ StoredRunes' = StoredRunes
          /\ Stored' \in Int /\ Owed' \in Int
        BY <1>1, <1>5, <1>9, <2>1, BatchLedger
    <2>3. PICK b \in Int, o \in Int, d \in Int : b = Stored' /\ o = Owed' /\ d = Slack'
        BY <2>2 DEF FeesType, Slack
    <2>4. b - o - d = Stored - Owed - Slack
        BY <2>2, <2>3
    <2>5. b = Vouchers + o + d
        BY <1>7, <2>4
    <2>6. Stored' = Vouchers' + Owed' + Slack'
        BY <1>4, <2>3, <2>5
    <2> QED BY <1>3, <1>4, <1>6, <1>7, <2>2, <2>6 DEF Backed, Typed
<1> QED BY <1>8, <1>9 DEF HandleBtcWithdrawRequests

\* The next block.
LEMMA NextBlockBacked == ASSUME Backed, NextBlock PROVE Backed'
<1>1. LedgerOK /\ PacketsOK /\ ConfigOK
    BY DEF Backed, Typed
<1>2. /\ UNCHANGED ledger /\ request' = request /\ queue' = queue /\ packets' = packets /\ ibcQueue' = ibcQueue
      /\ UNCHANGED bank /\ fees' = fees /\ phase' = "txs" /\ todo' = todo
      /\ enabled' = enabled /\ latest' = latest /\ transfers' = transfers
      /\ height' = (height + 1) % Period /\ feeRate' = [feeRate EXCEPT !.age = Min({@ + 1, Validity + 1})]
    BY DEF NextBlock, withdrawals
<1>3. latest \in Nat /\ Validity \in Nat /\ Period \in Nat \ {0}
    BY <1>1, BridgeAssumption DEF ConfigOK, ValidParams
<1>4. height' \in 0..(Period - 1)
    <2>1. height \in Int
        BY <1>1, <1>3 DEF ConfigOK
    <2>2. ASSUME NEW i \in Int, NEW n \in Nat \ {0} PROVE i % n \in 0..(n - 1)
        OBVIOUS
    <2> QED BY <1>2, <1>3, <2>1, <2>2
<1>5. feeRate' \in [value : {0} \union FeeRate, age : 0..(Validity + 1)]
    <2>1. feeRate \in [value : {0} \union FeeRate, age : 0..(Validity + 1)]
        BY <1>1 DEF ConfigOK
    <2> DEFINE S == {feeRate.age + 1, Validity + 1}
               m == Min(S)
    <2>2. m \in 0..(Validity + 1)
        <3>1. S \in SUBSET Nat /\ S # {} /\ Validity + 1 \in S
            BY <1>3, <2>1
        <3>2. m \in S /\ m =< Validity + 1
            <4> HIDE DEF S
            <4> QED BY <3>1, MinIn
        <3>3. m \in Nat
            BY <3>1, <3>2
        <3> HIDE DEF m, S
        <3> QED BY <1>3, <3>2, <3>3
    <2>3. feeRate' = [feeRate EXCEPT !.age = m]
        BY <1>2
    <2> HIDE DEF m
    <2> QED BY <2>1, <2>2, <2>3
<1>6. ConfigOK'
    BY <1>1, <1>2, <1>4, <1>5 DEF ConfigOK
<1>7. LedgerOK' /\ Stored' = Stored /\ StoredRunes' = StoredRunes /\ Transactions' = Transactions
    BY <1>1, <1>2, <1>3, LedgerQuiet
<1>8. PacketsOK'
    BY <1>1, <1>2 DEF PacketsOK
<1> QED BY <1>2, <1>6, <1>7, <1>8, StoreBacked

\* Every step keeps the books balanced.
LEMMA NextBacked == ASSUME IInv, StoreInv, OwedInv, Backed, [Next]_vars PROVE Backed'
<1>1. LedgerOK /\ PacketsOK /\ ConfigOK /\ latest \in Nat
    BY BridgeAssumption DEF Backed, Typed, ConfigOK
<1>2. ASSUME UNCHANGED ledger, UNCHANGED withdrawals, UNCHANGED bank, fees' = fees, ConfigOK', latest' = latest,
             phase' = phase, todo' = todo
      PROVE  Backed'
    <2>1. LedgerOK' /\ Stored' = Stored /\ StoredRunes' = StoredRunes /\ Transactions' = Transactions
        BY <1>1, <1>2, LedgerQuiet
    <2>2. request' = request /\ queue' = queue /\ packets' = packets /\ ibcQueue' = ibcQueue
        BY <1>2 DEF withdrawals
    <2>3. PacketsOK'
        BY <1>1, <1>2, <2>2, PacketsQuiet
    <2> QED BY <1>2, <2>1, <2>2, <2>3, StoreBacked
<1>3. ASSUME NEW asset, NEW v, NEW S \in SUBSET Unlocked(asset, v), NEW w \in 0..latest, Transfer(asset, S, v, w),
             UNCHANGED withdrawals, UNCHANGED bank, UNCHANGED settings, phase' = phase, PacketsOK'
      PROVE  Backed'
    <2>1. latest' = latest
        BY <1>3 DEF settings
    <2>2. /\ LedgerOK' /\ Transactions \subseteq Transactions' /\ fees' \in FeesType
          /\ Stored' - Slack' = Stored - Slack /\ StoredRunes' = StoredRunes
        BY <1>1, <1>3, <2>1, TransferLedger
    <2>3. request' = request /\ queue' = queue
        BY <1>3 DEF withdrawals
    <2> QED BY <1>3, <2>2, <2>3, MoveBacked
<1>4. ASSUME NEW t \in Transactions, SubmitDepositTransaction(t) PROVE Backed'
    BY <1>4, DepositBacked
<1>5. ASSUME NEW u \in User, NEW a \in Amount, WithdrawBtc(u, a) PROVE Backed'
    BY <1>5, WithdrawBtcBacked
<1>6. ASSUME NEW u \in User, NEW a \in Amount, IBCReceivePacketCallback(u, a) PROVE Backed'
    BY <1>6, PacketBacked
<1>7. ASSUME NEW u \in User, NEW a \in RuneAmount, WithdrawRunes(u, a) PROVE Backed'
    BY <1>7, WithdrawRunesBacked
<1>8. ASSUME NEW s \in DOMAIN signing, SubmitSignatures(s) \/ SubmitWithdrawTransaction(s) PROVE Backed'
    BY <1>8, StatusBacked
<1>9. ASSUME NEW r \in FeeRate, SubmitFeeRate(r) PROVE Backed'
    <2>1. /\ feeRate' = [value |-> r, age |-> 0] /\ UNCHANGED ledger /\ UNCHANGED withdrawals /\ UNCHANGED bank
          /\ height' = height /\ enabled' = enabled /\ latest' = latest /\ transfers' = transfers
          /\ phase' = phase /\ todo' = todo /\ fees' = fees
        BY <1>9 DEF SubmitFeeRate
    <2>2. feeRate' \in [value : {0} \union FeeRate, age : 0..(Validity + 1)]
        BY <2>1, BridgeAssumption DEF ValidParams
    <2>3. ConfigOK'
        BY <1>1, <2>1, <2>2 DEF ConfigOK
    <2> QED BY <1>2, <2>1, <2>3
<1>10. ASSUME NEW p \in Enabled, UpdateParams(p) PROVE Backed'
    <2>1. /\ enabled' = p /\ UNCHANGED ledger /\ UNCHANGED withdrawals /\ UNCHANGED bank
          /\ height' = height /\ feeRate' = feeRate /\ latest' = latest /\ transfers' = transfers
          /\ phase' = phase /\ todo' = todo /\ fees' = fees
        BY <1>10 DEF UpdateParams
    <2>2. ConfigOK'
        BY <1>1, <2>1 DEF ConfigOK
    <2> QED BY <1>2, <2>1, <2>2
<1>11. ASSUME NEW p, UpdateIncentiveParams(p) PROVE Backed'
    <2>1. /\ UNCHANGED ledger /\ UNCHANGED withdrawals /\ UNCHANGED bank /\ UNCHANGED settings
          /\ phase' = phase /\ todo' = todo /\ fees' = fees
        BY <1>11 DEF UpdateIncentiveParams
    <2>2. ConfigOK' /\ latest' = latest
        BY <1>1, <2>1, ConfigQuiet DEF ConfigOK
    <2> QED BY <1>2, <2>1, <2>2
<1>12. ASSUME NEW asset, NEW v \in 0..latest, NEW th, NEW n, ConsolidateVaults(asset, v, th, n) PROVE Backed'
    <2>1. PICK S : S \subseteq UnlockedUpTo(asset, v, th) /\ Transfer(asset, S, v, v)
        BY <1>12, Zenon DEF ConsolidateVaults, kSubset
    <2>2. S \in SUBSET Unlocked(asset, v)
        BY <2>1 DEF UnlockedUpTo
    <2>3. /\ UNCHANGED withdrawals /\ UNCHANGED bank /\ UNCHANGED settings /\ phase' = phase /\ todo' = todo
        BY <1>12, Zenon DEF ConsolidateVaults, config
    <2>4. PacketsOK'
        BY <1>1, <2>3, PacketsQuiet DEF withdrawals
    <2> QED BY <1>3, <2>1, <2>2, <2>3, <2>4
<1>13. ASSUME NEW asset, NEW v, NEW w \in 0..latest, NEW n, TransferVault(asset, v, w, n) PROVE Backed'
    <2>1. PICK S : S \subseteq Unlocked(asset, v) /\ Transfer(asset, S, v, w)
        BY <1>13 DEF TransferVault, TransferChoice, kSubset
    <2>2. /\ UNCHANGED withdrawals /\ UNCHANGED bank /\ UNCHANGED settings /\ phase' = phase /\ todo' = todo
        BY <1>13 DEF TransferVault, config
    <2>3. PacketsOK'
        BY <1>1, <2>2, PacketsQuiet DEF withdrawals
    <2> QED BY <1>3, <2>1, <2>2, <2>3
<1>14. ASSUME NEW asset, NEW v, NEW w \in 0..latest, NEW ins \in SUBSET DOMAIN utxo, NEW r \in FeeRate,
              TransferVaultPsbt(asset, v, w, ins, r)
       PROVE  Backed'
    <2>1. /\ UNCHANGED withdrawals /\ UNCHANGED bank /\ UNCHANGED settings /\ phase' = phase /\ todo' = todo
        BY <1>14 DEF TransferVaultPsbt, config
    <2>2. PacketsOK'
        BY <1>1, <2>1, PacketsQuiet DEF withdrawals
    <2>3. latest' = latest
        BY <2>1 DEF settings
    <2>4. /\ LedgerOK' /\ Transactions \subseteq Transactions' /\ fees' \in FeesType
          /\ Stored' - Slack' = Stored - Slack /\ StoredRunes' = StoredRunes
        BY <1>1, <1>14, <2>3, PsbtLedger
    <2>5. request' = request /\ queue' = queue
        BY <2>1 DEF withdrawals
    <2> QED BY <2>1, <2>2, <2>4, <2>5, MoveBacked
<1>15. ASSUME NEW x \in BOOLEAN, NEW y \in BOOLEAN, EndBlocker(x, y) PROVE Backed'
    BY <1>15, EndBlockerBacked
<1>16. CASE HandleIBCWithdrawRequest
    BY <1>16, IBCBacked
<1>17. CASE HandleBtcWithdrawRequests
    BY <1>17, BatchBacked
<1>18. CASE HandleVaultTransfer
    <2>1. /\ UNCHANGED withdrawals /\ UNCHANGED bank /\ UNCHANGED settings /\ phase' = phase /\ phase = "transfer"
        BY <1>18 DEF HandleVaultTransfer, config
    <2>2. PacketsOK'
        BY <1>1, <2>1 DEF PacketsOK, withdrawals
    <2>3. CASE UNCHANGED <<ledger, fees>>
        <3>1. latest' = latest /\ fees' = fees /\ fees' \in FeesType
            BY <1>1, <2>1, <2>3 DEF settings, ConfigOK
        <3>2. ConfigOK'
            BY <1>1, <2>1, <3>1, ConfigQuiet
        <3>3. LedgerOK' /\ Stored' = Stored /\ StoredRunes' = StoredRunes /\ Transactions' = Transactions
            BY <1>1, <2>3, <3>1, LedgerQuiet
        <3> QED BY <2>1, <2>2, <3>1, <3>2, <3>3, StoreBacked DEF withdrawals
    <2>4. CASE ~UNCHANGED <<ledger, fees>>
        <3>1. PICK asset, v, S : S \in TransferChoice(asset, v, TargetNum) /\ Transfer(asset, S, v, latest)
            BY <1>18, <2>4 DEF HandleVaultTransfer
        <3>2. S \in SUBSET Unlocked(asset, v) /\ latest \in 0..latest
            BY <1>1, <3>1 DEF TransferChoice, kSubset
        <3> QED BY <1>3, <2>1, <2>2, <3>1, <3>2
    <2> QED BY <2>3, <2>4
<1>19. CASE NextBlock
    BY <1>19, NextBlockBacked
<1>20. CASE UNCHANGED vars
    <2>1. /\ UNCHANGED ledger /\ UNCHANGED withdrawals /\ UNCHANGED bank /\ UNCHANGED settings
          /\ phase' = phase /\ todo' = todo /\ fees' = fees
        BY <1>20 DEF vars, ledger, withdrawals, bank, settings
    <2>2. ConfigOK' /\ latest' = latest
        BY <1>1, <2>1, ConfigQuiet DEF ConfigOK
    <2> QED BY <1>2, <2>1, <2>2
<1> QED BY <1>4, <1>5, <1>6, <1>7, <1>8, <1>9, <1>10, <1>11, <1>12, <1>13, <1>14, <1>15, <1>16, <1>17, <1>18, <1>19,
           <1>20 DEF Next

\* Every satoshi and every rune of the vouchers is in the vaults, or was paid to Bitcoin as the fee
\* of a consolidation, of a transfer or of a batch that cost more than was burned for it; whatever
\* is deposited, withdrawn, paid, moved and confirmed (mintBTC, mintRunes, BurnAsset, BuildUnsignedTransaction, SpendUTXOs,
\* lockChangeUTXOs).
THEOREM VouchersAreAccountedHolds == Spec => []VouchersAreAccounted
<1> DEFINE I == IInv /\ StoreInv /\ OwedInv /\ Backed
<1>1. I /\ [Next]_vars => I'
    BY NextInv, NextPaid, NextBacked
<1>2. Init => I
    BY InitInv, InitPaid, InitBacked
<1>3. I => VouchersAreAccounted
    <2> SUFFICES ASSUME I PROVE VouchersAreAccounted
        OBVIOUS
    <2>1. TypeOK
        BY TypedIsTyped DEF Backed
    <2>2. SatoshisAreAccounted
        <3>1. /\ Stored \in Nat /\ Vouchers \in Int /\ Owed \in Nat
              /\ Stored = Vouchers + Owed + Slack /\ fees \in FeesType
            BY SumsAreInt DEF Backed, OwedInv, Typed, ConfigOK
        <3>2. Claims = Vouchers + Owed
            BY DEF Claims, Vouchers, Owed
        <3>3. Stored + fees.moved + fees.excess = Vouchers + Owed + fees.carried + fees.spare
            BY <3>1 DEF FeesType, Slack
        <3>4. Stored + fees.moved + fees.excess = Claims + fees.carried + fees.spare
            BY <3>2, <3>3
        <3> QED BY <3>4 DEF SatoshisAreAccounted, Stored
    <2>3. RunesAreBacked
        BY DEF Backed, RunesAreBacked, StoredRunes, RuneVouchers
    <2> QED BY <2>1, <2>2, <2>3 DEF VouchersAreAccounted
<1> HIDE DEF I
<1> QED BY <1>1, <1>2, <1>3, PTL DEF Spec

----------------------------------------------------------------------------
(* Rewards *)

\* The rewards of one kind that an address has, and the sums over all addresses.
Count(s, a, kind) == IF HasRewards(s, a) THEN s.rewards[a].count[kind] ELSE 0
Totals(rewards) == [a \in DOMAIN rewards |-> rewards[a].TotalAmount]
Counts(rewards) == [a \in DOMAIN rewards |-> rewards[a].count.deposit + rewards[a].count.withdraw]
Gone(funds) == [d \in DOMAIN Funds |-> Funds[d] - funds[d]]

Kind == {"deposit", "withdraw"}
PerKind == [deposit : Nat, withdraw : Nat]
Earning == [count : PerKind, amount : PerKind, TotalAmount : Nat]

\* The rewards and their statistics agree, with each other and with what was paid.
FundsOK(funds) == funds \in [DOMAIN Funds -> Nat] /\ \A d \in DOMAIN Funds : funds[d] <= Funds[d]
RewardsOK(rewards) ==
    /\ DOMAIN rewards \subseteq Account
    /\ \A a \in DOMAIN rewards : /\ rewards[a] \in Earning
                                 /\ rewards[a].TotalAmount = rewards[a].amount.deposit + rewards[a].amount.withdraw
StatsOK(stats, rewards) ==
    stats = [AddressCount |-> Cardinality(DOMAIN rewards), TxCount |-> SumFunction(Counts(rewards)),
             TotalRewardAmount |-> SumFunction(Totals(rewards))]
IncentiveOK(s) ==
    /\ DOMAIN s = {"params", "funds", "rewards", "stats"}
    /\ s.params \in Rewarding /\ FundsOK(s.funds) /\ RewardsOK(s.rewards) /\ StatsOK(s.stats, s.rewards)
    /\ SumFunction(Totals(s.rewards)) = SumFunction(Gone(s.funds))

\* A value of a function grows, or it gets its first value there.
GrowsAt(f, D, a, n, g) ==
    /\ n \in Int /\ \A x \in D : f[x] \in Int
    /\ g[a] = (IF a \in D THEN f[a] ELSE 0) + n /\ \A x \in D \ {a} : g[x] = f[x]
LEMMA SumGrows ==
    ASSUME NEW D, IsFiniteSet(D), NEW f, NEW a, NEW n, NEW g, GrowsAt(f, D, a, n, g)
    PROVE  /\ SumFunctionOnSet(f, D) \in Int
           /\ SumFunctionOnSet(g, D \union {a}) = SumFunctionOnSet(f, D) + n
<1> DEFINE K == D \ {a}
           P == {a}
<1>0. /\ n \in Int /\ \A x \in D : f[x] \in Int
      /\ g[a] = (IF a \in D THEN f[a] ELSE 0) + n /\ \A x \in D \ {a} : g[x] = f[x]
    BY DEF GrowsAt
<1>1. IsFiniteSet(K) /\ IsFiniteSet(P) /\ K \cap P = {} /\ D \union {a} = K \union P
    BY FS_Subset, FS_Singleton
<1>2. g[a] \in Int /\ \A x \in K \union P : g[x] \in Int
    BY <1>0
<1>3. SumFunctionOnSet(g, P) = g[a]
    BY <1>2, SumSmall
<1>4. \A x \in K : f[x] \in Int /\ g[x] = f[x]
    BY <1>0
<1> HIDE DEF K, P
<1>5. SumFunctionOnSet(g, K \union P) = SumFunctionOnSet(g, K) + SumFunctionOnSet(g, P)
    BY <1>1, <1>2, SumUnion
<1>6. SumFunctionOnSet(g, K) = SumFunctionOnSet(f, K) /\ SumFunctionOnSet(f, K) \in Int
    BY <1>1, <1>4, SumSame, SumType
<1>7. SumFunctionOnSet(f, D) = (IF a \in D THEN f[a] ELSE 0) + SumFunctionOnSet(f, K)
    <2>1. CASE a \in D
        BY <1>0, <2>1, SumRemove DEF K
    <2>2. CASE a \notin D
        <3>1. K = D
            BY <2>2 DEF K
        <3> QED BY <1>6, <2>2, <3>1
    <2> QED BY <2>1, <2>2
<1>8. SumFunctionOnSet(f, D) \in Int
    BY <1>0, SumType
<1> DEFINE m == IF a \in D THEN f[a] ELSE 0
<1>9. m \in Int /\ n \in Int /\ g[a] = m + n /\ SumFunctionOnSet(f, D) = m + SumFunctionOnSet(f, K)
    BY <1>0, <1>7
<1> HIDE DEF m
<1>10. SumFunctionOnSet(g, D \union {a}) = SumFunctionOnSet(f, K) + (m + n)
    BY <1>1, <1>3, <1>5, <1>6, <1>9
<1> QED BY <1>6, <1>8, <1>9, <1>10

\* The number of one kind grows (AddDepositReward, AddWithdrawReward).
Grows(c, old, kind, n) == c = [old EXCEPT ![kind] = old[kind] + n]
LEMMA Increased ==
    ASSUME NEW old \in PerKind, NEW kind \in Kind, NEW n \in Nat, NEW c, Grows(c, old, kind, n)
    PROVE  /\ c \in PerKind /\ c[kind] = old[kind] + n /\ old[kind] \in Nat
           /\ \A k \in Kind \ {kind} : c[k] = old[k]
           /\ c.deposit + c.withdraw = old.deposit + old.withdraw + n
<1>1. CASE kind = "deposit"
    BY <1>1 DEF PerKind, Kind, Grows
<1>2. CASE kind = "withdraw"
    BY <1>2 DEF PerKind, Kind, Grows
<1> QED BY <1>1, <1>2 DEF Kind

\* What an address has before and after a reward.
Earned(rewards, a) ==
    IF a \in DOMAIN rewards THEN rewards[a]
    ELSE [count |-> [deposit |-> 0, withdraw |-> 0], amount |-> [deposit |-> 0, withdraw |-> 0], TotalAmount |-> 0]

IsAdded(R, r, a, kind, n) ==
    /\ DOMAIN r = DOMAIN R \union {a} /\ \A x \in DOMAIN R \ {a} : r[x] = R[x]
    /\ Earned(R, a) \in Earning /\ r[a].TotalAmount = Earned(R, a).TotalAmount + n
    /\ r[a].count[kind] = Earned(R, a).count[kind] + 1 /\ Earned(R, a).count[kind] \in Nat
    /\ \A k \in Kind \ {kind} : r[a].count[k] = Earned(R, a).count[k]
    /\ r[a].count.deposit + r[a].count.withdraw
       = Earned(R, a).count.deposit + Earned(R, a).count.withdraw + 1

LEMMA AddedIs ==
    ASSUME NEW s, RewardsOK(s.rewards), NEW a \in Account, NEW kind \in Kind, NEW reward, reward.amount \in Nat
    PROVE  /\ RewardsOK(Added(s, a, kind, reward))
           /\ IsAdded(s.rewards, Added(s, a, kind, reward), a, kind, reward.amount)
<1> DEFINE n == reward.amount
           old == Earned(s.rewards, a)
           oc == old.count
           om == old.amount
           c == [oc EXCEPT ![kind] = oc[kind] + 1]
           m == [om EXCEPT ![kind] = om[kind] + n]
           new == [count |-> c, amount |-> m, TotalAmount |-> old.TotalAmount + n]
           r == Added(s, a, kind, reward)
<1>1. old \in Earning /\ old.TotalAmount = old.amount.deposit + old.amount.withdraw
    <2>1. CASE a \in DOMAIN s.rewards
        BY <2>1 DEF Earned, RewardsOK
    <2>2. CASE a \notin DOMAIN s.rewards
        BY <2>2 DEF Earned, Earning, PerKind
    <2> QED BY <2>1, <2>2
<1>2. DOMAIN r = DOMAIN s.rewards \union {a} /\ r[a] = new /\ \A x \in DOMAIN s.rewards \ {a} : r[x] = s.rewards[x]
    BY DEF Added, HasRewards, Earned
<1> HIDE DEF old, r
<1>3. old.count \in PerKind /\ old.amount \in PerKind /\ old.TotalAmount \in Nat
    BY <1>1 DEF Earning
<1>3a. oc \in PerKind /\ om \in PerKind /\ n \in Nat /\ oc = old.count /\ om = old.amount /\ 1 \in Nat /\ kind \in Kind
    BY <1>3
<1>3b. Grows(c, oc, kind, 1) /\ Grows(m, om, kind, n)
    BY DEF Grows
<1> HIDE DEF oc, om, n, c, m
<1>4. /\ c \in PerKind /\ c[kind] = oc[kind] + 1 /\ oc[kind] \in Nat
      /\ \A k \in Kind \ {kind} : c[k] = oc[k]
      /\ c.deposit + c.withdraw = oc.deposit + oc.withdraw + 1
    BY <1>3a, <1>3b, Increased
<1>5. m \in PerKind /\ m.deposit + m.withdraw = om.deposit + om.withdraw + n
    BY <1>3a, <1>3b, Increased
<1>6. new \in Earning /\ new.TotalAmount = new.amount.deposit + new.amount.withdraw
    BY <1>1, <1>3, <1>3a, <1>4, <1>5 DEF Earning
<1>7. RewardsOK(r)
    BY <1>2, <1>6 DEF RewardsOK
<1>8. IsAdded(s.rewards, r, a, kind, n)
    <2> DEFINE R == s.rewards
    <2>1. DOMAIN r = DOMAIN R \union {a} /\ r[a] = new /\ (\A x \in DOMAIN R \ {a} : r[x] = R[x]) /\ old = Earned(R, a)
        BY <1>2 DEF old
    <2>2. r[a].count = c /\ r[a].TotalAmount = old.TotalAmount + n
        BY <2>1
    <2> HIDE DEF R, new
    <2>3. /\ r[a].count[kind] = Earned(R, a).count[kind] + 1 /\ Earned(R, a).count[kind] \in Nat
          /\ \A k \in Kind \ {kind} : r[a].count[k] = Earned(R, a).count[k]
        BY <1>3a, <1>4, <2>1, <2>2
    <2>4. r[a].count.deposit + r[a].count.withdraw = Earned(R, a).count.deposit + Earned(R, a).count.withdraw + 1
        BY <1>3a, <1>4, <2>1, <2>2
    <2>5. IsAdded(R, r, a, kind, n)
        BY <1>1, <2>1, <2>2, <2>3, <2>4 DEF IsAdded
    <2> QED BY <2>5 DEF R
<1> QED BY <1>7, <1>8 DEF r, n

\* Counts are natural numbers.
LEMMA CountType == ASSUME NEW s, RewardsOK(s.rewards), NEW a, NEW k \in Kind PROVE Count(s, a, k) \in Nat
BY DEF RewardsOK, Count, HasRewards, Earning, PerKind, Kind

\* The statistics follow a reward.
LEMMA StatsAdded ==
    ASSUME NEW s, RewardsOK(s.rewards), StatsOK(s.stats, s.rewards), NEW a \in Account, NEW kind \in Kind,
           NEW reward, reward.amount \in Nat
    PROVE  /\ StatsOK(UpdateRewardStats(s, a, reward), Added(s, a, kind, reward))
           /\ SumFunction(Totals(s.rewards)) \in Int
           /\ SumFunction(Totals(Added(s, a, kind, reward))) = SumFunction(Totals(s.rewards)) + reward.amount
<1> DEFINE R == s.rewards
           D == DOMAIN R
           old == Earned(R, a)
           r == Added(s, a, kind, reward)
           new == r[a]
           n == reward.amount
           f == Totals(R)
           g == Totals(r)
           p == Counts(R)
           q == Counts(r)
<1>0. RewardsOK(R) /\ RewardsOK(r) /\ IsAdded(R, r, a, kind, n)
    BY AddedIs
<1>0a. R = s.rewards /\ StatsOK(s.stats, R) /\ n \in Nat
    OBVIOUS
<1> HIDE DEF R, r, n
<1>1a. DOMAIN r = D \union {a} /\ \A x \in D \ {a} : r[x] = R[x]
    BY <1>0 DEF IsAdded
<1>1b. old \in Earning /\ new.TotalAmount = old.TotalAmount + n
    BY <1>0 DEF IsAdded
<1>1c. new.count.deposit + new.count.withdraw = old.count.deposit + old.count.withdraw + 1
    BY <1>0 DEF IsAdded
<1>2. IsFiniteSet(D)
    BY AccountIsFinite, FS_Subset, <1>0 DEF RewardsOK
<1>3. IsFiniteSet(D \union {a}) /\ Cardinality(D \union {a}) = Cardinality(D) + IF a \in D THEN 0 ELSE 1
    BY <1>2, FS_AddElement, FS_CardinalityType
<1>4. /\ DOMAIN f = D /\ DOMAIN p = D /\ DOMAIN g = D \union {a} /\ DOMAIN q = D \union {a}
      /\ \A x \in D : f[x] = R[x].TotalAmount /\ p[x] = R[x].count.deposit + R[x].count.withdraw
      /\ \A x \in D \union {a} : g[x] = r[x].TotalAmount /\ q[x] = r[x].count.deposit + r[x].count.withdraw
    <2> QED BY <1>1a DEF Totals, Counts
<1>5. \A x \in D : R[x] \in Earning
    BY <1>0 DEF RewardsOK
<1>6. \A e \in Earning : e.TotalAmount \in Int /\ e.count.deposit + e.count.withdraw \in Int
    BY DEF Earning, PerKind
<1>7. /\ old.TotalAmount = (IF a \in D THEN f[a] ELSE 0)
      /\ old.count.deposit + old.count.withdraw = (IF a \in D THEN p[a] ELSE 0)
    BY <1>4 DEF Earned
<1>8. n \in Int /\ 1 \in Int
    BY <1>0a
<1>9. (\A x \in D : f[x] \in Int) /\ (\A x \in D \ {a} : g[x] = f[x])
    BY <1>1a, <1>4, <1>5, <1>6
<1>9a. (\A x \in D : p[x] \in Int) /\ (\A x \in D \ {a} : q[x] = p[x])
    BY <1>1a, <1>4, <1>5, <1>6
<1>10. g[a] = (IF a \in D THEN f[a] ELSE 0) + n
    BY <1>1a, <1>1b, <1>4, <1>7
<1>10a. q[a] = (IF a \in D THEN p[a] ELSE 0) + 1
    BY <1>1a, <1>1c, <1>4, <1>7
<1> HIDE DEF f, g, p, q, D, old, new
<1>10b. GrowsAt(f, D, a, n, g) /\ GrowsAt(p, D, a, 1, q)
    BY <1>8, <1>9, <1>9a, <1>10, <1>10a DEF GrowsAt
<1>11. SumFunctionOnSet(f, D) \in Int /\ SumFunctionOnSet(g, D \union {a}) = SumFunctionOnSet(f, D) + n
    BY <1>2, <1>10b, SumGrows
<1>12. SumFunctionOnSet(p, D) \in Int /\ SumFunctionOnSet(q, D \union {a}) = SumFunctionOnSet(p, D) + 1
    BY <1>2, <1>10b, SumGrows
<1>13. /\ SumFunction(f) \in Int /\ SumFunction(g) = SumFunction(f) + n
       /\ SumFunction(q) = SumFunction(p) + 1
    BY <1>4, <1>11, <1>12 DEF SumFunction
<1>14. s.stats = [AddressCount |-> Cardinality(D), TxCount |-> SumFunction(p), TotalRewardAmount |-> SumFunction(f)]
    BY <1>0a DEF StatsOK, D, p, f
<1>15. UpdateRewardStats(s, a, reward) =
           [AddressCount |-> Cardinality(D) + (IF a \in D THEN 0 ELSE 1), TxCount |-> SumFunction(p) + 1,
            TotalRewardAmount |-> SumFunction(f) + n]
    BY <1>0a, <1>14 DEF UpdateRewardStats, HasRewards, D, n
<1>16. StatsOK(UpdateRewardStats(s, a, reward), r)
    <2>1. UpdateRewardStats(s, a, reward) =
              [AddressCount |-> Cardinality(DOMAIN r), TxCount |-> SumFunction(q), TotalRewardAmount |-> SumFunction(g)]
        BY <1>1a, <1>3, <1>13, <1>15
    <2> QED BY <2>1 DEF StatsOK, q, g
<1> QED BY <1>13, <1>16 DEF f, g, r, n, R

\* What is paid for a reward leaves the funds.
LEMMA FundsPaid ==
    ASSUME NEW funds, FundsOK(funds), NEW d \in DOMAIN Funds, NEW n \in Nat, n <= funds[d], NEW left,
           left = [funds EXCEPT ![d] = @ - n]
    PROVE  FundsOK(left) /\ SumFunction(Gone(funds)) \in Int /\ SumFunction(Gone(left)) = SumFunction(Gone(funds)) + n
<1> DEFINE f == Gone(funds)
           g == Gone(left)
           D == DOMAIN Funds
<1>1. IsFiniteSet(D) /\ \A x \in D : Funds[x] \in Nat
    BY RewardAssumption
<1>2. /\ left \in [D -> Nat] /\ left[d] = funds[d] - n /\ (\A x \in D \ {d} : left[x] = funds[x])
      /\ \A x \in D : funds[x] \in Nat /\ funds[x] <= Funds[x]
    BY DEF FundsOK
<1>3. FundsOK(left)
    BY <1>1, <1>2 DEF FundsOK
<1>4. DOMAIN f = D /\ DOMAIN g = D /\ \A x \in D : f[x] = Funds[x] - funds[x] /\ g[x] = Funds[x] - left[x]
    BY DEF Gone
<1> HIDE DEF f, g, D
<1>5. \A x \in D : f[x] \in Int /\ g[x] \in Int
    BY <1>1, <1>2, <1>4
<1>6. (\A x \in D \ {d} : g[x] = f[x]) /\ g[d] = f[d] + n /\ d \in D /\ f[d] \in Int
    BY <1>1, <1>2, <1>4, <1>5 DEF D
<1>7. SumFunction(f) \in Int /\ SumFunction(g) = SumFunction(f) - f[d] + g[d]
    BY <1>1, <1>4, <1>5, <1>6, SumUpdate
<1>8. SumFunction(g) = SumFunction(f) + n
    BY <1>6, <1>7
<1> QED BY <1>3, <1>7, <1>8 DEF f, g

\* What a reward does: the module goes on being consistent, and at most one more reward is
\* counted, for the address and the kind it is for.
MayAdd(s, r, a, kind) ==
    \A b \in Account, k \in Kind : /\ Count(s, b, k) \in Nat /\ Count(r, b, k) \in Nat
                                   /\ Count(r, b, k) <= Count(s, b, k) + IF b = a /\ k = kind THEN 1 ELSE 0

\* Coins of a reward: the account of the module knows the denomination.
CoinOK(c) == c.amount \in Nat /\ c.denom \in DOMAIN Funds

LEMMA Distributed ==
    ASSUME NEW s, IncentiveOK(s), NEW a \in Account, NEW kind \in Kind, NEW reward, CoinOK(reward)
    PROVE  IncentiveOK(Distribute(s, a, kind, reward)) /\ MayAdd(s, Distribute(s, a, kind, reward), a, kind)
<1> DEFINE t == Distribute(s, a, kind, reward)
           n == reward.amount
           d == reward.denom
<1>1. /\ DOMAIN s = {"params", "funds", "rewards", "stats"} /\ s.params \in Rewarding /\ FundsOK(s.funds)
      /\ RewardsOK(s.rewards) /\ StatsOK(s.stats, s.rewards)
      /\ SumFunction(Totals(s.rewards)) = SumFunction(Gone(s.funds))
    BY DEF IncentiveOK
<1>2. CASE t = s
    <2>1. \A b \in Account, k \in Kind : Count(s, b, k) \in Nat
        BY <1>1, CountType
    <2> HIDE DEF t
    <2> QED BY <1>2, <2>1 DEF MayAdd, t
<1>3. CASE t # s
    <2>1. ~(s.funds[d] < n)
        BY <1>3 DEF Distribute
    <2>2. t = [s EXCEPT !.funds[d] = @ - n, !.stats = UpdateRewardStats(s, a, reward), !.rewards = Added(s, a, kind, reward)]
        BY <1>3 DEF Distribute
    <2>3. n \in Nat /\ d \in DOMAIN Funds
        BY DEF CoinOK
    <2> HIDE DEF t, n, d
    <2>4. /\ t.funds = [s.funds EXCEPT ![d] = @ - n] /\ t.stats = UpdateRewardStats(s, a, reward)
          /\ t.rewards = Added(s, a, kind, reward) /\ t.params = s.params /\ DOMAIN t = DOMAIN s
        BY <1>1, <2>2
    <2>5. n <= s.funds[d]
        BY <1>1, <2>1, <2>3 DEF FundsOK
    <2>6. /\ FundsOK(t.funds) /\ SumFunction(Gone(s.funds)) \in Int
          /\ SumFunction(Gone(t.funds)) = SumFunction(Gone(s.funds)) + n
        BY <1>1, <2>3, <2>4, <2>5, FundsPaid
    <2>7. /\ StatsOK(t.stats, t.rewards) /\ SumFunction(Totals(s.rewards)) \in Int
          /\ SumFunction(Totals(t.rewards)) = SumFunction(Totals(s.rewards)) + n
        BY <1>1, <2>3, <2>4, StatsAdded DEF n
    <2>8. RewardsOK(t.rewards) /\ IsAdded(s.rewards, t.rewards, a, kind, n)
        BY <1>1, <2>3, <2>4, AddedIs DEF n
    <2>9. IncentiveOK(t)
        BY <1>1, <2>4, <2>6, <2>7, <2>8 DEF IncentiveOK
    <2>10. MayAdd(s, t, a, kind)
        <3> DEFINE R == s.rewards
                   r == t.rewards
                   old == Earned(R, a)
        <3>1. IsAdded(R, r, a, kind, n) /\ RewardsOK(R) /\ RewardsOK(r)
            BY <1>1, <2>8
        <3>2. \A k \in Kind : Count(s, a, k) = old.count[k]
            BY DEF Count, HasRewards, Earned, Kind
        <3>3. \A b \in Account, k \in Kind : Count(s, b, k) \in Nat /\ Count(t, b, k) \in Nat
            BY <3>1, CountType
        <3>4. /\ \A b, k : Count(t, b, k) = IF b \in DOMAIN r THEN r[b].count[k] ELSE 0
              /\ \A b, k : Count(s, b, k) = IF b \in DOMAIN R THEN R[b].count[k] ELSE 0
            BY DEF Count, HasRewards
        <3> HIDE DEF R, r, old
        <3>5. a \in DOMAIN r /\ \A b : b # a => (b \in DOMAIN r <=> b \in DOMAIN R) /\ (b \in DOMAIN R => r[b] = R[b])
            BY <3>1 DEF IsAdded
        <3>6. r[a].count[kind] = old.count[kind] + 1 /\ \A k \in Kind \ {kind} : r[a].count[k] = old.count[k]
            BY <3>1 DEF IsAdded, old
        <3>7. ASSUME NEW b \in Account, NEW k \in Kind
              PROVE  Count(t, b, k) <= Count(s, b, k) + IF b = a /\ k = kind THEN 1 ELSE 0
            <4>1. CASE b # a
                <5>1. Count(t, b, k) = Count(s, b, k)
                    BY <3>4, <3>5, <4>1
                <5> QED BY <3>3, <4>1, <5>1
            <4>2. CASE b = a
                <5>1. Count(t, a, k) = r[a].count[k] /\ Count(s, a, k) = old.count[k]
                    BY <3>2, <3>4, <3>5
                <5>2. CASE k = kind
                    BY <3>3, <3>6, <4>2, <5>1, <5>2
                <5>3. CASE k # kind
                    BY <3>3, <3>6, <4>2, <5>1, <5>3
                <5> QED BY <5>2, <5>3
            <4> QED BY <4>1, <4>2
        <3> QED BY <3>3, <3>7 DEF MayAdd
    <2> QED BY <2>9, <2>10 DEF t
<1> QED BY <1>2, <1>3

\* A set of natural numbers with 0 and every successor has them all.
LEMMA CountingUp == ASSUME NEW A, 0 \in A, \A n \in A : n + 1 \in A PROVE \A n \in Nat : n \in A
<1> DEFINE W == {n \in Nat : n \notin A}
<1> SUFFICES ASSUME W # {} PROVE FALSE
    OBVIOUS
<1>1. W \in SUBSET Nat
    OBVIOUS
<1>2. Min(W) \in W /\ \A y \in W : Min(W) =< y
    <2> HIDE DEF W
    <2> QED BY <1>1, MinIn
<1> DEFINE m == Min(W)
<1>3. m \in Nat /\ m \notin A /\ \A y \in W : m =< y
    BY <1>2
<1> HIDE DEF m
<1>4. m # 0 /\ m - 1 \in Nat
    BY <1>3
<1>5. m - 1 \in A
    BY <1>3, <1>4
<1>6. (m - 1) + 1 = m
    BY <1>3
<1> QED BY <1>3, <1>5, <1>6

\* The rewards of several withdrawals, by the number of those that were looked at.
Loop(s, us, g) ==
    [i \in 0..Len(us) |->
        IF i = 0 THEN s ELSE Distribute(g[i - 1], us[i], "withdraw", s.params.RewardPerWithdraw)]

LEMMA LoopExists ==
    ASSUME NEW s, NEW us, Len(us) \in Nat
    PROVE  \E g : g = Loop(s, us, g) /\ DistributeWithdrawRewards(s, us) = g[Len(us)]
<1> DEFINE c == s.params.RewardPerWithdraw
           B(n, g) == [i \in 0..n |-> IF i = 0 THEN s ELSE Distribute(g[i - 1], us[i], "withdraw", c)]
           A == {n \in Nat : \E g : g = B(n, g)}
<1> HIDE DEF c
<1>1. 0 \in A
    <2> DEFINE g == [i \in 0..0 |-> s]
    <2>1. g = B(0, g)
        OBVIOUS
    <2> QED BY <2>1
<1>2. ASSUME NEW n \in A PROVE n + 1 \in A
    <2>1. PICK g : g = B(n, g)
        OBVIOUS
    <2>2. n \in Nat
        OBVIOUS
    <2> DEFINE h == [i \in 0..(n + 1) |-> IF i <= n THEN g[i] ELSE Distribute(g[n], us[i], "withdraw", c)]
    <2>3. \A i \in 0..n : g[i] = IF i = 0 THEN s ELSE Distribute(g[i - 1], us[i], "withdraw", c)
        BY <2>1
    <2>4. \A i \in 0..(n + 1) : h[i] = IF i = 0 THEN s ELSE Distribute(h[i - 1], us[i], "withdraw", c)
        <3> SUFFICES ASSUME NEW i \in 0..(n + 1)
                     PROVE  h[i] = IF i = 0 THEN s ELSE Distribute(h[i - 1], us[i], "withdraw", c)
            OBVIOUS
        <3>1. CASE i = 0
            <4>1. h[0] = g[0] /\ 0 \in 0..n
                BY <2>2
            <4> HIDE DEF h
            <4>2. g[0] = s
                BY <2>3, <4>1
            <4> QED BY <3>1, <4>1, <4>2
        <3>2. CASE i # 0
            <4>1. i - 1 \in 0..n /\ h[i - 1] = g[i - 1]
                BY <2>2, <3>2
            <4>2. CASE i <= n
                <5>1. h[i] = g[i] /\ i \in 0..n
                    BY <2>2, <4>2
                <5> HIDE DEF h
                <5> QED BY <2>3, <3>2, <4>1, <5>1
            <4>3. CASE ~(i <= n)
                <5>1. i = n + 1 /\ i - 1 = n /\ h[i] = Distribute(g[n], us[i], "withdraw", c)
                    BY <2>2, <4>3
                <5> HIDE DEF h
                <5> QED BY <3>2, <4>1, <5>1
            <4> QED BY <4>2, <4>3
        <3> QED BY <3>1, <3>2
    <2>5. DOMAIN h = 0..(n + 1) /\ h = [i \in DOMAIN h |-> h[i]]
        OBVIOUS
    <2> HIDE DEF h
    <2>6. h = B(n + 1, h)
        BY <2>4, <2>5
    <2> QED BY <2>2, <2>6
<1>3. Len(us) \in A
    <2> HIDE DEF A
    <2> QED BY <1>1, <1>2, CountingUp
<1> DEFINE h == CHOOSE g : g = Loop(s, us, g)
<1>4. \E g : g = Loop(s, us, g)
    BY <1>3 DEF Loop, c
<1>5. h = Loop(s, us, h)
    BY <1>4, Zenon
<1>6. DistributeWithdrawRewards(s, us) = h[Len(us)]
    BY DEF DistributeWithdrawRewards, Loop
<1> HIDE DEF h
<1> QED BY <1>5, <1>6

\* How many of the first n requests are of one user.
Of(us, n, b) == {i \in 1..n : us[i] = b}
LEMMA OfGrows ==
    ASSUME NEW us, NEW n \in Nat, NEW b
    PROVE  /\ IsFiniteSet(Of(us, n, b)) /\ Cardinality(Of(us, n, b)) \in Nat
           /\ Cardinality(Of(us, 0, b)) = 0
           /\ Cardinality(Of(us, n + 1, b)) = Cardinality(Of(us, n, b)) + IF us[n + 1] = b THEN 1 ELSE 0
<1>1. IsFiniteSet(Of(us, n, b))
    <2>1. Of(us, n, b) \in SUBSET (1..n) /\ IsFiniteSet(1..n)
        BY FS_Interval DEF Of
    <2> QED BY <2>1, FS_Subset
<1>2. Cardinality(Of(us, n, b)) \in Nat
    BY <1>1, FS_CardinalityType
<1>3. Of(us, 0, b) = {} /\ Cardinality({}) = 0
    BY FS_EmptySet DEF Of
<1>4. CASE us[n + 1] = b
    <2>1. Of(us, n + 1, b) = Of(us, n, b) \union {n + 1} /\ n + 1 \notin Of(us, n, b)
        BY <1>4 DEF Of
    <2>2. Cardinality(Of(us, n, b) \union {n + 1}) = Cardinality(Of(us, n, b)) + 1
        BY <1>1, <2>1, FS_AddElement
    <2> QED BY <1>1, <1>2, <1>3, <1>4, <2>1, <2>2
<1>5. CASE us[n + 1] # b
    <2>1. Of(us, n + 1, b) = Of(us, n, b)
        BY <1>5 DEF Of
    <2> QED BY <1>1, <1>2, <1>3, <1>5, <2>1
<1> QED BY <1>4, <1>5

\* Governance accepts rewards in coins that the module has an account of.
LEMMA CoinsAreOK == ASSUME NEW p \in Rewarding PROVE CoinOK(p.RewardPerDeposit) /\ CoinOK(p.RewardPerWithdraw)
BY RewardAssumption DEF CoinOK

\* Rewards for several withdrawals: each user gets at most as many as requests of theirs.
LEMMA Rewarded ==
    ASSUME NEW s, IncentiveOK(s), NEW us, Len(us) \in Nat, \A i \in 1..Len(us) : us[i] \in Account
    PROVE  /\ IncentiveOK(DistributeWithdrawRewards(s, us))
           /\ \A b \in Account :
                 /\ Count(DistributeWithdrawRewards(s, us), b, "deposit") <= Count(s, b, "deposit")
                 /\ Count(DistributeWithdrawRewards(s, us), b, "withdraw")
                    <= Count(s, b, "withdraw") + Cardinality(Of(us, Len(us), b))
<1> DEFINE c == s.params.RewardPerWithdraw
           N == Len(us)
<1>1. CoinOK(c)
    BY CoinsAreOK DEF IncentiveOK
<1>2. PICK g : g = Loop(s, us, g) /\ DistributeWithdrawRewards(s, us) = g[N]
    BY LoopExists
<1>3. \A i \in 0..N : g[i] = IF i = 0 THEN s ELSE Distribute(g[i - 1], us[i], "withdraw", c)
    BY <1>2 DEF Loop
<1>4. N \in Nat /\ \A i \in 1..N : us[i] \in Account
    OBVIOUS
<1> HIDE DEF c, N
<1>5. \A b \in Account, k \in Kind : Count(s, b, k) \in Nat
    BY CountType DEF IncentiveOK
<1> DEFINE OK(i) == /\ IncentiveOK(g[i])
                    /\ \A b \in Account : /\ Count(g[i], b, "deposit") <= Count(s, b, "deposit")
                                          /\ Count(g[i], b, "withdraw") <= Count(s, b, "withdraw") + Cardinality(Of(us, i, b))
           A == {i \in Nat : i <= N => OK(i)}
<1>6. 0 \in A
    <2>1. g[0] = s
        BY <1>3, <1>4
    <2>2. \A b : Cardinality(Of(us, 0, b)) = 0
        BY OfGrows
    <2>3. \A b \in Account : Count(s, b, "deposit") \in Nat /\ Count(s, b, "withdraw") \in Nat
        BY <1>5 DEF Kind
    <2> QED BY <2>1, <2>2, <2>3
<1>7. ASSUME NEW i \in A PROVE i + 1 \in A
    <2> SUFFICES ASSUME i + 1 <= N PROVE OK(i + 1)
        OBVIOUS
    <2>1. i \in Nat /\ OK(i) /\ i + 1 \in 1..N
        BY <1>4
    <2> DEFINE a == us[i + 1]
               r == g[i + 1]
               q == g[i]
    <2>2. a \in Account /\ r = Distribute(q, a, "withdraw", c)
        BY <1>3, <1>4, <2>1
    <2>3. IncentiveOK(q) /\ "withdraw" \in Kind /\ "deposit" \in Kind
        BY <2>1 DEF Kind
    <2>4. IncentiveOK(r) /\ MayAdd(q, r, a, "withdraw")
        <3> HIDE DEF q, a, r, OK
        <3> QED BY <1>1, <2>2, <2>3, Distributed
    <2>5. ASSUME NEW b \in Account
          PROVE  /\ Count(r, b, "deposit") <= Count(s, b, "deposit")
                 /\ Count(r, b, "withdraw") <= Count(s, b, "withdraw") + Cardinality(Of(us, i + 1, b))
        <3>1. /\ Cardinality(Of(us, i, b)) \in Nat
              /\ Cardinality(Of(us, i + 1, b)) = Cardinality(Of(us, i, b)) + IF a = b THEN 1 ELSE 0
            BY <2>1, OfGrows
        <3>2. /\ Count(q, b, "deposit") <= Count(s, b, "deposit")
              /\ Count(q, b, "withdraw") <= Count(s, b, "withdraw") + Cardinality(Of(us, i, b))
            BY <2>1
        <3> HIDE DEF q, a, r, OK
        <3>3. /\ Count(q, b, "deposit") \in Nat /\ Count(r, b, "deposit") \in Nat
              /\ Count(r, b, "deposit") <= Count(q, b, "deposit")
              /\ Count(q, b, "withdraw") \in Nat /\ Count(r, b, "withdraw") \in Nat
              /\ Count(r, b, "withdraw") <= Count(q, b, "withdraw") + IF b = a THEN 1 ELSE 0
            BY <2>3, <2>4 DEF MayAdd
        <3>4. Count(s, b, "deposit") \in Nat /\ Count(s, b, "withdraw") \in Nat
            BY <1>5, <2>3
        <3> QED BY <3>1, <3>2, <3>3, <3>4
    <2> QED BY <2>4, <2>5
<1>8. N \in A
    <2> HIDE DEF A
    <2> QED BY <1>4, <1>6, <1>7, CountingUp
<1>9. OK(N)
    BY <1>4, <1>8
<1> QED BY <1>2, <1>9 DEF N

\* Nobody has more rewards than deposits and withdrawals, and the books of x/incentive balance.
RewardsInv ==
    /\ IncentiveOK(incentive)
    /\ \A a \in Account : /\ Count(incentive, a, "deposit") <= Cardinality(Minted(a))
                          /\ Count(incentive, a, "withdraw") <= Cardinality(Paid(a))

\* What is minted and paid stays so.
RequestsKept ==
    /\ DOMAIN request \subseteq DOMAIN request'
    /\ \A r \in DOMAIN request : request[r].txid # 0 => request'[r] = request[r]
SigningKept ==
    /\ DOMAIN signing \subseteq DOMAIN signing'
    /\ \A s \in DOMAIN signing : signing[s].status = "CONFIRMED" => signing'[s].status = "CONFIRMED"

\* The transaction of a paid request is one of the bridge.
LEMMA PaidByTransaction ==
    ASSUME IInv, OwedInv, NEW r \in DOMAIN request, request[r].txid # 0
    PROVE  \E s \in DOMAIN signing : request[r].txid = Txid(s) /\ request[r].txid - Len(Deposit) = s
<1>1. PICK o \in Payments(r) : Txid(o[1]) = request[r].txid
    BY DEF OwedInv, WithdrawalIsPaidOnce
<1>2. o[1] \in DOMAIN signing
    BY PaymentsAre
<1>3. DOMAIN signing \subseteq Nat
    <2>1. PICK I, X, Y : signing \in Seq(SigningRecord(I, X, Y))
        BY DEF IInv, SigningIsSeq
    <2> DEFINE S == SigningRecord(I, X, Y)
    <2>2. signing \in Seq(S)
        BY <2>1
    <2> HIDE DEF S
    <2> QED BY <2>2
<1> QED BY <1>1, <1>2, <1>3, BridgeAssumption DEF Txid

\* What is minted to and paid for an account can be counted, before and after a step.
LEMMA MintedFinite ==
    /\ LedgerOK => \A a : IsFiniteSet(Minted(a))
    /\ LedgerOK' => \A a : IsFiniteSet(Minted(a)')
<1>0. Len(Deposit) \in Nat
    <2>1. Deposit \in Seq(DepositTx)
        BY BridgeAssumption
    <2> QED BY <2>1
<1>1. IsFiniteSet(1..Len(Deposit))
    BY <1>0, FS_Interval
<1>2. ASSUME LedgerOK, NEW a PROVE Minted(a) \in SUBSET (1..Len(Deposit))
    <2>1. \A t \in minted : t \in Int /\ 1 <= t
        BY <1>2 DEF LedgerOK, Transactions
    <2> QED BY <1>0, <2>1 DEF Minted
<1>3. ASSUME LedgerOK', NEW a PROVE Minted(a)' \in SUBSET (1..Len(Deposit))
    <2>1. \A t \in minted' : t \in Int /\ 1 <= t
        BY <1>3 DEF LedgerOK, Transactions
    <2> QED BY <1>0, <2>1 DEF Minted
<1>4. \A T \in SUBSET (1..Len(Deposit)) : IsFiniteSet(T)
    BY <1>1, FS_Subset
<1> QED BY <1>2, <1>3, <1>4

LEMMA PaidFinite ==
    /\ RequestIsSeq => \A a : IsFiniteSet(Paid(a))
    /\ RequestIsSeq' => \A a : IsFiniteSet(Paid(a)')
<1>1. ASSUME NEW n \in Nat PROVE \A T \in SUBSET (1..n) : IsFiniteSet(T)
    <2>1. IsFiniteSet(1..n)
        BY FS_Interval
    <2> QED BY <2>1, FS_Subset
<1>2. ASSUME RequestIsSeq PROVE \A a : IsFiniteSet(Paid(a))
    BY <1>1, <1>2, RequestNumbers DEF Paid
<1>3. ASSUME RequestIsSeq' PROVE \A a : IsFiniteSet(Paid(a)')
    <2>1. PICK U, A, T : request' \in Seq(RequestRecord(U, A, T))
        BY <1>3 DEF RequestIsSeq, RequestRecord
    <2> DEFINE S == RequestRecord(U, A, T)
    <2>2. request' \in Seq(S)
        BY <2>1
    <2> HIDE DEF S
    <2>3. Len(request') \in Nat /\ DOMAIN request' = 1..Len(request')
        BY <2>2
    <2> QED BY <1>1, <2>3 DEF Paid
<1> QED BY <1>2, <1>3

\* A paid withdrawal stays paid.
LEMMA PaidGrows ==
    ASSUME IInv, OwedInv, RequestsKept, SigningKept, NEW a PROVE Paid(a) \subseteq Paid(a)'
<1> SUFFICES ASSUME NEW r \in Paid(a) PROVE r \in Paid(a)'
    OBVIOUS
<1>1. /\ r \in DOMAIN request /\ request[r].user = a /\ request[r].txid # 0
      /\ signing[request[r].txid - Len(Deposit)].status = "CONFIRMED"
    BY DEF Paid
<1>2. PICK s \in DOMAIN signing : request[r].txid - Len(Deposit) = s
    BY <1>1, PaidByTransaction
<1>3. r \in DOMAIN request' /\ request'[r] = request[r]
    BY <1>1 DEF RequestsKept
<1>4. signing'[s].status = "CONFIRMED"
    BY <1>1, <1>2 DEF SigningKept
<1> QED BY <1>1, <1>2, <1>3, <1>4 DEF Paid

\* What is counted stays below a set that grows with it.
LEMMA CardinalityGrows ==
    ASSUME NEW M, NEW N, IsFiniteSet(N), NEW D, M \subseteq N, D \subseteq N, D \intersect M = {},
           NEW c \in Int, NEW d \in Int, c <= Cardinality(M), d <= c + Cardinality(D)
    PROVE  d <= Cardinality(N)
<1>1. IsFiniteSet(M) /\ IsFiniteSet(D) /\ IsFiniteSet(M \union D)
    <2>1. M \in SUBSET N /\ D \in SUBSET N /\ M \union D \in SUBSET N
        OBVIOUS
    <2> QED BY <2>1, FS_Subset
<1>2. Cardinality(M \union D) = Cardinality(M) + Cardinality(D) - Cardinality(M \intersect D)
    BY <1>1, FS_Union
<1>3. M \intersect D = {} /\ Cardinality({}) = 0
    BY FS_EmptySet
<1>4. Cardinality(M \union D) <= Cardinality(N)
    <2>1. M \union D \in SUBSET N
        OBVIOUS
    <2> QED BY <2>1, FS_Subset
<1>5. Cardinality(M) \in Nat /\ Cardinality(D) \in Nat /\ Cardinality(N) \in Nat /\ Cardinality(M \union D) \in Nat
    BY <1>1, FS_CardinalityType
<1>6. Cardinality(M \union D) = Cardinality(M) + Cardinality(D)
    BY <1>2, <1>3, <1>5
<1> QED BY <1>4, <1>5, <1>6

\* The rewards stay below what was earned: D are the deposits and W the withdrawals of every
\* account that a step adds.
LEMMA RewardsGrow ==
    ASSUME IInv, OwedInv, RewardsInv, LedgerOK', RequestIsSeq', IncentiveOK(incentive'),
           minted \subseteq minted', RequestsKept, SigningKept, NEW D, NEW W,
           \A a \in Account :
              /\ D[a] \subseteq Minted(a)' /\ D[a] \intersect Minted(a) = {}
              /\ W[a] \subseteq Paid(a)' /\ W[a] \intersect Paid(a) = {}
              /\ Count(incentive', a, "deposit") <= Count(incentive, a, "deposit") + Cardinality(D[a])
              /\ Count(incentive', a, "withdraw") <= Count(incentive, a, "withdraw") + Cardinality(W[a])
    PROVE  RewardsInv'
<1>1. IncentiveOK(incentive)'
    BY DEF IncentiveOK, FundsOK, RewardsOK, StatsOK, Totals, Counts, Gone
<1>2. ASSUME NEW a \in Account
      PROVE  /\ Count(incentive', a, "deposit") <= Cardinality(Minted(a)')
             /\ Count(incentive', a, "withdraw") <= Cardinality(Paid(a)')
    <2>1. Minted(a) \subseteq Minted(a)' /\ Paid(a) \subseteq Paid(a)'
        BY PaidGrows DEF Minted
    <2>2. IsFiniteSet(Minted(a)') /\ IsFiniteSet(Paid(a)')
        BY MintedFinite, PaidFinite
    <2> DEFINE M == Minted(a)
               N == Minted(a)'
               P == Paid(a)
               Q == Paid(a)'
               x == Count(incentive, a, "deposit")
               y == Count(incentive, a, "withdraw")
               z == Count(incentive', a, "deposit")
               w == Count(incentive', a, "withdraw")
    <2>3. x \in Int /\ y \in Int /\ z \in Int /\ w \in Int
        BY CountType DEF RewardsInv, IncentiveOK, Kind
    <2>4. x <= Cardinality(M) /\ y <= Cardinality(P)
        BY DEF RewardsInv
    <2>5. /\ D[a] \subseteq N /\ D[a] \intersect M = {} /\ W[a] \subseteq Q /\ W[a] \intersect P = {}
          /\ z <= x + Cardinality(D[a]) /\ w <= y + Cardinality(W[a])
        OBVIOUS
    <2>6. M \subseteq N /\ P \subseteq Q /\ IsFiniteSet(N) /\ IsFiniteSet(Q)
        BY <2>1, <2>2
    <2> HIDE DEF M, N, P, Q, x, y, z, w
    <2>7. z <= Cardinality(N) /\ w <= Cardinality(Q)
        BY <2>3, <2>4, <2>5, <2>6, CardinalityGrows
    <2> QED BY <2>7 DEF N, Q, z, w
<1> QED BY <1>1, <1>2 DEF RewardsInv, Count, HasRewards

\* A step without rewards.
LEMMA RewardsQuiet ==
    ASSUME IInv, OwedInv, RewardsInv, LedgerOK', RequestIsSeq', IncentiveOK(incentive'),
           incentive'.rewards = incentive.rewards, minted \subseteq minted', RequestsKept, SigningKept
    PROVE  RewardsInv'
<1> DEFINE D == [a \in Account |-> {}]
<1>1. \A a \in Account : D[a] = {} /\ Cardinality(D[a]) = 0
    BY FS_EmptySet
<1>2. \A a, k : Count(incentive', a, k) = Count(incentive, a, k)
    BY DEF Count, HasRewards
<1>3. \A a \in Account, k \in Kind : Count(incentive, a, k) \in Nat
    BY CountType DEF RewardsInv, IncentiveOK
<1>4. \A a \in Account : /\ Count(incentive', a, "deposit") <= Count(incentive, a, "deposit") + Cardinality(D[a])
                         /\ Count(incentive', a, "withdraw") <= Count(incentive, a, "withdraw") + Cardinality(D[a])
    BY <1>1, <1>2, <1>3 DEF Kind
<1> HIDE DEF D
<1> QED BY <1>1, <1>4, RewardsGrow

\* A deposit of BTC is rewarded, at most once, to its recipient.
LEMMA DepositRewards ==
    ASSUME IInv, StoreInv, OwedInv, RewardsInv, LedgerOK', RequestIsSeq', NEW t \in Transactions, SubmitDepositTransaction(t)
    PROVE  RewardsInv'
<1>1. /\ t \in 1..Len(Deposit) /\ Transaction(t) = Deposit[t] /\ Deposit[t] \in DepositTx
    BY DepositIs
<1>2. /\ t \notin minted /\ minted' = minted \union {t} /\ signing' = signing /\ request' = request
    BY DEF SubmitDepositTransaction, withdrawals
<1>3. RequestsKept /\ SigningKept /\ minted \subseteq minted'
    BY <1>2 DEF RequestsKept, SigningKept
<1>4. IncentiveOK(incentive)
    BY DEF RewardsInv
<1>5. CASE incentive' = incentive
    BY <1>3, <1>4, <1>5, RewardsQuiet
<1>6. CASE incentive' # incentive
    <2> DEFINE tx == Deposit[t]
               u == Recipient(tx)
               c == incentive.params.RewardPerDeposit
               D == [a \in Account |-> IF a = u THEN {t} ELSE {}]
               W == [a \in Account |-> {}]
    <2>1. MintBTC(t, tx)
        BY <1>1, <1>6 DEF SubmitDepositTransaction, MintRunes
    <2>2. tx.edict = NoEdict /\ incentive' = Distribute(incentive, u, "deposit", c)
        BY <2>1 DEF MintBTC, DistributeDepositReward
    <2>3. u \in Account
        BY <1>1, DepositTyped
    <2>4. CoinOK(c)
        BY <1>4, CoinsAreOK DEF IncentiveOK
    <2>5. "deposit" \in Kind /\ "withdraw" \in Kind
        BY DEF Kind
    <2>6. IncentiveOK(incentive') /\ MayAdd(incentive, incentive', u, "deposit")
        <3> HIDE DEF u, c, tx
        <3> QED BY <1>4, <2>2, <2>3, <2>4, <2>5, Distributed
    <2>7. ASSUME NEW a \in Account
          PROVE  /\ D[a] \subseteq Minted(a)' /\ D[a] \intersect Minted(a) = {}
                 /\ W[a] \subseteq Paid(a)' /\ W[a] \intersect Paid(a) = {}
                 /\ Count(incentive', a, "deposit") <= Count(incentive, a, "deposit") + Cardinality(D[a])
                 /\ Count(incentive', a, "withdraw") <= Count(incentive, a, "withdraw") + Cardinality(W[a])
        <3>1. D[a] \subseteq Minted(a)' /\ D[a] \intersect Minted(a) = {}
            <4>1. a = u => t \in Minted(a)'
                BY <1>1, <1>2, <2>2 DEF Minted
            <4>2. t \notin Minted(a)
                BY <1>2 DEF Minted
            <4> QED BY <4>1, <4>2
        <3>2. W[a] = {} /\ Cardinality(W[a]) = 0
            BY FS_EmptySet
        <3>3. Cardinality(D[a]) = IF a = u THEN 1 ELSE 0
            BY FS_EmptySet, FS_Singleton
        <3> HIDE DEF D, W, u, c, tx
        <3>4. /\ Count(incentive, a, "deposit") \in Nat /\ Count(incentive, a, "withdraw") \in Nat
              /\ Count(incentive', a, "deposit") \in Nat /\ Count(incentive', a, "withdraw") \in Nat
              /\ Count(incentive', a, "deposit") <= Count(incentive, a, "deposit") + IF a = u THEN 1 ELSE 0
              /\ Count(incentive', a, "withdraw") <= Count(incentive, a, "withdraw")
            BY <2>5, <2>6 DEF MayAdd
        <3> QED BY <3>1, <3>2, <3>3, <3>4
    <2> HIDE DEF D, W
    <2> QED BY <1>3, <2>6, <2>7, RewardsGrow
<1> QED BY <1>5, <1>6

\* The users of several requests, and which of them are of one user.
LEMMA UsersOf ==
    ASSUME RequestIsSeq, RequestsOK, NEW S \in SUBSET DOMAIN request, NEW us,
           us = [i \in DOMAIN InOrder(S) |-> request[InOrder(S)[i]].user]
    PROVE  /\ Len(us) \in Nat /\ \A i \in 1..Len(us) : us[i] \in Account
           /\ \A b : /\ IsFiniteSet({r \in S : request[r].user = b})
                     /\ Cardinality(Of(us, Len(us), b)) <= Cardinality({r \in S : request[r].user = b})
<1>1. Len(request) \in Nat /\ DOMAIN request = 1..Len(request)
    BY RequestNumbers
<1>2. IsFiniteSet(S) /\ S \in SUBSET Int
    <2>1. IsFiniteSet(1..Len(request))
        BY <1>1, FS_Interval
    <2> QED BY <1>1, <2>1, FS_Subset
<1> DEFINE p == InOrder(S)
           n == Cardinality(S)
<1>3. /\ DOMAIN p = 1..n /\ n \in Nat /\ \A i \in 1..n : p[i] \in S
      /\ \A i, j \in 1..n : p[i] = p[j] => i = j
    <2>1. /\ DOMAIN p = 1..n /\ n \in Nat
          /\ \A i \in DOMAIN p : p[i] \in S
          /\ \A i, j \in DOMAIN p : p[i] = p[j] => i = j
        BY <1>2, InOrderLists
    <2> QED BY <2>1
<1>4. us = [i \in 1..n |-> request[p[i]].user]
    BY <1>3
<1> HIDE DEF p, n
<1>5. \A r \in S : request[r].user \in Account
    BY DEF RequestsOK, Account
<1>6. us \in Seq(Account) /\ Len(us) = n
    BY <1>3, <1>4, <1>5
<1>7. ASSUME NEW b
      PROVE  /\ IsFiniteSet({r \in S : request[r].user = b})
             /\ Cardinality(Of(us, Len(us), b)) <= Cardinality({r \in S : request[r].user = b})
    <2> DEFINE T == {r \in S : request[r].user = b}
               O == Of(us, n, b)
               f == [i \in O |-> p[i]]
    <2>1. IsFiniteSet(T)
        <3>1. T \in SUBSET S
            OBVIOUS
        <3> QED BY <1>2, <3>1, FS_Subset
    <2>2. \A i \in O : i \in 1..n /\ p[i] \in T
        BY <1>3, <1>4 DEF Of
    <2> HIDE DEF O, T
    <2>3. f \in Injection(O, T)
        BY <1>3, <2>2 DEF Injection, IsInjective
    <2>4. Cardinality(O) <= Cardinality(T)
        BY <2>1, <2>3, FS_Injection
    <2> QED BY <1>6, <2>1, <2>4 DEF T, O
<1>8. Len(us) \in Nat /\ \A i \in 1..Len(us) : us[i] \in Account
    BY <1>6
<1> QED BY <1>7, <1>8

\* The withdrawals that a confirmed transaction pays are rewarded, at most once each.
LEMMA ConfirmRewards ==
    ASSUME IInv, OwedInv, RewardsInv, RequestsOK, LedgerOK', RequestIsSeq',
           NEW s \in DOMAIN signing, SubmitWithdrawTransaction(s)
    PROVE  RewardsInv'
<1>1. /\ signing[s].status # "CONFIRMED" /\ signing' = [signing EXCEPT ![s].status = "CONFIRMED"]
      /\ minted' = minted /\ request' = request /\ incentive' = AfterWithdraw(s)
    BY DEF SubmitWithdrawTransaction, ConfirmTransaction, withdrawals
<1>2. /\ Len(signing) \in Nat /\ DOMAIN signing = 1..Len(signing) /\ DOMAIN signing' = DOMAIN signing
      /\ \A r \in DOMAIN signing \ {s} : signing'[r].status = signing[r].status
      /\ signing'[s].status = "CONFIRMED"
    <2>1. "CONFIRMED" \in Status
        BY DEF Status
    <2> QED BY <1>1, <2>1, StatusFields
<1>3. RequestsKept /\ SigningKept /\ minted \subseteq minted'
    BY <1>1, <1>2 DEF RequestsKept, SigningKept
<1>4. IncentiveOK(incentive)
    BY DEF RewardsInv
<1>5. CASE signing[s].edict # NoEdict
    BY <1>1, <1>3, <1>4, <1>5, RewardsQuiet DEF AfterWithdraw
<1>6. CASE signing[s].edict = NoEdict
    <2> DEFINE S == {r \in DOMAIN request : request[r].txid = Txid(s)}
               us == [i \in DOMAIN InOrder(S) |-> request[InOrder(S)[i]].user]
               W == [a \in Account |-> {r \in S : request[r].user = a}]
               D == [a \in Account |-> {}]
    <2>1. incentive' = DistributeWithdrawRewards(incentive, us)
        BY <1>1, <1>6 DEF AfterWithdraw, WithdrawRequestsByTxHash
    <2>2. S \in SUBSET DOMAIN request /\ RequestIsSeq
        BY DEF OwedInv
    <2>3. /\ Len(us) \in Nat /\ \A i \in 1..Len(us) : us[i] \in Account
          /\ \A b : /\ IsFiniteSet({r \in S : request[r].user = b})
                    /\ Cardinality(Of(us, Len(us), b)) <= Cardinality({r \in S : request[r].user = b})
        <3> HIDE DEF S
        <3> QED BY <2>2, UsersOf
    <2>4. Txid(s) # 0 /\ Txid(s) - Len(Deposit) = s
        <3>1. Deposit \in Seq(DepositTx)
            BY BridgeAssumption
        <3>2. Len(Deposit) \in Nat
            BY <3>1
        <3> QED BY <1>2, <3>2 DEF Txid
    <2>5. ASSUME NEW a \in Account PROVE W[a] \subseteq Paid(a)' /\ W[a] \intersect Paid(a) = {}
        <3>1. ASSUME NEW r \in W[a] PROVE r \in Paid(a)' /\ r \notin Paid(a)
            <4>1. r \in DOMAIN request /\ request[r].txid = Txid(s) /\ request[r].user = a
                BY <3>1
            <4> QED BY <1>1, <1>2, <2>4, <4>1 DEF Paid
        <3> HIDE DEF W
        <3> QED BY <3>1
    <2>6. \A a \in Account : D[a] = {} /\ Cardinality(D[a]) = 0
        BY FS_EmptySet
    <2>7. \A a \in Account : IsFiniteSet(W[a]) /\ Cardinality(Of(us, Len(us), a)) <= Cardinality(W[a])
        BY <2>3
    <2> HIDE DEF D, W, S, us
    <2>8. /\ IncentiveOK(incentive')
          /\ \A b \in Account :
                /\ Count(incentive', b, "deposit") <= Count(incentive, b, "deposit")
                /\ Count(incentive', b, "withdraw")
                   <= Count(incentive, b, "withdraw") + Cardinality(Of(us, Len(us), b))
        BY <1>4, <2>1, <2>3, Rewarded
    <2>9. ASSUME NEW a \in Account
          PROVE  /\ Count(incentive', a, "deposit") <= Count(incentive, a, "deposit") + Cardinality(D[a])
                 /\ Count(incentive', a, "withdraw") <= Count(incentive, a, "withdraw") + Cardinality(W[a])
        <3>1. /\ Count(incentive, a, "deposit") \in Nat /\ Count(incentive, a, "withdraw") \in Nat
              /\ Count(incentive', a, "deposit") \in Nat /\ Count(incentive', a, "withdraw") \in Nat
            BY <1>4, <2>8, CountType DEF IncentiveOK, Kind
        <3>2. Cardinality(Of(us, Len(us), a)) \in Nat /\ Cardinality(W[a]) \in Nat
            BY <2>3, <2>7, OfGrows, FS_CardinalityType
        <3> QED BY <2>6, <2>7, <2>8, <3>1, <3>2
    <2>10. \A a \in Account : D[a] \subseteq Minted(a)' /\ D[a] \intersect Minted(a) = {}
        BY <2>6
    <2> QED BY <1>3, <2>5, <2>8, <2>9, <2>10, RewardsGrow
<1> QED BY <1>5, <1>6

\* The steps that leave x/incentive alone, but for its params.
LEMMA RewardsStay ==
    ASSUME IInv, OwedInv, RewardsInv, LedgerOK', RequestIsSeq', incentive' = incentive,
           minted \subseteq minted', RequestsKept, SigningKept
    PROVE  RewardsInv'
BY RewardsQuiet DEF RewardsInv

\* A transaction of the bridge is new, and nothing of the others changes.
LEMMA IssueRewards ==
    ASSUME IInv, OwedInv, RewardsInv, LedgerOK', RequestIsSeq', incentive' = incentive, RequestsKept,
           NEW ins, NEW outs, NEW edict, ins \subseteq index, IssueTransaction(ins, outs, edict)
    PROVE  RewardsInv'
<1>1. /\ Len(signing) \in Nat /\ DOMAIN signing = 1..Len(signing) /\ DOMAIN signing' = 1..(Len(signing) + 1)
      /\ \A i \in 1..Len(signing) : signing'[i] = signing[i]
      /\ minted \subseteq minted'
    BY Issued
<1>2. SigningKept
    BY <1>1 DEF SigningKept
<1> QED BY <1>1, <1>2, RewardsStay

\* A new withdrawal is not paid yet.
LEMMA NewRequestKept ==
    ASSUME OwedInv, NEW u, NEW a, NEW t, NewWithdrawRequest(u, a, t) PROVE RequestsKept
<1>1. /\ DOMAIN request = 1..Len(request) /\ Len(request) \in Nat
      /\ DOMAIN request' = 1..(Len(request) + 1)
      /\ \A r \in 1..Len(request) : request'[r] = request[r]
    BY RequestAdded
<1> QED BY <1>1 DEF RequestsKept

\* Consolidations and transfers are not rewarded.
LEMMA MoveRewards ==
    ASSUME IInv, OwedInv, RewardsInv, LedgerOK', RequestIsSeq', incentive' = incentive, request' = request,
           NEW asset, NEW S, NEW source, NEW dest, S \subseteq index, Transfer(asset, S, source, dest)
    PROVE  RewardsInv'
<1> DEFINE tx == TransferTx(asset, S, source, dest)
           outs == TransferOuts(asset, S, dest, tx)
<1>1. tx.ok /\ IssueTransaction(S \union tx.selected, outs, NoEdict)
    BY DEF Transfer
<1>2. S \union tx.selected \subseteq index
    BY <1>1, TransferFromIndex
<1>3. RequestsKept
    BY DEF RequestsKept
<1> HIDE DEF tx, outs
<1> QED BY <1>1, <1>2, <1>3, IssueRewards

\* At the start there are no rewards and nothing has left the account.
LEMMA InitRewards == Init => RewardsInv
<1> SUFFICES ASSUME Init PROVE RewardsInv
    OBVIOUS
<1>1. PICK p \in Rewarding : incentive = NewIncentive(p, Funds)
    BY DEF Init
<1> DEFINE r == incentive.rewards
           K == DOMAIN Funds
<1>2. /\ DOMAIN incentive = {"params", "funds", "rewards", "stats"} /\ incentive.params = p /\ incentive.funds = Funds
      /\ incentive.rewards = NoRewards
      /\ incentive.stats = [AddressCount |-> 0, TxCount |-> 0, TotalRewardAmount |-> 0]
    BY <1>1 DEF NewIncentive
<1>3. DOMAIN r = {} /\ Cardinality({}) = 0 /\ IsFiniteSet({})
    BY <1>2, FS_EmptySet DEF NoRewards
<1>4. RewardsOK(r)
    BY <1>3 DEF RewardsOK
<1>5. IsFiniteSet(K) /\ Funds \in [K -> Nat]
    BY RewardAssumption
<1>6. FundsOK(Funds)
    BY <1>5 DEF FundsOK
<1>7. SumFunction(Gone(Funds)) = 0
    <2>1. DOMAIN Gone(Funds) = K /\ \A d \in K : Gone(Funds)[d] = 0
        BY <1>5 DEF Gone
    <2> HIDE DEF K
    <2> QED BY <1>5, <2>1, SumZero DEF SumFunction
<1>8. SumFunction(Totals(r)) = 0 /\ SumFunction(Counts(r)) = 0
    <2>1. DOMAIN Totals(r) = {} /\ DOMAIN Counts(r) = {}
        BY <1>3 DEF Totals, Counts
    <2> HIDE DEF r
    <2> QED BY <1>3, <2>1, SumZero DEF SumFunction
<1>9. StatsOK(incentive.stats, r)
    BY <1>2, <1>3, <1>8 DEF StatsOK
<1>10. IncentiveOK(incentive)
    BY <1>2, <1>4, <1>6, <1>7, <1>8, <1>9 DEF IncentiveOK
<1>11. \A a, k : Count(incentive, a, k) = 0
    BY <1>3 DEF Count, HasRewards
<1>12. minted = {} /\ request = <<>>
    BY DEF Init
<1>13. \A a : Minted(a) = {} /\ Paid(a) = {}
    BY <1>12 DEF Minted, Paid
<1> HIDE DEF r
<1>14. \A a : Cardinality(Minted(a)) = 0 /\ Cardinality(Paid(a)) = 0
    BY <1>3, <1>13
<1>15. \A a \in Account : /\ Count(incentive, a, "deposit") <= Cardinality(Minted(a))
                          /\ Count(incentive, a, "withdraw") <= Cardinality(Paid(a))
    BY <1>11, <1>14
<1> QED BY <1>10, <1>15 DEF RewardsInv

\* The induction step of the rewards.
LEMMA NextRewards ==
    ASSUME IInv, StoreInv, OwedInv, Backed, RewardsInv, [Next]_vars PROVE RewardsInv'
<1>1. LedgerOK' /\ RequestIsSeq' /\ RequestsOK
    <2>1. OwedInv' /\ Backed'
        BY NextPaid, NextBacked
    <2> QED BY <2>1 DEF OwedInv, Backed, Typed
<1>2. ASSUME minted' = minted, signing' = signing, request' = request, incentive' = incentive PROVE RewardsInv'
    BY <1>1, <1>2, RewardsStay DEF RequestsKept, SigningKept
<1>3. ASSUME NEW t \in Transactions, SubmitDepositTransaction(t) PROVE RewardsInv'
    BY <1>1, <1>3, DepositRewards
<1>4. ASSUME NEW u, NEW a, NEW t, NewWithdrawRequest(u, a, t), minted' = minted, signing' = signing,
             incentive' = incentive
      PROVE  RewardsInv'
    BY <1>1, <1>4, NewRequestKept, RewardsStay DEF SigningKept
<1>5. ASSUME NEW u, NEW a, WithdrawBtc(u, a) PROVE RewardsInv'
    BY <1>4, <1>5 DEF WithdrawBtc, ledger, config
<1>6. ASSUME NEW u, NEW a, IBCReceivePacketCallback(u, a) PROVE RewardsInv'
    BY <1>2, <1>6 DEF IBCReceivePacketCallback, ledger, config
<1>7. ASSUME NEW u, NEW a, WithdrawRunes(u, a) PROVE RewardsInv'
    <2> DEFINE base == TargetRunesUTXOs(latest, a)
               outs == RunesOuts(u, a, Runes(base) - a)
               tx == BuildUnsignedTransaction(base, outs, latest)
    <2>1. /\ tx.ok /\ IssueTransaction(base \union tx.selected, WithChange(outs, tx, latest), [out |-> Len(outs), amount |-> a])
          /\ NewWithdrawRequest(u, a, NextTx) /\ incentive' = incentive
        BY <1>7 DEF WithdrawRunes, config
    <2>2. base \union tx.selected \subseteq index
        BY <2>1, BuiltFromIndex, RunesFromIndex
    <2>3. RequestsKept
        BY <2>1, NewRequestKept
    <2> HIDE DEF base, outs, tx
    <2> QED BY <1>1, <2>1, <2>2, <2>3, IssueRewards
<1>8. ASSUME NEW s \in DOMAIN signing, SubmitSignatures(s) PROVE RewardsInv'
    <2>1. /\ signing[s].status = "PENDING" /\ signing' = [signing EXCEPT ![s].status = "BROADCASTED"]
          /\ minted' = minted /\ request' = request /\ incentive' = incentive
        BY <1>8 DEF SubmitSignatures, withdrawals, config
    <2>2. "BROADCASTED" \in Status
        BY DEF Status
    <2>3. /\ DOMAIN signing' = DOMAIN signing
          /\ \A r \in DOMAIN signing \ {s} : signing'[r].status = signing[r].status
        BY <2>1, <2>2, StatusFields
    <2>4. SigningKept /\ RequestsKept
        BY <2>1, <2>3 DEF SigningKept, RequestsKept
    <2> QED BY <1>1, <2>1, <2>4, RewardsStay
<1>9. ASSUME NEW s \in DOMAIN signing, SubmitWithdrawTransaction(s) PROVE RewardsInv'
    BY <1>1, <1>9, ConfirmRewards
<1>10. ASSUME NEW r, SubmitFeeRate(r) PROVE RewardsInv'
    BY <1>2, <1>10 DEF SubmitFeeRate, ledger, withdrawals
<1>11. ASSUME NEW p, UpdateParams(p) PROVE RewardsInv'
    BY <1>2, <1>11 DEF UpdateParams, ledger, withdrawals
<1>12. ASSUME NEW p \in Rewarding, UpdateIncentiveParams(p) PROVE RewardsInv'
    <2>1. /\ incentive' = [incentive EXCEPT !.params = p] /\ minted' = minted /\ signing' = signing /\ request' = request
        BY <1>12 DEF UpdateIncentiveParams, ledger, withdrawals
    <2>2. IncentiveOK(incentive)
        BY DEF RewardsInv
    <2>3. /\ DOMAIN incentive' = DOMAIN incentive /\ incentive'.params = p /\ incentive'.funds = incentive.funds
          /\ incentive'.rewards = incentive.rewards /\ incentive'.stats = incentive.stats
        BY <2>1, <2>2 DEF IncentiveOK
    <2>4. IncentiveOK(incentive')
        BY <2>2, <2>3 DEF IncentiveOK
    <2>5. RequestsKept /\ SigningKept
        BY <2>1 DEF RequestsKept, SigningKept
    <2> QED BY <1>1, <2>1, <2>3, <2>4, <2>5, RewardsQuiet
<1>13. ASSUME NEW asset, NEW v, NEW w, NEW S, S \subseteq Unlocked(asset, v), Transfer(asset, S, v, w),
              UNCHANGED withdrawals, incentive' = incentive
       PROVE  RewardsInv'
    <2>1. S \subseteq index /\ request' = request
        BY <1>13 DEF Unlocked, withdrawals
    <2> QED BY <1>1, <1>13, <2>1, MoveRewards
<1>14. ASSUME NEW asset, NEW v, NEW th, NEW n, ConsolidateVaults(asset, v, th, n) PROVE RewardsInv'
    <2>1. PICK S : S \subseteq UnlockedUpTo(asset, v, th) /\ Transfer(asset, S, v, v)
        BY <1>14 DEF ConsolidateVaults, kSubset
    <2>2. S \subseteq Unlocked(asset, v)
        BY <2>1 DEF UnlockedUpTo
    <2> QED BY <1>13, <1>14, <2>1, <2>2 DEF ConsolidateVaults, config
<1>15. ASSUME NEW asset, NEW v, NEW w, NEW n, TransferVault(asset, v, w, n) PROVE RewardsInv'
    <2>1. PICK S : S \subseteq Unlocked(asset, v) /\ Transfer(asset, S, v, w)
        BY <1>15 DEF TransferVault, TransferChoice, kSubset
    <2> QED BY <1>13, <1>15, <2>1 DEF TransferVault, config
<1>16. ASSUME NEW asset, NEW v, NEW w, NEW ins \in SUBSET DOMAIN utxo, NEW r, TransferVaultPsbt(asset, v, w, ins, r)
       PROVE  RewardsInv'
    <2>1. PICK outs, edict : IssueTransaction(ins, outs, edict)
        BY <1>16 DEF TransferVaultPsbt
    <2>2. (\A o \in ins : ~utxo[o].locked) /\ request' = request /\ incentive' = incentive
        BY <1>16 DEF TransferVaultPsbt, withdrawals, config
    <2>3. ins \subseteq index
        BY <2>2 DEF StoreInv, SpendableIsConfirmed
    <2>4. RequestsKept
        BY <2>2 DEF RequestsKept
    <2> QED BY <1>1, <2>1, <2>2, <2>3, <2>4, IssueRewards
<1>17. ASSUME NEW x, NEW y, EndBlocker(x, y) PROVE RewardsInv'
    <2>1. UNCHANGED ledger /\ UNCHANGED withdrawals /\ incentive' = incentive
        BY <1>17, Zenon DEF EndBlocker
    <2> QED BY <1>2, <2>1 DEF ledger, withdrawals
<1>18. CASE HandleIBCWithdrawRequest
    <2>1. UNCHANGED ledger /\ incentive' = incentive
        BY <1>18 DEF HandleIBCWithdrawRequest, config
    <2>2. CASE request' = request
        BY <1>2, <2>1, <2>2 DEF ledger
    <2>3. CASE AcceptIBCWithdraw(packets[Head(todo)])
        <3>1. PICK u, a : NewWithdrawRequest(u, a, 0)
            BY <2>3 DEF AcceptIBCWithdraw
        <3> QED BY <1>4, <2>1, <3>1 DEF ledger
    <2> QED BY <1>18, <2>2, <2>3 DEF HandleIBCWithdrawRequest
<1>19. CASE HandleBtcWithdrawRequests
    <2>1. incentive' = incentive
        BY <1>19 DEF HandleBtcWithdrawRequests, config
    <2>2. CASE UNCHANGED <<ledger, request, queue, fees>>
        BY <1>2, <2>1, <2>2 DEF ledger
    <2>3. CASE /\ BatchIsDue(BatchTx)
               /\ IssueTransaction(BatchTx.selected, WithChange(BatchOuts, BatchTx, latest), NoEdict)
               /\ request' = [r \in DOMAIN request |->
                                 IF r \in Range(Batch) THEN [request[r] EXCEPT !.txid = NextTx] ELSE request[r]]
        <3>1. BatchTx.ok
            BY <2>3 DEF BatchIsDue
        <3>2. BatchTx.selected \subseteq index
            BY <3>1, BuiltFromIndex DEF BatchTx
        <3>3. \A r \in Range(Batch) : r \in queue
            BY BatchIs
        <3>4. \A r \in DOMAIN request : r \in queue => request[r].txid = 0
            BY DEF OwedInv, WithdrawalIsPaidOnce
        <3>5. RequestsKept
            BY <2>3, <3>3, <3>4 DEF RequestsKept
        <3> QED BY <1>1, <2>1, <2>3, <3>2, <3>5, IssueRewards
    <2> QED BY <1>19, <2>2, <2>3 DEF HandleBtcWithdrawRequests
<1>20. CASE HandleVaultTransfer
    <2>1. UNCHANGED withdrawals /\ incentive' = incentive
        BY <1>20 DEF HandleVaultTransfer, config
    <2>2. CASE UNCHANGED ledger
        BY <1>2, <2>1, <2>2 DEF ledger, withdrawals
    <2>3. CASE ~UNCHANGED ledger
        <3>1. PICK asset, v, S : S \in TransferChoice(asset, v, TargetNum) /\ Transfer(asset, S, v, latest)
            BY <1>20, <2>3 DEF HandleVaultTransfer
        <3>2. S \subseteq Unlocked(asset, v)
            BY <3>1 DEF TransferChoice, kSubset
        <3> QED BY <1>13, <2>1, <3>1, <3>2
    <2> QED BY <2>2, <2>3
<1>21. CASE NextBlock
    BY <1>2, <1>21 DEF NextBlock, ledger, withdrawals
<1>22. CASE UNCHANGED vars
    BY <1>2, <1>22 DEF vars
<1> QED BY <1>3, <1>5, <1>6, <1>7, <1>8, <1>9, <1>10, <1>11, <1>12, <1>14, <1>15, <1>16, <1>17, <1>18, <1>19, <1>20,
           <1>21, <1>22 DEF Next

\* Rewards are earned and recorded: nobody has more of them than deposits minted to them and
\* withdrawals of theirs that are confirmed, and what the records and the statistics say is what
\* left the account of x/incentive (AfterDeposit, AfterWithdraw, UpdateRewardStats).
THEOREM RewardsAreEarnedHolds == Spec => []RewardsAreEarned
<1> DEFINE I == IInv /\ StoreInv /\ OwedInv /\ Backed /\ RewardsInv
<1>1. I /\ [Next]_vars => I'
    BY NextInv, NextPaid, NextBacked, NextRewards
<1>2. Init => I
    BY InitInv, InitPaid, InitBacked, InitRewards
<1>3. I => RewardsAreEarned
    <2> SUFFICES ASSUME IncentiveOK(incentive), RewardsInv PROVE RewardsAreEarned
        BY DEF RewardsInv
    <2> DEFINE r == incentive.rewards
    <2>1. ASSUME NEW a \in DOMAIN r
          PROVE  /\ r[a].count.deposit <= Cardinality(Minted(a)) /\ r[a].count.withdraw <= Cardinality(Paid(a))
                 /\ r[a].TotalAmount = r[a].amount.deposit + r[a].amount.withdraw
        BY DEF RewardsInv, IncentiveOK, RewardsOK, Count, HasRewards
    <2>2. /\ SumOver(DOMAIN r, LAMBDA a : r[a].TotalAmount) = SumFunction(Totals(r))
          /\ SumOver(DOMAIN r, LAMBDA a : r[a].count.deposit + r[a].count.withdraw) = SumFunction(Counts(r))
          /\ SumOver(DOMAIN Funds, LAMBDA d : Funds[d] - incentive.funds[d]) = SumFunction(Gone(incentive.funds))
        BY DEF SumOver, Totals, Counts, Gone
    <2>3. \A d \in DOMAIN Funds : incentive.funds[d] \in 0..Funds[d]
        BY RewardAssumption DEF IncentiveOK, FundsOK
    <2>4. /\ SumFunction(Totals(r)) = SumFunction(Gone(incentive.funds))
          /\ incentive.stats = [AddressCount |-> Cardinality(DOMAIN r), TxCount |-> SumFunction(Counts(r)),
                                TotalRewardAmount |-> SumFunction(Totals(r))]
        BY DEF IncentiveOK, StatsOK
    <2> QED BY <2>1, <2>2, <2>3, <2>4 DEF RewardsAreEarned
<1> HIDE DEF I
<1> QED BY <1>1, <1>2, <1>3, PTL DEF Spec
=============================================================================
