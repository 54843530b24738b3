------------------------ MODULE BridgeVaults_proofs ------------------------
(***************************************************************************)
(* Theorems about module BridgeVaults, for any participants, key lists,    *)
(* vaults of the genesis file, parameters and any number of requests.      *)
(* What Tss_proofs shows of x/tss is instantiated for the requests of      *)
(* x/btcbridge: T is the instance that the model steps through, TP the one *)
(* that carries the theorems.  The last section is about the withdrawal    *)
(* rate limit of the same bridge, module RateLimit.                        *)
(***************************************************************************)
EXTENDS BridgeVaults, RateLimit, SequenceTheorems, FiniteSetTheorems, TLAPS

TP == INSTANCE Tss_proofs WITH DKGTimeoutDuration <- DkgTimeoutPeriod,
                               Timeout <- RefreshTimeout \cup {DkgTimeoutPeriod}, Repeats <- {0}

----------------------------------------------------------------------------
(* The two instances of Tss *)

\* Both instances count the members of a set alike.
LEMMA SameCardinality ==
    \A S : T!Cardinality(S) = Cardinality(S) /\ TP!Cardinality(S) = Cardinality(S)
<1>1. \A S : T!Cardinality(S) = Cardinality(S)
    BY SMT DEF T!Cardinality, Cardinality
<1>2. \A S : TP!Cardinality(S) = Cardinality(S)
    BY SMT DEF TP!Cardinality, Cardinality
<1> QED BY <1>1, <1>2

\* What Tss_proofs assumes of its constants holds of the constants of x/btcbridge.
LEMMA TssConstants ==
    /\ NoKey \notin Key
    /\ MaxDkg \in Nat /\ MaxRefresh \in Nat /\ MaxTime \in Nat
    /\ DkgTimeoutPeriod \in Nat \ {0} /\ (RefreshTimeout \cup {DkgTimeoutPeriod}) \subseteq Nat
    /\ {0} \subseteq Nat
    /\ MinDKGParticipantNum \in Nat /\ MinDKGThreshold \in Nat
    /\ TP!IsFiniteSet(Participant)
<1>1. \A S : TP!IsFiniteSet(S) <=> IsFiniteSet(S)
    BY SMT DEF TP!IsFiniteSet, IsFiniteSet
<1> QED BY <1>1, TssAssumption, BridgeVaultsAssumption

\* The instances agree on types.
LEMMA SameTypes == TP!TypeOK => T!TypeOK
    BY DEF TP!TypeOK, T!TypeOK, TP!DKGRequest, T!DKGRequest, TP!RefreshingRequest,
           T!RefreshingRequest, TP!DKGStatus, T!DKGStatus, TP!RefreshingStatus,
           T!RefreshingStatus, TP!DkgId, T!DkgId, TP!RefreshId, T!RefreshId

\* A step of the one instance is a step of the other.
LEMMA SameSteps == (T!Init => TP!Init) /\ ([T!Next]_(T!vars) => [TP!Next]_(TP!vars))
<1> USE SameCardinality
    DEF T!blockVars, TP!blockVars, T!dkgVars, TP!dkgVars, T!refreshVars, TP!refreshVars,
        T!DkgId, TP!DkgId, T!RefreshId, TP!RefreshId, T!IsFirst, TP!IsFirst,
        T!NoDKGRequest, TP!NoDKGRequest, T!NoRefreshingRequest, TP!NoRefreshingRequest,
        T!IsNextDKG, TP!IsNextDKG, T!IsNextRefreshing, TP!IsNextRefreshing,
        T!GetExpirationTime, TP!GetExpirationTime, T!DKGTimeout, TP!DKGTimeout,
        T!Expired, TP!Expired, T!InTime, TP!InTime,
        T!CheckDKGParticipantNum, TP!CheckDKGParticipantNum,
        T!CheckDKGThreshold, TP!CheckDKGThreshold,
        T!CompletedParticipants, TP!CompletedParticipants,
        T!CompletionsFull, TP!CompletionsFull, T!CheckDKGCompletions, TP!CheckDKGCompletions,
        T!GetRefreshingParticipants, TP!GetRefreshingParticipants,
        T!RefreshingCompletionsFull, TP!RefreshingCompletionsFull,
        T!PendingDKGRequests, TP!PendingDKGRequests, T!RemainingSuffices, TP!RemainingSuffices
<1>1. T!Init => TP!Init
    BY DEF T!Init, TP!Init
<1>2. ASSUME NEW d, NEW P, NEW threshold, NEW duration
      PROVE  T!RequestDKG(d, P, 0, threshold, duration) => TP!RequestDKG(d, P, 0, threshold, duration)
    BY DEF T!RequestDKG, TP!RequestDKG, T!InitiateDKG, TP!InitiateDKG
<1>3. ASSUME NEW d, NEW p, NEW k PROVE T!CompleteDKG(d, p, k) => TP!CompleteDKG(d, p, k)
    BY DEF T!CompleteDKG, TP!CompleteDKG
<1>4. ASSUME NEW r, NEW d, NEW P, NEW duration
      PROVE  T!Refresh(r, d, P, duration) => TP!Refresh(r, d, P, duration)
    BY DEF T!Refresh, TP!Refresh
<1>5. ASSUME NEW r, NEW p PROVE T!CompleteRefreshing(r, p) => TP!CompleteRefreshing(r, p)
    BY DEF T!CompleteRefreshing, TP!CompleteRefreshing
<1>6. ASSUME NEW d, NEW ok PROVE T!HandleDKGRequest(d, ok) => TP!HandleDKGRequest(d, ok)
    BY DEF T!HandleDKGRequest, TP!HandleDKGRequest
<1>7. ASSUME NEW r PROVE T!HandleRefreshingRequest(r) => TP!HandleRefreshingRequest(r)
    BY DEF T!HandleRefreshingRequest, TP!HandleRefreshingRequest
<1>8. /\ T!StartDKGRequests => TP!StartDKGRequests
      /\ T!StartRefreshingRequests => TP!StartRefreshingRequests
      /\ T!FinishEndBlocker => TP!FinishEndBlocker
      /\ T!NextBlock => TP!NextBlock
    BY DEF T!StartDKGRequests, TP!StartDKGRequests, T!StartRefreshingRequests,
           TP!StartRefreshingRequests, T!FinishEndBlocker, TP!FinishEndBlocker,
           T!NextBlock, TP!NextBlock
<1>9. T!Next => TP!Next
    BY ONLY <1>2, <1>3, <1>4, <1>5, <1>6, <1>7, <1>8, SameCardinality
       DEF T!Next, TP!Next, T!EndBlocker, TP!EndBlocker, T!DkgId, TP!DkgId, T!RefreshId, TP!RefreshId
<1> QED BY ONLY <1>1, <1>9 DEF T!vars, TP!vars

----------------------------------------------------------------------------
(* x/btcbridge drives key generations as x/tss does *)

\* Every step of x/btcbridge is a step of its requests or leaves them alone.
LEMMA RequestStep == [Next]_vars => [T!Next]_(T!vars)
<1> SUFFICES ASSUME [Next]_vars PROVE [T!Next]_(T!vars)
    OBVIOUS
<1> USE DEF T!DkgId, T!RefreshId, DkgId, RefreshId
<1>1. ASSUME NEW d \in DkgId, NEW P \in SUBSET Participant, NEW b \in BOOLEAN,
             NEW threshold \in 1..Cardinality(P), InitiateDKG(d, P, threshold, b)
      PROVE  T!Next
    <2>0. Cardinality(P) \in Nat
        BY TssAssumption, FS_Subset, FS_CardinalityType
    <2>1. T!RequestDKG(d, P, 0, threshold, DkgTimeoutPeriod)
        BY <1>1, <2>0, SameCardinality DEF InitiateDKG, ValidParticipants, T!RequestDKG
    <2>2. threshold \in 1..(T!Cardinality(P) + 0)
        BY <2>0, SameCardinality
    <2> QED BY <2>1, <2>2 DEF T!Next
<1>2. ASSUME NEW d \in DkgId, NEW p \in Participant, NEW k \in Key, CompleteDKG(d, p, k)
      PROVE  T!Next
    BY <1>2 DEF CompleteDKG, T!Next
<1>3. ASSUME NEW r \in RefreshId, NEW d \in DkgId, NEW P \in SUBSET Participant,
             NEW duration \in RefreshTimeout, Refresh(r, d, P, duration)
      PROVE  T!Next
    BY <1>3 DEF Refresh, T!Next
<1>4. ASSUME NEW r \in RefreshId, NEW p \in Participant, CompleteRefreshing(r, p)
      PROVE  T!Next
    BY <1>4 DEF CompleteRefreshing, T!Next
<1>5. ASSUME NEW d \in DkgId, HandleDKGRequest(d)
      PROVE  T!Next
    BY <1>5 DEF HandleDKGRequest, T!Next, T!EndBlocker
<1>6. ASSUME NEW r \in RefreshId, HandleRefreshingRequest(r)
      PROVE  T!Next
    BY <1>6 DEF HandleRefreshingRequest, T!Next, T!EndBlocker
<1>7. CASE BlockStep \/ NextBlock
    BY <1>7 DEF BlockStep, NextBlock, T!Next, T!EndBlocker
<1>8. ASSUME \/ Propose \/ \E list \in proposal : UpdateParams(list)
             \/ \E B \in Base : UpdateBase(B)
             \/ UNCHANGED vars
      PROVE  UNCHANGED T!vars
    BY <1>8 DEF Propose, UpdateParams, UpdateBase, vars, tssVars, T!vars
<1> QED BY <1>1, <1>2, <1>3, <1>4, <1>5, <1>6, <1>7, <1>8 DEF Next

\* The requests of x/btcbridge behave like those of module Tss: MsgInitiateDKG and MsgRefresh make
\* every check, and nothing else of the module touches the requests.
THEOREM TssSpecHolds == Spec => TssSpec
<1>1. Init => T!Init
    BY DEF Init
<1> QED BY <1>1, RequestStep, PTL DEF Spec, TssSpec, T!Spec

\* The invariant of Tss_proofs holds of the requests of x/btcbridge.
LEMMA RequestInvariant == Spec => []TP!IInv
<1>1. TssSpec => TP!Spec
    BY SameSteps, PTL DEF TssSpec, T!Spec, TP!Spec
<1>2. TP!Spec => []TP!IInv
    BY TP!Invariant, TssConstants
<1> QED BY <1>1, <1>2, TssSpecHolds, PTL
----------------------------------------------------------------------------
(* Versions.  The soundness of the versions is not inductive: a list that a  *)
(* proposal carries becomes the list of vaults, and a key generation makes   *)
(* the next version complete only if no list mentions that version yet.      *)

\* The vaults that the parameters or a proposal list.
VaultList == proposal \cup {vaults}

\* Nobody lists vaults of a version that does not exist yet.
NoFutureVaults ==
    \A list \in VaultList : \A i \in 1..Len(list) : list[i].version <= version

\* In every list each version is complete or missing.
ListsAreComplete ==
    \A list \in VaultList, v \in 1..version :
        \/ \A i \in 1..Len(list) : list[i].version # v
        \/ \E k \in Key : \A a \in Asset :
            \E i \in 1..Len(list) : list[i] = [address |-> Addresses[k][a], asset |-> a, version |-> v]

\* Types of what x/btcbridge keeps beside the requests.
ParamsTypeOK ==
    /\ vaults \in Seq(Vault) /\ version \in Nat /\ replaced \in 0..version
    /\ transfer \in [DkgId -> BOOLEAN] /\ base \in Base /\ proposal \subseteq Seq(Vault)

VInv == ParamsTypeOK /\ NoFutureVaults /\ ListsAreComplete /\ VersionsAreKept

\* The invariant holds of the genesis state, whose vaults are all of version 0.
LEMMA InitVersions == Init => VInv
<1> SUFFICES ASSUME Init PROVE VInv
    OBVIOUS
<1>1. GenesisVaults \in Seq(Vault)
    BY BridgeVaultsAssumption DEF Vault
<1>2. VaultList = {GenesisVaults} /\ version = 0 /\ replaced = 0
    BY DEF Init, VaultList
<1>3. ParamsTypeOK
    BY <1>1 DEF Init, ParamsTypeOK
<1>4. NoFutureVaults
    BY <1>2, BridgeVaultsAssumption DEF NoFutureVaults
<1>5. ListsAreComplete /\ VersionsAreKept
    BY <1>2 DEF ListsAreComplete, VersionsAreKept
<1> QED BY <1>3, <1>4, <1>5 DEF VInv

\* The keys that a completing key generation reports are a key list: each of its participants has
\* submitted one.
LEMMA CompletedWithKeys ==
    ASSUME TP!IInv, NEW d \in DkgId, HandleDKGRequest(d), dkg'[d].status = "COMPLETED",
           NEW p \in dkg[d].participants
    PROVE  completion[d][p] \in Key
<1>1. T!HandleDKGRequest(d, TRUE)
    BY DEF HandleDKGRequest
<1>2. T!Next
    BY <1>1 DEF T!Next, T!EndBlocker, DkgId, T!DkgId
<1>3. TP!IInv'
    BY <1>2, SameSteps, TP!InvariantStep, TssConstants
<1>4. completion' = completion /\ dkg'[d].participants = dkg[d].participants
    BY <1>1 DEF T!HandleDKGRequest, TP!IInv, TP!TypeOK, TP!DKGRequest, DkgId, TP!DkgId
<1>5. completion[d][p] # NoKey /\ p \in Participant
    BY <1>3, <1>4 DEF TP!IInv, TP!CompletedUnanimous, TP!CompletedParticipants, DkgId, TP!DkgId
<1>6. completion[d][p] \in Key \cup {NoKey}
    BY <1>5 DEF TP!IInv, TP!TypeOK, DkgId, TP!DkgId
<1> QED BY <1>5, <1>6

\* A new version on top of a list leaves the vaults of the list in place and is complete.
LEMMA NewVersion ==
    ASSUME NEW list \in Seq(Vault), NEW k \in Key, NEW v \in Nat
    PROVE  LET new == list \o NewVaults(k, v) IN
           /\ new \in Seq(Vault)
           /\ Len(new) = Len(list) + 2
           /\ \A i \in 1..Len(list) : new[i] = list[i]
           /\ \A i \in (Len(list) + 1)..Len(new) : new[i].version = v
           /\ \A a \in Asset : \E i \in (Len(list) + 1)..Len(new) :
                new[i] = [address |-> Addresses[k][a], asset |-> a, version |-> v]
<1> DEFINE new == list \o NewVaults(k, v)
<1>1. /\ NewVaults(k, v) \in Seq(Vault) /\ Len(NewVaults(k, v)) = 2
      /\ NewVaults(k, v)[1] = [address |-> Addresses[k]["BTC"], asset |-> "BTC", version |-> v]
      /\ NewVaults(k, v)[2] = [address |-> Addresses[k]["RUNES"], asset |-> "RUNES", version |-> v]
    <2>1. AssetTypes[1] = "BTC" /\ AssetTypes[2] = "RUNES"
        BY DEF AssetTypes
    <2>2. \A i \in 1..2 : [address |-> Addresses[k][AssetTypes[i]], asset |-> AssetTypes[i],
                           version |-> v] \in Vault
        BY <2>1, BridgeVaultsAssumption DEF Vault, Asset
    <2> QED BY <2>1, <2>2 DEF NewVaults
<1>2. /\ new \in Seq(Vault) /\ Len(new) = Len(list) + 2 /\ Len(list) \in Nat
      /\ \A i \in 1..(Len(list) + 2) :
            new[i] = IF i <= Len(list) THEN list[i] ELSE NewVaults(k, v)[i - Len(list)]
    <2>1. /\ list \o NewVaults(k, v) \in Seq(Vault)
          /\ Len(list \o NewVaults(k, v)) = Len(list) + Len(NewVaults(k, v))
          /\ \A i \in 1..(Len(list) + Len(NewVaults(k, v))) :
                (list \o NewVaults(k, v))[i] =
                    IF i <= Len(list) THEN list[i] ELSE NewVaults(k, v)[i - Len(list)]
        BY <1>1, ConcatProperties, Zenon
    <2>2. Len(list) \in Nat
        OBVIOUS
    <2> QED BY <1>1, <2>1, <2>2, Zenon
<1>3. \A i \in 1..Len(list) : new[i] = list[i]
    BY <1>2
<1>4. /\ new[Len(list) + 1] = [address |-> Addresses[k]["BTC"], asset |-> "BTC", version |-> v]
      /\ new[Len(list) + 2] = [address |-> Addresses[k]["RUNES"], asset |-> "RUNES", version |-> v]
    <2>1. /\ new[Len(list) + 1] = NewVaults(k, v)[Len(list) + 1 - Len(list)]
          /\ new[Len(list) + 2] = NewVaults(k, v)[Len(list) + 2 - Len(list)]
        BY <1>2
    <2>2. Len(list) + 1 - Len(list) = 1 /\ Len(list) + 2 - Len(list) = 2
        BY <1>2
    <2> QED BY <1>1, <2>1, <2>2
<1>5. \A i : i \in (Len(list) + 1)..Len(new) <=> i = Len(list) + 1 \/ i = Len(list) + 2
    BY <1>2
<1>6. \A i \in (Len(list) + 1)..Len(new) : new[i].version = v
    <2> HIDE DEF new
    <2> SUFFICES ASSUME NEW i \in (Len(list) + 1)..Len(new) PROVE new[i].version = v
        OBVIOUS
    <2>1. i = Len(list) + 1 \/ i = Len(list) + 2
        BY ONLY <1>5, i \in (Len(list) + 1)..Len(new)
    <2> QED BY ONLY <1>4, <2>1
<1>7. \A a \in Asset : \E i \in (Len(list) + 1)..Len(new) :
            new[i] = [address |-> Addresses[k][a], asset |-> a, version |-> v]
    <2>1. ASSUME NEW a \in Asset
          PROVE  \E i \in (Len(list) + 1)..Len(new) :
                    new[i] = [address |-> Addresses[k][a], asset |-> a, version |-> v]
        <3> HIDE DEF new
        <3>1. CASE a = "BTC"
            BY ONLY <1>4, <1>5, <3>1
        <3>2. CASE a = "RUNES"
            BY ONLY <1>4, <1>5, <3>2
        <3> QED BY <3>1, <3>2 DEF Asset
    <2> QED BY <2>1
<1> QED BY <1>2, <1>3, <1>6, <1>7, Zenon
\* A completed key generation adds its keys as the next version.
LEMMA NewVersionStep ==
    ASSUME VInv, NEW k \in Key, UpdateVaults(k), UNCHANGED <<proposal, replaced, transfer, base>>
    PROVE  VInv'
<1>1. /\ vaults \in Seq(Vault) /\ version \in Nat /\ proposal \subseteq Seq(Vault)
      /\ replaced \in 0..version
    BY DEF VInv, ParamsTypeOK
<1>2. /\ version' = version + 1 /\ proposal' = proposal /\ replaced' = replaced
      /\ vaults' = vaults \o NewVaults(k, version + 1)
    BY DEF UpdateVaults
<1>3. /\ vaults' \in Seq(Vault)
      /\ Len(vaults') = Len(vaults) + 2
      /\ \A i \in 1..Len(vaults) : vaults'[i] = vaults[i]
      /\ \A i \in (Len(vaults) + 1)..Len(vaults') : vaults'[i].version = version + 1
      /\ \A a \in Asset : \E i \in (Len(vaults) + 1)..Len(vaults') :
            vaults'[i] = [address |-> Addresses[k][a], asset |-> a, version |-> version + 1]
    <2>1. version + 1 \in Nat
        BY <1>1
    <2> DEFINE new == vaults \o NewVaults(k, version + 1)
    <2>2. /\ new \in Seq(Vault)
          /\ Len(new) = Len(vaults) + 2
          /\ \A i \in 1..Len(vaults) : new[i] = vaults[i]
          /\ \A i \in (Len(vaults) + 1)..Len(new) : new[i].version = version + 1
          /\ \A a \in Asset : \E i \in (Len(vaults) + 1)..Len(new) :
                new[i] = [address |-> Addresses[k][a], asset |-> a, version |-> version + 1]
        BY <1>1, <2>1, NewVersion, Zenon
    <2> QED BY <1>2, <2>2, Zenon
<1>4. /\ Len(vaults) \in Nat
      /\ \A i \in 1..Len(vaults) : i \in 1..Len(vaults')
      /\ \A i \in (Len(vaults) + 1)..Len(vaults') : i \in 1..Len(vaults')
      /\ \A i \in 1..Len(vaults') : i \in 1..Len(vaults) \/ i \in (Len(vaults) + 1)..Len(vaults')
    BY <1>1, <1>3
<1>5. \A list \in proposal \cup {vaults} : \A i \in 1..Len(list) :
            list[i].version \in Nat /\ list[i].version <= version
    <2>1. \A list \in proposal \cup {vaults} : \A i \in 1..Len(list) : list[i] \in Vault
        BY <1>1
    <2> QED BY <2>1 DEF VInv, NoFutureVaults, VaultList, Vault
<1>6. ParamsTypeOK'
    BY <1>1, <1>2, <1>3 DEF VInv, ParamsTypeOK
<1>7. NoFutureVaults'
    <2>1. ASSUME NEW list \in VaultList', NEW i \in 1..Len(list)
          PROVE  list[i].version <= version'
        <3>1. \A n \in Nat : n <= version => n <= version'
            <4>1. version \in Nat /\ version' = version + 1
                BY <1>1, <1>2, Zenon
            <4> QED BY ONLY <4>1
        <3>2. CASE list \in proposal
            BY <1>5, <2>1, <3>1, <3>2, Zenon
        <3>3. CASE list = vaults'
            <4>1. CASE i \in 1..Len(vaults)
                BY <1>3, <1>5, <3>1, <3>3, <4>1, Zenon
            <4>2. CASE i \in (Len(vaults) + 1)..Len(vaults')
                <5>1. list[i].version = version'
                    BY <1>2, <1>3, <3>3, <4>2, Zenon
                <5>2. version' \in Nat
                    BY <1>1, <1>2
                <5> QED BY ONLY <5>1, <5>2
            <4> QED BY <1>4, <2>1, <3>3, <4>1, <4>2, Zenon
        <3> QED BY <1>2, <2>1, <3>2, <3>3, Zenon DEF VaultList
    <2> QED BY <2>1 DEF NoFutureVaults
<1>8. ListsAreComplete'
    <2> DEFINE Complete(list, v) ==
                \/ \A i \in 1..Len(list) : list[i].version # v
                \/ \E l \in Key : \A a \in Asset : \E i \in 1..Len(list) :
                        list[i] = [address |-> Addresses[l][a], asset |-> a, version |-> v]
    <2>1. \A list \in proposal \cup {vaults}, v \in 1..version : Complete(list, v)
        BY DEF VInv, ListsAreComplete, VaultList
    <2>2. ASSUME NEW v \in 1..version' PROVE v \in 1..version \/ v = version + 1
        BY <1>1, <1>2
    <2>3. ASSUME NEW list \in proposal PROVE Complete(list, version + 1)
        BY <1>1, <1>5
    <2>4. ASSUME NEW v \in 1..version PROVE Complete(vaults', v)
        <3>1. CASE \A i \in 1..Len(vaults) : vaults[i].version # v
            BY <1>1, <1>3, <1>4, <3>1
        <3>2. CASE \E l \in Key : \A a \in Asset : \E i \in 1..Len(vaults) :
                    vaults[i] = [address |-> Addresses[l][a], asset |-> a, version |-> v]
            BY <1>3, <1>4, <3>2
        <3> QED BY <2>1, <3>1, <3>2
    <2>5. Complete(vaults', version + 1)
        <3>1. \A a \in Asset : \E i \in 1..Len(vaults') :
                    vaults'[i] = [address |-> Addresses[k][a], asset |-> a, version |-> version + 1]
            BY <1>3, <1>4, Zenon
        <3> QED BY <3>1, Zenon
    <2>6. \A list \in proposal \cup {vaults'}, v \in 1..version' : Complete(list, v)
        <3> HIDE DEF Complete
        <3>1. ASSUME NEW list \in proposal, NEW v \in 1..version' PROVE Complete(list, v)
            BY <2>1, <2>2, <2>3, Zenon
        <3>2. ASSUME NEW v \in 1..version' PROVE Complete(vaults', v)
            <4>1. CASE v \in 1..version
                BY <2>4, <4>1, Zenon
            <4>2. CASE v = version + 1
                BY <2>5, <4>2, Zenon
            <4> QED BY <2>2, <4>1, <4>2, Zenon
        <3> QED BY <3>1, <3>2, Zenon
    <2>7. VaultList' = proposal \cup {vaults'}
        BY <1>2, Zenon DEF VaultList
    <2> QED BY <2>6, <2>7, Zenon DEF ListsAreComplete
<1>9. VersionsAreKept'
    <2>1. ASSUME NEW v \in (replaced + 1)..version PROVE HasVaults(v)'
        <3>1. \A a \in Asset : \E i \in 1..Len(vaults) : vaults[i].asset = a /\ vaults[i].version = v
            BY DEF VInv, VersionsAreKept, HasVaults
        <3> QED BY <1>3, <1>4, <3>1 DEF HasVaults
    <2>2. HasVaults(version)'
        <3>1. \A a \in Asset : \E i \in 1..Len(vaults') :
                    vaults'[i].asset = a /\ vaults'[i].version = version + 1
            <4> TAKE a \in Asset
            <4>1. PICK i \in (Len(vaults) + 1)..Len(vaults') :
                    vaults'[i] = [address |-> Addresses[k][a], asset |-> a, version |-> version + 1]
                BY <1>3
            <4>2. i \in 1..Len(vaults') /\ vaults'[i].asset = a /\ vaults'[i].version = version + 1
                BY <1>4, <4>1
            <4> QED BY <4>2
        <3> QED BY <1>2, <3>1 DEF HasVaults
    <2>3. \A v \in (replaced' + 1)..version' : v \in (replaced + 1)..version \/ v = version'
        BY <1>1, <1>2
    <2> QED BY <2>1, <2>2, <2>3 DEF VersionsAreKept
<1> QED BY <1>6, <1>7, <1>8, <1>9 DEF VInv

\* Nothing changes the lists and the version but the end blocker, the proposals and the updates of
\* the parameters.
LEMMA VersionsFrame ==
    ASSUME VInv, UNCHANGED paramVars, transfer' \in [DkgId -> BOOLEAN], base' \in Base
    PROVE  VInv'
<1>1. UNCHANGED <<vaults, version, proposal, replaced>>
    BY DEF paramVars
<1>2. VaultList' = VaultList
    BY <1>1 DEF VaultList
<1>3. ParamsTypeOK'
    BY <1>1 DEF VInv, ParamsTypeOK
<1>4. NoFutureVaults' /\ ListsAreComplete'
    BY <1>1, <1>2 DEF VInv, NoFutureVaults, ListsAreComplete
<1>5. VersionsAreKept'
    BY <1>1 DEF VInv, VersionsAreKept, HasVaults
<1> QED BY <1>3, <1>4, <1>5 DEF VInv

\* A proposal carries the vaults of its time, and when it passes they become the vaults.
LEMMA ProposalStep ==
    ASSUME VInv, Propose \/ \E list \in proposal : UpdateParams(list)
    PROVE  VInv'
<1>1. /\ VaultList' \subseteq VaultList
      /\ version' = version /\ UNCHANGED <<transfer, base>>
    BY DEF Propose, UpdateParams, VaultList
<1>2. ParamsTypeOK'
    BY DEF Propose, UpdateParams, VInv, ParamsTypeOK
<1>3. NoFutureVaults' /\ ListsAreComplete'
    BY <1>1 DEF VInv, NoFutureVaults, ListsAreComplete
<1>4. VersionsAreKept'
    <2>1. CASE Propose
        BY <2>1 DEF Propose, VInv, VersionsAreKept, HasVaults
    <2>2. CASE \E list \in proposal : UpdateParams(list)
        <3>1. replaced' = version /\ version' = version /\ version \in Nat
            BY <2>2 DEF UpdateParams, VInv, ParamsTypeOK
        <3> QED BY <3>1 DEF VersionsAreKept
    <2> QED BY <2>1, <2>2
<1> QED BY <1>2, <1>3, <1>4 DEF VInv

\* Every step preserves the invariant, given that the requests behave as those of x/tss.
LEMMA VersionsStep == TP!IInv /\ VInv /\ [Next]_vars => VInv'
<1> SUFFICES ASSUME TP!IInv, VInv, [Next]_vars PROVE VInv'
    OBVIOUS
<1>1. transfer \in [DkgId -> BOOLEAN] /\ base \in Base
    BY DEF VInv, ParamsTypeOK
<1>2. ASSUME NEW d \in DkgId, NEW P \in SUBSET Participant, NEW b \in BOOLEAN,
             NEW threshold \in 1..Cardinality(P), InitiateDKG(d, P, threshold, b)
      PROVE  VInv'
    BY <1>1, <1>2, VersionsFrame DEF InitiateDKG
<1>3. ASSUME NEW d \in DkgId, HandleDKGRequest(d)
      PROVE  VInv'
    <2>1. CASE dkg'[d].status = "COMPLETED"
        <3>1. PICK p \in dkg[d].participants : UpdateVaults(completion[d][p])
            BY <1>3, <2>1 DEF HandleDKGRequest
        <3>2. completion[d][p] \in Key
            BY <1>3, <2>1, CompletedWithKeys
        <3> QED BY <1>3, <3>1, <3>2, NewVersionStep DEF HandleDKGRequest
    <2>2. CASE dkg'[d].status # "COMPLETED"
        BY <1>1, <1>3, <2>2, VersionsFrame DEF HandleDKGRequest, paramVars
    <2> QED BY <2>1, <2>2
<1>4. ASSUME NEW d \in DkgId, NEW p \in Participant, NEW k \in Key, CompleteDKG(d, p, k)
      PROVE  VInv'
    BY <1>1, <1>4, VersionsFrame DEF CompleteDKG
<1>5. ASSUME NEW r \in RefreshId, NEW d \in DkgId, NEW P \in SUBSET Participant,
             NEW duration \in RefreshTimeout, Refresh(r, d, P, duration)
      PROVE  VInv'
    BY <1>1, <1>5, VersionsFrame DEF Refresh
<1>6. ASSUME NEW r \in RefreshId,
             HandleRefreshingRequest(r) \/ \E p \in Participant : CompleteRefreshing(r, p)
      PROVE  VInv'
    BY <1>1, <1>6, VersionsFrame DEF HandleRefreshingRequest, CompleteRefreshing
<1>7. CASE Propose \/ \E list \in proposal : UpdateParams(list)
    BY <1>7, ProposalStep
<1>8. ASSUME \/ \E B \in Base : UpdateBase(B)
             \/ BlockStep \/ NextBlock \/ UNCHANGED vars
      PROVE  VInv'
    BY <1>1, <1>8, VersionsFrame DEF UpdateBase, BlockStep, NextBlock, vars
<1> QED BY <1>2, <1>3, <1>4, <1>5, <1>6, <1>7, <1>8 DEF Next

\* Versions of the vaults are created whole, from the keys of one key generation, and stay, also
\* when a proposal brings back an older list (UpdateVaults, MsgUpdateParams).
THEOREM VersionsAreSoundHolds == Spec => []VersionsAreSound
<1>1. TP!IInv /\ VInv => VersionsAreSound
    BY SameTypes DEF TP!IInv, VInv, ParamsTypeOK, ListsAreComplete, VaultList, VersionsAreSound,
                TypeOK, VersionsAreComplete
<1> QED BY <1>1, InitVersions, VersionsStep, RequestInvariant, PTL DEF Spec
\* What is proved of the requests of x/tss holds of those of x/btcbridge: a key generation of vaults
\* completes only with the same keys of all its participants and times out only for want of an
\* answer, and its refreshings take effect for good (handleDKGRequests, handleRefreshingRequests).
THEOREM RequestsAreSound == Spec => [](T!ResolutionIsJustified /\ T!RefreshingIsSound)
<1> USE DEF TP!DkgId, T!DkgId, TP!RefreshId, T!RefreshId
<1>1. TP!ResolutionIsJustified => T!ResolutionIsJustified
    BY SameTypes
       DEF TP!ResolutionIsJustified, T!ResolutionIsJustified,
           TP!CompletedUnanimous, T!CompletedUnanimous, TP!TimeoutHasAbsentee,
           T!TimeoutHasAbsentee, TP!CompletedParticipants, T!CompletedParticipants,
           TP!AbsentParticipants, T!AbsentParticipants
<1>2. TP!RefreshingIsSound => T!RefreshingIsSound
    BY SameCardinality
       DEF TP!RefreshingIsSound, T!RefreshingIsSound, TP!RemovedStayRemoved, T!RemovedStayRemoved,
           TP!SoleRefreshingIsSafe, T!SoleRefreshingIsSafe, TP!SameDKG, T!SameDKG
<1>3. TP!IInv => TP!ResolutionIsJustified /\ TP!RefreshingIsSound
    BY DEF TP!IInv, TP!ResolutionIsJustified, TP!RefreshingIsSound
<1> QED BY <1>1, <1>2, <1>3, RequestInvariant, PTL

----------------------------------------------------------------------------
(* The rate limit of withdrawals, for every set of users, amounts and
   parameters: an epoch lets out no more than its quota, in total and per
   address. *)

USE DEF ValidParams

\* What the global limit keeps: the withdrawals of the epoch are charged, and charged only
\* within a quota of the epoch.
GlobalInv ==
    /\ out <= global.used
    /\ cap # 0 => global.used <= cap /\ global.quota # 0 /\ global.quota <= cap

\* The same for every address.
AddressInv ==
    /\ \A u \in User : outOf[u] <= used[u] /\ (capOf # 0 => used[u] <= capOf)
    /\ capOf # 0 => address.quota # 0 /\ address.quota <= capOf

\* A record that is missing limits nothing.
AbsentInv == status = "absent" => global.quota = 0 /\ address.quota = 0

LimitsInv == LimitTypeOK /\ GlobalInv /\ AddressInv /\ AbsentInv

\* A percentage of a supply is a natural number.
LEMMA QuotaType == ASSUME NEW n \in Nat, NEW p \in Nat PROVE (n * p) \div 100 \in Nat
<1>1. n * p \in Nat OBVIOUS
<1>2. ASSUME NEW k \in Nat PROVE k \div 100 \in Nat BY SMT
<1> QED BY <1>1, <1>2

\* The first element of a queue and the others.
LEMMA FirstAndRest == ASSUME NEW S, NEW q \in Seq(S), q # <<>> PROVE Head(q) \in S /\ Tail(q) \in Seq(S)
OBVIOUS

\* The quota that a step computes is a natural number.
LEMMA GlobalQuotaType == ASSUME LimitTypeOK, NEW p \in Params PROVE GlobalQuota(p) \in Nat
<1>1. supply \in Nat BY DEF LimitTypeOK
<1>2. p.percentage \in 1..100 BY RateLimitAssumption
<1>3. p.percentage \in Nat BY <1>2
<1> QED BY <1>1, <1>3, QuotaType DEF GlobalQuota

\* New epochs have their types.
LEMMA NewLimits ==
    ASSUME LimitTypeOK
    PROVE  /\ NewGlobalRateLimit \in [quota : Nat, used : Nat, end : Nat] /\ NewGlobalRateLimit.used = 0
           /\ NewAddressRateLimit \in [quota : Nat, end : Nat]
<1>1. params \in Params /\ clock \in Nat BY DEF LimitTypeOK
<1>2. GlobalQuota(params) \in Nat BY <1>1, GlobalQuotaType
<1>3. params.period \in Nat /\ params.addressPeriod \in Nat /\ params.addressQuota \in Nat
  BY <1>1, RateLimitAssumption
<1> QED BY <1>1, <1>2, <1>3 DEF NewGlobalRateLimit, NewAddressRateLimit

\* A withdrawal that HandleRateLimit lets through keeps the invariant (WithdrawToBitcoin and
\* handleIBCWithdrawRequests).
LEMMA WithdrawalStep ==
    ASSUME LimitsInv, NEW u \in User, NEW a \in Amount, HandleRateLimit(u, a), Burn(u, a),
           UNCHANGED <<clock, params, stage>>, queue' \in Seq([user : User, amount : Amount])
    PROVE  LimitsInv'
<1> USE DEF LimitsInv
<1>0. /\ CheckRateLimit(u, a) /\ status' = "present" /\ address' = address
      /\ global' = [global EXCEPT !.used = global.used + a]
      /\ used' = [used EXCEPT ![u] = used[u] + a] /\ outOf' = [outOf EXCEPT ![u] = outOf[u] + a]
      /\ supply >= a /\ supply' = supply - a /\ out' = out + a /\ UNCHANGED <<cap, capOf, peak>>
  BY DEF HandleRateLimit, UpdateRateLimitUsedQuotas, Burn
<1>1. a \in Nat BY RateLimitAssumption
<1>2. /\ global \in [quota : Nat, used : Nat, end : Nat] /\ address \in [quota : Nat, end : Nat]
      /\ used \in [User -> Nat] /\ outOf \in [User -> Nat] /\ out \in Nat /\ cap \in Nat /\ capOf \in Nat
      /\ supply \in Nat /\ status \in {"absent", "present"}
  BY DEF LimitTypeOK
<1>3. /\ global' \in [quota : Nat, used : Nat, end : Nat] /\ global'.used = global.used + a
      /\ global'.quota = global.quota
  <2>1. global.used + a \in Nat BY <1>1, <1>2
  <2> QED BY <1>0, <1>2, <2>1
<1>4. /\ used' \in [User -> Nat] /\ outOf' \in [User -> Nat] /\ out' \in Nat /\ supply' \in Nat
  <2>1. used[u] + a \in Nat /\ outOf[u] + a \in Nat BY <1>1, <1>2
  <2>2. out' \in Nat /\ supply' \in Nat
    <3>1. /\ supply >= a /\ supply' = supply - a /\ out' = out + a
          /\ supply \in Nat /\ out \in Nat
      BY ONLY <1>0, <1>2, Zenon
    <3> QED BY ONLY <1>1, <3>1
  <2>3. /\ used' = [used EXCEPT ![u] = used[u] + a] /\ outOf' = [outOf EXCEPT ![u] = outOf[u] + a]
        /\ used \in [User -> Nat] /\ outOf \in [User -> Nat]
    BY ONLY <1>0, <1>2, Zenon
  <2> QED BY ONLY <2>1, <2>2, <2>3
<1>5. LimitTypeOK' BY <1>0, <1>3, <1>4 DEF LimitTypeOK
<1>6. cap # 0 => global.used + a <= cap
  <2> SUFFICES ASSUME cap # 0 PROVE global.used + a <= cap OBVIOUS
  <2>1. global.quota # 0 /\ global.quota <= cap BY DEF GlobalInv
  <2>2. status = "present" BY <1>2, <2>1 DEF AbsentInv
  <2>3. global.used + a <= global.quota BY <1>0, <2>1, <2>2 DEF CheckRateLimit, CheckGlobalRateLimit
  <2> QED BY <1>1, <1>2, <2>1, <2>3
<1>7. capOf # 0 => used[u] + a <= capOf
  <2> SUFFICES ASSUME capOf # 0 PROVE used[u] + a <= capOf OBVIOUS
  <2>1. address.quota # 0 /\ address.quota <= capOf BY DEF AddressInv
  <2>2. status = "present" BY <1>2, <2>1 DEF AbsentInv
  <2>3. used[u] + a <= address.quota BY <1>0, <2>1, <2>2 DEF CheckRateLimit, CheckAddressRateLimit
  <2>4. used[u] \in Nat /\ address.quota \in Nat BY <1>2
  <2> QED BY <1>1, <1>2, <2>1, <2>3, <2>4
<1>8. GlobalInv'
  <2>1. out <= global.used /\ (cap # 0 => global.quota # 0 /\ global.quota <= cap) BY DEF GlobalInv
  <2>2. global.used \in Nat BY <1>2
  <2>3. out' <= global'.used
    <3>1. out' = out + a /\ out \in Nat /\ global'.used = global.used + a
      BY ONLY <1>0, <1>2, <1>3, Zenon
    <3> QED BY ONLY <1>1, <2>1, <2>2, <3>1
  <2> QED BY <1>0, <1>1, <1>2, <1>3, <1>6, <2>1, <2>3 DEF GlobalInv
<1>9. AddressInv'
  <2>1. capOf # 0 => address.quota # 0 /\ address.quota <= capOf BY DEF AddressInv
  <2>2. ASSUME NEW v \in User PROVE outOf'[v] <= used'[v] /\ (capOf # 0 => used'[v] <= capOf)
    <3>1. outOf[v] \in Nat /\ used[v] \in Nat BY <1>2
    <3>2. outOf[v] <= used[v] /\ (capOf # 0 => used[v] <= capOf) BY DEF AddressInv
    <3>3. CASE v = u
      <4>1. outOf'[v] = outOf[v] + a /\ used'[v] = used[v] + a
        <5>1. /\ used' = [used EXCEPT ![u] = used[u] + a] /\ outOf' = [outOf EXCEPT ![u] = outOf[u] + a]
              /\ used \in [User -> Nat] /\ outOf \in [User -> Nat]
          BY ONLY <1>0, <1>2, Zenon
        <5> QED BY ONLY <3>3, <5>1
      <4> QED BY ONLY <1>1, <1>7, <3>1, <3>2, <3>3, <4>1
    <3>4. CASE v # u BY <1>0, <1>2, <3>2, <3>4
    <3> QED BY <3>3, <3>4
  <2> QED BY <1>0, <2>1, <2>2 DEF AddressInv
<1>10. AbsentInv' BY <1>0 DEF AbsentInv
<1> QED BY <1>5, <1>8, <1>9, <1>10

\* The invariant holds initially.
LEMMA InitLimits == LimitInit => LimitsInv
<1> SUFFICES ASSUME LimitInit PROVE LimitsInv OBVIOUS
<1>1. clock \in Nat /\ supply \in Nat /\ params \in Params /\ status \in {"absent", "present"}
  BY RateLimitAssumption DEF LimitInit
<1>2. GlobalQuota(params) \in Nat
  <2>1. params.percentage \in Nat BY <1>1, RateLimitAssumption
  <2> QED BY <1>1, <2>1, QuotaType DEF GlobalQuota
<1>3. params.period \in Nat /\ params.addressPeriod \in Nat /\ params.addressQuota \in Nat
  BY <1>1, RateLimitAssumption
<1>4. global \in [quota : Nat, used : Nat, end : Nat] /\ global.used = 0 /\ address \in [quota : Nat, end : Nat]
  BY <1>1, <1>2, <1>3 DEF LimitInit, NewGlobalRateLimit, NewAddressRateLimit
<1>5. status = "absent" => global.quota = 0 /\ address.quota = 0 BY DEF LimitInit
<1>6. LimitTypeOK BY <1>1, <1>4 DEF LimitInit, LimitTypeOK, NoUse
<1>7. GlobalInv /\ AddressInv BY <1>4 DEF LimitInit, GlobalInv, AddressInv, NoUse
<1> QED BY <1>5, <1>6, <1>7 DEF LimitsInv, AbsentInv

\* A change of the parameters keeps the invariant: the cap follows the quota.
LEMMA QuotasStep == ASSUME LimitsInv, NEW p \in Params, UpdateLimitParams(p) PROVE LimitsInv'
<1> USE DEF LimitsInv, UpdateLimitParams
<1>1. GlobalQuota(p) \in Nat /\ p.addressQuota \in Nat
  <2>1. GlobalQuota(p) \in Nat BY GlobalQuotaType
  <2>2. p.addressQuota \in Nat BY RateLimitAssumption
  <2> QED BY <2>1, <2>2
<1>2. global' \in [quota : Nat, used : Nat, end : Nat] /\ global'.used = global.used /\ address' \in [quota : Nat, end : Nat]
  <2>1. CASE status = "present"
    <3>1. /\ global' = [global EXCEPT !.quota = GlobalQuota(p)] /\ address' = [address EXCEPT !.quota = p.addressQuota]
          /\ global \in [quota : Nat, used : Nat, end : Nat] /\ address \in [quota : Nat, end : Nat]
      BY <2>1, Zenon DEF LimitTypeOK
    <3> QED BY ONLY <1>1, <3>1
  <2>2. CASE status # "present"
    <3>1. /\ global' = global /\ address' = address
          /\ global \in [quota : Nat, used : Nat, end : Nat] /\ address \in [quota : Nat, end : Nat]
      BY <2>2, Zenon DEF LimitTypeOK
    <3> QED BY ONLY <3>1
  <2> QED BY <2>1, <2>2
<1>3. /\ cap' \in Nat /\ (cap' # 0 => cap # 0 /\ cap' >= cap /\ global'.quota # 0 /\ cap' >= global'.quota)
      /\ capOf' \in Nat /\ (capOf' # 0 => capOf # 0 /\ capOf' >= capOf /\ address'.quota # 0 /\ capOf' >= address'.quota)
  <2>1. /\ cap' = Wider(cap, global'.quota) /\ capOf' = Wider(capOf, address'.quota)
        /\ cap \in Nat /\ capOf \in Nat
    BY Zenon DEF LimitTypeOK
  <2>2. global'.quota \in Nat /\ address'.quota \in Nat
    BY ONLY <1>2
  <2>3. ASSUME NEW c \in Nat, NEW q \in Nat
        PROVE  Wider(c, q) \in Nat /\ (Wider(c, q) # 0 => c # 0 /\ Wider(c, q) >= c /\ q # 0 /\ Wider(c, q) >= q)
    BY ONLY c \in Nat, q \in Nat DEF Wider, Larger
  <2> QED BY ONLY <2>1, <2>2, <2>3, Zenon
<1>5. LimitTypeOK' BY <1>2, <1>3 DEF LimitTypeOK
<1>6. GlobalInv'
  <2>1. /\ out' = out /\ out <= global.used /\ (cap # 0 => global.used <= cap)
        /\ global.used \in Nat /\ cap \in Nat
    BY DEF LimitTypeOK, GlobalInv
  <2>2. global'.quota \in Nat BY ONLY <1>2
  <2> QED BY ONLY <1>2, <1>3, <2>1, <2>2 DEF GlobalInv
<1>7. AddressInv'
  <2>1. UNCHANGED <<used, outOf>> OBVIOUS
  <2>2. ASSUME NEW u \in User PROVE outOf[u] <= used[u] /\ (capOf' # 0 => used[u] <= capOf')
    <3>1. outOf[u] \in Nat /\ used[u] \in Nat /\ capOf \in Nat BY DEF LimitTypeOK
    <3>2. outOf[u] <= used[u] /\ (capOf # 0 => used[u] <= capOf) BY DEF AddressInv
    <3> QED BY <1>3, <3>1, <3>2
  <2>3. address'.quota \in Nat BY <1>2
  <2> QED BY <1>3, <2>1, <2>2, <2>3 DEF AddressInv
<1>8. AbsentInv' BY DEF AbsentInv
<1> QED BY <1>5, <1>6, <1>7, <1>8

\* The end of epochs keeps the invariant: uses and history begin again together.
LEMMA EpochsStep == ASSUME LimitsInv, UpdateRateLimit PROVE LimitsInv'
<1> USE DEF LimitsInv, UpdateRateLimit
<1>1. clock' \in Nat BY RateLimitAssumption DEF LimitTypeOK
<1>2. /\ NewGlobalRateLimit \in [quota : Nat, used : Nat, end : Nat] /\ NewGlobalRateLimit.used = 0
      /\ NewAddressRateLimit \in [quota : Nat, end : Nat]
  BY NewLimits
<1>3. GlobalInv' /\ global' \in [quota : Nat, used : Nat, end : Nat] /\ out' \in Nat /\ cap' \in Nat
      /\ peak' \in Nat
  <2>1. CASE GlobalEpochEnds BY <1>2, <2>1 DEF LimitTypeOK, GlobalInv
  <2>2. CASE ~GlobalEpochEnds BY <2>2 DEF LimitTypeOK, GlobalInv
  <2> QED BY <2>1, <2>2
<1>4. AddressInv' /\ address' \in [quota : Nat, end : Nat] /\ used' \in [User -> Nat] /\ outOf' \in [User -> Nat]
      /\ capOf' \in Nat
  <2>1. CASE AddressEpochEnds BY <1>2, <2>1 DEF LimitTypeOK, AddressInv, NoUse
  <2>2. CASE ~AddressEpochEnds BY <2>2 DEF LimitTypeOK, AddressInv
  <2> QED BY <2>1, <2>2
<1>5. LimitTypeOK' BY <1>1, <1>3, <1>4 DEF LimitTypeOK
<1>6. AbsentInv' BY DEF AbsentInv
<1> QED BY <1>3, <1>4, <1>5, <1>6

\* Every step keeps the invariant.
LEMMA LimitsStep == LimitsInv /\ [LimitNext]_limitVars => LimitsInv'
<1> SUFFICES ASSUME LimitsInv, [LimitNext]_limitVars PROVE LimitsInv' OBVIOUS
<1>1. ASSUME NEW u \in User, NEW a \in Amount, WithdrawToBitcoin(u, a) PROVE LimitsInv'
  <2>1. queue' \in Seq([user : User, amount : Amount]) BY <1>1 DEF WithdrawToBitcoin, LimitsInv, LimitTypeOK
  <2> QED BY <1>1, <2>1, WithdrawalStep DEF WithdrawToBitcoin
<1>2. ASSUME NEW u \in User, NEW a \in Amount, IBCReceivePacketCallback(u, a) PROVE LimitsInv'
  BY <1>2 DEF IBCReceivePacketCallback, LimitsInv, LimitTypeOK, GlobalInv, AddressInv, AbsentInv, record, history
<1>3. ASSUME NEW a \in Amount, SubmitDepositTransaction(a) PROVE LimitsInv'
  <2>1. a \in Nat BY RateLimitAssumption DEF LimitsInv
  <2> QED BY <1>3, <2>1 DEF SubmitDepositTransaction, LimitsInv, LimitTypeOK, GlobalInv, AddressInv, AbsentInv, record, history, Larger
<1>4. ASSUME NEW p \in Params, UpdateLimitParams(p) PROVE LimitsInv' BY <1>4, QuotasStep
<1>5. CASE EndBlocker
  BY <1>5 DEF EndBlocker, LimitsInv, LimitTypeOK, GlobalInv, AddressInv, AbsentInv, record, history
<1>6. CASE HandleIBCWithdrawRequest
  <2>1. Head(queue).user \in User /\ Head(queue).amount \in Amount /\ queue' \in Seq([user : User, amount : Amount])
    <3>1. queue \in Seq([user : User, amount : Amount]) /\ queue # <<>> /\ queue' = Tail(queue)
      BY <1>6 DEF HandleIBCWithdrawRequest, LimitsInv, LimitTypeOK
    <3>2. Head(queue) \in [user : User, amount : Amount] /\ Tail(queue) \in Seq([user : User, amount : Amount])
      BY <3>1, FirstAndRest
    <3> QED BY <3>1, <3>2
  <2>2. CASE HandleRateLimit(Head(queue).user, Head(queue).amount) /\ Burn(Head(queue).user, Head(queue).amount)
    BY <1>6, <2>1, <2>2, WithdrawalStep DEF HandleIBCWithdrawRequest
  <2>3. CASE UNCHANGED <<record, supply, history, peak>>
    BY <1>6, <2>1, <2>3 DEF HandleIBCWithdrawRequest, LimitsInv, LimitTypeOK, GlobalInv, AddressInv, AbsentInv, record, history
  <2> QED BY <1>6, <2>2, <2>3 DEF HandleIBCWithdrawRequest
<1>7. CASE UpdateRateLimit BY <1>7, EpochsStep
<1>8. CASE UNCHANGED limitVars
  BY <1>8 DEF limitVars, LimitsInv, LimitTypeOK, GlobalInv, AddressInv, AbsentInv, record, history
<1> QED BY <1>1, <1>2, <1>3, <1>4, <1>5, <1>6, <1>7, <1>8 DEF LimitNext

\* The invariant gives both limits.
LEMMA InvGivesLimits == LimitsInv => EpochOutflowIsLimited /\ AddressOutflowIsLimited
<1> SUFFICES ASSUME LimitsInv PROVE EpochOutflowIsLimited /\ AddressOutflowIsLimited OBVIOUS
<1>1. EpochOutflowIsLimited
  <2>1. out \in Nat /\ global.used \in Nat /\ cap \in Nat BY DEF LimitsInv, LimitTypeOK
  <2> QED BY <2>1 DEF LimitsInv, GlobalInv, EpochOutflowIsLimited
<1>2. AddressOutflowIsLimited
  <2> SUFFICES ASSUME capOf # 0, NEW u \in User PROVE outOf[u] <= capOf BY DEF AddressOutflowIsLimited
  <2>1. capOf \in Nat /\ outOf[u] \in Nat /\ used[u] \in Nat BY DEF LimitsInv, LimitTypeOK
  <2>2. outOf[u] <= used[u] /\ used[u] <= capOf BY DEF LimitsInv, AddressInv
  <2> QED BY <2>1, <2>2
<1> QED BY <1>1, <1>2

\* No epoch lets out more than the largest quota it had, in total and to an address
\* (CheckGlobalRateLimit, CheckAddressRateLimit, UpdateRateLimitUsedQuotas, updateRateLimit), for
\* every parameter set.
THEOREM OutflowIsLimitedHolds == LimitSpec => []OutflowIsLimited
<1>1. LimitsInv /\ [LimitNext]_limitVars => LimitsInv' BY LimitsStep
<1>2. LimitsInv => OutflowIsLimited BY InvGivesLimits DEF OutflowIsLimited
<1> QED BY InitLimits, <1>1, <1>2, PTL DEF LimitSpec
=============================================================================
