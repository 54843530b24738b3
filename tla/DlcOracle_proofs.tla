-------------------------- MODULE DlcOracle_proofs --------------------------
(***************************************************************************)
(* Theorems about module DlcOracle, for any participants, parameters, key  *)
(* lists and any number of requests.  As in BridgeVaults_proofs, T is the  *)
(* instance of Tss that the model steps through and TP the one that        *)
(* carries the theorems about x/tss.                                       *)
(***************************************************************************)
EXTENDS DlcOracle, SequenceTheorems, FunctionTheorems, FiniteSetTheorems, WellFoundedInduction, TLAPS

TP == INSTANCE Tss_proofs WITH MaxRefresh <- 0, refreshing <- <<>>, refreshed <- <<>>,
                               Timeout <- Timeouts, Repeats <- Repetitions

----------------------------------------------------------------------------
(* The two instances of Tss *)

\* Both instances count the members of a set alike.
LEMMA SameCardinality ==
    \A S : T!Cardinality(S) = Cardinality(S) /\ TP!Cardinality(S) = Cardinality(S)
<1>1. \A S : T!Cardinality(S) = Cardinality(S)
    BY SMT DEF T!Cardinality, Cardinality
<1>2. \A S : TP!Cardinality(S) = Cardinality(S)
    BY SMT DEF TP!Cardinality, Cardinality
<1> QED BY <1>1, <1>2

\* What Tss_proofs assumes of its constants holds of the constants of x/dlc.
LEMMA TssConstants ==
    /\ NoKey \notin Key
    /\ MaxDkg \in Nat /\ 0 \in Nat /\ MaxTime \in Nat
    /\ DKGTimeoutDuration \in Nat \ {0} /\ Timeouts \subseteq Nat /\ Repetitions \subseteq Nat
    /\ MinDKGParticipantNum \in Nat /\ MinDKGThreshold \in Nat
    /\ TP!IsFiniteSet(Participant)
<1>1. \A S : TP!IsFiniteSet(S) <=> IsFiniteSet(S)
    BY SMT DEF TP!IsFiniteSet, IsFiniteSet
<1>2. Timeouts \subseteq Nat /\ Repetitions \subseteq Nat
    BY DlcOracleAssumption DEF Timeouts, Repetitions
<1> QED BY <1>1, <1>2, TssAssumption

\* The instances agree on types.
LEMMA SameTypes == TP!TypeOK => T!TypeOK
    BY DEF TP!TypeOK, T!TypeOK, TP!DKGRequest, T!DKGRequest, TP!RefreshingRequest,
           T!RefreshingRequest, TP!DKGStatus, T!DKGStatus, TP!RefreshingStatus,
           T!RefreshingStatus, TP!DkgId, T!DkgId, TP!RefreshId, T!RefreshId

\* A step of the one instance is a step of the other; there are no refreshings.
LEMMA SameSteps == (T!Init => TP!Init) /\ ([T!Next]_(T!vars) => [TP!Next]_(TP!vars))
<1> USE SameCardinality
    DEF T!blockVars, TP!blockVars, T!dkgVars, TP!dkgVars, T!refreshVars, TP!refreshVars,
        T!DkgId, TP!DkgId, T!RefreshId, TP!RefreshId, T!IsFirst, TP!IsFirst,
        T!NoDKGRequest, TP!NoDKGRequest, T!NoRefreshingRequest, TP!NoRefreshingRequest,
        T!IsNextDKG, TP!IsNextDKG, T!GetExpirationTime, TP!GetExpirationTime,
        T!DKGTimeout, TP!DKGTimeout, T!Expired, TP!Expired, T!InTime, TP!InTime,
        T!CheckDKGParticipantNum, TP!CheckDKGParticipantNum,
        T!CheckDKGThreshold, TP!CheckDKGThreshold,
        T!CompletedParticipants, TP!CompletedParticipants,
        T!CompletionsFull, TP!CompletionsFull, T!CheckDKGCompletions, TP!CheckDKGCompletions,
        T!PendingDKGRequests, TP!PendingDKGRequests
<1>1. T!Init => TP!Init
    BY DEF T!Init, TP!Init
<1>2. ASSUME NEW d, NEW P, NEW repeats, NEW threshold, NEW duration
      PROVE  T!RequestDKG(d, P, repeats, threshold, duration)
                => TP!RequestDKG(d, P, repeats, threshold, duration)
    BY DEF T!RequestDKG, TP!RequestDKG, T!InitiateDKG, TP!InitiateDKG
<1>3. ASSUME NEW d, NEW p, NEW k PROVE T!CompleteDKG(d, p, k) => TP!CompleteDKG(d, p, k)
    BY DEF T!CompleteDKG, TP!CompleteDKG
<1>4. ASSUME NEW d, NEW ok PROVE T!HandleDKGRequest(d, ok) => TP!HandleDKGRequest(d, ok)
    BY DEF T!HandleDKGRequest, TP!HandleDKGRequest
<1>5. /\ T!StartDKGRequests => TP!StartDKGRequests
      /\ T!StartRefreshingRequests => TP!StartRefreshingRequests
      /\ T!FinishEndBlocker => TP!FinishEndBlocker
      /\ T!NextBlock => TP!NextBlock
    BY DEF T!StartDKGRequests, TP!StartDKGRequests, T!StartRefreshingRequests,
           TP!StartRefreshingRequests, T!FinishEndBlocker, TP!FinishEndBlocker,
           T!NextBlock, TP!NextBlock
<1>6. T!RefreshId = {}
    OBVIOUS
<1>7. T!Next => TP!Next
    BY ONLY <1>2, <1>3, <1>4, <1>5, <1>6, SameCardinality
       DEF T!Next, TP!Next, T!EndBlocker, TP!EndBlocker, T!DkgId, TP!DkgId
<1> QED BY ONLY <1>1, <1>7 DEF T!vars, TP!vars

----------------------------------------------------------------------------
(* x/dlc drives key generations as x/tss allows *)

\* Whom the end blocker asks: as many entries of the allow list as the parameters say.
LEMMA Selected ==
    ASSUME params \in Params, Sufficient, NEW I \in OracleParticipants \cup RandomParticipants
    PROVE  /\ I \subseteq DOMAIN params.allowed /\ IsFiniteSet(I) /\ Cardinality(I) = params.num
           /\ params.num \in Nat
<1>1. /\ params.allowed \in Seq(Participant) /\ params.num \in Nat
      /\ DOMAIN params.allowed = 1..Len(params.allowed) /\ Len(params.allowed) \in Nat
    BY DlcOracleAssumption
<1>2. IsFiniteSet(1..Len(params.allowed))
    BY <1>1, FS_Interval
<1>3. BaseSet \subseteq DOMAIN params.allowed /\ AliveSet \subseteq DOMAIN params.allowed
    BY DEF BaseSet, AliveSet
<1>4. RandomParticipants = kSubset(params.num, BaseSet)
    <2>1. Cardinality(BaseSet) \in Nat
        BY <1>1, <1>2, <1>3, FS_Subset, FS_CardinalityType
    <2> QED BY <1>1, <2>1 DEF Sufficient, RandomParticipants, Select
<1>5. OracleParticipants \subseteq kSubset(params.num, AliveSet) \cup kSubset(params.num, BaseSet)
    BY <1>4 DEF OracleParticipants, Select
<1>6. I \subseteq DOMAIN params.allowed /\ Cardinality(I) = params.num
    BY <1>3, <1>4, <1>5 DEF kSubset
<1> QED BY <1>1, <1>2, <1>6, FS_Subset

\* A request with the participants and the threshold of the parameters is a request of x/tss; its
\* list has at least as many entries as participants.
LEMMA ParamsRequest ==
    ASSUME params \in Params, Sufficient, NEW I \in OracleParticipants \cup RandomParticipants,
           NEW duration \in Timeouts, NEW type, NEW nonces, Ask(I, type, nonces, duration)
    PROVE  T!Next
<1> DEFINE P == {params.allowed[i] : i \in I}
           repeats == Cardinality(I) - Cardinality(P)
           f == [i \in I |-> params.allowed[i]]
<1>1. /\ I \subseteq DOMAIN params.allowed /\ IsFiniteSet(I) /\ Cardinality(I) = params.num
      /\ params.num \in Nat
    BY Selected
<1>2. /\ params.threshold \in Nat
      /\ T!CheckDKGParticipantNum(params.num) /\ T!CheckDKGThreshold(params.num, params.threshold)
    BY DlcOracleAssumption DEF ValidParams
<1>3. P \in SUBSET Participant
    <2>1. params.allowed \in Seq(Participant)
        BY DlcOracleAssumption
    <2>2. \A i \in DOMAIN params.allowed : params.allowed[i] \in Participant
        BY <2>1, ElementOfSeq
    <2> QED BY <1>1, <2>2
<1>4. IsFiniteSet(P) /\ Cardinality(P) <= Cardinality(I)
    <2>1. f \in Surjection(I, P)
        <3>1. f \in [I -> P] /\ \A x \in P : \E i \in I : f[i] = x
            OBVIOUS
        <3> HIDE DEF f, P
        <3> QED BY <3>1, Fun_IsSurj
    <2> HIDE DEF f, P
    <2> QED BY <1>1, <2>1, FS_Surjection
<1>5. Cardinality(P) \in Nat
    BY <1>4, FS_CardinalityType
<1>6. repeats \in Repetitions
    <2>1. repeats \in 0..params.num
        <3> HIDE DEF P
        <3> QED BY <1>1, <1>4, <1>5
    <2> HIDE DEF repeats
    <2> QED BY <2>1 DEF Repetitions
<1>7. repeats > 0 => P # {}
    <2>1. CASE P = {}
        <3>1. I = {}
            BY <2>1
        <3> QED BY <2>1, <3>1, FS_EmptySet
    <2> QED BY <2>1
<1>8. T!Cardinality(P) + repeats = params.num
    <2>1. T!Cardinality(P) = Cardinality(P)
        BY SameCardinality
    <2> HIDE DEF P
    <2> QED BY <1>1, <1>5, <2>1
<1>9. params.threshold \in 1..(T!Cardinality(P) + repeats)
    BY <1>2, <1>8, TssAssumption DEF T!CheckDKGThreshold
<1>10. PICK d \in DkgId : T!InitiateDKG(d, P, repeats, params.threshold, duration)
    BY DEF Ask, Initiate
<1> HIDE DEF P, repeats
<1>11. T!RequestDKG(d, P, repeats, params.threshold, duration)
    BY <1>2, <1>7, <1>8, <1>10 DEF T!RequestDKG
<1> QED BY <1>3, <1>6, <1>9, <1>11 DEF T!Next, DkgId, T!DkgId

\* Every step of x/dlc is a step of the requests of x/tss or leaves them alone.
LEMMA RequestStep == params \in Params /\ [Next]_vars => [T!Next]_(T!vars)
<1> SUFFICES ASSUME params \in Params, [Next]_vars PROVE [T!Next]_(T!vars)
    OBVIOUS
<1> USE DEF T!DkgId, DkgId
<1>1. ASSUME NEW P \in SUBSET Participant, NEW duration \in Timeouts,
             NEW threshold \in 1..Cardinality(P), CreateDCM(P, threshold, duration)
      PROVE  T!Next
    <2>1. PICK d \in DkgId : T!InitiateDKG(d, P, 0, threshold, duration)
        BY <1>1 DEF CreateDCM, Initiate
    <2>2. Cardinality(P) \in Nat
        BY TssAssumption, FS_Subset, FS_CardinalityType
    <2>3. T!RequestDKG(d, P, 0, threshold, duration)
        BY <1>1, <2>1, <2>2, SameCardinality DEF CreateDCM, T!RequestDKG
    <2>4. threshold \in 1..(T!Cardinality(P) + 0) /\ 0 \in Repetitions
        BY <2>2, SameCardinality DEF Repetitions
    <2> QED BY <2>3, <2>4 DEF T!Next
<1>2. ASSUME NEW d \in DkgId, NEW p \in Participant, NEW k \in Key, CompleteDKG(d, p, k)
      PROVE  T!Next
    BY <1>2 DEF CompleteDKG, T!Next
<1>3. CASE TssEndBlocker
    BY <1>3 DEF TssEndBlocker, HandleDKGRequest, T!Next, T!EndBlocker
<1>4. CASE GenerateNonces
    <2>1. params.timeout \in Timeouts
        BY DEF Timeouts
    <2>2. CASE UNCHANGED tssVars
        BY <2>2 DEF tssVars, T!vars
    <2>3. CASE \E I \in OracleParticipants :
                Sufficient /\ Ask(I, "nonce", params.nonces, params.timeout)
        BY <2>1, <2>3, ParamsRequest
    <2> QED BY <1>4, <2>2, <2>3 DEF GenerateNonces
<1>5. CASE CheckLiveness
    <2>1. LivenessTimeout \in Timeouts
        BY DEF Timeouts
    <2>2. CASE UNCHANGED tssVars
        BY <2>2 DEF tssVars, T!vars
    <2>3. CASE \E I \in RandomParticipants :
                Sufficient /\ Ask(I, "liveness", 0, LivenessTimeout)
        BY <2>1, <2>3, ParamsRequest
    <2> QED BY <1>5, <2>2, <2>3 DEF CheckLiveness
<1>6. CASE NextBlock
    BY <1>6 DEF NextBlock, T!Next
<1>7. ASSUME \/ \E p \in Params : UpdateParams(p)
             \/ \E B \in Base : UpdateBase(B)
             \/ TakeEvent \/ UNCHANGED vars
      PROVE  UNCHANGED T!vars
    BY <1>7 DEF UpdateParams, UpdateBase, TakeEvent, vars, tssVars, T!vars
<1> QED BY <1>1, <1>2, <1>3, <1>4, <1>5, <1>6, <1>7 DEF Next

\* The parameters are always valid ones.
LEMMA ParamsStep == params \in Params /\ [Next]_vars => (params \in Params)'
    BY DEF Next, CreateDCM, CompleteDKG, UpdateParams, UpdateBase, TakeEvent, TssEndBlocker,
           HandleDKGRequest, GenerateNonces, CheckLiveness, NextBlock, vars

\* x/dlc drives x/tss in no other way than module Tss allows: every request lists enough
\* participants for a valid threshold, however the two allow lists change and whoever has died.
\* An allow list may name a participant twice, and so may a request.
THEOREM TssSpecHolds == Spec => TssSpec
<1>1. Init => T!Init /\ params \in Params
    BY DEF Init
<1> QED BY <1>1, RequestStep, ParamsStep, PTL DEF Spec, TssSpec, T!Spec

\* The invariant of Tss_proofs holds of the requests that x/dlc makes.
LEMMA RequestInvariant == Spec => []TP!IInv
<1>1. TssSpec => TP!Spec
    BY SameSteps, PTL DEF TssSpec, T!Spec, TP!Spec
<1>2. TP!Spec => []TP!IInv
    BY TP!Invariant, TssConstants
<1> QED BY <1>1, <1>2, TssSpecHolds, PTL
----------------------------------------------------------------------------
(* Nonces *)

\* The loop of HandleNonces stops at the first nonce that is not fresh, or after the last one.
LEMMA HandledSpec ==
    ASSUME NEW ns, Len(ns) \in Nat
    PROVE  /\ Handled(ns) \in 0..Len(ns)
           /\ \A i \in 1..Handled(ns) : IsFresh(ns, i)
           /\ Handled(ns) < Len(ns) => ~IsFresh(ns, Handled(ns) + 1)
<1> DEFINE Stale == {i \in 1..Len(ns) : ~IsFresh(ns, i)}
           Stops(n) == (\A i \in 1..n : IsFresh(ns, i)) /\ (n < Len(ns) => ~IsFresh(ns, n + 1))
<1>1. \E n \in 0..Len(ns) : Stops(n)
    <2>1. CASE Stale = {}
        BY <2>1
    <2>2. CASE Stale # {}
        <3> DEFINE Less == OpToRel(<, Nat)
        <3>1. IsWellFoundedOn(Less, Nat)
            BY NatLessThanWellFounded
        <3>2. \A i, j \in Nat : i < j => <<i, j>> \in Less
            BY DEF OpToRel
        <3> HIDE DEF Less
        <3>3. Stale \subseteq Nat
            OBVIOUS
        <3>4. PICK m \in Stale : \A i \in Stale : ~(<<i, m>> \in Less)
            <4> HIDE DEF Stale
            <4> QED BY <2>2, <3>1, <3>3, WFMin, Zenon
        <3>5. ASSUME NEW i \in Stale PROVE m <= i
            <4>1. i \in Nat /\ m \in Nat
                BY <3>3
            <4>2. ~(i < m)
                <5> HIDE DEF Stale
                <5> QED BY <3>2, <3>4, <4>1, Zenon
            <4> QED BY <4>1, <4>2
        <3>6. m - 1 \in 0..Len(ns) /\ Stops(m - 1)
            BY <3>5
        <3> QED BY <3>6
    <2> QED BY <2>1, <2>2
<1>2. Handled(ns) = CHOOSE n \in 0..Len(ns) : Stops(n)
    BY DEF Handled
<1> HIDE DEF Stops
<1>3. Handled(ns) \in 0..Len(ns) /\ Stops(Handled(ns))
    BY <1>1, <1>2, Zenon
<1> QED BY <1>3 DEF Stops
----------------------------------------------------------------------------
(* The inductive invariant.  What key generations leave behind is judged by  *)
(* the completions of the key generation, so the invariant also says that    *)
(* oracles are only registered for key generations that are resolved, whose  *)
(* completions are final, and that every request has a purpose.              *)

\* Types of what x/dlc keeps beside the requests.
StoreTypeOK ==
    /\ step \in {"nonces", "liveness", "done"} /\ params \in Params /\ base \in Base
    /\ purpose \in [DkgId -> [type : {"NONE", "dcm", "nonce", "liveness"}, nonces : Nat]]
    /\ DOMAIN liveness \subseteq Participant
    /\ \A p \in DOMAIN liveness : liveness[p] \in [alive : BOOLEAN, last : Nat]
    /\ oracle \in [PubKey -> Nat] /\ dcm \in [PubKey -> Nat]
    /\ event \in Seq([key : PubKey, nonce : Nonce]) /\ pendingEvents \subseteq 1..Len(event)
    /\ answered \in [Participant -> SUBSET DkgId]

\* Every request was made for something.
PurposeIsKnown == \A d \in DkgId : dkg[d].status # "NONE" => purpose[d].type # "NONE"

\* An oracle is registered when its key generation is resolved.
OracleIsResolved ==
    \A k \in PubKey : oracle[k] # 0 =>
        oracle[k] \in DkgId /\ dkg[oracle[k]].status \notin {"NONE", "PENDING"}

\* What a resolved key generation has left behind.
StoreInv == OracleIsResolved /\ NonceIsUsedOnce /\ EventHasItsOracle /\ CompletedIsStored

OInv == StoreTypeOK /\ PurposeIsKnown /\ StoreInv /\ LivenessIsJustified

\* A resolved key generation stays as it is: x/dlc asks for no refreshings.
ResolvedStays ==
    \A d \in DkgId : dkg[d].status \notin {"NONE", "PENDING"} =>
        dkg'[d] = dkg[d] /\ completion'[d] = completion[d]

\* What the invariant of x/tss says of the requests.
LEMMA Requests ==
    ASSUME TP!IInv
    PROVE  /\ dkg \in [DkgId -> [status : {"NONE", "PENDING", "COMPLETED", "FAILED", "TIMEDOUT"},
                                 participants : SUBSET Participant, repeats : Nat,
                                 threshold : Nat, expiration : Nat]]
           /\ completion \in [DkgId -> [Participant -> Key \cup {NoKey}]]
           /\ phase = "dkg" => \A d \in todo : d \in DkgId /\ dkg[d].status = "PENDING"
    BY DEF TP!IInv, TP!TypeOK, TP!SnapshotPending, TP!DKGRequest, TP!DKGStatus, TP!DkgId, DkgId

\* What one iteration of handleDKGRequests does to the requests.
LEMMA Resolution ==
    ASSUME TP!IInv, NEW d \in DkgId, NEW ok \in BOOLEAN, T!HandleDKGRequest(d, ok)
    PROVE  /\ dkg[d].status = "PENDING" /\ completion' = completion
           /\ \A e \in DkgId : e # d => dkg'[e] = dkg[e]
           /\ dkg'[d].participants = dkg[d].participants
           /\ T!Expired(dkg[d]) => dkg'[d].status = "TIMEDOUT"
           /\ ~T!Expired(dkg[d]) /\ ~T!CompletionsFull(d) => dkg'[d] = dkg[d]
           /\ ~T!Expired(dkg[d]) /\ T!CompletionsFull(d) =>
                dkg'[d].status = IF T!CheckDKGCompletions(d) /\ ok THEN "COMPLETED" ELSE "FAILED"
<1>1. d \in todo /\ phase = "dkg" /\ completion' = completion
    BY DEF T!HandleDKGRequest, T!IsFirst
<1>2. dkg[d].status = "PENDING"
    BY <1>1, Requests
<1>3. /\ T!Expired(dkg[d]) => dkg' = [dkg EXCEPT ![d].status = "TIMEDOUT"]
      /\ ~T!Expired(dkg[d]) /\ ~T!CompletionsFull(d) => dkg' = dkg
      /\ ~T!Expired(dkg[d]) /\ T!CompletionsFull(d) => dkg' = [dkg EXCEPT ![d].status =
                IF T!CheckDKGCompletions(d) /\ ok THEN "COMPLETED" ELSE "FAILED"]
    BY Zenon DEF T!HandleDKGRequest
<1>4. ASSUME NEW s, dkg' = [dkg EXCEPT ![d].status = s]
      PROVE  /\ \A e \in DkgId : e # d => dkg'[e] = dkg[e]
             /\ dkg'[d].participants = dkg[d].participants /\ dkg'[d].status = s
    BY <1>4, Requests
<1> QED BY <1>1, <1>2, <1>3, <1>4

\* No step changes a resolved key generation.
LEMMA ResolvedStep == TP!IInv /\ [T!Next]_(T!vars) => ResolvedStays
<1> SUFFICES ASSUME TP!IInv, [T!Next]_(T!vars) PROVE ResolvedStays
    OBVIOUS
<1> USE DEF T!DkgId, DkgId
<1>1. ASSUME NEW d \in DkgId, NEW P, NEW repeats, NEW duration, NEW threshold,
             T!InitiateDKG(d, P, repeats, threshold, duration)
      PROVE  ResolvedStays
    BY <1>1, Requests DEF T!InitiateDKG, T!IsNextDKG, ResolvedStays
<1>2. ASSUME NEW d \in DkgId, NEW p \in Participant, NEW k \in Key, T!CompleteDKG(d, p, k)
      PROVE  ResolvedStays
    BY <1>2, Requests DEF T!CompleteDKG, ResolvedStays
<1>3. ASSUME NEW d \in DkgId, NEW ok \in BOOLEAN, T!HandleDKGRequest(d, ok)
      PROVE  ResolvedStays
    BY <1>3, Resolution DEF ResolvedStays
<1>4. ASSUME \/ T!StartDKGRequests \/ T!StartRefreshingRequests \/ T!FinishEndBlocker
             \/ T!NextBlock \/ UNCHANGED T!vars
      PROVE  ResolvedStays
    BY <1>4 DEF T!StartDKGRequests, T!StartRefreshingRequests, T!FinishEndBlocker,
                T!NextBlock, T!vars, T!dkgVars, ResolvedStays
<1>5. T!RefreshId = {}
    BY DEF T!RefreshId
<1> QED BY <1>1, <1>2, <1>3, <1>4, <1>5 DEF T!Next, T!RequestDKG, T!EndBlocker

\* Everybody has answered a key generation that completes or whose handler fails, with one list.
LEMMA Unanimous ==
    ASSUME TP!IInv, NEW d \in DkgId, dkg[d].status = "PENDING",
           T!CompletionsFull(d), T!CheckDKGCompletions(d)
    PROVE  \A p, q \in dkg[d].participants :
                completion[d][p] \in Key /\ completion[d][p] = completion[d][q]
<1>1. TP!CompletionsFull(d) /\ d \in TP!DkgId
    BY SameCardinality DEF TP!CompletionsFull, T!CompletionsFull, TP!CompletedParticipants,
                           T!CompletedParticipants, TP!DkgId, DkgId
<1>2. TP!AbsentParticipants(d) = {}
    BY <1>1, TP!FullMeansNoAbsentee, TssConstants
<1>3. \A p \in dkg[d].participants : p \in Participant /\ completion[d][p] # NoKey
    BY <1>2 DEF TP!AbsentParticipants, TP!CompletedParticipants
<1> QED BY <1>3, Requests DEF T!CheckDKGCompletions, T!CompletedParticipants
----------------------------------------------------------------------------
(* Steps *)

\* The participants P have all reported the oracle k and the nonce n; c are their completions.
Reported(P, c, k, n) ==
    \A p \in P : LET list == List[c[p]]
                 IN list.key = k /\ \E i \in DOMAIN list.nonces : list.nonces[i] = n

\* The DCMs D and the events E have what the key generation d was for, of type t.
Stored(d, P, c, t, D, E) ==
    \A p \in P : LET list == List[c[p]] IN
        /\ t = "dcm" => D[list.key] = d
        /\ t = "nonce" => \A i \in DOMAIN list.nonces :
                \E e \in 1..Len(E) : E[e] = [key |-> list.key, nonce |-> list.nonces[i]]

\* The two properties in these terms.
LEMMA StoreForms ==
    /\ EventHasItsOracle <=> \A e \in 1..Len(event) :
            /\ oracle[event[e].key] # 0
            /\ Reported(dkg[oracle[event[e].key]].participants, completion[oracle[event[e].key]],
                        event[e].key, event[e].nonce)
    /\ EventHasItsOracle' <=> \A e \in 1..Len(event') :
            /\ oracle'[event'[e].key] # 0
            /\ Reported(dkg'[oracle'[event'[e].key]].participants, completion'[oracle'[event'[e].key]],
                        event'[e].key, event'[e].nonce)
    /\ CompletedIsStored <=> \A d \in DkgId : dkg[d].status = "COMPLETED" =>
            Stored(d, dkg[d].participants, completion[d], purpose[d].type, dcm, event)
    /\ CompletedIsStored' <=> \A d \in DkgId : dkg'[d].status = "COMPLETED" =>
            Stored(d, dkg'[d].participants, completion'[d], purpose'[d].type, dcm', event')
    BY Zenon DEF EventHasItsOracle, CompletedIsStored, Reported, Stored

\* An event has an oracle of the right type.
LEMMA EventType ==
    ASSUME StoreTypeOK, NEW e \in 1..Len(event)
    PROVE  event[e] \in [key : PubKey, nonce : Nonce] /\ event[e].key \in PubKey
<1>1. event \in Seq([key : PubKey, nonce : Nonce])
    BY DEF StoreTypeOK
<1>2. event[e] \in [key : PubKey, nonce : Nonce]
    BY <1>1, ElementOfSeq, Zenon
<1> QED BY <1>2

\* Oracles and events stay in order when none is added.
LEMMA EventFrame ==
    ASSUME StoreInv, StoreTypeOK, ResolvedStays, UNCHANGED <<oracle, event>>
    PROVE  OracleIsResolved' /\ NonceIsUsedOnce' /\ EventHasItsOracle'
<1>1. oracle' = oracle /\ event' = event
    OBVIOUS
<1>2. OracleIsResolved'
    BY <1>1 DEF StoreInv, OracleIsResolved, ResolvedStays
<1>3. NonceIsUsedOnce'
    BY <1>1 DEF StoreInv, NonceIsUsedOnce
<1>4. EventHasItsOracle'
    <2>1. ASSUME NEW e \in 1..Len(event)
          PROVE  /\ oracle[event[e].key] # 0
                 /\ Reported(dkg'[oracle[event[e].key]].participants,
                             completion'[oracle[event[e].key]], event[e].key, event[e].nonce)
        <3>1. /\ oracle[event[e].key] # 0
              /\ Reported(dkg[oracle[event[e].key]].participants,
                          completion[oracle[event[e].key]], event[e].key, event[e].nonce)
            BY StoreForms DEF StoreInv
        <3>2. /\ dkg'[oracle[event[e].key]] = dkg[oracle[event[e].key]]
              /\ completion'[oracle[event[e].key]] = completion[oracle[event[e].key]]
            BY <3>1, EventType DEF StoreInv, OracleIsResolved, ResolvedStays
        <3> QED BY <3>1, <3>2
    <2> QED BY <1>1, <2>1, StoreForms
<1> QED BY <1>2, <1>3, <1>4

\* A step that completes no key generation and stores nothing keeps what is stored in order.
LEMMA StoreFrame ==
    ASSUME StoreInv, StoreTypeOK, ResolvedStays, UNCHANGED <<oracle, dcm, event>>,
           \A d \in DkgId : dkg'[d].status = "COMPLETED" => dkg[d].status = "COMPLETED",
           \A d \in DkgId : dkg[d].status = "COMPLETED" => purpose'[d] = purpose[d]
    PROVE  StoreInv'
<1>1. dcm' = dcm /\ event' = event
    OBVIOUS
<1>2. OracleIsResolved' /\ NonceIsUsedOnce' /\ EventHasItsOracle'
    BY EventFrame
<1>3. CompletedIsStored'
    <2>1. ASSUME NEW d \in DkgId, dkg'[d].status = "COMPLETED"
          PROVE  Stored(d, dkg'[d].participants, completion'[d], purpose'[d].type, dcm, event)
        <3>1. dkg[d].status = "COMPLETED" /\ purpose'[d] = purpose[d]
            BY <2>1
        <3>2. dkg'[d] = dkg[d] /\ completion'[d] = completion[d]
            BY <3>1 DEF ResolvedStays
        <3>3. Stored(d, dkg[d].participants, completion[d], purpose[d].type, dcm, event)
            BY <3>1, StoreForms DEF StoreInv
        <3> QED BY <3>1, <3>2, <3>3
    <2> QED BY <1>1, <2>1, StoreForms
<1> QED BY <1>2, <1>3 DEF StoreInv

\* The cause of a death stays: the key generation that was missed is resolved.
LEMMA DeathFrame ==
    ASSUME DeadMissedOthersAnswer, ResolvedStays,
           \A p \in DOMAIN liveness' : ~liveness'[p].alive =>
                p \in DOMAIN liveness /\ ~liveness[p].alive
    PROVE  DeadMissedOthersAnswer'
<1> SUFFICES ASSUME NEW p \in DOMAIN liveness', ~liveness'[p].alive
             PROVE  \E d \in DkgId :
                        /\ dkg'[d].status = "TIMEDOUT" /\ p \in (T!AbsentParticipants(d))'
                        /\ (T!CompletedParticipants(d))' # {}
    BY DEF DeadMissedOthersAnswer
<1>1. PICK d \in DkgId : /\ dkg[d].status = "TIMEDOUT" /\ p \in T!AbsentParticipants(d)
                         /\ T!CompletedParticipants(d) # {}
    BY DEF DeadMissedOthersAnswer
<1>2. dkg'[d] = dkg[d] /\ completion'[d] = completion[d]
    BY <1>1 DEF ResolvedStays
<1> QED BY <1>1, <1>2 DEF T!AbsentParticipants, T!CompletedParticipants

\* InitiateDKG of x/tss, by a message or by the end blocker of x/dlc.
LEMMA InitiateStep ==
    ASSUME TP!IInv, OInv, ResolvedStays, NEW type \in {"dcm", "nonce", "liveness"},
           NEW participants, NEW repeats, NEW threshold, NEW nonces \in Nat, NEW duration,
           Initiate(type, participants, repeats, threshold, nonces, duration),
           step' \in {"nonces", "liveness", "done"},
           UNCHANGED <<params, base, liveness, storeVars, answered>>
    PROVE  OInv'
<1>1. PICK d \in DkgId :
          /\ T!InitiateDKG(d, participants, repeats, threshold, duration)
          /\ purpose' = [purpose EXCEPT ![d] = [type |-> type, nonces |-> nonces]]
    BY DEF Initiate
<1>2. /\ dkg[d].status = "NONE" /\ dkg'[d].status = "PENDING"
      /\ \A e \in DkgId : e # d => dkg'[e] = dkg[e]
    BY <1>1, Requests DEF T!InitiateDKG, T!IsNextDKG
<1>3. UNCHANGED <<oracle, dcm, event, pendingEvents>>
    BY DEF storeVars
<1>4. purpose \in [DkgId -> [type : {"NONE", "dcm", "nonce", "liveness"}, nonces : Nat]]
    BY DEF OInv, StoreTypeOK
<1>5. StoreTypeOK'
    <2>1. purpose' \in [DkgId -> [type : {"NONE", "dcm", "nonce", "liveness"}, nonces : Nat]]
        BY <1>1, <1>4
    <2> QED BY <1>3, <2>1 DEF OInv, StoreTypeOK
<1>6. PurposeIsKnown'
    BY <1>1, <1>2, <1>4 DEF OInv, PurposeIsKnown
<1>7. StoreInv'
    <2>1. \A e \in DkgId : dkg[e].status = "COMPLETED" => purpose'[e] = purpose[e]
        BY <1>1, <1>2, <1>4
    <2>2. \A e \in DkgId : dkg'[e].status = "COMPLETED" => dkg[e].status = "COMPLETED"
        BY <1>2
    <2> QED BY <1>3, <2>1, <2>2, StoreFrame DEF OInv
<1>8. LivenessIsJustified'
    BY DeathFrame DEF OInv, LivenessIsJustified, RecordsFollowAllowlist
<1> QED BY <1>5, <1>6, <1>7, <1>8 DEF OInv

\* A completion is recorded as a sign of life.
LEMMA CompleteDKGStep ==
    ASSUME TP!IInv, OInv, ResolvedStays, NEW d \in DkgId, NEW p \in Participant, NEW k \in Key,
           CompleteDKG(d, p, k)
    PROVE  OInv'
<1>1. UNCHANGED <<dkg, step, params, base, purpose, oracle, dcm, event, pendingEvents>>
    BY DEF CompleteDKG, T!CompleteDKG, storeVars
<1>2. /\ DOMAIN liveness' = DOMAIN liveness
      /\ \A q \in DOMAIN liveness :
            liveness'[q] = liveness[q] \/ liveness'[q] = [alive |-> TRUE, last |-> d]
    BY DEF CompleteDKG, CompletionReceived
<1>3. d \in Nat
    BY DEF DkgId
<1>4. StoreTypeOK'
    <2>1. \A q \in DOMAIN liveness' : liveness'[q] \in [alive : BOOLEAN, last : Nat]
        <3>1. \A q \in DOMAIN liveness : liveness[q] \in [alive : BOOLEAN, last : Nat]
            BY DEF OInv, StoreTypeOK
        <3>2. [alive |-> TRUE, last |-> d] \in [alive : BOOLEAN, last : Nat]
            BY <1>3
        <3> QED BY <1>2, <3>1, <3>2, Zenon
    <2>2. answered' \in [Participant -> SUBSET DkgId]
        BY DEF CompleteDKG, OInv, StoreTypeOK
    <2> QED BY <1>1, <1>2, <2>1, <2>2 DEF OInv, StoreTypeOK
<1>5. PurposeIsKnown'
    BY <1>1 DEF OInv, PurposeIsKnown
<1>6. StoreInv'
    BY <1>1, StoreFrame DEF OInv
<1>7. LivenessIsJustified'
    <2>1. \A q \in DOMAIN liveness' : ~liveness'[q].alive =>
                q \in DOMAIN liveness /\ ~liveness[q].alive
        BY <1>2
    <2>2. DeadMissedOthersAnswer'
        BY <2>1, DeathFrame DEF OInv, LivenessIsJustified
    <2> QED BY <1>1, <1>2, <2>2 DEF OInv, LivenessIsJustified, RecordsFollowAllowlist
<1> QED BY <1>4, <1>5, <1>6, <1>7 DEF OInv

\* An allow list names participants.
LEMMA ListedType == \A p \in Params : Listed(p) \subseteq Participant
<1> SUFFICES ASSUME NEW p \in Params PROVE Listed(p) \subseteq Participant
    OBVIOUS
<1>1. p.allowed \in Seq(Participant)
    BY DlcOracleAssumption
<1>2. \A i \in DOMAIN p.allowed : p.allowed[i] \in Participant
    BY <1>1, ElementOfSeq
<1> QED BY <1>2 DEF Listed, Range

\* New parameters forget the participants that are no longer allowed and greet the new ones.
LEMMA UpdateParamsStep ==
    ASSUME OInv, ResolvedStays, NEW new \in Params, UpdateParams(new)
    PROVE  OInv'
<1>1. UNCHANGED <<dkg, completion, step, base, purpose, oracle, dcm, event, pendingEvents>>
    BY DEF UpdateParams, tssVars, storeVars
<1>2. /\ DOMAIN liveness' = Listed(new) /\ params' = new /\ Listed(new) \subseteq Participant
      /\ \A p \in Listed(new) :
            liveness'[p] = Alive \/ (p \in DOMAIN liveness /\ liveness'[p] = liveness[p])
    BY ListedType DEF UpdateParams, UpdatedLiveness
<1>3. StoreTypeOK'
    <2>1. \A p \in DOMAIN liveness' : liveness'[p] \in [alive : BOOLEAN, last : Nat]
        <3>1. \A p \in DOMAIN liveness : liveness[p] \in [alive : BOOLEAN, last : Nat]
            BY DEF OInv, StoreTypeOK
        <3>2. Alive \in [alive : BOOLEAN, last : Nat]
            BY DEF Alive
        <3> QED BY <1>2, <3>1, <3>2, Zenon
    <2>2. answered' \in [Participant -> SUBSET DkgId]
        BY DEF UpdateParams, OInv, StoreTypeOK
    <2> QED BY <1>1, <1>2, <2>1, <2>2 DEF OInv, StoreTypeOK
<1>4. PurposeIsKnown'
    BY <1>1 DEF OInv, PurposeIsKnown
<1>5. StoreInv'
    BY <1>1, StoreFrame DEF OInv
<1>6. LivenessIsJustified'
    <2>1. \A p \in DOMAIN liveness' : ~liveness'[p].alive =>
                p \in DOMAIN liveness /\ ~liveness[p].alive
        BY <1>2 DEF Alive
    <2>2. DeadMissedOthersAnswer'
        BY <2>1, DeathFrame DEF OInv, LivenessIsJustified
    <2> QED BY <1>2, <2>2 DEF LivenessIsJustified, RecordsFollowAllowlist
<1> QED BY <1>3, <1>4, <1>5, <1>6 DEF OInv

\* Steps that change no request, no purpose, no parameter and no record.
LEMMA QuietStep ==
    ASSUME OInv, ResolvedStays, UNCHANGED <<dkg, params, purpose, liveness, oracle, dcm, event, answered>>,
           step' \in {"nonces", "liveness", "done"}, base' \in Base,
           pendingEvents' \subseteq pendingEvents
    PROVE  OInv'
<1>1. StoreTypeOK' /\ PurposeIsKnown'
    BY DEF OInv, StoreTypeOK, PurposeIsKnown
<1>2. LivenessIsJustified'
    BY DeathFrame DEF OInv, LivenessIsJustified, RecordsFollowAllowlist
<1>3. StoreInv'
    BY StoreFrame DEF OInv
<1> QED BY <1>1, <1>2, <1>3 DEF OInv
\* The key lists of a completed key generation.
LEMMA CompletedKeys ==
    ASSUME TP!IInv, NEW d \in DkgId, dkg[d].status = "COMPLETED", NEW p \in dkg[d].participants
    PROVE  completion[d][p] \in Key /\ List[completion[d][p]].key \in PubKey
<1>1. p \in Participant /\ completion[d][p] # NoKey
    BY DEF TP!IInv, TP!CompletedUnanimous, TP!CompletedParticipants, TP!DkgId, DkgId
<1>2. completion[d][p] \in Key
    BY <1>1, Requests
<1> QED BY <1>2, DlcOracleAssumption

\* What is stored stays when DCMs and events are only added.
LEMMA CompletedFrame ==
    ASSUME TP!IInv, StoreInv, ResolvedStays, purpose' = purpose, NEW d \in DkgId,
           \A e \in DkgId : e # d => dkg'[e] = dkg[e],
           \A k \in PubKey : dcm[k] # 0 => dcm'[k] = dcm[k],
           \A e \in 1..Len(event) : e \in 1..Len(event') /\ event'[e] = event[e],
           dkg'[d].status = "COMPLETED" =>
                Stored(d, dkg'[d].participants, completion'[d], purpose[d].type, dcm', event')
    PROVE  CompletedIsStored'
<1>1. ASSUME NEW c \in DkgId, c # d, dkg'[c].status = "COMPLETED"
      PROVE  Stored(c, dkg'[c].participants, completion'[c], purpose[c].type, dcm', event')
    <2>1. dkg[c].status = "COMPLETED" /\ dkg'[c] = dkg[c] /\ completion'[c] = completion[c]
        BY <1>1 DEF ResolvedStays
    <2>2. Stored(c, dkg[c].participants, completion[c], purpose[c].type, dcm, event)
        BY <2>1, StoreForms DEF StoreInv
    <2>3. \A p \in dkg[c].participants : List[completion[c][p]].key \in PubKey
        BY <2>1, CompletedKeys
    <2>4. c # 0
        BY DEF DkgId
    <2>5. Stored(c, dkg[c].participants, completion[c], purpose[c].type, dcm', event')
        <3>1. ASSUME NEW p \in dkg[c].participants, purpose[c].type = "dcm"
              PROVE  dcm'[List[completion[c][p]].key] = c
            <4>1. dcm[List[completion[c][p]].key] = c
                BY <2>2, <3>1 DEF Stored
            <4> QED BY <2>3, <2>4, <4>1
        <3>2. ASSUME NEW p \in dkg[c].participants, purpose[c].type = "nonce",
                     NEW i \in DOMAIN List[completion[c][p]].nonces
              PROVE  \E e \in 1..Len(event') :
                        event'[e] = [key |-> List[completion[c][p]].key,
                                     nonce |-> List[completion[c][p]].nonces[i]]
            <4>1. PICK e \in 1..Len(event) :
                    event[e] = [key |-> List[completion[c][p]].key,
                                nonce |-> List[completion[c][p]].nonces[i]]
                BY <2>2, <3>2 DEF Stored
            <4> QED BY <4>1
        <3> QED BY <3>1, <3>2 DEF Stored
    <2> QED BY <2>1, <2>5
<1> QED BY <1>1, StoreForms

\* DKGCompletedHandler of a DCM.
LEMMA DcmStep ==
    ASSUME TP!IInv, OInv, ResolvedStays, purpose' = purpose, NEW d \in DkgId, NEW k \in Key, NEW ok \in BOOLEAN,
           purpose[d].type = "dcm", DcmCompleted(d, k, ok), UNCHANGED <<oracle, event>>,
           \A e \in DkgId : e # d => dkg'[e] = dkg[e],
           dkg'[d].status = IF ok THEN "COMPLETED" ELSE "FAILED",
           \A p \in dkg'[d].participants : completion'[d][p] = k
    PROVE  CompletedIsStored' /\ dcm' \in [PubKey -> Nat]
<1>1. List[k].key \in PubKey /\ d \in Nat
    BY DlcOracleAssumption DEF DkgId
<1>2. dcm \in [PubKey -> Nat] /\ Len(event) \in Nat
    BY DEF OInv, StoreTypeOK
<1>3. \A l \in PubKey : dcm[l] # 0 => dcm'[l] = dcm[l]
    BY <1>1, <1>2 DEF DcmCompleted
<1>4. dcm' \in [PubKey -> Nat] /\ (ok => dcm'[List[k].key] = d)
    BY <1>1, <1>2 DEF DcmCompleted
<1>5. dkg'[d].status = "COMPLETED" =>
        Stored(d, dkg'[d].participants, completion'[d], purpose[d].type, dcm', event')
    BY <1>4 DEF Stored
<1>6. \A e \in 1..Len(event) : e \in 1..Len(event') /\ event'[e] = event[e]
    OBVIOUS
<1>7. CompletedIsStored'
    BY <1>3, <1>5, <1>6, CompletedFrame DEF OInv
<1> QED BY <1>4, <1>7

\* The events of a batch are a sequence of events.
LEMMA BatchIsSeq ==
    ASSUME NEW o \in PubKey, NEW n \in Nat, NEW ns, \A i \in 1..n : ns[i] \in Nonce
    PROVE  /\ [i \in 1..n |-> [key |-> o, nonce |-> ns[i]]] \in Seq([key : PubKey, nonce : Nonce])
           /\ Len([i \in 1..n |-> [key |-> o, nonce |-> ns[i]]]) = n
<1> DEFINE R == [key : PubKey, nonce : Nonce]
           b(i) == [key |-> o, nonce |-> ns[i]]
<1>1. \A i \in 1..n : b(i) \in R
    OBVIOUS
<1> HIDE DEF R, b
<1>2. [i \in 1..n |-> b(i)] \in Seq(R) /\ Len([i \in 1..n |-> b(i)]) = n
    BY <1>1
<1> QED BY <1>2 DEF R, b

\* What CreateOracle and HandleNonces do for an oracle that is new: the events of the n nonces
\* handled, of the list ns, are added behind the l others.
NonceOutcome(d, k, ok, ns, n, l) ==
    /\ n \in 0..Len(ns) /\ l \in Nat /\ ns \in Seq(Nonce) /\ List[k].key \in PubKey
    /\ \A i \in 1..n : IsFresh(ns, i)
    /\ ok <=> n = Len(ns)
    /\ oracle' = [oracle EXCEPT ![List[k].key] = d]
    /\ event' \in Seq([key : PubKey, nonce : Nonce]) /\ Len(event') = l + n
    /\ \A e \in 1..l : event'[e] = event[e]
    /\ \A i \in 1..n : event'[l + i] = [key |-> List[k].key, nonce |-> ns[i]]
    /\ pendingEvents' = pendingEvents \cup (l + 1)..(l + n)

\* That is what they do.
LEMMA NonceEvents ==
    ASSUME OInv, NEW d \in DkgId, NEW k \in Key, NEW ok \in BOOLEAN,
           oracle[List[k].key] = 0, NonceCompleted(d, k, ok)
    PROVE  NonceOutcome(d, k, ok, List[k].nonces, Handled(List[k].nonces), Len(event))
<1> DEFINE ns == List[k].nonces
           n == Handled(ns)
           l == Len(event)
           new == [i \in 1..n |-> [key |-> List[k].key, nonce |-> ns[i]]]
<1>1. List[k].key \in PubKey /\ ns \in Seq(Nonce)
    BY DlcOracleAssumption
<1>2. /\ event \in Seq([key : PubKey, nonce : Nonce]) /\ Len(ns) \in Nat
    BY <1>1 DEF OInv, StoreTypeOK
<1>3. n \in 0..Len(ns) /\ \A i \in 1..n : IsFresh(ns, i)
    BY <1>2, HandledSpec, Zenon
<1>4. /\ ok <=> n = Len(ns)
      /\ oracle' = [oracle EXCEPT ![List[k].key] = d]
      /\ event' = event \o new
      /\ pendingEvents' = pendingEvents \cup (l + 1)..(l + n)
    BY DEF NonceCompleted
<1>5. new \in Seq([key : PubKey, nonce : Nonce]) /\ Len(new) = n
    <2>1. \A i \in 1..n : ns[i] \in Nonce
        BY <1>1, <1>2, <1>3
    <2>2. n \in Nat
        BY <1>2, <1>3
    <2> HIDE DEF n, ns
    <2> QED BY <1>1, <2>1, <2>2, BatchIsSeq
<1>6. \A i \in 1..n : new[i] = [key |-> List[k].key, nonce |-> ns[i]]
    OBVIOUS
<1> HIDE DEF new
<1>7. /\ event' \in Seq([key : PubKey, nonce : Nonce])
      /\ Len(event') = l + n
      /\ \A e \in 1..(l + n) : event'[e] = IF e <= l THEN event[e] ELSE new[e - l]
    <2>1. /\ event \o new \in Seq([key : PubKey, nonce : Nonce])
          /\ Len(event \o new) = Len(event) + Len(new)
          /\ \A e \in 1..(Len(event) + Len(new)) :
                (event \o new)[e] = IF e <= Len(event) THEN event[e] ELSE new[e - Len(event)]
        BY <1>2, <1>5, ConcatProperties, Zenon
    <2> QED BY <1>4, <1>5, <2>1, Zenon
<1>8. l \in Nat /\ n \in Nat
    BY <1>2, <1>3
<1>9. \A e \in 1..l : event'[e] = event[e]
    BY <1>7, <1>8
<1>10. ASSUME NEW i \in 1..n
       PROVE  event'[l + i] = [key |-> List[k].key, nonce |-> ns[i]]
    <2>1. l + i \in 1..(l + n) /\ ~(l + i <= l) /\ (l + i) - l = i
        BY <1>8
    <2>2. event'[l + i] = new[i]
        BY <1>7, <2>1
    <2> QED BY <1>6, <2>2
<1> QED BY <1>1, <1>3, <1>4, <1>7, <1>8, <1>9, <1>10 DEF NonceOutcome
\* DKGCompletedHandler of a batch of nonces whose oracle is new.
LEMMA NonceStep ==
    ASSUME TP!IInv, OInv, ResolvedStays, purpose' = purpose, NEW d \in DkgId, NEW k \in Key,
           NEW ok \in BOOLEAN, purpose[d].type = "nonce",
           oracle[List[k].key] = 0, NonceCompleted(d, k, ok), UNCHANGED dcm,
           \A e \in DkgId : e # d => dkg'[e] = dkg[e],
           dkg'[d].status = IF ok THEN "COMPLETED" ELSE "FAILED",
           \A p \in dkg'[d].participants : completion'[d][p] = k
    PROVE  /\ StoreInv' /\ oracle' \in [PubKey -> Nat]
           /\ event' \in Seq([key : PubKey, nonce : Nonce]) /\ pendingEvents' \subseteq 1..Len(event')
<1> DEFINE ns == List[k].nonces
           n == Handled(ns)
           l == Len(event)
           key == List[k].key
<1>0. NonceOutcome(d, k, ok, ns, n, l)
    BY NonceEvents
<1>1. /\ n \in 0..Len(ns) /\ l \in Nat /\ ns \in Seq(Nonce) /\ key \in PubKey
      /\ \A i \in 1..n : IsFresh(ns, i)
      /\ ok <=> n = Len(ns)
      /\ oracle' = [oracle EXCEPT ![key] = d]
      /\ event' \in Seq([key : PubKey, nonce : Nonce]) /\ Len(event') = l + n
      /\ \A e \in 1..l : event'[e] = event[e]
      /\ \A i \in 1..n : event'[l + i] = [key |-> key, nonce |-> ns[i]]
      /\ pendingEvents' = pendingEvents \cup (l + 1)..(l + n)
    <2> HIDE DEF ns, n, l
    <2> QED BY <1>0, Zenon DEF NonceOutcome
<1>2. \A i \in 1..n : /\ \A j \in 1..(i - 1) : ns[j] # ns[i]
                      /\ \A e \in 1..l : event[e].nonce # ns[i]
    BY <1>1 DEF IsFresh
<1>3. oracle \in [PubKey -> Nat] /\ pendingEvents \subseteq 1..l
    BY DEF OInv, StoreTypeOK
<1>4. d \in Nat /\ d # 0 /\ Len(ns) \in Nat
    BY <1>1 DEF DkgId
<1>5. oracle[key] = 0
    OBVIOUS
<1>6. \A p \in dkg'[d].participants : List[completion'[d][p]].key = key /\ List[completion'[d][p]].nonces = ns
    OBVIOUS
<1> HIDE DEF ns, n, l, key
<1>7. n \in Nat /\ n <= Len(ns)
    BY <1>1, <1>4
<1>14. ASSUME NEW i \in 1..n
       PROVE  event'[l + i].key = key /\ event'[l + i].nonce = ns[i]
    <2>1. event'[l + i] = [key |-> key, nonce |-> ns[i]]
        BY <1>1
    <2> QED BY ONLY <2>1
<1>15. \A e \in 1..l : event'[e] = event[e]
    BY <1>1
<1>8. ASSUME NEW e \in 1..Len(event')
      PROVE  e \in 1..l \/ \E i \in 1..n : e = l + i
    <2>1. CASE e <= l
        BY <1>1, <2>1
    <2>2. CASE ~(e <= l)
        <3>1. e - l \in 1..n /\ e = l + (e - l)
            BY <1>1, <1>7, <2>2
        <3> QED BY <3>1
    <2> QED BY <2>1, <2>2
<1>9. oracle' \in [PubKey -> Nat] /\ pendingEvents' \subseteq 1..Len(event')
    <2>1. \A e \in 1..l : e \in 1..Len(event')
        BY <1>1, <1>7
    <2>2. \A e \in (l + 1)..(l + n) : e \in 1..Len(event')
        BY <1>1, <1>7
    <2> QED BY <1>1, <1>3, <1>4, <2>1, <2>2
<1>10. OracleIsResolved'
    <2>1. dkg'[d].status \notin {"NONE", "PENDING"}
        OBVIOUS
    <2>2. ASSUME NEW m \in PubKey, m # key, oracle[m] # 0
          PROVE  oracle[m] \in DkgId /\ dkg'[oracle[m]].status \notin {"NONE", "PENDING"}
        BY <2>2 DEF OInv, StoreInv, OracleIsResolved, ResolvedStays
    <2> QED BY <1>1, <1>3, <2>1, <2>2 DEF OracleIsResolved
<1>11. NonceIsUsedOnce'
    <2>1. \A e, f \in 1..l : event[e].nonce = event[f].nonce => e = f
        BY DEF OInv, StoreInv, NonceIsUsedOnce, l
    <2>2. \A i \in 1..n : event'[l + i].nonce = ns[i]
        BY <1>14
    <2>3. \A i, j \in 1..n : ns[i] = ns[j] => i = j
        <3>1. \A i, j \in 1..n : i < j => ns[i] # ns[j]
            BY <1>2
        <3> QED BY <3>1
    <2>4. ASSUME NEW e \in 1..Len(event'), NEW f \in 1..Len(event'), event'[e].nonce = event'[f].nonce
          PROVE  e = f
        <3>1. CASE e \in 1..l /\ f \in 1..l
            BY <1>15, <2>1, <2>4, <3>1, Zenon
        <3>2. CASE e \in 1..l /\ \E i \in 1..n : f = l + i
            <4>1. PICK i \in 1..n : f = l + i
                BY <3>2
            <4>2. event[e].nonce # ns[i] /\ event'[e] = event[e] /\ event'[f].nonce = ns[i]
                BY <1>2, <1>15, <2>2, <3>2, <4>1, Zenon
            <4> QED BY <2>4, <4>2
        <3>3. CASE f \in 1..l /\ \E i \in 1..n : e = l + i
            <4>1. PICK i \in 1..n : e = l + i
                BY <3>3
            <4>2. event[f].nonce # ns[i] /\ event'[f] = event[f] /\ event'[e].nonce = ns[i]
                BY <1>2, <1>15, <2>2, <3>3, <4>1, Zenon
            <4> QED BY <2>4, <4>2
        <3>4. CASE (\E i \in 1..n : e = l + i) /\ (\E j \in 1..n : f = l + j)
            BY <2>2, <2>3, <2>4, <3>4
        <3> QED BY <1>8, <3>1, <3>2, <3>3, <3>4
    <2> QED BY <2>4 DEF NonceIsUsedOnce
<1>12. EventHasItsOracle'
    <2>1. ASSUME NEW e \in 1..l
          PROVE  /\ oracle'[event[e].key] # 0
                 /\ Reported(dkg'[oracle'[event[e].key]].participants,
                             completion'[oracle'[event[e].key]], event[e].key, event[e].nonce)
        <3>1. e \in 1..Len(event)
            BY DEF l
        <3>2. /\ oracle[event[e].key] # 0
              /\ Reported(dkg[oracle[event[e].key]].participants,
                          completion[oracle[event[e].key]], event[e].key, event[e].nonce)
            BY <3>1, StoreForms DEF OInv, StoreInv
        <3>3. event[e].key \in PubKey
            BY <3>1, EventType DEF OInv
        <3>4. oracle'[event[e].key] = oracle[event[e].key]
            BY <1>1, <1>3, <1>5, <3>2, <3>3
        <3>5. /\ dkg'[oracle[event[e].key]] = dkg[oracle[event[e].key]]
              /\ completion'[oracle[event[e].key]] = completion[oracle[event[e].key]]
            BY <3>2, <3>3 DEF OInv, StoreInv, OracleIsResolved, ResolvedStays
        <3> QED BY <3>2, <3>4, <3>5
    <2>2. oracle'[key] = d
        BY <1>1, <1>3
    <2>3. ASSUME NEW i \in 1..n
          PROVE  Reported(dkg'[d].participants, completion'[d], key, ns[i])
        <3>1. i \in DOMAIN ns
            BY <1>1, <1>4, <1>7
        <3> QED BY <1>6, <3>1 DEF Reported
    <2>4. ASSUME NEW i \in 1..n
          PROVE  /\ oracle'[event'[l + i].key] # 0
                 /\ Reported(dkg'[oracle'[event'[l + i].key]].participants,
                             completion'[oracle'[event'[l + i].key]],
                             event'[l + i].key, event'[l + i].nonce)
        BY <1>4, <1>14, <2>2, <2>3
    <2>5. ASSUME NEW e \in 1..Len(event')
          PROVE  /\ oracle'[event'[e].key] # 0
                 /\ Reported(dkg'[oracle'[event'[e].key]].participants,
                             completion'[oracle'[event'[e].key]], event'[e].key, event'[e].nonce)
        <3>1. CASE e \in 1..l
            BY <1>15, <2>1, <3>1
        <3>2. CASE \E i \in 1..n : e = l + i
            BY <2>4, <3>2
        <3> QED BY <1>8, <3>1, <3>2
    <2> QED BY <2>5, StoreForms
<1>13. CompletedIsStored'
    <2>1. ASSUME dkg'[d].status = "COMPLETED"
          PROVE  Stored(d, dkg'[d].participants, completion'[d], purpose[d].type, dcm', event')
        <3>1. n = Len(ns)
            BY <1>1, <2>1
        <3>2. ASSUME NEW i \in DOMAIN ns
              PROVE  \E e \in 1..Len(event') : event'[e] = [key |-> key, nonce |-> ns[i]]
            <4>1. i \in 1..n
                BY <1>1, <3>1
            <4>2. l + i \in 1..Len(event')
                BY <1>1, <1>7, <4>1
            <4> QED BY <1>1, <4>1, <4>2
        <3> QED BY <1>6, <3>2 DEF Stored
    <2>2. \A e \in 1..Len(event) : e \in 1..Len(event') /\ event'[e] = event[e]
        BY <1>1, <1>7 DEF l
    <2> QED BY <2>1, <2>2, CompletedFrame DEF OInv
<1> QED BY <1>1, <1>9, <1>10, <1>11, <1>12, <1>13 DEF StoreInv
\* DKGTimeoutHandler kills who was absent while others answered.
LEMMA TimedOutStep ==
    ASSUME TP!IInv, OInv, ResolvedStays, NEW d \in DkgId, liveness' = TimedOut(d),
           completion' = completion, dkg'[d].status = "TIMEDOUT", params' = params,
           dkg'[d].participants = dkg[d].participants
    PROVE  /\ DOMAIN liveness' = DOMAIN liveness
           /\ \A p \in DOMAIN liveness' : liveness'[p] \in [alive : BOOLEAN, last : Nat]
           /\ LivenessIsJustified'
<1>1. \A p \in DOMAIN liveness : liveness[p] \in [alive : BOOLEAN, last : Nat]
    BY DEF OInv, StoreTypeOK
<1>2. DOMAIN liveness' = DOMAIN liveness
    BY DEF TimedOut
<1>3. \A p \in DOMAIN liveness' : liveness'[p] \in [alive : BOOLEAN, last : Nat]
    BY <1>1 DEF TimedOut
<1>4. ASSUME NEW p \in DOMAIN liveness', ~liveness'[p].alive
      PROVE  \E e \in DkgId :
                /\ dkg'[e].status = "TIMEDOUT" /\ p \in (T!AbsentParticipants(e))'
                /\ (T!CompletedParticipants(e))' # {}
    <2>1. CASE liveness'[p] = liveness[p]
        <3>1. PICK e \in DkgId : /\ dkg[e].status = "TIMEDOUT" /\ p \in T!AbsentParticipants(e)
                                 /\ T!CompletedParticipants(e) # {}
            BY <1>2, <1>4, <2>1 DEF OInv, LivenessIsJustified, DeadMissedOthersAnswer
        <3>2. dkg'[e] = dkg[e] /\ completion'[e] = completion[e]
            BY <3>1 DEF ResolvedStays
        <3> QED BY <3>1, <3>2 DEF T!AbsentParticipants, T!CompletedParticipants
    <2>2. CASE liveness'[p] # liveness[p]
        <3>1. p \in T!AbsentParticipants(d) /\ T!AbsentParticipants(d) # dkg[d].participants
            BY <1>2, <2>2 DEF TimedOut
        <3>2. T!CompletedParticipants(d) # {}
            BY <3>1 DEF T!AbsentParticipants
        <3> QED BY <3>1, <3>2 DEF T!AbsentParticipants, T!CompletedParticipants
    <2> QED BY <2>1, <2>2
<1>5. DeadMissedOthersAnswer'
    BY <1>4 DEF DeadMissedOthersAnswer
<1> QED BY <1>2, <1>3, <1>5 DEF OInv, LivenessIsJustified, RecordsFollowAllowlist

\* The end blocker of x/tss resolves one request and calls the handler of x/dlc.
LEMMA HandleDKGRequestStep ==
    ASSUME TP!IInv, OInv, ResolvedStays, NEW d \in DkgId, NEW ok \in BOOLEAN,
           HandleDKGRequest(d, ok)
    PROVE  OInv'
<1>1. T!HandleDKGRequest(d, ok) /\ UNCHANGED <<step, params, base, purpose, answered>>
    BY DEF HandleDKGRequest
<1>2. /\ dkg[d].status = "PENDING" /\ completion' = completion
      /\ \A e \in DkgId : e # d => dkg'[e] = dkg[e]
      /\ dkg'[d].participants = dkg[d].participants
    BY <1>1, Resolution
<1>3. PurposeIsKnown'
    BY <1>1, <1>2 DEF OInv, PurposeIsKnown
<1>4. CASE T!Expired(dkg[d])
    <2>1. liveness' = TimedOut(d) /\ UNCHANGED <<oracle, dcm, event, pendingEvents>>
        BY <1>4 DEF HandleDKGRequest, storeVars
    <2>2. dkg'[d].status = "TIMEDOUT"
        BY <1>1, <1>4, Resolution
    <2>3. /\ DOMAIN liveness' = DOMAIN liveness
          /\ \A p \in DOMAIN liveness' : liveness'[p] \in [alive : BOOLEAN, last : Nat]
          /\ LivenessIsJustified'
        BY <1>1, <1>2, <2>1, <2>2, TimedOutStep
    <2>4. StoreInv'
        BY <1>1, <1>2, <2>1, <2>2, StoreFrame DEF OInv
    <2>5. StoreTypeOK'
        BY <1>1, <2>1, <2>3 DEF OInv, StoreTypeOK
    <2> QED BY <1>3, <2>3, <2>4, <2>5 DEF OInv
<1>5. CASE ~T!Expired(dkg[d]) /\ ~(T!CompletionsFull(d) /\ T!CheckDKGCompletions(d))
    <2>1. UNCHANGED <<liveness, oracle, dcm, event, pendingEvents>>
        BY <1>5 DEF HandleDKGRequest, storeVars
    <2>2. dkg'[d].status # "COMPLETED"
        BY <1>1, <1>2, <1>5, Resolution
    <2>3. StoreInv'
        BY <1>1, <1>2, <2>1, <2>2, StoreFrame DEF OInv
    <2>4. LivenessIsJustified'
        BY <1>1, <2>1, DeathFrame DEF OInv, LivenessIsJustified, RecordsFollowAllowlist
    <2>5. StoreTypeOK'
        BY <1>1, <2>1 DEF OInv, StoreTypeOK
    <2> QED BY <1>3, <2>3, <2>4, <2>5 DEF OInv
<1>6. CASE ~T!Expired(dkg[d]) /\ T!CompletionsFull(d) /\ T!CheckDKGCompletions(d)
    <2>1. liveness' = liveness
        BY <1>6 DEF HandleDKGRequest
    <2>2. PICK p \in dkg[d].participants : Completed(d, completion[d][p], ok)
        BY <1>6 DEF HandleDKGRequest
    <2>3. PICK k \in Key : k = completion[d][p] /\ \A q \in dkg'[d].participants : completion'[d][q] = k
        BY <1>2, <1>6, Unanimous
    <2>4. dkg'[d].status = IF ok THEN "COMPLETED" ELSE "FAILED"
        BY <1>1, <1>6, Resolution
    <2>5. LivenessIsJustified'
        BY <1>1, <2>1, DeathFrame DEF OInv, LivenessIsJustified, RecordsFollowAllowlist
    <2>6. purpose[d].type \in {"dcm", "nonce", "liveness"}
        BY <1>2 DEF OInv, PurposeIsKnown, StoreTypeOK
    <2>7. CASE purpose[d].type = "dcm"
        <3>1. DcmCompleted(d, k, ok) /\ UNCHANGED <<oracle, event, pendingEvents>>
            BY <2>2, <2>3, <2>7 DEF Completed
        <3>2. CompletedIsStored' /\ dcm' \in [PubKey -> Nat]
            BY <1>1, <1>2, <2>3, <2>4, <2>7, <3>1, DcmStep
        <3>3. OracleIsResolved' /\ NonceIsUsedOnce' /\ EventHasItsOracle'
            BY <3>1, EventFrame DEF OInv
        <3>4. StoreTypeOK'
            BY <1>1, <2>1, <3>1, <3>2 DEF OInv, StoreTypeOK
        <3> QED BY <1>3, <2>5, <3>2, <3>3, <3>4 DEF OInv, StoreInv
    <2>8. CASE purpose[d].type = "nonce" /\ oracle[List[k].key] = 0
        <3>1. NonceCompleted(d, k, ok) /\ dcm' = dcm
            BY <2>2, <2>3, <2>8 DEF Completed
        <3>2. /\ StoreInv' /\ oracle' \in [PubKey -> Nat]
              /\ event' \in Seq([key : PubKey, nonce : Nonce])
              /\ pendingEvents' \subseteq 1..Len(event')
            BY <1>1, <1>2, <2>3, <2>4, <2>8, <3>1, NonceStep
        <3>3. StoreTypeOK'
            BY <1>1, <2>1, <3>1, <3>2 DEF OInv, StoreTypeOK
        <3> QED BY <1>3, <2>5, <3>2, <3>3 DEF OInv
    <2>9. CASE \/ purpose[d].type = "nonce" /\ oracle[List[k].key] # 0
               \/ purpose[d].type = "liveness"
        <3>1. /\ UNCHANGED <<oracle, dcm, event, pendingEvents>>
              /\ purpose[d].type = "liveness" \/ ~ok
            BY <2>2, <2>3, <2>9 DEF Completed, NonceCompleted, storeVars
        <3>2. OracleIsResolved' /\ NonceIsUsedOnce' /\ EventHasItsOracle'
            BY <3>1, EventFrame DEF OInv
        <3>3. dkg'[d].status = "COMPLETED" =>
                Stored(d, dkg'[d].participants, completion'[d], purpose[d].type, dcm', event')
            BY <2>4, <3>1 DEF Stored
        <3>4. CompletedIsStored'
            BY <1>1, <1>2, <3>1, <3>3, CompletedFrame DEF OInv
        <3>5. StoreTypeOK'
            BY <1>1, <2>1, <3>1 DEF OInv, StoreTypeOK
        <3> QED BY <1>3, <2>5, <3>2, <3>4, <3>5 DEF OInv, StoreInv
    <2> QED BY <2>6, <2>7, <2>8, <2>9
<1> QED BY <1>4, <1>5, <1>6
----------------------------------------------------------------------------
(* The theorems *)

\* Every step preserves the invariant, given that the requests behave as those of x/tss.
LEMMA OracleStep == TP!IInv /\ OInv /\ [Next]_vars => OInv'
<1> SUFFICES ASSUME TP!IInv, OInv, [Next]_vars PROVE OInv'
    OBVIOUS
<1>1. params \in Params /\ base \in Base /\ step \in {"nonces", "liveness", "done"}
    BY DEF OInv, StoreTypeOK
<1>2. ResolvedStays
    BY <1>1, RequestStep, ResolvedStep
<1>3. ASSUME NEW P \in SUBSET Participant, NEW duration \in Timeouts,
             NEW threshold \in 1..Cardinality(P), CreateDCM(P, threshold, duration)
      PROVE  OInv'
    BY <1>1, <1>2, <1>3, InitiateStep DEF CreateDCM
<1>4. ASSUME NEW d \in DkgId, NEW p \in Participant, NEW k \in Key, CompleteDKG(d, p, k)
      PROVE  OInv'
    BY <1>2, <1>4, CompleteDKGStep
<1>5. ASSUME NEW p \in Params, UpdateParams(p)
      PROVE  OInv'
    BY <1>2, <1>5, UpdateParamsStep
<1>6. ASSUME NEW B \in Base, UpdateBase(B)
      PROVE  OInv'
    BY <1>1, <1>2, <1>6, QuietStep DEF UpdateBase, tssVars, storeVars
<1>7. CASE TakeEvent
    BY <1>1, <1>2, <1>7, QuietStep DEF TakeEvent, tssVars
<1>8. CASE TssEndBlocker
    <2>1. ASSUME NEW d \in DkgId, NEW ok \in BOOLEAN, HandleDKGRequest(d, ok)
          PROVE  OInv'
        BY <1>2, <2>1, HandleDKGRequestStep
    <2>2. CASE /\ T!StartDKGRequests \/ T!StartRefreshingRequests \/ T!FinishEndBlocker
               /\ UNCHANGED <<step, params, base, purpose, liveness, storeVars, answered>>
        BY <1>1, <1>2, <2>2, QuietStep DEF T!StartDKGRequests, T!StartRefreshingRequests,
           T!FinishEndBlocker, T!dkgVars, storeVars
    <2> QED BY <1>8, <2>1, <2>2 DEF TssEndBlocker
<1>9. CASE GenerateNonces
    <2>1. step' = "liveness" /\ UNCHANGED <<params, base, liveness, storeVars, answered>>
        BY <1>9 DEF GenerateNonces
    <2>2. CASE UNCHANGED <<tssVars, purpose>>
        BY <1>1, <1>2, <2>1, <2>2, QuietStep DEF tssVars, storeVars
    <2>3. ASSUME NEW I, Ask(I, "nonce", params.nonces, params.timeout)
          PROVE  OInv'
        <3>1. params.nonces \in Nat
            BY <1>1, DlcOracleAssumption
        <3> QED BY <1>2, <2>1, <2>3, <3>1, InitiateStep DEF Ask
    <2> QED BY <1>9, <2>2, <2>3 DEF GenerateNonces
<1>10. CASE CheckLiveness
    <2>1. step' = "done" /\ UNCHANGED <<params, base, liveness, storeVars, answered>>
        BY <1>10 DEF CheckLiveness
    <2>2. CASE UNCHANGED <<tssVars, purpose>>
        BY <1>1, <1>2, <2>1, <2>2, QuietStep DEF tssVars, storeVars
    <2>3. ASSUME NEW I, Ask(I, "liveness", 0, LivenessTimeout)
          PROVE  OInv'
        BY <1>2, <2>1, <2>3, InitiateStep DEF Ask
    <2> QED BY <1>10, <2>2, <2>3 DEF CheckLiveness
<1>11. CASE NextBlock
    BY <1>1, <1>2, <1>11, QuietStep DEF NextBlock, T!NextBlock, T!dkgVars, storeVars
<1>12. CASE UNCHANGED vars
    BY <1>1, <1>2, <1>12, QuietStep DEF vars, tssVars, storeVars
<1> QED BY <1>3, <1>4, <1>5, <1>6, <1>7, <1>8, <1>9, <1>10, <1>11, <1>12 DEF Next

\* The invariant holds of the genesis state: there are no requests, and everybody is alive.
LEMMA InitOracle == Init => OInv
<1> SUFFICES ASSUME Init PROVE OInv
    OBVIOUS
<1>1. \A d \in DkgId : dkg[d].status = "NONE"
    BY DEF Init, T!Init, T!NoDKGRequest, T!DkgId, DkgId
<1>2. StoreTypeOK
    <2>1. Listed(params) \subseteq Participant
        BY ListedType DEF Init
    <2>2. Alive \in [alive : BOOLEAN, last : Nat]
        BY DEF Alive
    <2>3. purpose \in [DkgId -> [type : {"NONE", "dcm", "nonce", "liveness"}, nonces : Nat]]
        BY DEF Init, NoPurpose
    <2>4. event \in Seq([key : PubKey, nonce : Nonce]) /\ pendingEvents \subseteq 1..Len(event)
        BY DEF Init
    <2> QED BY <2>1, <2>2, <2>3, <2>4 DEF Init, StoreTypeOK
<1>3. PurposeIsKnown
    BY <1>1 DEF PurposeIsKnown
<1>4. StoreInv
    <2>1. Len(event) = 0
        BY DEF Init
    <2>2. NonceIsUsedOnce /\ EventHasItsOracle
        BY <2>1 DEF NonceIsUsedOnce, EventHasItsOracle
    <2>3. OracleIsResolved
        BY DEF Init, OracleIsResolved
    <2>4. CompletedIsStored
        BY <1>1 DEF CompletedIsStored
    <2> QED BY <2>2, <2>3, <2>4 DEF StoreInv
<1>5. LivenessIsJustified
    BY DEF Init, LivenessIsJustified, RecordsFollowAllowlist, DeadMissedOthersAnswer, Alive
<1> QED BY <1>2, <1>3, <1>4, <1>5 DEF OInv

\* The invariant holds in every reachable state.
LEMMA Invariant == Spec => [](TP!IInv /\ OInv)
    BY InitOracle, OracleStep, RequestInvariant, PTL DEF Spec

\* A request counts enough entries for its threshold.
EntriesSuffice ==
    \A d \in DkgId : dkg[d].status # "NONE" =>
        LET entries == Cardinality(dkg[d].participants) + dkg[d].repeats
        IN  T!CheckDKGParticipantNum(entries) /\ T!CheckDKGThreshold(entries, dkg[d].threshold)

\* The list and the threshold of a request do not change: x/dlc asks for no refreshings.
LEMMA EntriesStep == TP!IInv /\ EntriesSuffice /\ [T!Next]_(T!vars) => EntriesSuffice'
<1> SUFFICES ASSUME TP!IInv, EntriesSuffice, [T!Next]_(T!vars) PROVE EntriesSuffice'
    OBVIOUS
<1> USE DEF T!DkgId, DkgId
<1>1. ASSUME NEW d \in DkgId, NEW P, NEW repeats, NEW duration, NEW threshold,
             T!RequestDKG(d, P, repeats, threshold, duration)
      PROVE  EntriesSuffice'
    <2>1. /\ dkg'[d].participants = P /\ dkg'[d].repeats = repeats /\ dkg'[d].threshold = threshold
          /\ \A e \in DkgId : e # d => dkg'[e] = dkg[e]
        BY <1>1, Requests DEF T!RequestDKG, T!InitiateDKG
    <2>2. /\ T!CheckDKGParticipantNum(Cardinality(P) + repeats)
          /\ T!CheckDKGThreshold(Cardinality(P) + repeats, threshold)
        BY <1>1, SameCardinality DEF T!RequestDKG
    <2> QED BY <2>1, <2>2 DEF EntriesSuffice, T!CheckDKGParticipantNum, T!CheckDKGThreshold
<1>2. ASSUME NEW d \in DkgId, NEW ok \in BOOLEAN, T!HandleDKGRequest(d, ok)
      PROVE  EntriesSuffice'
    <2>1. PICK s : dkg' = [dkg EXCEPT ![d].status = s] \/ dkg' = dkg
        BY <1>2, Zenon DEF T!HandleDKGRequest
    <2>2. /\ dkg[d].status = "PENDING" /\ \A e \in DkgId : e # d => dkg'[e] = dkg[e]
          /\ dkg'[d].participants = dkg[d].participants
        BY <1>2, Resolution, Zenon
    <2>3. dkg \in [DkgId -> [status : {"NONE", "PENDING", "COMPLETED", "FAILED", "TIMEDOUT"},
                             participants : SUBSET Participant, repeats : Nat,
                             threshold : Nat, expiration : Nat]]
        BY Requests, Zenon
    <2>4. dkg'[d].repeats = dkg[d].repeats /\ dkg'[d].threshold = dkg[d].threshold
        BY <2>1, <2>3
    <2> QED BY <2>2, <2>4 DEF EntriesSuffice, T!CheckDKGParticipantNum, T!CheckDKGThreshold
<1>3. CASE UNCHANGED dkg
    BY <1>3 DEF EntriesSuffice, T!CheckDKGParticipantNum, T!CheckDKGThreshold
<1>4. ASSUME \/ \E d \in DkgId, p \in Participant, k \in Key : T!CompleteDKG(d, p, k)
             \/ T!StartDKGRequests \/ T!StartRefreshingRequests \/ T!FinishEndBlocker
             \/ T!NextBlock \/ UNCHANGED T!vars
      PROVE  UNCHANGED dkg
    BY <1>4 DEF T!CompleteDKG, T!StartDKGRequests, T!StartRefreshingRequests, T!FinishEndBlocker,
                T!NextBlock, T!vars, T!dkgVars
<1>5. T!RefreshId = {}
    BY DEF T!RefreshId
<1> QED BY <1>1, <1>2, <1>3, <1>4, <1>5 DEF T!Next, T!EndBlocker

\* Every reachable request counts enough entries.
LEMMA EntriesInvariant == Spec => []EntriesSuffice
<1>1. Init => EntriesSuffice
    BY DEF Init, T!Init, T!NoDKGRequest, T!DkgId, DkgId, EntriesSuffice
<1>2. TssSpec => [][T!Next]_(T!vars)
    BY PTL DEF TssSpec, T!Spec
<1>3. Spec => Init
    BY DEF Spec
<1> QED BY <1>1, <1>2, <1>3, EntriesStep, RequestInvariant, TssSpecHolds, PTL

\* All entries of a completed key generation are different participants.
LEMMA SharedByEnough == TP!IInv /\ EntriesSuffice => SharesAreDistinct
<1> SUFFICES ASSUME TP!IInv, EntriesSuffice, NEW d \in DkgId, dkg[d].status = "COMPLETED"
             PROVE  /\ T!CheckDKGParticipantNum(Cardinality(dkg[d].participants))
                    /\ T!CheckDKGThreshold(Cardinality(dkg[d].participants), dkg[d].threshold)
    BY DEF SharesAreDistinct
<1>1. dkg[d].repeats = 0
    BY DEF TP!IInv, TP!CompletedUnanimous, TP!DkgId, DkgId
<1>2. Cardinality(dkg[d].participants) \in Nat
    <2>1. dkg[d].participants \subseteq Participant
        BY Requests
    <2> QED BY <2>1, TssAssumption, FS_Subset, FS_CardinalityType
<1>3. Cardinality(dkg[d].participants) + dkg[d].repeats = Cardinality(dkg[d].participants)
    BY <1>1, <1>2
<1> QED BY <1>3 DEF EntriesSuffice

\* No nonce serves two events, an event has the oracle its nonce was generated with, and a completed
\* key generation has left all it was asked for, shared by enough different participants, also when
\* the handler of another one has failed half way through its nonces (DKGCompletedHandler, HandleNonces).
THEOREM NoncesAreSoundHolds == Spec => []NoncesAreSound
<1>1. TP!IInv /\ OInv /\ EntriesSuffice => NoncesAreSound
    BY SameTypes, SharedByEnough
       DEF TP!IInv, OInv, StoreTypeOK, StoreInv, NoncesAreSound, TypeOK
<1> QED BY <1>1, Invariant, EntriesInvariant, PTL

\* There are records of exactly the allowed participants, and a participant is declared dead only
\* for a key generation that it missed and others answered (DKGTimeoutHandler).
THEOREM LivenessIsJustifiedHolds == Spec => []LivenessIsJustified
<1>1. OInv => LivenessIsJustified
    BY DEF OInv
<1> QED BY <1>1, Invariant, PTL
=============================================================================
