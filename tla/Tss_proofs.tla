----------------------------- MODULE Tss_proofs -----------------------------
(***************************************************************************)
(* Theorems about module Tss, for any number of participants, DKGs and     *)
(* refreshings, any timeouts and any block time.                           *)
(***************************************************************************)
EXTENDS Tss, FiniteSetTheorems, TLAPS

USE DEF RefreshingCompletionsFull

\* The four outcomes of one iteration of handleDKGRequests.
LEMMA DKGRequestOutcomes ==
    ASSUME NEW d \in DkgId, NEW ok \in BOOLEAN, HandleDKGRequest(d, ok)
    PROVE  /\ phase = "dkg" /\ d \in todo /\ todo' = todo \ {d}
           /\ UNCHANGED <<now, phase, completion, refreshing, refreshed>>
           /\ \/ /\ Expired(dkg[d])
                 /\ dkg' = [dkg EXCEPT ![d].status = "TIMEDOUT"]
              \/ ~Expired(dkg[d]) /\ ~CompletionsFull(d) /\ dkg' = dkg
              \/ /\ ~Expired(dkg[d]) /\ CompletionsFull(d) /\ CheckDKGCompletions(d)
                 /\ dkg' = [dkg EXCEPT ![d].status = "COMPLETED"]
              \/ /\ ~Expired(dkg[d]) /\ CompletionsFull(d)
                 /\ dkg' = [dkg EXCEPT ![d].status = "FAILED"]
<1>1. phase = "dkg" /\ d \in todo /\ todo' = todo \ {d}
    BY DEF HandleDKGRequest, IsFirst
<1>2. UNCHANGED <<now, phase, completion, refreshing, refreshed>>
    BY DEF HandleDKGRequest, refreshVars
<1>3. CASE CheckDKGCompletions(d) /\ ok
    BY <1>1, <1>2, <1>3, Zenon DEF HandleDKGRequest
<1>4. CASE ~(CheckDKGCompletions(d) /\ ok)
    BY <1>1, <1>2, <1>4, Zenon DEF HandleDKGRequest
<1> QED BY <1>3, <1>4

----------------------------------------------------------------------------
(* Type correctness *)

\* One step of the module keeps every variable in its type.
LEMMA TypeStep == TypeOK /\ [Next]_vars => TypeOK'
<1> SUFFICES ASSUME TypeOK, [Next]_vars PROVE TypeOK'
    OBVIOUS
<1> USE DEF TypeOK, DKGRequest, RefreshingRequest, DKGStatus, RefreshingStatus,
            DkgId, RefreshId
<1>1. CASE UNCHANGED vars
    BY <1>1 DEF vars
<1>2. ASSUME NEW d \in DkgId, NEW P \in SUBSET Participant, NEW repeats \in Repeats,
             NEW duration \in Timeout, NEW threshold \in 1..(Cardinality(P) + repeats),
             InitiateDKG(d, P, repeats, threshold, duration)
      PROVE TypeOK'
    <2>1. DKGTimeout(duration) \in Nat
        BY TimeoutAssumption DEF DKGTimeout
    <2>2. GetExpirationTime(DKGTimeout(duration)) \in Nat
        BY <2>1 DEF GetExpirationTime
    <2>3. threshold \in Nat /\ repeats \in Nat
        BY RepeatsAssumption
    <2>4. dkg' \in [DkgId -> DKGRequest]
        BY <1>2, <2>2, <2>3 DEF InitiateDKG
    <2> QED BY <1>2, <2>4 DEF InitiateDKG, blockVars, refreshVars
<1>3. ASSUME NEW d \in DkgId, NEW p \in Participant, NEW k \in Key, CompleteDKG(d, p, k)
      PROVE TypeOK'
    BY <1>3 DEF CompleteDKG, blockVars, refreshVars
<1>4. ASSUME NEW r \in RefreshId, NEW d \in DkgId, NEW P \in SUBSET Participant,
             NEW duration \in Timeout, Refresh(r, d, P, duration)
      PROVE TypeOK'
    <2>1. GetExpirationTime(duration) \in Nat
        BY TimeoutAssumption DEF GetExpirationTime
    <2>2. d \in Nat
        BY BoundAssumption
    <2>3. refreshing' \in [RefreshId -> RefreshingRequest]
        BY <1>4, <2>1, <2>2 DEF Refresh
    <2> QED BY <1>4, <2>3 DEF Refresh, blockVars, dkgVars
<1>5. ASSUME NEW r \in RefreshId, NEW p \in Participant, CompleteRefreshing(r, p)
      PROVE TypeOK'
    BY <1>5 DEF CompleteRefreshing, blockVars, dkgVars
<1>6. CASE StartDKGRequests
    BY <1>6 DEF StartDKGRequests, PendingDKGRequests, dkgVars, refreshVars
<1>7. ASSUME NEW d \in DkgId, NEW ok \in BOOLEAN, HandleDKGRequest(d, ok)
      PROVE TypeOK'
    <2>1. \/ dkg' = dkg
          \/ \E s \in DKGStatus : dkg' = [dkg EXCEPT ![d].status = s]
        BY <1>7, DKGRequestOutcomes, Zenon
    <2>2. dkg' \in [DkgId -> DKGRequest]
        BY <2>1
    <2>3. todo' = todo \ {d} /\ UNCHANGED <<now, phase, completion, refreshing, refreshed>>
        BY <1>7, DKGRequestOutcomes, Zenon
    <2> QED BY <2>2, <2>3
<1>8. CASE StartRefreshingRequests
    BY <1>8 DEF StartRefreshingRequests, dkgVars, refreshVars
<1>9. ASSUME NEW r \in RefreshId, HandleRefreshingRequest(r)
      PROVE TypeOK'
    <2>1. GetRefreshingParticipants(r) \in SUBSET Participant \/ refreshing[r].dkgId \notin DkgId
        BY DEF GetRefreshingParticipants
    <2>2. \/ dkg' = dkg
          \/ dkg' = [dkg EXCEPT ![refreshing[r].dkgId].participants = GetRefreshingParticipants(r)]
        BY <1>9, Zenon DEF HandleRefreshingRequest
    <2>3. dkg' \in [DkgId -> DKGRequest]
        BY <2>1, <2>2
    <2>4. \/ refreshing' = refreshing
          \/ \E s \in RefreshingStatus : refreshing' = [refreshing EXCEPT ![r].status = s]
        BY <1>9, Zenon DEF HandleRefreshingRequest
    <2>5. refreshing' \in [RefreshId -> RefreshingRequest]
        BY <2>4
    <2>6. todo' = todo \ {r} /\ UNCHANGED <<now, phase, completion, refreshed>>
        BY <1>9, Zenon DEF HandleRefreshingRequest
    <2> QED BY <2>3, <2>5, <2>6
<1>10. CASE FinishEndBlocker
    BY <1>10 DEF FinishEndBlocker, dkgVars, refreshVars
<1>11. CASE NextBlock
    BY <1>11 DEF NextBlock, dkgVars, refreshVars
<1> QED
    BY <1>1, <1>2, <1>3, <1>4, <1>5, <1>6, <1>7, <1>8, <1>9, <1>10, <1>11 DEF Next, RequestDKG, EndBlocker

\* Every reachable state of x/tss is well typed.
THEOREM TypeCorrect == Spec => []TypeOK
<1>1. Init => TypeOK
    BY DEF Init, TypeOK, DKGRequest, RefreshingRequest, DKGStatus, RefreshingStatus,
           DkgId, RefreshId, NoDKGRequest, NoRefreshingRequest
<1> QED BY <1>1, TypeStep, PTL DEF Spec

----------------------------------------------------------------------------
(* The inductive invariant.  The safety properties of Tss are not inductive: *)
(* they rest on whose completions are stored, on what a running loop of the  *)
(* end blocker may still find in its snapshot, and on when the last missing  *)
(* completion can have arrived.                                              *)

\* Until a DKG completes, all its completions come from its participants.
CompletionsOfParticipants ==
    \A d \in DkgId :
        /\ dkg[d].status = "NONE" => CompletedParticipants(d) = {}
        /\ dkg[d].status # "COMPLETED" => CompletedParticipants(d) \subseteq dkg[d].participants

\* The requests a loop of the end blocker has still to visit are pending.
SnapshotPending ==
    /\ phase = "dkg" => \A d \in todo : d \in DkgId /\ dkg[d].status = "PENDING"
    /\ phase = "refresh" => \A r \in todo : r \in RefreshId /\ refreshing[r].status = "PENDING"
    /\ phase \in {"deliver", "commit"} => todo = {}

\* Refreshings are of completed DKGs.
RefreshingOfCompleted ==
    \A r \in RefreshId : refreshing[r].status # "NONE" =>
        /\ refreshing[r].dkgId \in DkgId
        /\ dkg[refreshing[r].dkgId].status = "COMPLETED"

\* The last completion of a pending DKG came in time, and the loop of the end
\* blocker of the same block is still ahead; a DKG that lists a participant twice
\* waits for more completions than it can get.
AnsweredInTime ==
    \A d \in DkgId :
      dkg[d].status = "PENDING" /\ dkg[d].repeats = 0 /\ AbsentParticipants(d) = {} =>
        /\ now < dkg[d].expiration
        /\ phase = "deliver" \/ (phase = "dkg" /\ d \in todo)

\* What Refresh has checked still holds while no other refreshing of the same
\* DKG has been requested.
SolePending ==
    \A r \in RefreshId :
        /\ refreshing[r].status = "NONE" => refreshed[r] = {}
        /\ refreshing[r].status = "PENDING" /\ SameDKG(r) = {r} =>
              /\ refreshing[r].removed \subseteq dkg[refreshing[r].dkgId].participants
              /\ RemainingSuffices(refreshing[r].dkgId, refreshing[r].removed)
              /\ refreshed[r] \subseteq GetRefreshingParticipants(r)

IInv ==
    /\ TypeOK
    /\ CompletionsOfParticipants
    /\ SnapshotPending
    /\ RefreshingOfCompleted
    /\ AnsweredInTime
    /\ SolePending
    /\ CompletedUnanimous
    /\ TimeoutHasAbsentee
    /\ RemovedStayRemoved
    /\ SoleRefreshingIsSafe

\* The parts of the invariant that speak of refreshings depend on the DKGs that
\* refreshings name and on nothing else outside x/tss' refreshing stores.
LEMMA RefreshingFrame ==
    ASSUME IInv, TypeOK', UNCHANGED <<refreshing, refreshed>>,
           \A d \in DkgId : dkg[d].status = "COMPLETED" => dkg'[d] = dkg[d]
    PROVE  RefreshingOfCompleted' /\ SolePending' /\ RemovedStayRemoved' /\ SoleRefreshingIsSafe'
<1>1. \A r \in RefreshId : refreshing[r].status # "NONE" =>
          /\ refreshing[r].dkgId \in DkgId
          /\ dkg'[refreshing[r].dkgId] = dkg[refreshing[r].dkgId]
    BY DEF IInv, RefreshingOfCompleted
<1>2. \A r \in RefreshId : SameDKG(r)' = SameDKG(r)
    BY DEF SameDKG
<1>3. RefreshingOfCompleted'
    BY <1>1 DEF IInv, RefreshingOfCompleted
<1>4. SolePending'
    BY <1>1, <1>2 DEF IInv, SolePending, RemainingSuffices, GetRefreshingParticipants
<1>5. RemovedStayRemoved'
    BY <1>1 DEF IInv, RemovedStayRemoved
<1>6. SoleRefreshingIsSafe'
    BY <1>1, <1>2 DEF IInv, SoleRefreshingIsSafe
<1> QED BY <1>3, <1>4, <1>5, <1>6

\* A new DKG request has no completions yet.
LEMMA InitiateDKGStep ==
    ASSUME IInv, TypeOK', NEW d \in DkgId, NEW P \in SUBSET Participant,
           NEW repeats \in Repeats, NEW duration \in Timeout,
           NEW threshold \in 1..(Cardinality(P) + repeats), repeats > 0 => P # {},
           InitiateDKG(d, P, repeats, threshold, duration)
    PROVE  IInv'
<1>1. /\ dkg[d].status = "NONE"
      /\ dkg'[d].status = "PENDING" /\ dkg'[d].participants = P
      /\ \A e \in DkgId : e # d => dkg'[e] = dkg[e]
      /\ UNCHANGED <<now, phase, todo, completion, refreshing, refreshed>>
      /\ phase \in {"deliver", "commit"}
    BY DEF InitiateDKG, IsNextDKG, IInv, TypeOK, blockVars, refreshVars
<1>2. P # {}
    <2>1. Cardinality({}) = 0 /\ repeats \in Nat
        BY FS_EmptySet, RepeatsAssumption
    <2> QED BY <2>1
<1>3. \A e \in DkgId : CompletedParticipants(e)' = CompletedParticipants(e)
    BY <1>1 DEF CompletedParticipants
<1>4. CompletedParticipants(d) = {}
    BY <1>1 DEF IInv, CompletionsOfParticipants
<1>5. CompletionsOfParticipants'
    BY <1>1, <1>3, <1>4 DEF IInv, CompletionsOfParticipants
<1>6. SnapshotPending'
    BY <1>1 DEF IInv, SnapshotPending
<1>7. AnsweredInTime'
    BY <1>1, <1>2, <1>3, <1>4 DEF IInv, AnsweredInTime, AbsentParticipants
<1>8. CompletedUnanimous'
    BY <1>1, <1>3 DEF IInv, CompletedUnanimous
<1>9. TimeoutHasAbsentee'
    BY <1>1, <1>3 DEF IInv, TimeoutHasAbsentee, AbsentParticipants
<1>10. RefreshingOfCompleted' /\ SolePending' /\ RemovedStayRemoved' /\ SoleRefreshingIsSafe'
    BY <1>1, RefreshingFrame
<1> QED BY <1>5, <1>6, <1>7, <1>8, <1>9, <1>10 DEF IInv

\* A completion is recorded for a participant of a pending request.
LEMMA CompleteDKGStep ==
    ASSUME IInv, TypeOK', NEW d \in DkgId, NEW p \in Participant, NEW k \in Key,
           CompleteDKG(d, p, k)
    PROVE  IInv'
<1>1. /\ dkg[d].status = "PENDING" /\ p \in dkg[d].participants
      /\ now < dkg[d].expiration /\ phase = "deliver"
      /\ UNCHANGED <<now, phase, todo, dkg, refreshing, refreshed>>
    BY DEF CompleteDKG, InTime, blockVars, refreshVars
<1>2. /\ CompletedParticipants(d)' = CompletedParticipants(d) \cup {p}
      /\ \A e \in DkgId : e # d => CompletedParticipants(e)' = CompletedParticipants(e)
      /\ \A e \in DkgId : e # d => completion'[e] = completion[e]
    BY NoKeyAssumption DEF CompleteDKG, CompletedParticipants, IInv, TypeOK
<1>3. CompletionsOfParticipants'
    BY <1>1, <1>2 DEF IInv, CompletionsOfParticipants
<1>4. SnapshotPending'
    BY <1>1 DEF IInv, SnapshotPending
<1>5. AnsweredInTime'
    BY <1>1, <1>2 DEF IInv, AnsweredInTime, AbsentParticipants
<1>6. CompletedUnanimous'
    BY <1>1, <1>2 DEF IInv, CompletedUnanimous
<1>7. TimeoutHasAbsentee'
    BY <1>1, <1>2 DEF IInv, TimeoutHasAbsentee, AbsentParticipants
<1>8. RefreshingOfCompleted' /\ SolePending' /\ RemovedStayRemoved' /\ SoleRefreshingIsSafe'
    BY <1>1, RefreshingFrame
<1> QED BY <1>3, <1>4, <1>5, <1>6, <1>7, <1>8 DEF IInv

\* The parts of the invariant that speak of DKGs alone depend on their stores.
LEMMA DKGFrame ==
    ASSUME IInv, UNCHANGED <<dkg, completion>>
    PROVE  CompletionsOfParticipants' /\ CompletedUnanimous' /\ TimeoutHasAbsentee'
BY DEF IInv, CompletionsOfParticipants, CompletedUnanimous, TimeoutHasAbsentee,
       CompletedParticipants, AbsentParticipants

\* A new refreshing request removes participants of a completed DKG.
LEMMA RefreshStep ==
    ASSUME IInv, TypeOK', NEW r \in RefreshId, NEW d \in DkgId, NEW P \in SUBSET Participant,
           NEW duration \in Timeout, Refresh(r, d, P, duration)
    PROVE  IInv'
<1>1. /\ phase = "deliver" /\ refreshing[r].status = "NONE" /\ dkg[d].status = "COMPLETED"
      /\ P \subseteq dkg[d].participants /\ RemainingSuffices(d, P)
      /\ UNCHANGED <<now, phase, todo, dkg, completion, refreshed>>
    BY DEF Refresh, IsNextRefreshing, blockVars, dkgVars
<1>2. /\ refreshing'[r].status = "PENDING" /\ refreshing'[r].dkgId = d
      /\ refreshing'[r].removed = P
      /\ \A s \in RefreshId : s # r => refreshing'[s] = refreshing[s]
    BY DEF Refresh, IInv, TypeOK
<1>3. \A s \in RefreshId : s # r /\ refreshing[s].status # "NONE" /\ SameDKG(s)' = {s}
                              => SameDKG(s) = {s}
    BY <1>1, <1>2 DEF SameDKG
<1>4. SnapshotPending'
    BY <1>1 DEF IInv, SnapshotPending
<1>5. RefreshingOfCompleted'
    BY <1>1, <1>2 DEF IInv, RefreshingOfCompleted
<1>6. AnsweredInTime'
    BY <1>1 DEF IInv, AnsweredInTime, AbsentParticipants, CompletedParticipants
<1>7. SolePending'
    <2> SUFFICES ASSUME NEW s \in RefreshId
                 PROVE  /\ refreshing'[s].status = "NONE" => refreshed'[s] = {}
                        /\ refreshing'[s].status = "PENDING" /\ SameDKG(s)' = {s} =>
                              /\ refreshing'[s].removed \subseteq dkg'[refreshing'[s].dkgId].participants
                              /\ RemainingSuffices(refreshing[s].dkgId, refreshing[s].removed)'
                              /\ refreshed'[s] \subseteq GetRefreshingParticipants(s)'
        BY DEF SolePending
    <2>1. CASE s = r
        BY <1>1, <1>2, <2>1 DEF IInv, SolePending, RemainingSuffices
    <2>2. CASE s # r
        BY <1>1, <1>2, <1>3, <2>2 DEF IInv, SolePending, RemainingSuffices, GetRefreshingParticipants
    <2> QED BY <2>1, <2>2
<1>8. RemovedStayRemoved'
    BY <1>1, <1>2 DEF IInv, RemovedStayRemoved
<1>9. SoleRefreshingIsSafe'
    BY <1>1, <1>2, <1>3 DEF IInv, SoleRefreshingIsSafe
<1> QED BY <1>1, <1>4, <1>5, <1>6, <1>7, <1>8, <1>9, DKGFrame DEF IInv

\* A completion of a refreshing leaves the DKG requests alone.
LEMMA CompleteRefreshingStep ==
    ASSUME IInv, TypeOK', NEW r \in RefreshId, NEW p \in Participant, CompleteRefreshing(r, p)
    PROVE  IInv'
<1>1. /\ refreshing[r].status = "PENDING" /\ p \in GetRefreshingParticipants(r)
      /\ UNCHANGED <<now, phase, todo, dkg, completion, refreshing>>
    BY DEF CompleteRefreshing, blockVars, dkgVars
<1>2. /\ refreshed'[r] = refreshed[r] \cup {p}
      /\ \A s \in RefreshId : s # r => refreshed'[s] = refreshed[s]
    BY DEF CompleteRefreshing, IInv, TypeOK
<1>3. \A s \in RefreshId : SameDKG(s)' = SameDKG(s)
    BY <1>1 DEF SameDKG
<1>4. \A s \in RefreshId : GetRefreshingParticipants(s)' = GetRefreshingParticipants(s)
    BY <1>1 DEF GetRefreshingParticipants
<1>5. SnapshotPending' /\ RefreshingOfCompleted' /\ RemovedStayRemoved'
    BY <1>1 DEF IInv, SnapshotPending, RefreshingOfCompleted, RemovedStayRemoved
<1>6. AnsweredInTime'
    BY <1>1 DEF IInv, AnsweredInTime, AbsentParticipants, CompletedParticipants
<1>7. SolePending'
    BY <1>1, <1>2, <1>3, <1>4 DEF IInv, SolePending, RemainingSuffices
<1>8. SoleRefreshingIsSafe'
    BY <1>1, <1>2, <1>3 DEF IInv, SoleRefreshingIsSafe
<1> QED BY <1>1, <1>5, <1>6, <1>7, <1>8, DKGFrame DEF IInv

\* Steps that only move the block on, and start the loops of the end blocker.
LEMMA BlockStep ==
    ASSUME IInv, TypeOK',
           StartDKGRequests \/ StartRefreshingRequests \/ FinishEndBlocker \/ NextBlock
    PROVE  IInv'
<1>1. UNCHANGED <<dkg, completion, refreshing, refreshed>>
    BY DEF StartDKGRequests, StartRefreshingRequests, FinishEndBlocker, NextBlock,
           dkgVars, refreshVars
<1>2. SnapshotPending'
    BY DEF StartDKGRequests, StartRefreshingRequests, FinishEndBlocker, NextBlock,
           PendingDKGRequests, dkgVars, refreshVars, IInv, SnapshotPending
<1>3. AnsweredInTime'
    <2>1. \A d \in DkgId : AbsentParticipants(d)' = AbsentParticipants(d)
        BY <1>1 DEF AbsentParticipants, CompletedParticipants
    <2>2. CASE StartDKGRequests
        BY <1>1, <2>1, <2>2 DEF StartDKGRequests, PendingDKGRequests, IInv, AnsweredInTime
    <2>3. CASE StartRefreshingRequests
        BY <1>1, <2>1, <2>3 DEF StartRefreshingRequests, IInv, AnsweredInTime
    <2>4. CASE FinishEndBlocker
        BY <1>1, <2>1, <2>4 DEF FinishEndBlocker, IInv, AnsweredInTime
    <2>5. CASE NextBlock
        BY <1>1, <2>1, <2>5 DEF NextBlock, IInv, AnsweredInTime
    <2> QED BY <2>2, <2>3, <2>4, <2>5
<1>4. RefreshingOfCompleted' /\ SolePending' /\ RemovedStayRemoved' /\ SoleRefreshingIsSafe'
    BY <1>1, RefreshingFrame
<1> QED BY <1>1, <1>2, <1>3, <1>4, DKGFrame DEF IInv

\* A pending DKG has as many completions as its list has entries exactly when nobody
\* is absent and nobody is listed twice: its completions are all of participants.
LEMMA FullMeansNoAbsentee ==
    ASSUME IInv, NEW d \in DkgId, dkg[d].status = "PENDING"
    PROVE  CompletionsFull(d) <=> AbsentParticipants(d) = {} /\ dkg[d].repeats = 0
<1>1. CompletedParticipants(d) \subseteq dkg[d].participants
    BY DEF IInv, CompletionsOfParticipants
<1>2. dkg[d].participants \subseteq Participant /\ dkg[d].repeats \in Nat
    BY DEF IInv, TypeOK, DKGRequest
<1>3. IsFiniteSet(dkg[d].participants)
    BY <1>2, ParticipantAssumption, FS_Subset
<1>4. /\ IsFiniteSet(CompletedParticipants(d))
      /\ Cardinality(CompletedParticipants(d)) <= Cardinality(dkg[d].participants)
      /\ Cardinality(CompletedParticipants(d)) = Cardinality(dkg[d].participants)
          => CompletedParticipants(d) = dkg[d].participants
    BY <1>1, <1>3, FS_Subset
<1>5. Cardinality(CompletedParticipants(d)) \in Nat /\ Cardinality(dkg[d].participants) \in Nat
    BY <1>3, <1>4, FS_CardinalityType
<1>6. CompletionsFull(d) <=> CompletedParticipants(d) = dkg[d].participants /\ dkg[d].repeats = 0
    BY <1>2, <1>4, <1>5 DEF CompletionsFull
<1> QED BY <1>1, <1>6 DEF AbsentParticipants

\* The end blocker resolves one DKG request.
LEMMA HandleDKGRequestStep ==
    ASSUME IInv, TypeOK', NEW d \in DkgId, NEW ok \in BOOLEAN, HandleDKGRequest(d, ok)
    PROVE  IInv'
<1>1. /\ phase = "dkg" /\ d \in todo /\ todo' = todo \ {d}
      /\ UNCHANGED <<now, phase, completion, refreshing, refreshed>>
    BY DKGRequestOutcomes, Zenon
<1>2. dkg[d].status = "PENDING"
    BY <1>1 DEF IInv, SnapshotPending
<1>3. PICK s \in {"PENDING", "TIMEDOUT", "COMPLETED", "FAILED"} :
          /\ dkg' = [dkg EXCEPT ![d].status = s]
          /\ s = "PENDING" => ~CompletionsFull(d)
          /\ s = "TIMEDOUT" => Expired(dkg[d])
          /\ s = "COMPLETED" => CompletionsFull(d) /\ CheckDKGCompletions(d)
    <2>1. dkg = [dkg EXCEPT ![d].status = "PENDING"]
        BY <1>2 DEF IInv, TypeOK, DKGRequest
    <2> QED BY <2>1, DKGRequestOutcomes, Zenon
<1>4. /\ dkg'[d].status = s /\ dkg'[d].participants = dkg[d].participants
      /\ dkg'[d].expiration = dkg[d].expiration /\ dkg'[d].repeats = dkg[d].repeats
      /\ \A e \in DkgId : e # d => dkg'[e] = dkg[e]
    BY <1>3 DEF IInv, TypeOK, DKGRequest
<1>5. \A e \in DkgId : /\ CompletedParticipants(e)' = CompletedParticipants(e)
                       /\ AbsentParticipants(e)' = AbsentParticipants(e)
    BY <1>1, <1>4 DEF CompletedParticipants, AbsentParticipants
<1>6. CompletionsFull(d) <=> AbsentParticipants(d) = {} /\ dkg[d].repeats = 0
    BY <1>2, FullMeansNoAbsentee
<1>7. CompletionsOfParticipants'
    BY <1>2, <1>3, <1>4, <1>5 DEF IInv, CompletionsOfParticipants
<1>8. SnapshotPending'
    BY <1>1, <1>4 DEF IInv, SnapshotPending
<1>9. AnsweredInTime'
    BY <1>1, <1>2, <1>3, <1>4, <1>5, <1>6 DEF IInv, AnsweredInTime
<1>10. CompletedUnanimous'
    <2>1. s = "COMPLETED" => /\ dkg[d].repeats = 0
                             /\ dkg[d].participants \subseteq CompletedParticipants(d)
                             /\ \A p, q \in CompletedParticipants(d) : completion[d][p] = completion[d][q]
        BY <1>3, <1>6 DEF CheckDKGCompletions, AbsentParticipants
    <2> QED BY <1>1, <1>4, <1>5, <2>1 DEF IInv, CompletedUnanimous
<1>11. TimeoutHasAbsentee'
    <2>1. s = "TIMEDOUT" /\ dkg[d].repeats = 0 => AbsentParticipants(d) # {}
        <3>1. now \in Nat /\ dkg[d].expiration \in Nat
            BY DEF IInv, TypeOK, DKGRequest
        <3> QED BY <1>2, <1>3, <3>1 DEF IInv, AnsweredInTime, Expired
    <2> QED BY <1>4, <1>5, <2>1 DEF IInv, TimeoutHasAbsentee
<1>12. RefreshingOfCompleted' /\ SolePending' /\ RemovedStayRemoved' /\ SoleRefreshingIsSafe'
    BY <1>1, <1>2, <1>4, RefreshingFrame
<1> QED BY <1>7, <1>8, <1>9, <1>10, <1>11, <1>12 DEF IInv

\* The end blocker resolves one refreshing request.
LEMMA HandleRefreshingRequestStep ==
    ASSUME IInv, TypeOK', NEW r \in RefreshId, HandleRefreshingRequest(r)
    PROVE  IInv'
<1> DEFINE d == refreshing[r].dkgId
<1>1. /\ phase = "refresh" /\ r \in todo /\ todo' = todo \ {r}
      /\ UNCHANGED <<now, phase, completion, refreshed>>
    BY DEF HandleRefreshingRequest, IsFirst
<1>2. refreshing[r].status = "PENDING" /\ d \in DkgId /\ dkg[d].status = "COMPLETED"
    BY <1>1 DEF IInv, SnapshotPending, RefreshingOfCompleted
<1>3. PICK s \in {"PENDING", "TIMEDOUT", "COMPLETED"} :
          /\ refreshing' = [refreshing EXCEPT ![r].status = s]
          /\ s # "COMPLETED" => dkg' = dkg
          /\ s = "COMPLETED" =>
                /\ Cardinality(refreshed[r]) = Cardinality(GetRefreshingParticipants(r))
                /\ dkg' = [dkg EXCEPT ![d].participants = GetRefreshingParticipants(r)]
    <2>1. refreshing = [refreshing EXCEPT ![r].status = "PENDING"]
        BY <1>2 DEF IInv, TypeOK, RefreshingRequest
    <2> QED BY <2>1, Zenon DEF HandleRefreshingRequest
<1>4. /\ refreshing'[r].status = s /\ refreshing'[r].dkgId = d
      /\ refreshing'[r].removed = refreshing[r].removed
      /\ \A q \in RefreshId : q # r => refreshing'[q] = refreshing[q]
    BY <1>3 DEF IInv, TypeOK, RefreshingRequest
<1>5. /\ dkg'[d].status = dkg[d].status /\ dkg'[d].threshold = dkg[d].threshold
      /\ dkg'[d].repeats = dkg[d].repeats
      /\ dkg'[d].participants = IF s = "COMPLETED" THEN GetRefreshingParticipants(r)
                                ELSE dkg[d].participants
      /\ \A e \in DkgId : e # d => dkg'[e] = dkg[e]
    <2>1. CASE s = "COMPLETED"
        <3> HIDE DEF d
        <3>1. dkg' = [dkg EXCEPT ![d].participants = GetRefreshingParticipants(r)]
            BY <1>3, <2>1
        <3>2. d \in DkgId /\ dkg \in [DkgId -> DKGRequest]
            BY <1>2 DEF IInv, TypeOK
        <3> QED BY <2>1, <3>1, <3>2 DEF DKGRequest
    <2>2. CASE s # "COMPLETED"
        BY <1>3, <2>2
    <2> QED BY <2>1, <2>2
<1>6. GetRefreshingParticipants(r) = dkg[d].participants \ refreshing[r].removed
    BY DEF GetRefreshingParticipants
<1>7. \A e \in DkgId : CompletedParticipants(e)' = CompletedParticipants(e)
    BY <1>1 DEF CompletedParticipants
<1>8. \A q \in RefreshId : SameDKG(q)' = SameDKG(q)
    BY <1>2, <1>3, <1>4 DEF SameDKG
<1>9. \A q \in RefreshId : q # r /\ SameDKG(q) = {q} => refreshing[q].dkgId # d
    BY <1>2 DEF SameDKG
<1>10. CompletionsOfParticipants'
    BY <1>2, <1>5, <1>7 DEF IInv, CompletionsOfParticipants
<1>11. SnapshotPending'
    BY <1>1, <1>4 DEF IInv, SnapshotPending
<1>12. RefreshingOfCompleted'
    BY <1>2, <1>3, <1>4, <1>5 DEF IInv, RefreshingOfCompleted
<1>13. AnsweredInTime'
    BY <1>1, <1>2, <1>5, <1>7 DEF IInv, AnsweredInTime, AbsentParticipants
<1>14. CompletedUnanimous'
    BY <1>1, <1>2, <1>5, <1>6, <1>7 DEF IInv, CompletedUnanimous
<1>15. TimeoutHasAbsentee'
    BY <1>2, <1>5, <1>7 DEF IInv, TimeoutHasAbsentee, AbsentParticipants
<1>16. RemovedStayRemoved'
    BY <1>2, <1>4, <1>5, <1>6 DEF IInv, RemovedStayRemoved, RefreshingOfCompleted
<1>17. SolePending'
    <2>1. \A q \in RefreshId : q # r /\ refreshing[q].status # "NONE" /\ SameDKG(q) = {q} =>
              dkg'[refreshing[q].dkgId] = dkg[refreshing[q].dkgId]
        BY <1>5, <1>9 DEF IInv, RefreshingOfCompleted
    <2>2. \A q \in RefreshId : q # r => refreshing'[q] = refreshing[q] /\ refreshed'[q] = refreshed[q]
        BY <1>1, <1>4
    <2>3. s = "PENDING" => dkg' = dkg /\ refreshed' = refreshed
        BY <1>1, <1>3
    <2> SUFFICES ASSUME NEW q \in RefreshId
                 PROVE  /\ refreshing'[q].status = "NONE" => refreshed'[q] = {}
                        /\ refreshing'[q].status = "PENDING" /\ SameDKG(q)' = {q} =>
                              /\ refreshing'[q].removed \subseteq dkg'[refreshing'[q].dkgId].participants
                              /\ RemainingSuffices(refreshing[q].dkgId, refreshing[q].removed)'
                              /\ refreshed'[q] \subseteq GetRefreshingParticipants(q)'
        BY DEF SolePending
    <2>4. CASE q = r
        BY <1>2, <1>3, <1>4, <1>8, <2>3, <2>4
           DEF IInv, SolePending, RemainingSuffices, GetRefreshingParticipants
    <2>5. CASE q # r
        BY <1>8, <2>1, <2>2, <2>5
           DEF IInv, SolePending, RemainingSuffices, GetRefreshingParticipants
    <2> QED BY <2>4, <2>5
<1>18. SoleRefreshingIsSafe'
    <2>1. ASSUME s = "COMPLETED", SameDKG(r) = {r}
          PROVE  /\ GetRefreshingParticipants(r) = refreshed[r]
                 /\ Cardinality(GetRefreshingParticipants(r)) >= dkg[d].threshold
                 /\ Cardinality(GetRefreshingParticipants(r)) >= MinDKGParticipantNum
        <3>1. /\ refreshing[r].removed \subseteq dkg[d].participants
              /\ RemainingSuffices(d, refreshing[r].removed)
              /\ refreshed[r] \subseteq GetRefreshingParticipants(r)
            BY <1>2, <2>1 DEF IInv, SolePending
        <3>2. IsFiniteSet(dkg[d].participants)
            <4>1. dkg[d].participants \subseteq Participant
                BY <1>2 DEF IInv, TypeOK, DKGRequest
            <4> QED BY <4>1, ParticipantAssumption, FS_Subset
        <3>3. /\ IsFiniteSet(GetRefreshingParticipants(r))
              /\ Cardinality(GetRefreshingParticipants(r))
                    = Cardinality(dkg[d].participants)
                      - Cardinality(dkg[d].participants \cap refreshing[r].removed)
            BY <1>6, <3>2, FS_Difference
        <3>4. dkg[d].participants \cap refreshing[r].removed = refreshing[r].removed
            BY <3>1
        <3>5. GetRefreshingParticipants(r) = refreshed[r]
            BY <1>3, <2>1, <3>1, <3>3, FS_Subset
        <3> QED BY <3>1, <3>3, <3>4, <3>5 DEF RemainingSuffices
    <2>2. \A q \in RefreshId : q # r /\ refreshing[q].status # "NONE" /\ SameDKG(q) = {q} =>
              dkg'[refreshing[q].dkgId] = dkg[refreshing[q].dkgId]
        BY <1>5, <1>9 DEF IInv, RefreshingOfCompleted
    <2> QED BY <1>1, <1>2, <1>3, <1>4, <1>5, <1>8, <2>1, <2>2 DEF IInv, SoleRefreshingIsSafe
<1> QED BY <1>10, <1>11, <1>12, <1>13, <1>14, <1>15, <1>16, <1>17, <1>18 DEF IInv

----------------------------------------------------------------------------
(* The theorems *)

\* Every step of x/tss preserves the inductive invariant.
LEMMA InvariantStep == IInv /\ [Next]_vars => IInv'
<1> SUFFICES ASSUME IInv, [Next]_vars PROVE IInv'
    OBVIOUS
<1>1. TypeOK'
    BY TypeStep DEF IInv
<1>2. CASE UNCHANGED vars
    <2>1. RefreshingOfCompleted' /\ SolePending' /\ RemovedStayRemoved' /\ SoleRefreshingIsSafe'
        BY <1>1, <1>2, RefreshingFrame DEF vars
    <2>2. CompletionsOfParticipants' /\ CompletedUnanimous' /\ TimeoutHasAbsentee'
        BY <1>2, DKGFrame DEF vars
    <2>3. SnapshotPending'
        BY <1>2 DEF vars, IInv, SnapshotPending
    <2>4. AnsweredInTime'
        BY <1>2 DEF vars, IInv, AnsweredInTime, AbsentParticipants, CompletedParticipants
    <2> QED BY <1>1, <2>1, <2>2, <2>3, <2>4 DEF IInv
<1>3. CASE Next
    BY <1>1, <1>3, InitiateDKGStep, CompleteDKGStep, RefreshStep, CompleteRefreshingStep,
       BlockStep, HandleDKGRequestStep, HandleRefreshingRequestStep DEF Next, RequestDKG, EndBlocker
<1> QED BY <1>2, <1>3

\* The invariant holds in every reachable state.
LEMMA Invariant == Spec => []IInv
<1>1. Init => IInv
    <2> SUFFICES ASSUME Init PROVE IInv
        OBVIOUS
    <2>1. TypeOK
        BY DEF Init, TypeOK, DKGRequest, RefreshingRequest, DKGStatus, RefreshingStatus,
               DkgId, RefreshId, NoDKGRequest, NoRefreshingRequest
    <2>2. \A d \in DkgId : dkg[d].status = "NONE" /\ CompletedParticipants(d) = {}
        BY DEF Init, NoDKGRequest, CompletedParticipants
    <2>3. \A r \in RefreshId : refreshing[r].status = "NONE" /\ refreshed[r] = {}
        BY DEF Init, NoRefreshingRequest
    <2>4. phase = "deliver" /\ todo = {}
        BY DEF Init
    <2> QED
        BY <2>1, <2>2, <2>3, <2>4
           DEF IInv, CompletionsOfParticipants, SnapshotPending, RefreshingOfCompleted,
               AnsweredInTime, SolePending, CompletedUnanimous, TimeoutHasAbsentee,
               RemovedStayRemoved, SoleRefreshingIsSafe
<1> QED BY <1>1, InvariantStep, PTL DEF Spec

\* A completed DKG was answered by all its participants, with one set of keys, and one that timed
\* out lacked the completion of a participant (handleDKGRequests).
THEOREM ResolutionIsJustifiedHolds == Spec => []ResolutionIsJustified
<1>1. IInv => ResolutionIsJustified
    BY DEF IInv, ResolutionIsJustified
<1> QED BY <1>1, Invariant, PTL

\* A participant removed by a completed refreshing never holds a share again, and a refreshing
\* that has its DKG for itself is completed by all remaining participants and leaves at least a
\* threshold of them (handleRefreshingRequests).
THEOREM RefreshingIsSoundHolds == Spec => []RefreshingIsSound
<1>1. IInv => RefreshingIsSound
    BY DEF IInv, RefreshingIsSound
<1> QED BY <1>1, Invariant, PTL

\* The status and the completions of a resolved DKG are final, and its
\* participants only shrink.
THEOREM ResolvedDKGIsFinalHolds == Spec => ResolvedDKGIsFinal
<1> DEFINE Final == \A d \in DkgId : dkg[d].status \notin {"NONE", "PENDING"} =>
                        /\ dkg'[d].status = dkg[d].status
                        /\ completion'[d] = completion[d]
                        /\ dkg'[d].participants \subseteq dkg[d].participants
<1>1. IInv /\ [Next]_vars => [Final]_vars
    <2> SUFFICES ASSUME IInv, Next PROVE Final
        OBVIOUS
    <2>1. ASSUME NEW d \in DkgId, NEW P \in SUBSET Participant, NEW repeats \in Repeats,
                 NEW duration \in Timeout, NEW threshold \in 1..(Cardinality(P) + repeats),
                 InitiateDKG(d, P, repeats, threshold, duration)
          PROVE Final
        BY <2>1 DEF InitiateDKG, IsNextDKG, IInv, TypeOK
    <2>2. ASSUME NEW d \in DkgId, NEW p \in Participant, NEW k \in Key, CompleteDKG(d, p, k)
          PROVE Final
        BY <2>2 DEF CompleteDKG, IInv, TypeOK
    <2>3. ASSUME NEW d \in DkgId, NEW ok \in BOOLEAN, HandleDKGRequest(d, ok)
          PROVE Final
        <3>1. completion' = completion /\ phase = "dkg" /\ d \in todo
            BY <2>3, DKGRequestOutcomes, Zenon
        <3>2. dkg[d].status = "PENDING"
            BY <3>1 DEF IInv, SnapshotPending
        <3>3. \/ dkg' = dkg
              \/ \E s \in DKGStatus : dkg' = [dkg EXCEPT ![d].status = s]
            BY <2>3, DKGRequestOutcomes, Zenon DEF DKGStatus
        <3>4. \A e \in DkgId : e # d => dkg'[e] = dkg[e]
            BY <3>3 DEF IInv, TypeOK
        <3> QED BY <3>1, <3>2, <3>4
    <2>4. ASSUME NEW r \in RefreshId, HandleRefreshingRequest(r)
          PROVE Final
        <3>1. completion' = completion
            BY <2>4 DEF HandleRefreshingRequest
        <3>2. \/ dkg' = dkg
              \/ dkg' = [dkg EXCEPT ![refreshing[r].dkgId].participants = GetRefreshingParticipants(r)]
            BY <2>4, Zenon DEF HandleRefreshingRequest
        <3>3. GetRefreshingParticipants(r) \subseteq dkg[refreshing[r].dkgId].participants
            BY DEF GetRefreshingParticipants
        <3>4. dkg \in [DkgId -> DKGRequest]
            BY DEF IInv, TypeOK
        <3> QED BY <3>1, <3>2, <3>3, <3>4 DEF DKGRequest
    <2>5. CASE UNCHANGED <<dkg, completion>>
        BY <2>5
    <2>6. ASSUME NEW r \in RefreshId, NEW d \in DkgId, NEW P \in SUBSET Participant,
                 NEW duration \in Timeout, Refresh(r, d, P, duration)
          PROVE Final
        BY <2>5, <2>6 DEF Refresh, dkgVars
    <2>7. ASSUME NEW r \in RefreshId, NEW p \in Participant, CompleteRefreshing(r, p)
          PROVE Final
        BY <2>5, <2>7 DEF CompleteRefreshing, dkgVars
    <2>8. CASE StartDKGRequests \/ StartRefreshingRequests \/ FinishEndBlocker \/ NextBlock
        BY <2>5, <2>8 DEF StartDKGRequests, StartRefreshingRequests, FinishEndBlocker,
                          NextBlock, dkgVars
    <2> HIDE DEF Final
    <2> QED BY <2>1, <2>2, <2>3, <2>4, <2>6, <2>7, <2>8 DEF Next, RequestDKG, EndBlocker
<1> QED BY <1>1, Invariant, PTL DEF Spec, ResolvedDKGIsFinal
=============================================================================
