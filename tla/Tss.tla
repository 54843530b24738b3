-------------------------------- MODULE Tss --------------------------------
(***************************************************************************)
(* The distributed key generations and key refreshings of x/tss.           *)
(*                                                                         *)
(* A block is a phase "deliver" in which messages are executed, the end    *)
(* blocker of x/tss (phase "dkg", then phase "refresh"), and a phase       *)
(* "commit" in which the end blockers of the other modules run (x/tss is   *)
(* ahead of btcbridge, liquidation, dlc and lending).  The two loops of    *)
(* the end blocker take one step per pending request, in id order, over    *)
(* the snapshot the loop starts from; no message interleaves with them.    *)
(*                                                                         *)
(* A list of public keys is one element of Key.  Signatures are assumed    *)
(* unforgeable, so a completion of p is an action of p.  Block time is an  *)
(* integer; 0 is Go's zero time ("never expires").                         *)
(***************************************************************************)
EXTENDS Integers, FiniteSets

CONSTANTS
    Participant,            \* consensus public keys of DKG participants
    Key,                    \* lists of public keys a DKG may report
    NoKey,                  \* no completion submitted
    MaxDkg,                 \* bound on the number of DKG requests
    MaxRefresh,             \* bound on the number of refreshing requests
    MaxTime,                \* bound on block time
    DKGTimeoutDuration,     \* module parameter, used when a timeout is 0
    Timeout,                \* timeout durations callers may ask for
    Repeats,                \* how many entries of a list of participants may repeat a key
    MinDKGParticipantNum,   \* 2 in the code
    MinDKGThreshold         \* 2 in the code

\* No key list is the marker of an absent completion.
ASSUME NoKeyAssumption == NoKey \notin Key
\* Bounds are naturals.
ASSUME BoundAssumption == MaxDkg \in Nat /\ MaxRefresh \in Nat /\ MaxTime \in Nat
\* validateDKGTimeoutDuration: the default timeout of a DKG is positive.
ASSUME TimeoutAssumption == DKGTimeoutDuration \in Nat \ {0} /\ Timeout \subseteq Nat
\* A list has as many entries as distinct keys, or more.
ASSUME RepeatsAssumption == Repeats \subseteq Nat
\* The minimal number of participants and the minimal threshold are naturals.
ASSUME MinAssumption == MinDKGParticipantNum \in Nat /\ MinDKGThreshold \in Nat
\* The chain has finitely many validators.
ASSUME ParticipantAssumption == IsFiniteSet(Participant)

VARIABLES
    now,            \* block time
    phase,          \* position in the block
    todo,           \* requests the running end-blocker loop has still to visit
    dkg,            \* DKG requests by id
    completion,     \* DKG completions: id, participant -> reported keys
    refreshing,     \* refreshing requests by id
    refreshed       \* refreshing completions: id -> participants

blockVars == <<now, phase, todo>>
dkgVars == <<dkg, completion>>
refreshVars == <<refreshing, refreshed>>
vars == <<now, phase, todo, dkg, completion, refreshing, refreshed>>

DkgId == 1..MaxDkg
RefreshId == 1..MaxRefresh

\* DKG_STATUS_*; "NONE" is an id that is not allocated yet.
DKGStatus == {"NONE", "PENDING", "COMPLETED", "FAILED", "TIMEDOUT"}

\* REFRESHING_STATUS_*.
RefreshingStatus == {"NONE", "PENDING", "COMPLETED", "TIMEDOUT"}

\* The participants are a list in the code: its keys, and how many more entries it has.
DKGRequest == [status: DKGStatus, participants: SUBSET Participant, repeats: Nat,
               threshold: Nat, expiration: Nat]

RefreshingRequest == [status: RefreshingStatus, dkgId: Nat,
                      removed: SUBSET Participant, expiration: Nat]

NoDKGRequest == [status |-> "NONE", participants |-> {}, repeats |-> 0,
                 threshold |-> 0, expiration |-> 0]

NoRefreshingRequest == [status |-> "NONE", dkgId |-> 0, removed |-> {},
                        expiration |-> 0]

Init ==
    /\ now = 1
    /\ phase = "deliver"
    /\ todo = {}
    /\ dkg = [d \in DkgId |-> NoDKGRequest]
    /\ completion = [d \in DkgId |-> [p \in Participant |-> NoKey]]
    /\ refreshing = [r \in RefreshId |-> NoRefreshingRequest]
    /\ refreshed = [r \in RefreshId |-> {}]

----------------------------------------------------------------------------
(* Helpers *)

\* The first id of S in the order of the store's iterators.
IsFirst(i, S) == i \in S /\ \A j \in S : i <= j

\* The next id of the counter: ids are allocated in order.
IsNextDKG(d) == /\ d \in DkgId /\ dkg[d].status = "NONE"
                /\ \A e \in DkgId : e < d => dkg[e].status # "NONE"

IsNextRefreshing(r) == /\ r \in RefreshId /\ refreshing[r].status = "NONE"
                       /\ \A s \in RefreshId : s < r => refreshing[s].status # "NONE"

\* GetExpirationTime: a zero duration never expires.
GetExpirationTime(duration) == IF duration = 0 THEN 0 ELSE now + duration

\* The timeout of a DKG: the module parameter when the caller gives none.
DKGTimeout_Raw(duration) == duration
DKGTimeout(duration) == IF duration = 0 THEN DKGTimeoutDuration ELSE duration

\* The expiry test of both end-blocker loops and of CompleteRefreshing.
Expired(req) == req.expiration # 0 /\ now >= req.expiration

\* CompleteDKG accepts completions strictly before the expiration time.
InTime_Inclusive(req) == now <= req.expiration
InTime(req) == now < req.expiration

\* CheckDKGParticipantNum.
CheckDKGParticipantNum(n) == n >= MinDKGParticipantNum

\* CheckDKGThreshold: MinDKGThreshold, at most n, and at least half of n rounded up.
CheckDKGThreshold(n, threshold) ==
    /\ threshold >= MinDKGThreshold
    /\ threshold <= n
    /\ threshold >= (n + 1) \div 2

\* Validate of the params: an allow list is empty, which allows everyone, or large enough for
\* a DKG.
ValidAllowList(S) == S = {} \/ CheckDKGParticipantNum(Cardinality(S))

\* GetCompletedDKGParticipants.
CompletedParticipants(d) == {p \in Participant : completion[d][p] # NoKey}

\* GetAbsentDKGParticipants: what the timeout handler of the module is given.
AbsentParticipants(d) == dkg[d].participants \ CompletedParticipants(d)

\* As many completions as the list has entries.  A participant answers once, however often it
\* is listed.
CompletionsFull(d) ==
    Cardinality(CompletedParticipants(d)) = Cardinality(dkg[d].participants) + dkg[d].repeats

\* CheckDKGCompletions: some completion, and all report the same keys.
CheckDKGCompletions(d) ==
    /\ CompletedParticipants(d) # {}
    /\ \A p, q \in CompletedParticipants(d) : completion[d][p] = completion[d][q]

\* GetRefreshingParticipants: the CURRENT participants of the DKG except the
\* ones the request removes.
GetRefreshingParticipants(r) ==
    dkg[refreshing[r].dkgId].participants \ refreshing[r].removed

\* GetRefreshingCompletions: as many answers as participants that have to answer.
RefreshingCompletionsFull(r) == Cardinality(refreshed[r]) = Cardinality(GetRefreshingParticipants(r))

\* GetDKGRequestsByStatus(PENDING): the snapshot of handleDKGRequests.
PendingDKGRequests_All == {d \in DkgId : dkg[d].status # "NONE"}
PendingDKGRequests == {d \in DkgId : dkg[d].status = "PENDING"}

\* What Refresh checks of the participants that remain.
RemainingSuffices_NoThreshold(d, removed) ==
    Cardinality(dkg[d].participants) - Cardinality(removed) >= MinDKGParticipantNum
RemainingSuffices(d, removed) ==
    LET remaining == Cardinality(dkg[d].participants) - Cardinality(removed) IN
    remaining >= MinDKGParticipantNum /\ remaining >= dkg[d].threshold

----------------------------------------------------------------------------
(* Messages and keeper calls *)

\* InitiateDKG, called while messages are delivered and by end blockers that run after x/tss.
InitiateDKG(d, participants, repeats, threshold, duration) ==
    LET timeout == DKGTimeout(duration) IN
    /\ phase \in {"deliver", "commit"}
    /\ IsNextDKG(d)
    /\ now + timeout <= MaxTime                               \* bound
    /\ dkg' = [dkg EXCEPT ![d] =
                  [status |-> "PENDING", participants |-> participants, repeats |-> repeats,
                   threshold |-> threshold,
                   expiration |-> GetExpirationTime(timeout)]]
    /\ UNCHANGED <<blockVars, completion, refreshVars>>

\* A request with the checks its callers are to make (ValidateBasic of the DCM message, the
\* oracle parameters), which count the entries of the list; module DlcOracle shows that x/dlc
\* makes them.
RequestDKG(d, participants, repeats, threshold, duration) ==
    LET entries == Cardinality(participants) + repeats IN
    /\ repeats > 0 => participants # {}
    /\ CheckDKGParticipantNum(entries)
    /\ CheckDKGThreshold(entries, threshold)
    /\ InitiateDKG(d, participants, repeats, threshold, duration)

\* MsgCompleteDKG by participant p reporting the keys k.
CompleteDKG(d, p, k) ==
    /\ phase = "deliver"
    /\ dkg[d].status = "PENDING"
    /\ InTime(dkg[d])
    /\ p \in dkg[d].participants
    /\ completion[d][p] = NoKey
    /\ completion' = [completion EXCEPT ![d][p] = k]
    /\ UNCHANGED <<blockVars, dkg, refreshVars>>

\* MsgRefresh for one DKG; a message naming several DKGs is several of these
\* in one block, each checked on its own.
Refresh(r, d, removed, duration) ==
    /\ phase = "deliver"
    /\ IsNextRefreshing(r)
    /\ dkg[d].status = "COMPLETED"
    /\ removed # {}
    /\ RemainingSuffices(d, removed)
    /\ removed \subseteq dkg[d].participants
    /\ now + duration <= MaxTime                              \* bound
    /\ refreshing' = [refreshing EXCEPT ![r] =
                         [status |-> "PENDING", dkgId |-> d, removed |-> removed,
                          expiration |-> GetExpirationTime(duration)]]
    /\ UNCHANGED <<blockVars, dkgVars, refreshed>>

\* MsgCompleteRefreshing by participant p.
CompleteRefreshing(r, p) ==
    /\ phase = "deliver"
    /\ refreshing[r].status = "PENDING"
    /\ ~Expired(refreshing[r])
    /\ p \in GetRefreshingParticipants(r)
    /\ p \notin refreshed[r]
    /\ refreshed' = [refreshed EXCEPT ![r] = @ \cup {p}]
    /\ UNCHANGED <<blockVars, dkgVars, refreshing>>

----------------------------------------------------------------------------
(* End blocker *)

\* EndBlocker: handleDKGRequests takes its snapshot of the pending requests.
StartDKGRequests ==
    /\ phase = "deliver"
    /\ phase' = "dkg"
    /\ todo' = PendingDKGRequests
    /\ UNCHANGED <<now, dkgVars, refreshVars>>

\* One iteration of handleDKGRequests.  ok is the outcome of the completed
\* handler of the module that asked for the DKG.
HandleDKGRequest(d, ok) ==
    /\ phase = "dkg"
    /\ IsFirst(d, todo)
    /\ todo' = todo \ {d}
    /\ \/ /\ Expired(dkg[d])
          /\ dkg' = [dkg EXCEPT ![d].status = "TIMEDOUT"]
       \/ /\ ~Expired(dkg[d]) /\ ~CompletionsFull(d)
          /\ UNCHANGED dkg
       \/ /\ ~Expired(dkg[d]) /\ CompletionsFull(d)
          /\ dkg' = [dkg EXCEPT ![d].status =
                        IF CheckDKGCompletions(d) /\ ok THEN "COMPLETED" ELSE "FAILED"]
    /\ UNCHANGED <<now, phase, completion, refreshVars>>

\* handleRefreshingRequests takes its snapshot.
StartRefreshingRequests ==
    /\ phase = "dkg" /\ todo = {}
    /\ phase' = "refresh"
    /\ todo' = {r \in RefreshId : refreshing[r].status = "PENDING"}
    /\ UNCHANGED <<now, dkgVars, refreshVars>>

\* One iteration of handleRefreshingRequests.
HandleRefreshingRequest(r) ==
    /\ phase = "refresh"
    /\ IsFirst(r, todo)
    /\ todo' = todo \ {r}
    /\ \/ /\ Expired(refreshing[r])
          /\ refreshing' = [refreshing EXCEPT ![r].status = "TIMEDOUT"]
          /\ UNCHANGED dkg
       \/ /\ ~Expired(refreshing[r])
          /\ ~RefreshingCompletionsFull(r)
          /\ UNCHANGED <<refreshing, dkg>>
       \/ /\ ~Expired(refreshing[r])
          /\ RefreshingCompletionsFull(r)
          /\ refreshing' = [refreshing EXCEPT ![r].status = "COMPLETED"]
          /\ dkg' = [dkg EXCEPT ![refreshing[r].dkgId].participants =
                        GetRefreshingParticipants(r)]
    /\ UNCHANGED <<now, phase, completion, refreshed>>

\* The end blocker of x/tss returns.
FinishEndBlocker ==
    /\ phase = "refresh" /\ todo = {}
    /\ phase' = "commit"
    /\ UNCHANGED <<now, todo, dkgVars, refreshVars>>

\* The next block; block time grows, up to the bound MaxTime.
NextBlock ==
    /\ phase = "commit"
    /\ phase' = "deliver"
    /\ now' = IF now < MaxTime THEN now + 1 ELSE now
    /\ UNCHANGED <<todo, dkgVars, refreshVars>>

EndBlocker ==
    \/ StartDKGRequests
    \/ \E d \in DkgId, ok \in BOOLEAN : HandleDKGRequest(d, ok)
    \/ StartRefreshingRequests
    \/ \E r \in RefreshId : HandleRefreshingRequest(r)
    \/ FinishEndBlocker

Next ==
    \/ \E d \in DkgId, P \in SUBSET Participant, repeats \in Repeats, duration \in Timeout :
          \E threshold \in 1..(Cardinality(P) + repeats) :
              RequestDKG(d, P, repeats, threshold, duration)
    \/ \E d \in DkgId, p \in Participant, k \in Key : CompleteDKG(d, p, k)
    \/ \E r \in RefreshId, d \in DkgId, P \in SUBSET Participant, duration \in Timeout :
          Refresh(r, d, P, duration)
    \/ \E r \in RefreshId, p \in Participant : CompleteRefreshing(r, p)
    \/ EndBlocker
    \/ NextBlock

\* Consensus keeps producing blocks, and every block runs its end blocker.
Fairness == WF_vars(EndBlocker) /\ WF_vars(NextBlock)

\* Every participant keeps running its TSS client.
ParticipantFairness ==
    \A r \in RefreshId, p \in Participant : WF_vars(CompleteRefreshing(r, p))

Spec == Init /\ [][Next]_vars

FairSpec == Spec /\ Fairness

ActiveSpec == FairSpec /\ ParticipantFairness

----------------------------------------------------------------------------
(* Properties *)

\* Every variable has its type.
TypeOK ==
    /\ now \in Nat
    /\ phase \in {"deliver", "dkg", "refresh", "commit"}
    /\ todo \subseteq (DkgId \cup RefreshId)
    /\ dkg \in [DkgId -> DKGRequest]
    /\ completion \in [DkgId -> [Participant -> Key \cup {NoKey}]]
    /\ refreshing \in [RefreshId -> RefreshingRequest]
    /\ refreshed \in [RefreshId -> SUBSET Participant]

\* A completed DKG carries a completion of each of its participants, and all
\* completions ever accepted for it report the same keys, whatever refreshings
\* followed (handleDKGRequests, CheckDKGCompletions).  One that lists a
\* participant twice does not complete: its threshold counts entries.
CompletedUnanimous ==
    \A d \in DkgId : dkg[d].status = "COMPLETED" =>
        /\ dkg[d].repeats = 0
        /\ dkg[d].participants \subseteq CompletedParticipants(d)
        /\ \A p, q \in CompletedParticipants(d) : completion[d][p] = completion[d][q]

\* A DKG that all participants answered in time is never timed out, unless it lists
\* one of them twice: the module is always told of at least one absent participant
\* (CompleteDKG refuses completions at the expiration time, the end blocker expires
\* from it on).
TimeoutHasAbsentee ==
    \A d \in DkgId :
        dkg[d].status = "TIMEDOUT" /\ dkg[d].repeats = 0 => AbsentParticipants(d) # {}

\* What the end blocker decides about a DKG is justified by the completions it has: it completes
\* with everybody's agreement and times out for want of an answer (handleDKGRequests).  Requests,
\* completions and queues keep their types.
ResolutionIsJustified == TypeOK /\ CompletedUnanimous /\ TimeoutHasAbsentee

\* Once a DKG is resolved its status and its completions are final, and its
\* participants change only by losing members (a late MsgCompleteDKG, a second
\* visit of the end blocker or a refreshing must not reopen it).
ResolvedDKGIsFinal ==
    [][\A d \in DkgId : dkg[d].status \notin {"NONE", "PENDING"} =>
          /\ dkg'[d].status = dkg[d].status
          /\ completion'[d] = completion[d]
          /\ dkg'[d].participants \subseteq dkg[d].participants]_vars

\* A participant removed by a completed refreshing never holds a share again,
\* even when refreshings of the same DKG overlap (GetRefreshingParticipants is
\* evaluated when the request completes, not when it is created).
RemovedStayRemoved ==
    \A r \in RefreshId : refreshing[r].status = "COMPLETED" =>
        dkg[refreshing[r].dkgId].participants \cap refreshing[r].removed = {}

\* Requests for the same DKG as r.
SameDKG(r) == {s \in RefreshId : refreshing[s].status # "NONE"
                                 /\ refreshing[s].dkgId = refreshing[r].dkgId}

\* A refreshing that has its DKG for itself completes only with the completions
\* of all remaining participants and leaves at least a threshold of them (the
\* checks of Refresh, made when the request is created, still hold when the end
\* blocker applies it).
SoleRefreshingIsSafe ==
    \A r \in RefreshId :
        refreshing[r].status = "COMPLETED" /\ SameDKG(r) = {r} =>
            LET d == refreshing[r].dkgId IN
            /\ dkg[d].participants = refreshed[r]
            /\ Cardinality(dkg[d].participants) >= dkg[d].threshold
            /\ Cardinality(dkg[d].participants) >= MinDKGParticipantNum

\* Completed refreshings take effect for good, and one by one they are safe
\* (handleRefreshingRequests).
RefreshingIsSound == RemovedStayRemoved /\ SoleRefreshingIsSafe

\* Every DKG is resolved: it completes, fails or times out.
DKGIsResolved ==
    \A d \in DkgId : dkg[d].status = "PENDING" ~> dkg[d].status \notin {"NONE", "PENDING"}

\* A refreshing with a timeout is resolved.
TimedRefreshingIsResolved ==
    \A r \in RefreshId :
        refreshing[r].status = "PENDING" /\ refreshing[r].expiration # 0
            ~> refreshing[r].status \in {"COMPLETED", "TIMEDOUT"}

\* Nothing that has a timeout stays pending, whatever the participants do: the end blocker needs
\* no message of anybody (handleDKGRequests, handleRefreshingRequests).
RequestsAreResolved == DKGIsResolved /\ TimedRefreshingIsResolved

\* What the checks of Refresh promise for every completed DKG: the participants
\* never drop below the threshold.  Overlapping refreshings of one DKG break it.
ThresholdKept ==
    \A d \in DkgId : dkg[d].status = "COMPLETED" =>
        Cardinality(dkg[d].participants) >= dkg[d].threshold

\* What the comment of CompleteRefreshing says: a refreshing is finalized when
\* all participants have submitted completions.  Broken by overlapping refreshings.
FinalizedByAllParticipants ==
    [][\A r \in RefreshId :
          refreshing[r].status = "PENDING" /\ refreshing'[r].status = "COMPLETED" =>
              GetRefreshingParticipants(r) \subseteq refreshed[r]]_vars

\* The other direction of the same comment: when all participants keep running
\* their clients, a pending refreshing is finalized (or times out).  Broken when
\* an overlapping refreshing removes a participant that has already answered.
RefreshingIsResolved ==
    \A r \in RefreshId : refreshing[r].status = "PENDING"
        ~> refreshing[r].status \in {"COMPLETED", "TIMEDOUT"}
=============================================================================
