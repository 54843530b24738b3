----------------------------- MODULE DlcOracle -----------------------------
(***************************************************************************)
(* The oracles of x/dlc.  The end blocker asks x/tss for key generations:  *)
(* nonces for the events of loans, whenever the queue of events runs low,  *)
(* and checks of the liveness of the oracle participants.  The handlers    *)
(* that x/tss calls back register oracles, nonces, events and DCMs, and    *)
(* keep a record of which participants answer.                             *)
(*                                                                         *)
(* The requests themselves are those of module Tss.  Block height is block *)
(* time.  Refreshings concern completed key generations only and change    *)
(* nothing that x/dlc keeps; they are left to Tss.                         *)
(***************************************************************************)
EXTENDS Integers, Sequences, FiniteSets, FiniteSetsExt, Functions

CONSTANTS
    Participant, Key, NoKey, MaxDkg, MaxTime,
    DKGTimeoutDuration, MinDKGParticipantNum, MinDKGThreshold,  \* as in Tss
    PubKey, Nonce,
    List,               \* List[k]: the public key and the nonces of the key list k
    Params,             \* parameters governance may choose
    Base,               \* allow lists of x/tss (AllowedDKGParticipants)
    LivenessInterval,   \* DefaultOracleParticipantLivenessCheckInterval
    LivenessTimeout     \* DefaultDKGTimeoutDuration of x/dlc

VARIABLES
    now, phase, todo, dkg, completion,      \* as in Tss
    step,           \* position in the end blocker of x/dlc
    params,
    base,           \* the allow list of x/tss
    purpose,        \* type and number of nonces of each DKG request
    liveness,       \* liveness records of participants
    oracle,         \* oracles: public key -> DKG
    dcm,            \* DCMs: public key -> DKG
    event,          \* events in the order of their ids: oracle and nonce
    pendingEvents,  \* queue of events not bound to a loan
    answered        \* history: the DKGs a participant has answered since it was allowed

tssVars == <<now, phase, todo, dkg, completion>>
storeVars == <<oracle, dcm, event, pendingEvents>>
vars == <<tssVars, step, params, base, purpose, liveness, storeVars, answered>>

Timeouts == {p.timeout : p \in Params} \cup {LivenessTimeout}
Repetitions == {0} \cup UNION {0..p.num : p \in Params}

T == INSTANCE Tss WITH MaxRefresh <- 0, refreshing <- <<>>, refreshed <- <<>>,
                       Timeout <- Timeouts, Repeats <- Repetitions

DkgId == 1..MaxDkg

\* The participants of an allow list, which may list one of them twice.
Listed(p) == Range(p.allowed)

\* Params.Validate
ValidParams(p) ==
    /\ p.queueSize > 0 /\ p.nonces >= 2 /\ p.interval > 0 /\ p.timeout >= 0
    /\ T!CheckDKGParticipantNum(p.num) /\ (p.allowed # <<>> => p.num <= Len(p.allowed))
    /\ T!CheckDKGThreshold(p.num, p.threshold)

\* The params of both modules, and what a key list is.
ASSUME DlcOracleAssumption ==
    /\ LivenessInterval \in Nat \ {0} /\ LivenessTimeout \in Nat \ {0}
    /\ Base \subseteq SUBSET Participant /\ \A S \in Base : T!ValidAllowList(S)
    /\ List \in [Key -> [key : PubKey, nonces : Seq(Nonce)]]
    /\ Params \subseteq [allowed : Seq(Participant), num : Nat, threshold : Nat, queueSize : Nat,
                         nonces : Nat, interval : Nat, timeout : Nat]
    /\ \A p \in Params : ValidParams(p)

\* What Tss assumes of the constants it shares; the minimal threshold is 2 in the code.
ASSUME TssAssumption ==
    /\ NoKey \notin Key
    /\ MaxDkg \in Nat /\ MaxTime \in Nat /\ DKGTimeoutDuration \in Nat \ {0}
    /\ MinDKGParticipantNum \in Nat /\ MinDKGThreshold \in Nat \ {0}
    /\ IsFiniteSet(Participant)

Alive == [alive |-> TRUE, last |-> 0]
NoPurpose == [type |-> "NONE", nonces |-> 0]

\* The genesis state: every allowed participant counts as alive.
Init ==
    /\ T!Init
    /\ step = "nonces" /\ params \in Params /\ base \in Base
    /\ purpose = [d \in DkgId |-> NoPurpose]
    /\ liveness = [p \in Listed(params) |-> Alive]
    /\ oracle = [k \in PubKey |-> 0] /\ dcm = [k \in PubKey |-> 0]
    /\ event = <<>> /\ pendingEvents = {}
    /\ answered = [p \in Participant |-> {}]

----------------------------------------------------------------------------
(* Participants *)

\* GetOracleParticipantBaseSet: entries of the allow list, by their position.
BaseSet == {i \in DOMAIN params.allowed : base = {} \/ params.allowed[i] \in base}

\* GetAllAliveOracleParticipants.
AliveSet == {i \in BaseSet : LET p == params.allowed[i] IN p \in DOMAIN liveness /\ liveness[p].alive}

\* SelectOracleParticipants: a choice seeded with the block time; empty when S is too small.
Select(S) == IF Cardinality(S) < params.num THEN {{}} ELSE kSubset(params.num, S)

\* GetOracleParticipants and GetRandomOracleParticipants.
RandomParticipants == Select(BaseSet)
OracleParticipants == IF Select(AliveSet) # {{}} THEN Select(AliveSet) ELSE RandomParticipants

\* The check of both end-blocker steps.
Sufficient_Alive == AliveSet # {}
Sufficient == Cardinality(BaseSet) >= params.num

----------------------------------------------------------------------------
(* Messages *)

\* The bounds MaxDkg and MaxTime leave room for a request.
Room(duration) == dkg[MaxDkg].status = "NONE" /\ now + T!DKGTimeout(duration) <= MaxTime

\* InitiateDKG of x/tss.
Initiate(type, participants, repeats, threshold, nonces, duration) ==
    \E d \in DkgId :
        /\ T!InitiateDKG(d, participants, repeats, threshold, duration)
        /\ purpose' = [purpose EXCEPT ![d] = [type |-> type, nonces |-> nonces]]

\* The request of the participants at the positions I of the allow list.
Ask(I, type, nonces, duration) ==
    LET P == {params.allowed[i] : i \in I}
    IN  Initiate(type, P, Cardinality(I) - Cardinality(P), params.threshold, nonces, duration)

\* MsgCreateDCM.
CreateDCM(participants, threshold, duration) ==
    /\ phase = "deliver"
    /\ T!CheckDKGParticipantNum(Cardinality(participants))
    /\ T!CheckDKGThreshold(Cardinality(participants), threshold)
    /\ base # {} => participants \subseteq base
    /\ Initiate("dcm", participants, 0, threshold, 0, duration)
    /\ UNCHANGED <<step, params, base, liveness, storeVars, answered>>

\* DKGCompletionReceivedHandler.
CompletionReceived(d, p) ==
    liveness' = IF purpose[d].type \in {"nonce", "liveness"} /\ p \in DOMAIN liveness
                THEN [liveness EXCEPT ![p] = [alive |-> TRUE, last |-> d]]
                ELSE liveness

\* MsgCompleteDKG, with the callback to x/dlc.
CompleteDKG(d, p, k) ==
    /\ T!CompleteDKG(d, p, k)
    /\ Len(List[k].nonces) = purpose[d].nonces
    /\ CompletionReceived(d, p)
    /\ answered' = [answered EXCEPT ![p] = IF purpose[d].type = "dcm" THEN @ ELSE @ \cup {d}]
    /\ UNCHANGED <<step, params, base, purpose, storeVars>>

\* UpdateOracleParticipantsLiveness: new participants are alive, removed ones are forgotten.
UpdatedLiveness(listed) ==
    [p \in listed |-> IF p \in DOMAIN liveness THEN liveness[p] ELSE Alive]

\* MsgUpdateParams of x/dlc (ValidateOracleParticipantAllowlist).
UpdateParams(p) ==
    /\ phase = "deliver"
    /\ base # {} => Listed(p) \subseteq base
    /\ params' = p /\ liveness' = UpdatedLiveness(Listed(p))
    /\ answered' = [q \in Participant |-> IF q \in Listed(p) \cap Listed(params) THEN answered[q] ELSE {}]
    /\ UNCHANGED <<tssVars, step, base, purpose, storeVars>>

\* MsgUpdateParams of x/tss: nobody checks the allow list of x/dlc against the new one.
UpdateBase(B) ==
    /\ phase = "deliver" /\ base' = B
    /\ UNCHANGED <<tssVars, step, params, purpose, liveness, storeVars, answered>>

\* GetAvailableLendingEvent, called by MsgApply of x/lending.
TakeEvent ==
    /\ phase = "deliver" /\ pendingEvents # {}
    /\ pendingEvents' = pendingEvents \ {Min(pendingEvents)}
    /\ UNCHANGED <<tssVars, step, params, base, purpose, liveness, oracle, dcm, event, answered>>

----------------------------------------------------------------------------
(* The handlers called by the end blocker of x/tss *)

\* DKGTimeoutHandler: absentees are dead unless everybody is absent.
TimedOut_AllAbsent(d) ==
    [p \in DOMAIN liveness |-> IF p \in T!AbsentParticipants(d) /\ liveness[p].last <= d
                               THEN [liveness[p] EXCEPT !.alive = FALSE] ELSE liveness[p]]
TimedOut(d) ==
    [p \in DOMAIN liveness |-> IF /\ p \in T!AbsentParticipants(d) /\ liveness[p].last <= d
                                  /\ T!AbsentParticipants(d) # dkg[d].participants
                               THEN [liveness[p] EXCEPT !.alive = FALSE] ELSE liveness[p]]

\* HandleNonces: an event for each nonce up to the first one that has been used before.
IsFresh(ns, i) == /\ \A j \in 1..(i - 1) : ns[j] # ns[i]
                  /\ \A e \in 1..Len(event) : event[e].nonce # ns[i]
Handled_All(ns) == Len(ns)
Handled(ns) == CHOOSE n \in 0..Len(ns) : /\ \A i \in 1..n : IsFresh(ns, i)
                                         /\ n < Len(ns) => ~IsFresh(ns, n + 1)

\* CreateOracle and HandleNonces; ok is what the handler returns.
NonceCompleted(d, k, ok) ==
    LET ns == List[k].nonces  n == Handled(ns)
    IN IF oracle[List[k].key] # 0
       THEN ~ok /\ UNCHANGED <<oracle, event, pendingEvents>>
       ELSE /\ ok <=> n = Len(ns)
            /\ oracle' = [oracle EXCEPT ![List[k].key] = d]
            /\ event' = event \o [i \in 1..n |-> [key |-> List[k].key, nonce |-> ns[i]]]
            /\ pendingEvents' = pendingEvents \cup (Len(event) + 1)..(Len(event) + n)

\* CreateDCM of the keeper.
DcmCompleted(d, k, ok) ==
    IF dcm[List[k].key] # 0 THEN ~ok /\ UNCHANGED dcm
    ELSE ok /\ dcm' = [dcm EXCEPT ![List[k].key] = d]

\* DKGCompletedHandler.
Completed(d, k, ok) ==
    CASE purpose[d].type = "dcm"      -> DcmCompleted(d, k, ok) /\ UNCHANGED <<oracle, event, pendingEvents>>
      [] purpose[d].type = "nonce"    -> NonceCompleted(d, k, ok) /\ UNCHANGED dcm
      [] purpose[d].type = "liveness" -> ok /\ UNCHANGED storeVars

\* handleDKGRequests of x/tss, with the handler that belongs to the outcome.
HandleDKGRequest(d, ok) ==
    /\ T!HandleDKGRequest(d, ok)
    /\ IF T!Expired(dkg[d]) THEN liveness' = TimedOut(d) /\ ok /\ UNCHANGED storeVars
       ELSE /\ UNCHANGED liveness
            /\ IF T!CompletionsFull(d) /\ T!CheckDKGCompletions(d)
               THEN \E p \in dkg[d].participants : Completed(d, completion[d][p], ok)
               ELSE ok /\ UNCHANGED storeVars
    /\ UNCHANGED <<step, params, base, purpose, answered>>

TssEndBlocker ==
    \/ /\ T!StartDKGRequests \/ T!StartRefreshingRequests \/ T!FinishEndBlocker
       /\ UNCHANGED <<step, params, base, purpose, liveness, storeVars, answered>>
    \/ \E d \in DkgId, ok \in BOOLEAN : HandleDKGRequest(d, ok)

----------------------------------------------------------------------------
(* The end blocker of x/dlc *)

\* generateLendingEventNonces.
GenerateNonces ==
    /\ phase = "commit" /\ step = "nonces" /\ step' = "liveness"
    /\ IF /\ now % params.interval = 0 /\ Cardinality(pendingEvents) < params.queueSize
          /\ Sufficient /\ Room(params.timeout)
       THEN \E I \in OracleParticipants : Ask(I, "nonce", params.nonces, params.timeout)
       ELSE UNCHANGED <<tssVars, purpose>>
    /\ UNCHANGED <<params, base, liveness, storeVars, answered>>

\* checkOracleParticipantLiveness.
CheckLiveness ==
    /\ phase = "commit" /\ step = "liveness" /\ step' = "done"
    /\ IF now % LivenessInterval = 0 /\ Sufficient /\ Room(LivenessTimeout)
       THEN \E I \in RandomParticipants : Ask(I, "liveness", 0, LivenessTimeout)
       ELSE UNCHANGED <<tssVars, purpose>>
    /\ UNCHANGED <<params, base, liveness, storeVars, answered>>

NextBlock ==
    /\ step = "done" /\ step' = "nonces" /\ T!NextBlock
    /\ UNCHANGED <<params, base, purpose, liveness, storeVars, answered>>

Next ==
    \/ \E P \in SUBSET Participant, duration \in Timeouts : \E threshold \in 1..Cardinality(P) :
            CreateDCM(P, threshold, duration)
    \/ \E d \in DkgId, p \in Participant, k \in Key : CompleteDKG(d, p, k)
    \/ \E p \in Params : UpdateParams(p)
    \/ \E B \in Base : UpdateBase(B)
    \/ TakeEvent
    \/ TssEndBlocker
    \/ GenerateNonces \/ CheckLiveness \/ NextBlock

Spec == Init /\ [][Next]_vars

----------------------------------------------------------------------------
(* Properties *)

\* Everything has its type.
TypeOK ==
    /\ T!TypeOK /\ step \in {"nonces", "liveness", "done"} /\ params \in Params /\ base \in Base
    /\ purpose \in [DkgId -> [type : {"NONE", "dcm", "nonce", "liveness"}, nonces : Nat]]
    /\ DOMAIN liveness \subseteq Participant
    /\ \A p \in DOMAIN liveness : liveness[p] \in [alive : BOOLEAN, last : Nat]
    /\ oracle \in [PubKey -> Nat] /\ dcm \in [PubKey -> Nat]
    /\ event \in Seq([key : PubKey, nonce : Nonce]) /\ pendingEvents \subseteq 1..Len(event)
    /\ answered \in [Participant -> SUBSET DkgId]

\* Every key generation that x/dlc asks for lists enough participants for a valid threshold,
\* although the two allow lists change independently and participants die: the end blocker asks
\* for none without as many entries left as the parameters say (GetOracleParticipants).  It does
\* not say that the entries are different participants: the parameters may list one twice
\* (validateOracleParticipants).  x/dlc drives x/tss in no other way than module Tss allows.
TssSpec == T!Spec

\* There is a liveness record for exactly the allowed participants, although completions of
\* participants that have been removed keep coming in (UpdateOracleParticipantsLiveness).
RecordsFollowAllowlist == DOMAIN liveness = Listed(params)

\* A participant is dead only if it missed a key generation that others answered: an outage of the
\* chain or of everybody kills nobody (DKGTimeoutHandler).
DeadMissedOthersAnswer ==
    \A p \in DOMAIN liveness : ~liveness[p].alive =>
        \E d \in DkgId : /\ dkg[d].status = "TIMEDOUT" /\ p \in T!AbsentParticipants(d)
                         /\ T!CompletedParticipants(d) # {}

\* Liveness is recorded for the allowed participants, and nobody is declared dead without cause.
LivenessIsJustified == RecordsFollowAllowlist /\ DeadMissedOthersAnswer

\* No nonce serves two events, within a batch or across batches: two signatures of an oracle with
\* one nonce reveal its key (HandleNonce).
NonceIsUsedOnce == \A e, f \in 1..Len(event) : event[e].nonce = event[f].nonce => e = f

\* The oracle and the nonce of an event were generated together, by participants that all reported
\* both (CreateOracle, HandleNonce).
EventHasItsOracle ==
    \A e \in 1..Len(event) : LET d == oracle[event[e].key] IN
        /\ d # 0
        /\ \A p \in dkg[d].participants :
            LET list == List[completion[d][p]]
            IN list.key = event[e].key /\ \E i \in DOMAIN list.nonces : list.nonces[i] = event[e].nonce

\* A completed key generation has left everything it was asked for: an event for each nonce, or
\* its DCM (DKGCompletedHandler).
CompletedIsStored ==
    \A d \in DkgId : dkg[d].status = "COMPLETED" =>
        \A p \in dkg[d].participants : LET list == List[completion[d][p]] IN
            /\ purpose[d].type = "dcm" => dcm[list.key] = d
            /\ purpose[d].type = "nonce" =>
                \A i \in DOMAIN list.nonces :
                    \E e \in 1..Len(event) : event[e] = [key |-> list.key, nonce |-> list.nonces[i]]

\* The keys of a completed key generation are shared by enough different participants for its
\* threshold, although a request counts a participant as often as the allow list names it
\* (SelectOracleParticipants, CheckDKGThreshold).
SharesAreDistinct ==
    \A d \in DkgId : dkg[d].status = "COMPLETED" =>
        LET n == Cardinality(dkg[d].participants)
        IN  T!CheckDKGParticipantNum(n) /\ T!CheckDKGThreshold(n, dkg[d].threshold)

\* What key generations leave behind is complete, consistent, shared and not used twice, also
\* when a handler fails half way (DKGCompletedHandler, HandleNonces).
NoncesAreSound ==
    /\ TypeOK /\ NonceIsUsedOnce /\ EventHasItsOracle /\ CompletedIsStored
    /\ SharesAreDistinct

\* What the duplicate checks of MsgCreateDCM (x/dlc/types/msg_create_dcm.go:36) and of the allow
\* list of x/tss are for: every key generation asked for has enough different participants.  It
\* fails when the allow list of x/dlc names one twice; that request can only time out.
ParticipantsAreDistinct == \A d \in DkgId : dkg[d].repeats = 0

\* "skip if the last dkg is later than the current one" (x/dlc/keeper/tss.go:60): the timeout of a
\* key generation does not kill a participant that has answered a later one.  It does when the
\* participant has answered an earlier one since.
LaterAnswerKeepsAlive ==
    [][\A d \in DkgId, p \in DOMAIN liveness \cap DOMAIN liveness' :
        /\ dkg[d].status = "PENDING" /\ dkg'[d].status = "TIMEDOUT"
        /\ liveness[p].alive /\ ~liveness'[p].alive
        => \A e \in answered[p] : e <= d]_vars
=============================================================================
