---------------------------- MODULE BridgeVaults ----------------------------
(***************************************************************************)
(* The vaults of x/btcbridge and the key generations that create them.     *)
(* x/btcbridge has key generations and refreshings of its own, which work  *)
(* like those of x/tss: module Tss is instantiated for their requests.  A  *)
(* key list is the list of addresses, one per asset type, that a key       *)
(* generation reports; when it completes they become the vaults of a new   *)
(* version.  The vaults are part of the parameters, so that a proposal to  *)
(* update the parameters carries the vaults its author saw.                *)
(***************************************************************************)
EXTENDS Integers, Sequences, FiniteSets

CONSTANTS
    Participant, Key, NoKey, MaxDkg, MaxRefresh, MaxTime,
    MinDKGParticipantNum, MinDKGThreshold,      \* as in Tss
    Address,            \* addresses of vaults
    Addresses,          \* Addresses[k]: the vault address of each asset type in the list k
    GenesisVaults,      \* vaults of the genesis file, all of version 0
    DkgTimeoutPeriod,   \* parameter, positive
    RefreshTimeout,     \* timeouts of refreshings, 0 for never
    Base,               \* allow lists of x/tss
    MaxProposal         \* bound

VARIABLES
    now, phase, todo, dkg, completion, refreshing, refreshed,   \* as in Tss
    vaults,     \* Params.Vaults, in the order of the list
    version,    \* the latest vault version
    transfer,   \* EnableTransfer of each DKG request
    base,       \* AllowedDKGParticipants of x/tss
    proposal,   \* proposals to update the parameters: the vaults each carries, not executed yet
    replaced    \* history: the version at the last update of the parameters

tssVars == <<now, phase, todo, dkg, completion, refreshing, refreshed>>
paramVars == <<vaults, version, proposal, replaced>>
vars == <<tssVars, paramVars, transfer, base>>

T == INSTANCE Tss WITH DKGTimeoutDuration <- DkgTimeoutPeriod, Timeout <- RefreshTimeout \cup {DkgTimeoutPeriod},
                       Repeats <- {0}

\* SupportedAssetTypes, in their order.
AssetTypes == <<"BTC", "RUNES">>
Asset == {"BTC", "RUNES"}

DkgId == 1..MaxDkg
RefreshId == 1..MaxRefresh
Vault == [address : Address, asset : Asset, version : Nat]

\* validateTSSParams, validateVaults, and what a list of vaults is (MsgCompleteDKG.ValidateBasic).
ASSUME BridgeVaultsAssumption ==
    /\ \A S \in Base : T!ValidAllowList(S)
    /\ DkgTimeoutPeriod \in Nat \ {0} /\ RefreshTimeout \subseteq Nat /\ MaxProposal \in Nat
    /\ Addresses \in [Key -> [Asset -> Address]]
    /\ \A k \in Key, a, b \in Asset : Addresses[k][a] = Addresses[k][b] => a = b
    /\ GenesisVaults \in Seq(Vault) /\ \A i \in 1..Len(GenesisVaults) : GenesisVaults[i].version = 0

\* What Tss assumes of the constants it shares.
ASSUME TssAssumption ==
    /\ NoKey \notin Key
    /\ MaxDkg \in Nat /\ MaxRefresh \in Nat /\ MaxTime \in Nat
    /\ MinDKGParticipantNum \in Nat /\ MinDKGThreshold \in Nat
    /\ IsFiniteSet(Participant)

\* SelectVaultByAddress: the addresses of a list of vaults.
AddressesOf(list) == {list[i].address : i \in 1..Len(list)}

\* validateVaults.
NoDuplicates(list) == \A i, j \in 1..Len(list) : list[i].address = list[j].address => i = j

Init ==
    /\ T!Init
    /\ vaults = GenesisVaults /\ version = 0
    /\ transfer = [d \in DkgId |-> FALSE] /\ base \in Base
    /\ proposal = {} /\ replaced = 0

----------------------------------------------------------------------------
(* Messages *)

\* MsgInitiateDKG (ValidateBasic and the keeper).
ValidParticipants_Count(participants, threshold) == T!CheckDKGParticipantNum(Cardinality(participants))
ValidParticipants(participants, threshold) ==
    /\ T!CheckDKGParticipantNum(Cardinality(participants))
    /\ T!CheckDKGThreshold(Cardinality(participants), threshold)
InitiateDKG(d, participants, threshold, enableTransfer) ==
    /\ phase = "deliver" /\ ValidParticipants(participants, threshold)
    /\ base # {} => participants \subseteq base
    /\ T!InitiateDKG(d, participants, 0, threshold, DkgTimeoutPeriod)
    /\ transfer' = [transfer EXCEPT ![d] = enableTransfer]
    /\ UNCHANGED <<paramVars, base>>

\* CheckVaults: none of the addresses is a vault yet.
CheckVaults(k) == \A a \in Asset : Addresses[k][a] \notin AddressesOf(vaults)

\* MsgCompleteDKG.
CompleteDKG(d, p, k) ==
    /\ T!CompleteDKG(d, p, k) /\ CheckVaults(k)
    /\ UNCHANGED <<paramVars, transfer, base>>

\* MsgRefresh and MsgCompleteRefreshing.
Refresh(r, d, removed, duration) ==
    T!Refresh(r, d, removed, duration) /\ UNCHANGED <<paramVars, transfer, base>>
CompleteRefreshing(r, p) == T!CompleteRefreshing(r, p) /\ UNCHANGED <<paramVars, transfer, base>>

\* A proposal with a MsgUpdateParams that keeps the vaults as they are when it is written.
Propose ==
    /\ phase = "deliver" /\ Cardinality(proposal) < MaxProposal
    /\ proposal' = proposal \cup {vaults}
    /\ UNCHANGED <<tssVars, vaults, version, replaced, transfer, base>>

\* MsgUpdateParams, when the proposal has passed.
UpdateParams(list) ==
    /\ phase = "deliver" /\ NoDuplicates(list)
    /\ proposal' = proposal \ {list}
    /\ vaults' = list /\ replaced' = version
    /\ UNCHANGED <<tssVars, version, transfer, base>>

\* MsgUpdateParams of x/tss.
UpdateBase(B) ==
    phase = "deliver" /\ base' = B /\ UNCHANGED <<tssVars, paramVars, transfer>>

----------------------------------------------------------------------------
(* The end blocker *)

\* UpdateVaults: the addresses of the list, in the order of the asset types, as a new version.
NewVaults(k, v) == [i \in 1..2 |-> [address |-> Addresses[k][AssetTypes[i]], asset |-> AssetTypes[i], version |-> v]]
UpdateVaults_Replace(k) == version' = version + 1 /\ vaults' = NewVaults(k, version + 1)
UpdateVaults(k) == version' = version + 1 /\ vaults' = vaults \o NewVaults(k, version + 1)

\* One request of handleDKGRequests.
HandleDKGRequest(d) ==
    /\ T!HandleDKGRequest(d, TRUE)
    /\ IF dkg'[d].status = "COMPLETED"
       THEN \E p \in dkg[d].participants : UpdateVaults(completion[d][p])
       ELSE UNCHANGED <<vaults, version>>
    /\ UNCHANGED <<proposal, replaced, transfer, base>>

\* handleRefreshingRequests, and the steps between the loops.
HandleRefreshingRequest(r) == T!HandleRefreshingRequest(r) /\ UNCHANGED <<paramVars, transfer, base>>
BlockStep ==
    /\ T!StartDKGRequests \/ T!StartRefreshingRequests \/ T!FinishEndBlocker
    /\ UNCHANGED <<paramVars, transfer, base>>

\* GetVaultVersionByAddress: of the first vault with the address, 0 if there is none.
VersionOf(address) ==
    IF address \notin AddressesOf(vaults) THEN 0
    ELSE LET i == CHOOSE i \in 1..Len(vaults) : /\ vaults[i].address = address
                                                 /\ \A j \in 1..(i - 1) : vaults[j].address # address
         IN vaults[i].version

\* GetVaultByAssetTypeAndVersion finds a vault of each asset type.
HasVaults(v) == \A a \in Asset : \E i \in 1..Len(vaults) : vaults[i].asset = a /\ vaults[i].version = v

\* handleVaultTransfer looks up the version before the one of each DKG with transfer; without
\* vaults of that version it panics, and the block is not committed.
TransferSource(d) ==
    LET p == CHOOSE p \in Participant : completion[d][p] # NoKey
    IN VersionOf(Addresses[completion[d][p]]["BTC"]) - 1
TransferIsDefined ==
    \A d \in DkgId : transfer[d] /\ dkg[d].status = "COMPLETED" => HasVaults(TransferSource(d))

\* handleVaultTransfer, of which module Bridge has the transfers themselves, and the next block.
NextBlock == TransferIsDefined /\ T!NextBlock /\ UNCHANGED <<paramVars, transfer, base>>

Next ==
    \/ \E d \in DkgId, P \in SUBSET Participant, b \in BOOLEAN :
          \E threshold \in 1..Cardinality(P) : InitiateDKG(d, P, threshold, b)
    \/ \E d \in DkgId, p \in Participant, k \in Key : CompleteDKG(d, p, k)
    \/ \E r \in RefreshId, d \in DkgId, P \in SUBSET Participant, duration \in RefreshTimeout :
          Refresh(r, d, P, duration)
    \/ \E r \in RefreshId, p \in Participant : CompleteRefreshing(r, p)
    \/ Propose \/ \E list \in proposal : UpdateParams(list)
    \/ \E B \in Base : UpdateBase(B)
    \/ \E d \in DkgId : HandleDKGRequest(d)
    \/ \E r \in RefreshId : HandleRefreshingRequest(r)
    \/ BlockStep \/ NextBlock

Spec == Init /\ [][Next]_vars

----------------------------------------------------------------------------
(* Properties *)

\* Everything has its type.
TypeOK ==
    /\ T!TypeOK /\ vaults \in Seq(Vault) /\ version \in Nat /\ replaced \in 0..version
    /\ transfer \in [DkgId -> BOOLEAN] /\ base \in Base /\ proposal \subseteq Seq(Vault)

\* The requests of x/btcbridge behave like those of module Tss, for which the theorems of Tss hold:
\* its messages make the checks that a key generation needs, and nothing else touches the requests
\* (MsgInitiateDKG, MsgRefresh, the end blocker).
TssSpec == T!Spec

\* The vaults of a version come from one key generation and there is one for each asset type, or
\* none are left of it; also when parameters are replaced (UpdateVaults).
VersionsAreComplete ==
    \A v \in 1..version :
        \/ \A i \in 1..Len(vaults) : vaults[i].version # v
        \/ \E k \in Key : \A a \in Asset :
            \E i \in 1..Len(vaults) : vaults[i] = [address |-> Addresses[k][a], asset |-> a, version |-> v]

\* The versions created since the parameters were last replaced are there, the latest on top: no
\* completion drops the vaults of an earlier one (UpdateVaults, MsgUpdateParams).
VersionsAreKept == \A v \in (replaced + 1)..version : HasVaults(v)

\* Versions of the vaults are created whole and stay, in a state of the right types.
VersionsAreSound == TypeOK /\ VersionsAreComplete /\ VersionsAreKept

\* "Assume that vaults are validated" (x/btcbridge/keeper/transfer.go:323), by CheckVaults: an
\* address is never the vault of two versions.  Two DKGs that complete in one block break it.
VaultsAreDistinct == NoDuplicates(vaults)
=============================================================================
