--------------------------- MODULE MCBridgeVaults ---------------------------
(* Instances of BridgeVaults for TLC. *)
EXTENDS BridgeVaults, TLC

CONSTANTS p1, p2, p3, k1, k2, a0, b0, a1, b1, a2, b2

AddressList(a, b) == "BTC" :> a @@ "RUNES" :> b
MCAddresses == k1 :> AddressList(a1, b1) @@ k2 :> AddressList(a2, b2)
MCGenesis == <<[address |-> a0, asset |-> "BTC", version |-> 0], [address |-> b0, asset |-> "RUNES", version |-> 0]>>
MCBase == {{}, {p1, p2}}

\* Either one key and its refreshings under a changing allow list, or two key generations of a
\* pair of participants and proposals to update the parameters.
OneKey == dkg[2].status = "NONE" /\ proposal = {} /\ replaced = 0
TwoKeys == /\ base = {} /\ \A r \in RefreshId : refreshing[r].status = "NONE"
           /\ \A d \in DkgId : dkg[d].participants \subseteq {p1, p2}
Bounded == OneKey \/ TwoKeys
=============================================================================
