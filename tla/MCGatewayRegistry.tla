------------------------- MODULE MCGatewayRegistry -------------------------
(* Instances of GatewayRegistry for TLC. *)
EXTENDS GatewayRegistry, TLC

Symmetry == Permutations(Codes) \cup Permutations(Gateways) \cup Permutations(Requests)

\* Codes, registrations and revocations; nothing is sent.
Registering == born = [e \in Events |-> Never] /\ ~claimed /\ now <= 2

\* One gateway, registered at once, and its events.
Delivering ==
    /\ \A c \in Codes : codes[c].until <= CodeLife
    /\ \A q \in Requests : req[q].op # "register"
    /\ claimed \/ now = 0
    /\ now > 0 => token # Null
    /\ \A g \in Gateways : gateways[g] # Null /\ gateways[g].revoked # Never =>
         now <= gateways[g].revoked + 2
    /\ now >= KeepFor => Cardinality({q \in Requests : req[q] # Idle}) <= 1
    /\ Cardinality({c \in Codes : codes[c].state # "none"}) <= 1
    /\ Cardinality({g \in Gateways : gateways[g] # Null}) <= 1

Scenes == Registering \/ Delivering

=============================================================================
