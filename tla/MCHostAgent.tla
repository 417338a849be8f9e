----------------------------- MODULE MCHostAgent -----------------------------
(* A host with two users on one of two networks; its entry in the cache loses *)
(* its first user, so that the places of the others move, or the keys of one. *)
EXTENDS HostAgent

CONSTANTS n1, n2, p1, p2, g1, g2, here, there, core, root, k1, k2

MCPoolsOf == [n \in {n1, n2} |-> IF n = n1 THEN {p1} ELSE {p2}]

On(gateway) == [data |-> TRUE, dhcp |-> TRUE, dns |-> TRUE, gateway |-> gateway]

MCNetworkStates == {On(g1), On(g2), [On(g1) EXCEPT !.dhcp = FALSE]}

Entry(user, keys) == [user |-> user, keys |-> keys]

Both == <<Entry(core, k1), Entry(root, k2)>>

MCListings ==
    {Both, <<Entry(root, k2)>>, <<Entry(core, NoKeys), Entry(root, k1)>>, NoEntry}

\* The second network always is as it should be.
MCInit ==
    /\ Init
    /\ nets = [n \in Networks |-> On(g1)] /\ served = Both /\ address = here /\ rules = <<>>

MCSpec == MCInit /\ [][Next]_vars /\ Fairness
=============================================================================
