---------------------------- MODULE MCBmhWatcher ----------------------------
(* Two data networks; in the first, two hosts share two addresses.          *)
EXTENDS BmhWatcher

CONSTANTS g10, g11, server1, server2, ip1, ip2, ip3, blue, red

MCNamespace == [h \in Hosts |-> g10]
MCAddresses == [ns \in Namespaces |-> IF ns = g11 THEN {ip3} ELSE {ip1, ip2}]

\* The DHCP source knows server2 by the address ip1.
MCLeases == [ip \in UNION {MCAddresses[ns] : ns \in Namespaces} |->
                IF ip = ip1 THEN server2 ELSE None]

\* Every host starts with the same labels: the other sets come by changes.
MCInit == Init /\ \A h \in Hosts : mkube[h].labels # red

MCSpec == MCInit /\ [][Next]_vars /\ Fairness
=============================================================================
