--------------------------- MODULE MetadataService ---------------------------
(***************************************************************************)
(* What MetadataCache promises to those who look an address up: the cache  *)
(* is either as it was, or being filled, or exactly what is due. Tasks,    *)
(* locks, passes and entries do not appear; all rebuilds that overlap are  *)
(* one filling, during which nothing that is due changes and at the end of *)
(* which everything due, and nothing else, is served at once.              *)
(***************************************************************************)
CONSTANTS
    IPs,        \* source addresses
    Metadata    \* what may be due to one, "nothing" included

VARIABLES
    due,        \* what the sources say of each address
    served,     \* what the cache says of each address; while filled, no promise
    filling,    \* the cache is being filled
    behind      \* something due has changed and no filling has taken it up

service == <<due, served, filling, behind>>

NoPromise == [ip \in {} |-> ip]

Init ==
    /\ due \in [IPs -> Metadata]
    /\ served = due
    /\ filling = FALSE /\ behind = FALSE

\* The sources change, but never under a filling.
Change ==
    /\ ~filling
    /\ due' \in [IPs -> Metadata]
    /\ behind' = TRUE
    /\ UNCHANGED <<served, filling>>

Fill ==
    /\ ~filling
    /\ filling' = TRUE /\ served' = NoPromise
    /\ UNCHANGED <<due, behind>>

TakeUp ==
    /\ filling
    /\ behind' = FALSE
    /\ UNCHANGED <<due, served, filling>>

\* A filling ends only when all that is due is served.
Serve ==
    /\ filling /\ ~behind
    /\ filling' = FALSE /\ served' = due
    /\ UNCHANGED <<due, behind>>

Next == Change \/ Fill \/ TakeUp \/ Serve

Spec == Init /\ [][Next]_service
=============================================================================
