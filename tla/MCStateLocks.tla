---------------------------- MODULE MCStateLocks ----------------------------
(* Instances of StateLocks: the watchers and provisioning requests, and the *)
(* same watchers beside a request for the debug page.                       *)
EXTENDS StateLocks, TLC

CONSTANTS amo, bmh, pods, req, debug

MCRole == [t \in Tasks |-> CASE t = amo   -> "amo"
                             [] t = bmh   -> "bmh"
                             [] t = pods  -> "container"
                             [] t = req   -> "provision"
                             [] t = debug -> "debug"]
=============================================================================
