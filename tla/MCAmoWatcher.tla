---------------------------- MODULE MCAmoWatcher ----------------------------
(* Two buckets, loaded one after the other, with one or two names each.      *)
EXTENDS AmoWatcher

CONSTANTS users, rules, alice, bob, v1, v2

MCBucketOrder == <<users, rules>>

\* alice has a static entry among the users; nothing else is configured.
MCStatic ==
    [b \in {users, rules} |-> [k \in Keys |-> IF b = users /\ k = alice THEN v1 ELSE NoVal]]
=============================================================================
