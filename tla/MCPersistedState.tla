-------------------------- MODULE MCPersistedState --------------------------
(* Two hosts, two templates, two requests: a save in hand, one behind.       *)
EXTENDS PersistedState, TLC

Symmetric == Permutations(Handlers)
=============================================================================
