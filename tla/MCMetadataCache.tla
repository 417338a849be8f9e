-------------------------- MODULE MCMetadataCache --------------------------
(* Small instances of MetadataCache.                                       *)
EXTENDS MetadataCache, TLC

CONSTANTS ip1, ip2, amo, bmh, refresh, pods, Refreshers

User(on, keys) == [enabled |-> on, keys |-> keys]

Subject(kind, name) == [kind |-> kind, name |-> name]

\* h1 and h2 are one host group, alice is the operators and may use sudo there;
\* she and bob may log in to what is labelled "prod". Then alice is disabled.
WebRule ==
    [targets   |-> [hosts |-> {}, host_groups |-> {"web"}, host_selectors |-> {}],
     subjects  |-> {Subject("Group", "operators")},
     ssh_users |-> {"core"}, sudo |-> TRUE]

ProdRule ==
    [targets   |-> [hosts |-> {}, host_groups |-> {},
                    host_selectors |-> {[env |-> "prod"]}],
     subjects  |-> {Subject("User", "bob"), Subject("User", "alice")},
     ssh_users |-> {"core", "root"}, sudo |-> FALSE]

Identity(users, access) ==
    [users       |-> users,
     groups      |-> [operators |-> {"alice"}],
     host_groups |-> [web |-> {"h1", "h2"}],
     host_access |-> access]

MCIdentityStates ==
    {Identity([alice |-> User(on, {"k1"}), bob |-> User(TRUE, {"k2"})],
              [r1 |-> WebRule, r2 |-> ProdRule]) : on \in BOOLEAN}

\* Empty (as a load leaves it for a while), and with both addresses known: h1 by
\* its BareMetalHost, h2 only by a lease.
MCBmhStates ==
    {EmptyBmh,
     [ip_to_hostname |-> (ip1 :> "h1" @@ ip2 :> "h2"),
      host_labels    |-> [h1 |-> [env |-> "prod"]]]}

\* ip2 is also the address of one of alice's containers.
MCContainerStates ==
    {EmptyContainers,
     [ip_to_container  |-> (ip2 :> [namespace |-> "ns", pod_name |-> "pod"]),
      namespace_owners |-> [ns |-> "alice"]]}

MCRuleOrder == <<"r1", "r2">>

MCTarget == [w \in Writers |-> CASE w = amo  -> "identity"
                                 [] w \in {bmh, refresh} -> "bmh"
                                 [] w = pods -> "containers"]

FairSpec == Spec /\ Fairness(Refreshers)
=============================================================================
