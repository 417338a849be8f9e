------------------------------ MODULE Resolve ------------------------------
(***************************************************************************)
(* What src/resolve.rs computes: the login metadata of one address, from   *)
(* the identity data (users, groups, host access rules, host groups) and   *)
(* what is known of the host or the container behind the address.          *)
(*                                                                         *)
(* A HashMap is a function whose domain is its key set, an Option is a set *)
(* of at most one element (also that of a HostMetadata), a list whose      *)
(* order no caller depends on is a set. Formatting (user_data, the domain  *)
(* suffix) is left out.                                                    *)
(***************************************************************************)
EXTENDS Naturals, Sequences

CONSTANTS
    RuleOrder,    \* HashMap iteration order of the rule names, one per process
    Wildcard      \* the host pattern "*"

\* Option::None for a HostMetadata.
NoMeta == {}

----------------------------------------------------------------------------
(* Step 1: rules that match a host.                                        *)

SelectorMatches(selector, labels) ==
    \A k \in DOMAIN selector : k \in DOMAIN labels /\ labels[k] = selector[k]

\* labels is an Option: a host known only from a DHCP lease has none, and then
\* no selector matches it, not even the empty one.
RuleMatches(targets, hostname, labels, identity) ==
    \/ targets.hosts \cap {hostname, Wildcard} # {}
    \/ \E g \in targets.host_groups \cap DOMAIN identity.host_groups :
           hostname \in identity.host_groups[g]
    \/ \E l \in labels, s \in targets.host_selectors : SelectorMatches(s, l)

\* Mutation of find_matching_rules: a host without labels is passed over.
rules_of_labelled(hostname, labels, identity) ==
    {r \in DOMAIN identity.host_access :
        /\ labels # {}
        /\ RuleMatches(identity.host_access[r].targets, hostname, labels, identity)}

find_matching_rules(hostname, labels, identity) ==
    {r \in DOMAIN identity.host_access :
        RuleMatches(identity.host_access[r].targets, hostname, labels, identity)}

----------------------------------------------------------------------------
(* Step 2: the users a rule names, and those of them that may log in.      *)

expand_subjects(subjects, identity) ==
    {s.name : s \in {x \in subjects : x.kind = "User"}}
      \cup UNION {identity.groups[s.name] :
                    s \in {x \in subjects : /\ x.kind = "Group"
                                            /\ x.name \in DOMAIN identity.groups}}

\* Mutation of EnabledUsers: the status is not consulted.
AllUsers(identity) == DOMAIN identity.users

EnabledUsers(identity) ==
    {u \in DOMAIN identity.users : identity.users[u].enabled}

Granted(rule, identity) ==
    expand_subjects(rule.subjects, identity) \cap EnabledUsers(identity)

\* Mutation of FirstRule: the first rule of all sets everybody's sudo.
FirstRuleOfAll(rules) == RuleOrder[1]

\* The rule that sets a user's sudo: the first one the iteration meets.
FirstRule(rules) ==
    RuleOrder[CHOOSE i \in DOMAIN RuleOrder :
                /\ RuleOrder[i] \in rules
                /\ \A j \in 1 .. (i - 1) : RuleOrder[j] \notin rules]

----------------------------------------------------------------------------
(* Steps 3 and 4: the metadata of a host.                                  *)

resolve_host(ip, hostname, labels, identity) ==
    LET access   == identity.host_access
        granting == {r \in find_matching_rules(hostname, labels, identity) :
                        Granted(access[r], identity) # {}}
        ssh      == UNION {access[r].ssh_users : r \in granting}
        users    == UNION {Granted(access[r], identity) : r \in granting}
        rulesFor(u) == {r \in granting : u \in Granted(access[r], identity)}
    IN  IF ssh = {} THEN NoMeta
        ELSE {[instance_id |-> hostname,
               local_ipv4  |-> ip,
               public_keys |->
                 [s \in ssh |->
                     UNION {identity.users[u].keys :
                              u \in {v \in users : \E r \in rulesFor(v) :
                                                      s \in access[r].ssh_users}}],
               users       |->
                 [u \in users |->
                     [sudo |-> access[FirstRule(rulesFor(u))].sudo,
                      keys |-> identity.users[u].keys]]]}

\* A container answers to the owner of its namespace: no rule is consulted, but
\* an owner without a key yields nothing.
resolve_container(ip, info, owner, identity) ==
    IF owner \notin EnabledUsers(identity) THEN NoMeta
    ELSE LET keys == identity.users[owner].keys
         IN  IF keys = {} THEN NoMeta
             ELSE {[instance_id |-> <<info.namespace, info.pod_name>>,
                    local_ipv4  |-> ip,
                    public_keys |-> [s \in {owner, "admin", "root"} |-> keys],
                    users       |-> [u \in {owner, "root"} |->
                                        [sudo |-> TRUE, keys |-> keys]]]}
=============================================================================
