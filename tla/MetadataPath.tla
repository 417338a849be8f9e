---------------------------- MODULE MetadataPath ----------------------------
(***************************************************************************)
(* How a host's requests to 169.254.169.254 get to CloudID: by a route that*)
(* MicroDNS hands out with a lease (src/metadata_route.rs) and by a NAT    *)
(* rule of RouterOS (src/routeros_nat.rs). Two tasks of CloudID look after *)
(* them, for ever, each by asking first and then adding or changing; others*)
(* change both. An answer that does not come in time counts as a failure,  *)
(* and the request may still arrive later, or never.                       *)
(*                                                                         *)
(* Kept are the routes to 169.254.169.254 and the rules that               *)
(* ensure_nat_rule matches. The time slept between two rounds, and whether *)
(* a round is the first, change nothing but the time.                      *)
(***************************************************************************)
EXTENDS Naturals, Sequences, SequencesExt

CONSTANTS
    Networks,
    PoolsOf,            \* Networks -> its DHCP pools on MicroDNS
    Pools,
    NetworkStates,      \* [data, dhcp, dns, gateway] that a network may have
    Addresses,          \* addresses CloudID may listen on
    Elsewhere,          \* another address a rule may point to
    MaxTrouble          \* bound: failures and changes by others in a behaviour

ASSUME PathAssumption == PoolsOf \in [Networks -> SUBSET Pools] /\ MaxTrouble \in Nat

VARIABLES
    nets,       \* networks as mkube knows them
    routes,     \* the gateways of each pool's routes to 169.254.169.254
    rules,      \* NAT rules for 169.254.169.254:80, in order
    made,       \* number of rules ever made
    address,    \* the address CloudID listens on
    router,     \* the route manager
    nat,        \* the NAT manager
    late,       \* requests given up that may still arrive
    trouble     \* failures and changes so far

path == <<nets, routes, rules, made, address, router, nat, late, trouble>>

Counted == trouble < MaxTrouble /\ trouble' = trouble + 1

Resting == [at |-> "rest", todo |-> {}, pools |-> {}, gateway |-> {}, pool |-> {}]

RestingNat == [at |-> "rest", id |-> 0]

PathInit ==
    /\ nets \in [Networks -> NetworkStates]
    /\ routes = [p \in Pools |-> {}]
    /\ rules \in {<<>>, <<[id |-> 1, to |-> Elsewhere]>>}
    /\ made = Len(rules)
    /\ address \in Addresses
    /\ router = Resting /\ nat = RestingNat
    /\ late = {} /\ trouble = 0

----------------------------------------------------------------------------
(* The route manager.                                                      *)

\* Only data networks with DHCP need the route, and one without DNS gets none.
Wanted(s) == s.data /\ s.dhcp /\ s.dns

\* discover_and_configure asks mkube, with the gateways of that moment.
Discover ==
    /\ router.at = "rest"
    /\ \/ /\ router' = [Resting EXCEPT !.at = "networks",
                !.todo = {[net |-> n, gateway |-> nets[n].gateway] :
                             n \in {m \in Networks : Wanted(nets[m])}}]
          /\ UNCHANGED trouble
       \/ Counted /\ UNCHANGED router
    /\ UNCHANGED <<nets, routes, rules, made, address, nat, late>>

\* Mutation of Onward: the last pool of a network is not the end of it.
OnwardNowhere(k) == k

\* After the last pool of a network comes the next network.
Onward(k) == IF k.pools = {} THEN [Resting EXCEPT !.at = "networks", !.todo = k.todo] ELSE k

\* ensure_route of the next network; pools that cannot be listed are skipped.
ListPools ==
    /\ router.at = "networks"
    /\ \/ /\ router.todo = {}
          /\ router' = Resting /\ UNCHANGED trouble
       \/ \E t \in router.todo :
             LET rest == [router EXCEPT !.todo = @ \ {t}]
             IN  \/ /\ router' = Onward([rest EXCEPT !.at = "pools", !.pools = PoolsOf[t.net],
                                                     !.gateway = {t.gateway}])
                    /\ UNCHANGED trouble
                 \/ Counted /\ router' = rest
    /\ UNCHANGED <<nets, routes, rules, made, address, nat, late>>

\* A pool that has a route keeps it, through whatever gateway it is.
CheckRoute ==
    /\ router.at = "pools"
    /\ \E p \in router.pools :
          LET rest == [router EXCEPT !.pools = @ \ {p}]
          IN  \/ /\ routes[p] = {}
                 /\ router' = [rest EXCEPT !.at = "add", !.pool = {p}]
                 /\ UNCHANGED trouble
              \/ /\ routes[p] # {}
                 /\ router' = Onward(rest) /\ UNCHANGED trouble
              \/ Counted /\ router' = Onward(rest)
    /\ UNCHANGED <<nets, routes, rules, made, address, nat, late>>

\* MicroDNS keeps one route for a destination and gateway.
AddRoute ==
    /\ router.at = "add"
    /\ \E p \in router.pool : \E g \in router.gateway :
          \/ /\ routes' = [routes EXCEPT ![p] = @ \cup {g}]
             /\ UNCHANGED <<late, trouble>>
          \/ /\ Counted
             /\ late' = late \cup {[kind |-> "route", pool |-> p, gateway |-> g]}
             /\ UNCHANGED routes
    /\ router' = Onward([router EXCEPT !.at = "pools", !.pool = {}])
    /\ UNCHANGED <<nets, rules, made, address, nat>>

----------------------------------------------------------------------------
(* The NAT manager.                                                        *)

IndexOf(id) == SelectInSeq(rules, LAMBDA r : r.id = id)

Update(id, to) ==
    rules' = IF IndexOf(id) = 0 THEN rules ELSE [rules EXCEPT ![IndexOf(id)].to = to]

Create(to) == made' = made + 1 /\ rules' = Append(rules, [id |-> made + 1, to |-> to])

\* Mutation of GetRules: where a rule points to is not looked at.
GetRulesThere ==
    /\ nat.at = "rest"
    /\ \/ nat' = (IF rules = <<>> THEN [nat EXCEPT !.at = "put"] ELSE nat) /\ UNCHANGED trouble
       \/ Counted /\ UNCHANGED nat
    /\ UNCHANGED <<nets, routes, rules, made, address, router, late>>

\* The first rule that matches: leave it, change it, or make one.
GetRules ==
    /\ nat.at = "rest"
    /\ \/ /\ nat' = IF rules = <<>> THEN [nat EXCEPT !.at = "put"]
                    ELSE IF rules[1].to = address THEN nat
                    ELSE [at |-> "patch", id |-> rules[1].id]
          /\ UNCHANGED trouble
       \/ Counted /\ UNCHANGED nat
    /\ UNCHANGED <<nets, routes, rules, made, address, router, late>>

PutRule ==
    /\ nat.at = "put"
    /\ \/ Create(address) /\ UNCHANGED <<late, trouble>>
       \/ /\ Counted
          /\ late' = late \cup {[kind |-> "put", to |-> address]}
          /\ UNCHANGED <<rules, made>>
    /\ nat' = RestingNat
    /\ UNCHANGED <<nets, routes, address, router>>

\* A rule removed meanwhile is not found: an error, and the next round makes one.
PatchRule ==
    /\ nat.at = "patch"
    /\ \/ Update(nat.id, address) /\ UNCHANGED <<late, trouble>>
       \/ /\ Counted
          /\ late' = late \cup {[kind |-> "patch", id |-> nat.id, to |-> address]}
          /\ UNCHANGED rules
    /\ nat' = RestingNat
    /\ UNCHANGED <<nets, routes, made, address, router>>

----------------------------------------------------------------------------
(* Others.                                                                 *)

\* A request given up arrives after all. One that never does was lost, as its
\* answer may have been when it arrives at once.
Arrive(m) ==
    /\ m \in late
    /\ late' = late \ {m}
    /\ \/ /\ m.kind = "route"
          /\ routes' = [routes EXCEPT ![m.pool] = @ \cup {m.gateway}]
          /\ UNCHANGED <<rules, made>>
       \/ m.kind = "put" /\ Create(m.to) /\ UNCHANGED routes
       \/ m.kind = "patch" /\ Update(m.id, m.to) /\ UNCHANGED <<routes, made>>
    /\ UNCHANGED <<nets, address, router, nat, trouble>>

\* CloudID stops and starts again, perhaps at another address.
Restart(a) ==
    /\ Counted
    /\ address' = a
    /\ router' = Resting /\ nat' = RestingNat
    /\ UNCHANGED <<nets, routes, rules, made, late>>

ChangeNetwork(n, s) ==
    /\ Counted /\ nets[n] # s
    /\ nets' = [nets EXCEPT ![n] = s]
    /\ UNCHANGED <<routes, rules, made, address, router, nat, late>>

LoseRoutes(p) ==
    /\ Counted /\ routes[p] # {}
    /\ routes' = [routes EXCEPT ![p] = {}]
    /\ UNCHANGED <<nets, rules, made, address, router, nat, late>>

\* An administrator removes, redirects or puts a rule first.
ChangeRules ==
    /\ Counted
    /\ \/ rules # <<>> /\ rules' = Tail(rules) /\ UNCHANGED made
       \/ rules # <<>> /\ Update(rules[1].id, Elsewhere) /\ UNCHANGED made
       \/ made' = made + 1 /\ rules' = <<[id |-> made + 1, to |-> Elsewhere]>> \o rules
    /\ UNCHANGED <<nets, routes, address, router, nat, late>>

RouterStep == Discover \/ ListPools \/ CheckRoute \/ AddRoute
NatStep    == GetRules \/ PutRule \/ PatchRule

Others ==
    \/ \E m \in late : Arrive(m)
    \/ \E a \in Addresses : Restart(a)
    \/ \E n \in Networks, s \in NetworkStates : ChangeNetwork(n, s)
    \/ \E p \in Pools : LoseRoutes(p)
    \/ ChangeRules

PathNext == RouterStep \/ NatStep \/ Others

\* Both tasks loop for ever, with a timeout on every request.
PathFairness == WF_path(RouterStep) /\ WF_path(NatStep)

----------------------------------------------------------------------------
(* Properties.                                                             *)

PathTypeOK ==
    /\ nets \in [Networks -> NetworkStates]
    /\ routes \in [Pools -> SUBSET {s.gateway : s \in NetworkStates}]
    /\ \A i \in DOMAIN rules : rules[i].id \in 1 .. made
                                  /\ rules[i].to \in Addresses \cup {Elsewhere}
    /\ router.at \in {"rest", "networks", "pools", "add"}
    /\ (router.at = "pools") => (router.pools # {})
    /\ (router.at = "add") = (router.pool # {})
    /\ nat.at \in {"rest", "put", "patch"} /\ address \in Addresses
    /\ trouble \in 0 .. MaxTrouble

RouteThere(n) == Wanted(nets[n]) => \A p \in PoolsOf[n] : routes[p] # {}

RuleRight == rules # <<>> /\ rules[1].to = address

\* "Adding a new data network in mkube is all that's needed": whatever failed,
\* arrived late or was changed by others before, from some time on every pool of
\* a data network with DHCP has a route and the rule that counts points to
\* CloudID, at the address it has had since it last started.
PathHeals == <>[](RuleRight /\ \A n \in Networks : RouteThere(n))
=============================================================================
