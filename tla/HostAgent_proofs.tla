-------------------------- MODULE HostAgent_proofs --------------------------
(***************************************************************************)
(* Proofs about HostAgent and the MetadataPath it takes, for any networks, *)
(* pools, addresses, users and entries of the cache, and any number of     *)
(* failures and changes: whose keys a file holds, and that it keeps them.  *)
(***************************************************************************)
EXTENDS HostAgent, WellFoundedInduction, TLAPS

----------------------------------------------------------------------------
(* The inductive invariant.                                                *)

Gateways == {s.gateway : s \in NetworkStates}
Targets  == Addresses \cup {Elsewhere}

Routers == [at      : {"rest", "networks", "pools", "add"},
            todo    : SUBSET [net : Networks, gateway : Gateways],
            pools   : SUBSET Pools,
            gateway : SUBSET Gateways,
            pool    : SUBSET Pools]

Rules == Seq([id : Nat, to : Targets])

\* made rules have been made so far.
Numbered(q, n) == \A i \in DOMAIN q : q[i].id \in 1 .. n

LateRequest(m) ==
    \/ m.kind = "route" /\ m.pool \in Pools /\ m.gateway \in Gateways
    \/ m.kind = "put" /\ m.to \in Targets
    \/ m.kind = "patch" /\ m.to \in Targets

PathInv ==
    /\ nets \in [Networks -> NetworkStates]
    /\ routes \in [Pools -> SUBSET Gateways]
    /\ made \in Nat /\ rules \in Rules /\ Numbered(rules, made)
    /\ router \in Routers
    /\ router.at = "pools" => router.pools # {}
    /\ (router.at = "add") = (router.pool # {})
    /\ nat.at \in {"rest", "put", "patch"} /\ address \in Addresses
    /\ \A m \in late : LateRequest(m)
    /\ trouble \in 0 .. MaxTrouble

Lines     == Seq([index : Nat, user : Users])
Refreshes == [at    : {"idle", "key", "create", "write", "rename"},
              lines : Lines,
              keys  : Keys \cup {NoKeys},
              seen  : Listings]
Logins    == [at    : {"idle", "key", "local"},
              user  : Users,
              index : Nat,
              out   : Keys \cup {NoKeys},
              seen  : Listings]

AgentTypes ==
    /\ served \in Listings
    /\ installed \in [Users -> Keys \cup {NoFile}]
    /\ temp \in [Users -> Keys \cup {NoKeys, NoFile}]
    /\ refresh \in Refreshes
    /\ login \in Logins

\* The index named u at place i, and what it was made of was served.
Indexed(seen, i, u) ==
    seen # NoEntry /\ i \in DOMAIN seen /\ seen[i].user = u /\ Pairs(seen) \subseteq given

\* The keys were served for the user, or for another place of the index.
Owned(u, keys) == u \in raced \/ [user |-> u, keys |-> keys] \in given

RefreshInv ==
    /\ (refresh.at = "idle") = (refresh.lines = <<>>)
    /\ \A i \in DOMAIN refresh.lines :
          Indexed(refresh.seen, refresh.lines[i].index, refresh.lines[i].user)
    /\ refresh.at \in {"create", "write", "rename"} =>
          /\ refresh.keys \in Keys \ {NoKeys, NoFile}
          /\ Owned(Line.user, refresh.keys)
    /\ refresh.at = "rename" => temp[Line.user] = refresh.keys

LoginInv ==
    /\ login.at = "key" => Indexed(login.seen, login.index, login.user)
    /\ login.out # NoKeys => Owned(login.user, login.out)

FilesInv == \A u \in Users : installed[u] # NoFile => Owned(u, installed[u])

AgentInv == AgentTypes /\ Pairs(served) \subseteq given /\ RefreshInv /\ LoginInv /\ FilesInv

IInv == PathInv /\ AgentInv

----------------------------------------------------------------------------
(* The operators.                                                          *)

\* What Min of the community modules finds is there.
LEMMA MinIsMember ==
    ASSUME NEW I, I \subseteq Nat, I # {}
    PROVE  Min(I) \in I
  <1> DEFINE R == OpToRel(<, Nat)
  <1>1. PICK x \in I : \A y \in I : <<y, x>> \notin R
    <2>1. IsWellFoundedOn(R, Nat)
      BY NatLessThanWellFounded
    <2> HIDE DEF R
    <2>2. QED
      BY <2>1, WFMin
  <1>2. ASSUME NEW y \in I PROVE x =< y
    <2>1. y \in Nat /\ x \in Nat
      OBVIOUS
    <2>2. ~ (y < x)
      BY <1>1, <2>1 DEF OpToRel
    <2>3. QED
      BY <2>1, <2>2
  <1>3. QED
    BY <1>2 DEF Min

\* An entry's users and keys.
LEMMA EntryType ==
    ASSUME NEW l \in Listings, l # NoEntry
    PROVE  /\ Len(l) \in Nat /\ DOMAIN l = 1 .. Len(l) /\ l \in Seq([user : Users, keys : Keys])
           /\ \A i \in DOMAIN l : /\ l[i] = [user |-> l[i].user, keys |-> l[i].keys]
                                  /\ l[i].user \in Users /\ l[i].keys \in Keys
                                  /\ l[i] \in Pairs(l)
  <1>1. l \in Seq([user : Users, keys : Keys])
    BY ListingsAssumption
  <1>2. Len(l) \in Nat /\ DOMAIN l = 1 .. Len(l)
    BY <1>1
  <1>3. \A i \in DOMAIN l : l[i] \in [user : Users, keys : Keys]
    <2> DEFINE T == [user : Users, keys : Keys]
    <2>1. l \in Seq(T)
      BY <1>1
    <2> HIDE DEF T
    <2>2. \A i \in 1 .. Len(l) : l[i] \in T
      BY <2>1
    <2>3. QED
      BY <1>2, <2>2 DEF T
  <1>4. \A i \in DOMAIN l : l[i] \in Pairs(l)
    BY DEF Pairs, Range
  <1>5. QED
    BY <1>1, <1>2, <1>3, <1>4

\* The first place that names a user is one of the entry's, and names the user.
LEMMA FirstPlace ==
    ASSUME NEW l \in Listings, NEW u, PlaceOf(l, u) # 0
    PROVE  /\ l # NoEntry /\ PlaceOf(l, u) \in DOMAIN l /\ l[PlaceOf(l, u)].user = u
           /\ PlaceOf(l, u) \in Nat
  <1> DEFINE I == {i \in 1 .. Len(l) : l[i].user = u}
  <1>1. l # NoEntry /\ PlaceOf(l, u) = IF I # {} THEN Min(I) ELSE 0
    BY DEF PlaceOf, SelectInSeq
  <1>2. I # {} /\ PlaceOf(l, u) = Min(I)
    BY <1>1
  <1>3. I \subseteq Nat
    OBVIOUS
  <1>4. PlaceOf(l, u) \in I
    <2> HIDE DEF I
    <2>1. QED
      BY <1>2, <1>3, MinIsMember
  <1>5. QED
    BY <1>1, <1>4, EntryType

\* Sequences.
LEMMA FunctionIsSeq ==
    ASSUME NEW T, NEW n \in Nat \ {0}, NEW f \in [1 .. n -> T]
    PROVE  f \in Seq(T) /\ f # <<>>
  <1>1. f \in Seq(T) /\ Len(f) = n
    OBVIOUS
  <1>2. QED
    BY <1>1

LEMMA TailFacts ==
    ASSUME NEW T, NEW q \in Seq(T), q # <<>>, Len(q) # 1
    PROVE  /\ Tail(q) \in Seq(T) /\ Tail(q) # <<>> /\ DOMAIN Tail(q) = 1 .. (Len(q) - 1)
           /\ \A i \in 1 .. (Len(q) - 1) : Tail(q)[i] = q[i + 1] /\ i + 1 \in DOMAIN q
  <1>1. Len(q) \in Nat \ {0}
    OBVIOUS
  <1>2. \A n \in Nat \ {0} : n # 1 => n > 1
    OBVIOUS
  <1>3. Len(q) > 1
    BY <1>1, <1>2
  <1>4. Tail(q) \in Seq(T) /\ Len(Tail(q)) = Len(q) - 1
    BY <1>1
  <1>5. QED
    BY <1>1, <1>3, <1>4

LEMMA KeysOfPlace ==
    ASSUME NEW l \in Listings, NEW i, public_key(l, i) # NoFile
    PROVE  l # NoEntry /\ i \in DOMAIN l /\ public_key(l, i) = l[i].keys
           /\ public_key(l, i) \in Keys
  BY EntryType DEF public_key, Has

\* Keys that the index's own entry answers with are the user's.
LEMMA OwnPlace ==
    ASSUME NEW u, NEW i, NEW seen \in Listings, Indexed(seen, i, u),
           public_key(seen, i) # NoFile
    PROVE  [user |-> u, keys |-> public_key(seen, i)] \in given
  BY KeysOfPlace, EntryType DEF Indexed

----------------------------------------------------------------------------
(* The path.                                                               *)

LEMMA SameTrouble == PathInv /\ Counted => trouble' \in 0 .. MaxTrouble
  BY PathAssumption DEF PathInv, Counted

\* Steps of the agent, and those of the path that only count.
LEMMA PathFrame ==
    ASSUME PathInv, UnchangedPath, UNCHANGED trouble \/ Counted
    PROVE  PathInv'
  BY SameTrouble DEF PathInv, UnchangedPath, LateRequest

LEMMA MoreRules ==
    ASSUME PathInv, NEW to \in Targets, Create(to)
    PROVE  made' \in Nat /\ rules' \in Rules /\ Numbered(rules', made')
  <1>1. made' = made + 1 /\ made \in Nat /\ rules \in Rules /\ Numbered(rules, made)
        /\ rules' = Append(rules, [id |-> made + 1, to |-> to])
    BY DEF PathInv, Create
  <1>2. rules' \in Rules
    BY <1>1 DEF Rules
  <1>3. Numbered(rules', made')
    BY <1>1 DEF Numbered, Rules
  <1>4. QED
    BY <1>1, <1>2, <1>3

LEMMA OtherRule ==
    ASSUME PathInv, NEW id, NEW to \in Targets, Update(id, to), made' = made
    PROVE  rules' \in Rules /\ Numbered(rules', made')
  <1> DEFINE T == [id : Nat, to : Targets]
             k == IndexOf(id)
  <1>1. rules \in Seq(T) /\ Numbered(rules, made)
    BY DEF PathInv, Rules
  <1>2. CASE k = 0
    BY <1>1, <1>2 DEF Update, Rules
  <1>3. CASE k # 0
    <2>1. rules' = [rules EXCEPT ![k].to = to]
      BY <1>3 DEF Update
    <2>2. \A r \in T : [r EXCEPT !.to = to] \in T /\ [r EXCEPT !.to = to].id = r.id
      OBVIOUS
    <2> HIDE DEF k, T
    <2>3. Len(rules) \in Nat /\ DOMAIN rules = 1 .. Len(rules)
          /\ \A i \in 1 .. Len(rules) : rules[i] \in T
      BY <1>1
    <2>4. DOMAIN rules' = DOMAIN rules /\ rules' = [i \in DOMAIN rules |-> rules'[i]]
      BY <2>1
    <2>5. \A i \in DOMAIN rules : rules'[i] = rules[i] \/ rules'[i] = [rules[i] EXCEPT !.to = to]
      BY <2>1
    <2>6. \A i \in DOMAIN rules : rules'[i] \in T /\ rules'[i].id = rules[i].id
      BY <2>2, <2>3, <2>5
    <2>7. rules' \in [1 .. Len(rules) -> T]
      BY <2>3, <2>4, <2>6
    <2>8. rules' \in Seq(T)
      BY <2>3, <2>7
    <2>9. Numbered(rules', made')
      BY <1>1, <2>4, <2>6 DEF Numbered
    <2>10. QED
      BY <2>8, <2>9 DEF Rules, T
  <1>4. QED
    BY <1>2, <1>3

\* Onward of a key that is between two pools, or after the last.
LEMMA OnwardType ==
    ASSUME NEW k \in Routers, k.at = "pools", k.pool = {}
    PROVE  LET r == Onward(k)
           IN  /\ r \in Routers
               /\ r.at = "pools" => r.pools # {}
               /\ r.at # "add" /\ r.pool = {}
  <1>1. CASE k.pools = {}
    <2>1. Onward(k) = [Resting EXCEPT !.at = "networks", !.todo = k.todo]
      BY <1>1 DEF Onward
    <2>2. QED
      BY <2>1 DEF Resting, Routers
  <1>2. CASE k.pools # {}
    BY <1>2 DEF Onward
  <1>3. QED
    BY <1>1, <1>2

LEMMA RouterInv ==
    ASSUME PathInv, RouterStep
    PROVE  PathInv'
  <1>1. CASE Discover
    <2>1. CASE UNCHANGED trouble
      <3>1. router' = [Resting EXCEPT !.at = "networks",
                !.todo = {[net |-> n, gateway |-> nets[n].gateway] :
                             n \in {m \in Networks : Wanted(nets[m])}}]
            \/ router' = router
        BY <1>1 DEF Discover
      <3>2. \A n \in Networks : nets[n].gateway \in Gateways
        BY DEF PathInv, Gateways
      <3>3. {[net |-> n, gateway |-> nets[n].gateway] :
                             n \in {m \in Networks : Wanted(nets[m])}}
              \subseteq [net : Networks, gateway : Gateways]
        BY <3>2
      <3>4. /\ router' \in Routers
            /\ router'.at = "pools" => router'.pools # {}
            /\ (router'.at = "add") = (router'.pool # {})
        BY <3>1, <3>3 DEF PathInv, Resting, Routers
      <3>5. QED
        BY <1>1, <2>1, <3>4 DEF Discover, PathInv, LateRequest
    <2>2. CASE Counted /\ UNCHANGED router
      BY <1>1, <2>2, PathFrame DEF Discover, UnchangedPath
    <2>3. QED
      BY <1>1, <2>1, <2>2 DEF Discover
  <1>2. CASE ListPools
    <2>1. /\ router' \in Routers
          /\ router'.at = "pools" => router'.pools # {}
          /\ (router'.at = "add") = (router'.pool # {})
      <3>1. CASE router' = Resting
        BY <3>1 DEF Resting, Routers
      <3>2. ASSUME NEW t \in router.todo,
                   \/ router' = Onward([router EXCEPT !.todo = @ \ {t}, !.at = "pools",
                                   !.pools = PoolsOf[t.net], !.gateway = {t.gateway}])
                   \/ router' = [router EXCEPT !.todo = @ \ {t}]
            PROVE  /\ router' \in Routers
                   /\ router'.at = "pools" => router'.pools # {}
                   /\ (router'.at = "add") = (router'.pool # {})
        <4>1. t \in [net : Networks, gateway : Gateways] /\ router \in Routers
              /\ router.at = "networks" /\ router.pool = {}
          BY <1>2 DEF PathInv, Routers, ListPools
        <4>2. PoolsOf[t.net] \subseteq Pools /\ {t.gateway} \subseteq Gateways
          BY <4>1, PathAssumption
        <4>3. CASE router' = [router EXCEPT !.todo = @ \ {t}]
          BY <4>1, <4>3 DEF Routers
        <4>4. CASE router' # [router EXCEPT !.todo = @ \ {t}]
          <5> DEFINE k == [router EXCEPT !.todo = @ \ {t}, !.at = "pools",
                                         !.pools = PoolsOf[t.net], !.gateway = {t.gateway}]
          <5>1. k \in Routers /\ k.at = "pools" /\ k.pool = {}
            BY <4>1, <4>2 DEF Routers
          <5>2. router' = Onward(k)
            BY <3>2, <4>4
          <5> HIDE DEF k
          <5>3. QED
            BY <5>1, <5>2, OnwardType
        <4>5. QED
          BY <4>3, <4>4
      <3>3. QED
        BY <1>2, <3>1, <3>2 DEF ListPools
    <2>2. trouble' \in 0 .. MaxTrouble
      BY <1>2, SameTrouble DEF ListPools, PathInv
    <2>3. QED
      BY <1>2, <2>1, <2>2 DEF ListPools, PathInv, LateRequest
  <1>3. CASE CheckRoute
    <2>1. PICK p \in router.pools :
              \/ router' = [router EXCEPT !.pools = @ \ {p}, !.at = "add", !.pool = {p}]
              \/ router' = Onward([router EXCEPT !.pools = @ \ {p}])
      BY <1>3 DEF CheckRoute
    <2>2. router \in Routers /\ router.at = "pools" /\ router.pool = {} /\ p \in Pools
      BY <1>3 DEF CheckRoute, PathInv, Routers
    <2>3. /\ router' \in Routers
          /\ router'.at = "pools" => router'.pools # {}
          /\ (router'.at = "add") = (router'.pool # {})
      <3>1. CASE router' = [router EXCEPT !.pools = @ \ {p}, !.at = "add", !.pool = {p}]
        BY <2>2, <3>1 DEF Routers
      <3>2. CASE router' = Onward([router EXCEPT !.pools = @ \ {p}])
        <4> DEFINE k == [router EXCEPT !.pools = @ \ {p}]
        <4>1. k \in Routers /\ k.at = "pools" /\ k.pool = {}
          BY <2>2 DEF Routers
        <4> HIDE DEF k
        <4>2. QED
          BY <3>2, <4>1, OnwardType DEF k
      <3>3. QED
        BY <2>1, <3>1, <3>2
    <2>4. trouble' \in 0 .. MaxTrouble
      BY <1>3, SameTrouble DEF CheckRoute, PathInv
    <2>5. QED
      BY <1>3, <2>3, <2>4 DEF CheckRoute, PathInv, LateRequest
  <1>4. CASE AddRoute
    <2>1. router \in Routers /\ router' = Onward([router EXCEPT !.at = "pools", !.pool = {}])
      BY <1>4 DEF AddRoute, PathInv
    <2>2. /\ router' \in Routers
          /\ router'.at = "pools" => router'.pools # {}
          /\ (router'.at = "add") = (router'.pool # {})
      <3> DEFINE k == [router EXCEPT !.at = "pools", !.pool = {}]
      <3>1. k \in Routers /\ k.at = "pools" /\ k.pool = {}
        BY <2>1 DEF Routers
      <3> HIDE DEF k
      <3>2. QED
        BY <2>1, <3>1, OnwardType DEF k
    <2>3. PICK p \in router.pool, g \in router.gateway :
              \/ /\ routes' = [routes EXCEPT ![p] = @ \cup {g}]
                 /\ UNCHANGED <<late, trouble>>
              \/ /\ Counted
                 /\ late' = late \cup {[kind |-> "route", pool |-> p, gateway |-> g]}
                 /\ UNCHANGED routes
      BY <1>4 DEF AddRoute
    <2>4. p \in Pools /\ g \in Gateways
      BY <2>1 DEF Routers
    <2>5. routes' \in [Pools -> SUBSET Gateways] /\ trouble' \in 0 .. MaxTrouble
      BY <2>3, <2>4, SameTrouble DEF PathInv
    <2>6. \A m \in late' : LateRequest(m)
      BY <2>3, <2>4 DEF PathInv, LateRequest
    <2>7. QED
      BY <1>4, <2>2, <2>5, <2>6 DEF AddRoute, PathInv, LateRequest
  <1>5. QED
    BY <1>1, <1>2, <1>3, <1>4 DEF RouterStep

LEMMA NatInv ==
    ASSUME PathInv, NatStep
    PROVE  PathInv'
  <1>0. address \in Targets
    BY DEF PathInv, Targets
  <1>1. CASE GetRules
    <2>1. nat'.at \in {"rest", "put", "patch"}
      <3>1. nat.at = "rest"
        BY <1>1 DEF GetRules
      <3>2. CASE nat' = nat
        BY <3>1, <3>2
      <3>3. CASE nat' = [at |-> "patch", id |-> rules[1].id]
        BY <3>3
      <3>4. CASE nat' = [nat EXCEPT !.at = "put"]
        BY <3>1, <3>4
      <3>5. QED
        BY <1>1, <3>2, <3>3, <3>4 DEF GetRules
    <2>2. trouble' \in 0 .. MaxTrouble
      BY <1>1, SameTrouble DEF GetRules, PathInv
    <2>3. QED
      BY <1>1, <2>1, <2>2 DEF GetRules, PathInv, LateRequest
  <1>2. CASE PutRule
    <2>1. CASE Create(address) /\ UNCHANGED <<late, trouble>>
      BY <1>0, <1>2, <2>1, MoreRules DEF PutRule, PathInv, LateRequest, RestingNat
    <2>2. CASE /\ Counted /\ late' = late \cup {[kind |-> "put", to |-> address]}
               /\ UNCHANGED <<rules, made>>
      <3>1. \A m \in late' : LateRequest(m)
        BY <1>0, <2>2 DEF PathInv, LateRequest
      <3>2. QED
        BY <1>2, <2>2, <3>1, SameTrouble DEF PutRule, PathInv, RestingNat, LateRequest
    <2>3. QED
      BY <1>2, <2>1, <2>2 DEF PutRule
  <1>3. CASE PatchRule
    <2>1. CASE Update(nat.id, address) /\ UNCHANGED <<late, trouble>>
      BY <1>0, <1>3, <2>1, OtherRule DEF PatchRule, PathInv, LateRequest, RestingNat
    <2>2. CASE /\ Counted /\ UNCHANGED rules
               /\ late' = late \cup {[kind |-> "patch", id |-> nat.id, to |-> address]}
      <3>1. \A m \in late' : LateRequest(m)
        BY <1>0, <2>2 DEF PathInv, LateRequest
      <3>2. QED
        BY <1>3, <2>2, <3>1, SameTrouble DEF PatchRule, PathInv, RestingNat, LateRequest
    <2>3. QED
      BY <1>3, <2>1, <2>2 DEF PatchRule
  <1>4. QED
    BY <1>1, <1>2, <1>3 DEF NatStep

LEMMA OthersInv ==
    ASSUME PathInv, Others
    PROVE  PathInv'
  <1>1. ASSUME NEW m \in late, Arrive(m) PROVE PathInv'
    <2>1. LateRequest(m) /\ late' \subseteq late
      BY <1>1 DEF PathInv, Arrive
    <2>2. CASE m.kind = "route"
      <3>1. routes' \in [Pools -> SUBSET Gateways]
        BY <1>1, <2>1, <2>2 DEF Arrive, LateRequest, PathInv
      <3>2. QED
        BY <1>1, <2>1, <2>2, <3>1 DEF Arrive, PathInv, LateRequest
    <2>3. CASE m.kind = "put"
      <3>1. m.to \in Targets /\ Create(m.to) /\ UNCHANGED routes
        BY <1>1, <2>1, <2>3 DEF Arrive, LateRequest
      <3>2. made' \in Nat /\ rules' \in Rules /\ Numbered(rules', made')
        BY <3>1, MoreRules
      <3>3. QED
        BY <1>1, <2>1, <3>1, <3>2 DEF Arrive, PathInv, LateRequest
    <2>4. CASE m.kind = "patch"
      <3>1. m.to \in Targets /\ Update(m.id, m.to) /\ UNCHANGED <<routes, made>>
        BY <1>1, <2>1, <2>4 DEF Arrive, LateRequest
      <3>2. rules' \in Rules /\ Numbered(rules', made')
        BY <3>1, OtherRule
      <3>3. QED
        BY <1>1, <2>1, <3>1, <3>2 DEF Arrive, PathInv, LateRequest
    <2>5. QED
      BY <2>1, <2>2, <2>3, <2>4 DEF LateRequest
  <1>2. ASSUME NEW a \in Addresses, Restart(a) PROVE PathInv'
    BY <1>2, SameTrouble DEF Restart, PathInv, Resting, RestingNat, Routers, LateRequest
  <1>3. ASSUME NEW n \in Networks, NEW s \in NetworkStates, ChangeNetwork(n, s) PROVE PathInv'
    BY <1>3, SameTrouble DEF ChangeNetwork, PathInv, LateRequest
  <1>4. ASSUME NEW p \in Pools, LoseRoutes(p) PROVE PathInv'
    BY <1>4, SameTrouble DEF LoseRoutes, PathInv, LateRequest
  <1>5. ASSUME ChangeRules PROVE PathInv'
    <2>1. made' \in Nat /\ rules' \in Rules /\ Numbered(rules', made')
      <3>0. /\ rules \in Rules /\ Numbered(rules, made) /\ made \in Nat /\ Elsewhere \in Targets
            /\ Len(rules) \in Nat /\ DOMAIN rules = 1 .. Len(rules)
        BY DEF PathInv, Rules, Targets
      <3>1. CASE rules # <<>> /\ rules' = Tail(rules) /\ UNCHANGED made
        <4>1. /\ rules' \in Rules /\ DOMAIN rules' = 1 .. (Len(rules) - 1)
              /\ \A i \in 1 .. (Len(rules) - 1) : rules'[i] = rules[i + 1]
          BY <3>0, <3>1 DEF Rules
        <4>2. QED
          BY <3>0, <3>1, <4>1 DEF Numbered
      <3>2. CASE rules # <<>> /\ Update(rules[1].id, Elsewhere) /\ UNCHANGED made
        BY <3>0, <3>2, OtherRule
      <3>3. CASE made' = made + 1 /\ rules' = <<[id |-> made + 1, to |-> Elsewhere]>> \o rules
        <4> DEFINE first == [id |-> made + 1, to |-> Elsewhere]
        <4>1. first \in [id : Nat, to : Targets] /\ first.id \in 1 .. (made + 1)
          BY <3>0
        <4> HIDE DEF first
        <4>2. rules' \in Rules
          BY <3>0, <3>3, <4>1 DEF Rules, first
        <4>3. /\ DOMAIN rules' = 1 .. (1 + Len(rules)) /\ rules'[1] = first
              /\ \A i \in 2 .. (1 + Len(rules)) : rules'[i] = rules[i - 1]
          BY <3>0, <3>3 DEF Rules, first
        <4>4. ASSUME NEW i \in DOMAIN rules' PROVE rules'[i].id \in 1 .. made'
          <5>1. CASE i = 1
            BY <3>3, <4>1, <4>3, <5>1
          <5>2. CASE i # 1
            <6>1. i \in 2 .. (1 + Len(rules)) /\ i - 1 \in 1 .. Len(rules)
              BY <3>0, <4>3, <5>2
            <6>2. rules[i - 1].id \in 1 .. made
              BY <3>0, <6>1 DEF Numbered
            <6>3. QED
              BY <3>0, <3>3, <4>3, <6>1, <6>2
          <5>3. QED
            BY <5>1, <5>2
        <4>5. QED
          BY <3>0, <3>3, <4>2, <4>4 DEF Numbered
      <3>4. QED
        BY <1>5, <3>1, <3>2, <3>3 DEF ChangeRules
    <2>2. QED
      BY <1>5, <2>1, SameTrouble DEF ChangeRules, PathInv, LateRequest
  <1>6. QED
    BY <1>1, <1>2, <1>3, <1>4, <1>5 DEF Others

----------------------------------------------------------------------------
(* The agent.                                                              *)

\* What the agent has in hand stays its user's when others change the cache.
LEMMA AgentFrame ==
    ASSUME AgentInv, UNCHANGED <<installed, temp, refresh, login>>, served' \in Listings,
           Pairs(served') \subseteq given', given \subseteq given', raced \subseteq raced'
    PROVE  AgentInv'
  <1>1. AgentTypes'
    BY DEF AgentInv, AgentTypes
  <1>2. RefreshInv'
    BY DEF AgentInv, RefreshInv, Indexed, Owned, Line
  <1>3. LoginInv'
    BY DEF AgentInv, LoginInv, Indexed, Owned
  <1>4. FilesInv'
    BY DEF AgentInv, FilesInv, Owned
  <1>5. QED
    BY <1>1, <1>2, <1>3, <1>4 DEF AgentInv

LEMMA IdleType == Idle \in Refreshes <=> NoEntry \in Listings
  BY DEF Idle, Refreshes, Lines

\* What the refresh that is under way holds.
LEMMA LineFacts ==
    ASSUME AgentInv, refresh.at # "idle"
    PROVE  /\ refresh \in Refreshes /\ refresh.lines \in Lines /\ refresh.lines # <<>>
           /\ Line \in [index : Nat, user : Users] /\ Line.user \in Users
           /\ Indexed(refresh.seen, Line.index, Line.user)
           /\ Len(refresh.lines) \in Nat \ {0} /\ 1 \in DOMAIN refresh.lines
  <1> DEFINE T == [index : Nat, user : Users]
  <1>1. refresh \in Refreshes /\ refresh.lines \in Seq(T) /\ refresh.lines # <<>>
    BY DEF AgentInv, AgentTypes, RefreshInv, Refreshes, Lines
  <1> HIDE DEF T
  <1>2. /\ Len(refresh.lines) \in Nat \ {0} /\ 1 \in DOMAIN refresh.lines
        /\ refresh.lines[1] \in T
    BY <1>1
  <1>3. QED
    BY <1>1, <1>2 DEF AgentInv, RefreshInv, Line, Lines, T

\* What the refresh must be whenever nothing of its keys is in hand.
Fresh(r) ==
    /\ r \in Refreshes /\ r.at \in {"idle", "key"}
    /\ (r.at = "idle") = (r.lines = <<>>)
    /\ \A i \in DOMAIN r.lines : Indexed(r.seen, r.lines[i].index, r.lines[i].user)

LEMMA IdleFresh == ASSUME NoEntry \in Listings PROVE Fresh(Idle)
  BY IdleType DEF Fresh, Idle

LEMMA NextLineFresh ==
    ASSUME AgentInv, NoEntry \in Listings, refresh.at # "idle"
    PROVE  Fresh(NextLine)
  <1>1. CASE Len(refresh.lines) = 1
    BY <1>1, IdleFresh DEF NextLine
  <1>2. CASE Len(refresh.lines) # 1
    <2> DEFINE T == [index : Nat, user : Users]
               q == refresh.lines
    <2>1. /\ NextLine = [refresh EXCEPT !.at = "key", !.lines = Tail(q), !.keys = NoKeys]
          /\ refresh \in Refreshes /\ q \in Seq(T)
      BY <1>2, LineFacts DEF NextLine, Lines
    <2>2. q # <<>> /\ Len(q) # 1
      BY <1>2, LineFacts
    <2> HIDE DEF T
    <2>3. /\ Tail(q) \in Seq(T) /\ Tail(q) # <<>> /\ DOMAIN Tail(q) = 1 .. (Len(q) - 1)
          /\ \A i \in 1 .. (Len(q) - 1) : Tail(q)[i] = q[i + 1] /\ i + 1 \in DOMAIN q
      BY <2>1, <2>2, TailFacts
    <2>5. NextLine \in Refreshes /\ NextLine.lines = Tail(q) /\ NextLine.at = "key"
          /\ NextLine.seen = refresh.seen
      BY <2>1, <2>3 DEF Refreshes, Lines, T
    <2>6. ASSUME NEW i \in DOMAIN Tail(q)
          PROVE  Indexed(refresh.seen, Tail(q)[i].index, Tail(q)[i].user)
      BY <2>3 DEF AgentInv, RefreshInv
    <2>7. QED
      BY <2>3, <2>5, <2>6 DEF Fresh
  <1>3. QED
    BY <1>1, <1>2

\* A step of the refresh that ends with a line, or with the refresh.
LEMMA FreshInv ==
    ASSUME AgentInv, Fresh(refresh'), AgentTypes', FilesInv', UNCHANGED <<served, login, given>>,
           raced \subseteq raced'
    PROVE  AgentInv'
  <1>1. RefreshInv'
    BY DEF Fresh, RefreshInv, Indexed
  <1>2. LoginInv'
    BY DEF AgentInv, LoginInv, Indexed, Owned
  <1>3. QED
    BY <1>1, <1>2 DEF AgentInv

\* The keys of a place, given to its user: theirs, or the entry has changed.
LEMMA GivenOwned ==
    ASSUME AgentInv, NEW u, NEW i, NEW seen \in Listings, NEW keys,
           keys = public_key(served, i), keys \notin {NoFile, NoKeys},
           Indexed(seen, i, u), Given(u, keys, seen), given' = given
    PROVE  raced \subseteq raced' /\ keys \in Keys /\ Owned(u, keys)'
  <1>1. served \in Listings
    BY DEF AgentInv, AgentTypes
  <1>2. keys \in Keys
    BY <1>1, KeysOfPlace
  <1>3. CASE served = seen
    BY <1>1, <1>2, <1>3, OwnPlace DEF Given, Owned
  <1>4. CASE served # seen
    BY <1>2, <1>4 DEF Given, Owned
  <1>5. QED
    BY <1>3, <1>4

LEMMA GetIndexInv ==
    ASSUME AgentInv, GetIndex, NoEntry \in Listings
    PROVE  AgentInv'
  <1>1. /\ served \in Listings /\ served # NoEntry /\ Pairs(served) \subseteq given
        /\ UNCHANGED <<served, installed, temp, login, given, raced>>
    BY DEF GetIndex, AgentInv, AgentTypes
  <1>2. Fresh(refresh')
    <2>1. CASE served = <<>>
      BY <2>1, IdleFresh DEF GetIndex
    <2>2. CASE served # <<>>
      <3>1. refresh' = [at |-> "key", lines |-> Index(served), keys |-> NoKeys, seen |-> served]
        BY <2>2 DEF GetIndex
      <3>2. Len(served) \in Nat /\ DOMAIN served = 1 .. Len(served) /\ Len(served) # 0
        BY <1>1, <2>2, EntryType
      <3>3. /\ DOMAIN Index(served) = 1 .. Len(served)
            /\ Index(served) \in [1 .. Len(served) -> [index : Nat, user : Users]]
            /\ \A i \in 1 .. Len(served) : Index(served)[i].index = i
                                              /\ Index(served)[i].user = served[i].user
        BY <1>1, <3>2, EntryType DEF Index
      <3>4. Index(served) \in Lines /\ Index(served) # <<>>
        BY <3>2, <3>3, FunctionIsSeq DEF Lines
      <3>5. refresh' \in Refreshes
        BY <1>1, <3>1, <3>4 DEF Refreshes
      <3>6. QED
        BY <1>1, <3>1, <3>2, <3>3, <3>4, <3>5 DEF Fresh, Indexed
    <2>3. QED
      BY <2>1, <2>2
  <1>3. AgentTypes' /\ FilesInv'
    BY <1>1, <1>2 DEF AgentInv, AgentTypes, FilesInv, Owned, Fresh
  <1>4. QED
    BY <1>1, <1>2, <1>3, FreshInv

LEMMA GetKeysInv ==
    ASSUME AgentInv, GetKeys, NoEntry \in Listings
    PROVE  AgentInv'
  <1> DEFINE keys == public_key(served, Line.index)
  <1>1. refresh.at = "key" /\ UNCHANGED <<served, installed, temp, login, given>>
    BY DEF GetKeys
  <1>2. raced \subseteq raced'
    BY DEF GetKeys, Given
  <1>3. CASE refresh' = Idle \/ refresh' = NextLine
    <2>1. Fresh(refresh')
      BY <1>1, <1>3, IdleFresh, NextLineFresh
    <2>2. AgentTypes' /\ FilesInv'
      BY <1>1, <1>2, <2>1 DEF AgentInv, AgentTypes, FilesInv, Owned, Fresh
    <2>3. QED
      BY <1>1, <1>2, <2>1, <2>2, FreshInv
  <1>4. CASE /\ keys \notin {NoFile, NoKeys}
             /\ refresh' = [refresh EXCEPT !.at = "create", !.keys = keys]
             /\ Given(Line.user, keys, refresh.seen)
    <2> HIDE DEF keys
    <2>1. /\ refresh \in Refreshes /\ refresh.lines # <<>> /\ refresh.seen \in Listings
          /\ Indexed(refresh.seen, Line.index, Line.user)
      BY <1>1, LineFacts DEF Refreshes
    <2>2. keys \in Keys /\ (Line.user \in raced' \/ [user |-> Line.user, keys |-> keys] \in given')
      BY <1>1, <1>4, <2>1, GivenOwned DEF keys, Owned
    <2>3. /\ refresh' \in Refreshes /\ refresh'.at = "create" /\ refresh'.keys = keys
          /\ refresh'.lines = refresh.lines /\ refresh'.seen = refresh.seen
      BY <1>4, <2>1, <2>2 DEF Refreshes
    <2>4. AgentTypes' /\ FilesInv'
      BY <1>1, <1>2, <2>3 DEF AgentInv, AgentTypes, FilesInv, Owned
    <2>5. LoginInv'
      BY <1>1, <1>2 DEF AgentInv, LoginInv, Indexed, Owned
    <2>6. RefreshInv'
      <3>1. refresh'.at # "idle" /\ refresh'.at # "rename" /\ refresh'.lines # <<>>
        BY <2>1, <2>3
      <3>2. \A i \in DOMAIN refresh'.lines :
                Indexed(refresh.seen, refresh.lines[i].index, refresh.lines[i].user)'
        BY <1>1, <2>3 DEF AgentInv, RefreshInv, Indexed
      <3>3. refresh'.keys \in Keys \ {NoKeys, NoFile} /\ Owned(Line.user, refresh.keys)'
        BY <1>4, <2>2, <2>3 DEF Owned, Line
      <3>4. QED
        BY <3>1, <3>2, <3>3 DEF RefreshInv
    <2>7. QED
      BY <1>1, <2>4, <2>5, <2>6 DEF AgentInv
  <1>5. QED
    BY <1>3, <1>4 DEF GetKeys

\* The steps that write, and those that give a line up.
LEMMA WriteInv ==
    ASSUME AgentInv, NoEntry \in Listings, CreateTemp \/ WriteTemp \/ Rename
    PROVE  AgentInv'
  <1> DEFINE u == Line.user
  <1>1. /\ refresh.at \in {"create", "write", "rename"}
        /\ UNCHANGED <<served, login, given, raced>>
    BY DEF CreateTemp, WriteTemp, Rename
  <1>2. /\ u \in Users /\ refresh \in Refreshes /\ refresh.lines # <<>>
        /\ refresh.keys \in Keys \ {NoKeys, NoFile} /\ Owned(u, refresh.keys)
        /\ installed \in [Users -> Keys \cup {NoFile}]
        /\ temp \in [Users -> Keys \cup {NoKeys, NoFile}]
    BY <1>1, LineFacts DEF AgentInv, AgentTypes, RefreshInv
  <1>3. temp' \in [Users -> Keys \cup {NoKeys, NoFile}]
    BY <1>2 DEF CreateTemp, WriteTemp, Rename, RemoveTemp
  <1>4. /\ installed' \in [Users -> Keys \cup {NoFile}]
        /\ \A v \in Users : installed'[v] = installed[v] \/ (v = u /\ installed'[v] = refresh.keys)
    <2>1. CASE UNCHANGED installed
      BY <1>2, <2>1
    <2>2. CASE refresh.at = "rename" /\ installed' = [installed EXCEPT ![u] = temp[u]]
      <3>1. temp[u] = refresh.keys
        BY <2>2 DEF AgentInv, RefreshInv
      <3>2. QED
        BY <1>2, <2>2, <3>1
    <2>3. QED
      BY <2>1, <2>2 DEF CreateTemp, WriteTemp, Rename
  <1>5. FilesInv'
    BY <1>1, <1>2, <1>4 DEF AgentInv, FilesInv, Owned
  <1>6. CASE refresh' = NextLine
    <2>1. Fresh(refresh')
      BY <1>1, <1>6, NextLineFresh
    <2>2. AgentTypes'
      BY <1>1, <1>3, <1>4, <2>1 DEF AgentInv, AgentTypes, Fresh
    <2>3. QED
      BY <1>1, <1>5, <2>1, <2>2, FreshInv
  <1>7. CASE \/ refresh' = [refresh EXCEPT !.at = "write"]
             \/ /\ refresh' = [refresh EXCEPT !.at = "rename"]
                /\ temp' = [temp EXCEPT ![u] = refresh.keys]
    <2>1. /\ refresh' \in Refreshes /\ refresh'.at \in {"write", "rename"}
          /\ refresh'.keys = refresh.keys /\ refresh'.lines = refresh.lines
          /\ refresh'.seen = refresh.seen
      BY <1>2, <1>7 DEF Refreshes
    <2>2. AgentTypes'
      BY <1>1, <1>3, <1>4, <2>1 DEF AgentInv, AgentTypes
    <2>3. LoginInv'
      BY <1>1 DEF AgentInv, LoginInv, Indexed, Owned
    <2>4. RefreshInv'
      <3>1. refresh'.at = "rename" => temp'[u] = refresh.keys
        BY <1>2, <1>7 DEF Refreshes
      <3>2. Line' = Line
        BY <2>1 DEF Line
      <3>3. Owned(Line.user, refresh.keys)'
        BY <1>1, <1>2, <2>1, <3>2 DEF Owned
      <3>4. \A i \in DOMAIN refresh'.lines :
                Indexed(refresh.seen, refresh.lines[i].index, refresh.lines[i].user)'
        BY <1>1, <2>1 DEF AgentInv, RefreshInv, Indexed
      <3>5. refresh'.at # "idle" /\ refresh'.lines # <<>>
        BY <1>2, <2>1
      <3>6. QED
        BY <1>2, <2>1, <3>1, <3>2, <3>3, <3>4, <3>5 DEF RefreshInv
    <2>5. QED
      BY <1>1, <1>5, <2>2, <2>3, <2>4 DEF AgentInv
  <1>8. QED
    BY <1>6, <1>7 DEF CreateTemp, WriteTemp, Rename

LEMMA StopInv ==
    ASSUME AgentInv, Stop, NoEntry \in Listings
    PROVE  AgentInv'
  <1>1. Fresh(refresh') /\ UNCHANGED <<served, installed, temp, login, given, raced>>
    BY IdleFresh DEF Stop
  <1>2. AgentTypes' /\ FilesInv'
    BY <1>1 DEF AgentInv, AgentTypes, FilesInv, Owned, Fresh
  <1>3. QED
    BY <1>1, <1>2, FreshInv

\* A login's steps leave the files and the refresh alone.
LEMMA LoginFrame ==
    ASSUME AgentInv, login' \in Logins, LoginInv',
           UNCHANGED <<served, installed, temp, refresh, given>>, raced \subseteq raced'
    PROVE  AgentInv'
  <1>1. AgentTypes' /\ FilesInv'
    BY DEF AgentInv, AgentTypes, FilesInv, Owned
  <1>2. RefreshInv'
    BY DEF AgentInv, RefreshInv, Indexed, Owned, Line
  <1>3. QED
    BY <1>1, <1>2 DEF AgentInv

LEMMA NoLoginType == NoEntry \in Listings => NoLogin \in Logins
  <1>1. (CHOOSE u \in Users : TRUE) \in Users
    BY UsersAssumption
  <1>2. QED
    BY <1>1 DEF NoLogin, Logins

LEMMA LoginIndexInv ==
    ASSUME AgentInv, NoEntry \in Listings, NEW u \in LoginUsers, LoginIndex(u)
    PROVE  AgentInv'
  <1> DEFINE asked == [NoLogin EXCEPT !.user = u]
             place == PlaceOf(served, u)
  <1>1. /\ \/ login' = asked
           \/ login' = IF place = 0 THEN [asked EXCEPT !.at = "local"]
                       ELSE [asked EXCEPT !.at = "key", !.index = place, !.seen = served]
        /\ UNCHANGED <<served, installed, temp, refresh, given, raced>>
    BY DEF LoginIndex
  <1>2. asked \in Logins /\ asked.user = u /\ asked.out = NoKeys /\ asked.at = "idle"
    BY NoLoginType, UsersAssumption DEF Logins, NoLogin
  <1>3. place # 0 => /\ served # NoEntry /\ place \in DOMAIN served /\ served[place].user = u
                     /\ place \in Nat
    BY FirstPlace DEF AgentInv, AgentTypes
  <1> HIDE DEF asked, place
  <1> DEFINE goesOn == login' # asked
  <1>4. CASE goesOn /\ place = 0
    <2>1. login' = [asked EXCEPT !.at = "local"]
      BY <1>1, <1>4
    <2>2. login' \in Logins /\ login'.at = "local" /\ login'.out = NoKeys
      BY <1>2, <2>1 DEF Logins
    <2>3. QED
      BY <1>1, <2>2, LoginFrame DEF LoginInv
  <1>5. CASE goesOn /\ place # 0
    <2>1. login' = [asked EXCEPT !.at = "key", !.index = place, !.seen = served]
      BY <1>1, <1>5
    <2>2. /\ login' \in Logins /\ login'.at = "key" /\ login'.out = NoKeys
          /\ login'.seen = served /\ login'.index = place /\ login'.user = u
      BY <1>2, <1>3, <1>5, <2>1 DEF Logins, AgentInv, AgentTypes
    <2>3. Indexed(login.seen, login.index, login.user)'
      BY <1>1, <1>3, <1>5, <2>2 DEF Indexed, AgentInv
    <2>4. LoginInv'
      BY <2>2, <2>3 DEF LoginInv
    <2>5. QED
      BY <1>1, <2>2, <2>4, LoginFrame
  <1>6. CASE login' = asked
    BY <1>1, <1>2, <1>6, LoginFrame DEF LoginInv
  <1>7. QED
    BY <1>4, <1>5, <1>6

\* What a login prints, it prints of its user.
LEMMA OutputInv ==
    ASSUME AgentInv, NoEntry \in Listings, NEW keys \in Keys \cup {NoKeys},
           login' = Output(keys), keys # NoKeys => Owned(login.user, keys)',
           UNCHANGED <<served, installed, temp, refresh, given>>, raced \subseteq raced'
    PROVE  AgentInv'
  <1>1. /\ login' \in Logins /\ login'.at = "idle" /\ login'.user = login.user
        /\ login'.out = keys
    <2>1. login.user \in Users /\ NoLogin \in Logins /\ NoLogin.at = "idle"
      BY NoLoginType DEF AgentInv, AgentTypes, Logins, NoLogin
    <2>2. QED
      BY <2>1 DEF Output, Logins
  <1>2. LoginInv'
    BY <1>1 DEF LoginInv, Owned
  <1>3. QED
    BY <1>1, <1>2, LoginFrame

LEMMA LoginKeysInv ==
    ASSUME AgentInv, NoEntry \in Listings, LoginKeys
    PROVE  AgentInv'
  <1> DEFINE keys == public_key(served, login.index)
  <1>1. /\ login.at = "key" /\ UNCHANGED <<served, installed, temp, refresh, given>>
        /\ raced \subseteq raced' /\ login \in Logins /\ login.seen \in Listings
        /\ Indexed(login.seen, login.index, login.user) /\ served \in Listings
    BY DEF LoginKeys, Given, AgentInv, AgentTypes, LoginInv, Logins
  <1>2. CASE login' = Output(NoKeys)
    BY <1>1, <1>2, OutputInv
  <1>3. CASE keys \notin {NoFile, NoKeys} /\ login' = Output(keys)
             /\ Given(login.user, keys, login.seen)
    <2>1. keys \in Keys /\ (login.user \in raced' \/ [user |-> login.user, keys |-> keys] \in given')
      BY <1>1, <1>3, GivenOwned DEF Owned
    <2> HIDE DEF keys
    <2>2. LoginInv'
      <3>1. login'.at = "idle" /\ login'.user = login.user /\ login'.out = keys
        <4>1. NoLogin \in Logins /\ NoLogin.at = "idle"
          BY NoLoginType DEF NoLogin
        <4>2. QED
          BY <1>3, <4>1 DEF Output, Logins
      <3>2. QED
        BY <2>1, <3>1 DEF LoginInv, Owned
    <2>3. login' \in Logins
      BY <1>1, <1>3, <2>1, NoLoginType DEF Output, Logins
    <2>4. QED
      BY <1>1, <2>2, <2>3, LoginFrame
  <1>4. QED
    BY <1>2, <1>3 DEF LoginKeys

LEMMA LocalKeysInv ==
    ASSUME AgentInv, NoEntry \in Listings, try_local_keys
    PROVE  AgentInv'
  <1> DEFINE u == login.user
             keys == IF installed[u] = NoFile THEN NoKeys ELSE installed[u]
  <1>1. /\ login' = Output(keys) /\ UNCHANGED <<served, installed, temp, refresh, given, raced>>
        /\ u \in Users /\ installed \in [Users -> Keys \cup {NoFile}]
    BY DEF try_local_keys, AgentInv, AgentTypes, Logins
  <1>2. keys \in Keys \cup {NoKeys} /\ (keys # NoKeys => Owned(u, keys))
    BY <1>1 DEF AgentInv, FilesInv
  <1>3. keys # NoKeys => u \in raced' \/ [user |-> u, keys |-> keys] \in given'
    BY <1>1, <1>2 DEF Owned
  <1> HIDE DEF keys
  <1>4. login' \in Logins /\ login'.at = "idle" /\ login'.user = u /\ login'.out = keys
    <2>1. NoLogin \in Logins /\ NoLogin.at = "idle"
      BY NoLoginType DEF NoLogin
    <2>2. QED
      BY <1>1, <1>2, <2>1 DEF Output, Logins
  <1>5. LoginInv'
    BY <1>3, <1>4 DEF LoginInv, Owned
  <1>6. QED
    BY <1>1, <1>4, <1>5, LoginFrame

----------------------------------------------------------------------------
(* All together.                                                           *)

LEMMA InitInv == Init => IInv
  <1> SUFFICES ASSUME Init PROVE IInv
    OBVIOUS
  <1>1. PathInv
    <2>1. rules \in Rules /\ Numbered(rules, made) /\ made \in Nat
      <3>1. CASE rules = <<>>
        BY <3>1 DEF Init, PathInit, Rules, Numbered
      <3>2. CASE rules = <<[id |-> 1, to |-> Elsewhere]>>
        BY <3>2 DEF Init, PathInit, Rules, Numbered, Targets
      <3>3. QED
        BY <3>1, <3>2 DEF Init, PathInit
    <2>2. router \in Routers /\ router.at = "rest" /\ router.pool = {}
      BY DEF Init, PathInit, Resting, Routers
    <2>3. QED
      BY <2>1, <2>2, PathAssumption DEF Init, PathInit, PathInv, RestingNat
  <1>2. Fresh(refresh) /\ refresh.at = "idle"
    BY IdleFresh, ListingsAssumption DEF Init, AgentInit, Idle
  <1>3. login \in Logins /\ login.at = "idle" /\ login.out = NoKeys
    BY NoLoginType, ListingsAssumption DEF Init, AgentInit, NoLogin
  <1>4. AgentTypes /\ FilesInv /\ Pairs(served) \subseteq given
    BY <1>2, <1>3 DEF Init, AgentInit, AgentTypes, FilesInv, Fresh
  <1>5. QED
    BY <1>1, <1>2, <1>3, <1>4 DEF IInv, AgentInv, Fresh, RefreshInv, LoginInv

LEMMA NextInv == IInv /\ [Next]_vars => IInv'
  <1> SUFFICES ASSUME IInv, [Next]_vars PROVE IInv'
    OBVIOUS
  <1>0. PathInv /\ AgentInv /\ NoEntry \in Listings /\ served \in Listings
        /\ Pairs(served) \subseteq given
    BY ListingsAssumption DEF IInv, AgentInv, AgentTypes
  <1>1. CASE PathStep
    <2>1. PathInv'
      BY <1>0, <1>1, RouterInv, NatInv, OthersInv DEF PathStep, Others
    <2>2. AgentInv'
      BY <1>0, <1>1, AgentFrame DEF PathStep, agent
    <2>3. QED
      BY <2>1, <2>2 DEF IInv
  <1>2. ASSUME NEW a \in Addresses, RestartEmpty(a) PROVE IInv'
    <2>1. PathInv'
      BY <1>0, <1>2, OthersInv DEF RestartEmpty, Others
    <2>2. Pairs(NoEntry) = {}
      BY DEF Pairs
    <2>3. AgentInv'
      BY <1>0, <1>2, <2>2, AgentFrame DEF RestartEmpty
    <2>4. QED
      BY <2>1, <2>3 DEF IInv
  <1>3. CASE RefreshStep \/ Stop
    <2>1. PathInv'
      BY <1>0, <1>3, PathFrame
         DEF RefreshStep, GetIndex, GetKeys, CreateTemp, WriteTemp, Rename, Stop, GetsThrough, Fails
    <2>2. AgentInv'
      BY <1>0, <1>3, GetIndexInv, GetKeysInv, WriteInv, StopInv DEF RefreshStep
    <2>3. QED
      BY <2>1, <2>2 DEF IInv
  <1>4. ASSUME \/ \E u \in LoginUsers : LoginIndex(u)
               \/ LoginKeys \/ try_local_keys
        PROVE  IInv'
    <2>1. PathInv'
      BY <1>0, <1>4, PathFrame DEF LoginIndex, LoginKeys, try_local_keys, GetsThrough, Fails
    <2>2. AgentInv'
      BY <1>0, <1>4, LoginIndexInv, LoginKeysInv, LocalKeysInv
    <2>3. QED
      BY <2>1, <2>2 DEF IInv
  <1>5. ASSUME NEW l \in Listings, ChangeListing(l) PROVE IInv'
    <2>1. PathInv'
      BY <1>0, <1>5, PathFrame DEF ChangeListing
    <2>2. AgentInv'
      BY <1>0, <1>5, AgentFrame DEF ChangeListing
    <2>3. QED
      BY <2>1, <2>2 DEF IInv
  <1>6. CASE UNCHANGED vars
    <2>1. PathInv'
      BY <1>0, <1>6, PathFrame DEF vars, path, UnchangedPath
    <2>2. AgentInv'
      BY <1>0, <1>6, AgentFrame DEF vars, agent
    <2>3. QED
      BY <2>1, <2>2 DEF IInv
  <1>7. QED
    BY <1>1, <1>2, <1>3, <1>4, <1>5, <1>6 DEF Next

----------------------------------------------------------------------------
(* The theorems.                                                           *)

LEMMA Invariance == Spec => []IInv
  BY InitInv, NextInv, PTL DEF Spec

\* Routes, rules, managers, files, refresh and login always have the shape the
\* code gives them, whatever fails, arrives late or is changed by others.
THEOREM TypeCorrect == Spec => []TypeOK
  <1>1. PathInv => PathTypeOK
    <2> SUFFICES ASSUME PathInv PROVE PathTypeOK
      OBVIOUS
    <2> DEFINE T == [id : Nat, to : Targets]
    <2>1. rules \in Seq(T)
      BY DEF PathInv, Rules
    <2> HIDE DEF T
    <2>2. \A i \in DOMAIN rules : rules[i] \in T
      BY <2>1
    <2>3. \A i \in DOMAIN rules : rules[i].id \in 1 .. made /\ rules[i].to \in Targets
      BY <2>2 DEF T, PathInv, Numbered
    <2>4. router.at \in {"rest", "networks", "pools", "add"}
      BY DEF PathInv, Routers
    <2>5. QED
      BY <2>3, <2>4 DEF PathInv, PathTypeOK, Targets, Gateways
  <1>2. IInv => TypeOK
    <2> SUFFICES ASSUME IInv PROVE TypeOK
      OBVIOUS
    <2>1. PathTypeOK
      BY <1>1 DEF IInv
    <2>2. refresh.at \in {"idle", "key", "create", "write", "rename"}
          /\ login.at \in {"idle", "key", "local"} /\ login.out \in Keys \cup {NoKeys}
      BY DEF IInv, AgentInv, AgentTypes, Refreshes, Logins
    <2>3. QED
      BY <2>1, <2>2 DEF TypeOK, IInv, AgentInv, AgentTypes, RefreshInv
  <1>3. QED
    BY <1>2, Invariance, PTL

\* Whatever the agent installs for a user, or prints for sshd, is what some entry
\* of the cache gave that user (src/agent/main.rs, refresh and authorized-keys),
\* unless the entry changed between the two requests of one command.
THEOREM KeysAreOwn == Spec => []OwnKeys
  <1>1. IInv => OwnKeys
    BY DEF IInv, AgentInv, FilesInv, LoginInv, Owned, OwnKeys
  <1>2. QED
    BY <1>1, Invariance, PTL

\* No step takes the keys out of a file that has some: the temporary file that is
\* renamed over it (src/agent/main.rs, refresh) has keys.
THEOREM WorkingKeysStay == Spec => KeepsWorkingKeys
  <1> DEFINE Kept == \A u \in Users : installed[u] \notin {NoFile, NoKeys}
                                          => installed'[u] \notin {NoFile, NoKeys}
  <1>1. IInv /\ [Next]_vars => [Kept]_vars
    <2> SUFFICES ASSUME IInv, Next PROVE Kept
      BY DEF vars, agent
    <2>1. CASE UNCHANGED installed
      BY <2>1
    <2>2. CASE Rename
      <3>1. /\ refresh.at = "rename" /\ refresh.keys \notin {NoFile, NoKeys}
            /\ temp[Line.user] = refresh.keys
            /\ installed \in [Users -> Keys \cup {NoFile}]
            /\ installed' = installed \/ installed' = [installed EXCEPT ![Line.user] = temp[Line.user]]
        BY <2>2 DEF Rename, IInv, AgentInv, AgentTypes, RefreshInv
      <3>2. QED
        BY <3>1
    <2>3. QED
      BY <2>1, <2>2
         DEF Next, PathStep, RestartEmpty, RefreshStep, Stop, LoginIndex, LoginKeys,
             try_local_keys, ChangeListing, GetIndex, GetKeys, CreateTemp, WriteTemp, agent
  <1>2. QED
    BY <1>1, Invariance, PTL DEF Spec, KeepsWorkingKeys
=============================================================================
