--------------------------- MODULE MetadataCache ---------------------------
(***************************************************************************)
(* The metadata cache of src/cache.rs and the tasks around it.             *)
(*                                                                         *)
(* Three sources (AMO identity, bare metal hosts, containers) sit each     *)
(* behind a tokio RwLock. A writer is a task of a watcher: it replaces (a  *)
(* part of) its source under the write guard and then calls rebuild_cache, *)
(* which takes the three read guards in the order identity, bmh,           *)
(* containers and then, without another await, empties the DashMap and     *)
(* fills it in two passes. Read guards are shared, so the rebuilds of      *)
(* several writers overlap entry by entry on the runtime's threads, and    *)
(* requests read the map meanwhile.                                        *)
(*                                                                         *)
(* A writer stands for one future that ends in rebuild_cache: one of the   *)
(* four NATS watches of a select!, one BMH namespace watch, the periodic   *)
(* BMH refresh, the container refresh. Those of a select! or behind        *)
(* abort() are dropped at an await when a sibling ends: Cancellable.       *)
(***************************************************************************)
EXTENDS Resolve

CONSTANTS
    IPs,              \* source addresses
    IdentityStates,   \* contents IdentityState may have
    BmhStates,        \* contents BmhState may have, half-loaded ones included
    ContainerStates,  \* contents ContainerState may have
    Writers,          \* futures that write a source, then rebuild
    Target,           \* the source a writer writes
    Cancellable,      \* writers that may be dropped at an await
    Requests          \* HTTP requests being served

EmptyMap        == [x \in {} |-> x]
EmptyBmh        == [ip_to_hostname |-> EmptyMap, host_labels |-> EmptyMap]
EmptyContainers == [ip_to_container |-> EmptyMap, namespace_owners |-> EmptyMap]

SourceNames == {"identity", "bmh", "containers"}
Sources == [identity : IdentityStates, bmh : BmhStates, containers : ContainerStates]

ASSUME WritersAssumption ==
    Target \in [Writers -> SourceNames] /\ Cancellable \subseteq Writers

ASSUME EmptySourcesAssumption ==
    EmptyBmh \in BmhStates /\ EmptyContainers \in ContainerStates

\* Iterating the rules meets each of them.
ASSUME RuleOrderAssumption ==
    LET rules == UNION {DOMAIN v.host_access : v \in IdentityStates}
    IN  /\ RuleOrder \in Seq(rules)
        /\ \A r \in rules : \E i \in DOMAIN RuleOrder : RuleOrder[i] = r

VARIABLES
    src,      \* the three sources
    cache,    \* metadata_cache: IP -> HostMetadata, NoMeta where absent
    pc,       \* where each writer is
    todo,     \* entries the writer's current loop has still to visit
    rpc,      \* where each request is
    ask,      \* the source address of each request
    reply,    \* what each request was last answered
    unbuilt   \* history: writers whose last change no rebuild has taken up

vars == <<src, cache, pc, todo, rpc, ask, reply, unbuilt>>

----------------------------------------------------------------------------
(* What the sources say of an address.                                     *)

\* The labels of a host, an Option.
LabelsOf(s, h) == {s.bmh.host_labels[g] : g \in {h} \cap DOMAIN s.bmh.host_labels}

\* Pass 1 of rebuild_cache: the host an address is mapped to.
HostMeta(s, ip) ==
    LET hosts == s.bmh.ip_to_hostname
    IN  IF ip \notin DOMAIN hosts THEN NoMeta
        ELSE resolve_host(ip, hosts[ip], LabelsOf(s, hosts[ip]), s.identity)

\* Pass 2: the container that owns the address, if its namespace has an owner.
ContainerMeta(s, ip) ==
    LET pod_ips == s.containers.ip_to_container
        owners  == s.containers.namespace_owners
    IN  IF ip \notin DOMAIN pod_ips THEN NoMeta
        ELSE IF pod_ips[ip].namespace \notin DOMAIN owners THEN NoMeta
        ELSE resolve_container(ip, pod_ips[ip], owners[pod_ips[ip].namespace], s.identity)

\* Pass 2 runs last and overwrites: a container wins over a host.
View(s, ip) ==
    IF ContainerMeta(s, ip) # NoMeta THEN ContainerMeta(s, ip) ELSE HostMeta(s, ip)

Metadata ==
    {NoMeta} \cup {HostMeta(s, ip) : s \in Sources, ip \in IPs}
             \cup {ContainerMeta(s, ip) : s \in Sources, ip \in IPs}

----------------------------------------------------------------------------
(* The guards a task holds are determined by where it is.                  *)

Building == {"clear", "pass1", "pass2"}

WriterPhases  == {"idle", "writing", "owed", "has_identity", "has_bmh"} \cup Building
RequestPhases == {"idle", "missed", "has_identity", "has_bmh"}

\* Mutation of HoldsRead: the guards are dropped once the map is being emptied.
HoldsReadNotWhileBuilding ==
    [identity |-> {"has_identity", "has_bmh"}, bmh |-> {"has_bmh"}, containers |-> {}]

\* Phases of a writer in which it holds the read guard of each source.
HoldsRead ==
    [identity   |-> {"has_identity", "has_bmh"} \cup Building,
     bmh        |-> {"has_bmh"} \cup Building,
     containers |-> Building]

\* Mutation of RequestHoldsRead: the bmh guard ends with the host lookup.
RequestDropsBmh ==
    [identity |-> {"has_identity", "has_bmh"}, bmh |-> {}, containers |-> {}]

\* Phases of resolve_on_demand in which it holds the read guard of each source.
RequestHoldsRead ==
    [identity |-> {"has_identity", "has_bmh"}, bmh |-> {"has_bmh"}, containers |-> {}]

WriteLocked(s) == \E w \in Writers : pc[w] = "writing" /\ Target[w] = s
ReadLocked(s)  == \/ \E w \in Writers : pc[w] \in HoldsRead[s]
                  \/ \E r \in Requests : rpc[r] \in RequestHoldsRead[s]

----------------------------------------------------------------------------
Init ==
    /\ src \in [identity : IdentityStates,      \* load_static_identity
                bmh : {EmptyBmh}, containers : {EmptyContainers}]
    /\ cache = [ip \in IPs |-> NoMeta]
    /\ pc = [w \in Writers |-> "idle"]
    /\ todo = [w \in Writers |-> {}]
    /\ rpc = [r \in Requests |-> "idle"]
    /\ ask \in [Requests -> IPs]
    /\ reply = [r \in Requests |-> NoMeta]
    /\ unbuilt = {}

(* Writing a source.                                                       *)

BeginWrite(w) ==
    /\ pc[w] = "idle"
    /\ ~WriteLocked(Target[w]) /\ ~ReadLocked(Target[w])
    /\ pc' = [pc EXCEPT ![w] = "writing"]
    /\ UNCHANGED <<src, cache, todo, rpc, ask, reply, unbuilt>>

\* One insert, remove, clear or replacement; loaders make several under a guard.
Write(w) ==
    /\ pc[w] = "writing"
    /\ \/ /\ Target[w] = "identity"
          /\ \E v \in IdentityStates : src' = [src EXCEPT !.identity = v]
       \/ /\ Target[w] = "bmh"
          /\ \E v \in BmhStates : src' = [src EXCEPT !.bmh = v]
       \/ /\ Target[w] = "containers"
          /\ \E v \in ContainerStates : src' = [src EXCEPT !.containers = v]
    /\ unbuilt' = unbuilt \cup {w}
    /\ UNCHANGED <<cache, pc, todo, rpc, ask, reply>>

\* Mutation of EndWrite: the change is not followed by a rebuild.
EndWriteNoRebuild(w) ==
    /\ pc[w] = "writing"
    /\ pc' = [pc EXCEPT ![w] = "idle"]
    /\ UNCHANGED <<src, cache, todo, rpc, ask, reply, unbuilt>>

EndWrite(w) ==
    /\ pc[w] = "writing"
    /\ pc' = [pc EXCEPT ![w] = "owed"]
    /\ UNCHANGED <<src, cache, todo, rpc, ask, reply, unbuilt>>

\* A refresh whose load failed rebuilds all the same.
SkipWrite(w) ==
    /\ pc[w] = "idle"
    /\ pc' = [pc EXCEPT ![w] = "owed"]
    /\ UNCHANGED <<src, cache, todo, rpc, ask, reply, unbuilt>>

\* The future is dropped at an await, or its loader returns early with `?`:
\* guards are released, a change already made stays, no rebuild follows.
Lose(w) ==
    /\ w \in Cancellable
    /\ pc[w] \in {"writing", "owed", "has_identity", "has_bmh"}
    /\ pc' = [pc EXCEPT ![w] = "idle"]
    /\ UNCHANGED <<src, cache, todo, rpc, ask, reply, unbuilt>>

----------------------------------------------------------------------------
(* rebuild_cache                                                           *)

LockIdentity(w) ==
    /\ pc[w] = "owed"
    /\ ~WriteLocked("identity")
    /\ pc' = [pc EXCEPT ![w] = "has_identity"]
    /\ UNCHANGED <<src, cache, todo, rpc, ask, reply, unbuilt>>

LockBmh(w) ==
    /\ pc[w] = "has_identity"
    /\ ~WriteLocked("bmh")
    /\ pc' = [pc EXCEPT ![w] = "has_bmh"]
    /\ UNCHANGED <<src, cache, todo, rpc, ask, reply, unbuilt>>

\* From here on the future cannot be dropped: no await is left.
LockContainers(w) ==
    /\ pc[w] = "has_bmh"
    /\ ~WriteLocked("containers")
    /\ pc' = [pc EXCEPT ![w] = "clear"]
    /\ todo' = [todo EXCEPT ![w] = IPs]
    /\ UNCHANGED <<src, cache, rpc, ask, reply, unbuilt>>

\* DashMap::clear locks one shard after the other: it is not one step.
ClearEntry(w, ip) ==
    /\ pc[w] = "clear" /\ ip \in todo[w]
    /\ cache' = [cache EXCEPT ![ip] = NoMeta]
    /\ todo' = [todo EXCEPT ![w] = @ \ {ip}]
    /\ UNCHANGED <<src, pc, rpc, ask, reply, unbuilt>>

StartPass1(w) ==
    /\ pc[w] = "clear" /\ todo[w] = {}
    /\ pc' = [pc EXCEPT ![w] = "pass1"]
    /\ todo' = [todo EXCEPT ![w] = {ip \in IPs : HostMeta(src, ip) # NoMeta}]
    /\ unbuilt' = {}
    /\ UNCHANGED <<src, cache, rpc, ask, reply>>

InsertHost(w, ip) ==
    /\ pc[w] = "pass1" /\ ip \in todo[w]
    /\ cache' = [cache EXCEPT ![ip] = HostMeta(src, ip)]
    /\ todo' = [todo EXCEPT ![w] = @ \ {ip}]
    /\ UNCHANGED <<src, pc, rpc, ask, reply, unbuilt>>

\* Mutation of StartPass2: an address that has an entry already keeps it.
StartPass2VacantOnly(w) ==
    /\ pc[w] = "pass1" /\ todo[w] = {}
    /\ pc' = [pc EXCEPT ![w] = "pass2"]
    /\ todo' = [todo EXCEPT ![w] = {ip \in IPs : /\ ContainerMeta(src, ip) # NoMeta
                                              /\ cache[ip] = NoMeta}]
    /\ UNCHANGED <<src, cache, rpc, ask, reply, unbuilt>>

StartPass2(w) ==
    /\ pc[w] = "pass1" /\ todo[w] = {}
    /\ pc' = [pc EXCEPT ![w] = "pass2"]
    /\ todo' = [todo EXCEPT ![w] = {ip \in IPs : ContainerMeta(src, ip) # NoMeta}]
    /\ UNCHANGED <<src, cache, rpc, ask, reply, unbuilt>>

\* Mutation of InsertContainer: the entry lets root in only.
InsertContainerRootOnly(w, ip) ==
    /\ pc[w] = "pass2" /\ ip \in todo[w]
    /\ cache' = [cache EXCEPT ![ip] =
                    {[m EXCEPT !.public_keys = [root |-> @["root"]]] : m \in ContainerMeta(src, ip)}]
    /\ todo' = [todo EXCEPT ![w] = @ \ {ip}]
    /\ UNCHANGED <<src, pc, rpc, ask, reply, unbuilt>>

InsertContainer(w, ip) ==
    /\ pc[w] = "pass2" /\ ip \in todo[w]
    /\ cache' = [cache EXCEPT ![ip] = ContainerMeta(src, ip)]
    /\ todo' = [todo EXCEPT ![w] = @ \ {ip}]
    /\ UNCHANGED <<src, pc, rpc, ask, reply, unbuilt>>

Finish(w) ==
    /\ pc[w] = "pass2" /\ todo[w] = {}
    /\ pc' = [pc EXCEPT ![w] = "idle"]
    /\ UNCHANGED <<src, cache, todo, rpc, ask, reply, unbuilt>>

----------------------------------------------------------------------------
(* Requests.                                                               *)

\* get_metadata behind lookup_or_404: one read of the map, absent is a 404.
Lookup(r, ip) ==
    /\ rpc[r] = "idle"
    /\ ask' = [ask EXCEPT ![r] = ip]
    /\ reply' = [reply EXCEPT ![r] = cache[ip]]
    /\ UNCHANGED <<src, cache, pc, todo, rpc, unbuilt>>

\* resolve_on_demand that misses the cache (on a hit it is a Lookup).
Miss(r, ip) ==
    /\ rpc[r] = "idle" /\ cache[ip] = NoMeta
    /\ ask' = [ask EXCEPT ![r] = ip]
    /\ rpc' = [rpc EXCEPT ![r] = "missed"]
    /\ UNCHANGED <<src, cache, pc, todo, reply, unbuilt>>

RequestLockIdentity(r) ==
    /\ rpc[r] = "missed"
    /\ ~WriteLocked("identity")
    /\ rpc' = [rpc EXCEPT ![r] = "has_identity"]
    /\ UNCHANGED <<src, cache, pc, todo, ask, reply, unbuilt>>

\* The host is tried first; only if it has no metadata are containers locked.
RequestLockBmh(r) ==
    /\ rpc[r] = "has_identity"
    /\ ~WriteLocked("bmh")
    /\ IF HostMeta(src, ask[r]) # NoMeta
       THEN /\ reply' = [reply EXCEPT ![r] = HostMeta(src, ask[r])]
            /\ rpc' = [rpc EXCEPT ![r] = "idle"]
       ELSE /\ rpc' = [rpc EXCEPT ![r] = "has_bmh"]
            /\ UNCHANGED reply
    /\ UNCHANGED <<src, cache, pc, todo, ask, unbuilt>>

\* Mutation of RequestLockContainers: an unresolved request starts over.
RequestRetries(r) ==
    /\ rpc[r] = "has_bmh"
    /\ ~WriteLocked("containers")
    /\ rpc' = [rpc EXCEPT ![r] =
                  IF ContainerMeta(src, ask[r]) = NoMeta THEN "missed" ELSE "idle"]
    /\ reply' = [reply EXCEPT ![r] = ContainerMeta(src, ask[r])]
    /\ UNCHANGED <<src, cache, pc, todo, ask, unbuilt>>

RequestLockContainers(r) ==
    /\ rpc[r] = "has_bmh"
    /\ ~WriteLocked("containers")
    /\ reply' = [reply EXCEPT ![r] = ContainerMeta(src, ask[r])]
    /\ rpc' = [rpc EXCEPT ![r] = "idle"]
    /\ UNCHANGED <<src, cache, pc, todo, ask, unbuilt>>

Rebuild(w) ==
    \/ LockIdentity(w) \/ LockBmh(w) \/ LockContainers(w)
    \/ \E ip \in IPs : ClearEntry(w, ip) \/ InsertHost(w, ip) \/ InsertContainer(w, ip)
    \/ StartPass1(w) \/ StartPass2(w) \/ Finish(w)

WriterStep(w) ==
    \/ BeginWrite(w) \/ Write(w) \/ EndWrite(w) \/ SkipWrite(w) \/ Lose(w)
    \/ Rebuild(w)

Serve(r) ==
    \/ RequestLockIdentity(r) \/ RequestLockBmh(r) \/ RequestLockContainers(r)

Next ==
    \/ \E w \in Writers : WriterStep(w)
    \/ \E r \in Requests : Serve(r) \/ \E ip \in IPs : Lookup(r, ip) \/ Miss(r, ip)

Spec == Init /\ [][Next]_vars

----------------------------------------------------------------------------
(* Fairness. A lock request is served once the guards ahead of it are      *)
(* released (tokio's RwLock queues first come, first served): strong       *)
(* fairness of each acquisition. A write guard is held over bounded work   *)
(* (every HTTP and NATS request inside has a timeout), the rest of a       *)
(* rebuild is a loop. The tasks in Refreshers come back for ever: the BMH  *)
(* watcher rebuilds after every reconnect and on every periodic refresh,   *)
(* whether or not a load succeeded, and so does the container refresh.     *)

Fairness(Refreshers) ==
    /\ \A w \in Writers :
          /\ WF_vars(EndWrite(w))
          /\ SF_vars(LockIdentity(w)) /\ SF_vars(LockBmh(w)) /\ SF_vars(LockContainers(w))
          /\ WF_vars(\E ip \in IPs : ClearEntry(w, ip)) /\ WF_vars(StartPass1(w))
          /\ WF_vars(\E ip \in IPs : InsertHost(w, ip)) /\ WF_vars(StartPass2(w))
          /\ WF_vars(\E ip \in IPs : InsertContainer(w, ip)) /\ WF_vars(Finish(w))
    /\ \A w \in Refreshers : WF_vars(SkipWrite(w) \/ BeginWrite(w))
    /\ \A r \in Requests :
          /\ SF_vars(RequestLockIdentity(r)) /\ SF_vars(RequestLockBmh(r))
          /\ SF_vars(RequestLockContainers(r))

----------------------------------------------------------------------------
(* Properties.                                                             *)

TypeOK ==
    /\ src \in Sources
    /\ cache \in [IPs -> Metadata]
    /\ pc \in [Writers -> WriterPhases]
    /\ todo \in [Writers -> SUBSET IPs]
    /\ rpc \in [Requests -> RequestPhases]
    /\ ask \in [Requests -> IPs]
    /\ reply \in [Requests -> Metadata]
    /\ unbuilt \subseteq Writers

Fresh(ip) == cache[ip] \in {NoMeta, HostMeta(src, ip), ContainerMeta(src, ip)}

\* Once every change has been taken up and the overlapping rebuilds have all
\* ended, the cache says of every address exactly what the sources say ("after
\* all rebuilds settle, all hosts should be in cache"): no rebuild's clear
\* or first pass undoes what another has put there last.
Coherent ==
    (unbuilt = {} /\ \A w \in Writers : pc[w] \notin Building)
        => \A ip \in IPs : cache[ip] = View(src, ip)

\* As soon as one rebuild has emptied the map after the last change, even while
\* several are filling it, no address is served metadata that the present
\* sources do not give it: what was revoked does not come back.
NoRevokedEntry == unbuilt = {} => \A ip \in IPs : Fresh(ip)

(* Who may log in, said without the pipeline of resolve.rs. A login is an  *)
(* account and a key.                                                      *)

\* The rule names the user, or a group he is a member of.
Names(rule, u, identity) ==
    \E s \in rule.subjects :
        \/ s.kind = "User" /\ s.name = u
        \/ /\ s.kind = "Group" /\ s.name \in DOMAIN identity.groups
           /\ u \in identity.groups[s.name]

\* Rule r targets the host behind ip and names u, who is enabled.
Permits(s, ip, r, u) ==
    LET rule == s.identity.host_access[r]
        host == s.bmh.ip_to_hostname[ip]
    IN  /\ ip \in DOMAIN s.bmh.ip_to_hostname
        /\ RuleMatches(rule.targets, host, LabelsOf(s, host), s.identity)
        /\ Names(rule, u, s.identity) /\ s.identity.users[u].enabled

\* The pairs of a rule and a user of whom that is so.
Permitted(s, ip) ==
    {p \in (DOMAIN s.identity.host_access) \X (DOMAIN s.identity.users) :
        Permits(s, ip, p[1], p[2])}

HostLogins(s, ip) ==
    UNION {s.identity.host_access[p[1]].ssh_users \X s.identity.users[p[2]].keys :
              p \in Permitted(s, ip)}

\* The enabled user who owns the namespace of the container behind ip, if any.
OwnersOf(s, ip) ==
    {u \in DOMAIN s.identity.users :
        /\ s.identity.users[u].enabled
        /\ ip \in DOMAIN s.containers.ip_to_container
        /\ LET ns == s.containers.ip_to_container[ip].namespace
           IN  /\ ns \in DOMAIN s.containers.namespace_owners
               /\ s.containers.namespace_owners[ns] = u}

ContainerLogins(s, ip) ==
    UNION {{u, "admin", "root"} \X s.identity.users[u].keys : u \in OwnersOf(s, ip)}

\* The logins of an entry of the cache.
LoginsOf(entry) ==
    UNION {UNION {{a} \X m.public_keys[a] : a \in DOMAIN m.public_keys} : m \in entry}

\* Once a rebuild has emptied the map after the last change, and while others
\* still fill it, every login in it is one the present sources permit: the key of
\* an enabled user whom a rule for that very host names, or of the owner of the
\* container's namespace. A disabled user, or one taken out of a group or a rule,
\* is out at every address at once.
OnlyPermittedLogins ==
    unbuilt = {} =>
        \A ip \in IPs : LoginsOf(cache[ip]) \subseteq HostLogins(src, ip) \cup ContainerLogins(src, ip)

\* Nobody is locked out when the rebuilds have ended: the logins at an address are
\* all that the sources permit, whichever rule or subject a user was seen under
\* first; where a container has logins they replace those of the host.
EveryPermittedLogin ==
    (unbuilt = {} /\ \A w \in Writers : pc[w] \notin Building) =>
        \A ip \in IPs :
            LoginsOf(cache[ip]) = IF ContainerLogins(src, ip) # {}
                                  THEN ContainerLogins(src, ip)
                                  ELSE HostLogins(src, ip)

\* Sudo is given to nobody but the owner of a container, its root, and a user
\* whom a sudo rule for that host names: it does not spread from a rule to the
\* users of another one.
OnlyPermittedSudo ==
    unbuilt = {} =>
        \A ip \in IPs : \A m \in cache[ip] : \A u \in DOMAIN m.users : m.users[u].sudo =>
            \/ \E p \in Permitted(src, ip) : p[2] = u /\ src.identity.host_access[p[1]].sudo
            \/ OwnersOf(src, ip) # {} /\ u \in OwnersOf(src, ip) \cup {"root"}

\* A change whose rebuild has not happened is still owed by the task that made
\* it, unless that task is one that a select! or an abort may drop.
OwedRebuild ==
    \A w \in unbuilt \ Cancellable :
        pc[w] \in {"writing", "owed", "has_identity", "has_bmh", "clear"}

\* A provisioning request is refused only if at that instant neither the host
\* nor the container source resolves its address, although the cache lookup,
\* the host lookup and the container lookup are three separate steps.
RefusedOnlyIfUnresolvable ==
    [][\A r \in Requests :
         (rpc[r] # "idle" /\ rpc'[r] = "idle" /\ reply'[r] = NoMeta)
            => View(src, ask[r]) = NoMeta]_vars

\* However the sources keep changing and whatever rebuilds are dropped, the
\* entry of every address comes back to what the sources say, again and again.
Recurs == \A ip \in IPs : []<>(cache[ip] = View(src, ip))

\* A request that missed the cache is answered.
Answered == \A r \in Requests : rpc[r] = "missed" ~> rpc[r] = "idle"

----------------------------------------------------------------------------
(* The abstraction: all overlapping rebuilds are one filling.              *)

Filling == \E w \in Writers : pc[w] \in Building

Due == [ip \in IPs |-> View(src, ip)]

Shown == IF Filling THEN EmptyMap ELSE cache

Behind == unbuilt # {}

Service == INSTANCE MetadataService
    WITH due <- Due, served <- Shown, filling <- Filling, behind <- Behind

\* "Rebuild the full metadata cache from current state": whatever overlaps, the
\* map goes from one whole state to another. Sources never change under it, no
\* change is lost while it is filled, and the last rebuild to end leaves
\* everything that is due, and nothing else.
ServesAtOnce == Service!Spec
=============================================================================
