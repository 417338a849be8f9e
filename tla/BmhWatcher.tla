----------------------------- MODULE BmhWatcher -----------------------------
(***************************************************************************)
(* The BMH watcher (src/watcher/bmh.rs). run_watcher loads the hosts of    *)
(* every data network from mkube, then the DHCP leases, rebuilds the cache,*)
(* and then watches all networks at once while periodic_refresh repeats the*)
(* load. The first watch to end ends them all, and drops the refresh at    *)
(* whatever await it has reached; start() begins again.                    *)
(*                                                                         *)
(* load_all_bmh empties BmhState first and keeps the write guard across one*)
(* list request per network; a network whose request fails stays empty. A  *)
(* watch applies one event under the guard and then rebuilds the cache.    *)
(* What the cache is made of is BmhState as the last rebuild read it.      *)
(***************************************************************************)
EXTENDS Naturals, Sequences

CONSTANTS
    Namespaces,   \* data networks; each has a namespace of BareMetalHosts
    Hosts,        \* names of BareMetalHosts, which are also their hostnames
    Namespace,    \* the namespace of each host
    Addresses,    \* the addresses a namespace's hosts and leases may have
    Labels,       \* the label sets a host may have
    Leases,       \* address -> hostname: the lease table of the DHCP source
    None,         \* no host, no address, no labels
    MaxChanges,   \* bound: changes made in mkube
    MaxFailures   \* bound: requests that fail while connected

IPs == UNION {Addresses[ns] : ns \in Namespaces}

\* What mkube says of a host: status.ip, or else spec.ip, and its labels.
Objects == [ip : IPs \cup {None}, labels : Labels]
Absent  == [ip |-> None, labels |-> None]

BmhStates == [ip_to_hostname : [IPs -> Hosts \cup {None}],
              host_labels    : [Hosts -> Labels \cup {None}]]

EmptyBmh == [ip_to_hostname |-> [ip \in IPs |-> None],
             host_labels    |-> [h \in Hosts |-> None]]

ASSUME NamespaceAssumption ==
    Namespace \in [Hosts -> Namespaces] /\ Leases \in [IPs -> Hosts \cup {None}]
\* The subnets of two data networks do not overlap.
ASSUME AddressesAssumption ==
    \A m, n \in Namespaces : m # n => Addresses[m] \cap Addresses[n] = {}
ASSUME NoneAssumption == None \notin IPs \cup Hosts \cup Labels
ASSUME BoundsAssumption == MaxChanges \in Nat /\ MaxFailures \in Nat

VARIABLES
    mkube,        \* the BareMetalHosts (external)
    changes, failures,
    bmh,          \* BmhState behind its RwLock
    served,       \* BmhState as the last rebuild of the cache read it
    known,        \* data_namespaces
    run,          \* "loading", "watching" or "waiting" to reconnect
    load,         \* where the load is, of run_watcher or of periodic_refresh
    todo,         \* namespaces it has still to list
    watching,     \* namespaces with a watch
    events,       \* events of each watch, oldest first, not yet taken
    owed,         \* watches that have applied an event and not yet rebuilt
    synced        \* history: namespaces of which the watcher has missed nothing

vars == <<mkube, changes, failures, bmh, served, known, run, load, todo, watching,
          events, owed, synced>>

Event == [host : Hosts, object : Objects \cup {Absent}]

\* The write guard of BmhState is held across awaits only by a load.
Unlocked == load # "listing"

----------------------------------------------------------------------------
(* BmhState.                                                               *)

\* apply_bmh_to_state: a host without an address is passed over, and an address
\* the host had before stays mapped to it.
apply_bmh_to_state(h, object, b) ==
    IF object.ip = None THEN b
    ELSE [ip_to_hostname |-> [b.ip_to_hostname EXCEPT ![object.ip] = h],
          host_labels    |-> [b.host_labels EXCEPT ![h] = object.labels]]

\* Event DELETED: every address mapped to the hostname goes.
Delete(h, b) ==
    [ip_to_hostname |-> [ip \in IPs |-> IF b.ip_to_hostname[ip] = h THEN None
                                        ELSE b.ip_to_hostname[ip]],
     host_labels    |-> [b.host_labels EXCEPT ![h] = None]]

handle_watch_event(h, object, b) ==
    IF object = Absent THEN Delete(h, b) ELSE apply_bmh_to_state(h, object, b)

\* Mutation of ApplyList: a host without an address is mapped as well.
ApplyListAll(ns, b) ==
    LET listed == {h \in Hosts : Namespace[h] = ns /\ mkube[h] # Absent}
    IN  [ip_to_hostname |->
            [ip \in IPs \cup {mkube[h].ip : h \in listed} |->
                IF \E h \in listed : mkube[h].ip = ip
                THEN CHOOSE h \in listed : mkube[h].ip = ip
                ELSE b.ip_to_hostname[ip]],
         host_labels |->
            [h \in Hosts |-> IF h \in listed THEN mkube[h].labels ELSE b.host_labels[h]]]

\* One list: its hosts hold one address each and no two the same.
ApplyList(ns, b) ==
    LET listed == {h \in Hosts : Namespace[h] = ns /\ mkube[h].ip # None}
    IN  [ip_to_hostname |->
            [ip \in IPs |-> IF \E h \in listed : mkube[h].ip = ip
                            THEN CHOOSE h \in listed : mkube[h].ip = ip
                            ELSE b.ip_to_hostname[ip]],
         host_labels |->
            [h \in Hosts |-> IF h \in listed THEN mkube[h].labels ELSE b.host_labels[h]]]

\* Mutation of ApplyLeases: a lease replaces what a host object says.
LeasesOverride(b) ==
    [b EXCEPT !.ip_to_hostname = [ip \in IPs |-> IF Leases[ip] # None THEN Leases[ip] ELSE @[ip]]]

\* load_dhcp_leases: vacant addresses only.
ApplyLeases(b) ==
    [b EXCEPT !.ip_to_hostname = [ip \in IPs |-> IF @[ip] = None THEN Leases[ip] ELSE @[ip]]]

----------------------------------------------------------------------------
\* mkube reserves each address of a network for one host.
Consistent(m) ==
    \A g, h \in Hosts :
        /\ m[h].ip \in Addresses[Namespace[h]] \cup {None}
        /\ m[g].ip = m[h].ip /\ m[h].ip # None => g = h

Init ==
    /\ mkube \in {m \in [Hosts -> Objects \cup {Absent}] : Consistent(m)}
    /\ changes = 0 /\ failures = 0
    /\ bmh = EmptyBmh /\ served = EmptyBmh
    /\ known = {}
    /\ run = "waiting" /\ load = "none" /\ todo = {}
    /\ watching = {} /\ owed = {} /\ synced = {}
    /\ events = [ns \in Namespaces |-> <<>>]

(* mkube and the rest of the process.                                      *)

\* ADDED, MODIFIED (object # Absent) or DELETED.
Change(h, object) ==
    LET ns == Namespace[h]
    IN  /\ changes < MaxChanges /\ mkube[h] # object
        /\ Consistent([mkube EXCEPT ![h] = object])
        /\ changes' = changes + 1
        /\ mkube' = [mkube EXCEPT ![h] = object]
        /\ IF ns \in watching
           THEN /\ events' = [events EXCEPT ![ns] = Append(@, [host |-> h, object |-> object])]
                /\ UNCHANGED synced
           ELSE /\ synced' = synced \ {ns}
                /\ UNCHANGED events
        /\ UNCHANGED <<failures, bmh, served, known, run, load, todo, watching, owed>>

\* rebuild_cache by another watcher.
OtherRebuild ==
    /\ Unlocked
    /\ served' = bmh
    /\ UNCHANGED <<mkube, changes, failures, bmh, known, run, load, todo, watching,
                   events, owed, synced>>

----------------------------------------------------------------------------
(* load_all_bmh, load_dhcp_leases, rebuild_cache: by run_watcher while     *)
(* run = "loading", by periodic_refresh while run = "watching".            *)

Connect ==
    /\ run = "waiting"
    /\ run' = "loading" /\ load' = "discover"
    /\ UNCHANGED <<mkube, changes, failures, bmh, served, known, todo, watching, events,
                   owed, synced>>

Refresh ==
    /\ run = "watching" /\ load = "none"
    /\ load' = "discover"
    /\ UNCHANGED <<mkube, changes, failures, bmh, served, known, run, todo, watching,
                   events, owed, synced>>

\* Mutation of Discover: what an earlier load has found is kept.
DiscoverNoClear ==
    /\ load = "discover"
    /\ load' = "listing" /\ todo' = Namespaces
    /\ UNCHANGED <<mkube, changes, failures, bmh, served, known, run, watching, events,
                   owed, synced>>

\* The data networks are known: the guard is taken and everything cleared.
Discover ==
    /\ load = "discover"
    /\ load' = "listing" /\ todo' = Namespaces
    /\ bmh' = EmptyBmh
    /\ synced' = {}
    /\ UNCHANGED <<mkube, changes, failures, served, known, run, watching, events, owed>>

\* discover_data_networks fails: the hosts known before stay.
DiscoverFails ==
    /\ load = "discover" /\ failures < MaxFailures
    /\ failures' = failures + 1
    /\ load' = "leases"
    /\ UNCHANGED <<mkube, changes, bmh, served, known, run, todo, watching, events, owed,
                   synced>>

List(ns) ==
    /\ load = "listing" /\ ns \in todo
    /\ todo' = todo \ {ns}
    /\ bmh' = ApplyList(ns, bmh)
    /\ synced' = synced \cup {ns}
    /\ UNCHANGED <<mkube, changes, failures, served, known, run, load, watching, events, owed>>

\* Not reached, an error status, or no valid JSON: the next namespace.
ListFails(ns) ==
    /\ load = "listing" /\ ns \in todo /\ failures < MaxFailures
    /\ failures' = failures + 1
    /\ todo' = todo \ {ns}
    /\ UNCHANGED <<mkube, changes, bmh, served, known, run, load, watching, events, owed,
                   synced>>

Listed ==
    /\ load = "listing" /\ todo = {}
    /\ known' = Namespaces
    /\ load' = "leases"
    /\ UNCHANGED <<mkube, changes, failures, bmh, served, run, todo, watching, events,
                   owed, synced>>

\* The leases come without the guard; events may be applied before they are.
LoadLeases ==
    /\ load = "leases"
    /\ bmh' = ApplyLeases(bmh)
    /\ load' = "rebuild"
    /\ UNCHANGED <<mkube, changes, failures, served, known, run, todo, watching, events,
                   owed, synced>>

LeasesFail ==
    /\ load = "leases" /\ failures < MaxFailures
    /\ failures' = failures + 1
    /\ load' = "rebuild"
    /\ UNCHANGED <<mkube, changes, bmh, served, known, run, todo, watching, events, owed,
                   synced>>

\* Without any namespace there is nothing to watch, and run_watcher returns.
Rebuild ==
    /\ load = "rebuild"
    /\ served' = bmh
    /\ load' = "none"
    /\ run' = IF known = {} THEN "waiting" ELSE "watching"
    /\ UNCHANGED <<mkube, changes, failures, bmh, known, todo, watching, events, owed, synced>>

----------------------------------------------------------------------------
(* The watches.                                                            *)

Watch(ns) ==
    /\ run = "watching" /\ ns \in known \ watching
    /\ watching' = watching \cup {ns}
    /\ UNCHANGED <<mkube, changes, failures, bmh, served, known, run, load, todo, events,
                   owed, synced>>

\* One event under the guard, which is dropped before the rebuild.
Take(ns) ==
    /\ events[ns] # <<>> /\ ns \notin owed /\ Unlocked
    /\ bmh' = handle_watch_event(Head(events[ns]).host, Head(events[ns]).object, bmh)
    /\ events' = [events EXCEPT ![ns] = Tail(@)]
    /\ owed' = owed \cup {ns}
    /\ UNCHANGED <<mkube, changes, failures, served, known, run, load, todo, watching, synced>>

RebuildAfter(ns) ==
    /\ ns \in owed /\ Unlocked
    /\ served' = bmh
    /\ owed' = owed \ {ns}
    /\ UNCHANGED <<mkube, changes, failures, bmh, known, run, load, todo, watching, events,
                   synced>>

\* A watch fails to start, is cut or times out: select_all returns, the others are
\* aborted, the refresh is dropped where it is, with its guard.
Disconnect ==
    /\ run = "watching"
    /\ run' = "waiting" /\ load' = "none" /\ todo' = {}
    /\ watching' = {} /\ owed' = {}
    /\ events' = [ns \in Namespaces |-> <<>>]
    /\ synced' = synced \ {ns \in Namespaces : events[ns] # <<>>}
    /\ UNCHANGED <<mkube, changes, failures, bmh, served, known>>

Load ==
    \/ Connect
    \/ Discover \/ DiscoverFails
    \/ (\E ns \in Namespaces : List(ns) \/ ListFails(ns)) \/ Listed
    \/ LoadLeases \/ LeasesFail \/ Rebuild

Next ==
    \/ \E h \in Hosts, object \in Objects \cup {Absent} : Change(h, object)
    \/ OtherRebuild
    \/ Load \/ Refresh \/ Disconnect
    \/ \E ns \in Namespaces : Watch(ns) \/ Take(ns) \/ RebuildAfter(ns)

Spec == Init /\ [][Next]_vars

\* Every request has a timeout, every watch ends within the hour, start()
\* reconnects for ever, and periodic_refresh comes round while it is not dropped.
Fairness ==
    /\ WF_vars(Load) /\ WF_vars(Refresh)
    /\ \A ns \in Namespaces : WF_vars(Watch(ns)) /\ WF_vars(Take(ns)) /\ WF_vars(RebuildAfter(ns))

----------------------------------------------------------------------------
(* Properties.                                                             *)

TypeOK ==
    /\ mkube \in [Hosts -> Objects \cup {Absent}]
    /\ changes \in 0..MaxChanges /\ failures \in 0..MaxFailures
    /\ bmh \in BmhStates /\ served \in BmhStates
    /\ run \in {"loading", "watching", "waiting"}
    /\ load \in {"none", "discover", "listing", "leases", "rebuild"}
    /\ \A S \in {known, todo, watching, owed, synced} : S \subseteq Namespaces
    /\ events \in [Namespaces -> Seq(Event)]

\* A network that was listed since BmhState was last cleared, and none of whose
\* changes since then went unwatched, is tracked exactly once its events are
\* taken: every address of a host leads to it, with its labels, and no labels
\* are left of a host that is gone; even though a refresh lists the hosts
\* ahead of the events still queued and these are then applied over the newer
\* list.
Tracked ==
    \A h \in Hosts :
        (Namespace[h] \in synced /\ events[Namespace[h]] = <<>>) =>
            /\ mkube[h].ip # None =>
                 /\ bmh.ip_to_hostname[mkube[h].ip] = h
                 /\ bmh.host_labels[h] = mkube[h].labels
            /\ mkube[h] = Absent => bmh.host_labels[h] = None

\* What a load that finds everything at rest makes of mkube and the leases.
Wanted ==
    [ip_to_hostname |->
        [ip \in IPs |-> IF \E h \in Hosts : mkube[h].ip = ip
                        THEN CHOOSE h \in Hosts : mkube[h].ip = ip ELSE Leases[ip]],
     host_labels |->
        [h \in Hosts |-> IF mkube[h].ip # None THEN mkube[h].labels ELSE None]]

\* "Periodic full refresh as a consistency check [...] to catch any missed
\* events": whatever was missed, dropped or half loaded, and whatever address a
\* host has left behind, once mkube stops changing and answers, the cache
\* is made of exactly what mkube and the leases say, again and again.
Heals == []<>(served = Wanted)
=============================================================================
