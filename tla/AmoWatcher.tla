----------------------------- MODULE AmoWatcher -----------------------------
(***************************************************************************)
(* The AMO watcher (src/watcher/amo.rs): one connection after the other, it*)
(* loads the NATS key-value buckets one by one into IdentityState, rebuilds*)
(* the cache, and only then watches the buckets for updates, each watch    *)
(* delivering what changes after it was made. The first watch to end drops *)
(* the others wherever they are.                                           *)
(*                                                                         *)
(* A load inserts what it finds and removes nothing. What the cache is made*)
(* of is the identity the last rebuild_cache read: "served".               *)
(***************************************************************************)
EXTENDS Naturals, Sequences, SequencesExt

CONSTANTS
    BucketOrder,  \* the buckets, in the order run_watcher loads them
    Keys,         \* names in a bucket
    Vals,         \* resources, as far as they parse
    NoVal,        \* no entry
    Static,       \* identity from the configuration (load_static_identity)
    MaxChanges    \* bound: changes made in AMO

Buckets == ToSet(BucketOrder)
Stores  == [Buckets -> [Keys -> Vals \cup {NoVal}]]

ASSUME StaticAssumption == Static \in Stores
ASSUME BucketsAssumption ==
    /\ BucketOrder \in Seq(Buckets) /\ BucketOrder # <<>> /\ IsInjective(BucketOrder)
    /\ MaxChanges \in Nat

VARIABLES
    amo,       \* the buckets (external)
    changes,   \* number of changes made in AMO
    identity,  \* IdentityState, behind its RwLock
    served,    \* identity as of the last rebuild of the cache
    phase,     \* where run_watcher is
    loaded,    \* how many buckets it has loaded
    keys,      \* keys of the bucket being loaded that are still to be read
    watching,  \* buckets with a watch
    updates,   \* updates of each watch, oldest first, not yet taken
    owed,      \* watches that have changed identity and not yet rebuilt
    last       \* history: how the last change of a key lies to the connection:
               \* before it or its load's read, after that unwatched, or watched

vars == <<amo, changes, identity, served, phase, loaded, keys, watching, updates,
          owed, last>>

conn == <<phase, loaded, keys, watching, updates, owed>>

Update == [key : Keys, val : Vals \cup {NoVal}]

Phases == {"connecting", "listing", "reading", "rebuilding", "watching"}

----------------------------------------------------------------------------
Init ==
    /\ amo \in Stores
    /\ changes = 0
    /\ identity = Static
    /\ served = Static
    /\ phase = "connecting"
    /\ loaded = 0
    /\ keys = {}
    /\ watching = {}
    /\ updates = [b \in Buckets |-> <<>>]
    /\ owed = {}
    /\ last = [b \in Buckets |-> [k \in Keys |-> "before"]]

(* AMO and the rest of the process.                                        *)

\* A put (v # NoVal), or a delete or purge, is seen by the watch there is.
Change(b, k, v) ==
    /\ changes < MaxChanges /\ amo[b][k] # v
    /\ changes' = changes + 1
    /\ amo' = [amo EXCEPT ![b][k] = v]
    /\ IF b \in watching
       THEN /\ updates' = [updates EXCEPT ![b] = Append(@, [key |-> k, val |-> v])]
            /\ last' = [last EXCEPT ![b][k] = "watched"]
       ELSE /\ last' = [last EXCEPT ![b][k] = "unwatched"]
            /\ UNCHANGED updates
    /\ UNCHANGED <<identity, served, phase, loaded, keys, watching, owed>>

\* rebuild_cache by another watcher: it waits for a load's write guard.
OtherRebuild ==
    /\ phase # "reading"
    /\ served' = identity
    /\ UNCHANGED <<amo, changes, identity, conn, last>>

----------------------------------------------------------------------------
(* run_watcher: the load.                                                  *)

Connect ==
    /\ phase = "connecting"
    /\ phase' = "listing"
    /\ last' = [b \in Buckets |-> [k \in Keys |-> "before"]]
    /\ UNCHANGED <<amo, changes, identity, served, loaded, keys, watching, updates, owed>>

\* keys() of the next bucket, and the write guard.
List ==
    /\ phase = "listing"
    /\ keys' = {k \in Keys : amo[BucketOrder[loaded + 1]][k] # NoVal}
    /\ phase' = "reading"
    /\ UNCHANGED <<amo, changes, identity, served, loaded, watching, updates, owed, last>>

\* get() of one key: what has been deleted meanwhile is passed over.
Read(k) ==
    LET b == BucketOrder[loaded + 1]
    IN  /\ phase = "reading" /\ k \in keys
        /\ keys' = keys \ {k}
        /\ identity' = [identity EXCEPT ![b][k] = IF amo[b][k] = NoVal THEN @ ELSE amo[b][k]]
        /\ last' = [last EXCEPT ![b][k] = "before"]
        /\ UNCHANGED <<amo, changes, served, phase, loaded, watching, updates, owed>>

\* Mutation of NextBucket: the cache is not rebuilt after the load.
NextBucketNoRebuild ==
    /\ phase = "reading" /\ keys = {}
    /\ loaded' = IF loaded + 1 = Len(BucketOrder) THEN 0 ELSE loaded + 1
    /\ phase' = IF loaded + 1 = Len(BucketOrder) THEN "watching" ELSE "listing"
    /\ UNCHANGED <<amo, changes, identity, served, keys, watching, updates, owed, last>>

\* Mutation of NextBucket: the next connection's load does not start over.
NextBucketNoReset ==
    /\ phase = "reading" /\ keys = {}
    /\ loaded' = loaded + 1
    /\ phase' = IF loaded + 1 = Len(BucketOrder) THEN "rebuilding" ELSE "listing"
    /\ UNCHANGED <<amo, changes, identity, served, keys, watching, updates, owed, last>>

\* The guard is dropped between buckets.
NextBucket ==
    /\ phase = "reading" /\ keys = {}
    /\ loaded' = IF loaded + 1 = Len(BucketOrder) THEN 0 ELSE loaded + 1
    /\ phase' = IF loaded + 1 = Len(BucketOrder) THEN "rebuilding" ELSE "listing"
    /\ UNCHANGED <<amo, changes, identity, served, keys, watching, updates, owed, last>>

\* `?` in a loader: what it has inserted stays, without a rebuild.
LoadFails ==
    /\ phase \in {"listing", "reading"}
    /\ phase' = "connecting"
    /\ loaded' = 0
    /\ keys' = {}
    /\ UNCHANGED <<amo, changes, identity, served, watching, updates, owed, last>>

Rebuild ==
    /\ phase = "rebuilding"
    /\ served' = identity
    /\ phase' = "watching"
    /\ UNCHANGED <<amo, changes, identity, loaded, keys, watching, updates, owed, last>>

----------------------------------------------------------------------------
(* run_watcher: the watches.                                               *)

Watch(b) ==
    /\ phase = "watching" /\ b \notin watching
    /\ watching' = watching \cup {b}
    /\ UNCHANGED <<amo, changes, identity, served, phase, loaded, keys, updates, owed, last>>

\* Mutation of Take: a put is inserted, a delete is passed over.
TakePutsOnly(b) ==
    /\ updates[b] # <<>> /\ b \notin owed
    /\ identity' = [identity EXCEPT ![b][Head(updates[b]).key] =
                       IF Head(updates[b]).val = NoVal THEN @ ELSE Head(updates[b]).val]
    /\ updates' = [updates EXCEPT ![b] = Tail(@)]
    /\ owed' = owed \cup {b}
    /\ UNCHANGED <<amo, changes, served, phase, loaded, keys, watching, last>>

\* One update under the write guard, which is dropped before the rebuild.
Take(b) ==
    /\ updates[b] # <<>> /\ b \notin owed
    /\ identity' = [identity EXCEPT ![b][Head(updates[b]).key] = Head(updates[b]).val]
    /\ updates' = [updates EXCEPT ![b] = Tail(@)]
    /\ owed' = owed \cup {b}
    /\ UNCHANGED <<amo, changes, served, phase, loaded, keys, watching, last>>

RebuildAfter(b) ==
    /\ b \in owed
    /\ served' = identity
    /\ owed' = owed \ {b}
    /\ UNCHANGED <<amo, changes, identity, phase, loaded, keys, watching, updates, last>>

\* One watch ends or fails: select! drops all of them, and what they had queued.
Disconnect ==
    /\ phase = "watching"
    /\ phase' = "connecting"
    /\ watching' = {}
    /\ updates' = [b \in Buckets |-> <<>>]
    /\ owed' = {}
    /\ UNCHANGED <<amo, changes, identity, served, loaded, keys, last>>

Load == Connect \/ List \/ (\E k \in Keys : Read(k)) \/ NextBucket \/ Rebuild

Next ==
    \/ \E b \in Buckets, k \in Keys, v \in Vals \cup {NoVal} : Change(b, k, v)
    \/ OtherRebuild
    \/ Load \/ LoadFails \/ Disconnect
    \/ \E b \in Buckets : Watch(b) \/ Take(b) \/ RebuildAfter(b)

Spec == Init /\ [][Next]_vars

\* Every request of the load and of a watch's set-up is answered or times out,
\* and start() reconnects for ever.
FairSpec ==
    /\ Spec
    /\ WF_vars(Load)
    /\ \A b \in Buckets : WF_vars(Watch(b)) /\ WF_vars(Take(b)) /\ WF_vars(RebuildAfter(b))

----------------------------------------------------------------------------
(* Properties.                                                             *)

TypeOK ==
    /\ amo \in Stores /\ identity \in Stores /\ served \in Stores
    /\ changes \in 0..MaxChanges
    /\ phase \in Phases
    /\ loaded \in 0..(Len(BucketOrder) - 1)
    /\ keys \subseteq Keys
    /\ watching \subseteq Buckets /\ owed \subseteq Buckets
    /\ updates \in [Buckets -> Seq(Update)]
    /\ last \in [Buckets -> [Keys -> {"before", "unwatched", "watched"}]]

\* The watch of b has nothing to take that concerns k, and no rebuild to do.
UpToDate(b, k) ==
    /\ phase = "watching" /\ b \notin owed
    /\ \A i \in DOMAIN updates[b] : updates[b][i].key # k

\* A connected watcher serves every resource AMO has, as AMO has it, unless it
\* changed between the load's reading it and the watch: later updates come in
\* order over what the load found, and what an earlier connection dropped with
\* its queue or before its rebuild has been made good.
PutsServed ==
    \A b \in Buckets, k \in Keys :
        (UpToDate(b, k) /\ amo[b][k] # NoVal /\ last[b][k] # "unwatched")
            => served[b][k] = amo[b][k]

\* A resource deleted while its bucket is watched is no longer served once the
\* watch is up to date.
DeletesServed ==
    \A b \in Buckets, k \in Keys :
        (UpToDate(b, k) /\ amo[b][k] = NoVal /\ last[b][k] = "watched")
            => served[b][k] = NoVal

\* "watches AMO via NATS for real-time user/group/access updates": if the watcher
\* reconnects again and again, a resource that is deleted in AMO and stays so is
\* not kept for ever, save for those of the static configuration.
DeletionsTakeEffect ==
    \A b \in Buckets, k \in Keys :
        (/\ Static[b][k] = NoVal
         /\ []<>(phase = "connecting")
         /\ []<>(phase = "watching")
         /\ <>[](amo[b][k] = NoVal))
            => []<>(served[b][k] = NoVal)
=============================================================================
