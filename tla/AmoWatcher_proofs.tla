-------------------------- MODULE AmoWatcher_proofs --------------------------
(***************************************************************************)
(* Proofs about AmoWatcher, for any buckets, names, resources and static   *)
(* identity, and any number of changes: what a connected watcher serves.   *)
(***************************************************************************)
EXTENDS AmoWatcher, TLAPS

----------------------------------------------------------------------------
(* The inductive invariant.                                                *)

Agrees(b, k) == amo[b][k] = NoVal \/ identity[b][k] = amo[b][k]

Queued(b, k) == \E i \in DOMAIN updates[b] : updates[b][i].key = k

\* The load of this connection has been past k of b.
Passed(b, k) ==
    \/ phase \in {"rebuilding", "watching"}
    \/ phase \in {"listing", "reading"} /\ \E i \in 1 .. loaded : BucketOrder[i] = b
    \/ phase = "reading" /\ BucketOrder[loaded + 1] = b /\ k \notin keys

\* A connection's watches, and what they hold, end with it.
Connection ==
    /\ phase \in {"connecting", "rebuilding", "watching"} => loaded = 0
    /\ phase # "watching" => watching = {} /\ owed = {}
    /\ \A b \in Buckets : updates[b] # <<>> => b \in watching
    /\ \A b \in Buckets, k \in Keys :
          last[b][k] = "watched" => phase = "connecting" \/ b \in watching

\* The youngest update of a key in a watch's queue is what AMO has.
YoungestIsNew(b, k) ==
    \A i \in DOMAIN updates[b] :
        (/\ updates[b][i].key = k
         /\ \A j \in DOMAIN updates[b] : j > i => updates[b][j].key # k)
            => updates[b][i].val = amo[b][k]

\* Without an update in the queue, what the load has passed is what AMO has, but
\* for deletions, and what a watch has delivered is what AMO has.
Known(b, k) ==
    /\ Queued(b, k) => last[b][k] = "watched"
    /\ ~Queued(b, k) /\ Passed(b, k) /\ last[b][k] = "before" => Agrees(b, k)
    /\ ~Queued(b, k) /\ phase = "watching" /\ last[b][k] = "watched"
          => identity[b][k] = amo[b][k]

\* A watch that owes no rebuild has its bucket in the cache.
Rebuilt == phase = "watching" => \A b \in Buckets \ owed : served[b] = identity[b]

IInv ==
    /\ TypeOK /\ Connection /\ Rebuilt
    /\ \A b \in Buckets, k \in Keys : YoungestIsNew(b, k) /\ Known(b, k)

LEMMA BucketAt == \A i \in 1 .. Len(BucketOrder) : BucketOrder[i] \in Buckets
  BY BucketsAssumption

LEMMA AllBuckets == \A b \in Buckets : \E i \in 1 .. Len(BucketOrder) : BucketOrder[i] = b
  BY BucketsAssumption DEF Buckets, ToSet

LEMMA InitInv == Init => IInv
  <1> SUFFICES ASSUME Init PROVE IInv
    OBVIOUS
  <1>1. Len(BucketOrder) \in Nat \ {0}
    BY BucketsAssumption
  <1>2. TypeOK
    BY <1>1, StaticAssumption, BucketsAssumption DEF Init, TypeOK, Phases
  <1>3. Connection /\ Rebuilt
    BY DEF Init, Connection, Rebuilt
  <1>4. \A b \in Buckets, k \in Keys : YoungestIsNew(b, k) /\ Known(b, k)
    BY DEF Init, YoungestIsNew, Known, Queued, Passed
  <1>5. QED
    BY <1>2, <1>3, <1>4 DEF IInv

----------------------------------------------------------------------------
(* One lemma per action.                                                   *)

LEMMA ChangeInv ==
    ASSUME IInv, NEW b \in Buckets, NEW k \in Keys, NEW v \in Vals \cup {NoVal}, Change(b, k, v)
    PROVE  IInv'
  <1> DEFINE u == [key |-> k, val |-> v]
  <1>1. /\ UNCHANGED <<identity, served, phase, loaded, keys, watching, owed>>
        /\ amo' = [amo EXCEPT ![b][k] = v]
        /\ amo \in Stores /\ updates \in [Buckets -> Seq(Update)]
        /\ changes \in Nat /\ changes < MaxChanges /\ changes' = changes + 1
    BY DEF Change, IInv, TypeOK
  <1>2. amo'[b][k] = v /\ \A c \in Buckets, l \in Keys : <<c, l>> # <<b, k>> => amo'[c][l] = amo[c][l]
    BY <1>1 DEF Stores
  <1>3. amo' \in Stores /\ changes' \in 0 .. MaxChanges
    BY <1>1, BucketsAssumption DEF Stores
  <1>4. CASE b \in watching
    <2>1. /\ updates' = [updates EXCEPT ![b] = Append(updates[b], u)]
          /\ last' = [last EXCEPT ![b][k] = "watched"]
      BY <1>4 DEF Change
    <2>2. u \in Update
      BY DEF Update
    <2>3. updates' \in [Buckets -> Seq(Update)]
      BY <1>1, <2>1, <2>2
    <2>4. last' \in [Buckets -> [Keys -> {"before", "unwatched", "watched"}]]
      BY <2>1 DEF IInv, TypeOK
    <2>5. TypeOK'
      BY <1>1, <1>3, <2>3, <2>4 DEF IInv, TypeOK
    <2>6. /\ last'[b][k] = "watched"
          /\ \A c \in Buckets, l \in Keys : <<c, l>> # <<b, k>> => last'[c][l] = last[c][l]
      BY <2>1 DEF IInv, TypeOK
    <2>7. \A c \in Buckets \ {b} : updates'[c] = updates[c]
      BY <1>1, <2>1
    <2>8. /\ Len(updates[b]) \in Nat /\ DOMAIN updates[b] = 1 .. Len(updates[b])
          /\ DOMAIN updates'[b] = 1 .. Len(updates[b]) + 1
          /\ \A i \in 1 .. Len(updates[b]) : updates'[b][i] = updates[b][i]
          /\ updates'[b][Len(updates[b]) + 1] = u
      BY <1>1, <2>1, <2>2
    <2>9. Connection'
      BY <1>1, <1>4, <2>6, <2>7 DEF IInv, Connection
    <2>10. Rebuilt'
      BY <1>1 DEF IInv, Rebuilt
    <2>11. ASSUME NEW c \in Buckets, NEW l \in Keys
           PROVE  (YoungestIsNew(c, l) /\ Known(c, l))'
      <3>0. YoungestIsNew(c, l) /\ Known(c, l)
        BY DEF IInv
      <3>1. CASE c # b
        <4>1. /\ amo'[c][l] = amo[c][l] /\ last'[c][l] = last[c][l] /\ updates'[c] = updates[c]
              /\ identity'[c][l] = identity[c][l]
          BY <1>1, <1>2, <2>6, <2>7, <3>1
        <4>2. (Queued(c, l)' <=> Queued(c, l)) /\ (Agrees(c, l)' <=> Agrees(c, l))
          BY <4>1 DEF Queued, Agrees
        <4>3. Passed(c, l)' <=> Passed(c, l)
          BY <1>1 DEF Passed
        <4>4. YoungestIsNew(c, l)'
          BY <3>0, <4>1 DEF YoungestIsNew
        <4>5. QED
          BY <1>1, <3>0, <4>1, <4>2, <4>3, <4>4 DEF Known
      <3>2. CASE c = b /\ l # k
        <4>1. Queued(c, l)' = Queued(c, l)
          BY <2>8, <3>2 DEF Queued
        <4>2. YoungestIsNew(c, l)'
          <5> SUFFICES ASSUME NEW i \in 1 .. Len(updates[b]) + 1, updates'[b][i].key = l,
                              \A j \in 1 .. Len(updates[b]) + 1 : j > i => updates'[b][j].key # l
                       PROVE  updates'[b][i].val = amo'[b][l]
            BY <2>8, <3>2 DEF YoungestIsNew
          <5>1. i \in 1 .. Len(updates[b])
            BY <2>8, <3>2
          <5>2. updates[b][i].key = l
                /\ \A j \in 1 .. Len(updates[b]) : j > i => updates[b][j].key # l
            BY <2>8, <5>1
          <5>3. updates[b][i].val = amo[b][l]
            BY <2>8, <3>0, <3>2, <5>1, <5>2 DEF YoungestIsNew
          <5>4. amo'[b][l] = amo[b][l]
            BY <1>2, <3>2
          <5>5. QED
            BY <2>8, <5>1, <5>3, <5>4
        <4>3. Known(c, l)'
          BY <1>1, <1>2, <2>6, <3>0, <3>2, <4>1 DEF Known, Passed, Agrees
        <4>4. QED
          BY <4>2, <4>3
      <3>3. CASE c = b /\ l = k
        <4>1. Queued(c, l)'
          BY <2>8, <3>3 DEF Queued
        <4>2. YoungestIsNew(c, l)'
          BY <1>2, <2>8, <3>3 DEF YoungestIsNew
        <4>3. QED
          BY <2>6, <3>3, <4>1, <4>2 DEF Known
      <3>4. QED
        BY <3>1, <3>2, <3>3
    <2>12. QED
      BY <2>5, <2>9, <2>10, <2>11 DEF IInv
  <1>5. CASE b \notin watching
    <2>1. /\ updates' = updates /\ last' = [last EXCEPT ![b][k] = "unwatched"]
      BY <1>5 DEF Change
    <2>2. last' \in [Buckets -> [Keys -> {"before", "unwatched", "watched"}]]
      BY <2>1 DEF IInv, TypeOK
    <2>3. /\ last'[b][k] = "unwatched"
          /\ \A c \in Buckets, l \in Keys : <<c, l>> # <<b, k>> => last'[c][l] = last[c][l]
      BY <2>1 DEF IInv, TypeOK
    <2>4. TypeOK'
      BY <1>1, <1>3, <2>1, <2>2 DEF IInv, TypeOK
    <2>5. Connection' /\ Rebuilt'
      BY <1>1, <2>1, <2>3 DEF IInv, Connection, Rebuilt
    <2>6. updates[b] = <<>>
      BY <1>5 DEF IInv, Connection
    <2>7. ASSUME NEW c \in Buckets, NEW l \in Keys
          PROVE  YoungestIsNew(c, l)' /\ Known(c, l)'
      <3>1. CASE <<c, l>> = <<b, k>>
        BY <2>1, <2>3, <2>6, <3>1 DEF YoungestIsNew, Known, Queued
      <3>2. CASE <<c, l>> # <<b, k>>
        <4>1. amo'[c][l] = amo[c][l] /\ last'[c][l] = last[c][l]
          BY <1>2, <2>3, <3>2
        <4>2. YoungestIsNew(c, l) /\ Known(c, l)
          BY DEF IInv
        <4>3. YoungestIsNew(c, l)'
          BY <2>1, <4>1, <4>2 DEF YoungestIsNew
        <4>4. Known(c, l)'
          BY <1>1, <2>1, <4>1, <4>2 DEF Known, Queued, Passed, Agrees
        <4>5. QED
          BY <4>3, <4>4
      <3>3. QED
        BY <3>1, <3>2
    <2>8. QED
      BY <2>4, <2>5, <2>7 DEF IInv
  <1>6. QED
    BY <1>4, <1>5

\* Steps that change neither AMO, nor the queues, nor the history, nor how far the
\* load is, nor the identity: the known stays known.
LEMMA KnownFrame ==
    ASSUME IInv, UNCHANGED <<amo, identity, updates, last, phase, loaded, keys>>
    PROVE  \A b \in Buckets, k \in Keys : YoungestIsNew(b, k)' /\ Known(b, k)'
  BY DEF IInv, YoungestIsNew, Known, Queued, Passed, Agrees

LEMMA OtherRebuildInv == IInv /\ OtherRebuild => IInv'
  <1> SUFFICES ASSUME IInv, OtherRebuild PROVE IInv'
    OBVIOUS
  <1>1. TypeOK' /\ Connection' /\ Rebuilt'
    BY DEF OtherRebuild, conn, IInv, TypeOK, Connection, Rebuilt
  <1>2. QED
    BY <1>1, KnownFrame DEF OtherRebuild, conn, IInv

LEMMA ConnectInv == IInv /\ Connect => IInv'
  <1> SUFFICES ASSUME IInv, Connect PROVE IInv'
    OBVIOUS
  <1>1. /\ phase = "connecting" /\ phase' = "listing" /\ loaded = 0 /\ loaded' = 0
        /\ \A b \in Buckets : updates'[b] = <<>>
        /\ \A b \in Buckets, k \in Keys : last'[b][k] = "before"
    BY DEF Connect, IInv, Connection
  <1>2. TypeOK' /\ Connection' /\ Rebuilt'
    BY <1>1 DEF Connect, IInv, TypeOK, Phases, Connection, Rebuilt
  <1>3. \A b \in Buckets, k \in Keys : YoungestIsNew(b, k)' /\ Known(b, k)'
    BY <1>1 DEF YoungestIsNew, Known, Queued, Passed
  <1>4. QED
    BY <1>2, <1>3 DEF IInv

LEMMA ListInv == IInv /\ List => IInv'
  <1> SUFFICES ASSUME IInv, List PROVE IInv'
    OBVIOUS
  <1> DEFINE b0 == BucketOrder[loaded + 1]
  <1>1. /\ phase = "listing" /\ phase' = "reading"
        /\ keys' = {k \in Keys : amo[b0][k] # NoVal}
        /\ UNCHANGED <<amo, changes, identity, served, loaded, watching, updates, owed, last>>
    BY DEF List
  <1>2. TypeOK' /\ Connection' /\ Rebuilt'
    BY <1>1 DEF IInv, TypeOK, Phases, Connection, Rebuilt
  <1>3. ASSUME NEW b \in Buckets, NEW k \in Keys
        PROVE  YoungestIsNew(b, k)' /\ Known(b, k)'
    <2>1. Passed(b, k)' => Passed(b, k) \/ amo[b][k] = NoVal
      BY <1>1 DEF Passed
    <2>2. YoungestIsNew(b, k) /\ Known(b, k)
      BY DEF IInv
    <2>3. QED
      BY <1>1, <2>1, <2>2 DEF YoungestIsNew, Known, Queued, Agrees
  <1>4. QED
    BY <1>2, <1>3 DEF IInv

LEMMA ReadInv ==
    ASSUME IInv, NEW k \in Keys, Read(k)
    PROVE  IInv'
  <1> DEFINE b == BucketOrder[loaded + 1]
             new == IF amo[b][k] = NoVal THEN identity[b][k] ELSE amo[b][k]
  <1>1. /\ phase = "reading" /\ keys' = keys \ {k}
        /\ identity' = [identity EXCEPT ![b][k] = new]
        /\ last' = [last EXCEPT ![b][k] = "before"]
        /\ UNCHANGED <<amo, changes, served, phase, loaded, watching, updates, owed>>
    BY DEF Read
  <1>2. b \in Buckets
    BY BucketAt DEF IInv, TypeOK
  <1>3. /\ identity' \in Stores /\ identity'[b][k] = new
        /\ \A c \in Buckets, l \in Keys : <<c, l>> # <<b, k>> => identity'[c][l] = identity[c][l]
    BY <1>1, <1>2 DEF IInv, TypeOK, Stores
  <1>4. /\ last' \in [Buckets -> [Keys -> {"before", "unwatched", "watched"}]]
        /\ last'[b][k] = "before"
        /\ \A c \in Buckets, l \in Keys : <<c, l>> # <<b, k>> => last'[c][l] = last[c][l]
    BY <1>1, <1>2 DEF IInv, TypeOK
  <1>5. TypeOK'
    BY <1>1, <1>3, <1>4 DEF IInv, TypeOK
  <1>6. Connection' /\ Rebuilt'
    BY <1>1, <1>4 DEF IInv, Connection, Rebuilt
  <1>7. \A c \in Buckets : updates[c] = <<>>
    BY <1>1 DEF IInv, Connection
  <1>8. ASSUME NEW c \in Buckets, NEW l \in Keys
        PROVE  YoungestIsNew(c, l)' /\ Known(c, l)'
    <2>1. CASE <<c, l>> = <<b, k>>
      BY <1>1, <1>3, <1>4, <1>7, <2>1 DEF YoungestIsNew, Known, Queued, Agrees
    <2>2. CASE <<c, l>> # <<b, k>>
      <3>1. Passed(c, l)' => Passed(c, l)
        BY <1>1, <2>2 DEF Passed
      <3>2. YoungestIsNew(c, l) /\ Known(c, l)
        BY DEF IInv
      <3>3. QED
        BY <1>1, <1>3, <1>4, <1>7, <2>2, <3>1, <3>2 DEF YoungestIsNew, Known, Queued, Agrees
    <2>3. QED
      BY <2>1, <2>2
  <1>9. QED
    BY <1>5, <1>6, <1>8 DEF IInv

LEMMA NextBucketInv == IInv /\ NextBucket => IInv'
  <1> SUFFICES ASSUME IInv, NextBucket PROVE IInv'
    OBVIOUS
  <1>1. /\ phase = "reading" /\ keys = {}
        /\ UNCHANGED <<amo, changes, identity, served, keys, watching, updates, owed, last>>
        /\ loaded \in 0 .. (Len(BucketOrder) - 1) /\ Len(BucketOrder) \in Nat
    BY BucketsAssumption DEF NextBucket, IInv, TypeOK
  <1>2. \/ loaded + 1 = Len(BucketOrder) /\ loaded' = 0 /\ phase' = "rebuilding"
        \/ loaded + 1 # Len(BucketOrder) /\ loaded' = loaded + 1 /\ phase' = "listing"
    BY DEF NextBucket
  <1>3. TypeOK'
    BY <1>1, <1>2 DEF IInv, TypeOK, Phases
  <1>4. Connection' /\ Rebuilt'
    BY <1>1, <1>2 DEF IInv, Connection, Rebuilt
  <1>5. ASSUME NEW b \in Buckets, NEW k \in Keys
        PROVE  YoungestIsNew(b, k)' /\ Known(b, k)'
    <2>1. Passed(b, k)' => Passed(b, k)
      <3>1. CASE phase' = "rebuilding"
        <4>1. PICK i \in 1 .. Len(BucketOrder) : BucketOrder[i] = b
          BY AllBuckets
        <4>2. i \in 1 .. loaded \/ i = loaded + 1
          BY <1>1, <1>2, <3>1
        <4>3. QED
          BY <1>1, <4>1, <4>2 DEF Passed
      <3>2. CASE phase' = "listing" /\ loaded' = loaded + 1
        <4>1. \A i \in 1 .. loaded' : i \in 1 .. loaded \/ i = loaded + 1
          BY <1>1, <3>2
        <4>2. QED
          BY <1>1, <3>2, <4>1 DEF Passed
      <3>3. QED
        BY <1>2, <3>1, <3>2
    <2>2. YoungestIsNew(b, k) /\ Known(b, k) /\ phase' # "watching"
      BY <1>2 DEF IInv
    <2>3. QED
      BY <1>1, <2>1, <2>2 DEF YoungestIsNew, Known, Queued, Agrees
  <1>6. QED
    BY <1>3, <1>4, <1>5 DEF IInv

LEMMA LoadFailsInv == IInv /\ LoadFails => IInv'
  <1> SUFFICES ASSUME IInv, LoadFails PROVE IInv'
    OBVIOUS
  <1>1. Len(BucketOrder) \in Nat \ {0}
    BY BucketsAssumption
  <1>2. TypeOK' /\ Connection' /\ Rebuilt'
    BY <1>1 DEF LoadFails, IInv, TypeOK, Phases, Connection, Rebuilt
  <1>3. \A b \in Buckets, k \in Keys : YoungestIsNew(b, k)' /\ Known(b, k)'
    BY DEF LoadFails, IInv, YoungestIsNew, Known, Queued, Passed
  <1>4. QED
    BY <1>2, <1>3 DEF IInv

LEMMA RebuildInv == IInv /\ Rebuild => IInv'
  <1> SUFFICES ASSUME IInv, Rebuild PROVE IInv'
    OBVIOUS
  <1>1. TypeOK' /\ Connection' /\ Rebuilt'
    BY DEF Rebuild, IInv, TypeOK, Phases, Connection, Rebuilt
  <1>2. \A b \in Buckets, k \in Keys : last[b][k] # "watched"
    BY DEF Rebuild, IInv, Connection
  <1>3. \A b \in Buckets, k \in Keys : YoungestIsNew(b, k)' /\ Known(b, k)'
    BY <1>2 DEF Rebuild, IInv, YoungestIsNew, Known, Queued, Passed, Agrees
  <1>4. QED
    BY <1>1, <1>3 DEF IInv

LEMMA WatchInv ==
    ASSUME IInv, NEW b \in Buckets, Watch(b)
    PROVE  IInv'
  <1>1. TypeOK' /\ Connection' /\ Rebuilt'
    BY DEF Watch, IInv, TypeOK, Connection, Rebuilt
  <1>2. QED
    BY <1>1, KnownFrame DEF Watch, IInv

LEMMA TakeInv ==
    ASSUME IInv, NEW b \in Buckets, Take(b)
    PROVE  IInv'
  <1> DEFINE u == Head(updates[b])
             n == Len(updates[b])
  <1>1. /\ updates[b] # <<>> /\ updates[b] \in Seq(Update)
        /\ identity' = [identity EXCEPT ![b][u.key] = u.val]
        /\ updates' = [updates EXCEPT ![b] = Tail(updates[b])]
        /\ owed' = owed \cup {b}
        /\ UNCHANGED <<amo, changes, served, phase, loaded, keys, watching, last>>
    BY DEF Take, IInv, TypeOK
  <1>2. /\ n \in Nat \ {0} /\ DOMAIN updates[b] = 1 .. n
        /\ u = updates[b][1] /\ u \in Update
        /\ Tail(updates[b]) \in Seq(Update) /\ DOMAIN Tail(updates[b]) = 1 .. (n - 1)
        /\ \A i \in 1 .. (n - 1) : Tail(updates[b])[i] = updates[b][i + 1]
    BY <1>1
  <1>3. u.key \in Keys /\ u.val \in Vals \cup {NoVal}
    BY <1>2 DEF Update
  <1>4. /\ updates' \in [Buckets -> Seq(Update)] /\ updates'[b] = Tail(updates[b])
        /\ \A c \in Buckets \ {b} : updates'[c] = updates[c]
    BY <1>1, <1>2 DEF IInv, TypeOK
  <1>5. /\ identity' \in Stores /\ identity'[b][u.key] = u.val
        /\ \A c \in Buckets \ {b} : identity'[c] = identity[c]
        /\ \A l \in Keys \ {u.key} : identity'[b][l] = identity[b][l]
    BY <1>1, <1>3 DEF IInv, TypeOK, Stores
  <1>6. TypeOK'
    BY <1>1, <1>4, <1>5 DEF IInv, TypeOK
  <1>7. b \in watching /\ phase = "watching"
    BY <1>1 DEF IInv, Connection
  <1>8. Connection' /\ Rebuilt'
    BY <1>1, <1>4, <1>5, <1>7 DEF IInv, Connection, Rebuilt
  <1>9. ASSUME NEW c \in Buckets, NEW l \in Keys
        PROVE  YoungestIsNew(c, l)' /\ Known(c, l)'
    <2>0. YoungestIsNew(c, l) /\ Known(c, l)
      BY DEF IInv
    <2>1. CASE c # b
      BY <1>1, <1>4, <1>5, <2>0, <2>1 DEF YoungestIsNew, Known, Queued, Passed, Agrees
    <2>2. CASE c = b
      <3>1. YoungestIsNew(c, l)'
        <4> SUFFICES ASSUME NEW i \in 1 .. (n - 1), updates'[b][i].key = l,
                            \A j \in 1 .. (n - 1) : j > i => updates'[b][j].key # l
                     PROVE  updates'[b][i].val = amo'[b][l]
          BY <1>2, <1>4, <2>2 DEF YoungestIsNew
        <4>1. i + 1 \in 1 .. n /\ updates[b][i + 1].key = l
          BY <1>2, <1>4
        <4>2. ASSUME NEW j \in 1 .. n, j > i + 1 PROVE updates[b][j].key # l
          <5>1. j - 1 \in 1 .. (n - 1) /\ j - 1 > i /\ (j - 1) + 1 = j
            BY <1>2, <4>2
          <5>2. updates'[b][j - 1] = updates[b][j]
            BY <1>2, <1>4, <5>1
          <5>3. QED
            BY <5>1, <5>2
        <4>3. updates[b][i + 1].val = amo[b][l]
          BY <1>2, <2>0, <2>2, <4>1, <4>2 DEF YoungestIsNew
        <4>4. QED
          BY <1>1, <1>2, <1>4, <4>3
      <3>2. Queued(c, l)' => Queued(c, l)
        <4> SUFFICES ASSUME NEW i \in 1 .. (n - 1), updates'[b][i].key = l
                     PROVE  Queued(c, l)
          BY <1>2, <1>4, <2>2 DEF Queued
        <4>1. i + 1 \in 1 .. n /\ updates[b][i + 1].key = l
          BY <1>2, <1>4
        <4>2. QED
          BY <1>2, <2>2, <4>1 DEF Queued
      <3>3. CASE ~Queued(c, l)
        <4>1. l # u.key
          BY <1>2, <2>2, <3>3 DEF Queued
        <4>2. QED
          BY <1>1, <1>5, <2>0, <2>2, <3>1, <3>2, <3>3, <4>1 DEF Known, Passed, Agrees
      <3>4. CASE Queued(c, l) /\ Queued(c, l)'
        BY <1>1, <2>0, <3>1, <3>4 DEF Known
      <3>5. CASE Queued(c, l) /\ ~Queued(c, l)'
        <4>1. ASSUME NEW j \in 1 .. n, j > 1 PROVE updates[b][j].key # l
          <5>1. j - 1 \in 1 .. (n - 1) /\ (j - 1) + 1 = j
            BY <1>2, <4>1
          <5>2. updates'[b][j - 1] = updates[b][j]
            BY <1>2, <1>4, <5>1
          <5>3. QED
            BY <1>2, <1>4, <2>2, <3>5, <5>1, <5>2 DEF Queued
        <4>2. u.key = l
          BY <1>2, <2>2, <3>5, <4>1 DEF Queued
        <4>3. u.val = amo[b][l]
          BY <1>2, <2>0, <2>2, <4>1, <4>2 DEF YoungestIsNew
        <4>4. QED
          BY <1>1, <1>5, <2>0, <2>2, <3>1, <3>5, <4>2, <4>3 DEF Known, Agrees
      <3>6. QED
        BY <3>3, <3>4, <3>5
    <2>3. QED
      BY <2>1, <2>2
  <1>10. QED
    BY <1>6, <1>8, <1>9 DEF IInv

LEMMA RebuildAfterInv ==
    ASSUME IInv, NEW b \in Buckets, RebuildAfter(b)
    PROVE  IInv'
  <1>1. TypeOK' /\ Connection' /\ Rebuilt'
    BY DEF RebuildAfter, IInv, TypeOK, Connection, Rebuilt
  <1>2. QED
    BY <1>1, KnownFrame DEF RebuildAfter, IInv

LEMMA DisconnectInv == IInv /\ Disconnect => IInv'
  <1> SUFFICES ASSUME IInv, Disconnect PROVE IInv'
    OBVIOUS
  <1>1. updates' \in [Buckets -> Seq(Update)] /\ \A b \in Buckets : updates'[b] = <<>>
    BY DEF Disconnect
  <1>2. TypeOK' /\ Connection' /\ Rebuilt'
    BY <1>1 DEF Disconnect, IInv, TypeOK, Phases, Connection, Rebuilt
  <1>3. \A b \in Buckets, k \in Keys : YoungestIsNew(b, k)' /\ Known(b, k)'
    BY <1>1 DEF Disconnect, YoungestIsNew, Known, Queued, Passed
  <1>4. QED
    BY <1>2, <1>3 DEF IInv

LEMMA NextInv == IInv /\ [Next]_vars => IInv'
  <1> SUFFICES ASSUME IInv, [Next]_vars PROVE IInv'
    OBVIOUS
  <1>1. CASE Next
    BY <1>1, ChangeInv, OtherRebuildInv, ConnectInv, ListInv, ReadInv, NextBucketInv, LoadFailsInv,
       RebuildInv, WatchInv, TakeInv, RebuildAfterInv, DisconnectInv DEF Next, Load
  <1>2. CASE UNCHANGED vars
    <2>1. TypeOK' /\ Connection' /\ Rebuilt'
      BY <1>2 DEF vars, IInv, TypeOK, Connection, Rebuilt
    <2>2. QED
      BY <1>2, <2>1, KnownFrame DEF vars, IInv
  <1>3. QED
    BY <1>1, <1>2

----------------------------------------------------------------------------
(* The theorems.                                                           *)

LEMMA Invariance == Spec => []IInv
  BY InitInv, NextInv, PTL DEF Spec

\* The connection, its queues and the three copies of the buckets always have the
\* shape the code gives them; a load never runs past the last bucket.
THEOREM TypeCorrect == Spec => []TypeOK
  <1>1. IInv => TypeOK
    BY DEF IInv
  <1>2. QED
    BY <1>1, Invariance, PTL

\* A connected watcher (src/watcher/amo.rs, run_watcher) serves what AMO has, but
\* for what changed between the load and the watch.
THEOREM PutsAreServed == Spec => []PutsServed
  <1>1. IInv => PutsServed
    <2> SUFFICES ASSUME IInv, NEW b \in Buckets, NEW k \in Keys,
                        UpToDate(b, k), amo[b][k] # NoVal, last[b][k] # "unwatched"
                 PROVE  served[b][k] = amo[b][k]
      BY DEF PutsServed
    <2>1. phase = "watching" /\ b \notin owed /\ ~Queued(b, k) /\ Passed(b, k)
      BY DEF UpToDate, Queued, Passed
    <2>2. served[b] = identity[b]
      BY <2>1 DEF IInv, Rebuilt
    <2>3. Known(b, k)
      BY DEF IInv
    <2>4. last[b][k] \in {"before", "watched"}
      BY DEF IInv, TypeOK
    <2>5. identity[b][k] = amo[b][k]
      BY <2>1, <2>3, <2>4 DEF Known, Agrees
    <2>6. QED
      BY <2>2, <2>5
  <1>2. QED
    BY <1>1, Invariance, PTL

\* A delete that a watch delivered (src/watcher/amo.rs, watch_users and its
\* siblings) is in force.
THEOREM DeletesAreServed == Spec => []DeletesServed
  <1>1. IInv => DeletesServed
    BY DEF IInv, DeletesServed, UpToDate, Known, Queued, Rebuilt
  <1>2. QED
    BY <1>1, Invariance, PTL
=============================================================================
