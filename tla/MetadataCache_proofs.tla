----------------------- MODULE MetadataCache_proofs -----------------------
(***************************************************************************)
(* Proofs about MetadataCache, for any set of addresses, writers and       *)
(* requests and any contents of the sources.                               *)
(*                                                                         *)
(* The inductive invariant IInv adds to the properties what they rest on:  *)
(* the guards really exclude a write (Locks), so the sources stand still   *)
(* while anybody builds; what the loops have still to visit resolves to    *)
(* something (Passes); what a rebuild has emptied is not refilled with     *)
(* anything stale (Cleared); and an address that does not show its view    *)
(* yet is on the way of a rebuild that is running (Settled). What the      *)
(* cache then shows of logins and sudo follows from two lemmas on what     *)
(* resolve.rs computes, HostEntry and ContainerEntry.                      *)
(***************************************************************************)
EXTENDS MetadataCache, FiniteSetTheorems, TLAPS

\* A write guard excludes every other guard on its source.
Locks ==
    /\ \A w, v \in Writers :
          pc[w] = "writing" =>
              /\ pc[v] \notin HoldsRead[Target[w]]
              /\ (pc[v] = "writing" /\ Target[v] = Target[w]) => v = w
    /\ \A w \in Writers, r \in Requests :
          pc[w] = "writing" => rpc[r] \notin RequestHoldsRead[Target[w]]

Passes ==
    \A w \in Writers :
        /\ pc[w] = "pass1" => \A ip \in todo[w] : HostMeta(src, ip) # NoMeta
        /\ pc[w] = "pass2" => \A ip \in todo[w] : ContainerMeta(src, ip) # NoMeta
        /\ pc[w] \in {"pass1", "pass2"} => unbuilt = {}

Cleared ==
    \A w \in Writers : pc[w] = "clear" => \A ip \in IPs \ todo[w] : Fresh(ip)

\* w is going to set the entry of ip, last of all to its view.
WillSet(w, ip) ==
    \/ pc[w] = "clear"
    \/ pc[w] = "pass1" /\ (ContainerMeta(src, ip) # NoMeta \/ ip \in todo[w])
    \/ pc[w] = "pass2" /\ ip \in todo[w]

Settled ==
    unbuilt = {} =>
        \A ip \in IPs : cache[ip] = View(src, ip) \/ \E w \in Writers : WillSet(w, ip)

\* A request that goes on to the containers has found no host, and none appears
\* while it holds its guards.
HostRuledOut ==
    \A r \in Requests : rpc[r] = "has_bmh" => HostMeta(src, ask[r]) = NoMeta

IInv == /\ TypeOK
        /\ Locks
        /\ Passes
        /\ Cleared
        /\ NoRevokedEntry
        /\ Settled
        /\ OwedRebuild
        /\ HostRuledOut

----------------------------------------------------------------------------
(* Facts about the definitions.                                            *)

LEMMA MetadataTypes ==
    ASSUME NEW s \in Sources, NEW ip \in IPs
    PROVE  /\ HostMeta(s, ip) \in Metadata
           /\ ContainerMeta(s, ip) \in Metadata
           /\ NoMeta \in Metadata
  BY DEF Metadata

\* An address has no view exactly when neither pass gives it an entry.
LEMMA ViewCases ==
    ASSUME NEW s, NEW ip
    PROVE  /\ ContainerMeta(s, ip) # NoMeta => View(s, ip) = ContainerMeta(s, ip)
           /\ ContainerMeta(s, ip) = NoMeta => View(s, ip) = HostMeta(s, ip)
  BY DEF View

\* The host lookup does not depend on the containers.
LEMMA HostMetaReads ==
    ASSUME NEW s, NEW t, NEW ip, s.identity = t.identity, s.bmh = t.bmh
    PROVE  HostMeta(s, ip) = HostMeta(t, ip)
  BY DEF HostMeta, LabelsOf

\* A task that builds, whatever its loop, holds all three read guards.
LEMMA BuildersHoldAll ==
    ASSUME NEW s \in SourceNames
    PROVE  Building \subseteq HoldsRead[s]
  BY DEF SourceNames, Building, HoldsRead

----------------------------------------------------------------------------
(* Type correctness.                                                       *)

LEMMA WriterStepType ==
    ASSUME TypeOK, NEW w \in Writers, WriterStep(w)
    PROVE  TypeOK'
  <1> USE WritersAssumption
  <1> USE DEF WriterPhases, RequestPhases, Building
  <1>1. CASE BeginWrite(w)
    BY <1>1 DEF TypeOK, BeginWrite
  <1>2. CASE Write(w)
    <2>1. src' \in Sources
      BY <1>2 DEF TypeOK, Write, Sources
    <2>2. QED
      BY <1>2, <2>1 DEF TypeOK, Write
  <1>3. CASE EndWrite(w)
    BY <1>3 DEF TypeOK, EndWrite
  <1>4. CASE SkipWrite(w)
    BY <1>4 DEF TypeOK, SkipWrite
  <1>5. CASE Lose(w)
    BY <1>5 DEF TypeOK, Lose
  <1>6. CASE LockIdentity(w) \/ LockBmh(w)
    BY <1>6 DEF TypeOK, LockIdentity, LockBmh
  <1>7. CASE LockContainers(w)
    BY <1>7 DEF TypeOK, LockContainers
  <1>8. ASSUME NEW ip \in IPs, ClearEntry(w, ip) \/ InsertHost(w, ip) \/ InsertContainer(w, ip)
        PROVE  TypeOK'
    <2>1. cache' \in [IPs -> Metadata]
      BY <1>8, MetadataTypes DEF TypeOK, ClearEntry, InsertHost, InsertContainer
    <2>2. QED
      BY <1>8, <2>1 DEF TypeOK, ClearEntry, InsertHost, InsertContainer
  <1>9. CASE StartPass1(w) \/ StartPass2(w)
    BY <1>9 DEF TypeOK, StartPass1, StartPass2
  <1>10. CASE Finish(w)
    BY <1>10 DEF TypeOK, Finish
  <1>11. QED
    BY <1>1, <1>2, <1>3, <1>4, <1>5, <1>6, <1>7, <1>8, <1>9, <1>10
       DEF WriterStep, Rebuild

LEMMA RequestStepType ==
    ASSUME TypeOK, NEW r \in Requests,
           Serve(r) \/ \E ip \in IPs : Lookup(r, ip) \/ Miss(r, ip)
    PROVE  TypeOK'
  <1> USE DEF RequestPhases
  <1>1. ASSUME NEW ip \in IPs, Lookup(r, ip) \/ Miss(r, ip)
        PROVE  TypeOK'
    BY <1>1 DEF TypeOK, Lookup, Miss
  <1>2. CASE RequestLockIdentity(r)
    BY <1>2 DEF TypeOK, RequestLockIdentity
  <1>3. CASE RequestLockBmh(r)
    <2>1. HostMeta(src, ask[r]) \in Metadata
      BY MetadataTypes DEF TypeOK
    <2>2. QED
      BY <1>3, <2>1 DEF TypeOK, RequestLockBmh
  <1>4. CASE RequestLockContainers(r)
    <2>1. ContainerMeta(src, ask[r]) \in Metadata
      BY MetadataTypes DEF TypeOK
    <2>2. QED
      BY <1>4, <2>1 DEF TypeOK, RequestLockContainers
  <1>5. QED
    BY <1>1, <1>2, <1>3, <1>4 DEF Serve

LEMMA InitType == Init => TypeOK
  BY EmptySourcesAssumption
     DEF Init, TypeOK, Sources, Metadata, WriterPhases, RequestPhases

\* Every reachable state is typed: in particular the cache and the replies hold
\* nothing but what some state of the sources resolves to.
THEOREM TypeCorrect == Spec => []TypeOK
  <1>1. TypeOK /\ [Next]_vars => TypeOK'
    <2>1. CASE UNCHANGED vars
      BY <2>1 DEF TypeOK, vars
    <2>2. QED
      BY <2>1, WriterStepType, RequestStepType DEF Next
  <1>2. QED
    BY InitType, <1>1, PTL DEF Spec

----------------------------------------------------------------------------
(* The inductive invariant, one lemma per conjunct.                        *)

\* While a task builds nobody holds a write guard.
LEMMA NoWriterWhileBuilding ==
    ASSUME TypeOK, Locks, NEW v \in Writers, pc[v] \in Building, NEW w \in Writers
    PROVE  pc[w] # "writing"
  <1>1. Target[w] \in SourceNames
    BY WritersAssumption
  <1>2. QED
    BY <1>1, BuildersHoldAll DEF Locks

LEMMA LocksStep ==
    ASSUME TypeOK, Locks, Next
    PROVE  Locks'
  <1> USE WritersAssumption
  <1> USE DEF Locks, Building
  <1>1. ASSUME NEW w \in Writers, WriterStep(w)
        PROVE  Locks'
    <2>1. CASE BeginWrite(w)
      BY <2>1 DEF TypeOK, BeginWrite, WriteLocked, ReadLocked, HoldsRead, SourceNames
    <2>2. CASE Write(w) \/ \E ip \in IPs : ClearEntry(w, ip) \/ InsertHost(w, ip) \/ InsertContainer(w, ip)
      BY <2>2 DEF Write, ClearEntry, InsertHost, InsertContainer
    <2>3. CASE EndWrite(w) \/ SkipWrite(w)
      BY <2>3 DEF TypeOK, EndWrite, SkipWrite, HoldsRead, SourceNames
    <2>4. CASE Lose(w) \/ Finish(w)
      BY <2>4 DEF TypeOK, Lose, Finish, HoldsRead, SourceNames
    <2>5. CASE LockIdentity(w)
      BY <2>5 DEF TypeOK, LockIdentity, WriteLocked, HoldsRead, SourceNames
    <2>6. CASE LockBmh(w)
      BY <2>6 DEF TypeOK, LockBmh, WriteLocked, HoldsRead, SourceNames
    <2>7. CASE LockContainers(w)
      BY <2>7 DEF TypeOK, LockContainers, WriteLocked, HoldsRead, SourceNames
    <2>8. CASE StartPass1(w) \/ StartPass2(w)
      BY <2>8 DEF TypeOK, StartPass1, StartPass2, HoldsRead, SourceNames
    <2>9. QED
      BY <1>1, <2>1, <2>2, <2>3, <2>4, <2>5, <2>6, <2>7, <2>8 DEF WriterStep, Rebuild
  <1>2. ASSUME NEW r \in Requests, Serve(r) \/ \E ip \in IPs : Lookup(r, ip) \/ Miss(r, ip)
        PROVE  Locks'
    <2>1. CASE \E ip \in IPs : Lookup(r, ip) \/ Miss(r, ip)
      BY <2>1 DEF TypeOK, Lookup, Miss, RequestHoldsRead, SourceNames
    <2>2. CASE RequestLockIdentity(r)
      BY <2>2 DEF TypeOK, RequestLockIdentity, WriteLocked, RequestHoldsRead, SourceNames
    <2>3. CASE RequestLockBmh(r)
      BY <2>3 DEF TypeOK, RequestLockBmh, WriteLocked, RequestHoldsRead, SourceNames
    <2>4. CASE RequestLockContainers(r)
      BY <2>4 DEF TypeOK, RequestLockContainers, RequestHoldsRead, SourceNames
    <2>5. QED
      BY <1>2, <2>1, <2>2, <2>3, <2>4 DEF Serve
  <1>3. QED
    BY <1>1, <1>2 DEF Next

LEMMA RequestStepFrame ==
    ASSUME NEW r \in Requests, Serve(r) \/ \E ip \in IPs : Lookup(r, ip) \/ Miss(r, ip)
    PROVE  UNCHANGED <<src, cache, pc, todo, unbuilt>>
  BY DEF Serve, RequestLockIdentity, RequestLockBmh, RequestLockContainers, Lookup, Miss

\* Every step but Write leaves the sources alone, and Write finds no builder.
LEMMA WriteAlone ==
    ASSUME TypeOK, Locks, NEW w \in Writers, Write(w)
    PROVE  /\ \A v \in Writers : pc[v] \notin Building
           /\ pc' = pc /\ todo' = todo /\ cache' = cache
           /\ w \in unbuilt'
  BY NoWriterWhileBuilding DEF Write

LEMMA SourcesFixed ==
    ASSUME NEW w \in Writers, WriterStep(w), ~Write(w)
    PROVE  src' = src
  BY DEF WriterStep, Rebuild, BeginWrite, EndWrite, SkipWrite, Lose, LockIdentity, LockBmh,
         LockContainers, ClearEntry, StartPass1, InsertHost, StartPass2, InsertContainer,
         Finish

\* The steps of a writer before its rebuild has all its guards: the map, the
\* loops and the set of building tasks stay as they are.
Outside(w) ==
    BeginWrite(w) \/ EndWrite(w) \/ SkipWrite(w) \/ Lose(w) \/ LockIdentity(w) \/ LockBmh(w)

LEMMA OutsideFrame ==
    ASSUME TypeOK, NEW w \in Writers, Outside(w)
    PROVE  /\ UNCHANGED <<src, cache, todo, unbuilt>>
           /\ pc[w] \notin Building /\ pc'[w] \notin Building
           /\ \A v \in Writers \ {w} : pc'[v] = pc[v]
  BY DEF TypeOK, Outside, Building, BeginWrite, EndWrite, SkipWrite, Lose, LockIdentity, LockBmh

LEMMA PassesStep ==
    ASSUME TypeOK, Locks, Passes, NEW w \in Writers, WriterStep(w)
    PROVE  Passes'
  <1> USE DEF Passes
  <1>1. CASE Write(w)
    BY <1>1, WriteAlone DEF Building
  <1>2. CASE Outside(w)
    <2>1. \A v \in Writers : pc'[v] \in Building => pc'[v] = pc[v]
      BY <1>2, OutsideFrame
    <2>2. QED
      BY <1>2, <2>1, OutsideFrame DEF Building
  <1>3. CASE LockContainers(w)
    BY <1>3 DEF LockContainers, TypeOK
  <1>4. ASSUME NEW ip \in IPs, ClearEntry(w, ip) \/ InsertHost(w, ip) \/ InsertContainer(w, ip)
        PROVE  Passes'
    BY <1>4 DEF ClearEntry, InsertHost, InsertContainer, TypeOK
  <1>5. CASE StartPass1(w)
    BY <1>5 DEF StartPass1, TypeOK
  <1>6. CASE StartPass2(w)
    BY <1>6 DEF StartPass2, TypeOK
  <1>7. CASE Finish(w)
    BY <1>7 DEF Finish, TypeOK
  <1>8. QED
    BY <1>1, <1>2, <1>3, <1>4, <1>5, <1>6, <1>7 DEF WriterStep, Rebuild, Outside

\* An entry is emptied, or set from the present sources: it becomes fresh.
LEMMA EntryStep ==
    ASSUME TypeOK, NEW w \in Writers, NEW ip \in IPs,
           ClearEntry(w, ip) \/ InsertHost(w, ip) \/ InsertContainer(w, ip)
    PROVE  /\ UNCHANGED <<src, pc, unbuilt>>
           /\ todo' = [todo EXCEPT ![w] = @ \ {ip}]
           /\ Fresh(ip)'
           /\ \A jp \in IPs \ {ip} : cache'[jp] = cache[jp]
  BY DEF TypeOK, ClearEntry, InsertHost, InsertContainer, Fresh

LEMMA ClearedStep ==
    ASSUME TypeOK, Locks, Cleared, NEW w \in Writers, WriterStep(w)
    PROVE  Cleared'
  <1> USE DEF Cleared
  <1>1. CASE Write(w)
    BY <1>1, WriteAlone DEF Building
  <1>2. CASE Outside(w)
    <2>1. \A v \in Writers : pc'[v] \in Building => pc'[v] = pc[v]
      BY <1>2, OutsideFrame
    <2>2. QED
      BY <1>2, <2>1, OutsideFrame DEF Building, Fresh
  <1>3. CASE LockContainers(w)
    BY <1>3 DEF LockContainers, TypeOK, Fresh
  <1>4. ASSUME NEW ip \in IPs, ClearEntry(w, ip) \/ InsertHost(w, ip) \/ InsertContainer(w, ip)
        PROVE  Cleared'
    <2> SUFFICES ASSUME NEW v \in Writers, pc'[v] = "clear", NEW jp \in IPs \ todo'[v]
                 PROVE  Fresh(jp)'
      OBVIOUS
    <2>1. CASE jp = ip
      BY <1>4, <2>1, EntryStep
    <2>2. CASE jp # ip
      <3>1. pc[v] = "clear" /\ jp \notin todo[v]
        BY <1>4, <2>2, EntryStep DEF TypeOK
      <3>2. QED
        BY <1>4, <2>2, <3>1, EntryStep DEF Fresh
    <2>3. QED
      BY <2>1, <2>2
  <1>5. CASE StartPass1(w)
    BY <1>5 DEF StartPass1, TypeOK, Fresh
  <1>6. CASE StartPass2(w)
    BY <1>6 DEF StartPass2, TypeOK, Fresh
  <1>7. CASE Finish(w)
    BY <1>7 DEF Finish, TypeOK, Fresh
  <1>8. QED
    BY <1>1, <1>2, <1>3, <1>4, <1>5, <1>6, <1>7 DEF WriterStep, Rebuild, Outside

LEMMA NoRevokedEntryStep ==
    ASSUME TypeOK, Locks, Cleared, NoRevokedEntry, NEW w \in Writers, WriterStep(w)
    PROVE  NoRevokedEntry'
  <1> USE DEF NoRevokedEntry
  <1>1. CASE Write(w)
    BY <1>1, WriteAlone
  <1>2. CASE Outside(w)
    BY <1>2, OutsideFrame DEF Fresh
  <1>3. CASE LockContainers(w) \/ StartPass2(w) \/ Finish(w)
    BY <1>3 DEF LockContainers, StartPass2, Finish, Fresh
  <1>4. ASSUME NEW ip \in IPs, ClearEntry(w, ip) \/ InsertHost(w, ip) \/ InsertContainer(w, ip)
        PROVE  NoRevokedEntry'
    BY <1>4, EntryStep DEF Fresh
  <1>5. CASE StartPass1(w)
    BY <1>5 DEF StartPass1, Cleared, Fresh
  <1>6. QED
    BY <1>1, <1>2, <1>3, <1>4, <1>5 DEF WriterStep, Rebuild, Outside

\* An address neither pass gives an entry shows its view as soon as it is fresh.
LEMMA FreshNoView ==
    ASSUME NEW ip \in IPs, Fresh(ip), View(src, ip) = NoMeta
    PROVE  cache[ip] = View(src, ip)
  BY DEF Fresh, View

LEMMA SettledStep ==
    ASSUME TypeOK, Locks, Passes, Cleared, NoRevokedEntry, Settled,
           NEW w \in Writers, WriterStep(w)
    PROVE  Settled'
  <1>1. CASE Write(w)
    BY <1>1, WriteAlone DEF Settled
  <1>2. CASE Outside(w)
    <2>1. \A v \in Writers, ip \in IPs : WillSet(v, ip) => WillSet(v, ip)'
      BY <1>2, OutsideFrame DEF WillSet, Building
    <2>2. QED
      BY <1>2, <2>1, OutsideFrame DEF Settled
  <1>3. CASE LockContainers(w)
    <2>1. \A ip \in IPs : WillSet(w, ip)'
      BY <1>3 DEF LockContainers, TypeOK, WillSet
    <2>2. QED
      BY <2>1 DEF Settled
  <1>4. ASSUME NEW ip \in IPs, ClearEntry(w, ip)
        PROVE  Settled'
    <2>1. \A jp \in IPs : WillSet(w, jp)'
      BY <1>4 DEF ClearEntry, WillSet
    <2>2. QED
      BY <2>1 DEF Settled
  <1>5. ASSUME NEW ip \in IPs, InsertHost(w, ip) \/ InsertContainer(w, ip), unbuilt' = {},
               NEW jp \in IPs
        PROVE  cache'[jp] = View(src', jp) \/ \E v \in Writers : WillSet(v, jp)'
    <2>1. CASE jp # ip
      <3>1. \A v \in Writers : WillSet(v, jp) => WillSet(v, jp)'
        BY <1>5, <2>1, EntryStep DEF WillSet, TypeOK
      <3>2. QED
        BY <1>5, <2>1, <3>1, EntryStep DEF Settled
    <2>2. CASE jp = ip /\ InsertHost(w, ip)
      <3>1. CASE ContainerMeta(src, ip) = NoMeta
        BY <2>2, <3>1, ViewCases DEF InsertHost, TypeOK
      <3>2. CASE ContainerMeta(src, ip) # NoMeta
        BY <2>2, <3>2 DEF InsertHost, WillSet
      <3>3. QED
        BY <3>1, <3>2
    <2>3. CASE jp = ip /\ InsertContainer(w, ip)
      <3>1. ContainerMeta(src, ip) # NoMeta
        BY <2>3 DEF InsertContainer, Passes
      <3>2. QED
        BY <2>3, <3>1, ViewCases DEF InsertContainer, TypeOK
    <2>4. QED
      BY <1>5, <2>1, <2>2, <2>3
  <1>6. CASE StartPass1(w)
    <2> SUFFICES ASSUME NEW ip \in IPs
                 PROVE  cache'[ip] = View(src', ip) \/ WillSet(w, ip)'
      BY DEF Settled
    <2>1. Fresh(ip)
      BY <1>6 DEF StartPass1, Cleared
    <2>2. CASE View(src, ip) = NoMeta
      BY <1>6, <2>1, <2>2, FreshNoView DEF StartPass1
    <2>3. CASE View(src, ip) # NoMeta
      <3>1. ContainerMeta(src, ip) # NoMeta \/ HostMeta(src, ip) # NoMeta
        BY <2>3 DEF View
      <3>2. QED
        BY <1>6, <3>1 DEF StartPass1, WillSet, TypeOK
    <2>4. QED
      BY <2>2, <2>3
  <1>7. CASE StartPass2(w)
    <2>1. \A v \in Writers, ip \in IPs : WillSet(v, ip) => WillSet(v, ip)'
      BY <1>7 DEF StartPass2, WillSet, TypeOK
    <2>2. QED
      BY <1>7, <2>1 DEF StartPass2, Settled
  <1>8. CASE Finish(w)
    <2>1. \A v \in Writers, ip \in IPs : WillSet(v, ip) => WillSet(v, ip)'
      BY <1>8 DEF Finish, WillSet, TypeOK
    <2>2. QED
      BY <1>8, <2>1 DEF Finish, Settled
  <1>9. QED
    <2>1. ASSUME NEW ip \in IPs, InsertHost(w, ip) \/ InsertContainer(w, ip)
          PROVE  Settled'
      BY <1>5, <2>1 DEF Settled
    <2>2. QED
      BY <1>1, <1>2, <1>3, <1>4, <1>6, <1>7, <1>8, <2>1 DEF WriterStep, Rebuild, Outside

LEMMA OwedRebuildStep ==
    ASSUME TypeOK, Passes, OwedRebuild, NEW w \in Writers, WriterStep(w)
    PROVE  OwedRebuild'
  <1> USE DEF OwedRebuild
  <1>1. CASE Write(w) \/ BeginWrite(w) \/ EndWrite(w) \/ SkipWrite(w) \/ Lose(w)
    BY <1>1 DEF Write, BeginWrite, EndWrite, SkipWrite, Lose, TypeOK
  <1>2. CASE LockIdentity(w) \/ LockBmh(w) \/ LockContainers(w)
    BY <1>2 DEF LockIdentity, LockBmh, LockContainers, TypeOK
  <1>3. ASSUME NEW ip \in IPs, ClearEntry(w, ip) \/ InsertHost(w, ip) \/ InsertContainer(w, ip)
        PROVE  OwedRebuild'
    BY <1>3, EntryStep
  <1>4. CASE StartPass1(w) \/ StartPass2(w) \/ Finish(w)
    BY <1>4 DEF StartPass1, StartPass2, Finish, Passes
  <1>5. QED
    BY <1>1, <1>2, <1>3, <1>4 DEF WriterStep, Rebuild

LEMMA HostRuledOutStep ==
    ASSUME TypeOK, Locks, HostRuledOut, Next
    PROVE  HostRuledOut'
  <1> USE DEF HostRuledOut
  <1>1. ASSUME NEW w \in Writers, Write(w)
        PROVE  HostRuledOut'
    <2> SUFFICES ASSUME NEW r \in Requests, rpc[r] = "has_bmh"
                 PROVE  HostMeta(src', ask[r]) = NoMeta
      BY <1>1 DEF Write
    <2>1. Target[w] = "containers"
      BY <1>1, WritersAssumption DEF Locks, Write, RequestHoldsRead, SourceNames
    <2>2. src'.identity = src.identity /\ src'.bmh = src.bmh
      BY <1>1, <2>1 DEF Write, TypeOK, Sources
    <2>3. QED
      BY <2>2, HostMetaReads
  <1>2. ASSUME NEW w \in Writers, WriterStep(w), ~Write(w)
        PROVE  HostRuledOut'
    <2>1. src' = src
      BY <1>2, SourcesFixed
    <2>2. UNCHANGED <<rpc, ask>>
      BY <1>2 DEF WriterStep, Rebuild, BeginWrite, EndWrite, SkipWrite, Lose, LockIdentity,
         LockBmh, LockContainers, ClearEntry, StartPass1, InsertHost, StartPass2,
         InsertContainer, Finish
    <2>3. QED
      BY <2>1, <2>2
  <1>3. ASSUME NEW r \in Requests, Serve(r) \/ \E ip \in IPs : Lookup(r, ip) \/ Miss(r, ip)
        PROVE  HostRuledOut'
    BY <1>3 DEF Serve, Lookup, Miss, RequestLockIdentity, RequestLockBmh,
       RequestLockContainers, TypeOK
  <1>4. QED
    BY <1>1, <1>2, <1>3 DEF Next

LEMMA InitInv == Init => IInv
  <1> SUFFICES ASSUME Init PROVE IInv
    OBVIOUS
  <1>1. TypeOK
    BY InitType
  <1>2. \A ip \in IPs : View(src, ip) = NoMeta /\ cache[ip] = NoMeta
    <2>1. src.bmh = EmptyBmh /\ src.containers = EmptyContainers
      BY DEF Init
    <2>2. \A ip : HostMeta(src, ip) = NoMeta
      BY <2>1 DEF HostMeta, EmptyBmh, EmptyMap
    <2>3. \A ip : ContainerMeta(src, ip) = NoMeta
      BY <2>1 DEF ContainerMeta, EmptyContainers, EmptyMap
    <2>4. QED
      BY <2>2, <2>3 DEF View, Init
  <1>3. Locks /\ Passes /\ Cleared /\ OwedRebuild /\ HostRuledOut
    BY DEF Init, Locks, Passes, Cleared, OwedRebuild, HostRuledOut
  <1>4. NoRevokedEntry /\ Settled
    BY <1>2 DEF NoRevokedEntry, Settled, Fresh
  <1>5. QED
    BY <1>1, <1>3, <1>4 DEF IInv

LEMMA NextInv == IInv /\ [Next]_vars => IInv'
  <1> SUFFICES ASSUME IInv, [Next]_vars PROVE IInv'
    OBVIOUS
  <1> USE DEF IInv
  <1>1. ASSUME NEW w \in Writers, WriterStep(w)
        PROVE  IInv'
    <2>1. Next
      BY <1>1 DEF Next
    <2>2. QED
      BY <1>1, <2>1, WriterStepType, LocksStep, PassesStep, ClearedStep, NoRevokedEntryStep,
         SettledStep, OwedRebuildStep, HostRuledOutStep
  <1>2. ASSUME NEW r \in Requests, Serve(r) \/ \E ip \in IPs : Lookup(r, ip) \/ Miss(r, ip)
        PROVE  IInv'
    <2>1. Next
      BY <1>2 DEF Next
    <2>2. UNCHANGED <<src, cache, pc, todo, unbuilt>>
      BY <1>2, RequestStepFrame
    <2>3. Passes' /\ Cleared' /\ NoRevokedEntry' /\ Settled' /\ OwedRebuild'
      BY <2>2 DEF Passes, Cleared, NoRevokedEntry, Settled, OwedRebuild, WillSet, Fresh
    <2>4. QED
      BY <1>2, <2>1, <2>3, RequestStepType, LocksStep, HostRuledOutStep
  <1>3. CASE UNCHANGED vars
    BY <1>3 DEF vars, TypeOK, Locks, Passes, Cleared, NoRevokedEntry, Settled, OwedRebuild,
       HostRuledOut, WillSet, Fresh
  <1>4. QED
    BY <1>1, <1>2, <1>3 DEF Next

LEMMA Invariance == Spec => []IInv
  BY InitInv, NextInv, PTL DEF Spec

----------------------------------------------------------------------------
(* What resolve.rs computes is what the sources permit.                    *)

\* A set of numbers has a least one. (The intervals up to its members are
\* well-founded by inclusion.)
LEMMA LeastNumber ==
    ASSUME NEW S, S \subseteq Nat, S # {}
    PROVE  \E i \in S : \A j \in S : i =< j
  <1> DEFINE R == StrictSubsetOrdering(Nat)
             T == {0 .. i : i \in S}
  <1>1. IsWellFoundedOn(R, FiniteSubsetsOf(Nat))
    BY FS_StrictSubsetOrderingWellFounded
  <1>2. T \subseteq FiniteSubsetsOf(Nat) /\ T # {}
    <2>1. ASSUME NEW i \in S PROVE 0 .. i \in FiniteSubsetsOf(Nat)
      <3>1. IsFiniteSet(0 .. i)
        BY FS_Interval
      <3>2. QED
        BY <3>1 DEF FiniteSubsetsOf
    <2>2. QED
      BY <2>1
  <1> HIDE DEF R, T
  <1>3. PICK t \in T : \A s \in T : ~ (<<s, t>> \in R)
    BY <1>1, <1>2, WFMin
  <1>4. PICK i \in S : t = 0 .. i
    BY DEF T
  <1>5. ASSUME NEW j \in S, j < i PROVE FALSE
    <2>1. 0 .. j \in T /\ i \in Nat /\ j \in Nat
      BY DEF T
    <2>2. 0 .. j \subseteq 0 .. i /\ i \in 0 .. i /\ i \notin 0 .. j
      BY <1>5, <2>1
    <2>3. <<0 .. j, 0 .. i>> \in R
      BY <2>1, <2>2 DEF R, StrictSubsetOrdering
    <2>4. QED
      BY <1>3, <1>4, <2>1, <2>3
  <1>6. QED
    BY <1>5

\* The iteration meets every rule, so there is one it meets first.
LEMMA FirstRuleAmong ==
    ASSUME NEW v \in IdentityStates, NEW rules, rules \subseteq DOMAIN v.host_access, rules # {}
    PROVE  FirstRule(rules) \in rules
  <1> DEFINE S == {i \in DOMAIN RuleOrder : RuleOrder[i] \in rules}
  <1>1. DOMAIN RuleOrder \subseteq Nat /\ \A i \in DOMAIN RuleOrder : 1 .. i \subseteq DOMAIN RuleOrder
    BY RuleOrderAssumption
  <1>2. S # {}
    <2>1. PICK r \in rules : TRUE
      OBVIOUS
    <2>2. r \in UNION {DOMAIN u.host_access : u \in IdentityStates}
      OBVIOUS
    <2>3. QED
      BY <2>2, RuleOrderAssumption
  <1>3. PICK i \in S : \A j \in S : i =< j
    BY <1>1, <1>2, LeastNumber
  <1>4. ASSUME NEW j \in 1 .. (i - 1) PROVE RuleOrder[j] \notin rules
    <2>1. i \in Nat /\ j \in 1 .. i /\ ~ (i =< j)
      BY <1>1
    <2>2. QED
      BY <1>1, <1>3, <2>1
  <1>5. QED
    BY <1>3, <1>4 DEF FirstRule

\* expand_subjects and the status leave the enabled users a rule names.
LEMMA GrantedNamed ==
    ASSUME NEW identity, NEW rule, NEW u
    PROVE  u \in Granted(rule, identity) <=> /\ u \in DOMAIN identity.users
                                             /\ identity.users[u].enabled
                                             /\ Names(rule, u, identity)
  <1>1. u \in expand_subjects(rule.subjects, identity) <=> Names(rule, u, identity)
    BY DEF expand_subjects, Names
  <1>2. QED
    BY <1>1 DEF Granted, EnabledUsers

LEMMA EntryLogins ==
    ASSUME NEW m, NEW a, NEW k
    PROVE  <<a, k>> \in LoginsOf({m}) <=> a \in DOMAIN m.public_keys /\ k \in m.public_keys[a]
  BY DEF LoginsOf

LEMMA LoginsArePairs ==
    ASSUME NEW entry, NEW l \in LoginsOf(entry)
    PROVE  l = <<l[1], l[2]>>
  BY DEF LoginsOf

\* The entry of a host (resolve_host) has the logins its rules permit, and
\* sudo only from a rule that names the user.
LEMMA HostEntry ==
    ASSUME NEW s \in Sources, NEW ip
    PROVE  /\ LoginsOf(HostMeta(s, ip)) = HostLogins(s, ip)
           /\ \A m \in HostMeta(s, ip) : \A u \in DOMAIN m.users : m.users[u].sudo =>
                 \E p \in Permitted(s, ip) : p[2] = u /\ s.identity.host_access[p[1]].sudo
  <1>1. CASE ip \notin DOMAIN s.bmh.ip_to_hostname
    <2>1. HostMeta(s, ip) = {}
      BY <1>1 DEF HostMeta, NoMeta
    <2>2. Permitted(s, ip) = {}
      BY <1>1 DEF Permitted, Permits
    <2>3. QED
      BY <2>1, <2>2 DEF LoginsOf, HostLogins
  <1>2. CASE ip \in DOMAIN s.bmh.ip_to_hostname
    <2> DEFINE access == s.identity.host_access
               people == s.identity.users
               host == s.bmh.ip_to_hostname[ip]
               granting == {r \in find_matching_rules(host, LabelsOf(s, host), s.identity) :
                               Granted(access[r], s.identity) # {}}
               ssh == UNION {access[r].ssh_users : r \in granting}
               users == UNION {Granted(access[r], s.identity) : r \in granting}
               rulesFor(u) == {r \in granting : u \in Granted(access[r], s.identity)}
               keysOf(a) == UNION {people[u].keys :
                               u \in {v \in users : \E r \in rulesFor(v) : a \in access[r].ssh_users}}
               m == [instance_id |-> host, local_ipv4 |-> ip,
                     public_keys |-> [a \in ssh |-> keysOf(a)],
                     users |-> [u \in users |-> [sudo |-> access[FirstRule(rulesFor(u))].sudo,
                                                 keys |-> people[u].keys]]]
    <2>1. HostMeta(s, ip) = IF ssh = {} THEN {} ELSE {m}
      BY <1>2 DEF HostMeta, resolve_host, NoMeta
    <2>2. \A r, u : <<r, u>> \in Permitted(s, ip)
                       <=> r \in granting /\ u \in Granted(access[r], s.identity)
      BY <1>2, GrantedNamed DEF Permitted, Permits, find_matching_rules
    <2>3. ASSUME NEW u \in users
          PROVE  <<FirstRule(rulesFor(u)), u>> \in Permitted(s, ip)
      <3>1. rulesFor(u) # {} /\ rulesFor(u) \subseteq DOMAIN access
        BY DEF find_matching_rules
      <3>2. FirstRule(rulesFor(u)) \in rulesFor(u)
        BY <3>1, FirstRuleAmong DEF Sources
      <3>3. QED
        BY <2>2, <3>2
    <2>4. \A a, k : <<a, k>> \in HostLogins(s, ip)
                       <=> \E p \in Permitted(s, ip) :
                              a \in access[p[1]].ssh_users /\ k \in people[p[2]].keys
      BY DEF HostLogins
    <2>5. \A p \in Permitted(s, ip) : p = <<p[1], p[2]>>
      BY DEF Permitted
    <2>6. \A a, k : a \in ssh /\ k \in keysOf(a)
                       <=> \E p \in Permitted(s, ip) :
                              a \in access[p[1]].ssh_users /\ k \in people[p[2]].keys
      <3> SUFFICES ASSUME NEW a, NEW k
                   PROVE  a \in ssh /\ k \in keysOf(a)
                             <=> \E p \in Permitted(s, ip) :
                                    a \in access[p[1]].ssh_users /\ k \in people[p[2]].keys
        OBVIOUS
      <3>1. ASSUME a \in ssh, k \in keysOf(a)
            PROVE  \E p \in Permitted(s, ip) :
                      a \in access[p[1]].ssh_users /\ k \in people[p[2]].keys
        <4>1. PICK u \in users : /\ \E r \in rulesFor(u) : a \in access[r].ssh_users
                                /\ k \in people[u].keys
          BY <3>1
        <4> PICK r \in rulesFor(u) : a \in access[r].ssh_users
          BY <4>1
        <4>2. <<r, u>> \in Permitted(s, ip)
          BY <2>2, <4>1
        <4>3. QED
          BY <4>1, <4>2
      <3>2. ASSUME NEW p \in Permitted(s, ip), a \in access[p[1]].ssh_users, k \in people[p[2]].keys
            PROVE  a \in ssh /\ k \in keysOf(a)
        <4>1. p[1] \in granting /\ p[2] \in Granted(access[p[1]], s.identity)
          BY <2>2, <2>5
        <4>2. p[2] \in users /\ p[1] \in rulesFor(p[2])
          BY <4>1
        <4>3. QED
          BY <3>2, <4>1, <4>2
      <3>3. QED
        BY <3>1, <3>2
    <2>7. LoginsOf(HostMeta(s, ip)) = HostLogins(s, ip)
      <3>1. \A a, k : <<a, k>> \in LoginsOf(HostMeta(s, ip)) <=> <<a, k>> \in HostLogins(s, ip)
        <4>1. CASE ssh = {}
          <5>1. LoginsOf(HostMeta(s, ip)) = {}
            BY <2>1, <4>1 DEF LoginsOf
          <5>2. QED
            BY <2>4, <2>6, <4>1, <5>1
        <4>2. CASE ssh # {}
          <5>1. HostMeta(s, ip) = {m}
            BY <2>1, <4>2
          <5> HIDE DEF ssh, keysOf
          <5>2. DOMAIN m.public_keys = ssh /\ \A a \in ssh : m.public_keys[a] = keysOf(a)
            OBVIOUS
          <5> HIDE DEF m
          <5>3. \A a, k : <<a, k>> \in LoginsOf({m}) <=> a \in ssh /\ k \in keysOf(a)
            BY <5>2, EntryLogins
          <5>4. QED
            BY <2>4, <2>6, <5>1, <5>3
        <4>3. QED
          BY <4>1, <4>2
      <3>2. \A l \in HostLogins(s, ip) : l = <<l[1], l[2]>>
        BY DEF HostLogins
      <3>3. QED
        BY <3>1, <3>2, LoginsArePairs
    <2>8. ASSUME NEW e \in HostMeta(s, ip), NEW u \in DOMAIN e.users, e.users[u].sudo
          PROVE  \E p \in Permitted(s, ip) : p[2] = u /\ access[p[1]].sudo
      <3>1. e = m
        BY <2>1, <2>8
      <3>2. u \in users /\ e.users[u].sudo = access[FirstRule(rulesFor(u))].sudo
        BY <3>1
      <3>3. QED
        BY <2>3, <2>8, <3>2
    <2>9. QED
      BY <2>7, <2>8
  <1>3. QED
    BY <1>1, <1>2

\* The entry of a container (resolve_container) lets its namespace's owner in;
\* there is none if it would let nobody in.
LEMMA ContainerEntry ==
    ASSUME NEW s, NEW ip
    PROVE  /\ LoginsOf(ContainerMeta(s, ip)) = ContainerLogins(s, ip)
           /\ ContainerMeta(s, ip) = NoMeta <=> ContainerLogins(s, ip) = {}
           /\ \A m \in ContainerMeta(s, ip) : \A u \in DOMAIN m.users :
                 OwnersOf(s, ip) # {} /\ u \in OwnersOf(s, ip) \cup {"root"}
  <1> DEFINE pods == s.containers.ip_to_container
             owners == s.containers.namespace_owners
             owner == owners[pods[ip].namespace]
             keys == s.identity.users[owner].keys
             m == [instance_id |-> <<pods[ip].namespace, pods[ip].pod_name>>,
                   local_ipv4  |-> ip,
                   public_keys |-> [a \in {owner, "admin", "root"} |-> keys],
                   users       |-> [u \in {owner, "root"} |-> [sudo |-> TRUE, keys |-> keys]]]
             known == /\ ip \in DOMAIN pods /\ pods[ip].namespace \in DOMAIN owners
                      /\ owner \in EnabledUsers(s.identity)
  <1>1. CASE known
    <2>1. OwnersOf(s, ip) = {owner}
      BY <1>1 DEF OwnersOf, EnabledUsers
    <2>2. ContainerLogins(s, ip) = {owner, "admin", "root"} \X keys
      BY <2>1 DEF ContainerLogins
    <2>3. ContainerMeta(s, ip) = IF keys = {} THEN {} ELSE {m}
      BY <1>1 DEF ContainerMeta, resolve_container, NoMeta
    <2>4. CASE keys = {}
      BY <2>2, <2>3, <2>4 DEF LoginsOf, NoMeta
    <2>5. CASE keys # {}
      <3>0. ContainerLogins(s, ip) # {}
        <4>1. PICK k \in keys : TRUE
          BY <2>5
        <4>2. <<owner, k>> \in ContainerLogins(s, ip)
          BY <2>2
        <4>3. QED
          BY <4>2
      <3>1. ContainerMeta(s, ip) = {m}
        BY <2>3, <2>5
      <3>2. /\ DOMAIN m.public_keys = {owner, "admin", "root"}
            /\ \A a \in DOMAIN m.public_keys : m.public_keys[a] = keys
            /\ DOMAIN m.users = {owner, "root"}
        OBVIOUS
      <3> HIDE DEF m
      <3>3. \A a, k : <<a, k>> \in LoginsOf({m}) <=> a \in {owner, "admin", "root"} /\ k \in keys
        BY <3>2, EntryLogins
      <3>4. LoginsOf(ContainerMeta(s, ip)) = ContainerLogins(s, ip)
        <4>1. \A l \in ContainerLogins(s, ip) : l = <<l[1], l[2]>>
          <5>1. \A A, B : \A l \in A \X B : l = <<l[1], l[2]>>
            OBVIOUS
          <5>2. QED
            BY <2>2, <5>1
        <4>2. \A a, k : <<a, k>> \in LoginsOf(ContainerMeta(s, ip))
                           <=> <<a, k>> \in ContainerLogins(s, ip)
          BY <2>2, <3>1, <3>3
        <4>3. QED
          BY <4>1, <4>2, LoginsArePairs
      <3>5. QED
        BY <2>1, <3>0, <3>1, <3>2, <3>4 DEF NoMeta
    <2>6. QED
      BY <2>4, <2>5
  <1>2. CASE ~known
    <2>1. OwnersOf(s, ip) = {}
      BY <1>2 DEF OwnersOf, EnabledUsers
    <2>2. ContainerMeta(s, ip) = {}
      BY <1>2 DEF ContainerMeta, resolve_container, NoMeta
    <2>3. QED
      BY <2>1, <2>2 DEF ContainerLogins, LoginsOf, NoMeta
  <1>3. QED
    BY <1>1, <1>2

----------------------------------------------------------------------------
(* The theorems.                                                           *)

\* Overlapping rebuilds leave the cache saying exactly what the sources say
\* (src/cache.rs, rebuild_cache): with no change left to take up and no rebuild
\* running, no address is "on the way" any more, so Settled gives its view.
THEOREM CacheCoherent == Spec => []Coherent
  <1>1. IInv => Coherent
    BY DEF IInv, Settled, Coherent, WillSet, Building
  <1>2. QED
    BY <1>1, Invariance, PTL

\* Metadata the present sources do not give an address is gone as soon as one
\* rebuild has emptied the map since the last change, and stays gone.
THEOREM NothingRevoked == Spec => []NoRevokedEntry
  <1>1. IInv => NoRevokedEntry
    BY DEF IInv
  <1>2. QED
    BY <1>1, Invariance, PTL

\* While rebuilds overlap, and whatever rules, groups and owners there are, the
\* cache lets in nobody the present sources do not permit (src/resolve.rs).
THEOREM LoginsPermitted == Spec => []OnlyPermittedLogins
  <1>1. IInv => OnlyPermittedLogins
    <2> SUFFICES ASSUME IInv, unbuilt = {}, NEW ip \in IPs
                 PROVE  LoginsOf(cache[ip]) \subseteq HostLogins(src, ip) \cup ContainerLogins(src, ip)
      BY DEF OnlyPermittedLogins
    <2>1. cache[ip] \in {NoMeta, HostMeta(src, ip), ContainerMeta(src, ip)} /\ src \in Sources
      BY DEF IInv, NoRevokedEntry, Fresh, TypeOK
    <2>2. LoginsOf(NoMeta) = {}
      BY DEF LoginsOf, NoMeta
    <2>3. QED
      BY <2>1, <2>2, HostEntry, ContainerEntry
  <1>2. QED
    BY <1>1, Invariance, PTL

\* When they have ended it lets in everybody they permit.
THEOREM PermittedServed == Spec => []EveryPermittedLogin
  <1>1. IInv => EveryPermittedLogin
    <2> SUFFICES ASSUME IInv, unbuilt = {}, \A w \in Writers : pc[w] \notin Building,
                        NEW ip \in IPs
                 PROVE  LoginsOf(cache[ip]) = IF ContainerLogins(src, ip) # {}
                                              THEN ContainerLogins(src, ip)
                                              ELSE HostLogins(src, ip)
      BY DEF EveryPermittedLogin
    <2>1. cache[ip] = View(src, ip) /\ src \in Sources
      BY DEF IInv, Settled, WillSet, Building, TypeOK
    <2>2. QED
      BY <2>1, HostEntry, ContainerEntry, ViewCases
  <1>2. QED
    BY <1>1, Invariance, PTL

\* Sudo comes from a rule that names the user on that host, or from the container.
THEOREM SudoPermitted == Spec => []OnlyPermittedSudo
  <1>1. IInv => OnlyPermittedSudo
    <2> SUFFICES ASSUME IInv, unbuilt = {}, NEW ip \in IPs, NEW m \in cache[ip],
                        NEW u \in DOMAIN m.users, m.users[u].sudo
                 PROVE  \/ \E p \in Permitted(src, ip) :
                              p[2] = u /\ src.identity.host_access[p[1]].sudo
                        \/ OwnersOf(src, ip) # {} /\ u \in OwnersOf(src, ip) \cup {"root"}
      BY DEF OnlyPermittedSudo
    <2>1. m \in HostMeta(src, ip) \cup ContainerMeta(src, ip) /\ src \in Sources
      BY DEF IInv, NoRevokedEntry, Fresh, TypeOK, NoMeta
    <2>2. QED
      BY <2>1, HostEntry, ContainerEntry
  <1>2. QED
    BY <1>1, Invariance, PTL

\* A change is rebuilt by the task that made it, if that task cannot be dropped.
THEOREM RebuildOwed == Spec => []OwedRebuild
  <1>1. IInv => OwedRebuild
    BY DEF IInv
  <1>2. QED
    BY <1>1, Invariance, PTL

\* resolve_on_demand refuses an address only if, at that instant, no source
\* resolves it: the guards it keeps make its two lookups one.
THEOREM RefusalsAreRight == Spec => RefusedOnlyIfUnresolvable
  <1>1. IInv /\ [Next]_vars
          => [\A r \in Requests :
                (rpc[r] # "idle" /\ rpc'[r] = "idle" /\ reply'[r] = NoMeta)
                   => View(src, ask[r]) = NoMeta]_vars
    <2> SUFFICES ASSUME IInv, Next, NEW r \in Requests, rpc[r] # "idle", rpc'[r] = "idle",
                        reply'[r] = NoMeta
                 PROVE  View(src, ask[r]) = NoMeta
      OBVIOUS
    <2>1. RequestLockBmh(r) \/ RequestLockContainers(r)
      BY DEF IInv, TypeOK, Next, Serve, Lookup, Miss, RequestLockIdentity, RequestLockBmh,
         RequestLockContainers, WriterStep, Rebuild, BeginWrite, Write, EndWrite, SkipWrite,
         Lose, LockIdentity, LockBmh, LockContainers, ClearEntry, StartPass1, InsertHost,
         StartPass2, InsertContainer, Finish
    <2>2. RequestLockContainers(r)
      BY <2>1 DEF RequestLockBmh, IInv, TypeOK
    <2>3. ContainerMeta(src, ask[r]) = NoMeta
      BY <2>2 DEF RequestLockContainers, IInv, TypeOK
    <2>4. HostMeta(src, ask[r]) = NoMeta
      BY <2>2 DEF RequestLockContainers, IInv, HostRuledOut
    <2>5. QED
      BY <2>3, <2>4 DEF View
  <1>2. QED
    BY <1>1, Invariance, PTL DEF Spec, RefusedOnlyIfUnresolvable

----------------------------------------------------------------------------
(* The refinement.                                                         *)

\* What the abstraction shows depends on nothing but these.
LEMMA SameShown ==
    ASSUME src' = src, cache' = cache, unbuilt' = unbuilt, Filling' = Filling
    PROVE  UNCHANGED Service!service
  BY DEF Service!service, Due, Shown, Behind

\* A step of a task that builds before and after it is hidden.
LEMMA HiddenWhileFilling ==
    ASSUME Filling, Filling', src' = src, unbuilt' = unbuilt
    PROVE  UNCHANGED Service!service
  BY DEF Service!service, Due, Shown, Behind

LEMMA DueType ==
    ASSUME src \in Sources
    PROVE  Due \in [IPs -> Metadata]
  BY MetadataTypes, ViewCases DEF Due

LEMMA InitServes == Init => Service!Init
  <1> SUFFICES ASSUME Init PROVE Service!Init
    OBVIOUS
  <1>1. Due \in [IPs -> Metadata]
    BY InitType, DueType DEF TypeOK
  <1>2. ~Filling
    BY DEF Init, Filling, Building
  <1>3. Due = cache
    <2>1. src.bmh = EmptyBmh /\ src.containers = EmptyContainers
      BY DEF Init
    <2>2. \A ip \in IPs : HostMeta(src, ip) = NoMeta /\ ContainerMeta(src, ip) = NoMeta
      BY <2>1 DEF HostMeta, ContainerMeta, EmptyBmh, EmptyContainers, EmptyMap
    <2>3. QED
      BY <2>2 DEF Due, View, Init
  <1>4. QED
    BY <1>1, <1>2, <1>3 DEF Service!Init, Shown, Behind, Init

LEMMA WriteServes ==
    ASSUME IInv, IInv', NEW w \in Writers, Write(w)
    PROVE  Service!Next
  <1>1. /\ \A v \in Writers : pc[v] \notin Building
        /\ pc' = pc /\ cache' = cache /\ w \in unbuilt'
    BY WriteAlone DEF IInv
  <1>2. ~Filling /\ ~Filling'
    BY <1>1 DEF Filling
  <1>3. Due' \in [IPs -> Metadata]
    <2>1. src' \in Sources
      BY DEF IInv, TypeOK
    <2>2. \A ip \in IPs : View(src', ip) \in Metadata
      BY <2>1, MetadataTypes, ViewCases
    <2>3. QED
      BY <2>2 DEF Due
  <1>4. Behind' = TRUE
    <2>1. unbuilt' # {}
      BY <1>1
    <2>2. Behind'
      BY <2>1 DEF Behind
    <2>3. QED
      BY <2>2, Zenon DEF Behind
  <1>5. Filling' = Filling /\ Shown' = Shown
    BY <1>1, <1>2 DEF Filling, Shown
  <1>6. Service!Change
    BY <1>2, <1>3, <1>4, <1>5, Zenon DEF Service!Change
  <1>7. QED
    BY <1>6 DEF Service!Next

\* The last rebuild to end makes everything due visible at once: Coherent.
LEMMA FinishServes ==
    ASSUME IInv, IInv', NEW w \in Writers, Finish(w)
    PROVE  [Service!Next]_(Service!service)
  <1>1. src' = src /\ cache' = cache /\ unbuilt' = unbuilt
    BY DEF Finish
  <1>2. Filling
    BY DEF Finish, Filling, Building
  <1>3. CASE Filling'
    BY <1>1, <1>2, <1>3, HiddenWhileFilling
  <1>4. CASE ~Filling'
    <2>1. unbuilt = {}
      BY DEF Finish, IInv, Passes
    <2>2. \A ip \in IPs : cache'[ip] = View(src', ip)
      BY <1>1, <1>4, <2>1 DEF IInv, Settled, WillSet, Filling, Building
    <2>3. cache' \in [IPs -> Metadata]
      BY DEF IInv, TypeOK
    <2>4. cache' = Due /\ Due' = Due
      BY <1>1, <2>2, <2>3 DEF Due
    <2>5. Service!Serve
      BY <1>1, <1>2, <1>4, <2>1, <2>4 DEF Service!Serve, Shown, Behind
    <2>6. QED
      BY <2>5 DEF Service!Next
  <1>5. QED
    BY <1>3, <1>4

\* Everything a rebuild does between its last guard and its end.
LEMMA BuildServes ==
    ASSUME IInv, NEW w \in Writers,
           \/ LockContainers(w) \/ StartPass1(w) \/ StartPass2(w)
           \/ \E ip \in IPs : ClearEntry(w, ip) \/ InsertHost(w, ip) \/ InsertContainer(w, ip)
    PROVE  [Service!Next]_(Service!service)
  <1> USE DEF IInv, TypeOK, Building
  <1>1. CASE LockContainers(w)
    <2>1. src' = src /\ cache' = cache /\ unbuilt' = unbuilt /\ Filling'
      BY <1>1 DEF LockContainers, Filling
    <2>2. CASE Filling
      BY <2>1, <2>2, HiddenWhileFilling
    <2>3. CASE ~Filling
      BY <2>1, <2>3
         DEF Service!Next, Service!Fill, Service!NoPromise, Shown, Behind, Due, EmptyMap
    <2>4. QED
      BY <2>2, <2>3
  <1>2. CASE StartPass1(w)
    <2>1. src' = src /\ Filling /\ Filling' /\ unbuilt' = {}
      BY <1>2 DEF StartPass1, Filling
    <2>2. QED
      BY <2>1 DEF Service!Next, Service!TakeUp, Shown, Behind, Due
  <1>3. CASE \/ StartPass2(w)
             \/ \E ip \in IPs : ClearEntry(w, ip) \/ InsertHost(w, ip) \/ InsertContainer(w, ip)
    <2>1. src' = src /\ unbuilt' = unbuilt /\ Filling /\ Filling'
      BY <1>3 DEF StartPass2, ClearEntry, InsertHost, InsertContainer, Filling
    <2>2. QED
      BY <2>1, HiddenWhileFilling
  <1>4. QED
    BY <1>1, <1>2, <1>3

LEMMA NextServes == IInv /\ IInv' /\ [Next]_vars => [Service!Next]_(Service!service)
  <1> SUFFICES ASSUME IInv, IInv', [Next]_vars
               PROVE  [Service!Next]_(Service!service)
    OBVIOUS
  <1>1. ASSUME NEW w \in Writers, WriterStep(w)
        PROVE  [Service!Next]_(Service!service)
    <2>1. CASE Outside(w)
      <3>1. UNCHANGED <<src, cache, unbuilt>> /\ Filling' = Filling
        BY <2>1, OutsideFrame DEF IInv, Filling
      <3>2. QED
        BY <3>1, SameShown
    <2>2. QED
      BY <1>1, <2>1, WriteServes, FinishServes, BuildServes DEF WriterStep, Rebuild, Outside
  <1>2. ASSUME NEW r \in Requests, Serve(r) \/ \E ip \in IPs : Lookup(r, ip) \/ Miss(r, ip)
        PROVE  [Service!Next]_(Service!service)
    BY <1>2, RequestStepFrame, SameShown DEF Filling
  <1>3. CASE UNCHANGED vars
    BY <1>3, SameShown DEF vars, Filling
  <1>4. QED
    BY <1>1, <1>2, <1>3 DEF Next

\* The cache that overlapping rebuilds fill entry by entry (src/cache.rs,
\* rebuild_cache) implements one that is refreshed as a whole.
THEOREM RefreshIsAtomic == Spec => ServesAtOnce
  BY InitServes, NextServes, Invariance, PTL DEF Spec, Service!Spec, ServesAtOnce
=============================================================================
