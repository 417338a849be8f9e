-------------------------- MODULE BmhWatcher_proofs --------------------------
(***************************************************************************)
(* Proofs about BmhWatcher, for any networks, hosts, addresses, labels and *)
(* leases, and any number of changes and failures: a network that was      *)
(* listed and watched since is tracked exactly.                            *)
(***************************************************************************)
EXTENDS BmhWatcher, TLAPS

----------------------------------------------------------------------------
(* The inductive invariant.                                                *)

Mentions(q, h) == \E i \in DOMAIN q : q[i].host = h

\* What the queue of a network's watch holds: events of its own hosts.
OwnEvents(q, ns) ==
    \A i \in DOMAIN q : /\ Namespace[q[i].host] = ns
                        /\ q[i].object.ip \in Addresses[ns] \cup {None}

\* The youngest event of a host is what mkube says of it.
YoungestIsNew(q, h) ==
    \A i \in DOMAIN q :
        (q[i].host = h /\ \A j \in DOMAIN q : j > i => q[j].host # h)
            => q[i].object = mkube[h]

\* An event that gives a host's address to another one is older than one that
\* gives it to the host.
Overtaken(q, h) ==
    \A i \in DOMAIN q :
        (q[i].host # h /\ q[i].object.ip = mkube[h].ip /\ mkube[h].ip # None)
            => \E j \in DOMAIN q : j > i /\ q[j].host = h

Queues ==
    /\ \A ns \in Namespaces : /\ ns \notin watching => events[ns] = <<>>
                              /\ OwnEvents(events[ns], ns)
    /\ \A h \in Hosts : /\ YoungestIsNew(events[Namespace[h]], h)
                        /\ Overtaken(events[Namespace[h]], h)

\* A load in progress has emptied what it has still to list.
Emptied ==
    load = "listing" =>
        \A h \in Hosts : Namespace[h] \in todo => bmh.host_labels[h] = None

\* BmhState says of h what mkube says.
Exact(h) ==
    /\ mkube[h].ip # None => /\ bmh.ip_to_hostname[mkube[h].ip] = h
                             /\ bmh.host_labels[h] = mkube[h].labels
    /\ mkube[h] = Absent => bmh.host_labels[h] = None

ExactUnlessQueued ==
    \A h \in Hosts :
        Namespace[h] \in synced /\ ~Mentions(events[Namespace[h]], h) => Exact(h)

IInv == TypeOK /\ Consistent(mkube) /\ Queues /\ Emptied /\ ExactUnlessQueued

----------------------------------------------------------------------------
(* The operators.                                                          *)

LEMMA EmptyType == EmptyBmh \in BmhStates
  BY DEF EmptyBmh, BmhStates

LEMMA ObjectType ==
    ASSUME NEW object \in Objects \cup {Absent}
    PROVE  /\ object.ip \in IPs \cup {None}
           /\ object.ip # None => object \in Objects /\ object.labels \in Labels
           /\ object = Absent => object.ip = None
  BY DEF Objects, Absent

LEMMA ApplyType ==
    ASSUME NEW h \in Hosts, NEW object \in Objects \cup {Absent}, NEW b \in BmhStates
    PROVE  handle_watch_event(h, object, b) \in BmhStates
  <1>1. CASE object = Absent
    BY <1>1 DEF handle_watch_event, Delete, BmhStates
  <1>2. CASE object # Absent
    <2>1. object.ip \in IPs \cup {None} /\ object.labels \in Labels
      BY <1>2 DEF Objects
    <2>2. QED
      BY <1>2, <2>1 DEF handle_watch_event, apply_bmh_to_state, BmhStates
  <1>3. QED
    BY <1>1, <1>2

\* An event makes BmhState exact for its host, and leaves another host exact
\* unless it gives away that host's address.
LEMMA ApplyExact ==
    ASSUME NEW h \in Hosts, NEW object \in Objects \cup {Absent}, NEW b \in BmhStates,
           NEW c, c = handle_watch_event(h, object, b)
    PROVE  /\ object.ip # None => /\ c.ip_to_hostname[object.ip] = h
                                  /\ c.host_labels[h] = object.labels
           /\ object = Absent => c.host_labels[h] = None
           /\ \A g \in Hosts \ {h} : c.host_labels[g] = b.host_labels[g]
           /\ \A ip \in IPs : b.ip_to_hostname[ip] # h /\ object.ip # ip
                                 => c.ip_to_hostname[ip] = b.ip_to_hostname[ip]
  <1>1. CASE object = Absent
    BY <1>1 DEF handle_watch_event, Delete, BmhStates, Absent
  <1>2. CASE object # Absent /\ object.ip = None
    BY <1>2 DEF handle_watch_event, apply_bmh_to_state
  <1>3. CASE object # Absent /\ object.ip # None
    <2>1. object.ip \in IPs
      BY <1>3, ObjectType
    <2>2. QED
      BY <1>3, <2>1 DEF handle_watch_event, apply_bmh_to_state, BmhStates
  <1>4. QED
    BY <1>1, <1>2, <1>3

\* A list puts every host of its network at its address.
LEMMA ListExact ==
    ASSUME NEW ns \in Namespaces, NEW b \in BmhStates, TypeOK, Consistent(mkube),
           NEW c, c = ApplyList(ns, b)
    PROVE  /\ c \in BmhStates
           /\ \A h \in Hosts : Namespace[h] = ns /\ mkube[h].ip # None
                 => c.ip_to_hostname[mkube[h].ip] = h /\ c.host_labels[h] = mkube[h].labels
           /\ \A h \in Hosts : Namespace[h] # ns \/ mkube[h].ip = None
                 => c.host_labels[h] = b.host_labels[h]
           /\ \A ip \in IPs : (\A h \in Hosts : Namespace[h] = ns => mkube[h].ip # ip)
                 => c.ip_to_hostname[ip] = b.ip_to_hostname[ip]
  <1> DEFINE listed == {h \in Hosts : Namespace[h] = ns /\ mkube[h].ip # None}
             names  == [ip \in IPs |-> IF \E h \in listed : mkube[h].ip = ip
                                       THEN CHOOSE h \in listed : mkube[h].ip = ip
                                       ELSE b.ip_to_hostname[ip]]
             labels == [h \in Hosts |-> IF h \in listed THEN mkube[h].labels
                                        ELSE b.host_labels[h]]
  <1>1. c.ip_to_hostname = names /\ c.host_labels = labels
        /\ c = [ip_to_hostname |-> names, host_labels |-> labels]
    BY DEF ApplyList
  <1>2. \A h \in listed : mkube[h].ip \in IPs /\ mkube[h].labels \in Labels
    BY ObjectType DEF TypeOK
  <1>3. \A ip \in IPs : (\E h \in listed : mkube[h].ip = ip)
                          => names[ip] \in listed /\ mkube[names[ip]].ip = ip
    OBVIOUS
  <1>4. \A ip \in IPs : names[ip] \in Hosts \cup {None}
    BY <1>3 DEF BmhStates
  <1>5. \A h \in Hosts : labels[h] \in Labels \cup {None}
    BY <1>2 DEF BmhStates
  <1>6. c \in BmhStates
    <2>1. names \in [IPs -> Hosts \cup {None}]
      BY <1>4
    <2>2. labels \in [Hosts -> Labels \cup {None}]
      BY <1>5
    <2>3. QED
      BY <1>1, <2>1, <2>2 DEF BmhStates
  <1>7. ASSUME NEW h \in listed
        PROVE  names[mkube[h].ip] = h /\ labels[h] = mkube[h].labels
    <2>1. /\ mkube[h].ip \in IPs /\ names[mkube[h].ip] \in listed
          /\ mkube[names[mkube[h].ip]].ip = mkube[h].ip
      BY <1>2, <1>3
    <2>2. names[mkube[h].ip] = h
      BY <2>1 DEF Consistent
    <2>3. QED
      BY <2>2
  <1>8. QED
    BY <1>1, <1>6, <1>7

LEMMA LeasesExact ==
    ASSUME NEW b \in BmhStates, NEW c, c = ApplyLeases(b)
    PROVE  /\ c \in BmhStates /\ c.host_labels = b.host_labels
           /\ \A ip \in IPs : b.ip_to_hostname[ip] # None
                 => c.ip_to_hostname[ip] = b.ip_to_hostname[ip]
  BY NamespaceAssumption DEF ApplyLeases, BmhStates

LEMMA InitInv == Init => IInv
  <1> SUFFICES ASSUME Init PROVE IInv
    OBVIOUS
  <1>1. TypeOK /\ Consistent(mkube)
    BY EmptyType, BoundsAssumption DEF Init, TypeOK
  <1>2. \A h \in Hosts : Namespace[h] \in Namespaces
    BY NamespaceAssumption
  <1>3. Queues /\ Emptied /\ ExactUnlessQueued
    BY <1>2 DEF Init, Queues, OwnEvents, YoungestIsNew, Overtaken, Emptied, ExactUnlessQueued
  <1>4. QED
    BY <1>1, <1>3 DEF IInv

----------------------------------------------------------------------------
(* One lemma per action.                                                   *)

LEMMA HostFacts ==
    \A h \in Hosts : Namespace[h] \in Namespaces
  BY NamespaceAssumption

LEMMA ChangeInv ==
    ASSUME IInv, NEW h \in Hosts, NEW object \in Objects \cup {Absent}, Change(h, object)
    PROVE  IInv'
  <1> DEFINE ns == Namespace[h]
             e  == [host |-> h, object |-> object]
             q  == events[ns]
  <1>1. /\ mkube' = [mkube EXCEPT ![h] = object] /\ Consistent(mkube')
        /\ changes < MaxChanges /\ changes' = changes + 1
        /\ UNCHANGED <<failures, bmh, served, known, run, load, todo, watching, owed>>
        /\ mkube \in [Hosts -> Objects \cup {Absent}] /\ ns \in Namespaces
        /\ events \in [Namespaces -> Seq(Event)]
    BY HostFacts DEF Change, IInv, TypeOK
  <1>2. /\ mkube' \in [Hosts -> Objects \cup {Absent}] /\ mkube'[h] = object
        /\ \A g \in Hosts \ {h} : mkube'[g] = mkube[g]
        /\ changes' \in 0 .. MaxChanges
    BY <1>1, BoundsAssumption DEF IInv, TypeOK
  <1>3. Emptied'
    BY <1>1 DEF IInv, Emptied
  <1>4. CASE ns \in watching
    <2>1. events' = [events EXCEPT ![ns] = Append(q, e)] /\ synced' = synced
      BY <1>4 DEF Change
    <2>2. e \in Event
      BY DEF Event
    <2>3. /\ events' \in [Namespaces -> Seq(Event)]
          /\ \A m \in Namespaces \ {ns} : events'[m] = events[m]
      BY <1>1, <2>1, <2>2
    <2>4. /\ Len(q) \in Nat /\ DOMAIN q = 1 .. Len(q)
          /\ DOMAIN events'[ns] = 1 .. (Len(q) + 1)
          /\ \A i \in 1 .. Len(q) : events'[ns][i] = q[i]
          /\ events'[ns][Len(q) + 1] = e
      BY <1>1, <2>1, <2>2
    <2>5. TypeOK'
      BY <1>1, <1>2, <2>1, <2>3 DEF IInv, TypeOK
    <2>6. ASSUME NEW m \in Namespaces
          PROVE  (m \notin watching' => events'[m] = <<>>) /\ OwnEvents(events'[m], m)
      <3>1. (m \notin watching => events[m] = <<>>) /\ OwnEvents(events[m], m)
        BY DEF IInv, Queues
      <3>2. CASE m # ns
        BY <1>1, <2>3, <3>1, <3>2
      <3>3. CASE m = ns
        <4>1. object.ip \in Addresses[ns] \cup {None}
          BY <1>1, <1>2 DEF Consistent
        <4>2. OwnEvents(events'[m], m)
          <5> SUFFICES ASSUME NEW i \in 1 .. (Len(q) + 1)
                       PROVE  /\ Namespace[events'[ns][i].host] = ns
                              /\ events'[ns][i].object.ip \in Addresses[ns] \cup {None}
            BY <2>4, <3>3 DEF OwnEvents
          <5>1. CASE i = Len(q) + 1
            BY <2>4, <4>1, <5>1
          <5>2. CASE i # Len(q) + 1
            <6>1. i \in 1 .. Len(q)
              BY <2>4, <5>2
            <6>2. events'[ns][i] = q[i]
              BY <2>4, <6>1
            <6>3. Namespace[q[i].host] = ns /\ q[i].object.ip \in Addresses[ns] \cup {None}
              BY <2>4, <3>1, <3>3, <6>1 DEF OwnEvents
            <6>4. QED
              BY <6>2, <6>3
          <5>3. QED
            BY <5>1, <5>2
        <4>3. QED
          BY <1>1, <1>4, <3>3, <4>2
      <3>4. QED
        BY <3>2, <3>3
    <2>7. ASSUME NEW g \in Hosts
          PROVE  /\ YoungestIsNew(events[Namespace[g]], g)'
                 /\ Overtaken(events[Namespace[g]], g)'
      <3>0. /\ YoungestIsNew(events[Namespace[g]], g) /\ Overtaken(events[Namespace[g]], g)
            /\ Namespace[g] \in Namespaces
        BY HostFacts DEF IInv, Queues
      <3>1. CASE Namespace[g] # ns
        <4>1. g # h /\ events'[Namespace[g]] = events[Namespace[g]] /\ mkube'[g] = mkube[g]
          BY <1>2, <2>3, <3>0, <3>1
        <4>2. QED
          BY <3>0, <4>1 DEF YoungestIsNew, Overtaken
      <3>2. CASE g = h
        <4>1. YoungestIsNew(events[Namespace[g]], g)'
          BY <1>2, <2>4, <3>2 DEF YoungestIsNew
        <4>2. Overtaken(events[Namespace[g]], g)'
          BY <2>4, <3>2 DEF Overtaken
        <4>3. QED
          BY <4>1, <4>2
      <3>3. CASE g # h /\ Namespace[g] = ns
        <4>1. mkube'[g] = mkube[g]
          BY <1>2, <3>3
        <4>2. YoungestIsNew(events[Namespace[g]], g)'
          <5> SUFFICES ASSUME NEW i \in 1 .. (Len(q) + 1), events'[ns][i].host = g,
                              \A j \in 1 .. (Len(q) + 1) : j > i => events'[ns][j].host # g
                       PROVE  events'[ns][i].object = mkube[g]
            BY <2>4, <3>3, <4>1 DEF YoungestIsNew
          <5>1. i \in 1 .. Len(q)
            BY <2>4, <3>3
          <5>2. q[i].host = g /\ \A j \in 1 .. Len(q) : j > i => q[j].host # g
            <6>1. q[i].host = g
              BY <2>4, <5>1
            <6>2. \A j \in 1 .. Len(q) : j \in 1 .. (Len(q) + 1) /\ events'[ns][j] = q[j]
              BY <2>4
            <6>3. QED
              BY <6>1, <6>2
          <5>3. q[i].object = mkube[g]
            BY <2>4, <3>0, <3>3, <5>1, <5>2 DEF YoungestIsNew
          <5>4. QED
            BY <2>4, <5>1, <5>3
        <4>3. object.ip = mkube[g].ip => mkube[g].ip = None
          BY <1>1, <1>2, <3>3 DEF Consistent
        <4>4. Overtaken(events[Namespace[g]], g)'
          <5> SUFFICES ASSUME NEW i \in 1 .. (Len(q) + 1), events'[ns][i].host # g,
                              events'[ns][i].object.ip = mkube[g].ip, mkube[g].ip # None
                       PROVE  \E j \in 1 .. (Len(q) + 1) : j > i /\ events'[ns][j].host = g
            BY <2>4, <3>3, <4>1 DEF Overtaken
          <5>1. i \in 1 .. Len(q)
            BY <2>4, <4>3
          <5>2. q[i].host # g /\ q[i].object.ip = mkube[g].ip
            BY <2>4, <5>1
          <5>3. PICK j \in 1 .. Len(q) : j > i /\ q[j].host = g
            BY <2>4, <3>0, <3>3, <5>1, <5>2 DEF Overtaken
          <5>4. QED
            BY <2>4, <5>3
        <4>5. QED
          BY <4>2, <4>4
      <3>4. QED
        BY <3>1, <3>2, <3>3
    <2>8. Queues'
      BY <2>6, <2>7 DEF Queues
    <2>9. ASSUME NEW g \in Hosts, Namespace[g] \in synced', ~Mentions(events'[Namespace[g]], g)
          PROVE  Exact(g)'
      <3>1. g # h
        BY <2>4, <2>9 DEF Mentions
      <3>2. ~Mentions(events[Namespace[g]], g)
        <4>1. CASE Namespace[g] # ns
          BY <2>3, <2>9, <4>1, HostFacts
        <4>2. CASE Namespace[g] = ns
          <5>1. \A i \in 1 .. Len(q) : i \in 1 .. (Len(q) + 1) /\ events'[ns][i] = q[i]
            BY <2>4
          <5>2. \A i \in 1 .. (Len(q) + 1) : events'[ns][i].host # g
            BY <2>4, <2>9, <4>2 DEF Mentions
          <5>3. QED
            BY <2>4, <4>2, <5>1, <5>2 DEF Mentions
        <4>3. QED
          BY <4>1, <4>2
      <3>3. Exact(g)
        BY <2>1, <2>9, <3>2 DEF IInv, ExactUnlessQueued
      <3>4. QED
        BY <1>1, <1>2, <3>1, <3>3 DEF Exact
    <2>10. ExactUnlessQueued'
      BY <2>9 DEF ExactUnlessQueued
    <2>11. QED
      BY <1>1, <1>3, <2>5, <2>8, <2>10 DEF IInv
  <1>5. CASE ns \notin watching
    <2>1. events' = events /\ synced' = synced \ {ns} /\ q = <<>>
      BY <1>1, <1>5 DEF Change, IInv, Queues
    <2>2. TypeOK'
      BY <1>1, <1>2, <2>1 DEF IInv, TypeOK
    <2>3. ASSUME NEW g \in Hosts
          PROVE  /\ YoungestIsNew(events[Namespace[g]], g)'
                 /\ Overtaken(events[Namespace[g]], g)'
      <3>1. CASE g = h
        BY <2>1, <3>1 DEF YoungestIsNew, Overtaken
      <3>2. CASE g # h
        BY <1>2, <2>1, <3>2 DEF IInv, Queues, YoungestIsNew, Overtaken
      <3>3. QED
        BY <3>1, <3>2
    <2>4. Queues'
      BY <1>1, <2>1, <2>3 DEF IInv, Queues, OwnEvents
    <2>5. ASSUME NEW g \in Hosts, Namespace[g] \in synced', ~Mentions(events'[Namespace[g]], g)
          PROVE  Exact(g)'
      <3>1. g # h /\ Exact(g)
        BY <2>1, <2>5 DEF IInv, ExactUnlessQueued
      <3>2. QED
        BY <1>1, <1>2, <3>1 DEF Exact
    <2>6. ExactUnlessQueued'
      BY <2>5 DEF ExactUnlessQueued
    <2>7. QED
      BY <1>1, <1>3, <2>2, <2>4, <2>6 DEF IInv
  <1>6. QED
    BY <1>4, <1>5

\* Steps that leave mkube, BmhState and the queues alone.
LEMMA Frame ==
    ASSUME IInv, TypeOK', UNCHANGED <<mkube, bmh, events>>, watching \subseteq watching',
           synced' \subseteq synced, load' = "listing" => load = "listing" /\ todo' \subseteq todo
    PROVE  IInv'
  <1>1. Consistent(mkube)' /\ Queues'
    BY DEF IInv, Consistent, Queues, OwnEvents, YoungestIsNew, Overtaken
  <1>2. Emptied' /\ ExactUnlessQueued'
    BY DEF IInv, Emptied, ExactUnlessQueued, Exact, Mentions
  <1>3. QED
    BY <1>1, <1>2 DEF IInv

LEMMA QuietInv ==
    ASSUME IInv,
           \/ OtherRebuild \/ Connect \/ Refresh \/ DiscoverFails \/ Listed \/ LeasesFail \/ Rebuild
           \/ \E ns \in Namespaces : ListFails(ns) \/ Watch(ns) \/ RebuildAfter(ns)
    PROVE  IInv'
  <1>1. TypeOK'
    BY BoundsAssumption
       DEF IInv, TypeOK, OtherRebuild, Connect, Refresh, DiscoverFails, Listed, LeasesFail,
           Rebuild, ListFails, Watch, RebuildAfter
  <1>2. /\ UNCHANGED <<mkube, bmh, events>> /\ watching \subseteq watching'
        /\ synced' \subseteq synced
        /\ load' = "listing" => load = "listing" /\ todo' \subseteq todo
    BY DEF OtherRebuild, Connect, Refresh, DiscoverFails, Listed, LeasesFail, Rebuild, ListFails,
           Watch, RebuildAfter
  <1>3. QED
    BY <1>1, <1>2, Frame

\* A refresh may begin over queues that are not empty.
LEMMA DiscoverInv == IInv /\ Discover => IInv'
  <1> SUFFICES ASSUME IInv, Discover PROVE IInv'
    OBVIOUS
  <1>1. TypeOK'
    BY EmptyType DEF Discover, IInv, TypeOK
  <1>2. Consistent(mkube)' /\ Queues'
    BY DEF Discover, IInv, Consistent, Queues, OwnEvents, YoungestIsNew, Overtaken
  <1>3. Emptied' /\ ExactUnlessQueued'
    BY DEF Discover, Emptied, EmptyBmh, ExactUnlessQueued
  <1>4. QED
    BY <1>1, <1>2, <1>3 DEF IInv

LEMMA ListInv ==
    ASSUME IInv, NEW ns \in Namespaces, List(ns)
    PROVE  IInv'
  <1>1. /\ load = "listing" /\ ns \in todo /\ todo' = todo \ {ns}
        /\ bmh' = ApplyList(ns, bmh) /\ synced' = synced \cup {ns}
        /\ UNCHANGED <<mkube, changes, failures, served, known, run, load, watching, events, owed>>
    BY DEF List
  <1>2. TypeOK /\ Consistent(mkube) /\ bmh \in BmhStates
    BY DEF IInv, TypeOK
  <1>3. /\ bmh' \in BmhStates
        /\ \A h \in Hosts : Namespace[h] = ns /\ mkube[h].ip # None
              => bmh'.ip_to_hostname[mkube[h].ip] = h /\ bmh'.host_labels[h] = mkube[h].labels
        /\ \A h \in Hosts : Namespace[h] # ns \/ mkube[h].ip = None
              => bmh'.host_labels[h] = bmh.host_labels[h]
        /\ \A ip \in IPs : (\A h \in Hosts : Namespace[h] = ns => mkube[h].ip # ip)
              => bmh'.ip_to_hostname[ip] = bmh.ip_to_hostname[ip]
    BY <1>1, <1>2, ListExact
  <1>4. TypeOK'
    BY <1>1, <1>3 DEF IInv, TypeOK
  <1>5. Consistent(mkube)' /\ Queues'
    BY <1>1 DEF IInv, Consistent, Queues, OwnEvents, YoungestIsNew, Overtaken
  <1>6. Emptied'
    BY <1>1, <1>3 DEF IInv, Emptied
  <1>7. ASSUME NEW h \in Hosts, Namespace[h] \in synced', ~Mentions(events[Namespace[h]], h)
        PROVE  Exact(h)'
    <2>1. mkube[h] = Absent => mkube[h].ip = None
      BY DEF Absent
    <2>2. CASE Namespace[h] = ns
      <3>1. mkube[h] = Absent => bmh.host_labels[h] = None
        BY <1>1, <2>2 DEF IInv, Emptied
      <3>2. QED
        BY <1>1, <1>3, <2>1, <2>2, <3>1 DEF Exact
    <2>3. CASE Namespace[h] # ns
      <3>1. Exact(h)
        BY <1>1, <1>7, <2>3 DEF IInv, ExactUnlessQueued
      <3>2. mkube[h].ip # None => mkube[h].ip \in IPs
        BY <1>2, ObjectType DEF TypeOK
      <3>3. mkube[h].ip # None => \A g \in Hosts : Namespace[g] = ns => mkube[g].ip # mkube[h].ip
        BY <1>2, <2>3 DEF Consistent
      <3>4. QED
        BY <1>1, <1>3, <2>3, <3>1, <3>2, <3>3 DEF Exact
    <2>4. QED
      BY <2>2, <2>3
  <1>8. ExactUnlessQueued'
    BY <1>1, <1>7 DEF ExactUnlessQueued
  <1>9. QED
    BY <1>4, <1>5, <1>6, <1>8 DEF IInv

LEMMA LoadLeasesInv == IInv /\ LoadLeases => IInv'
  <1> SUFFICES ASSUME IInv, LoadLeases PROVE IInv'
    OBVIOUS
  <1>1. /\ load = "leases" /\ load' = "rebuild" /\ bmh' = ApplyLeases(bmh) /\ bmh \in BmhStates
        /\ UNCHANGED <<mkube, changes, failures, served, known, run, todo, watching, events,
                       owed, synced>>
    BY DEF LoadLeases, IInv, TypeOK
  <1>2. /\ bmh' \in BmhStates /\ bmh'.host_labels = bmh.host_labels
        /\ \A ip \in IPs : bmh.ip_to_hostname[ip] # None
              => bmh'.ip_to_hostname[ip] = bmh.ip_to_hostname[ip]
    BY <1>1, LeasesExact
  <1>3. TypeOK'
    BY <1>1, <1>2 DEF IInv, TypeOK
  <1>4. Consistent(mkube)' /\ Queues' /\ Emptied'
    BY <1>1 DEF IInv, Consistent, Queues, OwnEvents, YoungestIsNew, Overtaken, Emptied
  <1>5. ASSUME NEW h \in Hosts, Exact(h)
        PROVE  Exact(h)'
    <2>1. h # None /\ (mkube[h].ip # None => mkube[h].ip \in IPs)
      BY NoneAssumption, ObjectType DEF IInv, TypeOK
    <2>2. QED
      BY <1>1, <1>2, <1>5, <2>1 DEF Exact
  <1>6. ExactUnlessQueued'
    BY <1>1, <1>5 DEF IInv, ExactUnlessQueued, Mentions
  <1>7. QED
    BY <1>3, <1>4, <1>6 DEF IInv

LEMMA TakeInv ==
    ASSUME IInv, NEW ns \in Namespaces, Take(ns)
    PROVE  IInv'
  <1> DEFINE q == events[ns]
             n == Len(q)
             h == Head(q).host
             object == Head(q).object
  <1>1. /\ q # <<>> /\ q \in Seq(Event) /\ load # "listing"
        /\ bmh' = handle_watch_event(h, object, bmh) /\ bmh \in BmhStates
        /\ events' = [events EXCEPT ![ns] = Tail(q)] /\ owed' = owed \cup {ns}
        /\ UNCHANGED <<mkube, changes, failures, served, known, run, load, todo, watching, synced>>
    BY DEF Take, Unlocked, IInv, TypeOK
  <1>2. /\ n \in Nat \ {0} /\ DOMAIN q = 1 .. n
        /\ Head(q) = q[1] /\ q[1] \in Event
        /\ Tail(q) \in Seq(Event) /\ DOMAIN Tail(q) = 1 .. (n - 1)
        /\ \A i \in 1 .. (n - 1) : Tail(q)[i] = q[i + 1]
    BY <1>1
  <1>3. h \in Hosts /\ object \in Objects \cup {Absent}
    BY <1>2 DEF Event
  <1>4. /\ events' \in [Namespaces -> Seq(Event)] /\ events'[ns] = Tail(q)
        /\ \A m \in Namespaces \ {ns} : events'[m] = events[m]
    BY <1>1, <1>2 DEF IInv, TypeOK
  <1>5. bmh' \in BmhStates
    BY <1>1, <1>3, ApplyType
  <1>6. /\ object.ip # None => /\ bmh'.ip_to_hostname[object.ip] = h
                               /\ bmh'.host_labels[h] = object.labels
        /\ object = Absent => bmh'.host_labels[h] = None
        /\ \A g \in Hosts \ {h} : bmh'.host_labels[g] = bmh.host_labels[g]
        /\ \A ip \in IPs : bmh.ip_to_hostname[ip] # h /\ object.ip # ip
              => bmh'.ip_to_hostname[ip] = bmh.ip_to_hostname[ip]
    <2> HIDE DEF h, object
    <2>1. bmh \in BmhStates /\ bmh' = handle_watch_event(h, object, bmh)
      BY <1>1
    <2> DEFINE c == handle_watch_event(h, object, bmh)
    <2> HIDE DEF c
    <2>2. /\ object.ip # None => /\ c.ip_to_hostname[object.ip] = h
                                 /\ c.host_labels[h] = object.labels
          /\ object = Absent => c.host_labels[h] = None
          /\ \A g \in Hosts \ {h} : c.host_labels[g] = bmh.host_labels[g]
          /\ \A ip \in IPs : bmh.ip_to_hostname[ip] # h /\ object.ip # ip
                => c.ip_to_hostname[ip] = bmh.ip_to_hostname[ip]
      <3>1. c = handle_watch_event(h, object, bmh)
        BY DEF c
      <3>2. QED
        BY <1>3, <2>1, <3>1, ApplyExact
    <2>3. bmh' = c
      BY <2>1 DEF c
    <2>4. QED
      BY <2>2, <2>3
  <1>7. TypeOK'
    BY <1>1, <1>4, <1>5 DEF IInv, TypeOK
  <1>8. Consistent(mkube)' /\ Emptied'
    BY <1>1 DEF IInv, Consistent, Emptied
  <1>9. OwnEvents(q, ns) /\ Namespace[h] = ns /\ object.ip \in Addresses[ns] \cup {None}
    BY <1>2 DEF IInv, Queues, OwnEvents
  <1>10. ASSUME NEW m \in Namespaces
         PROVE  (m \notin watching' => events'[m] = <<>>) /\ OwnEvents(events'[m], m)
    <2>1. (m \notin watching => events[m] = <<>>) /\ OwnEvents(events[m], m)
      BY DEF IInv, Queues
    <2>2. CASE m # ns
      BY <1>1, <1>4, <2>1, <2>2
    <2>3. CASE m = ns
      <3>1. \A i \in 1 .. (n - 1) : i + 1 \in 1 .. n
        BY <1>2
      <3>2. \A i \in 1 .. n : /\ Namespace[q[i].host] = ns
                             /\ q[i].object.ip \in Addresses[ns] \cup {None}
        BY <1>2, <2>1, <2>3 DEF OwnEvents
      <3>3. OwnEvents(Tail(q), ns)
        BY <1>2, <3>1, <3>2 DEF OwnEvents
      <3>4. QED
        BY <1>1, <1>4, <2>1, <2>3, <3>3
    <2>4. QED
      BY <2>2, <2>3
  <1>11. ASSUME NEW g \in Hosts
         PROVE  /\ YoungestIsNew(events[Namespace[g]], g)'
                /\ Overtaken(events[Namespace[g]], g)'
    <2>0. /\ YoungestIsNew(events[Namespace[g]], g) /\ Overtaken(events[Namespace[g]], g)
          /\ Namespace[g] \in Namespaces
      BY HostFacts DEF IInv, Queues
    <2>1. CASE Namespace[g] # ns
      BY <1>1, <1>4, <2>0, <2>1 DEF YoungestIsNew, Overtaken
    <2>2. CASE Namespace[g] = ns
      <3>1. YoungestIsNew(events[Namespace[g]], g)'
        <4> SUFFICES ASSUME NEW i \in 1 .. (n - 1), events'[ns][i].host = g,
                            \A j \in 1 .. (n - 1) : j > i => events'[ns][j].host # g
                     PROVE  events'[ns][i].object = mkube[g]
          <5>1. DOMAIN events'[ns] = 1 .. (n - 1) /\ mkube'[g] = mkube[g]
            BY <1>1, <1>2, <1>4
          <5>2. YoungestIsNew(events[Namespace[g]], g)' <=>
                  \A i \in 1 .. (n - 1) :
                      (/\ events'[ns][i].host = g
                       /\ \A j \in 1 .. (n - 1) : j > i => events'[ns][j].host # g)
                          => events'[ns][i].object = mkube[g]
            BY <2>2, <5>1 DEF YoungestIsNew
          <5>3. QED
            BY <5>2
        <4>1. i + 1 \in 1 .. n /\ q[i + 1].host = g
          BY <1>2, <1>4
        <4>2. ASSUME NEW j \in 1 .. n, j > i + 1 PROVE q[j].host # g
          <5>1. j - 1 \in 1 .. (n - 1) /\ j - 1 > i /\ (j - 1) + 1 = j
            BY <1>2, <4>2
          <5>2. events'[ns][j - 1] = q[j]
            BY <1>2, <1>4, <5>1
          <5>3. QED
            BY <5>1, <5>2
        <4>3. q[i + 1].object = mkube[g]
          BY <1>2, <2>0, <2>2, <4>1, <4>2 DEF YoungestIsNew
        <4>4. QED
          BY <1>2, <1>4, <4>3
      <3>2. Overtaken(events[Namespace[g]], g)'
        <4> SUFFICES ASSUME NEW i \in 1 .. (n - 1), events'[ns][i].host # g,
                            events'[ns][i].object.ip = mkube[g].ip, mkube[g].ip # None
                     PROVE  \E j \in 1 .. (n - 1) : j > i /\ events'[ns][j].host = g
          <5>1. DOMAIN events'[ns] = 1 .. (n - 1) /\ mkube'[g] = mkube[g]
            BY <1>1, <1>2, <1>4
          <5>2. QED
            BY <2>2, <5>1 DEF Overtaken
        <4>1. i + 1 \in 1 .. n /\ q[i + 1].host # g /\ q[i + 1].object.ip = mkube[g].ip
          BY <1>2, <1>4
        <4>2. PICK j \in 1 .. n : j > i + 1 /\ q[j].host = g
          BY <1>2, <2>0, <2>2, <4>1 DEF Overtaken
        <4>3. j - 1 \in 1 .. (n - 1) /\ j - 1 > i /\ (j - 1) + 1 = j
          <5>1. Len(q) \in Nat /\ i \in Nat /\ i > 0
            BY <1>2
          <5>2. QED
            BY <4>2, <5>1
        <4>4. events'[ns][j - 1].host = g
          BY <1>2, <1>4, <4>2, <4>3
        <4>5. QED
          BY <4>3, <4>4
      <3>3. QED
        BY <3>1, <3>2
    <2>3. QED
      BY <2>1, <2>2
  <1>12. Queues'
    BY <1>10, <1>11 DEF Queues
  <1>13. ASSUME NEW g \in Hosts, Namespace[g] \in synced', ~Mentions(events'[Namespace[g]], g)
         PROVE  Exact(g)'
    <2>1. CASE g = h
      <3>1. ASSUME NEW j \in 1 .. n, j > 1 PROVE q[j].host # h
        <4>1. j - 1 \in 1 .. (n - 1) /\ (j - 1) + 1 = j
          BY <1>2, <3>1
        <4>2. events'[ns][j - 1] = q[j]
          BY <1>2, <1>4, <4>1
        <4>3. DOMAIN events'[ns] = 1 .. (n - 1) /\ ~Mentions(events'[ns], h)
          BY <1>2, <1>4, <1>9, <1>13, <2>1
        <4>4. QED
          BY <4>1, <4>2, <4>3 DEF Mentions
      <3>2. YoungestIsNew(q, h)
        BY <1>3, <1>9 DEF IInv, Queues
      <3>3. object = mkube[h]
        BY <1>2, <3>1, <3>2 DEF YoungestIsNew
      <3>4. QED
        BY <1>1, <1>6, <2>1, <3>3 DEF Exact
    <2>2. CASE g # h
      <3>1. ~Mentions(events[Namespace[g]], g)
        <4>1. CASE Namespace[g] # ns
          BY <1>4, <1>13, <4>1, HostFacts DEF Mentions
        <4>2. CASE Namespace[g] = ns
          <5> SUFFICES ASSUME NEW j \in 1 .. n, q[j].host = g
                       PROVE  Mentions(events'[ns], g)
            BY <1>2, <1>13, <4>2 DEF Mentions
          <5>1. j > 1
            BY <1>2, <2>2
          <5>2. j - 1 \in 1 .. (n - 1) /\ (j - 1) + 1 = j
            BY <1>2, <5>1
          <5>3. events'[ns][j - 1].host = g
            BY <1>2, <1>4, <5>2
          <5>4. QED
            BY <1>2, <1>4, <5>2, <5>3 DEF Mentions
        <4>3. QED
          BY <4>1, <4>2
      <3>2. Exact(g)
        BY <1>1, <1>13, <3>1 DEF IInv, ExactUnlessQueued
      <3>3. ASSUME mkube[g].ip # None
            PROVE  mkube[g].ip \in IPs /\ object.ip # mkube[g].ip
        <4>1. mkube[g].ip \in IPs
          BY <3>3, ObjectType DEF IInv, TypeOK
        <4>2. CASE Namespace[g] = ns
          <5>1. Overtaken(q, g)
            BY <4>2 DEF IInv, Queues
          <5>2. QED
            BY <1>2, <2>2, <3>1, <3>3, <4>1, <4>2, <5>1 DEF Overtaken, Mentions
        <4>3. CASE Namespace[g] # ns
          <5>1. mkube[g].ip \in Addresses[Namespace[g]]
            BY <3>3 DEF IInv, Consistent
          <5>2. mkube[g].ip \notin Addresses[ns]
            BY <4>3, <5>1, AddressesAssumption, HostFacts
          <5>3. QED
            BY <1>9, <3>3, <4>1, <5>2
        <4>4. QED
          BY <4>2, <4>3
      <3>4. QED
        BY <1>1, <1>6, <2>2, <3>2, <3>3 DEF Exact
    <2>3. QED
      BY <2>1, <2>2
  <1>14. ExactUnlessQueued'
    BY <1>13 DEF ExactUnlessQueued
  <1>15. QED
    BY <1>7, <1>8, <1>12, <1>14 DEF IInv

LEMMA DisconnectInv == IInv /\ Disconnect => IInv'
  <1> SUFFICES ASSUME IInv, Disconnect PROVE IInv'
    OBVIOUS
  <1>1. /\ UNCHANGED <<mkube, changes, failures, bmh, served, known>>
        /\ run' = "waiting" /\ load' = "none" /\ todo' = {} /\ watching' = {} /\ owed' = {}
        /\ events' \in [Namespaces -> Seq(Event)]
        /\ \A ns \in Namespaces : events'[ns] = <<>>
        /\ synced' \subseteq synced
        /\ \A ns \in Namespaces : ns \in synced' => events[ns] = <<>>
    BY DEF Disconnect
  <1>2. TypeOK'
    BY <1>1 DEF IInv, TypeOK
  <1>3. Consistent(mkube)' /\ Queues' /\ Emptied'
    BY <1>1, HostFacts
       DEF IInv, Consistent, Queues, OwnEvents, YoungestIsNew, Overtaken, Emptied
  <1>4. ExactUnlessQueued'
    BY <1>1, HostFacts DEF IInv, ExactUnlessQueued, Exact, Mentions
  <1>5. QED
    BY <1>2, <1>3, <1>4 DEF IInv

LEMMA NextInv == IInv /\ [Next]_vars => IInv'
  <1> SUFFICES ASSUME IInv, [Next]_vars PROVE IInv'
    OBVIOUS
  <1>1. CASE Next
    BY <1>1, ChangeInv, QuietInv, DiscoverInv, ListInv, LoadLeasesInv, TakeInv, DisconnectInv
       DEF Next, Load
  <1>2. CASE UNCHANGED vars
    <2>1. TypeOK'
      BY <1>2 DEF vars, IInv, TypeOK
    <2>2. QED
      BY <1>2, <2>1, Frame DEF vars
  <1>3. QED
    BY <1>1, <1>2

----------------------------------------------------------------------------
(* The theorems.                                                           *)

LEMMA Invariance == Spec => []IInv
  BY InitInv, NextInv, PTL DEF Spec

\* BmhState, the queues and the load always have the shape the code gives them.
THEOREM TypeCorrect == Spec => []TypeOK
  <1>1. IInv => TypeOK
    BY DEF IInv
  <1>2. QED
    BY <1>1, Invariance, PTL

\* A network listed since the last clear, and watched since its list
\* (src/watcher/bmh.rs, load_all_bmh and watch_namespace), is tracked exactly
\* whenever its queue is empty, whatever older events were applied over the list.
THEOREM NetworksAreTracked == Spec => []Tracked
  <1>1. IInv => Tracked
    BY DEF IInv, ExactUnlessQueued, Exact, Mentions, Tracked
  <1>2. QED
    BY <1>1, Invariance, PTL
=============================================================================
