-------------------------- MODULE StateLocks_proofs --------------------------
(***************************************************************************)
(* Proofs about StateLocks, for any number of watchers, requests and       *)
(* whatever scripts of their roles they run, first come, first served.     *)
(***************************************************************************)
EXTENDS StateLocks, SequenceTheorems, WellFoundedInduction, TLAPS

----------------------------------------------------------------------------
(* Least numbers, sequences put together.                                  *)

LEMMA Least ==
    ASSUME NEW T \in SUBSET Nat, T # {}
    PROVE  \E n \in T : \A m \in T : n <= m
  <1> DEFINE R == OpToRel(<, Nat)
  <1>1. IsWellFoundedOn(R, Nat)
    BY NatLessThanWellFounded
  <1>2. PICK n \in T : \A m \in T : ~ (<<m, n>> \in R)
    <2> HIDE DEF R
    <2> QED
      BY <1>1, WFMin
  <1>3. \A m \in T : m \in Nat /\ n \in Nat /\ ~ (m < n)
    BY <1>2 DEF OpToRel
  <1>4. QED
    BY <1>3

LEMMA ConcatFacts ==
    ASSUME NEW S, NEW s \in Seq(S), NEW t \in Seq(S)
    PROVE  /\ s \o t \in Seq(S) /\ Len(s \o t) = Len(s) + Len(t)
           /\ Len(s) \in Nat /\ Len(t) \in Nat
           /\ \A i \in 1 .. Len(s) : (s \o t)[i] = s[i]
           /\ \A i \in 1 .. Len(t) : (s \o t)[Len(s) + i] = t[i]
  OBVIOUS

----------------------------------------------------------------------------
(* The scripts.                                                            *)

Steps == {Drop} \cup {Rd(l) : l \in LockNames} \cup {Wr(l) : l \in LockNames}

\* The order in which every script but that of the debug page takes the locks.
Rank(l) == CASE l = "identity"        -> 1
             [] l = "bmh"             -> 2
             [] l = "containers"      -> 3
             [] l = "data_namespaces" -> 3

\* A guard is asked for only above those held.
Ordered(s) ==
    \A i \in 1 .. Len(s) : s[i] # Drop =>
        \A j \in 1 .. (i - 1) :
            (\A k \in j .. (i - 1) : s[k] # Drop) => Rank(s[j].lock) < Rank(s[i].lock)

Orderly(s) == s \in Seq(Steps) /\ Len(s) > 0 /\ s[Len(s)] = Drop /\ Ordered(s)

LEMMA StepFacts ==
    /\ \A l : Rd(l) # Drop /\ Wr(l) # Drop /\ Rd(l).lock = l /\ Wr(l).lock = l
    /\ \A l \in LockNames : Rd(l) \in Steps /\ Wr(l) \in Steps /\ Rank(l) \in 1 .. 3
    /\ Drop \in Steps
    /\ \A s \in Steps : s # Drop => s.lock \in LockNames
    /\ Rank("identity") = 1 /\ Rank("bmh") = 2
    /\ Rank("containers") = 3 /\ Rank("data_namespaces") = 3
  BY DEF Rd, Wr, Drop, Steps, LockNames, Rank

\* Scripts that end with a drop can be run one after the other.
LEMMA Concat ==
    ASSUME NEW s, NEW t, Orderly(s), Orderly(t)
    PROVE  Orderly(s \o t)
  <1> DEFINE c == s \o t
  <1>1. /\ s \in Seq(Steps) /\ t \in Seq(Steps) /\ c \in Seq(Steps)
        /\ Len(s) \in Nat /\ Len(t) \in Nat /\ Len(c) = Len(s) + Len(t) /\ Len(t) > 0
        /\ \A i \in 1 .. Len(s) : c[i] = s[i]
        /\ \A i \in 1 .. Len(t) : c[i + Len(s)] = t[i]
    BY DEF Orderly
  <1>2. c[Len(c)] = Drop /\ c[Len(s)] = Drop /\ Len(s) > 0
    BY <1>1 DEF Orderly
  <1>3. ASSUME NEW i \in 1 .. Len(c), c[i] # Drop, NEW j \in 1 .. (i - 1),
               \A k \in j .. (i - 1) : c[k] # Drop
        PROVE  Rank(c[j].lock) < Rank(c[i].lock)
    <2> HIDE DEF c
    <2>1. CASE i <= Len(s)
      <3>1. \A k \in 1 .. i : c[k] = s[k]
        BY <1>1, <2>1
      <3>2. s[i] # Drop /\ \A k \in j .. (i - 1) : s[k] # Drop
        BY <1>1, <1>3, <2>1, <3>1
      <3>3. Ordered(s) /\ i \in 1 .. Len(s)
        BY <1>1, <2>1 DEF Orderly
      <3>4. Rank(s[j].lock) < Rank(s[i].lock)
        BY <3>2, <3>3 DEF Ordered
      <3>5. QED
        BY <3>1, <3>4
    <2>2. CASE i > Len(s)
      <3>1. j > Len(s)
        <4>1. j <= Len(s) => Len(s) \in j .. (i - 1)
          BY <1>1, <2>2
        <4>2. QED
          BY <1>1, <1>2, <1>3, <4>1
      <3> DEFINE a == i - Len(s)
                 b == j - Len(s)
      <3>2. a \in 1 .. Len(t) /\ b \in 1 .. (a - 1)
        BY <1>1, <2>2, <3>1
      <3>3. c[i] = t[a] /\ c[j] = t[b]
        <4>1. a + Len(s) = i /\ b + Len(s) = j /\ b \in 1 .. Len(t)
          BY <1>1, <3>2
        <4>2. QED
          BY <1>1, <3>2, <4>1
      <3>4. ASSUME NEW k \in b .. (a - 1) PROVE t[k] # Drop
        <4>1. k + Len(s) \in j .. (i - 1) /\ k \in 1 .. Len(t)
          BY <1>1, <3>2
        <4>2. QED
          BY <1>1, <1>3, <4>1
      <3>5. Ordered(t)
        BY DEF Orderly
      <3>6. Rank(t[b].lock) < Rank(t[a].lock)
        <4> HIDE DEF a, b
        <4> QED
          BY <1>3, <3>2, <3>3, <3>4, <3>5 DEF Ordered
      <3>7. QED
        BY <3>3, <3>6
    <2>3. QED
      BY <1>1, <2>1, <2>2
  <1>4. Ordered(c)
    <2> HIDE DEF c
    <2> QED
      BY <1>3 DEF Ordered
  <1>5. QED
    BY <1>1, <1>2, <1>4 DEF Orderly

\* Two steps, the second of which drops the guard.
LEMMA Single ==
    ASSUME NEW a \in Steps PROVE Orderly(<<a, Drop>>)
  BY StepFacts DEF Orderly, Ordered

\* Guards taken above one another, then dropped.
LEMMA Double ==
    ASSUME NEW a \in Steps, NEW b \in Steps, a # Drop, b # Drop, Rank(a.lock) < Rank(b.lock)
    PROVE  Orderly(<<a, b, Drop>>)
  <1> DEFINE s == <<a, b, Drop>>
  <1>1. s \in Seq(Steps) /\ Len(s) = 3 /\ s[1] = a /\ s[2] = b /\ s[3] = Drop
    BY StepFacts
  <1> HIDE DEF s
  <1>2. Ordered(s)
    BY <1>1 DEF Ordered
  <1>3. QED
    BY <1>1, <1>2 DEF Orderly, s

LEMMA Triple ==
    ASSUME NEW a \in Steps, NEW b \in Steps, NEW c \in Steps, a # Drop, b # Drop, c # Drop,
           Rank(a.lock) < Rank(b.lock), Rank(b.lock) < Rank(c.lock),
           Rank(a.lock) \in Nat, Rank(b.lock) \in Nat, Rank(c.lock) \in Nat
    PROVE  Orderly(<<a, b, c, Drop>>)
  <1> DEFINE s == <<a, b, c, Drop>>
  <1>1. s \in Seq(Steps) /\ Len(s) = 4 /\ s[1] = a /\ s[2] = b /\ s[3] = c /\ s[4] = Drop
    BY StepFacts
  <1> HIDE DEF s
  <1>2. Ordered(s)
    BY <1>1 DEF Ordered
  <1>3. QED
    BY <1>1, <1>2 DEF Orderly, s

LEMMA RebuildOrderly == Orderly(RebuildCache)
  <1>1. /\ Rd("identity") \in Steps /\ Rd("bmh") \in Steps /\ Rd("containers") \in Steps
        /\ Rd("identity") # Drop /\ Rd("bmh") # Drop /\ Rd("containers") # Drop
        /\ Rank(Rd("identity").lock) = 1 /\ Rank(Rd("bmh").lock) = 2
        /\ Rank(Rd("containers").lock) = 3
    BY StepFacts DEF LockNames
  <1>2. QED
    BY <1>1, Triple DEF RebuildCache

LEMMA LoadsOrderly == Orderly(LoadLeases) /\ Orderly(LoadAllBmh)
  <1>1. /\ Wr("bmh") \in Steps /\ Wr("data_namespaces") \in Steps
        /\ Wr("bmh") # Drop /\ Wr("data_namespaces") # Drop
        /\ Rank(Wr("bmh").lock) = 2 /\ Rank(Wr("data_namespaces").lock) = 3
    BY StepFacts DEF LockNames
  <1>2. QED
    BY <1>1, Single, Double DEF LoadLeases, LoadAllBmh

LEMMA AmoOrderly == \A s \in AmoScripts : Orderly(s)
  <1>1. Orderly(<<Wr("identity"), Drop>>)
    BY Single, StepFacts DEF LockNames
  <1>2. QED
    BY <1>1, RebuildOrderly, Concat DEF AmoScripts

LEMMA BmhOrderly == \A s \in BmhScripts : Orderly(s)
  <1>1. Orderly(LoadAllBmh \o LoadLeases)
    BY LoadsOrderly, Concat
  <1>2. Orderly((LoadAllBmh \o LoadLeases) \o RebuildCache)
    BY <1>1, RebuildOrderly, Concat
  <1>3. Orderly(<<Rd("data_namespaces"), Drop>>)
    BY Single, StepFacts DEF LockNames
  <1>4. Orderly(((LoadAllBmh \o LoadLeases) \o RebuildCache) \o <<Rd("data_namespaces"), Drop>>)
    BY <1>2, <1>3, Concat
  <1>5. Orderly(LoadLeases \o RebuildCache)
    BY LoadsOrderly, RebuildOrderly, Concat
  <1>6. QED
    BY <1>2, <1>4, <1>5 DEF BmhScripts

LEMMA ContainerOrderly == \A s \in ContainerScripts : Orderly(s)
  <1>1. Orderly(<<Wr("containers"), Drop>>)
    BY Single, StepFacts DEF LockNames
  <1>2. Orderly(<<Wr("containers"), Drop>> \o RebuildCache)
    BY <1>1, RebuildOrderly, Concat
  <1>3. QED
    BY <1>2, RebuildOrderly DEF ContainerScripts

LEMMA ProvisionOrderly == \A s \in ProvisionScripts : Orderly(s)
  <1> DEFINE i == Rd("identity")
             b == Rd("bmh")
             c == Rd("containers")
  <1>1. /\ i \in Steps /\ b \in Steps /\ c \in Steps /\ Drop \in Steps
        /\ i # Drop /\ b # Drop /\ c # Drop
        /\ Rank(i.lock) = 1 /\ Rank(b.lock) = 2 /\ Rank(c.lock) = 3
    BY StepFacts DEF LockNames
  <1> HIDE DEF i, b, c
  <1>2. Orderly(<<b, Drop>>)
    BY <1>1, Single
  <1>3. Orderly(<<i, b, Drop>>)
    BY <1>1, Double
  <1>4. Orderly(<<i, b, c, Drop>>)
    BY <1>1, Triple
  <1>5. Orderly(<<i, b, Drop>> \o <<b, Drop>>)
    BY <1>2, <1>3, Concat
  <1>6. <<i, b, Drop>> \o <<b, Drop>> = <<i, b, Drop, b, Drop>>
    <2> DEFINE s == <<i, b, Drop>>
               t == <<b, Drop>>
               u == <<i, b, Drop, b, Drop>>
    <2>1. /\ s \in Seq(Steps) /\ t \in Seq(Steps) /\ u \in Seq(Steps)
          /\ Len(s) = 3 /\ Len(t) = 2 /\ Len(u) = 5
          /\ s[1] = u[1] /\ s[2] = u[2] /\ s[3] = u[3] /\ t[1] = u[4] /\ t[2] = u[5]
      BY <1>1
    <2> HIDE DEF s, t, u
    <2>2. /\ s \o t \in Seq(Steps) /\ Len(s \o t) = Len(s) + Len(t)
          /\ \A k \in 1 .. Len(s) : (s \o t)[k] = s[k]
          /\ \A k \in 1 .. Len(t) : (s \o t)[Len(s) + k] = t[k]
      <3>1. s \in Seq(Steps) /\ t \in Seq(Steps)
        BY <2>1
      <3>2. QED
        BY <3>1, ConcatFacts
    <2>3. (s \o t)[3 + 1] = t[1] /\ (s \o t)[3 + 2] = t[2]
      BY <2>1, <2>2
    <2>4. Len(s \o t) = Len(u) /\ \A k \in 1 .. Len(u) : (s \o t)[k] = u[k]
      BY <2>1, <2>2, <2>3
    <2>5. s \o t = u
      BY <2>1, <2>2, <2>4, SeqEqual
    <2>6. QED
      BY <2>5 DEF s, t, u
  <1>7. Orderly(<<i, b, c, Drop>> \o <<b, Drop>>)
    BY <1>2, <1>4, Concat
  <1>8. <<i, b, c, Drop>> \o <<b, Drop>> = <<i, b, c, Drop, b, Drop>>
    <2> DEFINE s == <<i, b, c, Drop>>
               t == <<b, Drop>>
               u == <<i, b, c, Drop, b, Drop>>
    <2>1. /\ s \in Seq(Steps) /\ t \in Seq(Steps) /\ u \in Seq(Steps)
          /\ Len(s) = 4 /\ Len(t) = 2 /\ Len(u) = 6
          /\ s[1] = u[1] /\ s[2] = u[2] /\ s[3] = u[3] /\ s[4] = u[4]
          /\ t[1] = u[5] /\ t[2] = u[6]
      BY <1>1
    <2> HIDE DEF s, t, u
    <2>2. /\ s \o t \in Seq(Steps) /\ Len(s \o t) = Len(s) + Len(t)
          /\ \A k \in 1 .. Len(s) : (s \o t)[k] = s[k]
          /\ \A k \in 1 .. Len(t) : (s \o t)[Len(s) + k] = t[k]
      <3>1. s \in Seq(Steps) /\ t \in Seq(Steps)
        BY <2>1
      <3>2. QED
        BY <3>1, ConcatFacts
    <2>3. (s \o t)[4 + 1] = t[1] /\ (s \o t)[4 + 2] = t[2]
      BY <2>1, <2>2
    <2>4. Len(s \o t) = Len(u) /\ \A k \in 1 .. Len(u) : (s \o t)[k] = u[k]
      BY <2>1, <2>2, <2>3
    <2>5. s \o t = u
      BY <2>1, <2>2, <2>4, SeqEqual
    <2>6. QED
      BY <2>5 DEF s, t, u
  <1>9. ProvisionScripts = {<<b, Drop>>, <<i, b, Drop, b, Drop>>, <<i, b, c, Drop, b, Drop>>}
    BY DEF ProvisionScripts, i, b, c
  <1>10. QED
    BY <1>2, <1>5, <1>6, <1>7, <1>8, <1>9

LEMMA RoleOrderly ==
    ASSUME NEW role \in Roles \ {"debug"}, NEW s \in ScriptsOf(role)
    PROVE  Orderly(s)
  <1>1. CASE role = "amo"
    BY <1>1, AmoOrderly DEF ScriptsOf
  <1>2. CASE role = "bmh"
    BY <1>2, BmhOrderly DEF ScriptsOf
  <1>3. CASE role = "container"
    BY <1>3, ContainerOrderly DEF ScriptsOf
  <1>4. CASE role = "provision"
    BY <1>4, ProvisionOrderly DEF ScriptsOf
  <1>5. QED
    BY <1>1, <1>2, <1>3, <1>4 DEF Roles

LEMMA ScriptType ==
    ASSUME NEW role \in Roles, NEW s \in ScriptsOf(role)
    PROVE  s \in Seq(Steps) /\ Len(s) > 0
  <1>1. CASE role = "debug"
    <2>1. /\ Rd("containers") \in Steps /\ Rd("bmh") \in Steps /\ Rd("identity") \in Steps
          /\ Drop \in Steps
      BY StepFacts DEF LockNames
    <2>2. s = <<Rd("containers"), Rd("bmh"), Rd("identity"), Drop>>
      BY <1>1 DEF ScriptsOf, DebugScripts
    <2>3. QED
      BY <2>1, <2>2
  <1>2. CASE role # "debug"
    BY <1>2, RoleOrderly DEF Orderly
  <1>3. QED
    BY <1>1, <1>2

----------------------------------------------------------------------------
(* Queues.                                                                 *)

\* What RemoveFirst leaves: the others, in their order.
LEMMA RemoveFacts ==
    ASSUME NEW S, NEW q \in Seq(S), NEW e,
           \A i, j \in 1 .. Len(q) : q[i] = q[j] => i = j
    PROVE  LET r == RemoveFirst(q, e)
           IN  /\ r \in Seq(S)
               /\ \A i \in 1 .. Len(r) : r[i] # e /\ \E j \in 1 .. Len(q) : r[i] = q[j]
               /\ \A i, j \in 1 .. Len(r) : r[i] = r[j] => i = j
  <1>1. CASE ~ \E i \in 1 .. Len(q) : q[i] = e
    BY <1>1 DEF RemoveFirst
  <1>2. CASE \E i \in 1 .. Len(q) : q[i] = e
    <2> DEFINE T == {i \in 1 .. Len(q) : q[i] = e}
               n == Min(T)
               r == SubSeq(q, 1, n - 1) \o SubSeq(q, n + 1, Len(q))
    <2>1. T # {} /\ T \in SUBSET Nat
      BY <1>2
    <2>2. n \in T
      BY <2>1, Least DEF Min
    <2>3. RemoveFirst(q, e) = r
      <3>1. SelectInSeq(q, LAMBDA v : v = e) = n
        BY <2>1 DEF SelectInSeq
      <3>2. QED
        BY <1>2, <3>1 DEF RemoveFirst, RemoveAt
    <2>4. n \in 1 .. Len(q) /\ q[n] = e
      BY <2>2
    <2> HIDE DEF n
    <2>5. /\ r \in Seq(S) /\ Len(r) = Len(q) - 1
          /\ \A i \in 1 .. Len(r) : r[i] = IF i < n THEN q[i] ELSE q[i + 1]
      <3> DEFINE a == SubSeq(q, 1, n - 1)
                 b == SubSeq(q, n + 1, Len(q))
      <3>1. /\ a \in Seq(S) /\ Len(a) = n - 1 /\ \A i \in 1 .. (n - 1) : a[i] = q[i]
            /\ b \in Seq(S) /\ Len(b) = Len(q) - n
            /\ \A i \in 1 .. (Len(q) - n) : b[i] = q[i + n]
        BY <2>4
      <3> HIDE DEF a, b
      <3>2. /\ a \o b \in Seq(S) /\ Len(a \o b) = Len(q) - 1
            /\ Len(q) \in Nat /\ n \in Nat
            /\ \A i \in 1 .. (n - 1) : (a \o b)[i] = a[i]
            /\ \A i \in 1 .. (Len(q) - n) : (a \o b)[(n - 1) + i] = b[i]
        <4>1. n - 1 \in Nat /\ Len(q) - n \in Nat /\ n \in Nat /\ Len(q) \in Nat
          BY <2>4
        <4>2. /\ a \o b \in Seq(S) /\ Len(a \o b) = Len(a) + Len(b)
              /\ \A i \in 1 .. Len(a) : (a \o b)[i] = a[i]
              /\ \A i \in 1 .. Len(b) : (a \o b)[Len(a) + i] = b[i]
          <5>1. a \in Seq(S) /\ b \in Seq(S)
            BY <3>1
          <5>2. QED
            BY <5>1, ConcatFacts
        <4>3. QED
          BY <3>1, <4>1, <4>2
      <3>3. ASSUME NEW i \in 1 .. (Len(q) - 1)
            PROVE  (a \o b)[i] = IF i < n THEN q[i] ELSE q[i + 1]
        <4>1. CASE i < n
          BY <3>1, <3>2, <4>1
        <4>2. CASE i >= n
          <5> DEFINE k == i - (n - 1)
          <5>1. k \in 1 .. (Len(q) - n) /\ (n - 1) + k = i /\ k + n = i + 1
            BY <3>2, <4>2
          <5>2. (a \o b)[i] = b[k] /\ b[k] = q[i + 1]
            <6> HIDE DEF k
            <6> QED
              BY <3>1, <3>2, <5>1
          <5>3. ~ (i < n)
            BY <3>2, <4>2
          <5>4. QED
            BY <5>2, <5>3
        <4>3. QED
          BY <3>2, <4>1, <4>2
      <3>4. QED
        BY <3>2, <3>3 DEF a, b
    <2> HIDE DEF r
    <2>6. ASSUME NEW i \in 1 .. Len(r)
          PROVE  r[i] # e /\ \E j \in 1 .. Len(q) : j # n /\ r[i] = q[j]
                                                   /\ j = IF i < n THEN i ELSE i + 1
      BY <2>4, <2>5
    <2>7. ASSUME NEW i \in 1 .. Len(r), NEW j \in 1 .. Len(r), r[i] = r[j] PROVE i = j
      BY <2>4, <2>6, <2>7
    <2>8. QED
      BY <2>3, <2>5, <2>6, <2>7
  <1>3. QED
    BY <1>1, <1>2
----------------------------------------------------------------------------
(* The inductive invariant: whoever is in a queue is there once, and is    *)
(* asking for that lock.                                                   *)

TaskInv(t) ==
    /\ script[t] \in ScriptsOf(Role[t]) \cup {<<>>}
    /\ at[t] \in 1 .. (Len(script[t]) + 1)

Tasked ==
    /\ script = [t \in Tasks |-> script[t]] /\ at = [t \in Tasks |-> at[t]]
    /\ \A t \in Tasks : TaskInv(t)

Distinct(q) == \A i, j \in 1 .. Len(q) : q[i] = q[j] => i = j

Asks(t, l) == ~AtEnd(t) /\ Step(t) # Drop /\ Step(t).lock = l

QueueInv(l) ==
    /\ queue[l] \in Seq(Tasks)
    /\ Distinct(queue[l])
    /\ \A i \in 1 .. Len(queue[l]) : Asks(queue[l][i], l)

Queued == queue = [l \in LockNames |-> queue[l]] /\ \A l \in LockNames : QueueInv(l)

IInv == Tasked /\ Queued

----------------------------------------------------------------------------
(* It holds.                                                               *)

LEMMA InitInv == Init => IInv
  <1> SUFFICES ASSUME Init PROVE IInv
    OBVIOUS
  <1>1. Tasked
    <2>1. <<>> \in Seq(Steps) /\ Len(<<>>) = 0
      OBVIOUS
    <2>2. QED
      BY <2>1 DEF Init, Tasked, TaskInv
  <1>2. Queued
    BY DEF Init, Queued, QueueInv, Distinct
  <1>3. QED
    BY <1>1, <1>2 DEF IInv

LEMMA TaskFacts ==
    ASSUME Tasked, NEW t \in Tasks
    PROVE  /\ script[t] \in Seq(Steps) /\ Len(script[t]) \in Nat /\ at[t] \in Nat
           /\ script[t] = <<>> => AtEnd(t)
           /\ AtEnd(t) => at[t] = Len(script[t]) + 1
           /\ ~AtEnd(t) => at[t] \in 1 .. Len(script[t]) /\ Step(t) \in Steps
           /\ ~AtEnd(t) /\ Step(t) # Drop => Step(t).lock \in LockNames
  <1>1. script[t] \in Seq(Steps)
    <2>1. Role[t] \in Roles
      BY RoleAssumption
    <2>2. <<>> \in Seq(Steps)
      OBVIOUS
    <2>3. script[t] \in ScriptsOf(Role[t]) \/ script[t] = <<>>
      BY DEF Tasked, TaskInv
    <2>4. QED
      BY <2>1, <2>2, <2>3, ScriptType
  <1>2. Len(script[t]) \in Nat /\ at[t] \in 1 .. (Len(script[t]) + 1)
    BY <1>1 DEF Tasked, TaskInv
  <1>3. ~AtEnd(t) => at[t] \in 1 .. Len(script[t]) /\ Step(t) \in Steps
    BY <1>1, <1>2 DEF AtEnd, Step
  <1>4. script[t] = <<>> => AtEnd(t)
    BY <1>2 DEF AtEnd
  <1>5. AtEnd(t) => at[t] = Len(script[t]) + 1
    BY <1>2 DEF AtEnd
  <1>6. QED
    BY <1>1, <1>2, <1>3, <1>4, <1>5, StepFacts

\* One task goes on within its script.
LEMMA Advances ==
    ASSUME Tasked, NEW t \in Tasks, ~AtEnd(t),
           at' = [at EXCEPT ![t] = @ + 1], UNCHANGED script
    PROVE  Tasked'
  <1>1. at[t] + 1 \in 1 .. (Len(script[t]) + 1)
    BY TaskFacts
  <1>2. QED
    BY <1>1 DEF Tasked, TaskInv

\* A task that asks for nothing is in no queue.
LEMMA NotQueued ==
    ASSUME IInv, NEW t \in Tasks, NEW l \in LockNames, NEW i \in 1 .. Len(queue[l]),
           queue[l][i] = t
    PROVE  Asks(t, l) /\ Waiting(t)
  <1>1. Asks(t, l)
    BY DEF IInv, Queued, QueueInv
  <1>2. QED
    BY <1>1 DEF Asks, Waiting, Contains

\* One task moves, and is in no queue afterwards; the others stay as they are.
LEMMA OthersAsk ==
    ASSUME IInv, NEW t \in Tasks,
           \A u \in Tasks \ {t} : script'[u] = script[u] /\ at'[u] = at[u],
           queue' = [l \in LockNames |-> queue'[l]],
           \A l \in LockNames :
              /\ queue'[l] \in Seq(Tasks) /\ Distinct(queue'[l])
              /\ \A i \in 1 .. Len(queue'[l]) :
                    /\ queue'[l][i] # t
                    /\ \E j \in 1 .. Len(queue[l]) : queue'[l][i] = queue[l][j]
    PROVE  Queued'
  <1>1. ASSUME NEW l \in LockNames, NEW i \in 1 .. Len(queue'[l])
        PROVE  Asks(queue[l][i], l)'
    <2>1. PICK u \in Tasks \ {t} : u = queue'[l][i] /\ Asks(u, l)
      BY DEF IInv, Queued, QueueInv
    <2>2. Asks(u, l)'
      BY <2>1 DEF Asks, AtEnd, Step
    <2>3. QED
      BY <2>1, <2>2 DEF Asks, AtEnd, Step
  <1>2. \A l \in LockNames : QueueInv(l)'
    BY <1>1 DEF QueueInv
  <1>3. QED
    BY <1>2 DEF Queued

\* The same when no queue changes.
LEMMA QueuesStay ==
    ASSUME IInv, NEW t \in Tasks,
           \A u \in Tasks \ {t} : script'[u] = script[u] /\ at'[u] = at[u],
           UNCHANGED queue,
           \A l \in LockNames : \A i \in 1 .. Len(queue[l]) : queue[l][i] # t
    PROVE  Queued'
  <1>1. /\ queue' = [l \in LockNames |-> queue'[l]]
        /\ \A l \in LockNames :
              /\ queue'[l] \in Seq(Tasks) /\ Distinct(queue'[l])
              /\ \A i \in 1 .. Len(queue'[l]) :
                    /\ queue'[l][i] # t
                    /\ \E j \in 1 .. Len(queue[l]) : queue'[l][i] = queue[l][j]
    BY DEF IInv, Queued, QueueInv
  <1>2. QED
    BY <1>1, OthersAsk

LEMMA StartInv ==
    ASSUME IInv, NEW t \in Tasks, Start(t)
    PROVE  IInv'
  <1>1. PICK s \in ScriptsOf(Role[t]) : script' = [script EXCEPT ![t] = s]
    BY DEF Start
  <1>2. Tasked'
    <2>1. s \in Seq(Steps)
      BY ScriptType, RoleAssumption
    <2>2. at[t] = 1
      BY DEF Start, IInv, Tasked, TaskInv
    <2>3. 1 \in 1 .. (Len(s) + 1)
      BY <2>1
    <2>4. QED
      BY <1>1, <2>2, <2>3 DEF Start, IInv, Tasked, TaskInv
  <1>3. ~Waiting(t)
    BY TaskFacts DEF Start, IInv, Waiting
  <1>4. Queued'
    <2>1. \A l \in LockNames : \A i \in 1 .. Len(queue[l]) : queue[l][i] # t
      BY <1>3, NotQueued
    <2>2. \A u \in Tasks \ {t} : script'[u] = script[u] /\ at'[u] = at[u]
      BY <1>1 DEF Start, IInv, Tasked
    <2>3. QED
      BY <2>1, <2>2, QueuesStay DEF Start
  <1>5. QED
    BY <1>2, <1>4 DEF IInv

LEMMA LockInv ==
    ASSUME IInv, NEW t \in Tasks, Lock(t)
    PROVE  IInv'
  <1>1. \A l \in LockNames : \A i \in 1 .. Len(queue[l]) : queue[l][i] # t
    BY NotQueued DEF Lock
  <1>2. CASE UNCHANGED queue
    <2>1. at' = [at EXCEPT ![t] = @ + 1] \/ at' = at
      BY DEF Lock
    <2>2. Tasked'
      BY <2>1, Advances DEF Lock, IInv, Tasked, TaskInv
    <2>3. Queued'
      <3>1. \A u \in Tasks \ {t} : script'[u] = script[u] /\ at'[u] = at[u]
        BY <2>1 DEF Lock, IInv, Tasked
      <3>2. QED
        BY <1>1, <1>2, <3>1, QueuesStay
    <2>4. QED
      BY <2>2, <2>3 DEF IInv
  <1>3. CASE queue' = [queue EXCEPT ![Step(t).lock] = Append(@, t)] /\ UNCHANGED at
    <2> DEFINE l == Step(t).lock
               q == queue[l]
               r == Append(q, t)
    <2>1. l \in LockNames /\ Asks(t, l)
      BY TaskFacts DEF Lock, IInv, Asks
    <2>2. q \in Seq(Tasks) /\ Distinct(q)
      BY <2>1 DEF IInv, Queued, QueueInv
    <2>3. /\ r \in Seq(Tasks) /\ Len(r) = Len(q) + 1 /\ Len(q) \in Nat
          /\ \A i \in 1 .. Len(q) : r[i] = q[i]
          /\ r[Len(q) + 1] = t
      <3> HIDE DEF q
      <3> QED
        BY <2>2
    <2>4. Distinct(r)
      <3>1. \A i \in 1 .. Len(q) : q[i] # t
        BY <1>1, <2>1
      <3> HIDE DEF r, q
      <3>2. QED
        BY <2>2, <2>3, <3>1 DEF Distinct
    <2>5. \A i \in 1 .. Len(r) : Asks(r[i], l)
      <3>1. \A i \in 1 .. Len(q) : Asks(q[i], l)
        BY <2>1 DEF IInv, Queued, QueueInv
      <3> HIDE DEF r, q, l
      <3>2. QED
        BY <2>1, <2>3, <3>1
    <2>6. queue' = [queue EXCEPT ![l] = r] /\ script' = script /\ at' = at
      BY <1>3 DEF Lock
    <2> HIDE DEF r, q, l
    <2>7. queue'[l] = r /\ \A m \in LockNames \ {l} : queue'[m] = queue[m]
      BY <2>1, <2>6 DEF IInv, Queued
    <2>8. ASSUME NEW m \in LockNames PROVE QueueInv(m)'
      <3>1. queue'[m] \in Seq(Tasks) /\ Distinct(queue'[m])
        BY <2>3, <2>4, <2>7 DEF IInv, Queued, QueueInv
      <3>2. \A i \in 1 .. Len(queue'[m]) : Asks(queue'[m][i], m)
        BY <2>5, <2>7 DEF IInv, Queued, QueueInv
      <3>3. QED
        BY <2>6, <3>1, <3>2 DEF QueueInv, Asks, AtEnd, Step
    <2>9. Queued'
      BY <2>6, <2>8 DEF IInv, Queued
    <2>10. Tasked'
      BY <2>6 DEF IInv, Tasked, TaskInv
    <2>11. QED
      BY <2>9, <2>10 DEF IInv
  <1>4. QED
    BY <1>2, <1>3 DEF Lock

LEMMA GrantInv ==
    ASSUME IInv, NEW t \in Tasks, Grant(t)
    PROVE  IInv'
  <1> DEFINE l == Step(t).lock
             q == queue[l]
  <1>1. ~AtEnd(t) /\ Step(t) # Drop /\ l \in LockNames
    BY TaskFacts DEF Grant, Waiting, IInv
  <1>2. q \in Seq(Tasks) /\ Distinct(q) /\ Len(q) > 0 /\ q[1] = t
    <2>1. q \in Seq(Tasks) /\ Distinct(q)
      BY <1>1 DEF IInv, Queued, QueueInv
    <2>2. \E i \in 1 .. Len(q) : q[i] = t
      BY DEF Grant, Waiting, Contains
    <2>3. Head(q) = t
      BY DEF Grant
    <2> HIDE DEF q
    <2>4. QED
      BY <2>1, <2>2, <2>3
  <1>3. /\ Tail(q) \in Seq(Tasks) /\ Distinct(Tail(q))
        /\ \A i \in 1 .. Len(Tail(q)) :
              Tail(q)[i] # t /\ \E j \in 1 .. Len(q) : Tail(q)[i] = q[j]
    <2> HIDE DEF q
    <2>1. /\ Tail(q) \in Seq(Tasks) /\ Len(Tail(q)) = Len(q) - 1 /\ Len(q) \in Nat
          /\ \A i \in 1 .. (Len(q) - 1) : Tail(q)[i] = q[i + 1]
      BY <1>2
    <2>2. QED
      BY <1>2, <2>1 DEF Distinct
  <1>4. queue' = [queue EXCEPT ![l] = Tail(q)]
        /\ at' = [at EXCEPT ![t] = @ + 1] /\ UNCHANGED script
    BY DEF Grant
  <1>5. Tasked'
    BY <1>1, <1>4, Advances DEF IInv
  <1>6. ASSUME NEW m \in LockNames, m # l
        PROVE  \A i \in 1 .. Len(queue[m]) : queue[m][i] # t
    BY <1>6, NotQueued DEF Asks
  <1> HIDE DEF l, q
  <1>7. ASSUME NEW m \in LockNames
        PROVE  /\ queue'[m] \in Seq(Tasks) /\ Distinct(queue'[m])
               /\ \A i \in 1 .. Len(queue'[m]) :
                     /\ queue'[m][i] # t
                     /\ \E j \in 1 .. Len(queue[m]) : queue'[m][i] = queue[m][j]
    <2>1. CASE m = l
      <3>1. queue'[m] = Tail(q) /\ queue[m] = q
        BY <1>4, <2>1 DEF IInv, Queued, q
      <3>2. QED
        BY <1>3, <3>1
    <2>2. CASE m # l
      <3>1. queue'[m] = queue[m]
        BY <1>4, <2>2 DEF IInv, Queued
      <3>2. QED
        BY <1>6, <2>2, <3>1 DEF IInv, Queued, QueueInv
    <2>3. QED
      BY <2>1, <2>2
  <1>8. Queued'
    <2>1. queue' = [m \in LockNames |-> queue'[m]]
      BY <1>4 DEF IInv, Queued
    <2>2. \A u \in Tasks \ {t} : script'[u] = script[u] /\ at'[u] = at[u]
      BY <1>4 DEF IInv, Tasked
    <2>3. QED
      BY <1>7, <2>1, <2>2, OthersAsk
  <1>9. QED
    BY <1>5, <1>8 DEF IInv

LEMMA ReleaseInv ==
    ASSUME IInv, NEW t \in Tasks, Release(t)
    PROVE  IInv'
  <1>1. Tasked'
    BY Advances DEF Release, IInv
  <1>2. \A l \in LockNames : \A i \in 1 .. Len(queue[l]) : queue[l][i] # t
    BY NotQueued DEF Release, Asks
  <1>3. Queued'
    <2>1. \A u \in Tasks \ {t} : script'[u] = script[u] /\ at'[u] = at[u]
      BY DEF Release, IInv, Tasked
    <2>2. QED
      BY <1>2, <2>1, QueuesStay DEF Release
  <1>4. QED
    BY <1>1, <1>3 DEF IInv

\* A task is back at the start, and in no queue.
LEMMA Restarts ==
    ASSUME IInv, NEW t \in Tasks,
           script' = [script EXCEPT ![t] = <<>>], at' = [at EXCEPT ![t] = 1]
    PROVE  /\ Tasked'
           /\ \A u \in Tasks \ {t} : script'[u] = script[u] /\ at'[u] = at[u]
  <1>1. <<>> \in Seq(Steps) /\ Len(<<>>) = 0 /\ 1 \in 1 .. (0 + 1)
    OBVIOUS
  <1>2. script'[t] = <<>> /\ at'[t] = 1
    BY DEF IInv, Tasked
  <1>3. \A u \in Tasks \ {t} : script'[u] = script[u] /\ at'[u] = at[u]
    BY DEF IInv, Tasked
  <1>4. TaskInv(t)'
    BY <1>1, <1>2 DEF TaskInv
  <1>5. \A u \in Tasks \ {t} : TaskInv(u)'
    BY <1>3 DEF IInv, Tasked, TaskInv
  <1>6. QED
    BY <1>3, <1>4, <1>5 DEF IInv, Tasked

LEMMA EndInv ==
    ASSUME IInv, NEW t \in Tasks, End(t)
    PROVE  IInv'
  <1>1. \A l \in LockNames : \A i \in 1 .. Len(queue[l]) : queue[l][i] # t
    BY NotQueued DEF End, Asks
  <1>2. Queued'
    BY <1>1, Restarts, QueuesStay DEF End
  <1>3. QED
    BY <1>2, Restarts DEF End, IInv

LEMMA DropFutureInv ==
    ASSUME IInv, NEW t \in Tasks, DropFuture(t)
    PROVE  IInv'
  <1>1. ASSUME NEW l \in LockNames
        PROVE  /\ queue'[l] \in Seq(Tasks) /\ Distinct(queue'[l])
               /\ \A i \in 1 .. Len(queue'[l]) :
                     /\ queue'[l][i] # t
                     /\ \E j \in 1 .. Len(queue[l]) : queue'[l][i] = queue[l][j]
    <2>1. queue'[l] = RemoveFirst(queue[l], t)
      BY DEF DropFuture
    <2>2. queue[l] \in Seq(Tasks) /\ Distinct(queue[l])
      BY DEF IInv, Queued, QueueInv
    <2>3. QED
      BY <2>1, <2>2, RemoveFacts DEF Distinct
  <1>2. queue' = [l \in LockNames |-> queue'[l]]
    BY DEF DropFuture
  <1>3. Queued'
    BY <1>1, <1>2, Restarts, OthersAsk DEF DropFuture
  <1>4. QED
    BY <1>3, Restarts DEF DropFuture, IInv

LEMMA NextInv == IInv /\ [Next]_vars => IInv'
  <1> SUFFICES ASSUME IInv, [Next]_vars PROVE IInv'
    OBVIOUS
  <1>1. CASE UNCHANGED vars
    <2>1. script' = script /\ at' = at /\ queue' = queue
      BY <1>1 DEF vars
    <2>2. Tasked'
      BY <2>1 DEF IInv, Tasked, TaskInv
    <2>3. \A l \in LockNames : QueueInv(l)'
      BY <2>1 DEF IInv, Queued, QueueInv, Asks, AtEnd, Step
    <2>4. QED
      BY <2>1, <2>2, <2>3 DEF IInv, Queued
  <1>2. ASSUME NEW t \in Tasks,
               Start(t) \/ Lock(t) \/ Grant(t) \/ Release(t) \/ End(t) \/ DropFuture(t)
        PROVE  IInv'
    BY <1>2, StartInv, LockInv, GrantInv, ReleaseInv, EndInv, DropFutureInv
  <1>3. QED
    BY <1>1, <1>2 DEF Next

LEMMA Invariance == Spec => []IInv
  BY InitInv, NextInv, PTL DEF Spec

\* Every task is at a step of a script of its role, and tasks are what queues
\* hold, wherever futures are dropped.
THEOREM TypeCorrect == Spec => []TypeOK
  <1>1. IInv => TypeOK
    BY DEF IInv, Tasked, TaskInv, Queued, QueueInv, TypeOK
  <1>2. QED
    BY Invariance, <1>1, PTL

----------------------------------------------------------------------------
(* No circular wait.                                                       *)

\* A task that asks for a lock holds only locks below it.
LEMMA HeldBelow ==
    ASSUME IInv, NEW t \in Tasks, Role[t] # "debug", Waiting(t), NEW g \in Held(t)
    PROVE  Rank(g.lock) < Rank(Step(t).lock)
  <1>1. at[t] \in 1 .. Len(script[t]) /\ Step(t) # Drop /\ ~AtEnd(t)
    BY TaskFacts DEF IInv, Waiting
  <1>2. script[t] \in ScriptsOf(Role[t])
    <2>1. script[t] # <<>>
      BY <1>1, TaskFacts DEF IInv
    <2>2. QED
      BY <2>1 DEF IInv, Tasked, TaskInv
  <1>3. Ordered(script[t])
    BY <1>2, RoleOrderly, RoleAssumption DEF Orderly
  <1>4. PICK j \in 1 .. (at[t] - 1) :
            g = script[t][j] /\ \A k \in j .. (at[t] - 1) : script[t][k] # Drop
    BY DEF Held
  <1>5. QED
    BY <1>1, <1>3, <1>4 DEF Ordered, Step

\* Of those that wait for the highest lock that any of them waits for, the one
\* that came first waits for none of them.
LEMMA SomebodyFirst ==
    ASSUME IInv, \A t \in Tasks : Role[t] # "debug",
           NEW S \in SUBSET Tasks, S # {}, \A t \in S : Waiting(t)
    PROVE  \E t \in S : BlockedBy(t) \cap S = {}
  <1>1. \A t \in S : Step(t).lock \in LockNames /\ Rank(Step(t).lock) \in 1 .. 3
    BY TaskFacts, StepFacts DEF IInv, Waiting
  <1>2. PICK m \in S : \A t \in S : Rank(Step(t).lock) <= Rank(Step(m).lock)
    BY <1>1
  <1> DEFINE l == Step(m).lock
             q == queue[l]
             T == {i \in 1 .. Len(q) : q[i] \in S}
  <1>3. T # {} /\ T \in SUBSET Nat
    <2>1. \E i \in 1 .. Len(q) : q[i] = m
      BY DEF Waiting, Contains
    <2>2. QED
      BY <2>1
  <1>4. PICK n \in T : \A i \in T : n <= i
    BY <1>3, Least
  <1> DEFINE u == q[n]
  <1>5. u \in S /\ n \in 1 .. Len(q) /\ Step(u).lock = l
    BY <1>1, <1>4 DEF IInv, Queued, QueueInv, Asks
  <1> HIDE DEF l, u, T
  <1>6. ASSUME NEW v \in S, v \in BlockedBy(u) PROVE FALSE
    <2>1. CASE v \in Ahead(u)
      <3>1. PICK j \in 1 .. Len(q) : v = q[j] /\ \A k \in 1 .. j : q[k] # u
        BY <1>5, <2>1 DEF Ahead
      <3>2. j \in T
        BY <1>6, <3>1 DEF T
      <3>3. n <= j /\ q[n] = u
        BY <1>4, <3>2 DEF u
      <3>4. n \in 1 .. j
        BY <1>5, <3>1, <3>3
      <3>5. QED
        BY <3>1, <3>3, <3>4
    <2>2. CASE \E g \in Held(v) : Conflict(Step(u), g)
      <3>1. PICK g \in Held(v) : g.lock = l
        BY <1>5, <2>2 DEF Conflict
      <3>2. Waiting(v) /\ v \in Tasks /\ Role[v] # "debug"
        BY <1>6
      <3>3. Rank(l) < Rank(Step(v).lock)
        BY <3>1, <3>2, HeldBelow
      <3>4. Rank(Step(v).lock) <= Rank(l) /\ Rank(l) \in 1 .. 3 /\ Rank(Step(v).lock) \in 1 .. 3
        BY <1>1, <1>2, <1>6 DEF l
      <3>5. QED
        BY <3>3, <3>4
    <2>3. QED
      BY <1>6, <2>1, <2>2 DEF BlockedBy
  <1>7. QED
    BY <1>5, <1>6

\* Without the debug page, no set of watchers and requests, however many and
\* wherever they are dropped, waits for one another in a circle.
THEOREM WatchersGoOn ==
    ASSUME \A t \in Tasks : Role[t] # "debug"
    PROVE  Spec => []NoCircularWait
  <1>1. IInv => NoCircularWait
    <2> SUFFICES ASSUME IInv, NEW S \in (SUBSET Tasks) \ {{}}
                 PROVE  \E t \in S : ~Waiting(t) \/ BlockedBy(t) \cap S = {}
      BY DEF NoCircularWait
    <2>1. CASE \A t \in S : Waiting(t)
      BY <2>1, SomebodyFirst
    <2>2. CASE \E t \in S : ~Waiting(t)
      BY <2>2
    <2>3. QED
      BY <2>1, <2>2
  <1>2. QED
    BY Invariance, <1>1, PTL
=============================================================================
