----------------------------- MODULE StateLocks -----------------------------
(***************************************************************************)
(* The RwLocks of AppState and the orders in which the program's tasks     *)
(* take them. tokio's RwLock is first come, first served: a request that   *)
(* cannot be granted at once, or that finds others waiting, goes to the    *)
(* end of the lock's queue, so a queued writer holds up later readers.     *)
(*                                                                         *)
(* A task runs the scripts of its role over and over. A script lists the   *)
(* guards a handler takes, in program order, and where it drops them all;  *)
(* what happens under the guards is left out. The roles are the watchers,  *)
(* and the HTTP handlers that hold more than one guard at a time.          *)
(***************************************************************************)
EXTENDS Naturals, Sequences, SequencesExt

CONSTANTS
    Tasks,       \* tasks of the runtime
    Role         \* what each task runs

LockNames == {"identity", "bmh", "containers", "data_namespaces"}

Rd(l) == [op |-> "read", lock |-> l]
Wr(l) == [op |-> "write", lock |-> l]
Drop  == [op |-> "drop", lock |-> "all"]

----------------------------------------------------------------------------
(* Scripts.                                                                *)

RebuildCache == <<Rd("identity"), Rd("bmh"), Rd("containers"), Drop>>

\* Mutation of AmoScripts: `drop(identity)` is missing before the rebuild.
AmoKeepsGuard == {<<Wr("identity")>> \o RebuildCache}

\* A NATS watch, or a bucket load: change the identity data, rebuild.
AmoScripts == {<<Wr("identity"), Drop>> \o RebuildCache}

\* The first load of a connection and its read of the namespaces to watch, a
\* periodic refresh, and one of either whose discovery of the networks failed.
\* load_all_bmh keeps the bmh guard while it stores the namespaces. The last
\* script is also that of a watch event: one change under the guard, a rebuild.
LoadAllBmh == <<Wr("bmh"), Wr("data_namespaces"), Drop>>

\* Mutation of LoadLeases: the write guard is still held at the rebuild.
LeasesKeepGuard == <<Wr("bmh")>>

\* Mutation of LoadLeases: the identity data is read under the write guard.
LeasesReadIdentity == <<Wr("bmh"), Rd("identity"), Drop>>

LoadLeases == <<Wr("bmh"), Drop>>

BmhScripts ==
    {LoadAllBmh \o LoadLeases \o RebuildCache \o <<Rd("data_namespaces"), Drop>>,
     LoadAllBmh \o LoadLeases \o RebuildCache,
     LoadLeases \o RebuildCache}

ContainerScripts ==
    {<<Wr("containers"), Drop>> \o RebuildCache, RebuildCache}

\* resolve_on_demand and get_bmh: cache hit, host found, container looked up.
ProvisionScripts ==
    {<<Rd("bmh"), Drop>>,
     <<Rd("identity"), Rd("bmh"), Drop, Rd("bmh"), Drop>>,
     <<Rd("identity"), Rd("bmh"), Rd("containers"), Drop, Rd("bmh"), Drop>>}

DebugScripts == {<<Rd("containers"), Rd("bmh"), Rd("identity"), Drop>>}

ScriptsOf(role) ==
    CASE role = "amo"       -> AmoScripts
      [] role = "bmh"       -> BmhScripts
      [] role = "container" -> ContainerScripts
      [] role = "provision" -> ProvisionScripts
      [] role = "debug"     -> DebugScripts

Roles == {"amo", "bmh", "container", "provision", "debug"}

\* Tasks that recur for ever, and tasks that may be dropped at an await: the
\* branches of a select!, and handlers whose client hangs up.
Recurring  == {"amo", "bmh", "container"}
Droppable  == {"amo", "bmh", "provision", "debug"}

ASSUME RoleAssumption == Role \in [Tasks -> Roles]

VARIABLES
    script,    \* the script a task is running, <<>> between two runs
    at,        \* the step of it the task is at
    queue      \* the tasks waiting for each lock, first come first

vars == <<script, at, queue>>

----------------------------------------------------------------------------
AtEnd(t) == at[t] > Len(script[t])
Step(t)  == script[t][at[t]]

\* The guards a task holds: those taken since it last dropped its guards.
Held(t) ==
    {script[t][i] : i \in {j \in 1 .. (at[t] - 1) :
                              \A k \in j .. (at[t] - 1) : script[t][k] # Drop}}

Conflict(a, b) == a.lock = b.lock /\ "write" \in {a.op, b.op}

Waiting(t) == ~AtEnd(t) /\ Step(t) # Drop /\ Contains(queue[Step(t).lock], t)

Grantable(t) == \A u \in Tasks : \A g \in Held(u) : ~Conflict(Step(t), g)

Init ==
    /\ script = [t \in Tasks |-> <<>>]
    /\ at = [t \in Tasks |-> 1]
    /\ queue = [l \in LockNames |-> <<>>]

Start(t) ==
    /\ script[t] = <<>>
    /\ \E s \in ScriptsOf(Role[t]) : script' = [script EXCEPT ![t] = s]
    /\ UNCHANGED <<at, queue>>

\* read().await or write().await, granted at once or queued.
Lock(t) ==
    /\ ~AtEnd(t) /\ Step(t) # Drop /\ ~Waiting(t)
    /\ IF Grantable(t) /\ queue[Step(t).lock] = <<>>
       THEN at' = [at EXCEPT ![t] = @ + 1] /\ UNCHANGED queue
       ELSE queue' = [queue EXCEPT ![Step(t).lock] = Append(@, t)] /\ UNCHANGED at
    /\ UNCHANGED script

\* The first in the queue gets its guard.
Grant(t) ==
    /\ Waiting(t)
    /\ Head(queue[Step(t).lock]) = t
    /\ Grantable(t)
    /\ at' = [at EXCEPT ![t] = @ + 1]
    /\ queue' = [queue EXCEPT ![Step(t).lock] = Tail(@)]
    /\ UNCHANGED script

Release(t) ==
    /\ ~AtEnd(t) /\ Step(t) = Drop
    /\ at' = [at EXCEPT ![t] = @ + 1]
    /\ UNCHANGED <<script, queue>>

End(t) ==
    /\ script[t] # <<>> /\ AtEnd(t)
    /\ script' = [script EXCEPT ![t] = <<>>]
    /\ at' = [at EXCEPT ![t] = 1]
    /\ UNCHANGED queue

\* Mutation of DropFuture: what the future held is not released.
DropFutureKeepsGuards(t) ==
    /\ Role[t] \in Droppable /\ script[t] # <<>>
    /\ script' = [script EXCEPT ![t] = <<>>]
    /\ queue' = [l \in LockNames |-> RemoveFirst(queue[l], t)]
    /\ UNCHANGED at

\* The future is dropped: it leaves the queue and its guards are released.
DropFuture(t) ==
    /\ Role[t] \in Droppable /\ script[t] # <<>>
    /\ script' = [script EXCEPT ![t] = <<>>]
    /\ at' = [at EXCEPT ![t] = 1]
    /\ queue' = [l \in LockNames |-> RemoveFirst(queue[l], t)]

Next == \E t \in Tasks :
    Start(t) \/ Lock(t) \/ Grant(t) \/ Release(t) \/ End(t) \/ DropFuture(t)

Spec == Init /\ [][Next]_vars

\* Work under a guard ends, and the watchers come back; no client need ever
\* hang up and no sibling need ever end, so DropFuture has no fairness.
Fairness ==
    \A t \in Tasks :
        /\ WF_vars(Lock(t)) /\ WF_vars(Grant(t)) /\ WF_vars(Release(t)) /\ WF_vars(End(t))
        /\ Role[t] \in Recurring => WF_vars(Start(t))

FairSpec == Spec /\ Fairness

----------------------------------------------------------------------------
(* Properties.                                                             *)

TypeOK ==
    /\ \A t \in Tasks : script[t] \in ScriptsOf(Role[t]) \cup {<<>>}
    /\ \A t \in Tasks : at[t] \in 1 .. (Len(script[t]) + 1)
    /\ queue \in [LockNames -> Seq(Tasks)]

\* Those that must let go, or be served, before a waiting task is.
Ahead(t) ==
    LET q == queue[Step(t).lock]
    IN  {q[i] : i \in {j \in 1 .. Len(q) : \A k \in 1 .. j : q[k] # t}}

BlockedBy(t) ==
    Ahead(t) \cup {u \in Tasks : \E g \in Held(u) : Conflict(Step(t), g)}

\* No group of tasks waits for one another: among watchers and provisioning
\* requests, queued writers included, somebody can always go on.
NoCircularWait ==
    \A S \in (SUBSET Tasks) \ {{}} :
        \E t \in S : ~Waiting(t) \/ BlockedBy(t) \cap S = {}

\* Whoever asks for a guard gets it, or gives up.
EveryoneServed == \A t \in Tasks : Waiting(t) ~> ~Waiting(t)

\* "Periodic full refresh as a consistency check": the BMH refresh comes round
\* again and again.
RefreshRecurs == \A t \in Tasks : Role[t] = "bmh" => []<>(script[t] = <<>>)
=============================================================================
