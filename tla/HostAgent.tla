------------------------------ MODULE HostAgent ------------------------------
(***************************************************************************)
(* The agent of src/agent/main.rs on one host: `refresh`, which a timer    *)
(* starts again and again, and `authorized-keys`, which sshd runs when     *)
(* somebody logs in. Both ask for the index of public-keys and then for the*)
(* keys by their place in it (public_keys_index and public_key of          *)
(* src/metadata/handlers.rs), which are two requests: the cache's entry    *)
(* may be another at the second. Requests take the MetadataPath, so that   *)
(* none gets through while route or rule is wrong.                         *)
(*                                                                         *)
(* The keys of one entry are a value, NoKeys when there are none. One      *)
(* refresh runs at a time, as systemd runs a unit.                         *)
(***************************************************************************)
EXTENDS MetadataPath

CONSTANTS
    Users,          \* users on the host
    LoginUsers,     \* those of them who log in by sshd's AuthorizedKeysCommand
    Listings,       \* entries the cache may have: sequences of [user, keys]
    NoEntry,        \* the cache does not know the address
    NoKeys,         \* an empty text
    NoFile,         \* no such file
    HostNetwork,    \* where the host has its lease from
    HostPool

ASSUME HostAssumption == HostNetwork \in Networks /\ HostPool \in PoolsOf[HostNetwork]

Keys == UNION {{l[i].keys : i \in DOMAIN l} : l \in Listings \ {NoEntry}}

ASSUME ListingsAssumption ==
    /\ NoEntry \in Listings
    /\ \A l \in Listings \ {NoEntry} : l \in Seq([user : Users, keys : Keys])
ASSUME UsersAssumption == Users # {} /\ LoginUsers \subseteq Users

VARIABLES
    served,     \* the cache's public_keys for the host
    installed,  \* authorized_keys.d/cloudid of each user
    temp,       \* .cloudid.tmp beside it
    refresh,    \* the refresh that runs
    login,      \* the authorized-keys that runs
    given,      \* history: [user, keys] ever served together
    raced       \* history: users given keys of an entry that is not the index's

agent == <<served, installed, temp, refresh, login, given, raced>>
vars  == <<path, agent>>

\* The host's own route is through the gateway its network has.
Reachable == RuleRight /\ nets[HostNetwork].gateway \in routes[HostPool]

\* What of the entry an answer depends on.
Pairs(listing) == IF listing = NoEntry THEN {} ELSE Range(listing)

Has(listing, i) == listing # NoEntry /\ i \in DOMAIN listing

\* public_keys_index: a line for each place.
Index(listing) == [i \in DOMAIN listing |-> [index |-> i, user |-> listing[i].user]]

\* Mutation of public_key: places are counted from one in the index only.
public_key_shifted(listing, i) ==
    IF Has(listing, i + 1) THEN listing[i + 1].keys
    ELSE IF Has(listing, i) THEN listing[i].keys ELSE NoFile

\* NoFile is 404: no entry, or not so many keys in it.
public_key(listing, i) == IF Has(listing, i) THEN listing[i].keys ELSE NoFile

\* seen is history: the entry when the index was given.
Idle == [at |-> "idle", lines |-> <<>>, keys |-> NoKeys, seen |-> NoEntry]

NoLogin == [at |-> "idle", user |-> CHOOSE u \in Users : TRUE, index |-> 0, out |-> NoKeys,
            seen |-> NoEntry]

AgentInit ==
    /\ served \in Listings
    /\ installed = [u \in Users |-> NoFile]
    /\ temp = [u \in Users |-> NoFile]
    /\ refresh = Idle
    /\ login = NoLogin
    /\ given = Pairs(served)
    /\ raced = {}

\* A request of the host is answered; it fails while the path is wrong, and now
\* and then though it is right.
GetsThrough == Reachable /\ UNCHANGED trouble

Fails == \/ ~Reachable /\ UNCHANGED trouble
         \/ Reachable /\ Counted

UnchangedPath == UNCHANGED <<nets, routes, rules, made, address, router, nat, late>>

----------------------------------------------------------------------------
(* refresh.                                                                *)

Line == refresh.lines[1]

\* Mutation of NextLine: a line that fails ends the refresh.
NextLineNever == Idle

\* The next line of the index, or the end.
NextLine ==
    IF Len(refresh.lines) = 1 THEN Idle
    ELSE [refresh EXCEPT !.at = "key", !.lines = Tail(@), !.keys = NoKeys]

\* Without an answer, or without an entry, nothing is done.
GetIndex ==
    /\ refresh.at = "idle"
    /\ GetsThrough /\ served # NoEntry
    /\ refresh' = IF served = <<>> THEN Idle
                  ELSE [at |-> "key", lines |-> Index(served), keys |-> NoKeys,
                        seen |-> served]
    /\ UNCHANGED <<served, installed, temp, login, given, raced>> /\ UnchangedPath

Given(user, keys, seen) ==
    raced' = IF keys \in {NoFile, NoKeys} \/ served = seen THEN raced ELSE raced \cup {user}

\* The keys by index: a request that fails ends the refresh, an error or an
\* empty answer the line.
GetKeys ==
    /\ refresh.at = "key"
    /\ \/ LET keys == public_key(served, Line.index)
          IN  /\ GetsThrough
              /\ refresh' = IF keys \in {NoFile, NoKeys} THEN NextLine
                            ELSE [refresh EXCEPT !.at = "create", !.keys = keys]
              /\ Given(Line.user, keys, refresh.seen)
       \/ Fails /\ refresh' = Idle /\ UNCHANGED raced
    /\ UNCHANGED <<served, installed, temp, login, given>> /\ UnchangedPath

\* Mutation of CreateTemp: the keys are written in place.
CreateInPlace ==
    /\ refresh.at = "create"
    /\ installed' = [installed EXCEPT ![Line.user] = NoKeys]
    /\ temp' = [temp EXCEPT ![Line.user] = NoKeys]
    /\ refresh' = [refresh EXCEPT !.at = "write"]
    /\ UNCHANGED <<served, login, given, raced, trouble>> /\ UnchangedPath

\* A file that cannot be created, written or renamed: on with the next line.
CreateTemp ==
    /\ refresh.at = "create"
    /\ \/ /\ temp' = [temp EXCEPT ![Line.user] = NoKeys]
          /\ refresh' = [refresh EXCEPT !.at = "write"] /\ UNCHANGED trouble
       \/ Counted /\ refresh' = NextLine /\ UNCHANGED temp
    /\ UNCHANGED <<served, installed, login, given, raced>> /\ UnchangedPath

RemoveTemp == temp' = [temp EXCEPT ![Line.user] = NoFile]

WriteTemp ==
    /\ refresh.at = "write"
    /\ \/ /\ temp' = [temp EXCEPT ![Line.user] = refresh.keys]
          /\ refresh' = [refresh EXCEPT !.at = "rename"] /\ UNCHANGED trouble
       \/ Counted /\ refresh' = NextLine /\ RemoveTemp
    /\ UNCHANGED <<served, installed, login, given, raced>> /\ UnchangedPath

Rename ==
    /\ refresh.at = "rename"
    /\ \/ installed' = [installed EXCEPT ![Line.user] = temp[Line.user]] /\ UNCHANGED trouble
       \/ Counted /\ UNCHANGED installed
    /\ RemoveTemp
    /\ refresh' = NextLine
    /\ UNCHANGED <<served, login, given, raced>> /\ UnchangedPath

\* The host stops, or the unit: a file not renamed yet is left behind.
Stop ==
    /\ Counted /\ refresh.at # "idle"
    /\ refresh' = Idle
    /\ UNCHANGED <<served, installed, temp, login, given, raced>> /\ UnchangedPath

----------------------------------------------------------------------------
(* authorized-keys.                                                        *)

Output(keys) == [NoLogin EXCEPT !.user = login.user, !.out = keys]

\* The first line that names the user.
PlaceOf(listing, u) ==
    IF listing = NoEntry THEN 0 ELSE SelectInSeq(listing, LAMBDA e : e.user = u)

\* Who is not listed, or whose address is unknown, is looked up in the local
\* file. A request that is not answered ends it all, with nothing printed.
LoginIndex(u) ==
    /\ login.at = "idle"
    /\ LET asked == [NoLogin EXCEPT !.user = u]
           place == PlaceOf(served, u)
       IN  \/ /\ GetsThrough
              /\ login' = IF place = 0 THEN [asked EXCEPT !.at = "local"]
                          ELSE [asked EXCEPT !.at = "key", !.index = place, !.seen = served]
           \/ Fails /\ login' = asked
    /\ UNCHANGED <<served, installed, temp, refresh, given, raced>> /\ UnchangedPath

\* An error prints nothing.
LoginKeys ==
    /\ login.at = "key"
    /\ \/ LET keys == public_key(served, login.index)
          IN  /\ GetsThrough
              /\ login' = Output(IF keys = NoFile THEN NoKeys ELSE keys)
              /\ Given(login.user, keys, login.seen)
       \/ Fails /\ login' = Output(NoKeys) /\ UNCHANGED raced
    /\ UNCHANGED <<served, installed, temp, refresh, given>> /\ UnchangedPath

try_local_keys ==
    /\ login.at = "local"
    /\ login' = Output(IF installed[login.user] = NoFile THEN NoKeys ELSE installed[login.user])
    /\ UNCHANGED <<served, installed, temp, refresh, given, raced, trouble>> /\ UnchangedPath

----------------------------------------------------------------------------
\* A rebuild of the cache.
ChangeListing(listing) ==
    /\ Counted /\ served # listing
    /\ served' = listing
    /\ given' = given \cup Pairs(listing)
    /\ UNCHANGED <<installed, temp, refresh, login, raced>> /\ UnchangedPath

\* CloudID starts with an empty cache.
RestartEmpty(a) ==
    /\ Restart(a)
    /\ served' = NoEntry
    /\ UNCHANGED <<installed, temp, refresh, login, given, raced>>

RefreshStep == GetIndex \/ GetKeys \/ CreateTemp \/ WriteTemp \/ Rename

PathStep ==
    /\ \/ RouterStep \/ NatStep \/ ChangeRules
       \/ \E m \in late : Arrive(m)
       \/ \E n \in Networks, s \in NetworkStates : ChangeNetwork(n, s)
       \/ \E p \in Pools : LoseRoutes(p)
    /\ UNCHANGED agent

Init == PathInit /\ AgentInit

Next ==
    \/ PathStep
    \/ \E a \in Addresses : RestartEmpty(a)
    \/ RefreshStep \/ Stop
    \/ \E u \in LoginUsers : LoginIndex(u)
    \/ LoginKeys \/ try_local_keys
    \/ \E l \in Listings : ChangeListing(l)

\* cloudid-refresh.timer: "OnUnitActiveSec=5min". Nobody need ever log in.
Fairness == PathFairness /\ WF_vars(RefreshStep)

Spec == Init /\ [][Next]_vars /\ Fairness

----------------------------------------------------------------------------
(* Properties.                                                             *)

TypeOK ==
    /\ PathTypeOK
    /\ served \in Listings
    /\ installed \in [Users -> Keys \cup {NoFile}]
    /\ temp \in [Users -> Keys \cup {NoKeys, NoFile}]
    /\ refresh.at \in {"idle", "key", "create", "write", "rename"}
    /\ (refresh.at = "idle") = (refresh.lines = <<>>)
    /\ refresh.at = "rename" => temp[Line.user] = refresh.keys
    /\ login.at \in {"idle", "key", "local"} /\ login.out \in Keys \cup {NoKeys}

\* A user's file, and what sshd is told of a user, are keys that some entry of
\* the cache gave that very user, whatever became of the entry since, unless the
\* entry changed between the index and the keys of one command.
OwnKeys ==
    /\ \A u \in Users : \/ installed[u] = NoFile \/ u \in raced
                        \/ [user |-> u, keys |-> installed[u]] \in given
    /\ \/ login.out = NoKeys \/ login.user \in raced
       \/ [user |-> login.user, keys |-> login.out] \in given

\* "Never delete working keys": a file with keys has keys at every moment,
\* whatever stops half-way or is answered wrongly.
KeepsWorkingKeys ==
    [][\A u \in Users : installed[u] \notin {NoFile, NoKeys}
                           => installed'[u] \notin {NoFile, NoKeys}]_vars

\* A route is kept though the gateway of the network is another by now.
Outlived == routes[HostPool] # {} /\ nets[HostNetwork].gateway \notin routes[HostPool]

\* From some time on the files of the users listed hold the keys served for
\* them, wrong indices, failures and broken paths before notwithstanding; only a
\* route to a gateway of the past, which nobody replaces, keeps a host apart.
KeysArrive ==
    <>[](Wanted(nets[HostNetwork]) /\ ~Outlived =>
            \A e \in Pairs(served) : e.keys # NoKeys => installed[e.user] = e.keys)
=============================================================================
