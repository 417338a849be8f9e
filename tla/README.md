# CloudID in TLA+

CloudID answers the metadata requests of hosts and containers: from the source
address of a request it finds who may log in there, and with which keys. This
directory holds TLA+ models of its core, the TLC configurations that check them
on small instances, and proofs that TLAPS checks for every instance.

    tlc -workers 2 -config MCMetadataCache.cfg MCMetadataCache.tla
    tlapm MetadataCache_proofs.tla

## The system

| Part | Source | State | Operations | Talks to |
|---|---|---|---|---|
| Metadata cache | `src/cache.rs` | `DashMap` address -> metadata | `rebuild_cache`, `get_metadata`, `resolve_on_demand` | reads identity, bmh, containers under their read guards |
| Resolution | `src/resolve.rs` | none | `resolve_host`, `resolve_container` | called by the cache |
| AMO watcher | `src/watcher/amo.rs` | `IdentityState` | load four NATS buckets, watch them, reconnect | NATS; cache rebuild after each change |
| BMH watcher | `src/watcher/bmh.rs` | `BmhState`, `data_namespaces` | list every data network, DHCP leases, watch, periodic refresh, reconnect | mkube, DHCP; cache rebuild |
| Container watcher | `src/watcher/container.rs` | `ContainerState` | replace all, periodically | mkube; cache rebuild |
| Metadata endpoint | `src/metadata/` | none of its own | lookups by address, public keys by index, debug dump, template and oneshot API | cache, the locks, the template store |
| Assignments, oneshot | `src/metadata/handlers.rs`, `src/templates.rs` | a map in memory and a JSON file each | put, delete, mark provisioned, load at start | PVC |
| Template store | `src/templates.rs` | a content and a meta file per template | get, put, delete, backup, restore | PVC |
| Provisioning | `src/provision.rs` | none | choose a template, merge keys into Ignition or Kickstart | cache, BmhState, oneshot, assignments, template store |
| IMDSv2 tokens | `src/cache.rs`, `src/metadata/handlers.rs` | `DashMap` token -> address, lifetime | issue, expire | none |
| Host agent | `src/agent/main.rs` | one key file per user | refresh, authorized-keys | metadata endpoint |
| Route manager | `src/metadata_route.rs` | none | check and add the DHCP route, periodically | mkube, MicroDNS |
| NAT manager | `src/routeros_nat.rs` | none | check, create or update the rule, periodically | RouterOS |
| Start-up, types | `src/main.rs`, `src/config.rs`, `src/model.rs` | configuration | parse, spawn | all |

Everything is one process on a multi-threaded tokio runtime. The watchers are
tasks that change their source under its write guard and then rebuild the cache
under the three read guards; requests run beside them.

What is hard here, and what would make each part right:

- *Cache.* Several rebuilds run at once, as read guards are shared, and each
  empties and fills the same map entry by entry while requests read it. When they
  have settled the cache must agree with the sources; what was revoked must not
  come back; a change whose task is dropped before its rebuild must be made good.
- *Locks.* tokio's `RwLock` queues first come, first served, so shared read locks
  block one another behind a queued writer: acquisition orders matter even among
  readers. Nobody may wait in a circle.
- *Watchers.* Streams lose what happens before they are made or after they break,
  lists overtake events, `select!` and `abort` drop a task at any await, loads fail
  half-way. The state must come back to what the source of truth says.
- *Files.* Saves run on a blocking thread, in place: they fail half-way, the process
  stops half-way, a client hangs up and leaves its save behind.
- *Templates.* Content and mode lie in two files that are written, read and removed
  one after the other, with no lock, by requests whose clients hang up. What is reported
  of a template must be what one put stored.
- *Provisioning.* A request reads five inputs at five moments. What the host is given must
  be what was due at one of them, by the documented priorities, with the logins its
  identity data grants; a completed host must not get a oneshot template again.
- *Agent.* The keys are asked for by their place in an index that an earlier request
  gave. A user's file must hold keys of that user, must never be without keys once it
  has some, and must follow what is served.
- *Route and NAT.* Each manager looks, then acts on a router that others change, and
  requests it gave up may still arrive. In the end hosts must reach CloudID.

`PROJECT.json` lists the hazards one by one with their source lines and the
properties that would catch them going wrong. A few of these are violated, and show that
it does go wrong; what a property leaves out of a hazard is said in a note there. Six
have no property, and the note says why.

## The modules

**`Resolve`** translates `src/resolve.rs` as operators on records, functions and
sets. A `HashMap` is a function, an `Option` a set of at most one element (`NoMeta` is
the empty one), the order of a `HashMap`'s iteration the constant `RuleOrder` (the sudo flag of a user
granted by several rules depends on it). Formatting is left out.

**`MetadataCache`** extends it: the three sources, the cache, the writers (one per
future that ends in `rebuild_cache`) and requests. A rebuild is the sequence of its
three lock acquisitions and then one step per entry: clear, host pass, container
pass. `DashMap::clear` is not atomic either, it takes shard after shard. Which
guards a task holds follows from where it is (`HoldsRead`). `Lose` is a future
dropped at an await, or a loader that returns early; the three steps after the last
lock have no await and cannot be lost. Source contents are members of constant
sets, half-loaded ones included, so that the cache is checked against whatever the
watchers may leave; how they get there is the watchers' own modules. Who may log in is
also said a second time, without the steps of `resolve.rs`, as a relation between a rule
and a user (`Permits`), a container and its owner (`OwnersOf`): the properties of logins
and sudo compare the entries of the cache with that, not with the functions that made them.

**`StateLocks`** abstracts from all data and keeps the lock requests: each role runs
scripts of `read`, `write` and `drop`, on queued locks. `DropFuture` takes a task out
of the queue and releases what it holds.

**`PersistedState`** is one of the two maps kept in memory and in a file
(assignments, oneshot). A handler changes the map under the write guard and
awaits a save; the save truncates, then writes, or fails before either. `HangUp` drops
the handler and its guard, not its save. Two saves that have both truncated may leave
a file that is neither (`mixed`). `Restart` stops the process anywhere.

**`AmoWatcher`** is a connection of the AMO watcher: list the keys of a bucket, read
them one by one under the guard, go on to the next, rebuild, watch each bucket;
the first watch to end drops all. Changes in AMO happen at any time. `served` is
the identity as the last rebuild read it.

**`BmhWatcher`** is the same for bare metal hosts: discovery, clear, one list per
network under the guard, leases, rebuild, watches, and `periodic_refresh` that
repeats the load and is dropped with the watches at any point. mkube reserves an
address for one host (`Consistent`); hosts keep their hostname; the set of data
networks does not change.

The last two and `MetadataCache` meet at the rebuild: the watchers leave a state and
owe a rebuild, which `MetadataCache` takes apart entry by entry for states of any
kind. `StateLocks` justifies the fairness of the lock acquisitions the others assume.

**`MetadataService`** is the abstract specification of the cache: it is as it was, or
being filled, or exactly what is due; tasks, locks and entries do not appear.
`MetadataCache` implements it (`ServesAtOnce`): all rebuilds that overlap are one filling,
during which the sources stand still, and which ends only with everything due in place.

**`TemplateStore`** is the directory of templates: a content file and a meta file each.
Every file operation is a step (`fs::write` is two, it truncates first), and between any two
a handler may be dropped, in which case the operation already on its thread is carried
out and no other. Two writers of one file may leave a text that is neither
(`Garbled`); a file removed under its writer takes the write with it (`void`). `kept`
is history: what the last undisturbed put or delete of each template left. Left out are
the timestamps in the meta file; a directory is listed in one step.

**`ProvisionConfig`** translates the pure part of `src/provision.rs`: what is merged into an
Ignition config or a kickstart, generated without a base, and substituted in a template.
A config is its users, keys, files or lines; numbers, shells and wording are left out.

**`Provisioning`** extends both. `resolve_and_build` is a request that reads metadata, the
BareMetalHost, the oneshot state, the assignments and the template one after the other,
while `Change` lets each of them change, lets REST clients use the store, and keeps the
guards of the two maps across their saves (`locked`). `template_info` reads them
in another order, about a host that it looks up first, and gives up on a locked map. `Due` is what the documentation says a
host should get, in one look at the inputs (a completed host no template, in any mode); the history variables `before` and `changed`
remember it for the start of each request. `metadata` and `bmh` change as `MetadataCache`
and `BmhWatcher` show they may: at any time, each on its own.

**`MetadataPath`** holds the two managers. `src/metadata_route.rs` discovers the data
networks, lists the pools of each, checks and adds; `src/routeros_nat.rs` looks for the
rule, then creates or updates it. Every request may fail or be given up, and one that
was given up may arrive later (`late`). Others change networks, routes and rules, and CloudID
restarts at another address. Left out: how long a round waits. A rule is its id and its
target, as `ensure_nat_rule` looks at nothing else of a rule that matches (a disabled
rule counts as well).

**`HostAgent`** extends it with the agent of one host: `refresh` line by line, with the
temporary file and its rename, and `authorized-keys`. Their requests get through only
while route and rule are right, and may fail even then; the entry they ask about changes
between them. One refresh runs at a time, as a systemd unit does.

External parts (NATS, mkube, the DHCP source, MicroDNS, RouterOS, systemd, tokio's locks
and blocking threads) are modelled from how the code uses them. Assumed are: a key-value
watch delivers in order what changes after it is made; so does a mkube watch, with no
initial replay (the weaker assumption); RwLocks are fair; MicroDNS keeps one route for a
destination and gateway; RouterOS lists rules in their order, and the first that matches
counts.

## The runs

| Run | Instance | Shows |
|---|---|---|
| `cache` | 2 addresses, one of them a host and a container; the AMO watch, the BMH watch, the periodic BMH refresh and the container watcher; two users of whom one gets disabled, a rule for a host group with sudo and one for a label without; no request | `Coherent`, `NoRevokedEntry`, `OwedRebuild`, `OnlyPermittedLogins`, `EveryPermittedLogin`, `OnlyPermittedSudo` |
| `cache_live` | 1 address, BMH and container watchers, one request | `RefusedOnlyIfUnresolvable`, `Recurs`, `Answered`; the refinement `ServesAtOnce` |
| `locks` | the AMO and BMH watchers and a provisioning request | `NoCircularWait`, `EveryoneServed`, `RefreshRecurs` |
| `locks_debug` | three watchers and `debug_state` | `RefreshRecurs` is violated |
| `persisted` | 2 hosts, 2 templates, 2 requests | `SavesCurrent`, `AloneSaveLands` |
| `persisted_restart` | the same | `RestartKeepsAnswered` is violated |
| `amo` | 2 buckets of 2 names, 2 values, 3 changes, a static entry | `PutsServed`, `DeletesServed` |
| `amo_deletions` | 2 buckets of one name, 1 change | `DeletionsTakeEffect` is violated |
| `bmh` | 2 networks, 2 hosts that share 2 addresses, 2 label sets, a lease, 2 changes, 1 failure | `Tracked`, `Heals` |
| `provisioning` | one request of a host, two REST clients, 3 template names of which one stands for another by its extension, a BareMetalHost that may be deleted, 2 changes | `ReadsWhole`, `GrantedLogins`, `AsBeforeOrAfter`, `NoOneshotOnceCompleted` |
| `provisioning_forever` | the same, templates of mode forever, 1 change | `ForeverOnEveryBoot` is violated |
| `host_path` | 2 networks, 2 users of whom one logs in, 4 entries of the cache, 2 addresses of CloudID, 2 failures or changes | `OwnKeys`, `KeepsWorkingKeys`, `PathHeals`, `KeysArrive` |

Why the bounds suffice. Three writers are the least with which a rebuild is overtaken by
one and followed by another, and four are the tasks that run side by side. Two addresses
tell an entry that is done from one that is not. In `locks` a reader that holds one guard, a
writer queued for it and a task that holds another guard are three tasks, enough to close
a circle; the container watcher runs in `locks_debug`, and `WatchersGoOn` is for any
number of tasks. In `persisted` a save left behind
and one in hand can be in every phase towards each other; more requests only
repeat them. In `amo` three changes allow a value, another and a deletion of one
key, or one in each of two connections and one between. `MaxChanges`,
`MaxFailures` and `MaxTrouble` bound what the environment does, never what the code does;
in `bmh` and `host_path` they also say that mkube and the routers come to rest, which `Heals`,
`PathHeals` and `KeysArrive` speak about. In `provisioning` two changes are two
writers of one template around a reader, a put and a delete, a backup and its restore,
or a completion and its reset; the starting point is a host with a template, and all else
is reached by changes. The properties about one request are about each of any number, as
requests do not write what others read. In `host_path` the entry of the host loses its first
user, so that all places move, or the keys of one; two troubles are a change between two
requests and a failure, or a request given up and the change that its late arrival undoes.

Fairness. Lock acquisitions are strongly fair in `MetadataCache`, because the lock is a
queue and every guard is released: each request made under one has a timeout, and a
rebuild has no await after its last lock. `StateLocks` does not assume this, it has
the queue itself and only weak fairness of each step; `EveryoneServed` is the
justification. The watchers recur: `start` reconnects for ever, and the refreshes
sleep and come round. The two managers loop for ever and give every request a timeout; the
agent's refresh is started by a timer again and again (`OnUnitActiveSec=5min`, README.md:521
of the repository), one fairness condition for all its steps. Nobody need ever log in, and a
request that was given up need never arrive. Never assumed are: that a client hangs up or not, that a
watch ends, that a future is or is not dropped, that AMO or mkube changes.

What the four violated properties say of the code:

- `locks_debug`: `debug_state` (`handlers.rs:437`) locks containers, bmh, identity, the
  reverse of `rebuild_cache`. With writers queued for identity and bmh, four tasks wait
  for one another until the debug client hangs up or a stream ends.
- `persisted_restart`: the oneshot and assignment files are rewritten in place
  (`templates.rs:446`, `464`), and what does not parse at the start counts as empty. A
  stop in between forgets every completed host, which is then provisioned again.
- `amo_deletions`: a load only inserts (`amo.rs:83`). What is deleted in AMO while
  no watch is connected stays until the process restarts.
- `provisioning_forever`: `resolve_and_build` does not look at the mode (`provision.rs:506`):
  a host with a template in mode *forever* that has called `POST /config/provisioned` gets
  the default config from then on, while README.md:214 of the repository says that such a
  template is served on every boot. `NoOneshotOnceCompleted`, which holds, is about
  *oneshot* templates only. With completed hosts exempted, `ForeverOnEveryBoot` holds in
  the same instance: there is no other way to miss the template.

`AsBeforeOrAfter` says nothing on `provisioning_forever`: `Due` takes what is due to a
completed host as the code has it, the default config, whatever the mode of the template.

Further disagreements between the code and what is said of it, which the models contain as
the code has them and no run is spent on:

- `authorized-keys` ends on a transport error by `?` (`agent/main.rs:152`, `183`) before it
  comes to the local file it should fall back to (`agent/main.rs:199`); an error status on
  the index does get there. No property says that a login falls back.
- A route through the gateway a network had before is never replaced
  (`metadata_route.rs:195`), and a `POST` that was given up may bring one back:
  `PathHeals` asks only that a route is there, and `KeysArrive` excludes that host (`Outlived`).

The files of users who are no longer listed stay, which "Never delete working keys"
(`agent/main.rs:200`) asks for.

Every property of a passing run has a mutant, a definition changed as a plausible bug
would change it, kept next to the definition it changes ("Mutation of ..."), under
which TLC finds the property violated.

## The proofs

Each module of proofs extends a module of the model and proves, for every value of the
constants under the assumptions that module names:

| Module | Theorem | Property |
|---|---|---|
| `MetadataCache_proofs` | `TypeCorrect` | `TypeOK` |
| | `CacheCoherent` | `Coherent` |
| | `NothingRevoked` | `NoRevokedEntry` |
| | `RebuildOwed` | `OwedRebuild` |
| | `LoginsPermitted` | `OnlyPermittedLogins` |
| | `PermittedServed` | `EveryPermittedLogin` |
| | `SudoPermitted` | `OnlyPermittedSudo` |
| | `RefusalsAreRight` | `RefusedOnlyIfUnresolvable` |
| | `RefreshIsAtomic` | `ServesAtOnce`, the refinement of `MetadataService` |
| `PersistedState_proofs` | `TypeCorrect` | `TypeOK` |
| | `SavesAreCurrent` | `SavesCurrent` |
| | `AloneSavesLand` | `AloneSaveLands` |
| `AmoWatcher_proofs` | `TypeCorrect` | `TypeOK` |
| | `PutsAreServed` | `PutsServed` |
| | `DeletesAreServed` | `DeletesServed` |
| `BmhWatcher_proofs` | `TypeCorrect` | `TypeOK` |
| | `NetworksAreTracked` | `Tracked` |
| `HostAgent_proofs` | `TypeCorrect` | `TypeOK` |
| | `KeysAreOwn` | `OwnKeys` |
| | `WorkingKeysStay` | `KeepsWorkingKeys` |
| `Provisioning_proofs` | `TypeCorrect` | `TypeOK` |
| | `TemplatesReadWhole` | `ReadsWhole` |
| | `CompletedStay` | `NoOneshotOnceCompleted` |
| | `LoginsAreGranted` | `GrantedLogins` |
| | `AnswersAreDue` | `AsBeforeOrAfter` |
| `StateLocks_proofs` | `TypeCorrect` | `TypeOK` |
| | `WatchersGoOn` | `NoCircularWait`, where no task has the role of `debug_state` |

Hardly any of them is inductive alone. What each module's invariant `IInv` adds:

*Cache.* No source has a
writer and a reader (`Locks`), from which it follows that sources do not change
under a rebuild; what each rebuild still has to visit is exactly the entries its pass
has not put (`Passes`); an entry a rebuild has cleared holds nothing but what the
present sources give (`Cleared`); when no change is open, an address that is not as
the sources say is one that some rebuild still has on its list (`Settled`); a request
that has reached the containers holds the guards under which the host was ruled out
(`HostRuledOut`). `Settled` carries the argument: whatever a rebuild's clear or host
pass removes, that same rebuild puts back before it ends, and the others, under the
same guards, put the same. `Coherent` is `Settled` with nobody building. For the refinement
the abstract cache is read off the concrete one: `filling` while anybody builds, `served`
the concrete entries otherwise, so that the last rebuild to end is the abstract `Serve`,
and `Settled` is what makes it one. The three theorems on logins need no invariant more, but
two lemmas on the operators of `Resolve`, for any identity data: the entry of a host has exactly
the logins its rules permit, and that of a container those of its owner (`HostEntry`,
`ContainerEntry`). That a rule is met first which sets the sudo (`FirstRuleAmong`) rests on there being a
least number in a set of numbers, which is proved by the well-foundedness of the finite
sets (`LeastNumber`). Assumed (`RuleOrderAssumption`): the iteration meets every rule.

*Persisted state.* One handler at a time is saving (`OneSaving`); a save that started with no
other running keeps the file for itself, since nobody starts one without the guard
(`AloneStays`). Assumed: there is a host.

*AMO watcher.* Of the updates queued for a key the youngest is AMO's present value
(`YoungestIsNew`); a key the load has passed is known as AMO has it, unless an update is
queued or the change was not watched (`Known`); a bucket that owes no rebuild is served as
it is known (`Rebuilt`); the watches, the phase and the place in the load agree
(`Connection`). Assumed: the buckets are loaded in an order without repetition.

*BMH watcher.* Of the events queued for a host the youngest is what mkube has, and one that
gives the host's address to another is followed by one of the host (`Queues`); a network that is
being loaded anew has nothing left of before (`Emptied`); a host of a listed network is
exactly as mkube has it, or an event of it is queued, even if the list has overtaken
older ones (`ExactUnlessQueued`). Assumed: mkube gives an address to one host, and the subnets
of two data networks do not overlap.

*Host agent.* Each line of a running refresh is a line of the entry its index was made from
(`Indexed`, `RefreshInv`, `LoginInv`), so keys fetched by place from that same entry are the
user's own; what is in a file, temporary or not, is the user's own or the user's entry
changed between (`Owned`). `PathInv` types the managers and
says that every rule has a number given out before. Assumed: an entry of the cache is a sequence of users with keys.

*Template store* (`TemplateStore_proofs`, lemmas that hold for any user of the store). What is
known to be kept of a template is what its two files say, and then nobody is writing them
(`Quiet`); a writer that has had the template for itself has left behind just what it means to
so far, the meta file still torn before its last step (`AloneInv`), so its end is one template,
whatever an earlier writer that was cut short had left; nobody is writing what a reader has not
seen touched (`UntouchedInv`), so what the reader got of it is what is kept (`ReaderInv`), and a
backup has got it or still has it on its list (`BackupInv`). Assumed: there is a template, and
no content is the mark of a missing file.

*Provisioning.* A request is in the store exactly while it loads its template (`Loads`); a request
whose host had completed, and has not been reset since, finds it in the oneshot set and never
comes as far as looking for a template (`Looks`, `Barred`), so that it neither gets one nor is
told of one. Assumed: the hosts and templates that mkube, the identity
data and the API name are among `Hosts` and `Names`, and the callers of the store are the
provisioning requests and the API clients, apart from each other.

*Logins.* `Lawful` holds of whatever `build_ignition`, `build_kickstart` and `Render` return
(`DefaultLawful`, `RenderedLawful`), and a request answers with nothing else (`Entitled`). The
lemmas under these say what the operators of `ProvisionConfig` keep and add: a merged Ignition
config lets in whom the base did and whom the metadata grants, user by user; the lines that a
merge puts into a kickstart are joined by concatenating, inserting and flattening sequences, of
which only the set of elements matters (`ConcatElements`, `SplitElements`, `FlattenElements`);
substitution touches no line that grants a login. The sequences are of any length: flattening
goes by the least index at which a claim fails (`Least`, `FromZero`). Assumed
(`MetasAssumption`, `BasesAssumption`): identity data lists finitely many users and keys, and
every text parses to users with keys, files, and a sequence of lines, or to fewer of them.

*Answers.* For `AsBeforeOrAfter` every request has an invariant of its own (`Prompt`). A request of
which no input has changed knows nothing but what is so (`Aware`: its metadata, its
BareMetalHost, that it is not completed, the template that prevails, the file that is found
for it and its text), and what was due when it began is due now. When a first input changes,
either the request has not read that input yet and still is aware of all it knows, so
that it will be answered what is due from now on; or it has, and then what it foresees,
the answer it would get if nothing changed any more, does not depend on that input and remains
what was due before (`Foresees`, `OnceChanged`). `PromptChange` is that argument, with one lemma
for each of the five inputs; `DueConfigIs` and `DueInfoIs` show that what a request that has
read nothing foresees is what the documented priorities say, stated quite apart from the code's steps.
Two ways to be answered neither are named in the property: a file removed under its reader
(`Lost`), and in `template_info` a host that has lost the address between being looked up and being
asked about (`Moved`). The second came out of the proof: the invariant failed for it, and with a
BareMetalHost that is deleted, now in the run's instance, TLC shows that the property
is violated without the exemption.

*Locks.* Whoever is in a lock's queue is there once and is at a step of its script that asks
for that lock (`Queued`). Every script but that of `debug_state` takes its locks in the order
identity, bmh, containers or data_namespaces, and asks for none below one it holds
(a fact about the translated scripts, proved script by script). So of any tasks that are said
to wait for one another in a circle, one asks for a lock no lower than any other does; the first
of them in that lock's queue waits for a holder, which asks for a higher lock, and there is
none. Assumed: no task runs `debug_state`, for which `locks_debug` shows the circle.

Only model-checked is liveness (`Recurs`, `Answered`, `EveryoneServed`, `RefreshRecurs`, `Heals`,
`PathHeals`, `KeysArrive`), which the prover cannot reach: it has no rules for fairness and
ENABLED. Every invariant and action property of the passing runs is a theorem. The
library's induction theorems take an operator, which the provers cannot instantiate; where a proof
needs one it goes by the least number at which a claim fails, instead. The modules use no
recursive definition.

## Not modelled, and what could follow

- *IMDSv2 tokens.* They are issued and pruned, but `validate_imds_token` is called by no handler
  and `is_unknown_ip` by none outside tests: a token never decides an answer, and what
  expires is never looked at.
- *Handlers that format one field of an entry*: pure functions of what `lookup_or_404`
  returns. That it may answer 404 during a rebuild (`cache.rs:150`) is listed as a hazard;
  nothing in the code or its documents excludes it.
- *Agent status*: it prints answers and keeps nothing.
- *Configuration, data types, logging, start-up*: parsing and wiring; an address that changes
  across a restart is in `MetadataPath`.
- A configuration without a NAT manager (then nobody keeps the rule, and `PathHeals` is not
  promised); more than one DHCP source, and leases that change while they are read; who may
  read the agent's files: sshd runs `authorized-keys` as `nobody`, who may not read what
  `refresh` leaves in mode 0600.
- Renaming a host, data networks that come and go under the BMH watcher, names in AMO that
  differ from their keys, refreshes of the agent that overlap, and the timestamps of
  templates.

What could follow: `AmoWatcher` and `BmhWatcher` composed with `MetadataService` in the
place of their `served`.
