---------------------------- MODULE Provisioning ----------------------------
(***************************************************************************)
(* A host asks for its provisioning config: src/provision.rs and the       *)
(* handlers user_data, ignition_config, kickstart_config, template_info,   *)
(* oneshot_provisioned and those of assignments of                         *)
(* src/metadata/handlers.rs, on the TemplateStore.                         *)
(*                                                                         *)
(* One request reads, one after the other and under guards that it drops   *)
(* at once: its metadata, its BareMetalHost, the oneshot state, the        *)
(* assignments, and the template's file. Every one of them may change in   *)
(* between. What resolve_on_demand answers (MetadataCache) and what the    *)
(* BMH watcher stores (BmhWatcher) changes here at any time; a handler     *)
(* that changes assignments or oneshot state holds the write guard until   *)
(* the save has ended (PersistedState).                                    *)
(***************************************************************************)
EXTENDS TemplateStore, ProvisionConfig

CONSTANTS
    IPs,            \* addresses that ask
    Hosts,          \* short host names
    Metas,          \* metadata an address may resolve to
    NoMeta,         \* Option::None for a HostMetadata
    BmhStates,      \* contents of BmhState
    NoTemplate,     \* no template named
    Format,         \* Names -> "ignition", "kickstart", "cloudconfig", by extension
    ConfigRules,    \* [[templates.assignments]], in order
    Wildcard,       \* the host pattern "*"
    PutRequests,    \* templates that are put
    Assignable,     \* templates that are assigned to hosts
    Versions,       \* last parts of an image's name that begin with a digit
    Requests,       \* requests of hosts: callers of the store
    Admins,         \* requests to the REST API that use the store
    MaxChanges      \* bound: changes of anything in a behaviour

ASSUME CallersAssumption == Callers = Requests \cup Admins /\ Requests \cap Admins = {}
ASSUME BoundAssumption   == MaxChanges \in Nat

\* mkube, the identity data and the API name hosts and templates that there may be.
ASSUME HostsAssumption ==
    /\ IPs # {} /\ Hosts # {}
    /\ \A m \in Metas : m.local_hostname \in Hosts
    /\ \A b \in BmhStates : \A ip \in DOMAIN b.ip_to_hostname : b.ip_to_hostname[ip] \in Hosts
ASSUME MetasAssumption == \A m \in Metas : IsMeta(m)
ASSUME PutsAssumption ==
    PutRequests \subseteq [name : Names, text : Texts, mode : Modes] /\ Assignable \subseteq Names

VARIABLES
    metadata,       \* what resolve_on_demand gives for each address
    bmh,            \* ip_to_hostname and hosts of BmhState
    assignments,    \* REST assignments
    completed,      \* hosts whose oneshot is recorded as completed
    locked,         \* maps behind a write guard that is held across a save
    req,            \* each request
    before,         \* history: what was due to each request when it began
    changed,        \* history: changes of its inputs since (two are many)
    changes         \* changes so far

inputs  == <<metadata, bmh, assignments, completed, files>>
vars    == <<store, metadata, bmh, assignments, completed, locked, req, before,
             changed, changes>>

\* user_data runs the same code as ignition_config.
Endpoints == {"ignition_config", "kickstart_config", "template_info"}

----------------------------------------------------------------------------
(* Which template a host is given.                                         *)

\* "fcos-44" is fcos: a last part that begins with a digit is a version.
extract_image_type(image) ==
    IF Len(image) > 1 /\ image[Len(image)] \in Versions
    THEN SubSeq(image, 1, Len(image) - 1) ELSE image

\* Without a slash the image type is that of the BareMetalHost's image.
parse_template_ref(ref, image) ==
    IF ref.image_type = {} THEN <<extract_image_type(image), ref.name>>
    ELSE <<CHOOSE t \in ref.image_type : TRUE, ref.name>>

\* A config rule without a slash means the image type "default".
parse_config_template_ref(ref) == parse_template_ref(ref, <<"default">>)

\* The first config rule that names the host, or every host.
config_assignment(host) ==
    LET rules == SelectSeq(ConfigRules, LAMBDA r : r.hosts \cap {host, Wildcard} # {})
    IN  IF rules = <<>> THEN NoTemplate ELSE parse_config_template_ref(rules[1].template)

\* The template a BareMetalHost (an Option) names.
bmh_template(found) ==
    IF \E b \in found : b.template # NoTemplate
    THEN LET b == CHOOSE b \in found : TRUE IN parse_template_ref(b.template, b.image)
    ELSE NoTemplate

ASSUME TemplatesAssumption ==
    /\ \A b \in BmhStates : \A h \in DOMAIN b.hosts :
          bmh_template({b.hosts[h]}) \in Names \cup {NoTemplate}
    /\ \A h \in Hosts : config_assignment(h) \in Names \cup {NoTemplate}

\* What a template's text or a BareMetalHost's base is parsed to.
ASSUME BasesAssumption ==
    /\ \A t \in Contents :
          /\ {"json", "lines"} \subseteq DOMAIN Parsed[t] /\ Parsed[t].json \in BOOLEAN
          /\ IsIgnition(Parsed[t]) /\ IsKickstart(Parsed[t].lines)
    /\ \A b \in BmhStates : \A h \in DOMAIN b.hosts :
          /\ \A i \in b.hosts[h].ignition : IsIgnition(i)
          /\ \A l \in b.hosts[h].kickstart : IsKickstart(l)

get_bmh(host) == {bmh.hosts[h] : h \in {host} \cap DOMAIN bmh.hosts}

\* Option::or of a BMH template, a REST assignment and a config rule.
Prevailing(named, assigned, configured) ==
    IF named # NoTemplate THEN named
    ELSE IF assigned # NoTemplate THEN assigned ELSE configured

----------------------------------------------------------------------------
(* Replies.                                                                *)

NoReply == [kind |-> "none"]
Refused == [kind |-> "refused"]

\* build_ignition or build_kickstart, by endpoint, with the base of the
\* BareMetalHost that the request has read.
DefaultConfig(endpoint, meta, found) ==
    [kind |-> "default",
     config |-> IF endpoint = "kickstart_config"
                THEN [lines |-> build_kickstart(meta, UNION {b.kickstart : b \in found})]
                ELSE build_ignition(meta, UNION {b.ignition : b \in found})]

TemplateConfig(name, text, meta) ==
    [kind |-> "template", format |-> Format[name], config |-> Render(Format[name], text, meta)]

Info(source, template) == [kind |-> "info", source |-> source, template |-> template]

NoInfo == Info("none", NoTemplate)

\* template_info: the source is the first of the three that names a template. A
\* reference is reported as it is written; here it is the template it stands for.
InfoOf(named, assigned, configured) ==
    LET source == IF named # NoTemplate THEN "bmh"
                  ELSE IF assigned # NoTemplate THEN "rest_assignment"
                  ELSE IF configured # NoTemplate THEN "config" ELSE "none"
    IN  Info(source, Prevailing(named, assigned, configured))

----------------------------------------------------------------------------
(* What is due, from the documented priorities, in one look at the inputs. *)

\* "If host completed a oneshot [...] BMH spec.template field [...] REST API
\* assignment [...] Config-based": the sources in order, and the first of them
\* that is not silent (an Option). A completion counts whatever the mode of the
\* template that is next, as resolve_and_build has it; see ForeverOnEveryBoot.
Sources(host) == <<Info("bmh", bmh_template(get_bmh(host))),
                   Info("rest_assignment", assignments[host]),
                   Info("config", config_assignment(host))>>

FirstSource(host) ==
    {Sources(host)[i] : i \in {j \in 1 .. 3 :
        /\ Sources(host)[j].template # NoTemplate
        /\ \A k \in 1 .. (j - 1) : Sources(host)[k].template = NoTemplate}}

DueConfig(endpoint, ip) ==
    IF metadata[ip] = NoMeta THEN Refused
    ELSE LET meta    == metadata[ip]
             host    == meta.local_hostname
             default == DefaultConfig(endpoint, meta, get_bmh(host))
             stored  == UNION {Found(s.template) : s \in FirstSource(host)}
         IN  IF host \in completed \/ stored = {} THEN default
             ELSE LET name == CHOOSE m \in stored : TRUE
                  IN  TemplateConfig(name, files[name], meta)

DueInfo(ip) ==
    LET host == bmh.ip_to_hostname[ip]
    IN  IF ip \notin DOMAIN bmh.ip_to_hostname THEN NoInfo
        ELSE IF host \in completed \/ FirstSource(host) = {} THEN NoInfo
        ELSE CHOOSE s \in FirstSource(host) : TRUE

Due(endpoint, ip) ==
    IF endpoint = "template_info" THEN DueInfo(ip) ELSE DueConfig(endpoint, ip)

NothingDue == [due |-> NoReply, done |-> FALSE]

\* The host that recorded its completion by this address, and that the cache
\* names for it, is still completed.
StillDone(ip) ==
    /\ metadata[ip] # NoMeta /\ ip \in DOMAIN bmh.ip_to_hostname
    /\ bmh.ip_to_hostname[ip] = metadata[ip].local_hostname
    /\ bmh.ip_to_hostname[ip] \in completed

Begins(r) == req[r].at = "idle" /\ req'[r].at # "idle"

Remember ==
    /\ before' = [r \in Requests |->
          IF Begins(r) THEN [due  |-> Due(req'[r].endpoint, req'[r].ip),
                             done |-> StillDone(req'[r].ip)]
          ELSE IF req'[r].at = "idle" THEN NothingDue
          ELSE [before[r] EXCEPT !.done = @ /\ req[r].host \in completed']]
    /\ changed' = [r \in Requests |->
          IF Begins(r) \/ req'[r].at = "idle" THEN 0
          ELSE IF inputs' # inputs /\ changed[r] < 2 THEN changed[r] + 1 ELSE changed[r]]

----------------------------------------------------------------------------
IdleRequest == [at |-> "idle", endpoint |-> "ignition_config", ip |-> CHOOSE i \in IPs : TRUE,
                meta |-> NoMeta, host |-> CHOOSE h \in Hosts : TRUE, found |-> {},
                template |-> NoTemplate, blind |-> FALSE, reply |-> NoReply]

Init ==
    /\ StoreInit
    /\ metadata \in [IPs -> Metas \cup {NoMeta}]
    /\ bmh \in BmhStates
    /\ assignments \in [Hosts -> Assignable \cup {NoTemplate}]     \* load_assignments
    /\ completed \in SUBSET Hosts                             \* load_oneshot
    /\ locked = {}
    /\ req = [r \in Requests |-> IdleRequest]
    /\ before = [r \in Requests |-> NothingDue]
    /\ changed = [r \in Requests |-> 0]
    /\ changes = 0

Step(r, k) == req' = [req EXCEPT ![r] = k]

Answer(r, reply) == Step(r, [req[r] EXCEPT !.at = "idle", !.reply = reply])

(* user_data, ignition_config, kickstart_config.                           *)

Begin(r, ip, endpoint) ==
    /\ req[r].at = "idle" /\ endpoint # "template_info"
    /\ LET k == [IdleRequest EXCEPT !.endpoint = endpoint, !.ip = ip, !.meta = metadata[ip]]
       IN  Step(r, IF metadata[ip] = NoMeta THEN [k EXCEPT !.reply = Refused]
                   ELSE [k EXCEPT !.at = "get_bmh", !.host = metadata[ip].local_hostname])
    /\ UNCHANGED <<store, metadata, bmh, assignments, completed, locked, changes>>
    /\ Remember

GetBmh(r) ==
    /\ req[r].at = "get_bmh"
    /\ Step(r, [req[r] EXCEPT !.found = get_bmh(req[r].host),
                              !.at = IF req[r].endpoint = "template_info"
                                     THEN "info" ELSE "oneshot"])
    /\ UNCHANGED <<store, metadata, bmh, assignments, completed, locked, changes>>
    /\ Remember

AnswerDefault(r) ==
    Answer(r, DefaultConfig(req[r].endpoint, req[r].meta, req[r].found))

\* Mutation of CheckOneshot: the state is looked up by the full host name.
CheckOneshotByFqdn(r) ==
    /\ req[r].at = "oneshot" /\ "oneshot" \notin locked
    /\ IF req[r].meta.hostname \in completed THEN AnswerDefault(r)
       ELSE Step(r, [req[r] EXCEPT !.at = "resolve"])
    /\ UNCHANGED <<store, metadata, bmh, assignments, completed, locked, changes>>
    /\ Remember

\* resolve_and_build, step 1: whatever the template's mode.
CheckOneshot(r) ==
    /\ req[r].at = "oneshot" /\ "oneshot" \notin locked
    /\ IF req[r].host \in completed THEN AnswerDefault(r)
       ELSE Step(r, [req[r] EXCEPT !.at = "resolve"])
    /\ UNCHANGED <<store, metadata, bmh, assignments, completed, locked, changes>>
    /\ Remember

Chosen(r, template) ==
    IF template = NoTemplate THEN AnswerDefault(r)
    ELSE Step(r, [req[r] EXCEPT !.at = "load", !.template = template])

\* Mutation of resolve_template_ref: a REST assignment goes before the BMH's.
AssignmentFirst(r) ==
    /\ req[r].at = "resolve" /\ "assignments" \notin locked
    /\ Chosen(r, Prevailing(assignments[req[r].host], bmh_template(req[r].found),
                            config_assignment(req[r].host)))
    /\ UNCHANGED <<store, metadata, bmh, assignments, completed, locked, changes>>
    /\ Remember

\* Only where the BareMetalHost names no template are the assignments locked.
resolve_template_ref(r) ==
    /\ req[r].at = "resolve"
    /\ LET named == bmh_template(req[r].found)
       IN  \/ named # NoTemplate /\ Chosen(r, named)
           \/ /\ named = NoTemplate /\ "assignments" \notin locked
              /\ Chosen(r, Prevailing(NoTemplate, assignments[req[r].host],
                                      config_assignment(req[r].host)))
    /\ UNCHANGED <<store, metadata, bmh, assignments, completed, locked, changes>>
    /\ Remember

Load(r) ==
    /\ req[r].at = "load"
    /\ Get(r, req[r].template)
    /\ Step(r, [req[r] EXCEPT !.at = "loading"])
    /\ UNCHANGED <<metadata, bmh, assignments, completed, locked, changes>>
    /\ Remember

\* No such template, or an error: the default config.
Serve(r) ==
    /\ req[r].at = "loading" /\ call[r].at = "done"
    /\ IF call[r].status = "found"
       THEN Answer(r, TemplateConfig(call[r].name, call[r].text, req[r].meta))
       ELSE AnswerDefault(r)
    /\ call' = [call EXCEPT ![r] = Nothing]
    /\ UNCHANGED <<files, metas, kept, metadata, bmh, assignments, completed, locked, changes>>
    /\ Remember

\* The client hangs up: the handler is dropped where it waits.
Abandon(r) ==
    /\ req[r].at # "idle"
    /\ Step(r, IdleRequest)
    /\ call' = [call EXCEPT ![r] = Nothing]
    /\ UNCHANGED <<files, metas, kept, metadata, bmh, assignments, completed, locked, changes>>
    /\ Remember

----------------------------------------------------------------------------
(* template_info: the host is the BMH's for the address.                   *)

BeginInfo(r, ip) ==
    /\ req[r].at = "idle"
    /\ LET k == [IdleRequest EXCEPT !.endpoint = "template_info", !.ip = ip]
       IN  Step(r, IF ip \in DOMAIN bmh.ip_to_hostname
                   THEN [k EXCEPT !.at = "info_oneshot", !.host = bmh.ip_to_hostname[ip]]
                   ELSE [k EXCEPT !.reply = NoInfo])
    /\ UNCHANGED <<store, metadata, bmh, assignments, completed, locked, changes>>
    /\ Remember

InfoOneshot(r) ==
    /\ req[r].at = "info_oneshot" /\ "oneshot" \notin locked
    /\ IF req[r].host \in completed THEN Answer(r, NoInfo)
       ELSE Step(r, [req[r] EXCEPT !.at = "get_bmh"])
    /\ UNCHANGED <<store, metadata, bmh, assignments, completed, locked, changes>>
    /\ Remember

\* try_read: while an assignment is being saved there seems to be none.
AnswerInfo(r) ==
    /\ req[r].at = "info"
    /\ LET blind    == "assignments" \in locked
           assigned == IF blind THEN NoTemplate ELSE assignments[req[r].host]
       IN  Step(r, [req[r] EXCEPT !.at = "idle", !.blind = blind,
                      !.reply = InfoOf(bmh_template(req[r].found), assigned,
                                       config_assignment(req[r].host))])
    /\ UNCHANGED <<store, metadata, bmh, assignments, completed, locked, changes>>
    /\ Remember

----------------------------------------------------------------------------
(* What changes meanwhile.                                                 *)

Counted == changes < MaxChanges /\ changes' = changes + 1

\* assignments_put and assignments_delete, oneshot_provisioned and
\* oneshot_delete: the change and the start of the save, then its end.
Assign(h, template) ==
    /\ Counted /\ "assignments" \notin locked /\ assignments[h] # template
    /\ assignments' = [assignments EXCEPT ![h] = template]
    /\ locked' = locked \cup {"assignments"}
    /\ UNCHANGED <<store, metadata, bmh, completed, req>>
    /\ Remember

\* The host says so itself: by its address, and the BMH's name for it.
oneshot_provisioned(ip) ==
    /\ Counted /\ "oneshot" \notin locked /\ ip \in DOMAIN bmh.ip_to_hostname
    /\ completed' = completed \cup {bmh.ip_to_hostname[ip]}
    /\ locked' = locked \cup {"oneshot"}
    /\ UNCHANGED <<store, metadata, bmh, assignments, req>>
    /\ Remember

oneshot_delete(h) ==
    /\ Counted /\ "oneshot" \notin locked /\ h \in completed
    /\ completed' = completed \ {h}
    /\ locked' = locked \cup {"oneshot"}
    /\ UNCHANGED <<store, metadata, bmh, assignments, req>>
    /\ Remember

EndSave(map) ==
    /\ map \in locked
    /\ locked' = locked \ {map}
    /\ UNCHANGED <<store, metadata, bmh, assignments, completed, req, changes>>
    /\ Remember

\* A rebuild of the cache, an event of the BMH watcher.
ChangeMetadata(ip, meta) ==
    /\ Counted /\ metadata[ip] # meta /\ metadata' = [metadata EXCEPT ![ip] = meta]
    /\ UNCHANGED <<store, bmh, assignments, completed, locked, req>>
    /\ Remember

ChangeBmh(b) ==
    /\ Counted /\ bmh # b /\ bmh' = b
    /\ UNCHANGED <<store, metadata, assignments, completed, locked, req>>
    /\ Remember

\* templates_put, templates_delete, templates_backup, templates_restore.
UseStore(c) ==
    /\ Counted
    /\ \/ \E p \in PutRequests : Put(c, p.name, p.text, p.mode)
       \/ \E n \in Names : Delete(c, n)
       \/ Backup(c)
       \/ \E d \in Admins : /\ call[d].op = "backup" /\ call[d].status = "ok"
                            /\ Restore(c, call[d].got)
    /\ UNCHANGED <<metadata, bmh, assignments, completed, locked, req>>
    /\ Remember

StoreStep(c) ==
    /\ Proceed(c) \/ (c \in Admins /\ (FailWrite(c) \/ HangUp(c)))
    /\ UNCHANGED <<metadata, bmh, assignments, completed, locked, req, changes>>
    /\ Remember

Change ==
    \/ \E h \in Hosts : \/ oneshot_delete(h)
                        \/ \E t \in Assignable \cup {NoTemplate} : Assign(h, t)
    \/ \E ip \in IPs : \/ oneshot_provisioned(ip)
                       \/ \E m \in Metas \cup {NoMeta} : ChangeMetadata(ip, m)
    \/ \E b \in BmhStates : ChangeBmh(b)
    \/ \E m \in {"assignments", "oneshot"} : EndSave(m)
    \/ \E c \in Admins : UseStore(c)
    \/ \E c \in Callers : StoreStep(c)

Request(r) ==
    \/ \E ip \in IPs : \/ BeginInfo(r, ip)
                       \/ \E e \in Endpoints : Begin(r, ip, e)
    \/ GetBmh(r) \/ CheckOneshot(r) \/ resolve_template_ref(r) \/ Load(r) \/ Serve(r)
    \/ InfoOneshot(r) \/ AnswerInfo(r) \/ Abandon(r)

Next == Change \/ \E r \in Requests : Request(r)

Spec == Init /\ [][Next]_vars

----------------------------------------------------------------------------
(* Properties.                                                             *)

TypeOK ==
    /\ StoreTypeOK
    /\ metadata \in [IPs -> Metas \cup {NoMeta}]
    /\ bmh \in BmhStates
    /\ assignments \in [Hosts -> Assignable \cup {NoTemplate}]
    /\ completed \subseteq Hosts
    /\ locked \subseteq {"assignments", "oneshot"}
    /\ \A r \in Requests :
          /\ req[r].at \in {"idle", "get_bmh", "oneshot", "resolve", "load", "loading",
                            "info_oneshot", "info"}
          /\ call[r].op \in {"none", "get"} /\ (call[r].op = "get") = (req[r].at = "loading")
          /\ req[r].reply.kind \in {"none", "refused", "default", "template", "info"}
    /\ changes \in 0 .. MaxChanges

Answers(r) == req[r].at # "idle" /\ req'[r].at = "idle" /\ req'[r].reply # NoReply

\* template_info looks up the host of an address and then asks about the host,
\* which may by then not be the address's.
Moved(r) ==
    /\ req[r].endpoint = "template_info"
    /\ req[r].ip \notin DOMAIN bmh.ip_to_hostname \/ bmh.ip_to_hostname[req[r].ip] # req[r].host

\* A request reads its five inputs at five moments. If at most one of them
\* changed in between, once, then what it is answered was due, by the documented
\* priorities, at the moment it began or at the moment it is answered, and is no
\* mixture: only a template removed under its reader is replaced by the default,
\* and only template_info overlooks an assignment, while one is being saved, or
\* tells of a host that has lost the address.
AsBeforeOrAfter ==
    [][\A r \in Requests : Answers(r) /\ changed[r] < 2 =>
          \/ req'[r].reply \in {before[r].due, Due(req[r].endpoint, req[r].ip)}
          \/ req'[r].blind \/ Moved(r)
          \/ req[r].at = "loading" /\ call[r].status = "error"
                /\ req'[r].reply.kind = "default"]_vars

\* The modes of the template that a reply gives, as get has read it, or tells of.
ModesGiven(r) ==
    LET reply == req'[r].reply
    IN  IF reply.kind = "template" THEN {call[r].mode}
        ELSE IF reply.kind = "info" /\ reply.template # NoTemplate
             THEN {ModeOf(metas[n]) : n \in Found(reply.template)} ELSE {}

\* "If the template is oneshot, [...] subsequent boots return no template": a host
\* that has recorded its completion before it asks, and is not reset meanwhile, is
\* given no oneshot template and told of none, whatever else changes while it is
\* served.
NoOneshotOnceCompleted ==
    [][\A r \in Requests : Answers(r) /\ before[r].done => "oneshot" \notin ModesGiven(r)]_vars

\* The file of the template that prevails for the host, with its mode.
IsForever(host) == \E s \in FirstSource(host) : \E n \in Found(s.template) : metas[n] = "forever"

\* "Forever mode -- template is served on every boot": where the template of a
\* host has that mode, and nothing has changed since it asked for its config, it
\* is given that template.
ForeverOnEveryBoot ==
    [][\A r \in Requests :
          Answers(r) /\ changed[r] = 0 /\ req[r].endpoint # "template_info"
             /\ IsForever(req[r].host) => req'[r].reply.kind = "template"]_vars

\* Who may log in on a host that was given a config (or a text as it is).
Logins(config) ==
    (IF "users" \in DOMAIN config THEN IgnitionLogins(config) ELSE {})
      \cup (IF "lines" \in DOMAIN config THEN KickstartLogins(config.lines) ELSE {})

Bases(found) ==
    {Parsed[t] : t \in Contents} \cup {[lines |-> l] : l \in UNION {b.kickstart : b \in found}}
      \cup UNION {b.ignition : b \in found}

\* A kickstart must not give keys to an account that does not exist.
Granted(config, meta) ==
    IF "users" \in DOMAIN config THEN MetaLogins(meta)
    ELSE {l \in MetaLogins(meta) : l[1] \in {"root"} \cup DOMAIN meta.users}

Lawful(config, meta, found) ==
    /\ Logins(config) \subseteq MetaLogins(meta) \cup UNION {Logins(b) : b \in Bases(found)}
    /\ "json" \in DOMAIN config \/ Granted(config, meta) \subseteq Logins(config)

\* Whichever endpoint a host asks and whatever base is found for it, the config
\* lets in everyone the identity data grants its address (in a kickstart, those
\* with an account that exists), and nobody but them and the base's own users;
\* only a cloud-config, and text no parser accepts, go out as they are.
GrantedLogins ==
    \A r \in Requests : req[r].reply.kind \in {"default", "template"} =>
                             Lawful(req[r].reply.config, req[r].meta, req[r].found)
=============================================================================
