--------------------------- MODULE ProvisionConfig ---------------------------
(***************************************************************************)
(* The configs src/provision.rs builds for a host: the login metadata of   *)
(* the address merged into a base (the BareMetalHost's own, or a template),*)
(* or a default one without a base.                                        *)
(*                                                                         *)
(* An Ignition config is its users and its files; a kickstart is a sequence*)
(* of lines, each a tuple that starts with its command. meta.public_keys   *)
(* and meta.users are those of Resolve. Numbers, shells and wording are    *)
(* left out.                                                               *)
(***************************************************************************)
EXTENDS Naturals, Sequences, SequencesExt

CONSTANTS
    HOSTNAME,     \* the placeholder {{HOSTNAME}} of a template
    Parsed        \* what each text of a template says: [json, users, files, lines]

HostnameFile == "/etc/hostname"

----------------------------------------------------------------------------
(* Ignition.                                                               *)

KeysOf(entries, u) == IF u \in DOMAIN entries THEN entries[u].keys ELSE {}

\* What is taken for an Ignition config or a kickstart has users, each with a
\* set of keys, and files; or a sequence of lines.
IsIgnition(config) ==
    /\ {"users", "files"} \subseteq DOMAIN config
    /\ \A u \in DOMAIN config.users : "keys" \in DOMAIN config.users[u]

IsKickstart(lines) == lines \in Seq({lines[i] : i \in DOMAIN lines})

\* Identity data lists finitely many users and keys.
IsMeta(meta) ==
    /\ IsFiniteSet(DOMAIN meta.public_keys) /\ IsFiniteSet(DOMAIN meta.users)
    /\ \A u \in DOMAIN meta.public_keys : IsFiniteSet(meta.public_keys[u])
    /\ \A u \in DOMAIN meta.users : IsFiniteSet(meta.users[u].keys)

\* A user of public_keys has keys only, one of cloud_config an account as well;
\* wheel is added to an identity user with sudo that is no system user.
build_ignition_users(meta) ==
    LET system   == DOMAIN meta.public_keys
        identity == DOMAIN meta.users
    IN  [u \in system \cup identity |->
            [keys    |-> (IF u \in system THEN meta.public_keys[u] ELSE {})
                            \cup KeysOf(meta.users, u),
             account |-> u \in identity,
             wheel   |-> u \in identity \ system /\ meta.users[u].sudo]]

\* Mutation of merge_ssh_keys: a user of the base that has keys gets no others.
merge_ssh_keys_absent(existing, new_user) ==
    IF existing.keys = {} THEN [existing EXCEPT !.keys = new_user.keys] ELSE existing

merge_ssh_keys(existing, new_user) == [existing EXCEPT !.keys = @ \cup new_user.keys]

\* The base's own hostname file stays.
ensure_hostname_file(files, hostname) ==
    [p \in DOMAIN files \cup {HostnameFile} |->
        IF p \in DOMAIN files THEN files[p] ELSE [via |-> "source", text |-> hostname]]

\* contents.inline becomes contents.source.
normalize_file_contents(files) == [p \in DOMAIN files |-> [files[p] EXCEPT !.via = "source"]]

\* Users of the base keep what they have and get keys, others are added whole.
merge_ignition(base, meta) ==
    LET new == build_ignition_users(meta)
    IN  [users |-> [u \in DOMAIN base.users \cup DOMAIN new |->
                      IF u \notin DOMAIN new THEN base.users[u]
                      ELSE IF u \in DOMAIN base.users
                           THEN merge_ssh_keys(base.users[u], new[u])
                           ELSE new[u]],
         files |-> normalize_file_contents(
                      ensure_hostname_file(base.files, meta.hostname))]

generate_ignition(meta) ==
    [users |-> build_ignition_users(meta),
     files |-> [p \in {HostnameFile} |-> [via |-> "source", text |-> meta.hostname]]]

----------------------------------------------------------------------------
(* Kickstart.                                                              *)

SshKeyLines(user, keys) ==
    [i \in DOMAIN SetToSeq(keys) |-> <<"sshkey", user, SetToSeq(keys)[i]>>]

SystemLines(meta, users) ==
    FlattenSeq([i \in DOMAIN SetToSeq(users) |->
        SshKeyLines(SetToSeq(users)[i], meta.public_keys[SetToSeq(users)[i]])])

AccountLines(meta) ==
    LET users == SetToSeq(DOMAIN meta.users)
    IN  FlattenSeq([i \in DOMAIN users |->
            <<<<"user", users[i]>>>> \o SshKeyLines(users[i], meta.users[users[i]].keys)])

\* Keys of a system user that is neither root nor an identity user are left out:
\* the account need not exist. The lines go before the first section.
merge_kickstart(lines, meta) ==
    LET pos    == SelectInSeq(lines, LAMBDA l : l[1] \in {"%packages", "%post"})
        before == IF pos = 0 THEN Len(lines) ELSE pos - 1
        named  == SelectInSeq(lines, LAMBDA l : l[1] = "network") # 0
        system == DOMAIN meta.public_keys \cap ({"root"} \cup DOMAIN meta.users)
    IN  SubSeq(lines, 1, before)
          \o (IF named THEN <<>> ELSE <<<<"network", meta.hostname>>>>)
          \o SystemLines(meta, system) \o AccountLines(meta)
          \o SubSeq(lines, before + 1, Len(lines))

generate_kickstart(meta) ==
    <<<<"network", meta.hostname>>>>
      \o SystemLines(meta, DOMAIN meta.public_keys) \o AccountLines(meta)
      \o <<<<"%packages">>>>

----------------------------------------------------------------------------
(* A template's text, what it parses to and what is served of it. Text that*)
(* no JSON parser accepts is served as it is, and so is a cloud-config.    *)

\* {{HOSTNAME}} is replaced wherever it stands for the text of a file or line.
substitute_variables(text, meta) ==
    [Parsed[text] EXCEPT
        !.files = [p \in DOMAIN @ |-> IF @[p].text = HOSTNAME
                                      THEN [@[p] EXCEPT !.text = meta.hostname] ELSE @[p]],
        !.lines = [i \in DOMAIN @ |-> IF @[i] = <<"network", HOSTNAME>>
                                      THEN <<"network", meta.hostname>> ELSE @[i]]]

Render(format, text, meta) ==
    LET content == substitute_variables(text, meta)
    IN  CASE format = "ignition" /\ content.json -> merge_ignition(content, meta)
          [] format = "kickstart" -> [lines |-> merge_kickstart(content.lines, meta)]
          [] OTHER                -> content

\* The default, with the BareMetalHost's own base where it has one.
build_ignition(meta, bases) ==
    IF bases = {} THEN generate_ignition(meta)
    ELSE merge_ignition(CHOOSE b \in bases : TRUE, meta)

build_kickstart(meta, bases) ==
    IF bases = {} THEN generate_kickstart(meta)
    ELSE merge_kickstart(CHOOSE b \in bases : TRUE, meta)

----------------------------------------------------------------------------
(* Who may log in with which key on a host that was given a config.        *)

IgnitionLogins(config) ==
    UNION {{<<u, k>> : k \in config.users[u].keys} : u \in DOMAIN config.users}

KickstartLogins(lines) ==
    {<<lines[i][2], lines[i][3]>> : i \in {j \in DOMAIN lines : lines[j][1] = "sshkey"}}

MetaLogins(meta) ==
    UNION ({{<<u, k>> : k \in meta.public_keys[u]} : u \in DOMAIN meta.public_keys}
             \cup {{<<u, k>> : k \in meta.users[u].keys} : u \in DOMAIN meta.users})
=============================================================================
