--------------------------- MODULE MCProvisioning ---------------------------
(* A small instance of Provisioning: a host whose address is at times a    *)
(* container's, an Ignition template found by its extension and a kickstart*)
(* template, two API clients.                                              *)
EXTENDS Provisioning, TLC

CONSTANTS ip1, a1, a2, r1, IgnText, KsText

Clients == Permutations({a1, a2})

NoFn == [x \in {} |-> x]

Runner     == <<<<"fcos">>, "runner">>
RunnerJson == <<<<"fcos">>, "runner.ign.json">>
BaseKs     == <<<<"rhel">>, "base.ks">>

MCNames == {Runner, RunnerJson, BaseKs}
MCExtensions == [n \in MCNames |-> IF n = Runner THEN <<RunnerJson>> ELSE <<>>]
MCAssignable == {BaseKs}
MCFormat == (Runner :> "cloudconfig") @@ (RunnerJson :> "ignition") @@ (BaseKs :> "kickstart")

Text(json, us, fs, ls) ==
    [json |-> json, users |-> us, files |-> fs, lines |-> ls]

IgnUser(keys) == [keys |-> keys, account |-> FALSE, wheel |-> FALSE]
File(via, text) == [via |-> via, text |-> text]

MCParsed ==
    IgnText :> Text(TRUE, [core |-> IgnUser({"tk"})], HostnameFile :> File("inline", HOSTNAME),
                    <<<<"garbled">>>>) @@
    KsText  :> Text(FALSE, NoFn, NoFn, <<<<"autopart">>, <<"%packages">>, <<"%post">>>>) @@
    Empty   :> Text(FALSE, NoFn, NoFn, <<>>) @@
    Garbled :> Text(FALSE, NoFn, NoFn, <<<<"garbled">>>>)

\* Text that is no JSON for an Ignition template, and a template that is found
\* before the one with the extension.
MCPutRequests ==
    {[name |-> RunnerJson, text |-> KsText, mode |-> "forever"],
     [name |-> Runner, text |-> IgnText, mode |-> "oneshot"]}

\* h1 with a system user core and an identity user; the container "main.pod".
HostOf(name, public_keys, users) ==
    [local_hostname |-> name, hostname |-> <<name, ".g10.lo">>,
     public_keys |-> public_keys, users |-> users]

HostMetadata ==
    HostOf("h1", [core |-> {"k1"}, root |-> {"k1"}],
           [alice |-> [sudo |-> TRUE, keys |-> {"k1"}]])

MCMetas ==
    {HostMetadata,
     HostOf("main.pod", [alice |-> {"k1"}, admin |-> {"k1"}, root |-> {"k1"}],
            [alice |-> [sudo |-> TRUE, keys |-> {"k1"}],
             root  |-> [sudo |-> TRUE, keys |-> {"k1"}]])}

Host(template, ignition, kickstart) ==
    [ip_to_hostname |-> ip1 :> "h1",
     hosts |-> [h1 |-> [template |-> template, image |-> <<"fcos", "44">>,
                        ignition |-> ignition, kickstart |-> kickstart]]]

\* Deleted, known by a lease only, with a template named without image type, with
\* bases.
MCBmhStates ==
    {[ip_to_hostname |-> NoFn, hosts |-> NoFn],
     [ip_to_hostname |-> ip1 :> "h1", hosts |-> NoFn],
     Host([image_type |-> {}, name |-> "runner"], {}, {}),
     Host(NoTemplate, {[users |-> [root |-> IgnUser({"bk"})], files |-> NoFn]},
          {<<<<"network", "own">>, <<"%post">>>>})}

MCConfigRules ==
    <<[hosts |-> {"h2"}, template |-> [image_type |-> {<<"rhel">>}, name |-> "base.ks"]],
      [hosts |-> {Wildcard},
       template |-> [image_type |-> {<<"fcos">>}, name |-> "runner.ign.json"]]>>

\* Two templates are there, put with that mode. Everything else is reached by
\* changes.
MCInit(mode) ==
    /\ Init
    /\ files = [n \in Names |-> CASE n = RunnerJson -> IgnText
                                [] n = BaseKs -> KsText [] OTHER -> NoFile]
    /\ \A n \in Names : metas[n] \in {mode, NoFile}
    /\ metadata[ip1] # NoMeta /\ metadata[ip1].local_hostname = "h1"
    /\ completed = {}
    /\ "h1" \in DOMAIN bmh.hosts
    /\ assignments = [h \in Hosts |-> NoTemplate]

MCSpec == MCInit("oneshot") /\ [][Next]_vars

MCForeverSpec == MCInit("forever") /\ [][Next]_vars
=============================================================================
