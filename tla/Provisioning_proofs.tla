------------------------ MODULE Provisioning_proofs ------------------------
(***************************************************************************)
(* Proofs about Provisioning and the TemplateStore in it, for any hosts,   *)
(* templates, texts, requests and API clients: what is read of a template  *)
(* is one template, who has completed is given none, a host that is served *)
(* lets in whom its metadata grants, and what it is served was due to it   *)
(* when it asked or is due when it is answered.                            *)
(***************************************************************************)
EXTENDS Provisioning, TemplateStore_proofs, FiniteSetTheorems, WellFoundedInduction

----------------------------------------------------------------------------
(* The inductive invariant.                                                *)

Templates == Names \cup {NoTemplate}

Places == {"idle", "get_bmh", "oneshot", "resolve", "load", "loading", "info_oneshot", "info"}

IsRequest(k) ==
    /\ k \in [at : {k.at}, endpoint : {k.endpoint}, ip : {k.ip}, meta : {k.meta},
              host : {k.host}, found : {k.found}, template : {k.template},
              blind : {k.blind}, reply : {k.reply}]
    /\ k.at \in Places /\ k.host \in Hosts
    /\ bmh_template(k.found) \in Templates
    /\ k.at = "load" => k.template \in Names
    /\ k.reply.kind \in {"none", "refused", "default", "template", "info"}

InputTypes ==
    /\ metadata \in [IPs -> Metas \cup {NoMeta}]
    /\ bmh \in BmhStates
    /\ assignments \in [Hosts -> Assignable \cup {NoTemplate}]
    /\ completed \subseteq Hosts
    /\ locked \subseteq {"assignments", "oneshot"}
    /\ changes \in 0 .. MaxChanges

\* A request uses the store while it loads its template, and only to get it.
Loads(r) ==
    /\ call[r].op \in {"none", "get"}
    /\ (call[r].op = "get") <=> (req[r].at = "loading")

\* A request that has found its host not completed, and looks for a template.
Looks(at, endpoint) ==
    \/ at \in {"resolve", "load", "loading", "info"}
    \/ at = "get_bmh" /\ endpoint = "template_info"

\* A completion that lasts is in force, and its host has not come so far as to
\* look for a template.
Barred(r) ==
    /\ before[r] = [due |-> before[r].due, done |-> before[r].done]
    /\ before[r].done \in BOOLEAN
    /\ before[r].done /\ req[r].at # "idle" =>
          req[r].host \in completed /\ ~Looks(req[r].at, req[r].endpoint)

IInv ==
    /\ StoreInv /\ InputTypes
    /\ req = [r \in Requests |-> req[r]]
    /\ \A r \in Requests : IsRequest(req[r]) /\ Loads(r) /\ Barred(r)

----------------------------------------------------------------------------
(* The operators.                                                          *)

LEMMA RequestsCall == \A r \in Requests : r \in Callers
  BY CallersAssumption

LEMMA IdleType == IsRequest(IdleRequest) /\ IdleRequest.at = "idle"
  <1>1. (CHOOSE h \in Hosts : TRUE) \in Hosts
    BY HostsAssumption
  <1>2. bmh_template({}) = NoTemplate
    BY DEF bmh_template
  <1>3. QED
    BY <1>1, <1>2 DEF IdleRequest, IsRequest, Places, NoReply, Templates

LEMMA BmhFacts ==
    ASSUME InputTypes, NEW host
    PROVE  bmh_template(get_bmh(host)) \in Templates
  <1>1. CASE host \in DOMAIN bmh.hosts
    <2>1. get_bmh(host) = {bmh.hosts[host]}
      BY <1>1 DEF get_bmh
    <2>2. QED
      BY <1>1, <2>1, TemplatesAssumption DEF InputTypes, Templates
  <1>2. CASE host \notin DOMAIN bmh.hosts
    <2>1. get_bmh(host) = {}
      BY <1>2 DEF get_bmh
    <2>2. bmh_template({}) = NoTemplate
      BY DEF bmh_template
    <2>3. QED
      BY <2>1, <2>2 DEF Templates
  <1>3. QED
    BY <1>1, <1>2

LEMMA ReplyKinds ==
    /\ \A e, m, f : DefaultConfig(e, m, f).kind = "default"
    /\ \A n, t, m : TemplateConfig(n, t, m).kind = "template"
    /\ \A a, b, d : InfoOf(a, b, d).kind = "info"
    /\ NoInfo.kind = "info" /\ Refused.kind = "refused" /\ NoReply.kind = "none"
  BY DEF DefaultConfig, TemplateConfig, InfoOf, Info, NoInfo, Refused, NoReply

LEMMA InitInv == Init => IInv
  <1> SUFFICES ASSUME Init PROVE IInv
    OBVIOUS
  <1>1. StoreInv /\ \A r \in Requests : call[r] = Nothing
    BY StoreInitInv, RequestsCall DEF Init, StoreInit
  <1>2. InputTypes
    BY BoundAssumption DEF Init, InputTypes
  <1>3. ASSUME NEW r \in Requests PROVE IsRequest(req[r]) /\ Loads(r) /\ Barred(r)
    <2>1. req[r] = IdleRequest /\ before[r] = NothingDue
      BY DEF Init
    <2>2. QED
      BY <1>1, <2>1, IdleType, NothingType DEF Loads, Barred, NothingDue
  <1>4. QED
    BY <1>1, <1>2, <1>3 DEF Init, IInv

----------------------------------------------------------------------------
(* Steps in general.                                                       *)

\* A completion remembered after a step was remembered before, unless the
\* request began with it, and its host has not been reset.
LEMMA DoneFacts ==
    ASSUME IInv, Remember, NEW r \in Requests
    PROVE  /\ before'[r] = [due |-> before'[r].due, done |-> before'[r].done]
           /\ before'[r].done \in BOOLEAN
           /\ Begins(r) /\ before'[r].done => StillDone(req'[r].ip)
           /\ ~Begins(r) /\ before'[r].done =>
                 req'[r].at # "idle" /\ before[r].done /\ req[r].host \in completed'
  <1>1. Barred(r)
    BY DEF IInv
  <1>2. before'[r] = IF Begins(r) THEN [due  |-> Due(req'[r].endpoint, req'[r].ip),
                                        done |-> StillDone(req'[r].ip)]
                     ELSE IF req'[r].at = "idle" THEN NothingDue
                     ELSE [before[r] EXCEPT !.done = @ /\ req[r].host \in completed']
    BY DEF Remember
  <1>3. CASE Begins(r)
    <2>1. before'[r] = [due  |-> Due(req'[r].endpoint, req'[r].ip),
                        done |-> StillDone(req'[r].ip)]
      BY <1>2, <1>3
    <2>2. StillDone(req'[r].ip) \in BOOLEAN
      BY DEF StillDone
    <2>3. QED
      BY <1>3, <2>1, <2>2
  <1>4. CASE ~Begins(r) /\ req'[r].at = "idle"
    BY <1>2, <1>4 DEF NothingDue
  <1>5. CASE ~Begins(r) /\ req'[r].at # "idle"
    <2> DEFINE done == before[r].done /\ req[r].host \in completed'
    <2>1. before'[r] = [due |-> before[r].due, done |-> done]
      BY <1>1, <1>2, <1>5 DEF Barred
    <2>2. done \in BOOLEAN
      OBVIOUS
    <2>3. done => before[r].done /\ req[r].host \in completed'
      OBVIOUS
    <2> HIDE DEF done
    <2>4. QED
      BY <1>5, <2>1, <2>2, <2>3
  <1>6. QED
    BY <1>3, <1>4, <1>5

\* A request that takes no step itself stays barred.
LEMMA OthersBarred ==
    ASSUME IInv, Remember, NEW r \in Requests, req'[r] = req[r]
    PROVE  Barred(r)'
  <1>1. ~Begins(r)
    BY DEF Begins
  <1>2. QED
    BY <1>1, DoneFacts DEF IInv, Barred

\* A step of another than a request: the inputs or the store change.
LEMMA ChangeStep ==
    ASSUME IInv, Remember, UNCHANGED req, InputTypes', StoreInv',
           \A r \in Requests : call'[r].op = call[r].op
    PROVE  IInv'
  BY OthersBarred DEF IInv, Loads

\* A step of the request r, on to k, or its end.
LEMMA RequestStep ==
    ASSUME IInv, NEW r \in Requests, NEW k, Step(r, k), Remember, StoreInv',
           UNCHANGED <<metadata, bmh, assignments, completed, locked, changes>>,
           \A d \in Requests \ {r} : call'[d].op = call[d].op,
           IsRequest(k),
           call'[r].op \in {"none", "get"}, (call'[r].op = "get") <=> (k.at = "loading"),
           \/ /\ req[r].at # "idle" /\ (k.at = "idle" \/ k.host = req[r].host)
              /\ Looks(k.at, k.endpoint) =>
                    req[r].host \notin completed \/ Looks(req[r].at, req[r].endpoint)
           \/ /\ req[r].at = "idle" /\ ~Looks(k.at, k.endpoint)
              /\ k.at # "idle" /\ StillDone(k.ip) => k.host \in completed
    PROVE  IInv'
  <1>1. /\ req' = [req EXCEPT ![r] = k] /\ req'[r] = k
        /\ \A d \in Requests \ {r} : req'[d] = req[d]
        /\ req' = [d \in Requests |-> req'[d]]
    BY DEF Step, IInv
  <1>2. InputTypes'
    BY DEF IInv, InputTypes
  <1>3. Barred(r)'
    <2>1. ASSUME before'[r].done, k.at # "idle"
          PROVE  k.host \in completed /\ ~Looks(k.at, k.endpoint)
      <3>1. CASE req[r].at # "idle"
        <4>1. before[r].done /\ req[r].host \in completed
          BY <1>1, <2>1, <3>1, DoneFacts DEF Begins
        <4>2. ~Looks(req[r].at, req[r].endpoint)
          BY <3>1, <4>1 DEF IInv, Barred
        <4>3. QED
          BY <2>1, <3>1, <4>1, <4>2
      <3>2. CASE req[r].at = "idle"
        <4>1. StillDone(k.ip)
          BY <1>1, <2>1, <3>2, DoneFacts DEF Begins
        <4>2. QED
          BY <2>1, <3>2, <4>1
      <3>3. QED
        BY <3>1, <3>2
    <2>2. QED
      BY <1>1, <2>1, DoneFacts DEF Barred
  <1>4. ASSUME NEW d \in Requests, d # r PROVE IsRequest(req'[d]) /\ Loads(d)' /\ Barred(d)'
    BY <1>1, <1>4, OthersBarred DEF IInv, Loads
  <1>5. Loads(r)'
    BY <1>1 DEF Loads
  <1>6. QED
    BY <1>1, <1>2, <1>3, <1>4, <1>5 DEF IInv

\* A step of r that leaves the store alone.
LEMMA AloneStep ==
    ASSUME IInv, NEW r \in Requests, NEW k, Step(r, k), Remember, UNCHANGED store,
           UNCHANGED <<metadata, bmh, assignments, completed, locked, changes>>,
           IsRequest(k), k.at # "loading", req[r].at # "loading",
           \/ /\ req[r].at # "idle" /\ (k.at = "idle" \/ k.host = req[r].host)
              /\ Looks(k.at, k.endpoint) =>
                    req[r].host \notin completed \/ Looks(req[r].at, req[r].endpoint)
           \/ /\ req[r].at = "idle" /\ ~Looks(k.at, k.endpoint)
              /\ k.at # "idle" /\ StillDone(k.ip) => k.host \in completed
    PROVE  IInv'
  <1>1. StoreInv'
    BY StoreStutter DEF IInv
  <1>2. UNCHANGED call
    BY DEF store
  <1>3. call[r].op = "none"
    BY DEF IInv, Loads
  <1>4. QED
    BY <1>1, <1>2, <1>3, RequestStep

----------------------------------------------------------------------------
(* One lemma per action: requests.                                         *)

\* A request is answered.
LEMMA AnswerInv ==
    ASSUME IInv, NEW r \in Requests, req[r].at \notin {"idle", "loading"}, NEW reply, Answer(r, reply),
           reply.kind \in {"none", "refused", "default", "template", "info"},
           UNCHANGED <<store, metadata, bmh, assignments, completed, locked, changes>>, Remember
    PROVE  IInv'
  <1> DEFINE k == [req[r] EXCEPT !.at = "idle", !.reply = reply]
  <1>1. IsRequest(req[r])
    BY DEF IInv
  <1>2. IsRequest(k) /\ k.at = "idle"
    BY <1>1 DEF IsRequest, Places
  <1>3. Step(r, k)
    BY DEF Answer
  <1> HIDE DEF k
  <1>4. ~Looks(k.at, k.endpoint)
    BY <1>2 DEF Looks
  <1>5. QED
    BY <1>2, <1>3, <1>4, AloneStep

\* A request is answered or goes on.
LEMMA GoOnInv ==
    ASSUME IInv, NEW r \in Requests, NEW at \in Places \ {"idle", "loading"},
           req[r].at \notin {"idle", "loading"},
           NEW found, bmh_template(found) \in Templates,
           NEW template, at = "load" => template \in Names,
           Step(r, [req[r] EXCEPT !.at = at, !.found = found, !.template = template]),
           Looks(at, req[r].endpoint) =>
              req[r].host \notin completed \/ Looks(req[r].at, req[r].endpoint),
           UNCHANGED <<store, metadata, bmh, assignments, completed, locked, changes>>, Remember
    PROVE  IInv'
  <1> DEFINE k == [req[r] EXCEPT !.at = at, !.found = found, !.template = template]
  <1>1. IsRequest(req[r])
    BY DEF IInv
  <1>2. IsRequest(k) /\ k.at = at /\ k.host = req[r].host /\ k.endpoint = req[r].endpoint
    BY <1>1 DEF IsRequest, Places
  <1> HIDE DEF k
  <1>3. Step(r, k)
    BY DEF k
  <1>4. QED
    BY <1>2, <1>3, AloneStep

LEMMA BeginInv ==
    ASSUME IInv, NEW r \in Requests, NEW ip \in IPs, NEW endpoint, Begin(r, ip, endpoint)
    PROVE  IInv'
  <1> DEFINE k == [IdleRequest EXCEPT !.endpoint = endpoint, !.ip = ip, !.meta = metadata[ip]]
  <1>1. CASE metadata[ip] = NoMeta
    <2> DEFINE l == [k EXCEPT !.reply = Refused]
    <2>1. IsRequest(l) /\ l.at = "idle"
      BY IdleType, ReplyKinds DEF IsRequest, Places
    <2>2. Step(r, l)
      BY <1>1 DEF Begin
    <2> HIDE DEF l
    <2>3. ~Looks(l.at, l.endpoint)
      BY <2>1 DEF Looks
    <2>4. QED
      BY <2>1, <2>2, <2>3, AloneStep DEF Begin
  <1>2. CASE metadata[ip] # NoMeta
    <2> DEFINE l == [k EXCEPT !.at = "get_bmh", !.host = metadata[ip].local_hostname]
    <2>1. metadata[ip].local_hostname \in Hosts
      BY <1>2, HostsAssumption DEF IInv, InputTypes
    <2>2. /\ IsRequest(l) /\ l.at = "get_bmh" /\ l.ip = ip /\ l.host = metadata[ip].local_hostname
          /\ l.endpoint = endpoint
      BY <2>1, IdleType DEF IsRequest, Places
    <2>3. Step(r, l)
      BY <1>2 DEF Begin
    <2> HIDE DEF l
    <2>4. StillDone(ip) => metadata[ip].local_hostname \in completed
      BY DEF StillDone
    <2>5. ~Looks(l.at, l.endpoint)
      BY <2>2 DEF Looks, Begin
    <2>6. QED
      BY <2>2, <2>3, <2>4, <2>5, AloneStep DEF Begin
  <1>3. QED
    BY <1>1, <1>2

LEMMA BeginInfoInv ==
    ASSUME IInv, NEW r \in Requests, NEW ip \in IPs, BeginInfo(r, ip)
    PROVE  IInv'
  <1> DEFINE k == [IdleRequest EXCEPT !.endpoint = "template_info", !.ip = ip]
  <1>1. CASE ip \in DOMAIN bmh.ip_to_hostname
    <2> DEFINE l == [k EXCEPT !.at = "info_oneshot", !.host = bmh.ip_to_hostname[ip]]
    <2>1. bmh.ip_to_hostname[ip] \in Hosts
      BY <1>1, HostsAssumption DEF IInv, InputTypes
    <2>2. IsRequest(l) /\ l.at = "info_oneshot" /\ l.ip = ip /\ l.host = bmh.ip_to_hostname[ip]
      BY <2>1, IdleType DEF IsRequest, Places
    <2>3. Step(r, l)
      BY <1>1 DEF BeginInfo
    <2> HIDE DEF l
    <2>4. StillDone(ip) => bmh.ip_to_hostname[ip] \in completed
      BY DEF StillDone
    <2>5. ~Looks(l.at, l.endpoint)
      BY <2>2 DEF Looks
    <2>6. QED
      BY <2>2, <2>3, <2>4, <2>5, AloneStep DEF BeginInfo
  <1>2. CASE ip \notin DOMAIN bmh.ip_to_hostname
    <2> DEFINE l == [k EXCEPT !.reply = NoInfo]
    <2>1. IsRequest(l) /\ l.at = "idle"
      BY IdleType, ReplyKinds DEF IsRequest, Places
    <2>2. Step(r, l)
      BY <1>2 DEF BeginInfo
    <2> HIDE DEF l
    <2>3. ~Looks(l.at, l.endpoint)
      BY <2>1 DEF Looks
    <2>4. QED
      BY <2>1, <2>2, <2>3, AloneStep DEF BeginInfo
  <1>3. QED
    BY <1>1, <1>2

\* Replacing what stays as it is changes nothing.
LEMMA Fields ==
    ASSUME NEW k, IsRequest(k), NEW at
    PROVE  /\ [k EXCEPT !.at = at]
                 = [k EXCEPT !.at = at, !.found = k.found, !.template = k.template]
           /\ \A f : [k EXCEPT !.found = f, !.at = at]
                        = [k EXCEPT !.at = at, !.found = f, !.template = k.template]
           /\ \A t : [k EXCEPT !.at = at, !.template = t]
                        = [k EXCEPT !.at = at, !.found = k.found, !.template = t]
  BY DEF IsRequest

LEMMA GetBmhInv ==
    ASSUME IInv, NEW r \in Requests, GetBmh(r)
    PROVE  IInv'
  <1> DEFINE at == IF req[r].endpoint = "template_info" THEN "info" ELSE "oneshot"
  <1>1. IsRequest(req[r]) /\ req[r].at = "get_bmh"
    BY DEF IInv, GetBmh
  <1>2. at \in Places \ {"idle", "loading", "load", "resolve"}
    BY DEF Places
  <1>3. Step(r, [req[r] EXCEPT !.found = get_bmh(req[r].host), !.at = at])
    BY DEF GetBmh
  <1> HIDE DEF at
  <1>4. Step(r, [req[r] EXCEPT !.at = at, !.found = get_bmh(req[r].host),
                               !.template = req[r].template])
    BY <1>1, <1>3, Fields
  <1>5. bmh_template(get_bmh(req[r].host)) \in Templates
    BY BmhFacts DEF IInv
  <1>6. Looks(at, req[r].endpoint) => Looks(req[r].at, req[r].endpoint)
    BY <1>1 DEF at, Looks
  <1>7. QED
    BY <1>1, <1>2, <1>4, <1>5, <1>6, GoOnInv DEF GetBmh

LEMMA CheckOneshotInv ==
    ASSUME IInv, NEW r \in Requests, CheckOneshot(r)
    PROVE  IInv'
  <1>1. IsRequest(req[r]) /\ req[r].at = "oneshot"
    BY DEF IInv, CheckOneshot
  <1>2. CASE req[r].host \in completed
    BY <1>1, <1>2, ReplyKinds, AnswerInv DEF CheckOneshot, AnswerDefault
  <1>3. CASE req[r].host \notin completed
    <2>1. Step(r, [req[r] EXCEPT !.at = "resolve", !.found = req[r].found,
                                 !.template = req[r].template])
      BY <1>1, <1>3, Fields DEF CheckOneshot
    <2>2. QED
      BY <1>1, <1>3, <2>1, GoOnInv DEF CheckOneshot, Places, IsRequest
  <1>4. QED
    BY <1>2, <1>3

LEMMA ResolveInv ==
    ASSUME IInv, NEW r \in Requests, resolve_template_ref(r)
    PROVE  IInv'
  <1>1. IsRequest(req[r]) /\ req[r].at = "resolve"
    BY DEF IInv, resolve_template_ref
  <1>2. PICK template \in Templates : Chosen(r, template)
    <2>1. bmh_template(req[r].found) \in Templates /\ req[r].host \in Hosts
      BY <1>1 DEF IsRequest
    <2>2. /\ assignments[req[r].host] \in Templates
          /\ config_assignment(req[r].host) \in Templates
      BY <2>1, PutsAssumption, TemplatesAssumption DEF IInv, InputTypes, Templates
    <2>3. QED
      BY <2>1, <2>2 DEF resolve_template_ref, Prevailing
  <1>3. CASE template = NoTemplate
    BY <1>1, <1>2, <1>3, ReplyKinds, AnswerInv DEF resolve_template_ref, Chosen, AnswerDefault
  <1>4. CASE template # NoTemplate
    <2>1. template \in Names
      BY <1>4 DEF Templates
    <2>2. Step(r, [req[r] EXCEPT !.at = "load", !.found = req[r].found, !.template = template])
      BY <1>1, <1>2, <1>4, Fields DEF Chosen
    <2>3. UNCHANGED <<store, metadata, bmh, assignments, completed, locked, changes>> /\ Remember
      BY DEF resolve_template_ref
    <2>4. QED
      BY <1>1, <2>1, <2>2, <2>3, GoOnInv DEF Places, IsRequest, Looks
  <1>5. QED
    BY <1>3, <1>4

LEMMA InfoOneshotInv ==
    ASSUME IInv, NEW r \in Requests, InfoOneshot(r)
    PROVE  IInv'
  <1>1. IsRequest(req[r]) /\ req[r].at = "info_oneshot"
    BY DEF IInv, InfoOneshot
  <1>2. CASE req[r].host \in completed
    BY <1>1, <1>2, ReplyKinds, AnswerInv DEF InfoOneshot
  <1>3. CASE req[r].host \notin completed
    <2>1. Step(r, [req[r] EXCEPT !.at = "get_bmh", !.found = req[r].found,
                                 !.template = req[r].template])
      BY <1>1, <1>3, Fields DEF InfoOneshot
    <2>2. /\ "get_bmh" \in Places \ {"idle", "loading"}
          /\ bmh_template(req[r].found) \in Templates
      BY <1>1 DEF Places, IsRequest
    <2>3. /\ UNCHANGED <<store, metadata, bmh, assignments, completed, locked, changes>> /\ Remember
          /\ req[r].at \notin {"idle", "loading"}
      BY <1>1 DEF InfoOneshot
    <2>4. QED
      BY <1>3, <2>1, <2>2, <2>3, GoOnInv
  <1>4. QED
    BY <1>2, <1>3

LEMMA AnswerInfoInv ==
    ASSUME IInv, NEW r \in Requests, AnswerInfo(r)
    PROVE  IInv'
  <1> DEFINE blind == "assignments" \in locked
             reply == InfoOf(bmh_template(req[r].found),
                             IF blind THEN NoTemplate ELSE assignments[req[r].host],
                             config_assignment(req[r].host))
             k     == [req[r] EXCEPT !.at = "idle", !.blind = blind, !.reply = reply]
  <1>1. IsRequest(req[r]) /\ req[r].at = "info"
    BY DEF IInv, AnswerInfo
  <1>2. reply.kind = "info"
    BY ReplyKinds
  <1>3. Step(r, k)
    BY DEF AnswerInfo
  <1> HIDE DEF reply, blind
  <1>4. IsRequest(k) /\ k.at = "idle"
    BY <1>1, <1>2 DEF IsRequest, Places
  <1> HIDE DEF k
  <1>5. ~Looks(k.at, k.endpoint)
    BY <1>4 DEF Looks
  <1>6. QED
    BY <1>1, <1>3, <1>4, <1>5, AloneStep DEF AnswerInfo

LEMMA LoadInv ==
    ASSUME IInv, NEW r \in Requests, Load(r)
    PROVE  IInv'
  <1> DEFINE k == [req[r] EXCEPT !.at = "loading"]
  <1>1. IsRequest(req[r]) /\ req[r].at = "load" /\ req[r].template \in Names /\ StoreInv
    BY DEF IInv, Load, IsRequest
  <1>2. r \in Callers /\ Get(r, req[r].template)
    BY RequestsCall DEF Load
  <1>3. StoreInv' /\ call'[r].op = "get"
    BY <1>1, <1>2, GetInv
  <1>4. \A d \in Requests \ {r} : call'[d] = call[d]
    BY <1>1, <1>2, RequestsCall DEF Get, Goto, StoreInv, StoreTypes
  <1>5. IsRequest(k) /\ k.at = "loading" /\ k.host = req[r].host
    BY <1>1 DEF IsRequest, Places
  <1>6. Step(r, k)
    BY DEF Load
  <1> HIDE DEF k
  <1>7. Looks(req[r].at, req[r].endpoint)
    BY <1>1 DEF Looks
  <1>8. QED
    BY <1>1, <1>3, <1>4, <1>5, <1>6, <1>7, RequestStep DEF Load

\* A request ends and its call is forgotten.
LEMMA EndInv ==
    ASSUME IInv, NEW r \in Requests, req[r].at # "idle", NEW k, IsRequest(k), k.at = "idle",
           Step(r, k), call' = [call EXCEPT ![r] = Nothing], UNCHANGED <<files, metas, kept>>,
           UNCHANGED <<metadata, bmh, assignments, completed, locked, changes>>, Remember
    PROVE  IInv'
  <1>1. r \in Callers /\ StoreInv
    BY RequestsCall DEF IInv
  <1>2. StoreInv'
    BY <1>1, DropInv
  <1>3. call'[r] = Nothing /\ \A d \in Requests \ {r} : call'[d] = call[d]
    BY <1>1, RequestsCall DEF StoreInv, StoreTypes
  <1>4. call'[r].op = "none"
    BY <1>3, NothingType
  <1>5. ~Looks(k.at, k.endpoint)
    BY DEF Looks
  <1>6. QED
    BY <1>2, <1>3, <1>4, <1>5, RequestStep

LEMMA ServeInv ==
    ASSUME IInv, NEW r \in Requests, Serve(r)
    PROVE  IInv'
  <1>1. IsRequest(req[r]) /\ req[r].at = "loading"
    BY DEF IInv, Serve
  <1>2. PICK reply : /\ Answer(r, reply)
                     /\ reply.kind \in {"default", "template"}
    BY ReplyKinds DEF Serve, AnswerDefault
  <1> DEFINE k == [req[r] EXCEPT !.at = "idle", !.reply = reply]
  <1>3. IsRequest(k) /\ k.at = "idle"
    BY <1>1, <1>2 DEF IsRequest, Places
  <1>4. Step(r, k)
    BY <1>2 DEF Answer
  <1> HIDE DEF k
  <1>5. QED
    BY <1>1, <1>3, <1>4, EndInv DEF Serve

LEMMA AbandonInv ==
    ASSUME IInv, NEW r \in Requests, Abandon(r)
    PROVE  IInv'
  BY IdleType, EndInv DEF Abandon

LEMMA RequestInv ==
    ASSUME IInv, NEW r \in Requests, Request(r)
    PROVE  IInv'
  BY BeginInv, BeginInfoInv, GetBmhInv, CheckOneshotInv, ResolveInv, LoadInv, ServeInv,
     InfoOneshotInv, AnswerInfoInv, AbandonInv DEF Request

----------------------------------------------------------------------------
(* One lemma per action: what changes meanwhile.                           *)

\* The inputs but for the store change.
LEMMA InputStep ==
    ASSUME IInv, UNCHANGED <<store, req>>, Remember, InputTypes'
    PROVE  IInv'
  <1>1. StoreInv'
    BY StoreStutter DEF IInv
  <1>2. QED
    BY <1>1, ChangeStep DEF store

LEMMA CountedType == ASSUME InputTypes, Counted PROVE changes' \in 0 .. MaxChanges
  BY BoundAssumption DEF InputTypes, Counted

LEMMA AssignInv ==
    ASSUME IInv, NEW h \in Hosts, NEW t \in Assignable \cup {NoTemplate}, Assign(h, t)
    PROVE  IInv'
  <1>1. assignments' \in [Hosts -> Assignable \cup {NoTemplate}]
    BY DEF IInv, InputTypes, Assign
  <1>2. InputTypes'
    BY <1>1, CountedType DEF IInv, InputTypes, Assign
  <1>3. QED
    BY <1>2, InputStep DEF Assign

LEMMA OneshotInv ==
    ASSUME IInv,
           \/ \E ip \in IPs : oneshot_provisioned(ip)
           \/ \E h \in Hosts : oneshot_delete(h)
    PROVE  IInv'
  <1>1. CASE \E ip \in IPs : oneshot_provisioned(ip)
    <2>1. PICK ip \in IPs : oneshot_provisioned(ip)
      BY <1>1
    <2>2. bmh.ip_to_hostname[ip] \in Hosts
      BY <2>1, HostsAssumption DEF oneshot_provisioned, IInv, InputTypes
    <2>3. InputTypes'
      BY <2>1, <2>2, CountedType DEF IInv, InputTypes, oneshot_provisioned
    <2>4. QED
      BY <2>1, <2>3, InputStep DEF oneshot_provisioned
  <1>2. CASE \E h \in Hosts : oneshot_delete(h)
    <2>1. PICK h \in Hosts : oneshot_delete(h)
      BY <1>2
    <2>2. InputTypes'
      BY <2>1, CountedType DEF IInv, InputTypes, oneshot_delete
    <2>3. QED
      BY <2>1, <2>2, InputStep DEF oneshot_delete
  <1>3. QED
    BY <1>1, <1>2

LEMMA SourcesInv ==
    ASSUME IInv,
           \/ \E ip \in IPs, m \in Metas \cup {NoMeta} : ChangeMetadata(ip, m)
           \/ \E b \in BmhStates : ChangeBmh(b)
           \/ \E m \in {"assignments", "oneshot"} : EndSave(m)
    PROVE  IInv'
  <1>1. CASE \E ip \in IPs, m \in Metas \cup {NoMeta} : ChangeMetadata(ip, m)
    <2>1. PICK ip \in IPs, m \in Metas \cup {NoMeta} : ChangeMetadata(ip, m)
      BY <1>1
    <2>2. metadata' \in [IPs -> Metas \cup {NoMeta}]
      BY <2>1 DEF IInv, InputTypes, ChangeMetadata
    <2>3. InputTypes'
      BY <2>1, <2>2, CountedType DEF IInv, InputTypes, ChangeMetadata
    <2>4. QED
      BY <2>1, <2>3, InputStep DEF ChangeMetadata
  <1>2. CASE \E b \in BmhStates : ChangeBmh(b)
    <2>1. InputTypes'
      BY <1>2, CountedType DEF IInv, InputTypes, ChangeBmh
    <2>2. QED
      BY <1>2, <2>1, InputStep DEF ChangeBmh
  <1>3. CASE \E m \in {"assignments", "oneshot"} : EndSave(m)
    <2>1. InputTypes'
      BY <1>3 DEF IInv, InputTypes, EndSave
    <2>2. QED
      BY <1>3, <2>1, InputStep DEF EndSave
  <1>4. QED
    BY <1>1, <1>2, <1>3

LEMMA UseStoreInv ==
    ASSUME IInv, NEW c \in Admins, UseStore(c)
    PROVE  IInv'
  <1>1. c \in Callers /\ StoreInv /\ \A r \in Requests : r \in Callers /\ r # c
    BY CallersAssumption DEF IInv
  <1>2. InputTypes'
    BY CountedType DEF IInv, InputTypes, UseStore
  <1>3. CASE \E p \in PutRequests : Put(c, p.name, p.text, p.mode)
    <2>1. PICK p \in PutRequests : Put(c, p.name, p.text, p.mode)
      BY <1>3
    <2>2. p.name \in Names /\ p.text \in Contents /\ p.mode \in Modes
      BY PutsAssumption DEF Contents
    <2>3. StoreInv' /\ \A r \in Requests : call'[r].op = call[r].op
      BY <1>1, <2>1, <2>2, PutInv, OthersOps
    <2>4. QED
      BY <1>2, <2>3, ChangeStep DEF UseStore
  <1>4. CASE \E n \in Names : Delete(c, n)
    <2>1. StoreInv' /\ \A r \in Requests : call'[r].op = call[r].op
      BY <1>1, <1>4, DeleteInv, OthersOps
    <2>2. QED
      BY <1>2, <2>1, ChangeStep DEF UseStore
  <1>5. CASE Backup(c)
    <2>1. StoreInv' /\ \A r \in Requests : call'[r].op = call[r].op
      BY <1>1, <1>5, BackupStartInv, OthersOps
    <2>2. QED
      BY <1>2, <2>1, ChangeStep DEF UseStore
  <1>6. CASE \E d \in Admins : Restore(c, call[d].got)
    <2>1. PICK d \in Admins : Restore(c, call[d].got)
      BY <1>6
    <2>2. call[d].got \in SUBSET Entries
      BY CallersAssumption DEF IInv, StoreInv, StoreTypes, CallType, Calls
    <2>3. StoreInv' /\ \A r \in Requests : call'[r].op = call[r].op
      BY <1>1, <2>1, <2>2, RestoreInv, OthersOps
    <2>4. QED
      BY <1>2, <2>3, ChangeStep DEF UseStore
  <1>7. QED
    BY <1>3, <1>4, <1>5, <1>6 DEF UseStore

LEMMA StoreStepInv ==
    ASSUME IInv, NEW c \in Callers, StoreStep(c)
    PROVE  IInv'
  <1>1. StoreInv /\ \A r \in Requests : r \in Callers /\ r \notin Admins /\ call[r].op \in {"none", "get"}
    BY CallersAssumption DEF IInv, Loads
  <1>2. Proceed(c) \/ (c \in Admins /\ (FailWrite(c) \/ HangUp(c)))
    BY DEF StoreStep
  <1>3. StoreInv'
    BY <1>1, <1>2, ProceedInv
  <1>4. ASSUME NEW r \in Requests PROVE call'[r].op = call[r].op
    <2>1. CASE r = c
      BY <1>1, <1>2, <2>1, ReaderOps
    <2>2. CASE r # c
      BY <1>1, <1>2, <2>2, OthersOps
    <2>3. QED
      BY <2>1, <2>2
  <1>5. InputTypes'
    BY DEF IInv, InputTypes, StoreStep
  <1>6. QED
    BY <1>3, <1>4, <1>5, ChangeStep DEF StoreStep

LEMMA NextInv == IInv /\ [Next]_vars => IInv'
  <1> SUFFICES ASSUME IInv, [Next]_vars PROVE IInv'
    OBVIOUS
  <1>1. CASE \E r \in Requests : Request(r)
    BY <1>1, RequestInv
  <1>2. CASE Change
    BY <1>2, AssignInv, OneshotInv, SourcesInv, UseStoreInv, StoreStepInv DEF Change
  <1>3. CASE UNCHANGED vars
    <2>1. StoreInv' /\ UNCHANGED <<call, metadata, bmh, assignments, completed, locked, req, before,
                                   changes>>
      BY <1>3, StoreStutter DEF IInv, vars, store
    <2>2. QED
      BY <2>1 DEF IInv, InputTypes, Loads, Barred
  <1>4. QED
    BY <1>1, <1>2, <1>3 DEF Next

----------------------------------------------------------------------------
(* The theorems.                                                           *)

LEMMA Invariance == Spec => []IInv
  BY InitInv, NextInv, PTL DEF Spec

\* Types of the store, of the inputs and of the requests: a request is in the
\* store exactly while it loads its template.
THEOREM TypeCorrect == Spec => []TypeOK
  <1>1. IInv => TypeOK
    <2> SUFFICES ASSUME IInv PROVE TypeOK
      OBVIOUS
    <2>1. StoreTypeOK
      BY DEF IInv, StoreInv, StoreTypes, CallType, Calls, StoreTypeOK
    <2>2. ASSUME NEW r \in Requests
          PROVE  /\ req[r].at \in Places
                 /\ call[r].op \in {"none", "get"}
                 /\ (call[r].op = "get") = (req[r].at = "loading")
                 /\ req[r].reply.kind \in {"none", "refused", "default", "template", "info"}
      BY DEF IInv, IsRequest, Loads
    <2>3. QED
      BY <2>1, <2>2 DEF IInv, InputTypes, TypeOK, Places
  <1>2. QED
    BY Invariance, <1>1, PTL

\* What a get or a backup reports of a template nobody wrote meanwhile is what
\* one put, or a delete, left: content and mode together, whatever was put,
\* deleted, cut short or restored before.
THEOREM TemplatesReadWhole == Spec => []ReadsWhole
  <1>1. IInv => ReadsWhole
    BY ReadsWholeInv DEF IInv
  <1>2. QED
    BY Invariance, <1>1, PTL

\* A host that has recorded its completion (oneshot_provisioned of
\* src/metadata/handlers.rs) is given no oneshot template by resolve_and_build, and
\* told of none by template_info, until it is reset. Only Serve answers with a
\* template, and only AnswerInfo tells of one; a request that is barred gets to
\* neither.
THEOREM CompletedStay == Spec => NoOneshotOnceCompleted
  <1> DEFINE Kept == \A r \in Requests : Answers(r) /\ before[r].done =>
                        "oneshot" \notin ModesGiven(r)
  <1>1. IInv /\ [Next]_vars => [Kept]_vars
    <2> SUFFICES ASSUME IInv, Next, NEW r \in Requests, Answers(r), before[r].done
                 PROVE  "oneshot" \notin ModesGiven(r)
      OBVIOUS
    <2>1. /\ req[r].at # "idle" /\ ~Looks(req[r].at, req[r].endpoint) /\ IsRequest(req[r])
          /\ req'[r].at = "idle" /\ req = [d \in Requests |-> req[d]]
      BY DEF IInv, Barred, Answers
    <2>2. req'[r] # req[r]
      BY <2>1
    <2>3. ~Change
      <3>1. Change => UNCHANGED req
        BY DEF Change, Assign, oneshot_provisioned, oneshot_delete, EndSave, ChangeMetadata,
               ChangeBmh, UseStore, StoreStep
      <3>2. QED
        BY <2>2, <3>1
    <2>4. PICK d \in Requests : Request(d)
      BY <2>3 DEF Next
    <2>5. d = r
      <3>1. \E k : Step(d, k)
        BY <2>4 DEF Request, BeginInfo, Begin, GetBmh, CheckOneshot, resolve_template_ref, Load,
                    Serve, InfoOneshot, AnswerInfo, Abandon, AnswerDefault, Answer, Chosen
      <3>2. QED
        BY <2>1, <2>2, <3>1 DEF Step
    <2>6. GetBmh(r) \/ CheckOneshot(r) \/ InfoOneshot(r) \/ Abandon(r)
      BY <2>1, <2>4, <2>5
         DEF Request, BeginInfo, Begin, resolve_template_ref, Load, Serve, AnswerInfo, Looks
    <2>7. SUFFICES req'[r].reply.kind \in {"none", "default"} \/ req'[r].reply = NoInfo
      BY ReplyKinds DEF ModesGiven, NoInfo, Info
    <2>8. CASE Abandon(r)
      BY <2>1, <2>8, ReplyKinds DEF Abandon, Step, IdleRequest
    <2>9. CASE CheckOneshot(r)
      <3>1. CASE req[r].host \in completed
        <4>1. PICK reply : Answer(r, reply) /\ reply.kind = "default"
          BY <2>9, <3>1, ReplyKinds DEF CheckOneshot, AnswerDefault
        <4>2. QED
          BY <2>1, <4>1 DEF Answer, Step, IsRequest
      <3>2. CASE req[r].host \notin completed
        <4>1. req'[r].at = "resolve"
          BY <2>1, <2>9, <3>2 DEF CheckOneshot, Step, IsRequest
        <4>2. QED
          BY <2>1, <4>1
      <3>3. QED
        BY <3>1, <3>2
    <2>10. CASE InfoOneshot(r)
      <3>1. CASE Answer(r, NoInfo)
        BY <2>1, <3>1 DEF Answer, Step, IsRequest
      <3>2. CASE Step(r, [req[r] EXCEPT !.at = "get_bmh"])
        <4>1. req'[r].at = "get_bmh"
          BY <2>1, <3>2 DEF Step, IsRequest
        <4>2. QED
          BY <2>1, <4>1
      <3>3. QED
        BY <2>10, <3>1, <3>2 DEF InfoOneshot
    <2>11. CASE GetBmh(r)
      <3>1. req'[r].at \in {"info", "oneshot"}
        BY <2>1, <2>11 DEF GetBmh, Step, IsRequest
      <3>2. QED
        BY <2>1, <3>1
    <2>12. QED
      BY <2>6, <2>8, <2>9, <2>10, <2>11
  <1>2. QED
    BY Invariance, <1>1, PTL DEF Spec, NoOneshotOnceCompleted

----------------------------------------------------------------------------
(* Numbers and sequences.                                                  *)

LEMMA Least ==
    ASSUME NEW T \in SUBSET Nat, T # {}
    PROVE  \E n \in T : \A m \in T : n <= m
  <1> DEFINE R == OpToRel(<, Nat)
  <1>1. IsWellFoundedOn(R, Nat)
    BY NatLessThanWellFounded
  <1>2. PICK n \in T : \A m \in T : ~ (<<m, n>> \in R)
    <2> HIDE DEF R
    <2> QED
      BY <1>1, WFMin
  <1>3. \A m \in T : m \in Nat /\ n \in Nat /\ ~ (m < n)
    BY <1>2 DEF OpToRel
  <1>4. QED
    BY <1>3

LEMMA FromZero ==
    ASSUME NEW T, 0 \in T, \A n \in Nat : n \in T => n + 1 \in T
    PROVE  Nat \subseteq T
  <1>1. SUFFICES ASSUME Nat \ T # {} PROVE FALSE
    OBVIOUS
  <1>2. PICK n \in Nat \ T : \A m \in Nat \ T : n <= m
    BY <1>1, Least
  <1>3. n # 0 /\ n - 1 \in Nat /\ n - 1 \in T
    BY <1>2
  <1>4. QED
    BY <1>2, <1>3

Elements(s) == {s[i] : i \in DOMAIN s}

IsSeq(s) == s \in Seq(Elements(s))

LEMMA SeqFacts ==
    ASSUME NEW S, NEW s \in Seq(S)
    PROVE  IsSeq(s) /\ Len(s) \in Nat /\ DOMAIN s = 1 .. Len(s) /\ Elements(s) \subseteq S
  BY DEF IsSeq, Elements

LEMMA ConcatElements ==
    ASSUME NEW s, NEW t, IsSeq(s), IsSeq(t)
    PROVE  IsSeq(s \o t) /\ Elements(s \o t) = Elements(s) \cup Elements(t)
  <1> DEFINE S == Elements(s) \cup Elements(t)
  <1>1. s \in Seq(S) /\ t \in Seq(S)
    BY DEF IsSeq
  <1> HIDE DEF S
  <1>2. /\ s \o t \in Seq(S) /\ Len(s \o t) = Len(s) + Len(t)
        /\ Len(s) \in Nat /\ Len(t) \in Nat
        /\ DOMAIN s = 1 .. Len(s) /\ DOMAIN t = 1 .. Len(t)
        /\ DOMAIN (s \o t) = 1 .. (Len(s) + Len(t))
        /\ \A i \in 1 .. Len(s) : (s \o t)[i] = s[i]
        /\ \A i \in 1 .. Len(t) : (s \o t)[Len(s) + i] = t[i]
    BY <1>1
  <1> DEFINE c == s \o t
  <1> HIDE DEF c
  <1>3. \A i \in 1 .. (Len(s) + Len(t)) :
           \/ i \in 1 .. Len(s)
           \/ i - Len(s) \in 1 .. Len(t) /\ Len(s) + (i - Len(s)) = i
    BY <1>2
  <1>4. Elements(c) \subseteq Elements(s) \cup Elements(t)
    <2> SUFFICES ASSUME NEW i \in DOMAIN c PROVE c[i] \in Elements(s) \cup Elements(t)
      BY DEF Elements
    <2>1. i \in 1 .. (Len(s) + Len(t))
      BY <1>2 DEF c
    <2>2. CASE i \in 1 .. Len(s)
      BY <1>2, <2>2 DEF c, Elements
    <2>3. CASE i - Len(s) \in 1 .. Len(t) /\ Len(s) + (i - Len(s)) = i
      <3>1. c[i] = t[i - Len(s)]
        BY <1>2, <2>3 DEF c
      <3>2. QED
        BY <1>2, <2>3, <3>1 DEF Elements
    <2>4. QED
      BY <1>3, <2>1, <2>2, <2>3
  <1>5. Elements(s) \subseteq Elements(c)
    BY <1>2 DEF c, Elements
  <1>6. Elements(t) \subseteq Elements(c)
    <2> SUFFICES ASSUME NEW i \in DOMAIN t PROVE t[i] \in Elements(c)
      BY DEF Elements
    <2>1. Len(s) + i \in DOMAIN c /\ c[Len(s) + i] = t[i]
      BY <1>2 DEF c
    <2>2. QED
      BY <2>1 DEF Elements
  <1>7. QED
    BY <1>2, <1>4, <1>5, <1>6, SeqFacts DEF c

LEMMA SplitElements ==
    ASSUME NEW s, IsSeq(s), NEW b \in 0 .. Len(s)
    PROVE  LET p == SubSeq(s, 1, b)
               q == SubSeq(s, b + 1, Len(s))
           IN  IsSeq(p) /\ IsSeq(q) /\ Elements(p) \cup Elements(q) = Elements(s)
  <1> DEFINE S == Elements(s)
             p == SubSeq(s, 1, b)
             q == SubSeq(s, b + 1, Len(s))
  <1>1. s \in Seq(S) /\ Len(s) \in Nat /\ DOMAIN s = 1 .. Len(s)
    BY DEF IsSeq
  <1>2. /\ p \in Seq(S) /\ DOMAIN p = 1 .. b /\ \A i \in 1 .. b : p[i] = s[i]
    <2> HIDE DEF S
    <2> QED
      BY <1>1
  <1>3. /\ q \in Seq(S) /\ DOMAIN q = 1 .. (Len(s) - b)
        /\ \A i \in 1 .. (Len(s) - b) : q[i] = s[b + i]
    <2> HIDE DEF S
    <2> QED
      BY <1>1
  <1> HIDE DEF S, p, q
  <1>4. ASSUME NEW i \in 1 .. Len(s) PROVE s[i] \in Elements(p) \cup Elements(q)
    <2>1. CASE i <= b
      BY <1>1, <1>2, <2>1 DEF Elements
    <2>2. CASE i > b
      <3>1. i - b \in 1 .. (Len(s) - b) /\ b + (i - b) = i
        BY <1>1, <2>2
      <3>2. q[i - b] = s[i]
        BY <1>3, <3>1
      <3>3. QED
        BY <1>3, <3>1, <3>2 DEF Elements
    <2>3. QED
      BY <1>1, <2>1, <2>2
  <1>5. Elements(p) \cup Elements(q) \subseteq Elements(s)
    BY <1>2, <1>3, SeqFacts DEF S
  <1>6. Elements(s) \subseteq Elements(p) \cup Elements(q)
    BY <1>1, <1>4 DEF Elements
  <1>7. IsSeq(p) /\ IsSeq(q)
    BY <1>2, <1>3, SeqFacts
  <1>8. QED
    BY <1>5, <1>6, <1>7 DEF p, q

\* A finite set as a sequence.
LEMMA ListedElements ==
    ASSUME NEW S, IsFiniteSet(S)
    PROVE  LET s == SetToSeq(S) IN s \in Seq(S) /\ Elements(s) = S
  <1> DEFINE n == Cardinality(S)
  <1>1. n \in Nat /\ ExistsBijection(1 .. n, S)
    BY FS_CardinalityType
  <1>2. PICK f \in [1 .. n -> S] : IsInjective(f)
    BY <1>1 DEF ExistsBijection, Bijection, Injection, IsInjective, IsInjective
  <1> DEFINE s == SetToSeq(S)
  <1>3. s \in [1 .. n -> S] /\ IsInjective(s)
    BY <1>2 DEF SetToSeq
  <1> HIDE DEF n, s
  <1>4. s \in Injection(1 .. n, S)
    BY <1>3 DEF IsInjective, Injection, IsInjective
  <1>5. s \in Surjection(1 .. n, S)
    <2>1. IsFiniteSet(1 .. n) /\ Cardinality(1 .. n) = n
      BY <1>1, FS_Interval
    <2>2. QED
      BY <1>4, <2>1, FS_Injection DEF n
  <1>6. s \in Seq(S) /\ DOMAIN s = 1 .. n
    BY <1>1, <1>3
  <1>7. Elements(s) = S
    BY <1>3, <1>5, <1>6 DEF Surjection, Elements
  <1>8. QED
    BY <1>6, <1>7 DEF s

\* Sequences put together in a row: FlattenSeq builds one after the other.
LEMMA FlattenElements ==
    ASSUME NEW seqs, IsSeq(seqs), \A i \in DOMAIN seqs : IsSeq(seqs[i])
    PROVE  /\ IsSeq(FlattenSeq(seqs))
           /\ Elements(FlattenSeq(seqs)) = UNION {Elements(seqs[i]) : i \in DOMAIN seqs}
  <1> DEFINE n == Len(seqs)
             Builds(g, m) == g = [i \in 1 .. m |-> IF i = 1 THEN seqs[i] ELSE g[i - 1] \o seqs[i]]
  <1>1. n \in Nat /\ DOMAIN seqs = 1 .. n
    BY DEF IsSeq
  <1>2. CASE n = 0
    <2>1. FlattenSeq(seqs) = seqs
      BY <1>2 DEF FlattenSeq
    <2>2. DOMAIN seqs = {}
      BY <1>1, <1>2
    <2>3. QED
      BY <2>1, <2>2 DEF Elements
  <1>3. CASE n > 0
    <2> DEFINE T == {m \in Nat : \E g : Builds(g, m)}
    <2>1. 0 \in T
      <3>1. Builds([i \in 1 .. 0 |-> seqs[1]], 0)
        OBVIOUS
      <3>2. QED
        BY <3>1
    <2>2. ASSUME NEW m \in Nat, m \in T PROVE m + 1 \in T
      <3>1. PICK g : Builds(g, m)
        BY <2>2
      <3> DEFINE h == [i \in 1 .. (m + 1) |->
                         IF i <= m THEN g[i]
                         ELSE IF i = 1 THEN seqs[i] ELSE g[i - 1] \o seqs[i]]
      <3>2. \A i \in 1 .. m : g[i] = IF i = 1 THEN seqs[i] ELSE g[i - 1] \o seqs[i]
        BY <3>1, Zenon
      <3>3. ASSUME NEW i \in 1 .. (m + 1)
            PROVE  h[i] = IF i = 1 THEN seqs[i] ELSE h[i - 1] \o seqs[i]
        <4>1. CASE i <= m
          <5>1. i \in 1 .. m
            BY <4>1
          <5>2. h[i] = g[i]
            BY <4>1
          <5>3. i # 1 => h[i - 1] = g[i - 1]
            BY <4>1
          <5>4. QED
            BY <3>2, <5>1, <5>2, <5>3
        <4>2. CASE i = m + 1
          <5>1. i # 1 => h[i - 1] = g[i - 1]
            BY <4>2
          <5>2. h[i] = IF i = 1 THEN seqs[i] ELSE g[i - 1] \o seqs[i]
            BY <4>2
          <5>3. QED
            BY <5>1, <5>2
        <4>3. QED
          BY <4>1, <4>2
      <3>4. Builds(h, m + 1)
        <4>1. DOMAIN h = 1 .. (m + 1) /\ h = [i \in 1 .. (m + 1) |-> h[i]]
          OBVIOUS
        <4> HIDE DEF h
        <4>2. QED
          BY <3>3, <4>1
      <3> HIDE DEF h, Builds
      <3>5. m + 1 \in Nat /\ \E e : Builds(e, m + 1)
        BY <3>4
      <3>6. QED
        BY <3>5
    <2>3. \E g : Builds(g, n)
      <3>1. Nat \subseteq T
        <4> HIDE DEF T
        <4> QED
          BY <2>1, <2>2, FromZero
      <3>2. QED
        BY <1>1, <3>1
    <2> DEFINE f == CHOOSE g : Builds(g, n)
    <2>4. Builds(f, n)
      <3> HIDE DEF Builds
      <3> QED
        BY <2>3
    <2>5. FlattenSeq(seqs) = f[n]
      BY <1>3 DEF FlattenSeq
    <2> HIDE DEF f
    <2>6. /\ f[1] = seqs[1]
          /\ \A i \in 1 .. n : i # 1 => f[i] = f[i - 1] \o seqs[i]
      <3>1. \A i \in 1 .. n : f[i] = IF i = 1 THEN seqs[i] ELSE f[i - 1] \o seqs[i]
        BY <2>4, Zenon
      <3>2. 1 \in 1 .. n
        BY <1>1, <1>3
      <3>3. QED
        BY <3>1, <3>2
    <2> DEFINE U == {m \in Nat : m \in 1 .. n =>
                       /\ IsSeq(f[m])
                       /\ Elements(f[m]) = UNION {Elements(seqs[i]) : i \in 1 .. m}}
    <2> HIDE DEF n, Builds
    <2>7. 0 \in U
      OBVIOUS
    <2>8. ASSUME NEW m \in Nat, m \in U PROVE m + 1 \in U
      <3> SUFFICES ASSUME m + 1 \in 1 .. n
                   PROVE  /\ IsSeq(f[m + 1])
                          /\ Elements(f[m + 1]) = UNION {Elements(seqs[i]) : i \in 1 .. (m + 1)}
        OBVIOUS
      <3>1. CASE m = 0
        <4>1. f[m + 1] = seqs[1] /\ 1 .. (m + 1) = {1} /\ 1 \in DOMAIN seqs
          BY <1>1, <2>6, <3>1
        <4>2. QED
          BY <4>1
      <3>2. CASE m # 0
        <4>1. m \in 1 .. n /\ m + 1 # 1 /\ (m + 1) - 1 = m
          BY <1>1, <3>2
        <4>2. IsSeq(f[m]) /\ Elements(f[m]) = UNION {Elements(seqs[i]) : i \in 1 .. m}
          BY <2>8, <4>1
        <4>3. f[m + 1] = f[m] \o seqs[m + 1]
          BY <2>6, <4>1
        <4>4. IsSeq(seqs[m + 1])
          BY <1>1
        <4>5. 1 .. (m + 1) = (1 .. m) \cup {m + 1}
          OBVIOUS
        <4>6. IsSeq(f[m + 1]) /\ Elements(f[m + 1]) = Elements(f[m]) \cup Elements(seqs[m + 1])
          BY <4>2, <4>3, <4>4, ConcatElements
        <4>7. QED
          BY <4>2, <4>5, <4>6
      <3>3. QED
        BY <3>1, <3>2
    <2>9. n \in U
      <3> HIDE DEF U
      <3>1. Nat \subseteq U
        BY <2>7, <2>8, FromZero
      <3>2. QED
        BY <1>1, <3>1
    <2>10. QED
      BY <1>1, <1>3, <2>5, <2>9
  <1>4. QED
    BY <1>1, <1>2, <1>3

----------------------------------------------------------------------------
(* Who may log in: by membership.                                          *)

\* Every line is an element, wherever it stands.
Allows(E, l) == \E e \in E : e[1] = "sshkey" /\ l = <<e[2], e[3]>>

LEMMA KickstartAllows ==
    ASSUME NEW lines, NEW l
    PROVE  l \in KickstartLogins(lines) <=> Allows(Elements(lines), l)
  BY DEF KickstartLogins, Allows, Elements

LEMMA IgnitionAllows ==
    ASSUME NEW config, NEW l
    PROVE  l \in IgnitionLogins(config)
              <=> \E u \in DOMAIN config.users : \E k \in config.users[u].keys : l = <<u, k>>
  BY DEF IgnitionLogins

LEMMA MetaAllows ==
    ASSUME NEW meta, NEW l
    PROVE  l \in MetaLogins(meta)
              <=> \/ \E u \in DOMAIN meta.public_keys : \E k \in meta.public_keys[u] : l = <<u, k>>
                  \/ \E u \in DOMAIN meta.users : \E k \in meta.users[u].keys : l = <<u, k>>
  <1> DEFINE A == {{<<u, k>> : k \in meta.public_keys[u]} : u \in DOMAIN meta.public_keys}
             B == {{<<u, k>> : k \in meta.users[u].keys} : u \in DOMAIN meta.users}
  <1>1. l \in MetaLogins(meta) <=> l \in UNION A \/ l \in UNION B
    <2> HIDE DEF A, B
    <2>1. l \in UNION (A \cup B) <=> l \in UNION A \/ l \in UNION B
      OBVIOUS
    <2>2. MetaLogins(meta) = UNION (A \cup B)
      BY DEF MetaLogins, A, B
    <2>3. QED
      BY <2>1, <2>2
  <1>2. l \in UNION A <=> \E u \in DOMAIN meta.public_keys : \E k \in meta.public_keys[u] : l = <<u, k>>
    OBVIOUS
  <1>3. l \in UNION B <=> \E u \in DOMAIN meta.users : \E k \in meta.users[u].keys : l = <<u, k>>
    OBVIOUS
  <1>4. QED
    BY <1>1, <1>2, <1>3

LEMMA BuiltUsers ==
    ASSUME NEW meta
    PROVE  LET new == build_ignition_users(meta)
           IN  /\ DOMAIN new = DOMAIN meta.public_keys \cup DOMAIN meta.users
               /\ \A u \in DOMAIN new : "keys" \in DOMAIN new[u]
               /\ \A l : (\E u \in DOMAIN new : \E k \in new[u].keys : l = <<u, k>>)
                            <=> l \in MetaLogins(meta)
  <1> DEFINE new == build_ignition_users(meta)
  <1>1. /\ DOMAIN new = DOMAIN meta.public_keys \cup DOMAIN meta.users
        /\ \A u \in DOMAIN new : "keys" \in DOMAIN new[u]
    BY DEF build_ignition_users
  <1>2. ASSUME NEW u \in DOMAIN new, NEW k
        PROVE  k \in new[u].keys
                 <=> \/ u \in DOMAIN meta.public_keys /\ k \in meta.public_keys[u]
                     \/ u \in DOMAIN meta.users /\ k \in meta.users[u].keys
    BY DEF build_ignition_users, KeysOf
  <1> HIDE DEF new
  <1>3. ASSUME NEW l
        PROVE  (\E u \in DOMAIN new : \E k \in new[u].keys : l = <<u, k>>)
                  <=> l \in MetaLogins(meta)
    BY <1>1, <1>2, MetaAllows
  <1>4. QED
    BY <1>1, <1>3 DEF new

\* merge_ignition lets in whom the base or the metadata lets in.
LEMMA MergedIgnition ==
    ASSUME NEW base, IsIgnition(base), NEW meta
    PROVE  LET config == merge_ignition(base, meta)
           IN  /\ DOMAIN config = {"users", "files"}
               /\ IgnitionLogins(config) = IgnitionLogins(base) \cup MetaLogins(meta)
  <1> DEFINE new    == build_ignition_users(meta)
             config == merge_ignition(base, meta)
             merged == [u \in DOMAIN base.users \cup DOMAIN new |->
                      IF u \notin DOMAIN new THEN base.users[u]
                      ELSE IF u \in DOMAIN base.users
                           THEN merge_ssh_keys(base.users[u], new[u])
                           ELSE new[u]]
  <1>1. DOMAIN config = {"users", "files"} /\ config.users = merged
    BY DEF merge_ignition
  <1>2. \A u \in DOMAIN base.users : "keys" \in DOMAIN base.users[u]
    BY DEF IsIgnition
  <1>3. ASSUME NEW u \in DOMAIN base.users \cup DOMAIN new, NEW k
        PROVE  k \in merged[u].keys
                 <=> \/ u \in DOMAIN base.users /\ k \in base.users[u].keys
                     \/ u \in DOMAIN new /\ k \in new[u].keys
    <2> HIDE DEF new
    <2> QED
      BY <1>2 DEF merge_ssh_keys
  <1>4. DOMAIN merged = DOMAIN base.users \cup DOMAIN new
    OBVIOUS
  <1> HIDE DEF merged, config
  <1>5. ASSUME NEW l
        PROVE  l \in IgnitionLogins(config)
                 <=> \/ \E u \in DOMAIN base.users : \E k \in base.users[u].keys : l = <<u, k>>
                     \/ \E u \in DOMAIN new : \E k \in new[u].keys : l = <<u, k>>
    <2> HIDE DEF new
    <2> QED
      BY <1>1, <1>3, <1>4, IgnitionAllows
  <1>6. ASSUME NEW l
        PROVE  l \in IgnitionLogins(config) <=> l \in IgnitionLogins(base) \/ l \in MetaLogins(meta)
    <2>1. (\E u \in DOMAIN new : \E k \in new[u].keys : l = <<u, k>>) <=> l \in MetaLogins(meta)
      BY BuiltUsers
    <2> HIDE DEF new
    <2>2. QED
      BY <1>5, <2>1, IgnitionAllows
  <1>7. QED
    BY <1>1, <1>6 DEF config

LEMMA GeneratedIgnition ==
    ASSUME NEW meta
    PROVE  LET config == generate_ignition(meta)
           IN  /\ DOMAIN config = {"users", "files"}
               /\ IgnitionLogins(config) = MetaLogins(meta)
  <1> DEFINE config == generate_ignition(meta)
  <1>1. DOMAIN config = {"users", "files"} /\ config.users = build_ignition_users(meta)
    BY DEF generate_ignition
  <1> HIDE DEF config
  <1>2. ASSUME NEW l
        PROVE  l \in IgnitionLogins(config) <=> l \in MetaLogins(meta)
    <2> DEFINE new == build_ignition_users(meta)
    <2>1. (\E u \in DOMAIN new : \E k \in new[u].keys : l = <<u, k>>) <=> l \in MetaLogins(meta)
      BY BuiltUsers
    <2> HIDE DEF new
    <2>2. config.users = new
      BY <1>1 DEF new
    <2>3. QED
      BY <2>1, <2>2, IgnitionAllows
  <1>3. QED
    BY <1>1, <1>2 DEF config

----------------------------------------------------------------------------
(* The lines of a kickstart.                                               *)

LEMMA KeyLines ==
    ASSUME NEW user, NEW keys, IsFiniteSet(keys)
    PROVE  LET lines == SshKeyLines(user, keys)
           IN  IsSeq(lines) /\ Elements(lines) = {<<"sshkey", user, k>> : k \in keys}
  <1> DEFINE s     == SetToSeq(keys)
             lines == SshKeyLines(user, keys)
  <1>1. s \in Seq(keys) /\ Elements(s) = keys
    BY ListedElements
  <1> HIDE DEF s
  <1>2. lines = [i \in DOMAIN s |-> <<"sshkey", user, s[i]>>]
    BY DEF SshKeyLines, s
  <1> HIDE DEF lines
  <1>3. Len(s) \in Nat /\ DOMAIN s = 1 .. Len(s)
    BY <1>1
  <1>4. DOMAIN lines = 1 .. Len(s) /\ \A i \in 1 .. Len(s) : lines[i] = <<"sshkey", user, s[i]>>
    BY <1>2, <1>3
  <1>5. IsSeq(lines)
    BY <1>2, <1>3 DEF IsSeq, Elements
  <1>6. Elements(lines) = {<<"sshkey", user, k>> : k \in keys}
    BY <1>1, <1>3, <1>4 DEF Elements
  <1>7. QED
    BY <1>5, <1>6 DEF lines

LEMMA SystemElements ==
    ASSUME NEW meta, IsMeta(meta), NEW users \in SUBSET (DOMAIN meta.public_keys)
    PROVE  LET lines == SystemLines(meta, users)
           IN  /\ IsSeq(lines)
               /\ \A e : e \in Elements(lines)
                    <=> \E u \in users : \E k \in meta.public_keys[u] : e = <<"sshkey", u, k>>
  <1> DEFINE s    == SetToSeq(users)
             seqs == [i \in DOMAIN s |-> SshKeyLines(s[i], meta.public_keys[s[i]])]
  <1>1. IsFiniteSet(users)
    BY FS_Subset DEF IsMeta
  <1>2. s \in Seq(users) /\ Elements(s) = users
    BY <1>1, ListedElements
  <1> HIDE DEF s
  <1>3. Len(s) \in Nat /\ DOMAIN s = 1 .. Len(s) /\ \A i \in DOMAIN s : s[i] \in users
    BY <1>2
  <1>4. DOMAIN seqs = 1 .. Len(s) /\ IsSeq(seqs)
    BY <1>3 DEF IsSeq, Elements
  <1>5. ASSUME NEW i \in DOMAIN s
        PROVE  /\ IsSeq(seqs[i])
               /\ Elements(seqs[i]) = {<<"sshkey", s[i], k>> : k \in meta.public_keys[s[i]]}
    <2>1. IsFiniteSet(meta.public_keys[s[i]])
      BY <1>3 DEF IsMeta
    <2>2. QED
      BY <2>1, KeyLines
  <1>6. SystemLines(meta, users) = FlattenSeq(seqs)
    BY DEF SystemLines, s
  <1> HIDE DEF seqs
  <1>7. /\ IsSeq(FlattenSeq(seqs))
        /\ Elements(FlattenSeq(seqs)) = UNION {Elements(seqs[i]) : i \in DOMAIN seqs}
    BY <1>3, <1>4, <1>5, FlattenElements
  <1>8. ASSUME NEW e
        PROVE  e \in Elements(FlattenSeq(seqs))
                  <=> \E u \in users : \E k \in meta.public_keys[u] : e = <<"sshkey", u, k>>
    <2>1. e \in Elements(FlattenSeq(seqs)) <=> \E i \in DOMAIN s : e \in Elements(seqs[i])
      BY <1>3, <1>4, <1>7
    <2>2. \A i \in DOMAIN s : e \in Elements(seqs[i])
                                 <=> \E k \in meta.public_keys[s[i]] : e = <<"sshkey", s[i], k>>
      BY <1>5
    <2>3. \A u : u \in users <=> \E i \in DOMAIN s : u = s[i]
      BY <1>2 DEF Elements
    <2>4. QED
      BY <2>1, <2>2, <2>3
  <1>9. QED
    BY <1>6, <1>7, <1>8

LEMMA AccountElements ==
    ASSUME NEW meta, IsMeta(meta)
    PROVE  LET lines == AccountLines(meta)
           IN  /\ IsSeq(lines)
               /\ \A e : e \in Elements(lines)
                    <=> \E u \in DOMAIN meta.users :
                           \/ e = <<"user", u>>
                           \/ \E k \in meta.users[u].keys : e = <<"sshkey", u, k>>
  <1> DEFINE users == DOMAIN meta.users
             s     == SetToSeq(users)
             seqs  == [i \in DOMAIN s |->
                <<<<"user", s[i]>>>> \o SshKeyLines(s[i], meta.users[s[i]].keys)]
  <1>1. IsFiniteSet(users)
    BY DEF IsMeta
  <1>2. s \in Seq(users) /\ Elements(s) = users
    BY <1>1, ListedElements
  <1> HIDE DEF s
  <1>3. Len(s) \in Nat /\ DOMAIN s = 1 .. Len(s) /\ \A i \in DOMAIN s : s[i] \in users
    BY <1>2
  <1>4. DOMAIN seqs = 1 .. Len(s) /\ IsSeq(seqs)
    BY <1>3 DEF IsSeq, Elements
  <1>5. ASSUME NEW i \in DOMAIN s
        PROVE  /\ IsSeq(seqs[i])
               /\ Elements(seqs[i]) = {<<"user", s[i]>>}
                     \cup {<<"sshkey", s[i], k>> : k \in meta.users[s[i]].keys}
    <2> DEFINE one  == <<<<"user", s[i]>>>>
               more == SshKeyLines(s[i], meta.users[s[i]].keys)
    <2>1. IsFiniteSet(meta.users[s[i]].keys)
      BY <1>3 DEF IsMeta
    <2>2. IsSeq(more) /\ Elements(more) = {<<"sshkey", s[i], k>> : k \in meta.users[s[i]].keys}
      BY <2>1, KeyLines
    <2>3. IsSeq(one) /\ Elements(one) = {<<"user", s[i]>>}
      BY DEF IsSeq, Elements
    <2> HIDE DEF one, more
    <2>4. IsSeq(one \o more) /\ Elements(one \o more) = Elements(one) \cup Elements(more)
      BY <2>2, <2>3, ConcatElements
    <2>5. seqs[i] = one \o more
      BY DEF one, more
    <2> HIDE DEF seqs
    <2>6. QED
      BY <2>2, <2>3, <2>4, <2>5
  <1>6. AccountLines(meta) = FlattenSeq(seqs)
    BY DEF AccountLines, s
  <1> HIDE DEF seqs
  <1>7. /\ IsSeq(FlattenSeq(seqs))
        /\ Elements(FlattenSeq(seqs)) = UNION {Elements(seqs[i]) : i \in DOMAIN seqs}
    BY <1>3, <1>4, <1>5, FlattenElements
  <1>8. ASSUME NEW e
        PROVE  e \in Elements(FlattenSeq(seqs))
                  <=> \E u \in users : \/ e = <<"user", u>>
                                       \/ \E k \in meta.users[u].keys : e = <<"sshkey", u, k>>
    <2>1. e \in Elements(FlattenSeq(seqs)) <=> \E i \in DOMAIN s : e \in Elements(seqs[i])
      BY <1>3, <1>4, <1>7
    <2>2. \A i \in DOMAIN s : e \in Elements(seqs[i])
                                 <=> \/ e = <<"user", s[i]>>
                                     \/ \E k \in meta.users[s[i]].keys : e = <<"sshkey", s[i], k>>
      BY <1>5
    <2>3. \A u : u \in users <=> \E i \in DOMAIN s : u = s[i]
      BY <1>2 DEF Elements
    <2>4. QED
      BY <2>1, <2>2, <2>3
  <1>9. QED
    BY <1>6, <1>7, <1>8

\* The place before the first section, or behind the last line.
LEMMA SectionStart ==
    ASSUME NEW lines, IsSeq(lines)
    PROVE  SelectInSeq(lines, LAMBDA l : l[1] \in {"%packages", "%post"}) \in 0 .. Len(lines)
  <1> DEFINE I == {i \in 1 .. Len(lines) : lines[i][1] \in {"%packages", "%post"}}
  <1>1. Len(lines) \in Nat
    BY DEF IsSeq
  <1>2. SelectInSeq(lines, LAMBDA l : l[1] \in {"%packages", "%post"})
           = IF I # {} THEN Min(I) ELSE 0
    BY DEF SelectInSeq
  <1>3. I # {} => Min(I) \in I
    <2>1. I \in SUBSET Nat
      BY <1>1
    <2> HIDE DEF I
    <2>2. I # {} => \E i \in I : \A j \in I : i <= j
      BY <2>1, Least
    <2>3. QED
      BY <2>2 DEF Min
  <1>4. QED
    BY <1>1, <1>2, <1>3

LEMMA SystemLogins ==
    ASSUME NEW meta, IsMeta(meta), NEW users \in SUBSET (DOMAIN meta.public_keys), NEW l
    PROVE  Allows(Elements(SystemLines(meta, users)), l)
              <=> \E u \in users : \E k \in meta.public_keys[u] : l = <<u, k>>
  <1>1. \A e : e \in Elements(SystemLines(meta, users))
            <=> \E u \in users : \E k \in meta.public_keys[u] : e = <<"sshkey", u, k>>
    BY SystemElements
  <1>2. \A u, k : <<"sshkey", u, k>>[1] = "sshkey" /\ <<"sshkey", u, k>>[2] = u
                    /\ <<"sshkey", u, k>>[3] = k
    OBVIOUS
  <1>3. ASSUME Allows(Elements(SystemLines(meta, users)), l)
        PROVE  \E u \in users : \E k \in meta.public_keys[u] : l = <<u, k>>
    <2>1. PICK e \in Elements(SystemLines(meta, users)) : l = <<e[2], e[3]>>
      BY <1>3 DEF Allows
    <2>2. PICK u \in users : \E k \in meta.public_keys[u] : e = <<"sshkey", u, k>>
      BY <1>1, <2>1
    <2>3. QED
      BY <1>2, <2>1, <2>2
  <1>4. ASSUME NEW u \in users, NEW k \in meta.public_keys[u], l = <<u, k>>
        PROVE  Allows(Elements(SystemLines(meta, users)), l)
    <2>1. <<"sshkey", u, k>> \in Elements(SystemLines(meta, users))
      BY <1>1
    <2>2. QED
      BY <1>2, <1>4, <2>1 DEF Allows
  <1>5. QED
    BY <1>3, <1>4

LEMMA AccountLogins ==
    ASSUME NEW meta, IsMeta(meta), NEW l
    PROVE  Allows(Elements(AccountLines(meta)), l)
              <=> \E u \in DOMAIN meta.users : \E k \in meta.users[u].keys : l = <<u, k>>
  <1>1. \A e : e \in Elements(AccountLines(meta))
            <=> \E u \in DOMAIN meta.users :
                   \/ e = <<"user", u>>
                   \/ \E k \in meta.users[u].keys : e = <<"sshkey", u, k>>
    BY AccountElements
  <1>2. \A u, k : /\ <<"sshkey", u, k>>[1] = "sshkey" /\ <<"sshkey", u, k>>[2] = u
                  /\ <<"sshkey", u, k>>[3] = k /\ <<"user", u>>[1] # "sshkey"
    OBVIOUS
  <1>3. ASSUME Allows(Elements(AccountLines(meta)), l)
        PROVE  \E u \in DOMAIN meta.users : \E k \in meta.users[u].keys : l = <<u, k>>
    <2>1. PICK e \in Elements(AccountLines(meta)) : e[1] = "sshkey" /\ l = <<e[2], e[3]>>
      BY <1>3 DEF Allows
    <2>2. PICK u \in DOMAIN meta.users : \/ e = <<"user", u>>
                                         \/ \E k \in meta.users[u].keys : e = <<"sshkey", u, k>>
      BY <1>1, <2>1
    <2>3. QED
      BY <1>2, <2>1, <2>2
  <1>4. ASSUME NEW u \in DOMAIN meta.users, NEW k \in meta.users[u].keys, l = <<u, k>>
        PROVE  Allows(Elements(AccountLines(meta)), l)
    <2>1. <<"sshkey", u, k>> \in Elements(AccountLines(meta))
      BY <1>1
    <2>2. QED
      BY <1>2, <1>4, <2>1 DEF Allows
  <1>5. QED
    BY <1>3, <1>4

\* The line that names the host lets in nobody, and every other one whom it
\* would alone.
LEMMA TogetherAllow ==
    ASSUME NEW A, NEW B, NEW l
    PROVE  Allows(A \cup B, l) <=> Allows(A, l) \/ Allows(B, l)
  BY DEF Allows

LEMMA ConcatAllows ==
    ASSUME NEW s, NEW t, IsSeq(s), IsSeq(t)
    PROVE  /\ IsSeq(s \o t)
           /\ \A l : Allows(Elements(s \o t), l) <=> Allows(Elements(s), l) \/ Allows(Elements(t), l)
  BY ConcatElements, TogetherAllow

LEMMA NetworkLine ==
    ASSUME NEW hostname, NEW l
    PROVE  /\ IsSeq(<<<<"network", hostname>>>>) /\ ~ Allows(Elements(<<<<"network", hostname>>>>), l)
           /\ IsSeq(<<>>) /\ ~ Allows(Elements(<<>>), l)
           /\ IsSeq(<<<<"%packages">>>>) /\ ~ Allows(Elements(<<<<"%packages">>>>), l)
  <1>1. /\ Elements(<<<<"network", hostname>>>>) = {<<"network", hostname>>}
        /\ Elements(<<>>) = {}
        /\ Elements(<<<<"%packages">>>>) = {<<"%packages">>}
    BY DEF Elements
  <1>2. <<"network", hostname>>[1] # "sshkey" /\ <<"%packages">>[1] # "sshkey"
    OBVIOUS
  <1>3. QED
    BY <1>1, <1>2 DEF IsSeq, Allows

\* merge_kickstart lets in whom the base lets in, and of those of the metadata
\* the ones with an account.
LEMMA MergedKickstart ==
    ASSUME NEW lines, IsSeq(lines), NEW meta, IsMeta(meta)
    PROVE  KickstartLogins(merge_kickstart(lines, meta))
              = KickstartLogins(lines)
                  \cup {l \in MetaLogins(meta) : l[1] \in {"root"} \cup DOMAIN meta.users}
  <1> DEFINE pos     == SelectInSeq(lines, LAMBDA l : l[1] \in {"%packages", "%post"})
             start  == IF pos = 0 THEN Len(lines) ELSE pos - 1
             named   == SelectInSeq(lines, LAMBDA l : l[1] = "network") # 0
             system  == DOMAIN meta.public_keys \cap ({"root"} \cup DOMAIN meta.users)
             first   == SubSeq(lines, 1, start)
             network == IF named THEN <<>> ELSE <<<<"network", meta.hostname>>>>
             keys    == SystemLines(meta, system)
             users   == AccountLines(meta)
             last    == SubSeq(lines, start + 1, Len(lines))
  <1>1. Len(lines) \in Nat /\ start \in 0 .. Len(lines)
    <2>1. Len(lines) \in Nat
      BY DEF IsSeq
    <2>2. pos \in 0 .. Len(lines)
      BY SectionStart
    <2> HIDE DEF pos
    <2>3. QED
      BY <2>1, <2>2
  <1>2. merge_kickstart(lines, meta) = first \o network \o keys \o users \o last
    BY DEF merge_kickstart
  <1> HIDE DEF pos, start, named
  <1>3. IsSeq(first) /\ IsSeq(last) /\ Elements(first) \cup Elements(last) = Elements(lines)
    BY <1>1, SplitElements
  <1>4. IsSeq(network) /\ \A l : ~ Allows(Elements(network), l)
    BY NetworkLine
  <1>5. system \in SUBSET (DOMAIN meta.public_keys)
    OBVIOUS
  <1> HIDE DEF system
  <1>6. /\ IsSeq(keys) /\ IsSeq(users)
        /\ \A l : Allows(Elements(keys), l)
              <=> \E u \in system : \E k \in meta.public_keys[u] : l = <<u, k>>
        /\ \A l : Allows(Elements(users), l)
              <=> \E u \in DOMAIN meta.users : \E k \in meta.users[u].keys : l = <<u, k>>
    BY <1>5, SystemElements, AccountElements, SystemLogins, AccountLogins
  <1> HIDE DEF first, network, keys, users, last
  <1>7. ASSUME NEW l
        PROVE  l \in KickstartLogins(merge_kickstart(lines, meta))
                 <=> \/ l \in KickstartLogins(lines)
                     \/ Allows(Elements(keys), l) \/ Allows(Elements(users), l)
    <2> DEFINE In(s) == Allows(Elements(s), l)
    <2>1. IsSeq(first \o network) /\ (In(first \o network) <=> In(first) \/ In(network))
      BY <1>3, <1>4, ConcatAllows
    <2>2. /\ IsSeq(first \o network \o keys)
          /\ In(first \o network \o keys) <=> In(first \o network) \/ In(keys)
      BY <1>6, <2>1, ConcatAllows
    <2>3. /\ IsSeq(first \o network \o keys \o users)
          /\ In(first \o network \o keys \o users) <=> In(first \o network \o keys) \/ In(users)
      BY <1>6, <2>2, ConcatAllows
    <2>4. In(first \o network \o keys \o users \o last)
             <=> In(first \o network \o keys \o users) \/ In(last)
      BY <1>3, <2>3, ConcatAllows
    <2> HIDE DEF In
    <2>5. In(merge_kickstart(lines, meta))
            <=> In(first) \/ In(network) \/ In(keys) \/ In(users) \/ In(last)
      BY <1>2, <2>1, <2>2, <2>3, <2>4
    <2>6. Allows(Elements(first), l) \/ Allows(Elements(last), l) <=> l \in KickstartLogins(lines)
      BY <1>3, TogetherAllow, KickstartAllows
    <2>7. QED
      BY <1>4, <2>5, <2>6, KickstartAllows DEF In
  <1>8. ASSUME NEW l
        PROVE  Allows(Elements(keys), l) \/ Allows(Elements(users), l)
                 <=> l \in MetaLogins(meta) /\ l[1] \in {"root"} \cup DOMAIN meta.users
    <2>1. \A u, k : <<u, k>>[1] = u
      OBVIOUS
    <2>2. \A u : u \in system <=> u \in DOMAIN meta.public_keys /\ u \in {"root"} \cup DOMAIN meta.users
      BY DEF system
    <2>3. QED
      BY <1>6, <2>1, <2>2, MetaAllows
  <1>9. QED
    BY <1>7, <1>8

LEMMA GeneratedKickstart ==
    ASSUME NEW meta, IsMeta(meta)
    PROVE  KickstartLogins(generate_kickstart(meta)) = MetaLogins(meta)
  <1> DEFINE network == <<<<"network", meta.hostname>>>>
             keys    == SystemLines(meta, DOMAIN meta.public_keys)
             users   == AccountLines(meta)
             last    == <<<<"%packages">>>>
  <1>1. generate_kickstart(meta) = network \o keys \o users \o last
    BY DEF generate_kickstart
  <1>2. /\ IsSeq(network) /\ \A l : ~ Allows(Elements(network), l)
        /\ IsSeq(last) /\ \A l : ~ Allows(Elements(last), l)
    BY NetworkLine
  <1>3. /\ IsSeq(keys) /\ IsSeq(users)
        /\ \A l : Allows(Elements(keys), l)
              <=> \E u \in DOMAIN meta.public_keys : \E k \in meta.public_keys[u] : l = <<u, k>>
        /\ \A l : Allows(Elements(users), l)
              <=> \E u \in DOMAIN meta.users : \E k \in meta.users[u].keys : l = <<u, k>>
    BY SystemElements, AccountElements, SystemLogins, AccountLogins
  <1> HIDE DEF network, keys, users, last
  <1>4. ASSUME NEW l
        PROVE  l \in KickstartLogins(generate_kickstart(meta))
                 <=> Allows(Elements(keys), l) \/ Allows(Elements(users), l)
    <2> DEFINE In(s) == Allows(Elements(s), l)
    <2>1. IsSeq(network \o keys) /\ (In(network \o keys) <=> In(network) \/ In(keys))
      BY <1>2, <1>3, ConcatAllows
    <2>2. /\ IsSeq(network \o keys \o users)
          /\ In(network \o keys \o users) <=> In(network \o keys) \/ In(users)
      BY <1>3, <2>1, ConcatAllows
    <2>3. In(network \o keys \o users \o last) <=> In(network \o keys \o users) \/ In(last)
      BY <1>2, <2>2, ConcatAllows
    <2>4. ~ In(network) /\ ~ In(last)
      BY <1>2
    <2> HIDE DEF In
    <2>5. In(generate_kickstart(meta)) <=> In(keys) \/ In(users)
      BY <1>1, <2>1, <2>2, <2>3, <2>4
    <2>6. QED
      BY <2>5, KickstartAllows DEF In
  <1>5. ASSUME NEW l
        PROVE  l \in MetaLogins(meta) <=> Allows(Elements(keys), l) \/ Allows(Elements(users), l)
    BY <1>3, MetaAllows
  <1>6. QED
    BY <1>4, <1>5

----------------------------------------------------------------------------
(* Who may log in with a config that a host is given.                      *)

Known(found) ==
    \A b \in found : /\ \A i \in b.ignition : IsIgnition(i)
                     /\ \A l \in b.kickstart : IsKickstart(l)

LEMMA IgnitionLawful ==
    ASSUME NEW config, NEW meta, NEW found, NEW base \in Bases(found), "users" \in DOMAIN base,
           DOMAIN config = {"users", "files"},
           IgnitionLogins(config) = IgnitionLogins(base) \cup MetaLogins(meta)
    PROVE  Lawful(config, meta, found)
  <1>1. Logins(config) = IgnitionLogins(config)
    BY DEF Logins
  <1>2. IgnitionLogins(base) \subseteq Logins(base)
    BY DEF Logins
  <1>3. Granted(config, meta) = MetaLogins(meta)
    BY DEF Granted
  <1>4. QED
    BY <1>1, <1>2, <1>3 DEF Lawful

LEMMA KickstartLawful ==
    ASSUME NEW lines, NEW meta, NEW found, NEW base \in Bases(found), "lines" \in DOMAIN base,
           KickstartLogins(lines)
              = KickstartLogins(base.lines)
                  \cup {l \in MetaLogins(meta) : l[1] \in {"root"} \cup DOMAIN meta.users}
    PROVE  Lawful([lines |-> lines], meta, found)
  <1> DEFINE config == [lines |-> lines]
  <1>1. Logins(config) = KickstartLogins(lines)
    BY DEF Logins
  <1>2. KickstartLogins(base.lines) \subseteq Logins(base)
    BY DEF Logins
  <1>3. Granted(config, meta) = {l \in MetaLogins(meta) : l[1] \in {"root"} \cup DOMAIN meta.users}
    BY DEF Granted
  <1> HIDE DEF config
  <1>4. QED
    BY <1>1, <1>2, <1>3 DEF Lawful, config

\* A default config lets in who is granted, and who is in the base found.
LEMMA DefaultLawful ==
    ASSUME NEW endpoint, NEW meta \in Metas, NEW found, Known(found)
    PROVE  Lawful(DefaultConfig(endpoint, meta, found).config, meta, found)
  <1>1. IsMeta(meta)
    BY MetasAssumption
  <1>2. CASE endpoint = "kickstart_config"
    <2> DEFINE bases == UNION {b.kickstart : b \in found}
    <2>1. DefaultConfig(endpoint, meta, found).config = [lines |-> build_kickstart(meta, bases)]
      BY <1>2 DEF DefaultConfig
    <2>2. CASE bases = {}
      <3> DEFINE lines  == generate_kickstart(meta)
                 config == [lines |-> lines]
      <3>1. build_kickstart(meta, bases) = lines
        BY <2>2 DEF build_kickstart
      <3>2. KickstartLogins(lines) = MetaLogins(meta)
        BY <1>1, GeneratedKickstart
      <3> HIDE DEF lines
      <3>3. Logins(config) = MetaLogins(meta) /\ Granted(config, meta) \subseteq MetaLogins(meta)
        BY <3>2 DEF Logins, Granted
      <3>4. Lawful(config, meta, found)
        BY <3>3 DEF Lawful
      <3>5. QED
        BY <2>1, <3>1, <3>4
    <2>3. CASE bases # {}
      <3> DEFINE l == CHOOSE b \in bases : TRUE
      <3>1. l \in bases /\ build_kickstart(meta, bases) = merge_kickstart(l, meta)
        BY <2>3 DEF build_kickstart
      <3> HIDE DEF l
      <3>2. IsSeq(l)
        BY <3>1 DEF Known, IsKickstart, IsSeq, Elements
      <3>3. [lines |-> l] \in Bases(found)
        BY <3>1 DEF Bases
      <3>4. Lawful([lines |-> merge_kickstart(l, meta)], meta, found)
        BY <1>1, <3>2, <3>3, MergedKickstart, KickstartLawful
      <3>5. QED
        BY <2>1, <3>1, <3>4
    <2>4. QED
      BY <2>2, <2>3
  <1>3. CASE endpoint # "kickstart_config"
    <2> DEFINE bases == UNION {b.ignition : b \in found}
    <2>1. DefaultConfig(endpoint, meta, found).config = build_ignition(meta, bases)
      BY <1>3 DEF DefaultConfig
    <2>2. CASE bases = {}
      <3> DEFINE config == generate_ignition(meta)
      <3>1. build_ignition(meta, bases) = config
        BY <2>2 DEF build_ignition
      <3>2. DOMAIN config = {"users", "files"} /\ IgnitionLogins(config) = MetaLogins(meta)
        BY GeneratedIgnition
      <3> HIDE DEF config
      <3>3. Logins(config) = MetaLogins(meta) /\ Granted(config, meta) = MetaLogins(meta)
        BY <3>2 DEF Logins, Granted
      <3>4. Lawful(config, meta, found)
        BY <3>3 DEF Lawful
      <3>5. QED
        BY <2>1, <3>1, <3>4
    <2>3. CASE bases # {}
      <3> DEFINE i == CHOOSE b \in bases : TRUE
      <3>1. i \in bases /\ build_ignition(meta, bases) = merge_ignition(i, meta)
        BY <2>3 DEF build_ignition
      <3> HIDE DEF i
      <3>2. IsIgnition(i) /\ i \in Bases(found)
        BY <3>1 DEF Known, Bases
      <3>3. Lawful(merge_ignition(i, meta), meta, found)
        BY <3>2, MergedIgnition, IgnitionLawful DEF IsIgnition
      <3>4. QED
        BY <2>1, <3>1, <3>3
    <2>4. QED
      BY <2>2, <2>3
  <1>4. QED
    BY <1>2, <1>3

\* Substituting the host name changes no user and no key.
LEMMA Substituted ==
    ASSUME NEW text \in Contents, NEW meta
    PROVE  LET content == substitute_variables(text, meta)
           IN  /\ DOMAIN content = DOMAIN Parsed[text]
               /\ content.json = Parsed[text].json
               /\ IsIgnition(content) /\ IsSeq(content.lines)
               /\ IgnitionLogins(content) = IgnitionLogins(Parsed[text])
               /\ KickstartLogins(content.lines) = KickstartLogins(Parsed[text].lines)
  <1> DEFINE base    == Parsed[text]
             content == substitute_variables(text, meta)
             named(l) == IF l = <<"network", HOSTNAME>> THEN <<"network", meta.hostname>> ELSE l
  <1>1. /\ {"json", "users", "files", "lines"} \subseteq DOMAIN base
        /\ IsIgnition(base) /\ IsSeq(base.lines)
    BY BasesAssumption DEF IsIgnition, IsKickstart, IsSeq, Elements
  <1> HIDE DEF base
  <1>2. /\ DOMAIN content = DOMAIN base
        /\ content.json = base.json /\ content.users = base.users
        /\ content.lines = [i \in DOMAIN base.lines |-> named(base.lines[i])]
    BY <1>1 DEF substitute_variables, base
  <1> HIDE DEF content
  <1>3. IsIgnition(content)
    BY <1>1, <1>2 DEF IsIgnition
  <1>4. IgnitionLogins(content) = IgnitionLogins(base)
    BY <1>2 DEF IgnitionLogins
  <1>5. IsSeq(content.lines)
    <2>1. Len(base.lines) \in Nat /\ DOMAIN base.lines = 1 .. Len(base.lines)
      BY <1>1, SeqFacts DEF IsSeq
    <2> DEFINE n == Len(base.lines)
    <2> HIDE DEF n, named
    <2>2. content.lines = [i \in 1 .. n |-> named(base.lines[i])] /\ n \in Nat
      BY <1>2, <2>1 DEF n
    <2>3. QED
      BY <2>2 DEF IsSeq, Elements
  <1>6. ASSUME NEW l
        PROVE  l \in KickstartLogins(content.lines) <=> l \in KickstartLogins(base.lines)
    <2>1. \A e : \/ named(e) = e
                 \/ e[1] = "network" /\ named(e)[1] = "network"
      OBVIOUS
    <2> HIDE DEF named
    <2>2. \A e : e \in Elements(content.lines) <=> \E d \in Elements(base.lines) : e = named(d)
      BY <1>2 DEF Elements
    <2>3. Allows(Elements(content.lines), l) <=> Allows(Elements(base.lines), l)
      BY <2>1, <2>2 DEF Allows
    <2>4. QED
      BY <2>3, KickstartAllows
  <1>7. QED
    BY <1>2, <1>3, <1>4, <1>5, <1>6 DEF base, content

\* What is rendered of a template lets in who is granted, and who is in it; or
\* goes out as it is.
LEMMA RenderedLawful ==
    ASSUME NEW name, NEW text \in Contents, NEW meta \in Metas, NEW found
    PROVE  Lawful(TemplateConfig(name, text, meta).config, meta, found)
  <1> DEFINE content == substitute_variables(text, meta)
             base    == Parsed[text]
             format  == Format[name]
  <1>1. IsMeta(meta) /\ base \in Bases(found)
    BY MetasAssumption DEF Bases
  <1>2. {"json", "users", "lines"} \subseteq DOMAIN base /\ base.json \in BOOLEAN
    BY BasesAssumption DEF IsIgnition
  <1>3. /\ DOMAIN content = DOMAIN base /\ content.json = base.json
        /\ IsIgnition(content) /\ IsSeq(content.lines)
        /\ IgnitionLogins(content) = IgnitionLogins(base)
        /\ KickstartLogins(content.lines) = KickstartLogins(base.lines)
    BY Substituted
  <1>4. TemplateConfig(name, text, meta).config = Render(format, text, meta)
    BY DEF TemplateConfig
  <1> HIDE DEF content, base, format
  <1>5. CASE format = "ignition" /\ content.json
    <2>1. Render(format, text, meta) = merge_ignition(content, meta)
      BY <1>5 DEF Render, content
    <2>2. QED
      BY <1>1, <1>2, <1>3, <1>4, <2>1, MergedIgnition, IgnitionLawful
  <1>6. CASE format = "kickstart"
    <2>1. Render(format, text, meta) = [lines |-> merge_kickstart(content.lines, meta)]
      BY <1>6 DEF Render, content
    <2>2. QED
      BY <1>1, <1>2, <1>3, <1>4, <2>1, MergedKickstart, KickstartLawful
  <1>7. CASE ~ (format = "ignition" /\ content.json) /\ format # "kickstart"
    <2>1. Render(format, text, meta) = content
      BY <1>7 DEF Render, content
    <2>2. Logins(content) = Logins(base)
      BY <1>3 DEF Logins
    <2>3. QED
      BY <1>1, <1>2, <1>3, <1>4, <2>1, <2>2 DEF Lawful
  <1>8. QED
    BY <1>5, <1>6, <1>7

----------------------------------------------------------------------------
(* Requests and the logins they are answered.                              *)

\* A request that is served has the metadata of its address and, once it has
\* read it, a base that mkube gave; until it is answered there is no reply.
Entitled(k) ==
    /\ k.at # "idle" => k.reply.kind = "none"
    /\ k.at \in {"oneshot", "resolve", "load", "loading"} => k.meta \in Metas
    /\ k.at = "get_bmh" /\ k.endpoint # "template_info" => k.meta \in Metas
    /\ k.at = "info_oneshot" => k.endpoint = "template_info"
    /\ Known(k.found)
    /\ k.reply.kind \in {"default", "template"} => Lawful(k.reply.config, k.meta, k.found)

Entitlements == \A r \in Requests : Entitled(req[r])

LEMMA IdleEntitled == Entitled(IdleRequest)
  BY DEF Entitled, IdleRequest, NoReply, Known

LEMMA FoundKnown ==
    ASSUME InputTypes, NEW host
    PROVE  Known(get_bmh(host))
  BY BasesAssumption DEF InputTypes, get_bmh, Known

LEMMA EntitledStep ==
    ASSUME IInv, Entitlements, NEW r \in Requests, NEW k, Step(r, k), Entitled(k)
    PROVE  Entitlements'
  <1>1. req'[r] = k /\ \A d \in Requests \ {r} : req'[d] = req[d]
    BY DEF Step, IInv
  <1>2. QED
    BY <1>1 DEF Entitlements

\* The default config is an answer that grants no more and no less.
LEMMA DefaultEntitled ==
    ASSUME IInv, Entitlements, NEW r \in Requests,
           req[r].at \in {"oneshot", "resolve", "load", "loading"}, AnswerDefault(r)
    PROVE  Entitlements'
  <1> DEFINE reply == DefaultConfig(req[r].endpoint, req[r].meta, req[r].found)
             k     == [req[r] EXCEPT !.at = "idle", !.reply = reply]
  <1>1. IsRequest(req[r]) /\ Entitled(req[r])
    BY DEF IInv, Entitlements
  <1>2. Lawful(reply.config, req[r].meta, req[r].found)
    BY <1>1, DefaultLawful DEF Entitled
  <1>3. Step(r, k)
    BY DEF AnswerDefault, Answer
  <1> HIDE DEF reply
  <1>4. Entitled(k)
    BY <1>1, <1>2 DEF Entitled, IsRequest
  <1> HIDE DEF k
  <1>5. QED
    BY <1>3, <1>4, EntitledStep

\* A request goes on with what it has read, or is told no more than a template.
LEMMA OnEntitled ==
    ASSUME IInv, Entitlements, NEW r \in Requests, req[r].at # "idle",
           \/ \E at \in {"resolve", "loading", "get_bmh"} :
                 /\ Step(r, [req[r] EXCEPT !.at = at])
                 /\ at = "get_bmh" => req[r].endpoint = "template_info"
                 /\ at # "get_bmh" => req[r].at \in {"oneshot", "load"}
           \/ \E t : req[r].at = "resolve" /\ Step(r, [req[r] EXCEPT !.at = "load", !.template = t])
           \/ \E reply : reply.kind = "info" /\ Answer(r, reply)
           \/ \E reply, blind : reply.kind = "info"
                 /\ Step(r, [req[r] EXCEPT !.at = "idle", !.blind = blind, !.reply = reply])
    PROVE  Entitlements'
  <1>1. IsRequest(req[r]) /\ Entitled(req[r])
    BY DEF IInv, Entitlements
  <1>2. ASSUME NEW at \in {"resolve", "loading", "get_bmh"},
               at = "get_bmh" => req[r].endpoint = "template_info",
               at # "get_bmh" => req[r].at \in {"oneshot", "load"}
        PROVE  Entitled([req[r] EXCEPT !.at = at])
    BY <1>1, <1>2 DEF Entitled, IsRequest
  <1>3. ASSUME NEW t, req[r].at = "resolve"
        PROVE  Entitled([req[r] EXCEPT !.at = "load", !.template = t])
    BY <1>1, <1>3 DEF Entitled, IsRequest
  <1>4. ASSUME NEW reply, reply.kind = "info"
        PROVE  Entitled([req[r] EXCEPT !.at = "idle", !.reply = reply])
    BY <1>1, <1>4 DEF Entitled, IsRequest
  <1>5. ASSUME NEW reply, NEW blind, reply.kind = "info"
        PROVE  Entitled([req[r] EXCEPT !.at = "idle", !.blind = blind, !.reply = reply])
    BY <1>1, <1>5 DEF Entitled, IsRequest
  <1>6. \E k : Step(r, k) /\ Entitled(k)
    BY <1>2, <1>3, <1>4, <1>5, Zenon DEF Answer
  <1>7. QED
    BY <1>6, EntitledStep

LEMMA BeginEntitled ==
    ASSUME IInv, Entitlements, NEW r \in Requests, NEW ip \in IPs,
           BeginInfo(r, ip) \/ \E e \in Endpoints : Begin(r, ip, e)
    PROVE  Entitlements'
  <1>1. CASE BeginInfo(r, ip)
    <2> DEFINE k == [IdleRequest EXCEPT !.endpoint = "template_info", !.ip = ip]
    <2>1. \/ Step(r, [k EXCEPT !.at = "info_oneshot", !.host = bmh.ip_to_hostname[ip]])
          \/ Step(r, [k EXCEPT !.reply = NoInfo])
      BY <1>1 DEF BeginInfo
    <2>2. /\ Entitled([k EXCEPT !.at = "info_oneshot", !.host = bmh.ip_to_hostname[ip]])
          /\ Entitled([k EXCEPT !.reply = NoInfo])
      BY IdleEntitled, ReplyKinds DEF Entitled, IdleRequest, NoReply
    <2> HIDE DEF k
    <2>3. QED
      BY <2>1, <2>2, EntitledStep
  <1>2. ASSUME NEW e \in Endpoints, Begin(r, ip, e) PROVE Entitlements'
    <2> DEFINE k == [IdleRequest EXCEPT !.endpoint = e, !.ip = ip, !.meta = metadata[ip]]
    <2>1. CASE metadata[ip] = NoMeta
      <3>1. Step(r, [k EXCEPT !.reply = Refused])
        BY <1>2, <2>1 DEF Begin
      <3>2. Entitled([k EXCEPT !.reply = Refused])
        BY IdleEntitled, ReplyKinds DEF Entitled, IdleRequest, NoReply
      <3> HIDE DEF k
      <3>3. QED
        BY <3>1, <3>2, EntitledStep
    <2>2. CASE metadata[ip] # NoMeta
      <3> DEFINE l == [k EXCEPT !.at = "get_bmh", !.host = metadata[ip].local_hostname]
      <3>1. Step(r, l)
        BY <1>2, <2>2 DEF Begin
      <3>2. metadata[ip] \in Metas
        BY <2>2 DEF IInv, InputTypes
      <3>3. Entitled(l)
        BY <3>2, IdleEntitled DEF Entitled, IdleRequest, NoReply
      <3> HIDE DEF l
      <3>4. QED
        BY <3>1, <3>3, EntitledStep
    <2>3. QED
      BY <2>1, <2>2
  <1>3. QED
    BY <1>1, <1>2

LEMMA GetBmhEntitled ==
    ASSUME IInv, Entitlements, NEW r \in Requests, GetBmh(r)
    PROVE  Entitlements'
  <1> DEFINE at    == IF req[r].endpoint = "template_info" THEN "info" ELSE "oneshot"
             found == get_bmh(req[r].host)
             k     == [req[r] EXCEPT !.found = found, !.at = at]
  <1>1. IsRequest(req[r]) /\ Entitled(req[r]) /\ req[r].at = "get_bmh" /\ Step(r, k)
    BY DEF IInv, Entitlements, GetBmh
  <1>2. Known(found)
    BY FoundKnown DEF IInv
  <1> HIDE DEF found
  <1>3. Entitled(k)
    BY <1>1, <1>2 DEF Entitled, IsRequest
  <1> HIDE DEF k
  <1>4. QED
    BY <1>1, <1>3, EntitledStep

LEMMA ServeEntitled ==
    ASSUME IInv, Entitlements, NEW r \in Requests, Serve(r)
    PROVE  Entitlements'
  <1>1. IsRequest(req[r]) /\ Entitled(req[r]) /\ req[r].at = "loading" /\ call[r].text \in Contents
    BY RequestsCall DEF IInv, Entitlements, Serve, StoreInv, StoreTypes, CallType, Calls
  <1>2. CASE call[r].status = "found"
    <2> DEFINE reply == TemplateConfig(call[r].name, call[r].text, req[r].meta)
               k     == [req[r] EXCEPT !.at = "idle", !.reply = reply]
    <2>1. Step(r, k)
      BY <1>2 DEF Serve, Answer
    <2>2. Lawful(reply.config, req[r].meta, req[r].found)
      BY <1>1, RenderedLawful DEF Entitled
    <2> HIDE DEF reply
    <2>3. Entitled(k)
      BY <1>1, <2>2 DEF Entitled, IsRequest
    <2> HIDE DEF k
    <2>4. QED
      BY <2>1, <2>3, EntitledStep
  <1>3. CASE call[r].status # "found"
    BY <1>1, <1>3, DefaultEntitled DEF Serve
  <1>4. QED
    BY <1>2, <1>3

LEMMA EntitledRequest ==
    ASSUME IInv, Entitlements, NEW r \in Requests, Request(r)
    PROVE  Entitlements'
  <1>1. CASE \E ip \in IPs : BeginInfo(r, ip) \/ \E e \in Endpoints : Begin(r, ip, e)
    BY <1>1, BeginEntitled
  <1>2. CASE CheckOneshot(r)
    BY <1>2, DefaultEntitled, OnEntitled DEF CheckOneshot
  <1>3. CASE resolve_template_ref(r)
    <2>1. req[r].at = "resolve" /\ \E t : Chosen(r, t)
      BY <1>3 DEF resolve_template_ref
    <2>2. AnswerDefault(r) \/ \E t : Step(r, [req[r] EXCEPT !.at = "load", !.template = t])
      BY <2>1 DEF Chosen
    <2>3. QED
      BY <2>1, <2>2, DefaultEntitled, OnEntitled
  <1>4. CASE Load(r)
    BY <1>4, OnEntitled DEF Load
  <1>5. CASE InfoOneshot(r)
    <2>1. IsRequest(req[r])
      BY DEF IInv
    <2>2. CASE req[r].host \in completed
      BY <1>5, <2>2, ReplyKinds, OnEntitled DEF InfoOneshot
    <2>3. CASE req[r].host \notin completed
      <3>1. req[r].at = "info_oneshot" /\ req[r].endpoint = "template_info"
        BY <1>5 DEF InfoOneshot, Entitlements, Entitled
      <3>2. Step(r, [req[r] EXCEPT !.at = "get_bmh"])
        BY <1>5, <2>3 DEF InfoOneshot
      <3>3. QED
        BY <3>1, <3>2, OnEntitled
    <2>4. QED
      BY <2>2, <2>3
  <1>6. CASE AnswerInfo(r)
    <2> DEFINE blind == "assignments" \in locked
               reply == InfoOf(bmh_template(req[r].found),
                               IF blind THEN NoTemplate ELSE assignments[req[r].host],
                               config_assignment(req[r].host))
    <2>1. Step(r, [req[r] EXCEPT !.at = "idle", !.blind = blind, !.reply = reply])
      BY <1>6 DEF AnswerInfo
    <2>2. reply.kind = "info" /\ req[r].at # "idle"
      BY <1>6, ReplyKinds DEF AnswerInfo
    <2> HIDE DEF reply, blind
    <2>3. QED
      BY <2>1, <2>2, OnEntitled
  <1>7. CASE Abandon(r)
    BY <1>7, IdleEntitled, EntitledStep DEF Abandon
  <1>8. QED
    BY <1>1, <1>2, <1>3, <1>4, <1>5, <1>6, <1>7, GetBmhEntitled, ServeEntitled DEF Request

LEMMA EntitledNext == IInv /\ Entitlements /\ [Next]_vars => Entitlements'
  <1> SUFFICES ASSUME IInv, Entitlements, [Next]_vars PROVE Entitlements'
    OBVIOUS
  <1>1. Change \/ UNCHANGED vars => UNCHANGED req
    BY DEF Change, Assign, oneshot_provisioned, oneshot_delete, EndSave, ChangeMetadata,
           ChangeBmh, UseStore, StoreStep, vars
  <1>2. UNCHANGED req => Entitlements'
    BY DEF Entitlements
  <1>3. QED
    BY <1>1, <1>2, EntitledRequest DEF Next

\* Whatever template, BareMetalHost or metadata changes while a host is served,
\* it is granted the logins of the metadata it was looked up with, merged into
\* the base that was found: none is lost, and none is added.
THEOREM LoginsAreGranted == Spec => []GrantedLogins
  <1>1. Init => Entitlements
    BY IdleEntitled DEF Init, Entitlements
  <1>2. Entitlements => GrantedLogins
    BY DEF Entitlements, Entitled, GrantedLogins
  <1>3. QED
    BY Invariance, <1>1, <1>2, EntitledNext, PTL DEF Spec

----------------------------------------------------------------------------
(* What a request is going to be answered if nothing changes from here.    *)

IsInfo(k) == k.endpoint = "template_info"

Default(k, found) == DefaultConfig(k.endpoint, k.meta, found)

Wanted(k, found) ==
    Prevailing(bmh_template(found), assignments[k.host], config_assignment(k.host))

NameIn(stored) == CHOOSE m \in stored : TRUE

Loaded(k, found, template) ==
    LET name == NameIn(Found(template))
    IN  IF Found(template) = {} THEN Default(k, found)
        ELSE TemplateConfig(name, files[name], k.meta)

Resolved(k, found) ==
    IF Wanted(k, found) = NoTemplate THEN Default(k, found)
    ELSE Loaded(k, found, Wanted(k, found))

Checked(k, found) == IF k.host \in completed THEN Default(k, found) ELSE Resolved(k, found)

InfoFor(k, found) ==
    InfoOf(bmh_template(found), assignments[k.host], config_assignment(k.host))

Served(k, c) ==
    IF c.at = "read" THEN TemplateConfig(c.name, files[c.name], k.meta)
    ELSE IF c.at = "read_meta" \/ c.status = "found" THEN TemplateConfig(c.name, c.text, k.meta)
    ELSE Default(k, k.found)

Foresees(r, x) ==
    LET k == req[r]
    IN  /\ k.at = "get_bmh" /\ ~IsInfo(k) => x = Checked(k, get_bmh(k.host))
        /\ k.at = "oneshot" => x = Checked(k, k.found)
        /\ k.at = "resolve" => x = Resolved(k, k.found)
        /\ k.at = "load" => x = Loaded(k, k.found, k.template)
        /\ k.at = "loading" => x = Served(k, call[r])
        /\ k.at = "info_oneshot" =>
              x = IF k.host \in completed THEN NoInfo ELSE InfoFor(k, get_bmh(k.host))
        /\ k.at = "get_bmh" /\ IsInfo(k) => x = InfoFor(k, get_bmh(k.host))
        /\ k.at = "info" => x = InfoFor(k, k.found)

\* Where the endpoints take a request.
Kind(k) ==
    /\ k.at \in {"oneshot", "resolve", "load", "loading"} => ~IsInfo(k)
    /\ k.at \in {"info_oneshot", "info"} => IsInfo(k)

\* What a request has looked up is still so.
AwareOfHost(k) ==
    /\ ~IsInfo(k) => metadata[k.ip] = k.meta /\ k.meta # NoMeta /\ k.host = k.meta.local_hostname
    /\ IsInfo(k) => k.ip \in DOMAIN bmh.ip_to_hostname /\ k.host = bmh.ip_to_hostname[k.ip]

AwareOfBmh(k) ==
    k.at \in {"oneshot", "resolve", "load", "loading", "info"} => k.found = get_bmh(k.host)

AwareOfOneshot(k) ==
    k.at \in {"resolve", "load", "loading", "info"} \/ (k.at = "get_bmh" /\ IsInfo(k)) =>
        k.host \notin completed

AwareOfTemplate(k) ==
    k.at \in {"load", "loading"} => k.template = Wanted(k, k.found) /\ k.template # NoTemplate

AwareOfFile(k, c) ==
    k.at = "loading" =>
        IF Found(k.template) = {} THEN c.at = "done" /\ c.status = "missing"
        ELSE /\ c.name = NameIn(Found(k.template))
             /\ files[c.name] # NoFile
             /\ \/ c.at = "read"
                \/ /\ c.at = "read_meta" \/ (c.at = "done" /\ c.status = "found")
                   /\ c.text = files[c.name]

Aware(r) ==
    /\ AwareOfHost(req[r]) /\ AwareOfBmh(req[r]) /\ AwareOfOneshot(req[r])
    /\ AwareOfTemplate(req[r]) /\ AwareOfFile(req[r], call[r])

\* Its template has been removed since it was found.
Lost(r) ==
    /\ req[r].at = "loading"
    /\ \/ call[r].at = "read" /\ files[call[r].name] = NoFile
       \/ call[r].at = "done" /\ call[r].status = "error"

DueNow(r) == Due(req[r].endpoint, req[r].ip)

OnceChanged(r) ==
    \/ Foresees(r, before[r].due) \/ Foresees(r, DueNow(r)) \/ Lost(r) \/ Moved(r)

Prompt(r) ==
    req[r].at # "idle" =>
        /\ Kind(req[r])
        /\ changed[r] \in 0 .. 2
        /\ changed[r] = 0 => Aware(r) /\ before[r].due = DueNow(r)
        /\ changed[r] = 1 => OnceChanged(r)

----------------------------------------------------------------------------
(* What is due is what a request that begins now is answered.              *)

LEMMA FirstSourceIs ==
    ASSUME NEW host
    PROVE  LET n == bmh_template(get_bmh(host))
               a == assignments[host]
               c == config_assignment(host)
           IN  /\ Prevailing(n, a, c) = NoTemplate => FirstSource(host) = {} /\ InfoOf(n, a, c) = NoInfo
               /\ Prevailing(n, a, c) # NoTemplate =>
                     /\ FirstSource(host) = {InfoOf(n, a, c)}
                     /\ InfoOf(n, a, c).template = Prevailing(n, a, c)
  <1> DEFINE n == bmh_template(get_bmh(host))
             a == assignments[host]
             c == config_assignment(host)
             s == <<Info("bmh", n), Info("rest_assignment", a), Info("config", c)>>
             I == {j \in 1 .. 3 : /\ s[j].template # NoTemplate
                                  /\ \A k \in 1 .. (j - 1) : s[k].template = NoTemplate}
  <1>1. FirstSource(host) = {s[i] : i \in I}
    BY DEF FirstSource, Sources
  <1> HIDE DEF n, a, c
  <1>2. /\ s[1] = Info("bmh", n) /\ s[2] = Info("rest_assignment", a) /\ s[3] = Info("config", c)
        /\ Info("bmh", n).template = n /\ Info("rest_assignment", a).template = a
        /\ Info("config", c).template = c
    BY DEF Info
  <1>3. 1 .. 3 = {1, 2, 3} /\ 1 .. (1 - 1) = {} /\ 1 .. (2 - 1) = {1} /\ 1 .. (3 - 1) = {1, 2}
    OBVIOUS
  <1> HIDE DEF s
  <1>4. CASE n # NoTemplate
    <2>1. I = {1}
      BY <1>2, <1>3, <1>4
    <2>2. InfoOf(n, a, c) = Info("bmh", n) /\ Prevailing(n, a, c) = n
      BY <1>4 DEF InfoOf, Prevailing
    <2> HIDE DEF I
    <2>3. QED
      BY <1>1, <1>2, <1>4, <2>1, <2>2 DEF n, a, c
  <1>5. CASE n = NoTemplate /\ a # NoTemplate
    <2>1. I = {2}
      BY <1>2, <1>3, <1>5
    <2>2. InfoOf(n, a, c) = Info("rest_assignment", a) /\ Prevailing(n, a, c) = a
      BY <1>5 DEF InfoOf, Prevailing
    <2> HIDE DEF I
    <2>3. QED
      BY <1>1, <1>2, <1>5, <2>1, <2>2 DEF n, a, c
  <1>6. CASE n = NoTemplate /\ a = NoTemplate /\ c # NoTemplate
    <2>1. I = {3}
      BY <1>2, <1>3, <1>6
    <2>2. InfoOf(n, a, c) = Info("config", c) /\ Prevailing(n, a, c) = c
      BY <1>6 DEF InfoOf, Prevailing
    <2> HIDE DEF I
    <2>3. QED
      BY <1>1, <1>2, <1>6, <2>1, <2>2 DEF n, a, c
  <1>7. CASE n = NoTemplate /\ a = NoTemplate /\ c = NoTemplate
    <2>1. I = {}
      BY <1>2, <1>3, <1>7
    <2>2. InfoOf(n, a, c) = NoInfo /\ Prevailing(n, a, c) = NoTemplate
      BY <1>7 DEF InfoOf, Prevailing, NoInfo
    <2> HIDE DEF I
    <2>3. QED
      BY <1>1, <2>1, <2>2 DEF n, a, c
  <1>8. QED
    BY <1>4, <1>5, <1>6, <1>7

LEMMA DueConfigIs ==
    ASSUME NEW k, ~IsInfo(k), AwareOfHost(k)
    PROVE  Due(k.endpoint, k.ip) = Checked(k, get_bmh(k.host))
  <1> DEFINE found    == get_bmh(k.host)
             template == Wanted(k, found)
             stored   == UNION {Found(s.template) : s \in FirstSource(k.host)}
             name     == NameIn(stored)
  <1>1. metadata[k.ip] = k.meta /\ k.meta # NoMeta /\ k.host = k.meta.local_hostname
    BY DEF AwareOfHost
  <1>2. Due(k.endpoint, k.ip) = IF k.host \in completed \/ stored = {} THEN Default(k, found)
                                ELSE TemplateConfig(name, files[name], k.meta)
    BY <1>1 DEF Due, DueConfig, Default, IsInfo, NameIn
  <1>3. template = NoTemplate => stored = {}
    BY FirstSourceIs DEF Wanted
  <1>4. template # NoTemplate => stored = Found(template)
    <2>1. ASSUME template # NoTemplate
          PROVE  \E s : FirstSource(k.host) = {s} /\ s.template = template
      BY <2>1, FirstSourceIs DEF Wanted
    <2> HIDE DEF template
    <2>2. QED
      BY <2>1
  <1> HIDE DEF stored, template, found
  <1>5. CASE template = NoTemplate
    BY <1>2, <1>3, <1>5 DEF Checked, Resolved, template, found
  <1>6. CASE template # NoTemplate
    <2>1. Resolved(k, found) = Loaded(k, found, template)
      BY <1>6 DEF Resolved, template
    <2>2. Loaded(k, found, template)
            = IF stored = {} THEN Default(k, found) ELSE TemplateConfig(name, files[name], k.meta)
      BY <1>4, <1>6 DEF Loaded
    <2>3. QED
      BY <1>2, <2>1, <2>2 DEF Checked, found
  <1>7. QED
    BY <1>5, <1>6

LEMMA DueInfoIs ==
    ASSUME NEW k, IsInfo(k), AwareOfHost(k)
    PROVE  Due(k.endpoint, k.ip)
              = IF k.host \in completed THEN NoInfo ELSE InfoFor(k, get_bmh(k.host))
  <1>1. k.ip \in DOMAIN bmh.ip_to_hostname /\ k.host = bmh.ip_to_hostname[k.ip]
    BY DEF AwareOfHost
  <1>2. Due(k.endpoint, k.ip) = IF k.host \in completed \/ FirstSource(k.host) = {} THEN NoInfo
                                ELSE CHOOSE s \in FirstSource(k.host) : TRUE
    BY <1>1 DEF Due, DueInfo, IsInfo
  <1> DEFINE info == InfoFor(k, get_bmh(k.host))
  <1>3. \/ FirstSource(k.host) = {} /\ info = NoInfo
        \/ FirstSource(k.host) = {info}
    BY FirstSourceIs DEF InfoFor
  <1> HIDE DEF info
  <1>4. (CHOOSE s \in {info} : TRUE) = info
    OBVIOUS
  <1>5. QED
    BY <1>2, <1>3, <1>4 DEF info

LEMMA AwareForesees ==
    \A r \in Requests : Kind(req[r]) /\ Aware(r) => Foresees(r, DueNow(r))
  <1> SUFFICES ASSUME NEW r \in Requests, Kind(req[r]), Aware(r) PROVE Foresees(r, DueNow(r))
    OBVIOUS
  <1> DEFINE k == req[r]
             c == call[r]
  <1>1. /\ AwareOfHost(k) /\ AwareOfBmh(k) /\ AwareOfOneshot(k)
        /\ AwareOfTemplate(k) /\ AwareOfFile(k, c) /\ Kind(k)
    BY DEF Aware
  <1> HIDE DEF k, c
  <1>2. CASE IsInfo(k)
    <2>1. Due(k.endpoint, k.ip) = IF k.host \in completed THEN NoInfo ELSE InfoFor(k, get_bmh(k.host))
      BY <1>1, <1>2, DueInfoIs
    <2>2. k.at \notin {"oneshot", "resolve", "load", "loading"}
      BY <1>1, <1>2 DEF Kind
    <2>3. k.at = "get_bmh" \/ k.at = "info" => k.host \notin completed
      BY <1>1, <1>2 DEF AwareOfOneshot
    <2>4. k.at = "info" => k.found = get_bmh(k.host)
      BY <1>1 DEF AwareOfBmh
    <2>5. QED
      BY <1>2, <2>1, <2>2, <2>3, <2>4 DEF Foresees, DueNow, k
  <1>3. CASE ~IsInfo(k)
    <2>1. Due(k.endpoint, k.ip) = Checked(k, get_bmh(k.host))
      BY <1>1, <1>3, DueConfigIs
    <2>2. k.at \notin {"info_oneshot", "info"}
      BY <1>1, <1>3 DEF Kind
    <2>3. k.at \in {"oneshot", "resolve", "load", "loading"} => k.found = get_bmh(k.host)
      BY <1>1 DEF AwareOfBmh
    <2>4. k.at \in {"resolve", "load", "loading"} =>
              Due(k.endpoint, k.ip) = Resolved(k, k.found)
      BY <1>1, <2>1, <2>3 DEF AwareOfOneshot, Checked
    <2>5. k.at \in {"load", "loading"} => Due(k.endpoint, k.ip) = Loaded(k, k.found, k.template)
      BY <1>1, <2>4 DEF AwareOfTemplate, Resolved
    <2>6. k.at = "loading" => Loaded(k, k.found, k.template) = Served(k, c)
      BY <1>1 DEF AwareOfFile, Loaded, Served
    <2>7. QED
      BY <1>3, <2>1, <2>2, <2>3, <2>4, <2>5, <2>6 DEF Foresees, DueNow, k, c
  <1>4. QED
    BY <1>2, <1>3

LEMMA AwareForeseesNext ==
    (\A r \in Requests : Kind(req[r]) /\ Aware(r) => Foresees(r, DueNow(r)))'
  BY AwareForesees, PTL

----------------------------------------------------------------------------
(* Steps of others: a request sees of the store its own call only.         *)

SameCall(r) ==
    /\ call'[r].at = call[r].at /\ call'[r].name = call[r].name
    /\ call'[r].text = call[r].text /\ call'[r].status = call[r].status

SameView(r) == req'[r] = req[r] /\ SameCall(r)

LEMMA DueStays ==
    ASSUME UNCHANGED inputs, NEW endpoint, NEW ip
    PROVE  Due(endpoint, ip)' = Due(endpoint, ip)
  BY DEF inputs, Due, DueConfig, DueInfo, FirstSource, Sources, Found, get_bmh

\* Metadata is looked up at the beginning only.
LEMMA ForeseesStays ==
    ASSUME UNCHANGED <<bmh, assignments, completed, files>>, NEW r \in Requests, SameView(r), NEW x,
           Foresees(r, x)
    PROVE  Foresees(r, x)'
  <1>1. \A n : Found(n)' = Found(n)
    BY DEF Found
  <1>2. \A h : get_bmh(h)' = get_bmh(h)
    BY DEF get_bmh
  <1>3. \A k, f : Wanted(k, f)' = Wanted(k, f)
    BY DEF Wanted
  <1>4. \A k, f, t : Loaded(k, f, t)' = Loaded(k, f, t)
    BY <1>1 DEF Loaded
  <1>5. \A k, f : Resolved(k, f)' = Resolved(k, f)
    BY <1>3, <1>4 DEF Resolved
  <1>6. \A k, f : Checked(k, f)' = Checked(k, f)
    BY <1>5 DEF Checked
  <1>7. \A k, f : InfoFor(k, f)' = InfoFor(k, f)
    BY DEF InfoFor
  <1>8. \A k, c : Served(k, c)' = Served(k, c)
    BY DEF Served
  <1>9. req'[r] = req[r]
    BY DEF SameView
  <1>10. req[r].at = "loading" => Served(req[r], call[r])' = Served(req[r], call[r])
    BY <1>9 DEF SameView, SameCall, Served
  <1>11. QED
    BY <1>2, <1>4, <1>5, <1>6, <1>7, <1>9, <1>10 DEF Foresees

LEMMA AwareStays ==
    ASSUME UNCHANGED inputs, NEW r \in Requests, SameView(r), Aware(r)
    PROVE  Aware(r)'
  <1>1. \A n : Found(n)' = Found(n)
    BY DEF Found, inputs
  <1>2. req'[r] = req[r]
    BY DEF SameView
  <1>3. AwareOfHost(req[r])'
    BY <1>2 DEF inputs, Aware, AwareOfHost
  <1>4. AwareOfBmh(req[r])' /\ AwareOfOneshot(req[r])' /\ AwareOfTemplate(req[r])'
    BY <1>2 DEF inputs, Aware, AwareOfBmh, AwareOfOneshot, AwareOfTemplate, get_bmh, Wanted
  <1>5. AwareOfFile(req[r], call[r])'
    BY <1>1, <1>2 DEF inputs, SameView, SameCall, Aware, AwareOfFile
  <1>6. QED
    BY <1>3, <1>4, <1>5 DEF Aware

LEMMA LostStays ==
    ASSUME UNCHANGED files, NEW r \in Requests, SameView(r), Lost(r)
    PROVE  Lost(r)'
  BY DEF SameView, SameCall, Lost

LEMMA DueNowStays ==
    ASSUME UNCHANGED inputs, NEW r \in Requests, req'[r] = req[r]
    PROVE  DueNow(r)' = DueNow(r)
  BY DueStays DEF DueNow

\* What is remembered of a request that neither begins nor ends.
LEMMA Remembered ==
    ASSUME IInv, Remember, NEW r \in Requests, req[r].at # "idle", req'[r].at # "idle"
    PROVE  /\ before'[r].due = before[r].due
           /\ changed'[r] = IF inputs' # inputs /\ changed[r] < 2 THEN changed[r] + 1 ELSE changed[r]
  <1>1. before[r] = [due |-> before[r].due, done |-> before[r].done] /\ ~Begins(r)
    BY DEF IInv, Barred, Begins
  <1>2. /\ before'[r] = [before[r] EXCEPT !.done = @ /\ req[r].host \in completed']
        /\ changed'[r] = IF inputs' # inputs /\ changed[r] < 2 THEN changed[r] + 1 ELSE changed[r]
    BY <1>1 DEF Remember
  <1>3. before'[r].due = before[r].due
    BY <1>1, <1>2
  <1>4. QED
    BY <1>2, <1>3

\* Nothing that the request reads changes.
LEMMA PromptStays ==
    ASSUME IInv, Remember, NEW r \in Requests, SameView(r), UNCHANGED inputs, Prompt(r)
    PROVE  Prompt(r)'
  <1> SUFFICES ASSUME req'[r].at # "idle"
               PROVE  /\ Kind(req'[r]) /\ changed'[r] \in 0 .. 2
                      /\ changed'[r] = 0 => Aware(r)' /\ before'[r].due = DueNow(r)'
                      /\ changed'[r] = 1 => OnceChanged(r)'
    BY DEF Prompt
  <1>1. req'[r] = req[r] /\ req[r].at # "idle" /\ before'[r].due = before[r].due /\ changed'[r] = changed[r]
    BY Remembered DEF SameView
  <1>2. DueNow(r)' = DueNow(r)
    BY <1>1, DueNowStays
  <1>3. ASSUME OnceChanged(r) PROVE OnceChanged(r)'
    <2>1. ASSUME Moved(r) PROVE Moved(r)'
      BY <1>1, <2>1 DEF Moved, inputs
    <2>2. UNCHANGED <<bmh, assignments, completed, files>>
      BY DEF inputs
    <2>3. QED
      BY <1>1, <1>2, <1>3, <2>1, <2>2, ForeseesStays, LostStays DEF OnceChanged
  <1>4. Aware(r) => Aware(r)'
    BY AwareStays
  <1>5. QED
    BY <1>1, <1>2, <1>3, <1>4 DEF Prompt

\* One input changes: what was due before is still foreseen, where that input has
\* been read, and otherwise what is due from now on.
LEMMA PromptChange ==
    ASSUME IInv, Remember, NEW r \in Requests, req'[r] = req[r], Prompt(r), inputs' # inputs,
           req[r].at # "idle" /\ Kind(req[r]) /\ Aware(r) =>
              \/ Aware(r)' \/ Lost(r)' \/ Moved(r)'
              \/ \A x : Foresees(r, x) => Foresees(r, x)'
    PROVE  Prompt(r)'
  <1> SUFFICES ASSUME req'[r].at # "idle"
               PROVE  /\ Kind(req'[r]) /\ changed'[r] \in 1 .. 2
                      /\ changed'[r] = 1 => OnceChanged(r)'
    BY DEF Prompt
  <1>1. /\ req[r].at # "idle" /\ Kind(req[r]) /\ before'[r].due = before[r].due
        /\ changed[r] \in 0 .. 2
        /\ changed'[r] = IF changed[r] < 2 THEN changed[r] + 1 ELSE changed[r]
    BY Remembered DEF Prompt
  <1>2. ASSUME changed'[r] = 1 PROVE OnceChanged(r)'
    <2>1. changed[r] = 0
      BY <1>1, <1>2
    <2>2. Aware(r) /\ before[r].due = DueNow(r)
      BY <1>1, <2>1 DEF Prompt
    <2>3. CASE Aware(r)'
      <3>1. Kind(req[r])'
        BY <1>1 DEF Kind, IsInfo
      <3>2. Foresees(r, DueNow(r))'
        BY <2>3, <3>1, AwareForeseesNext
      <3>3. QED
        BY <3>2 DEF OnceChanged
    <2>4. CASE \A x : Foresees(r, x) => Foresees(r, x)'
      <3>1. Foresees(r, before[r].due)
        BY <1>1, <2>2, AwareForesees
      <3>2. PICK x : x = before[r].due
        OBVIOUS
      <3>3. Foresees(r, x)'
        BY <2>4, <3>1, <3>2
      <3>4. Foresees(r, before[r].due)'
        BY <1>1, <3>2, <3>3
      <3>5. QED
        BY <3>4 DEF OnceChanged
    <2>5. QED
      BY <1>1, <2>2, <2>3, <2>4 DEF OnceChanged
  <1>3. QED
    BY <1>1, <1>2 DEF Kind, IsInfo

LEMMA MetadataChange ==
    ASSUME IInv, Remember, NEW r \in Requests, SameView(r), Prompt(r), inputs' # inputs,
           UNCHANGED <<bmh, assignments, completed, files>>
    PROVE  Prompt(r)'
  <1>1. \A x : Foresees(r, x) => Foresees(r, x)'
    BY ForeseesStays
  <1>2. QED
    BY <1>1, PromptChange DEF SameView

LEMMA BmhChange ==
    ASSUME IInv, Remember, NEW r \in Requests, SameView(r), Prompt(r), inputs' # inputs,
           UNCHANGED <<metadata, assignments, completed, files>>
    PROVE  Prompt(r)'
  <1> SUFFICES ASSUME req[r].at # "idle", Kind(req[r]), Aware(r), ~ Moved(r)'
               PROVE  Aware(r)' \/ \A x : Foresees(r, x) => Foresees(r, x)'
    BY PromptChange DEF SameView
  <1>1. req'[r] = req[r]
    BY DEF SameView
  <1>2. CASE req[r].at \in {"oneshot", "resolve", "load", "loading", "info"}
    <2> SUFFICES ASSUME NEW x, Foresees(r, x) PROVE Foresees(r, x)'
      OBVIOUS
    <2>1. \A n : Found(n)' = Found(n)
      BY DEF Found
    <2>2. \A k, f : Wanted(k, f)' = Wanted(k, f)
      BY DEF Wanted
    <2>3. \A k, f, t : Loaded(k, f, t)' = Loaded(k, f, t)
      BY <2>1 DEF Loaded
    <2>4. \A k, f : Resolved(k, f)' = Resolved(k, f)
      BY <2>2, <2>3 DEF Resolved
    <2>5. \A k, f : Checked(k, f)' = Checked(k, f)
      BY <2>4 DEF Checked
    <2>6. \A k, f : InfoFor(k, f)' = InfoFor(k, f)
      BY DEF InfoFor
    <2>7. req[r].at = "loading" => Served(req[r], call[r])' = Served(req[r], call[r])
      BY <1>1 DEF SameView, SameCall, Served
    <2>8. QED
      BY <1>1, <1>2, <2>3, <2>4, <2>5, <2>6, <2>7 DEF Foresees
  <1>3. CASE req[r].at \notin {"oneshot", "resolve", "load", "loading", "info"}
    <2>1. AwareOfHost(req[r])'
      BY <1>1 DEF Aware, AwareOfHost, Moved, IsInfo
    <2>2. AwareOfBmh(req[r])' /\ AwareOfTemplate(req[r])' /\ AwareOfFile(req[r], call[r])'
      BY <1>1, <1>3 DEF AwareOfBmh, AwareOfTemplate, AwareOfFile
    <2>3. AwareOfOneshot(req[r])'
      BY <1>1 DEF Aware, AwareOfOneshot, IsInfo
    <2>4. QED
      BY <2>1, <2>2, <2>3 DEF Aware
  <1>4. QED
    BY <1>2, <1>3

LEMMA AssignmentsChange ==
    ASSUME IInv, Remember, NEW r \in Requests, SameView(r), Prompt(r), inputs' # inputs,
           UNCHANGED <<metadata, bmh, completed, files>>
    PROVE  Prompt(r)'
  <1> SUFFICES ASSUME req[r].at # "idle", Kind(req[r]), Aware(r)
               PROVE  Aware(r)' \/ \A x : Foresees(r, x) => Foresees(r, x)'
    BY PromptChange DEF SameView
  <1>1. req'[r] = req[r]
    BY DEF SameView
  <1>2. CASE req[r].at \in {"load", "loading"}
    <2> SUFFICES ASSUME NEW x, Foresees(r, x) PROVE Foresees(r, x)'
      OBVIOUS
    <2>1. \A n : Found(n)' = Found(n)
      BY DEF Found
    <2>2. \A k, f, t : Loaded(k, f, t)' = Loaded(k, f, t)
      BY <2>1 DEF Loaded
    <2>3. req[r].at = "loading" => Served(req[r], call[r])' = Served(req[r], call[r])
      BY <1>1 DEF SameView, SameCall, Served
    <2>4. QED
      BY <1>1, <1>2, <2>2, <2>3 DEF Foresees
  <1>3. CASE req[r].at \notin {"load", "loading"}
    <2>1. AwareOfHost(req[r])' /\ AwareOfBmh(req[r])' /\ AwareOfOneshot(req[r])'
      BY <1>1 DEF Aware, AwareOfHost, AwareOfBmh, AwareOfOneshot, get_bmh, IsInfo
    <2>2. AwareOfTemplate(req[r])' /\ AwareOfFile(req[r], call[r])'
      BY <1>1, <1>3 DEF AwareOfTemplate, AwareOfFile
    <2>3. QED
      BY <2>1, <2>2 DEF Aware
  <1>4. QED
    BY <1>2, <1>3

LEMMA CompletedChange ==
    ASSUME IInv, Remember, NEW r \in Requests, SameView(r), Prompt(r), inputs' # inputs,
           UNCHANGED <<metadata, bmh, assignments, files>>
    PROVE  Prompt(r)'
  <1> DEFINE past == \/ req[r].at \in {"resolve", "load", "loading", "info"}
                     \/ req[r].at = "get_bmh" /\ IsInfo(req[r])
  <1> SUFFICES ASSUME req[r].at # "idle", Kind(req[r]), Aware(r)
               PROVE  Aware(r)' \/ \A x : Foresees(r, x) => Foresees(r, x)'
    BY PromptChange DEF SameView
  <1>1. req'[r] = req[r]
    BY DEF SameView
  <1>2. CASE past
    <2> SUFFICES ASSUME NEW x, Foresees(r, x) PROVE Foresees(r, x)'
      OBVIOUS
    <2>1. \A n : Found(n)' = Found(n)
      BY DEF Found
    <2>2. \A k, f : Wanted(k, f)' = Wanted(k, f)
      BY DEF Wanted
    <2>3. \A k, f, t : Loaded(k, f, t)' = Loaded(k, f, t)
      BY <2>1 DEF Loaded
    <2>4. \A k, f : Resolved(k, f)' = Resolved(k, f)
      BY <2>2, <2>3 DEF Resolved
    <2>5. \A h : get_bmh(h)' = get_bmh(h)
      BY DEF get_bmh
    <2>6. \A k, f : InfoFor(k, f)' = InfoFor(k, f)
      BY DEF InfoFor
    <2>7. req[r].at = "loading" => Served(req[r], call[r])' = Served(req[r], call[r])
      BY <1>1 DEF SameView, SameCall, Served
    <2>8. QED
      BY <1>1, <1>2, <2>3, <2>4, <2>5, <2>6, <2>7 DEF Foresees, IsInfo
  <1>3. CASE ~past
    <2>1. AwareOfHost(req[r])' /\ AwareOfBmh(req[r])'
      BY <1>1 DEF Aware, AwareOfHost, AwareOfBmh, get_bmh, IsInfo
    <2>2. AwareOfOneshot(req[r])' /\ AwareOfTemplate(req[r])' /\ AwareOfFile(req[r], call[r])'
      BY <1>1, <1>3 DEF AwareOfOneshot, AwareOfTemplate, AwareOfFile, IsInfo
    <2>3. QED
      BY <2>1, <2>2 DEF Aware
  <1>4. QED
    BY <1>2, <1>3

\* A write of one file; another content of a file that is there changes nothing
\* about which file is found.
LEMMA FilesChange ==
    ASSUME IInv, Remember, NEW r \in Requests, SameView(r), Prompt(r), inputs' # inputs,
           UNCHANGED <<metadata, bmh, assignments, completed>>,
           NEW n \in Names, NEW t, files' = [files EXCEPT ![n] = t]
    PROVE  Prompt(r)'
  <1> SUFFICES ASSUME req[r].at # "idle", Kind(req[r]), Aware(r), ~ Lost(r)'
               PROVE  Aware(r)' \/ \A x : Foresees(r, x) => Foresees(r, x)'
    BY PromptChange DEF SameView
  <1>1. req'[r] = req[r]
    BY DEF SameView
  <1>2. AwareOfHost(req[r])' /\ AwareOfBmh(req[r])' /\ AwareOfOneshot(req[r])'
    BY <1>1 DEF Aware, AwareOfHost, AwareOfBmh, AwareOfOneshot, get_bmh, IsInfo
  <1>3. AwareOfTemplate(req[r])'
    BY <1>1 DEF Aware, AwareOfTemplate, Wanted
  <1>4. CASE req[r].at # "loading"
    <2>1. AwareOfFile(req[r], call[r])'
      BY <1>1, <1>4 DEF AwareOfFile
    <2>2. QED
      BY <1>2, <1>3, <2>1 DEF Aware
  <1>5. CASE req[r].at = "loading" /\ files'[call[r].name] = files[call[r].name]
    <2> SUFFICES ASSUME NEW x, Foresees(r, x) PROVE Foresees(r, x)'
      OBVIOUS
    <2>1. Served(req[r], call[r])' = Served(req[r], call[r])
      BY <1>1, <1>5 DEF SameView, SameCall, Served, Default
    <2>2. QED
      BY <1>1, <1>5, <2>1 DEF Foresees
  <1>6. CASE req[r].at = "loading" /\ call[r].at # "read"
    <2> SUFFICES ASSUME NEW x, Foresees(r, x) PROVE Foresees(r, x)'
      OBVIOUS
    <2>1. Served(req[r], call[r])' = Served(req[r], call[r])
      BY <1>1, <1>6 DEF SameView, SameCall, Served, Default
    <2>2. QED
      BY <1>1, <1>6, <2>1 DEF Foresees
  <1>7. CASE /\ req[r].at = "loading" /\ call[r].at = "read"
             /\ files'[call[r].name] # files[call[r].name]
    <2>1. files = [m \in Names |-> files[m]]
      BY DEF IInv, StoreInv, StoreTypes
    <2>2. call[r].name = n /\ files'[n] # NoFile
      BY <1>1, <1>7, <2>1 DEF Lost, SameView, SameCall
    <2>3. files[n] # NoFile /\ AwareOfFile(req[r], call[r])
      BY <1>7, <2>2 DEF Aware, AwareOfFile
    <2>4. \A m : files'[m] = NoFile <=> files[m] = NoFile
      BY <2>1, <2>2, <2>3
    <2>5. \A m : Found(m)' = Found(m)
      BY <2>4 DEF Found
    <2>6. AwareOfFile(req[r], call[r])'
      BY <1>1, <1>7, <2>2, <2>3, <2>5 DEF AwareOfFile, SameView, SameCall
    <2>7. QED
      BY <1>2, <1>3, <2>6 DEF Aware
  <1>8. QED
    BY <1>4, <1>5, <1>6, <1>7

----------------------------------------------------------------------------
(* Steps of the request itself.                                            *)

\* A request goes on: it foresees the same, and has looked up nothing that is
\* not so.
LEMMA PromptOn ==
    ASSUME IInv, Remember, NEW r \in Requests, UNCHANGED inputs, Prompt(r), req[r].at # "idle",
           req'[r].endpoint = req[r].endpoint, req'[r].ip = req[r].ip, req'[r].host = req[r].host,
           Kind(req[r]) => Kind(req'[r]),
           Kind(req[r]) /\ Aware(r) => Aware(r)',
           \A x : Kind(req[r]) /\ Foresees(r, x) => Foresees(r, x)' \/ Lost(r)',
           Lost(r) => Lost(r)'
    PROVE  Prompt(r)'
  <1> SUFFICES ASSUME req'[r].at # "idle"
               PROVE  /\ Kind(req'[r]) /\ changed'[r] \in 0 .. 2
                      /\ changed'[r] = 0 => Aware(r)' /\ before'[r].due = DueNow(r)'
                      /\ changed'[r] = 1 => OnceChanged(r)'
    BY DEF Prompt
  <1>1. before'[r].due = before[r].due /\ changed'[r] = changed[r]
    BY Remembered
  <1>2. DueNow(r)' = DueNow(r)
    <2>1. Due(req[r].endpoint, req[r].ip)' = Due(req[r].endpoint, req[r].ip)
      <3>1. \A e, i : Due(e, i)' = Due(e, i)
        BY DueStays
      <3>2. DueNow(r)' = Due(req[r].endpoint, req[r].ip)'
        BY DEF DueNow
      <3>3. QED
        BY <3>1
    <2>2. QED
      BY <2>1 DEF DueNow
  <1>3. ASSUME Kind(req[r]), OnceChanged(r) PROVE OnceChanged(r)'
    <2>1. ASSUME Moved(r) PROVE Moved(r)'
      BY <2>1 DEF Moved, inputs
    <2>2. PICK x, y : x = before[r].due /\ y = DueNow(r)
      OBVIOUS
    <2>3. Foresees(r, x) \/ Foresees(r, y) => Foresees(r, x)' \/ Foresees(r, y)' \/ Lost(r)'
      BY <1>3
    <2>4. x = before'[r].due /\ y = DueNow(r)'
      BY <1>1, <1>2, <2>2
    <2>5. QED
      BY <1>3, <2>1, <2>2, <2>3, <2>4 DEF OnceChanged
  <1>4. QED
    BY <1>1, <1>2, <1>3 DEF Prompt

\* The inputs are as they were.
LEMMA InputsStay ==
    ASSUME UNCHANGED inputs
    PROVE  /\ \A n : Found(n)' = Found(n)
           /\ \A h : get_bmh(h)' = get_bmh(h)
           /\ \A k, f : Wanted(k, f)' = Wanted(k, f)
           /\ \A k, f, t : Loaded(k, f, t)' = Loaded(k, f, t)
           /\ \A k, f : Resolved(k, f)' = Resolved(k, f)
           /\ \A k, f : Checked(k, f)' = Checked(k, f)
           /\ \A k, f : InfoFor(k, f)' = InfoFor(k, f)
  <1>1. \A n : Found(n)' = Found(n)
    BY DEF Found, inputs
  <1>2. \A h : get_bmh(h)' = get_bmh(h)
    BY DEF get_bmh, inputs
  <1>3. \A k, f : Wanted(k, f)' = Wanted(k, f)
    BY DEF Wanted, inputs
  <1>4. \A k, f, t : Loaded(k, f, t)' = Loaded(k, f, t)
    BY <1>1 DEF Loaded, inputs
  <1>5. \A k, f : Resolved(k, f)' = Resolved(k, f)
    BY <1>3, <1>4 DEF Resolved
  <1>6. \A k, f : Checked(k, f)' = Checked(k, f)
    BY <1>5 DEF Checked, inputs
  <1>7. \A k, f : InfoFor(k, f)' = InfoFor(k, f)
    BY DEF InfoFor, inputs
  <1>8. QED
    BY <1>1, <1>2, <1>3, <1>4, <1>5, <1>6, <1>7

\* What a configuration is made of depends on these fields of a request only.
SameRequest(l, k) ==
    /\ l.endpoint = k.endpoint /\ l.ip = k.ip /\ l.meta = k.meta /\ l.host = k.host

LEMMA SameAnswers ==
    ASSUME NEW k, NEW l, SameRequest(l, k)
    PROVE  /\ \A f : Wanted(l, f) = Wanted(k, f)
           /\ \A f : Default(l, f) = Default(k, f)
           /\ \A f, t : Loaded(l, f, t) = Loaded(k, f, t)
           /\ \A f : Resolved(l, f) = Resolved(k, f)
           /\ \A f : Checked(l, f) = Checked(k, f)
           /\ \A f : InfoFor(l, f) = InfoFor(k, f)
           /\ IsInfo(l) = IsInfo(k)
  BY DEF SameRequest, Wanted, Default, Loaded, Resolved, Checked, InfoFor, IsInfo

\* A request that goes on alone: what it foresees and knows, in terms of its
\* record before the step.
LEMMA AloneOn ==
    ASSUME IInv, NEW r \in Requests, req[r].at # "idle", Prompt(r), Remember, UNCHANGED inputs,
           NEW l, req'[r] = l, SameRequest(l, req[r]),
           l.at \in {"oneshot", "resolve", "load", "get_bmh", "info"},
           req[r].at \in {"get_bmh", "oneshot", "resolve", "info_oneshot"},
           Kind(req[r]) => Kind(l),
           Kind(req[r]) /\ Aware(r) =>
              AwareOfBmh(l) /\ AwareOfOneshot(l) /\ AwareOfTemplate(l),
           \A x : Kind(req[r]) /\ Foresees(r, x) =>
              /\ l.at = "get_bmh" => x = InfoFor(req[r], get_bmh(req[r].host))
              /\ l.at = "oneshot" => x = Checked(req[r], l.found)
              /\ l.at = "resolve" => x = Resolved(req[r], l.found)
              /\ l.at = "load" => x = Loaded(req[r], l.found, l.template)
              /\ l.at = "info" => x = InfoFor(req[r], l.found),
           l.at = "get_bmh" => IsInfo(req[r])
    PROVE  Prompt(r)'
  <1> DEFINE k == req[r]
  <1>1. ~ Lost(r) /\ Kind(k)
    BY DEF Lost, Prompt
  <1>2. ASSUME Aware(r) PROVE Aware(r)'
    <2>1. AwareOfHost(l)
      BY <1>2 DEF Aware, AwareOfHost, SameRequest, IsInfo
    <2>2. AwareOfBmh(l) /\ AwareOfOneshot(l) /\ AwareOfTemplate(l)
      BY <1>1, <1>2
    <2>3. AwareOfHost(l)' /\ AwareOfBmh(l)' /\ AwareOfOneshot(l)' /\ AwareOfTemplate(l)'
      BY <2>1, <2>2 DEF inputs, AwareOfHost, AwareOfBmh, AwareOfOneshot, AwareOfTemplate, get_bmh,
                        Wanted
    <2>4. AwareOfFile(l, call[r])'
      BY DEF AwareOfFile
    <2>5. QED
      BY <2>3, <2>4 DEF Aware
  <1>3. ASSUME NEW x, Foresees(r, x) PROVE Foresees(r, x)'
    <2>1. /\ l.at = "get_bmh" => x = InfoFor(l, get_bmh(l.host)) /\ IsInfo(l)
          /\ l.at = "oneshot" => x = Checked(l, l.found)
          /\ l.at = "resolve" => x = Resolved(l, l.found)
          /\ l.at = "load" => x = Loaded(l, l.found, l.template)
          /\ l.at = "info" => x = InfoFor(l, l.found)
      BY <1>1, <1>3, SameAnswers DEF SameRequest
    <2>2. QED
      BY <2>1, InputsStay DEF Foresees
  <1>4. QED
    BY <1>1, <1>2, <1>3, PromptOn DEF SameRequest

LEMMA GetBmhPrompt ==
    ASSUME IInv, NEW r \in Requests, Prompt(r), GetBmh(r)
    PROVE  Prompt(r)'
  <1> DEFINE k     == req[r]
             found == get_bmh(k.host)
             l     == [k EXCEPT !.found = found, !.at = IF k.endpoint = "template_info"
                                                        THEN "info" ELSE "oneshot"]
  <1>1. /\ IsRequest(k) /\ k.at = "get_bmh" /\ Kind(k) /\ Remember /\ UNCHANGED inputs
        /\ req'[r] = l
    BY DEF IInv, GetBmh, Prompt, store, inputs, Step
  <1>2. /\ l.at = IF IsInfo(k) THEN "info" ELSE "oneshot"
        /\ l.found = found /\ SameRequest(l, k)
    BY <1>1 DEF IsRequest, IsInfo, SameRequest
  <1>3. Foresees(r, l) = Foresees(r, l)
    OBVIOUS
  <1> HIDE DEF l
  <1>4. Kind(l)
    BY <1>2 DEF Kind, IsInfo, SameRequest
  <1>5. ASSUME Aware(r) PROVE AwareOfBmh(l) /\ AwareOfOneshot(l) /\ AwareOfTemplate(l)
    BY <1>1, <1>2, <1>5 DEF Aware, AwareOfBmh, AwareOfOneshot, AwareOfTemplate, SameRequest, IsInfo
  <1>6. \A x : Foresees(r, x) => /\ l.at = "oneshot" => x = Checked(k, l.found)
                                 /\ l.at = "info" => x = InfoFor(k, l.found)
    BY <1>1, <1>2 DEF Foresees
  <1>7. QED
    BY <1>1, <1>2, <1>4, <1>5, <1>6, AloneOn

\* Who has an answer is done.
LEMMA AnswerEnds ==
    ASSUME IInv, NEW r \in Requests, NEW reply, Answer(r, reply)
    PROVE  req'[r].at = "idle" /\ req'[r].reply = reply /\ req'[r].blind = req[r].blind
  <1>1. IsRequest(req[r]) /\ req'[r] = [req[r] EXCEPT !.at = "idle", !.reply = reply]
    BY DEF IInv, Answer, Step
  <1>2. QED
    BY <1>1 DEF IsRequest

LEMMA CheckOneshotPrompt ==
    ASSUME IInv, NEW r \in Requests, Prompt(r), CheckOneshot(r), req'[r].at # "idle"
    PROVE  Prompt(r)'
  <1> DEFINE k == req[r]
             l == [k EXCEPT !.at = "resolve"]
  <1>1. IsRequest(k) /\ k.at = "oneshot" /\ Kind(k) /\ Remember /\ UNCHANGED inputs
    BY DEF IInv, CheckOneshot, Prompt, store, inputs
  <1>2. req'[r] = l /\ k.host \notin completed
    <2>1. ~ AnswerDefault(r)
      BY AnswerEnds DEF AnswerDefault
    <2>2. QED
      BY <1>1, <2>1 DEF IInv, CheckOneshot, Step
  <1>3. l.at = "resolve" /\ l.found = k.found /\ SameRequest(l, k)
    BY <1>1 DEF IsRequest, SameRequest
  <1> HIDE DEF l
  <1>4. Kind(l)
    BY <1>1, <1>3 DEF Kind, IsInfo, SameRequest
  <1>5. ASSUME Aware(r) PROVE AwareOfBmh(l) /\ AwareOfOneshot(l) /\ AwareOfTemplate(l)
    BY <1>1, <1>2, <1>3, <1>5 DEF Aware, AwareOfBmh, AwareOfOneshot, AwareOfTemplate, SameRequest
  <1>6. \A x : Foresees(r, x) => x = Resolved(k, l.found)
    BY <1>1, <1>2, <1>3 DEF Foresees, Checked
  <1>7. QED
    BY <1>1, <1>2, <1>3, <1>4, <1>5, <1>6, AloneOn

\* Of the assignments a request needs that of its host where the BareMetalHost
\* names no template.
LEMMA ResolveChooses ==
    ASSUME IInv, NEW r \in Requests, resolve_template_ref(r)
    PROVE  Chosen(r, Wanted(req[r], req[r].found))
  BY DEF resolve_template_ref, Wanted, Prevailing

LEMMA ResolvePrompt ==
    ASSUME IInv, NEW r \in Requests, Prompt(r), resolve_template_ref(r), req'[r].at # "idle"
    PROVE  Prompt(r)'
  <1> DEFINE k == req[r]
             t == Wanted(k, k.found)
             l == [k EXCEPT !.at = "load", !.template = t]
  <1>1. IsRequest(k) /\ k.at = "resolve" /\ Kind(k) /\ Remember /\ UNCHANGED inputs
    BY DEF IInv, resolve_template_ref, Prompt, store, inputs
  <1>2. Chosen(r, t)
    BY ResolveChooses
  <1> HIDE DEF t
  <1>3. req'[r] = l /\ t # NoTemplate
    <2>1. ~ AnswerDefault(r)
      BY AnswerEnds DEF AnswerDefault
    <2>2. QED
      BY <1>1, <1>2, <2>1 DEF IInv, Chosen, Step
  <1>4. l.at = "load" /\ l.found = k.found /\ l.template = t /\ SameRequest(l, k)
    BY <1>1 DEF IsRequest, SameRequest
  <1> HIDE DEF l
  <1>5. Kind(l)
    BY <1>1, <1>4 DEF Kind, IsInfo, SameRequest
  <1>6. Wanted(l, l.found) = t
    BY <1>4, SameAnswers DEF t
  <1>7. ASSUME Aware(r) PROVE AwareOfBmh(l) /\ AwareOfOneshot(l) /\ AwareOfTemplate(l)
    BY <1>1, <1>3, <1>4, <1>6, <1>7 DEF Aware, AwareOfBmh, AwareOfOneshot, AwareOfTemplate, SameRequest
  <1>8. \A x : Foresees(r, x) => x = Loaded(k, l.found, l.template)
    BY <1>1, <1>3, <1>4 DEF Foresees, Resolved, t
  <1>9. QED
    BY <1>1, <1>3, <1>4, <1>5, <1>7, <1>8, AloneOn

LEMMA InfoOneshotPrompt ==
    ASSUME IInv, NEW r \in Requests, Prompt(r), InfoOneshot(r), req'[r].at # "idle"
    PROVE  Prompt(r)'
  <1> DEFINE k == req[r]
             l == [k EXCEPT !.at = "get_bmh"]
  <1>1. IsRequest(k) /\ k.at = "info_oneshot" /\ Kind(k) /\ Remember /\ UNCHANGED inputs
    BY DEF IInv, InfoOneshot, Prompt, store, inputs
  <1>2. req'[r] = l /\ k.host \notin completed
    <2>1. ~ Answer(r, NoInfo)
      BY AnswerEnds
    <2>2. QED
      BY <1>1, <2>1 DEF IInv, InfoOneshot, Step
  <1>3. l.at = "get_bmh" /\ l.found = k.found /\ SameRequest(l, k) /\ IsInfo(k)
    BY <1>1 DEF IsRequest, SameRequest, Kind
  <1> HIDE DEF l
  <1>4. Kind(l)
    BY <1>3 DEF Kind
  <1>5. AwareOfBmh(l) /\ AwareOfOneshot(l) /\ AwareOfTemplate(l)
    BY <1>2, <1>3 DEF AwareOfBmh, AwareOfOneshot, AwareOfTemplate, SameRequest
  <1>6. \A x : Foresees(r, x) => x = InfoFor(k, get_bmh(k.host))
    BY <1>1, <1>2 DEF Foresees
  <1>7. QED
    BY <1>1, <1>2, <1>3, <1>4, <1>5, <1>6, AloneOn

\* The template is looked for: the first file there is will be read.
LEMMA LoadPrompt ==
    ASSUME IInv, NEW r \in Requests, Prompt(r), Load(r)
    PROVE  Prompt(r)'
  <1> DEFINE k == req[r]
  <1>1. IsRequest(k) /\ k.at = "load" /\ Kind(k) /\ Remember /\ UNCHANGED inputs
    BY DEF IInv, Load, Prompt, inputs, Get
  <1>2. PICK l : req'[r] = l /\ l = [k EXCEPT !.at = "loading"]
    BY DEF IInv, Load, Step
  <1>3. PICK n : n = k.template /\ n \in Names
    BY <1>1 DEF IsRequest
  <1>4. l.at = "loading" /\ l.found = k.found /\ l.template = n /\ SameRequest(l, k)
    BY <1>1, <1>2, <1>3 DEF IsRequest, SameRequest
  <1>5. call'[r] = Reading(r, n, [Nothing EXCEPT !.op = "get", !.name = n,
                                     !.touched = {m \in Names : WritersOf(m) # {}}])
    BY <1>3, RequestsCall DEF Load, Get, Goto, IInv, StoreInv, StoreTypes
  <1>6. /\ Found(n) = {} => call'[r].at = "done" /\ call'[r].status = "missing"
        /\ Found(n) # {} => call'[r].at = "read" /\ call'[r].name = NameIn(Found(n))
    BY <1>5 DEF Reading, Nothing, NameIn
  <1>7. Found(n) # {} => files[NameIn(Found(n))] # NoFile
    BY <1>3, FoundFacts DEF NameIn
  <1>8. Found(n)' = Found(n) /\ files' = files
    BY <1>1, InputsStay DEF inputs
  <1>9. ASSUME Aware(r) PROVE Aware(r)'
    <2>1. AwareOfHost(l)
      BY <1>4, <1>9 DEF Aware, AwareOfHost, SameRequest, IsInfo
    <2>2. Wanted(l, l.found) = Wanted(k, k.found)
      BY <1>4, SameAnswers
    <2>3. AwareOfBmh(l) /\ AwareOfOneshot(l) /\ AwareOfTemplate(l)
      BY <1>1, <1>3, <1>4, <1>9, <2>2
         DEF Aware, AwareOfBmh, AwareOfOneshot, AwareOfTemplate, SameRequest
    <2>4. AwareOfHost(l)' /\ AwareOfBmh(l)' /\ AwareOfOneshot(l)' /\ AwareOfTemplate(l)'
      BY <1>1, <2>1, <2>3 DEF inputs, AwareOfHost, AwareOfBmh, AwareOfOneshot, AwareOfTemplate,
                              get_bmh, Wanted
    <2>5. AwareOfFile(l, call[r])'
      BY <1>4, <1>6, <1>7, <1>8 DEF AwareOfFile
    <2>6. QED
      BY <1>2, <2>4, <2>5 DEF Aware
  <1>10. ASSUME NEW x, Foresees(r, x) PROVE Foresees(r, x)'
    <2>1. x = Loaded(l, l.found, n)
      BY <1>1, <1>3, <1>4, <1>10, SameAnswers DEF Foresees
    <2>2. x = Served(l, call[r])'
      BY <1>4, <1>6, <1>8, <2>1 DEF Loaded, Served
    <2>3. QED
      BY <1>2, <1>4, <2>2 DEF Foresees
  <1>11. Kind(l) /\ ~ Lost(r)
    BY <1>1, <1>4 DEF Kind, IsInfo, SameRequest, Lost
  <1>12. QED
    BY <1>1, <1>2, <1>4, <1>9, <1>10, <1>11, PromptOn DEF SameRequest

\* A request begins with what is so.
LEMMA BeginPrompt ==
    ASSUME IInv, NEW r \in Requests, NEW ip \in IPs,
           BeginInfo(r, ip) \/ \E e \in Endpoints : Begin(r, ip, e)
    PROVE  Prompt(r)'
  <1> SUFFICES ASSUME req'[r].at # "idle"
               PROVE  /\ Kind(req'[r]) /\ changed'[r] = 0
                      /\ Aware(r)' /\ before'[r].due = DueNow(r)'
    BY DEF Prompt
  <1>1. req[r].at = "idle" /\ Remember /\ UNCHANGED inputs
    BY DEF BeginInfo, Begin, inputs, store
  <1>2. /\ Begins(r) /\ changed'[r] = 0
        /\ before'[r].due = Due(req'[r].endpoint, req'[r].ip)
    BY <1>1 DEF Begins, Remember
  <1>3. before'[r].due = DueNow(r)'
    <2>1. PICK e, i : e = req'[r].endpoint /\ i = req'[r].ip
      OBVIOUS
    <2>2. Due(e, i)' = Due(e, i)
      BY <1>1, DueStays
    <2>3. DueNow(r)' = Due(e, i)'
      BY <2>1 DEF DueNow
    <2>4. QED
      BY <1>2, <2>1, <2>2, <2>3
  <1>4. PICK l : req'[r] = l
    OBVIOUS
  <1>5. Kind(l) /\ AwareOfHost(l) /\ l.at \in {"get_bmh", "info_oneshot"} /\ (l.at = "get_bmh" => ~ IsInfo(l))
    <2>1. CASE BeginInfo(r, ip)
      <3>1. /\ ip \in DOMAIN bmh.ip_to_hostname
            /\ l = [IdleRequest EXCEPT !.endpoint = "template_info", !.ip = ip,
                                       !.at = "info_oneshot", !.host = bmh.ip_to_hostname[ip]]
        <4>1. [IdleRequest EXCEPT !.endpoint = "template_info", !.ip = ip, !.reply = NoInfo].at = "idle"
          BY DEF IdleRequest
        <4>2. QED
          BY <1>4, <2>1, <4>1 DEF BeginInfo, Step, IInv
      <3>2. QED
        BY <3>1 DEF IdleRequest, Kind, AwareOfHost, IsInfo
    <2>2. ASSUME NEW e \in Endpoints, Begin(r, ip, e)
          PROVE  Kind(l) /\ AwareOfHost(l) /\ l.at = "get_bmh" /\ ~ IsInfo(l)
      <3>1. /\ metadata[ip] # NoMeta /\ e # "template_info"
            /\ l = [IdleRequest EXCEPT !.endpoint = e, !.ip = ip, !.meta = metadata[ip],
                                       !.at = "get_bmh", !.host = metadata[ip].local_hostname]
        <4>1. [IdleRequest EXCEPT !.endpoint = e, !.ip = ip, !.meta = metadata[ip],
                                  !.reply = Refused].at = "idle"
          BY DEF IdleRequest
        <4>2. QED
          BY <1>4, <2>2, <4>1 DEF Begin, Step, IInv
      <3>2. QED
        BY <3>1 DEF IdleRequest, Kind, AwareOfHost, IsInfo
    <2>3. QED
      BY <2>1, <2>2
  <1>6. AwareOfHost(l)'
    BY <1>1, <1>5 DEF AwareOfHost, inputs
  <1>7. AwareOfBmh(l)' /\ AwareOfOneshot(l)' /\ AwareOfTemplate(l)' /\ AwareOfFile(l, call[r])'
    BY <1>5 DEF AwareOfBmh, AwareOfOneshot, AwareOfTemplate, AwareOfFile
  <1>8. QED
    BY <1>2, <1>3, <1>4, <1>5, <1>6, <1>7 DEF Aware

----------------------------------------------------------------------------
(* Steps of the store.                                                     *)

\* The request's own: it reads the file, then its meta file.
LEMMA OwnReadPrompt ==
    ASSUME IInv, NEW r \in Requests, Prompt(r), Proceed(r), UNCHANGED req, Remember,
           UNCHANGED <<metadata, bmh, assignments, completed>>
    PROVE  Prompt(r)'
  <1>1. r \in Callers /\ CallType(call[r]) /\ Loads(r) /\ call = [d \in Callers |-> call[d]]
    BY RequestsCall DEF IInv, StoreInv, StoreTypes
  <1>2. ReadContent(r) \/ ReadMeta(r)
    <2>1. call[r].at \notin WriteSteps \cup {"next"}
      BY <1>1 DEF CallType, Loads
    <2>2. QED
      BY <2>1 DEF Proceed, Truncate, WriteContent, TruncateMeta, WriteMeta, RemoveContent,
                  RemoveMeta, NextEntry, WriteSteps
  <1>3. UNCHANGED inputs /\ files' = files /\ req'[r] = req[r]
    BY <1>2 DEF ReadContent, ReadMeta, inputs
  <1>4. call[r].op = "get" /\ req[r].at = "loading"
    BY <1>1, <1>2 DEF ReadContent, ReadMeta, CallType, Reads, Loads
  <1> DEFINE k == req[r]
             c == call[r]
  <1>5. PICK d : call'[r] = d
    OBVIOUS
  <1>6. CASE ReadContent(r)
    <2>1. /\ c.at = "read" /\ d.name = c.name
          /\ files[c.name] = NoFile => d.at = "done" /\ d.status = "error"
          /\ files[c.name] # NoFile => d.at = "read_meta" /\ d.text = files[c.name]
      BY <1>1, <1>4, <1>5, <1>6 DEF ReadContent, Goto, Ended, Reads, CallType, Calls
    <2>2. ASSUME Aware(r) PROVE Aware(r)'
      <3>1. AwareOfHost(k)' /\ AwareOfBmh(k)' /\ AwareOfOneshot(k)' /\ AwareOfTemplate(k)'
        BY <1>3, <2>2 DEF Aware, inputs, AwareOfHost, AwareOfBmh, AwareOfOneshot, AwareOfTemplate,
                          get_bmh, Wanted
      <3>2. \A n : Found(n)' = Found(n)
        BY <1>3, InputsStay
      <3>3. AwareOfFile(k, c)'
        BY <1>3, <1>4, <1>5, <2>1, <2>2, <3>2 DEF Aware, AwareOfFile
      <3>4. QED
        BY <3>1, <3>3 DEF Aware
    <2>3. ASSUME NEW x, Foresees(r, x) PROVE Foresees(r, x)' \/ Lost(r)'
      <3>1. x = TemplateConfig(c.name, files[c.name], k.meta)
        BY <1>4, <2>1, <2>3 DEF Foresees, Served
      <3>2. files[c.name] = NoFile => Lost(r)'
        BY <1>3, <1>4, <1>5, <2>1 DEF Lost
      <3>3. files[c.name] # NoFile => x = Served(k, c)'
        BY <1>3, <1>5, <2>1, <3>1 DEF Served
      <3>4. QED
        BY <1>3, <1>4, <3>2, <3>3 DEF Foresees
    <2>4. Lost(r) => Lost(r)'
      BY <1>3, <1>4, <1>5, <2>1 DEF Lost
    <2>5. QED
      BY <1>3, <1>4, <2>2, <2>3, <2>4, PromptOn
  <1>7. CASE ReadMeta(r)
    <2>1. /\ c.at = "read_meta" /\ d.name = c.name /\ d.text = c.text
          /\ d.at = "done" /\ d.status = "found"
      BY <1>1, <1>4, <1>5, <1>7 DEF ReadMeta, Goto, CallType, Calls
    <2>2. ASSUME Aware(r) PROVE Aware(r)'
      <3>1. AwareOfHost(k)' /\ AwareOfBmh(k)' /\ AwareOfOneshot(k)' /\ AwareOfTemplate(k)'
        BY <1>3, <2>2 DEF Aware, inputs, AwareOfHost, AwareOfBmh, AwareOfOneshot, AwareOfTemplate,
                          get_bmh, Wanted
      <3>2. \A n : Found(n)' = Found(n)
        BY <1>3, InputsStay
      <3>3. AwareOfFile(k, c)'
        BY <1>3, <1>4, <1>5, <2>1, <2>2, <3>2 DEF Aware, AwareOfFile
      <3>4. QED
        BY <3>1, <3>3 DEF Aware
    <2>3. ASSUME NEW x, Foresees(r, x) PROVE Foresees(r, x)'
      <3>1. x = TemplateConfig(c.name, c.text, k.meta)
        BY <1>4, <2>1, <2>3 DEF Foresees, Served
      <3>2. x = Served(k, c)'
        BY <1>3, <1>5, <2>1, <3>1 DEF Served
      <3>3. QED
        BY <1>3, <1>4, <3>2 DEF Foresees
    <2>4. ~ Lost(r)
      BY <2>1 DEF Lost
    <2>5. QED
      BY <1>3, <1>4, <2>2, <2>3, <2>4, PromptOn
  <1>8. QED
    BY <1>2, <1>6, <1>7

\* What another caller does to a reader's call is history only, and it writes one
\* file at most.
LEMMA OthersView ==
    ASSUME StoreInv, NEW c \in Callers, NEW r \in Callers, r # c,
           \/ Proceed(c) \/ FailWrite(c) \/ HangUp(c) \/ Backup(c)
           \/ \E n \in Names : Delete(c, n)
           \/ \E n \in Names : \E text, mode : Put(c, n, text, mode)
           \/ \E bundle : Restore(c, bundle)
    PROVE  SameCall(r)
  <1>1. call[r] \in Calls /\ call = [b \in Callers |-> call[b]]
    BY DEF StoreInv, StoreTypes, CallType
  <1>2. ASSUME NEW n, NEW k, StartWrite(c, n, k) PROVE SameCall(r)
    <2>1. call'[r] = Disturb(call[r], n)
      BY <1>2 DEF StartWrite
    <2>2. QED
      BY <1>1, <2>1 DEF Disturb, Calls, SameCall
  <1>3. \A k : Goto(c, k) => SameCall(r)
    BY <1>1 DEF Goto, SameCall
  <1>4. ASSUME NEW n, NEW step, NEW k, call' = [Void(n, step) EXCEPT ![c] = k] PROVE SameCall(r)
    <2>1. call'[r] \in {call[r], [call[r] EXCEPT !.void = TRUE]}
      BY <1>4 DEF Void
    <2>2. QED
      BY <1>1, <2>1 DEF Calls, SameCall
  <1>5. CASE RemoveContent(c) \/ RemoveMeta(c)
    BY <1>3, <1>4, <1>5 DEF RemoveContent, RemoveMeta, Onward
  <1>6. CASE \/ \E n \in Names : Delete(c, n)
             \/ \E n \in Names : \E text, mode : Put(c, n, text, mode)
    BY <1>2, <1>3, <1>6 DEF Delete, Put
  <1>7. CASE NextEntry(c)
    BY <1>2, <1>3, <1>7 DEF NextEntry
  <1>8. CASE FailWrite(c) \/ HangUp(c) \/ Backup(c) \/ \E bundle : Restore(c, bundle)
    BY <1>3, <1>8 DEF FailWrite, HangUp, Backup, Restore
  <1>9. CASE \/ ReadContent(c) \/ ReadMeta(c) \/ Truncate(c) \/ WriteContent(c)
             \/ TruncateMeta(c) \/ WriteMeta(c)
    BY <1>3, <1>9 DEF ReadContent, ReadMeta, Truncate, WriteContent, TruncateMeta, WriteMeta, Onward
  <1>10. QED
    BY <1>5, <1>6, <1>7, <1>8, <1>9 DEF Proceed

LEMMA OneFile ==
    ASSUME StoreInv, NEW c \in Callers,
           \/ Proceed(c) \/ FailWrite(c) \/ HangUp(c) \/ Backup(c)
           \/ \E n \in Names : Delete(c, n)
           \/ \E n \in Names : \E text, mode : Put(c, n, text, mode)
           \/ \E bundle : Restore(c, bundle)
    PROVE  files' = files \/ \E n \in Names : \E t : files' = [files EXCEPT ![n] = t]
  <1>1. call[c].name \in Names
    BY DEF StoreInv, StoreTypes, CallType, Calls
  <1>2. CASE WriteContent(c)
    BY <1>1, <1>2 DEF WriteContent
  <1>3. CASE ~ WriteContent(c)
    BY <1>1, <1>3
       DEF Proceed, FailWrite, HangUp, Backup, Delete, Put, Restore, ReadContent, ReadMeta,
           Truncate, TruncateMeta, WriteMeta, RemoveContent, RemoveMeta, NextEntry
  <1>4. QED
    BY <1>2, <1>3

LEMMA StorePrompt ==
    ASSUME IInv, NEW c \in Callers, StoreStep(c) \/ (c \in Admins /\ UseStore(c)),
           NEW r \in Requests, Prompt(r)
    PROVE  Prompt(r)'
  <1>1. /\ r \in Callers /\ r \notin Admins /\ StoreInv /\ Remember
        /\ UNCHANGED <<metadata, bmh, assignments, completed, req>>
    BY CallersAssumption DEF IInv, StoreStep, UseStore
  <1>2. \/ Proceed(c) \/ FailWrite(c) \/ HangUp(c) \/ Backup(c)
        \/ \E n \in Names : Delete(c, n)
        \/ \E n \in Names : \E text, mode : Put(c, n, text, mode)
        \/ \E bundle : Restore(c, bundle)
    BY PutsAssumption DEF StoreStep, UseStore
  <1>3. CASE c = r
    <2>1. Proceed(r)
      BY <1>1, <1>3 DEF StoreStep
    <2>2. QED
      BY <1>1, <2>1, OwnReadPrompt
  <1>4. CASE c # r
    <2>1. SameView(r)
      BY <1>1, <1>2, <1>4, OthersView DEF SameView
    <2>2. files' = files \/ \E n \in Names : \E t : files' = [files EXCEPT ![n] = t]
      BY <1>1, <1>2, OneFile
    <2>3. CASE inputs' = inputs
      BY <1>1, <2>1, <2>3, PromptStays
    <2>4. CASE inputs' # inputs
      <3>1. files' # files
        BY <1>1, <2>4 DEF inputs
      <3>2. QED
        BY <1>1, <2>1, <2>2, <2>4, <3>1, FilesChange
    <2>5. QED
      BY <2>3, <2>4
  <1>5. QED
    BY <1>3, <1>4

----------------------------------------------------------------------------
(* Any step.                                                               *)

\* What changes behind the requests' backs.
LEMMA InputPrompt ==
    ASSUME IInv, Change, NEW r \in Requests, Prompt(r)
    PROVE  Prompt(r)'
  <1>1. CASE \E c \in Callers : StoreStep(c)
    BY <1>1, StorePrompt
  <1>2. CASE \E c \in Admins : UseStore(c)
    BY <1>2, CallersAssumption, StorePrompt
  <1>3. ASSUME UNCHANGED <<store, req>>, Remember,
               \/ UNCHANGED <<metadata, bmh, completed>> \/ UNCHANGED <<metadata, bmh, assignments>>
               \/ UNCHANGED <<bmh, assignments, completed>>
               \/ UNCHANGED <<metadata, assignments, completed>>
        PROVE  Prompt(r)'
    <2>1. SameView(r) /\ files' = files
      BY <1>3 DEF store, SameView, SameCall
    <2>2. CASE inputs' = inputs
      BY <1>3, <2>1, <2>2, PromptStays
    <2>3. CASE inputs' # inputs
      BY <1>3, <2>1, <2>3, MetadataChange, BmhChange, AssignmentsChange, CompletedChange
    <2>4. QED
      BY <2>2, <2>3
  <1>4. CASE \/ \E h \in Hosts : \/ oneshot_delete(h)
                                 \/ \E t \in Assignable \cup {NoTemplate} : Assign(h, t)
             \/ \E ip \in IPs : \/ oneshot_provisioned(ip)
                                \/ \E m \in Metas \cup {NoMeta} : ChangeMetadata(ip, m)
             \/ \E b \in BmhStates : ChangeBmh(b)
             \/ \E m \in {"assignments", "oneshot"} : EndSave(m)
    <2>1. /\ UNCHANGED <<store, req>> /\ Remember
          /\ \/ UNCHANGED <<metadata, bmh, completed>> \/ UNCHANGED <<metadata, bmh, assignments>>
             \/ UNCHANGED <<bmh, assignments, completed>>
             \/ UNCHANGED <<metadata, assignments, completed>>
      BY <1>4 DEF oneshot_delete, Assign, oneshot_provisioned, ChangeMetadata, ChangeBmh, EndSave
    <2>2. QED
      BY <1>3, <2>1
  <1>5. QED
    BY <1>1, <1>2, <1>4 DEF Change

\* What another request does.
LEMMA OthersPrompt ==
    ASSUME IInv, NEW d \in Requests, Request(d), NEW r \in Requests, r # d, Prompt(r)
    PROVE  Prompt(r)'
  <1>1. Remember /\ UNCHANGED inputs
    BY DEF Request, BeginInfo, Begin, GetBmh, CheckOneshot, resolve_template_ref, Load, Serve,
           InfoOneshot, AnswerInfo, Abandon, Get, store, inputs
  <1>2. \E k : Step(d, k)
    BY DEF Request, BeginInfo, Begin, GetBmh, CheckOneshot, resolve_template_ref, Load, Serve,
           InfoOneshot, AnswerInfo, Abandon, AnswerDefault, Answer, Chosen
  <1>3. req'[r] = req[r]
    BY <1>2 DEF Step, IInv
  <1>4. UNCHANGED call \/ \E k : call' = [call EXCEPT ![d] = k]
    BY DEF Request, BeginInfo, Begin, GetBmh, CheckOneshot, resolve_template_ref, Load, Serve,
           InfoOneshot, AnswerInfo, Abandon, Get, Goto, store
  <1>5. call'[r] = call[r]
    BY <1>4, RequestsCall DEF IInv, StoreInv, StoreTypes
  <1>6. SameView(r)
    BY <1>3, <1>5 DEF SameView, SameCall
  <1>7. QED
    BY <1>1, <1>6, PromptStays

LEMMA OwnPrompt ==
    ASSUME IInv, NEW r \in Requests, Request(r), Prompt(r)
    PROVE  Prompt(r)'
  <1> SUFFICES ASSUME req'[r].at # "idle" PROVE Prompt(r)'
    BY DEF Prompt
  <1>1. ~ Abandon(r)
    BY IdleType DEF Abandon, Step, IInv
  <1>2. ~ Serve(r)
    BY AnswerEnds DEF Serve, AnswerDefault
  <1>3. ~ AnswerInfo(r)
    <2>1. IsRequest(req[r]) /\ req = [d \in Requests |-> req[d]]
      BY DEF IInv
    <2>2. PICK reply, blind : AnswerInfo(r) =>
              Step(r, [req[r] EXCEPT !.at = "idle", !.blind = blind, !.reply = reply])
      BY DEF AnswerInfo
    <2>3. AnswerInfo(r) => req'[r].at = "idle"
      BY <2>1, <2>2 DEF Step, IsRequest
    <2>4. QED
      BY <2>3
  <1>4. QED
    BY <1>1, <1>2, <1>3, BeginPrompt, GetBmhPrompt, CheckOneshotPrompt, ResolvePrompt, LoadPrompt,
       InfoOneshotPrompt DEF Request

LEMMA PromptNext ==
    IInv /\ (\A r \in Requests : Prompt(r)) /\ [Next]_vars => (\A r \in Requests : Prompt(r))'
  <1> SUFFICES ASSUME IInv, \A r \in Requests : Prompt(r), [Next]_vars
               PROVE  \A r \in Requests : Prompt(r)'
    OBVIOUS
  <1> TAKE r \in Requests
  <1>1. CASE Change
    BY <1>1, InputPrompt
  <1>2. CASE \E d \in Requests : Request(d)
    BY <1>2, OthersPrompt, OwnPrompt
  <1>3. CASE UNCHANGED vars
    <2>1. UNCHANGED <<inputs, req, before, changed>> /\ SameView(r)
      BY <1>3 DEF vars, store, inputs, SameView, SameCall
    <2>2. UNCHANGED <<bmh, assignments, completed, files>>
      BY <2>1 DEF inputs
    <2>3. DueNow(r)' = DueNow(r) /\ (Moved(r) => Moved(r)')
      BY <2>1, <2>2, DueNowStays DEF Moved
    <2>4. Aware(r) => Aware(r)'
      BY <2>1, AwareStays
    <2>5. OnceChanged(r) => OnceChanged(r)'
      BY <2>1, <2>2, <2>3, ForeseesStays, LostStays DEF OnceChanged
    <2>6. QED
      BY <2>1, <2>3, <2>4, <2>5 DEF Prompt
  <1>4. QED
    BY <1>1, <1>2, <1>3 DEF Next

----------------------------------------------------------------------------
(* The answer.                                                             *)

\* Of whose inputs one has changed at most, it was so when it began or is so now.
LEMMA Foretold ==
    ASSUME NEW r \in Requests, Prompt(r), changed[r] < 2, req[r].at # "idle"
    PROVE  OnceChanged(r) /\ Kind(req[r])
  <1>1. CASE changed[r] = 0
    BY <1>1, AwareForesees DEF Prompt, OnceChanged
  <1>2. CASE changed[r] = 1
    BY <1>2 DEF Prompt
  <1>3. QED
    BY <1>1, <1>2 DEF Prompt

LEMMA DefaultAnswers ==
    ASSUME IInv, NEW r \in Requests, AnswerDefault(r)
    PROVE  req'[r].reply = Default(req[r], req[r].found)
  BY AnswerEnds DEF AnswerDefault, Default

\* The answer is the one that was foreseen.
LEMMA AnswerForeseen ==
    ASSUME IInv, NEW r \in Requests, Request(r), Answers(r), ~ req'[r].blind, ~ Lost(r),
           Kind(req[r]), NEW x, Foresees(r, x)
    PROVE  req'[r].reply = x
  <1> DEFINE k == req[r]
  <1>1. IsRequest(k) /\ k.at # "idle" /\ req'[r].at = "idle" /\ req'[r].reply # NoReply
    BY DEF IInv, Answers
  <1>2. CASE CheckOneshot(r)
    <2>1. k.at = "oneshot" /\ x = Checked(k, k.found)
      BY <1>2 DEF CheckOneshot, Foresees
    <2>2. CASE k.host \in completed
      BY <1>2, <2>1, <2>2, DefaultAnswers DEF CheckOneshot, Checked
    <2>3. CASE k.host \notin completed
      <3>1. req'[r].at = "resolve"
        BY <1>1, <1>2, <2>3 DEF CheckOneshot, Step, IsRequest, IInv
      <3>2. QED
        BY <1>1, <3>1
    <2>4. QED
      BY <2>2, <2>3
  <1>3. CASE resolve_template_ref(r)
    <2>1. k.at = "resolve" /\ x = Resolved(k, k.found)
      BY <1>3 DEF resolve_template_ref, Foresees
    <2>2. CASE Wanted(k, k.found) = NoTemplate
      BY <1>3, <2>1, <2>2, ResolveChooses, DefaultAnswers DEF Chosen, Resolved
    <2>3. CASE Wanted(k, k.found) # NoTemplate
      <3>1. PICK t : Step(r, [k EXCEPT !.at = "load", !.template = t])
        BY <1>3, <2>3, ResolveChooses DEF Chosen
      <3>2. req'[r].at = "load"
        BY <1>1, <3>1 DEF Step, IsRequest, IInv
      <3>3. QED
        BY <1>1, <3>2
    <2>4. QED
      BY <2>2, <2>3
  <1>4. CASE Serve(r)
    <2>1. k.at = "loading" /\ call[r].at = "done" /\ x = Served(k, call[r])
      BY <1>4 DEF Serve, Foresees
    <2>2. CASE call[r].status = "found"
      BY <1>4, <2>1, <2>2, AnswerEnds DEF Serve, Served
    <2>3. CASE call[r].status # "found"
      BY <1>4, <2>1, <2>3, DefaultAnswers DEF Serve, Served
    <2>4. QED
      BY <2>2, <2>3
  <1>5. CASE InfoOneshot(r)
    <2>1. k.at = "info_oneshot"
      BY <1>5 DEF InfoOneshot
    <2>2. CASE k.host \in completed
      BY <1>5, <2>1, <2>2, AnswerEnds DEF InfoOneshot, Foresees
    <2>3. CASE k.host \notin completed
      <3>1. req'[r].at = "get_bmh"
        BY <1>1, <1>5, <2>3 DEF InfoOneshot, Step, IsRequest, IInv
      <3>2. QED
        BY <1>1, <3>1
    <2>4. QED
      BY <2>2, <2>3
  <1>6. CASE AnswerInfo(r)
    <2>1. k.at = "info" /\ x = InfoFor(k, k.found)
      BY <1>6 DEF AnswerInfo, Foresees
    <2>2. /\ req'[r].blind = ("assignments" \in locked)
          /\ req'[r].reply = InfoOf(bmh_template(k.found),
                                    IF "assignments" \in locked THEN NoTemplate
                                    ELSE assignments[k.host],
                                    config_assignment(k.host))
      BY <1>1, <1>6 DEF AnswerInfo, Step, IsRequest, IInv
    <2>3. QED
      BY <2>1, <2>2 DEF InfoFor
  <1>7. CASE GetBmh(r)
    <2>1. req'[r].at \in {"info", "oneshot"}
      BY <1>1, <1>7 DEF GetBmh, Step, IsRequest, IInv
    <2>2. QED
      BY <1>1, <2>1
  <1>8. CASE Load(r)
    <2>1. req'[r].at = "loading"
      BY <1>1, <1>8 DEF Load, Step, IsRequest, IInv
    <2>2. QED
      BY <1>1, <2>1
  <1>9. CASE Abandon(r)
    <2>1. req'[r] = IdleRequest
      BY <1>9 DEF Abandon, Step, IInv
    <2>2. QED
      BY <1>1, <2>1 DEF IdleRequest
  <1>10. QED
    BY <1>1, <1>2, <1>3, <1>4, <1>5, <1>6, <1>7, <1>8, <1>9 DEF Request, Begin, BeginInfo

\* The file was removed between being found and being read.
LEMMA AnswerLost ==
    ASSUME IInv, NEW r \in Requests, Request(r), Answers(r), Lost(r)
    PROVE  req[r].at = "loading" /\ call[r].status = "error" /\ req'[r].reply.kind = "default"
  <1>1. req[r].at = "loading" /\ IsRequest(req[r]) /\ req'[r].reply # NoReply
    BY DEF Lost, IInv, Answers
  <1>2. Serve(r) \/ Abandon(r)
    BY <1>1 DEF Request, Begin, BeginInfo, GetBmh, CheckOneshot, resolve_template_ref, Load,
                InfoOneshot, AnswerInfo
  <1>3. CASE Serve(r)
    <2>1. call[r].at = "done" /\ call[r].status = "error"
      BY <1>3 DEF Lost, Serve
    <2>2. AnswerDefault(r)
      BY <1>3, <2>1 DEF Serve
    <2>3. QED
      BY <1>1, <2>1, <2>2, DefaultAnswers, ReplyKinds DEF Default
  <1>4. CASE Abandon(r)
    <2>1. req'[r] = IdleRequest
      BY <1>4 DEF Abandon, Step, IInv
    <2>2. QED
      BY <1>1, <2>1 DEF IdleRequest
  <1>5. QED
    BY <1>2, <1>3, <1>4

\* Whatever changes once while a host is served, it is answered what was due when
\* it asked or what is due when it is answered, and no mixture of the two.
THEOREM AnswersAreDue == Spec => AsBeforeOrAfter
  <1> DEFINE AllPrompt == \A r \in Requests : Prompt(r)
             Answered == \A r \in Requests : Answers(r) /\ changed[r] < 2 =>
                            \/ req'[r].reply \in {before[r].due, Due(req[r].endpoint, req[r].ip)}
                            \/ req'[r].blind \/ Moved(r)
                            \/ req[r].at = "loading" /\ call[r].status = "error"
                                  /\ req'[r].reply.kind = "default"
  <1>1. Init => AllPrompt
    BY IdleType DEF Init, Prompt
  <1>2. IInv /\ AllPrompt /\ [Next]_vars => AllPrompt'
    BY PromptNext
  <1>3. IInv /\ AllPrompt /\ [Next]_vars => [Answered]_vars
    <2> SUFFICES ASSUME IInv, AllPrompt, Next, NEW r \in Requests, Answers(r), changed[r] < 2,
                        ~ req'[r].blind, ~ Moved(r)
                 PROVE  \/ req'[r].reply \in {before[r].due, Due(req[r].endpoint, req[r].ip)}
                        \/ req[r].at = "loading" /\ call[r].status = "error"
                              /\ req'[r].reply.kind = "default"
      OBVIOUS
    <2>1. Request(r)
      <3>1. req'[r] # req[r]
        BY DEF Answers
      <3>2. Change => UNCHANGED req
        BY DEF Change, Assign, oneshot_provisioned, oneshot_delete, EndSave, ChangeMetadata,
               ChangeBmh, UseStore, StoreStep
      <3>3. PICK d \in Requests : Request(d)
        BY <3>1, <3>2 DEF Next
      <3>4. \E k : Step(d, k)
        BY <3>3 DEF Request, BeginInfo, Begin, GetBmh, CheckOneshot, resolve_template_ref, Load,
                    Serve, InfoOneshot, AnswerInfo, Abandon, AnswerDefault, Answer, Chosen
      <3>5. QED
        BY <3>1, <3>3, <3>4 DEF Step, IInv
    <2>2. OnceChanged(r) /\ Kind(req[r])
      BY Foretold DEF Answers
    <2>3. CASE Lost(r)
      BY <2>1, <2>3, AnswerLost
    <2>4. CASE ~ Lost(r)
      <3>1. Foresees(r, before[r].due) \/ Foresees(r, Due(req[r].endpoint, req[r].ip))
        BY <2>2, <2>4 DEF OnceChanged, DueNow
      <3>2. QED
        BY <2>1, <2>2, <2>4, <3>1, AnswerForeseen
    <2>5. QED
      BY <2>3, <2>4
  <1>4. QED
    BY Invariance, <1>1, <1>2, <1>3, PTL DEF Spec, AsBeforeOrAfter
=============================================================================
