----------------------------- MODULE ServiceFront -----------------------------
(***************************************************************************)
(* The application service in front of DAV (crates/app/src/lib.rs, admin.rs *)
(* and domain_registry.rs): it starts from a configuration, and handles one *)
(* request at a time, under the application mutex, through authorization,   *)
(* the rate limit, administration, the Android bridge, health, routing, the *)
(* suspension of a domain, the DAV server, the checkpoint and the audit     *)
(* journal.  What the DAV server does with a request is in DavService and   *)
(* DavReads; here it is its status.                                         *)
(***************************************************************************)
EXTENDS Authorization

CONSTANTS
  Files, Environments, CommandLines,  \* the layers of configuration tried
  Requests,                           \* the requests sent
  Tokens,                             \* the tokens clients have
  InitialLedger,                      \* an identity store an embedding program keeps
  Revocable,                          \* the credentials it may revoke
  Times,                              \* values of the identity clock
  Window,                             \* ticks of the 60 seconds of a rate window
  MaxCalls                            \* bound: calls around the running service

ASSUME FrontAssumption == Window \in Nat \ {0} /\ MaxCalls \in Nat

(* What the types of the code say of the inputs: an AppConfig that parses   *)
(* has its fields, and a request has headers and a path.                    *)
ASSUME LayersTyped ==
  \A file \in Files, environment \in Environments, cli \in CommandLines :
    Assembled(file, environment, cli) \in Settings \cup {Failed}

ASSUME RequestsTyped ==
  Requests \subseteq [method : STRING, path : Seq(STRING), body : BOOLEAN,
                     query : Seq([key : STRING, value : Int]),
                     auth : Seq([scheme : STRING, token : STRING])]

ASSUME LedgerTyped ==
  /\ DOMAIN InitialLedger = {"credentials", "policy"}
  /\ DOMAIN InitialLedger.credentials \subseteq Nat
  /\ InitialLedger.credentials \in [DOMAIN InitialLedger.credentials -> Credentials]
  /\ Revocable \subseteq DOMAIN InitialLedger.credentials

VARIABLES
  phase,     \* of the process
  config,    \* its settings
  bindings,  \* its domains
  upstream,  \* per domain: what is known of its Space's permissions
  probe,     \* UpstreamState
  identity,  \* the identity store attached to the service
  ledger,    \* the identity store outside of it
  saved,     \* the snapshot on disk
  now,       \* the identity clock
  rate,      \* the rate window: its age, and the requests counted
  writer,    \* the state of the audit journal
  calls,     \* spent of MaxCalls
  answer,    \* the answer of this step, if it handled a request: its status, and whether
             \* its Allow header has PUT and DELETE
  denied,    \* history: domains whose refusal a client was told
  recent,    \* history: requests let through in the last ticks, for each number of them
             \* less one
  revoked    \* history: credentials revoked in the ledger, in the snapshot, in the service

front   == <<upstream, probe, rate, writer>>
people  == <<identity, ledger, saved, now>>
history == <<denied, recent, revoked>>
vars    == <<phase, config, bindings, front, people, calls, answer, history>>

NoAnswer == [status |-> 0, writes |-> FALSE]

Unknown == [read |-> "unknown", write |-> "unknown", suspension |-> "active"]

DomainIds == DOMAIN bindings

(* Whether the journal is degraded or unavailable makes no difference here. *)
AuditStates == {"none", "healthy", "unhealthy"}

TypeOK ==
  /\ phase \in {"starting", "built", "serving", "failed"}
  /\ phase \in {"built", "serving"} => Accepted(config) /\ bindings = ConfiguredBindings(config)
  /\ upstream \in [DomainIds -> [read : {"unknown", "allowed", "denied"},
                                 write : {"unknown", "allowed", "denied"},
                                 suspension : {"active", "auth", "forbidden"}]]
  /\ probe \in {"not_tested", "ready", "unavailable"}
  /\ rate.age \in 0..Window
  /\ phase = "serving" => rate.count \in 0..(config.rate_limit + 1)
  /\ writer \in AuditStates
  /\ now \in Times \cup {0} /\ calls \in 0..MaxCalls
  /\ denied \subseteq DomainIds

Init ==
  /\ phase = "starting"
  /\ \E file \in Files, environment \in Environments, cli \in CommandLines :
       config = Assembled(file, environment, cli)
  /\ bindings = <<>>
  /\ upstream = <<>>
  /\ probe = "not_tested"
  /\ identity = NoIdentity
  /\ ledger = InitialLedger
  /\ saved = FromStore(InitialLedger)
  /\ now = 0
  /\ rate = [age |-> 0, count |-> 0]
  /\ writer = "none"
  /\ calls = 0
  /\ answer = NoAnswer
  /\ denied = {}
  /\ recent = [i \in 0..(Window - 1) |-> 0]
  /\ revoked = [ledger |-> {}, saved |-> {}, attached |-> {}]

-----------------------------------------------------------------------------
(* with_transport_mode: the checkpoint is opened for the first domain, then *)
(* the journal.                                                             *)

(* DomainRepositoryRegistry::new: a context for every binding.              *)
NewRegistry(configured) == [d \in DOMAIN configured |-> Unknown]

Start ==
  /\ phase = "starting" /\ Accepted(config)
  /\ phase' = "built"
  /\ bindings' = ConfiguredBindings(config)
  /\ upstream' = NewRegistry(bindings')
  /\ probe' = IF config.transport = "fake" THEN "ready" ELSE "not_tested"
  /\ writer' = IF config.audit_directory = "none" THEN "none" ELSE "healthy"
  /\ UNCHANGED <<config, rate, people, calls, answer, history>>

StartFails ==
  /\ phase = "starting"
  /\ Accepted(config) =>
       config.sync_checkpoint # "none" \/ config.audit_directory # "none"
  /\ phase' = "failed"
  /\ UNCHANGED <<config, bindings, front, people, calls, answer, history>>

-----------------------------------------------------------------------------
(* An embedding program keeps the identity store, and attaches a snapshot   *)
(* of it to the service before serving.                                     *)

Revoke(id) ==
  /\ ledger' = RevokeCredential(ledger, id)
  /\ revoked' = [revoked EXCEPT !.ledger = @ \cup {id}]
  /\ UNCHANGED <<phase, identity, saved, now>>

(* save_to writes a temporary file, renames it and syncs the directory; a   *)
(* failure leaves the old file or the new one.                              *)
SaveLedger ==
  /\ saved' = FromStore(ledger)
  /\ revoked' \in {[revoked EXCEPT !.saved = revoked.ledger], revoked}
  /\ UNCHANGED <<phase, identity, ledger, now>>

(* with_identity_file, with_identity.                                       *)
AttachIdentity ==
  /\ Loadable(saved)
  /\ identity' = IntoStore(saved)
  /\ now' \in Times
  /\ revoked' = [revoked EXCEPT !.attached = revoked.saved]
  /\ UNCHANGED <<phase, ledger, saved>>

Prepare ==
  /\ phase = "built"
  /\ \/ (\E id \in Revocable : Revoke(id)) \/ SaveLedger \/ AttachIdentity
     \/ phase' = "serving" /\ UNCHANGED <<people, revoked>>
  /\ UNCHANGED <<config, bindings, front, calls, answer, denied, recent>>

-----------------------------------------------------------------------------
(* What a request meets, in order.                                          *)

Refused(r) == AuthorizationStatus(config, bindings, identity, now, r) # 0

(* Seeded fault: an old window is emptied, and goes on being the old one. *)
RateAfterAgeing ==
  IF rate.age >= Window THEN [rate EXCEPT !.count = 1]
  ELSE [rate EXCEPT !.count = IF @ > config.rate_limit THEN @ ELSE @ + 1]

(* rate_limited; the count is kept at one above the limit, where it has no  *)
(* further effect.                                                          *)
RateAfter ==
  IF rate.age >= Window THEN [age |-> 0, count |-> 1]
  ELSE [rate EXCEPT !.count = IF @ > config.rate_limit THEN @ ELSE @ + 1]

Throttled == RateAfter.count > config.rate_limit

Passes(r) == ~ Throttled /\ ~ Refused(r)

Counted ==
  /\ rate' = RateAfter
  /\ recent' = IF Throttled THEN recent ELSE [i \in DOMAIN recent |-> recent[i] + 1]

Answer(status) == answer' = [status |-> status, writes |-> FALSE]

Refuse(r) ==
  /\ Refused(r)
  /\ Answer(AuthorizationStatus(config, bindings, identity, now, r))
  /\ UNCHANGED <<front, denied, recent, revoked>>

Throttle(r) ==
  /\ Throttled /\ ~ Refused(r)
  /\ Counted
  /\ Answer(429)
  /\ UNCHANGED <<upstream, probe, writer, denied, revoked>>

-----------------------------------------------------------------------------
(* Administration.                                                          *)

MaxAuditReadback == 64

(* parse_audit_readback_query: each key at most once, a limit in bounds.    *)
ReadbackQuery(query) ==
  /\ \A i \in DOMAIN query : query[i].key \in {"after", "limit"} /\ query[i].value >= 0
  /\ \A i, j \in DOMAIN query : query[i].key = query[j].key => i = j
  /\ \A i \in DOMAIN query : query[i].key = "limit" => query[i].value \in 1..MaxAuditReadback

AdminPage(r) == IF Len(r.path) = 2 THEN "capabilities" ELSE r.path[3]

(* handle_sync_admin: the statuses, of which a failure of the operation may *)
(* choose the last.                                                         *)
AdminStatuses(r) ==
  LET page == AdminPage(r)
  IN CASE ~ AuthorizedBy(r, config.auth) -> {401}
       [] page = "audit" /\ r.method # "GET" -> {405}
       [] page = "audit" /\ (r.body \/ ~ ReadbackQuery(r.query)) -> {400}
       [] page = "audit" -> IF config.audit_directory = "none" THEN {503} ELSE {200, 503}
       [] page = "capabilities" -> IF r.method = "GET" THEN {200} ELSE {405}
       [] page \in {"export", "restore"} /\ r.method # "POST" -> {405}
       [] page \in {"export", "restore"} /\ r.body -> {400}
       [] page \in {"export", "restore"} ->
            IF config.sync_checkpoint = "none" THEN {503} ELSE {200, 500}
       [] OTHER -> {404}

Admin(r) ==
  /\ IsAdminPath(r.path) /\ Passes(r)
  /\ Counted
  /\ \E status \in AdminStatuses(r) : Answer(status)
  /\ UNCHANGED <<upstream, probe, writer, denied, revoked>>

(* The Android bridge needs one domain; its work is in AndroidSync.         *)
Android(r) ==
  /\ r.path = AndroidPath /\ Passes(r)
  /\ Counted
  /\ Answer(CASE Cardinality(DomainIds) > 1 -> 409
           [] r.method # "POST" -> 405
           [] OTHER -> 200)
  /\ UNCHANGED <<upstream, probe, writer, denied, revoked>>

-----------------------------------------------------------------------------
(* Health.                                                                  *)

(* probe_upstream lists every Space until one fails.                        *)
Probed == IF config.transport = "fake" THEN {"ready"} ELSE {"ready", "unavailable"}

(* audit_snapshot is ready when the journal is healthy.                     *)
HealthStatus(r, p) ==
  CASE r.method # "GET" -> 405
    [] r.path = <<"ready">> /\ config.audit_required /\ writer # "healthy" -> 503
    [] r.path = <<"ready">> /\ p # "ready" -> 503
    [] OTHER -> 200

HealthPage(r) ==
  /\ r.path \in HealthPaths /\ Passes(r)
  /\ Counted
  /\ probe' \in IF r.path = <<"ready">> /\ r.method = "GET" THEN Probed ELSE {probe}
  /\ Answer(HealthStatus(r, probe'))
  /\ UNCHANGED <<upstream, writer, denied, revoked>>

-----------------------------------------------------------------------------
(* DAV.                                                                     *)

IsDav(r) == ~ IsAdminPath(r.path) /\ r.path # AndroidPath /\ r.path \notin HealthPaths

RoutedTo(r) == {f.domain : f \in ResolveRoute(bindings, r.path)}

OnlyDomain(r) == CHOOSE d \in RoutedTo(r) : TRUE

BelowHome(r) ==
  r.path[1] \in {"carddav", "caldav"} /\ Len(r.path) > 1 /\ r.path \notin HomePaths

(* upstream_preflight; 0 lets the request through.                          *)
Preflight(domain, operation) ==
  CASE upstream[domain].suspension = "auth" -> 401
    [] upstream[domain].suspension = "forbidden" -> 403
    [] upstream[domain][operation] = "denied" -> 403
    [] OTHER -> 0

Durable(r) == r.method \in {"PUT", "DELETE"}

(* The journal takes the event, or the answer becomes 503 if it is required.*)
Audited(status) ==
  IF config.audit_required THEN {status, 503} ELSE {status}

Unrouted(r) ==
  /\ IsDav(r) /\ BelowHome(r) /\ RoutedTo(r) = {} /\ Passes(r)
  /\ Counted
  /\ Answer(404)
  /\ UNCHANGED <<upstream, probe, writer, denied, revoked>>

(* What the DAV server decides by itself, 200 standing for every success    *)
(* and 404 for 304, 400, 405, 412 and 415 too; and what status_for makes of *)
(* a failed call of the Space, 503 standing for all but a refusal.          *)
OwnStatuses   == {200, 404}
SpaceStatuses == {401, 403, 503}

(* The homes, the principal and the redirects go to the primary domain's    *)
(* server, without a look at its suspension, and what the Space answers     *)
(* there is not observed.                                                   *)
Primary(r) ==
  /\ IsDav(r) /\ ~ BelowHome(r) /\ Passes(r)
  /\ Counted
  /\ \E status \in UNION {Audited(s) : s \in OwnStatuses \cup SpaceStatuses} : Answer(status)
  /\ UNCHANGED <<upstream, probe, writer, denied, revoked>>

Suspended(r) ==
  /\ IsDav(r) /\ RoutedTo(r) # {}
  /\ Preflight(OnlyDomain(r), OperationOf(r)) # 0
  /\ Passes(r)
  /\ Counted
  /\ \E status \in Audited(Preflight(OnlyDomain(r), OperationOf(r))) :
       Answer(status)
  /\ UNCHANGED <<upstream, probe, writer, denied, revoked>>

OnResource(r) ==
  \E f \in ResolveRoute(bindings, r.path) : ResourceBelow(f.route, r.path) # <<>>

(* OPTIONS asks nobody, and every failure of a PROPFIND on a resource is a  *)
(* 404; on a collection it is told like that of any other method.           *)
DavStatuses(r) ==
  CASE r.method = "OPTIONS" -> {200}
    [] r.method = "PROPFIND" /\ OnResource(r) -> {200, 404}
    [] OTHER -> OwnStatuses \cup SpaceStatuses

(* observe_upstream_response.                                               *)
Observed(state, operation, status) ==
  CASE status = 401 -> [state EXCEPT !.suspension = "auth"]
    [] status = 403 -> [state EXCEPT !.suspension = "forbidden"]
    [] status \in 200..299 /\ state[operation] = "unknown" ->
         [state EXCEPT ![operation] = "allowed"]
    [] OTHER -> state

(* A write that succeeded is an error when its checkpoint fails.            *)
Checkpointed(r, status) ==
  IF Durable(r) /\ status = 200 /\ config.sync_checkpoint # "none" THEN {200, 500} ELSE {status}

(* OPTIONS offers PUT and DELETE unless the client or the domain may not.   *)
OffersWrites(r) ==
  OptionsWriteAllowed(bindings, identity, now, r) /\ Preflight(OnlyDomain(r), "write") = 0

Dispatch(r) ==
  /\ IsDav(r) /\ RoutedTo(r) # {}
  /\ Preflight(OnlyDomain(r), OperationOf(r)) = 0
  /\ Passes(r)
  /\ Counted
  /\ \E dav \in DavStatuses(r) :
       /\ upstream' = [upstream EXCEPT ![OnlyDomain(r)] = Observed(@, OperationOf(r), dav)]
       /\ denied' = IF dav \in {401, 403} THEN denied \cup RoutedTo(r) ELSE denied
       /\ \E checkpointed \in Checkpointed(r, dav) : \E status \in Audited(checkpointed) :
            answer' = [status |-> status, writes |-> r.method = "OPTIONS" /\ OffersWrites(r)]
  /\ UNCHANGED <<probe, writer, revoked>>

Handle(r) ==
  /\ phase = "serving"
  /\ \/ Refuse(r) \/ Throttle(r) \/ Admin(r) \/ Android(r) \/ HealthPage(r)
     \/ Unrouted(r) \/ Primary(r) \/ Suspended(r) \/ Dispatch(r)
  /\ UNCHANGED <<phase, config, bindings, people, calls>>

-----------------------------------------------------------------------------
(* The program around the service.                                          *)

(* configure_upstream_capabilities, for the binding whose fingerprint is    *)
(* presented.                                                               *)
ConfigureCapabilities(d) ==
  \E claimed \in DomainIds, read, write \in {"allowed", "denied"} :
    /\ Fingerprint(bindings[claimed], AccountContext(config))
         = Fingerprint(bindings[d], AccountContext(config))
    /\ upstream' = [upstream EXCEPT ![d].read = read, ![d].write = write]
    /\ UNCHANGED <<probe, rate, writer, people, history>>

(* Seeded fault: the account alone has to match. *)
ReauthorizeAccount(d, claimed) ==
  upstream' = [upstream EXCEPT ![d] = Unknown]

(* reauthorize: the account, which is one for all domains, and the Space.   *)
Reauthorize(d, claimed) ==
  upstream' = IF bindings[claimed].space = bindings[d].space
              THEN [upstream EXCEPT ![d] = Unknown] ELSE upstream

ReauthorizeDomain(d) ==
  /\ \E claimed \in DomainIds :
       /\ Reauthorize(d, claimed)
       /\ denied' = IF bindings[claimed].space = bindings[d].space
                    THEN denied \ {d} ELSE denied
  /\ UNCHANGED <<probe, rate, writer, people, recent, revoked>>

SetClock ==
  /\ now' \in Times
  /\ UNCHANGED <<front, identity, ledger, saved, history>>

Tick ==
  /\ rate' = [rate EXCEPT !.age = IF @ < Window THEN @ + 1 ELSE @]
  /\ recent' = [i \in 0..(Window - 1) |-> IF i = 0 THEN 0 ELSE recent[i - 1]]
  /\ UNCHANGED <<upstream, probe, writer, people, denied, revoked>>

(* The worker of the journal, seen from here.                               *)
JournalChanges ==
  /\ writer # "none"
  /\ writer' \in AuditStates \ {"none", writer}
  /\ UNCHANGED <<upstream, probe, rate, people, history>>

Call ==
  \/ \E d \in DomainIds : ConfigureCapabilities(d) \/ ReauthorizeDomain(d)
  \/ SetClock
  \/ JournalChanges

Around ==
  /\ phase = "serving"
  /\ \/ calls < MaxCalls /\ calls' = calls + 1 /\ Call
     \/ Tick /\ UNCHANGED calls
  /\ answer' = NoAnswer
  /\ UNCHANGED <<phase, config, bindings>>

Next == Start \/ StartFails \/ Prepare \/ Around \/ \E r \in Requests : Handle(r)

Spec == Init /\ [][Next]_vars

-----------------------------------------------------------------------------
(* Properties.                                                              *)

(* However the file, the environment and the command line combine, a        *)
(* service that runs listens on the loopback address only, has an           *)
(* administrator's credential behind a TLS proxy, keeps a checkpoint only   *)
(* for a single domain and a journal where one is required.                 *)
StartedSafely ==
  phase = "serving" =>
    /\ config.listen = "loopback"
    /\ config.reverse_proxy_tls => config.auth \notin {"none", ""}
    /\ config.sync_checkpoint # "none" => Cardinality(DomainIds) = 1
    /\ config.audit_required => writer # "none"

(* resolve_route, which takes the first route that is a prefix, sends every *)
(* path at or below a configured route to the domain that declares the      *)
(* route: no other route shadows it.                                        *)
RoutesUnambiguous ==
  phase = "serving" =>
    \A d \in DomainIds : \A r \in RoutesOf(bindings[d]), q \in Requests :
      LET path == IF q.path[1] = r.path[1] THEN q.path ELSE r.path
      IN Covers(r, path) =>
           ResolveRoute(bindings, path) = {[domain |-> d, route |-> r]}

(* Once a DAV request routed to a domain was answered 401 or 403 by its     *)
(* Space, by whatever method, no request routed to the domain is passed on  *)
(* to the Space until exactly this account and Space are authorized again,  *)
(* whatever happens to the other domains (upstream_preflight and            *)
(* observe_upstream_response).  Only routed DAV requests are held back: the *)
(* homes, the Android bridge and /ready still ask the Space.                *)
DeniedNotContacted ==
  [][\A d \in denied : \A r \in {q \in Requests : d \in RoutedTo(q)} : ~ Dispatch(r)]_vars

(* In any window, wherever it starts, at most twice the limit is let        *)
(* through: the windows of rate_limited are laid end to end by the requests *)
(* themselves.                                                              *)
RateBound ==
  phase = "serving" => recent[Window - 1] <= 2 * config.rate_limit

(* The Allow header of OPTIONS for a resource tells exactly whether a PUT   *)
(* by the same client would now be let through to the Space: two paths of   *)
(* the code (options_write_allowed and the authorization of the PUT itself) *)
(* agree.                                                                   *)
OptionsTruthful ==
  [][\A r \in {q \in Requests : q.method = "OPTIONS"} :
       phase = "serving" /\ Dispatch(r) =>
         LET put == [r EXCEPT !.method = "PUT"]
         IN answer'.writes <=> ~ Refused(put) /\ Preflight(OnlyDomain(put), "write") = 0]_vars

(* A credential that was revoked before a successful save_to authenticates  *)
(* nobody in a service that attached the snapshot since, tokens being       *)
(* different: the first credential with a token decides about it.           *)
RevokedStaysOut ==
  \A id \in revoked.attached :
    ~ Authenticated(identity, InitialLedger.credentials[id].token, now)

(* What the capability report of a token says about a collection is what a  *)
(* request with the token meets (capabilities_for_domain against            *)
(* authorize_domain and credential_allows), tokens being different.         *)
CapabilitiesMatch ==
  phase = "serving" /\ identity # NoIdentity =>
    \A d \in DomainIds : \A route \in RoutesOf(bindings[d]) : \A token \in Tokens :
      \A operation \in Operations :
        LET r == [method |-> IF operation = "read" THEN "GET" ELSE "PUT", path |-> route.path,
                  auth |-> <<[scheme |-> "bearer", token |-> token]>>]
        IN <<operation, route.collection>>
             \in CapabilitiesFor(identity, token, now, d)
           <=> ~ Refused(r)
===============================================================================
