---------------------------- MODULE Configuration ----------------------------
(***************************************************************************)
(* How the service is configured (crates/app/src/config.rs and main.rs):    *)
(* the configuration file, then the environment, then the command line      *)
(* override the defaults, and the result is validated as a whole.           *)
(*                                                                          *)
(* A layer is a sequence of settings <<key, value>>.  "none" is an option   *)
(* that is not set and "" the empty text; the binding document is a set     *)
(* with at most one element; a number below 0 and a flag other than "yes"   *)
(* and "no" are texts that do not parse.                                    *)
(***************************************************************************)
EXTENDS DomainBindings

Defaults ==
  [endpoint |-> "http", api_version |-> "current", space_id |-> "",
   contacts |-> "contacts", tasks |-> "tasks", domain_bindings |-> {},
   credential_profile |-> "legacy-default", listen |-> "loopback", token |-> "none",
   local_auth |-> "none", transport |-> "http", sync_checkpoint |-> "none",
   allow_lan |-> FALSE, reverse_proxy_tls |-> FALSE, auth |-> "none",
   emit_auth_events |-> FALSE, rate_limit |-> 120, max_connections |-> 64,
   audit_directory |-> "none", audit_queue_capacity |-> 64,
   expose_audit_health |-> FALSE, audit_required |-> FALSE]

Keys == DOMAIN Defaults

Settings ==
  [endpoint : STRING, api_version : STRING, space_id : STRING, contacts : STRING,
   tasks : STRING, domain_bindings : SUBSET Seq(Bindings), credential_profile : STRING,
   listen : STRING, token : STRING, local_auth : STRING, transport : STRING,
   sync_checkpoint : STRING, allow_lan : BOOLEAN, reverse_proxy_tls : BOOLEAN, auth : STRING,
   emit_auth_events : BOOLEAN, rate_limit : Nat, max_connections : Nat,
   audit_directory : STRING, audit_queue_capacity : Nat, expose_audit_health : BOOLEAN,
   audit_required : BOOLEAN]

Flags == {"allow_lan", "reverse_proxy_tls", "emit_auth_events", "expose_audit_health",
          "audit_required"}

Numbers == {"rate_limit", "max_connections", "audit_queue_capacity"}

Failed == [failed |-> TRUE]

(* AppConfig::set; local_auth is no key of the file.                        *)
SetKey(config, key, value) ==
  CASE config = Failed \/ key \notin Keys \ {"local_auth"} -> Failed
    [] key \in Flags -> IF value \in {"yes", "no"} THEN [config EXCEPT ![key] = value = "yes"]
                       ELSE Failed
    [] key \in Numbers -> IF value >= 0 THEN [config EXCEPT ![key] = value] ELSE Failed
    [] OTHER -> [config EXCEPT ![key] = value]

FromFile(lines) == FoldLeft(LAMBDA c, line : SetKey(c, line[1], line[2]), Defaults, lines)

(* apply_env: a variable it does not know is ignored.                       *)
ApplyEnv(config, variables) ==
  FoldLeft(LAMBDA c, v :
             CASE c # Failed /\ v[1] = "local_auth" -> [c EXCEPT !.local_auth = v[2]]
               [] v[1] \notin Keys -> c
               [] OTHER -> SetKey(c, v[1], v[2]),
           config, variables)

Options ==
  {"endpoint", "space_id", "domain_bindings", "credential_profile", "listen", "api_version",
   "token", "transport", "sync_checkpoint", "allow_lan", "reverse_proxy_tls",
   "emit_auth_events", "rate_limit", "max_connections", "audit_directory",
   "audit_queue_capacity", "expose_audit_health", "audit_required"}

(* parse_cli: an option it does not know, or has no value for, fails.       *)
ParseCli(config, arguments) ==
  FoldLeft(LAMBDA c, a :
             IF a[1] \notin Options THEN Failed ELSE SetKey(c, a[1], a[2]),
           config, arguments)

Assembled(file, env, cli) == ParseCli(ApplyEnv(FromFile(file), env), cli)

-----------------------------------------------------------------------------
(* validate.                                                                *)

ConfiguredBindings(config) ==
  IF config.domain_bindings = {}
  THEN LegacySingleSpace(config.space_id, config.contacts, config.tasks)
  ELSE FromJson(CHOOSE document \in config.domain_bindings : TRUE)

(* route_collection_id.                                                     *)
OneSegmentBelow(route, home) ==
  Len(route.path) = 2 /\ route.path[1] = home /\ route.path[2] # ""

AtMostOne(binding, collection) ==
  Cardinality({i \in DOMAIN binding.routes : binding.routes[i].collection = collection}) <= 1

(* validate_runtime_bindings.                                               *)
RuntimeBindings(config, bindings) ==
  /\ config.credential_profile # ""
  /\ \A d \in DOMAIN bindings :
       /\ bindings[d].profile = config.credential_profile
       /\ AtMostOne(bindings[d], "contacts") /\ AtMostOne(bindings[d], "tasks")
       /\ \A r \in RoutesOf(bindings[d]) :
            CASE r.collection = "contacts" -> OneSegmentBelow(r, "carddav")
              [] r.collection = "tasks" -> OneSegmentBelow(r, "caldav")
              [] OTHER -> FALSE

ValidCredentials(config) ==
  /\ {config.auth, config.local_auth} \cap {"", "control"} = {}
  /\ config.token # ""

(* Seeded fault: a TLS proxy in front allows any address. *)
ValidListenerProxied(config) ==
  /\ config.listen \in {"loopback", "lan"}
  /\ config.reverse_proxy_tls => config.auth # "none"
  /\ config.listen = "lan" => config.allow_lan /\ config.reverse_proxy_tls

ValidListener(config) ==
  /\ config.listen \in {"loopback", "lan"}
  /\ config.reverse_proxy_tls => config.listen = "loopback" /\ config.auth # "none"
  /\ config.listen = "lan" => config.allow_lan /\ config.reverse_proxy_tls

Valid(config) ==
  /\ config.endpoint = "http" /\ config.api_version = "current"
  /\ ValidCredentials(config)
  /\ config.transport \in {"http", "fake"}
  /\ config.domain_bindings = {} => config.space_id # ""
  /\ ValidListener(config)
  /\ config.rate_limit > 0 /\ config.max_connections > 0 /\ config.audit_queue_capacity > 0
  /\ config.audit_required => config.audit_directory # "none"
  /\ config.audit_directory # ""
  /\ config.domain_bindings = {} => config.contacts # "" /\ config.tasks # ""
  /\ LET bindings == ConfiguredBindings(config)
     IN /\ bindings # <<>>
        /\ RuntimeBindings(config, bindings)
        /\ Cardinality(DOMAIN bindings) > 1 => config.sync_checkpoint = "none"

Accepted(config) == config # Failed /\ Valid(config)

-----------------------------------------------------------------------------
(* Who the service is to Anytype.                                           *)

(* account_context_fingerprint: the token when there is one.                *)
AccountContext(config) ==
  [endpoint |-> config.endpoint,
   as |-> IF config.token # "none" THEN <<"token", config.token>>
          ELSE <<"transport", config.transport>>]
===============================================================================
