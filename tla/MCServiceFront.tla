---------------------------- MODULE MCServiceFront ----------------------------
(***************************************************************************)
(* A small instance of ServiceFront for TLC: two domains whose route names  *)
(* begin alike, or one domain with a checkpoint, and two credentials.       *)
(***************************************************************************)
EXTENDS ServiceFront

Binding(domain, space, routes) ==
  [domain |-> domain, label |-> "label", space |-> space, profile |-> "legacy-default",
   schema |-> "schema", namespace |-> "namespace", routes |-> routes]

Work == Binding(1, "s1", <<DavRoute("contacts", <<"carddav", "work">>),
                           DavRoute("tasks", <<"caldav", "work">>)>>)
Workshop == Binding(2, "s2", <<DavRoute("contacts", <<"carddav", "workshop">>)>>)
Nested == Binding(2, "s2", <<DavRoute("contacts", <<"carddav", "work", "inner">>)>>)
Clash == Binding(2, "s2", <<DavRoute("tasks", <<"caldav", "work">>)>>)
Events == Binding(2, "s2", <<DavRoute("events", <<"caldav", "events">>)>>)

Limited == <<<<"rate_limit", 1>>>>

MCFiles == {
  Limited,
  <<<<"rate_limit", 0 - 1>>>>,
  Limited \o <<<<"space_id", "s1">>, <<"contacts", "work">>, <<"sync_checkpoint", "file">>,
               <<"audit_directory", "dir">>, <<"audit_required", "yes">>>>,
  Limited \o <<<<"domain_bindings", {<<Workshop, Work>>}>>>>}

MCEnvironments == {
  <<>>,
  <<<<"auth", "admin">>, <<"ANOTHER", "">>, <<"local_auth", "local">>, <<"transport", "fake">>>>}

MCCommandLines == {
  <<>>,
  <<<<"listen", "lan">>, <<"allow_lan", "yes">>, <<"reverse_proxy_tls", "yes">>>>,
  <<<<"domain_bindings", {<<Work, Nested>>}>>>>,
  <<<<"domain_bindings", {<<Work, Clash>>}>>, <<"allow_lan", "yes">>>>,
  <<<<"domain_bindings", {<<Work, Events>>}>>>>,
  <<<<"max_connections", 0>>>>,
  <<<<"token", "">>>>,
  <<<<"contacts", "">>, <<"domain_bindings", {<<>>}>>>>}

MCTokens == {"t1", "t2"}

MCLedger ==
  LET spec(principal, token, capabilities) ==
        [principal |-> principal, token |-> token, from |-> 1, until |-> 2,
         capabilities |-> capabilities, revoked |-> FALSE]
      granted == GrantResource(
                   GrantCollection(
                     GrantCollection(
                       GrantCollection(EmptyPolicy, "ana", 1, "contacts", "read"),
                       "ana", 1, "contacts", "write"),
                     "ben", 2, "contacts", "write"),
                   "ana", 1, "contacts", <<"r">>, "read")
      store == [credentials |-> [i \in {} |-> 0], policy |-> granted]
  IN AddCredential(
       AddCredential(
         AddCredential(store, 1, spec("ana", "t1", {})),
         2, spec("ben", "t2", {<<"read", "contacts">>})),
       2, spec("ana", "t3", {}))

Req(method, path, token) ==
  [method |-> method, path |-> path, body |-> FALSE, query |-> <<>>,
   auth |-> IF token = "" THEN <<>> ELSE <<[scheme |-> "bearer", token |-> token]>>]

MCRequests == {
  Req("PUT", <<"carddav", "work", "r">>, "t1"),
  Req("OPTIONS", <<"carddav", "work", "r">>, "t1"),
  Req("OPTIONS", <<"carddav", "work", "q">>, "t1"),
  Req("GET", <<"carddav", "workshop", "r">>, "t2"),
  Req("PROPFIND", <<"carddav", "work", "r">>, ""),
  Req("PROPFIND", <<"carddav", "work", "">>, "t1"),
  Req("PROPFIND", <<"carddav", "">>, "t1"),
  Req("GET", <<"caldav", "none", "r">>, "admin"),
  Req("GET", <<"ready">>, "local"),
  Req("POST", <<"android", "sync">>, "t1"),
  Req("POST", <<"admin", "sync", "export">>, "admin"),
  [Req("GET", <<"admin", "sync", "audit">>, "admin")
     EXCEPT !.query = <<[key |-> "limit", value |-> 65]>>]}

(* The state without the last answer, which no guard and no invariant       *)
(* reads, and once the service runs without the ledger and its snapshot,    *)
(* which nothing reads any more; the action properties read the answer of   *)
(* the step itself.                                                         *)
WhatMatters ==
  <<phase, config, bindings, front, identity, now, calls, denied, recent, revoked.attached,
    IF phase = "built" THEN <<ledger, saved, revoked>> ELSE <<>>>>
===============================================================================
