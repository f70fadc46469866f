---------------------------- MODULE Authorization ----------------------------
(***************************************************************************)
(* Who may send a request (crates/app/src/lib.rs, authorization_status and  *)
(* what it calls).                                                          *)
(*                                                                          *)
(* A request has a method, a path, the sequence of its Authorization        *)
(* headers and, for the administration, whether it has a body.  A status 0  *)
(* lets it pass.                                                            *)
(***************************************************************************)
EXTENDS Configuration, IdentityPolicy

NoIdentity == [attached |-> FALSE]

PublicPaths == {<<"">>, <<"principals", "users", "default">>,
                <<".well-known", "caldav">>, <<".well-known", "carddav">>}
HealthPaths == {<<"health">>, <<"status">>, <<"ready">>}
HomePaths == {<<"carddav", "">>, <<"caldav", "">>}
AndroidPath == <<"android", "sync">>

IsAdminPath(path) == Len(path) >= 2 /\ SubSeq(path, 1, 2) = <<"admin", "sync">>

(* The one Bearer or Basic token of a request, "" when there is none.       *)
Supplied(request) ==
  IF Len(request.auth) = 1 /\ request.auth[1].scheme \in {"bearer", "basic"}
  THEN request.auth[1].token ELSE ""

(* authorized_credential; an expected credential is never empty.            *)
AuthorizedBy(request, expected) == expected # "none" /\ Supplied(request) = expected

(* authorized: a local credential opens the health pages, beside the        *)
(* credential of the service.                                               *)
Authorized(config, request) ==
  IF request.path \in HealthPaths /\ config.local_auth # "none"
  THEN AuthorizedBy(request, config.local_auth) \/ AuthorizedBy(request, config.auth)
  ELSE config.auth = "none" \/ AuthorizedBy(request, config.auth)

OperationOf(request) == IF request.method \in {"PUT", "DELETE"} THEN "write" ELSE "read"

HomeCollection(path) == IF path[1] = "carddav" THEN "contacts" ELSE "tasks"

NoRequestScope == [domain |-> 0]

(* The id below a route, <<>> for the collection with or without a slash.   *)
ResourceBelow(route, path) ==
  LET rest == SubSeq(path, Len(route.path) + 1, Len(path))
  IN IF rest = <<"">> THEN <<>> ELSE rest

(* request_scope.                                                           *)
RequestScope(bindings, request) ==
  CASE request.path \in HomePaths ->
         IF Cardinality(DOMAIN bindings) = 1
            /\ \E r \in AllRoutes(bindings) : r.collection = HomeCollection(request.path)
         THEN [domain |-> PrimaryDomain(bindings), kind |-> HomeCollection(request.path),
               resource |-> <<>>, operation |-> OperationOf(request)]
         ELSE NoRequestScope
    [] ResolveRoute(bindings, request.path) = {} -> NoRequestScope
    [] OTHER ->
         LET found == CHOOSE f \in ResolveRoute(bindings, request.path) : TRUE
         IN [domain |-> found.domain, kind |-> found.route.collection,
             resource |-> ResourceBelow(found.route, request.path),
             operation |-> OperationOf(request)]

-----------------------------------------------------------------------------

(* android_identity_authorization_status: any capability of the account in  *)
(* the primary domain opens the bridge, for reading and for writing.        *)
AndroidStatus(bindings, identity, now, request) ==
  CASE ~ Authenticated(identity, Supplied(request), now) -> 401
    [] CapabilitiesFor(identity, Supplied(request), now, PrimaryDomain(bindings))
         \cap (Operations \X {"contacts", "tasks"}) # {} -> 0
    [] OTHER -> 403

(* The decision of the policy and of the credential about one scope.        *)
ScopeStatus(identity, now, token, scope) ==
  LET principal == Authenticate(identity, token, now).principal
      decision == AuthorizeDomain(identity.policy, principal, scope.domain, scope.kind,
                                  scope.resource, scope.operation)
  IN CASE decision = "not_found" -> 404
       [] decision = "allowed"
            /\ CredentialAllows(identity, token, now, <<scope.operation, scope.kind>>) -> 0
       [] OTHER -> 403

(* identity_authorization_status.                                           *)
IdentityStatus(bindings, identity, now, request) ==
  LET scope == RequestScope(bindings, request)
  IN CASE ~ Authenticated(identity, Supplied(request), now) -> 401
       [] request.path \in PublicPaths -> 0
       [] request.path \in HomePaths /\ Cardinality(DOMAIN bindings) > 1 -> 403
       [] scope = NoRequestScope -> 404
       [] OTHER -> ScopeStatus(identity, now, Supplied(request), scope)

(* authorization_status.                                                    *)
AuthorizationStatus(config, bindings, identity, now, request) ==
  CASE identity = NoIdentity \/ request.path \in HealthPaths ->
         IF Authorized(config, request) THEN 0 ELSE 401
    [] request.path = AndroidPath -> AndroidStatus(bindings, identity, now, request)
    [] OTHER -> IdentityStatus(bindings, identity, now, request)

(* Seeded fault: the right to read is taken for the right to write. *)
OptionsWriteAllowedRead(bindings, identity, now, request) ==
  LET scope == RequestScope(bindings, request)
  IN \/ identity = NoIdentity
     \/ ~ Authenticated(identity, Supplied(request), now)
     \/ scope = NoRequestScope
     \/ ScopeStatus(identity, now, Supplied(request), scope) = 0

(* options_write_allowed; without an identity nothing is taken away.        *)
OptionsWriteAllowed(bindings, identity, now, request) ==
  LET scope == RequestScope(bindings, request)
  IN \/ identity = NoIdentity
     \/ ~ Authenticated(identity, Supplied(request), now)
     \/ scope = NoRequestScope
     \/ ScopeStatus(identity, now, Supplied(request), [scope EXCEPT !.operation = "write"]) = 0
===============================================================================
