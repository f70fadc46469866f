---------------------------- MODULE IdentityPolicy ----------------------------
(***************************************************************************)
(* Credentials and access policy (crates/app/src/identity.rs).              *)
(*                                                                          *)
(* A store has credentials, a function from their ids (numbers, in the      *)
(* order of the ids) to records, and grants, sets of tuples that end in the *)
(* operation granted.  The resource <<>> stands for the collection itself;  *)
(* 0 and "" are the values the constructors refuse.  A token stands for its *)
(* digest.                                                                  *)
(***************************************************************************)
EXTENDS Naturals, Sequences, FiniteSets, FiniteSetsExt, Functions

Operations == {"read", "write"}
Kinds == {"contacts", "tasks", "composition"}
Capabilities == Operations \X Kinds

Credentials ==
  [principal : STRING, token : STRING, from : Int, until : Int,
   capabilities : SUBSET Capabilities, revoked : BOOLEAN]

ValidPrincipal(principal) == principal # ""
ValidDomainId(domain) == domain # 0

EmptyPolicy == [collections |-> {}, resources |-> {}]

-----------------------------------------------------------------------------
(* AccessPolicy.                                                            *)

(* grant_domain_collection, grant_domain_resource: a domain id that is not  *)
(* valid grants nothing.                                                    *)
GrantCollection(policy, principal, domain, kind, operation) ==
  IF ~ ValidDomainId(domain) THEN policy
  ELSE [policy EXCEPT !.collections = @ \cup {<<principal, domain, kind, operation>>}]

GrantResource(policy, principal, domain, kind, resource, operation) ==
  IF ~ ValidDomainId(domain) THEN policy
  ELSE [policy EXCEPT !.resources = @ \cup {<<principal, domain, kind, resource, operation>>}]

(* What is granted for a resource replaces what is granted for its          *)
(* collection.                                                              *)
Granted(policy, principal, domain, kind, resource) ==
  LET own == {o \in Operations : <<principal, domain, kind, resource, o>> \in policy.resources}
  IN IF own # {} THEN own
     ELSE {o \in Operations : <<principal, domain, kind, o>> \in policy.collections}

(* authorize_domain.                                                        *)
AuthorizeDomain(policy, principal, domain, kind, resource, operation) ==
  CASE ValidDomainId(domain)
         /\ operation \in Granted(policy, principal, domain, kind, resource) -> "allowed"
    [] resource # <<>> -> "not_found"
    [] OTHER -> "forbidden"

PolicyCapabilities(policy, principal, domain) ==
  {c \in Capabilities :
     AuthorizeDomain(policy, principal, domain, c[2], <<>>, c[1]) = "allowed"}

-----------------------------------------------------------------------------
(* IdentityStore.                                                           *)

(* add_credential; the token need not be new.                               *)
CanAdd(store, id, spec) ==
  /\ id # 0 /\ spec.until > spec.from /\ spec.token # ""
  /\ id \notin DOMAIN store.credentials

AddCredential(store, id, spec) ==
  IF ~ CanAdd(store, id, spec) THEN store
  ELSE [store EXCEPT !.credentials =
          [i \in DOMAIN @ \cup {id} |-> IF i = id THEN spec ELSE store.credentials[i]]]

RevokeCredential(store, id) ==
  IF id \notin DOMAIN store.credentials THEN store
  ELSE [store EXCEPT !.credentials[id].revoked = TRUE]

Matching(store, token) ==
  {i \in DOMAIN store.credentials : token # "" /\ store.credentials[i].token = token}

Outcome(credential, now) ==
  CASE credential.revoked -> "revoked"
    [] now < credential.from -> "not_yet_valid"
    [] now >= credential.until -> "expired"
    [] OTHER -> "authenticated"

(* authenticate: the first credential with the token decides.               *)
Authenticate(store, token, now) ==
  IF Matching(store, token) = {} THEN [principal |-> "", outcome |-> "invalid"]
  ELSE LET credential == store.credentials[Min(Matching(store, token))]
       IN [principal |-> credential.principal, outcome |-> Outcome(credential, now)]

Authenticated(store, token, now) ==
  Authenticate(store, token, now).outcome = "authenticated"

(* capabilities_for_domain: what the service tells about a token.           *)
CapabilitiesFor(store, token, now, domain) ==
  IF ~ Authenticated(store, token, now) THEN {}
  ELSE LET principal == Authenticate(store, token, now).principal
           own == {i \in Matching(store, token) : store.credentials[i].principal = principal}
           declared == store.credentials[Min(own)].capabilities
           policy == PolicyCapabilities(store.policy, principal, domain)
       IN IF declared = {} THEN policy ELSE policy \cap declared

(* Seeded fault: any restriction of the credential is ignored. *)
CredentialAllowsAll(store, token, now, capability) == Authenticated(store, token, now)

CredentialAllows(store, token, now, capability) ==
  /\ Authenticated(store, token, now)
  /\ \E i \in Matching(store, token) :
       store.credentials[i].capabilities = {} \/ capability \in store.credentials[i].capabilities

-----------------------------------------------------------------------------
(* The snapshot on disk.                                                    *)

(* Seeded fault: the snapshot forgets who was revoked. *)
FromStoreUnrevoked(store) ==
  [version |-> 2,
   credentials |-> {[spec |-> [store.credentials[i] EXCEPT !.revoked = FALSE], id |-> i] :
                      i \in DOMAIN store.credentials},
   collections |-> store.policy.collections, resources |-> store.policy.resources]

FromStore(store) ==
  [version |-> 2,
   credentials |-> {[spec |-> store.credentials[i], id |-> i] : i \in DOMAIN store.credentials},
   collections |-> store.policy.collections, resources |-> store.policy.resources]

(* into_store refuses a snapshot as a whole.                                *)
Loadable(snapshot) ==
  /\ snapshot.version \in {1, 2}
  /\ \A g \in snapshot.collections \cup snapshot.resources :
       ValidPrincipal(g[1]) /\ ValidDomainId(g[2])
  /\ \A g \in snapshot.resources : g[4] # <<>>
  /\ \A c \in snapshot.credentials :
       ValidPrincipal(c.spec.principal) /\ c.spec.until > c.spec.from
  /\ \A c, d \in snapshot.credentials : c.id = d.id => c = d

IntoStore(snapshot) ==
  [credentials |-> [i \in {c.id : c \in snapshot.credentials} |->
                      (CHOOSE c \in snapshot.credentials : c.id = i).spec],
   policy |-> [collections |-> snapshot.collections, resources |-> snapshot.resources]]
===============================================================================
