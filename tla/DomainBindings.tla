---------------------------- MODULE DomainBindings ----------------------------
(***************************************************************************)
(* Domain bindings (crates/core/src/domain.rs) and the registry that routes *)
(* a request to one of them (crates/app/src/domain_registry.rs).            *)
(*                                                                          *)
(* A configured binding is a record; the bindings in force are a function   *)
(* from domain ids to them, the map that the registry keeps.                *)
(*                                                                          *)
(* A path is the sequence of its segments: "/carddav/work/" is              *)
(* <<"carddav", "work", "">>, a text that does not start with "/" is <<>>,  *)
(* and the segment "?" stands for one with a character no route may have.   *)
(* Domain ids are numbers, in the order of the ids; 0 and "" are the values *)
(* validate_identifier, validate_label and validate_opaque refuse.          *)
(***************************************************************************)
EXTENDS Naturals, Sequences, FiniteSets, SequencesExt

DomainCollections == {"contacts", "tasks", "events"}

ComponentOf == [contacts |-> "vcard", tasks |-> "vtodo", events |-> "vevent"]

DavRoute(collection, path) ==
  [collection |-> collection, component |-> ComponentOf[collection], path |-> path]

Routes ==
  [collection : DomainCollections, component : {"vcard", "vtodo", "vevent"}, path : Seq(STRING)]

Bindings ==
  [domain : Nat, label : STRING, space : STRING, profile : STRING, schema : STRING,
   namespace : STRING, routes : Seq(Routes)]

RoutesOf(binding) == ToSet(binding.routes)

-----------------------------------------------------------------------------
(* The core contract.                                                       *)

ValidRoute(route) ==
  /\ route.path \notin {<<>>, <<"">>}
  /\ \A i \in DOMAIN route.path : route.path[i] # "?"
  /\ route.component = ComponentOf[route.collection]

DistinctPaths(routes) ==
  \A i, j \in DOMAIN routes : routes[i].path = routes[j].path => i = j

ValidBinding(binding) ==
  /\ binding.domain # 0
  /\ \A field \in {"label", "space", "profile", "schema", "namespace"} : binding[field] # ""
  /\ binding.routes # <<>>
  /\ \A i \in DOMAIN binding.routes : ValidRoute(binding.routes[i])
  /\ DistinctPaths(binding.routes)

ValidBindings(bindings) ==
  /\ bindings # <<>>
  /\ \A i \in DOMAIN bindings : ValidBinding(bindings[i])
  /\ \A i, j \in DOMAIN bindings : bindings[i].domain = bindings[j].domain => i = j
  /\ \A i, j \in DOMAIN bindings :
       \A r \in RoutesOf(bindings[i]), q \in RoutesOf(bindings[j]) : r.path = q.path => i = j

(* normalize sorts the bindings by domain id, and the registry keeps them   *)
(* by it; the order of the routes of one binding is never looked at again.  *)
Normalized(document) ==
  [d \in {document[i].domain : i \in DOMAIN document} |->
     document[CHOOSE i \in DOMAIN document : document[i].domain = d]]

(* The first of the bindings, by domain id.                                 *)
PrimaryDomain(bindings) == Min(DOMAIN bindings)

(* from_json; a text that is no document of the schema leaves none.         *)
FromJson(document) == IF ValidBindings(document) THEN Normalized(document) ELSE <<>>

LegacyDomain == 1

(* legacy_single_space: one domain whose routes are named by the scalars.   *)
LegacySingleSpace(space, contacts, tasks) ==
  FromJson(<<[domain |-> LegacyDomain, label |-> "legacy", space |-> space,
              profile |-> "legacy-default", schema |-> "legacy-default",
              namespace |-> "legacy-default",
              routes |-> <<DavRoute("contacts", <<"carddav", contacts>>),
                           DavRoute("tasks", <<"caldav", tasks>>)>>]>>)

(* The digest, which is the collision-free image of what goes into it.      *)
Fingerprint(binding, account) ==
  [domain |-> binding.domain, account |-> account, profile |-> binding.profile,
   space |-> binding.space, schema |-> binding.schema, namespace |-> binding.namespace,
   routes |-> RoutesOf(binding)]

-----------------------------------------------------------------------------
(* The runtime registry.                                                    *)

(* Seeded fault: a route covers every path whose text starts with its own,  *)
(* as "/carddav/work" does "/carddav/workshop".                             *)
CoversText(route, path) ==
  /\ Len(path) >= Len(route.path)
  /\ Front(route.path) = SubSeq(path, 1, Len(route.path) - 1)
  /\ LET segment == path[Len(route.path)]
     IN segment = Last(route.path) \/ <<Last(route.path), segment>> = <<"work", "workshop">>

Covers(route, path) == route.path = path \/ IsStrictPrefix(route.path, path)

RoutesFor(bindings, d, path) == {r \in RoutesOf(bindings[d]) : Covers(r, path)}

AllRoutes(bindings) == UNION {RoutesOf(bindings[d]) : d \in DOMAIN bindings}

HasRoute(bindings, d, path) == \E r \in RoutesOf(bindings[d]) : Covers(r, path)

FirstMatches(bindings, path) ==
  {d \in DOMAIN bindings :
     /\ HasRoute(bindings, d, path)
     /\ \A k \in DOMAIN bindings : k < d => ~ HasRoute(bindings, k, path)}

(* resolve_route: the routes of the first context, by domain id, that has   *)
(* one for the path; empty when none has.                                   *)
ResolveRoute(bindings, path) ==
  UNION {[domain : {d}, route : RoutesFor(bindings, d, path)] :
           d \in FirstMatches(bindings, path)}
===============================================================================
