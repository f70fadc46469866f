-------------------------- MODULE ServiceFrontProofs --------------------------
(***************************************************************************)
(* Proofs about ServiceFront, for any layers of configuration, requests,    *)
(* credentials and lengths of the rate window: how a service that runs is   *)
(* set up, where a request is routed, who is let through, and how many.     *)
(***************************************************************************)
EXTENDS ServiceFront, FiniteSetTheorems, TLAPS

-----------------------------------------------------------------------------
(* A document is a sequence of bindings whose routes have paths.             *)

Segmented(path) == path \in Seq(ToSet(path))

Document(document) ==
  /\ document \in Seq(ToSet(document))
  /\ \A i \in DOMAIN document :
       /\ document[i].domain \in Nat
       /\ \A r \in RoutesOf(document[i]) : Segmented(r.path)

LEMMA SegmentedSeq ==
  ASSUME NEW S, NEW path \in Seq(S)
  PROVE  Segmented(path)
  BY DEF Segmented, ToSet

LEMMA BindingsDocument ==
  ASSUME NEW document \in Seq(Bindings)
  PROVE  Document(document)
  <1>1. ASSUME NEW i \in DOMAIN document
        PROVE  /\ document[i].domain \in Nat
               /\ \A r \in RoutesOf(document[i]) : Segmented(r.path)
    <2>1. document[i] \in Bindings
      OBVIOUS
    <2>2. document[i].domain \in Nat /\ document[i].routes \in Seq(Routes)
      BY <2>1 DEF Bindings
    <2>3. ASSUME NEW r \in RoutesOf(document[i]) PROVE Segmented(r.path)
      <3>1. r \in Routes
        BY <2>2 DEF RoutesOf, ToSet
      <3>2. QED BY <3>1, SegmentedSeq DEF Routes
    <2>4. QED BY <2>2, <2>3
  <1>2. Segmented(document)
    BY SegmentedSeq
  <1>3. QED BY <1>1, <1>2 DEF Document, Segmented

LEMMA LegacyDocument ==
  ASSUME NEW space, NEW contacts, NEW tasks
  PROVE  \E document : Document(document)
           /\ LegacySingleSpace(space, contacts, tasks) = FromJson(document)
  <1> DEFINE first == DavRoute("contacts", <<"carddav", contacts>>)
             second == DavRoute("tasks", <<"caldav", tasks>>)
             one == [domain |-> LegacyDomain, label |-> "legacy", space |-> space,
                     profile |-> "legacy-default", schema |-> "legacy-default",
                     namespace |-> "legacy-default", routes |-> <<first, second>>]
  <1>1. LegacySingleSpace(space, contacts, tasks) = FromJson(<<one>>)
    BY DEF LegacySingleSpace
  <1>2. Segmented(first.path) /\ Segmented(second.path)
    BY DEF DavRoute, Segmented, ToSet
  <1>3. one.domain \in Nat
    BY DEF LegacyDomain
  <1>4. RoutesOf(one) = {first, second}
    <2>1. one.routes = <<first, second>>
      OBVIOUS
    <2> HIDE DEF first, second, one
    <2>2. QED BY <2>1 DEF RoutesOf, ToSet
  <1> HIDE DEF first, second, one
  <1>5. Document(<<one>>)
    <2>1. <<one>> \in Seq(ToSet(<<one>>))
      BY DEF ToSet
    <2>2. QED BY <2>1, <1>2, <1>3, <1>4 DEF Document
  <1>6. QED BY <1>1, <1>5

-----------------------------------------------------------------------------
(* What validation leaves of the bindings: every route is one segment below *)
(* a home, and no two routes have the same path.                            *)

Served(route) ==
  /\ Segmented(route.path)
  /\ route.collection \in {"contacts", "tasks"}
  /\ OneSegmentBelow(route, "carddav") \/ OneSegmentBelow(route, "caldav")

WellBound(bound) ==
  /\ DOMAIN bound \subseteq Nat \ {0}
  /\ IsFiniteSet(DOMAIN bound) /\ DOMAIN bound # {}
  /\ \A d \in DOMAIN bound : \A r \in RoutesOf(bound[d]) : Served(r)
  /\ \A d, e \in DOMAIN bound : \A r \in RoutesOf(bound[d]), q \in RoutesOf(bound[e]) :
       r.path = q.path => d = e /\ r = q

LEMMA NormalizedOne ==
  ASSUME NEW document, Document(document), ValidBindings(document),
         NEW d \in DOMAIN Normalized(document)
  PROVE  \E i \in DOMAIN document :
           d = document[i].domain /\ Normalized(document)[d] = document[i]
  <1>1. PICK j \in DOMAIN document : document[j].domain = d
    BY DEF Normalized
  <1>2. Normalized(document)[d] = document[CHOOSE i \in DOMAIN document : document[i].domain = d]
    BY DEF Normalized
  <1>3. (CHOOSE i \in DOMAIN document : document[i].domain = d) \in DOMAIN document
        /\ document[CHOOSE i \in DOMAIN document : document[i].domain = d].domain = d
    BY <1>1
  <1>4. QED BY <1>2, <1>3

LEMMA NormalizedIsBound ==
  ASSUME NEW document, Document(document), ValidBindings(document),
         NEW settings, RuntimeBindings(settings, Normalized(document))
  PROVE  WellBound(Normalized(document))
  <1> DEFINE bound == Normalized(document)
  <1>1. DOMAIN document = 1..Len(document) /\ Len(document) \in Nat
    BY DEF Document
  <1>2. DOMAIN bound = {document[i].domain : i \in DOMAIN document}
    BY DEF Normalized
  <1>3. IsFiniteSet(DOMAIN bound)
    <2>1. IsFiniteSet(DOMAIN document)
      BY <1>1, FS_Interval
    <2>2. IsFiniteSet({document[i].domain : i \in DOMAIN document})
      <3> DEFINE f == [i \in DOMAIN document |-> document[i].domain]
      <3>1. f \in Surjection(DOMAIN document, {document[i].domain : i \in DOMAIN document})
        BY DEF Surjection
      <3> HIDE DEF f
      <3>2. QED BY <3>1, <2>1, FS_Surjection
    <2>3. QED BY <2>2, <1>2
  <1>4. DOMAIN bound # {}
    <2>1. document # <<>>
      BY DEF ValidBindings
    <2>2. 1 \in DOMAIN document
      BY <2>1
    <2>3. QED BY <2>2, <1>2
  <1>5. DOMAIN bound \subseteq Nat \ {0}
    <2>1. ASSUME NEW i \in DOMAIN document PROVE document[i].domain \in Nat \ {0}
      BY DEF ValidBindings, ValidBinding, Document
    <2>2. QED BY <2>1, <1>2
  <1>6. ASSUME NEW d \in DOMAIN bound, NEW r \in RoutesOf(bound[d])
        PROVE  Served(r)
    <2>1. PICK i \in DOMAIN document : d = document[i].domain /\ bound[d] = document[i]
      BY NormalizedOne
    <2>3. Segmented(r.path)
      BY <2>1 DEF Document
    <2>4. CASE r.collection = "contacts"
      BY <2>3, <2>4 DEF RuntimeBindings, Served
    <2>5. CASE r.collection = "tasks"
      BY <2>3, <2>5 DEF RuntimeBindings, Served
    <2>6. CASE r.collection \notin {"contacts", "tasks"}
      BY <2>6 DEF RuntimeBindings
    <2>7. QED BY <2>4, <2>5, <2>6
  <1>7. ASSUME NEW d \in DOMAIN bound, NEW e \in DOMAIN bound,
               NEW r \in RoutesOf(bound[d]), NEW q \in RoutesOf(bound[e]), r.path = q.path
        PROVE  d = e /\ r = q
    <2>1. PICK i \in DOMAIN document : d = document[i].domain /\ bound[d] = document[i]
      BY NormalizedOne
    <2>2. PICK j \in DOMAIN document : e = document[j].domain /\ bound[e] = document[j]
      BY NormalizedOne
    <2>3. i = j
      BY <1>7, <2>1, <2>2 DEF ValidBindings
    <2>4. DistinctPaths(document[i].routes)
      BY DEF ValidBindings, ValidBinding
    <2>5. r = q
      BY <1>7, <2>1, <2>2, <2>3, <2>4 DEF DistinctPaths, RoutesOf, ToSet
    <2>6. QED BY <2>1, <2>2, <2>3, <2>5
  <1>8. QED BY <1>3, <1>4, <1>5, <1>6, <1>7 DEF WellBound

LEMMA NoBindings ==
  ASSUME NEW document, FromJson(document) # <<>>
  PROVE  ValidBindings(document) /\ FromJson(document) = Normalized(document)
  BY DEF FromJson

LEMMA AcceptedIsBound ==
  ASSUME NEW settings \in Settings, Accepted(settings)
  PROVE  WellBound(ConfiguredBindings(settings))
  <1>1. Valid(settings)
    BY DEF Accepted
  <1>2. /\ ConfiguredBindings(settings) # <<>>
        /\ RuntimeBindings(settings, ConfiguredBindings(settings))
    BY <1>1 DEF Valid
  <1>3. PICK document : Document(document) /\ ConfiguredBindings(settings) = FromJson(document)
    <2>1. CASE settings.domain_bindings = {}
      BY <2>1, LegacyDocument DEF ConfiguredBindings
    <2>2. CASE settings.domain_bindings # {}
      <3>1. settings.domain_bindings \subseteq Seq(Bindings)
        BY DEF Settings
      <3>2. (CHOOSE document \in settings.domain_bindings : TRUE) \in Seq(Bindings)
        BY <2>2, <3>1
      <3>3. QED BY <2>2, <3>2, BindingsDocument DEF ConfiguredBindings
    <2>3. QED BY <2>1, <2>2
  <1>4. QED BY <1>2, <1>3, NoBindings, NormalizedIsBound

-----------------------------------------------------------------------------
(* Routing.                                                                 *)

LEMMA FoundRoute ==
  ASSUME NEW bound, NEW path, NEW f
  PROVE  f \in ResolveRoute(bound, path)
           <=> \E d \in FirstMatches(bound, path) : \E r \in RoutesFor(bound, d, path) :
                 f = [domain |-> d, route |-> r]
  BY DEF ResolveRoute

LEMMA CoversBelow ==
  ASSUME NEW route, Served(route), NEW path, Segmented(path), Covers(route, path)
  PROVE  /\ Len(path) \in Nat /\ Len(path) >= 2
         /\ path[1] = route.path[1] /\ path[2] = route.path[2]
  <1>1. Len(route.path) = 2
    BY DEF Served, OneSegmentBelow
  <1>2. CASE route.path = path
    BY <1>1, <1>2
  <1>3. CASE IsStrictPrefix(route.path, path)
    <2>1. /\ Len(path) \in Nat /\ Len(path) >= 2
          /\ SubSeq(route.path, 1, 2) = SubSeq(path, 1, 2)
      BY <1>1, <1>3 DEF IsStrictPrefix, IsPrefix, Segmented
    <2>2. /\ SubSeq(path, 1, 2)[1] = path[1] /\ SubSeq(path, 1, 2)[2] = path[2]
      BY <2>1 DEF Segmented
    <2>3. /\ SubSeq(route.path, 1, 2)[1] = route.path[1]
          /\ SubSeq(route.path, 1, 2)[2] = route.path[2]
      BY <1>1 DEF Served, Segmented
    <2>4. QED BY <2>1, <2>2, <2>3
  <1>4. QED BY <1>2, <1>3 DEF Covers

LEMMA CoveredOnce ==
  ASSUME NEW bound, WellBound(bound), NEW path, Segmented(path),
         NEW d \in DOMAIN bound, NEW e \in DOMAIN bound,
         NEW r \in RoutesOf(bound[d]), NEW q \in RoutesOf(bound[e]),
         Covers(r, path), Covers(q, path)
  PROVE  d = e /\ r = q
  <1>1. Served(r) /\ Served(q)
    BY DEF WellBound
  <1>2. r.path[1] = q.path[1] /\ r.path[2] = q.path[2]
    BY <1>1, CoversBelow
  <1>3. Len(r.path) = 2 /\ Len(q.path) = 2
    BY <1>1 DEF Served, OneSegmentBelow
  <1>4. r.path = q.path
    BY <1>1, <1>2, <1>3 DEF Served, Segmented
  <1>5. QED BY <1>4 DEF WellBound

(* No route is shadowed: a path that is covered is routed there.             *)
LEMMA RoutedThere ==
  ASSUME NEW bound, WellBound(bound), NEW path, Segmented(path),
         NEW d \in DOMAIN bound, NEW r \in RoutesOf(bound[d]), Covers(r, path)
  PROVE  ResolveRoute(bound, path) = {[domain |-> d, route |-> r]}
  <1>1. \A e \in DOMAIN bound : HasRoute(bound, e, path) => e = d
    BY CoveredOnce DEF HasRoute
  <1>2. HasRoute(bound, d, path)
    BY DEF HasRoute
  <1>3. FirstMatches(bound, path) = {d}
    <2>1. ASSUME NEW k \in DOMAIN bound, k < d PROVE ~ HasRoute(bound, k, path)
      <3>1. k \in Nat /\ d \in Nat
        BY DEF WellBound
      <3>2. QED BY <1>1, <2>1, <3>1
    <2>2. QED BY <1>1, <1>2, <2>1 DEF FirstMatches
  <1>4. RoutesFor(bound, d, path) = {r}
    BY CoveredOnce DEF RoutesFor
  <1>5. \A f : f \in ResolveRoute(bound, path) <=> f = [domain |-> d, route |-> r]
    BY <1>3, <1>4, FoundRoute
  <1>6. QED BY <1>5

LEMMA RoutedOnce ==
  ASSUME NEW bound, WellBound(bound), NEW path, Segmented(path),
         ResolveRoute(bound, path) # {}
  PROVE  \E d \in DOMAIN bound : \E r \in RoutesOf(bound[d]) :
           Covers(r, path) /\ ResolveRoute(bound, path) = {[domain |-> d, route |-> r]}
  <1>1. PICK d \in FirstMatches(bound, path) : \E r \in RoutesFor(bound, d, path) : TRUE
    BY FoundRoute
  <1>2. PICK r \in RoutesFor(bound, d, path) : TRUE
    BY <1>1
  <1>3. d \in DOMAIN bound /\ r \in RoutesOf(bound[d]) /\ Covers(r, path)
    BY DEF FirstMatches, RoutesFor
  <1>4. QED BY <1>3, RoutedThere

-----------------------------------------------------------------------------
(* The invariant: the settings and the bindings of a service that runs, what*)
(* is known of each Space, and the rate window.                             *)

SettingsOK == config \in Settings \cup {Failed}

StageOK ==
  /\ phase \in {"starting", "built", "serving", "failed"}
  /\ phase \in {"built", "serving"} =>
       Accepted(config) /\ bindings = ConfiguredBindings(config)
  /\ phase \notin {"built", "serving"} => bindings = <<>> /\ denied = {}

Domains ==
  [read : {"unknown", "allowed", "denied"}, write : {"unknown", "allowed", "denied"},
   suspension : {"active", "auth", "forbidden"}]

UpstreamOK == upstream \in [DomainIds -> Domains]

(* The journal is there when it is required.                                *)
WriterOK ==
  /\ writer \in AuditStates
  /\ phase \in {"built", "serving"} /\ config.audit_required => writer # "none"

RateOK ==
  /\ rate \in [age : 0..Window, count : Nat]
  /\ recent \in [0..(Window - 1) -> Nat]
  /\ phase # "serving" => rate.count = 0 /\ \A i \in 0..(Window - 1) : recent[i] = 0
  /\ phase = "serving" => rate.count <= config.rate_limit + 1

RestOK ==
  /\ probe \in {"not_tested", "ready", "unavailable"}
  /\ now \in Times \cup {0} /\ calls \in 0..MaxCalls
  /\ denied \subseteq DomainIds

FrontInv == SettingsOK /\ StageOK /\ UpstreamOK /\ WriterOK /\ RateOK /\ RestOK

LEMMA RunningSettings ==
  ASSUME SettingsOK, StageOK, phase \in {"built", "serving"}
  PROVE  /\ config \in Settings /\ Accepted(config) /\ Valid(config)
         /\ config.rate_limit \in Nat \ {0}
         /\ WellBound(bindings)
  <1>1. config \in Settings /\ Accepted(config) /\ Valid(config)
    BY DEF SettingsOK, StageOK, Accepted
  <1>2. config.rate_limit \in Nat \ {0}
    <2>1. config.rate_limit \in Nat /\ config.rate_limit > 0
      BY <1>1 DEF Settings, Valid
    <2>2. QED BY <2>1
  <1>3. QED BY <1>1, <1>2, AcceptedIsBound DEF StageOK

LEMMA FrontInit == Init => FrontInv
  <1> SUFFICES ASSUME Init PROVE FrontInv
    OBVIOUS
  <1>1. SettingsOK
    BY LayersTyped DEF Init, SettingsOK
  <1>2. StageOK
    BY DEF Init, StageOK
  <1>3. UpstreamOK
    BY DEF Init, UpstreamOK, DomainIds
  <1>4. WriterOK
    BY DEF Init, WriterOK, AuditStates
  <1>5. RateOK
    BY FrontAssumption DEF Init, RateOK
  <1>6. RestOK
    BY FrontAssumption DEF Init, RestOK
  <1>7. QED BY <1>1, <1>2, <1>3, <1>4, <1>5, <1>6 DEF FrontInv

-----------------------------------------------------------------------------
(* Steps of the service before it serves.                                   *)

LEMMA FrontStart ==
  ASSUME FrontInv, Start
  PROVE  FrontInv'
  <1>1. Accepted(config) /\ bindings' = ConfiguredBindings(config)
        /\ upstream' = NewRegistry(bindings') /\ phase' = "built" /\ config' = config
    BY DEF Start
  <1>2. SettingsOK'
    BY <1>1 DEF FrontInv, SettingsOK
  <1>3. StageOK'
    BY <1>1 DEF StageOK
  <1>4. UpstreamOK'
    BY <1>1 DEF UpstreamOK, NewRegistry, Domains, Unknown, DomainIds
  <1>5. WriterOK'
    <2>1. Valid(config)
      BY <1>1 DEF Accepted
    <2>2. config.audit_required => config.audit_directory # "none"
      BY <2>1 DEF Valid
    <2>3. QED BY <1>1, <2>2 DEF Start, WriterOK, AuditStates
  <1>6. RateOK'
    BY DEF FrontInv, RateOK, Start, history
  <1>7. RestOK'
    BY DEF FrontInv, StageOK, RestOK, Start, people, history
  <1>8. QED BY <1>2, <1>3, <1>4, <1>5, <1>6, <1>7 DEF FrontInv

LEMMA FrontStartFails ==
  ASSUME FrontInv, StartFails
  PROVE  FrontInv'
  <1>1. /\ phase = "starting" /\ phase' = "failed"
        /\ UNCHANGED <<config, bindings, upstream, probe, rate, writer, now, calls, denied, recent>>
    BY DEF StartFails, front, people, history
  <1>2. SettingsOK' /\ StageOK'
    BY <1>1 DEF FrontInv, SettingsOK, StageOK
  <1>3. UpstreamOK' /\ WriterOK'
    BY <1>1 DEF FrontInv, UpstreamOK, WriterOK, DomainIds
  <1>4. RateOK' /\ RestOK'
    BY <1>1 DEF FrontInv, RateOK, RestOK, DomainIds
  <1>5. QED BY <1>2, <1>3, <1>4 DEF FrontInv

LEMMA FrontPrepare ==
  ASSUME FrontInv, Prepare
  PROVE  FrontInv'
  <1>1. /\ phase = "built" /\ phase' \in {"built", "serving"} /\ now' \in Times \cup {0}
        /\ UNCHANGED <<config, bindings, upstream, probe, rate, writer, calls, denied, recent>>
    BY DEF Prepare, Revoke, SaveLedger, AttachIdentity, front, people, FrontInv, RestOK
  <1>2. SettingsOK' /\ StageOK'
    BY <1>1 DEF FrontInv, SettingsOK, StageOK
  <1>3. UpstreamOK' /\ WriterOK'
    BY <1>1 DEF FrontInv, UpstreamOK, WriterOK, DomainIds
  <1>4. RateOK'
    <2>1. config.rate_limit \in Nat
      BY <1>1, RunningSettings DEF FrontInv
    <2>2. QED BY <1>1, <2>1 DEF FrontInv, RateOK
  <1>5. RestOK'
    BY <1>1 DEF FrontInv, RestOK, DomainIds
  <1>6. QED BY <1>2, <1>3, <1>4, <1>5 DEF FrontInv

-----------------------------------------------------------------------------
(* Requests.                                                                *)

LEMMA RoutedRequest ==
  ASSUME FrontInv, phase \in {"built", "serving"}, NEW r \in Requests, RoutedTo(r) # {}
  PROVE  /\ OnlyDomain(r) \in DomainIds /\ RoutedTo(r) = {OnlyDomain(r)}
         /\ \E route \in RoutesOf(bindings[OnlyDomain(r)]) :
              /\ Served(route) /\ Covers(route, r.path)
              /\ ResolveRoute(bindings, r.path) = {[domain |-> OnlyDomain(r), route |-> route]}
  <1>1. WellBound(bindings)
    BY RunningSettings DEF FrontInv
  <1>2. Segmented(r.path)
    BY RequestsTyped, SegmentedSeq
  <1>3. ResolveRoute(bindings, r.path) # {}
    BY DEF RoutedTo
  <1>4. PICK d \in DOMAIN bindings : \E route \in RoutesOf(bindings[d]) :
          /\ Covers(route, r.path)
          /\ ResolveRoute(bindings, r.path) = {[domain |-> d, route |-> route]}
    BY <1>1, <1>2, <1>3, RoutedOnce
  <1>5. RoutedTo(r) = {d}
    BY <1>4 DEF RoutedTo
  <1>6. OnlyDomain(r) = d
    BY <1>5 DEF OnlyDomain
  <1>7. QED BY <1>1, <1>4, <1>5, <1>6 DEF WellBound, DomainIds

LEMMA CountedOK ==
  ASSUME FrontInv, phase = "serving", Counted
  PROVE  /\ rate' \in [age : 0..Window, count : Nat]
         /\ rate'.count <= config.rate_limit + 1
         /\ recent' \in [0..(Window - 1) -> Nat]
  <1>1. config.rate_limit \in Nat \ {0}
    BY RunningSettings DEF FrontInv
  <1>2. RateAfter \in [age : 0..Window, count : Nat] /\ RateAfter.count <= config.rate_limit + 1
    BY <1>1, FrontAssumption DEF FrontInv, RateOK, RateAfter
  <1>3. recent' \in [0..(Window - 1) -> Nat]
    BY FrontAssumption DEF FrontInv, RateOK, Counted
  <1>4. QED BY <1>2, <1>3 DEF Counted

LEMMA OperationKnown ==
  ASSUME NEW r
  PROVE  OperationOf(r) \in Operations
  BY DEF OperationOf, Operations

LEMMA ObservedOK ==
  ASSUME NEW state \in Domains, NEW operation \in Operations, NEW status
  PROVE  Observed(state, operation, status) \in Domains
  <1>1. [state EXCEPT ![operation] = "allowed"] \in Domains
    BY DEF Domains, Operations
  <1>2. [state EXCEPT !.suspension = "auth"] \in Domains
        /\ [state EXCEPT !.suspension = "forbidden"] \in Domains
    BY DEF Domains
  <1>3. QED BY <1>1, <1>2 DEF Observed

LEMMA FrontHandle ==
  ASSUME FrontInv, NEW r \in Requests, Handle(r)
  PROVE  FrontInv'
  <1>1. phase = "serving" /\ UNCHANGED <<phase, config, bindings, now, calls>>
    BY DEF Handle, people
  <1>2. writer' = writer
    BY DEF Handle, Refuse, Throttle, Admin, Android, HealthPage, Unrouted, Primary, Suspended,
           Dispatch, front
  <1>3. probe' \in {"not_tested", "ready", "unavailable"}
    BY DEF Handle, Refuse, Throttle, Admin, Android, HealthPage, Unrouted, Primary, Suspended,
           Dispatch, front, FrontInv, RestOK, Probed
  <1>4. Counted \/ UNCHANGED <<rate, recent>>
    BY DEF Handle, Refuse, Throttle, Admin, Android, HealthPage, Unrouted, Primary, Suspended,
           Dispatch, front
  <1>5. Dispatch(r) \/ UNCHANGED <<upstream, denied>>
    BY DEF Handle, Refuse, Throttle, Admin, Android, HealthPage, Unrouted, Primary, Suspended,
           front
  <1>6. RateOK'
    BY <1>1, <1>4, CountedOK DEF FrontInv, RateOK
  <1>7. UpstreamOK' /\ denied' \subseteq DomainIds
    <2>1. CASE UNCHANGED <<upstream, denied>>
      BY <1>1, <2>1 DEF FrontInv, UpstreamOK, RestOK, DomainIds
    <2>2. CASE Dispatch(r)
      <3>1. OnlyDomain(r) \in DomainIds /\ RoutedTo(r) = {OnlyDomain(r)}
        BY <1>1, <2>2, RoutedRequest DEF Dispatch
      <3>2. PICK dav \in DavStatuses(r) :
              /\ upstream' = [upstream EXCEPT ![OnlyDomain(r)] =
                                Observed(@, OperationOf(r), dav)]
              /\ denied' = IF dav \in {401, 403} THEN denied \cup RoutedTo(r) ELSE denied
        BY <2>2 DEF Dispatch
      <3>3. Observed(upstream[OnlyDomain(r)], OperationOf(r), dav) \in Domains
        BY <3>1, ObservedOK, OperationKnown DEF FrontInv, UpstreamOK
      <3>4. upstream' \in [DomainIds -> Domains]
        BY <3>1, <3>2, <3>3 DEF FrontInv, UpstreamOK
      <3>5. QED BY <1>1, <3>1, <3>2, <3>4 DEF FrontInv, UpstreamOK, RestOK, DomainIds
    <2>3. QED BY <1>5, <2>1, <2>2
  <1>8. SettingsOK' /\ StageOK' /\ WriterOK'
    BY <1>1, <1>2 DEF FrontInv, SettingsOK, StageOK, WriterOK
  <1>9. RestOK'
    BY <1>1, <1>3, <1>7 DEF FrontInv, RestOK, DomainIds
  <1>10. QED BY <1>6, <1>7, <1>8, <1>9 DEF FrontInv

-----------------------------------------------------------------------------
(* The program around the service.                                          *)

LEMMA TickOK ==
  ASSUME FrontInv, phase = "serving", Tick
  PROVE  /\ rate' \in [age : 0..Window, count : Nat] /\ rate'.count = rate.count
         /\ recent' \in [0..(Window - 1) -> Nat]
  <1>1. rate' \in [age : 0..Window, count : Nat] /\ rate'.count = rate.count
    BY FrontAssumption DEF Tick, FrontInv, RateOK
  <1>2. ASSUME NEW i \in 0..(Window - 1)
        PROVE  (IF i = 0 THEN 0 ELSE recent[i - 1]) \in Nat
    BY FrontAssumption DEF FrontInv, RateOK
  <1>3. QED BY <1>1, <1>2 DEF Tick

LEMMA CallUpstream ==
  ASSUME FrontInv, Call
  PROVE  /\ upstream' \in [DomainIds -> Domains]
         /\ denied' \subseteq denied
         /\ writer' = writer \/ (writer # "none" /\ writer' \in AuditStates \ {"none"})
         /\ now' \in Times \cup {0}
         /\ UNCHANGED <<probe, rate, recent>>
  <1>1. upstream \in [DomainIds -> Domains] /\ now \in Times \cup {0}
    BY DEF FrontInv, UpstreamOK, RestOK
  <1>2. ASSUME NEW d \in DomainIds, ConfigureCapabilities(d)
        PROVE  /\ upstream' \in [DomainIds -> Domains]
               /\ UNCHANGED <<denied, writer, now, probe, rate, recent>>
    <2>1. PICK read \in {"allowed", "denied"}, write \in {"allowed", "denied"} :
            upstream' = [upstream EXCEPT ![d].read = read, ![d].write = write]
      BY <1>2 DEF ConfigureCapabilities
    <2>2. \A s \in Domains : [[s EXCEPT !.read = read] EXCEPT !.write = write] \in Domains
      BY DEF Domains
    <2>3. upstream' \in [DomainIds -> Domains]
      BY <1>1, <2>1, <2>2
    <2>4. QED BY <1>2, <2>3 DEF ConfigureCapabilities, people, history
  <1>3. ASSUME NEW d \in DomainIds, ReauthorizeDomain(d)
        PROVE  /\ upstream' \in [DomainIds -> Domains] /\ denied' \subseteq denied
               /\ UNCHANGED <<writer, now, probe, rate, recent>>
    <2>1. Unknown \in Domains
      BY DEF Unknown, Domains
    <2>2. QED BY <1>1, <1>3, <2>1 DEF ReauthorizeDomain, Reauthorize, people
  <1>4. ASSUME SetClock
        PROVE  now' \in Times \cup {0} /\ UNCHANGED <<upstream, denied, writer, probe, rate, recent>>
    BY <1>4 DEF SetClock, front, history
  <1>5. ASSUME JournalChanges
        PROVE  /\ writer # "none" /\ writer' \in AuditStates \ {"none"}
               /\ UNCHANGED <<upstream, denied, now, probe, rate, recent>>
    BY <1>5 DEF JournalChanges, people, history
  <1>6. QED BY <1>1, <1>2, <1>3, <1>4, <1>5 DEF Call

LEMMA FrontAround ==
  ASSUME FrontInv, Around
  PROVE  FrontInv'
  <1>1. phase = "serving" /\ UNCHANGED <<phase, config, bindings>>
    BY DEF Around
  <1>2. calls' \in 0..MaxCalls
    BY FrontAssumption DEF Around, FrontInv, RestOK
  <1>3. /\ upstream' \in [DomainIds -> Domains]
        /\ denied' \subseteq DomainIds
        /\ writer' = writer \/ (writer # "none" /\ writer' \in AuditStates \ {"none"})
        /\ now' \in Times \cup {0}
        /\ probe' = probe
        /\ rate' \in [age : 0..Window, count : Nat] /\ rate'.count = rate.count
        /\ recent' \in [0..(Window - 1) -> Nat]
    <2>1. CASE Call
      BY <2>1, CallUpstream DEF FrontInv, RestOK, RateOK
    <2>2. CASE Tick
      <3>1. UNCHANGED <<upstream, denied, writer, now, probe>>
        BY <2>2 DEF Tick, people
      <3>2. QED BY <1>1, <2>2, <3>1, TickOK DEF FrontInv, UpstreamOK, RestOK
    <2>3. QED BY <2>1, <2>2 DEF Around
  <1>4. SettingsOK' /\ StageOK'
    BY <1>1 DEF FrontInv, SettingsOK, StageOK
  <1>5. UpstreamOK' /\ RestOK'
    BY <1>1, <1>2, <1>3 DEF FrontInv, UpstreamOK, RestOK, DomainIds
  <1>6. WriterOK'
    BY <1>1, <1>3 DEF FrontInv, WriterOK
  <1>7. RateOK'
    BY <1>1, <1>3 DEF FrontInv, RateOK
  <1>8. QED BY <1>4, <1>5, <1>6, <1>7 DEF FrontInv

LEMMA FrontNext ==
  ASSUME FrontInv, [Next]_vars
  PROVE  FrontInv'
  <1>1. CASE Start
    BY <1>1, FrontStart
  <1>2. CASE StartFails
    BY <1>2, FrontStartFails
  <1>3. CASE Prepare
    BY <1>3, FrontPrepare
  <1>4. CASE Around
    BY <1>4, FrontAround
  <1>5. ASSUME NEW r \in Requests, Handle(r) PROVE FrontInv'
    BY <1>5, FrontHandle
  <1>6. CASE UNCHANGED vars
    <2>1. UNCHANGED <<phase, config, bindings, upstream, probe, rate, writer, now, calls,
                      denied, recent>>
      BY <1>6 DEF vars, front, people, history
    <2>2. SettingsOK' /\ StageOK' /\ UpstreamOK'
      BY <2>1 DEF FrontInv, SettingsOK, StageOK, UpstreamOK, DomainIds
    <2>3. WriterOK' /\ RateOK' /\ RestOK'
      BY <2>1 DEF FrontInv, WriterOK, RateOK, RestOK, DomainIds
    <2>4. QED BY <2>2, <2>3 DEF FrontInv
  <1>7. QED BY <1>1, <1>2, <1>3, <1>4, <1>5, <1>6 DEF Next

LEMMA FrontAlways == Spec => []FrontInv
  BY FrontInit, FrontNext, PTL DEF Spec

(* ServiceFront!TypeOK: what is known of the Spaces is kept for exactly the *)
(* domains of the accepted settings, and only theirs are ever refused.      *)
THEOREM FrontTypes == Spec => []TypeOK
  <1>1. FrontInv => TypeOK
    <2> SUFFICES ASSUME FrontInv PROVE TypeOK
      OBVIOUS
    <2>1. phase = "serving" => rate.count \in 0..(config.rate_limit + 1)
      <3>1. phase = "serving" => config.rate_limit \in Nat
        BY RunningSettings DEF FrontInv
      <3>2. QED BY <3>1 DEF FrontInv, RateOK
    <2>2. QED BY <2>1 DEF TypeOK, FrontInv, StageOK, UpstreamOK, Domains, WriterOK, RateOK, RestOK
  <1>2. QED BY <1>1, FrontAlways, PTL

(* ServiceFront!StartedSafely: whatever the layers of configuration, a      *)
(* service that serves listens on the loopback address, has a credential    *)
(* behind a TLS proxy, keeps a checkpoint for one domain only, and has the  *)
(* journal it requires.                                                     *)
THEOREM ServesSafely == Spec => []StartedSafely
  <1>1. FrontInv => StartedSafely
    <2> SUFFICES ASSUME FrontInv, phase = "serving" PROVE StartedSafely
      BY DEF StartedSafely
    <2>1. config \in Settings /\ Valid(config) /\ WellBound(bindings)
      BY RunningSettings DEF FrontInv
    <2>2. /\ config.listen = "loopback"
          /\ config.reverse_proxy_tls => config.auth \notin {"none", ""}
      BY <2>1 DEF Valid, ValidListener, ValidCredentials
    <2>3. config.sync_checkpoint # "none" => Cardinality(DomainIds) = 1
      <3>1. Cardinality(DOMAIN bindings) > 1 => config.sync_checkpoint = "none"
        BY <2>1 DEF Valid, FrontInv, StageOK
      <3>2. Cardinality(DOMAIN bindings) \in Nat /\ Cardinality(DOMAIN bindings) # 0
        BY <2>1, FS_CardinalityType, FS_EmptySet DEF WellBound
      <3>3. QED BY <3>1, <3>2 DEF DomainIds
    <2>4. config.audit_required => writer # "none"
      BY DEF FrontInv, WriterOK
    <2>5. QED BY <2>2, <2>3, <2>4 DEF StartedSafely
  <1>2. QED BY <1>1, FrontAlways, PTL

(* ServiceFront!RoutesUnambiguous: a path at or below a configured route is *)
(* sent to the domain that declares the route, for any accepted bindings.   *)
THEOREM RoutesLead == Spec => []RoutesUnambiguous
  <1>1. FrontInv => RoutesUnambiguous
    <2> SUFFICES ASSUME FrontInv, phase = "serving",
                        NEW d \in DomainIds, NEW r \in RoutesOf(bindings[d]), NEW q \in Requests,
                        NEW path \in {q.path, r.path}, Covers(r, path)
                 PROVE  ResolveRoute(bindings, path) = {[domain |-> d, route |-> r]}
      BY DEF RoutesUnambiguous
    <2>1. WellBound(bindings)
      BY RunningSettings DEF FrontInv
    <2>2. Segmented(q.path)
      BY RequestsTyped, SegmentedSeq
    <2>3. Segmented(r.path)
      BY <2>1 DEF WellBound, Served, DomainIds
    <2>4. QED BY <2>1, <2>2, <2>3, RoutedThere DEF DomainIds
  <1>2. QED BY <1>1, FrontAlways, PTL

-----------------------------------------------------------------------------
(* The rate window.  What was let through in the last ticks is all from the *)
(* current window when the window is older than that, and otherwise from it *)
(* and the one before.                                                      *)

Passed == IF rate.count > config.rate_limit THEN config.rate_limit ELSE rate.count

Before(i) == IF i < rate.age THEN 0 ELSE config.rate_limit

RateInv ==
  phase = "serving" => \A i \in 0..(Window - 1) : recent[i] <= Passed + Before(i)

LEMMA RateCounted ==
  ASSUME FrontInv, RateInv, phase = "serving", Counted, UNCHANGED <<phase, config>>
  PROVE  RateInv'
  <1>1. config.rate_limit \in Nat \ {0}
    BY RunningSettings DEF FrontInv
  <1>2. rate \in [age : 0..Window, count : Nat] /\ recent \in [0..(Window - 1) -> Nat]
        /\ rate.count <= config.rate_limit + 1
    BY DEF FrontInv, RateOK
  <1>3. SUFFICES ASSUME NEW i \in 0..(Window - 1)
                 PROVE  recent'[i] <= Passed' + Before(i)'
    BY DEF RateInv
  <1>4. recent[i] <= Passed + Before(i)
    BY DEF RateInv
  <1>5. recent'[i] = IF Throttled THEN recent[i] ELSE recent[i] + 1
    BY <1>2 DEF Counted
  <1>6. CASE rate.age >= Window
    <2>1. rate' = [age |-> 0, count |-> 1] /\ ~ Throttled
      BY <1>1, <1>6 DEF Counted, RateAfter, Throttled
    <2>2. Before(i) = 0 /\ Before(i)' = config.rate_limit /\ Passed' = 1
      BY <1>1, <1>2, <1>6, <2>1, FrontAssumption DEF Before, Passed
    <2>3. Passed <= config.rate_limit
      BY <1>1, <1>2 DEF Passed
    <2>4. QED BY <1>1, <1>2, <1>4, <1>5, <2>1, <2>2, <2>3 DEF Passed
  <1>7. CASE ~ (rate.age >= Window)
    <2>1. rate'.age = rate.age
          /\ rate'.count = IF rate.count > config.rate_limit THEN rate.count ELSE rate.count + 1
      BY <1>2, <1>7 DEF Counted, RateAfter
    <2>2. Throttled <=> rate'.count > config.rate_limit
      BY DEF Throttled, Counted
    <2>3. Before(i)' = Before(i) /\ Before(i) \in Nat
      BY <1>1, <2>1 DEF Before
    <2>4. CASE Throttled
      <3>1. Passed' = config.rate_limit /\ Passed <= config.rate_limit
        BY <1>1, <1>2, <2>1, <2>2, <2>4 DEF Passed
      <3>2. QED BY <1>1, <1>2, <1>4, <1>5, <2>3, <2>4, <3>1 DEF Passed
    <2>5. CASE ~ Throttled
      <3>1. Passed' = Passed + 1
        BY <1>1, <1>2, <2>1, <2>2, <2>5 DEF Passed
      <3>2. QED BY <1>1, <1>2, <1>4, <1>5, <2>3, <2>5, <3>1 DEF Passed
    <2>6. QED BY <2>4, <2>5
  <1>8. QED BY <1>6, <1>7

LEMMA RateTick ==
  ASSUME FrontInv, RateInv, phase = "serving", Tick, UNCHANGED <<phase, config>>
  PROVE  RateInv'
  <1>1. config.rate_limit \in Nat \ {0}
    BY RunningSettings DEF FrontInv
  <1>2. rate \in [age : 0..Window, count : Nat] /\ recent \in [0..(Window - 1) -> Nat]
    BY DEF FrontInv, RateOK
  <1>3. SUFFICES ASSUME NEW i \in 0..(Window - 1)
                 PROVE  recent'[i] <= Passed' + Before(i)'
    BY DEF RateInv
  <1>4. rate'.count = rate.count
        /\ rate'.age = IF rate.age < Window THEN rate.age + 1 ELSE rate.age
    BY <1>2 DEF Tick
  <1>5. Passed' = Passed /\ Passed \in Nat
    BY <1>1, <1>2, <1>4 DEF Passed
  <1>6. recent'[i] = IF i = 0 THEN 0 ELSE recent[i - 1]
    BY DEF Tick
  <1>7. Before(i)' \in Nat
    BY <1>1 DEF Before
  <1>8. CASE i = 0
    BY <1>5, <1>6, <1>7, <1>8
  <1>9. CASE i # 0
    <2>1. i - 1 \in 0..(Window - 1)
      BY <1>9, FrontAssumption
    <2>2. recent[i - 1] <= Passed + Before(i - 1)
      BY <2>1 DEF RateInv
    <2>3. Before(i)' = Before(i - 1)
      BY <1>2, <1>4, <1>9, FrontAssumption DEF Before
    <2>4. QED BY <1>5, <1>6, <1>9, <2>2, <2>3
  <1>10. QED BY <1>8, <1>9

LEMMA RateNext ==
  ASSUME FrontInv, RateInv, [Next]_vars
  PROVE  RateInv'
  <1>1. ASSUME UNCHANGED <<rate, recent>>, UNCHANGED <<phase, config>> PROVE RateInv'
    BY <1>1 DEF RateInv, Passed, Before
  <1>2. CASE Start \/ StartFails
    BY <1>2 DEF Start, StartFails, RateInv
  <1>3. CASE Prepare
    <2>1. phase = "built" /\ UNCHANGED <<config, rate, recent>>
      BY <1>3 DEF Prepare, front
    <2>2. config.rate_limit \in Nat
      BY <2>1, RunningSettings DEF FrontInv
    <2>3. rate.age \in Nat /\ rate.count = 0 /\ \A i \in 0..(Window - 1) : recent[i] = 0
      BY <2>1 DEF FrontInv, RateOK
    <2>4. QED BY <2>1, <2>2, <2>3 DEF RateInv, Passed, Before
  <1>4. CASE Around
    <2>1. phase = "serving" /\ UNCHANGED <<phase, config>>
      BY <1>4 DEF Around
    <2>2. Call \/ Tick
      BY <1>4 DEF Around
    <2>3. QED BY <1>1, <2>1, <2>2, CallUpstream, RateTick
  <1>5. ASSUME NEW r \in Requests, Handle(r) PROVE RateInv'
    <2>1. phase = "serving" /\ UNCHANGED <<phase, config>>
      BY <1>5 DEF Handle
    <2>2. Counted \/ UNCHANGED <<rate, recent>>
      BY <1>5 DEF Handle, Refuse, Throttle, Admin, Android, HealthPage, Unrouted, Primary,
             Suspended, Dispatch, front
    <2>3. QED BY <1>1, <2>1, <2>2, RateCounted
  <1>6. CASE UNCHANGED vars
    BY <1>1, <1>6 DEF vars, front, history
  <1>7. QED BY <1>2, <1>3, <1>4, <1>5, <1>6 DEF Next

(* ServiceFront!RateBound: wherever a window's length of ticks begins, at   *)
(* most twice the limit is let through, for any limit and length.           *)
THEOREM TwiceTheLimit == Spec => []RateBound
  <1>1. Init => RateInv
    BY DEF Init, RateInv
  <1>2. FrontInv /\ RateInv => RateBound
    <2> SUFFICES ASSUME FrontInv, RateInv, phase = "serving" PROVE RateBound
      BY DEF RateBound
    <2>1. config.rate_limit \in Nat \ {0}
      BY RunningSettings DEF FrontInv
    <2>2. rate.count \in Nat /\ recent \in [0..(Window - 1) -> Nat]
      BY DEF FrontInv, RateOK
    <2>3. Window - 1 \in 0..(Window - 1)
      BY FrontAssumption
    <2>4. recent[Window - 1] <= Passed + Before(Window - 1)
      BY <2>3 DEF RateInv
    <2>5. Passed \in 0..config.rate_limit /\ Before(Window - 1) \in 0..config.rate_limit
      BY <2>1, <2>2 DEF Passed, Before
    <2>6. recent[Window - 1] \in Nat
      BY <2>2, <2>3
    <2>7. QED BY <2>1, <2>4, <2>5, <2>6 DEF RateBound
  <1>3. QED BY <1>1, <1>2, FrontAlways, RateNext, PTL DEF Spec

-----------------------------------------------------------------------------
(* Suspension.                                                              *)

(* A domain whose refusal was told is suspended.                            *)
DeniedInv == \A d \in denied : upstream[d].suspension \in {"auth", "forbidden"}

LEMMA SuspendedStays ==
  ASSUME FrontInv, DeniedInv, NEW d \in DomainIds, NEW e \in denied,
         ConfigureCapabilities(d) \/ (ReauthorizeDomain(d) /\ e \in denied')
  PROVE  upstream'[e].suspension \in {"auth", "forbidden"}
  <1>1. e \in DomainIds /\ upstream \in [DomainIds -> Domains]
        /\ upstream[e].suspension \in {"auth", "forbidden"}
    BY DEF FrontInv, RestOK, UpstreamOK, DeniedInv
  <1>2. CASE ConfigureCapabilities(d)
    <2>1. PICK read \in {"allowed", "denied"}, write \in {"allowed", "denied"} :
            upstream' = [upstream EXCEPT ![d].read = read, ![d].write = write]
      BY <1>2 DEF ConfigureCapabilities
    <2>2. \A s \in Domains :
            [[s EXCEPT !.read = read] EXCEPT !.write = write].suspension = s.suspension
      BY DEF Domains
    <2>3. QED BY <1>1, <2>1, <2>2
  <1>3. CASE ReauthorizeDomain(d) /\ e \in denied'
    <2>1. PICK claimed \in DomainIds :
            /\ Reauthorize(d, claimed)
            /\ denied' = IF bindings[claimed].space = bindings[d].space
                         THEN denied \ {d} ELSE denied
      BY <1>3 DEF ReauthorizeDomain
    <2>2. CASE bindings[claimed].space = bindings[d].space
      BY <1>1, <1>3, <2>1, <2>2 DEF Reauthorize
    <2>3. CASE bindings[claimed].space # bindings[d].space
      BY <1>1, <2>1, <2>3 DEF Reauthorize
    <2>4. QED BY <2>2, <2>3
  <1>4. QED BY <1>2, <1>3

LEMMA SuspendedBy ==
  ASSUME NEW state \in Domains, NEW operation \in Operations, NEW status
  PROVE  /\ status \in {401, 403} =>
              Observed(state, operation, status).suspension \in {"auth", "forbidden"}
         /\ state.suspension \in {"auth", "forbidden"} =>
              Observed(state, operation, status).suspension \in {"auth", "forbidden"}
  <1>1. /\ [state EXCEPT !.suspension = "auth"].suspension = "auth"
        /\ [state EXCEPT !.suspension = "forbidden"].suspension = "forbidden"
        /\ [state EXCEPT ![operation] = "allowed"].suspension = state.suspension
    BY DEF Domains, Operations
  <1>2. QED BY <1>1 DEF Observed

LEMMA DispatchSuspends ==
  ASSUME FrontInv, DeniedInv, phase = "serving", NEW r \in Requests, Dispatch(r),
         NEW e \in denied'
  PROVE  upstream'[e].suspension \in {"auth", "forbidden"}
  <1>1. upstream \in [DomainIds -> Domains] /\ denied \subseteq DomainIds
    BY DEF FrontInv, RestOK, UpstreamOK
  <1>2. OnlyDomain(r) \in DomainIds /\ RoutedTo(r) = {OnlyDomain(r)}
    BY RoutedRequest DEF Dispatch
  <1>3. PICK dav \in DavStatuses(r) :
          /\ upstream' = [upstream EXCEPT ![OnlyDomain(r)] = Observed(@, OperationOf(r), dav)]
          /\ denied' = IF dav \in {401, 403} THEN denied \cup RoutedTo(r) ELSE denied
    BY DEF Dispatch
  <1>4. CASE e = OnlyDomain(r)
    <2>1. dav \in {401, 403} \/ e \in denied
      BY <1>2, <1>3
    <2>2. upstream'[e] = Observed(upstream[e], OperationOf(r), dav)
      BY <1>1, <1>2, <1>3, <1>4
    <2>3. upstream[e] \in Domains
      BY <1>1, <1>2, <1>4
    <2>4. e \in denied => upstream[e].suspension \in {"auth", "forbidden"}
      BY DEF DeniedInv
    <2>5. QED BY <2>1, <2>2, <2>3, <2>4, SuspendedBy, OperationKnown
  <1>5. CASE e # OnlyDomain(r)
    <2>1. e \in denied
      BY <1>2, <1>3, <1>5
    <2>2. QED BY <1>1, <1>3, <1>5, <2>1 DEF DeniedInv
  <1>6. QED BY <1>4, <1>5

LEMMA DeniedNext ==
  ASSUME FrontInv, DeniedInv, [Next]_vars
  PROVE  DeniedInv'
  <1>1. ASSUME UNCHANGED <<upstream, denied>> PROVE DeniedInv'
    BY <1>1 DEF DeniedInv
  <1>2. CASE Start
    BY <1>2 DEF Start, history, FrontInv, StageOK, DeniedInv
  <1>3. CASE StartFails \/ Prepare \/ UNCHANGED vars
    BY <1>1, <1>3 DEF StartFails, Prepare, vars, front, history
  <1>4. CASE Around
    <2>1. ASSUME NEW d \in DomainIds, ConfigureCapabilities(d) PROVE DeniedInv'
      <3>1. denied' = denied
        BY <2>1 DEF ConfigureCapabilities, history
      <3>2. QED BY <2>1, <3>1, SuspendedStays DEF DeniedInv
    <2>2. ASSUME NEW d \in DomainIds, ReauthorizeDomain(d) PROVE DeniedInv'
      <3>1. denied' \subseteq denied
        BY <2>2 DEF ReauthorizeDomain
      <3>2. QED BY <2>2, <3>1, SuspendedStays DEF DeniedInv
    <2>3. CASE SetClock \/ JournalChanges \/ Tick
      BY <1>1, <2>3 DEF SetClock, JournalChanges, Tick, front, history
    <2>4. QED BY <1>4, <2>1, <2>2, <2>3 DEF Around, Call
  <1>5. ASSUME NEW r \in Requests, Handle(r) PROVE DeniedInv'
    <2>1. phase = "serving"
      BY <1>5 DEF Handle
    <2>2. Dispatch(r) \/ UNCHANGED <<upstream, denied>>
      BY <1>5 DEF Handle, Refuse, Throttle, Admin, Android, HealthPage, Unrouted, Primary,
             Suspended, front
    <2>3. QED BY <1>1, <2>1, <2>2, DispatchSuspends DEF DeniedInv
  <1>6. QED BY <1>2, <1>3, <1>4, <1>5 DEF Next

LEMMA DeniedAlways == Spec => []DeniedInv
  <1>1. Init => DeniedInv
    BY DEF Init, DeniedInv
  <1>2. QED BY <1>1, FrontAlways, DeniedNext, PTL DEF Spec

(* ServiceFront!DeniedNotContacted: once a DAV request routed to a domain   *)
(* was answered 401 or 403 by its Space, no request routed to the domain is *)
(* passed on before this domain is authorized again.  It says nothing of    *)
(* the homes, the Android bridge and /ready, which do not look.             *)
THEOREM RefusalsAreKept == Spec => DeniedNotContacted
  <1>1. ASSUME FrontInv, DeniedInv
        PROVE  \A d \in denied : \A r \in {q \in Requests : d \in RoutedTo(q)} : ~ Dispatch(r)
    <2> SUFFICES ASSUME NEW d \in denied, NEW r \in Requests, d \in RoutedTo(r), Dispatch(r)
                 PROVE  FALSE
      OBVIOUS
    <2>1. phase \in {"built", "serving"}
      BY <1>1 DEF FrontInv, StageOK
    <2>2. d = OnlyDomain(r)
      BY <1>1, <2>1, RoutedRequest
    <2>3. upstream[d].suspension \in {"auth", "forbidden"}
      BY <1>1 DEF DeniedInv
    <2>4. Preflight(d, OperationOf(r)) # 0
      BY <2>3 DEF Preflight
    <2>5. QED BY <2>2, <2>4 DEF Dispatch
  <1>2. QED BY <1>1, FrontAlways, DeniedAlways, PTL DEF DeniedNotContacted

-----------------------------------------------------------------------------
(* Identities.  A store holds the credentials of the first ledger, of which *)
(* the ones revoked so far are marked.                                      *)

Issued == InitialLedger.credentials

(* What add_credential does not insist on: a token belongs to one           *)
(* credential.                                                              *)
DistinctTokens == \A i, j \in DOMAIN Issued : Issued[i].token = Issued[j].token => i = j

Holds(store, without) ==
  /\ DOMAIN store = {"credentials", "policy"}
  /\ store.credentials \in [DOMAIN Issued -> Credentials]
  /\ \A i \in DOMAIN Issued :
       /\ store.credentials[i].token = Issued[i].token
       /\ i \in without => store.credentials[i].revoked = TRUE

HoldsOnDisk(snapshot, without) ==
  /\ {c.id : c \in snapshot.credentials} = DOMAIN Issued
  /\ \A c \in snapshot.credentials :
       /\ c.spec \in Credentials /\ c.spec.token = Issued[c.id].token
       /\ c.id \in without => c.spec.revoked = TRUE

RevokedInv ==
  /\ revoked \in [ledger : SUBSET Revocable, saved : SUBSET Revocable,
                  attached : SUBSET Revocable]
  /\ Holds(ledger, revoked.ledger)
  /\ HoldsOnDisk(saved, revoked.saved) /\ revoked.saved \subseteq revoked.ledger
  /\ (identity = NoIdentity /\ revoked.attached = {}) \/ Holds(identity, revoked.attached)

LEMMA SnapshotOf ==
  ASSUME NEW store, NEW without, NEW less, less \subseteq without, Holds(store, without)
  PROVE  HoldsOnDisk(FromStore(store), less)
  <1> DEFINE listed == {[spec |-> store.credentials[i], id |-> i] : i \in DOMAIN store.credentials}
  <1>1. FromStore(store).credentials = listed
    BY DEF FromStore
  <1>2. DOMAIN store.credentials = DOMAIN Issued
    BY DEF Holds
  <1>3. {c.id : c \in listed} = DOMAIN Issued
    <2>1. ASSUME NEW i \in DOMAIN Issued PROVE \E c \in listed : c.id = i
      <3>1. [spec |-> store.credentials[i], id |-> i] \in listed
        BY <1>2
      <3>2. [spec |-> store.credentials[i], id |-> i].id = i
        OBVIOUS
      <3> HIDE DEF listed
      <3>3. QED BY <3>1, <3>2
    <2>2. ASSUME NEW c \in listed PROVE c.id \in DOMAIN Issued
      BY <1>2
    <2> HIDE DEF listed
    <2>3. QED BY <2>1, <2>2
  <1>4. ASSUME NEW c \in listed
        PROVE  /\ c.spec \in Credentials /\ c.spec.token = Issued[c.id].token
               /\ c.id \in less => c.spec.revoked = TRUE
    <2>1. PICK i \in DOMAIN Issued : c = [spec |-> store.credentials[i], id |-> i]
      BY <1>2
    <2>2. QED BY <2>1 DEF Holds
  <1> HIDE DEF listed
  <1>5. QED BY <1>1, <1>3, <1>4 DEF HoldsOnDisk

LEMMA StoreOf ==
  ASSUME NEW snapshot, NEW without, HoldsOnDisk(snapshot, without)
  PROVE  Holds(IntoStore(snapshot), without)
  <1> DEFINE chosen(i) == CHOOSE c \in snapshot.credentials : c.id = i
             store == IntoStore(snapshot)
  <1>1. DOMAIN store = {"credentials", "policy"}
    BY DEF IntoStore
  <1>2. store.credentials = [i \in DOMAIN Issued |-> chosen(i).spec]
    BY DEF IntoStore, HoldsOnDisk
  <1>3. ASSUME NEW i \in DOMAIN Issued
        PROVE  chosen(i) \in snapshot.credentials /\ chosen(i).id = i
    <2>1. \E c \in snapshot.credentials : c.id = i
      BY DEF HoldsOnDisk
    <2>2. QED BY <2>1
  <1> HIDE DEF chosen, store
  <1>4. ASSUME NEW i \in DOMAIN Issued
        PROVE  /\ store.credentials[i] \in Credentials
               /\ store.credentials[i].token = Issued[i].token
               /\ i \in without => store.credentials[i].revoked = TRUE
    BY <1>2, <1>3 DEF HoldsOnDisk
  <1>5. store.credentials \in [DOMAIN Issued -> Credentials]
    BY <1>2, <1>4
  <1>6. QED BY <1>1, <1>4, <1>5 DEF Holds, store

LEMMA RevokedFrom ==
  ASSUME NEW store, NEW without, Holds(store, without), NEW id \in Revocable
  PROVE  Holds(RevokeCredential(store, id), without \cup {id})
  <1> DEFINE marked == [store.credentials EXCEPT ![id].revoked = TRUE]
             after == RevokeCredential(store, id)
  <1>1. id \in DOMAIN Issued /\ DOMAIN store.credentials = DOMAIN Issued
    BY LedgerTyped DEF Holds, Issued
  <1>2. DOMAIN after = {"credentials", "policy"} /\ after.credentials = marked
    BY <1>1 DEF RevokeCredential, Holds
  <1>3. ASSUME NEW c \in Credentials
        PROVE  /\ [c EXCEPT !.revoked = TRUE] \in Credentials
               /\ [c EXCEPT !.revoked = TRUE].token = c.token
               /\ [c EXCEPT !.revoked = TRUE].revoked = TRUE
    BY DEF Credentials
  <1>4. /\ marked \in [DOMAIN Issued -> Credentials]
        /\ marked[id] = [store.credentials[id] EXCEPT !.revoked = TRUE]
        /\ \A i \in DOMAIN Issued \ {id} : marked[i] = store.credentials[i]
    BY <1>1, <1>3 DEF Holds
  <1>5. store.credentials[id] \in Credentials
    BY <1>1 DEF Holds
  <1> HIDE DEF marked, after
  <1>6. ASSUME NEW i \in DOMAIN Issued
        PROVE  /\ marked[i].token = Issued[i].token
               /\ i \in without \cup {id} => marked[i].revoked = TRUE
    <2>1. CASE i = id
      BY <1>3, <1>4, <1>5, <2>1 DEF Holds
    <2>2. CASE i # id
      BY <1>4, <2>2 DEF Holds
    <2>3. QED BY <2>1, <2>2
  <1>7. QED BY <1>2, <1>4, <1>6 DEF Holds, after

LEMMA RevokedInit == Init => RevokedInv
  <1> SUFFICES ASSUME Init PROVE RevokedInv
    OBVIOUS
  <1>1. Holds(InitialLedger, {})
    BY LedgerTyped DEF Holds, Issued
  <1>2. HoldsOnDisk(saved, {})
    BY <1>1, SnapshotOf DEF Init
  <1>3. QED BY <1>1, <1>2 DEF Init, RevokedInv

LEMMA RevokedPrepare ==
  ASSUME RevokedInv, Prepare
  PROVE  RevokedInv'
  <1>1. ASSUME NEW id \in Revocable, Revoke(id) PROVE RevokedInv'
    <2>1. revoked' = [revoked EXCEPT !.ledger = @ \cup {id}]
          /\ ledger' = RevokeCredential(ledger, id) /\ UNCHANGED <<identity, saved>>
      BY <1>1 DEF Revoke
    <2>2. Holds(ledger', revoked.ledger \cup {id})
      BY <2>1, RevokedFrom DEF RevokedInv
    <2>3. QED BY <2>1, <2>2 DEF RevokedInv
  <1>2. CASE SaveLedger
    <2>1. /\ saved' = FromStore(ledger) /\ UNCHANGED <<identity, ledger>>
          /\ revoked' \in {[revoked EXCEPT !.saved = revoked.ledger], revoked}
      BY <1>2 DEF SaveLedger
    <2>2. revoked'.saved \subseteq revoked.ledger /\ revoked'.ledger = revoked.ledger
          /\ revoked'.attached = revoked.attached
          /\ revoked' \in [ledger : SUBSET Revocable, saved : SUBSET Revocable,
                           attached : SUBSET Revocable]
      BY <2>1 DEF RevokedInv
    <2>3. HoldsOnDisk(saved', revoked'.saved)
      BY <2>1, <2>2, SnapshotOf DEF RevokedInv
    <2>4. QED BY <2>1, <2>2, <2>3 DEF RevokedInv
  <1>3. CASE AttachIdentity
    <2>1. /\ identity' = IntoStore(saved) /\ UNCHANGED <<ledger, saved>>
          /\ revoked' = [revoked EXCEPT !.attached = revoked.saved]
      BY <1>3 DEF AttachIdentity
    <2>2. Holds(identity', revoked.saved)
      BY <2>1, StoreOf DEF RevokedInv
    <2>3. QED BY <2>1, <2>2 DEF RevokedInv
  <1>4. CASE UNCHANGED <<people, revoked>>
    BY <1>4 DEF people, RevokedInv
  <1>5. QED BY <1>1, <1>2, <1>3, <1>4 DEF Prepare

LEMMA RevokedNext ==
  ASSUME RevokedInv, [Next]_vars
  PROVE  RevokedInv'
  <1>1. ASSUME UNCHANGED <<identity, ledger, saved, revoked>> PROVE RevokedInv'
    BY <1>1 DEF RevokedInv
  <1>2. CASE Start \/ StartFails \/ UNCHANGED vars
    BY <1>1, <1>2 DEF Start, StartFails, vars, people, history
  <1>3. CASE Prepare
    BY <1>3, RevokedPrepare
  <1>4. CASE Around
    BY <1>1, <1>4 DEF Around, Call, ConfigureCapabilities, ReauthorizeDomain, SetClock,
           JournalChanges, Tick, people, history
  <1>5. ASSUME NEW r \in Requests, Handle(r) PROVE RevokedInv'
    BY <1>1, <1>5 DEF Handle, Refuse, Throttle, Admin, Android, HealthPage, Unrouted, Primary,
           Suspended, Dispatch, people
  <1>6. QED BY <1>2, <1>3, <1>4, <1>5 DEF Next

LEMMA RevokedAlways == Spec => []RevokedInv
  BY RevokedInit, RevokedNext, PTL DEF Spec

LEMMA LeastOfOne ==
  ASSUME NEW n \in Nat
  PROVE  Min({n}) = n
  <1>1. n <= n
    OBVIOUS
  <1>2. \E x \in {n} : \A y \in {n} : x <= y
    BY <1>1
  <1>3. Min({n}) \in {n}
    BY <1>2, Zenon DEF Min
  <1>4. QED BY <1>3

(* A token of a store finds the one credential it was issued with.          *)
LEMMA OneCredential ==
  ASSUME DistinctTokens, NEW store, NEW without, Holds(store, without),
         NEW i \in DOMAIN Issued, Issued[i].token # ""
  PROVE  /\ Matching(store, Issued[i].token) = {i}
         /\ Min(Matching(store, Issued[i].token)) = i
  <1>1. Matching(store, Issued[i].token) = {i}
    BY DEF Matching, Holds, DistinctTokens
  <1>2. i \in Nat
    BY LedgerTyped DEF Issued
  <1>3. Min({i}) = i
    BY <1>2, LeastOfOne
  <1>4. QED BY <1>1, <1>3

(* ServiceFront!RevokedStaysOut: a credential revoked before the snapshot   *)
(* that is attached was written authenticates nobody, at any time, whatever *)
(* failed in between.                                                       *)
THEOREM RevokedForGood ==
  ASSUME DistinctTokens
  PROVE  Spec => []RevokedStaysOut
  <1>1. ASSUME RevokedInv PROVE RevokedStaysOut
    <2> SUFFICES ASSUME NEW id \in revoked.attached
                 PROVE  ~ Authenticated(identity, Issued[id].token, now)
      BY DEF RevokedStaysOut, Issued
    <2>1. Holds(identity, revoked.attached) /\ id \in DOMAIN Issued
      BY <1>1, LedgerTyped DEF RevokedInv, Issued
    <2>2. CASE Issued[id].token = ""
      BY <2>2 DEF Authenticated, Authenticate, Matching
    <2>3. CASE Issued[id].token # ""
      <3>1. Matching(identity, Issued[id].token) = {id}
            /\ Min(Matching(identity, Issued[id].token)) = id
        BY <2>1, <2>3, OneCredential
      <3>2. identity.credentials[id].revoked = TRUE
        BY <2>1 DEF Holds
      <3>3. Outcome(identity.credentials[id], now) # "authenticated"
        BY <3>2 DEF Outcome
      <3>4. QED BY <3>1, <3>3 DEF Authenticated, Authenticate
    <2>4. QED BY <2>2, <2>3
  <1>2. QED BY <1>1, RevokedAlways, PTL

-----------------------------------------------------------------------------
(* Authorization of a routed request.                                       *)

LEMMA RoutedPath ==
  ASSUME NEW route, Served(route), NEW path, Segmented(path), Covers(route, path)
  PROVE  /\ path \notin PublicPaths /\ path \notin HealthPaths /\ path \notin HomePaths
         /\ path # AndroidPath
  <1>1. Len(path) >= 2 /\ path[1] \in {"carddav", "caldav"} /\ path[2] # ""
    BY CoversBelow DEF Served, OneSegmentBelow
  <1>2. path \notin PublicPaths
    <2>1. /\ <<"">>[1] = "" /\ <<"principals", "users", "default">>[1] = "principals"
          /\ <<".well-known", "caldav">>[1] = ".well-known"
          /\ <<".well-known", "carddav">>[1] = ".well-known"
      OBVIOUS
    <2>2. \A p \in PublicPaths : \/ p = <<"">> \/ p = <<"principals", "users", "default">>
                                 \/ p = <<".well-known", "caldav">>
                                 \/ p = <<".well-known", "carddav">>
      BY DEF PublicPaths
    <2>3. QED BY <1>1, <2>1, <2>2
  <1>3. path \notin HealthPaths
    <2>1. \A p \in HealthPaths : p[1] \in {"health", "status", "ready"}
      BY DEF HealthPaths
    <2>2. QED BY <1>1, <2>1
  <1>4. path \notin HomePaths
    <2>1. <<"carddav", "">>[2] = "" /\ <<"caldav", "">>[2] = ""
      OBVIOUS
    <2>2. \A p \in HomePaths : p = <<"carddav", "">> \/ p = <<"caldav", "">>
      BY DEF HomePaths
    <2>3. QED BY <1>1, <2>1, <2>2
  <1>5. path # AndroidPath
    <2>1. AndroidPath[1] = "android"
      BY DEF AndroidPath
    <2>2. QED BY <1>1, <2>1
  <1>6. QED BY <1>2, <1>3, <1>4, <1>5

ScopeOn(d, route, request) ==
  [domain |-> d, kind |-> route.collection, resource |-> ResourceBelow(route, request.path),
   operation |-> OperationOf(request)]

LEMMA ScopeFound ==
  ASSUME NEW request, Segmented(request.path), WellBound(bindings),
         NEW d \in DOMAIN bindings, NEW route \in RoutesOf(bindings[d]),
         Covers(route, request.path)
  PROVE  /\ RequestScope(bindings, request) = ScopeOn(d, route, request)
         /\ RequestScope(bindings, request) # NoRequestScope
  <1> DEFINE found == [domain |-> d, route |-> route]
  <1>1. ResolveRoute(bindings, request.path) = {found}
    BY RoutedThere
  <1>2. request.path \notin HomePaths
    BY RoutedPath DEF WellBound
  <1>3. found.domain = d /\ found.route = route
    OBVIOUS
  <1> HIDE DEF found
  <1>4. (CHOOSE f \in ResolveRoute(bindings, request.path) : TRUE) = found
    BY <1>1
  <1>5. RequestScope(bindings, request) = ScopeOn(d, route, request)
    BY <1>1, <1>2, <1>3, <1>4 DEF RequestScope, ScopeOn
  <1>6. ScopeOn(d, route, request).domain = d /\ NoRequestScope.domain = 0 /\ d # 0
    BY DEF ScopeOn, NoRequestScope, WellBound
  <1>7. QED BY <1>5, <1>6

LEMMA StatusFound ==
  ASSUME NEW request, Segmented(request.path), WellBound(bindings),
         NEW d \in DOMAIN bindings, NEW route \in RoutesOf(bindings[d]),
         Covers(route, request.path), identity # NoIdentity
  PROVE  ~ Refused(request)
           <=> /\ Authenticated(identity, Supplied(request), now)
               /\ ScopeStatus(identity, now, Supplied(request), ScopeOn(d, route, request)) = 0
  <1>1. /\ request.path \notin PublicPaths /\ request.path \notin HealthPaths
        /\ request.path \notin HomePaths /\ request.path # AndroidPath
    BY RoutedPath DEF WellBound
  <1>2. /\ RequestScope(bindings, request) = ScopeOn(d, route, request)
        /\ RequestScope(bindings, request) # NoRequestScope
    BY ScopeFound
  <1>3. AuthorizationStatus(config, bindings, identity, now, request)
          = IdentityStatus(bindings, identity, now, request)
    BY <1>1 DEF AuthorizationStatus
  <1>4. CASE ~ Authenticated(identity, Supplied(request), now)
    <2>1. IdentityStatus(bindings, identity, now, request) = 401
      BY <1>1, <1>2, <1>4 DEF IdentityStatus
    <2>2. QED BY <1>3, <1>4, <2>1 DEF Refused
  <1>5. CASE Authenticated(identity, Supplied(request), now)
    <2>1. IdentityStatus(bindings, identity, now, request)
            = ScopeStatus(identity, now, Supplied(request), ScopeOn(d, route, request))
      BY <1>1, <1>2, <1>5 DEF IdentityStatus
    <2>2. QED BY <1>3, <1>5, <2>1 DEF Refused
  <1>6. QED BY <1>4, <1>5

LEMMA OptionsAgree ==
  ASSUME FrontInv, phase = "serving", NEW r \in Requests, Dispatch(r),
         NEW put, put = [r EXCEPT !.method = "PUT"]
  PROVE  /\ OptionsWriteAllowed(bindings, identity, now, r) <=> ~ Refused(put)
         /\ OnlyDomain(put) = OnlyDomain(r)
  <1>1. put.method = "PUT" /\ put.path = r.path /\ put.auth = r.auth
    BY RequestsTyped
  <1>2. OnlyDomain(put) = OnlyDomain(r) /\ Supplied(put) = Supplied(r)
    BY <1>1 DEF OnlyDomain, RoutedTo, Supplied
  <1>3. PICK d \in DOMAIN bindings, route \in RoutesOf(bindings[OnlyDomain(r)]) :
          d = OnlyDomain(r) /\ Covers(route, r.path)
    BY RoutedRequest DEF Dispatch, DomainIds
  <1>4. route \in RoutesOf(bindings[d])
    BY <1>3
  <1>5. WellBound(bindings) /\ Segmented(r.path)
    BY RunningSettings, RequestsTyped, SegmentedSeq DEF FrontInv
  <1>6. ~ Refused(r) /\ IsDav(r)
    BY DEF Dispatch, Passes
  <1>7. CASE identity = NoIdentity
    <2>1. OptionsWriteAllowed(bindings, identity, now, r)
      BY <1>7 DEF OptionsWriteAllowed
    <2>2. r.path # AndroidPath
      BY <1>6 DEF IsDav
    <2>3. Authorized(config, r) = Authorized(config, put)
      BY <1>1, <1>2 DEF Authorized, AuthorizedBy
    <2>4. AuthorizationStatus(config, bindings, identity, now, r)
            = IF Authorized(config, r) THEN 0 ELSE 401
      BY <1>7, <2>2 DEF AuthorizationStatus
    <2>5. AuthorizationStatus(config, bindings, identity, now, put)
            = IF Authorized(config, put) THEN 0 ELSE 401
      BY <1>1, <1>7, <2>2 DEF AuthorizationStatus
    <2>6. ~ Refused(put)
      BY <1>6, <2>3, <2>4, <2>5 DEF Refused
    <2>7. QED BY <1>2, <2>1, <2>6
  <1>8. CASE identity # NoIdentity
    <2>1. Authenticated(identity, Supplied(r), now)
      BY <1>3, <1>4, <1>5, <1>6, <1>8, StatusFound
    <2>2. RequestScope(bindings, r) = ScopeOn(d, route, r)
          /\ RequestScope(bindings, r) # NoRequestScope
      BY <1>3, <1>4, <1>5, ScopeFound
    <2>3. [ScopeOn(d, route, r) EXCEPT !.operation = "write"] = ScopeOn(d, route, put)
      BY <1>1 DEF ScopeOn, OperationOf
    <2>4. OptionsWriteAllowed(bindings, identity, now, r)
            <=> ScopeStatus(identity, now, Supplied(r), ScopeOn(d, route, put)) = 0
      BY <1>8, <2>1, <2>2, <2>3 DEF OptionsWriteAllowed
    <2>5. ~ Refused(put)
            <=> /\ Authenticated(identity, Supplied(put), now)
                /\ ScopeStatus(identity, now, Supplied(put), ScopeOn(d, route, put)) = 0
      BY <1>1, <1>3, <1>4, <1>5, <1>8, StatusFound
    <2>6. QED BY <1>2, <2>1, <2>4, <2>5
  <1>9. QED BY <1>7, <1>8

(* ServiceFront!OptionsTruthful: what OPTIONS offers is what the client's   *)
(* PUT would meet, for every policy, credential and time.                   *)
THEOREM OptionsTellTheTruth == Spec => OptionsTruthful
  <1>1. ASSUME FrontInv, phase = "serving", NEW r \in Requests, r.method = "OPTIONS",
               Dispatch(r), NEW put, put = [r EXCEPT !.method = "PUT"]
        PROVE  answer'.writes <=> ~ Refused(put) /\ Preflight(OnlyDomain(put), "write") = 0
    <2>1. answer'.writes = (r.method = "OPTIONS" /\ OffersWrites(r))
      BY <1>1 DEF Dispatch
    <2>2. OffersWrites(r) <=> ~ Refused(put) /\ Preflight(OnlyDomain(put), "write") = 0
      BY <1>1, OptionsAgree DEF OffersWrites
    <2>3. QED BY <1>1, <2>1, <2>2
  <1>2. FrontInv => \A r \in {q \in Requests : q.method = "OPTIONS"} :
                      phase = "serving" /\ Dispatch(r) =>
                        LET put == [r EXCEPT !.method = "PUT"]
                        IN answer'.writes
                             <=> ~ Refused(put) /\ Preflight(OnlyDomain(put), "write") = 0
    BY <1>1
  <1>3. QED BY <1>2, FrontAlways, PTL DEF OptionsTruthful

-----------------------------------------------------------------------------
(* Capabilities.                                                            *)

(* What the policy and the credential give the holder of a token.           *)
LEMMA Declared ==
  ASSUME DistinctTokens, RevokedInv, identity # NoIdentity,
         NEW token, Authenticated(identity, token, now)
  PROVE  \E i \in DOMAIN Issued :
           /\ Matching(identity, token) = {i} /\ Min(Matching(identity, token)) = i
           /\ Authenticate(identity, token, now).principal = identity.credentials[i].principal
  <1>1. Holds(identity, revoked.attached)
    BY DEF RevokedInv
  <1>2. Matching(identity, token) # {}
    <2>1. SUFFICES ASSUME Matching(identity, token) = {} PROVE FALSE
      OBVIOUS
    <2>2. Authenticate(identity, token, now).outcome = "invalid"
      BY <2>1 DEF Authenticate
    <2>3. QED BY <2>2 DEF Authenticated
  <1>3. PICK i \in DOMAIN Issued : Issued[i].token = token /\ token # ""
    BY <1>1, <1>2 DEF Matching, Holds
  <1>4. Matching(identity, token) = {i} /\ Min(Matching(identity, token)) = i
    <2>1. /\ Matching(identity, Issued[i].token) = {i}
          /\ Min(Matching(identity, Issued[i].token)) = i
      BY <1>1, <1>3, OneCredential
    <2>2. QED BY <1>3, <2>1
  <1>5. Authenticate(identity, token, now).principal = identity.credentials[i].principal
    BY <1>4 DEF Authenticate
  <1>6. QED BY <1>4, <1>5

LEMMA ReportIsDecision ==
  ASSUME DistinctTokens, RevokedInv, identity # NoIdentity,
         NEW token, Authenticated(identity, token, now),
         NEW d, NEW operation \in Operations, NEW kind \in Kinds
  PROVE  <<operation, kind>> \in CapabilitiesFor(identity, token, now, d)
           <=> /\ AuthorizeDomain(identity.policy, Authenticate(identity, token, now).principal,
                                  d, kind, <<>>, operation) = "allowed"
               /\ CredentialAllows(identity, token, now, <<operation, kind>>)
  <1> DEFINE principal == Authenticate(identity, token, now).principal
             capability == <<operation, kind>>
  <1>1. PICK i \in DOMAIN Issued :
          /\ Matching(identity, token) = {i} /\ Min(Matching(identity, token)) = i
          /\ principal = identity.credentials[i].principal
    BY Declared
  <1> DEFINE declared == identity.credentials[i].capabilities
             policy == PolicyCapabilities(identity.policy, principal, d)
  <1>2. {j \in Matching(identity, token) : identity.credentials[j].principal = principal} = {i}
    BY <1>1
  <1>3. CapabilitiesFor(identity, token, now, d)
          = IF declared = {} THEN policy ELSE policy \cap declared
    BY <1>1, <1>2 DEF CapabilitiesFor
  <1>4. capability \in policy
          <=> AuthorizeDomain(identity.policy, principal, d, kind, <<>>, operation) = "allowed"
    <2>1. capability \in Capabilities /\ capability[1] = operation /\ capability[2] = kind
      BY DEF Capabilities
    <2> HIDE DEF capability
    <2>2. QED BY <2>1 DEF PolicyCapabilities
  <1>5. CredentialAllows(identity, token, now, capability)
          <=> declared = {} \/ capability \in declared
    BY <1>1 DEF CredentialAllows
  <1> HIDE DEF declared, policy, capability, principal
  <1>6. QED BY <1>3, <1>4, <1>5 DEF capability, principal

LEMMA NothingBelow ==
  ASSUME NEW route, Served(route)
  PROVE  ResourceBelow(route, route.path) = <<>>
  <1>1. Len(route.path) = 2
    BY DEF Served, OneSegmentBelow
  <1>2. SubSeq(route.path, 3, 2) = <<>>
    BY <1>1 DEF Served, Segmented
  <1>3. SubSeq(route.path, Len(route.path) + 1, Len(route.path)) = <<>>
    BY <1>1, <1>2
  <1>4. <<"">> # <<>>
    OBVIOUS
  <1>5. QED BY <1>3, <1>4 DEF ResourceBelow

LEMMA ScopeDecision ==
  ASSUME NEW token, NEW scope
  PROVE  ScopeStatus(identity, now, token, scope) = 0
           <=> /\ AuthorizeDomain(identity.policy, Authenticate(identity, token, now).principal,
                                  scope.domain, scope.kind, scope.resource, scope.operation)
                    = "allowed"
               /\ CredentialAllows(identity, token, now, <<scope.operation, scope.kind>>)
  <1> DEFINE decision == AuthorizeDomain(identity.policy,
                           Authenticate(identity, token, now).principal,
                           scope.domain, scope.kind, scope.resource, scope.operation)
  <1>1. ScopeStatus(identity, now, token, scope)
          = CASE decision = "not_found" -> 404
              [] decision = "allowed"
                   /\ CredentialAllows(identity, token, now, <<scope.operation, scope.kind>>) -> 0
              [] OTHER -> 403
    BY DEF ScopeStatus
  <1> HIDE DEF decision
  <1>2. QED BY <1>1 DEF decision

(* ServiceFront!CapabilitiesMatch: the capability report of a token says of *)
(* each collection exactly what requests with the token meet.               *)
THEOREM ReportsMatch ==
  ASSUME DistinctTokens
  PROVE  Spec => []CapabilitiesMatch
  <1>1. ASSUME FrontInv, RevokedInv, phase = "serving", identity # NoIdentity,
               NEW d \in DomainIds, NEW route \in RoutesOf(bindings[d]), NEW token \in Tokens,
               NEW operation \in Operations, NEW r,
               r = [method |-> IF operation = "read" THEN "GET" ELSE "PUT", path |-> route.path,
                    auth |-> <<[scheme |-> "bearer", token |-> token]>>]
        PROVE  <<operation, route.collection>> \in CapabilitiesFor(identity, token, now, d)
                 <=> ~ Refused(r)
    <2>1. WellBound(bindings) /\ d \in DOMAIN bindings
      BY <1>1, RunningSettings DEF FrontInv, DomainIds
    <2>2. Served(route) /\ route.collection \in Kinds
      BY <1>1, <2>1 DEF WellBound, Served, Kinds
    <2>3. r.path = route.path /\ Segmented(r.path) /\ Covers(route, r.path)
      BY <1>1, <2>2 DEF Served, Covers
    <2>4. Supplied(r) = token
      <3>1. r.auth = <<[scheme |-> "bearer", token |-> token]>>
        BY <1>1
      <3>2. Len(r.auth) = 1 /\ r.auth[1].scheme = "bearer" /\ r.auth[1].token = token
        BY <3>1
      <3>3. QED BY <3>2 DEF Supplied
    <2>5. OperationOf(r) = operation
      <3>1. r.method = IF operation = "read" THEN "GET" ELSE "PUT"
        BY <1>1
      <3>2. QED BY <1>1, <3>1 DEF OperationOf, Operations
    <2>6. ~ Refused(r)
            <=> /\ Authenticated(identity, token, now)
                /\ ScopeStatus(identity, now, token, ScopeOn(d, route, r)) = 0
      BY <1>1, <2>1, <2>3, <2>4, StatusFound
    <2>7. ScopeOn(d, route, r) = [domain |-> d, kind |-> route.collection, resource |-> <<>>,
                                  operation |-> operation]
      BY <2>2, <2>3, <2>5, NothingBelow DEF ScopeOn
    <2>8. ScopeStatus(identity, now, token, ScopeOn(d, route, r)) = 0
            <=> /\ AuthorizeDomain(identity.policy,
                                   Authenticate(identity, token, now).principal,
                                   d, route.collection, <<>>, operation) = "allowed"
                /\ CredentialAllows(identity, token, now, <<operation, route.collection>>)
      <3>1. /\ ScopeOn(d, route, r).domain = d /\ ScopeOn(d, route, r).kind = route.collection
            /\ ScopeOn(d, route, r).resource = <<>>
            /\ ScopeOn(d, route, r).operation = operation
        BY <2>7
      <3>2. QED BY <3>1, ScopeDecision
    <2>9. CASE Authenticated(identity, token, now)
      BY <1>1, <2>2, <2>6, <2>8, <2>9, ReportIsDecision
    <2>10. CASE ~ Authenticated(identity, token, now)
      BY <2>6, <2>10 DEF CapabilitiesFor
    <2>11. QED BY <2>9, <2>10
  <1>2. FrontInv /\ RevokedInv => CapabilitiesMatch
    BY <1>1 DEF CapabilitiesMatch
  <1>3. QED BY <1>2, FrontAlways, RevokedAlways, PTL
===============================================================================
