------------------------------- MODULE DavReads -------------------------------
(***************************************************************************)
(* Discovery and reading through crates/dav-server: OPTIONS, PROPFIND, GET, *)
(* HEAD, and the query and multiget REPORTs.  Every answer about a resource *)
(* comes from a snapshot the repository adapter has just read, page by      *)
(* page, from a Space that other clients change meanwhile.                  *)
(*                                                                          *)
(* A client keeps a copy of each resource it has been sent.  It replaces or *)
(* drops the copy as the answers say, as a synchronizing client does.       *)
(***************************************************************************)
EXTENDS AnytypeRepository

CONSTANTS
  KindOf,       \* the collection each resource name belongs to
  SuffixesOf,   \* the names each name ends with, itself included
  DueOf,        \* the values of DUE in each body
  WordsOf,      \* the words text-match finds in each body
  PartsOf,      \* the components of each stored calendar, {} when none is kept
  PropDocs,     \* PROPFIND bodies clients send
  ReportDocs,   \* REPORT bodies clients send
  ReadErrors,   \* how a read of the Space may fail
  Star,         \* the wildcard in a condition
  NoCopy,       \* the client has no copy
  MaxRequests,  \* bound: requests served
  MaxClock      \* bound: seconds that pass

Areas == {"contact", "task"}

ASSUME ReadsAssumption ==
  /\ KindOf \in [Names -> Areas]
  /\ \A n \in Names : n \in SuffixesOf[n]
  /\ Star \notin Rows
  /\ NoCopy \notin [row : Rows, read : Nat, rank : Nat]
  /\ MaxRequests \in Nat /\ MaxClock \in Nat

Moments == [form : STRING, year : Nat, month : Nat, day : Nat,
            hour : Nat, minute : Nat, second : Nat]

(* What the types of the code say of bodies and of documents; an empty      *)
(* document has no filters.                                                 *)
ASSUME DueTyped == \A b \in Bodies : DueOf[b] \subseteq Moments /\ IsFiniteSet(DueOf[b])

ASSUME ReportsTyped ==
  \A doc \in ReportDocs :
    /\ doc.area \in Areas
    /\ doc.root = "empty" => doc.filters = {}
    /\ \A f \in doc.filters : f.start \cup f.end \subseteq Moments

VARIABLES
  pc,       \* where the handler is
  req,      \* the request being served, or served last
  answer,   \* the answer to req
  held,     \* the client's copies, with the date each was sent
  clock,    \* the time of day, in seconds
  changed,  \* history: when each object was last changed by another client
  served    \* requests so far

control == <<pc, req, answer, held, served>>
time    == <<clock, changed>>
vars    == <<space, repository, control, time>>

-----------------------------------------------------------------------------
(* Time values in filters and properties.                                   *)

MonthDays(year, month) ==
  CASE month \in {1, 3, 5, 7, 8, 10, 12} -> 31
    [] month \in {4, 6, 9, 11} -> 30
    [] month = 2 -> IF year % 4 = 0 /\ (year % 100 # 0 \/ year % 400 = 0) THEN 29 ELSE 28
    [] OTHER -> 0

(* The day and the wall-clock second a value names; none when it names no   *)
(* real one.  A date is its first second.  Zones are not converted: UTC,    *)
(* local and floating values compare by what their digits say.              *)
NormalizeTime(t) ==
  IF /\ t.form \in {"date", "time"}
     /\ t.day \in 1..MonthDays(t.year, t.month)
     /\ t.hour < 24 /\ t.minute < 60 /\ t.second < 60
    THEN {<<t.year * 10000 + t.month * 100 + t.day,
            IF t.form = "date" THEN 0 ELSE t.hour * 10000 + t.minute * 100 + t.second>>}
    ELSE {}

Before(a, b) == a[1] < b[1] \/ (a[1] = b[1] /\ a[2] < b[2])

Keys(times) == UNION {NormalizeTime(t) : t \in times}

-----------------------------------------------------------------------------
(* REPORT bodies.                                                           *)

(* extract_filters: bounds are readable, and a range is not empty.          *)
RangeAccepted(filter) ==
  /\ filter.start # {} => Keys(filter.start) # {}
  /\ filter.end # {} => Keys(filter.end) # {}
  /\ \A s \in Keys(filter.start), e \in Keys(filter.end) : Before(s, e)

(* ReportQuery::parse: a range, or a filter element that filters nothing,   *)
(* has no meaning for contacts.                                             *)
ReportAccepted(doc, area) ==
  \/ doc.root = "empty"
  \/ /\ doc.root \in {"query", "multiget"} /\ doc.area = area /\ doc.wellFormed
     /\ \A f \in doc.filters : RangeAccepted(f)
     /\ area = "contact" =>
          ~doc.bareFilter /\ \A f \in doc.filters : f.start = {} /\ f.end = {}

(* A component filter: every calendar that was not kept is one VTODO.       *)
PartsMatch(doc, row, area) ==
  doc.parts # {} =>
    /\ area = "task"
    /\ doc.parts \subseteq IF PartsOf[row.body] = {} THEN {"VTODO"} ELSE PartsOf[row.body]

Values(filter, row) == IF filter.prop = "DUE" THEN Keys(DueOf[row.body]) ELSE {}

(* Seeded fault: the end of the range belongs to it. *)
EndsByInclusive(v, e) == ~Before(e, v)

EndsBy(v, e) == Before(v, e)

(* Any value may satisfy each bound, not one value both. *)
FilterMatches(filter, row) ==
  IF filter.prop = "UID"
    THEN filter.text \subseteq {row.uid}
    ELSE /\ filter.text \subseteq WordsOf[row.body]
         /\ \A s \in Keys(filter.start) : \E v \in Values(filter, row) : ~Before(v, s)
         /\ \A e \in Keys(filter.end) : \E v \in Values(filter, row) : EndsBy(v, e)

(* ReportQuery::matches. *)
Matching(doc, row, area) ==
  PartsMatch(doc, row, area) /\ \A f \in doc.filters : FilterMatches(f, row)

(* The hrefs of a multiget that name this resource: they end with its name  *)
(* and the suffix of the collection.                                        *)
HrefsOf(doc, row, area) ==
  {h \in doc.hrefs : h.area = area /\ row.name \in SuffixesOf[h.name]}

-----------------------------------------------------------------------------
(* What an answer says of the properties asked for.                         *)

ResourceProps   == {"getetag", "getcontenttype", "getcontentlength"}
CollectionProps == {"resourcetype", "displayname", "current-user-principal",
                    "home-set", "supported-report-set"}
HomeProps       == {"resourcetype", "displayname", "current-user-principal", "home-set"}
PrincipalProps  == {"current-user-principal", "home-set"}
ReportProps     == ResourceProps \cup {"getlastmodified", "data"}

Only(area, supported) ==
  supported \cup IF area = "task" THEN {"supported-calendar-component-set"} ELSE {}

(* PropfindProps::wants and unknown_requested. *)
Wanted(doc, supported) ==
  IF doc.form = "prop" THEN doc.names \cap supported ELSE supported
Unknown(doc, supported) ==
  IF doc.form = "prop" THEN doc.names \ supported ELSE {}

(* A report that names no property asks for all of them. *)
Reported(doc) == IF doc.props = {} THEN ReportProps ELSE doc.props \cap ReportProps

Entry(row, found, missing) == [row |-> row, found |-> found, missing |-> missing]

-----------------------------------------------------------------------------
(* Answers.                                                                 *)

Nothing ==
  [status |-> "none", entries |-> {}, own |-> {}, gone |-> {}, learnt |-> {}, failure |-> "none"]

Refusal(status) == [Nothing EXCEPT !.status = status]

(* What becomes of a read that the Space answers with 404. *)
NotFound == {"ResourceNotFound", "CollectionNotFound"}

(* status_for. *)
StatusFor(error) ==
  CASE error \in NotFound -> "404"
    [] error = "PreconditionFailed" -> "412"
    [] error \in {"ResourceAlreadyExists", "IdentityAlreadyExists"} -> "409"
    [] error = "InvalidEnvelope" -> "400"
    [] error = "Auth" -> "401"
    [] error = "Forbidden" -> "403"
    [] error = "RateLimited" -> "429"
    [] error = "Timeout" -> "408"
    [] error = "Unavailable" -> "503"
    [] OTHER -> "500"

Statuses == {"none", "200", "207", "302", "304", "400", "401", "403", "404", "405",
             "408", "409", "412", "429", "500", "503"}

(* The client's side: a copy is the version it was sent and when.  The date *)
(* an answer carries is the time of the snapshot, and a second more for     *)
(* every object read before this one: create_resource moves the clock on.   *)
Rank(row) == Cardinality({r \in scan.rows : r.id < row.id})

Copy(row) == [row |-> row, read |-> clock, rank |-> Rank(row)]

Date(copy) == copy.read + copy.rank

Modified(row) == clock + Rank(row)

(* An answer, and what a client makes of it: new copies where the whole     *)
(* resource came with its ETag, none where it is gone.                      *)
Answer(from, a, dropped) ==
  /\ pc = from
  /\ pc' = "idle"
  /\ LET sent == {e \in a.entries : {"getetag", "data"} \subseteq e.found}
         names == {e.row.name : e \in sent}
     IN /\ held' = [n \in Names |->
                      IF n \in names THEN Copy((CHOOSE e \in sent : e.row.name = n).row)
                      ELSE IF n \in dropped THEN NoCopy ELSE held[n]]
        /\ answer' = [a EXCEPT !.learnt = @ \cup names \cup dropped]
  /\ scan' = NewScan
  /\ UNCHANGED <<req, served>>

Respond(from, a) == Answer(from, a, {})

Move(from, to) ==
  /\ pc = from
  /\ pc' = to
  /\ UNCHANGED <<req, answer, held, served>>

Reading == UNCHANGED <<space, cache, call, reads, time>>

(* Every read begins with a hydrate, so the cache it leaves behind is never *)
(* read again and is left out.                                              *)
Snapshot == scan.done /\ Coherent(scan.rows)

-----------------------------------------------------------------------------
(* Requests.  A client names the versions it holds in its conditions.       *)

TagsHeld(n) == IF held[n] = NoCopy THEN {} ELSE {held[n].row}

DatesHeld(n) == IF held[n] = NoCopy THEN {} ELSE {Date(held[n])}

GetOf(n, match, noneMatch, since) ==
  [method |-> "GET", area |-> KindOf[n], target |-> "resource", name |-> n,
   ifMatch |-> match, ifNoneMatch |-> noneMatch, ifModifiedSince |-> since]

Gets ==
  UNION {{GetOf(n, match, {}, {}) : match \in {{Star}, TagsHeld(n)}}
           \cup {GetOf(n, {}, {Star}, {}), GetOf(n, {}, TagsHeld(n), {}),
                 GetOf(n, {}, {}, DatesHeld(n)), GetOf(n, {}, TagsHeld(n), DatesHeld(n))}
           \cup [method : {"GET", "HEAD"}, area : Areas, target : {"resource"}, name : {n},
                 ifMatch : {{}}, ifNoneMatch : {{}}, ifModifiedSince : {{}}] :
         n \in Names}

Propfinds ==
  {[method |-> "PROPFIND", area |-> KindOf[n], target |-> "resource", name |-> n,
    depth |-> "0", doc |-> doc] : n \in Names, doc \in PropDocs}
    \cup [method : {"PROPFIND"}, area : Areas, target : {"badName"}, depth : {"0"}, doc : PropDocs]
    \cup [method : {"PROPFIND"}, area : Areas, target : {"collection"},
          depth : {"0", "1", "infinity"}, doc : PropDocs]
    \cup [method : {"PROPFIND"}, area : {"root", "home"}, depth : {"0", "1", "infinity"},
          doc : PropDocs]

(* The path below /carddav/ or /caldav/ does not matter to a report. *)
Reports ==
  {[method |-> "REPORT", area |-> doc.area, doc |-> doc] : doc \in ReportDocs}

Others ==
  [method : {"GET", "PROPFIND", "POST"}, area : {"wellKnown", "elsewhere"}]
    \cup [method : {"OPTIONS"}, area : Areas \cup {"elsewhere"}]
    \cup [method : {"GET", "POST"}, area : {"contact"}, target : {"collection"}]
    \cup [method : {"HEAD", "POST"}, area : {"task"}, target : {"badName"}]
    \cup [method : {"POST"}, area : {"task"}, target : {"resource"}]

NoRequest == [method |-> "none"]

(* The answer has been taken in; nothing of it stays in the handler. *)
Done ==
  /\ pc = "idle"
  /\ served < MaxRequests
  /\ pc' = "ready"
  /\ req' = NoRequest /\ answer' = Nothing
  /\ touched' = {} /\ recent' = {}
  /\ UNCHANGED <<object, archived, late, foreign, repository, held, served, time>>

Receive(r) ==
  /\ pc = "ready"
  /\ pc' = "parse"
  /\ req' = r
  /\ served' = served + 1
  /\ touched' = {} /\ recent' = {}
  /\ UNCHANGED <<object, archived, late, foreign, repository, answer, held, time>>

-----------------------------------------------------------------------------
(* handle_inner: what is answered without a look at the repository.         *)

IsRead == req.method \in {"GET", "HEAD"}

Discovery ==
  \/ /\ req.area = "wellKnown"
     /\ Respond("parse",
          Refusal(IF req.method \in {"GET", "HEAD", "PROPFIND"} THEN "302" ELSE "404"))
  \/ /\ req.area = "elsewhere"
     /\ Respond("parse", Refusal("404"))
  \/ /\ req.method = "OPTIONS"
     /\ req.area \in Areas
     /\ Respond("parse", Refusal("200"))
  \/ /\ req.area = "root"
     /\ Respond("parse",
          IF req.depth = "infinity" \/ ~req.doc.wellFormed THEN Refusal("400")
          ELSE [Nothing EXCEPT !.status = "207", !.own = {Wanted(req.doc, PrincipalProps)}])

(* A name without the suffix of its collection, or with a slash in it. *)
BadRequest ==
  \/ /\ req.method = "PROPFIND" /\ req.area \in Areas \cup {"home"}
     /\ \/ /\ ~req.doc.wellFormed \/ req.depth = "infinity"
           /\ Respond("parse", Refusal("400"))
        \/ /\ req.doc.wellFormed /\ req.depth # "infinity"
           /\ req.area \in Areas /\ req.target = "badName"
           /\ Respond("parse", Refusal("404"))
  \/ /\ req.method = "REPORT" /\ ~ReportAccepted(req.doc, req.area)
     /\ Respond("parse", Refusal("400"))
  \/ /\ req.method \in {"GET", "HEAD", "POST"} /\ req.area \in Areas
     /\ \/ req.target = "collection" /\ Respond("parse", Refusal("405"))
        \/ req.target = "badName" /\ Respond("parse", Refusal("400"))
        \/ req.target = "resource" /\ req.method = "POST" /\ Respond("parse", Refusal("405"))

(* The rest reads the Space: the whole of it, whatever the request.         *)
Look(stage) ==
  /\ Move("parse", stage)
  /\ scan' = NewScan
  /\ Reading

Route ==
  \/ /\ req.method = "PROPFIND" /\ req.area \in Areas \cup {"home"}
     /\ req.doc.wellFormed /\ req.depth # "infinity"
     /\ \/ req.area = "home" /\ Look("home")
        \/ req.area \in Areas /\ req.target = "collection" /\ Look("collection")
        \/ req.area \in Areas /\ req.target = "resource" /\ Look("resource")
  \/ /\ req.method = "REPORT" /\ ReportAccepted(req.doc, req.area)
     /\ Look("report")
  \/ /\ IsRead /\ req.area \in Areas /\ req.target = "resource"
     /\ Look("get")

Parse ==
  /\ pc = "parse"
  /\ \/ (Discovery \/ BadRequest) /\ Reading
     \/ Route

Scanning == {"home", "collection", "resource", "list", "report", "get"}

TypeOK ==
  /\ SpaceTypeOK
  /\ RepositoryTypeOK
  /\ pc \in Scanning \cup {"idle", "ready", "parse"}
  /\ answer.status \in Statuses
  /\ answer.learnt \subseteq Names
  /\ \A n \in Names : held[n] = NoCopy \/ held[n].row \in Rows
  /\ clock \in 0..MaxClock
  /\ changed \in [Objects -> 0..MaxClock]
  /\ served \in 0..MaxRequests

ScanPage ==
  /\ pc \in Scanning
  /\ ReadPage
  /\ UNCHANGED <<space, cache, call, reads, control, time>>

(* An error of the read.  PROPFIND of one resource and of the calendar home *)
(* does not tell it from absence.                                           *)
Masked == {"resource", "home"}

ErrorStatus(error) == IF pc \in Masked THEN "404" ELSE StatusFor(error)

(* A client that probes one resource with PROPFIND is left with its copy.   *)
Gone(status) ==
  IF status = "404" /\ pc = "get" /\ KindOf[req.name] = req.area THEN {req.name} ELSE {}

(* History: what failed, which the answer does not say.                     *)
Failed(error) == [Refusal(ErrorStatus(error)) EXCEPT !.failure = error]

(* Every page and every object is read with `?`, so one 404 of the Space is *)
(* the answer to a GET of any resource.                                     *)
ScanFails ==
  /\ "io" \in Faults
  /\ pc \in Scanning
  /\ ~scan.done
  /\ \E error \in ReadErrors : Answer(pc, Failed(error), Gone(ErrorStatus(error)))
  /\ Reading

ScanRefused ==
  /\ pc \in Scanning
  /\ HydrateFails
  /\ LET error == "IdentityAlreadyExists"
     IN Answer(pc, Failed(error), Gone(ErrorStatus(error)))
  /\ Reading

-----------------------------------------------------------------------------
(* get.                                                                     *)

Visible(area) == {r \in scan.rows : KindOf[r.name] = area}

Found == Named(Visible(req.area), req.name)

Holds(candidates, row) == Star \in candidates \/ row \in candidates

(* Seeded fault: the date decides even when a tag was sent. *)
NotModifiedEither(row) ==
  \/ Holds(req.ifNoneMatch, row)
  \/ \E date \in req.ifModifiedSince : Modified(row) <= date

(* If-Modified-Since counts only when no If-None-Match was sent. *)
NotModified(row) ==
  \/ Holds(req.ifNoneMatch, row)
  \/ /\ req.ifNoneMatch = {}
     /\ \E date \in req.ifModifiedSince : Modified(row) <= date

(* A client with a copy takes 304 to speak of that copy, unless it sent a   *)
(* wildcard.                                                                *)
Confirmed == IF req.ifNoneMatch = {Star} THEN {} ELSE {req.name}

Got(row) ==
  [Nothing EXCEPT !.status = "200",
     !.entries = {Entry(row, IF req.method = "GET" THEN {"getetag", "data"} ELSE {"getetag"}, {})}]

Get ==
  /\ pc = "get"
  /\ Snapshot
  /\ \/ Found = {} /\ Answer("get", Refusal("404"), Gone("404"))
     \/ \E row \in Found :
          \/ /\ req.ifMatch # {} /\ ~Holds(req.ifMatch, row)
             /\ Respond("get", Refusal("412"))
          \/ /\ req.ifMatch = {} \/ Holds(req.ifMatch, row)
             /\ \/ /\ NotModified(row)
                   /\ Respond("get", [Refusal("304") EXCEPT !.learnt = Confirmed])
                \/ ~NotModified(row) /\ Respond("get", Got(row))
  /\ Reading

-----------------------------------------------------------------------------
(* propfind and caldav_home_propfind.                                       *)

PropEntry(row) == Entry(row, Wanted(req.doc, ResourceProps), Unknown(req.doc, ResourceProps))

PropfindResource ==
  /\ pc = "resource"
  /\ Snapshot
  /\ Respond("resource",
       IF Found = {} THEN Refusal("404")
       ELSE [Nothing EXCEPT !.status = "207", !.entries = {PropEntry(r) : r \in Found}])
  /\ Reading

OwnProps == {Wanted(req.doc, Only(req.area, CollectionProps))}

(* The collection is local, but getting it reads the Space all the same;    *)
(* depth 1 reads it once more.                                              *)
PropfindCollection ==
  /\ pc = "collection"
  /\ Snapshot
  /\ \/ /\ req.depth = "0"
        /\ Respond("collection", [Nothing EXCEPT !.status = "207", !.own = OwnProps])
     \/ req.depth = "1" /\ Move("collection", "list") /\ scan' = NewScan
  /\ Reading

(* Names a client knows and a full listing does not have are gone. *)
Unlisted == {n \in Names : KindOf[n] = req.area /\ Named(Visible(req.area), n) = {}}

PropfindList ==
  /\ pc = "list"
  /\ Snapshot
  /\ Answer("list", [Nothing EXCEPT !.status = "207", !.own = OwnProps,
                                    !.entries = {PropEntry(r) : r \in Visible(req.area)}],
            Unlisted)
  /\ Reading

(* The home and the tasks in it; what it does not know goes unmentioned. *)
PropfindHome ==
  /\ pc = "home"
  /\ Snapshot
  /\ Respond("home",
       [Nothing EXCEPT !.status = "207",
          !.own = {Wanted(req.doc, HomeProps)}
                    \cup IF req.depth = "1"
                           THEN {Wanted(req.doc, Only("task", CollectionProps))} ELSE {}])
  /\ Reading

-----------------------------------------------------------------------------
(* report.                                                                  *)

Selected ==
  {r \in Visible(req.area) :
     /\ req.doc.hrefs = {} \/ HrefsOf(req.doc, r, req.area) # {}
     /\ Matching(req.doc, r, req.area)}

(* Seeded fault: an href without a resource is passed over. *)
UnmatchedSilent == {}

Unmatched == req.doc.hrefs \ UNION {HrefsOf(req.doc, r, req.area) : r \in Selected}

(* A report without hrefs and filters lists the collection. *)
Everything == req.doc.hrefs = {} /\ req.doc.filters = {} /\ req.doc.parts = {}

Report ==
  /\ pc = "report"
  /\ Snapshot
  /\ Answer("report",
       [Nothing EXCEPT !.status = "207",
          !.entries = {Entry(r, Reported(req.doc), req.doc.props \ ReportProps) : r \in Selected},
          !.gone = Unmatched],
       IF Everything THEN Unlisted
       ELSE {n \in Names : KindOf[n] = req.area /\ [name |-> n, area |-> req.area] \in Unmatched})
  /\ Reading

-----------------------------------------------------------------------------
Init ==
  /\ object \in [Objects -> Contents \cup {Unused}]
  /\ \A i \in Created : \A j \in 1..i : j \in Created
  /\ \A i, j \in Created : object[i].name = object[j].name => i = j
  /\ archived = {} /\ late = NoCall /\ foreign = 0
  /\ touched = {} /\ recent = {}
  /\ cache = {} /\ scan = NewScan /\ call = NoCall /\ reads = 0
  /\ pc = "ready" /\ req = NoRequest /\ answer = Nothing
  /\ held = [n \in Names |-> NoCopy]
  /\ clock = 0 /\ changed = [i \in Objects |-> 0]
  /\ served = 0

(* Time that passes while a request is served shows only in the next one:   *)
(* the clock is read once, when its snapshot is complete.                   *)
Tick ==
  /\ pc = "ready"
  /\ clock < MaxClock
  /\ clock' = clock + 1
  /\ UNCHANGED <<space, repository, control, changed>>

(* A change while the request is parsed or the answer is on its way is like *)
(* one just before the first page is read, or before the next request.      *)
Change ==
  /\ pc \in Scanning \cup {"ready"}
  /\ OtherClients
  /\ changed' = [i \in Objects |-> IF object'[i] # object[i] THEN clock ELSE changed[i]]
  /\ UNCHANGED <<repository, control, clock>>

Serve ==
  \/ Parse \/ ScanPage \/ ScanFails \/ ScanRefused
  \/ Get \/ PropfindResource \/ PropfindCollection \/ PropfindList \/ PropfindHome \/ Report

Next ==
  \/ Serve \/ Done
  \/ \E r \in Gets \cup Propfinds \cup Reports \cup Others : Receive(r)
  \/ Tick \/ Change

Spec == Init /\ [][Next]_vars

-----------------------------------------------------------------------------
(* Properties.                                                              *)

LiveNamed(n) == {i \in Live : object[i].name = n}

(* Another client changed this resource since the request arrived; or the   *)
(* Space answered a read with 404, which a GET repeats of its resource; or  *)
(* a 304 went by the date, which does not tell two changes of one second    *)
(* apart and runs ahead of the clock by the objects that were read before.  *)
Excused(n) ==
  \/ \E i \in touched : object[i].name = n
  \/ answer.failure \in NotFound
  \/ /\ answer.status = "304" /\ req.ifNoneMatch = {}
     /\ \E i \in LiveNamed(n) : changed[i] = held[n].read \/ Position(i) < held[n].rank

(* An archived object shifts the pages under a listing, which then misses   *)
(* another one.                                                             *)
Shifted == touched \cap archived # {}

(* A client that follows the answers holds exactly what the Space holds:    *)
(* 304 means its copy is current, 404 and absence from a listing mean the   *)
(* resource is gone, and a read that failed, or was refused half way, never *)
(* looks like a deletion unless it is the Space that said 404.              *)
CopyCurrent ==
  pc = "idle" =>
    \A n \in answer.learnt :
      \/ Excused(n)
      \/ held[n] = NoCopy /\ (LiveNamed(n) = {} \/ Shifted)
      \/ held[n] # NoCopy /\ \E i \in LiveNamed(n) : RowOf(i) = held[n].row

Reported207 == pc = "idle" /\ req.method = "REPORT" /\ answer.status = "207"

(* A multiget answers every href of the collection, with the resource or    *)
(* with 404 and not with both, and sends nothing that was not asked for.    *)
(* Where one name ends with another this fails: the href of the longer one  *)
(* is answered with the shorter, and with nothing of its own.               *)
MultigetAnswersEvery ==
  Reported207 /\ req.doc.hrefs # {} =>
    /\ \A h \in req.doc.hrefs :
         LET named == {e \in answer.entries : e.row.name = h.name /\ h.area = req.area}
         IN \/ (named # {}) # (h \in answer.gone)
            \/ \E e \in answer.entries : e.row.name \in SuffixesOf[h.name] \ {h.name}
    /\ \A e \in answer.entries : \E h \in req.doc.hrefs : e.row.name \in SuffixesOf[h.name]

(* "Inclusive-start/exclusive-end selection": a time-range query sends the  *)
(* tasks that are due in the range, each at the version just read, and      *)
(* leaves out no other, however the values are written.  It is about tasks  *)
(* with at most one due time.                                               *)
DueIn(body, filter) ==
  \E v \in Keys(DueOf[body]) :
    /\ \A s \in Keys(filter.start) : v = s \/ Before(s, v)
    /\ \A e \in Keys(filter.end) : Before(v, e)

RangeExact ==
  Reported207 =>
    \A f \in req.doc.filters :
      f.prop = "DUE" /\ req.doc.filters = {f} /\ req.doc.parts = {} /\ req.doc.hrefs = {}
                     /\ f.text = {} /\ f.start \cup f.end # {} =>
        \A i \in Live \ touched :
          KindOf[object[i].name] = req.area /\ Cardinality(DueOf[object[i].body]) <= 1 =>
            \/ DueIn(object[i].body, f) <=> RowOf(i) \in {e.row : e \in answer.entries}
            \/ Shifted /\ DueIn(object[i].body, f)
=============================================================================
