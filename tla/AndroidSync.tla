------------------------------ MODULE AndroidSync ------------------------------
(***************************************************************************)
(* POST /android/sync: an Android device pulls the contacts of the Space or *)
(* pushes a batch of edits and tombstones, over the bridge of               *)
(* BridgeContract.  crates/app lists the collection once, matches every     *)
(* item of the batch with what it listed, and writes item by item; the      *)
(* first error ends the batch, whatever has been written.  The device sends *)
(* the batch again until an answer without an error reaches it.             *)
(*                                                                          *)
(* Left out: the checkpoint, a revision the service only passes on and      *)
(* never selects by; and the branches for archived rows, which the adapter  *)
(* never lists (hydrate drops them), so that no pull carries a tombstone.   *)
(* A call that timed out takes effect at once or never.                     *)
(***************************************************************************)
EXTENDS AnytypeRepository, BridgeContract, FiniteSetsExt

CONSTANTS
  KindOf,       \* what the resource of a UID is
  NamesOf,      \* resource identities a UID is known under: the server's and
                \* the provisional one of a device
  Asked,        \* authorities the device syncs
  Links,        \* links to a service the account may have
  NoItem,       \* no item being written
  MaxBatches,   \* bound: batches of edits made on the device
  MaxPulls,     \* bound: pulls
  MaxItems,     \* bound: items of a batch
  MaxFaults     \* bound: failing calls and lost answers

ASSUME AndroidAssumption ==
  /\ Bodies \subseteq Nat
  /\ KindOf \in [Uids -> {"contact", "task", "event"}]
  /\ NamesOf \in [Uids -> SUBSET Names]
  /\ \A u, v \in Uids : u # v => NamesOf[u] \cap NamesOf[v] = {}
  /\ MaxObjects > 0
  /\ MaxBatches \in Nat /\ MaxPulls \in Nat /\ MaxItems \in Nat /\ MaxFaults \in Nat

VARIABLES
  link,      \* the account's link to the service
  pending,   \* the batch not yet acknowledged, as a set of items
  verdict,   \* what the last exchange told the device, and what it carried
  batches, pulls, faults,   \* counts
  pc,        \* where the handler is
  req,       \* the request being served
  rows,      \* what the handler listed
  todo,      \* items of the batch still to be processed
  item,      \* the item being written
  stored,    \* rows the answer will carry
  decisions, \* decisions it will carry
  answer     \* the answer on its way to the device

device  == <<link, pending, verdict, batches, pulls>>
handler == <<rows, todo, item, stored, decisions, answer>>
vars    == <<space, repository, device, faults, pc, req, handler>>

(* A device knows an object by its identifier, or has none for it. *)
NoId == 0

Upserts == [kind : {"upsert"}, name : Names, uid : Uids, body : Bodies, id : Objects \cup {NoId}]
Deletes == [kind : {"delete"}, name : Names, uid : Uids, id : Objects \cup {NoId}, revision : Nat]

NoRequest == [authority |-> "none", batch |-> {}]
NoVerdict == [code |-> "none", rows |-> {}, batch |-> {}, pull |-> FALSE]
NoAnswer  == [status |-> 0, code |-> "none", rows |-> {}, decisions |-> {}]

(* android_collection: events share the configured collection with tasks.   *)
ExpectedKind(authority) == IF authority = "com.android.contacts" THEN "contact" ELSE "event"
ListedKind(authority)   == IF authority = "com.android.contacts" THEN "contact" ELSE "task"

Supported == {"com.android.contacts", "com.android.calendar"}

Listing == {"list", "refresh"}
Stages  == Listing \cup {"idle", "next", "fetch", "send", "reconcile", "confirm", "wire"}

Init ==
  /\ object \in [Objects -> Contents \cup {Unused}]
  /\ Cardinality(Created) <= 1
  /\ \A i \in Created :
       /\ i = 1
       /\ object[i].name \in NamesOf[object[i].uid]
       /\ object[i].extra = NoExtra
       /\ \A b \in Bodies : object[i].body <= b
  /\ archived = {} /\ late = NoCall /\ foreign = 0 /\ touched = {} /\ recent = {}
  /\ cache = {} /\ scan = NewScan /\ call = NoCall /\ reads = 0
  /\ link \in Links
  /\ pending = {} /\ verdict = NoVerdict /\ batches = 0 /\ pulls = 0 /\ faults = 0
  /\ pc = "idle" /\ req = NoRequest
  /\ rows = {} /\ todo = {} /\ item = NoItem
  /\ stored = {} /\ decisions = {} /\ answer = NoAnswer

-----------------------------------------------------------------------------
(* The device.                                                              *)

(* It has one change for each contact it is bound to or has made: an edit   *)
(* or a deletion, under an identity it has seen or one of its own.          *)
KnownIds(uid) == {NoId} \cup {i \in Created : object[i].uid = uid}

(* An edit on the device differs from what the Space held to begin with. *)
NewBodies == {b \in Bodies : \E c \in Bodies : c < b}

EditsOf(uid) ==
  [kind : {"upsert"}, name : NamesOf[uid], uid : {uid}, body : NewBodies, id : KnownIds(uid)]
    \cup [kind : {"delete"}, name : NamesOf[uid], uid : {uid}, id : KnownIds(uid), revision : {1}]

Edits == UNION {EditsOf(u) : u \in Uids}

Batches ==
  {b \in UNION {kSubset(n, Edits) : n \in 1..MaxItems} :
     \A e, f \in b : e # f => e.uid # f.uid}

Edit(batch) ==
  /\ pc = "idle"
  /\ pending = {}
  /\ batches < MaxBatches
  /\ batches' = batches + 1
  /\ pending' = batch
  /\ verdict' = NoVerdict
  /\ UNCHANGED <<space, repository, link, pulls, faults, pc, req, handler>>

Header(authority) ==
  [version |-> SchemaVersion, account |-> "account", type |-> "type", authority |-> authority]

(* handle_android_sync: an empty batch asks for the collection. *)
Request(authority, batch) ==
  /\ pc = "idle"
  /\ IF Leaves(Header(authority), link)
       THEN /\ pc' = "list"
            /\ req' = [authority |-> authority, batch |-> batch]
            /\ todo' = batch
            /\ verdict' = NoVerdict
       ELSE /\ verdict' = [NoVerdict EXCEPT !.code = LocalVerdict(Header(authority), link)]
            /\ UNCHANGED <<pc, req, todo>>
  /\ touched' = {} /\ recent' = {}
  /\ UNCHANGED <<object, archived, late, foreign, repository, link, pending, batches, faults>>
  /\ UNCHANGED <<rows, item, stored, decisions, answer>>

Pull(authority) ==
  /\ pulls < MaxPulls
  /\ pulls' = pulls + 1
  /\ Request(authority, {})

PushAuthority(batch) ==
  IF \E e \in batch : KindOf[e.uid] = "event"
    THEN "com.android.calendar" ELSE "com.android.contacts"

Push ==
  /\ pending # {}
  /\ Request(PushAuthority(pending), pending)
  /\ UNCHANGED pulls

(* The answer arrives, cut short or not, or is lost. *)
Wire(received) ==
  [status |-> answer.status, declared |-> {1}, sent |-> 1, received |-> received,
   secrets |-> {}, version |-> SchemaVersion, code |-> answer.code]

Deliver(received) ==
  /\ pc = "wire"
  /\ pc' = "idle"
  /\ IF received = 1
       THEN UNCHANGED faults
       ELSE /\ faults < MaxFaults
            /\ faults' = faults + 1
  /\ verdict' = [code  |-> Verdict(Wire(received)), rows |-> answer.rows,
                 batch |-> req.batch, pull |-> req.batch = {}]
  /\ pending' = IF verdict'.code = "ok" THEN pending \ req.batch ELSE pending
  /\ answer' = NoAnswer
  /\ req' = NoRequest /\ scan' = NewScan /\ call' = NoCall /\ reads' = 0
  /\ UNCHANGED <<space, cache, link, batches, pulls, rows, todo, item, stored, decisions>>

-----------------------------------------------------------------------------
(* Answers.                                                                 *)

(* android_repository_error *)
ErrorAnswer(error) ==
  CASE error = "auth"         -> <<401, "permission_denied">>
    [] error = "forbidden"    -> <<403, "permission_denied">>
    [] error \in {"exists", "precondition", "not_found"} -> <<409, "conflict">>
    [] error = "no_collection" -> <<503, "not_linked">>
    [] error = "invalid"       -> <<400, "invalid_request">>
    [] OTHER                   -> <<503, "transport_unavailable">>

Answer(status, code, carried, made) ==
  /\ pc' = "wire"
  /\ answer' = [status |-> status, code |-> code, rows |-> carried, decisions |-> made]
  /\ rows' = {} /\ todo' = {} /\ item' = NoItem /\ stored' = {} /\ decisions' = {}
  /\ UNCHANGED <<device, req>>

(* android_sync_error: no decisions and no rows, whatever was written. *)
Refuse(status, code) == Answer(status, code, {}, {})

Fails(error) == Refuse(ErrorAnswer(error)[1], ErrorAnswer(error)[2])

Spend == faults < MaxFaults /\ faults' = faults + 1

(* What a failing call of the Space may be reported as. *)
RemoteErrors == {"auth", "unavailable"}

Reading == UNCHANGED <<space, reads>>

-----------------------------------------------------------------------------
(* validate_android_batch *)
UpsertsOf(batch) == {e \in batch : e.kind = "upsert"}
DeletesOf(batch) == {e \in batch : e.kind = "delete"}

(* A tombstone names the object it stands for, or the UID if it has none.   *)
Distinct(items) ==
  \A e, f \in items :
    e # f => /\ e.name # f.name /\ e.uid # f.uid
             /\ e.id # f.id \/ NoId \in {e.id, f.id}

Disjoint(e, t) ==
  /\ e.name # t.name
  /\ IF t.id = NoId THEN e.uid # t.uid ELSE e.id # t.id

ValidBatch(authority, batch) ==
  /\ \A e \in UpsertsOf(batch) : KindOf[e.uid] = ExpectedKind(authority)
  /\ Distinct(UpsertsOf(batch))
  /\ \A t \in DeletesOf(batch) :
       /\ t.revision > 0
       /\ \A e \in UpsertsOf(batch) : Disjoint(e, t)
  /\ Distinct(DeletesOf(batch))

Accepted == req.authority \in Supported /\ ValidBatch(req.authority, req.batch)

(* Nothing is read for a request that is refused as it stands. *)
Invalid ==
  /\ pc = "list"
  /\ ~Accepted
  /\ Refuse(200, "invalid_request")
  /\ UNCHANGED <<space, repository, faults>>

-----------------------------------------------------------------------------
(* hydrate: only contacts and tasks are kept.                               *)

Staged == {r \in scan.rows : KindOf[r.uid] \in {"contact", "task"}}

Refreshed == scan.done /\ Coherent(Staged) /\ cache' = Staged

ListPage ==
  /\ pc \in Listing
  /\ pc = "list" => Accepted
  /\ ReadPage
  /\ UNCHANGED <<space, cache, call, reads, device, faults, pc, req, handler>>

(* Seeded fault: a listing that fails is an empty one. *)
ListFailsEmpty ==
  /\ "io" \in Faults
  /\ pc \in Listing
  /\ pc = "list" => Accepted
  /\ ~scan.done
  /\ Spend
  /\ Answer(200, "ok", {}, {})
  /\ UNCHANGED <<space, repository>>

ListFails ==
  /\ "io" \in Faults
  /\ pc \in Listing
  /\ pc = "list" => Accepted
  /\ ~scan.done
  /\ Spend
  /\ \E error \in RemoteErrors : Fails(error)
  /\ UNCHANGED <<space, repository>>

ListRefused ==
  /\ pc \in Listing
  /\ scan.done
  /\ ~Coherent(Staged)
  /\ Fails("exists")
  /\ UNCHANGED <<space, repository, faults>>

(* list_resources: the contacts of one collection, the tasks of the other. *)
Listed == {r \in Staged : KindOf[r.uid] = ListedKind(req.authority)}

(* android_pull *)
AnswerPull ==
  /\ pc = "list"
  /\ Refreshed
  /\ req.batch = {}
  /\ LET shown == {r \in Listed : KindOf[r.uid] = ExpectedKind(req.authority)}
     IN  Answer(200, "ok", shown, {<<r.name, "upsert">> : r \in shown})
  /\ Reading
  /\ UNCHANGED <<scan, call, faults>>

-----------------------------------------------------------------------------
(* android_push                                                             *)

Move(to) == pc' = to /\ UNCHANGED <<device, req, faults, answer>>

ListPush ==
  /\ pc = "list"
  /\ Refreshed
  /\ req.batch # {}
  /\ Move("next")
  /\ rows' = Listed
  /\ Reading
  /\ UNCHANGED <<scan, call, todo, item, stored, decisions>>

(* Seeded fault: only the resource identity is compared. *)
MatchesByName(row, e) == row.name = e.name

Matched(row, e) ==
  IF e.kind = "delete" /\ e.id # NoId
    THEN row.name = e.name \/ row.id = e.id
    ELSE row.name = e.name \/ row.id = e.id \/ row.uid = e.uid

Targets(e) == {r \in rows : Matched(r, e)}

(* Resources are written before tombstones. *)
Ready(e) == e \in todo /\ (e.kind = "delete" => UpsertsOf(todo) = {})

Look(e, to, write) ==
  /\ Move(to)
  /\ item' = e
  /\ call' = write
  /\ scan' = NewScan
  /\ reads' = 0
  /\ recent' = {}
  /\ UNCHANGED <<object, archived, late, foreign, touched, cache, rows, todo, stored, decisions>>

(* The row the server has keeps its identities. *)
UpdateOf(e, r) ==
  [kind |-> "update", extra |-> NoExtra,
   row |-> [name |-> r.name, uid |-> r.uid, body |-> e.body, id |-> r.id]]

CreateOf(e) ==
  [kind |-> "create", extra |-> NoExtra,
   row |-> [name |-> e.name, uid |-> e.uid, body |-> e.body, id |-> 1]]

NextUpdate(e) == \E r \in Targets(e) : Look(e, "refresh", UpdateOf(e, r))

(* create_resource with IfNoneMatch, on the cache as the last call left it. *)
NextCreate(e) ==
  /\ Targets(e) = {}
  /\ \/ /\ Named(cache, e.name) = {}
        /\ ~Taken(cache, e.name, e.uid, e.id)
        /\ Look(e, "send", CreateOf(e))
     \/ /\ Named(cache, e.name) # {} \/ Taken(cache, e.name, e.uid, e.id)
        /\ Fails("exists")
        /\ UNCHANGED <<space, repository, faults>>

NextUpsert ==
  /\ pc = "next"
  /\ \E e \in UpsertsOf(todo) : NextUpdate(e) \/ NextCreate(e)

NextDelete ==
  /\ pc = "next"
  /\ \E e \in DeletesOf(todo) :
       /\ Ready(e)
       /\ \/ \E r \in Targets(e) : Look(e, "refresh", [kind |-> "archive", id |-> r.id])
          \/ /\ Targets(e) = {}
             /\ Move("next")
             /\ todo' = todo \ {e}
             /\ decisions' = decisions \cup {<<e.name, "noop">>}
             /\ UNCHANGED <<space, repository, rows, item, stored>>

AnswerPush ==
  /\ pc = "next"
  /\ todo = {}
  /\ Answer(200, "ok", stored, decisions)
  /\ UNCHANGED <<space, repository, faults>>

(* update_resource and archive_resource look at the Space again, by name.   *)
Target == {r \in rows : r.id = IF call.kind = "archive" THEN call.id ELSE call.row.id}

Current == {r \in Staged : \E t \in Target : r.name = t.name}

TakenByOther ==
  call.kind = "update" /\ Taken(Staged, call.row.name, call.row.uid, call.row.id)

Refresh ==
  /\ pc = "refresh"
  /\ Refreshed
  /\ \/ Current = {} /\ Fails("not_found") /\ UNCHANGED <<call, faults>>
     \/ Current # {} /\ TakenByOther /\ Fails("exists") /\ UNCHANGED <<call, faults>>
     \/ \E r \in Current :
          /\ ~TakenByOther
          /\ \/ call.kind = "update" /\ Move("fetch") /\ UNCHANGED call
             \/ call.kind = "archive" /\ Move("send") /\ call' = [call EXCEPT !.id = r.id]
          /\ UNCHANGED <<rows, todo, item, stored, decisions>>
  /\ Reading
  /\ UNCHANGED scan

(* push_update carries the object's other properties forward. *)
Fetch ==
  /\ pc = "fetch"
  /\ Move("send")
  /\ call' = [call EXCEPT !.extra = object[call.row.id].extra]
  /\ UNCHANGED <<space, cache, scan, reads, rows, todo, item, stored, decisions>>

WriteFails ==
  /\ "io" \in Faults
  /\ pc \in {"fetch", "send"}
  /\ Spend
  /\ \E error \in RemoteErrors : Fails(error)
  /\ UNCHANGED <<space, repository>>

(* An item is done: its decision, and the row now stored. *)
Done(write) ==
  /\ Move("next")
  /\ todo' = todo \ {item}
  /\ item' = NoItem
  /\ IF write.kind = "archive"
       THEN /\ decisions' = decisions \cup {<<item.name, "archive">>}
            /\ UNCHANGED <<stored, cache>>
       ELSE /\ decisions' = decisions \cup {<<item.name, "upsert">>}
            /\ stored' = stored \cup {write.row}
            /\ cache' = (cache \ Named(cache, write.row.name)) \cup {write.row}
  /\ call' = NoCall
  /\ scan' = NewScan
  /\ UNCHANGED <<reads, rows>>

(* Bound: the Space has room for the object to create. *)
Room == call.kind = "create" => Created # Objects

Sent ==
  /\ pc = "send"
  /\ Room
  /\ IF call.kind = "archive"
       THEN /\ Move("confirm")
            /\ Send
            /\ UNCHANGED <<cache, scan, reads, rows, todo, item, stored, decisions>>
       ELSE /\ Apply(Settled(call))
            /\ Done(Settled(call))
            /\ UNCHANGED <<late, others>>

SendTimesOut ==
  /\ pc = "send"
  /\ Room
  /\ Spend
  /\ TimeOut
  /\ pc' = "reconcile"
  /\ UNCHANGED <<repository, device, req, handler>>

ReadAgain ==
  /\ ~Exhausted
  /\ SpendRead
  /\ UNCHANGED <<space, cache, call, device, faults, pc, req, handler>>

GiveUp == Fails("timeout") /\ UNCHANGED <<space, repository>>

ReconcileWrite ==
  /\ pc \in {"reconcile", "confirm"}
  /\ call.kind # "create"
  /\ \/ Matches /\ Done(call) /\ UNCHANGED space
     \/ /\ ~Matches
        /\ \/ ReadAgain /\ UNCHANGED scan
           \/ Exhausted /\ GiveUp /\ UNCHANGED faults
     \/ "io" \in Faults /\ Spend /\ GiveUp

(* Seeded fault: a create that timed out is sent again unseen. *)
ReconcileCreateBlind ==
  /\ pc = "reconcile"
  /\ call.kind = "create"
  /\ Move("send")
  /\ UNCHANGED <<space, repository, rows, todo, item, stored, decisions>>

ReconcileCreate ==
  /\ pc = "reconcile"
  /\ call.kind = "create"
  /\ \/ \E i \in Candidates : Done([call EXCEPT !.row.id = i]) /\ UNCHANGED space
     \/ /\ Candidates = {}
        /\ ~LastPage(scan.offset)
        /\ ReadAgain
        /\ scan' = [scan EXCEPT !.offset = @ + PageSize]
     \/ /\ Candidates = {}
        /\ LastPage(scan.offset) \/ Exhausted
        /\ GiveUp /\ UNCHANGED faults
     \/ "io" \in Faults /\ Spend /\ GiveUp
Serve ==
  \/ Invalid \/ ListPage \/ ListFails \/ ListRefused \/ AnswerPull \/ ListPush
  \/ NextUpsert \/ NextDelete \/ AnswerPush \/ Refresh \/ Fetch
  \/ WriteFails \/ Sent \/ SendTimesOut \/ ReconcileWrite \/ ReconcileCreate

Environment ==
  \/ pc = "idle" /\ pending = {} /\ \E batch \in Batches : Edit(batch)
  \/ \E authority \in Asked : Pull(authority)
  \/ Push
  \/ \E received \in {0, 1} : Deliver(received)
  \/ /\ OtherClients
     /\ \A i \in Created' : object'[i].name \in NamesOf[object'[i].uid]
     /\ UNCHANGED <<repository, device, faults, pc, req, handler>>

Next == Serve \/ Environment

(* The handler is one synchronous call.  A sync that failed is scheduled    *)
(* again, and an answer that is not lost arrives.                           *)
Spec == Init /\ [][Next]_vars /\ WF_vars(Serve) /\ WF_vars(Push) /\ WF_vars(Deliver(1))

-----------------------------------------------------------------------------
(* Properties.                                                              *)

(* "This prevents a second Anytype object when a provider replays an edit   *)
(* with a provisional resource ID": no write makes a second live object for *)
(* a UID, unless another client adds that UID while the request is served.  *)
NoSecondObject ==
  [][\A i \in Created' \ Created, j \in Live \ touched :
       foreign' = foreign => object[j].uid # object'[i].uid]_object

(* A batch the device takes off its list is in the Space: every edit under  *)
(* the row the answer carries, nothing left of what a tombstone names,      *)
(* unless another client touched it meanwhile.                              *)
AcknowledgedStored ==
  verdict.code = "ok" =>
    \A e \in verdict.batch :
      IF e.kind = "upsert"
        THEN \E r \in verdict.rows :
               /\ r.uid = e.uid /\ r.body = e.body
               /\ r.id \in touched \/ (r.id \in Live /\ RowOf(r.id) = r)
        ELSE \A i \in Live \ touched :
               /\ object[i].name # e.name /\ i # e.id
               /\ e.id = NoId => object[i].uid # e.uid

(* A pull that ends without an error carries every contact of the Space and *)
(* no other: a failed read is never an empty collection.                    *)
PullComplete ==
  verdict.code = "ok" /\ verdict.pull /\ touched = {} =>
    verdict.rows = {RowOf(i) : i \in {j \in Live : KindOf[object[j].uid] = "contact"}}

(* Every batch the contract allows is acknowledged in the end, after any    *)
(* number of failures that end, as long as the Space can be listed.         *)
Waiting ==
  /\ pending # {}
  /\ ValidBatch(PushAuthority(pending), pending)
  /\ Leaves(Header(PushAuthority(pending)), link)

EditsArrive ==
  []Coherent({RowOf(i) : i \in Live}) => (Waiting ~> pending = {})

=============================================================================
