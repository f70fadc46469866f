------------------------------ MODULE DavService ------------------------------
(***************************************************************************)
(* A PUT or DELETE on its way through the service: crates/dav-server looks  *)
(* the resource up and checks the request's condition, the repository       *)
(* adapter checks it again and changes the Space, and crates/app records    *)
(* the complete visible state in the sync checkpoint before it answers.     *)
(* Requests are served one at a time, under one mutex; other clients of the *)
(* Space act between any two calls to it.                                   *)
(***************************************************************************)
EXTENDS AnytypeRepository

CONSTANTS
  KindOf,          \* the collection each resource name belongs to
  IfNew,           \* If-None-Match: *
  IfAny,           \* If-Match: *
  Mismatch,        \* the condition condition_for makes of a tag that is stale
  NoRow,           \* no resource in an answer
  Scope, NoScope,  \* the checkpoint's binding scope, and that of a fresh one
  Closed, NoWork,  \* sentinels of the checkpoint store
  SpaceErrors,     \* what a client is answered when a call to the Space fails
  InitialObjects,  \* bound: resources in the Space to begin with
  MaxRequests      \* bound: requests served

(* Every request and every other client may add one object. *)
ASSUME RoomAssumption == InitialObjects + MaxForeign + MaxRequests <= MaxObjects

ASSUME ServiceAssumption ==
  /\ KindOf \in [Names -> {"contact", "task"}]
  /\ InitialObjects \in Nat /\ MaxRequests \in Nat
  /\ Cardinality({NoCondition, IfNew, IfAny, Mismatch}) = 4
  /\ {NoCondition, IfNew, IfAny, Mismatch, NoRow} \cap Rows = {}

(* status_for of map_transport_error, for every error but a timeout.        *)
RemoteErrors == {"400", "401", "403", "404", "409", "429", "500", "503"}

ASSUME ErrorsAssumption == SpaceErrors \subseteq RemoteErrors

VARIABLES
  pc,        \* where the handler is
  req,       \* the request being served, or served last
  expected,  \* the write condition handed to the repository
  listed,    \* the contacts, while the tasks are still being listed
  answer,    \* the answer to req
  served,    \* requests so far
  sent,      \* history: a call for req that can change the Space was made
  view, settled, doubtful   \* the checkpoint store, see DurableCheckpoint

checkpoint == <<view, settled, doubtful>>
control    == <<pc, req, expected, listed, answer, served, sent>>
vars       == <<space, repository, control, checkpoint>>

Service == "service"

Checkpoint ==
  INSTANCE DurableCheckpoint WITH
    Ids <- Names, OpIds <- {}, Scopes <- {Scope},
    Procs <- {Service}, ScopeOf <- [p \in {Service} |-> Scope]

Conditions == {NoCondition, IfNew, IfAny} \cup Rows

Requests ==
  [method : {"PUT"}, name : Names, uid : Uids, body : Bodies, cond : Conditions]
    \cup [method : {"DELETE"}, name : Names, cond : Conditions]

NoRequest == [method |-> "none"]

Statuses == {"none", "success", "408", "412"} \cup RemoteErrors

Scanning  == {"lookup", "condition", "refresh", "contacts", "tasks"}
AtWork    == Scanning \cup {"fetch", "send", "reconcile", "confirm", "commit", "publishing"}
Stages    == AtWork \cup {"idle", "down", "poisoned"}

TypeOK ==
  /\ SpaceTypeOK
  /\ RepositoryTypeOK
  /\ pc \in Stages
  /\ req \in Requests \cup {NoRequest}
  /\ expected \in Rows \cup {NoCondition, Mismatch}
  /\ listed \subseteq Names
  /\ answer \in [status : Statuses, row : Rows \cup {NoRow}]
  /\ served \in 0..MaxRequests
  /\ sent \in BOOLEAN
  /\ view[Service] \in Checkpoint!SyncStates \cup {Closed}
  /\ settled \in Checkpoint!SyncStates
  /\ doubtful \subseteq Checkpoint!SyncStates

(* The service was last stopped with the whole Space recorded. *)
Recorded ==
  Checkpoint!Refreshed(Checkpoint!Bound(Checkpoint!EmptyState, Scope),
                       {object[i].name : i \in Created})

Init ==
  /\ object \in [Objects -> Contents \cup {Unused}]
  /\ Cardinality(Created) <= InitialObjects
  /\ \A i \in Created : \A j \in 1..i : j \in Created
  /\ Coherent({RowOf(i) : i \in Created})
  /\ archived = {} /\ late = NoCall /\ foreign = 0
  /\ touched = {} /\ recent = {}
  /\ cache = {} /\ scan = NewScan /\ call = NoCall /\ reads = 0
  /\ pc = "down" /\ req = NoRequest /\ expected = NoCondition /\ listed = {}
  /\ answer = [status |-> "none", row |-> NoRow]
  /\ served = 0 /\ sent = FALSE
  /\ view = [p \in {Service} |-> Closed]
  /\ settled = Recorded
  /\ doubtful = {}

-----------------------------------------------------------------------------
(* From one stage to the next, and the end of a request. *)

Move(from, to) ==
  /\ pc = from
  /\ pc' = to
  /\ UNCHANGED <<req, answer, served>>

Reply(from, status, row) ==
  /\ pc = from
  /\ pc' = "idle"
  /\ answer' = [status |-> status, row |-> row]
  /\ UNCHANGED <<req, expected, listed, served, sent>>

Refuse(from, status) == Reply(from, status, NoRow)

Failures == IF "io" \in Faults THEN SpaceErrors ELSE {}
TimedOut == IF "timeout" \in Faults THEN {"408"} ELSE {}

(* A step that only reads: the Space and the checkpoint stay as they are. *)
Reading == UNCHANGED <<space, reads, checkpoint>>

(* ... and the next thing is to read it anew. *)
LookAgain ==
  /\ scan' = NewScan
  /\ recent' = {}
  /\ UNCHANGED <<object, archived, late, foreign, touched, reads, checkpoint>>

(* ETags a client may hold: of this version or another of the same object. *)
Tags(name) ==
  {[RowOf(i) EXCEPT !.body = b] :
     i \in {j \in Created : object[j].name = name}, b \in Bodies}

ClientConditions(name) == {NoCondition, IfNew, IfAny} \cup Tags(name)

ClientRequests ==
  UNION {[method : {"PUT"}, name : {n}, uid : Uids, body : Bodies, cond : ClientConditions(n)]
           \cup [method : {"DELETE"}, name : {n}, cond : ClientConditions(n)] : n \in Names}

Receive(r) ==
  /\ pc = "idle"
  /\ served < MaxRequests
  /\ pc' = "lookup"
  /\ req' = r
  /\ answer' = [status |-> "none", row |-> NoRow]
  /\ served' = served + 1
  /\ sent' = FALSE
  /\ touched' = {} /\ recent' = {}
  /\ scan' = NewScan /\ call' = NoCall /\ reads' = 0 /\ expected' = NoCondition
  /\ UNCHANGED <<object, archived, late, foreign, cache, listed, checkpoint>>

-----------------------------------------------------------------------------
(* Every stage that begins with a hydrate. *)

ScanPage ==
  /\ pc \in Scanning
  /\ ReadPage
  /\ UNCHANGED <<space, cache, call, reads, control, checkpoint>>

AfterWrite == {"contacts", "tasks"}

(* A read of the listing fails.  Once the write is done that is an error of *)
(* the checkpoint, whatever failed; before, its own status is answered.     *)
ScanFails ==
  /\ pc \in Scanning
  /\ ~scan.done
  /\ \E status \in Failures \cup TimedOut :
       Refuse(pc, IF pc \in AfterWrite THEN "500" ELSE status)
  /\ UNCHANGED <<cache, scan, call>>
  /\ Reading

ScanRefused ==
  /\ pc \in Scanning
  /\ HydrateFails
  /\ Refuse(pc, IF pc \in AfterWrite THEN "500" ELSE "409")
  /\ UNCHANGED <<scan, call>>
  /\ Reading

Found == Named(scan.rows, req.name)

-----------------------------------------------------------------------------
(* put and delete: the lookup. *)

LookupRefuses(status) ==
  /\ Hydrated
  /\ Refuse("lookup", status)
  /\ UNCHANGED <<scan, call>>
  /\ Reading

LookupProceeds(to, condition, write) ==
  /\ Hydrated
  /\ Move("lookup", to)
  /\ expected' = condition
  /\ call' = write
  /\ UNCHANGED <<listed, sent>>
  /\ LookAgain

OtherUid == \E r \in Found : r.uid # req.uid

PutWrite(kind, id) ==
  [kind |-> kind, extra |-> NoExtra,
   row |-> [name |-> req.name, uid |-> req.uid, body |-> req.body, id |-> id]]

Provisional == 0

PutLookup ==
  /\ pc = "lookup" /\ scan.done
  /\ req.method = "PUT"
  /\ \/ OtherUid /\ LookupRefuses("409")
     \/ \E r \in Found :
          /\ r.uid = req.uid
          /\ \/ req.cond = IfNew /\ LookupRefuses("412")
             \/ req.cond = NoCondition
                  /\ LookupProceeds("refresh", NoCondition, PutWrite("update", r.id))
             \/ req.cond = IfAny
                  /\ LookupProceeds("refresh", r, PutWrite("update", r.id))
             \/ req.cond \in Rows
                  /\ LookupProceeds("condition", NoCondition, PutWrite("update", r.id))
     \/ /\ Found = {}
        /\ \/ /\ req.cond \in {NoCondition, IfNew}
              /\ \/ Taken(scan.rows, req.name, req.uid, Provisional) /\ LookupRefuses("409")
                 \/ /\ ~Taken(scan.rows, req.name, req.uid, Provisional)
                    /\ LookupProceeds("send", NoCondition, PutWrite("create", 1))
           \/ req.cond \in Rows /\ LookupProceeds("condition", NoCondition, NoCall)

(* If-Match: * on a missing resource: existing.expect(..) panics under the  *)
(* service's mutex, which stays poisoned.                                   *)
PutPanics ==
  /\ req.method = "PUT"
  /\ req.cond = IfAny
  /\ Found = {}
  /\ Hydrated
  /\ Move("lookup", "poisoned")
  /\ UNCHANGED <<scan, call, expected, listed, sent>>
  /\ Reading

DeleteLookup ==
  /\ pc = "lookup" /\ scan.done
  /\ req.method = "DELETE"
  /\ \/ Found = {} /\ LookupRefuses("404")
     \/ /\ Found # {}
        /\ \/ req.cond = IfNew /\ LookupRefuses("412")
           \/ req.cond \in {NoCondition, IfAny}
                /\ LookupProceeds("refresh", NoCondition, NoCall)
           \/ req.cond \in Rows /\ LookupProceeds("condition", NoCondition, NoCall)

(* condition_for: the tag sent is current, or nothing will match. *)
Condition ==
  /\ Hydrated
  /\ Move("condition", "refresh")
  /\ expected' = IF req.cond \in Found THEN req.cond ELSE Mismatch
  /\ UNCHANGED <<call, listed, sent>>
  /\ LookAgain

-----------------------------------------------------------------------------
(* update_resource and archive_resource: hydrate, preflight, write. *)

RefreshRefuses(status) ==
  /\ Hydrated
  /\ Refuse("refresh", status)
  /\ UNCHANGED <<scan, call>>
  /\ Reading

RefreshProceeds(to, write) ==
  /\ Hydrated
  /\ Move("refresh", to)
  /\ call' = write
  /\ UNCHANGED <<scan, expected, listed, sent>>
  /\ Reading

(* The object to update, or the provisional identifier no object has. *)
Target == IF call = NoCall THEN Provisional ELSE call.row.id

Refresh ==
  /\ pc = "refresh" /\ scan.done
  /\ \/ Found = {} /\ RefreshRefuses("404")
     \/ \E r \in Found :
          \/ ~Accepts(expected, r) /\ RefreshRefuses("412")
          \/ /\ Accepts(expected, r)
             /\ \/ /\ req.method = "PUT"
                   /\ \/ /\ Taken(scan.rows, req.name, req.uid, Target)
                         /\ RefreshRefuses("409")
                      \/ /\ ~Taken(scan.rows, req.name, req.uid, Target)
                         /\ RefreshProceeds("fetch", call)
                \/ /\ req.method = "DELETE"
                   /\ RefreshProceeds("send", [kind |-> "archive", id |-> r.id])

(* push_update reads the object to carry its other properties forward.  If  *)
(* the read says there is no such object it goes on without them.           *)
Fetch ==
  /\ call # NoCall
  /\ Move("fetch", "send")
  /\ \/ call' = [call EXCEPT !.extra = object[call.row.id].extra]
     \/ "404" \in Failures /\ UNCHANGED call
  /\ UNCHANGED <<cache, scan, expected, listed, sent>>
  /\ Reading

(* The lookup missed a resource that the later hydrates show: the update    *)
(* goes to an identifier the Space does not know.                           *)
UpdateNothing ==
  /\ call = NoCall
  /\ \/ Refuse("fetch", "404")
     \/ \E status \in Failures \cup TimedOut : Refuse("fetch", status)
  /\ UNCHANGED <<space, repository, checkpoint>>

FetchFails ==
  /\ \E status \in (Failures \ {"404"}) \cup TimedOut : Refuse("fetch", status)
  /\ UNCHANGED <<space, repository, checkpoint>>

(* What is answered when the Space's own answer is broken off or unreadable. *)
Unreadable == {"500", "503"}

(* The call fails, not by a timeout.  The error is answered at once, even   *)
(* where the Space may have carried the call out.                           *)
WriteFails ==
  /\ pc = "send"
  /\ pc' = "idle"
  /\ sent' = TRUE
  /\ \E status \in Failures :
       /\ answer' = [status |-> status, row |-> NoRow]
       /\ \/ UNCHANGED <<object, archived>>
          \/ status \in Unreadable /\ Apply(Settled(call))
  /\ UNCHANGED <<late, others, repository, req, expected, listed, served, checkpoint>>

(* Seeded fault: the condition is checked again once the write is done. *)
AfterUpdateChecked == "refresh"

AfterUpdate == "contacts"

WriteSucceeds ==
  /\ Move("send", IF call.kind = "archive" THEN "confirm" ELSE AfterUpdate)
  /\ Send
  /\ sent' = TRUE
  /\ scan' = NewScan
  /\ UNCHANGED <<cache, reads, expected, listed, checkpoint>>

WriteTimesOut ==
  /\ Move("send", "reconcile")
  /\ TimeOut
  /\ sent' = TRUE
  /\ scan' = NewScan
  /\ UNCHANGED <<cache, call, reads, expected, listed, checkpoint>>

-----------------------------------------------------------------------------
(* reconcile_write, reconcile_create and confirm_archive: a bounded number  *)
(* of reads, of the object or of list pages.                                *)

Recognised(write) ==
  /\ Move(pc, "contacts")
  /\ call' = write
  /\ scan' = NewScan
  /\ UNCHANGED <<cache, expected, listed, sent>>
  /\ Reading

ReadAgain ==
  /\ ~Exhausted
  /\ SpendRead
  /\ UNCHANGED <<space, cache, call, control, checkpoint>>

GiveUp(status) ==
  /\ Refuse(pc, status)
  /\ UNCHANGED <<space, repository, checkpoint>>

(* A read may not show the write, or fail; a timeout counts as the former,  *)
(* and so does a missing object, unless an archive is being confirmed.      *)
ReconcileWrite ==
  /\ pc \in {"reconcile", "confirm"}
  /\ call.kind # "create"
  /\ \/ Matches /\ Recognised(call)
     \/ /\ ~Matches \/ "io" \in Faults
        /\ \/ ReadAgain /\ UNCHANGED scan
           \/ Exhausted /\ GiveUp("408")
     \/ \E status \in Failures :
          /\ pc = "reconcile" => status # "404"
          /\ GiveUp(status)

ReconcileCreate ==
  /\ pc = "reconcile"
  /\ call.kind = "create"
  /\ \/ \E i \in Candidates : Recognised([call EXCEPT !.row.id = i])
     \/ /\ Candidates = {}
        /\ ~LastPage(scan.offset)
        /\ ReadAgain
        /\ scan' = [scan EXCEPT !.offset = @ + PageSize]
     \/ /\ \/ Candidates = {} /\ (LastPage(scan.offset) \/ Exhausted)
           \/ "io" \in Faults
        /\ GiveUp("408")
     \/ \E status \in Failures : GiveUp(status)

-----------------------------------------------------------------------------
(* checkpoint_visible_state: contacts, tasks, replace_observed, and the     *)
(* audit event.                                                             *)

Members(kind) == {n \in {r.name : r \in scan.rows} : KindOf[n] = kind}

ListContacts ==
  /\ Hydrated
  /\ Move("contacts", "tasks")
  /\ listed' = Members("contact")
  /\ scan' = NewScan
  /\ UNCHANGED <<call, expected, sent>>
  /\ Reading

(* Seeded fault: the contacts are forgotten. *)
VisibleTasks == Members("task")

Visible == listed \cup Members("task")

ListTasks ==
  /\ Hydrated
  /\ ~Checkpoint!RefreshBlocked(view[Service], Visible)
  /\ Move("tasks", "commit")
  /\ listed' = Visible
  /\ UNCHANGED <<scan, call, expected, sent>>
  /\ Reading

(* A resource deleted through the service came back. *)
CheckpointBlocked ==
  /\ Hydrated
  /\ Checkpoint!RefreshBlocked(view[Service], Visible)
  /\ Refuse("tasks", "500")
  /\ UNCHANGED <<scan, call>>
  /\ Reading

Candidate == Checkpoint!Refreshed(view[Service], listed)

CommitAttempt ==
  /\ Move("commit", "publishing")
  /\ Checkpoint!Attempt(Service, Candidate)
  /\ UNCHANGED <<space, repository, expected, listed, sent>>

CommitFails ==
  /\ "commit" \in Faults
  /\ \E stage \in {"commit", "publishing"} : Refuse(stage, "500")
  /\ UNCHANGED <<space, repository, checkpoint>>

CommitSettles ==
  /\ pc = "publishing"
  /\ Checkpoint!Settle(Service, Candidate)
  /\ \/ Reply("publishing", "success",
              IF req.method = "PUT" THEN call.row ELSE NoRow)
     \/ "audit" \in Faults /\ Refuse("publishing", "503")
  /\ UNCHANGED <<space, repository>>

-----------------------------------------------------------------------------
(* The process.  A restart finds the Space as it is and whatever the        *)
(* checkpoint store then shows.                                             *)

Start ==
  /\ Move("down", "idle")
  /\ Checkpoint!Open(Service)
  /\ UNCHANGED <<space, repository, expected, listed, sent>>

Crash ==
  /\ "crash" \in Faults
  /\ pc # "down"
  /\ pc' = "down"
  /\ Checkpoint!End(Service)
  /\ req' = NoRequest
  /\ answer' = [status |-> "none", row |-> NoRow]
  /\ expected' = NoCondition /\ listed' = {} /\ sent' = FALSE
  /\ cache' = {} /\ scan' = NewScan /\ call' = NoCall /\ reads' = 0
  /\ UNCHANGED <<space, served>>

Serve ==
  \/ ScanPage \/ ScanFails \/ ScanRefused
  \/ PutLookup \/ PutPanics \/ DeleteLookup \/ Condition \/ Refresh
  \/ Fetch \/ FetchFails \/ UpdateNothing \/ WriteFails \/ WriteSucceeds \/ WriteTimesOut
  \/ ReconcileWrite \/ ReconcileCreate
  \/ ListContacts \/ ListTasks \/ CheckpointBlocked
  \/ CommitAttempt \/ CommitFails \/ CommitSettles

Environment ==
  \/ pc = "idle" /\ \E r \in ClientRequests : Receive(r)
  \/ Start \/ Crash
  \/ (OtherClients \/ Land \/ Lose) /\ UNCHANGED <<repository, control, checkpoint>>

Next == Serve \/ Environment

(* The handler is one synchronous call: it takes its next step.             *)
Spec == Init /\ [][Next]_vars /\ WF_vars(Serve)

-----------------------------------------------------------------------------
(* Properties.                                                              *)

Answered(status) == pc = "idle" /\ answer.status = status

(* "A rejected DAV precondition must never become a remote mutation         *)
(* followed by a local 412": whatever fails, no call that can change the    *)
(* Space was made for a request that is answered 412.  The same holds of    *)
(* 404 and 409 as far as they are the service's own; the Space's, which the *)
(* reads after a write may meet as well, are answered as they are.          *)
RefusedUnsent ==
  \A status \in {"412"} \cup ({"404", "409"} \ Failures) : Answered(status) => ~sent

(* The service never makes two live resources with one name or one UID,     *)
(* whatever times out and whatever the client sends again: that would make  *)
(* every later hydrate fail.                                                *)
UniqueIdentity == Coherent({RowOf(i) : i \in Live})

(* A PUT or DELETE with If-Match changes exactly the version it names,      *)
(* unless another client changed it after the service began its last look.  *)
NoLostUpdate ==
  [][\A i \in Created \ recent :
       /\ req.method # "none" /\ req.cond \in Rows
       /\ foreign' = foreign
       /\ object'[i] # object[i] \/ i \in archived' \ archived
       => RowOf(i) = req.cond]_space

(* Success means stored: the Space holds the resource under the ETag in the *)
(* answer, or has archived it, unless another client changed it since.      *)
SuccessStored ==
  Answered("success") =>
    IF req.method = "PUT"
      THEN \/ call.row.id \in touched
           \/ call.row.id \in Live /\ RowOf(call.row.id) = answer.row
      ELSE call.id \in archived

(* Success means recorded: the service checkpoints "the complete visible    *)
(* collection state before returning success".                              *)
LiveNames(ids) == {object[i].name : i \in ids}
SuccessRecorded ==
  Answered("success") =>
    /\ LiveNames(Live \ touched) \subseteq settled.observed
    /\ touched = {} => settled.observed \subseteq LiveNames(Live)

(* Every request is answered, or the process has died or is poisoned.       *)
EveryRequestEnds == pc \in AtWork ~> pc \notin AtWork

(* "The existing-resource lookup above establishes that fact" (put in       *)
(* crates/dav-server): the wildcard branch never meets a missing resource.  *)
WildcardFindsResource == pc # "poisoned"
=============================================================================
