--------------------------- MODULE AndroidSyncProofs ---------------------------
(***************************************************************************)
(* Proofs about AndroidSync, for any number of batches, failures and other  *)
(* clients: what a device is told was stored or listed is so, and no write  *)
(* makes a second object for a UID.                                         *)
(***************************************************************************)
EXTENDS AndroidSync, SpaceProofs

-----------------------------------------------------------------------------
(* The invariant of types and identities: every object has a name of its     *)
(* UID's, and so has every row, item and call.                               *)

ItemOK(e) ==
  /\ e \in Upserts \cup Deletes
  /\ e.name \in NamesOf[e.uid]
  /\ e.id # NoId => e.id \in Created /\ object[e.id].uid = e.uid

BatchOK(batch) ==
  /\ \A e \in batch : ItemOK(e)
  /\ \A e, f \in batch : e # f => e.uid # f.uid

WellNamed == \A i \in Created : object[i].name \in NamesOf[object[i].uid]

SpaceOK ==
  /\ ObjectsTyped /\ InOrder /\ WellNamed
  /\ archived \subseteq Created
  /\ foreign \in Nat
  /\ recent \subseteq touched

RowsOK(carried) == \A r \in carried : r \in Rows /\ NamesObject(r)

ScanOK == scan \in Scans /\ RowsOK(scan.rows)

Writing == {"refresh", "fetch", "send", "reconcile", "confirm"}
Pushing == {"next"} \cup Writing

RequestOK ==
  /\ pc \in Stages
  /\ BatchOK(pending) /\ BatchOK(req.batch)
  /\ todo \subseteq req.batch
  /\ pc # "idle" => verdict.code # "ok"
  /\ pc = "list" => todo = req.batch
  /\ pc = "wire" => todo = {}
  /\ pc \in Pushing => req.batch # {} /\ RowsOK(rows)

(* The call carries out the item: it names an object of the item's UID.      *)
CallOK ==
  pc \in Writing =>
    /\ item \in todo
    /\ call \in Mutations
    /\ call.kind \in {"create", "update"} =>
         /\ item.kind = "upsert"
         /\ call.row.uid = item.uid /\ call.row.body = item.body
         /\ call.row.name \in NamesOf[item.uid]
    /\ call.kind = "update" => NamesObject(call.row)
    /\ call.kind = "archive" =>
         item.kind = "delete" /\ call.id \in Created /\ object[call.id].uid = item.uid
    /\ pc = "refresh" => call.kind # "create"
    /\ pc = "fetch" => call.kind = "update"
    /\ pc = "confirm" => call.kind = "archive"

TypeInv == SpaceOK /\ ScanOK /\ RequestOK /\ CallOK

-----------------------------------------------------------------------------
(* What a step does to the Space.                                            *)

Handling == UNCHANGED <<object, archived, touched, foreign>> /\ recent' \subseteq recent

Received ==
  /\ UNCHANGED <<object, archived, foreign>> /\ touched' = {} /\ recent' = {}
  /\ pc = "idle" /\ pc' \in {"idle", "list"} /\ verdict'.code # "ok"

Written ==
  /\ Sent \/ SendTimesOut
  /\ Apply(Settled(call)) /\ UNCHANGED <<touched, recent, foreign>>

Disturbed ==
  /\ OtherClients /\ WellNamed'
  /\ UNCHANGED <<repository, device, faults, pc, req, handler>>

LEMMA LocallyRefused == \A header, account : LocalVerdict(header, account) # "ok"
  BY DEF LocalVerdict

LEMMA Steps ==
  ASSUME [Next]_vars
  PROVE  Handling \/ Received \/ Written \/ Disturbed
  <1> USE DEF Handling, Answer, Move, Fails, Refuse, Reading
  <1>1. CASE Invalid \/ ListPage \/ ListFails \/ ListRefused \/ AnswerPull \/ ListPush
    BY <1>1 DEF Invalid, ListPage, ListFails, ListRefused, AnswerPull, ListPush, space
  <1>2. CASE NextUpsert
    BY <1>2 DEF NextUpsert, NextUpdate, NextCreate, Look, space
  <1>3. CASE NextDelete
    BY <1>3 DEF NextDelete, Look, space
  <1>4. CASE AnswerPush \/ Refresh \/ Fetch \/ WriteFails
    BY <1>4 DEF AnswerPush, Refresh, Fetch, WriteFails, space
  <1>5. CASE Sent
    BY <1>5 DEF Sent, Send, others, Written
  <1>6. CASE SendTimesOut
    BY <1>6 DEF SendTimesOut, TimeOut, others, Written
  <1>7. CASE ReconcileWrite \/ ReconcileCreate
    BY <1>7 DEF ReconcileWrite, ReconcileCreate, ReadAgain, GiveUp, space
  <1>8. ASSUME NEW batch \in Batches, Edit(batch) PROVE Handling
    BY <1>8 DEF Edit, space
  <1>9. ASSUME NEW authority, NEW batch, Request(authority, batch) PROVE Received
    BY <1>9, LocallyRefused DEF Request, Received, NoVerdict
  <1>10. ASSUME NEW received, Deliver(received) PROVE Handling
    BY <1>10 DEF Deliver, space
  <1>11. CASE /\ OtherClients
              /\ \A i \in Created' : object'[i].name \in NamesOf[object'[i].uid]
              /\ UNCHANGED <<repository, device, faults, pc, req, handler>>
    BY <1>11 DEF Disturbed, WellNamed
  <1>12. CASE UNCHANGED vars
    BY <1>12 DEF vars, space
  <1>13. QED
    BY <1>1, <1>2, <1>3, <1>4, <1>5, <1>6, <1>7, <1>8, <1>9, <1>10, <1>11, <1>12
       DEF Next, Serve, Environment, Pull, Push

(* The write the handler sends is carried out on one object of the item's    *)
(* UID.                                                                      *)
Lands(write, to) ==
  IF write.kind = "archive"
    THEN to = write /\ archived' = archived \cup {write.id} /\ object' = object
    ELSE write \in Writes /\ Stored(write, to) /\ to.row.id \in Objects /\ NamesObject(to.row)'

LEMMA WrittenLands ==
  ASSUME TypeInv, Written, NEW write, write = call, NEW to, to = Settled(write)
  PROVE  /\ pc = "send" /\ item \in todo /\ write \in Mutations /\ Lands(write, to)
         /\ ObjectsTyped' /\ InOrder' /\ Persists /\ archived' \subseteq Created'
  <1>1. pc = "send" /\ Room /\ Apply(to)
    BY DEF Written, Sent, SendTimesOut
  <1>2. /\ write \in Mutations /\ item \in todo
        /\ write.kind = "update" => NamesObject(write.row)
        /\ write.kind = "archive" => write.id \in Created
        /\ ObjectsTyped /\ InOrder /\ archived \subseteq Created
    BY <1>1 DEF TypeInv, CallOK, SpaceOK, Writing
  <1>3. CASE write.kind = "archive"
    <2>1. to = write /\ archived' = archived \cup {write.id} /\ object' = object
      BY <1>1, <1>3, ArchiveEffect
    <2>2. Persists /\ Created' = Created
      BY <2>1, SameObjects
    <2>3. QED BY <1>1, <1>2, <1>3, <2>1, <2>2 DEF Lands, ObjectsTyped, InOrder
  <1>4. CASE write.kind \in {"create", "update"}
    <2>1. write \in Writes
      BY <1>2, <1>4 DEF Mutations, Writes
    <2>2. write.kind = "create" => Cardinality(Created) < MaxObjects
      <3>1. Created \subseteq Objects /\ IsFiniteSet(Objects) /\ Cardinality(Objects) = MaxObjects
        BY FiniteSpace DEF Created
      <3>2. Created # Objects => Cardinality(Created) # MaxObjects
        BY <3>1, FS_Subset
      <3>3. Cardinality(Created) \in 0..MaxObjects
        BY FiniteSpace
      <3>4. QED BY <1>1, <3>2, <3>3, SpaceAssumption DEF Room
    <2>3. Stored(write, to)
      BY <1>1, <1>2, <2>1, <2>2, WriteEffect
    <2>4. Persists /\ InOrder' /\ to.row.id \in Objects /\ NamesObject(to.row)'
      BY <1>2, <2>1, <2>3, StoredPersists
    <2>5. ObjectsTyped' /\ archived' \subseteq Created'
      BY <1>2, <2>3, <2>4 DEF Stored, Persists
    <2>6. QED BY <1>1, <1>2, <1>4, <2>1, <2>3, <2>4, <2>5 DEF Lands
  <1>5. QED BY <1>2, <1>3, <1>4 DEF Mutations

LEMMA StepKeepsSpace ==
  ASSUME TypeInv, [Next]_vars
  PROVE  SpaceOK' /\ Persists
  <1>1. SpaceOK
    BY DEF TypeInv
  <1>2. ASSUME object' = object, archived' = archived, foreign' = foreign,
               recent' \subseteq touched'
        PROVE  SpaceOK' /\ Persists
    <2>1. Persists /\ Created' = Created
      BY <1>2, SameObjects
    <2>2. QED BY <1>1, <1>2, <2>1 DEF SpaceOK, ObjectsTyped, InOrder, WellNamed
  <1>3. CASE Handling
    BY <1>1, <1>2, <1>3 DEF Handling, SpaceOK
  <1>4. CASE Received
    BY <1>2, <1>4 DEF Received
  <1>5. CASE Written
    <2>1. PICK write, to : write = call /\ to = Settled(write)
      OBVIOUS
    <2>2. /\ pc = "send" /\ write \in Mutations /\ Lands(write, to)
          /\ ObjectsTyped' /\ InOrder' /\ Persists /\ archived' \subseteq Created'
      BY <1>5, <2>1, WrittenLands
    <2>3. WellNamed'
      <3>1. CASE write.kind = "archive"
        BY <1>1, <2>2, <3>1, SameObjects DEF Lands, WellNamed, SpaceOK
      <3>2. CASE write.kind # "archive"
        <4>1. /\ Created' = Created \cup {to.row.id} /\ to.row.id \in Objects
              /\ \A j \in Objects \ {to.row.id} : object'[j] = object[j]
              /\ object'[to.row.id].name = write.row.name
              /\ object'[to.row.id].uid = write.row.uid
          BY <2>2, <3>2 DEF Lands, Stored
        <4>2. write.row.name \in NamesOf[write.row.uid]
          BY <2>1, <2>2, <3>2 DEF TypeInv, CallOK, Writing, Mutations
        <4>3. \A j \in Created' : j = to.row.id \/ (j \in Created /\ object'[j] = object[j])
          BY <4>1 DEF Created
        <4>4. QED BY <1>1, <4>1, <4>2, <4>3 DEF WellNamed, SpaceOK
      <3>3. QED BY <3>1, <3>2
    <2>4. QED BY <1>1, <1>5, <2>2, <2>3 DEF SpaceOK, Written
  <1>6. CASE Disturbed
    <2>1. PICK i \in Objects : OthersChange(i)
      BY <1>1, <1>6, OthersChangeOne DEF Disturbed, SpaceOK
    <2>2. Persists /\ InOrder' /\ archived' \subseteq Created'
      BY <1>1, <2>1, OthersPersist DEF SpaceOK
    <2>3. QED BY <1>1, <1>6, <2>1, <2>2 DEF SpaceOK, OthersChange, Disturbed
  <1>7. QED BY <1>3, <1>4, <1>5, <1>6, Steps

-----------------------------------------------------------------------------
(* Types and identities.                                                     *)

LEMMA ItemsKept ==
  ASSUME Persists
  PROVE  /\ \A e : ItemOK(e) => ItemOK(e)'
         /\ \A batch : BatchOK(batch) => BatchOK(batch)'
         /\ \A carried : RowsOK(carried) => RowsOK(carried)'
  BY NamesKept DEF Persists, ItemOK, BatchOK, RowsOK

LEMMA EditsOK ==
  ASSUME SpaceOK, NEW batch \in Batches
  PROVE  BatchOK(batch)
  <1>1. PICK size \in 1..MaxItems : batch \in kSubset(size, Edits)
    BY DEF Batches
  <1>2. batch \subseteq Edits
    BY <1>1 DEF kSubset
  <1>3. ASSUME NEW e \in Edits PROVE ItemOK(e)
    <2>1. ASSUME NEW u \in Uids, NEW n \in NamesOf[u], NEW i \in KnownIds(u)
          PROVE  /\ n \in Names
                 /\ i \in Objects \cup {NoId}
                 /\ i # NoId => i \in Created /\ object[i].uid = u
      BY AndroidAssumption DEF KnownIds, Created
    <2>2. PICK u \in Uids : e \in EditsOf(u)
      BY DEF Edits
    <2>3. CASE e.kind = "upsert"
      BY <2>1, <2>2, <2>3 DEF EditsOf, ItemOK, Upserts, NewBodies
    <2>4. CASE e.kind # "upsert"
      BY <2>1, <2>2, <2>4 DEF EditsOf, ItemOK, Deletes
    <2>5. QED BY <2>3, <2>4
  <1>4. \A e, f \in batch : e # f => e.uid # f.uid
    BY DEF Batches
  <1>5. QED BY <1>2, <1>3, <1>4 DEF BatchOK

LEMMA NoItems == BatchOK({}) /\ RowsOK({})
  BY DEF BatchOK, RowsOK

(* A page shows objects under the names they have.                           *)
LEMMA ScanStep ==
  ASSUME TypeInv, [Next]_vars
  PROVE  ScanOK'
  <1>1. Persists
    BY StepKeepsSpace
  <1>2. ScanOK /\ scan \in Scans /\ ObjectsTyped
    BY DEF TypeInv, ScanOK, SpaceOK
  <1>3. CASE scan' = NewScan
    BY <1>3 DEF ScanOK, NewScan, Scans, RowsOK
  <1>4. CASE scan' = scan
    BY <1>1, <1>2, <1>4, ItemsKept DEF ScanOK
  <1>5. CASE ReadPage /\ UNCHANGED <<object, archived>>
    <2>1. ASSUME NEW i \in Live PROVE RowOf(i) \in Rows /\ NamesObject(RowOf(i))
      <3>1. i \in Created /\ i \in Objects /\ object[i] \in Contents
        BY <1>2 DEF Live, Created, ObjectsTyped
      <3>2. QED BY <3>1 DEF RowOf, Rows, Contents, NamesObject
    <2>2. \A r \in scan'.rows : r \in Rows /\ NamesObject(r)
      BY <1>2, <1>5, <2>1, PageRows DEF ScanOK, RowsOK
    <2>3. scan' \in Scans
      <3>1. scan'.rows \subseteq Rows
        BY <2>2
      <3>2. scan'.offset = scan.offset + PageSize /\ scan.offset \in Nat
        BY <1>2, <1>5 DEF ReadPage, Scans
      <3>3. scan'.offset \in Nat
        BY <3>2, SpaceAssumption
      <3>4. LastPage(scan.offset) \in BOOLEAN
        BY DEF LastPage
      <3>5. scan' = [offset |-> scan'.offset, rows |-> scan'.rows, done |-> LastPage(scan.offset)]
        BY <1>5, Zenon DEF ReadPage
      <3>6. QED BY <3>1, <3>3, <3>4, <3>5 DEF Scans
    <2>4. QED BY <1>1, <2>2, <2>3, NamesKept DEF ScanOK, RowsOK
  <1>6. CASE scan' = [scan EXCEPT !.offset = @ + PageSize]
    <2>1. scan' \in Scans /\ scan'.rows = scan.rows
      BY <1>2, <1>6, SpaceAssumption DEF Scans
    <2>2. QED BY <1>1, <1>2, <2>1, ItemsKept DEF ScanOK
  <1>7. CASE Serve
    BY <1>3, <1>4, <1>5, <1>6, <1>7 DEF Serve, Invalid, ListPage, ListFails, ListRefused,
         AnswerPull, ListPush, NextUpsert, NextUpdate, NextCreate, NextDelete, Look, AnswerPush,
         Refresh, Fetch, WriteFails, Sent, SendTimesOut, ReconcileWrite, ReconcileCreate, Done,
         ReadAgain, GiveUp, repository, space
  <1>8. CASE Environment
    BY <1>3, <1>4, <1>8 DEF Environment, Edit, Pull, Push, Request, Deliver, repository
  <1>9. CASE UNCHANGED vars
    BY <1>4, <1>9 DEF vars, repository
  <1>10. QED BY <1>7, <1>8, <1>9 DEF Next

LEMMA RowsTyped ==
  ASSUME TypeInv, NEW kind
  PROVE  RowsOK(Staged) /\ RowsOK(Listed)
  BY DEF TypeInv, ScanOK, RowsOK, Staged, Listed

(* A row that matches an item is of the item's UID.                          *)
LEMMA TargetUid ==
  ASSUME TypeInv, pc \in Pushing, NEW e \in todo, NEW r \in Targets(e)
  PROVE  /\ r \in rows /\ r \in Rows /\ NamesObject(r)
         /\ r.uid = e.uid /\ r.name \in NamesOf[e.uid]
  <1>1. r \in rows /\ r \in Rows /\ NamesObject(r) /\ Matched(r, e)
    BY DEF Targets, TypeInv, RequestOK, RowsOK
  <1>2. ItemOK(e) /\ e.uid \in Uids
    BY DEF TypeInv, RequestOK, BatchOK, ItemOK, Upserts, Deletes
  <1>3. r.name \in NamesOf[r.uid] /\ r.uid \in Uids /\ r.id \in Objects
    BY <1>1 DEF TypeInv, SpaceOK, WellNamed, NamesObject, Rows
  <1>4. CASE r.name = e.name
    BY <1>1, <1>2, <1>3, <1>4, AndroidAssumption DEF ItemOK
  <1>5. CASE r.id = e.id
    <2>1. e.id # NoId
      BY <1>3, <1>5 DEF NoId, Objects
    <2>2. QED BY <1>1, <1>2, <1>3, <1>5, <2>1 DEF ItemOK, NamesObject
  <1>6. CASE r.uid = e.uid
    BY <1>1, <1>3, <1>6
  <1>7. QED BY <1>1, <1>4, <1>5, <1>6 DEF Matched

LEMMA ErrorsRefuse == \A error : ErrorAnswer(error)[2] # "ok"
  BY DEF ErrorAnswer

(* A request that is being answered, or not being served.                    *)
LEMMA Answering ==
  ASSUME TypeInv, Persists, pc' = "wire", verdict' = verdict, UNCHANGED <<req, pending>>,
         todo' = {}, pc # "idle"
  PROVE  RequestOK' /\ CallOK'
  <1>1. BatchOK(pending)' /\ BatchOK(req.batch)'
    <2>1. PICK batch, mine : batch = req.batch /\ mine = pending
      OBVIOUS
    <2>2. BatchOK(batch)' /\ BatchOK(mine)'
      BY <2>1, ItemsKept DEF TypeInv, RequestOK
    <2>3. QED BY <2>1, <2>2 DEF BatchOK
  <1>2. QED BY <1>1 DEF TypeInv, RequestOK, CallOK, Stages, Pushing, Writing

(* The stages of a push leave the request as it is.                          *)
LEMMA Pushed ==
  ASSUME TypeInv, Persists, pc \in Pushing \cup {"list"}, pc' \in Pushing,
         UNCHANGED <<req, pending, verdict>>, req.batch # {},
         todo' \subseteq todo, (rows' = rows /\ pc \in Pushing) \/ RowsOK(rows')
  PROVE  RequestOK'
  <1>1. PICK batch, mine, before, after :
          batch = req.batch /\ mine = pending /\ before = rows /\ after = rows'
    OBVIOUS
  <1>2. BatchOK(batch)' /\ BatchOK(mine)'
    BY <1>1, ItemsKept DEF TypeInv, RequestOK
  <1>3. RowsOK(after)'
    BY <1>1, ItemsKept DEF TypeInv, RequestOK, Pushing
  <1>4. BatchOK(pending)' /\ BatchOK(req.batch)' /\ RowsOK(rows)'
    BY <1>1, <1>2, <1>3 DEF BatchOK, RowsOK
  <1>5. QED BY <1>4 DEF TypeInv, RequestOK, Stages, Pushing, Writing, Listing

LEMMA QuietRequest ==
  ASSUME TypeInv, Persists, UNCHANGED <<pc, req, pending, verdict, todo, rows, item, call>>
  PROVE  RequestOK' /\ CallOK'
  <1>1. PICK batch, mine, before, write :
          batch = req.batch /\ mine = pending /\ before = rows /\ write = call
    OBVIOUS
  <1>2. BatchOK(batch)' /\ BatchOK(mine)' /\ (pc \in Pushing => RowsOK(before)')
    BY <1>1, ItemsKept DEF TypeInv, RequestOK
  <1>3. RequestOK'
    BY <1>1, <1>2 DEF TypeInv, RequestOK, BatchOK, RowsOK
  <1>4. CallOK'
    <2>1. call.kind = "update" /\ pc \in Writing => NamesObject(write.row)'
      BY <1>1, NamesKept DEF TypeInv, CallOK
    <2>2. call.kind = "archive" /\ pc \in Writing =>
            call.id \in Created' /\ object'[call.id].uid = item.uid
      BY DEF TypeInv, CallOK, Persists
    <2>3. QED BY <1>1, <2>1, <2>2 DEF TypeInv, CallOK, NamesObject
  <1>5. QED BY <1>3, <1>4

LEMMA NextStep ==
  ASSUME TypeInv, Persists, NextUpsert \/ NextDelete
  PROVE  RequestOK' /\ CallOK'
  <1> USE DEF Move, Look
  <1>1. pc = "next" /\ pc \in Pushing
    BY DEF NextUpsert, NextDelete, Pushing
  <1>2. ASSUME NEW e \in todo, NEW to \in {"refresh", "send"}, NEW write, Look(e, to, write)
        PROVE  RequestOK'
    BY <1>1, <1>2, Pushed DEF Pushing, Writing, device, TypeInv, RequestOK
  <1>3. ASSUME NEW e \in UpsertsOf(todo), NEW r \in Targets(e), Look(e, "refresh", UpdateOf(e, r))
        PROVE  RequestOK' /\ CallOK'
    <2>1. e \in todo /\ e.kind = "upsert" /\ e.body \in Bodies
      BY <1>3 DEF UpsertsOf, TypeInv, RequestOK, BatchOK, ItemOK, Upserts, Deletes
    <2>2. r \in Rows /\ NamesObject(r) /\ r.uid = e.uid /\ r.name \in NamesOf[e.uid]
      BY <1>1, <2>1, TargetUid
    <2>3. PICK write : write = UpdateOf(e, r)
      OBVIOUS
    <2>4. /\ write \in Mutations /\ write.kind = "update" /\ write.row.uid = e.uid
          /\ write.row.body = e.body /\ write.row.name \in NamesOf[e.uid] /\ NamesObject(write.row)
      <3>1. write.row \in Rows
        BY <2>1, <2>2, <2>3 DEF UpdateOf, Rows
      <3>2. QED BY <2>1, <2>2, <2>3, <3>1, SpaceAssumption DEF UpdateOf, Mutations, NamesObject
    <2>5. call' = write /\ item' = e /\ todo' = todo /\ pc' = "refresh"
      BY <1>3, <2>3
    <2>6. NamesObject(write.row)'
      BY <2>4, NamesKept
    <2>7. CallOK'
      BY <2>1, <2>4, <2>5, <2>6 DEF CallOK, NamesObject
    <2>8. QED BY <1>2, <1>3, <2>1, <2>7
  <1>4. ASSUME NEW e \in UpsertsOf(todo), Look(e, "send", CreateOf(e))
        PROVE  RequestOK' /\ CallOK'
    <2>1. /\ e \in todo /\ e.kind = "upsert" /\ e.body \in Bodies /\ e.name \in Names
          /\ e.uid \in Uids /\ e.name \in NamesOf[e.uid]
      BY <1>4 DEF UpsertsOf, TypeInv, RequestOK, BatchOK, ItemOK, Upserts, Deletes
    <2>2. call' = CreateOf(e) /\ item' = e /\ todo' = todo /\ pc' = "send"
      BY <1>4
    <2>3. 1 \in Objects
      BY AndroidAssumption, SpaceAssumption DEF Objects
    <2>4. /\ call' \in Mutations /\ call'.kind = "create" /\ call'.row.uid = e.uid
          /\ call'.row.body = e.body /\ call'.row.name = e.name
      BY <2>1, <2>2, <2>3, SpaceAssumption DEF CreateOf, Mutations, Rows
    <2>5. CallOK'
      BY <2>1, <2>2, <2>4 DEF CallOK
    <2>6. QED BY <1>2, <1>4, <2>1, <2>5
  <1>5. ASSUME NEW e \in DeletesOf(todo), NEW r \in Targets(e),
               Look(e, "refresh", [kind |-> "archive", id |-> r.id])
        PROVE  RequestOK' /\ CallOK'
    <2>1. e \in todo /\ e.kind = "delete"
      BY <1>5 DEF DeletesOf
    <2>2. r.id \in Created /\ r.id \in Objects /\ object[r.id].uid = e.uid
      BY <1>1, <2>1, TargetUid DEF NamesObject, Created
    <2>3. /\ call' = [kind |-> "archive", id |-> r.id] /\ item' = e /\ todo' = todo
          /\ pc' = "refresh"
      BY <1>5
    <2>4. CallOK'
      BY <2>1, <2>2, <2>3 DEF CallOK, Mutations, Persists
    <2>5. QED BY <1>2, <1>5, <2>1, <2>4
  <1>6. ASSUME NEW error, Fails(error) PROVE RequestOK' /\ CallOK'
    BY <1>1, <1>6, Answering DEF Fails, Refuse, Answer, device
  <1>7. ASSUME NEW e, Move("next"), todo' = todo \ {e}, rows' = rows PROVE RequestOK' /\ CallOK'
    BY <1>1, <1>7, Pushed DEF CallOK, Pushing, Writing, device, TypeInv, RequestOK
  <1>8. CASE NextUpsert
    BY <1>3, <1>4, <1>6, <1>8 DEF NextUpsert, NextUpdate, NextCreate
  <1>9. CASE NextDelete
    BY <1>5, <1>7, <1>9 DEF NextDelete
  <1>10. QED BY <1>8, <1>9

LEMMA RequestStep ==
  ASSUME TypeInv, [Next]_vars
  PROVE  RequestOK' /\ CallOK'
  <1> USE DEF Answer, Move
  <1>1. Persists /\ SpaceOK
    BY StepKeepsSpace DEF TypeInv
  <1>3. ASSUME NEW error, Fails(error), pc # "idle" PROVE RequestOK' /\ CallOK'
    BY <1>1, <1>3, Answering DEF Fails, Refuse, device
  <1>4. CASE Invalid \/ AnswerPull \/ AnswerPush
    BY <1>1, <1>4, Answering DEF Invalid, AnswerPull, AnswerPush, Refuse, device
  <1>5. CASE ListFails \/ ListRefused \/ WriteFails
    BY <1>3, <1>5 DEF ListFails, ListRefused, WriteFails, Listing
  <1>6. CASE ListPage
    BY <1>1, <1>6, QuietRequest DEF ListPage, device, handler
  <1>7. CASE ListPush
    <2>1. /\ pc = "list" /\ pc' = "next" /\ rows' = Listed /\ req.batch # {} /\ todo' = todo
          /\ UNCHANGED <<req, pending, verdict>>
      BY <1>7 DEF ListPush, device
    <2>2. RowsOK(rows')
      BY <2>1, RowsTyped
    <2>3. QED BY <1>1, <2>1, <2>2, Pushed DEF CallOK, Pushing, Writing
  <1>8. CASE NextUpsert \/ NextDelete
    BY <1>1, <1>8, NextStep
  <1>10. CASE Refresh
    <2>1. pc = "refresh" /\ scan.done
      BY <1>10 DEF Refresh, Refreshed
    <2>2. ASSUME call.kind = "update", Move("fetch"), UNCHANGED call,
                 UNCHANGED <<rows, todo, item>>
          PROVE  RequestOK' /\ CallOK'
      <3>1. RequestOK'
        BY <1>1, <2>1, <2>2, Pushed DEF device, Pushing, Writing, TypeInv, RequestOK
      <3>2. PICK write : write = call
        OBVIOUS
      <3>3. NamesObject(write.row)'
        BY <1>1, <2>1, <2>2, <3>2, NamesKept DEF TypeInv, CallOK, Writing
      <3>4. NamesObject(call.row)'
        BY <2>2, <3>2, <3>3 DEF NamesObject
      <3>5. QED BY <2>1, <2>2, <3>1, <3>4 DEF TypeInv, CallOK, Writing
    <2>3. ASSUME NEW r \in Current, call.kind = "archive", Move("send"),
                 call' = [call EXCEPT !.id = r.id], UNCHANGED <<rows, todo, item>>
          PROVE  RequestOK' /\ CallOK'
      <3>1. item \in todo /\ item.kind = "delete" /\ call \in [kind : {"archive"}, id : Objects]
        BY <2>1, <2>3 DEF TypeInv, CallOK, Writing, Mutations
      <3>2. r \in Rows /\ NamesObject(r) /\ object[r.id].uid = item.uid
        <4>1. PICK t \in Target : r \in Staged /\ r.name = t.name
          BY <2>3 DEF Current
        <4>2. /\ t \in rows /\ t \in Rows /\ NamesObject(t) /\ t.id = call.id
              /\ r \in Rows /\ NamesObject(r)
          BY <2>1, <2>3, <4>1, RowsTyped DEF Target, TypeInv, RequestOK, Pushing, Writing, RowsOK
        <4>3. t.uid = item.uid /\ t.name \in NamesOf[t.uid] /\ r.name \in NamesOf[r.uid]
              /\ t.uid \in Uids /\ r.uid \in Uids /\ object[r.id].uid = r.uid
          BY <2>1, <2>3, <4>2
             DEF TypeInv, CallOK, SpaceOK, WellNamed, NamesObject, Writing, Rows
        <4>4. QED BY <4>1, <4>2, <4>3, AndroidAssumption
      <3>3. r.id \in Created /\ r.id \in Objects
        BY <3>2 DEF NamesObject, Created
      <3>4. call' \in Mutations /\ call'.kind = "archive" /\ call'.id = r.id
        BY <2>3, <3>1, <3>3 DEF Mutations
      <3>5. pc' = "send" /\ item' = item /\ todo' = todo
        BY <2>3
      <3>6. CallOK'
        BY <1>1, <3>1, <3>2, <3>3, <3>4, <3>5 DEF CallOK, Persists
      <3>7. RequestOK'
        BY <1>1, <2>1, <2>3, Pushed DEF device, Pushing, Writing, TypeInv, RequestOK
      <3>8. QED BY <3>6, <3>7
    <2>4. QED BY <1>3, <1>10, <2>1, <2>2, <2>3 DEF Refresh
  <1>11. CASE Fetch
    <2>1. pc = "fetch" /\ pc' = "send" /\ UNCHANGED <<req, pending, verdict, todo, rows, item>>
      BY <1>11 DEF Fetch, device
    <2>2. item \in todo /\ call \in Writes /\ call.kind = "update" /\ NamesObject(call.row)
      BY <2>1 DEF TypeInv, CallOK, Writing, Mutations, Writes
    <2>3. PICK write : write = call.row
      OBVIOUS
    <2>4. call' = [call EXCEPT !.extra = object[write.id].extra] /\ write.id \in Created
      BY <1>11, <2>2, <2>3 DEF Fetch, NamesObject
    <2>5. object[write.id] \in Contents
      BY <1>1, <2>4 DEF SpaceOK, ObjectsTyped, Created
    <2>6. call' \in Writes /\ call'.kind = "update" /\ call'.row = write
      BY <2>2, <2>3, <2>4, <2>5 DEF Writes, Contents
    <2>7. NamesObject(write)'
      BY <1>1, <2>2, <2>3, NamesKept
    <2>8. NamesObject(call.row)'
      BY <2>6, <2>7 DEF NamesObject
    <2>9. CallOK'
      BY <2>1, <2>2, <2>3, <2>6, <2>8 DEF TypeInv, CallOK, Writing, Writes, Mutations
    <2>10. RequestOK'
      BY <1>1, <2>1, Pushed DEF Pushing, Writing, TypeInv, RequestOK
    <2>11. QED BY <2>9, <2>10
  <1>12. ASSUME NEW write, Done(write), pc \in Writing PROVE RequestOK' /\ CallOK'
    <2>1. pc' = "next" /\ todo' \subseteq todo /\ UNCHANGED <<req, pending, verdict, rows>>
      BY <1>12 DEF Done, device
    <2>2. QED BY <1>1, <1>12, <2>1, Pushed DEF CallOK, Pushing, Writing, TypeInv, RequestOK
  <1>13. CASE Sent
    <2>1. CASE call.kind # "archive"
      BY <1>12, <1>13, <2>1 DEF Sent, Writing
    <2>2. CASE call.kind = "archive"
      <3>1. /\ pc = "send" /\ pc' = "confirm" /\ call' = call
            /\ UNCHANGED <<req, pending, verdict, todo, rows, item>>
        BY <1>13, <2>2 DEF Sent, Send, Settled, device
      <3>2. CallOK'
        BY <1>1, <2>2, <3>1 DEF TypeInv, CallOK, Writing, Persists
      <3>3. RequestOK'
        BY <1>1, <3>1, Pushed DEF Pushing, Writing, TypeInv, RequestOK
      <3>4. QED BY <3>2, <3>3
    <2>3. QED BY <2>1, <2>2
  <1>14. CASE SendTimesOut
    <2>1. /\ pc = "send" /\ pc' = "reconcile" /\ call' = call
          /\ UNCHANGED <<req, pending, verdict, todo, rows, item>>
      BY <1>14 DEF SendTimesOut, repository, device, handler
    <2>2. PICK write : write = call
      OBVIOUS
    <2>3. write.kind = "update" => NamesObject(write.row)'
      BY <1>1, <2>1, <2>2, NamesKept DEF TypeInv, CallOK, Writing
    <2>4. call.kind = "update" => NamesObject(call.row)'
      BY <2>1, <2>2, <2>3 DEF NamesObject
    <2>5. CallOK'
      BY <1>1, <2>1, <2>4 DEF TypeInv, CallOK, Writing, Persists
    <2>6. RequestOK'
      BY <1>1, <2>1, Pushed DEF Pushing, Writing, TypeInv, RequestOK
    <2>7. QED BY <2>5, <2>6
  <1>15. CASE ReconcileWrite \/ ReconcileCreate
    <2>1. pc \in {"reconcile", "confirm"}
      BY <1>15 DEF ReconcileWrite, ReconcileCreate
    <2>2. CASE ReadAgain
      BY <1>1, <2>2, QuietRequest DEF ReadAgain, device, handler
    <2>3. CASE GiveUp
      BY <1>3, <2>1, <2>3 DEF GiveUp
    <2>4. ASSUME NEW write, Done(write) PROVE RequestOK' /\ CallOK'
      BY <1>12, <2>1, <2>4 DEF Writing
    <2>5. QED BY <1>15, <2>2, <2>3, <2>4 DEF ReconcileWrite, ReconcileCreate
  <1>16. ASSUME NEW batch \in Batches, Edit(batch) PROVE RequestOK' /\ CallOK'
    <2>1. /\ pc = "idle" /\ pc' = "idle" /\ pending' = batch
          /\ UNCHANGED <<object, req, todo, rows>>
      BY <1>16 DEF Edit, space, handler
    <2>2. BatchOK(batch)'
      BY <1>1, EditsOK, ItemsKept
    <2>3. PICK mine : mine = req.batch
      OBVIOUS
    <2>4. BatchOK(mine)'
      BY <1>1, <2>3, ItemsKept DEF TypeInv, RequestOK
    <2>5. BatchOK(pending)' /\ BatchOK(req.batch)'
      BY <2>1, <2>2, <2>3, <2>4 DEF BatchOK
    <2>6. QED BY <2>1, <2>5 DEF TypeInv, RequestOK, CallOK, Stages, Pushing, Writing
  <1>17. ASSUME NEW authority, NEW batch, Request(authority, batch), batch = {} \/ batch = pending
         PROVE  RequestOK' /\ CallOK'
    <2>1. PICK mine, before : mine = pending /\ before = req.batch
      OBVIOUS
    <2>2. BatchOK(batch)' /\ BatchOK(mine)' /\ BatchOK(before)'
      BY <1>1, <1>17, <2>1, ItemsKept, NoItems DEF TypeInv, RequestOK
    <2>3. /\ pc = "idle" /\ pc' \in {"idle", "list"} /\ pending' = mine
          /\ req'.batch \in {batch, before}
          /\ pc' = "list" => req'.batch = batch /\ todo' = batch /\ verdict'.code # "ok"
          /\ pc' = "idle" => todo' = todo /\ req' = req
      BY <1>17, <2>1 DEF Request, NoVerdict
    <2>4. BatchOK(pending)' /\ BatchOK(req.batch)'
      BY <2>2, <2>3 DEF BatchOK
    <2>5. QED BY <2>1, <2>3, <2>4 DEF TypeInv, RequestOK, CallOK, Stages, Listing, Pushing, Writing
  <1>18. ASSUME NEW received, Deliver(received) PROVE RequestOK' /\ CallOK'
    <2>1. /\ pc = "wire" /\ pc' = "idle" /\ req' = NoRequest /\ pending' \subseteq pending
          /\ todo' = todo
      BY <1>18 DEF Deliver
    <2>2. PICK mine : mine = pending
      OBVIOUS
    <2>3. BatchOK(mine)'
      BY <1>1, <2>2, ItemsKept DEF TypeInv, RequestOK
    <2>4. BatchOK(pending)' /\ BatchOK(req.batch)' /\ req'.batch = {}
      BY <2>1, <2>2, <2>3 DEF BatchOK, NoRequest
    <2>5. todo' = {}
      BY <2>1 DEF TypeInv, RequestOK
    <2>6. QED BY <2>1, <2>4, <2>5 DEF TypeInv, RequestOK, CallOK, Stages, Pushing, Writing
  <1>19. CASE Disturbed \/ UNCHANGED vars
    BY <1>1, <1>19, QuietRequest DEF Disturbed, vars, repository, device, handler
  <1>20. QED
    BY <1>4, <1>5, <1>6, <1>7, <1>8, <1>10, <1>11, <1>13, <1>14, <1>15, <1>16, <1>17, <1>18,
       <1>19 DEF Next, Serve, Environment, Pull, Push, Disturbed, WellNamed

LEMMA TypeInvStep == TypeInv /\ [Next]_vars => TypeInv'
  BY StepKeepsSpace, ScanStep, RequestStep DEF TypeInv

LEMMA TypeInvInit == Init => TypeInv
  <1> SUFFICES ASSUME Init PROVE TypeInv
    OBVIOUS
  <1>1. /\ object \in [Objects -> Contents \cup {Unused}] /\ archived = {} /\ foreign = 0
        /\ recent = {} /\ touched = {} /\ scan = NewScan /\ pc = "idle" /\ pending = {}
        /\ req = NoRequest /\ todo = {} /\ verdict = NoVerdict
        /\ \A i \in Created : i = 1 /\ object[i].name \in NamesOf[object[i].uid]
    BY DEF Init
  <1>2. SpaceOK
    BY <1>1, SpaceAssumption DEF SpaceOK, ObjectsTyped, InOrder, WellNamed
  <1>3. ScanOK
    BY <1>1, NoItems DEF ScanOK, NewScan, Scans
  <1>4. RequestOK /\ CallOK
    BY <1>1, NoItems DEF RequestOK, CallOK, NoRequest, Stages, Pushing, Writing
  <1>5. QED BY <1>2, <1>3, <1>4 DEF TypeInv

-----------------------------------------------------------------------------
(* Listings.                                                                 *)

LookInv ==
  /\ pc = "idle" => scan = NewScan
  /\ pc \in Listing => ScanKnows

LEMMA LookInit == Init => LookInv
  BY DEF Init, LookInv, Listing

(* A scan begins anew before every listing.                                  *)
LEMMA LookSteps ==
  ASSUME LookInv, [Next]_vars
  PROVE  /\ pc' = "idle" => scan' = NewScan
         /\ pc' \in Listing =>
              \/ ListPage
              \/ Disturbed /\ pc' = pc /\ scan' = scan
              \/ scan' = NewScan
              \/ UNCHANGED vars
  <1> USE DEF Listing, Answer, Move, Fails, Refuse
  <1>1. CASE Invalid \/ ListPage \/ ListFails \/ ListRefused \/ AnswerPull \/ ListPush
             \/ AnswerPush \/ Refresh \/ Fetch \/ WriteFails
    BY <1>1 DEF Invalid, ListPage, ListFails, ListRefused, AnswerPull, ListPush, AnswerPush,
         Refresh, Fetch, WriteFails
  <1>2. CASE NextUpsert \/ NextDelete
    BY <1>2 DEF NextUpsert, NextUpdate, NextCreate, NextDelete, Look
  <1>3. CASE Sent \/ SendTimesOut
    BY <1>3 DEF Sent, SendTimesOut, Done
  <1>4. CASE ReconcileWrite \/ ReconcileCreate
    BY <1>4 DEF ReconcileWrite, ReconcileCreate, Done, ReadAgain, GiveUp
  <1>5. ASSUME NEW batch, Edit(batch) PROVE pc' = "idle" /\ scan' = NewScan
    BY <1>5 DEF Edit, repository, LookInv
  <1>6. ASSUME NEW authority, NEW batch, Request(authority, batch) PROVE scan' = NewScan
    BY <1>6 DEF Request, repository, LookInv
  <1>7. ASSUME NEW received, Deliver(received) PROVE scan' = NewScan
    BY <1>7 DEF Deliver
  <1>8. CASE Disturbed \/ UNCHANGED vars
    BY <1>8 DEF Disturbed, vars, repository, LookInv
  <1>9. QED
    BY <1>1, <1>2, <1>3, <1>4, <1>5, <1>6, <1>7, <1>8
       DEF Next, Serve, Environment, Pull, Push, Disturbed, WellNamed

LEMMA LookStep ==
  ASSUME TypeInv, LookInv, WholeListings, [Next]_vars
  PROVE  LookInv'
  <1> SUFFICES ASSUME pc' \in Listing PROVE ScanKnows'
    BY LookSteps DEF LookInv
  <1>1. scan \in Scans /\ InOrder /\ ObjectsTyped
    BY DEF TypeInv, ScanOK, SpaceOK
  <1>2. CASE scan' = NewScan
    BY <1>2, NewScanKnows
  <1>3. CASE ListPage
    <2>1. pc \in Listing /\ ReadPage /\ UNCHANGED <<object, archived, recent>>
      BY <1>3 DEF ListPage, space
    <2>2. QED BY <1>1, <2>1, ReadPageKnows DEF LookInv
  <1>4. CASE Disturbed /\ pc' = pc /\ scan' = scan
    <2>1. PICK i \in Objects : OthersChange(i)
      BY <1>1, <1>4, OthersChangeOne DEF Disturbed
    <2>2. QED BY <1>1, <1>4, <2>1, ScanKnowsOthers DEF LookInv
  <1>5. CASE UNCHANGED vars
    <2>1. UNCHANGED <<object, archived, recent, scan, pc>>
      BY <1>5 DEF vars, space, repository
    <2>2. QED BY <2>1, ScanKnowsQuiet DEF LookInv
  <1>6. QED BY <1>2, <1>3, <1>4, <1>5, LookSteps

-----------------------------------------------------------------------------
(* Pulls.                                                                    *)

SpaceContacts == {RowOf(i) : i \in {j \in Live : KindOf[object[j].uid] = "contact"}}

PullInv ==
  /\ pc = "list" /\ req.batch = {} => req.authority \in Asked
  /\ pc = "list" /\ scan.done => Accepted
  /\ pc = "wire" /\ req.batch = {} /\ answer.code = "ok" /\ touched = {} =>
       answer.rows = SpaceContacts
  /\ verdict.code = "ok" /\ verdict.pull /\ touched = {} => verdict.rows = SpaceContacts

(* A listing during which no other client changed the Space is the Space.    *)
LEMMA WholeScan ==
  ASSUME TypeInv, ScanKnows, scan.done, touched = {}
  PROVE  scan.rows = {RowOf(i) : i \in Live}
  <1>1. recent = {}
    BY DEF TypeInv, SpaceOK
  <1>2. \A r \in scan.rows : r.id \in Live /\ RowOf(r.id) = r
    BY <1>1 DEF ScanKnows, IsCurrent
  <1>3. \A i \in Live : \E r \in scan.rows : r.id = i
    BY <1>1 DEF ScanKnows, ScanCovers, Covered, Newcomer
  <1>4. QED BY <1>2, <1>3

LEMMA ContactsListed ==
  ASSUME TypeInv, ScanKnows, scan.done, touched = {}, req.authority = "com.android.contacts"
  PROVE  {r \in Listed : KindOf[r.uid] = ExpectedKind(req.authority)} = SpaceContacts
  <1>1. scan.rows = {RowOf(i) : i \in Live}
    BY WholeScan
  <1>2. \A i \in Live : RowOf(i).uid = object[i].uid
    BY DEF RowOf
  <1>3. Listed = {r \in scan.rows : KindOf[r.uid] = "contact"}
    BY DEF Listed, Staged, ListedKind
  <1>4. QED BY <1>1, <1>2, <1>3 DEF SpaceContacts, ExpectedKind

LEMMA VerdictOk == \A response : Verdict(response) = "ok" => response.code = "ok"
  BY DEF Verdict

LEMMA SameContacts ==
  ASSUME UNCHANGED <<object, archived>>
  PROVE  SpaceContacts' = SpaceContacts
  BY Unmoved DEF SpaceContacts

LEMMA PullStep ==
  ASSUME TypeInv, LookInv, PullInv, "com.android.calendar" \notin Asked, [Next]_vars
  PROVE  PullInv'
  <1> USE DEF Answer, Move, Refuse, Fails
  <1>1. CASE Disturbed
    <2>1. touched' # {}
      <3>1. PICK i \in Objects : OthersChange(i)
        BY <1>1, OthersChangeOne DEF Disturbed, TypeInv, SpaceOK
      <3>2. QED BY <3>1 DEF OthersChange
    <2>2. UNCHANGED <<pc, req, scan>>
      BY <1>1 DEF Disturbed, repository
    <2>3. QED BY <2>1, <2>2 DEF PullInv, Accepted
  <1>2. ASSUME pc # "idle", pc' # "list", verdict' = verdict,
               pc' = "wire" => answer'.code # "ok" \/ req'.batch # {}
        PROVE  PullInv'
    BY <1>2 DEF PullInv, TypeInv, RequestOK
  <1>0. ASSUME NEW error, Fails(error), pc # "idle" PROVE PullInv'
    <2>1. pc' = "wire" /\ verdict' = verdict /\ answer'.code = ErrorAnswer(error)[2]
      BY <1>0 DEF device
    <2>2. QED BY <1>2, <1>0, <2>1, ErrorsRefuse
  <1>3. CASE Invalid \/ ListFails \/ ListRefused \/ ListPush \/ AnswerPush \/ Refresh \/ Fetch
             \/ WriteFails
    <2>1. CASE Invalid
      <3>1. pc = "list" /\ pc' = "wire" /\ verdict' = verdict /\ answer'.code # "ok"
        BY <2>1 DEF Invalid, device
      <3>2. QED BY <1>2, <3>1
    <2>2. CASE ListFails \/ ListRefused \/ WriteFails
      BY <1>0, <2>2 DEF ListFails, ListRefused, WriteFails, Listing
    <2>3. CASE ListPush \/ Refresh \/ Fetch
      BY <1>2, <1>0, <2>3 DEF ListPush, Refresh, Fetch, device
    <2>4. CASE AnswerPush
      <3>1. pc = "next" /\ verdict' = verdict /\ req' = req /\ pc' = "wire"
        BY <2>4 DEF AnswerPush, device
      <3>2. req.batch # {}
        BY <3>1 DEF TypeInv, RequestOK, Pushing
      <3>3. QED BY <1>2, <3>1, <3>2
    <2>5. QED BY <1>3, <2>1, <2>2, <2>3, <2>4
  <1>4. CASE NextUpsert \/ NextDelete
    BY <1>2, <1>0, <1>4 DEF NextUpsert, NextUpdate, NextCreate, NextDelete, Look, device
  <1>5. CASE Sent \/ SendTimesOut
    BY <1>2, <1>5 DEF Sent, SendTimesOut, Done, device
  <1>6. CASE ReconcileWrite \/ ReconcileCreate
    BY <1>2, <1>0, <1>6 DEF ReconcileWrite, ReconcileCreate, Done, ReadAgain, GiveUp, device
  <1>7. CASE ListPage
    BY <1>7 DEF ListPage, Listing, device, PullInv, Accepted, TypeInv, RequestOK
  <1>8. CASE AnswerPull
    <2>1. /\ pc = "list" /\ pc' = "wire" /\ req' = req /\ req.batch = {} /\ verdict' = verdict
          /\ UNCHANGED <<object, archived, touched>> /\ scan.done
          /\ answer'.rows = {r \in Listed : KindOf[r.uid] = ExpectedKind(req.authority)}
      BY <1>8 DEF AnswerPull, Refreshed, Reading, space, device
    <2>2. req.authority = "com.android.contacts"
      BY <2>1 DEF PullInv, Accepted, Supported
    <2>3. touched = {} => answer'.rows = SpaceContacts
      BY <2>1, <2>2, ContactsListed DEF LookInv, Listing
    <2>4. verdict.code # "ok"
      BY <2>1 DEF TypeInv, RequestOK
    <2>5. QED BY <2>1, <2>3, <2>4, SameContacts DEF PullInv
  <1>9. ASSUME NEW batch, Edit(batch) PROVE PullInv'
    BY <1>9 DEF Edit, NoVerdict, PullInv
  <1>10. ASSUME NEW authority \in Asked, Request(authority, {}) PROVE PullInv'
    BY <1>10, LocallyRefused DEF Request, PullInv, NoVerdict, LookInv, NewScan, repository
  <1>11. CASE Push
    BY <1>11, LocallyRefused DEF Push, Request, PullInv, NoVerdict, LookInv, NewScan, repository
  <1>12. ASSUME NEW received, Deliver(received) PROVE PullInv'
    <2>1. /\ pc = "wire" /\ pc' = "idle" /\ UNCHANGED <<object, archived, touched>>
          /\ verdict'.rows = answer.rows /\ verdict'.pull = (req.batch = {})
          /\ verdict'.code = Verdict(Wire(received))
      BY <1>12, Zenon DEF Deliver, space
    <2>2. verdict'.code = "ok" => answer.code = "ok"
      BY <2>1, VerdictOk DEF Wire
    <2>3. QED BY <2>1, <2>2, SameContacts DEF PullInv
  <1>13. CASE UNCHANGED vars
    <2>1. UNCHANGED <<object, archived, touched, scan, verdict, pc, req, answer>>
      BY <1>13 DEF vars, space, repository, device, handler
    <2>2. QED BY <2>1, SameContacts DEF PullInv, Accepted
  <1>14. QED
    BY <1>1, <1>3, <1>4, <1>5, <1>6, <1>7, <1>8, <1>9, <1>10, <1>11, <1>12, <1>13
       DEF Next, Serve, Environment, Pull, Disturbed, WellNamed

(* A pull that ends without an error carries every contact of the Space and  *)
(* no other: a failed read, a lost answer or a refused request never looks   *)
(* like an empty collection to the device.  For a device that syncs contacts *)
(* and listings that others do not cut short by archiving.                   *)
THEOREM PullsAreComplete ==
  ASSUME WholeListings, "com.android.calendar" \notin Asked
  PROVE  Spec => []PullComplete
  <1>1. Init => TypeInv /\ LookInv /\ PullInv
    <2>1. Init => PullInv
      BY DEF Init, PullInv, NoVerdict
    <2>2. QED BY <2>1, TypeInvInit, LookInit
  <1>2. TypeInv /\ LookInv /\ PullInv /\ [Next]_vars => (TypeInv /\ LookInv /\ PullInv)'
    BY TypeInvStep, LookStep, PullStep
  <1>3. PullInv => PullComplete
    BY DEF PullInv, PullComplete, SpaceContacts
  <1>4. QED BY <1>1, <1>2, <1>3, PTL DEF Spec

-----------------------------------------------------------------------------
(* Pushes, by a device that syncs contacts.                                  *)

ContactsOnly == \A u \in Uids : KindOf[u] = "contact"

(* What was listed is all there is of an item that waits, and it is still    *)
(* there, but for what another client touched.                               *)
StillListed(e) ==
  /\ \A i \in Live \ touched : object[i].uid = e.uid => \E r \in rows : r.id = i
  /\ \A r \in rows : r.uid = e.uid => r.id \in Live \cup touched

(* What the answer may say of an item that is done.                          *)
Claim(e, carried) ==
  IF e.kind = "upsert"
    THEN \E r \in carried :
           /\ r.uid = e.uid /\ r.body = e.body
           /\ r.id \in touched \/ (r.id \in Live /\ RowOf(r.id) = r)
    ELSE \A i \in Live \ touched :
           /\ object[i].name # e.name /\ i # e.id
           /\ e.id = NoId => object[i].uid # e.uid

(* What the write under way can rely on.                                     *)
Alone(e)      == \A i \in Live \ touched : object[i].uid # e.uid
OnlyAs(e, b)  == \A i \in Live \ touched : object[i].uid = e.uid => object[i].body = b
OnlyIt(e, id) == \A i \in Live \ touched : object[i].uid = e.uid => i = id

WriteReady ==
  /\ pc \in Writing /\ call.kind = "update" => call.row.id \in Live \cup touched
  /\ pc = "send" /\ call.kind = "create" => Alone(item)
  /\ pc = "reconcile" /\ call.kind = "create" => OnlyAs(item, call.row.body)
  /\ pc \in {"send", "reconcile", "confirm"} /\ call.kind = "archive" => OnlyIt(item, call.id)

PushInv ==
  /\ pc # "idle" /\ req.batch # {} => req.authority = "com.android.contacts"
  /\ pc \in Pushing =>
       /\ \A e \in todo : pc = "next" \/ e # item => StillListed(e)
       /\ \A e \in req.batch \ todo : Claim(e, stored)

AnswerInv ==
  /\ pc = "wire" /\ answer.code = "ok" => \A e \in req.batch : Claim(e, answer.rows)
  /\ verdict.code = "ok" =>
       BatchOK(verdict.batch) /\ \A e \in verdict.batch : Claim(e, verdict.rows)

(* A step changes no object but those others touched and those of the UIDs   *)
(* it writes.                                                                *)
Differs(S) ==
  /\ touched \subseteq touched'
  /\ \A j \in Objects \ touched' :
       \/ object'[j] = object[j] /\ (j \in Live' <=> j \in Live)
       \/ object'[j].uid \in S /\ (j \in Created => object[j].uid \in S)

LEMMA QuietDiffers ==
  ASSUME UNCHANGED <<object, archived, touched>>
  PROVE  Differs({})
  BY Unmoved DEF Differs

LEMMA DisturbedDiffers ==
  ASSUME TypeInv, Disturbed
  PROVE  Differs({}) /\ touched \subseteq touched' /\ foreign' # foreign
  <1>1. PICK i \in Objects : OthersChange(i)
    BY OthersChangeOne DEF Disturbed, TypeInv, SpaceOK
  <1>2. foreign \in Nat /\ foreign' = foreign + 1 /\ touched' = touched \cup {i}
    BY <1>1 DEF OthersChange, TypeInv, SpaceOK
  <1>3. QED BY <1>1, <1>2, UntouchedKept DEF Differs

LEMMA WrittenDiffers ==
  ASSUME TypeInv, Written
  PROVE  Differs({item.uid})
  <1>1. PICK write, to : write = call /\ to = Settled(write)
    OBVIOUS
  <1>2. pc = "send" /\ item \in todo /\ write \in Mutations /\ Lands(write, to)
    BY <1>1, WrittenLands
  <1>3. touched' = touched
    BY DEF Written
  <1>4. CASE write.kind = "archive"
    <2>1. object' = object /\ archived' = archived \cup {write.id} /\ Created' = Created
          /\ object[write.id].uid = item.uid
      BY <1>1, <1>2, <1>4, SameObjects DEF Lands, TypeInv, CallOK, Writing
    <2>2. QED BY <1>3, <2>1 DEF Differs, Live
  <1>5. CASE write.kind # "archive"
    <2>1. /\ \A j \in Objects \ {to.row.id} : object'[j] = object[j]
          /\ Created' = Created \cup {to.row.id} /\ archived' = archived
          /\ object'[to.row.id].uid = write.row.uid
          /\ IF write.kind = "create" THEN Fresh(to.row.id) ELSE to = write
      BY <1>2, <1>5 DEF Lands, Stored
    <2>2. /\ write.row.uid = item.uid
          /\ write.kind = "update" => NamesObject(write.row)
          /\ write.kind \in {"create", "update"}
      BY <1>1, <1>2, <1>5 DEF TypeInv, CallOK, Writing, Mutations
    <2>3. to.row.id \in Created => object[to.row.id].uid = item.uid
      BY <2>1, <2>2 DEF Fresh, NamesObject
    <2>4. QED BY <1>3, <2>1, <2>2, <2>3 DEF Differs, Live
  <1>6. QED BY <1>4, <1>5

(* What a step leaves alone stays listed, and what was said of it stays so.  *)
LEMMA ListedKept ==
  ASSUME NEW S, Differs(S), RowsOK(rows), rows' = rows, NEW e, e.uid \notin S, StillListed(e)
  PROVE  StillListed(e)'
  <1>1. ASSUME NEW i \in Live' \ touched', object'[i].uid = e.uid PROVE \E r \in rows : r.id = i
    <2>1. i \in Objects \ touched'
      BY <1>1 DEF Live, Created
    <2>2. object[i].uid = e.uid /\ i \in Live \ touched
      BY <1>1, <2>1 DEF Differs
    <2>3. QED BY <2>2 DEF StillListed
  <1>2. ASSUME NEW r \in rows, r.uid = e.uid PROVE r.id \in Live' \cup touched'
    <2>1. r.id \in Live \cup touched /\ r.id \in Created /\ object[r.id].uid = e.uid
      BY <1>2 DEF StillListed, RowsOK, NamesObject
    <2>2. QED BY <2>1 DEF Differs, Created
  <1>3. QED BY <1>1, <1>2 DEF StillListed

LEMMA ClaimKept ==
  ASSUME NEW S, Differs(S), SpaceOK', Persists, NEW e, ItemOK(e), e.uid \notin S,
         NEW carried, Claim(e, carried)
  PROVE  Claim(e, carried)'
  <1>1. CASE e.kind = "upsert"
    <2>1. PICK r \in carried :
            /\ r.uid = e.uid /\ r.body = e.body
            /\ r.id \in touched \/ (r.id \in Live /\ RowOf(r.id) = r)
      BY <1>1 DEF Claim
    <2>2. CASE r.id \in touched'
      BY <1>1, <2>1, <2>2 DEF Claim
    <2>3. CASE r.id \notin touched'
      <3>1. r.id \in Live /\ r.id \in Objects \ touched' /\ r.id \in Created
            /\ object[r.id].uid = e.uid /\ RowOf(r.id) = r
        BY <2>1, <2>3 DEF Differs, Live, Created, RowOf
      <3>2. object'[r.id] = object[r.id] /\ r.id \in Live'
        BY <3>1 DEF Differs
      <3>3. QED BY <1>1, <2>1, <3>1, <3>2 DEF Claim, RowOf
    <2>4. QED BY <2>2, <2>3
  <1>2. CASE e.kind # "upsert"
    <2>1. ItemOK(e)' /\ e.uid \in Uids /\ e.name \in NamesOf[e.uid]
      BY ItemsKept DEF ItemOK, Upserts, Deletes
    <2>2. ASSUME NEW i \in Live' \ touched'
          PROVE  /\ object'[i].name # e.name /\ i # e.id
                 /\ e.id = NoId => object'[i].uid # e.uid
      <3>1. i \in Objects \ touched' /\ i \in Created'
        BY <2>2 DEF Live, Created
      <3>2. CASE object'[i] = object[i] /\ i \in Live
        <4>1. i \in Live \ touched
          BY <2>2, <3>2 DEF Differs
        <4>2. QED BY <1>2, <3>2, <4>1 DEF Claim
      <3>3. CASE object'[i].uid \in S
        <4>1. object'[i].uid # e.uid /\ object'[i].name \in NamesOf[object'[i].uid]
              /\ object'[i].uid \in Uids
          BY <3>1, <3>3 DEF SpaceOK, WellNamed, ObjectsTyped, Created, Contents
        <4>2. e.id # i
          BY <2>1, <4>1, <3>1, SpaceAssumption DEF ItemOK, NoId, Objects
        <4>3. object'[i].name # e.name
          BY <2>1, <4>1, AndroidAssumption
        <4>4. QED BY <4>1, <4>2, <4>3
      <3>4. QED BY <2>2, <3>1, <3>2, <3>3 DEF Differs
    <2>3. QED BY <1>2, <2>2 DEF Claim
  <1>3. QED BY <1>1, <1>2

LEMMA OtherUid ==
  ASSUME SpaceOK, NEW e, ItemOK(e), NEW i \in Live, object[i].uid # e.uid
  PROVE  object[i].name # e.name /\ i # e.id
  <1>1. e.uid \in Uids /\ e.name \in NamesOf[e.uid]
    BY DEF ItemOK, Upserts, Deletes
  <1>2. i \in Created /\ i \in Objects /\ object[i].uid \in Uids
    BY DEF SpaceOK, Live, Created, ObjectsTyped, Contents
  <1>3. object[i].name # e.name
    BY <1>1, <1>2, AndroidAssumption DEF SpaceOK, WellNamed
  <1>4. i # e.id
    BY <1>2, SpaceAssumption DEF ItemOK, NoId, Objects
  <1>5. QED BY <1>3, <1>4

(* An item no row matches has no object.                                     *)
LEMMA Absent ==
  ASSUME TypeInv, pc \in Pushing, NEW e \in todo, StillListed(e), Targets(e) = {}
  PROVE  /\ e.kind = "upsert" => Alone(e)
         /\ e.kind # "upsert" => \A carried : Claim(e, carried)
  <1>1. ItemOK(e) /\ e.uid \in Uids /\ RowsOK(rows) /\ ObjectsTyped /\ WellNamed
    BY DEF TypeInv, RequestOK, BatchOK, ItemOK, Upserts, Deletes, SpaceOK
  <1>2. e.kind = "upsert" \/ e.kind = "delete"
    BY <1>1 DEF ItemOK, Upserts, Deletes
  <1>3. ASSUME NEW i \in Live \ touched, object[i].uid = e.uid
        PROVE  /\ e.kind = "delete" /\ e.id # NoId
               /\ object[i].name # e.name /\ i # e.id
    <2>1. PICK r \in rows : r.id = i
      BY <1>3 DEF StillListed
    <2>2. r.name = object[i].name /\ r.uid = e.uid
      BY <1>1, <1>3, <2>1 DEF RowsOK, NamesObject
    <2>3. ~Matched(r, e)
      BY <2>1 DEF Targets
    <2>4. QED BY <1>2, <2>1, <2>2, <2>3 DEF Matched
  <1>4. ASSUME NEW i \in Live \ touched, object[i].uid # e.uid
        PROVE  object[i].name # e.name /\ i # e.id
    BY <1>1, <1>4, OtherUid DEF TypeInv
  <1>5. QED BY <1>3, <1>4 DEF Alone, Claim

(* The listing a push starts from knows every item.                          *)
LEMMA Known ==
  ASSUME TypeInv, ScanKnows, scan.done, ContactsOnly, NEW i \in Live \ touched
  PROVE  \E r \in Staged : r.id = i /\ NamesObject(r)
  <1>1. ~Newcomer(i) /\ Covered(i)
    BY DEF Newcomer, Covered, TypeInv, SpaceOK
  <1>2. PICK r \in scan.rows : r.id = i
    BY <1>1 DEF ScanKnows, ScanCovers
  <1>3. r \in Rows /\ NamesObject(r)
    BY <1>2 DEF TypeInv, ScanOK, RowsOK
  <1>4. KindOf[r.uid] = "contact"
    BY <1>3 DEF ContactsOnly, Rows
  <1>5. QED BY <1>2, <1>3, <1>4 DEF Staged

LEMMA ListedNow ==
  ASSUME TypeInv, ScanKnows, scan.done, ContactsOnly, req.authority = "com.android.contacts",
         rows' = Listed, UNCHANGED <<object, archived, touched>>, NEW e
  PROVE  StillListed(e)'
  <1>1. Staged = Listed
    BY DEF Listed, Staged, ContactsOnly, TypeInv, ScanOK, RowsOK, Rows, ListedKind
  <1>2. ASSUME NEW i \in Live \ touched PROVE \E r \in Listed : r.id = i
    BY <1>1, Known
  <1>3. \A r \in Listed : r.id \in Live \cup touched
    BY DEF Listed, Staged, ScanKnows, IsCurrent, TypeInv, SpaceOK
  <1>4. QED BY <1>2, <1>3, Unmoved DEF StillListed

(* The stages of a push: what waits stays listed, what is done stays so.     *)
LEMMA PushStage ==
  ASSUME TypeInv, PushInv, pc \in Pushing, SpaceOK', Persists, NEW S, Differs(S),
         todo' \subseteq todo, UNCHANGED <<req, rows>>, stored \subseteq stored',
         \A e \in req.batch \ todo : e.uid \notin S,
         \A e \in todo' : pc' = "next" \/ e # item' =>
           e.uid \notin S /\ (pc = "next" \/ e # item),
         \A e \in todo \ todo' : Claim(e, stored)'
  PROVE  PushInv'
  <1>1. RowsOK(rows) /\ BatchOK(req.batch) /\ todo \subseteq req.batch
    BY DEF TypeInv, RequestOK
  <1>2. ASSUME NEW e \in todo', pc' = "next" \/ e # item' PROVE StillListed(e)'
    <2>1. StillListed(e) /\ e.uid \notin S
      BY <1>2 DEF PushInv
    <2>2. QED BY <1>1, <2>1, ListedKept
  <1>3. ASSUME NEW e \in req.batch \ todo' PROVE Claim(e, stored)'
    <2>1. CASE e \in todo
      BY <1>3, <2>1
    <2>2. CASE e \notin todo
      <3>1. Claim(e, stored) /\ e.uid \notin S /\ ItemOK(e)
        BY <1>1, <1>3, <2>2 DEF PushInv, BatchOK
      <3>2. PICK before, after : before = stored /\ after = stored'
        OBVIOUS
      <3>3. Claim(e, before)'
        BY <3>1, <3>2, ClaimKept
      <3>4. Claim(e, after)'
        BY <3>2, <3>3 DEF Claim
      <3>5. QED BY <3>2, <3>4 DEF Claim
    <2>3. QED BY <2>1, <2>2
  <1>4. pc # "idle"
    BY DEF Pushing, Writing
  <1>5. QED BY <1>2, <1>3, <1>4 DEF PushInv

-----------------------------------------------------------------------------
(* The write under way.                                                      *)

LEMMA ReadyKept ==
  ASSUME WriteReady, Differs({}), UNCHANGED <<pc, call, item>>
  PROVE  WriteReady'
  <1>1. \A i \in Live' \ touched' : i \in Live \ touched /\ object'[i] = object[i]
    BY DEF Differs, Live, Created
  <1>2. \A i \in Live \cup touched : i \in Live' \cup touched'
    BY DEF Differs, Live, Created
  <1>3. QED BY <1>1, <1>2 DEF WriteReady, Alone, OnlyAs, OnlyIt

LEMMA NextReady ==
  ASSUME TypeInv, PushInv, NextUpsert \/ NextDelete
  PROVE  WriteReady'
  <1> USE DEF Move, Look
  <1>1. pc = "next" /\ pc \in Pushing
    BY DEF NextUpsert, NextDelete, Pushing
  <1>2. ASSUME NEW e \in todo PROVE StillListed(e)
    BY <1>1, <1>2 DEF PushInv
  <1>3. ASSUME NEW e \in todo, NEW r \in Targets(e), Look(e, "refresh", UpdateOf(e, r))
        PROVE  WriteReady'
    <2>1. r \in rows /\ r.uid = e.uid
      BY <1>1, <1>3, TargetUid
    <2>2. r.id \in Live \cup touched
      BY <1>2, <2>1 DEF StillListed
    <2>3. call'.kind = "update" /\ call'.row.id = r.id /\ pc' = "refresh"
          /\ UNCHANGED <<object, archived, touched>>
      BY <1>3 DEF UpdateOf
    <2>4. QED BY <2>2, <2>3, Unmoved DEF WriteReady
  <1>4. ASSUME NEW e \in todo, e.kind = "upsert", Targets(e) = {}, Look(e, "send", CreateOf(e))
        PROVE  WriteReady'
    <2>1. Alone(e)
      BY <1>1, <1>2, <1>4, Absent
    <2>2. call'.kind = "create" /\ pc' = "send" /\ item' = e
          /\ UNCHANGED <<object, archived, touched>>
      BY <1>4 DEF CreateOf
    <2>3. Alone(item)'
      BY <2>1, <2>2, Unmoved DEF Alone
    <2>4. QED BY <2>2, <2>3 DEF WriteReady
  <1>5. ASSUME NEW e, NEW id, Look(e, "refresh", [kind |-> "archive", id |-> id])
        PROVE  WriteReady'
    BY <1>5 DEF WriteReady
  <1>6. ASSUME pc' \in {"next", "wire"} PROVE WriteReady'
    BY <1>6 DEF WriteReady, Writing
  <1>7. CASE NextUpsert
    BY <1>3, <1>4, <1>6, <1>7
       DEF NextUpsert, NextUpdate, NextCreate, UpsertsOf, Fails, Refuse, Answer
  <1>8. CASE NextDelete
    BY <1>5, <1>6, <1>8 DEF NextDelete
  <1>9. QED BY <1>7, <1>8

(* The row found again under the target's name is of the item's UID, and the *)
(* only one.                                                                 *)
LEMMA CurrentIsIt ==
  ASSUME TypeInv, ScanKnows, ContactsOnly, pc = "refresh", Refreshed, call.kind = "archive",
         NEW r \in Current
  PROVE  OnlyIt(item, r.id)
  <1>1. PICK t \in Target : r \in Staged /\ r.name = t.name
    BY DEF Current
  <1>2. /\ item \in todo /\ object[call.id].uid = item.uid
        /\ t \in rows /\ t \in Rows /\ NamesObject(t) /\ t.id = call.id
        /\ r \in Rows /\ NamesObject(r)
    BY <1>1, RowsTyped DEF Target, TypeInv, RequestOK, CallOK, Pushing, Writing, RowsOK
  <1>3. t.uid = item.uid /\ t.name \in NamesOf[t.uid] /\ r.name \in NamesOf[r.uid]
        /\ t.uid \in Uids /\ r.uid \in Uids
    BY <1>2 DEF TypeInv, SpaceOK, WellNamed, NamesObject, Rows
  <1>4. r.uid = item.uid
    BY <1>1, <1>3, AndroidAssumption
  <1>5. ASSUME NEW i \in Live \ touched, object[i].uid = item.uid PROVE i = r.id
    <2>1. PICK s \in Staged : s.id = i /\ NamesObject(s)
      BY Known DEF Refreshed
    <2>2. s.uid = r.uid
      BY <1>4, <1>5, <2>1 DEF NamesObject
    <2>3. QED BY <1>1, <2>1, <2>2 DEF Refreshed, Coherent
  <1>6. QED BY <1>5 DEF OnlyIt

LEMMA SentReady ==
  ASSUME TypeInv, WriteReady, Sent \/ SendTimesOut
  PROVE  WriteReady'
  <1>1. pc = "send" /\ touched' = touched
    BY DEF Sent, SendTimesOut, Send, TimeOut, others, Apply
  <1>2. CASE Sent /\ call.kind # "archive"
    <2>1. pc' = "next"
      BY <1>2 DEF Sent, Done, Move
    <2>2. QED BY <2>1 DEF WriteReady, Writing
  <1>3. CASE Sent /\ call.kind = "archive"
    <2>1. pc' = "confirm" /\ call' = call /\ item' = item /\ object' = object
          /\ archived' = archived \cup {call.id}
      BY <1>3 DEF Sent, Send, Settled, Apply, Move
    <2>2. QED BY <1>1, <1>3, <2>1, SameObjects DEF WriteReady, OnlyIt, Live
  <1>4. CASE SendTimesOut
    <2>1. pc' = "reconcile" /\ call' = call /\ item' = item
      BY <1>4 DEF SendTimesOut, repository, handler
    <2>2. CASE UNCHANGED <<object, archived>>
      BY <1>1, <2>1, <2>2, Unmoved DEF WriteReady, Alone, OnlyAs, OnlyIt, Writing
    <2>3. CASE ~UNCHANGED <<object, archived>>
      <3>1. Written
        BY <1>4, <2>3 DEF SendTimesOut, TimeOut, others, Written
      <3>2. PICK write, to : write = call /\ to = Settled(write)
        OBVIOUS
      <3>3. write \in Mutations /\ Lands(write, to) /\ archived' \subseteq Created'
        BY <3>1, <3>2, WrittenLands
      <3>4. CASE write.kind = "archive"
        <4>1. Created' = Created /\ object' = object /\ archived' = archived \cup {write.id}
          BY <3>3, <3>4, SameObjects DEF Lands
        <4>2. QED BY <1>1, <2>1, <3>2, <3>4, <4>1 DEF WriteReady, OnlyIt, Live
      <3>5. CASE write.kind # "archive"
        <4>1. /\ Created' = Created \cup {to.row.id} /\ archived' = archived
              /\ \A j \in Objects \ {to.row.id} : object'[j] = object[j]
              /\ object'[to.row.id].body = write.row.body
              /\ IF write.kind = "create" THEN Fresh(to.row.id) ELSE to = write
          BY <3>3, <3>5 DEF Lands, Stored
        <4>2. CASE write.kind = "create"
          <5>1. Alone(item)
            BY <1>1, <3>2, <4>2 DEF WriteReady
          <5>2. \A i \in Live' \ touched' :
                  i = to.row.id \/ (i \in Live \ touched /\ object'[i] = object[i])
            BY <1>1, <4>1 DEF Live, Created
          <5>3. \A i \in Live' \ touched' :
                  object'[i].uid = item.uid => object'[i].body = write.row.body
            BY <4>1, <5>1, <5>2 DEF Alone
          <5>4. QED BY <2>1, <3>2, <4>2, <5>3 DEF WriteReady, OnlyAs
        <4>3. CASE write.kind # "create"
          <5>1. write.kind = "update"
            BY <3>3, <3>5, <4>3 DEF Mutations
          <5>2. write.row.id \in Live \cup touched
            BY <1>1, <3>2, <5>1 DEF WriteReady, Writing
          <5>3. write.row.id \in Live' \cup touched'
            BY <1>1, <4>1, <5>2 DEF Live
          <5>4. QED BY <2>1, <3>2, <5>1, <5>3 DEF WriteReady
        <4>4. QED BY <4>2, <4>3
      <3>6. QED BY <3>4, <3>5
    <2>4. QED BY <2>2, <2>3
  <1>5. QED BY <1>2, <1>3, <1>4

LEMMA ReadyStep ==
  ASSUME TypeInv, LookInv, PushInv, WriteReady, ContactsOnly, [Next]_vars
  PROVE  WriteReady'
  <1> USE DEF Answer, Move, Refuse, Fails
  <1>1. ASSUME pc' \notin Writing PROVE WriteReady'
    BY <1>1 DEF WriteReady, Writing
  <1>2. CASE Invalid \/ ListFails \/ ListRefused \/ AnswerPull \/ ListPush \/ AnswerPush
             \/ WriteFails
    BY <1>1, <1>2 DEF Invalid, ListFails, ListRefused, AnswerPull, ListPush, AnswerPush,
         WriteFails, Writing
  <1>3. CASE ListPage
    BY <1>3, QuietDiffers, ReadyKept DEF ListPage, space, handler
  <1>4. CASE NextUpsert \/ NextDelete
    BY <1>4, NextReady
  <1>5. CASE Refresh
    <2>1. pc = "refresh" /\ Refreshed /\ UNCHANGED <<object, archived, touched>>
      BY <1>5 DEF Refresh, Reading, space
    <2>2. ASSUME call.kind = "update", pc' = "fetch", call' = call PROVE WriteReady'
      BY <2>1, <2>2, Unmoved DEF WriteReady, Writing
    <2>3. ASSUME NEW r \in Current, call.kind = "archive", pc' = "send", item' = item,
                 call' = [call EXCEPT !.id = r.id]
          PROVE  WriteReady'
      <3>1. OnlyIt(item, r.id)
        BY <2>1, <2>3, CurrentIsIt DEF LookInv, Listing
      <3>2. call'.kind = "archive" /\ call'.id = r.id
        BY <2>1, <2>3 DEF TypeInv, CallOK, Writing, Mutations
      <3>3. QED BY <2>1, <2>3, <3>1, <3>2, Unmoved DEF WriteReady, OnlyIt
    <2>4. CASE pc' = "wire"
      BY <1>1, <2>4 DEF Writing
    <2>5. QED BY <1>5, <2>2, <2>3, <2>4 DEF Refresh
  <1>6. CASE Fetch
    <2>1. pc = "fetch" /\ pc' = "send" /\ UNCHANGED <<object, archived, touched>>
      BY <1>6 DEF Fetch, space
    <2>2. call.kind = "update" /\ call'.kind = "update" /\ call'.row = call.row
      BY <1>6, <2>1 DEF Fetch, TypeInv, CallOK, Writing, Mutations
    <2>3. QED BY <2>1, <2>2, Unmoved DEF WriteReady, Writing
  <1>7. CASE Sent \/ SendTimesOut
    BY <1>7, SentReady
  <1>8. CASE ReconcileWrite \/ ReconcileCreate
    <2>1. CASE ReadAgain
      BY <2>1, QuietDiffers, ReadyKept DEF ReadAgain, space, handler
    <2>2. CASE pc' \in {"next", "wire"}
      BY <1>1, <2>2 DEF Writing
    <2>3. QED BY <1>8, <2>1, <2>2 DEF ReconcileWrite, ReconcileCreate, Done, GiveUp
  <1>9. CASE Environment \/ UNCHANGED vars
    <2>1. CASE Disturbed
      BY <2>1, DisturbedDiffers, ReadyKept DEF Disturbed, repository, handler
    <2>2. CASE UNCHANGED vars
      BY <2>2, QuietDiffers, ReadyKept DEF vars, space, repository, handler
    <2>3. CASE pc' \in {"idle", "list"}
      BY <1>1, <2>3 DEF Writing
    <2>4. QED
      BY <1>9, <2>1, <2>2, <2>3
         DEF Environment, Edit, Pull, Push, Request, Deliver, Disturbed, WellNamed
  <1>10. QED BY <1>2, <1>3, <1>4, <1>5, <1>6, <1>7, <1>8, <1>9 DEF Next, Serve

-----------------------------------------------------------------------------
(* Items.                                                                    *)

(* A stage that writes nothing and is done with no item.                     *)
LEMMA QuietStage ==
  ASSUME TypeInv, PushInv, pc \in Pushing, SpaceOK', Persists, Differs({}), todo' = todo,
         UNCHANGED <<req, rows, stored>>,
         pc' # "next" /\ pc # "next" => item' = item, pc = "next" \/ pc' # "next"
  PROVE  PushInv'
  BY PushStage

(* The item written is done: the answer will carry what the Space holds.     *)
LEMMA DoneStage ==
  ASSUME TypeInv, PushInv, pc \in Writing, SpaceOK', Persists,
         Differs({}) \/ Differs({item.uid}), NEW write, Done(write),
         NEW e, e = item, Claim(e, stored)'
  PROVE  PushInv'
  <1>1. /\ item \in todo /\ todo \subseteq req.batch /\ BatchOK(req.batch) /\ pc \in Pushing
        /\ pc # "next"
    BY DEF TypeInv, RequestOK, CallOK, Pushing, Writing
  <1>2. /\ pc' = "next" /\ todo' = todo \ {item} /\ UNCHANGED <<req, rows>>
        /\ stored \subseteq stored'
    BY DEF Done, Move
  <1>3. PICK S : Differs(S) /\ S \subseteq {item.uid}
    OBVIOUS
  <1>4. \A f \in req.batch : f # e => f.uid \notin S
    BY <1>1, <1>3 DEF BatchOK
  <1>5. /\ \A f \in req.batch \ todo : f.uid \notin S
        /\ \A f \in todo' : f.uid \notin S /\ f # item
    BY <1>1, <1>2, <1>4
  <1>6. \A f \in todo \ todo' : Claim(f, stored)'
    BY <1>2
  <1>7. QED BY <1>1, <1>2, <1>3, <1>5, <1>6, PushStage

LEMMA SentStage ==
  ASSUME TypeInv, WriteReady, PushInv, SpaceOK', Persists, Sent \/ SendTimesOut
  PROVE  PushInv'
  <1>1. /\ pc = "send" /\ pc \in Pushing /\ pc \in Writing /\ item \in todo
        /\ todo \subseteq req.batch /\ BatchOK(req.batch)
    BY DEF Sent, SendTimesOut, TypeInv, CallOK, RequestOK, Pushing, Writing
  <1>2. Differs({}) \/ Differs({item.uid})
    <2>1. CASE Written
      BY <2>1, WrittenDiffers
    <2>2. CASE ~Written
      <3>1. UNCHANGED <<object, archived, touched>>
        BY <2>2 DEF Sent, SendTimesOut, Send, TimeOut, others, Written
      <3>2. QED BY <3>1, QuietDiffers
    <2>3. QED BY <2>1, <2>2
  <1>3. CASE pc' # "next"
    <2>1. /\ pc' \in {"confirm", "reconcile"} /\ item' = item /\ todo' = todo
          /\ UNCHANGED <<req, rows, stored>>
      BY <1>3 DEF Sent, SendTimesOut, Done, Move, device, handler
    <2>2. PICK S : Differs(S) /\ S \subseteq {item.uid}
      BY <1>2
    <2>3. \A e \in req.batch : e # item => e.uid \notin S
      BY <1>1, <2>2 DEF BatchOK
    <2>4. QED BY <1>1, <2>1, <2>2, <2>3, PushStage
  <1>4. CASE pc' = "next"
    <2>1. PICK write, to : write = call /\ to = Settled(write)
      OBVIOUS
    <2>2. Sent /\ write.kind # "archive" /\ Done(to) /\ Written
      BY <1>4, <2>1 DEF Sent, SendTimesOut, Written, Move, others
    <2>3. write \in Mutations /\ Lands(write, to)
      BY <2>1, <2>2, WrittenLands
    <2>4. /\ item.kind = "upsert" /\ write.row.uid = item.uid /\ write.row.body = item.body
      BY <1>1, <2>1, <2>2, <2>3 DEF TypeInv, CallOK, Mutations
    <2>5. /\ Created' = Created \cup {to.row.id} /\ archived' = archived /\ touched' = touched
          /\ to \in Writes /\ to.row.name = write.row.name /\ to.row.uid = write.row.uid
          /\ to.row.body = write.row.body /\ to.kind = write.kind
          /\ object'[to.row.id] = [name |-> write.row.name, uid |-> write.row.uid,
                                   body |-> write.row.body, extra |-> write.extra]
          /\ IF write.kind = "create" THEN Fresh(to.row.id) ELSE to = write
      BY <2>2, <2>3 DEF Lands, Stored, Written
    <2>6. to.row.id \in Live' \cup touched'
      <3>1. CASE write.kind = "create"
        BY <2>5, <3>1 DEF Fresh, Live, TypeInv, SpaceOK
      <3>2. CASE write.kind # "create"
        <4>1. write.kind = "update" /\ write.row.id \in Live \cup touched
          BY <1>1, <2>1, <2>2, <2>3, <3>2 DEF WriteReady, Mutations
        <4>2. QED BY <2>5, <3>2, <4>1 DEF Live
      <3>3. QED BY <3>1, <3>2
    <2>7. to.row = RowOf(to.row.id)'
      <3>1. to.row \in Rows
        BY <2>5 DEF Writes
      <3>2. QED BY <2>5, <3>1 DEF RowOf, Rows
    <2>8. stored' = stored \cup {to.row}
      BY <2>2, <2>5 DEF Done
    <2>9. PICK e : e = item
      OBVIOUS
    <2>10. Claim(e, stored)'
      <3>1. \E r \in stored' : /\ r.uid = e.uid /\ r.body = e.body
                               /\ r.id \in touched' \/ (r.id \in Live' /\ RowOf(r.id)' = r)
        BY <2>4, <2>5, <2>6, <2>7, <2>8, <2>9
      <3>2. QED BY <2>4, <2>9, <3>1 DEF Claim
    <2>11. QED BY <1>1, <1>2, <2>2, <2>9, <2>10, DoneStage
  <1>5. QED BY <1>3, <1>4

LEMMA ReconcileStage ==
  ASSUME TypeInv, WriteReady, PushInv, SpaceOK', Persists, ReconcileWrite \/ ReconcileCreate
  PROVE  PushInv'
  <1>1. /\ pc \in {"reconcile", "confirm"} /\ pc \in Pushing /\ pc \in Writing /\ item \in todo
        /\ todo \subseteq req.batch /\ BatchOK(req.batch) /\ ItemOK(item)
    BY DEF ReconcileWrite, ReconcileCreate, TypeInv, CallOK, RequestOK, Pushing, Writing, BatchOK
  <1>2. CASE ReadAgain
    BY <1>1, <1>2, QuietDiffers, QuietStage DEF ReadAgain, space, handler
  <1>3. CASE GiveUp
    BY <1>1, <1>3 DEF GiveUp, Fails, Refuse, Answer, PushInv, Pushing, Writing
  <1>4. ASSUME NEW write, Done(write), UNCHANGED space, NEW e, e = item, Claim(e, stored')
        PROVE  PushInv'
    <2>1. Differs({})
      BY <1>4, QuietDiffers DEF space
    <2>2. PICK after : after = stored'
      OBVIOUS
    <2>3. Claim(e, after)'
      BY <1>1, <1>4, <2>1, <2>2, ClaimKept
    <2>4. Claim(e, stored)'
      BY <2>2, <2>3 DEF Claim
    <2>5. QED BY <1>1, <1>4, <2>1, <2>4, DoneStage
  <1>5. ASSUME call.kind = "archive", Matches, Done(call), UNCHANGED space PROVE PushInv'
    <2>1. PICK e : e = item
      OBVIOUS
    <2>2. call.id \in archived /\ OnlyIt(e, call.id) /\ ItemOK(e) /\ SpaceOK /\ e.kind = "delete"
      BY <1>1, <1>5, <2>1 DEF Matches, WriteReady, TypeInv, CallOK
    <2>3. \A i \in Live \ touched : object[i].uid # e.uid
      BY <2>2 DEF OnlyIt, Live
    <2>4. Claim(e, stored')
      BY <2>2, <2>3, OtherUid DEF Claim
    <2>5. QED BY <1>4, <1>5, <2>1, <2>4
  <1>6. ASSUME call.kind = "update", Matches, Done(call), UNCHANGED space PROVE PushInv'
    <2>1. PICK e : e = item
      OBVIOUS
    <2>2. /\ call.row.id \in Live /\ RowOf(call.row.id) = call.row /\ e.kind = "upsert"
          /\ call.row.uid = e.uid /\ call.row.body = e.body
      BY <1>1, <1>6, <2>1 DEF Matches, TypeInv, CallOK
    <2>3. call.row \in stored'
      BY <1>6 DEF Done
    <2>4. Claim(e, stored')
      BY <2>2, <2>3 DEF Claim
    <2>5. QED BY <1>4, <1>6, <2>1, <2>4
  <1>7. ASSUME call.kind = "create", pc = "reconcile", NEW i \in Candidates,
               Done([call EXCEPT !.row.id = i]), UNCHANGED space
        PROVE  PushInv'
    <2>1. PICK e, write : e = item /\ write = call
      OBVIOUS
    <2>2. /\ i \in Live /\ i \in Objects
          /\ object[i].name = write.row.name /\ object[i].uid = write.row.uid
      BY <1>7, <2>1 DEF Candidates, Page, Live, Created
    <2>3. /\ write \in Writes /\ write.row \in Rows /\ write.kind = "create" /\ e.kind = "upsert"
          /\ write.row.uid = e.uid /\ write.row.body = e.body
      BY <1>1, <1>7, <2>1 DEF TypeInv, CallOK, Mutations, Writes
    <2>4. i \in touched \/ object[i].body = write.row.body
      BY <1>7, <2>1, <2>2, <2>3 DEF WriteReady, OnlyAs
    <2>5. PICK found : found = [write EXCEPT !.row.id = i]
      OBVIOUS
    <2>6. /\ found \in Writes /\ found.kind = "create"
          /\ found.row \in Rows /\ found.row.id = i
          /\ found.row.name = write.row.name
          /\ found.row.uid = e.uid /\ found.row.body = e.body
      <3>1. found \in Writes /\ found.kind = "create" /\ found.row = [write.row EXCEPT !.id = i]
        BY <2>2, <2>3, <2>5, Renumbered
      <3>2. /\ found.row \in Rows /\ found.row.id = i /\ found.row.name = write.row.name
            /\ found.row.uid = write.row.uid /\ found.row.body = write.row.body
        BY <2>2, <2>3, <3>1, RenumberedRow
      <3>3. QED BY <2>3, <3>1, <3>2
    <2>7. Done(found)
      BY <1>7, <2>1, <2>5
    <2>8. found.row \in stored'
      BY <2>6, <2>7 DEF Done
    <2>9. i \in touched \/ RowOf(i) = found.row
      BY <2>2, <2>3, <2>4, <2>6 DEF RowOf, Rows
    <2>10. Claim(e, stored')
      BY <2>2, <2>3, <2>6, <2>8, <2>9 DEF Claim
    <2>11. QED BY <1>4, <1>7, <2>1, <2>7, <2>10
  <1>8. call.kind \in {"create", "update", "archive"}
    BY <1>1 DEF TypeInv, CallOK, Mutations
  <1>9. QED
    BY <1>1, <1>2, <1>3, <1>5, <1>6, <1>7, <1>8 DEF ReconcileWrite, ReconcileCreate

-----------------------------------------------------------------------------
(* What the device is told.                                                  *)

LEMMA PushStep ==
  ASSUME TypeInv, LookInv, WriteReady, PushInv, ContactsOnly, [Next]_vars
  PROVE  PushInv'
  <1> USE DEF Answer, Move, Refuse, Fails
  <1>1. SpaceOK' /\ Persists
    BY StepKeepsSpace
  <1>2. ASSUME pc # "idle", pc' \notin Pushing, req' = req PROVE PushInv'
    BY <1>2 DEF PushInv
  <1>3. ASSUME pc \in Pushing, pc' \in Pushing, Differs({}), todo' = todo,
               UNCHANGED <<req, rows, stored>>,
               pc = "next" \/ (pc' # "next" /\ item' = item)
        PROVE  PushInv'
    BY <1>1, <1>3, QuietStage
  <1>4. CASE Invalid \/ ListFails \/ ListRefused \/ AnswerPull \/ AnswerPush \/ WriteFails
    BY <1>2, <1>4 DEF Invalid, ListFails, ListRefused, AnswerPull, AnswerPush, WriteFails,
         Listing, Pushing, Writing
  <1>5. CASE ListPage
    <2>1. /\ pc' = pc /\ pc \in Listing /\ UNCHANGED <<req, rows, stored, todo, item>>
          /\ UNCHANGED <<object, archived, touched>>
      BY <1>5 DEF ListPage, space, handler
    <2>2. QED BY <1>2, <1>3, <2>1, QuietDiffers DEF Listing, Pushing, Writing
  <1>6. CASE ListPush
    <2>1. /\ pc = "list" /\ pc' = "next" /\ scan.done /\ rows' = Listed /\ req' = req
          /\ req.batch # {} /\ todo' = todo /\ todo = req.batch
          /\ UNCHANGED <<object, archived, touched>>
      BY <1>6 DEF ListPush, Refreshed, Reading, space, TypeInv, RequestOK
    <2>2. req.authority = "com.android.contacts" /\ ScanKnows
      BY <2>1 DEF PushInv, LookInv, Listing
    <2>3. \A e : StillListed(e)'
      BY <2>1, <2>2, ListedNow
    <2>4. QED BY <2>1, <2>2, <2>3 DEF PushInv
  <1>7. CASE NextUpsert \/ NextDelete
    <2>1. pc = "next" /\ pc \in Pushing /\ UNCHANGED <<object, archived, touched>>
      BY <1>7 DEF NextUpsert, NextUpdate, NextCreate, NextDelete, Look, Pushing, space
    <2>2. CASE pc' \in {"refresh", "send"}
      <3>1. todo' = todo /\ UNCHANGED <<req, rows, stored>>
        BY <1>7, <2>2 DEF NextUpsert, NextUpdate, NextCreate, NextDelete, Look
      <3>2. QED BY <1>3, <2>1, <2>2, <3>1, QuietDiffers DEF Pushing, Writing
    <2>3. CASE pc' = "wire"
      BY <1>2, <1>7, <2>1, <2>3
         DEF Pushing, Writing, NextUpsert, NextUpdate, NextCreate, NextDelete, Look
    <2>4. CASE pc' = "next"
      <3>1. PICK e \in DeletesOf(todo) :
              /\ Targets(e) = {} /\ todo' = todo \ {e} /\ UNCHANGED <<req, rows, stored>>
        BY <1>7, <2>4 DEF NextUpsert, NextUpdate, NextCreate, NextDelete, Look
      <3>2. e \in todo /\ e.kind = "delete" /\ StillListed(e)
        BY <2>1, <3>1 DEF DeletesOf, PushInv
      <3>3. Claim(e, stored)
        BY <2>1, <3>1, <3>2, Absent
      <3>4. todo \subseteq req.batch /\ ItemOK(e)
        BY <3>2 DEF TypeInv, RequestOK, BatchOK
      <3>5. PICK carried : carried = stored
        OBVIOUS
      <3>6. Claim(e, carried)'
        BY <1>1, <2>1, <3>3, <3>4, <3>5, QuietDiffers, ClaimKept
      <3>7. Claim(e, stored)'
        BY <3>1, <3>5, <3>6 DEF Claim
      <3>8. Differs({})
        BY <2>1, QuietDiffers
      <3>9. \A f \in todo \ todo' : Claim(f, stored)'
        BY <3>1, <3>7
      <3>10. QED BY <1>1, <2>1, <2>4, <3>1, <3>8, <3>9, PushStage
    <2>5. QED
      BY <1>7, <2>2, <2>3, <2>4 DEF NextUpsert, NextUpdate, NextCreate, NextDelete, Look
  <1>8. CASE Refresh
    <2>1. /\ pc = "refresh" /\ pc' \in {"fetch", "send", "wire"} /\ req' = req
          /\ UNCHANGED <<object, archived, touched>>
          /\ pc' # "wire" => UNCHANGED <<rows, todo, stored, item>>
      BY <1>8 DEF Refresh, Reading, space
    <2>2. QED BY <1>2, <1>3, <2>1, QuietDiffers DEF Pushing, Writing
  <1>9. CASE Fetch
    <2>1. /\ pc = "fetch" /\ pc' = "send" /\ req' = req
          /\ UNCHANGED <<object, archived, touched>>
          /\ UNCHANGED <<rows, todo, stored, item>>
      BY <1>9 DEF Fetch, space
    <2>2. QED BY <1>3, <2>1, QuietDiffers DEF Pushing, Writing
  <1>10. CASE Sent \/ SendTimesOut
    BY <1>1, <1>10, SentStage
  <1>11. CASE ReconcileWrite \/ ReconcileCreate
    BY <1>1, <1>11, ReconcileStage
  <1>12. CASE Disturbed \/ UNCHANGED vars
    <2>1. Differs({})
      BY <1>12, DisturbedDiffers, QuietDiffers DEF vars, space
    <2>2. UNCHANGED <<pc, req, rows, stored, todo, item>>
      BY <1>12 DEF Disturbed, vars, handler
    <2>3. CASE pc \in Pushing
      BY <1>3, <2>1, <2>2, <2>3
    <2>4. CASE pc \notin Pushing
      BY <2>2, <2>4 DEF PushInv
    <2>5. QED BY <2>3, <2>4
  <1>13. ASSUME NEW batch, Edit(batch) PROVE PushInv'
    BY <1>13 DEF Edit, PushInv, Pushing, Writing
  <1>14. ASSUME NEW authority, NEW batch, Request(authority, batch),
                batch # {} => authority = "com.android.contacts"
         PROVE  PushInv'
    BY <1>14 DEF Request, PushInv, Pushing, Writing
  <1>15. CASE Push
    <2>1. \A e \in pending : e.uid \in Uids
      BY DEF TypeInv, RequestOK, BatchOK, ItemOK, Upserts, Deletes
    <2>2. PushAuthority(pending) = "com.android.contacts"
      BY <2>1 DEF PushAuthority, ContactsOnly
    <2>3. QED BY <1>14, <1>15, <2>2 DEF Push
  <1>16. ASSUME NEW received, Deliver(received) PROVE PushInv'
    BY <1>16 DEF Deliver, PushInv, Pushing, Writing
  <1>17. QED
    BY <1>4, <1>5, <1>6, <1>7, <1>8, <1>9, <1>10, <1>11, <1>12, <1>13, <1>14, <1>15, <1>16
       DEF Next, Serve, Environment, Pull, Disturbed, WellNamed

LEMMA AnswerStep ==
  ASSUME TypeInv, PushInv, AnswerInv, [Next]_vars
  PROVE  AnswerInv'
  <1> USE DEF Answer, Move, Refuse, Fails
  <1>1. SpaceOK' /\ Persists
    BY StepKeepsSpace
  <1>2. ASSUME verdict' = verdict, pc # "idle", pc' = "wire" => answer'.code # "ok"
        PROVE  AnswerInv'
    BY <1>2 DEF AnswerInv, TypeInv, RequestOK
  <1>3. ASSUME NEW error, Fails(error), pc # "idle" PROVE AnswerInv'
    <2>1. verdict' = verdict /\ answer'.code = ErrorAnswer(error)[2]
      BY <1>3 DEF device
    <2>2. QED BY <1>2, <1>3, <2>1, ErrorsRefuse
  <1>4. CASE Invalid
    <2>1. pc = "list" /\ verdict' = verdict /\ answer'.code # "ok"
      BY <1>4 DEF Invalid, device
    <2>2. QED BY <1>2, <2>1
  <1>5. CASE ListFails \/ ListRefused \/ WriteFails
    BY <1>3, <1>5 DEF ListFails, ListRefused, WriteFails, Listing
  <1>6. CASE ListPage
    BY <1>2, <1>6 DEF ListPage, device, Listing
  <1>7. CASE AnswerPull
    <2>1. pc = "list" /\ verdict' = verdict /\ req' = req /\ req.batch = {}
      BY <1>7 DEF AnswerPull, device
    <2>2. verdict.code # "ok"
      BY <2>1 DEF TypeInv, RequestOK
    <2>3. QED BY <2>1, <2>2 DEF AnswerInv
  <1>8. CASE AnswerPush
    <2>1. /\ pc = "next" /\ todo = {} /\ verdict' = verdict /\ req' = req
          /\ answer'.rows = stored /\ UNCHANGED <<object, archived, touched>>
      BY <1>8 DEF AnswerPush, device, space
    <2>2. verdict.code # "ok" /\ BatchOK(req.batch)
      BY <2>1 DEF TypeInv, RequestOK
    <2>3. \A e \in req.batch : Claim(e, stored)
      BY <2>1 DEF PushInv, Pushing
    <2>4. PICK carried : carried = stored
      OBVIOUS
    <2>5. \A e \in req.batch : Claim(e, carried)'
      BY <1>1, <2>1, <2>2, <2>3, <2>4, QuietDiffers, ClaimKept DEF BatchOK
    <2>6. \A e \in req.batch : Claim(e, answer.rows)'
      BY <2>1, <2>4, <2>5 DEF Claim
    <2>7. QED BY <2>1, <2>2, <2>6 DEF AnswerInv
  <1>9. CASE ListPush \/ Refresh \/ Fetch
    BY <1>2, <1>3, <1>9 DEF ListPush, Refresh, Fetch, device
  <1>10. CASE NextUpsert \/ NextDelete
    BY <1>2, <1>3, <1>10 DEF NextUpsert, NextUpdate, NextCreate, NextDelete, Look, device
  <1>11. CASE Sent \/ SendTimesOut
    BY <1>2, <1>11 DEF Sent, SendTimesOut, Done, device
  <1>12. CASE ReconcileWrite \/ ReconcileCreate
    BY <1>2, <1>3, <1>12 DEF ReconcileWrite, ReconcileCreate, Done, ReadAgain, GiveUp, device
  <1>13. CASE Disturbed \/ UNCHANGED vars
    <2>1. Differs({})
      BY <1>13, DisturbedDiffers, QuietDiffers DEF vars, space
    <2>2. UNCHANGED <<pc, req, answer, verdict>>
      BY <1>13 DEF Disturbed, vars, handler, device
    <2>3. PICK mine, hers, carried, told :
            mine = req.batch /\ hers = verdict.batch /\ carried = answer.rows
            /\ told = verdict.rows
      OBVIOUS
    <2>4. BatchOK(mine)
      BY <2>3 DEF TypeInv, RequestOK
    <2>5. pc = "wire" /\ answer.code = "ok" => \A e \in mine : Claim(e, carried)'
      BY <1>1, <2>1, <2>3, <2>4, ClaimKept DEF AnswerInv, BatchOK
    <2>6. verdict.code = "ok" => BatchOK(hers)' /\ \A e \in hers : Claim(e, told)'
      BY <1>1, <2>1, <2>3, ClaimKept, ItemsKept DEF AnswerInv, BatchOK
    <2>7. pc = "wire" /\ answer.code = "ok" => \A e \in mine : Claim(e, answer.rows)'
      BY <2>2, <2>3, <2>5 DEF Claim
    <2>8. verdict.code = "ok" => BatchOK(verdict.batch)' /\ \A e \in hers : Claim(e, verdict.rows)'
      BY <2>2, <2>3, <2>6 DEF Claim, BatchOK
    <2>9. QED BY <2>2, <2>3, <2>7, <2>8 DEF AnswerInv
  <1>14. ASSUME NEW batch, Edit(batch) PROVE AnswerInv'
    BY <1>14 DEF Edit, NoVerdict, AnswerInv
  <1>15. ASSUME NEW authority, NEW batch, Request(authority, batch) PROVE AnswerInv'
    BY <1>15, LocallyRefused DEF Request, NoVerdict, AnswerInv
  <1>16. ASSUME NEW received, Deliver(received) PROVE AnswerInv'
    <2>1. /\ pc = "wire" /\ pc' = "idle" /\ UNCHANGED <<object, archived, touched>>
          /\ verdict'.rows = answer.rows /\ verdict'.batch = req.batch
          /\ verdict'.code = Verdict(Wire(received))
      BY <1>16, Zenon DEF Deliver, space
    <2>2. verdict'.code = "ok" => answer.code = "ok"
      BY <2>1, VerdictOk DEF Wire
    <2>3. PICK mine, carried : mine = req.batch /\ carried = answer.rows
      OBVIOUS
    <2>4. BatchOK(mine) /\ BatchOK(mine)'
      BY <1>1, <2>3, ItemsKept DEF TypeInv, RequestOK
    <2>5. verdict'.code = "ok" => \A e \in mine : Claim(e, carried)'
      BY <1>1, <2>1, <2>2, <2>3, <2>4, QuietDiffers, ClaimKept DEF AnswerInv, BatchOK
    <2>6. verdict'.code = "ok" => BatchOK(verdict.batch)' /\ \A e \in mine : Claim(e, verdict.rows)'
      BY <2>1, <2>3, <2>4, <2>5 DEF Claim, BatchOK
    <2>7. QED BY <2>1, <2>3, <2>6 DEF AnswerInv
  <1>17. QED
    BY <1>4, <1>5, <1>6, <1>7, <1>8, <1>9, <1>10, <1>11, <1>12, <1>13, <1>14, <1>15, <1>16
       DEF Next, Serve, Environment, Pull, Push, Disturbed, WellNamed

SyncInv == TypeInv /\ LookInv /\ WriteReady /\ PushInv /\ AnswerInv

LEMMA SyncInit == Init => SyncInv
  <1> SUFFICES ASSUME Init PROVE SyncInv
    OBVIOUS
  <1>1. pc = "idle" /\ verdict = NoVerdict
    BY DEF Init
  <1>2. WriteReady /\ PushInv /\ AnswerInv
    BY <1>1 DEF WriteReady, PushInv, AnswerInv, Writing, Pushing, NoVerdict
  <1>3. QED BY <1>2, TypeInvInit, LookInit DEF SyncInv

LEMMA SyncStep ==
  ASSUME WholeListings, ContactsOnly, SyncInv, [Next]_vars
  PROVE  SyncInv'
  BY TypeInvStep, LookStep, ReadyStep, PushStep, AnswerStep DEF SyncInv

(* A batch the device takes off its list is in the Space: every edit under   *)
(* the row the answer carries, and nothing of what a tombstone names, but    *)
(* for what another client touched meanwhile; however often calls of the     *)
(* Space time out, fail or answers are lost on the way to it.                *)
THEOREM AcknowledgedIsStored ==
  ASSUME WholeListings, ContactsOnly
  PROVE  Spec => []AcknowledgedStored
  <1>1. SyncInv => AcknowledgedStored
    BY DEF SyncInv, AnswerInv, AcknowledgedStored, Claim
  <1>2. SyncInv /\ [Next]_vars => SyncInv'
    BY SyncStep
  <1>3. QED BY <1>1, <1>2, SyncInit, PTL DEF Spec

(* No write adds a live object for a UID that has one: not an edit replayed  *)
(* under a provisional identity, not a create sent again after a time-out.   *)
THEOREM NoDuplicates ==
  ASSUME WholeListings, ContactsOnly
  PROVE  Spec => NoSecondObject
  <1>1. SyncInv /\ [Next]_vars =>
          [\A i \in Created' \ Created, j \in Live \ touched :
             foreign' = foreign => object[j].uid # object'[i].uid]_object
    <2> SUFFICES ASSUME SyncInv, [Next]_vars, foreign' = foreign, object' # object,
                        NEW i \in Created' \ Created, NEW j \in Live \ touched
                 PROVE  object[j].uid # object'[i].uid
      OBVIOUS
    <2>1. TypeInv /\ WriteReady
      BY DEF SyncInv
    <2>2. Written
      BY <2>1, Steps, DisturbedDiffers DEF Handling, Received
    <2>3. PICK write, to : write = call /\ to = Settled(write)
      OBVIOUS
    <2>4. pc = "send" /\ write \in Mutations /\ Lands(write, to)
      BY <2>1, <2>2, <2>3, WrittenLands
    <2>5. write.kind # "archive"
      BY <2>4 DEF Lands
    <2>6. /\ Created' = Created \cup {to.row.id} /\ object'[to.row.id].uid = write.row.uid
          /\ write.kind # "create" => to = write
      BY <2>4, <2>5 DEF Lands, Stored
    <2>7. i = to.row.id
      BY <2>6
    <2>8. write.kind = "create" /\ write.row.uid = item.uid
      <3>1. write.kind \in {"create", "update"} /\ write.row.uid = item.uid
        BY <2>1, <2>3, <2>4, <2>5 DEF TypeInv, CallOK, Writing, Mutations
      <3>2. write.kind = "update" => NamesObject(write.row)
        BY <2>1, <2>3, <2>4 DEF TypeInv, CallOK, Writing
      <3>3. QED BY <2>6, <2>7, <3>1, <3>2 DEF NamesObject
    <2>9. QED BY <2>1, <2>3, <2>4, <2>6, <2>7, <2>8 DEF WriteReady, Alone
  <1>2. SyncInv /\ [Next]_vars => SyncInv'
    BY SyncStep
  <1>3. QED BY <1>1, <1>2, SyncInit, PTL DEF Spec, NoSecondObject
===============================================================================
