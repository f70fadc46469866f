--------------------------- MODULE DavServiceProofs ---------------------------
(***************************************************************************)
(* Theorems about a write on its way through the service, for any Space,    *)
(* any page size, any number of requests and of changes by other clients.   *)
(***************************************************************************)
EXTENDS DavService, SpaceProofs

Looking   == {"lookup", "condition", "refresh"}
BeforeSending == Looking \cup {"fetch", "send"}

-----------------------------------------------------------------------------
(* Refusals.  Until the write is sent every answer is possible; the stages   *)
(* after it have no refusal of their own, only the errors of the Space.      *)

Unsent == pc \in BeforeSending \cup {"down"} => sent = FALSE

(* 404, 409 and 412, but for those the Space gives.                          *)
Own == {"412"} \cup ({"404", "409"} \ Failures)

RefusalInv == Unsent /\ (pc = "idle" /\ answer.status \in Own => ~sent)

LEMMA NotOwn ==
  \A status \in Failures \cup TimedOut \cup {"408", "500", "503", "none", "success"} :
    status \notin Own
  BY ErrorsAssumption DEF Own, Failures, TimedOut, RemoteErrors

LEMMA RefusalStep == RefusalInv /\ [Next]_vars => RefusalInv'
  <1> SUFFICES ASSUME RefusalInv, [Next]_vars PROVE RefusalInv'
    OBVIOUS
  <1> USE DEF RefusalInv, Unsent, BeforeSending, Looking, Refuse, Reply, Move
  <1>1. CASE ScanPage
    BY <1>1 DEF ScanPage, control
  <1>2. CASE ScanFails
    BY <1>2, NotOwn DEF ScanFails
  <1>3. CASE ScanRefused
    BY <1>3, NotOwn DEF ScanRefused, AfterWrite, Scanning
  <1>4. CASE PutLookup
    BY <1>4 DEF PutLookup, LookupRefuses, LookupProceeds
  <1>5. CASE PutPanics
    BY <1>5 DEF PutPanics
  <1>6. CASE DeleteLookup
    BY <1>6 DEF DeleteLookup, LookupRefuses, LookupProceeds
  <1>7. CASE Condition
    BY <1>7 DEF Condition
  <1>8. CASE Refresh
    BY <1>8 DEF Refresh, RefreshRefuses, RefreshProceeds
  <1>9. CASE Fetch
    BY <1>9 DEF Fetch
  <1>10. CASE UpdateNothing
    BY <1>10, NotOwn DEF UpdateNothing
  <1>11. CASE FetchFails
    BY <1>11, NotOwn DEF FetchFails
  <1>12. CASE WriteSucceeds
    BY <1>12 DEF WriteSucceeds, AfterUpdate
  <1>13. CASE WriteTimesOut
    BY <1>13 DEF WriteTimesOut
  <1>14. CASE ReconcileWrite
    BY <1>14, NotOwn DEF ReconcileWrite, Recognised, ReadAgain, GiveUp, control
  <1>15. CASE ReconcileCreate
    BY <1>15, NotOwn DEF ReconcileCreate, Recognised, ReadAgain, GiveUp, control
  <1>16. CASE ListContacts
    BY <1>16 DEF ListContacts
  <1>17. CASE ListTasks
    BY <1>17 DEF ListTasks
  <1>18. CASE CheckpointBlocked
    BY <1>18, NotOwn DEF CheckpointBlocked
  <1>19. CASE CommitAttempt
    BY <1>19 DEF CommitAttempt
  <1>20. CASE CommitFails
    BY <1>20, NotOwn DEF CommitFails
  <1>21. CASE CommitSettles
    BY <1>21, NotOwn DEF CommitSettles
  <1>22. ASSUME NEW r \in ClientRequests, Receive(r) PROVE RefusalInv'
    BY <1>22, NotOwn DEF Receive
  <1>23. CASE Start
    BY <1>23 DEF Start
  <1>24. CASE Crash
    BY <1>24, NotOwn DEF Crash
  <1>25. CASE UNCHANGED control
    BY <1>25 DEF control
  <1>26. CASE WriteFails
    BY <1>26, NotOwn DEF WriteFails
  <1>27. QED
    BY <1>1, <1>2, <1>3, <1>4, <1>5, <1>6, <1>7, <1>8, <1>9, <1>10, <1>11, <1>12, <1>13,
       <1>14, <1>15, <1>16, <1>17, <1>18, <1>19, <1>20, <1>21, <1>22, <1>23, <1>24, <1>25,
       <1>26 DEF Next, Serve, Environment, vars

(* "A rejected DAV precondition must never become a remote mutation followed *)
(* by a local 412": for every schedule of requests, faults and other clients *)
(* no write was sent for a request that is answered 412, nor for one that is *)
(* answered 404 or 409, unless calls to the Space may fail with that status: *)
(* the Space's errors are answered as they are, also after a write.          *)
THEOREM RefusalsSendNothing == Spec => []RefusedUnsent
  <1>1. Init => RefusalInv
    BY NotOwn DEF Init, RefusalInv, Unsent, BeforeSending, Looking
  <1>2. RefusalInv => RefusedUnsent
    BY DEF RefusalInv, RefusedUnsent, Answered, Own
  <1>3. QED BY <1>1, <1>2, RefusalStep, PTL DEF Spec

-----------------------------------------------------------------------------
(* What the service knows of the version a condition names.                  *)

Updates  == [kind : {"update"}, row : Rows, extra : Extras]
Creates  == [kind : {"create"}, row : [name : Names, uid : Uids, body : Bodies, id : {1}],
             extra : Extras]
Archives == [kind : {"archive"}, id : Objects]

SpaceInv ==
  /\ late = NoCall
  /\ object \in [Objects -> Contents \cup {Unused}]

ScanInv ==
  pc \in Looking => /\ scan.rows \subseteq Rows
                    /\ \A r \in scan.rows : r.id \in Created /\ IsCurrent(r)

CallInv ==
  /\ pc = "lookup" => call = NoCall
  /\ pc \in {"condition", "refresh", "fetch"} =>
       call = NoCall \/ (call \in Updates /\ call.row.id \in Created)
  /\ pc = "send" => call \in Updates \cup Creates \cup Archives

ReqInv ==
  /\ pc \in BeforeSending /\ req.method = "PUT" =>
       req.name \in Names /\ req.uid \in Uids /\ req.body \in Bodies
  /\ pc = "fetch" => req.method = "PUT"

CondInv ==
  req.cond \in Rows =>
    /\ pc = "refresh" => expected \in {req.cond, Mismatch}
    /\ pc \in {"fetch", "send"} => IsCurrent(req.cond)
    /\ pc = "send" /\ req.method = "DELETE" => call.id = req.cond.id

VersionInv == SpaceInv /\ ScanInv /\ CallInv /\ ReqInv /\ CondInv

LEMMA Sentinels ==
  /\ {NoCondition, IfNew, IfAny, Mismatch} \cap Rows = {}
  /\ NoCondition # Mismatch
  <1>1. SUFFICES ASSUME NoCondition = Mismatch PROVE FALSE
    BY ServiceAssumption
  <1> DEFINE one == {Mismatch}  two == one \cup {IfNew}  three == two \cup {IfAny}
  <1>2. IsFiniteSet(one) /\ Cardinality(one) = 1
    BY FS_Singleton
  <1>3. IsFiniteSet(two) /\ Cardinality(two) <= 2
    <2> HIDE DEF one
    <2>1. QED BY <1>2, FS_AddElement
  <1>4. Cardinality(three) <= 3
    <2> HIDE DEF two
    <2>1. Cardinality(two) \in Nat
      BY <1>3, FS_CardinalityType
    <2>2. QED BY <1>3, <2>1, FS_AddElement
  <1>5. {NoCondition, IfNew, IfAny, Mismatch} = three
    BY <1>1
  <1>6. QED BY <1>4, <1>5, ServiceAssumption

LEMMA NamedRow ==
  ASSUME NEW row \in [name : Names, uid : Uids, body : Bodies, id : {1}], NEW i
  PROVE  LET named == [row EXCEPT !.id = i]
         IN  named.name = row.name /\ named.uid = row.uid /\ named.body = row.body
  OBVIOUS

LEMMA NamedCreate ==
  ASSUME NEW create \in Creates, NEW i
  PROVE  LET named == [create EXCEPT !.row.id = i]
         IN  /\ named.kind = create.kind /\ named.extra = create.extra
             /\ named.row = [create.row EXCEPT !.id = i]
  BY DEF Creates

LEMMA WriteTyped ==
  ASSUME object \in [Objects -> Contents \cup {Unused}],
         call \in Updates \cup Creates \cup Archives,
         Apply(Settled(call))
  PROVE  object' \in [Objects -> Contents \cup {Unused}]
  <1>1. CASE call \in Archives
    BY <1>1 DEF Archives, Settled, Apply
  <1>2. CASE call \in Updates
    <2>1. Settled(call) = call /\ call.kind = "update"
      BY <1>2 DEF Updates, Settled
    <2>2. Store(call.row.id, call.row, call.extra)
      BY <2>1 DEF Apply
    <2>3. QED BY <1>2, <2>2 DEF Store, Updates, Rows, Contents
  <1>3. CASE call \in Creates
    <2> DEFINE fresh == CHOOSE i \in Objects : Fresh(i)
    <2>1. /\ call.kind = "create"
          /\ call.row \in [name : Names, uid : Uids, body : Bodies, id : {1}]
          /\ call.extra \in Extras
      BY <1>3 DEF Creates
    <2>2. Settled(call) = [call EXCEPT !.row.id = fresh]
      BY <2>1 DEF Settled
    <2> HIDE DEF fresh
    <2>3. /\ Settled(call).kind = "create"
          /\ Settled(call).extra = call.extra
          /\ Settled(call).row = [call.row EXCEPT !.id = fresh]
      BY <1>3, <2>1, <2>2, NamedCreate
    <2>4. Store(Settled(call).row.id, Settled(call).row, call.extra)
      BY <2>3 DEF Apply
    <2>5. /\ Settled(call).row.name = call.row.name
          /\ Settled(call).row.uid = call.row.uid
          /\ Settled(call).row.body = call.row.body
      BY <2>1, <2>3, NamedRow
    <2>6. QED BY <2>1, <2>4, <2>5 DEF Store, Contents
  <1>4. QED BY <1>1, <1>2, <1>3

(* Other clients keep the Space well formed, never undo the creation of an   *)
(* object, and are seen whenever they make a row out of date.                *)
LEMMA OthersSeen ==
  ASSUME SpaceInv, OtherClients
  PROVE  /\ SpaceInv'
         /\ Created \subseteq Created'
         /\ \A row : IsCurrent(row) => IsCurrent(row)'
  <1>1. PICK i \in Objects : OthersChange(i)
    BY OthersChangeOne DEF SpaceInv, ObjectsTyped
  <1>2. SpaceInv'
    BY <1>1 DEF SpaceInv, OthersChange, ObjectsTyped
  <1>3. Created \subseteq Created'
    BY <1>1 DEF OthersChange, Edited, Added
  <1>4. QED BY <1>1, <1>2, <1>3, UntouchedKept

LEMMA RowsOfTheSpace ==
  ASSUME SpaceInv, NEW i \in Live
  PROVE  RowOf(i) \in Rows /\ IsCurrent(RowOf(i)) /\ RowOf(i).id \in Created
  <1>1. object[i] \in Contents /\ i \in Objects
    BY DEF SpaceInv, Live, Created
  <1>2. RowOf(i) \in Rows /\ RowOf(i).id = i
    BY <1>1 DEF RowOf, Rows, Contents
  <1>3. QED BY <1>1, <1>2 DEF IsCurrent, Live

(* Once the write is sent nothing is claimed of the stages that follow.      *)
LEMMA AfterTheWrite ==
  ASSUME SpaceInv', pc' \notin BeforeSending
  PROVE  VersionInv'
  BY DEF VersionInv, ScanInv, CallInv, ReqInv, CondInv, BeforeSending, Looking

(* ... nor of an answer, while the Space stays as it is.                     *)
LEMMA Answering ==
  ASSUME SpaceInv, UNCHANGED <<object, late>>, pc' \notin BeforeSending
  PROVE  VersionInv'
  BY AfterTheWrite DEF SpaceInv

LEMMA Refusing ==
  ASSUME SpaceInv, UNCHANGED <<object, late>>, NEW stage, NEW status, NEW row,
         Reply(stage, status, row)
  PROVE  VersionInv'
  BY Answering DEF Reply, BeforeSending, Looking

(* A stage that begins with a hydrate has read nothing yet.                  *)
LEMMA LookingAgain ==
  ASSUME SpaceInv, LookAgain
  PROVE  SpaceInv' /\ ScanInv'
  BY DEF LookAgain, SpaceInv, ScanInv, NewScan

(* ... and goes on to the next stage with the request it serves.             *)
LEMMA Proceeding ==
  ASSUME SpaceInv, ReqInv, pc = "lookup", NEW to \in {"condition", "refresh", "send"},
         NEW condition, NEW write, LookupProceeds(to, condition, write)
  PROVE  /\ SpaceInv' /\ ScanInv' /\ ReqInv'
         /\ req' = req /\ pc' = to /\ call' = write /\ expected' = condition
         /\ Created' = Created
  <1>1. SpaceInv' /\ ScanInv'
    BY LookingAgain DEF LookupProceeds
  <1>2. req' = req /\ pc' = to /\ call' = write /\ expected' = condition /\ object' = object
    BY DEF LookupProceeds, Move, LookAgain
  <1>3. QED BY <1>1, <1>2 DEF ReqInv, Created, BeforeSending, Looking

LEMMA RefusedLookup ==
  ASSUME SpaceInv, NEW status, LookupRefuses(status)
  PROVE  VersionInv'
  BY Refusing DEF LookupRefuses, Refuse, Reading, space

LEMMA PutLookupStep ==
  ASSUME VersionInv, PutLookup
  PROVE  VersionInv'
  <1> USE DEF VersionInv
  <1>1. /\ pc = "lookup" /\ req.method = "PUT"
        /\ req.name \in Names /\ req.uid \in Uids /\ req.body \in Bodies
    BY DEF PutLookup, ReqInv, BeforeSending, Looking
  <1>2. ASSUME NEW r \in Found
        PROVE  PutWrite("update", r.id) \in Updates /\ PutWrite("update", r.id).row.id \in Created
    <2>1. r \in Rows /\ r.id \in Created
      BY <1>1, <1>2 DEF Found, Named, ScanInv, Looking
    <2>2. [name |-> req.name, uid |-> req.uid, body |-> req.body, id |-> r.id] \in Rows
      BY <1>1, <2>1 DEF Rows
    <2>3. QED BY <2>1, <2>2, SpaceAssumption DEF PutWrite, Updates
  <1>3. PutWrite("create", 1) \in Creates
    BY <1>1, SpaceAssumption DEF PutWrite, Creates
  <1>4. ASSUME NEW r \in Found, NEW condition,
               req.cond \notin Rows,
               LookupProceeds("refresh", condition, PutWrite("update", r.id))
        PROVE  VersionInv'
    BY <1>1, <1>2, <1>4, Proceeding DEF CallInv, CondInv
  <1>5. ASSUME NEW r \in Found,
               LookupProceeds("condition", NoCondition, PutWrite("update", r.id))
        PROVE  VersionInv'
    BY <1>1, <1>2, <1>5, Proceeding DEF CallInv, CondInv
  <1>6. ASSUME req.cond \notin Rows, LookupProceeds("send", NoCondition, PutWrite("create", 1))
        PROVE  VersionInv'
    BY <1>1, <1>3, <1>6, Proceeding DEF CallInv, CondInv
  <1>7. {NoCondition, IfNew, IfAny} \cap Rows = {}
    BY Sentinels
  <1>8. CASE \E status : LookupRefuses(status)
    BY <1>8, RefusedLookup
  <1>9. CASE \E r \in Found :
               \/ req.cond = NoCondition
                    /\ LookupProceeds("refresh", NoCondition, PutWrite("update", r.id))
               \/ req.cond = IfAny
                    /\ LookupProceeds("refresh", r, PutWrite("update", r.id))
               \/ req.cond \in Rows
                    /\ LookupProceeds("condition", NoCondition, PutWrite("update", r.id))
    BY <1>2, <1>4, <1>5, <1>7, <1>9
  <1>10. CASE \/ req.cond \in {NoCondition, IfNew}
                   /\ LookupProceeds("send", NoCondition, PutWrite("create", 1))
              \/ LookupProceeds("condition", NoCondition, NoCall)
    <2>1. CASE LookupProceeds("condition", NoCondition, NoCall)
      BY <1>1, <2>1, Proceeding DEF CallInv, CondInv
    <2>2. CASE /\ req.cond \in {NoCondition, IfNew}
               /\ LookupProceeds("send", NoCondition, PutWrite("create", 1))
      BY <1>6, <1>7, <2>2
    <2>3. QED BY <1>10, <2>1, <2>2
  <1>11. QED BY <1>8, <1>9, <1>10 DEF PutLookup

LEMMA DeleteLookupStep ==
  ASSUME VersionInv, DeleteLookup
  PROVE  VersionInv'
  <1> USE DEF VersionInv
  <1>1. pc = "lookup"
    BY DEF DeleteLookup
  <1>2. ASSUME NEW to \in {"condition", "refresh"}, req.cond \in Rows => to = "condition",
               LookupProceeds(to, NoCondition, NoCall)
        PROVE  VersionInv'
    BY <1>1, <1>2, Proceeding DEF CallInv, CondInv
  <1>3. QED BY <1>2, RefusedLookup, Sentinels DEF DeleteLookup

LEMMA ConditionStep ==
  ASSUME VersionInv, Condition
  PROVE  VersionInv'
  <1> USE DEF VersionInv
  <1>1. SpaceInv' /\ ScanInv'
    BY LookingAgain DEF Condition
  <1>2. /\ pc = "condition" /\ pc' = "refresh" /\ req' = req /\ call' = call
        /\ object' = object /\ expected' \in {req.cond, Mismatch}
    BY DEF Condition, Move, LookAgain
  <1>3. ReqInv'
    BY <1>2 DEF ReqInv, BeforeSending, Looking
  <1>4. CallInv' /\ CondInv'
    BY <1>2 DEF CallInv, CondInv, Created
  <1>5. QED BY <1>1, <1>3, <1>4

(* The preflight lets a request that names a version through only when a row *)
(* just read is that version.                                                *)
LEMMA RefreshStep ==
  ASSUME VersionInv, Refresh
  PROVE  VersionInv'
  <1> USE DEF VersionInv
  <1>1. ASSUME NEW status, RefreshRefuses(status) PROVE VersionInv'
    BY <1>1, Refusing DEF RefreshRefuses, Refuse, Reading, space
  <1>2. pc = "refresh"
    BY DEF Refresh
  <1>3. ASSUME NEW r \in Found, Accepts(expected, r), NEW to \in {"fetch", "send"}, NEW write,
               RefreshProceeds(to, write),
               to = "fetch" => req.method = "PUT" /\ write = call,
               to = "send" => req.method = "DELETE" /\ write = [kind |-> "archive", id |-> r.id]
        PROVE  VersionInv'
    <2>1. r \in Rows /\ r.id \in Objects /\ IsCurrent(r)
      BY <1>2, <1>3 DEF Found, Named, ScanInv, Looking, Rows
    <2>2. /\ pc' = to /\ req' = req /\ call' = write
          /\ UNCHANGED <<object, archived, late, recent>>
      BY <1>3 DEF RefreshProceeds, Move, Reading, space
    <2>3. SpaceInv' /\ ScanInv'
      BY <2>2 DEF SpaceInv, ScanInv, Looking
    <2>4. ReqInv'
      BY <1>2, <1>3, <2>2 DEF ReqInv, BeforeSending, Looking
    <2>5. CallInv'
      BY <1>2, <1>3, <2>1, <2>2 DEF CallInv, Archives, Created
    <2>6. req.cond \in Rows => req.cond = r
      BY <1>2, <1>3, <2>1, Sentinels DEF CondInv, Accepts
    <2>7. IsCurrent(r)'
      BY <2>1, <2>2 DEF IsCurrent, Live, Created, RowOf
    <2>8. CondInv'
      BY <1>3, <2>2, <2>6, <2>7 DEF CondInv
    <2>9. QED BY <2>3, <2>4, <2>5, <2>8
  <1>4. QED BY <1>1, <1>3 DEF Refresh

LEMMA FetchStep ==
  ASSUME VersionInv, Fetch
  PROVE  VersionInv'
  <1> USE DEF VersionInv
  <1>1. /\ pc = "fetch" /\ pc' = "send" /\ req' = req
        /\ call \in Updates /\ call.row.id \in Created
        /\ UNCHANGED <<object, archived, late, recent>>
    BY DEF Fetch, Move, Reading, space, CallInv
  <1>2. object[call.row.id].extra \in Extras
    BY <1>1 DEF SpaceInv, Created, Contents
  <1>3. call' \in Updates
    <2>1. [call EXCEPT !.extra = object[call.row.id].extra] \in Updates
      BY <1>1, <1>2 DEF Updates
    <2>2. QED BY <1>1, <2>1 DEF Fetch
  <1>4. req.method = "PUT" /\ ReqInv'
    BY <1>1 DEF ReqInv, BeforeSending, Looking
  <1>5. SpaceInv' /\ ScanInv' /\ CallInv'
    BY <1>1, <1>3 DEF SpaceInv, ScanInv, CallInv, Looking
  <1>6. CondInv'
    BY <1>1, <1>4 DEF CondInv, IsCurrent, Live, Created, RowOf
  <1>7. QED BY <1>4, <1>5, <1>6

LEMMA ScanPageStep ==
  ASSUME VersionInv, ScanPage
  PROVE  VersionInv'
  <1> USE DEF VersionInv
  <1>1. UNCHANGED <<object, archived, late, recent, pc, req, call, expected>>
    BY DEF ScanPage, space, control
  <1>2. SpaceInv' /\ CallInv' /\ ReqInv'
    BY <1>1 DEF SpaceInv, CallInv, ReqInv, Created, BeforeSending, Looking
  <1>3. CondInv'
    BY <1>1 DEF CondInv, IsCurrent, Live, Created, RowOf
  <1>4. ASSUME pc \in Looking, NEW r \in scan'.rows
        PROVE  r \in Rows /\ r.id \in Created /\ IsCurrent(r)
    <2>1. r \in scan.rows \/ \E i \in Live : r = RowOf(i)
      BY <1>4 DEF ScanPage, ReadPage, Page
    <2>2. QED BY <1>4, <2>1, RowsOfTheSpace DEF ScanInv
  <1>5. ScanInv'
    BY <1>1, <1>4 DEF ScanInv, IsCurrent, Live, Created, RowOf
  <1>6. QED BY <1>2, <1>3, <1>5

(* The Space changed under the handler, by another client.                   *)
LEMMA OthersStep ==
  ASSUME VersionInv, OtherClients, UNCHANGED <<repository, control>>
  PROVE  VersionInv'
  <1> USE DEF VersionInv
  <1>1. /\ SpaceInv' /\ Created \subseteq Created'
        /\ \A row : IsCurrent(row) => IsCurrent(row)'
    BY OthersSeen
  <1>2. UNCHANGED <<scan, call, pc, req, expected>>
    BY DEF repository, control
  <1>3. ScanInv'
    BY <1>1, <1>2 DEF ScanInv
  <1>4. CallInv' /\ ReqInv'
    BY <1>1, <1>2 DEF CallInv, ReqInv
  <1>5. CondInv'
    BY <1>1, <1>2 DEF CondInv
  <1>6. QED BY <1>1, <1>3, <1>4, <1>5

LEMMA ReceiveStep ==
  ASSUME VersionInv, NEW r \in ClientRequests, Receive(r)
  PROVE  VersionInv'
  <1> USE DEF VersionInv
  <1>1. /\ pc' = "lookup" /\ req' = r /\ call' = NoCall /\ scan' = NewScan
        /\ UNCHANGED <<object, late>>
    BY DEF Receive
  <1>2. r.method = "PUT" => r.name \in Names /\ r.uid \in Uids /\ r.body \in Bodies
    BY DEF ClientRequests
  <1>3. SpaceInv' /\ ScanInv' /\ CallInv' /\ CondInv'
    BY <1>1 DEF SpaceInv, ScanInv, CallInv, CondInv, NewScan
  <1>4. ReqInv'
    BY <1>1, <1>2 DEF ReqInv
  <1>5. QED BY <1>3, <1>4

(* A write takes effect at once, or never: "late" is left out.               *)
LEMMA WriteStep ==
  ASSUME VersionInv, "late" \notin Faults, WriteSucceeds \/ WriteTimesOut \/ WriteFails
  PROVE  VersionInv'
  <1>1. pc = "send" /\ pc' \notin BeforeSending /\ late' = late
    BY DEF WriteSucceeds, WriteTimesOut, WriteFails, Move, Send, TimeOut, AfterUpdate,
           BeforeSending, Looking
  <1>2. call \in Updates \cup Creates \cup Archives
    BY <1>1 DEF VersionInv, CallInv
  <1>3. Apply(Settled(call)) \/ UNCHANGED object
    BY DEF WriteSucceeds, WriteTimesOut, WriteFails, Send, TimeOut
  <1>4. object' \in [Objects -> Contents \cup {Unused}]
    BY <1>2, <1>3, WriteTyped DEF VersionInv, SpaceInv
  <1>5. SpaceInv'
    BY <1>1, <1>4 DEF VersionInv, SpaceInv
  <1>6. QED BY <1>1, <1>5, AfterTheWrite

LEMMA VersionStep == "late" \notin Faults /\ VersionInv /\ [Next]_vars => VersionInv'
  <1> SUFFICES ASSUME "late" \notin Faults, VersionInv, [Next]_vars PROVE VersionInv'
    OBVIOUS
  <1>0. SpaceInv
    BY DEF VersionInv
  <1>1. CASE ScanPage \/ PutLookup \/ DeleteLookup \/ Condition \/ Refresh \/ Fetch
    BY <1>1, ScanPageStep, PutLookupStep, DeleteLookupStep, ConditionStep, RefreshStep, FetchStep
  <1>2. CASE WriteSucceeds \/ WriteTimesOut \/ WriteFails
    BY <1>2, WriteStep
  <1>3. CASE ScanFails \/ ScanRefused \/ UpdateNothing \/ FetchFails
    BY <1>0, <1>3, Refusing DEF ScanFails, ScanRefused, UpdateNothing, FetchFails, Refuse,
                                Reading, space
  <1>4. CASE PutPanics
    BY <1>0, <1>4, Answering DEF PutPanics, Move, Reading, space, BeforeSending, Looking
  <1>5. CASE ReconcileWrite
    BY <1>0, <1>5, Answering DEF ReconcileWrite, Recognised, ReadAgain, GiveUp, Move, Refuse,
                                 Reply, Reading, space, control, BeforeSending, Looking
  <1>6. CASE ReconcileCreate
    BY <1>0, <1>6, Answering DEF ReconcileCreate, Recognised, ReadAgain, GiveUp, Move, Refuse,
                                 Reply, Reading, space, control, BeforeSending, Looking
  <1>7. CASE ListContacts \/ ListTasks \/ CheckpointBlocked
    BY <1>0, <1>7, Answering DEF ListContacts, ListTasks, CheckpointBlocked, Move, Refuse, Reply,
                                 Reading, space, BeforeSending, Looking
  <1>8. CASE CommitAttempt \/ CommitFails \/ CommitSettles
    BY <1>0, <1>8, Answering DEF CommitAttempt, CommitFails, CommitSettles, Move, Refuse, Reply,
                                 space, BeforeSending, Looking
  <1>9. ASSUME NEW r \in ClientRequests, Receive(r) PROVE VersionInv'
    BY <1>9, ReceiveStep
  <1>10. CASE Start \/ Crash
    BY <1>0, <1>10, Answering DEF Start, Crash, Move, space, BeforeSending, Looking
  <1>11. CASE (Land \/ Lose)
    BY <1>0, <1>11 DEF Land, Lose, SpaceInv
  <1>12. CASE OtherClients /\ UNCHANGED <<repository, control, checkpoint>>
    BY <1>12, OthersStep
  <1>13. CASE UNCHANGED vars
    BY <1>13 DEF vars, space, repository, control, VersionInv, SpaceInv, ScanInv, CallInv, ReqInv,
                 CondInv, IsCurrent, Live, Created, RowOf
  <1>14. QED
    BY <1>1, <1>2, <1>3, <1>4, <1>5, <1>6, <1>7, <1>8, <1>9, <1>10, <1>11, <1>12, <1>13
       DEF Next, Serve, Environment

(* What a write that is sent may change: a PUT or DELETE that names a        *)
(* version goes out only while the Space holds that version, or once another *)
(* client has changed it since the service began its last look; and a DELETE *)
(* archives the very object the version is of.                               *)
NamedVersion ==
  req.cond \in Rows =>
    IsCurrent(req.cond) /\ (req.method = "DELETE" => call.id = req.cond.id)

(* The conditional write of check_condition: between the hydrate that        *)
(* accepted the version and the call to the Space nothing of the service's   *)
(* own doing makes it stale, whatever other clients and faults interleave.   *)
(* A timed-out call that lands later is left out of the assumption.          *)
THEOREM WritesNameTheCurrentVersion ==
  ASSUME "late" \notin Faults
  PROVE  Spec => [][~sent /\ sent' => NamedVersion]_vars
  <1>1. Init => VersionInv
    BY DEF Init, VersionInv, SpaceInv, ScanInv, CallInv, ReqInv, CondInv, BeforeSending, Looking
  <1>2. VersionInv /\ [Next]_vars => [~sent /\ sent' => NamedVersion]_vars
    <2> SUFFICES ASSUME VersionInv, [Next]_vars, ~sent, sent' PROVE NamedVersion
      BY DEF vars
    <2>1. pc = "send"
      <3> USE DEF Refuse, Reply, Move
      <3>1. CASE Serve
        BY <3>1 DEF Serve, ScanPage, ScanFails, ScanRefused, PutLookup, PutPanics, DeleteLookup,
             Condition, Refresh, Fetch, UpdateNothing, FetchFails, WriteFails, WriteSucceeds,
             WriteTimesOut, ReconcileWrite, ReconcileCreate, ListContacts, ListTasks,
             CheckpointBlocked, CommitAttempt, CommitFails, CommitSettles, LookupRefuses,
             LookupProceeds,
             RefreshRefuses, RefreshProceeds, Recognised, ReadAgain, GiveUp, control
      <3>2. CASE Environment
        BY <3>2 DEF Environment, Receive, Start, Crash, control
      <3>3. QED BY <3>1, <3>2 DEF Next, vars, control
    <2>2. QED BY <2>1 DEF VersionInv, CondInv, NamedVersion
  <1>3. VersionInv /\ [Next]_vars => VersionInv'
    BY VersionStep
  <1>4. QED BY <1>1, <1>2, <1>3, PTL DEF Spec

-----------------------------------------------------------------------------
(* Type correctness.  No assumption on the faults or on the other clients:   *)
(* it has to be shown that a create always finds an identifier to take, that *)
(* an object whose properties are carried forward exists, and that the kind  *)
(* of the call fits the request wherever an answer is made of it.            *)

AfterSending == {"contacts", "tasks", "commit", "publishing"}

Pending(b) == IF b THEN 1 ELSE 0

(* Every request may still create one object, until its write is sent; a     *)
(* create that timed out may still land.                                     *)
Room ==
  Cardinality(Created) + Pending(pc \in BeforeSending) + Pending(late.kind = "create")
    <= InitialObjects + foreign + served

SpaceOK == SpaceTypeOK /\ InOrder /\ archived \subseteq Created /\ Room

(* A call goes to an object that exists, under its name and UID.             *)
Knows(write) ==
  /\ write.kind = "update" => NamesObject(write.row)
  /\ write.kind = "archive" => write.id \in Created

CallOK ==
  /\ call \in Mutations \cup {NoCall}
  /\ Knows(call) /\ Knows(late)
  /\ pc = "lookup" => call = NoCall
  /\ pc \in {"condition", "refresh", "fetch"} => call = NoCall \/ call.kind = "update"
  /\ pc = "fetch" => req.method = "PUT"
  /\ pc = "confirm" => req.method = "DELETE"
  /\ pc \in {"send", "reconcile", "confirm"} \cup AfterSending =>
       call.kind \in IF req.method = "PUT" THEN {"create", "update"} ELSE {"archive"}
  /\ pc \in AtWork /\ call.kind \in {"create", "update"} =>
       call.row.name = req.name /\ call.row.uid = req.uid

ScanOK == scan \in Scans /\ \A r \in scan.rows : NamesObject(r)

HandlerOK ==
  /\ cache \subseteq Rows
  /\ reads \in 0..MaxReads
  /\ pc \in Stages
  /\ req \in Requests \cup {NoRequest}
  /\ pc \in AtWork => req \in Requests
  /\ expected \in Rows \cup {NoCondition, Mismatch}
  /\ listed \subseteq Names
  /\ answer \in [status : Statuses, row : Rows \cup {NoRow}]
  /\ served \in 0..MaxRequests
  /\ sent \in BOOLEAN

CheckpointOK ==
  /\ view \in [{Service} -> Checkpoint!SyncStates \cup {Closed}]
  /\ pc # "down" => view[Service] \in Checkpoint!SyncStates
  /\ settled \in Checkpoint!SyncStates
  /\ doubtful \subseteq Checkpoint!SyncStates

TypeInv == SpaceOK /\ CallOK /\ ScanOK /\ HandlerOK /\ CheckpointOK

LEMMA TypeInvImplies == TypeInv => TypeOK
  BY DEF TypeInv, TypeOK, SpaceOK, CallOK, ScanOK, HandlerOK, CheckpointOK, RepositoryTypeOK

LEMMA Kept ==
  ASSUME Persists
  PROVE  /\ \A row : NamesObject(row) => NamesObject(row)'
         /\ \A write : Knows(write) => Knows(write)'
  BY DEF Persists, NamesObject, Knows

(* The stages that change nothing in the Space, and reserve no new object.   *)
LEMMA QuietSpace ==
  ASSUME SpaceOK, UNCHANGED <<object, archived, late, foreign, served>>,
         touched' \subseteq touched, recent' \subseteq recent, recent' \subseteq touched',
         pc' \in BeforeSending => pc \in BeforeSending,
         served \in Nat
  PROVE  SpaceOK'
  <1>1. Created' = Created
    BY SameObjects
  <1>2. SpaceTypeOK' /\ InOrder' /\ archived' \subseteq Created'
    BY <1>1 DEF SpaceOK, SpaceTypeOK, InOrder
  <1>3. Pending(pc \in BeforeSending)' <= Pending(pc \in BeforeSending)
    BY DEF Pending
  <1>4. Room'
    <2>1. /\ Cardinality(Created) \in Nat /\ InitialObjects \in Nat /\ foreign \in Nat
          /\ Pending(pc \in BeforeSending) \in Nat /\ Pending(pc \in BeforeSending)' \in Nat
          /\ Pending(late.kind = "create") \in Nat
      BY FiniteSpace, ServiceAssumption DEF SpaceOK, SpaceTypeOK, Pending
    <2>2. Pending(late.kind = "create")' = Pending(late.kind = "create")
      BY DEF Pending
    <2>3. QED BY <1>1, <1>3, <2>1, <2>2 DEF SpaceOK, Room
  <1>5. QED BY <1>2, <1>4 DEF SpaceOK
LEMMA Numbers ==
  ASSUME TypeInv
  PROVE  /\ Cardinality(Created) \in Nat /\ InitialObjects \in Nat
         /\ foreign \in Nat /\ served \in Nat /\ served <= MaxRequests
         /\ MaxForeign \in Nat /\ foreign <= MaxForeign
         /\ MaxRequests \in Nat /\ MaxObjects \in Nat /\ MaxReads \in Nat \ {0}
  BY FiniteSpace, ServiceAssumption, SpaceAssumption, RepositoryAssumption
     DEF TypeInv, SpaceOK, SpaceTypeOK, HandlerOK

(* There is an identifier for a create that is about to be carried out.      *)
LEMMA RoomToCreate ==
  ASSUME TypeInv, pc \in BeforeSending \/ late.kind = "create"
  PROVE  Cardinality(Created) < MaxObjects
  BY Numbers, RoomAssumption DEF TypeInv, SpaceOK, Room, Pending

(* A call that takes effect now: it uses the room reserved for it.           *)
LEMMA CallApplied ==
  ASSUME TypeInv, NEW write \in Mutations, Knows(write), NEW to, to = Settled(write), Apply(to),
         write.kind = "create" => pc \in BeforeSending \/ late.kind = "create"
  PROVE  /\ ObjectsTyped' /\ InOrder' /\ Persists
         /\ archived' \subseteq Created'
         /\ to \in Mutations /\ to.kind = write.kind
         /\ Knows(to)'
         /\ write.kind \in {"create", "update"} =>
              /\ Stored(write, to)
              /\ write \in Writes /\ to.row.id \in Objects
         /\ Cardinality(Created') \in Nat
         /\ Cardinality(Created') <= Cardinality(Created) + Pending(write.kind = "create")
  <1>1. ObjectsTyped /\ InOrder /\ archived \subseteq Created /\ Cardinality(Created) \in Nat
    BY Numbers DEF TypeInv, SpaceOK, SpaceTypeOK, ObjectsTyped
  <1>2. CASE write.kind = "archive"
    <2>1. to = write /\ archived' = archived \cup {write.id} /\ object' = object
      BY <1>2, ArchiveEffect
    <2>2. Persists /\ Created' = Created
      BY <2>1, SameObjects
    <2>3. write.id \in Created
      BY <1>2 DEF Knows
    <2>4. ObjectsTyped' /\ InOrder'
      BY <1>1, <2>1, <2>2 DEF ObjectsTyped, InOrder
    <2>5. Pending(write.kind = "create") = 0
      BY <1>2 DEF Pending
    <2>6. QED BY <1>1, <1>2, <2>1, <2>2, <2>3, <2>4, <2>5, Kept
  <1>3. CASE write.kind \in {"create", "update"}
    <2>1. write \in Writes
      BY <1>3 DEF Mutations, Writes
    <2>2. Stored(write, to)
      BY <1>1, <1>3, <2>1, RoomToCreate, WriteEffect
    <2> DEFINE i == to.row.id
    <2>3. /\ to \in Writes /\ to.kind = write.kind /\ to.row.name = write.row.name
          /\ to.row.uid = write.row.uid /\ i \in Objects
          /\ object'[i].name = write.row.name /\ object'[i].uid = write.row.uid
          /\ \A j \in Objects \ {i} : object'[j] = object[j]
          /\ Created' = Created \cup {i} /\ ObjectsTyped' /\ archived' = archived
          /\ IF write.kind = "create" THEN Fresh(i) ELSE to = write
      <3>1. to \in Writes
        BY <2>2 DEF Stored
      <3>2. i \in Objects
        BY <3>1 DEF Writes, Rows
      <3>3. QED BY <2>2, <3>1, <3>2 DEF Stored
    <2> HIDE DEF i
    <2>4. CASE write.kind = "create"
      <3>1. Fresh(i) /\ i \notin Created
        BY <2>3, <2>4 DEF Fresh
      <3>2. InOrder' /\ Cardinality(Created') = Cardinality(Created) + 1
        BY <1>1, <2>3, <3>1, CreatedInOrder, CreatedGrows
      <3>3. Persists
        BY <2>3, <3>1 DEF Persists, Created
      <3>4. Knows(to)'
        BY <2>3, <2>4 DEF Knows
      <3>5. Pending(write.kind = "create") = 1
        BY <2>4 DEF Pending
      <3>6. to \in Mutations
        BY <2>3 DEF Writes, Mutations
      <3>7. QED BY <1>1, <2>1, <2>2, <2>3, <3>2, <3>3, <3>4, <3>5, <3>6 DEF i
    <2>5. CASE write.kind = "update"
      <3>1. /\ i \in Created /\ object[i].name = write.row.name /\ object[i].uid = write.row.uid
            /\ to = write
        BY <2>3, <2>5 DEF Knows, NamesObject, i
      <3>2. Created' = Created
        BY <2>3, <3>1
      <3>3. Persists
        BY <2>3, <3>1, <3>2 DEF Persists, Created
      <3>4. InOrder'
        BY <1>1, <3>2 DEF InOrder
      <3>5. Knows(to)'
        BY <3>1, <3>3, Kept
      <3>6. Pending(write.kind = "create") = 0
        BY <2>5 DEF Pending
      <3>7. to \in Mutations
        BY <2>3 DEF Writes, Mutations
      <3>8. QED BY <1>1, <2>1, <2>2, <2>3, <3>2, <3>3, <3>4, <3>5, <3>6, <3>7 DEF i
    <2>6. QED BY <1>3, <2>4, <2>5
  <1>4. QED BY <1>2, <1>3 DEF Mutations
(* What is left to show of a step that changes the Space.                    *)
LEMMA SpaceChanged ==
  ASSUME TypeInv, ObjectsTyped', InOrder', archived' \subseteq Created',
         late' \in Mutations \cup {NoCall}, foreign' \in 0..MaxForeign,
         touched' \subseteq Objects, recent' \subseteq touched', Room'
  PROVE  SpaceOK'
  BY DEF SpaceOK, SpaceTypeOK, ObjectsTyped, Created

LEMMA SendingChangesSpace ==
  ASSUME TypeInv, WriteSucceeds \/ WriteTimesOut \/ WriteFails
  PROVE  SpaceOK' /\ Persists /\ Knows(late)'
  <1>1. /\ pc = "send" /\ pc' \notin BeforeSending
        /\ UNCHANGED <<foreign, touched, recent, served>>
    BY DEF WriteSucceeds, WriteTimesOut, WriteFails, Move, Send, TimeOut, AfterUpdate,
           BeforeSending, Looking, others
  <1>2. PICK write : write = call
    OBVIOUS
  <1>3. write \in Mutations /\ Knows(write)
    BY <1>1, <1>2 DEF TypeInv, CallOK, Mutations, NoCall
  <1>4. /\ SpaceOK /\ SpaceTypeOK /\ archived \subseteq Created /\ Knows(late) /\ ObjectsTyped
        /\ InOrder
    BY DEF TypeInv, SpaceOK, CallOK, SpaceTypeOK, ObjectsTyped
  <1>5. /\ Pending(pc \in BeforeSending) = 1 /\ Pending(pc \in BeforeSending)' = 0
        /\ Pending(late.kind = "create") \in Nat
        /\ Pending(write.kind = "create") \in 0..1
    BY <1>1 DEF Pending, BeforeSending
  <1>6. CASE Apply(Settled(write)) /\ late' = late
    <2>1. PICK to : to = Settled(write)
      OBVIOUS
    <2>2. /\ ObjectsTyped' /\ InOrder' /\ Persists /\ archived' \subseteq Created'
          /\ Cardinality(Created') \in Nat
          /\ Cardinality(Created') <= Cardinality(Created) + Pending(write.kind = "create")
      BY <1>1, <1>3, <1>6, <2>1, CallApplied DEF BeforeSending
    <2>3. Pending(late.kind = "create")' = Pending(late.kind = "create")
      BY <1>6 DEF Pending
    <2>4. Room'
      BY <1>1, <1>4, <1>5, <2>2, <2>3, Numbers DEF SpaceOK, Room
    <2>5. SpaceOK'
      BY <1>1, <1>4, <1>6, <2>2, <2>4, SpaceChanged DEF SpaceTypeOK
    <2>6. QED BY <1>4, <1>6, <2>2, <2>5, Kept
  <1>7. CASE /\ UNCHANGED <<object, archived>>
             /\ late' = late \/ (late = NoCall /\ late' = write)
    <2>1. Persists /\ Created' = Created
      BY <1>7, SameObjects
    <2>2. Pending(late.kind = "create")' <= Pending(late.kind = "create") + 1
      BY DEF Pending
    <2>3. Pending(late.kind = "create")' \in Nat
      BY DEF Pending
    <2>4. Room'
      BY <1>1, <1>4, <1>5, <2>1, <2>2, <2>3, Numbers DEF SpaceOK, Room
    <2>5. ObjectsTyped' /\ InOrder' /\ archived' \subseteq Created'
      BY <1>4, <1>7, <2>1 DEF ObjectsTyped, InOrder
    <2>6. SpaceOK'
      BY <1>1, <1>3, <1>4, <1>7, <2>4, <2>5, SpaceChanged DEF SpaceTypeOK
    <2>7. Knows(late)'
      BY <1>3, <1>4, <1>7, <2>1, Kept
    <2>8. QED BY <2>1, <2>6, <2>7
  <1>8. QED BY <1>2, <1>6, <1>7 DEF WriteSucceeds, WriteTimesOut, WriteFails, Send, TimeOut

LEMMA LandingChangesSpace ==
  ASSUME TypeInv, Land \/ Lose, UNCHANGED control
  PROVE  SpaceOK' /\ Persists /\ Knows(late)'
  <1>1. UNCHANGED <<foreign, touched, recent, served, pc>> /\ late # NoCall /\ late' = NoCall
    BY DEF Land, Lose, control, others
  <1>2. PICK write : write = late
    OBVIOUS
  <1>3. write \in Mutations /\ Knows(write) /\ SpaceOK /\ SpaceTypeOK /\ ObjectsTyped /\ InOrder
    BY <1>1, <1>2 DEF TypeInv, CallOK, SpaceOK, SpaceTypeOK, ObjectsTyped
  <1>4. /\ Pending(pc \in BeforeSending)' = Pending(pc \in BeforeSending)
        /\ Pending(pc \in BeforeSending) \in Nat
        /\ Pending(late.kind = "create") = Pending(write.kind = "create")
        /\ Pending(write.kind = "create") \in 0..1
        /\ Pending(late.kind = "create")' = 0
    BY <1>1, <1>2 DEF Pending, NoCall
  <1>5. Knows(late)'
    BY <1>1 DEF Knows, NoCall
  <1>6. CASE Land
    <2>1. PICK to : to = Settled(write)
      OBVIOUS
    <2>2. /\ ObjectsTyped' /\ InOrder' /\ Persists /\ archived' \subseteq Created'
          /\ Cardinality(Created') \in Nat
          /\ Cardinality(Created') <= Cardinality(Created) + Pending(write.kind = "create")
      BY <1>2, <1>3, <1>6, <2>1, CallApplied DEF Land
    <2>3. Room'
      BY <1>1, <1>3, <1>4, <2>2, Numbers DEF SpaceOK, Room
    <2>4. SpaceOK'
      BY <1>1, <1>3, <2>2, <2>3, SpaceChanged DEF SpaceTypeOK
    <2>5. QED BY <1>5, <2>2, <2>4
  <1>7. CASE Lose
    <2>1. Persists /\ Created' = Created /\ UNCHANGED <<object, archived>>
      BY <1>7, SameObjects DEF Lose
    <2>2. Room'
      BY <1>1, <1>3, <1>4, <2>1, Numbers DEF SpaceOK, Room
    <2>3. ObjectsTyped' /\ InOrder' /\ archived' \subseteq Created'
      BY <1>3, <2>1 DEF ObjectsTyped, InOrder, SpaceOK
    <2>4. SpaceOK'
      BY <1>1, <1>3, <2>2, <2>3, SpaceChanged DEF SpaceTypeOK
    <2>5. QED BY <1>5, <2>1, <2>4
  <1>8. QED BY <1>6, <1>7

LEMMA OthersChangeSpace ==
  ASSUME TypeInv, OtherClients, UNCHANGED control
  PROVE  SpaceOK' /\ Persists /\ Knows(late)'
  <1>1. /\ SpaceOK /\ SpaceTypeOK /\ ObjectsTyped /\ InOrder /\ Knows(late)
        /\ archived \subseteq Created
    BY DEF TypeInv, CallOK, SpaceOK, SpaceTypeOK, ObjectsTyped
  <1>2. PICK i \in Objects : OthersChange(i)
    BY <1>1, OthersChangeOne
  <1>3. /\ Pending(pc \in BeforeSending)' = Pending(pc \in BeforeSending)
        /\ Pending(pc \in BeforeSending) \in Nat
        /\ Pending(late.kind = "create")' = Pending(late.kind = "create")
        /\ Pending(late.kind = "create") \in Nat
        /\ served' = served
    BY <1>2 DEF Pending, OthersChange, control
  <1>4. /\ foreign < MaxForeign /\ foreign' = foreign + 1 /\ late' = late /\ ObjectsTyped'
        /\ touched' = touched \cup {i} /\ recent' = recent \cup {i}
    BY <1>2 DEF OthersChange
  <1>5. /\ Persists /\ InOrder' /\ archived' \subseteq Created'
        /\ Cardinality(Created') \in Nat /\ Cardinality(Created') <= Cardinality(Created) + 1
    <2>1. CASE Edited(i)
      <3>1. /\ Created' = Created /\ i \in Created /\ archived' \subseteq archived \cup {i}
            /\ object'[i].name = object[i].name /\ object'[i].uid = object[i].uid
            /\ \A j \in Objects \ {i} : object'[j] = object[j]
        BY <1>2, <2>1 DEF Edited, OthersChange, Live
      <3>2. Persists
        BY <3>1 DEF Persists, Created
      <3>3. QED BY <1>1, <3>1, <3>2, Numbers DEF InOrder
    <2>2. CASE Added(i)
      <3>1. /\ Created' = Created \cup {i} /\ Fresh(i) /\ i \notin Created /\ archived' = archived
            /\ \A j \in Objects \ {i} : object'[j] = object[j]
        BY <1>2, <2>2 DEF Added, OthersChange, Fresh
      <3>2. InOrder' /\ Cardinality(Created') = Cardinality(Created) + 1
        BY <1>1, <3>1, CreatedInOrder, CreatedGrows
      <3>3. Persists
        BY <3>1 DEF Persists, Created
      <3>4. QED BY <1>1, <3>1, <3>2, <3>3, Numbers
    <2>3. QED BY <1>2, <2>1, <2>2 DEF OthersChange
  <1>6. Room'
    BY <1>1, <1>3, <1>4, <1>5, Numbers DEF SpaceOK, Room
  <1>7. foreign' \in 0..MaxForeign
    BY <1>4, Numbers
  <1>8. SpaceOK'
    BY <1>1, <1>4, <1>5, <1>6, <1>7, SpaceChanged DEF SpaceTypeOK
  <1>9. QED BY <1>1, <1>4, <1>5, <1>8, Kept
LEMMA ReadingKeeps ==
  ASSUME TypeInv, UNCHANGED <<object, late>>
  PROVE  /\ Persists /\ Knows(late)'
         /\ \A row : NamesObject(row) => NamesObject(row)'
         /\ \A write : Knows(write) => Knows(write)'
  BY SameObjects, Kept DEF TypeInv, CallOK

LEMMA NewScanOK ==
  ASSUME scan' = NewScan
  PROVE  ScanOK'
  BY DEF ScanOK, NewScan, Scans

LEMMA SameScanOK ==
  ASSUME TypeInv, Persists, scan' = scan
  PROVE  ScanOK'
  BY Kept DEF TypeInv, ScanOK

(* An answer ends the request: nothing more is claimed of the call.          *)
LEMMA AnswerTyped ==
  ASSUME TypeInv, Persists, Knows(late)', NEW stage, NEW status \in Statuses,
         NEW row \in Rows \cup {NoRow}, Reply(stage, status, row),
         UNCHANGED <<scan, call, reads>>, cache' \subseteq Rows
  PROVE  CallOK' /\ ScanOK' /\ HandlerOK'
  <1>1. ScanOK'
    BY SameScanOK
  <1>2. CallOK'
    BY Kept DEF TypeInv, CallOK, Reply, AfterSending, AtWork, Scanning
  <1>3. [status |-> status, row |-> row] \in [status : Statuses, row : Rows \cup {NoRow}]
    OBVIOUS
  <1>4. HandlerOK'
    BY <1>3 DEF TypeInv, HandlerOK, Reply, Stages, AtWork, Scanning
  <1>5. QED BY <1>1, <1>2, <1>4

LEMMA Failed ==
  /\ Failures \cup TimedOut \cup {"404", "408", "409", "412", "500", "503"} \subseteq Statuses
  /\ "success" \notin Failures \cup TimedOut
  BY ErrorsAssumption DEF Failures, TimedOut, Statuses, RemoteErrors

LEMMA RefusalTyped ==
  ASSUME TypeInv, NEW stage, NEW status \in Statuses, Refuse(stage, status),
         UNCHANGED <<object, late, scan, call, reads>>, cache' \subseteq Rows
  PROVE  CallOK' /\ ScanOK' /\ HandlerOK'
  BY ReadingKeeps, AnswerTyped DEF Refuse

LEMMA HydratedTyped ==
  ASSUME TypeInv, Hydrated \/ HydrateFails \/ UNCHANGED cache
  PROVE  cache' \subseteq Rows /\ scan.rows \subseteq Rows
  BY DEF TypeInv, ScanOK, HandlerOK, Scans, Hydrated, HydrateFails

LEMMA ScanPageTyped ==
  ASSUME TypeInv, ScanPage
  PROVE  CallOK' /\ ScanOK' /\ HandlerOK'
  <1>1. UNCHANGED <<space, cache, call, reads, control>> /\ UNCHANGED <<object, archived, late>>
    BY DEF ScanPage, space
  <1>2. CallOK'
    BY <1>1, ReadingKeeps DEF TypeInv, CallOK, control
  <1>3. HandlerOK'
    BY <1>1 DEF TypeInv, HandlerOK, control
  <1>4. /\ scan.offset \in Nat /\ scan.rows \subseteq Rows
        /\ scan' = [offset |-> scan.offset + PageSize,
                    rows   |-> scan.rows \cup {RowOf(i) : i \in Page(scan.offset)},
                    done   |-> LastPage(scan.offset)]
    BY DEF TypeInv, ScanOK, Scans, ScanPage, ReadPage
  <1>5. ASSUME NEW r \in scan'.rows PROVE r \in Rows /\ NamesObject(r)
    <2>1. CASE r \in scan.rows
      BY <1>4, <2>1 DEF TypeInv, ScanOK
    <2>2. CASE r \notin scan.rows
      <3>1. PICK i \in Live : r = RowOf(i)
        BY <2>2, PageRows DEF ScanPage
      <3>2. i \in Created /\ i \in Objects /\ object[i] \in Contents
        BY DEF TypeInv, SpaceOK, SpaceTypeOK, Live, Created
      <3>3. QED BY <3>1, <3>2 DEF RowOf, Rows, Contents, NamesObject
    <2>3. QED BY <2>1, <2>2
  <1>6. scan' \in Scans
    <2>1. LastPage(scan.offset) \in BOOLEAN
      BY DEF LastPage
    <2>2. scan.offset + PageSize \in Nat
      BY <1>4, SpaceAssumption
    <2>3. scan.rows \cup {RowOf(i) : i \in Page(scan.offset)} \subseteq Rows
      BY <1>4, <1>5
    <2>4. QED BY <1>4, <2>1, <2>2, <2>3 DEF Scans
  <1>7. QED BY <1>1, <1>2, <1>3, <1>5, <1>6, ReadingKeeps DEF ScanOK

LEMMA ScanEndsTyped ==
  ASSUME TypeInv, ScanFails \/ ScanRefused
  PROVE  CallOK' /\ ScanOK' /\ HandlerOK'
  <1>1. \E stage : \E status \in Statuses : Refuse(stage, status)
    BY Failed DEF ScanFails, ScanRefused
  <1>2. UNCHANGED <<object, late, scan, call, reads>>
    BY DEF ScanFails, ScanRefused, Reading, space
  <1>3. cache' \subseteq Rows
    BY HydratedTyped DEF ScanFails, ScanRefused
  <1>4. QED BY <1>1, <1>2, <1>3, RefusalTyped

(* The lookup goes on to a stage, with the write it has prepared.            *)
LEMMA LookupTyped ==
  ASSUME TypeInv, NEW to \in {"condition", "refresh", "send"},
         NEW condition \in Rows \cup {NoCondition}, NEW write,
         LookupProceeds(to, condition, write),
         \/ write = NoCall /\ to # "send"
         \/ /\ write \in Writes /\ req.method = "PUT"
            /\ write.row.name = req.name /\ write.row.uid = req.uid
            /\ \/ write.kind = "update" /\ NamesObject(write.row)
               \/ write.kind = "create" /\ to = "send"
  PROVE  CallOK' /\ ScanOK' /\ HandlerOK'
  <1>1. /\ pc = "lookup" /\ pc' = to /\ req' = req /\ answer' = answer /\ served' = served
        /\ call' = write /\ expected' = condition /\ listed' = listed /\ sent' = sent
        /\ scan' = NewScan /\ UNCHANGED <<object, late, reads>>
    BY DEF LookupProceeds, Move, LookAgain
  <1>2. cache' \subseteq Rows
    BY HydratedTyped DEF LookupProceeds
  <1>3. HandlerOK'
    BY <1>1, <1>2 DEF TypeInv, HandlerOK, Stages, AtWork, Scanning
  <1>4. Knows(write)'
    <2>1. Knows(write)
      BY DEF Knows, Writes, NoCall
    <2>2. QED BY <1>1, <2>1, ReadingKeeps
  <1>5. write \in Mutations \cup {NoCall}
    BY DEF Mutations, Writes
  <1>6. write.kind \in {"create", "update"} \/ write = NoCall
    BY DEF Writes
  <1>7. CallOK'
    <2>1. Knows(call)' /\ Knows(late)'
      BY <1>1, <1>4, ReadingKeeps
    <2>2. write = NoCall => write.kind \notin {"create", "update"}
      BY DEF NoCall
    <2>3. QED BY <1>1, <1>5, <1>6, <2>1, <2>2 DEF CallOK, AfterSending, AtWork, Scanning
  <1>8. QED BY <1>1, <1>3, <1>7, NewScanOK

LEMMA LookupRefusedTyped ==
  ASSUME TypeInv, NEW status \in Statuses, LookupRefuses(status)
  PROVE  CallOK' /\ ScanOK' /\ HandlerOK'
  BY RefusalTyped, HydratedTyped DEF LookupRefuses, Reading, space

LEMMA PutWriteTyped ==
  ASSUME req \in Requests, req.method = "PUT", NEW kind \in {"create", "update"},
         NEW id \in Objects
  PROVE  LET write == PutWrite(kind, id)
         IN  /\ write \in Writes /\ write.kind = kind /\ write.row.id = id
             /\ write.row.name = req.name /\ write.row.uid = req.uid
             /\ write.row.body = req.body
  <1>1. req.name \in Names /\ req.uid \in Uids /\ req.body \in Bodies
    BY DEF Requests
  <1>2. QED BY <1>1, SpaceAssumption DEF PutWrite, Writes, Rows

LEMMA FoundTyped ==
  ASSUME TypeInv, NEW r \in Found
  PROVE  /\ r \in Rows /\ r.name = req.name /\ NamesObject(r)
         /\ r.id \in Objects /\ r.id \in Created
  BY DEF TypeInv, ScanOK, Scans, Found, Named, Rows, NamesObject

LEMMA PutLookupTyped ==
  ASSUME TypeInv, PutLookup
  PROVE  CallOK' /\ ScanOK' /\ HandlerOK'
  <1>1. /\ pc = "lookup" /\ req.method = "PUT" /\ req \in Requests
        /\ served \in Nat /\ 1 \in Objects
    <2>1. pc = "lookup" /\ req.method = "PUT" /\ req \in Requests
      BY DEF PutLookup, TypeInv, HandlerOK, AtWork, Scanning
    <2>2. Cardinality(Created) < MaxObjects
      BY <2>1, RoomToCreate DEF BeforeSending, Looking
    <2>3. QED BY <2>1, <2>2, Numbers DEF Objects
  <1>2. \A status \in {"409", "412"} :
          LookupRefuses(status) => CallOK' /\ ScanOK' /\ HandlerOK'
    BY Failed, LookupRefusedTyped
  <1>3. ASSUME NEW r \in Found, r.uid = req.uid,
               NEW to \in {"condition", "refresh"}, NEW condition \in Rows \cup {NoCondition},
               LookupProceeds(to, condition, PutWrite("update", r.id))
        PROVE  CallOK' /\ ScanOK' /\ HandlerOK'
    <2>1. /\ r \in Rows /\ NamesObject(r) /\ r.id \in Objects /\ r.name = req.name
      BY FoundTyped
    <2> DEFINE write == PutWrite("update", r.id)
    <2>2. /\ write \in Writes /\ write.kind = "update" /\ write.row.id = r.id
          /\ write.row.name = req.name /\ write.row.uid = req.uid
      BY <1>1, <2>1, PutWriteTyped
    <2> HIDE DEF write
    <2>3. NamesObject(write.row)
      BY <1>3, <2>1, <2>2 DEF NamesObject
    <2>4. QED BY <1>1, <1>3, <2>2, <2>3, LookupTyped DEF write
  <1>4. ASSUME LookupProceeds("send", NoCondition, PutWrite("create", 1))
        PROVE  CallOK' /\ ScanOK' /\ HandlerOK'
    BY <1>1, <1>4, PutWriteTyped, LookupTyped
  <1>5. ASSUME LookupProceeds("condition", NoCondition, NoCall)
        PROVE  CallOK' /\ ScanOK' /\ HandlerOK'
    BY <1>5, LookupTyped
  <1>6. Found \subseteq Rows
    BY FoundTyped
  <1>7. QED BY <1>2, <1>3, <1>4, <1>5, <1>6 DEF PutLookup

LEMMA DeleteLookupTyped ==
  ASSUME TypeInv, DeleteLookup
  PROVE  CallOK' /\ ScanOK' /\ HandlerOK'
  <1>1. \A status \in {"404", "412"} :
          LookupRefuses(status) => CallOK' /\ ScanOK' /\ HandlerOK'
    BY Failed, LookupRefusedTyped
  <1>2. \A to \in {"condition", "refresh"} :
          LookupProceeds(to, NoCondition, NoCall) => CallOK' /\ ScanOK' /\ HandlerOK'
    BY LookupTyped
  <1>3. QED BY <1>1, <1>2 DEF DeleteLookup

(* Moves of the handler between two reads, with the call as it was.          *)
LEMMA MoveTyped ==
  ASSUME TypeInv, UNCHANGED <<object, late, call, reads, sent>>,
         NEW from, NEW to \in {"poisoned", "refresh"} \cup AfterSending, Move(from, to),
         to = "refresh" => from = "condition",
         to \in AfterSending =>
           call.kind \in IF req.method = "PUT" THEN {"create", "update"} ELSE {"archive"},
         to \in AtWork => from \in AtWork,
         ScanOK', cache' \subseteq Rows, listed' \subseteq Names,
         expected' \in Rows \cup {NoCondition, Mismatch}
  PROVE  CallOK' /\ ScanOK' /\ HandlerOK'
  <1>1. HandlerOK'
    BY DEF TypeInv, HandlerOK, Move, Stages, AtWork, Scanning, AfterSending
  <1>2. CallOK'
    <2>1. Knows(call)' /\ Knows(late)'
      BY ReadingKeeps DEF TypeInv, CallOK
    <2>2. QED BY <2>1 DEF TypeInv, CallOK, Move, AfterSending, AtWork, Scanning
  <1>3. QED BY <1>1, <1>2

LEMMA PutPanicsTyped ==
  ASSUME TypeInv, PutPanics
  PROVE  CallOK' /\ ScanOK' /\ HandlerOK'
  <1>1. /\ UNCHANGED <<object, late, scan, call, reads, expected, listed, sent>>
        /\ Move("lookup", "poisoned")
    BY DEF PutPanics, Reading, space
  <1>2. cache' \subseteq Rows
    BY HydratedTyped DEF PutPanics
  <1>3. ScanOK'
    BY <1>1, ReadingKeeps, SameScanOK
  <1>4. listed \subseteq Names /\ expected \in Rows \cup {NoCondition, Mismatch}
    BY DEF TypeInv, HandlerOK
  <1>5. QED BY <1>1, <1>2, <1>3, <1>4, MoveTyped DEF Stages, AtWork, Scanning, AfterSending

LEMMA ConditionTyped ==
  ASSUME TypeInv, Condition
  PROVE  CallOK' /\ ScanOK' /\ HandlerOK'
  <1>1. /\ UNCHANGED <<object, late, call, reads, listed, sent>> /\ scan' = NewScan
        /\ Move("condition", "refresh")
        /\ expected' = IF req.cond \in Found THEN req.cond ELSE Mismatch
    BY DEF Condition, LookAgain
  <1>2. cache' \subseteq Rows
    BY HydratedTyped DEF Condition
  <1>3. ScanOK'
    BY <1>1, NewScanOK
  <1>4. listed \subseteq Names /\ expected' \in Rows \cup {NoCondition, Mismatch}
    BY <1>1, FoundTyped DEF TypeInv, HandlerOK
  <1>5. QED BY <1>1, <1>2, <1>3, <1>4, MoveTyped DEF Stages, AtWork, Scanning, AfterSending

LEMMA RefreshTyped ==
  ASSUME TypeInv, Refresh
  PROVE  CallOK' /\ ScanOK' /\ HandlerOK'
  <1>1. pc = "refresh" /\ req \in Requests
    <2>1. pc = "refresh" /\ HandlerOK
      BY DEF Refresh, TypeInv
    <2>2. QED BY <2>1 DEF HandlerOK, AtWork, Scanning
  <1>2. ASSUME NEW status \in {"404", "409", "412"}, RefreshRefuses(status)
        PROVE  CallOK' /\ ScanOK' /\ HandlerOK'
    <2>1. UNCHANGED <<object, late, scan, call, reads>> /\ Refuse("refresh", status)
      BY <1>2 DEF RefreshRefuses, Reading, space
    <2>2. cache' \subseteq Rows
      BY <1>2, HydratedTyped DEF RefreshRefuses
    <2>3. QED BY <2>1, <2>2, Failed, RefusalTyped
  <1>3. ASSUME NEW r \in Found, NEW to, NEW write, RefreshProceeds(to, write),
               \/ to = "fetch" /\ write = call /\ req.method = "PUT"
               \/ to = "send" /\ write = [kind |-> "archive", id |-> r.id] /\ req.method = "DELETE"
        PROVE  CallOK' /\ ScanOK' /\ HandlerOK'
    <2>1. /\ UNCHANGED <<object, late, scan, reads, expected, listed, sent, req, answer, served>>
          /\ pc' = to /\ call' = write
      BY <1>3 DEF RefreshProceeds, Reading, space, Move
    <2>2. cache' \subseteq Rows
      BY <1>3, HydratedTyped DEF RefreshProceeds
    <2>3. ScanOK'
      BY <2>1, ReadingKeeps, SameScanOK
    <2>4. HandlerOK'
      BY <1>1, <1>3, <2>1, <2>2 DEF TypeInv, HandlerOK, Stages, AtWork, Scanning
    <2>5. CallOK'
      <3>1. Knows(late)'
        BY <2>1, ReadingKeeps
      <3>2. CASE to = "fetch"
        <4>1. Knows(call)' /\ call' = call
          BY <1>3, <2>1, <3>2, ReadingKeeps, Zenon DEF TypeInv, CallOK
        <4>2. QED BY <1>1, <1>3, <2>1, <3>1, <3>2, <4>1
                  DEF TypeInv, CallOK, AfterSending, AtWork, Scanning
      <3>3. CASE to = "send"
        <4>1. r.id \in Objects /\ r.id \in Created
          BY FoundTyped
        <4>2. /\ call' = [kind |-> "archive", id |-> r.id] /\ call' \in Mutations
              /\ call'.kind = "archive" /\ call'.id = r.id
          BY <1>3, <2>1, <3>3, <4>1 DEF Mutations
        <4>3. Created' = Created
          BY <2>1, SameObjects
        <4>4. Knows(call)'
          BY <4>1, <4>2, <4>3 DEF Knows
        <4>5. QED BY <1>3, <2>1, <3>1, <3>3, <4>2, <4>4 DEF CallOK, AfterSending
      <3>4. QED BY <1>3, <3>2, <3>3
    <2>6. QED BY <2>3, <2>4, <2>5
  <1>4. QED BY <1>2, <1>3 DEF Refresh

LEMMA FetchTyped ==
  ASSUME TypeInv, Fetch
  PROVE  CallOK' /\ ScanOK' /\ HandlerOK'
  <1>1. /\ pc = "fetch" /\ pc' = "send"
        /\ UNCHANGED <<object, late, cache, scan, reads, expected, listed, sent, req, answer, served>>
        /\ call' = [call EXCEPT !.extra = object[call.row.id].extra] \/ call' = call
    BY DEF Fetch, Move, Reading, space
  <1>2. call \in Writes /\ call.kind = "update" /\ NamesObject(call.row) /\ req.method = "PUT"
    BY <1>1 DEF Fetch, TypeInv, CallOK, Mutations, Writes, Knows, NoCall
  <1>3. object[call.row.id].extra \in Extras
    BY <1>2 DEF NamesObject, Created, TypeInv, SpaceOK, SpaceTypeOK, Contents
  <1>4. call' \in Writes /\ call'.kind = "update" /\ call'.row = call.row
    BY <1>1, <1>2, <1>3 DEF Writes
  <1>5. Knows(call)' /\ Knows(late)' /\ ScanOK'
    <2>1. NamesObject(call.row)'
      BY <1>1, <1>2, <1>4 DEF NamesObject, Created
    <2>2. QED BY <1>1, <1>4, <2>1, ReadingKeeps, SameScanOK DEF Knows
  <1>6. call' \in Mutations
    BY <1>4 DEF Mutations, Writes
  <1>7. CallOK'
    <2>1. call.row.name = req.name /\ call.row.uid = req.uid
      BY <1>1, <1>2 DEF TypeInv, CallOK, AtWork
    <2>2. QED BY <1>1, <1>2, <1>4, <1>5, <1>6, <2>1 DEF CallOK, AfterSending
  <1>8. HandlerOK'
    BY <1>1 DEF TypeInv, HandlerOK, Stages, AtWork
  <1>9. QED BY <1>5, <1>7, <1>8

(* The write goes out: the call is the one prepared, under the identifier    *)
(* the server gave it.                                                       *)
LEMMA SendingTyped ==
  ASSUME TypeInv, WriteSucceeds \/ WriteTimesOut
  PROVE  CallOK' /\ ScanOK' /\ HandlerOK'
  <1>1. /\ pc = "send" /\ req' = req /\ answer' = answer /\ served' = served /\ sent' = TRUE
        /\ UNCHANGED <<cache, reads, expected, listed>> /\ scan' = NewScan
        /\ pc' \in {"confirm", "contacts", "reconcile"}
        /\ pc' = "confirm" => call.kind = "archive"
    BY DEF WriteSucceeds, WriteTimesOut, Move, AfterUpdate
  <1>2. PICK write : write = call
    OBVIOUS
  <1>3. /\ write \in Mutations /\ Knows(write) /\ req \in Requests
        /\ write.kind \in IF req.method = "PUT" THEN {"create", "update"} ELSE {"archive"}
        /\ write.kind \in {"create", "update"} =>
             write.row.name = req.name /\ write.row.uid = req.uid
    BY <1>1, <1>2 DEF TypeInv, CallOK, HandlerOK, Mutations, NoCall, AtWork
  <1>4. /\ call' \in Mutations /\ call'.kind = write.kind /\ Knows(call)'
        /\ write.kind \in {"create", "update"} =>
             call'.row.name = write.row.name /\ call'.row.uid = write.row.uid
    <2>1. CASE WriteSucceeds
      <3>1. PICK to : to = Settled(write)
        OBVIOUS
      <3>2. Apply(to) /\ call' = to
        BY <1>2, <2>1, <3>1 DEF WriteSucceeds, Send
      <3>3. /\ to \in Mutations /\ to.kind = write.kind /\ Knows(to)'
            /\ write.kind \in {"create", "update"} => Stored(write, to)
        BY <1>1, <1>3, <3>1, <3>2, CallApplied DEF BeforeSending
      <3>4. Knows(call)'
        BY <3>2, <3>3 DEF Knows, NamesObject
      <3>5. QED BY <3>2, <3>3, <3>4 DEF Stored
    <2>2. CASE WriteTimesOut
      <3>1. call' = write
        BY <1>2, <2>2 DEF WriteTimesOut
      <3>2. Knows(write)'
        BY <1>3, SendingChangesSpace, Kept
      <3>3. QED BY <1>3, <3>1, <3>2 DEF Knows, NamesObject
    <2>3. QED BY <2>1, <2>2
  <1>5. Knows(late)'
    BY SendingChangesSpace
  <1>6. req.method = "PUT" \/ req.method = "DELETE"
    BY <1>3 DEF Requests
  <1>7. CallOK'
    BY <1>1, <1>2, <1>3, <1>4, <1>5, <1>6 DEF CallOK, AfterSending
  <1>8. HandlerOK'
    BY <1>1, <1>3 DEF TypeInv, HandlerOK, Stages, AtWork, Scanning
  <1>9. QED BY <1>1, <1>7, <1>8, NewScanOK

(* The write failed, with or without effect.                                 *)
LEMMA WriteFailsTyped ==
  ASSUME TypeInv, WriteFails
  PROVE  CallOK' /\ ScanOK' /\ HandlerOK'
  <1>1. Persists /\ Knows(late)'
    BY SendingChangesSpace
  <1>2. /\ pc' = "idle" /\ sent' = TRUE
        /\ UNCHANGED <<cache, scan, call, reads, req, expected, listed, served>>
    BY DEF WriteFails, repository
  <1>3. PICK status \in Statuses : answer' = [status |-> status, row |-> NoRow]
    BY Failed DEF WriteFails
  <1>4. ScanOK'
    BY <1>1, <1>2, SameScanOK
  <1>5. CallOK'
    BY <1>1, <1>2, Kept DEF TypeInv, CallOK, AfterSending, AtWork, Scanning
  <1>6. HandlerOK'
    BY <1>2, <1>3 DEF TypeInv, HandlerOK, Stages, AtWork, Scanning
  <1>7. QED BY <1>4, <1>5, <1>6

LEMMA GivingUpTyped ==
  ASSUME TypeInv, NEW status \in Failures \cup TimedOut \cup {"404", "408", "500"},
         NEW stage, Refuse(stage, status),
         UNCHANGED <<object, late, cache, scan, call, reads>>
  PROVE  CallOK' /\ ScanOK' /\ HandlerOK'
  BY Failed, RefusalTyped, HydratedTyped

LEMMA WriteStopsTyped ==
  ASSUME TypeInv, UpdateNothing \/ FetchFails
  PROVE  CallOK' /\ ScanOK' /\ HandlerOK'
  BY GivingUpTyped DEF UpdateNothing, FetchFails, space, repository

(* One read more to see what became of a write.                              *)
LEMMA ReadAgainTyped ==
  ASSUME TypeInv, ReadAgain, ScanOK'
  PROVE  CallOK' /\ ScanOK' /\ HandlerOK'
  <1>1. /\ UNCHANGED <<object, late, cache, call, pc, req, expected, listed, answer, served, sent>>
        /\ reads' = reads + 1 /\ ~(reads + 1 >= MaxReads)
    BY DEF ReadAgain, SpendRead, Exhausted, space, control
  <1>2. CallOK'
    BY <1>1, ReadingKeeps DEF TypeInv, CallOK
  <1>3. reads' \in 0..MaxReads
    BY <1>1, Numbers DEF TypeInv, HandlerOK
  <1>4. HandlerOK'
    BY <1>1, <1>3 DEF TypeInv, HandlerOK
  <1>5. QED BY <1>2, <1>4

LEMMA RecognisedTyped ==
  ASSUME TypeInv, pc \in {"reconcile", "confirm"}, NEW write \in Mutations, Recognised(write),
         write.kind = call.kind, Knows(write),
         write.kind \in {"create", "update"} =>
           write.row.name = call.row.name /\ write.row.uid = call.row.uid
  PROVE  CallOK' /\ ScanOK' /\ HandlerOK'
  <1>1. /\ UNCHANGED <<object, late, reads, cache, expected, listed, sent, req, answer, served>>
        /\ pc' = "contacts" /\ call' = write /\ scan' = NewScan
    BY DEF Recognised, Move, Reading, space
  <1>2. Knows(call)' /\ Knows(late)'
    BY <1>1, ReadingKeeps DEF Knows, NamesObject
  <1>3. CallOK'
    BY <1>1, <1>2 DEF TypeInv, CallOK, AfterSending, AtWork, Scanning
  <1>4. HandlerOK'
    BY <1>1 DEF TypeInv, HandlerOK, Stages, AtWork, Scanning
  <1>5. QED BY <1>1, <1>3, <1>4, NewScanOK

LEMMA ReconcileWriteTyped ==
  ASSUME TypeInv, ReconcileWrite
  PROVE  CallOK' /\ ScanOK' /\ HandlerOK'
  <1>1. pc \in {"reconcile", "confirm"}
    BY DEF ReconcileWrite
  <1>2. PICK write : write = call
    OBVIOUS
  <1>3. write \in Mutations /\ Knows(write)
    BY <1>1, <1>2 DEF TypeInv, CallOK, NoCall, Mutations
  <1>4. ASSUME Recognised(call) PROVE CallOK' /\ ScanOK' /\ HandlerOK'
    BY <1>1, <1>2, <1>3, <1>4, RecognisedTyped
  <1>5. ASSUME ReadAgain, scan' = scan PROVE CallOK' /\ ScanOK' /\ HandlerOK'
    BY <1>5, ReadAgainTyped, SameScanOK, ReadingKeeps DEF ReadAgain, space
  <1>6. ASSUME NEW status \in Failures \cup {"408"}, GiveUp(status)
        PROVE  CallOK' /\ ScanOK' /\ HandlerOK'
    BY <1>6, GivingUpTyped DEF GiveUp, space, repository
  <1>7. QED BY <1>4, <1>5, <1>6 DEF ReconcileWrite

LEMMA ReconcileCreateTyped ==
  ASSUME TypeInv, ReconcileCreate
  PROVE  CallOK' /\ ScanOK' /\ HandlerOK'
  <1>1. pc = "reconcile" /\ call.kind = "create"
    BY DEF ReconcileCreate
  <1>2. call \in Writes
    BY <1>1 DEF TypeInv, CallOK, Writes, Mutations, NoCall
  <1>3. ASSUME NEW i \in Candidates, Recognised([call EXCEPT !.row.id = i])
        PROVE  CallOK' /\ ScanOK' /\ HandlerOK'
    <2>1. i \in Objects
      BY <1>3 DEF Candidates, Page, Live, Created
    <2>2. PICK write : write = [call EXCEPT !.row.id = i]
      OBVIOUS
    <2>3. /\ write \in Writes /\ write.kind = call.kind /\ write.row = [call.row EXCEPT !.id = i]
      BY <1>2, <2>1, <2>2, Renumbered
    <2>4. call.row \in Rows
      BY <1>2 DEF Writes
    <2>5. write.row.name = call.row.name /\ write.row.uid = call.row.uid
      BY <2>1, <2>3, <2>4, RenumberedRow
    <2>6. write \in Mutations /\ Knows(write)
      BY <1>1, <2>3 DEF Writes, Mutations, Knows
    <2>7. QED BY <1>1, <1>3, <2>2, <2>3, <2>5, <2>6, RecognisedTyped
  <1>4. ASSUME ReadAgain, scan' = [scan EXCEPT !.offset = @ + PageSize]
        PROVE  CallOK' /\ ScanOK' /\ HandlerOK'
    <2>1. scan'.rows = scan.rows /\ scan' \in Scans
      BY <1>4, SpaceAssumption DEF TypeInv, ScanOK, Scans
    <2>2. object' = object /\ late' = late
      BY <1>4 DEF ReadAgain, space
    <2>3. ScanOK'
      BY <2>1, <2>2, ReadingKeeps DEF TypeInv, ScanOK
    <2>4. QED BY <1>4, <2>3, ReadAgainTyped
  <1>5. ASSUME NEW status \in Failures \cup {"408"}, GiveUp(status)
        PROVE  CallOK' /\ ScanOK' /\ HandlerOK'
    BY <1>5, GivingUpTyped DEF GiveUp, space, repository
  <1>6. QED BY <1>3, <1>4, <1>5 DEF ReconcileCreate

LEMMA MembersTyped ==
  ASSUME TypeInv, NEW kind
  PROVE  Members(kind) \subseteq Names
  BY DEF TypeInv, ScanOK, Scans, Rows, Members

LEMMA ListingTyped ==
  ASSUME TypeInv, ListContacts \/ ListTasks
  PROVE  CallOK' /\ ScanOK' /\ HandlerOK'
  <1>1. /\ UNCHANGED <<object, late, call, reads, expected, sent>>
        /\ scan' \in {scan, NewScan}
        /\ \/ Move("contacts", "tasks") \/ Move("tasks", "commit")
    BY DEF ListContacts, ListTasks, Reading, space
  <1>2. cache' \subseteq Rows
    BY HydratedTyped DEF ListContacts, ListTasks
  <1>3. ScanOK'
    BY <1>1, ReadingKeeps, SameScanOK, NewScanOK
  <1>4. listed' \subseteq Names
    BY MembersTyped DEF ListContacts, ListTasks, Visible, TypeInv, HandlerOK
  <1>5. pc \in AfterSending /\ CallOK
    BY <1>1 DEF Move, AfterSending, TypeInv
  <1>6. call.kind \in IF req.method = "PUT" THEN {"create", "update"} ELSE {"archive"}
    BY <1>5 DEF CallOK
  <1>7. expected' \in Rows \cup {NoCondition, Mismatch}
    BY <1>1 DEF TypeInv, HandlerOK
  <1>8. QED BY <1>1, <1>2, <1>3, <1>4, <1>6, <1>7, MoveTyped DEF AfterSending, AtWork, Scanning

LEMMA CommitTyped ==
  ASSUME TypeInv, CheckpointBlocked \/ CommitAttempt \/ CommitFails \/ CommitSettles
  PROVE  CallOK' /\ ScanOK' /\ HandlerOK'
  <1>1. UNCHANGED <<object, late, scan, call, reads>>
    BY DEF CheckpointBlocked, CommitAttempt, CommitFails, CommitSettles, Reading, space, repository
  <1>2. cache' \subseteq Rows
    BY HydratedTyped DEF CheckpointBlocked, CommitAttempt, CommitFails, CommitSettles, repository
  <1>3. CASE CommitAttempt
    <2>1. Move("commit", "publishing") /\ UNCHANGED <<expected, listed, sent>>
      BY <1>3 DEF CommitAttempt
    <2>2. CallOK /\ HandlerOK /\ pc = "commit"
      BY <2>1 DEF TypeInv, Move
    <2>3. call.kind \in IF req.method = "PUT" THEN {"create", "update"} ELSE {"archive"}
      BY <2>2 DEF CallOK, AfterSending
    <2>4. listed' \subseteq Names /\ expected' \in Rows \cup {NoCondition, Mismatch}
      BY <2>1, <2>2 DEF HandlerOK
    <2>5. QED BY <1>1, <1>2, <2>1, <2>3, <2>4, MoveTyped, ReadingKeeps, SameScanOK
              DEF AfterSending, AtWork, Scanning
  <1>4. CASE CheckpointBlocked \/ CommitFails
    <2>1. \E stage : Refuse(stage, "500")
      BY <1>4 DEF CheckpointBlocked, CommitFails
    <2>2. "500" \in Statuses
      BY Failed
    <2>3. QED BY <1>1, <1>2, <2>1, <2>2, RefusalTyped
  <1>5. CASE CommitSettles
    <2>1. pc = "publishing" /\ CallOK
      BY <1>5 DEF CommitSettles, TypeInv
    <2>2. (IF req.method = "PUT" THEN call.row ELSE NoRow) \in Rows \cup {NoRow}
      BY <2>1 DEF CallOK, Mutations, AfterSending, NoCall
    <2>3. {"success", "503"} \subseteq Statuses
      BY DEF Statuses, RemoteErrors
    <2>4. \/ Reply("publishing", "success", IF req.method = "PUT" THEN call.row ELSE NoRow)
          \/ Reply("publishing", "503", NoRow)
      BY <1>5 DEF CommitSettles, Refuse
    <2>5. QED BY <1>1, <1>2, <2>2, <2>3, <2>4, AnswerTyped, ReadingKeeps
  <1>6. QED BY <1>3, <1>4, <1>5

LEMMA ReceiveTyped ==
  ASSUME TypeInv, NEW r \in ClientRequests, Receive(r)
  PROVE  SpaceOK' /\ CallOK' /\ ScanOK' /\ HandlerOK'
  <1>1. /\ pc = "idle" /\ pc' = "lookup" /\ served < MaxRequests /\ served' = served + 1
        /\ req' = r /\ answer' = [status |-> "none", row |-> NoRow] /\ sent' = FALSE
        /\ touched' = {} /\ recent' = {} /\ scan' = NewScan /\ call' = NoCall /\ reads' = 0
        /\ expected' = NoCondition
        /\ UNCHANGED <<object, archived, late, foreign, cache, listed>>
    BY DEF Receive
  <1>2. r \in Requests
    <2>1. \A n \in Names : ClientConditions(n) \subseteq Conditions
      <3> SUFFICES ASSUME NEW n \in Names, NEW t \in Tags(n) PROVE t \in Rows
        BY DEF ClientConditions, Conditions
      <3>1. PICK i \in Created, b \in Bodies : t = [RowOf(i) EXCEPT !.body = b]
        BY DEF Tags
      <3>2. object[i] \in Contents /\ i \in Objects
        BY DEF TypeInv, SpaceOK, SpaceTypeOK, Created
      <3>3. QED BY <3>1, <3>2 DEF RowOf, Rows, Contents
    <2>2. PICK n \in Names :
            \/ r \in [method : {"PUT"}, name : {n}, uid : Uids, body : Bodies,
                      cond : ClientConditions(n)]
            \/ r \in [method : {"DELETE"}, name : {n}, cond : ClientConditions(n)]
      BY DEF ClientRequests
    <2>3. QED BY <2>1, <2>2 DEF Requests
  <1>3. Created' = Created /\ Knows(late)'
    BY <1>1, SameObjects, ReadingKeeps
  <1>4. Room'
    <2>1. /\ Pending(pc \in BeforeSending) = 0 /\ Pending(pc \in BeforeSending)' = 1
          /\ Pending(late.kind = "create")' = Pending(late.kind = "create")
          /\ Pending(late.kind = "create") \in Nat
      BY <1>1 DEF Pending, BeforeSending, Looking
    <2>2. QED BY <1>1, <1>3, <2>1, Numbers DEF TypeInv, SpaceOK, Room
  <1>5. SpaceOK'
    BY <1>1, <1>3, <1>4 DEF TypeInv, SpaceOK, SpaceTypeOK, InOrder
  <1>6. CallOK'
    BY <1>1, <1>3 DEF CallOK, Knows, NoCall, AfterSending
  <1>7. HandlerOK'
    <2>1. served' \in 0..MaxRequests
      BY <1>1, Numbers
    <2>2. "none" \in Statuses
      BY DEF Statuses
    <2>3. answer' \in [status : Statuses, row : Rows \cup {NoRow}]
      BY <1>1, <2>2
    <2>4. 0 \in 0..MaxReads
      BY Numbers
    <2>5. QED BY <1>1, <1>2, <2>1, <2>3, <2>4 DEF TypeInv, HandlerOK, Stages, AtWork, Scanning
  <1>8. QED BY <1>1, <1>5, <1>6, <1>7, NewScanOK

LEMMA ProcessTyped ==
  ASSUME TypeInv, Start \/ Crash
  PROVE  CallOK' /\ ScanOK' /\ HandlerOK'
  <1>1. UNCHANGED <<object, late, served>>
    BY DEF Start, Crash, Move, space
  <1>2. CASE Start
    <2>1. UNCHANGED <<cache, scan, call, reads, expected, listed, sent, req, answer>> /\ pc' = "idle"
      BY <1>2 DEF Start, Move, repository
    <2>2. CallOK'
      BY <1>1, <2>1, ReadingKeeps DEF TypeInv, CallOK, AfterSending, AtWork, Scanning
    <2>3. HandlerOK'
      BY <1>1, <2>1 DEF TypeInv, HandlerOK, Stages, AtWork, Scanning
    <2>4. QED BY <1>1, <2>1, <2>2, <2>3, SameScanOK, ReadingKeeps
  <1>3. CASE Crash
    <2>1. /\ pc' = "down" /\ req' = NoRequest /\ answer' = [status |-> "none", row |-> NoRow]
          /\ expected' = NoCondition /\ listed' = {} /\ sent' = FALSE
          /\ cache' = {} /\ scan' = NewScan /\ call' = NoCall /\ reads' = 0
      BY <1>3 DEF Crash
    <2>2. CallOK'
      BY <1>1, <2>1, ReadingKeeps DEF CallOK, Knows, NoCall, AfterSending, AtWork, Scanning
    <2>3. "none" \in Statuses
      BY DEF Statuses
    <2>4. answer' \in [status : Statuses, row : Rows \cup {NoRow}]
      BY <2>1, <2>3
    <2>5. 0 \in 0..MaxReads
      BY Numbers
    <2>6. HandlerOK'
      BY <1>1, <2>1, <2>4, <2>5 DEF TypeInv, HandlerOK, Stages, AtWork, Scanning
    <2>7. QED BY <2>1, <2>2, <2>6, NewScanOK
  <1>4. QED BY <1>2, <1>3

LEMMA CandidateTyped ==
  ASSUME NEW s \in Checkpoint!SyncStates, NEW names \in SUBSET Names
  PROVE  /\ Checkpoint!Refreshed(s, names) \in Checkpoint!SyncStates
         /\ Checkpoint!Refreshed(s, names).observed = names
  <1> DEFINE listing == [s EXCEPT !.tombstones = @ \cup (s.observed \ names), !.observed = names]
  <1>1. /\ listing \in Checkpoint!SyncStates /\ listing.observed = names
    BY DEF Checkpoint!SyncStates
  <1>2. Checkpoint!Refreshed(s, names) = Checkpoint!NextGeneration(listing)
    BY DEF Checkpoint!Refreshed
  <1> HIDE DEF listing
  <1>3. /\ Checkpoint!NextGeneration(listing) \in Checkpoint!SyncStates
        /\ Checkpoint!NextGeneration(listing).observed = names
    BY <1>1 DEF Checkpoint!NextGeneration, Checkpoint!SyncStates
  <1>4. QED BY <1>2, <1>3

LEMMA BoundTyped ==
  ASSUME NEW s \in Checkpoint!SyncStates
  PROVE  Checkpoint!Bound(s, Scope) \in Checkpoint!SyncStates
  BY DEF Checkpoint!Bound, Checkpoint!SyncStates

LEMMA CheckpointTyped ==
  ASSUME TypeInv, [Next]_vars
  PROVE  CheckpointOK'
  <1>1. CheckpointOK /\ HandlerOK
    BY DEF TypeInv
  <1>2. ASSUME UNCHANGED checkpoint, pc' # "down" => pc # "down" PROVE CheckpointOK'
    BY <1>1, <1>2 DEF CheckpointOK, checkpoint
  <1>3. CASE CommitAttempt
    <2>1. /\ pc = "commit" /\ UNCHANGED <<view, settled>> /\ doubtful' = doubtful \cup {Candidate}
      BY <1>3 DEF CommitAttempt, Move, Checkpoint!Attempt
    <2>2. Candidate \in Checkpoint!SyncStates
      BY <1>1, <2>1, CandidateTyped DEF Candidate, CheckpointOK, HandlerOK
    <2>3. QED BY <1>1, <2>1, <2>2 DEF CheckpointOK
  <1>4. CASE CommitSettles
    <2>1. /\ pc = "publishing" /\ settled' = Candidate /\ doubtful' = {}
          /\ view' = [view EXCEPT ![Service] = Candidate]
      BY <1>4 DEF CommitSettles, Checkpoint!Settle
    <2>2. Candidate \in Checkpoint!SyncStates
      BY <1>1, <2>1, CandidateTyped DEF Candidate, CheckpointOK, HandlerOK
    <2>3. QED BY <1>1, <2>1, <2>2 DEF CheckpointOK
  <1>5. CASE Start
    <2>1. PICK s \in {settled} \cup doubtful :
            view' = [view EXCEPT ![Service] = Checkpoint!Bound(s, Scope)]
      BY <1>5 DEF Start, Checkpoint!Open
    <2>2. UNCHANGED <<settled, doubtful>>
      BY <1>5 DEF Start, Checkpoint!Open
    <2>3. Checkpoint!Bound(s, Scope) \in Checkpoint!SyncStates
      BY <1>1, BoundTyped DEF CheckpointOK
    <2>4. QED BY <1>1, <2>1, <2>2, <2>3 DEF CheckpointOK
  <1>6. CASE Crash
    BY <1>1, <1>6 DEF Crash, Checkpoint!End, CheckpointOK
  <1>7. CASE ScanPage \/ ScanFails \/ ScanRefused \/ PutPanics \/ Condition \/ Fetch
             \/ UpdateNothing \/ FetchFails \/ WriteSucceeds \/ WriteTimesOut \/ WriteFails
    <2>1. UNCHANGED checkpoint
      BY <1>7 DEF ScanPage, ScanFails, ScanRefused, PutPanics, Condition, Fetch, UpdateNothing,
                  FetchFails, WriteSucceeds, WriteTimesOut, WriteFails, Reading, LookAgain
    <2>2. pc # "down"
      BY <1>7 DEF ScanPage, ScanFails, ScanRefused, PutPanics, Condition, Fetch, UpdateNothing,
                  FetchFails, WriteSucceeds, WriteTimesOut, WriteFails, Move, Refuse, Reply, Scanning
    <2>3. QED BY <1>2, <2>1, <2>2
  <1>8. CASE PutLookup \/ DeleteLookup \/ Refresh
    <2>1. UNCHANGED checkpoint
      BY <1>8 DEF PutLookup, DeleteLookup, Refresh, LookupRefuses, LookupProceeds, RefreshRefuses,
                  RefreshProceeds, Reading, LookAgain
    <2>2. pc # "down"
      BY <1>8 DEF PutLookup, DeleteLookup, Refresh
    <2>3. QED BY <1>2, <2>1, <2>2
  <1>9. CASE ReconcileWrite \/ ReconcileCreate \/ ListContacts \/ ListTasks \/ CheckpointBlocked
             \/ CommitFails
    <2>1. UNCHANGED checkpoint
      BY <1>9 DEF ReconcileWrite, ReconcileCreate, ListContacts, ListTasks, CheckpointBlocked,
                  CommitFails, Recognised, ReadAgain, GiveUp, Reading
    <2>2. pc # "down"
      BY <1>9 DEF ReconcileWrite, ReconcileCreate, ListContacts, ListTasks, CheckpointBlocked,
                  CommitFails, Move, Refuse, Reply
    <2>3. QED BY <1>2, <2>1, <2>2
  <1>10. ASSUME NEW r \in ClientRequests, Receive(r) PROVE CheckpointOK'
    BY <1>2, <1>10 DEF Receive
  <1>11. CASE (OtherClients \/ Land \/ Lose) /\ UNCHANGED <<repository, control, checkpoint>>
    BY <1>2, <1>11 DEF control
  <1>12. CASE UNCHANGED vars
    BY <1>2, <1>12 DEF vars, control
  <1>13. QED
    BY <1>3, <1>4, <1>5, <1>6, <1>7, <1>8, <1>9, <1>10, <1>11, <1>12
       DEF Next, Serve, Environment

(* Steps that leave the Space alone leave it well formed, with the room that *)
(* is reserved.                                                              *)
LEMMA QuietStep ==
  ASSUME TypeInv, UNCHANGED <<object, archived, late, foreign, served>>,
         touched' = touched, recent' \in {recent, {}},
         pc' \in BeforeSending => pc \in BeforeSending
  PROVE  SpaceOK'
  BY QuietSpace, Numbers DEF TypeInv, SpaceOK, SpaceTypeOK

LEMMA TypeStep == TypeInv /\ [Next]_vars => TypeInv'
  <1> SUFFICES ASSUME TypeInv, [Next]_vars PROVE SpaceOK' /\ CallOK' /\ ScanOK' /\ HandlerOK'
    BY CheckpointTyped DEF TypeInv
  <1>1. CASE ScanPage \/ ScanFails \/ ScanRefused \/ PutPanics \/ Condition \/ Fetch
             \/ UpdateNothing \/ FetchFails
    <2>1. /\ UNCHANGED <<object, archived, late, foreign, served, touched>>
          /\ recent' \in {recent, {}}
      BY <1>1 DEF ScanPage, ScanFails, ScanRefused, PutPanics, Condition, Fetch, UpdateNothing,
                  FetchFails, Reading, LookAgain, Move, Refuse, Reply, space, control
    <2>2. pc' \in BeforeSending => pc \in BeforeSending
      BY <1>1 DEF ScanPage, ScanFails, ScanRefused, PutPanics, Condition, Fetch, UpdateNothing,
                  FetchFails, Move, Refuse, Reply, control, BeforeSending, Looking
    <2>3. SpaceOK'
      BY <2>1, <2>2, QuietStep
    <2>4. QED BY <1>1, <2>3, ScanPageTyped, ScanEndsTyped, PutPanicsTyped, ConditionTyped,
                 FetchTyped, WriteStopsTyped
  <1>2. CASE PutLookup \/ DeleteLookup \/ Refresh
    <2>1. /\ UNCHANGED <<object, archived, late, foreign, served, touched>>
          /\ recent' \in {recent, {}}
      BY <1>2 DEF PutLookup, DeleteLookup, Refresh, LookupRefuses, LookupProceeds, RefreshRefuses,
                  RefreshProceeds, Reading, LookAgain, Move, Refuse, Reply, space
    <2>2. pc \in BeforeSending
      BY <1>2 DEF PutLookup, DeleteLookup, Refresh, BeforeSending, Looking
    <2>3. SpaceOK'
      BY <2>1, <2>2, QuietStep
    <2>4. QED BY <1>2, <2>3, PutLookupTyped, DeleteLookupTyped, RefreshTyped
  <1>3. CASE WriteSucceeds \/ WriteTimesOut \/ WriteFails
    BY <1>3, SendingChangesSpace, SendingTyped, WriteFailsTyped
  <1>4. CASE ReconcileWrite \/ ReconcileCreate \/ ListContacts \/ ListTasks \/ CheckpointBlocked
             \/ CommitAttempt \/ CommitFails \/ CommitSettles
    <2>1. UNCHANGED <<object, archived, late, foreign, served, touched, recent>>
      BY <1>4 DEF ReconcileWrite, ReconcileCreate, ListContacts, ListTasks, CheckpointBlocked,
                  CommitAttempt, CommitFails, CommitSettles, Recognised, ReadAgain, GiveUp,
                  Reading, Move, Refuse, Reply, space, control
    <2>2. pc' \in BeforeSending => pc \in BeforeSending
      BY <1>4 DEF ReconcileWrite, ReconcileCreate, ListContacts, ListTasks, CheckpointBlocked,
                  CommitAttempt, CommitFails, CommitSettles, Recognised, ReadAgain, GiveUp,
                  Move, Refuse, Reply, control, BeforeSending, Looking
    <2>3. SpaceOK'
      BY <2>1, <2>2, QuietStep
    <2>4. QED BY <1>4, <2>3, ReconcileWriteTyped, ReconcileCreateTyped, ListingTyped, CommitTyped
  <1>5. ASSUME NEW r \in ClientRequests, Receive(r)
        PROVE  SpaceOK' /\ CallOK' /\ ScanOK' /\ HandlerOK'
    BY <1>5, ReceiveTyped
  <1>6. CASE Start \/ Crash
    <2>1. /\ UNCHANGED <<object, archived, late, foreign, served, touched, recent>>
          /\ pc' \notin BeforeSending
      BY <1>6 DEF Start, Crash, Move, space, BeforeSending, Looking
    <2>2. QED BY <1>6, <2>1, QuietStep, ProcessTyped
  <1>7. CASE (OtherClients \/ Land \/ Lose) /\ UNCHANGED <<repository, control, checkpoint>>
    <2>1. SpaceOK' /\ Persists /\ Knows(late)'
      BY <1>7, OthersChangeSpace, LandingChangesSpace
    <2>2. UNCHANGED <<repository, control>>
      BY <1>7
    <2>3. ScanOK'
      BY <2>1, <2>2, SameScanOK DEF repository
    <2>4. PICK write : write = call
      OBVIOUS
    <2>5. Knows(write)'
      BY <2>1, <2>4, Kept DEF TypeInv, CallOK
    <2>6. Knows(call)'
      BY <2>2, <2>4, <2>5 DEF repository, Knows, NamesObject
    <2>7. CallOK'
      BY <2>1, <2>2, <2>6 DEF TypeInv, CallOK, repository, control
    <2>8. HandlerOK'
      BY <2>2 DEF TypeInv, HandlerOK, repository, control
    <2>9. QED BY <2>1, <2>3, <2>7, <2>8
  <1>8. CASE UNCHANGED vars
    <2>1. UNCHANGED <<space, repository, control>> /\ UNCHANGED <<object, late>>
      BY <1>8 DEF vars, space
    <2>2. SpaceOK'
      BY <2>1, QuietStep DEF space, control
    <2>3. ScanOK'
      BY <2>1, ReadingKeeps, SameScanOK DEF repository
    <2>4. CallOK'
      BY <2>1, ReadingKeeps DEF TypeInv, CallOK, repository, control
    <2>5. HandlerOK'
      BY <2>1 DEF TypeInv, HandlerOK, repository, control
    <2>6. QED BY <2>2, <2>3, <2>4, <2>5
  <1>9. QED
    BY <1>1, <1>2, <1>3, <1>4, <1>5, <1>6, <1>7, <1>8 DEF Next, Serve, Environment

LEMMA TypeInit == Init => TypeInv
  <1> SUFFICES ASSUME Init PROVE TypeInv
    OBVIOUS
  <1>1. /\ object \in [Objects -> Contents \cup {Unused}]
        /\ Cardinality(Created) <= InitialObjects
        /\ \A i \in Created : \A j \in 1..i : j \in Created
        /\ archived = {} /\ late = NoCall /\ foreign = 0 /\ touched = {} /\ recent = {}
        /\ cache = {} /\ scan = NewScan /\ call = NoCall /\ reads = 0
        /\ pc = "down" /\ req = NoRequest /\ expected = NoCondition /\ listed = {}
        /\ answer = [status |-> "none", row |-> NoRow]
        /\ served = 0 /\ sent = FALSE
        /\ view = [p \in {Service} |-> Closed] /\ settled = Recorded /\ doubtful = {}
    BY DEF Init
  <1>2. SpaceOK
    <2>1. Room
      <3>1. Pending(pc \in BeforeSending) = 0 /\ Pending(late.kind = "create") = 0
        BY <1>1 DEF Pending, BeforeSending, Looking, NoCall
      <3>2. Cardinality(Created) \in Nat /\ InitialObjects \in Nat
        BY FiniteSpace, ServiceAssumption
      <3>3. QED BY <1>1, <3>1, <3>2 DEF Room
    <2>2. QED BY <1>1, <2>1, SpaceAssumption DEF SpaceOK, SpaceTypeOK, InOrder
  <1>3. CallOK
    BY <1>1 DEF CallOK, Knows, NoCall, AfterSending, AtWork, Scanning
  <1>4. ScanOK
    BY <1>1 DEF ScanOK, NewScan, Scans
  <1>5. HandlerOK
    <2>1. "none" \in Statuses
      BY DEF Statuses
    <2>2. answer \in [status : Statuses, row : Rows \cup {NoRow}]
      BY <1>1, <2>1
    <2>3. 0 \in 0..MaxReads /\ 0 \in 0..MaxRequests
      BY ServiceAssumption, RepositoryAssumption
    <2>4. QED BY <1>1, <2>2, <2>3 DEF HandlerOK, Stages, AtWork, Scanning
  <1>6. CheckpointOK
    <2>1. {object[i].name : i \in Created} \subseteq Names
      BY <1>1 DEF Created, Contents
    <2>2. Checkpoint!EmptyState \in Checkpoint!SyncStates
      BY DEF Checkpoint!EmptyState, Checkpoint!SyncStates
    <2>3. settled \in Checkpoint!SyncStates
      BY <1>1, <2>1, <2>2, BoundTyped, CandidateTyped DEF Recorded
    <2>4. QED BY <1>1, <2>3 DEF CheckpointOK
  <1>7. QED BY <1>2, <1>3, <1>4, <1>5, <1>6 DEF TypeInv

(* The service's state keeps its types under every fault and every change by *)
(* other clients: in particular an object whose other properties an update   *)
(* carries forward is there, and the row of a successful PUT's answer is one.*)
THEOREM ServiceTypes == Spec => []TypeOK
  <1>1. Init => TypeInv
    BY TypeInit
  <1>2. TypeInv /\ [Next]_vars => TypeInv'
    BY TypeStep
  <1>3. TypeInv => TypeOK
    BY TypeInvImplies
  <1>4. QED BY <1>1, <1>2, <1>3, PTL DEF Spec

-----------------------------------------------------------------------------
(* What a success says.  A write takes effect when it is sent or never, and  *)
(* a listing misses no object that was there.                                *)

(* Perhaps an object another client has added since the request arrived.     *)
Excused(i) == "create" \in ForeignOps /\ i \in touched

NotTaken(row) ==
  \A i \in Live : Excused(i) \/ (object[i].name # row.name /\ object[i].uid # row.uid)

(* No untouched object carries the identity of the row but not its content:  *)
(* a reconciliation by identity can only find the object created.            *)
OnlyAs(row) ==
  \A i \in Live \ touched :
    object[i].name = row.name /\ object[i].uid = row.uid => object[i].body = row.body

TargetInv ==
  /\ pc \in BeforeSending /\ call.kind = "update" => call.row.id \in touched \cup Live
  /\ pc = "send" /\ call.kind = "create" => NotTaken(call.row)
  /\ pc = "reconcile" /\ call.kind = "create" => OnlyAs(call.row)

InPlace ==
  IF req.method = "PUT"
    THEN call.row.id \in touched \/ (call.row.id \in Live /\ RowOf(call.row.id) = call.row)
    ELSE call.id \in archived

StoredInv ==
  /\ pc \in AfterSending \/ Answered("success") => InPlace
  /\ Answered("success") /\ req.method = "PUT" => answer.row = call.row
  /\ pc = "down" => answer.status # "success"

(* The names listed: those of every untouched object of these kinds, and no  *)
(* other unless a client interfered.                                         *)
Records(names, kinds) ==
  /\ \A i \in Live \ touched : KindOf[object[i].name] \in kinds => object[i].name \in names
  /\ touched = {} => names \subseteq LiveNames(Live)

ListedInv ==
  /\ pc = "tasks" => Records(listed, {"contact"})
  /\ pc \in {"commit", "publishing"} => Records(listed, {"contact", "task"})
  /\ Answered("success") => Records(settled.observed, {"contact", "task"})

LookInv == pc \in Scanning => ScanKnows

WriteInv == late = NoCall /\ LookInv /\ TargetInv /\ StoredInv /\ ListedInv

LEMMA LateStep ==
  ASSUME "late" \notin Faults, late = NoCall, [Next]_vars
  PROVE  late' = NoCall
  <1>1. CASE Serve
    BY <1>1 DEF Serve, ScanPage, ScanFails, ScanRefused, PutLookup, PutPanics, DeleteLookup,
         Condition, Refresh, Fetch, UpdateNothing, FetchFails, WriteFails, WriteSucceeds,
         WriteTimesOut, ReconcileWrite, ReconcileCreate, ListContacts, ListTasks, CheckpointBlocked,
         CommitAttempt, CommitFails, CommitSettles, LookupRefuses, LookupProceeds,
         RefreshRefuses, RefreshProceeds, Recognised, ReadAgain, GiveUp, Reading, LookAgain,
         Send, TimeOut, space
  <1>2. CASE Environment
    BY <1>2 DEF Environment, Receive, Start, Crash, OtherClients, ForeignCreate, ForeignEdit,
         ForeignProperty, ForeignArchive, Foreign, Land, Lose, space
  <1>3. QED BY <1>1, <1>2 DEF Next, vars, space

(* A scan begins anew with every stage that lists the Space.                 *)
LEMMA ScanSteps ==
  ASSUME late = NoCall, [Next]_vars, pc' \in Scanning
  PROVE  \/ ScanPage
         \/ OtherClients /\ UNCHANGED <<repository, control>>
         \/ scan' = NewScan
         \/ UNCHANGED vars
  <1> USE DEF Move, Refuse, Reply, Scanning
  <1>1. CASE ScanFails \/ ScanRefused \/ PutLookup \/ PutPanics \/ DeleteLookup
    BY <1>1 DEF ScanFails, ScanRefused, PutLookup, PutPanics, DeleteLookup, LookupRefuses,
                LookupProceeds, LookAgain
  <1>2. CASE Condition \/ Refresh \/ Fetch \/ UpdateNothing \/ FetchFails \/ WriteFails
             \/ WriteSucceeds \/ WriteTimesOut
    BY <1>2 DEF Condition, Refresh, Fetch, UpdateNothing, FetchFails, WriteFails, WriteSucceeds,
                WriteTimesOut, RefreshRefuses, RefreshProceeds, LookAgain
  <1>3. CASE ReconcileWrite
    BY <1>3 DEF ReconcileWrite, Recognised, ReadAgain, GiveUp, control
  <1>4. CASE ReconcileCreate
    BY <1>4 DEF ReconcileCreate, Recognised, ReadAgain, GiveUp, control
  <1>5. CASE ListContacts \/ ListTasks \/ CheckpointBlocked \/ CommitAttempt \/ CommitFails
             \/ CommitSettles
    BY <1>5 DEF ListContacts, ListTasks, CheckpointBlocked, CommitAttempt, CommitFails,
                CommitSettles
  <1>6. CASE Start \/ Crash \/ \E r \in ClientRequests : Receive(r)
    BY <1>6 DEF Start, Crash, Receive
  <1>7. ~Land /\ ~Lose
    BY DEF Land, Lose
  <1>8. QED BY <1>1, <1>2, <1>3, <1>4, <1>5, <1>6, <1>7 DEF Next, Serve, Environment

LEMMA LookStep ==
  ASSUME TypeInv, late = NoCall, LookInv, WholeListings, [Next]_vars
  PROVE  LookInv'
  <1> SUFFICES ASSUME pc' \in Scanning PROVE ScanKnows'
    BY DEF LookInv
  <1>1. scan \in Scans /\ InOrder /\ ObjectsTyped
    BY DEF TypeInv, ScanOK, SpaceOK, SpaceTypeOK, ObjectsTyped
  <1>2. CASE ScanPage
    <2>1. pc' = pc /\ UNCHANGED <<object, archived, recent>> /\ ReadPage
      BY <1>2 DEF ScanPage, control, space
    <2>2. QED BY <1>1, <2>1, ReadPageKnows DEF LookInv
  <1>3. CASE OtherClients /\ UNCHANGED <<repository, control>>
    <2>1. pc' = pc /\ scan' = scan
      BY <1>3 DEF repository, control
    <2>2. PICK i \in Objects : OthersChange(i)
      BY <1>1, <1>3, OthersChangeOne
    <2>3. QED BY <1>1, <2>1, <2>2, ScanKnowsOthers DEF LookInv
  <1>4. CASE scan' = NewScan
    BY <1>4, NewScanKnows
  <1>5. CASE UNCHANGED vars
    <2>1. UNCHANGED <<object, archived, recent, scan, pc>>
      BY <1>5 DEF vars, space, repository, control
    <2>2. ScanKnows
      BY <2>1 DEF LookInv
    <2>3. QED BY <2>1, <2>2, ScanKnowsQuiet
  <1>6. QED BY <1>2, <1>3, <1>4, <1>5, ScanSteps

(* A scan that is done has a row for every live object, under its names.     *)
LEMMA Complete ==
  ASSUME TypeInv, ScanKnows, scan.done, NEW i \in Live
  PROVE  \/ Newcomer(i) /\ Excused(i)
         \/ \E r \in scan.rows : /\ r.id = i /\ r \in Rows
                                 /\ r.name = object[i].name /\ r.uid = object[i].uid
  <1>1. Newcomer(i) \/ \E r \in scan.rows : r.id = i
    BY DEF ScanKnows, ScanCovers, Covered
  <1>2. Newcomer(i) => Excused(i)
    BY DEF Newcomer, Excused, TypeInv, SpaceOK, SpaceTypeOK
  <1>3. \A r \in scan.rows : r \in Rows /\ NamesObject(r)
    BY DEF TypeInv, ScanOK, Scans
  <1>4. QED BY <1>1, <1>2, <1>3 DEF NamesObject

LEMMA FoundCurrent ==
  ASSUME TypeInv, LookInv, pc \in Scanning, NEW r \in Found
  PROVE  r.id \in touched \cup Live
  BY DEF LookInv, ScanKnows, IsCurrent, Found, Named, TypeInv, SpaceOK, SpaceTypeOK

(* The lookup found neither the name nor the UID of a PUT that creates.      *)
LEMMA LookupFindsFree ==
  ASSUME TypeInv, LookInv, pc = "lookup", scan.done, Found = {},
         ~Taken(scan.rows, req.name, req.uid, Provisional)
  PROVE  \A i \in Live : \/ Excused(i)
                         \/ object[i].name # req.name /\ object[i].uid # req.uid
  <1> SUFFICES ASSUME NEW i \in Live, ~Excused(i)
               PROVE  object[i].name # req.name /\ object[i].uid # req.uid
    OBVIOUS
  <1>1. PICK r \in scan.rows : r.name = object[i].name /\ r.uid = object[i].uid
    BY Complete DEF LookInv, Scanning
  <1>2. r.name # req.name
    BY DEF Found, Named
  <1>3. QED BY <1>1, <1>2 DEF Taken

LEMMA QuietTarget ==
  ASSUME UNCHANGED <<object, archived, touched, call>>, TargetInv,
         pc' \in BeforeSending \cup {"reconcile"} => pc' = pc
  PROVE  TargetInv'
  BY Unmoved DEF TargetInv, NotTaken, OnlyAs, Excused, BeforeSending, Looking

LEMMA PutLookupTarget ==
  ASSUME TypeInv, LookInv, PutLookup
  PROVE  TargetInv'
  <1>1. pc = "lookup" /\ scan.done /\ req.method = "PUT" /\ req \in Requests
    BY DEF PutLookup, TypeInv, HandlerOK, AtWork, Scanning
  <1>2. ASSUME NEW status, LookupRefuses(status) PROVE TargetInv'
    BY <1>2 DEF LookupRefuses, Refuse, Reply, TargetInv, BeforeSending, Looking
  <1>3. ASSUME NEW r \in Found, NEW to \in {"condition", "refresh"}, NEW condition,
               LookupProceeds(to, condition, PutWrite("update", r.id))
        PROVE  TargetInv'
    <2>1. r.id \in touched \cup Live
      BY <1>1, FoundCurrent DEF Scanning
    <2>2. /\ call' = PutWrite("update", r.id) /\ pc' = to
          /\ UNCHANGED <<object, archived, touched>>
      BY <1>3 DEF LookupProceeds, Move, LookAgain
    <2>3. call'.row.id = r.id /\ call'.kind = "update"
      BY <2>2 DEF PutWrite
    <2>4. QED BY <1>3, <2>1, <2>2, <2>3, Unmoved DEF TargetInv
  <1>4. ASSUME LookupProceeds("send", NoCondition, PutWrite("create", 1)), Found = {},
               ~Taken(scan.rows, req.name, req.uid, Provisional)
        PROVE  TargetInv'
    <2>1. /\ call' = PutWrite("create", 1) /\ pc' = "send"
          /\ UNCHANGED <<object, archived, touched>>
      BY <1>4 DEF LookupProceeds, Move, LookAgain
    <2>2. call'.row.name = req.name /\ call'.row.uid = req.uid /\ call'.kind = "create"
      BY <2>1 DEF PutWrite
    <2>3. NotTaken(call.row)'
      BY <1>1, <1>4, <2>1, <2>2, LookupFindsFree, Unmoved DEF NotTaken, Excused
    <2>4. QED BY <2>1, <2>2, <2>3 DEF TargetInv
  <1>5. ASSUME LookupProceeds("condition", NoCondition, NoCall) PROVE TargetInv'
    BY <1>5 DEF LookupProceeds, Move, TargetInv, NoCall
  <1>6. QED BY <1>2, <1>3, <1>4, <1>5 DEF PutLookup

LEMMA OthersLive ==
  ASSUME ObjectsTyped, NEW i, OthersChange(i)
  PROVE  /\ \A j \in Objects \ touched' : object'[j] = object[j] /\ (j \in Live' <=> j \in Live)
         /\ Live \cup touched \subseteq Live' \cup touched'
         /\ \A j \in Live' : \/ "create" \in ForeignOps /\ j \in touched'
                             \/ j \in Live /\ object'[j].name = object[j].name
                                           /\ object'[j].uid = object[j].uid
  <1>1. touched' = touched \cup {i}
    BY DEF OthersChange
  <1>2. \A j \in Objects \ touched' : object'[j] = object[j] /\ (j \in Live' <=> j \in Live)
    BY <1>1, UntouchedKept
  <1>3. Live \subseteq Objects
    BY DEF Live, Created
  <1>4. Live \cup touched \subseteq Live' \cup touched'
    BY <1>1, <1>2, <1>3
  <1>5. ASSUME NEW j \in Live'
        PROVE  \/ "create" \in ForeignOps /\ j \in touched'
               \/ j \in Live /\ object'[j].name = object[j].name /\ object'[j].uid = object[j].uid
    <2>1. j \in Objects
      BY DEF Live, Created
    <2>2. CASE j # i
      BY <1>5, <2>1, <2>2, UntouchedKept
    <2>3. CASE j = i
      BY <1>1, <1>5, <2>3, UntouchedKept DEF OthersChange, Edited, Added
    <2>4. QED BY <2>2, <2>3
  <1>6. QED BY <1>1, <1>2, <1>4, <1>5

LEMMA OthersTarget ==
  ASSUME TypeInv, TargetInv, NEW i, OthersChange(i), UNCHANGED <<repository, control>>
  PROVE  TargetInv'
  <1>1. UNCHANGED <<pc, call>>
    BY DEF repository, control
  <1>2. ObjectsTyped /\ touched' = touched \cup {i}
    BY DEF TypeInv, SpaceOK, SpaceTypeOK, ObjectsTyped, OthersChange
  <1>3. ASSUME NEW row, NotTaken(row) PROVE NotTaken(row)'
    BY <1>2, <1>3, OthersLive DEF NotTaken, Excused
  <1>4. ASSUME NEW row, OnlyAs(row) PROVE OnlyAs(row)'
    <2>1. Live' \subseteq Objects
      BY DEF Live, Created
    <2>2. \A j \in Live' \ touched' : j \in Live \ touched /\ object'[j] = object[j]
      BY <1>2, <2>1, OthersLive
    <2>3. QED BY <1>4, <2>2 DEF OnlyAs
  <1>5. Live \cup touched \subseteq Live' \cup touched'
    BY <1>2, OthersLive
  <1>6. PICK row : row = call.row
    OBVIOUS
  <1>7. NotTaken(call.row) => NotTaken(call.row)'
    BY <1>1, <1>3, <1>6 DEF NotTaken
  <1>8. OnlyAs(call.row) => OnlyAs(call.row)'
    BY <1>1, <1>4, <1>6 DEF OnlyAs
  <1>9. QED BY <1>1, <1>5, <1>7, <1>8 DEF TargetInv

(* A create that timed out has taken effect under its own content, or not.   *)
LEMMA SentTarget ==
  ASSUME TypeInv, TargetInv, "late" \notin Faults, WriteTimesOut
  PROVE  TargetInv'
  <1>1. pc = "send" /\ pc' = "reconcile" /\ call' = call /\ touched' = touched
    BY DEF WriteTimesOut, Move, TimeOut, others
  <1>2. CASE call.kind # "create"
    BY <1>1, <1>2 DEF TargetInv, BeforeSending, Looking
  <1>3. CASE call.kind = "create"
    <2>1. PICK write : write = call
      OBVIOUS
    <2>2. write \in Mutations /\ Knows(write) /\ write.kind = "create" /\ NotTaken(write.row)
      BY <1>1, <1>3, <2>1 DEF TypeInv, CallOK, TargetInv, NoCall
    <2>3. CASE UNCHANGED <<object, archived>>
      <3>1. OnlyAs(call.row)'
        BY <1>1, <2>1, <2>2, <2>3, Unmoved DEF OnlyAs, NotTaken, Excused
      <3>2. QED BY <1>1, <1>3, <3>1 DEF TargetInv, BeforeSending, Looking
    <2>4. CASE Apply(Settled(call))
      <3>1. PICK to : to = Settled(write)
        OBVIOUS
      <3>2. Stored(write, to)
        BY <1>1, <2>1, <2>2, <2>4, <3>1, CallApplied DEF BeforeSending
      <3>3. \A j \in Live' : \/ object'[j].body = write.row.body
                             \/ j \in Live /\ object'[j] = object[j]
        BY <3>2 DEF Stored, Live, Created
      <3>4. OnlyAs(call.row)'
        BY <1>1, <2>1, <2>2, <3>3 DEF OnlyAs, NotTaken, Excused
      <3>5. QED BY <1>1, <1>3, <3>4 DEF TargetInv, BeforeSending, Looking
    <2>5. QED BY <2>3, <2>4 DEF WriteTimesOut, TimeOut
  <1>4. QED BY <1>2, <1>3

LEMMA TargetStep ==
  ASSUME TypeInv, LookInv, TargetInv, late = NoCall, "late" \notin Faults, [Next]_vars
  PROVE  TargetInv'
  <1> USE DEF Move, Refuse, Reply
  <1>1. CASE ScanPage \/ ScanFails \/ ScanRefused \/ PutPanics \/ UpdateNothing \/ FetchFails
             \/ ListContacts \/ ListTasks \/ CheckpointBlocked \/ CommitAttempt \/ CommitFails
             \/ CommitSettles \/ Start
    <2>1. UNCHANGED <<object, archived, touched, call>>
      BY <1>1 DEF ScanPage, ScanFails, ScanRefused, PutPanics, UpdateNothing, FetchFails,
           ListContacts, ListTasks, CheckpointBlocked, CommitAttempt, CommitFails, CommitSettles,
           Start, Reading, space, repository
    <2>2. pc' = pc \/ pc' \notin BeforeSending \cup {"reconcile"}
      BY <1>1 DEF ScanPage, ScanFails, ScanRefused, PutPanics, UpdateNothing, FetchFails,
           ListContacts, ListTasks, CheckpointBlocked, CommitAttempt, CommitFails, CommitSettles,
           Start, control, BeforeSending, Looking
    <2>3. QED BY <2>1, <2>2, QuietTarget
  <1>2. CASE PutLookup
    BY <1>2, PutLookupTarget
  <1>3. CASE DeleteLookup
    <2>1. \/ call' = NoCall /\ pc' \in {"condition", "refresh"}
          \/ pc' = "idle"
      BY <1>3 DEF DeleteLookup, LookupRefuses, LookupProceeds
    <2>2. QED BY <2>1 DEF TargetInv, NoCall, BeforeSending, Looking
  <1>4. CASE Condition \/ Fetch
    <2>1. UNCHANGED <<object, archived, touched>> /\ pc \in BeforeSending
      BY <1>4 DEF Condition, Fetch, Reading, LookAgain, space, BeforeSending, Looking
    <2>2. call'.kind = "update" => call.kind = "update" /\ call'.row.id = call.row.id
      <3>1. CASE Condition
        BY <3>1 DEF Condition
      <3>2. CASE Fetch
        <4>1. call \in Writes
          BY <3>2 DEF Fetch, TypeInv, CallOK, Mutations, Writes, NoCall
        <4>2. QED BY <3>2, <4>1 DEF Fetch, Writes
      <3>3. QED BY <1>4, <3>1, <3>2
    <2>3. pc' = "refresh" \/ (pc' = "send" /\ call'.kind # "create")
      <3>1. CASE Fetch
        <4>1. call \in Writes /\ call.kind = "update"
          BY <3>1 DEF Fetch, TypeInv, CallOK, Mutations, Writes, NoCall
        <4>2. QED BY <3>1, <4>1 DEF Fetch, Writes
      <3>2. QED BY <1>4, <3>1 DEF Condition
    <2>4. QED BY <2>1, <2>2, <2>3, Unmoved DEF TargetInv
  <1>5. CASE Refresh
    <2>1. UNCHANGED <<object, archived, touched>> /\ pc = "refresh"
      BY <1>5 DEF Refresh, RefreshRefuses, RefreshProceeds, Reading, space
    <2>2. \/ pc' = "fetch" /\ call' = call
          \/ pc' = "send" /\ call'.kind = "archive"
          \/ pc' = "idle"
      BY <1>5 DEF Refresh, RefreshRefuses, RefreshProceeds
    <2>3. QED BY <2>1, <2>2, Unmoved DEF TargetInv, BeforeSending, Looking
  <1>6. CASE WriteTimesOut
    BY <1>6, SentTarget
  <1>7. CASE WriteSucceeds \/ WriteFails \/ Crash
    BY <1>7 DEF WriteSucceeds, WriteFails, Crash, TargetInv, BeforeSending, Looking, AfterUpdate
  <1>8. CASE ReconcileWrite \/ ReconcileCreate
    <2>1. \/ UNCHANGED <<object, archived, touched, call, pc>>
          \/ pc' \in {"contacts", "idle"}
      BY <1>8 DEF ReconcileWrite, ReconcileCreate, Recognised, ReadAgain, GiveUp, space, control
    <2>2. CASE UNCHANGED <<object, archived, touched, call, pc>>
      BY <2>2, QuietTarget
    <2>3. CASE pc' \in {"contacts", "idle"}
      BY <2>3 DEF TargetInv, BeforeSending, Looking
    <2>4. QED BY <2>1, <2>2, <2>3
  <1>9. ASSUME NEW r \in ClientRequests, Receive(r) PROVE TargetInv'
    BY <1>9 DEF Receive, TargetInv, NoCall
  <1>10. CASE OtherClients /\ UNCHANGED <<repository, control, checkpoint>>
    <2>1. PICK i \in Objects : OthersChange(i)
      BY <1>10, OthersChangeOne DEF TypeInv, SpaceOK, SpaceTypeOK, ObjectsTyped
    <2>2. QED BY <1>10, <2>1, OthersTarget
  <1>11. CASE UNCHANGED vars
    BY <1>11, QuietTarget DEF vars, space, repository, control
  <1>12. ~Land /\ ~Lose
    BY DEF Land, Lose
  <1>13. QED
    BY <1>1, <1>2, <1>3, <1>4, <1>5, <1>6, <1>7, <1>8, <1>9, <1>10, <1>11, <1>12
       DEF Next, Serve, Environment

(* The write has its effect, and is on record as the call.                   *)
LEMMA SentInPlace ==
  ASSUME TypeInv, TargetInv, WriteSucceeds
  PROVE  pc' = "contacts" => InPlace'
  <1>1. /\ pc = "send" /\ req' = req /\ touched' = touched
        /\ pc' = "contacts" => call.kind # "archive"
    BY DEF WriteSucceeds, Move, Send, others, AfterUpdate
  <1> SUFFICES ASSUME call.kind # "archive" PROVE InPlace'
    BY <1>1
  <1>2. PICK write, to : write = call /\ to = Settled(write)
    OBVIOUS
  <1>3. /\ write \in Mutations /\ Knows(write) /\ write.kind \in {"create", "update"}
        /\ req.method = "PUT"
    BY <1>1, <1>2 DEF TypeInv, CallOK, NoCall, Mutations
  <1>4. call' = to /\ Apply(to)
    BY <1>2 DEF WriteSucceeds, Send
  <1>5. Stored(write, to) /\ to.row.id \in Objects
    BY <1>1, <1>2, <1>3, <1>4, CallApplied DEF BeforeSending
  <1>6. /\ to.row.name = write.row.name /\ to.row.uid = write.row.uid /\ to.row.body = write.row.body
        /\ object'[to.row.id].name = write.row.name /\ object'[to.row.id].uid = write.row.uid
        /\ object'[to.row.id].body = write.row.body
        /\ archived' = archived /\ to.row.id \in Created' /\ to.row \in Rows
        /\ IF write.kind = "create" THEN Fresh(to.row.id) ELSE to = write
    BY <1>5 DEF Stored, Writes
  <1>7. RowOf(to.row.id)' = to.row
    BY <1>6 DEF RowOf, Rows
  <1>8. to.row.id \in touched \/ to.row.id \in Live'
    <2>1. CASE write.kind = "create"
      BY <1>6, <2>1 DEF Fresh, Live, TypeInv, SpaceOK
    <2>2. CASE write.kind = "update"
      BY <1>1, <1>2, <1>6, <2>2 DEF TargetInv, BeforeSending, Live
    <2>3. QED BY <1>3, <2>1, <2>2
  <1>9. QED BY <1>1, <1>3, <1>4, <1>7, <1>8 DEF InPlace

LEMMA ReconciledInPlace ==
  ASSUME TypeInv, TargetInv, ReconcileWrite \/ ReconcileCreate, pc' = "contacts"
  PROVE  InPlace'
  <1>1. /\ pc \in {"reconcile", "confirm"} /\ UNCHANGED <<object, archived, touched, req>>
        /\ Live' = Live /\ \A i : RowOf(i)' = RowOf(i)
    <2>1. pc \in {"reconcile", "confirm"}
      BY DEF ReconcileWrite, ReconcileCreate
    <2>2. UNCHANGED <<object, archived, touched, req>>
      BY DEF ReconcileWrite, ReconcileCreate, Recognised, ReadAgain, GiveUp, Move, Refuse, Reply,
             Reading, space, control
    <2>3. QED BY <2>1, <2>2, Unmoved
  <1>2. call.kind \in IF req.method = "PUT" THEN {"create", "update"} ELSE {"archive"}
    BY <1>1 DEF TypeInv, CallOK
  <1>3. CASE ReconcileWrite
    <2>1. Matches /\ call' = call /\ call.kind # "create"
      BY <1>1, <1>3 DEF ReconcileWrite, Recognised, ReadAgain, GiveUp, Refuse, Reply, control
    <2>2. QED BY <1>1, <1>2, <2>1 DEF Matches, InPlace
  <1>4. CASE ReconcileCreate
    <2>1. PICK i \in Candidates : call' = [call EXCEPT !.row.id = i]
      BY <1>1, <1>4 DEF ReconcileCreate, Recognised, ReadAgain, GiveUp, Refuse, Reply, control
    <2>2. call.kind = "create" /\ pc = "reconcile"
      BY <1>4 DEF ReconcileCreate
    <2>3. call \in Writes /\ call.row \in Rows
      BY <2>2 DEF TypeInv, CallOK, Writes, Mutations, NoCall
    <2>4. /\ i \in Objects /\ i \in Live
          /\ object[i].name = call.row.name /\ object[i].uid = call.row.uid
      BY <2>1 DEF Candidates, Page, Live, Created
    <2>5. /\ call'.row \in Rows /\ call'.row.id = i /\ call'.row.name = call.row.name
          /\ call'.row.uid = call.row.uid /\ call'.row.body = call.row.body
      <3>1. PICK write, row, named :
              write = call /\ row = call.row /\ named = [write EXCEPT !.row.id = i]
        OBVIOUS
      <3>2. named.row = [row EXCEPT !.id = i]
        BY <2>3, <2>4, <3>1, Renumbered
      <3>3. /\ named.row \in Rows /\ named.row.id = i /\ named.row.name = row.name
            /\ named.row.uid = row.uid /\ named.row.body = row.body
        <4>1. row \in Rows
          BY <2>3, <3>1
        <4>2. QED BY <2>4, <3>2, <4>1, RenumberedRow
      <3>4. QED BY <2>1, <3>1, <3>3
    <2>6. i \in touched \/ object[i].body = call.row.body
      BY <2>2, <2>4 DEF TargetInv, OnlyAs
    <2>7. i \in touched \/ RowOf(i) = call'.row
      BY <2>4, <2>5, <2>6 DEF RowOf, Rows
    <2>8. QED BY <1>1, <1>2, <2>2, <2>4, <2>5, <2>7 DEF InPlace
  <1>5. QED BY <1>3, <1>4

LEMMA QuietInPlace ==
  ASSUME UNCHANGED <<object, archived, touched, call, req>>, InPlace
  PROVE  InPlace'
  BY Unmoved DEF InPlace

LEMMA OthersInPlace ==
  ASSUME TypeInv, InPlace, NEW i, OthersChange(i), UNCHANGED <<call, req>>
  PROVE  InPlace'
  <1>1. ObjectsTyped /\ touched' = touched \cup {i} /\ archived \subseteq archived'
    BY DEF TypeInv, SpaceOK, SpaceTypeOK, ObjectsTyped, OthersChange, Edited, Added
  <1>2. \A j \in Objects \ touched' : object'[j] = object[j] /\ (j \in Live' <=> j \in Live)
    BY <1>1, OthersLive
  <1>3. Live \subseteq Objects
    BY DEF Live, Created
  <1>4. QED BY <1>1, <1>2, <1>3 DEF InPlace, RowOf

LEMMA StoredStep ==
  ASSUME TypeInv, TargetInv, StoredInv, late = NoCall, [Next]_vars
  PROVE  StoredInv'
  <1> USE DEF Move, Refuse, Reply, Answered
  <1>1. CASE ScanPage \/ ScanFails \/ ScanRefused \/ PutPanics \/ UpdateNothing \/ FetchFails
             \/ ListContacts \/ ListTasks \/ CheckpointBlocked \/ CommitAttempt \/ CommitFails
    <2>1. UNCHANGED <<object, archived, touched, call, req>>
      BY <1>1 DEF ScanPage, ScanFails, ScanRefused, PutPanics, UpdateNothing, FetchFails,
           ListContacts, ListTasks, CheckpointBlocked, CommitAttempt, CommitFails, Reading, space,
           repository, control
    <2>2. pc' \in AfterSending => pc \in AfterSending
      BY <1>1 DEF ScanPage, ScanFails, ScanRefused, PutPanics, UpdateNothing, FetchFails,
           ListContacts, ListTasks, CheckpointBlocked, CommitAttempt, CommitFails, control,
           AfterSending
    <2>3. ~Answered("success")' /\ pc' # "down"
      BY <1>1, Failed DEF ScanPage, ScanFails, ScanRefused, PutPanics, UpdateNothing, FetchFails,
           ListContacts, ListTasks, CheckpointBlocked, CommitAttempt, CommitFails, control,
           Scanning, AfterWrite
    <2>4. QED BY <2>1, <2>2, <2>3, QuietInPlace DEF StoredInv
  <1>2. CASE PutLookup \/ DeleteLookup \/ Condition \/ Refresh \/ Fetch
    <2>1. pc' \notin AfterSending /\ ~Answered("success")' /\ pc' # "down"
      BY <1>2 DEF PutLookup, DeleteLookup, Condition, Refresh, Fetch, LookupRefuses,
           LookupProceeds, RefreshRefuses, RefreshProceeds, AfterSending
    <2>2. QED BY <2>1 DEF StoredInv
  <1>3. CASE WriteSucceeds \/ WriteTimesOut \/ WriteFails
    <2>1. /\ pc' \in {"contacts", "confirm", "reconcile", "idle"}
          /\ pc' = "contacts" => WriteSucceeds
          /\ ~Answered("success")'
      BY <1>3, Failed DEF WriteSucceeds, WriteTimesOut, WriteFails, AfterUpdate
    <2>2. QED BY <2>1, SentInPlace DEF StoredInv, AfterSending
  <1>4. CASE ReconcileWrite \/ ReconcileCreate
    <2>1. pc' \in {"contacts", "idle", "reconcile", "confirm"}
      BY <1>4 DEF ReconcileWrite, ReconcileCreate, Recognised, ReadAgain, GiveUp, control
    <2>2. ~Answered("success")'
      BY <1>4, Failed DEF ReconcileWrite, ReconcileCreate, Recognised, ReadAgain, GiveUp, control
    <2>3. QED BY <1>4, <2>1, <2>2, ReconciledInPlace DEF StoredInv, AfterSending
  <1>5. CASE CommitSettles
    <2>1. UNCHANGED <<object, archived, touched, call, req>> /\ pc = "publishing" /\ pc' = "idle"
      BY <1>5 DEF CommitSettles, space, repository
    <2>2. Answered("success")' /\ req.method = "PUT" => answer'.row = call.row
      BY <1>5 DEF CommitSettles
    <2>3. QED BY <2>1, <2>2, QuietInPlace DEF StoredInv, AfterSending
  <1>6. CASE Start \/ Crash \/ \E r \in ClientRequests : Receive(r)
    BY <1>6 DEF Start, Crash, Receive, StoredInv, AfterSending
  <1>7. CASE OtherClients /\ UNCHANGED <<repository, control, checkpoint>>
    <2>1. PICK i \in Objects : OthersChange(i)
      BY <1>7, OthersChangeOne DEF TypeInv, SpaceOK, SpaceTypeOK, ObjectsTyped
    <2>2. UNCHANGED <<call, req, pc, answer>>
      BY <1>7 DEF repository, control
    <2>3. InPlace => InPlace'
      BY <2>1, <2>2, OthersInPlace
    <2>4. QED BY <2>2, <2>3 DEF StoredInv
  <1>8. CASE UNCHANGED vars
    <2>1. UNCHANGED <<object, archived, touched, call, req, pc, answer>>
      BY <1>8 DEF vars, space, repository, control
    <2>2. QED BY <2>1, QuietInPlace DEF StoredInv
  <1>9. ~Land /\ ~Lose
    BY DEF Land, Lose
  <1>10. QED
    BY <1>1, <1>2, <1>3, <1>4, <1>5, <1>6, <1>7, <1>8, <1>9 DEF Next, Serve, Environment

(* What a listing records.                                                   *)
LEMMA MembersRecorded ==
  ASSUME TypeInv, LookInv, pc \in Scanning, scan.done, NEW kind
  PROVE  /\ \A i \in Live \ touched :
              KindOf[object[i].name] = kind => object[i].name \in Members(kind)
         /\ touched = {} => Members(kind) \subseteq LiveNames(Live)
  <1>1. ASSUME NEW i \in Live \ touched, KindOf[object[i].name] = kind
        PROVE  object[i].name \in Members(kind)
    <2>1. PICK r \in scan.rows : r.name = object[i].name
      BY <1>1, Complete DEF LookInv, Excused
    <2>2. QED BY <1>1, <2>1 DEF Members
  <1>2. ASSUME touched = {}, NEW r \in scan.rows PROVE r.name \in LiveNames(Live)
    <2>1. r.id \in Live /\ RowOf(r.id) = r
      BY <1>2 DEF LookInv, ScanKnows, IsCurrent, TypeInv, SpaceOK, SpaceTypeOK
    <2>2. object[r.id].name = r.name
      BY <1>2 DEF TypeInv, ScanOK, NamesObject
    <2>3. QED BY <2>1, <2>2 DEF LiveNames
  <1>3. QED BY <1>1, <1>2 DEF Members

LEMMA QuietRecords ==
  ASSUME UNCHANGED <<object, archived, touched>>, NEW names, NEW kinds, Records(names, kinds)
  PROVE  Records(names, kinds)'
  BY Unmoved DEF Records, LiveNames

LEMMA OthersRecord ==
  ASSUME TypeInv, NEW i, OthersChange(i), NEW names, NEW kinds, Records(names, kinds)
  PROVE  Records(names, kinds)'
  <1>1. ObjectsTyped /\ touched' = touched \cup {i} /\ Live' \subseteq Objects
    BY DEF TypeInv, SpaceOK, SpaceTypeOK, ObjectsTyped, OthersChange, Live, Created
  <1>2. \A j \in Live' \ touched' : j \in Live \ touched /\ object'[j] = object[j]
    BY <1>1, OthersLive
  <1>3. QED BY <1>1, <1>2 DEF Records

LEMMA ListedStep ==
  ASSUME TypeInv, LookInv, StoredInv, ListedInv, late = NoCall, [Next]_vars
  PROVE  ListedInv'
  <1> USE DEF Move, Refuse, Reply, Answered
  <1>1. CASE ListContacts
    <2>1. /\ pc = "contacts" /\ pc' = "tasks" /\ scan.done /\ listed' = Members("contact")
          /\ UNCHANGED <<object, archived, touched>>
      BY <1>1 DEF ListContacts, Hydrated, Reading, space
    <2>2. PICK names : names = Members("contact")
      OBVIOUS
    <2>3. Records(names, {"contact"})
      BY <2>1, <2>2, MembersRecorded DEF Records, Scanning
    <2>4. Records(names, {"contact"})'
      BY <2>1, <2>3, QuietRecords
    <2>5. Records(listed, {"contact"})'
      BY <2>1, <2>2, <2>4 DEF Records
    <2>6. QED BY <2>1, <2>5 DEF ListedInv
  <1>2. CASE ListTasks
    <2>1. /\ pc = "tasks" /\ pc' = "commit" /\ scan.done
          /\ listed' = listed \cup Members("task")
          /\ UNCHANGED <<object, archived, touched>>
      BY <1>2 DEF ListTasks, Visible, Hydrated, Reading, space
    <2>2. PICK names : names = listed \cup Members("task")
      OBVIOUS
    <2>3. Records(names, {"contact", "task"})
      BY <2>1, <2>2, MembersRecorded DEF ListedInv, Records, Scanning
    <2>4. Records(names, {"contact", "task"})'
      BY <2>1, <2>3, QuietRecords
    <2>5. Records(listed, {"contact", "task"})'
      BY <2>1, <2>2, <2>4 DEF Records
    <2>6. QED BY <2>1, <2>5 DEF ListedInv
  <1>3. CASE CommitAttempt
    <2>1. /\ pc = "commit" /\ pc' = "publishing" /\ listed' = listed
          /\ UNCHANGED <<object, archived, touched>>
      BY <1>3 DEF CommitAttempt, space
    <2>2. PICK names : names = listed
      OBVIOUS
    <2>3. Records(names, {"contact", "task"})'
      BY <2>1, <2>2, QuietRecords DEF ListedInv, Records
    <2>4. Records(listed, {"contact", "task"})'
      BY <2>1, <2>2, <2>3 DEF Records
    <2>5. QED BY <2>1, <2>4 DEF ListedInv
  <1>4. CASE CommitSettles
    <2>1. /\ pc = "publishing" /\ pc' = "idle" /\ settled' = Candidate
          /\ UNCHANGED <<object, archived, touched>>
      BY <1>4 DEF CommitSettles, Checkpoint!Settle, space
    <2>2. view[Service] \in Checkpoint!SyncStates /\ listed \in SUBSET Names
      BY <2>1 DEF TypeInv, CheckpointOK, HandlerOK
    <2>3. settled'.observed = listed
      BY <2>1, <2>2, CandidateTyped DEF Candidate
    <2>4. PICK names : names = listed
      OBVIOUS
    <2>5. Records(names, {"contact", "task"})'
      BY <2>1, <2>4, QuietRecords DEF ListedInv, Records
    <2>6. Records(settled.observed, {"contact", "task"})'
      BY <2>3, <2>4, <2>5 DEF Records
    <2>7. QED BY <2>1, <2>6 DEF ListedInv
  <1>5. ASSUME pc' \notin {"tasks", "commit", "publishing"}, ~Answered("success")' PROVE ListedInv'
    BY <1>5 DEF ListedInv
  <1>6. ASSUME UNCHANGED <<object, archived, touched, listed, settled, pc, answer>> PROVE ListedInv'
    <2>1. PICK names, recorded : names = listed /\ recorded = settled.observed
      OBVIOUS
    <2>2. \A kinds : /\ Records(names, kinds) => Records(names, kinds)'
                     /\ Records(recorded, kinds) => Records(recorded, kinds)'
      BY <1>6, QuietRecords
    <2>3. \A kinds : /\ Records(listed, kinds) => Records(listed, kinds)'
                     /\ Records(settled.observed, kinds) => Records(settled.observed, kinds)'
      BY <1>6, <2>1, <2>2 DEF Records
    <2>4. QED BY <1>6, <2>3 DEF ListedInv
  <1>7. CASE ScanPage \/ UNCHANGED vars
    BY <1>6, <1>7 DEF ScanPage, vars, space, control, checkpoint
  <1>8. CASE ScanFails \/ ScanRefused \/ PutPanics \/ UpdateNothing \/ FetchFails
             \/ CheckpointBlocked \/ CommitFails
    BY <1>5, <1>8, Failed DEF ScanFails, ScanRefused, PutPanics, UpdateNothing, FetchFails,
         CheckpointBlocked, CommitFails, AfterWrite
  <1>9. CASE PutLookup \/ DeleteLookup \/ Condition \/ Refresh \/ Fetch \/ WriteSucceeds
             \/ WriteTimesOut \/ WriteFails
    BY <1>5, <1>9, Failed DEF PutLookup, DeleteLookup, Condition, Refresh, Fetch, LookupRefuses,
         LookupProceeds, RefreshRefuses, RefreshProceeds, WriteSucceeds, WriteTimesOut, WriteFails,
         AfterUpdate
  <1>10. CASE ReconcileWrite \/ ReconcileCreate
    BY <1>5, <1>10, Failed DEF ReconcileWrite, ReconcileCreate, Recognised, ReadAgain, GiveUp,
         control
  <1>11. CASE Crash \/ \E r \in ClientRequests : Receive(r)
    BY <1>5, <1>11 DEF Crash, Receive
  <1>12. CASE Start
    BY <1>12 DEF Start, StoredInv, ListedInv
  <1>13. CASE OtherClients /\ UNCHANGED <<repository, control, checkpoint>>
    <2>1. PICK i \in Objects : OthersChange(i)
      BY <1>13, OthersChangeOne DEF TypeInv, SpaceOK, SpaceTypeOK, ObjectsTyped
    <2>2. UNCHANGED <<listed, settled, pc, answer>>
      BY <1>13 DEF control, checkpoint
    <2>3. PICK names, recorded : names = listed /\ recorded = settled.observed
      OBVIOUS
    <2>4. \A kinds : /\ Records(names, kinds) => Records(names, kinds)'
                     /\ Records(recorded, kinds) => Records(recorded, kinds)'
      BY <2>1, OthersRecord
    <2>5. \A kinds : /\ Records(listed, kinds) => Records(listed, kinds)'
                     /\ Records(settled.observed, kinds) => Records(settled.observed, kinds)'
      BY <2>2, <2>3, <2>4 DEF Records
    <2>6. QED BY <2>2, <2>5 DEF ListedInv
  <1>14. ~Land /\ ~Lose
    BY DEF Land, Lose
  <1>15. QED
    BY <1>1, <1>2, <1>3, <1>4, <1>7, <1>8, <1>9, <1>10, <1>11, <1>12, <1>13, <1>14
       DEF Next, Serve, Environment

LEMMA WriteInvStep ==
  ASSUME "late" \notin Faults, WholeListings
  PROVE  TypeInv /\ WriteInv /\ [Next]_vars => WriteInv'
  BY LateStep, LookStep, TargetStep, StoredStep, ListedStep DEF WriteInv

LEMMA WriteInvInit == Init => WriteInv
  BY DEF Init, WriteInv, LookInv, TargetInv, StoredInv, ListedInv, Answered, Scanning,
         BeforeSending, Looking, AfterSending

(* "Success" is stored: after a successful PUT the Space holds the resource  *)
(* under the ETag in the answer, after a successful DELETE the object is     *)
(* archived, unless another client changed it since: whether the write was   *)
(* answered, or timed out and was recognised by reading the Space again.     *)
(* Left out: a call that takes effect after its timeout was resolved, and    *)
(* listings of several pages while others archive objects.                   *)
THEOREM SuccessMeansStored ==
  ASSUME "late" \notin Faults, WholeListings
  PROVE  Spec => []SuccessStored
  <1>1. Init => TypeInv /\ WriteInv
    BY TypeInit, WriteInvInit
  <1>2. TypeInv /\ WriteInv /\ [Next]_vars => (TypeInv /\ WriteInv)'
    BY TypeStep, WriteInvStep
  <1>3. TypeInv /\ WriteInv => SuccessStored
    <2> SUFFICES ASSUME TypeInv, WriteInv, Answered("success") PROVE
          IF req.method = "PUT"
            THEN \/ call.row.id \in touched
                 \/ call.row.id \in Live /\ RowOf(call.row.id) = answer.row
            ELSE call.id \in archived
      BY DEF SuccessStored
    <2>1. QED BY DEF WriteInv, StoredInv, InPlace
  <1>4. QED BY <1>1, <1>2, <1>3, PTL DEF Spec

(* "Success" is recorded: the checkpoint settled before the answer lists     *)
(* every live resource no other client has touched, and when none interfered *)
(* it lists no other: under the same assumptions.                            *)
THEOREM SuccessMeansRecorded ==
  ASSUME "late" \notin Faults, WholeListings
  PROVE  Spec => []SuccessRecorded
  <1>1. Init => TypeInv /\ WriteInv
    BY TypeInit, WriteInvInit
  <1>2. TypeInv /\ WriteInv /\ [Next]_vars => (TypeInv /\ WriteInv)'
    BY TypeStep, WriteInvStep
  <1>3. TypeInv /\ WriteInv => SuccessRecorded
    <2> SUFFICES ASSUME TypeInv, WriteInv, Answered("success")
                 PROVE  /\ LiveNames(Live \ touched) \subseteq settled.observed
                        /\ touched = {} => settled.observed \subseteq LiveNames(Live)
      BY DEF SuccessRecorded
    <2>1. Records(settled.observed, {"contact", "task"})
      BY DEF WriteInv, ListedInv
    <2>2. \A i \in Live : KindOf[object[i].name] \in {"contact", "task"}
      BY ServiceAssumption DEF TypeInv, SpaceOK, SpaceTypeOK, Live, Created, Contents
    <2>3. QED BY <2>1, <2>2 DEF Records, LiveNames
  <1>4. QED BY <1>1, <1>2, <1>3, PTL DEF Spec

-----------------------------------------------------------------------------
(* One object to a name.  Other clients may change and archive objects but   *)
(* add none: the service cannot know of one that is added after its lookup.  *)

Distinct ==
  \A i, j \in Live :
    object[i].name = object[j].name \/ object[i].uid = object[j].uid => i = j

(* No live object but the row's own has its name.                            *)
Sole(row) == \A i \in Live : object[i].name = row.name => i = row.id

(* What a request looked up under its name stays the only object of that     *)
(* name, so every later look can find no other.                              *)
SoleInv ==
  /\ Distinct
  /\ pc \in Looking => \A r \in scan.rows : Sole(r)
  /\ pc \in BeforeSending /\ call.kind = "update" => Sole(call.row)
  /\ pc = "refresh" /\ call.kind = "update" =>
       \A r \in scan.rows : r.name = call.row.name => r.id = call.row.id
  /\ pc \in {"fetch", "send"} /\ call.kind = "update" /\ req.cond \in Rows =>
       req.cond.id = call.row.id

LEMMA DistinctIsUnique == Distinct => UniqueIdentity
  <1> SUFFICES ASSUME Distinct, NEW i \in Live, NEW j \in Live,
                      RowOf(i).name = RowOf(j).name \/ RowOf(i).uid = RowOf(j).uid
               PROVE  RowOf(i) = RowOf(j)
    BY DEF UniqueIdentity, Coherent
  <1>1. object[i].name = object[j].name \/ object[i].uid = object[j].uid
    BY DEF RowOf
  <1>2. QED BY <1>1 DEF Distinct

LEMMA SoleInit == Init => SoleInv
  <1> SUFFICES ASSUME Init PROVE SoleInv
    OBVIOUS
  <1>1. pc = "down" /\ archived = {} /\ Coherent({RowOf(i) : i \in Created})
    BY DEF Init
  <1>2. ASSUME NEW i \in Live, NEW j \in Live,
               object[i].name = object[j].name \/ object[i].uid = object[j].uid
        PROVE  i = j
    <2>1. i \in Created /\ j \in Created
      BY DEF Live
    <2>2. RowOf(i).name = RowOf(j).name \/ RowOf(i).uid = RowOf(j).uid
      BY <1>2 DEF RowOf
    <2>3. RowOf(i) = RowOf(j)
      BY <1>1, <2>1, <2>2 DEF Coherent
    <2>4. QED BY <2>3 DEF RowOf
  <1>3. QED BY <1>1, <1>2 DEF SoleInv, Distinct, BeforeSending, Looking

(* The live objects are among those there were, under the same names.        *)
Shrinks ==
  \A i \in Live' : i \in Live /\ object'[i].name = object[i].name /\ object'[i].uid = object[i].uid

LEMMA ShrinkingKeeps ==
  ASSUME Shrinks
  PROVE  /\ Distinct => Distinct'
         /\ \A row : Sole(row) => Sole(row)'
  BY DEF Shrinks, Distinct, Sole

LEMMA QuietSole ==
  ASSUME SoleInv, Shrinks, UNCHANGED <<scan, call, req>>,
         pc' \in BeforeSending => pc' = pc
  PROVE  SoleInv'
  <1>1. Distinct' /\ \A row : Sole(row) => Sole(row)'
    BY ShrinkingKeeps DEF SoleInv
  <1>2. pc' \in BeforeSending /\ call'.kind = "update" => Sole(call.row)'
    <2>1. PICK row : row = call.row
      OBVIOUS
    <2>2. Sole(row) => Sole(row)'
      BY <1>1
    <2>3. QED BY <2>1, <2>2 DEF SoleInv, Sole
  <1>3. pc' \in Looking => \A r \in scan'.rows : Sole(r)'
    BY <1>1 DEF SoleInv, BeforeSending
  <1>4. QED BY <1>1, <1>2, <1>3 DEF SoleInv, BeforeSending, Looking

(* Once the write is sent, or refused, nothing more is claimed.              *)
LEMMA SentSole ==
  ASSUME Distinct', pc' \notin BeforeSending
  PROVE  SoleInv'
  BY DEF SoleInv, BeforeSending, Looking

LEMMA StillDistinct ==
  ASSUME SoleInv, UNCHANGED <<object, archived>>
  PROVE  Shrinks /\ Distinct'
  BY Unmoved DEF Shrinks, SoleInv, Distinct

LEMMA ScanPageSole ==
  ASSUME TypeInv, SoleInv, ScanPage
  PROVE  SoleInv'
  <1>1. /\ UNCHANGED <<object, archived, call, req, pc>> /\ ReadPage
    BY DEF ScanPage, space, control
  <1>2. Distinct' /\ \A row : Sole(row) => Sole(row)'
    BY <1>1, StillDistinct, ShrinkingKeeps DEF SoleInv
  <1>3. ASSUME NEW r \in scan'.rows, r \notin scan.rows
        PROVE  /\ Sole(r)
               /\ pc = "refresh" /\ call.kind = "update" /\ r.name = call.row.name =>
                    r.id = call.row.id
    <2>1. PICK i \in Live : r = RowOf(i)
      BY <1>1, <1>3, PageRows
    <2>2. r.id = i /\ r.name = object[i].name
      BY <2>1 DEF RowOf
    <2>3. QED BY <2>2 DEF SoleInv, Distinct, Sole, BeforeSending, Looking
  <1>4. pc' \in Looking => \A r \in scan'.rows : Sole(r)'
    BY <1>1, <1>2, <1>3 DEF SoleInv
  <1>5. pc' \in BeforeSending /\ call'.kind = "update" => Sole(call.row)'
    BY <1>1, Unmoved DEF SoleInv, Sole
  <1>6. QED BY <1>1, <1>2, <1>3, <1>4, <1>5 DEF SoleInv

(* A stage that looks again, for an update of a row that is alone.           *)
LEMMA LookAgainSole ==
  ASSUME SoleInv, UNCHANGED <<object, archived>>, scan' = NewScan, pc' \in Looking \cup {"send"},
         call'.kind = "update" => Sole(call'.row) /\ pc' # "send"
  PROVE  SoleInv'
  <1>1. Distinct'
    BY StillDistinct
  <1>2. call'.kind = "update" => Sole(call.row)'
    BY Unmoved DEF Sole
  <1>3. QED BY <1>1, <1>2 DEF SoleInv, NewScan, Looking

LEMMA LookupSole ==
  ASSUME TypeInv, SoleInv, PutLookup \/ DeleteLookup
  PROVE  SoleInv'
  <1>1. pc = "lookup"
    BY DEF PutLookup, DeleteLookup
  <1>2. ASSUME NEW status, LookupRefuses(status) PROVE SoleInv'
    BY <1>2, StillDistinct, SentSole DEF LookupRefuses, Refuse, Reply, Reading, space,
       BeforeSending, Looking
  <1>3. ASSUME NEW to \in {"condition", "refresh", "send"}, NEW condition, NEW write,
               LookupProceeds(to, condition, write),
               write.kind = "update" => Sole(write.row) /\ to # "send"
        PROVE  SoleInv'
    BY <1>3, LookAgainSole DEF LookupProceeds, Move, LookAgain, Looking
  <1>4. ASSUME NEW r \in Found PROVE Sole(PutWrite("update", r.id).row)
    BY <1>1, <1>4 DEF SoleInv, Sole, PutWrite, Found, Named, Looking
  <1>5. PutWrite("create", 1).kind = "create" /\ NoCall.kind = "none"
    BY DEF PutWrite, NoCall
  <1>6. CASE PutLookup
    BY <1>2, <1>3, <1>4, <1>5, <1>6 DEF PutLookup
  <1>7. CASE DeleteLookup
    BY <1>2, <1>3, <1>5, <1>7 DEF DeleteLookup
  <1>8. QED BY <1>6, <1>7

LEMMA ConditionSole ==
  ASSUME SoleInv, Condition
  PROVE  SoleInv'
  BY LookAgainSole DEF Condition, Move, LookAgain, SoleInv, BeforeSending, Looking

(* The version the condition names is of the object the update goes to.      *)
LEMMA RefreshSole ==
  ASSUME TypeInv, VersionInv, SoleInv, Refresh
  PROVE  SoleInv'
  <1>1. pc = "refresh" /\ UNCHANGED <<object, archived, scan, req>>
    BY DEF Refresh, RefreshRefuses, RefreshProceeds, Refuse, Reply, Move, Reading, space
  <1>2. Distinct'
    BY <1>1, StillDistinct
  <1>3. ASSUME NEW status, RefreshRefuses(status) PROVE SoleInv'
    BY <1>2, <1>3, SentSole DEF RefreshRefuses, Refuse, Reply, BeforeSending, Looking
  <1>4. ASSUME NEW r \in Found, Accepts(expected, r), RefreshProceeds("fetch", call)
        PROVE  SoleInv'
    <2>1. pc' = "fetch" /\ call' = call
      BY <1>4 DEF RefreshProceeds, Move
    <2>2. call.kind = "update" => Sole(call.row)'
      BY <1>1, <2>1, Unmoved DEF SoleInv, Sole, BeforeSending, Looking
    <2>3. ASSUME call.kind = "update", req.cond \in Rows PROVE req.cond.id = call.row.id
      <3>1. r \in scan.rows /\ r \in Rows /\ r.name = req.name
        BY FoundTyped DEF Found, Named
      <3>2. r = req.cond
        BY <1>1, <1>4, <2>3, <3>1, Sentinels DEF VersionInv, CondInv, Accepts
      <3>3. call.row.name = req.name
        BY <1>1, <2>3 DEF TypeInv, CallOK, AtWork, Scanning
      <3>4. QED BY <1>1, <2>3, <3>1, <3>2, <3>3 DEF SoleInv
    <2>4. QED BY <1>1, <1>2, <2>1, <2>2, <2>3 DEF SoleInv, BeforeSending, Looking
  <1>5. ASSUME NEW id, RefreshProceeds("send", [kind |-> "archive", id |-> id]) PROVE SoleInv'
    BY <1>2, <1>5 DEF RefreshProceeds, Move, SoleInv, Looking
  <1>6. QED BY <1>3, <1>4, <1>5 DEF Refresh

LEMMA FetchSole ==
  ASSUME TypeInv, SoleInv, Fetch
  PROVE  SoleInv'
  <1>1. /\ pc = "fetch" /\ pc' = "send" /\ UNCHANGED <<object, archived, req>>
    BY DEF Fetch, Move, Reading, space
  <1>2. call \in Writes
    BY <1>1 DEF Fetch, TypeInv, CallOK, Mutations, Writes, NoCall
  <1>3. call'.row = call.row /\ call'.kind = call.kind
    BY <1>2 DEF Fetch, Writes
  <1>4. call.kind = "update" => Sole(call.row)'
    BY <1>1, <1>3, Unmoved DEF SoleInv, Sole, BeforeSending
  <1>5. QED BY <1>1, <1>3, <1>4, StillDistinct DEF SoleInv, Looking

(* The write goes to an object under the names it has, or makes one under    *)
(* names no live object has.                                                 *)
LEMMA SendingSole ==
  ASSUME TypeInv, WriteInv, SoleInv, "create" \notin ForeignOps,
         WriteSucceeds \/ WriteTimesOut \/ WriteFails
  PROVE  SoleInv'
  <1>1. pc = "send" /\ pc' \notin BeforeSending
    BY DEF WriteSucceeds, WriteTimesOut, WriteFails, Move, AfterUpdate, BeforeSending, Looking
  <1>2. PICK write, to : write = call /\ to = Settled(write)
    OBVIOUS
  <1>3. write \in Mutations /\ Knows(write) /\ (write.kind = "create" => NotTaken(write.row))
    BY <1>1, <1>2 DEF TypeInv, CallOK, WriteInv, TargetInv, NoCall, Mutations
  <1>4. Apply(to) \/ UNCHANGED <<object, archived>>
    BY <1>2 DEF WriteSucceeds, WriteTimesOut, WriteFails, Send, TimeOut
  <1>5. CASE UNCHANGED <<object, archived>>
    BY <1>1, <1>5, StillDistinct, SentSole
  <1>6. CASE Apply(to) /\ write.kind = "archive"
    <2>1. Shrinks
      BY <1>2, <1>6, ArchiveEffect DEF Shrinks, Live, Created
    <2>2. QED BY <1>1, <2>1, ShrinkingKeeps, SentSole DEF SoleInv
  <1>7. CASE Apply(to) /\ write.kind \in {"create", "update"}
    <2>1. Stored(write, to)
      BY <1>1, <1>2, <1>3, <1>7, CallApplied DEF BeforeSending
    <2>2. /\ archived' = archived /\ Created' = Created \cup {to.row.id}
          /\ object'[to.row.id].name = write.row.name /\ object'[to.row.id].uid = write.row.uid
          /\ \A j \in Objects \ {to.row.id} : object'[j] = object[j]
          /\ IF write.kind = "create" THEN Fresh(to.row.id) ELSE to = write
      BY <2>1 DEF Stored
    <2>3. CASE write.kind = "update"
      <3>1. /\ to.row.id \in Created /\ object[to.row.id].name = write.row.name
            /\ object[to.row.id].uid = write.row.uid
        BY <1>3, <2>2, <2>3 DEF Knows, NamesObject
      <3>2. Shrinks
        BY <2>2, <3>1 DEF Shrinks, Live, Created
      <3>3. QED BY <1>1, <3>2, ShrinkingKeeps, SentSole DEF SoleInv
    <2>4. CASE write.kind = "create"
      <3>1. \A i \in Live : object[i].name # write.row.name /\ object[i].uid # write.row.uid
        BY <1>3, <2>4 DEF NotTaken, Excused
      <3>2. \A i \in Live' : i = to.row.id \/ (i \in Live /\ object'[i] = object[i])
        BY <2>2 DEF Live, Created
      <3>3. Distinct'
        BY <2>2, <3>1, <3>2 DEF SoleInv, Distinct
      <3>4. QED BY <1>1, <3>3, SentSole
    <2>5. QED BY <1>7, <2>3, <2>4
  <1>8. QED BY <1>3, <1>4, <1>5, <1>6, <1>7 DEF Mutations

(* Another client's change takes no name and gives none away.                *)
LEMMA OthersShrink ==
  ASSUME TypeInv, "create" \notin ForeignOps, OtherClients
  PROVE  Shrinks
  <1>1. PICK i \in Objects : OthersChange(i)
    BY OthersChangeOne DEF TypeInv, SpaceOK, SpaceTypeOK, ObjectsTyped
  <1>2. QED BY <1>1, OthersLive DEF Shrinks, TypeInv, SpaceOK, SpaceTypeOK, ObjectsTyped

LEMMA SoleStep ==
  ASSUME TypeInv, WriteInv, VersionInv, SoleInv, "create" \notin ForeignOps, [Next]_vars
  PROVE  SoleInv'
  <1> USE DEF Move, Refuse, Reply
  <1>1. CASE ScanPage
    BY <1>1, ScanPageSole
  <1>2. CASE PutLookup \/ DeleteLookup
    BY <1>2, LookupSole
  <1>3. CASE Condition
    BY <1>3, ConditionSole
  <1>4. CASE Refresh
    BY <1>4, RefreshSole
  <1>5. CASE Fetch
    BY <1>5, FetchSole
  <1>6. CASE WriteSucceeds \/ WriteTimesOut \/ WriteFails
    BY <1>6, SendingSole
  <1>7. CASE ScanFails \/ ScanRefused \/ PutPanics \/ UpdateNothing \/ FetchFails
             \/ ListContacts \/ ListTasks \/ CheckpointBlocked \/ CommitAttempt
             \/ CommitFails \/ CommitSettles
    <2>1. UNCHANGED <<object, archived>> /\ pc' \notin BeforeSending
      BY <1>7 DEF ScanFails, ScanRefused, PutPanics, UpdateNothing, FetchFails, ListContacts,
           ListTasks, CheckpointBlocked, CommitAttempt, CommitFails, CommitSettles, Reading,
           space, BeforeSending, Looking
    <2>2. QED BY <2>1, StillDistinct, SentSole
  <1>8. CASE ReconcileWrite \/ ReconcileCreate
    <2>1. UNCHANGED <<object, archived>> /\ pc' \notin BeforeSending
      BY <1>8 DEF ReconcileWrite, ReconcileCreate, Recognised, ReadAgain, GiveUp, Reading,
           space, control, BeforeSending, Looking
    <2>2. QED BY <2>1, StillDistinct, SentSole
  <1>9. CASE Start \/ Crash
    <2>1. UNCHANGED <<object, archived>> /\ pc' \notin BeforeSending
      BY <1>9 DEF Start, Crash, space, BeforeSending, Looking
    <2>2. QED BY <2>1, StillDistinct, SentSole
  <1>10. ASSUME NEW r \in ClientRequests, Receive(r) PROVE SoleInv'
    <2>1. NoCall.kind = "none"
      BY DEF NoCall
    <2>2. QED BY <1>10, <2>1, LookAgainSole DEF Receive, Looking
  <1>11. CASE OtherClients /\ UNCHANGED <<repository, control, checkpoint>>
    BY <1>11, OthersShrink, QuietSole DEF repository, control
  <1>12. CASE UNCHANGED vars
    <2>1. UNCHANGED <<object, archived, scan, call, req, pc>>
      BY <1>12 DEF vars, space, repository, control
    <2>2. QED BY <2>1, StillDistinct, QuietSole
  <1>13. ~Land /\ ~Lose
    BY DEF Land, Lose, WriteInv
  <1>14. QED
    BY <1>1, <1>2, <1>3, <1>4, <1>5, <1>6, <1>7, <1>8, <1>9, <1>10, <1>11, <1>12, <1>13
       DEF Next, Serve, Environment

(* The invariant of requests under one name each.                            *)
SafeInv == TypeInv /\ WriteInv /\ VersionInv /\ SoleInv

LEMMA SafeInit == Init => SafeInv
  <1>1. Init => VersionInv
    BY DEF Init, VersionInv, SpaceInv, ScanInv, CallInv, ReqInv, CondInv, BeforeSending, Looking
  <1>2. QED BY <1>1, TypeInit, WriteInvInit, SoleInit DEF SafeInv

LEMMA SafeStep ==
  ASSUME "late" \notin Faults, WholeListings, "create" \notin ForeignOps
  PROVE  SafeInv /\ [Next]_vars => SafeInv'
  BY TypeStep, WriteInvStep, VersionStep, SoleStep DEF SafeInv

(* The service never makes two live resources with one name or one UID,      *)
(* whatever is refused or times out and whatever the clients send again.     *)
(* Left out, as they do make two: a create that lands after its timeout was  *)
(* answered, another client that creates the same name, and listings of      *)
(* several pages while others archive objects.                               *)
THEOREM OneResourcePerIdentity ==
  ASSUME "late" \notin Faults, WholeListings, "create" \notin ForeignOps
  PROVE  Spec => []UniqueIdentity
  <1>1. SafeInv => UniqueIdentity
    BY DistinctIsUnique DEF SafeInv, SoleInv
  <1>2. QED BY <1>1, SafeInit, SafeStep, PTL DEF Spec

(* The write of a request with If-Match goes to the object whose version the *)
(* condition names, as long as no other client changed that object.          *)
LEMMA SentChanges ==
  ASSUME SafeInv, WriteSucceeds \/ WriteTimesOut \/ WriteFails, req.cond \in Rows,
         NEW i \in Created \ recent, object'[i] # object[i] \/ i \in archived' \ archived
  PROVE  RowOf(i) = req.cond
  <1>1. pc = "send"
    BY DEF WriteSucceeds, WriteTimesOut, WriteFails, Move
  <1>2. PICK write, to : write = call /\ to = Settled(write)
    OBVIOUS
  <1>3. write \in Mutations /\ Knows(write) /\ TypeInv
    BY <1>1, <1>2 DEF SafeInv, TypeInv, CallOK, NoCall, Mutations
  <1>4. Apply(to)
    BY <1>2 DEF WriteSucceeds, WriteTimesOut, WriteFails, Send, TimeOut
  <1>5. IsCurrent(req.cond)
    BY <1>1 DEF SafeInv, VersionInv, CondInv
  <1>6. i = req.cond.id
    <2>1. CASE write.kind = "archive"
      <3>1. i = write.id
        BY <1>2, <1>4, <2>1, ArchiveEffect
      <3>2. req.method = "DELETE"
        BY <1>1, <1>2, <2>1 DEF SafeInv, TypeInv, CallOK, HandlerOK, AtWork, Requests
      <3>3. QED BY <1>1, <1>2, <3>1, <3>2 DEF SafeInv, VersionInv, CondInv
    <2>2. CASE write.kind \in {"create", "update"}
      <3>1. Stored(write, to)
        BY <1>1, <1>2, <1>3, <1>4, <2>2, CallApplied DEF BeforeSending
      <3>2. i = to.row.id
        BY <3>1 DEF Stored, Created
      <3>3. write.kind # "create"
        BY <3>1, <3>2 DEF Stored, Fresh
      <3>4. QED BY <1>1, <1>2, <2>2, <3>1, <3>2, <3>3 DEF Stored, SafeInv, SoleInv
    <2>3. QED BY <1>3, <2>1, <2>2 DEF Mutations
  <1>7. QED BY <1>5, <1>6 DEF IsCurrent

(* A PUT or DELETE with If-Match changes exactly the version it names, unless *)
(* another client changed that object after the service began its last look.  *)
THEOREM LostUpdatesRuledOut ==
  ASSUME "late" \notin Faults, WholeListings, "create" \notin ForeignOps
  PROVE  Spec => NoLostUpdate
  <1> DEFINE Changed(i) == object'[i] # object[i] \/ i \in archived' \ archived
             NamesIt == \A i \in Created \ recent :
                          /\ req.method # "none" /\ req.cond \in Rows
                          /\ foreign' = foreign
                          /\ Changed(i)
                          => RowOf(i) = req.cond
  <1>1. SafeInv /\ [Next]_vars => [NamesIt]_space
    <2> SUFFICES ASSUME SafeInv, [Next]_vars,
                        NEW i \in Created \ recent,
                        req.cond \in Rows, foreign' = foreign, Changed(i)
                 PROVE  RowOf(i) = req.cond
      OBVIOUS
    <2>1. CASE WriteSucceeds \/ WriteTimesOut \/ WriteFails
      BY <2>1, SentChanges
    <2>2. CASE OtherClients
      <3>1. PICK j \in Objects : OthersChange(j)
        BY <2>2, OthersChangeOne DEF SafeInv, TypeInv, SpaceOK, SpaceTypeOK, ObjectsTyped
      <3>2. foreign' = foreign + 1 /\ foreign \in Nat
        BY <3>1, Numbers DEF OthersChange, SafeInv
      <3>3. QED BY <3>2
    <2>3. CASE \/ Serve /\ ~WriteSucceeds /\ ~WriteTimesOut /\ ~WriteFails
               \/ Start \/ Crash \/ UNCHANGED vars
               \/ \E r \in ClientRequests : Receive(r)
      <3>1. UNCHANGED <<object, archived>>
        BY <2>3 DEF Serve, ScanPage, ScanFails, ScanRefused, PutLookup, PutPanics, DeleteLookup,
             Condition, Refresh, Fetch, UpdateNothing, FetchFails, ReconcileWrite,
             ReconcileCreate, ListContacts, ListTasks, CheckpointBlocked, CommitAttempt,
             CommitFails, CommitSettles, LookupRefuses, LookupProceeds, LookAgain,
             RefreshRefuses, RefreshProceeds, Recognised, ReadAgain, GiveUp, Reading, Start,
             Crash, Receive, space, vars
      <3>2. QED BY <3>1
    <2>4. ~Land /\ ~Lose
      BY DEF Land, Lose, SafeInv, WriteInv
    <2>5. QED BY <2>1, <2>2, <2>3, <2>4 DEF Next, Environment
  <1>2. QED BY <1>1, SafeInit, SafeStep, PTL DEF Spec, NoLostUpdate
===============================================================================
