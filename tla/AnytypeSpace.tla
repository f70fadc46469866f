----------------------------- MODULE AnytypeSpace -----------------------------
(***************************************************************************)
(* The remote Anytype Space as crates/anytype-adapter uses it: objects in   *)
(* creation order, listed page by page without the archived ones, read by   *)
(* identifier, and changed by create, update and archive calls that may     *)
(* time out with an unknown outcome.  Other Anytype clients change the same *)
(* objects at any time.  The Space has no revisions and no conditional      *)
(* writes.  An update replaces what it sends: the later write wins.         *)
(***************************************************************************)
EXTENDS Naturals, FiniteSets

CONSTANTS
  Names,        \* DAV resource identities
  Uids,         \* DAV UIDs
  Bodies,       \* contents of a DAV resource
  Extras,       \* values of a property DAV knows nothing about
  NoExtra,      \* ... and its value in a new object
  MaxObjects,   \* bound: objects ever created in the Space
  PageSize,     \* objects per list page
  ForeignOps,   \* what other clients of the Space do
  MaxForeign,   \* bound: changes made by other clients
  Unused        \* an object not created yet

ASSUME SpaceAssumption ==
  /\ MaxObjects \in Nat /\ MaxForeign \in Nat
  /\ NoExtra \in Extras
  /\ PageSize \in Nat \ {0}
  /\ ForeignOps \subseteq {"create", "edit", "property", "archive"}

VARIABLES
  object,     \* the stored objects
  archived,   \* objects moved to the archive
  late,       \* a timed-out call whose outcome is still open
  foreign,    \* changes made by other clients so far
  touched,    \* history: objects they changed since the request arrived
  recent      \* history: ... since the service began to look at the Space

others == <<foreign, touched, recent>>
space  == <<object, archived, late, foreign, touched, recent>>

Objects == 1..MaxObjects

Contents == [name : Names, uid : Uids, body : Bodies, extra : Extras]

ASSUME UnusedAssumption == Unused \notin Contents

(* What a full read of object i yields to the adapter, without the property *)
(* it does not project.  It is also the ETag: a digest of this envelope.    *)
Rows == [name : Names, uid : Uids, body : Bodies, id : Objects]

RowOf(i) == [name |-> object[i].name, uid |-> object[i].uid,
             body |-> object[i].body, id |-> i]

Mutations ==
  [kind : {"create", "update"}, row : Rows, extra : Extras]
    \cup [kind : {"archive"}, id : Objects]

NoCall == [kind |-> "none"]

SpaceTypeOK ==
  /\ object \in [Objects -> Contents \cup {Unused}]
  /\ archived \subseteq Objects
  /\ late \in Mutations \cup {NoCall}
  /\ foreign \in 0..MaxForeign
  /\ touched \subseteq Objects
  /\ recent \subseteq touched

Created == {i \in Objects : object[i] # Unused}
Live    == Created \ archived

(* The next identifier the server hands out. *)
Fresh(i) == i \notin Created /\ \A j \in Objects : j < i => j \in Created

-----------------------------------------------------------------------------
(* Listing: an offset counts the live objects, in creation order.           *)

Position(i) == Cardinality({j \in Live : j < i})

Page(offset) == {i \in Live : Position(i) \in offset..(offset + PageSize - 1)}

LastPage(offset) == Cardinality(Live) <= offset + PageSize

-----------------------------------------------------------------------------
(* Calls that change the Space.                                             *)

Store(i, row, extra) ==
  object' = [object EXCEPT ![i] =
               [name |-> row.name, uid |-> row.uid, body |-> row.body, extra |-> extra]]

Apply(call) ==
  CASE call.kind = "archive" -> /\ archived' = archived \cup {call.id}
                                /\ UNCHANGED object
    [] OTHER                 -> /\ Store(call.row.id, call.row, call.extra)
                                /\ UNCHANGED archived

(* The call as it takes effect: a created object gets a fresh identifier.   *)
Settled(call) ==
  IF call.kind = "create"
    THEN [call EXCEPT !.row.id = CHOOSE i \in Objects : Fresh(i)]
    ELSE call

(* A call that timed out reaches the Space after all, or never. *)
Land ==
  /\ late # NoCall
  /\ Apply(Settled(late))
  /\ late' = NoCall
  /\ UNCHANGED others

Lose ==
  /\ late # NoCall
  /\ late' = NoCall
  /\ UNCHANGED <<object, archived, others>>

-----------------------------------------------------------------------------
(* Other clients.                                                           *)

Foreign(op, i) ==
  /\ op \in ForeignOps
  /\ foreign < MaxForeign
  /\ foreign' = foreign + 1
  /\ touched' = touched \cup {i}
  /\ recent' = recent \cup {i}
  /\ UNCHANGED late

(* Another client of the DAV profile adds a resource. *)
ForeignCreate(i, name, uid, body, extra) ==
  /\ Fresh(i)
  /\ \A j \in Live : object[j].name # name /\ object[j].uid # uid
  /\ Foreign("create", i)
  /\ object' = [object EXCEPT ![i] =
                  [name |-> name, uid |-> uid, body |-> body, extra |-> extra]]
  /\ UNCHANGED archived

ForeignEdit(i, body) ==
  /\ i \in Live
  /\ object[i].body # body
  /\ Foreign("edit", i)
  /\ object' = [object EXCEPT ![i].body = body]
  /\ UNCHANGED archived

ForeignProperty(i, extra) ==
  /\ i \in Live
  /\ object[i].extra # extra
  /\ Foreign("property", i)
  /\ object' = [object EXCEPT ![i].extra = extra]
  /\ UNCHANGED archived

ForeignArchive(i) ==
  /\ i \in Live
  /\ Foreign("archive", i)
  /\ archived' = archived \cup {i}
  /\ UNCHANGED object

OtherClients ==
  \E i \in Objects :
    \/ \E name \in Names, uid \in Uids, body \in Bodies, extra \in Extras :
         ForeignCreate(i, name, uid, body, extra)
    \/ \E body \in Bodies : ForeignEdit(i, body)
    \/ \E extra \in Extras : ForeignProperty(i, extra)
    \/ ForeignArchive(i)
=============================================================================
