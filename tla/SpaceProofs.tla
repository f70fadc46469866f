------------------------------ MODULE SpaceProofs ------------------------------
(***************************************************************************)
(* Lemmas about the Space and the repository adapter's calls to it, for the *)
(* proofs about the handlers that use the adapter: what one change of the   *)
(* Space does, and which objects a listing read page by page has covered.   *)
(***************************************************************************)
EXTENDS AnytypeRepository, FiniteSetTheorems, WellFoundedInduction, TLAPS

ObjectsTyped == object \in [Objects -> Contents \cup {Unused}]

(* The row describes an object of the Space, under its name and UID: an      *)
(* object keeps both, and its identifier, for good.                          *)
NamesObject(row) ==
  /\ row.id \in Created
  /\ object[row.id].name = row.name
  /\ object[row.id].uid = row.uid

(* Identifiers are handed out in order.                                      *)
InOrder == \A i \in Created : \A j \in 1..i : j \in Created

-----------------------------------------------------------------------------
(* Numbers.                                                                  *)

LEMMA Least ==
  ASSUME NEW T \in SUBSET Nat, T # {}
  PROVE  \E x \in T : \A y \in T : x <= y
  <1> DEFINE below == {p \in Nat \X Nat : p[1] < p[2]}
  <1>1. IsWellFoundedOn(below, Nat)
    <2>1. below = OpToRel(<, Nat)
      BY DEF OpToRel
    <2>2. QED BY <2>1, NatLessThanWellFounded
  <1>2. PICK x \in T : \A y \in T : <<y, x>> \notin below
    <2> HIDE DEF below
    <2>1. QED BY <1>1, WFMin
  <1>3. ASSUME NEW y \in T PROVE x <= y
    <2>1. <<y, x>> \in Nat \X Nat /\ ~(y < x)
      BY <1>2
    <2>2. QED BY <2>1
  <1>4. QED BY <1>3
-----------------------------------------------------------------------------
(* Identifiers.                                                              *)

LEMMA FiniteSpace ==
  /\ IsFiniteSet(Objects) /\ Cardinality(Objects) = MaxObjects
  /\ IsFiniteSet(Created) /\ Cardinality(Created) \in 0..MaxObjects
  /\ IsFiniteSet(Live) /\ Cardinality(Live) \in 0..MaxObjects
  <1>1. IsFiniteSet(Objects) /\ Cardinality(Objects) = MaxObjects
    BY SpaceAssumption, FS_Interval DEF Objects
  <1>2. ASSUME NEW S \in SUBSET Objects
        PROVE  IsFiniteSet(S) /\ Cardinality(S) \in 0..MaxObjects
    <2>1. IsFiniteSet(S) /\ Cardinality(S) <= MaxObjects
      BY <1>1, FS_Subset
    <2>2. Cardinality(S) \in Nat
      BY <2>1, FS_CardinalityType
    <2>3. QED BY <2>1, <2>2, SpaceAssumption
  <1>3. Created \in SUBSET Objects /\ Live \in SUBSET Objects
    BY DEF Created, Live
  <1>4. QED BY <1>1, <1>2, <1>3

(* While there is room the server has an identifier to hand out.             *)
LEMMA FreshExists ==
  ASSUME Cardinality(Created) < MaxObjects
  PROVE  LET i == CHOOSE j \in Objects : Fresh(j) IN i \in Objects /\ Fresh(i)
  <1>1. Objects \ Created # {}
    <2>1. Objects # Created
      BY FiniteSpace
    <2>2. QED BY <2>1 DEF Created
  <1>2. PICK i \in Objects \ Created : \A j \in Objects \ Created : i <= j
    <2>1. Objects \ Created \in SUBSET Nat
      BY DEF Objects
    <2>2. QED BY <1>1, <2>1, Least
  <1>3. ASSUME NEW j \in Objects, j < i PROVE j \in Created
    BY <1>2, <1>3 DEF Objects
  <1>4. i \in Objects /\ Fresh(i)
    BY <1>2, <1>3 DEF Fresh
  <1>5. QED BY <1>4

(* A new object is listed after all the others.                              *)
LEMMA FreshIsLast ==
  ASSUME InOrder, NEW i \in Objects, Fresh(i), NEW j \in Created
  PROVE  j < i
  <1>1. j \in Objects /\ i \in 1..j => i \in Created
    BY DEF InOrder, Created
  <1>2. i \in Nat /\ j \in Nat /\ i >= 1 /\ j \in Objects /\ i \notin Created
    BY SpaceAssumption DEF Fresh, Objects, Created
  <1>3. QED BY <1>1, <1>2

LEMMA CreatedInOrder ==
  ASSUME InOrder, NEW i \in Objects, Fresh(i), Created' = Created \cup {i}
  PROVE  InOrder'
  <1>1. ASSUME NEW j \in Created', NEW k \in 1..j PROVE k \in Created'
    <2>1. CASE j \in Created
      BY <2>1 DEF InOrder
    <2>2. CASE j = i
      <3>1. k \in Objects /\ (k = i \/ k < i)
        BY <2>2, SpaceAssumption DEF Objects
      <3>2. QED BY <3>1 DEF Fresh
    <2>3. QED BY <2>1, <2>2
  <1>2. QED BY <1>1 DEF InOrder

LEMMA CreatedGrows ==
  ASSUME NEW i, i \notin Created, Created' = Created \cup {i}
  PROVE  Cardinality(Created') = Cardinality(Created) + 1
  BY FiniteSpace, FS_AddElement

(* Objects stay, under the names and UIDs they have.                         *)
Persists ==
  /\ Created \subseteq Created'
  /\ \A i \in Created : object'[i].name = object[i].name /\ object'[i].uid = object[i].uid

LEMMA SameObjects ==
  ASSUME object' = object
  PROVE  Persists /\ Created' = Created
  BY DEF Persists, Created

LEMMA NamesKept ==
  ASSUME Persists
  PROVE  \A row : NamesObject(row) => NamesObject(row)'
  BY DEF Persists, NamesObject

-----------------------------------------------------------------------------
(* Listings.                                                                 *)

LEMMA PositionType ==
  ASSUME NEW i \in Live
  PROVE  Position(i) \in Nat /\ Position(i) < Cardinality(Live)
  <1> DEFINE before == {j \in Live : j < i}
  <1>1. before \in SUBSET (Live \ {i})
    BY DEF Live, Created, Objects
  <1>2. IsFiniteSet(Live \ {i}) /\ Cardinality(Live \ {i}) = Cardinality(Live) - 1
    BY FiniteSpace, FS_RemoveElement
  <1>3. IsFiniteSet(before) /\ Cardinality(before) <= Cardinality(Live) - 1
    <2> HIDE DEF before
    <2>1. QED BY <1>1, <1>2, FS_Subset
  <1>4. Cardinality(before) \in Nat
    <2> HIDE DEF before
    <2>1. QED BY <1>3, FS_CardinalityType
  <1>5. QED BY <1>3, <1>4, FiniteSpace DEF Position

(* What a scan has covered when it has come to an offset.                    *)
Covered(i) == scan.done \/ Position(i) < scan.offset

(* Reading the next page covers the objects on it, and no others.            *)
LEMMA PageCovers ==
  ASSUME scan \in Scans, ReadPage, NEW i \in Live,
         UNCHANGED <<object, archived>>, Covered(i)'
  PROVE  Covered(i) \/ RowOf(i) \in scan'.rows
  <1>1. ~scan.done /\ scan.offset \in Nat /\ PageSize \in Nat
    BY SpaceAssumption DEF ReadPage, Scans
  <1>2. scan'.offset = scan.offset + PageSize /\ scan'.done = LastPage(scan.offset)
    BY DEF ReadPage
  <1>3. Position(i)' = Position(i)
    BY DEF Position, Live, Created
  <1>4. Position(i) \in Nat /\ Position(i) < Cardinality(Live) /\ Cardinality(Live) \in Nat
    BY PositionType, FiniteSpace
  <1>5. Position(i) < scan.offset + PageSize
    <2>1. CASE scan'.done
      <3>1. LastPage(scan.offset)
        BY <1>2, <2>1, Zenon
      <3>2. QED BY <1>1, <1>4, <3>1 DEF LastPage
    <2>2. CASE Position(i)' < scan'.offset
      BY <1>2, <1>3, <2>2
    <2>3. QED BY <2>1, <2>2 DEF Covered
  <1>6. CASE Position(i) < scan.offset
    BY <1>6 DEF Covered
  <1>7. CASE ~(Position(i) < scan.offset)
    <2>1. Position(i) \in scan.offset..(scan.offset + PageSize - 1)
      BY <1>1, <1>4, <1>5, <1>7
    <2>2. QED BY <2>1 DEF Page, ReadPage
  <1>8. QED BY <1>6, <1>7

(* The rows of a page are rows of live objects.                              *)
LEMMA PageRows ==
  ASSUME ReadPage, NEW r \in scan'.rows, r \notin scan.rows
  PROVE  \E i \in Live : r = RowOf(i)
  BY DEF ReadPage, Page

(* A Space that fits on a page is listed in one.                             *)
LEMMA OnePage ==
  ASSUME MaxObjects <= PageSize, NEW offset \in Nat
  PROVE  LastPage(offset)
  <1>1. Cardinality(Live) \in 0..MaxObjects
    BY FiniteSpace
  <1>2. QED BY <1>1, SpaceAssumption DEF LastPage

(* A new object moves no other one to another page.                          *)
LEMMA PositionsKept ==
  ASSUME InOrder, NEW n \in Objects, Fresh(n), archived' = archived,
         Created' = Created \cup {n}, NEW i \in Live
  PROVE  Position(i)' = Position(i)
  <1>1. i \in Created /\ i < n /\ i \in Nat /\ n \in Nat
    BY FreshIsLast DEF Live, Created, Objects
  <1>2. {j \in Live' : j < i} = {j \in Live : j < i}
    BY <1>1 DEF Live
  <1>3. QED BY <1>2 DEF Position
-----------------------------------------------------------------------------
(* Changes by other clients: one object of the Space, which keeps its name   *)
(* and UID, or a new one.                                                    *)

Edited(i) ==
  /\ i \in Live /\ Created' = Created
  /\ object'[i].name = object[i].name /\ object'[i].uid = object[i].uid
  /\ archived' # archived => "archive" \in ForeignOps /\ archived' = archived \cup {i}

Added(i) ==
  /\ "create" \in ForeignOps
  /\ Fresh(i) /\ Created' = Created \cup {i}
  /\ archived' = archived
  /\ \A j \in Live : object[j].name # object'[i].name /\ object[j].uid # object'[i].uid

OthersChange(i) ==
  /\ foreign < MaxForeign /\ foreign' = foreign + 1
  /\ touched' = touched \cup {i} /\ recent' = recent \cup {i} /\ late' = late
  /\ ObjectsTyped'
  /\ \A j \in Objects \ {i} : object'[j] = object[j]
  /\ Edited(i) \/ Added(i)

LEMMA OthersChangeOne ==
  ASSUME ObjectsTyped, OtherClients
  PROVE  \E i \in Objects : OthersChange(i)
  <1>1. PICK i \in Objects :
          \/ \E name \in Names, uid \in Uids, body \in Bodies, extra \in Extras :
               ForeignCreate(i, name, uid, body, extra)
          \/ \E body \in Bodies : ForeignEdit(i, body)
          \/ \E extra \in Extras : ForeignProperty(i, extra)
          \/ ForeignArchive(i)
    BY DEF OtherClients
  <1>2. CASE \E name \in Names, uid \in Uids, body \in Bodies, extra \in Extras :
               ForeignCreate(i, name, uid, body, extra)
    <2>1. PICK name \in Names, uid \in Uids, body \in Bodies, extra \in Extras :
            ForeignCreate(i, name, uid, body, extra)
      BY <1>2
    <2> DEFINE new == [name |-> name, uid |-> uid, body |-> body, extra |-> extra]
    <2>2. new \in Contents /\ new.name = name /\ new.uid = uid
      BY DEF Contents
    <2>3. object' = [object EXCEPT ![i] = new]
      BY <2>1 DEF ForeignCreate
    <2> HIDE DEF new
    <2>4. object'[i] = new /\ ObjectsTyped' /\ \A j \in Objects \ {i} : object'[j] = object[j]
      BY <2>2, <2>3 DEF ObjectsTyped
    <2>5. Created' = Created \cup {i}
      BY <2>2, <2>4, UnusedAssumption DEF Created
    <2>6. Added(i)
      BY <2>1, <2>2, <2>4, <2>5 DEF ForeignCreate, Foreign, Added
    <2>7. QED BY <2>1, <2>4, <2>6 DEF ForeignCreate, Foreign, OthersChange
  <1>3. ASSUME NEW new \in Contents, i \in Live, object' = [object EXCEPT ![i] = new],
               new.name = object[i].name, new.uid = object[i].uid, archived' = archived,
               NEW op, Foreign(op, i)
        PROVE  OthersChange(i)
    <2>1. object'[i] = new /\ ObjectsTyped' /\ \A j \in Objects \ {i} : object'[j] = object[j]
      BY <1>3 DEF ObjectsTyped
    <2>2. Created' = Created
      BY <1>3, <2>1, UnusedAssumption DEF Created, Live
    <2>3. Edited(i)
      BY <1>3, <2>1, <2>2 DEF Edited
    <2>4. QED BY <1>3, <2>1, <2>3 DEF Foreign, OthersChange
  <1>4. i \in Live => object[i] \in Contents
    BY DEF Live, Created, ObjectsTyped
  <1>5. ASSUME NEW body \in Bodies, ForeignEdit(i, body) PROVE OthersChange(i)
    <2>1. [object[i] EXCEPT !.body = body] \in Contents
      BY <1>4, <1>5 DEF ForeignEdit, Contents
    <2>2. /\ object' = [object EXCEPT ![i] = [object[i] EXCEPT !.body = body]]
          /\ i \in Live /\ archived' = archived /\ Foreign("edit", i)
      BY <1>5 DEF ForeignEdit
    <2>3. /\ [object[i] EXCEPT !.body = body].name = object[i].name
          /\ [object[i] EXCEPT !.body = body].uid = object[i].uid
      BY <1>4, <2>2 DEF Contents
    <2>4. QED BY <1>3, <2>1, <2>2, <2>3
  <1>6. ASSUME NEW extra \in Extras, ForeignProperty(i, extra) PROVE OthersChange(i)
    <2>1. [object[i] EXCEPT !.extra = extra] \in Contents
      BY <1>4, <1>6 DEF ForeignProperty, Contents
    <2>2. /\ object' = [object EXCEPT ![i] = [object[i] EXCEPT !.extra = extra]]
          /\ i \in Live /\ archived' = archived /\ Foreign("property", i)
      BY <1>6 DEF ForeignProperty
    <2>3. /\ [object[i] EXCEPT !.extra = extra].name = object[i].name
          /\ [object[i] EXCEPT !.extra = extra].uid = object[i].uid
      BY <1>4, <2>2 DEF Contents
    <2>4. QED BY <1>3, <2>1, <2>2, <2>3
  <1>7. CASE ForeignArchive(i)
    BY <1>7 DEF ForeignArchive, Foreign, OthersChange, Edited, ObjectsTyped, Created
  <1>8. QED BY <1>1, <1>2, <1>5, <1>6, <1>7

-----------------------------------------------------------------------------
(* Changes by the adapter's own calls.                                       *)

Writes == [kind : {"create", "update"}, row : Rows, extra : Extras]

LEMMA StoreEffect ==
  ASSUME ObjectsTyped, NEW i \in Objects, NEW row \in Rows, NEW extra \in Extras,
         Store(i, row, extra)
  PROVE  /\ ObjectsTyped'
         /\ object'[i] = [name |-> row.name, uid |-> row.uid, body |-> row.body, extra |-> extra]
         /\ \A j \in Objects \ {i} : object'[j] = object[j]
         /\ Created' = Created \cup {i}
  <1> DEFINE new == [name |-> row.name, uid |-> row.uid, body |-> row.body, extra |-> extra]
  <1>1. new \in Contents
    BY DEF Contents, Rows
  <1>2. object' = [object EXCEPT ![i] = new]
    BY DEF Store
  <1> HIDE DEF new
  <1>3. object'[i] = new /\ ObjectsTyped' /\ \A j \in Objects \ {i} : object'[j] = object[j]
    BY <1>1, <1>2 DEF ObjectsTyped
  <1>4. Created' = Created \cup {i}
    BY <1>1, <1>3, UnusedAssumption DEF Created
  <1>5. QED BY <1>3, <1>4 DEF new

LEMMA RenumberedRow ==
  ASSUME NEW row \in Rows, NEW i \in Objects
  PROVE  LET named == [row EXCEPT !.id = i]
         IN  /\ named \in Rows /\ named.id = i
             /\ named.name = row.name /\ named.uid = row.uid /\ named.body = row.body
  BY DEF Rows

LEMMA Renumbered ==
  ASSUME NEW write \in Writes, NEW i \in Objects
  PROVE  LET named == [write EXCEPT !.row.id = i]
         IN  /\ named \in Writes
             /\ named.kind = write.kind /\ named.extra = write.extra
             /\ named.row = [write.row EXCEPT !.id = i]
  <1>1. write.row \in Rows
    BY DEF Writes
  <1>2. [write.row EXCEPT !.id = i] \in Rows
    BY <1>1, RenumberedRow
  <1>3. [write EXCEPT !.row.id = i] = [write EXCEPT !.row = [write.row EXCEPT !.id = i]]
    BY DEF Writes
  <1>4. QED BY <1>2, <1>3 DEF Writes

(* A call that stores a resource: an update of the object it names, or of a  *)
(* new object under an identifier not used before.                           *)
Stored(write, to) ==
  /\ ObjectsTyped' /\ archived' = archived
  /\ to \in Writes /\ to.kind = write.kind /\ to.extra = write.extra
  /\ to.row.name = write.row.name /\ to.row.uid = write.row.uid
  /\ to.row.body = write.row.body
  /\ object'[to.row.id] = [name |-> write.row.name, uid |-> write.row.uid,
                           body |-> write.row.body, extra |-> write.extra]
  /\ \A j \in Objects \ {to.row.id} : object'[j] = object[j]
  /\ Created' = Created \cup {to.row.id}
  /\ IF write.kind = "create" THEN Fresh(to.row.id) ELSE to = write

LEMMA WriteEffect ==
  ASSUME ObjectsTyped, NEW write \in Writes, Apply(Settled(write)),
         write.kind = "create" => Cardinality(Created) < MaxObjects
  PROVE  Stored(write, Settled(write))
  <1> DEFINE to == Settled(write)
  <1>1. /\ to \in Writes /\ to.kind = write.kind /\ to.extra = write.extra
        /\ to.row.name = write.row.name /\ to.row.uid = write.row.uid
        /\ to.row.body = write.row.body
        /\ IF write.kind = "create" THEN Fresh(to.row.id) ELSE to = write
    <2>1. CASE write.kind = "create"
      <3> DEFINE fresh == CHOOSE i \in Objects : Fresh(i)
      <3>1. fresh \in Objects /\ Fresh(fresh)
        BY <2>1, FreshExists
      <3>2. to = [write EXCEPT !.row.id = fresh]
        BY <2>1 DEF Settled
      <3> HIDE DEF fresh, to
      <3>3. /\ to \in Writes /\ to.kind = write.kind /\ to.extra = write.extra
            /\ to.row = [write.row EXCEPT !.id = fresh]
        BY <3>1, <3>2, Renumbered
      <3>4. write.row \in Rows
        BY DEF Writes
      <3>5. QED BY <2>1, <3>1, <3>3, <3>4, RenumberedRow
    <2>2. CASE write.kind = "update"
      BY <2>2 DEF Settled
    <2>3. QED BY <2>1, <2>2 DEF Writes
  <1> HIDE DEF to
  <1>2. to.kind # "archive" /\ Apply(to)
    BY <1>1 DEF Writes, to
  <1>3. Store(to.row.id, to.row, to.extra) /\ archived' = archived
    BY <1>2 DEF Apply
  <1>4. to.row \in Rows /\ to.row.id \in Objects /\ to.extra \in Extras
    BY <1>1 DEF Writes, Rows
  <1>5. QED BY <1>1, <1>3, <1>4, StoreEffect DEF Stored, to

LEMMA ArchiveEffect ==
  ASSUME NEW write, write.kind = "archive", Apply(Settled(write))
  PROVE  Settled(write) = write /\ archived' = archived \cup {write.id} /\ object' = object
  BY DEF Settled, Apply

-----------------------------------------------------------------------------
(* A scan while the Space changes.  It can miss an object another client     *)
(* adds behind it.  It misses no other as long as no live object moves to an *)
(* earlier page: other clients archive none, or all fit on one page.         *)

WholeListings == "archive" \in ForeignOps => MaxObjects <= PageSize

Newcomer(i) == "create" \in ForeignOps /\ i \in recent

(* The Space holds the row now, or another client changed it since the       *)
(* service began to look.                                                    *)
IsCurrent(row) == row.id \in recent \/ (row.id \in Live /\ RowOf(row.id) = row)

InOnePiece == MaxObjects <= PageSize => scan.offset = 0 \/ scan.done

ScanCovers ==
  \A i \in Live : Covered(i) => Newcomer(i) \/ \E r \in scan.rows : r.id = i

ScanKnows == (\A r \in scan.rows : IsCurrent(r)) /\ InOnePiece /\ ScanCovers

LEMMA Unmoved ==
  ASSUME UNCHANGED <<object, archived>>
  PROVE  /\ Created' = Created /\ Live' = Live
         /\ \A i : RowOf(i)' = RowOf(i) /\ Position(i)' = Position(i)
  BY DEF Created, Live, RowOf, Position

LEMMA PositionNext ==
  ASSUME NEW i \in Live'
  PROVE  Position(i)' \in Nat
  <1> DEFINE before == {j \in Live' : j < i}
  <1>1. before \in SUBSET Objects
    BY DEF Live, Created
  <1>2. IsFiniteSet(before)
    <2> HIDE DEF before
    <2>1. QED BY <1>1, FiniteSpace, FS_Subset
  <1>3. Cardinality(before) \in Nat
    <2> HIDE DEF before
    <2>1. QED BY <1>2, FS_CardinalityType
  <1>4. QED BY <1>3 DEF Position

LEMMA NewScanKnows ==
  ASSUME scan' = NewScan
  PROVE  ScanKnows'
  <1>1. ScanCovers'
    BY PositionNext DEF ScanCovers, Covered, NewScan
  <1>2. QED BY <1>1 DEF ScanKnows, InOnePiece, NewScan

LEMMA ReadPageKnows ==
  ASSUME ScanKnows, scan \in Scans, ReadPage, UNCHANGED <<object, archived, recent>>
  PROVE  ScanKnows'
  <1>1. \A row : IsCurrent(row) => IsCurrent(row)'
    BY Unmoved DEF IsCurrent
  <1>2. ASSUME NEW r \in scan'.rows PROVE IsCurrent(r)
    <2>1. CASE r \in scan.rows
      BY <2>1 DEF ScanKnows
    <2>2. CASE r \notin scan.rows
      <3>1. PICK i \in Live : r = RowOf(i)
        BY <2>2, PageRows
      <3>2. RowOf(i).id = i
        BY DEF RowOf
      <3>3. QED BY <3>1, <3>2 DEF IsCurrent
    <2>3. QED BY <2>1, <2>2
  <1>3. InOnePiece'
    <2>1. MaxObjects <= PageSize => LastPage(scan.offset)
      BY OnePage DEF Scans
    <2>2. QED BY <2>1 DEF InOnePiece, ReadPage
  <1>4. ASSUME NEW i \in Live', Covered(i)'
        PROVE  Newcomer(i)' \/ \E r \in scan'.rows : r.id = i
    <2>1. i \in Live
      BY <1>4, Unmoved
    <2>2. Covered(i) \/ RowOf(i) \in scan'.rows
      BY <1>4, <2>1, PageCovers
    <2>3. RowOf(i).id = i
      BY DEF RowOf
    <2>4. scan.rows \subseteq scan'.rows
      BY DEF ReadPage
    <2>5. QED BY <2>1, <2>2, <2>3, <2>4 DEF ScanKnows, ScanCovers, Newcomer
  <1>5. QED BY <1>1, <1>2, <1>3, <1>4 DEF ScanKnows, ScanCovers

(* Objects no client has touched stay as they are.                           *)
LEMMA UntouchedKept ==
  ASSUME NEW i, OthersChange(i)
  PROVE  /\ \A j \in Objects : j # i => object'[j] = object[j] /\ (j \in Live' <=> j \in Live)
         /\ \A row : IsCurrent(row) => IsCurrent(row)'
         /\ \A j \in Live' : j \in Live \/ (j = i /\ "create" \in ForeignOps)
  <1>1. ASSUME NEW j \in Objects, j # i
        PROVE  object'[j] = object[j] /\ (j \in Live' <=> j \in Live)
    BY <1>1 DEF OthersChange, Edited, Added, Live, Created
  <1>2. ASSUME NEW j \in Live' PROVE j \in Live \/ (j = i /\ "create" \in ForeignOps)
    BY <1>2 DEF OthersChange, Edited, Added, Live, Created
  <1>3. ASSUME NEW row, IsCurrent(row) PROVE IsCurrent(row)'
    <2>1. CASE row.id \in recent \/ row.id = i
      BY <2>1 DEF OthersChange, IsCurrent
    <2>2. CASE row.id \notin recent /\ row.id # i
      <3>1. row.id \in Live /\ RowOf(row.id) = row /\ row.id \in Objects
        BY <1>3, <2>2 DEF IsCurrent, Live, Created
      <3>2. row.id \in Live' /\ RowOf(row.id)' = row
        BY <1>1, <2>2, <3>1 DEF RowOf
      <3>3. QED BY <3>2 DEF IsCurrent
    <2>3. QED BY <2>1, <2>2
  <1>4. QED BY <1>1, <1>2, <1>3

LEMMA ScanKnowsOthers ==
  ASSUME ScanKnows, InOrder, WholeListings, NEW i \in Objects, OthersChange(i), scan' = scan
  PROVE  ScanKnows'
  <1>1. \A r \in scan'.rows : IsCurrent(r)'
    BY UntouchedKept DEF ScanKnows
  <1>2. InOnePiece'
    BY DEF ScanKnows, InOnePiece
  <1>3. ASSUME NEW j \in Live', Covered(j)', ~Newcomer(j)' PROVE \E r \in scan'.rows : r.id = j
    <2>1. ~Newcomer(j) /\ j \in Live
      BY <1>3, UntouchedKept DEF Newcomer, OthersChange
    <2>2. Covered(j)
      <3>1. CASE Added(i)
        <4>1. Position(j)' = Position(j)
          BY <2>1, <3>1, PositionsKept DEF Added
        <4>2. QED BY <1>3, <4>1 DEF Covered
      <3>2. CASE Edited(i) /\ archived' = archived
        <4>1. Position(j)' = Position(j)
          BY <3>2 DEF Edited, Position, Live
        <4>2. QED BY <1>3, <4>1 DEF Covered
      <3>3. CASE Edited(i) /\ archived' # archived
        <4>1. scan.offset = 0 \/ scan.done
          BY <3>3 DEF Edited, WholeListings, ScanKnows, InOnePiece
        <4>2. Position(j)' \in Nat
          BY <1>3, PositionNext
        <4>3. QED BY <1>3, <4>1, <4>2 DEF Covered
      <3>4. QED BY <3>1, <3>2, <3>3 DEF OthersChange
    <2>3. QED BY <2>1, <2>2 DEF ScanKnows, ScanCovers
  <1>4. QED BY <1>1, <1>2, <1>3 DEF ScanKnows, ScanCovers

-----------------------------------------------------------------------------
(* What changes keep of the Space.                                           *)

LEMMA OthersPersist ==
  ASSUME InOrder, archived \subseteq Created, NEW i \in Objects, OthersChange(i)
  PROVE  Persists /\ InOrder' /\ archived' \subseteq Created'
  <1>1. CASE Edited(i)
    <2>1. /\ Created' = Created /\ i \in Created /\ archived' \subseteq archived \cup {i}
          /\ object'[i].name = object[i].name /\ object'[i].uid = object[i].uid
          /\ \A j \in Objects \ {i} : object'[j] = object[j]
      BY <1>1 DEF Edited, OthersChange, Live
    <2>2. Persists
      BY <2>1 DEF Persists, Created
    <2>3. QED BY <2>1, <2>2 DEF InOrder
  <1>2. CASE Added(i)
    <2>1. /\ Created' = Created \cup {i} /\ Fresh(i) /\ i \notin Created /\ archived' = archived
          /\ \A j \in Objects \ {i} : object'[j] = object[j]
      BY <1>2 DEF Added, OthersChange, Fresh
    <2>2. Persists
      BY <2>1 DEF Persists, Created
    <2>3. QED BY <2>1, <2>2, CreatedInOrder
  <1>3. QED BY <1>1, <1>2 DEF OthersChange

LEMMA StoredPersists ==
  ASSUME InOrder, NEW write \in Writes, NEW to, Stored(write, to),
         write.kind = "update" => NamesObject(write.row)
  PROVE  Persists /\ InOrder' /\ to.row.id \in Objects /\ NamesObject(to.row)'
  <1> DEFINE i == to.row.id
  <1>1. /\ to \in Writes /\ to.row.name = write.row.name /\ to.row.uid = write.row.uid
        /\ object'[i].name = write.row.name /\ object'[i].uid = write.row.uid
        /\ \A j \in Objects \ {i} : object'[j] = object[j]
        /\ Created' = Created \cup {i}
        /\ IF write.kind = "create" THEN Fresh(i) ELSE to = write
    BY DEF Stored
  <1>2. i \in Objects
    BY <1>1 DEF Writes, Rows
  <1>3. NamesObject(to.row)'
    BY <1>1 DEF NamesObject
  <1> HIDE DEF i
  <1>4. CASE write.kind = "create"
    <2>1. Fresh(i) /\ i \notin Created
      BY <1>1, <1>4 DEF Fresh
    <2>2. Persists
      BY <1>1, <2>1 DEF Persists, Created
    <2>3. QED BY <1>1, <1>2, <1>3, <2>1, <2>2, CreatedInOrder DEF i
  <1>5. CASE write.kind = "update"
    <2>1. i \in Created /\ object[i].name = write.row.name /\ object[i].uid = write.row.uid
      BY <1>1, <1>5 DEF NamesObject, i
    <2>2. Created' = Created
      BY <1>1, <2>1
    <2>3. Persists
      BY <1>1, <2>1, <2>2 DEF Persists, Created
    <2>4. QED BY <1>2, <1>3, <2>2, <2>3 DEF InOrder, i
  <1>6. QED BY <1>4, <1>5 DEF Writes

LEMMA ScanKnowsQuiet ==
  ASSUME ScanKnows, UNCHANGED <<object, archived, recent, scan>>
  PROVE  ScanKnows'
  <1>1. /\ \A row : IsCurrent(row) => IsCurrent(row)'
        /\ \A i \in Live' : i \in Live /\ (Covered(i)' => Covered(i))
    BY Unmoved DEF IsCurrent, Covered
  <1>2. QED BY <1>1 DEF ScanKnows, InOnePiece, ScanCovers, Newcomer
===============================================================================
