---------------------------- MODULE DavReadsProofs ----------------------------
(***************************************************************************)
(* Theorems about the readers, for any names, bodies, documents, page sizes *)
(* and bounds, and for any changes by other clients between two pages.      *)
(***************************************************************************)
EXTENDS DavReads, SpaceProofs

-----------------------------------------------------------------------------
(* Positions number the live objects in creation order.                      *)

LEMMA Disjoint ==
  ASSUME NEW S, IsFiniteSet(S), NEW T, IsFiniteSet(T), S \cap T = {}
  PROVE  /\ IsFiniteSet(S \cup T)
         /\ Cardinality(S \cup T) = Cardinality(S) + Cardinality(T)
  <1>1. Cardinality({}) = 0 /\ Cardinality(S) \in Nat /\ Cardinality(T) \in Nat
    BY FS_EmptySet, FS_CardinalityType
  <1>2. /\ IsFiniteSet(S \cup T)
        /\ Cardinality(S \cup T) = Cardinality(S) + Cardinality(T) - Cardinality(S \cap T)
    BY FS_Union
  <1>3. Cardinality(S \cap T) = 0
    BY <1>1
  <1>4. QED BY <1>1, <1>2, <1>3

LEMMA ObjectNumbers == \A i \in Live : i \in Objects /\ i \in Nat
  BY DEF Live, Created, Objects

LEMMA PositionsGrow ==
  ASSUME NEW i \in Live, NEW j \in Live, i < j
  PROVE  Position(i) < Position(j)
  <1> DEFINE before(k) == {l \in Live : l < k}
  <1>1. i \in Nat /\ j \in Nat /\ \A k \in Live : k \in Nat
    BY ObjectNumbers
  <1>2. before(i) \cup {i} \subseteq before(j) /\ i \notin before(i)
    <2>1. ASSUME NEW l \in Live, l < i PROVE l < j
      BY <1>1, <2>1
    <2>2. ~(i < i)
      BY <1>1
    <2>3. QED BY <2>1, <2>2
  <1>3. IsFiniteSet(before(i)) /\ IsFiniteSet(before(j))
    <2>1. before(i) \in SUBSET Live /\ before(j) \in SUBSET Live
      OBVIOUS
    <2> HIDE DEF before
    <2>2. QED BY <2>1, FiniteSpace, FS_Subset
  <1> HIDE DEF before
  <1>4. IsFiniteSet(before(i) \cup {i}) /\ Cardinality(before(i) \cup {i}) = Cardinality(before(i)) + 1
    BY <1>2, <1>3, FS_AddElement
  <1>5. Cardinality(before(i) \cup {i}) <= Cardinality(before(j))
    BY <1>2, <1>3, FS_Subset
  <1>6. Cardinality(before(i)) \in Nat /\ Cardinality(before(j)) \in Nat
    BY <1>3, FS_CardinalityType
  <1>7. QED BY <1>4, <1>5, <1>6 DEF Position, before

LEMMA PositionsOrder ==
  ASSUME NEW i \in Live, NEW j \in Live, Position(i) < Position(j)
  PROVE  i < j
  <1>1. i \in Nat /\ j \in Nat /\ Position(i) \in Nat /\ Position(j) \in Nat
    BY PositionType, ObjectNumbers
  <1>2. CASE j < i
    BY <1>1, <1>2, PositionsGrow
  <1>3. CASE i = j
    BY <1>1, <1>3
  <1>4. QED BY <1>1, <1>2, <1>3

(* The first k places hold k objects, if there are so many.                  *)
Leading(k) == {j \in Live : Position(j) < k}

LEMMA LeadingCount ==
  ASSUME NEW k \in Nat
  PROVE  /\ IsFiniteSet(Leading(k)) /\ Cardinality(Leading(k)) \in 0..k
         /\ k <= Cardinality(Live) => Cardinality(Leading(k)) = k
  <1>1. IsFiniteSet(Leading(k)) /\ Cardinality(Leading(k)) \in Nat
    <2>1. Leading(k) \in SUBSET Live
      BY DEF Leading
    <2>2. QED BY <2>1, FiniteSpace, FS_Subset, FS_CardinalityType
  <1>2. Cardinality(Leading(k)) <= k
    <2> DEFINE places == [j \in Leading(k) |-> Position(j)]
    <2>1. places \in Injection(Leading(k), 0..(k - 1))
      <3>1. places \in [Leading(k) -> 0..(k - 1)]
        BY PositionType DEF Leading
      <3>2. ASSUME NEW i \in Leading(k), NEW j \in Leading(k), Position(i) = Position(j)
            PROVE  i = j
        <4>1. i \in Live /\ j \in Live /\ i \in Nat /\ j \in Nat /\ Position(i) \in Nat
          BY PositionType, ObjectNumbers DEF Leading
        <4>2. ~(i < j) /\ ~(j < i)
          BY <3>2, <4>1, PositionsGrow
        <4>3. QED BY <4>1, <4>2
      <3>3. QED BY <3>1, <3>2 DEF Injection, IsInjective
    <2>2. IsFiniteSet(0..(k - 1)) /\ Cardinality(0..(k - 1)) = k
      BY FS_Interval
    <2>3. Injection(Leading(k), 0..(k - 1)) # {}
      BY <2>1
    <2> HIDE DEF places
    <2>4. QED BY <2>2, <2>3, FS_Injection
  <1>3. ASSUME k <= Cardinality(Live) PROVE Cardinality(Leading(k)) >= k
    <2>1. CASE Leading(k) = Live
      BY <1>3, <2>1
    <2>2. CASE Leading(k) # Live
      <3> DEFINE rest == Live \ Leading(k)
      <3>1. rest \in SUBSET Nat /\ rest # {}
        BY <2>2 DEF Leading, Live, Created, Objects
      <3>2. PICK i \in rest : \A j \in rest : i <= j
        <4> HIDE DEF rest
        <4>1. QED BY <3>1, Least
      <3>3. i \in Live /\ Position(i) \in Nat /\ Position(i) >= k
        BY PositionType DEF Leading
      <3>4. {j \in Live : j < i} \subseteq Leading(k)
        BY <3>1, <3>2
      <3>5. Position(i) <= Cardinality(Leading(k))
        BY <1>1, <3>4, FS_Subset DEF Position
      <3>6. QED BY <1>1, <3>3, <3>5
    <2>3. QED BY <2>1, <2>2
  <1>4. QED BY <1>1, <1>2, <1>3

-----------------------------------------------------------------------------
(* What a scan has read, and in what order.                                  *)

Ids == {r.id : r \in scan.rows}

Below(i) == {k \in Ids : k < i}

(* An object that was read comes after at least as many that were read as    *)
(* live ones come before it: Last-Modified counts the former.  The pages     *)
(* before the last are full, and what is not read yet is newer.              *)
RankInv ==
  /\ IsFiniteSet(scan.rows)
  /\ ~scan.done =>
       /\ Cardinality(Ids) >= scan.offset
       /\ \A i \in Live : Position(i) >= scan.offset => \A k \in Ids : k < i
  /\ \A i \in Ids \cap Live : Cardinality(Below(i)) >= Position(i)

LEMMA FiniteIds ==
  ASSUME IsFiniteSet(scan.rows)
  PROVE  /\ IsFiniteSet(Ids) /\ Cardinality(Ids) \in Nat
         /\ \A S \in SUBSET Ids : IsFiniteSet(S) /\ Cardinality(S) \in Nat
  <1>1. IsFiniteSet(Ids)
    <2> DEFINE f == [r \in scan.rows |-> r.id]
    <2>1. f \in Surjection(scan.rows, Ids)
      BY DEF Surjection, Ids
    <2> HIDE DEF f
    <2>2. QED BY <2>1, FS_Surjection
  <1>2. QED BY <1>1, FS_Subset, FS_CardinalityType

LEMMA PageIds ==
  ASSUME ReadPage
  PROVE  Ids' = Ids \cup Page(scan.offset)
  <1>1. \A i : RowOf(i).id = i
    BY DEF RowOf
  <1>2. scan'.rows = scan.rows \cup {RowOf(i) : i \in Page(scan.offset)}
    BY DEF ReadPage
  <1>3. QED BY <1>1, <1>2 DEF Ids

LEMMA FinitePage ==
  ASSUME NEW offset \in Nat
  PROVE  /\ IsFiniteSet(Page(offset)) /\ Cardinality(Page(offset)) \in Nat
         /\ Leading(offset + PageSize) = Leading(offset) \cup Page(offset)
         /\ Leading(offset) \cap Page(offset) = {}
  <1>1. Page(offset) \in SUBSET Live
    BY DEF Page
  <1>2. \A i \in Live : Position(i) \in Nat
    BY PositionType
  <1>3. PageSize \in Nat
    BY SpaceAssumption
  <1>4. \A i \in Live : i \in Page(offset) <=> ~(Position(i) < offset) /\ Position(i) < offset + PageSize
    BY <1>2, <1>3 DEF Page
  <1>5. \A i \in Live : Position(i) < offset => Position(i) < offset + PageSize
    BY <1>2, <1>3
  <1>6. QED BY <1>1, <1>4, <1>5, FiniteSpace, FS_Subset, FS_CardinalityType DEF Leading

LEMMA NewRanks ==
  ASSUME scan \in Scans, Ids \subseteq Objects, RankInv, ReadPage,
         NEW i \in Page(scan.offset)
  PROVE  Cardinality({k \in Ids \cup Page(scan.offset) : k < i}) >= Position(i)
  <1> DEFINE offset == scan.offset
             page == Page(offset)
             before == {j \in Live : j < i}
             unread == before \ Leading(offset)
             read == before \cap Leading(offset)
             below == {k \in Ids \cup page : k < i}
  <1>1. offset \in Nat /\ ~scan.done /\ PageSize \in Nat \ {0}
    BY SpaceAssumption DEF ReadPage, Scans
  <1>2. i \in Live /\ Position(i) \in Nat /\ Position(i) >= offset
        /\ Position(i) < offset + PageSize
    <2>1. i \in Live /\ Position(i) \in offset..(offset + PageSize - 1)
      BY DEF Page
    <2>2. QED BY <1>1, <2>1
  <1>3. /\ IsFiniteSet(Ids) /\ Cardinality(Ids) \in Nat /\ Cardinality(Ids) >= offset
        /\ \A j \in Live : Position(j) >= offset => \A k \in Ids : k < j
    BY <1>1, FiniteIds DEF RankInv
  <1>4. before \in SUBSET Live
    OBVIOUS
  <1>5. unread \subseteq page
    <2>1. ASSUME NEW j \in unread PROVE j \in page
      <3>1. j \in Live /\ Position(j) \in Nat /\ ~(Position(j) < offset) /\ Position(j) < Position(i)
        BY <1>2, PositionType, PositionsGrow DEF Leading
      <3>2. Position(j) \in offset..(offset + PageSize - 1)
        BY <1>1, <1>2, <3>1
      <3>3. QED BY <3>1, <3>2 DEF Page
    <2>2. QED BY <2>1
  <1>6. Ids \cup unread \subseteq below /\ Ids \cap unread = {}
    <2>1. \A k \in Ids : k < i
      BY <1>2, <1>3
    <2>2. ASSUME NEW k \in Ids, k \in unread PROVE FALSE
      <3>1. k \in Live /\ Position(k) \in Nat /\ ~(Position(k) < offset) /\ k \in Nat
        BY <2>2, PositionType, ObjectNumbers DEF Leading
      <3>2. k < k
        BY <1>1, <1>3, <3>1
      <3>3. QED BY <3>1, <3>2
    <2>3. QED BY <1>5, <2>1, <2>2
  <1>7. /\ IsFiniteSet(unread) /\ Cardinality(unread) \in Nat
        /\ IsFiniteSet(read) /\ Cardinality(read) \in Nat /\ Cardinality(read) <= offset
        /\ IsFiniteSet(below) /\ Cardinality(below) \in Nat
    <2>1. unread \in SUBSET Live /\ read \in SUBSET Leading(offset) /\ below \in SUBSET Objects
      BY ObjectNumbers DEF Page
    <2>2. IsFiniteSet(Leading(offset)) /\ Cardinality(Leading(offset)) \in 0..offset
      BY <1>1, LeadingCount
    <2> HIDE DEF unread, read, below
    <2>3. IsFiniteSet(unread) /\ IsFiniteSet(read) /\ IsFiniteSet(below)
          /\ Cardinality(read) <= Cardinality(Leading(offset))
      BY <2>1, <2>2, FiniteSpace, FS_Subset
    <2>4. Cardinality(unread) \in Nat /\ Cardinality(read) \in Nat /\ Cardinality(below) \in Nat
      BY <2>3, FS_CardinalityType
    <2>5. QED BY <1>1, <2>2, <2>3, <2>4
  <1>8. Position(i) = Cardinality(unread) + Cardinality(read)
    <2>1. before = unread \cup read /\ unread \cap read = {}
      OBVIOUS
    <2> HIDE DEF unread, read, before
    <2>2. Cardinality(unread \cup read) = Cardinality(unread) + Cardinality(read)
      BY <1>7, <2>1, Disjoint
    <2>3. Position(i) = Cardinality(before)
      BY DEF Position, before
    <2>4. QED BY <2>1, <2>2, <2>3
  <1>9. Cardinality(Ids \cup unread) = Cardinality(Ids) + Cardinality(unread)
        /\ IsFiniteSet(Ids \cup unread)
    <2> HIDE DEF unread
    <2>1. QED BY <1>3, <1>6, <1>7, Disjoint
  <1>10. Cardinality(Ids \cup unread) <= Cardinality(below)
    <2> HIDE DEF unread, below
    <2>1. QED BY <1>6, <1>7, FS_Subset
  <1> HIDE DEF unread, read, below, before, page, offset
  <1>11. Cardinality(below) >= Position(i)
    BY <1>1, <1>2, <1>3, <1>7, <1>8, <1>9, <1>10
  <1>12. QED BY <1>11 DEF below, page, offset

LEMMA ReadPageRanks ==
  ASSUME scan \in Scans, Ids \subseteq Objects, RankInv, ReadPage, UNCHANGED <<object, archived>>
  PROVE  RankInv'
  <1> DEFINE offset == scan.offset
             page == Page(offset)
  <1>1. offset \in Nat /\ ~scan.done /\ PageSize \in Nat \ {0}
    BY SpaceAssumption DEF ReadPage, Scans
  <1>2. /\ scan'.offset = offset + PageSize /\ scan'.done = LastPage(offset)
        /\ Ids' = Ids \cup page
    BY PageIds DEF ReadPage
  <1>3. Live' = Live /\ \A i : Position(i)' = Position(i)
    BY Unmoved
  <1>4. /\ IsFiniteSet(Ids) /\ Cardinality(Ids) \in Nat /\ Cardinality(Ids) >= offset
        /\ \A j \in Live : Position(j) >= offset => \A k \in Ids : k < j
    BY <1>1, FiniteIds DEF RankInv
  <1>5. /\ IsFiniteSet(page) /\ Cardinality(page) \in Nat
        /\ Leading(offset + PageSize) = Leading(offset) \cup page
        /\ Leading(offset) \cap page = {}
    BY <1>1, FinitePage
  <1>6. IsFiniteSet(scan'.rows)
    <2> DEFINE rows == {RowOf(i) : i \in page}
               f == [i \in page |-> RowOf(i)]
    <2>1. f \in Surjection(page, rows)
      BY DEF Surjection
    <2>2. IsFiniteSet(rows)
      <3> HIDE DEF f, rows, page
      <3>1. QED BY <1>5, <2>1, FS_Surjection
    <2>3. scan'.rows = scan.rows \cup rows
      BY DEF ReadPage
    <2> HIDE DEF rows
    <2>4. QED BY <2>2, <2>3, FS_Union DEF RankInv
  <1>7. ASSUME ~scan'.done
        PROVE  Cardinality(Ids') >= scan'.offset
    <2>1. offset + PageSize \in Nat /\ offset + PageSize <= Cardinality(Live)
      <3>1. ~(Cardinality(Live) <= offset + PageSize)
        BY <1>2, <1>7 DEF LastPage
      <3>2. QED BY <1>1, <3>1, FiniteSpace
    <2>2. Cardinality(Leading(offset + PageSize)) = offset + PageSize
      BY <2>1, LeadingCount
    <2>3. IsFiniteSet(Leading(offset)) /\ Cardinality(Leading(offset)) \in 0..offset
      BY <1>1, LeadingCount
    <2> HIDE DEF page
    <2>4. Cardinality(Leading(offset) \cup page) = Cardinality(Leading(offset)) + Cardinality(page)
      BY <1>5, <2>3, Disjoint
    <2>5. Cardinality(Ids \cup page) = Cardinality(Ids) + Cardinality(page)
      <3>1. ASSUME NEW k \in Ids, k \in page PROVE FALSE
        <4>1. k \in Live /\ Position(k) \in offset..(offset + PageSize - 1)
          BY <3>1 DEF page, Page
        <4>2. k < k /\ k \in Nat
          BY <1>1, <1>4, <4>1, ObjectNumbers
        <4>3. QED BY <4>2
      <3>2. Ids \cap page = {}
        BY <3>1
      <3>3. QED BY <1>4, <1>5, <3>2, Disjoint
    <2> HIDE DEF offset
    <2>6. Cardinality(page) >= PageSize
      BY <1>1, <1>5, <2>2, <2>3, <2>4
    <2>7. QED BY <1>1, <1>2, <1>4, <1>5, <2>5, <2>6
  <1>8. ASSUME NEW i \in Live, Position(i) >= offset + PageSize, NEW k \in Ids \cup page
        PROVE  k < i
    <2>1. Position(i) \in Nat
      BY PositionType
    <2>2. CASE k \in Ids
      BY <1>1, <1>4, <1>8, <2>1, <2>2
    <2>3. CASE k \in page
      <3>1. k \in Live /\ Position(k) \in offset..(offset + PageSize - 1)
        BY <2>3 DEF Page
      <3>2. Position(k) < Position(i)
        BY <1>1, <1>8, <2>1, <3>1
      <3>3. QED BY <3>1, <3>2, PositionsOrder
    <2>4. QED BY <2>2, <2>3
  <1>9. ASSUME NEW i \in (Ids \cup page) \cap Live
        PROVE  Cardinality({k \in Ids \cup page : k < i}) >= Position(i)
    <2>1. CASE i \in page
      BY <2>1, NewRanks
    <2>2. CASE i \in Ids
      <3> DEFINE below == {k \in Ids \cup page : k < i}
      <3>1. below \in SUBSET Objects /\ Below(i) \in SUBSET below
        BY ObjectNumbers DEF Page, Below
      <3> HIDE DEF below
      <3>2. IsFiniteSet(below) /\ IsFiniteSet(Below(i)) /\ Cardinality(Below(i)) <= Cardinality(below)
        BY <3>1, FiniteSpace, FS_Subset
      <3>3. Cardinality(below) \in Nat /\ Cardinality(Below(i)) \in Nat
        BY <3>2, FS_CardinalityType
      <3>4. Cardinality(Below(i)) >= Position(i) /\ Position(i) \in Nat
        BY <1>9, <2>2, PositionType DEF RankInv
      <3>5. Cardinality(below) >= Position(i)
        BY <3>2, <3>3, <3>4
      <3>6. QED BY <3>5 DEF below
    <2>3. QED BY <1>9, <2>1, <2>2
  <1> HIDE DEF page, offset
  <1>10. QED BY <1>2, <1>3, <1>6, <1>7, <1>8, <1>9 DEF RankInv, Below

(* Other clients move live objects to earlier places only, and put what they *)
(* add after all that was read.                                              *)
LEMMA PositionsShrink ==
  ASSUME InOrder, NEW i \in Objects, OthersChange(i), NEW j \in Live, j \in Live'
  PROVE  Position(j)' \in Nat /\ Position(j)' <= Position(j)
  <1>1. Position(j)' \in Nat /\ Position(j) \in Nat
    BY PositionNext, PositionType
  <1>2. CASE Added(i)
    <2>1. Position(j)' = Position(j)
      BY <1>2, PositionsKept DEF Added
    <2>2. QED BY <1>1, <2>1
  <1>3. CASE Edited(i)
    <2> DEFINE before == {k \in Live : k < j}
               left == {k \in Live' : k < j}
    <2>1. Live' \subseteq Live
      BY <1>3 DEF Edited, Live
    <2>2. before \in SUBSET Live /\ left \in SUBSET before
      BY <2>1
    <2>3. Position(j) = Cardinality(before) /\ Position(j)' = Cardinality(left)
      BY DEF Position
    <2> HIDE DEF before, left
    <2>4. Cardinality(left) <= Cardinality(before)
      BY <2>2, FiniteSpace, FS_Subset
    <2>5. QED BY <1>1, <2>3, <2>4
  <1>4. QED BY <1>2, <1>3 DEF OthersChange

LEMMA OthersRanks ==
  ASSUME RankInv, scan \in Scans, InOrder, Ids \subseteq Created,
         NEW i \in Objects, OthersChange(i), scan' = scan
  PROVE  RankInv'
  <1>1. Ids' = Ids /\ \A j : Below(j)' = Below(j)
    BY DEF Ids, Below
  <1>2. \A j \in Live' : j \in Live \/ (j = i /\ Fresh(i))
    BY DEF OthersChange, Edited, Added, Live, Created
  <1>3. ASSUME ~scan.done, NEW j \in Live', Position(j)' >= scan.offset, NEW k \in Ids
        PROVE  k < j
    <2>1. CASE j \in Live
      <3>1. Position(j) >= scan.offset
        BY <1>3, <2>1, PositionsShrink, PositionType DEF Scans
      <3>2. QED BY <1>3, <2>1, <3>1 DEF RankInv
    <2>2. CASE j = i /\ Fresh(i)
      BY <2>2, FreshIsLast
    <2>3. QED BY <1>2, <2>1, <2>2
  <1>4. ASSUME NEW j \in Ids \cap Live' PROVE Cardinality(Below(j)) >= Position(j)'
    <2>1. j \in Live
      BY <1>2, <1>4 DEF Fresh
    <2>2. Cardinality(Below(j)) >= Position(j)
      BY <1>4, <2>1 DEF RankInv
    <2>3. Position(j)' <= Position(j) /\ Position(j)' \in Nat /\ Position(j) \in Nat
      BY <1>4, <2>1, PositionsShrink, PositionType
    <2>4. IsFiniteSet(Ids) /\ Below(j) \in SUBSET Ids
      BY FiniteIds DEF RankInv, Below
    <2>5. Cardinality(Below(j)) \in Nat
      BY <2>4, FS_Subset, FS_CardinalityType
    <2>6. QED BY <2>2, <2>3, <2>5
  <1>5. QED BY <1>1, <1>3, <1>4 DEF RankInv

LEMMA NewRankInv ==
  ASSUME scan' = NewScan
  PROVE  RankInv'
  <1>1. Ids' = {} /\ scan'.rows = {} /\ scan'.offset = 0
    BY DEF Ids, NewScan
  <1>2. Cardinality({}) = 0 /\ IsFiniteSet({})
    BY FS_EmptySet
  <1>3. QED BY <1>1, <1>2 DEF RankInv

(* What Last-Modified counts for a row.                                      *)
LEMMA RankAtLeast ==
  ASSUME RankInv, NEW row \in scan.rows
  PROVE  /\ Rank(row) \in Nat
         /\ row.id \in Live => Rank(row) >= Position(row.id)
  <1> DEFINE earlier == {r \in scan.rows : r.id < row.id}
             f == [r \in earlier |-> r.id]
  <1>1. f \in Surjection(earlier, Below(row.id))
    BY DEF Surjection, Below, Ids
  <1>2. earlier \in SUBSET scan.rows
    OBVIOUS
  <1>3. Rank(row) = Cardinality(earlier)
    BY DEF Rank
  <1>4. row.id \in Live => Cardinality(Below(row.id)) >= Position(row.id)
    BY DEF RankInv, Ids
  <1> HIDE DEF earlier, f
  <1>5. IsFiniteSet(earlier) /\ Cardinality(earlier) \in Nat
    BY <1>2, FS_Subset, FS_CardinalityType DEF RankInv
  <1>6. IsFiniteSet(Below(row.id)) /\ Cardinality(Below(row.id)) <= Cardinality(earlier)
    BY <1>1, <1>5, FS_Surjection
  <1>7. Cardinality(Below(row.id)) \in Nat
    BY <1>6, FS_CardinalityType
  <1>8. row.id \in Live => Position(row.id) \in Nat
    BY PositionType
  <1>9. QED BY <1>3, <1>4, <1>5, <1>6, <1>7, <1>8

-----------------------------------------------------------------------------
(* What holds between two steps.                                             *)

SpaceInv ==
  /\ ObjectsTyped /\ InOrder /\ archived \subseteq Created
  /\ late = NoCall /\ foreign \in 0..MaxForeign
  /\ touched \subseteq Objects /\ recent = touched
  /\ cache = {} /\ call = NoCall /\ reads = 0
  /\ \A i, j \in Live : object[i].name = object[j].name => i = j

TimeInv == clock \in 0..MaxClock /\ changed \in [Objects -> 0..clock]

(* The Space has the version, or had it earlier this second.                 *)
Timely(row) == \A i \in LiveNamed(row.name) : RowOf(i) = row \/ changed[i] = clock

(* A scan misses an object that was live all the time only when another one  *)
(* was archived meanwhile, whatever the size of a page.                      *)
Listed == \A i \in Live \ touched : Covered(i) => RowOf(i) \in scan.rows

ScanInv ==
  /\ scan \in Scans
  /\ pc \notin Scanning => scan = NewScan
  /\ \A r \in scan.rows : NamesObject(r) /\ IsCurrent(r) /\ Timely(r)
  /\ Shifted \/ Listed
  /\ RankInv

Copies == [row : Rows, read : Nat, rank : Nat]

(* A version that replaced a client's copy came in the second the copy was   *)
(* read, or later.                                                           *)
Sent(n) ==
  /\ held[n].row.name = n
  /\ held[n].read <= clock
  /\ \A i \in LiveNamed(n) : RowOf(i) = held[n].row \/ changed[i] >= held[n].read

HeldInv ==
  /\ held \in [Names -> Copies \cup {NoCopy}]
  /\ \A n \in Names : held[n] # NoCopy => Sent(n)

WorldInv == SpaceInv /\ TimeInv /\ ScanInv /\ HeldInv

LEMMA RowFields ==
  /\ \A i : RowOf(i).id = i /\ RowOf(i).name = object[i].name
  /\ \A i \in Live : ObjectsTyped => RowOf(i) \in Rows
  <1>1. ASSUME NEW i \in Live, ObjectsTyped PROVE RowOf(i) \in Rows
    <2>1. i \in Objects /\ object[i] \in Contents
      BY <1>1 DEF ObjectsTyped, Live, Created
    <2>2. QED BY <2>1 DEF Rows, Contents, RowOf
  <1>2. QED BY <1>1 DEF RowOf

(* Changes by other clients.                                                 *)
LEMMA ChangeEffect ==
  ASSUME WorldInv, Change
  PROVE  /\ \E i \in Objects : OthersChange(i)
         /\ UNCHANGED <<repository, control, clock>>
         /\ changed' \in [Objects -> 0..clock]
         /\ \A j \in Objects :
              changed'[j] = IF object'[j] # object[j] THEN clock ELSE changed[j]
  BY OthersChangeOne DEF WorldInv, SpaceInv, TimeInv, Change

LEMMA ChangeSpace ==
  ASSUME WorldInv, Change
  PROVE  SpaceInv' /\ TimeInv'
  <1>1. PICK i \in Objects : OthersChange(i)
    BY ChangeEffect
  <1>2. Persists /\ InOrder' /\ archived' \subseteq Created'
    BY <1>1, OthersPersist DEF WorldInv, SpaceInv
  <1>3. /\ foreign' \in 0..MaxForeign /\ late' = NoCall /\ ObjectsTyped'
        /\ touched' \subseteq Objects /\ recent' = touched'
    BY <1>1, SpaceAssumption DEF OthersChange, WorldInv, SpaceInv
  <1>4. ASSUME NEW j \in Live', NEW k \in Live', object'[j].name = object'[k].name
        PROVE  j = k
    <2>1. CASE Edited(i)
      <3>1. j \in Live /\ k \in Live /\ j \in Created /\ k \in Created
        BY <2>1 DEF Edited, Live
      <3>2. object[j].name = object[k].name
        BY <1>2, <1>4, <3>1 DEF Persists
      <3>3. QED BY <3>1, <3>2 DEF WorldInv, SpaceInv
    <2>2. CASE Added(i)
      <3>1. \A l \in Live' : l = i \/ (l \in Live /\ object'[l].name = object[l].name)
        BY <1>2, <2>2 DEF Added, Live, Persists
      <3>2. \A l \in Live : object[l].name # object'[i].name
        BY <2>2 DEF Added
      <3>3. QED BY <1>4, <3>1, <3>2 DEF WorldInv, SpaceInv
    <2>3. QED BY <1>1, <2>1, <2>2 DEF OthersChange
  <1>5. UNCHANGED <<repository, clock>> /\ changed' \in [Objects -> 0..clock]
    BY ChangeEffect
  <1>6. QED BY <1>2, <1>3, <1>4, <1>5 DEF WorldInv, SpaceInv, TimeInv, repository

(* A row that changes, or is new, bears the time.                            *)
LEMMA ChangeDates ==
  ASSUME WorldInv, Change, NEW n, NEW j \in LiveNamed(n)'
  PROVE  \/ changed'[j] = clock
         \/ j \in LiveNamed(n) /\ RowOf(j)' = RowOf(j) /\ changed'[j] = changed[j]
  <1>1. PICK i \in Objects : OthersChange(i)
    BY ChangeEffect
  <1>2. j \in Live' /\ j \in Objects /\ object'[j].name = n
    BY DEF LiveNamed, Live, Created
  <1>3. changed'[j] = IF object'[j] # object[j] THEN clock ELSE changed[j]
    BY <1>2, ChangeEffect
  <1>4. CASE object'[j] = object[j]
    <2>1. j \in Live
      BY <1>1, <1>2, <1>4 DEF OthersChange, Edited, Added, Live, Created
    <2>2. RowOf(j)' = RowOf(j)
      BY <1>4 DEF RowOf
    <2>3. QED BY <1>2, <1>3, <1>4, <2>1, <2>2 DEF LiveNamed
  <1>5. QED BY <1>3, <1>4

LEMMA ChangeHeld ==
  ASSUME WorldInv, Change
  PROVE  HeldInv'
  <1>1. held' = held /\ clock' = clock /\ clock \in Nat
    BY ChangeEffect DEF control, WorldInv, TimeInv
  <1>2. ASSUME NEW n \in Names, held[n] # NoCopy, NEW j \in LiveNamed(n)'
        PROVE  RowOf(j)' = held[n].row \/ changed'[j] >= held[n].read
    <2>1. Sent(n) /\ held[n].read \in Nat
      BY <1>2 DEF WorldInv, HeldInv, Copies
    <2>2. CASE changed'[j] = clock
      BY <1>1, <2>1, <2>2 DEF Sent
    <2>3. CASE j \in LiveNamed(n) /\ RowOf(j)' = RowOf(j) /\ changed'[j] = changed[j]
      BY <2>1, <2>3 DEF Sent
    <2>4. QED BY <1>2, <2>2, <2>3, ChangeDates
  <1>3. QED BY <1>1, <1>2 DEF WorldInv, HeldInv, Sent

LEMMA ChangeListed ==
  ASSUME WorldInv, Change
  PROVE  (Shifted \/ Listed)'
  <1>1. PICK i \in Objects : OthersChange(i)
    BY ChangeEffect
  <1>2. scan' = scan /\ archived \subseteq archived' /\ touched' = touched \cup {i}
    BY <1>1, ChangeEffect DEF repository, OthersChange, Edited, Added
  <1>3. CASE Shifted
    BY <1>2, <1>3 DEF Shifted
  <1>4. CASE archived' # archived
    <2>1. i \in archived'
      BY <1>1, <1>4 DEF OthersChange, Edited, Added
    <2>2. QED BY <1>2, <2>1 DEF Shifted
  <1>5. CASE Listed /\ archived' = archived
    <2>1. ASSUME NEW j \in Live' \ touched', Covered(j)' PROVE RowOf(j)' \in scan'.rows
      <3>1. j # i /\ j \in Objects /\ j \in Live /\ j \notin touched /\ object'[j] = object[j]
        BY <1>1, <1>2, <2>1 DEF OthersChange, Edited, Added, Live, Created
      <3>2. Position(j)' = Position(j)
        <4>1. CASE Edited(i)
          BY <1>5, <4>1 DEF Edited, Position, Live
        <4>2. CASE Added(i)
          BY <3>1, <4>2, PositionsKept DEF Added, WorldInv, SpaceInv
        <4>3. QED BY <1>1, <4>1, <4>2 DEF OthersChange
      <3>3. Covered(j)
        BY <1>2, <2>1, <3>2 DEF Covered
      <3>4. RowOf(j)' = RowOf(j)
        BY <3>1 DEF RowOf
      <3>5. QED BY <1>2, <1>5, <3>1, <3>3, <3>4 DEF Listed
    <2>2. QED BY <2>1 DEF Listed
  <1>6. QED BY <1>3, <1>4, <1>5 DEF WorldInv, ScanInv

LEMMA ChangeScan ==
  ASSUME WorldInv, Change
  PROVE  ScanInv'
  <1>1. PICK i \in Objects : OthersChange(i)
    BY ChangeEffect
  <1>2. scan' = scan /\ pc' = pc /\ clock' = clock
    BY ChangeEffect DEF repository, control
  <1>3. ASSUME NEW r \in scan.rows PROVE NamesObject(r)' /\ IsCurrent(r)' /\ Timely(r)'
    <2>1. NamesObject(r) /\ IsCurrent(r) /\ Timely(r)
      BY DEF WorldInv, ScanInv
    <2>2. NamesObject(r)'
      BY <1>1, <2>1, OthersPersist, NamesKept DEF WorldInv, SpaceInv
    <2>3. IsCurrent(r)'
      BY <1>1, <2>1, UntouchedKept
    <2>4. ASSUME NEW j \in LiveNamed(r.name)' PROVE RowOf(j)' = r \/ changed'[j] = clock
      BY <2>1, <2>4, ChangeDates DEF Timely
    <2>5. QED BY <1>2, <2>2, <2>3, <2>4 DEF Timely
  <1>4. RankInv'
    <2>1. Ids \subseteq Created
      BY DEF Ids, WorldInv, ScanInv, NamesObject
    <2>2. QED BY <1>1, <1>2, <2>1, OthersRanks DEF WorldInv, SpaceInv, ScanInv
  <1>5. QED BY <1>2, <1>3, <1>4, ChangeListed DEF WorldInv, ScanInv

(* The next page.                                                            *)
LEMMA PageStep ==
  ASSUME WorldInv, ScanPage
  PROVE  WorldInv'
  <1>1. /\ ReadPage /\ pc \in Scanning
        /\ UNCHANGED <<object, archived, late, foreign, touched, recent, cache, call, reads,
                       pc, held, clock, changed>>
    BY DEF ScanPage, space, control, time
  <1>2. SpaceInv' /\ TimeInv' /\ HeldInv'
    BY <1>1 DEF WorldInv, SpaceInv, TimeInv, HeldInv, Sent, ObjectsTyped, InOrder, Created, Live,
                LiveNamed, RowOf
  <1>3. Live' = Live /\ \A i : RowOf(i)' = RowOf(i) /\ Position(i)' = Position(i)
    BY <1>1, Unmoved
  <1>4. ASSUME NEW r \in scan'.rows PROVE r \in Rows /\ NamesObject(r) /\ IsCurrent(r) /\ Timely(r)
    <2>1. CASE r \in scan.rows
      BY <2>1 DEF WorldInv, ScanInv, Scans
    <2>2. CASE r \notin scan.rows
      <3>1. PICK i \in Live : r = RowOf(i)
        BY <1>1, <2>2, PageRows
      <3>2. r \in Rows /\ r.id = i /\ r.name = object[i].name /\ r.uid = object[i].uid
        BY <3>1, RowFields DEF WorldInv, SpaceInv, RowOf
      <3>3. ASSUME NEW j \in LiveNamed(r.name) PROVE j = i
        BY <3>2, <3>3 DEF LiveNamed, WorldInv, SpaceInv
      <3>4. QED BY <3>1, <3>2, <3>3 DEF NamesObject, IsCurrent, Timely, Live
    <2>3. QED BY <2>1, <2>2
  <1>5. \A r \in scan'.rows : NamesObject(r)' /\ IsCurrent(r)' /\ Timely(r)'
    <2>1. \A r : /\ NamesObject(r) => NamesObject(r)'
                 /\ IsCurrent(r) => IsCurrent(r)'
                 /\ Timely(r) => Timely(r)'
      BY <1>1, <1>3 DEF NamesObject, IsCurrent, Timely, LiveNamed, Created
    <2>2. QED BY <1>4, <2>1
  <1>6. scan' \in Scans
    <2>1. scan.offset + PageSize \in Nat
      BY SpaceAssumption DEF WorldInv, ScanInv, Scans
    <2>2. LastPage(scan.offset) \in BOOLEAN
      BY DEF LastPage
    <2>3. scan'.rows \in SUBSET Rows
      BY <1>4
    <2>4. scan' = [offset |-> scan.offset + PageSize, rows |-> scan'.rows,
                   done |-> LastPage(scan.offset)]
      BY <1>1 DEF ReadPage
    <2>5. QED BY <2>1, <2>2, <2>3, <2>4 DEF Scans
  <1>7. (Shifted \/ Listed)'
    <2>1. CASE Shifted
      BY <1>1, <2>1 DEF Shifted
    <2>2. CASE Listed
      <3>1. ASSUME NEW i \in Live \ touched, Covered(i)' PROVE RowOf(i) \in scan'.rows
        <4>1. Covered(i) \/ RowOf(i) \in scan'.rows
          BY <1>1, <3>1, PageCovers DEF WorldInv, ScanInv
        <4>2. scan.rows \subseteq scan'.rows
          BY <1>1 DEF ReadPage
        <4>3. QED BY <2>2, <3>1, <4>1, <4>2 DEF Listed
      <3>2. QED BY <1>1, <1>3, <3>1 DEF Listed
    <2>3. QED BY <2>1, <2>2 DEF WorldInv, ScanInv
  <1>8. RankInv'
    <2>1. Ids \subseteq Objects
      BY DEF Ids, WorldInv, ScanInv, NamesObject, Created
    <2>2. QED BY <1>1, <2>1, ReadPageRanks DEF WorldInv, ScanInv
  <1>9. ScanInv'
    BY <1>1, <1>5, <1>6, <1>7, <1>8 DEF ScanInv
  <1>10. QED BY <1>2, <1>9 DEF WorldInv

(* The steps that begin a scan, or leave none.                               *)
Anew ==
  /\ scan' = NewScan
  /\ UNCHANGED <<object, archived, late, foreign, cache, call, reads, time>>
  /\ UNCHANGED <<touched, recent>> \/ (touched' = {} /\ recent' = {})

LEMMA AnewStep ==
  ASSUME WorldInv, Anew
  PROVE  SpaceInv' /\ TimeInv' /\ ScanInv'
  <1>1. UNCHANGED <<object, archived, late, foreign, cache, call, reads, clock, changed>>
    BY DEF Anew, time
  <1>2. Live' = Live /\ Created' = Created
    BY <1>1, Unmoved
  <1>3. SpaceInv' /\ TimeInv'
    <2>1. touched' \subseteq Objects /\ recent' = touched'
      BY DEF Anew, WorldInv, SpaceInv
    <2>2. QED BY <1>1, <1>2, <2>1 DEF WorldInv, SpaceInv, TimeInv, ObjectsTyped, InOrder
  <1>4. scan' = NewScan /\ NewScan \in Scans /\ NewScan.rows = {}
    BY DEF Anew, NewScan, Scans
  <1>5. Listed'
    BY <1>4, PositionNext DEF Listed, Covered, NewScan
  <1>6. QED BY <1>3, <1>4, <1>5, NewRankInv DEF ScanInv

LEMMA TickStep ==
  ASSUME WorldInv, Tick
  PROVE  WorldInv'
  <1>1. /\ pc = "ready" /\ clock' = clock + 1 /\ clock < MaxClock /\ MaxClock \in Nat
        /\ UNCHANGED <<object, archived, late, foreign, touched, recent, cache, scan, call, reads,
                       pc, held, changed>>
    BY ReadsAssumption DEF Tick, space, repository, control
  <1>2. clock \in Nat /\ clock' \in 0..MaxClock /\ changed \in [Objects -> 0..clock']
    <2>1. clock \in Nat /\ clock' \in 0..MaxClock /\ 0..clock \subseteq 0..clock'
      BY <1>1 DEF WorldInv, TimeInv
    <2>2. QED BY <2>1 DEF WorldInv, TimeInv
  <1>3. SpaceInv'
    BY <1>1 DEF WorldInv, SpaceInv, ObjectsTyped, InOrder, Created, Live
  <1>4. ScanInv'
    <2>1. scan = NewScan /\ scan.rows = {} /\ scan' = scan
      BY <1>1 DEF WorldInv, ScanInv, Scanning, NewScan
    <2>2. \A i : Live' = Live /\ RowOf(i)' = RowOf(i) /\ Position(i)' = Position(i)
      BY <1>1, Unmoved
    <2>3. (Shifted \/ Listed)'
      BY <1>1, <2>2 DEF WorldInv, ScanInv, Shifted, Listed, Covered
    <2>4. QED BY <1>1, <2>1, <2>3, NewRankInv DEF WorldInv, ScanInv
  <1>5. HeldInv'
    <2>1. ASSUME NEW n \in Names, held[n] # NoCopy PROVE Sent(n)'
      <3>1. Sent(n) /\ held[n].read \in Nat
        BY <2>1 DEF WorldInv, HeldInv, Copies
      <3>2. held[n].read <= clock'
        BY <1>1, <1>2, <3>1 DEF Sent
      <3>3. QED BY <1>1, <3>1, <3>2 DEF Sent, LiveNamed, Live, Created, RowOf
    <2>2. QED BY <1>1, <2>1 DEF WorldInv, HeldInv
  <1>6. QED BY <1>1, <1>2, <1>3, <1>4, <1>5 DEF WorldInv, TimeInv

-----------------------------------------------------------------------------
(* Requests.                                                                 *)

(* A GET names in its conditions what its client holds.                      *)
Conditional(r) ==
  /\ r.name \in Names
  /\ r.ifNoneMatch \in {{}, {Star}, TagsHeld(r.name)}
  /\ r.ifModifiedSince \in {{}, DatesHeld(r.name)}

OfResource(r) == r.method \in {"GET", "HEAD"} /\ r.area \in Areas /\ r.target = "resource"

OfReport(r) == r.doc \in ReportDocs /\ r.area = r.doc.area

RequestInv ==
  /\ pc \in Scanning \cup {"parse"} =>
       /\ OfResource(req) => Conditional(req)
       /\ req.method = "REPORT" => OfReport(req)
  /\ pc = "get" => OfResource(req)
  /\ pc = "report" => req.method = "REPORT" /\ ReportAccepted(req.doc, req.area)
  /\ pc \in {"home", "collection", "resource", "list"} => req.method = "PROPFIND"

LEMMA GetRequests == \A r \in Gets : Conditional(r) /\ r.method # "REPORT"
  <1> DEFINE plain(n) == [method : {"GET", "HEAD"}, area : Areas, target : {"resource"}, name : {n},
                          ifMatch : {{}}, ifNoneMatch : {{}}, ifModifiedSince : {{}}]
  <1>1. ASSUME NEW n \in Names, NEW match, NEW since, since \in {{}, DatesHeld(n)},
               NEW none, none \in {{}, {Star}, TagsHeld(n)}
        PROVE  Conditional(GetOf(n, match, none, since)) /\ GetOf(n, match, none, since).method # "REPORT"
    BY <1>1 DEF Conditional, GetOf
  <1>2. ASSUME NEW n \in Names, NEW r \in plain(n) PROVE Conditional(r) /\ r.method # "REPORT"
    BY <1>2 DEF Conditional
  <1>3. ASSUME NEW r \in Gets
        PROVE  \E n \in Names : r \in plain(n) \/ \E match : \E since \in {{}, DatesHeld(n)} :
                 \E none \in {{}, {Star}, TagsHeld(n)} : r = GetOf(n, match, none, since)
    <2> HIDE DEF plain
    <2>1. PICK n \in Names :
            \/ \E match \in {{Star}, TagsHeld(n)} : r = GetOf(n, match, {}, {})
            \/ r \in {GetOf(n, {}, {Star}, {}), GetOf(n, {}, TagsHeld(n), {}),
                      GetOf(n, {}, {}, DatesHeld(n)), GetOf(n, {}, TagsHeld(n), DatesHeld(n))}
            \/ r \in plain(n)
      BY Zenon DEF Gets, plain
    <2>2. QED BY <2>1, Zenon
  <1> HIDE DEF plain
  <1>4. QED BY <1>1, <1>2, <1>3

LEMMA Requests ==
  ASSUME NEW r \in Gets \cup Propfinds \cup Reports \cup Others
  PROVE  /\ OfResource(r) => Conditional(r)
         /\ r.method = "REPORT" => OfReport(r)
  <1>1. CASE r \in Gets
    BY <1>1, GetRequests
  <1>2. CASE r \in Propfinds
    <2>1. r.method = "PROPFIND"
      BY <1>2 DEF Propfinds
    <2>2. QED BY <2>1 DEF OfResource
  <1>3. CASE r \in Reports
    BY <1>3 DEF Reports, OfReport, OfResource
  <1>4. CASE r \in Others
    <2>1. r.method # "REPORT"
      BY <1>4 DEF Others
    <2>2. ~OfResource(r)
      BY <1>4 DEF Others, OfResource, Areas
    <2>3. QED BY <2>1, <2>2
  <1>5. QED BY <1>1, <1>2, <1>3, <1>4

-----------------------------------------------------------------------------
(* Answers.                                                                  *)

Shaped(a) ==
  a = [status |-> a.status, entries |-> a.entries, own |-> a.own, gone |-> a.gone,
       learnt |-> a.learnt, failure |-> a.failure]

(* The entries a client can take as its copies.                              *)
Whole(a) == {e \in a.entries : {"getetag", "data"} \subseteq e.found}

WholeNames(a) == {e.row.name : e \in Whole(a)}

LEMMA AnswerEffect ==
  ASSUME NEW from, NEW a, Shaped(a), NEW dropped, Answer(from, a, dropped)
  PROVE  /\ pc = from /\ pc' = "idle" /\ scan' = NewScan /\ req' = req /\ served' = served
         /\ answer'.status = a.status /\ answer'.entries = a.entries /\ answer'.gone = a.gone
         /\ answer'.failure = a.failure
         /\ answer'.learnt = a.learnt \cup WholeNames(a) \cup dropped
         /\ held' = [n \in Names |-> held'[n]]
         /\ \A n \in WholeNames(a) \cap Names :
              \E e \in Whole(a) : e.row.name = n /\ held'[n] = Copy(e.row)
         /\ \A n \in Names \ WholeNames(a) :
              held'[n] = IF n \in dropped THEN NoCopy ELSE held[n]
  <1> DEFINE taken(n) == CHOOSE e \in Whole(a) : e.row.name = n
  <1>1. held' = [n \in Names |-> IF n \in WholeNames(a) THEN Copy(taken(n).row)
                                 ELSE IF n \in dropped THEN NoCopy ELSE held[n]]
    BY DEF Answer, Whole, WholeNames
  <1>2. answer' = [a EXCEPT !.learnt = @ \cup WholeNames(a) \cup dropped]
    BY DEF Answer, Whole, WholeNames
  <1>3. \A n \in WholeNames(a) : taken(n) \in Whole(a) /\ taken(n).row.name = n
    BY DEF WholeNames
  <1> HIDE DEF taken
  <1>4. /\ \A n \in WholeNames(a) \cap Names : held'[n] = Copy(taken(n).row)
        /\ \A n \in Names \ WholeNames(a) :
             held'[n] = IF n \in dropped THEN NoCopy ELSE held[n]
        /\ held' = [n \in Names |-> held'[n]]
    BY <1>1
  <1>5. /\ answer'.status = a.status /\ answer'.entries = a.entries /\ answer'.gone = a.gone
        /\ answer'.failure = a.failure
        /\ answer'.learnt = a.learnt \cup WholeNames(a) \cup dropped
    BY <1>2 DEF Shaped
  <1>6. pc = from /\ pc' = "idle" /\ scan' = NewScan /\ req' = req /\ served' = served
    BY DEF Answer
  <1>7. QED BY <1>3, <1>4, <1>5, <1>6

(* Answers send rows that were read.                                         *)
LEMMA AnswerWorld ==
  ASSUME WorldInv, NEW from, NEW a, Shaped(a), NEW dropped, Answer(from, a, dropped), Reading,
         \A e \in Whole(a) : e.row \in scan.rows
  PROVE  WorldInv'
  <1>1. Anew
    BY AnswerEffect DEF Anew, Reading, space
  <1>2. SpaceInv' /\ TimeInv' /\ ScanInv'
    BY <1>1, AnewStep
  <1>3. clock' = clock /\ clock \in Nat /\ \A n : LiveNamed(n)' = LiveNamed(n)
        /\ \A i : RowOf(i)' = RowOf(i) /\ changed' = changed
    BY Unmoved DEF Reading, time, space, LiveNamed, WorldInv, TimeInv
  <1>4. ASSUME NEW n \in Names
        PROVE  held'[n] \in Copies \cup {NoCopy} /\ (held'[n] # NoCopy => Sent(n)')
    <2>1. CASE n \in WholeNames(a)
      <3>1. PICK e \in Whole(a) : e.row.name = n /\ held'[n] = Copy(e.row)
        BY <2>1, AnswerEffect
      <3>2. e.row \in Rows /\ Timely(e.row) /\ Rank(e.row) \in Nat
        BY RankAtLeast DEF WorldInv, ScanInv, Scans
      <3>3. held'[n] = [row |-> e.row, read |-> clock, rank |-> Rank(e.row)]
        BY <3>1 DEF Copy
      <3>4. \A i \in LiveNamed(n) : RowOf(i) = e.row \/ changed[i] >= clock
        BY <1>3, <3>1, <3>2 DEF Timely
      <3>5. QED BY <1>3, <3>1, <3>2, <3>3, <3>4 DEF Copies, Sent
    <2>2. CASE n \notin WholeNames(a)
      <3>1. held'[n] = NoCopy \/ held'[n] = held[n]
        BY <2>2, AnswerEffect
      <3>2. held[n] \in Copies \cup {NoCopy} /\ (held[n] # NoCopy => Sent(n))
        BY DEF WorldInv, HeldInv
      <3>3. QED BY <1>3, <3>1, <3>2 DEF Sent
    <2>3. QED BY <2>1, <2>2
  <1>5. HeldInv'
    BY <1>4, AnswerEffect DEF HeldInv
  <1>6. QED BY <1>2, <1>5 DEF WorldInv

-----------------------------------------------------------------------------
(* What an answer says is true of the Space.                                 *)

Disturbed(n) == \E i \in touched : object[i].name = n

Absent(n) == LiveNamed(n) = {} \/ Shifted \/ Disturbed(n)

(* The date cannot tell the client's copy from the present version.          *)
Undated(n) == \E i \in LiveNamed(n) : changed[i] = held[n].read \/ Position(i) < held[n].rank

Confirms(a, n) ==
  \/ Disturbed(n)
  \/ /\ held[n] # NoCopy
     /\ \/ \E i \in LiveNamed(n) : RowOf(i) = held[n].row
        \/ a.status = "304" /\ req.ifNoneMatch = {} /\ Undated(n)

Truthful(a, dropped) ==
  /\ dropped \subseteq Names /\ (a.failure \notin NotFound => \A n \in dropped : Absent(n))
  /\ a.learnt \subseteq Names /\ \A n \in a.learnt : Confirms(a, n)
  /\ a.learnt # {} => a.entries = {} /\ dropped = {}

LEMMA CopyIsACopy == ASSUME NEW r \in Rows, NEW t \in Nat, NEW k \in Nat
                     PROVE  [row |-> r, read |-> t, rank |-> k] # NoCopy
  BY ReadsAssumption

LEMMA AnswerCurrent ==
  ASSUME WorldInv, NEW from, NEW a, Shaped(a), NEW dropped, Answer(from, a, dropped), Reading,
         \A e \in Whole(a) : e.row \in scan.rows, Truthful(a, dropped)
  PROVE  CopyCurrent'
  <1>1. /\ \A n : LiveNamed(n)' = LiveNamed(n) /\ Disturbed(n)' = Disturbed(n)
        /\ \A i : RowOf(i)' = RowOf(i) /\ Position(i)' = Position(i)
        /\ changed' = changed /\ req' = req
        /\ Shifted' = Shifted
    BY Unmoved, AnswerEffect DEF Reading, time, space, LiveNamed, Disturbed, Shifted
  <1>2. \A n : Disturbed(n) \/ a.failure \in NotFound => Excused(n)'
    BY <1>1, AnswerEffect DEF Excused, Disturbed
  <1>3. ASSUME NEW n \in answer'.learnt
        PROVE  \/ Excused(n)'
               \/ held'[n] = NoCopy /\ (LiveNamed(n) = {} \/ Shifted)
               \/ held'[n] # NoCopy /\ \E i \in LiveNamed(n) : RowOf(i) = held'[n].row
    <2>1. CASE n \in WholeNames(a)
      <3>1. PICK e \in Whole(a) : e.row.name = n
        BY <2>1 DEF WholeNames
      <3>2. n \in Names
        BY <3>1 DEF WorldInv, ScanInv, Scans, Rows
      <3>0. \A m \in WholeNames(a) \cap Names :
              \E f \in Whole(a) : f.row.name = m /\ held'[m] = Copy(f.row)
        BY AnswerEffect
      <3>3. PICK f \in Whole(a) : f.row.name = n /\ held'[n] = Copy(f.row)
        BY <2>1, <3>2, <3>0
      <3>4. /\ f.row \in Rows /\ NamesObject(f.row) /\ IsCurrent(f.row) /\ Rank(f.row) \in Nat
            /\ clock \in Nat /\ recent = touched
        BY RankAtLeast DEF WorldInv, ScanInv, Scans, TimeInv, SpaceInv
      <3>5. held'[n] # NoCopy /\ held'[n].row = f.row
        BY <3>3, <3>4, CopyIsACopy DEF Copy
      <3>6. CASE f.row.id \in touched
        BY <1>2, <3>3, <3>4, <3>6 DEF NamesObject, Disturbed
      <3>7. CASE f.row.id \in Live /\ RowOf(f.row.id) = f.row
        BY <3>3, <3>4, <3>5, <3>7 DEF NamesObject, LiveNamed
      <3>8. QED BY <3>4, <3>6, <3>7 DEF IsCurrent
    <2>2. CASE n \notin WholeNames(a) /\ n \in dropped
      <3>1. held'[n] = NoCopy /\ (Absent(n) \/ a.failure \in NotFound)
        BY <2>2, AnswerEffect DEF Truthful
      <3>2. QED BY <1>2, <3>1 DEF Absent
    <2>3. CASE n \notin WholeNames(a) /\ n \notin dropped
      <3>0. answer'.learnt = a.learnt \cup WholeNames(a) \cup dropped
        BY AnswerEffect
      <3>1. n \in a.learnt /\ n \in Names /\ Confirms(a, n)
        BY <1>3, <2>3, <3>0 DEF Truthful
      <3>2. held'[n] = held[n] /\ answer'.status = a.status
        BY <2>3, <3>1, AnswerEffect
      <3>3. CASE a.status = "304" /\ req.ifNoneMatch = {} /\ Undated(n)
        BY <1>1, <3>2, <3>3 DEF Undated, Excused
      <3>4. QED BY <1>2, <3>1, <3>2, <3>3 DEF Confirms
    <2>4. QED BY <2>1, <2>2, <2>3
  <1>4. QED BY <1>1, <1>3 DEF CopyCurrent

(* A full scan without the name.                                             *)
LEMMA Missing ==
  ASSUME WorldInv, scan.done, NEW n, \A r \in scan.rows : r.name # n
  PROVE  Absent(n)
  <1>1. CASE Shifted
    BY <1>1 DEF Absent
  <1>2. CASE Listed
    <2>1. ASSUME NEW i \in LiveNamed(n), i \notin touched PROVE FALSE
      <3>1. i \in Live \ touched /\ Covered(i) /\ object[i].name = n
        BY <2>1 DEF LiveNamed, Covered
      <3>2. RowOf(i) \in scan.rows /\ RowOf(i).name = n
        BY <1>2, <3>1, RowFields DEF Listed
      <3>3. QED BY <3>2
    <2>2. QED BY <2>1 DEF Absent, Disturbed, LiveNamed
  <1>3. QED BY <1>1, <1>2 DEF WorldInv, ScanInv

(* A date that is not older than the change is of the same second, or runs   *)
(* ahead of the clock.                                                       *)
LEMMA DateGap ==
  ASSUME NEW now \in Nat, NEW ahead \in Nat, NEW read \in Nat, NEW rank \in Nat,
         NEW change \in Nat, NEW position \in Nat,
         now + ahead <= read + rank, read <= change, change <= now, position <= ahead
  PROVE  change = read \/ position < rank
  OBVIOUS

(* 304, by tag or by date.                                                   *)
LEMMA Unmodified ==
  ASSUME WorldInv, pc = "get", Conditional(req), NEW row \in Found, NotModified(row),
         NEW a, a.status = "304", NEW n \in Confirmed
  PROVE  n \in Names /\ Confirms(a, n)
  <1>1. n = req.name /\ n \in Names /\ req.ifNoneMatch # {Star}
    BY DEF Confirmed, Conditional
  <1>2. row \in scan.rows /\ row.name = n
    BY <1>1 DEF Found, Named, Visible
  <1>3. row \in Rows /\ NamesObject(row) /\ IsCurrent(row) /\ recent = touched
    BY <1>2 DEF WorldInv, ScanInv, Scans, SpaceInv
  <1>4. CASE row.id \in touched
    BY <1>1, <1>2, <1>3, <1>4 DEF NamesObject, Confirms, Disturbed
  <1>5. CASE row.id \in Live /\ RowOf(row.id) = row
    <2> DEFINE i == row.id
    <2>1. i \in LiveNamed(n)
      BY <1>2, <1>3, <1>5 DEF NamesObject, LiveNamed
    <2>2. CASE Holds(req.ifNoneMatch, row)
      <3>1. held[n] # NoCopy /\ req.ifNoneMatch = {held[n].row}
        BY <1>1, <2>2 DEF Holds, Conditional, TagsHeld
      <3>2. held[n].row \in Rows /\ Star # held[n].row
        BY <1>1, <3>1, ReadsAssumption DEF WorldInv, HeldInv, Copies
      <3>3. held[n].row = row
        BY <2>2, <3>1, <3>2 DEF Holds
      <3>4. QED BY <1>1, <1>5, <2>1, <3>1, <3>3 DEF Confirms
    <2>3. CASE req.ifNoneMatch = {} /\ \E date \in req.ifModifiedSince : Modified(row) <= date
      <3>1. held[n] # NoCopy /\ Modified(row) <= held[n].read + held[n].rank
        BY <1>1, <2>3 DEF Conditional, DatesHeld, Date
      <3>2. /\ held[n].read \in Nat /\ held[n].rank \in Nat
            /\ RowOf(i) = held[n].row \/ changed[i] >= held[n].read
        BY <1>1, <2>1, <3>1 DEF WorldInv, HeldInv, Copies, Sent
      <3>3. CASE RowOf(i) = held[n].row
        BY <1>1, <2>1, <3>1, <3>3 DEF Confirms
      <3>4. CASE changed[i] >= held[n].read
        <4>1. Rank(row) \in Nat /\ Rank(row) >= Position(i) /\ Position(i) \in Nat
          BY <1>2, <1>5, RankAtLeast, PositionType DEF WorldInv, ScanInv
        <4>2. changed[i] \in Nat /\ changed[i] <= clock /\ clock \in Nat
          BY <1>5, ObjectNumbers DEF WorldInv, TimeInv
        <4>3. changed[i] = held[n].read \/ Position(i) < held[n].rank
          BY <3>1, <3>2, <3>4, <4>1, <4>2, DateGap DEF Modified
        <4>4. Undated(n)
          BY <2>1, <4>3 DEF Undated
        <4>5. QED BY <1>1, <2>3, <3>1, <4>4 DEF Confirms
      <3>5. QED BY <3>2, <3>3, <3>4
    <2>4. QED BY <2>2, <2>3 DEF NotModified
  <1>6. QED BY <1>3, <1>4, <1>5 DEF IsCurrent

-----------------------------------------------------------------------------
(* Every handler either begins a scan, reads a page, or answers.             *)

(* A multiget carries hrefs and nothing to filter by.                        *)
MultigetsPlain ==
  \A doc \in ReportDocs : doc.hrefs # {} => doc.filters = {} /\ doc.parts = {}

Replies(a, dropped) ==
  /\ Reading
  /\ Shaped(a)
  /\ \A e \in Whole(a) : e.row \in scan.rows
  /\ MultigetsPlain => Truthful(a, dropped)
  /\ req.method = "REPORT" /\ a.status = "207" => Report

Answered == \E from, a, dropped : Answer(from, a, dropped) /\ Replies(a, dropped)

Begun == Anew /\ pc' \in Scanning /\ UNCHANGED <<req, answer, held, served>> /\ RequestInv'

Shape(s, E, o, g, l) ==
  [status |-> s, entries |-> E, own |-> o, gone |-> g, learnt |-> l, failure |-> "none"]

LEMMA Shapes ==
  ASSUME NEW s, NEW E, NEW o, NEW g, NEW l
  PROVE  /\ Refusal(s) = Shape(s, {}, {}, {}, {})
         /\ [Refusal(s) EXCEPT !.learnt = l] = Shape(s, {}, {}, {}, l)
         /\ [Nothing EXCEPT !.status = s, !.own = o] = Shape(s, {}, o, {}, {})
         /\ [Nothing EXCEPT !.status = s, !.entries = E] = Shape(s, E, {}, {}, {})
         /\ [Nothing EXCEPT !.status = s, !.own = o, !.entries = E] = Shape(s, E, o, {}, {})
         /\ [Nothing EXCEPT !.status = s, !.entries = E, !.gone = g] = Shape(s, E, {}, g, {})
  <1>1. PICK n : n = Nothing
    OBVIOUS
  <1>2. n = Shape("none", {}, {}, {}, {})
    BY <1>1 DEF Nothing, Shape
  <1>3. PICK r : r = [n EXCEPT !.status = s]
    OBVIOUS
  <1>4. r = Shape(s, {}, {}, {}, {})
    BY <1>3, <1>2 DEF Shape
  <1>5. [Refusal(s) EXCEPT !.learnt = l] = Shape(s, {}, {}, {}, l)
    <2>1. [r EXCEPT !.learnt = l] = Shape(s, {}, {}, {}, l)
      BY <1>4 DEF Shape
    <2>2. QED BY <1>3, <1>1, <2>1 DEF Refusal
  <1>6. PICK x : x = [r EXCEPT !.own = o]
    OBVIOUS
  <1>7. x = Shape(s, {}, o, {}, {})
    BY <1>4, <1>6 DEF Shape
  <1>8. x = [Nothing EXCEPT !.status = s, !.own = o]
    BY <1>3, <1>1, <1>6
  <1>9. [Nothing EXCEPT !.status = s, !.own = o, !.entries = E] = Shape(s, E, o, {}, {})
    <2>1. [x EXCEPT !.entries = E] = Shape(s, E, o, {}, {})
      BY <1>7 DEF Shape
    <2>2. QED BY <1>8, <2>1
  <1>10. PICK y : y = [r EXCEPT !.entries = E]
    OBVIOUS
  <1>11. y = Shape(s, E, {}, {}, {})
    BY <1>4, <1>10 DEF Shape
  <1>12. y = [Nothing EXCEPT !.status = s, !.entries = E]
    BY <1>3, <1>1, <1>10
  <1>13. [Nothing EXCEPT !.status = s, !.entries = E, !.gone = g] = Shape(s, E, {}, g, {})
    <2>1. [y EXCEPT !.gone = g] = Shape(s, E, {}, g, {})
      BY <1>11 DEF Shape
    <2>2. QED BY <1>12, <2>1
  <1>14. QED BY <1>3, <1>1, <1>4, <1>5, <1>7, <1>8, <1>9, <1>11, <1>12, <1>13 DEF Refusal

(* An answer that confirms no copy.                                          *)
LEMMA Sends ==
  ASSUME NEW from, NEW s, NEW E, NEW o, NEW g, NEW dropped \in SUBSET Names,
         Answer(from, Shape(s, E, o, g, {}), dropped), Reading,
         \A e \in E : e.row \in scan.rows,
         MultigetsPlain => \A n \in dropped : Absent(n),
         req.method = "REPORT" /\ s = "207" => Report
  PROVE  Answered
  <1> DEFINE a == Shape(s, E, o, g, {})
  <1>1. Shaped(a) /\ Whole(a) \subseteq E /\ a.status = s /\ a.learnt = {}
    BY DEF Shaped, Whole, Shape
  <1> HIDE DEF a
  <1>2. Replies(a, dropped)
    BY <1>1 DEF Replies, Truthful
  <1>3. Answer(from, a, dropped)
    BY DEF a
  <1>4. QED BY <1>2, <1>3 DEF Answered

LEMMA Refuses ==
  ASSUME NEW from, NEW s, s # "207", Answer(from, Refusal(s), {}), Reading
  PROVE  Answered
  <1>1. Answer(from, Shape(s, {}, {}, {}, {}), {})
    BY Shapes, Zenon
  <1>2. QED BY <1>1, Sends

LEMMA ErrorStatuses ==
  ASSUME NEW error
  PROVE  StatusFor(error) # "207" /\ (StatusFor(error) = "404" => error \in NotFound)
  BY DEF StatusFor, NotFound

(* Only a GET takes its resource for gone, and only on a 404 of the Space.   *)
LEMMA ScanErrors ==
  ASSUME RequestInv, NEW error
  PROVE  /\ ErrorStatus(error) # "207"
         /\ Gone(ErrorStatus(error)) \subseteq Names
         /\ Gone(ErrorStatus(error)) # {} => error \in NotFound
  <1>1. ErrorStatus(error) # "207"
    BY ErrorStatuses DEF ErrorStatus
  <1>2. CASE pc = "get"
    <2>1. ErrorStatus(error) = StatusFor(error) /\ req.name \in Names
      BY <1>2 DEF ErrorStatus, Masked, RequestInv, Scanning, OfResource, Conditional
    <2>2. QED BY <1>1, <2>1, ErrorStatuses DEF Gone
  <1>3. CASE pc # "get"
    BY <1>1, <1>3 DEF Gone
  <1>4. QED BY <1>2, <1>3

LEMMA FailureAnswers ==
  ASSUME RequestInv, NEW error, Reading,
         Answer(pc, Failed(error), Gone(ErrorStatus(error)))
  PROVE  Answered
  <1> DEFINE status == ErrorStatus(error)
             a == Failed(error)
             dropped == Gone(status)
  <1>1. Shaped(a) /\ a.status = status /\ a.entries = {} /\ a.learnt = {} /\ a.failure = error
    <2>1. PICK r : r = Refusal(status)
      OBVIOUS
    <2>2. r = Shape(status, {}, {}, {}, {})
      BY <2>1, Shapes, Zenon
    <2>3. PICK f : f = [r EXCEPT !.failure = error]
      OBVIOUS
    <2>4. Shaped(f) /\ f.status = status /\ f.entries = {} /\ f.learnt = {} /\ f.failure = error
      BY <2>2, <2>3 DEF Shaped, Shape
    <2>5. f = a
      BY <2>1, <2>3, Zenon DEF Failed
    <2>6. QED BY <2>4, <2>5, Zenon
  <1>2. status # "207" /\ dropped \subseteq Names /\ (dropped # {} => error \in NotFound)
    BY ScanErrors
  <1>3. Answer(pc, a, dropped)
    OBVIOUS
  <1> HIDE DEF status, a, dropped
  <1>4. Replies(a, dropped)
    BY <1>1, <1>2 DEF Replies, Truthful, Whole
  <1>5. QED BY <1>3, <1>4 DEF Answered

LEMMA ParseAnswers ==
  ASSUME RequestInv, pc = "parse", Discovery \/ BadRequest, Reading
  PROVE  Answered
  <1>1. \A s : Respond("parse", Refusal(s)) => Answer("parse", Refusal(s), {})
    BY DEF Respond
  <1>2. CASE Discovery
    <2>1. CASE req.area = "root" /\ req.depth # "infinity" /\ req.doc.wellFormed /\
               Respond("parse", [Nothing EXCEPT !.status = "207",
                                                !.own = {Wanted(req.doc, PrincipalProps)}])
      <3> DEFINE own == {Wanted(req.doc, PrincipalProps)}
      <3>0. [Nothing EXCEPT !.status = "207", !.own = own] = Shape("207", {}, own, {}, {})
        BY Shapes
      <3>1. Answer("parse", Shape("207", {}, own, {}, {}), {})
        BY <2>1, <3>0, Zenon DEF Respond
      <3>2. req.method # "REPORT"
        BY <2>1, ReportsTyped DEF RequestInv, OfReport, Areas
      <3> HIDE DEF own
      <3>3. QED BY <3>1, <3>2, Sends
    <2>2. \/ \E s \in {"302", "404", "200", "400"} : Respond("parse", Refusal(s))
          \/ req.area = "root" /\ req.depth # "infinity" /\ req.doc.wellFormed /\
               Respond("parse", [Nothing EXCEPT !.status = "207",
                                                !.own = {Wanted(req.doc, PrincipalProps)}])
      BY <1>2 DEF Discovery
    <2>3. QED BY <1>1, <2>1, <2>2, Refuses
  <1>3. CASE BadRequest
    <2>1. \E s \in {"400", "404", "405"} : Respond("parse", Refusal(s))
      BY <1>3 DEF BadRequest
    <2>2. QED BY <1>1, <2>1, Refuses
  <1>4. QED BY <1>2, <1>3

LEMMA RouteBegins ==
  ASSUME RequestInv, pc = "parse", Route
  PROVE  Begun
  <1>1. \A stage : Look(stage) => /\ pc' = stage /\ Anew
                                  /\ UNCHANGED <<req, answer, held, served>>
    BY DEF Look, Move, Anew, Reading, space
  <1>2. ASSUME UNCHANGED <<req, answer, held, served>>
        PROVE  /\ OfResource(req) => Conditional(req)'
               /\ req.method = "REPORT" => OfReport(req)'
    BY <1>2 DEF RequestInv, Conditional, TagsHeld, DatesHeld, Date, OfReport
  <1>3. CASE req.method = "PROPFIND" /\ \E stage \in {"home", "collection", "resource"} : Look(stage)
    BY <1>1, <1>2, <1>3 DEF Begun, RequestInv, Scanning, OfResource
  <1>4. CASE req.method = "REPORT" /\ ReportAccepted(req.doc, req.area) /\ Look("report")
    <2>1. req' = req /\ (ReportAccepted(req.doc, req.area))'
      BY <1>1, <1>4 DEF ReportAccepted, RangeAccepted
    <2>2. QED BY <1>1, <1>2, <1>4, <2>1 DEF Begun, RequestInv, Scanning, OfResource
  <1>5. CASE OfResource(req) /\ Look("get")
    BY <1>1, <1>2, <1>5 DEF Begun, RequestInv, Scanning, OfResource
  <1>6. QED BY <1>3, <1>4, <1>5 DEF Route, IsRead, OfResource

LEMMA ScanFailsAnswers ==
  ASSUME RequestInv, ScanFails \/ ScanRefused
  PROVE  Answered
  <1>1. Reading /\ \E error : Answer(pc, Failed(error), Gone(ErrorStatus(error)))
    BY DEF ScanFails, ScanRefused
  <1>2. QED BY <1>1, FailureAnswers

(* A full scan without a visible row of the name.                            *)
LEMMA Unseen ==
  ASSUME WorldInv, scan.done, NEW n, Named(Visible(KindOf[n]), n) = {}
  PROVE  Absent(n)
  <1>1. \A r \in scan.rows : r.name # n
    BY DEF Named, Visible
  <1>2. QED BY <1>1, Missing

LEMMA GetAnswers ==
  ASSUME WorldInv, RequestInv, Get
  PROVE  Answered
  <1>1. OfResource(req) /\ Conditional(req) /\ req.name \in Names /\ req.method # "REPORT"
    BY DEF Get, RequestInv, Scanning, OfResource, Conditional
  <1>2. Reading /\ scan.done /\ pc = "get"
    BY DEF Get, Snapshot
  <1>3. CASE Found = {} /\ Answer("get", Refusal("404"), Gone("404"))
    <2>1. \A n \in Gone("404") : n \in Names /\ Absent(n)
      BY <1>1, <1>2, <1>3, Unseen DEF Gone, Found
    <2>2. Answer("get", Shape("404", {}, {}, {}, {}), Gone("404"))
      BY <1>3, Shapes, Zenon
    <2>3. QED BY <1>1, <1>2, <2>1, <2>2, Sends
  <1>4. CASE Respond("get", Refusal("412"))
    BY <1>2, <1>4, Refuses DEF Respond
  <1>5. ASSUME NEW row \in Found, NotModified(row),
               Respond("get", [Refusal("304") EXCEPT !.learnt = Confirmed])
        PROVE  Answered
    <2> DEFINE a == Shape("304", {}, {}, {}, Confirmed)
    <2>1. Answer("get", a, {})
      <3>1. [Refusal("304") EXCEPT !.learnt = Confirmed] = a
        BY Shapes, Zenon
      <3>2. QED BY <1>5, <3>1, Zenon DEF Respond
    <2>2. Shaped(a) /\ Whole(a) = {} /\ a.status = "304" /\ a.learnt = Confirmed /\ a.entries = {}
      BY DEF Shaped, Whole, Shape
    <2> HIDE DEF a
    <2>3. \A n \in Confirmed : n \in Names /\ Confirms(a, n)
      BY <1>1, <1>2, <1>5, <2>2, Unmodified
    <2>4. Replies(a, {})
      BY <1>1, <1>2, <2>2, <2>3 DEF Replies, Truthful
    <2>5. QED BY <2>1, <2>4 DEF Answered
  <1>6. ASSUME NEW row \in Found, Respond("get", Got(row))
        PROVE  Answered
    <2> DEFINE E == {Entry(row, IF req.method = "GET" THEN {"getetag", "data"} ELSE {"getetag"}, {})}
    <2>1. Got(row) = Shape("200", E, {}, {}, {})
      BY Shapes, Zenon DEF Got
    <2>2. Answer("get", Shape("200", E, {}, {}, {}), {})
      BY <1>6, <2>1, Zenon DEF Respond
    <2>3. \A e \in E : e.row \in scan.rows
      BY <1>6 DEF Found, Named, Visible, Entry
    <2> HIDE DEF E
    <2>4. QED BY <1>1, <1>2, <2>2, <2>3, Sends
  <1>7. QED BY <1>3, <1>4, <1>5, <1>6 DEF Get

LEMMA PropfindResourceAnswers ==
  ASSUME RequestInv, PropfindResource
  PROVE  Answered
  <1> DEFINE E == {PropEntry(r) : r \in Found}
             a == [Nothing EXCEPT !.status = "207", !.entries = E]
  <1>1. Reading /\ pc = "resource" /\ req.method # "REPORT"
    BY DEF PropfindResource, RequestInv
  <1>2. \A e \in E : e.row \in scan.rows
    BY DEF PropEntry, Entry, Found, Named, Visible
  <1>3. a = Shape("207", E, {}, {}, {})
    BY Shapes, Zenon
  <1>4. Respond("resource", Refusal("404")) \/ Respond("resource", a)
    BY DEF PropfindResource
  <1> HIDE DEF E, a
  <1>5. CASE Respond("resource", Refusal("404"))
    BY <1>1, <1>5, Refuses DEF Respond
  <1>6. CASE Respond("resource", a)
    <2>1. Answer("resource", Shape("207", E, {}, {}, {}), {})
      BY <1>3, <1>6 DEF Respond
    <2>2. QED BY <1>1, <1>2, <2>1, Sends
  <1>7. QED BY <1>4, <1>5, <1>6

(* Depth 1 reads the Space a second time.                                    *)
LEMMA PropfindCollectionAnswers ==
  ASSUME RequestInv, PropfindCollection
  PROVE  Answered \/ Begun
  <1> DEFINE own == OwnProps
  <1>1. Reading /\ pc = "collection" /\ req.method = "PROPFIND"
    BY DEF PropfindCollection, RequestInv
  <1>2. CASE Respond("collection", [Nothing EXCEPT !.status = "207", !.own = OwnProps])
    <2>1. [Nothing EXCEPT !.status = "207", !.own = own] = Shape("207", {}, own, {}, {})
      BY Shapes, Zenon
    <2>2. Answer("collection", Shape("207", {}, own, {}, {}), {})
      BY <1>2, <2>1, Zenon DEF Respond
    <2> HIDE DEF own
    <2>3. QED BY <1>1, <2>2, Sends
  <1>3. CASE Move("collection", "list") /\ scan' = NewScan
    <2>1. Anew /\ pc' = "list" /\ UNCHANGED <<req, answer, held, served>>
      BY <1>1, <1>3 DEF Move, Anew, Reading, space
    <2>2. RequestInv'
      BY <1>1, <2>1 DEF RequestInv, OfResource
    <2>3. QED BY <2>1, <2>2 DEF Begun, Scanning
  <1>4. QED BY <1>2, <1>3 DEF PropfindCollection

LEMMA UnlistedAbsent ==
  ASSUME WorldInv, scan.done
  PROVE  Unlisted \subseteq Names /\ \A n \in Unlisted : Absent(n)
  <1>1. ASSUME NEW n \in Unlisted PROVE n \in Names /\ Absent(n)
    BY <1>1, Unseen DEF Unlisted
  <1>2. QED BY <1>1

LEMMA PropfindListAnswers ==
  ASSUME WorldInv, RequestInv, PropfindList
  PROVE  Answered
  <1> DEFINE E == {PropEntry(r) : r \in Visible(req.area)}
             own == OwnProps
  <1>1. Reading /\ scan.done /\ pc = "list" /\ req.method # "REPORT"
    BY DEF PropfindList, Snapshot, RequestInv
  <1>2. \A e \in E : e.row \in scan.rows
    BY DEF PropEntry, Entry, Visible
  <1>3. [Nothing EXCEPT !.status = "207", !.own = own, !.entries = E] = Shape("207", E, own, {}, {})
    BY Shapes, Zenon
  <1>4. Answer("list", Shape("207", E, own, {}, {}), Unlisted)
    BY <1>3, Zenon DEF PropfindList
  <1> HIDE DEF E, own
  <1>5. QED BY <1>1, <1>2, <1>4, UnlistedAbsent, Sends

LEMMA PropfindHomeAnswers ==
  ASSUME RequestInv, PropfindHome
  PROVE  Answered
  <1> DEFINE own == {Wanted(req.doc, HomeProps)}
                      \cup IF req.depth = "1"
                             THEN {Wanted(req.doc, Only("task", CollectionProps))} ELSE {}
  <1>1. Reading /\ pc = "home" /\ req.method # "REPORT"
    BY DEF PropfindHome, RequestInv
  <1>2. [Nothing EXCEPT !.status = "207", !.own = own] = Shape("207", {}, own, {}, {})
    BY Shapes, Zenon
  <1>3. Answer("home", Shape("207", {}, own, {}, {}), {})
    BY <1>2, Zenon DEF PropfindHome, Respond
  <1> HIDE DEF own
  <1>4. QED BY <1>1, <1>3, Sends

(* A report of everything takes away what it does not list, a multiget what  *)
(* it answers with 404.                                                      *)
ReportDropped ==
  IF Everything THEN Unlisted
  ELSE {n \in Names : KindOf[n] = req.area /\ [name |-> n, area |-> req.area] \in Unmatched}

LEMMA DroppedAbsent ==
  ASSUME WorldInv, OfReport(req), scan.done, MultigetsPlain, NEW n \in ReportDropped
  PROVE  Absent(n)
  <1>1. CASE Everything
    BY <1>1, UnlistedAbsent DEF ReportDropped
  <1>2. CASE ~Everything
    <2> DEFINE h == [name |-> n, area |-> req.area]
    <2>1. n \in Names /\ KindOf[n] = req.area /\ h \in Unmatched
      BY <1>2 DEF ReportDropped
    <2>2. h \in req.doc.hrefs /\ req.doc.filters = {} /\ req.doc.parts = {}
      BY <2>1 DEF Unmatched, MultigetsPlain, OfReport
    <2>3. ASSUME NEW r \in Named(Visible(KindOf[n]), n) PROVE FALSE
      <3>1. r \in Visible(req.area) /\ r.name = n
        BY <2>1, <2>3 DEF Named
      <3>2. n \in SuffixesOf[n]
        BY <2>1, ReadsAssumption
      <3>3. h \in HrefsOf(req.doc, r, req.area)
        BY <2>2, <3>1, <3>2 DEF HrefsOf
      <3>4. r \in Selected
        BY <2>2, <3>1, <3>3 DEF Selected, Matching, PartsMatch
      <3>5. QED BY <2>1, <3>3, <3>4 DEF Unmatched
    <2>4. QED BY <2>3, Unseen
  <1>3. QED BY <1>1, <1>2

LEMMA ReportEffect ==
  ASSUME Report
  PROVE  /\ pc = "report" /\ Reading /\ scan.done
         /\ \E E : /\ E = {Entry(r, Reported(req.doc), req.doc.props \ ReportProps) : r \in Selected}
                   /\ Answer("report", Shape("207", E, {}, Unmatched, {}), ReportDropped)
  <1> DEFINE E == {Entry(r, Reported(req.doc), req.doc.props \ ReportProps) : r \in Selected}
  <1>1. [Nothing EXCEPT !.status = "207", !.entries = E, !.gone = Unmatched]
          = Shape("207", E, {}, Unmatched, {})
    BY Shapes, Zenon
  <1>2. Answer("report", Shape("207", E, {}, Unmatched, {}), ReportDropped)
    BY <1>1, Zenon DEF Report, ReportDropped
  <1>3. pc = "report" /\ Reading /\ scan.done
    BY DEF Report, Snapshot
  <1>4. QED BY <1>2, <1>3

LEMMA ReportAnswers ==
  ASSUME WorldInv, RequestInv, Report
  PROVE  Answered
  <1>1. Reading /\ scan.done /\ OfReport(req)
    BY ReportEffect DEF RequestInv, Scanning
  <1>2. PICK E : /\ E = {Entry(r, Reported(req.doc), req.doc.props \ ReportProps) : r \in Selected}
                 /\ Answer("report", Shape("207", E, {}, Unmatched, {}), ReportDropped)
    BY ReportEffect
  <1>3. \A e \in E : e.row \in scan.rows
    BY <1>2 DEF Entry, Selected, Visible
  <1>4. ReportDropped \in SUBSET Names
    BY DEF ReportDropped, Unlisted
  <1>5. QED BY <1>1, <1>2, <1>3, <1>4, DroppedAbsent, Sends

LEMMA ServeSteps ==
  ASSUME WorldInv, RequestInv, Serve
  PROVE  ScanPage \/ Begun \/ Answered
  <1>1. CASE Parse
    BY <1>1, ParseAnswers, RouteBegins DEF Parse
  <1>2. CASE ScanFails \/ ScanRefused
    BY <1>2, ScanFailsAnswers
  <1>3. CASE Get
    BY <1>3, GetAnswers
  <1>4. CASE PropfindResource \/ PropfindCollection \/ PropfindList \/ PropfindHome
    BY <1>4, PropfindResourceAnswers, PropfindCollectionAnswers, PropfindListAnswers,
       PropfindHomeAnswers
  <1>5. CASE Report
    BY <1>5, ReportAnswers
  <1>6. QED BY <1>1, <1>2, <1>3, <1>4, <1>5 DEF Serve

-----------------------------------------------------------------------------
(* Every step.                                                               *)

Inv == WorldInv /\ RequestInv

LEMMA RequestsKept ==
  ASSUME RequestInv, UNCHANGED <<pc, req, held>>
  PROVE  RequestInv'
  <1>1. ReportAccepted(req.doc, req.area)' <=> ReportAccepted(req.doc, req.area)
    BY DEF ReportAccepted, RangeAccepted
  <1>2. Conditional(req) => Conditional(req)'
    BY DEF Conditional, TagsHeld, DatesHeld, Date
  <1>3. QED BY <1>1, <1>2 DEF RequestInv, OfResource, OfReport

LEMMA HeldKept ==
  ASSUME WorldInv, Anew, UNCHANGED held
  PROVE  WorldInv'
  <1>1. UNCHANGED <<object, archived, held, clock, changed>>
    BY DEF Anew, time
  <1>2. HeldInv'
    BY <1>1 DEF WorldInv, HeldInv, Sent, LiveNamed, Live, Created, RowOf
  <1>3. QED BY <1>2, AnewStep DEF WorldInv

LEMMA Steps ==
  ASSUME Inv, [Next]_vars
  PROVE  Inv' /\ (Answered \/ pc' # "idle" \/ UNCHANGED vars)
  <1>1. WorldInv /\ RequestInv
    BY DEF Inv
  <1>2. CASE Answered
    <2>1. PICK from, a, dropped : Answer(from, a, dropped) /\ Replies(a, dropped)
      BY <1>2 DEF Answered
    <2>2. WorldInv'
      BY <1>1, <2>1, AnswerWorld DEF Replies
    <2>3. pc' = "idle"
      BY <2>1 DEF Answer
    <2>4. QED BY <1>2, <2>2, <2>3 DEF Inv, RequestInv, Scanning
  <1>3. CASE Begun
    <2>1. pc' # "idle"
      BY <1>3 DEF Begun, Scanning
    <2>2. QED BY <1>1, <1>3, <2>1, HeldKept DEF Begun, Inv
  <1>4. CASE ScanPage
    <2>1. UNCHANGED <<pc, req, held>> /\ pc # "idle"
      BY <1>4 DEF ScanPage, control, Scanning
    <2>2. QED BY <1>1, <1>4, <2>1, PageStep, RequestsKept DEF Inv
  <1>5. CASE Done
    <2>1. pc' = "ready" /\ UNCHANGED held /\ Anew
      BY <1>1, <1>5 DEF Done, Anew, repository, WorldInv, ScanInv, Scanning
    <2>2. QED BY <1>1, <2>1, HeldKept DEF Inv, RequestInv, Scanning
  <1>6. ASSUME NEW r \in Gets \cup Propfinds \cup Reports \cup Others, Receive(r)
        PROVE  Inv' /\ pc' = "parse"
    <2>1. pc' = "parse" /\ req' = r /\ UNCHANGED held /\ Anew
      BY <1>1, <1>6 DEF Receive, Anew, repository, WorldInv, ScanInv, Scanning
    <2>2. (OfResource(r) => Conditional(r)) /\ (r.method = "REPORT" => OfReport(r))
      BY Requests
    <2>3. Conditional(r) => Conditional(req)'
      BY <2>1 DEF Conditional, TagsHeld, DatesHeld, Date
    <2>4. RequestInv'
      BY <2>1, <2>2, <2>3 DEF RequestInv, OfResource, OfReport
    <2>5. QED BY <1>1, <2>1, <2>4, HeldKept DEF Inv
  <1>7. CASE Tick
    <2>1. UNCHANGED <<pc, req, held>> /\ pc # "idle"
      BY <1>7 DEF Tick, control
    <2>2. QED BY <1>1, <1>7, <2>1, TickStep, RequestsKept DEF Inv
  <1>8. CASE Change
    <2>1. UNCHANGED <<pc, req, held>> /\ pc # "idle"
      BY <1>8 DEF Change, control, Scanning
    <2>2. QED BY <1>1, <1>8, <2>1, ChangeSpace, ChangeScan, ChangeHeld, RequestsKept
              DEF Inv, WorldInv
  <1>9. CASE UNCHANGED vars
    <2>1. /\ UNCHANGED <<pc, req, held>>
          /\ UNCHANGED <<object, archived, late, foreign, touched, recent, cache, scan, call, reads,
                         clock, changed>>
      BY <1>9 DEF vars, space, repository, control, time
    <2>2. RequestInv'
      BY <1>1, <2>1, RequestsKept
    <2>3. SpaceInv' /\ TimeInv'
      BY <1>1, <2>1 DEF WorldInv, SpaceInv, TimeInv, ObjectsTyped, InOrder, Created, Live
    <2>4. HeldInv'
      BY <1>1, <2>1 DEF WorldInv, HeldInv, Sent, LiveNamed, Live, Created, RowOf
    <2>5. ScanInv'
      <3>1. Live' = Live /\ \A i : RowOf(i)' = RowOf(i) /\ Position(i)' = Position(i)
        BY <2>1, Unmoved
      <3>2. RankInv'
        BY <1>1, <2>1, <3>1 DEF WorldInv, ScanInv, RankInv, Ids, Below
      <3>3. (Shifted \/ Listed)'
        BY <1>1, <2>1, <3>1 DEF WorldInv, ScanInv, Shifted, Listed, Covered
      <3>4. \A r \in scan.rows : NamesObject(r)' /\ IsCurrent(r)' /\ Timely(r)'
        BY <1>1, <2>1, <3>1 DEF WorldInv, ScanInv, NamesObject, IsCurrent, Timely, LiveNamed, Created
      <3>5. QED BY <1>1, <2>1, <3>2, <3>3, <3>4 DEF WorldInv, ScanInv
    <2>6. QED BY <1>9, <2>2, <2>3, <2>4, <2>5 DEF Inv, WorldInv
  <1>10. QED BY <1>1, <1>2, <1>3, <1>4, <1>5, <1>6, <1>7, <1>8, <1>9, ServeSteps DEF Next, ScanPage

LEMMA Initially == Init => Inv
  <1> SUFFICES ASSUME Init PROVE Inv
    OBVIOUS
  <1>1. /\ scan = NewScan /\ pc = "ready" /\ touched = {} /\ archived = {} /\ clock = 0
        /\ held = [n \in Names |-> NoCopy]
    BY DEF Init
  <1>2. SpaceInv
    BY SpaceAssumption DEF Init, SpaceInv, ObjectsTyped, InOrder, Live
  <1>3. TimeInv
    BY ReadsAssumption DEF Init, TimeInv
  <1>4. ScanInv
    <2>1. NewScan \in Scans /\ NewScan.rows = {} /\ ~NewScan.done /\ NewScan.offset = 0
      BY DEF NewScan, Scans
    <2>2. Listed
      BY <1>1, <2>1, PositionType DEF Listed, Covered
    <2>3. RankInv
      <3>1. Ids = {} /\ scan.rows = {}
        BY <1>1, <2>1 DEF Ids
      <3>2. Cardinality({}) = 0 /\ IsFiniteSet({})
        BY FS_EmptySet
      <3>3. QED BY <1>1, <2>1, <3>1, <3>2 DEF RankInv
    <2>4. QED BY <1>1, <2>1, <2>2, <2>3 DEF ScanInv
  <1>5. HeldInv
    BY <1>1 DEF HeldInv
  <1>6. RequestInv
    BY <1>1 DEF RequestInv, Scanning
  <1>7. QED BY <1>2, <1>3, <1>4, <1>5, <1>6 DEF Inv, WorldInv

LEMMA InvAlways == Spec => []Inv
  BY Initially, Steps, PTL DEF Spec

-----------------------------------------------------------------------------
(* A client that follows the answers holds what the Space holds.             *)

LEMMA CurrentStep ==
  ASSUME MultigetsPlain, Inv, CopyCurrent, [Next]_vars
  PROVE  CopyCurrent'
  <1>1. CASE Answered
    <2>1. PICK from, a, dropped : Answer(from, a, dropped) /\ Replies(a, dropped)
      BY <1>1 DEF Answered
    <2>2. QED BY <2>1, AnswerCurrent DEF Replies, Inv
  <1>2. CASE pc' # "idle"
    BY <1>2 DEF CopyCurrent
  <1>3. CASE UNCHANGED vars
    <2>1. Live' = Live /\ \A i : RowOf(i)' = RowOf(i) /\ Position(i)' = Position(i)
      BY <1>3, Unmoved DEF vars, space
    <2>2. /\ UNCHANGED <<pc, req, answer, held, changed, touched, archived, object>>
          /\ \A n : LiveNamed(n)' = LiveNamed(n)
      BY <1>3, <2>1 DEF vars, space, control, time, LiveNamed
    <2>3. \A n : (Excused(n)' <=> Excused(n)) /\ (Shifted' <=> Shifted)
      BY <2>1, <2>2 DEF Excused, Shifted
    <2>4. QED BY <2>1, <2>2, <2>3 DEF CopyCurrent
  <1>4. QED BY <1>1, <1>2, <1>3, Steps

(* What a client concludes from the answers of get, propfind and report is   *)
(* true of the Space: a resource it was sent, or told with 304 to keep, is   *)
(* the stored version, and one it was told with 404 or by a full listing is  *)
(* gone has no object, unless another client changed it while the request    *)
(* was served or the date of the 304 could not tell.  This holds however     *)
(* many pages a read takes and however the Space changes between them.       *)
THEOREM CopiesStayCurrent ==
  ASSUME MultigetsPlain
  PROVE  Spec => []CopyCurrent
  <1>1. Init => CopyCurrent
    BY DEF Init, CopyCurrent
  <1>2. QED BY <1>1, InvAlways, CurrentStep, PTL DEF Spec

-----------------------------------------------------------------------------
(* Reports.                                                                  *)

(* Once a report is answered, the handler has just run.                      *)
LEMMA ReportSteps ==
  ASSUME Inv, [Next]_vars, Reported207', ~UNCHANGED vars
  PROVE  Report
  <1>1. pc' = "idle" /\ req'.method = "REPORT" /\ answer'.status = "207"
    BY DEF Reported207
  <1>2. PICK from, a, dropped : Answer(from, a, dropped) /\ Replies(a, dropped)
    BY <1>1, Steps DEF Answered
  <1>3. Shaped(a) /\ (req.method = "REPORT" /\ a.status = "207" => Report)
    BY <1>2 DEF Replies
  <1>4. req' = req /\ answer'.status = a.status
    BY <1>2, <1>3, AnswerEffect
  <1>5. QED BY <1>1, <1>3, <1>4

(* The answer of a report, and the Space it was made from.                   *)
LEMMA ReportAnswer ==
  ASSUME Inv, Report
  PROVE  /\ req' = req /\ answer'.gone = Unmatched
         /\ answer'.entries = {Entry(r, Reported(req.doc), req.doc.props \ ReportProps) : r \in Selected}
         /\ {e.row : e \in answer'.entries} = Selected
         /\ Live' = Live /\ \A i : RowOf(i)' = RowOf(i)
         /\ UNCHANGED <<object, archived, touched>>
         /\ scan.done /\ OfReport(req) /\ ReportAccepted(req.doc, req.area)
  <1>1. PICK E : /\ E = {Entry(r, Reported(req.doc), req.doc.props \ ReportProps) : r \in Selected}
                 /\ Answer("report", Shape("207", E, {}, Unmatched, {}), ReportDropped)
    BY ReportEffect
  <1> DEFINE a == Shape("207", E, {}, Unmatched, {})
  <1>2. Shaped(a) /\ a.entries = E /\ a.gone = Unmatched
    BY DEF Shaped, Shape
  <1>3. Answer("report", a, ReportDropped)
    BY <1>1
  <1> HIDE DEF a
  <1>4. req' = req /\ answer'.entries = E /\ answer'.gone = Unmatched
    BY <1>2, <1>3, AnswerEffect
  <1>5. {e.row : e \in E} = Selected
    <2> DEFINE entry(r) == Entry(r, Reported(req.doc), req.doc.props \ ReportProps)
    <2>1. \A r : entry(r).row = r
      BY DEF Entry
    <2>2. \A r \in Selected : entry(r) \in E
      BY <1>1
    <2>3. \A e \in E : \E r \in Selected : e = entry(r)
      BY <1>1
    <2> HIDE DEF entry
    <2>4. QED BY <2>1, <2>2, <2>3
  <1>6. UNCHANGED <<object, archived, touched>>
    BY ReportEffect DEF Reading, space
  <1>7. scan.done /\ OfReport(req) /\ ReportAccepted(req.doc, req.area)
    BY ReportEffect DEF Inv, RequestInv, Scanning
  <1>8. QED BY <1>1, <1>4, <1>5, <1>6, <1>7, Unmoved

LEMMA MultigetStep ==
  ASSUME Inv, Report
  PROVE  MultigetAnswersEvery'
  <1> DEFINE doc == req.doc
             entries == answer'.entries
             about(h) == {e \in entries : e.row.name = h.name /\ h.area = req.area}
  <1>1. /\ req' = req /\ answer'.gone = Unmatched
        /\ \A e \in entries : e.row \in Selected
        /\ \A r \in Selected : \E e \in entries : e.row = r
    BY ReportAnswer
  <1>2. \A r \in Selected : r.name \in SuffixesOf[r.name]
    BY ReadsAssumption DEF Selected, Visible, Inv, WorldInv, ScanInv, Scans, Rows
  <1>3. ASSUME NEW h \in doc.hrefs
        PROVE  \/ (about(h) # {}) # (h \in answer'.gone)
               \/ \E e \in entries : e.row.name \in SuffixesOf[h.name] \ {h.name}
    <2>1. CASE h \in Unmatched
      <3>1. ASSUME NEW e \in about(h) PROVE FALSE
        <4>1. e.row \in Selected /\ e.row.name = h.name /\ h.area = req.area
          BY <1>1, <3>1
        <4>2. h \in HrefsOf(doc, e.row, req.area)
          BY <1>2, <1>3, <4>1 DEF HrefsOf
        <4>3. QED BY <2>1, <4>1, <4>2 DEF Unmatched
      <3>2. QED BY <1>1, <2>1, <3>1
    <2>2. CASE h \notin Unmatched
      <3>1. PICK r \in Selected : h \in HrefsOf(doc, r, req.area)
        BY <1>3, <2>2 DEF Unmatched
      <3>2. h.area = req.area /\ r.name \in SuffixesOf[h.name]
        BY <3>1 DEF HrefsOf
      <3>3. PICK e \in entries : e.row = r
        BY <1>1, <3>1
      <3>4. CASE r.name = h.name
        BY <1>1, <2>2, <3>2, <3>3, <3>4
      <3>5. QED BY <3>2, <3>3, <3>4
    <2>3. QED BY <2>1, <2>2
  <1>4. ASSUME doc.hrefs # {}, NEW e \in entries
        PROVE  \E h \in doc.hrefs : e.row.name \in SuffixesOf[h.name]
    <2>1. HrefsOf(doc, e.row, req.area) # {}
      BY <1>1, <1>4 DEF Selected
    <2>2. QED BY <2>1 DEF HrefsOf
  <1>5. QED BY <1>1, <1>3, <1>4 DEF MultigetAnswersEvery

(* A multiget answers each of its hrefs once, with the resource or with 404, *)
(* and sends nothing else: report reads the Space once, selects by the       *)
(* hrefs, and answers 404 for those that selected nothing.  Only a name that *)
(* ends with another may be answered with that other one instead.            *)
THEOREM MultigetsAreAnswered == Spec => []MultigetAnswersEvery
  <1>1. Init => MultigetAnswersEvery
    BY DEF Init, MultigetAnswersEvery, Reported207
  <1>2. ASSUME Inv, MultigetAnswersEvery, [Next]_vars
        PROVE  MultigetAnswersEvery'
    <2>1. CASE UNCHANGED vars
      BY <1>2, <2>1 DEF vars, control, MultigetAnswersEvery, Reported207
    <2>2. CASE ~Reported207'
      BY <2>2 DEF MultigetAnswersEvery
    <2>3. QED BY <1>2, <2>1, <2>2, ReportSteps, MultigetStep
  <1>3. QED BY <1>1, <1>2, InvAlways, PTL DEF Spec

(* Time values that name a moment are pairs of numbers, which Before orders. *)
LEMMA KeysOrdered ==
  ASSUME NEW times \in SUBSET Moments
  PROVE  \A k \in Keys(times) : k = <<k[1], k[2]>> /\ k[1] \in Nat /\ k[2] \in Nat
  <1>1. ASSUME NEW t \in Moments, NEW k \in NormalizeTime(t)
        PROVE  k = <<k[1], k[2]>> /\ k[1] \in Nat /\ k[2] \in Nat
    <2>1. /\ t.year \in Nat /\ t.month \in Nat /\ t.day \in Nat
          /\ t.hour \in Nat /\ t.minute \in Nat /\ t.second \in Nat
      BY DEF Moments
    <2>2. PICK x, y : /\ k = <<x, y>> /\ x = t.year * 10000 + t.month * 100 + t.day
                      /\ y = IF t.form = "date" THEN 0
                             ELSE t.hour * 10000 + t.minute * 100 + t.second
      BY <1>1 DEF NormalizeTime
    <2>3. x \in Nat /\ y \in Nat
      BY <2>1, <2>2
    <2>4. QED BY <2>2, <2>3
  <1>2. QED BY <1>1 DEF Keys

LEMMA BeforeTotal ==
  ASSUME NEW a, a = <<a[1], a[2]>>, a[1] \in Nat, a[2] \in Nat,
         NEW b, b = <<b[1], b[2]>>, b[1] \in Nat, b[2] \in Nat
  PROVE  ~Before(a, b) <=> (b = a \/ Before(b, a))
  <1>1. b = a <=> (a[1] = b[1] /\ a[2] = b[2])
    OBVIOUS
  <1>2. QED BY <1>1 DEF Before

(* A task with at most one due time has at most one moment.                  *)
LEMMA OneMoment ==
  ASSUME NEW times, IsFiniteSet(times), Cardinality(times) <= 1,
         NEW u \in Keys(times), NEW v \in Keys(times)
  PROVE  u = v
  <1>1. PICK s \in times : u \in NormalizeTime(s)
    BY DEF Keys
  <1>2. PICK t \in times : v \in NormalizeTime(t)
    BY DEF Keys
  <1>3. s = t
    <2>1. CASE s # t
      <3>1. {s, t} \in SUBSET times
        BY <1>1, <1>2
      <3>2. IsFiniteSet({s, t}) /\ Cardinality({s, t}) <= Cardinality(times)
            /\ Cardinality({s, t}) \in Nat /\ Cardinality(times) \in Nat
        BY <3>1, FS_Subset, FS_CardinalityType
      <3>3. Cardinality({s}) = 1 /\ IsFiniteSet({s})
        BY FS_Singleton
      <3>4. Cardinality({s} \cup {t}) = Cardinality({s}) + 1
        BY <2>1, <3>3, FS_AddElement
      <3>5. {s, t} = {s} \cup {t}
        OBVIOUS
      <3>6. QED BY <3>2, <3>3, <3>4, <3>5
    <2>2. QED BY <2>1
  <1>4. QED BY <1>1, <1>2, <1>3 DEF NormalizeTime

(* The handler's test of each bound is the test of the one due time.         *)
LEMMA DueInMatches ==
  ASSUME NEW filter, filter.prop = "DUE", filter.text = {},
         filter.start \cup filter.end \subseteq Moments, filter.start \cup filter.end # {},
         RangeAccepted(filter), NEW row, row.body \in Bodies, Cardinality(DueOf[row.body]) <= 1
  PROVE  DueIn(row.body, filter) <=> FilterMatches(filter, row)
  <1> DEFINE due == Keys(DueOf[row.body])
             from == Keys(filter.start)
             to == Keys(filter.end)
  <1>1. /\ \A v \in due : v = <<v[1], v[2]>> /\ v[1] \in Nat /\ v[2] \in Nat
        /\ \A s \in from : s = <<s[1], s[2]>> /\ s[1] \in Nat /\ s[2] \in Nat
    BY KeysOrdered, DueTyped
  <1>2. \A v \in due, s \in from : ~Before(v, s) <=> (v = s \/ Before(s, v))
    BY <1>1, BeforeTotal
  <1>3. \A u, v \in due : u = v
    BY OneMoment, DueTyped
  <1>4. from # {} \/ to # {}
    BY DEF RangeAccepted
  <1>5. FilterMatches(filter, row) <=>
          /\ \A s \in from : \E v \in due : ~Before(v, s)
          /\ \A e \in to : \E v \in due : Before(v, e)
    BY DEF FilterMatches, EndsBy, Values
  <1>6. DueIn(row.body, filter) <=>
          \E v \in due : (\A s \in from : v = s \/ Before(s, v)) /\ (\A e \in to : Before(v, e))
    BY DEF DueIn
  <1> HIDE DEF due, from, to
  <1>7. QED BY <1>2, <1>3, <1>4, <1>5, <1>6

LEMMA RangeStep ==
  ASSUME Inv, Report
  PROVE  RangeExact'
  <1>1. /\ req' = req /\ {e.row : e \in answer'.entries} = Selected
        /\ Live' = Live /\ \A i : RowOf(i)' = RowOf(i)
        /\ UNCHANGED <<object, archived, touched>>
        /\ scan.done /\ OfReport(req) /\ ReportAccepted(req.doc, req.area)
    BY ReportAnswer
  <1>2. ASSUME NEW f \in req.doc.filters, f.prop = "DUE", req.doc.filters = {f},
               req.doc.parts = {}, req.doc.hrefs = {}, f.text = {}, f.start \cup f.end # {},
               NEW i \in Live \ touched, KindOf[object[i].name] = req.area,
               Cardinality(DueOf[object[i].body]) <= 1
        PROVE  \/ DueIn(object[i].body, f) <=> RowOf(i) \in Selected
               \/ Shifted /\ DueIn(object[i].body, f)
    <2>1. RangeAccepted(f) /\ f.start \cup f.end \subseteq Moments
      BY <1>1, <1>2, ReportsTyped DEF ReportAccepted, OfReport
    <2>2. RowOf(i).body = object[i].body /\ RowOf(i).name = object[i].name /\ RowOf(i) \in Rows
      BY RowFields DEF RowOf, Inv, WorldInv, SpaceInv
    <2>3. object[i].body \in Bodies
      BY <2>2 DEF Rows
    <2>4. DueIn(object[i].body, f) <=> FilterMatches(f, RowOf(i))
      BY <1>2, <2>1, <2>2, <2>3, DueInMatches
    <2>5. RowOf(i) \in Selected <=> RowOf(i) \in scan.rows /\ FilterMatches(f, RowOf(i))
      BY <1>2, <2>2 DEF Selected, Visible, Matching, PartsMatch
    <2>6. Shifted \/ RowOf(i) \in scan.rows
      BY <1>1, <1>2 DEF Inv, WorldInv, ScanInv, Listed, Covered
    <2>7. QED BY <2>4, <2>5, <2>6
  <1>3. (Shifted' <=> Shifted) /\ \A b, f : DueIn(b, f)' <=> DueIn(b, f)
    BY <1>1 DEF Shifted, DueIn
  <1>4. QED BY <1>1, <1>2, <1>3 DEF RangeExact

(* A time-range query of report sends the tasks due in the range, no other   *)
(* one, each at the version just read: matching the start and the end each   *)
(* against any value of DUE is exact for a task with one, a date or a time,  *)
(* and a task that no other client touched is missed only when an archived   *)
(* one shifted the pages of the listing.                                     *)
THEOREM RangesAreExact == Spec => []RangeExact
  <1>1. Init => RangeExact
    BY DEF Init, RangeExact, Reported207
  <1>2. ASSUME Inv, RangeExact, [Next]_vars
        PROVE  RangeExact'
    <2>1. CASE UNCHANGED vars
      <3>1. UNCHANGED <<pc, req, answer, object, archived, touched>>
        BY <2>1 DEF vars, control, space
      <3>2. (Live' = Live) /\ (Shifted' <=> Shifted) /\ \A i : RowOf(i)' = RowOf(i)
        BY <3>1, Unmoved DEF Shifted
      <3>3. \A b, f : DueIn(b, f)' <=> DueIn(b, f)
        BY DEF DueIn
      <3>4. QED BY <1>2, <3>1, <3>2, <3>3 DEF RangeExact, Reported207
    <2>2. CASE ~Reported207'
      BY <2>2 DEF RangeExact
    <2>3. QED BY <1>2, <2>1, <2>2, ReportSteps, RangeStep
  <1>3. QED BY <1>1, <1>2, InvAlways, PTL DEF Spec
===============================================================================
