---------------------------- MODULE ListingProofs ----------------------------
(***************************************************************************)
(* Proofs about Listing for any number of chunks, batches and documents    *)
(* and any limit: what a cursor is worth that has a sort key and nothing   *)
(* else, while rows come and go.                                           *)
(***************************************************************************)
EXTENDS Listing, FiniteSetTheorems, TLAPS

\* Who walks through chunks gets chunks, and a chunk that was there stays.
ChunksOnly ==
  list = "chunks" =>
    /\ page \subseteq Chunks /\ got \subseteq Chunks /\ twice \subseteq Chunks
    /\ there \subseteq Rows("chunks")

\* If x comes before the key k or has it, then x was found, or a like of x was.
Covers(k, found, x) == x.key <= k => x \in found \/ \E y \in found : y # x /\ y.key = x.key

\* What has been returned up to the cursor: everything, but for the likes of a row.
ReturnedUpToCursor ==
  list = "chunks" /\ pages = "more" =>
    /\ cursor \in 0 .. Size - 1
    /\ twice = {}
    /\ \A x \in got : x.key <= cursor
    /\ \A x \in there : Covers(cursor, got, x)

ListingInv == TypeOK /\ ChunksOnly /\ ReturnedUpToCursor /\ WalkReturnsEachRow

-------------------------------------------------------------------------------
(* Pages. *)

\* The tables are finite.
LEMMA RowsAreFinite ==
  ASSUME NEW A, IsFiniteSet(A), NEW B, IsFiniteSet(B)
  PROVE  IsFiniteSet([key : A, id : B])
<1> DEFINE f == [p \in A \X B |-> [key |-> p[1], id |-> p[2]]]
<1>1. IsFiniteSet(A \X B)
  BY FS_Product
<1>2. f \in Surjection(A \X B, [key : A, id : B])
  <2>1. f \in [A \X B -> [key : A, id : B]]
    OBVIOUS
  <2>2. ASSUME NEW x \in [key : A, id : B] PROVE \E p \in A \X B : f[p] = x
    <3>1. <<x.key, x.id>> \in A \X B /\ f[<<x.key, x.id>>] = x
      OBVIOUS
    <3> QED
      BY <3>1
  <2> QED
    BY <2>1, <2>2 DEF Surjection
<1> QED
  BY <1>1, <1>2, FS_Surjection

\* Both lists are finite, and made of what they are lists of.
LEMMA RowsTypes ==
  ASSUME TypeOK
  PROVE  /\ IsFiniteSet(Rows("chunks")) /\ Rows("chunks") \subseteq Chunks
         /\ IsFiniteSet(Rows("documents")) /\ Rows("documents") \subseteq Uploads
<1>1. IsFiniteSet(0 .. Size - 1)
  BY SizeAssumption, FS_Interval
<1>2. IsFiniteSet(batches) /\ IsFiniteSet(docs) /\ IsFiniteSet({0})
  BY FiniteAssumption, FS_Subset, FS_Singleton DEF TypeOK
<1>3. IsFiniteSet(Rows("chunks")) /\ IsFiniteSet(Rows("documents"))
  BY <1>1, <1>2, RowsAreFinite DEF Rows
<1> QED
  BY <1>3 DEF Rows, Chunks, Uploads, TypeOK

\* A page is part of the rows, no longer than asked for, and all of them if they fit.
LEMMA PageIsCut ==
  ASSUME NEW l, NEW lim \in Nat, NEW rows, IsFiniteSet(rows), NEW P \in Pages(l, lim, rows)
  PROVE  /\ P \subseteq rows /\ Cardinality(P) <= lim
         /\ Cardinality(rows) <= lim => P = rows
<1>1. Cardinality(rows) \in Nat
  BY FS_CardinalityType
<1>2. P \in SUBSET rows /\ Cardinality(P) = Cut(Cardinality(rows), lim)
  BY DEF Pages
<1>3. Cardinality(P) <= lim /\ (Cardinality(rows) <= lim => Cardinality(P) = Cardinality(rows))
  BY <1>1, <1>2 DEF Cut
<1> QED
  BY <1>2, <1>3, FS_Subset

\* The last key of a page of chunks is the largest on it, and no row was passed over before it.
LEMMA LastKeyCovers ==
  ASSUME NEW lim \in Nat, NEW rows \in SUBSET Chunks, NEW P \in Pages("chunks", lim, rows),
         NEW k \in LastKeys("chunks", P)
  PROVE  /\ k \in 0 .. Size - 1
         /\ \A x \in P : x.key <= k
         /\ \A x \in rows : Covers(k, P, x)
<1>1. PICK z \in P : z.key = k /\ \A y \in P : ~Precedes("chunks", z, y)
  BY DEF LastKeys
<1>2. P \subseteq rows /\ \A x \in P, y \in rows \ P : ~Precedes("chunks", y, x)
  BY DEF Pages
<1>3. \A x \in rows : x.key \in Int
  BY SizeAssumption DEF Chunks
<1>4. k \in 0 .. Size - 1
  BY <1>1, <1>2 DEF Chunks
<1>5. \A x \in P : x.key <= k
  BY <1>1, <1>2, <1>3 DEF Precedes
<1>6. \A x \in rows : Covers(k, P, x)
  <2> SUFFICES ASSUME NEW x \in rows, x.key <= k, x \notin P
               PROVE  \E y \in P : y # x /\ y.key = x.key
    BY DEF Covers
  <2>1. z.key = x.key
    BY <1>1, <1>2, <1>3, <1>4 DEF Precedes
  <2> QED
    BY <1>1, <2>1
<1> QED
  BY <1>4, <1>5, <1>6

\* The last key of any page is a key of its rows.
LEMMA LastKeyIsKey ==
  ASSUME NEW l, NEW lim, NEW rows, NEW P \in Pages(l, lim, rows), NEW k \in LastKeys(l, P)
  PROVE  \E x \in rows : k = x.key
BY DEF LastKeys, Pages

-------------------------------------------------------------------------------
(* The inductive invariant holds at the start and is kept by every step. *)

\* Nobody walks.
LEMMA ListingInvInit == Init => ListingInv
<1> SUFFICES ASSUME Init PROVE ListingInv
  OBVIOUS
<1>1. Cardinality({}) = 0
  BY FS_EmptySet
<1> QED
  BY <1>1, LimitAssumption
  DEF Init, ListingInv, TypeOK, ChunksOnly, ReturnedUpToCursor, WalkReturnsEachRow

\* The first page of chunks covers what is there up to its last key.
LEMMA FirstPageKeeps ==
  ASSUME ListingInv, FirstPage
  PROVE  ListingInv'
<1>1. PICK l \in {"chunks", "documents"}, lim \in 0 .. MaxLimit :
        /\ list' = l /\ limit' = lim
        /\ there' = Rows(l) /\ twice' = {}
        /\ \/ Answer(l, lim, Rows(l)) /\ got' = page'
           \/ pages' = "error" /\ cursor' = None /\ page' = {} /\ got' = {}
        /\ UNCHANGED table
  BY DEF FirstPage
<1>2. lim \in Nat /\ IsFiniteSet(Rows(l)) /\ (l = "chunks" => Rows(l) \subseteq Chunks)
        /\ (l = "documents" => Rows(l) \subseteq Uploads)
  BY LimitAssumption, RowsTypes DEF ListingInv
<1>3. /\ Rows("chunks")' = Rows("chunks")
      /\ batches' = batches /\ docs' = docs /\ deleted' = deleted
  BY <1>1 DEF Rows, table
<1>4. CASE pages' = "error" /\ cursor' = None /\ page' = {} /\ got' = {}
  <2>1. Cardinality(page') <= limit'
    BY <1>1, <1>2, <1>4, FS_EmptySet
  <2> QED
    BY <1>1, <1>2, <1>3, <1>4, <2>1
    DEF ListingInv, TypeOK, ChunksOnly, ReturnedUpToCursor, WalkReturnsEachRow
<1>5. CASE Answer(l, lim, Rows(l)) /\ got' = page'
  <2>1. PICK P \in Pages(l, lim, Rows(l)) :
          /\ page' = P
          /\ IF Cardinality(Rows(l)) > lim
             THEN pages' = "more" /\ cursor' \in LastKeys(l, P)
             ELSE pages' = "last" /\ cursor' = None
    BY <1>5 DEF Answer
  <2>2. /\ P \subseteq Rows(l) /\ Cardinality(P) <= lim
        /\ Cardinality(Rows(l)) <= lim => P = Rows(l)
    BY <1>2, PageIsCut
  <2>3. Cardinality(Rows(l)) \in Nat
    BY <1>2, FS_CardinalityType
  <2>4. CASE Cardinality(Rows(l)) > lim
    <3>1. pages' = "more" /\ cursor' \in LastKeys(l, P)
      BY <2>1, <2>4
    <3>2. \E x \in Rows(l) : cursor' = x.key
      BY <3>1, LastKeyIsKey
    <3>3. l = "chunks" => /\ cursor' \in 0 .. Size - 1
                          /\ \A x \in P : x.key <= cursor'
                          /\ \A x \in Rows(l) : Covers(cursor', P, x)
      BY <1>2, <3>1, LastKeyCovers
    <3>4. TypeOK'
      BY <1>1, <1>2, <1>3, <1>5, <2>1, <2>2, <3>1, <3>2 DEF ListingInv, TypeOK, Chunks, Uploads
    <3>5. ChunksOnly'
      BY <1>1, <1>2, <1>3, <1>5, <2>1, <2>2 DEF ChunksOnly
    <3>6. ReturnedUpToCursor'
      BY <1>1, <1>5, <2>1, <3>3 DEF ReturnedUpToCursor, Covers
    <3>7. WalkReturnsEachRow'
      BY <3>1 DEF WalkReturnsEachRow
    <3> QED
      BY <3>4, <3>5, <3>6, <3>7 DEF ListingInv
  <2>5. CASE ~(Cardinality(Rows(l)) > lim)
    <3>1. pages' = "last" /\ cursor' = None /\ P = Rows(l)
      BY <1>2, <2>1, <2>2, <2>3, <2>5
    <3>2. TypeOK'
      BY <1>1, <1>2, <1>3, <1>5, <2>1, <2>2, <3>1 DEF ListingInv, TypeOK
    <3>3. ChunksOnly' /\ ReturnedUpToCursor' /\ WalkReturnsEachRow'
      BY <1>1, <1>2, <1>3, <1>5, <2>1, <3>1
      DEF ChunksOnly, ReturnedUpToCursor, WalkReturnsEachRow
    <3> QED
      BY <3>2, <3>3 DEF ListingInv
  <2> QED
    BY <2>4, <2>5
<1> QED
  BY <1>1, <1>4, <1>5

\* A further page takes up the walk right behind the cursor.
LEMMA NextChunksKeeps ==
  ASSUME ListingInv, NextChunks
  PROVE  ListingInv'
<1> DEFINE R == {x \in Rows("chunks") : After(x)}
<1>1. /\ list = "chunks" /\ pages = "more"
      /\ batches' = batches /\ docs' = docs /\ deleted' = deleted
      /\ list' = list /\ limit' = limit /\ there' = there
      /\ \/ /\ Answer("chunks", limit, R)
            /\ got' = got \cup page'
            /\ twice' = twice \cup (got \cap page')
         \/ pages' = "error" /\ UNCHANGED <<cursor, page, got, twice>>
  BY DEF NextChunks, table
<1>2. Rows("chunks")' = Rows("chunks")
  BY <1>1 DEF Rows
<1>3. CASE pages' = "error" /\ UNCHANGED <<cursor, page, got, twice>>
  BY <1>1, <1>2, <1>3
  DEF ListingInv, TypeOK, ChunksOnly, ReturnedUpToCursor, WalkReturnsEachRow
<1>4. CASE /\ Answer("chunks", limit, R)
           /\ got' = got \cup page'
           /\ twice' = twice \cup (got \cap page')
  <2>1. Rows("chunks") \subseteq Chunks /\ IsFiniteSet(Rows("chunks"))
    BY RowsTypes DEF ListingInv
  <2>2. R \subseteq Chunks /\ IsFiniteSet(R) /\ limit \in Nat
    BY <2>1, FS_Subset, LimitAssumption DEF ListingInv, TypeOK
  <2>3. cursor \in 0 .. Size - 1 /\ twice = {} /\ \A x \in got : x.key <= cursor
    BY <1>1 DEF ListingInv, ReturnedUpToCursor
  <2>4. cursor # None
    BY <2>3, SizeAssumption DEF None
  <2>5. \A x \in Chunks : x.key \in 0 .. Size - 1
    BY DEF Chunks
  <2>6. \A x \in Rows("chunks") : x \in R <=> x.key > cursor
    BY <2>4 DEF After
  <2>7. \A x \in there : x \in Rows("chunks") /\ Covers(cursor, got, x)
    BY <1>1 DEF ListingInv, ChunksOnly, ReturnedUpToCursor
  <2>8. PICK P \in Pages("chunks", limit, R) :
          /\ page' = P
          /\ IF Cardinality(R) > limit
             THEN pages' = "more" /\ cursor' \in LastKeys("chunks", P)
             ELSE pages' = "last" /\ cursor' = None
    BY <1>4 DEF Answer
  <2>9. P \subseteq R /\ Cardinality(P) <= limit /\ (Cardinality(R) <= limit => P = R)
    BY <2>2, PageIsCut
  <2>10. Cardinality(R) \in Nat
    BY <2>2, FS_CardinalityType
  <2>11. \A x \in P : x \in Rows("chunks") /\ x.key > cursor /\ x.key \in 0 .. Size - 1
    BY <2>1, <2>5, <2>6, <2>9
  <2>12. twice' = {}
    <3>1. \A x \in P : x \notin got
      BY <2>3, <2>11
    <3> QED
      BY <1>4, <2>3, <2>8, <3>1
  <2>13. ChunksOnly'
    BY <1>1, <1>2, <1>4, <2>1, <2>8, <2>9, <2>12 DEF ListingInv, ChunksOnly
  <2>14. got \subseteq Chunks /\ there \subseteq Chunks
    BY <1>1, <2>1 DEF ListingInv, ChunksOnly
  <2> HIDE DEF R
  <2>15. CASE Cardinality(R) > limit
    <3>1. pages' = "more" /\ cursor' \in LastKeys("chunks", P)
      BY <2>8, <2>15
    <3>2. /\ cursor' \in 0 .. Size - 1
          /\ \A x \in P : x.key <= cursor'
          /\ \A x \in R : Covers(cursor', P, x)
      BY <2>2, <3>1, LastKeyCovers
    <3>3. PICK z \in P : z.key = cursor'
      BY <3>1 DEF LastKeys
    <3>4. cursor < cursor'
      BY <2>11, <3>3
    <3>5. \A x \in got' : x.key <= cursor'
      BY <1>4, <2>3, <2>5, <2>8, <2>14, <3>2, <3>4
    <3>6. \A x \in there' : Covers(cursor', got', x)
      <4> SUFFICES ASSUME NEW x \in there, x.key <= cursor'
                   PROVE  x \in got' \/ \E y \in got' : y # x /\ y.key = x.key
        BY <1>1 DEF Covers
      <4>1. CASE x.key <= cursor
        BY <1>4, <2>7, <4>1 DEF Covers
      <4>2. CASE ~(x.key <= cursor)
        <5>1. x \in R
          BY <2>3, <2>5, <2>6, <2>7, <2>14, <4>2
        <5> QED
          BY <1>4, <2>8, <3>2, <5>1 DEF Covers
      <4> QED
        BY <4>1, <4>2
    <3>7. ReturnedUpToCursor'
      BY <2>12, <3>2, <3>5, <3>6 DEF ReturnedUpToCursor
    <3>8. TypeOK'
      BY <1>1, <1>4, <2>2, <2>8, <2>9, <2>12, <2>14, <3>1, <3>2 DEF ListingInv, TypeOK
    <3>9. WalkReturnsEachRow'
      BY <3>1 DEF WalkReturnsEachRow
    <3> QED
      BY <2>13, <3>7, <3>8, <3>9 DEF ListingInv
  <2>16. CASE ~(Cardinality(R) > limit)
    <3>1. pages' = "last" /\ cursor' = None /\ P = R
      BY <2>2, <2>8, <2>9, <2>10, <2>16
    <3>2. \A x \in there' \ got' : \E y \in got' : y # x /\ y.key = x.key
      <4> SUFFICES ASSUME NEW x \in there, x \notin got'
                   PROVE  \E y \in got' : y # x /\ y.key = x.key
        BY <1>1
      <4>1. x \notin R /\ x \notin got
        BY <1>4, <2>8, <3>1
      <4>2. x.key <= cursor
        BY <2>3, <2>5, <2>6, <2>7, <2>14, <4>1
      <4> QED
        BY <1>4, <2>7, <4>1, <4>2 DEF Covers
    <3>3. WalkReturnsEachRow'
      BY <2>12, <3>2 DEF WalkReturnsEachRow
    <3>4. ReturnedUpToCursor'
      BY <3>1 DEF ReturnedUpToCursor
    <3>5. TypeOK'
      BY <1>1, <1>4, <2>2, <2>8, <2>9, <2>12, <2>14, <3>1 DEF ListingInv, TypeOK
    <3> QED
      BY <2>13, <3>3, <3>4, <3>5 DEF ListingInv
  <2> QED
    BY <2>15, <2>16
<1> QED
  BY <1>1, <1>3, <1>4

\* What happens meanwhile adds chunks and takes only documents.
LEMMA MeanwhileKeeps ==
  ASSUME ListingInv,
         NextDocuments \/ (\E a \in Attempts : CommitBatch(a))
           \/ \E d \in Documents : CommitUpload(d) \/ DeleteDocument(d)
  PROVE  ListingInv'
<1>1. CASE NextDocuments
  BY <1>1 DEF NextDocuments, table, ListingInv, TypeOK, ChunksOnly, ReturnedUpToCursor,
         WalkReturnsEachRow, Rows
<1>2. ASSUME NEW a \in Attempts, CommitBatch(a) PROVE ListingInv'
  BY <1>2 DEF CommitBatch, walk, ListingInv, TypeOK, ChunksOnly, ReturnedUpToCursor,
         WalkReturnsEachRow, Rows, Covers
<1>3. ASSUME NEW d \in Documents, CommitUpload(d) PROVE ListingInv'
  BY <1>3 DEF CommitUpload, walk, ListingInv, TypeOK, ChunksOnly, ReturnedUpToCursor,
         WalkReturnsEachRow, Rows, Covers
<1>4. ASSUME NEW d \in Documents, DeleteDocument(d) PROVE ListingInv'
  <2>1. there' \subseteq there /\ (list = "chunks" => there' = there)
    BY <1>4 DEF DeleteDocument
  <2>2. TypeOK'
    BY <1>4, <2>1 DEF DeleteDocument, ListingInv, TypeOK
  <2>3. ChunksOnly'
    BY <1>4, <2>1 DEF DeleteDocument, ListingInv, ChunksOnly, Rows
  <2>4. ReturnedUpToCursor'
    BY <1>4, <2>1 DEF DeleteDocument, ListingInv, ReturnedUpToCursor, Covers
  <2>5. WalkReturnsEachRow'
    BY <1>4, <2>1 DEF DeleteDocument, ListingInv, WalkReturnsEachRow
  <2> QED
    BY <2>2, <2>3, <2>4, <2>5 DEF ListingInv
<1> QED
  BY <1>1, <1>2, <1>3, <1>4

\* Every step keeps the invariant.
LEMMA ListingInvStep == ListingInv /\ [Next]_vars => ListingInv'
<1> SUFFICES ASSUME ListingInv, [Next]_vars PROVE ListingInv'
  OBVIOUS
<1>1. CASE UNCHANGED vars
  BY <1>1 DEF vars, table, walk, ListingInv, TypeOK, ChunksOnly, ReturnedUpToCursor,
         WalkReturnsEachRow, Rows, Covers
<1> QED
  BY <1>1, FirstPageKeeps, NextChunksKeeps, MeanwhileKeeps DEF Next

-------------------------------------------------------------------------------
(* What the run checks on five chunks and two batches holds for any number of them. *)

\* What has been returned up to the cursor, at every reachable state.
THEOREM ListingInvariant == Spec => []ListingInv
<1>1. Init => ListingInv
  BY ListingInvInit
<1>2. ListingInv /\ [Next]_vars => ListingInv'
  BY ListingInvStep
<1> QED
  BY <1>1, <1>2, PTL DEF Spec

\* No page is longer than asked for (documents/service.py:230-232, 335-337).
THEOREM ListingTypes == Spec => []TypeOK
<1>1. ListingInv => TypeOK
  BY DEF ListingInv
<1> QED
  BY <1>1, ListingInvariant, PTL

\* A walk to the end misses nothing but the likes of a row that it returned, and returns nothing
\* twice (documents/service.py:330).
THEOREM ListingWalkReturnsEachRow == Spec => []WalkReturnsEachRow
<1>1. ListingInv => WalkReturnsEachRow
  BY DEF ListingInv
<1> QED
  BY <1>1, ListingInvariant, PTL
=============================================================================
