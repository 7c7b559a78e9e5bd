-------------------------------- MODULE Listing --------------------------------
(***************************************************************************)
(* A client's walks through the paged lists (list_chunks, list_documents,  *)
(* list_jobs) while rows come and go between one page and the next.        *)
(*                                                                         *)
(* A cursor carries the sort key of the last row of a page and nothing     *)
(* else: chunk_index for the chunks of a document, created_at for          *)
(* documents and jobs.  A page is one query; a walk starts over with an    *)
(* empty cursor.                                                           *)
(***************************************************************************)
EXTENDS Integers, FiniteSets

CONSTANTS
  Size,       \* the chunks of a document, in one batch
  Attempts,   \* attempts that may commit a batch of them: IngestionQueue says when two do
  Documents,  \* documents, or jobs, numbered by created_at
  Doc,        \* the document whose chunks are listed
  MaxLimit    \* the largest limit that is asked for

ASSUME SizeAssumption == Size \in Nat \ {0}
ASSUME LimitAssumption == MaxLimit \in Nat
ASSUME DocumentsAssumption == Documents \subseteq Nat /\ Doc \in Documents
ASSUME FiniteAssumption == IsFiniteSet(Attempts) /\ IsFiniteSet(Documents)

VARIABLES
  batches,    \* the attempts whose chunks are committed
  docs,       \* the documents of the tenant that are committed and not deleted
  deleted,    \* those that are deleted
  list,       \* what the client walks through: "none", "chunks" or "documents"
  limit,      \* its limit
  cursor,     \* the key in its cursor, or None
  page,       \* the last page
  got,        \* history: the rows of all pages of this walk
  twice,      \* history: rows that came in two pages
  there,      \* history: the rows that have been there from the start of the walk
  pages       \* what the client knows: "more", "last", or "error"

table == <<batches, docs, deleted>>
walk == <<list, limit, cursor, page, got, twice, there, pages>>
vars == <<table, walk>>

None == -1
Chunks == [key : 0 .. Size - 1, id : Attempts]
Uploads == [key : Documents, id : {0}]

Init ==
  /\ batches = {} /\ docs = {} /\ deleted = {}
  /\ list = "none" /\ limit = 0 /\ cursor = None /\ pages = "last"
  /\ page = {} /\ got = {} /\ twice = {} /\ there = {}

-------------------------------------------------------------------------------
(* The queries. *)

Rows(l) == IF l = "chunks" THEN [key : 0 .. Size - 1, id : batches] ELSE [key : docs, id : {0}]

\* ORDER BY chunk_index ASC, or created_at DESC; nothing orders rows with the same key.
Precedes(l, x, y) == IF l = "chunks" THEN x.key < y.key ELSE x.key > y.key

\* MUTANT: the cursor's own row is included.
After_Inclusive(x) == cursor = None \/ x.key >= cursor

\* chunk_index > cursor.
After(x) == cursor = None \/ x.key > cursor

\* MUTANT: the row that was asked for to see whether there are more is kept.
Cut_KeepsExtra(n, l) == IF n > l THEN l + 1 ELSE n

\* docs[:limit]
Cut(n, l) == IF n > l THEN l ELSE n

\* The pages that LIMIT limit + 1, ORDER BY and the cut can give.
Pages(l, lim, rows) ==
  {P \in SUBSET rows : /\ Cardinality(P) = Cut(Cardinality(rows), lim)
                       /\ \A x \in P, y \in rows \ P : ~Precedes(l, y, x)}

LastKeys(l, P) == {x.key : x \in {z \in P : \A y \in P : ~Precedes(l, z, y)}}

\* A page is answered.
Answer(l, lim, rows) ==
  \E P \in Pages(l, lim, rows) :
    /\ page' = P
    /\ IF Cardinality(rows) > lim
       THEN pages' = "more" /\ cursor' \in LastKeys(l, P)
       ELSE pages' = "last" /\ cursor' = None

-------------------------------------------------------------------------------
(* The client. *)

\* get_document, which the route of the chunks calls first.
Found(l) == l = "chunks" => Doc \in docs

\* The first page.  With a limit of 0, docs[-1] of the empty page raises an IndexError.
FirstPage ==
  \E l \in {"chunks", "documents"}, lim \in 0 .. MaxLimit :
    /\ list' = l /\ limit' = lim
    /\ there' = Rows(l) /\ twice' = {}
    /\ \/ /\ Found(l)
          /\ lim > 0 \/ Rows(l) = {}
          /\ Answer(l, lim, Rows(l))
          /\ got' = page'
       \/ /\ ~Found(l) \/ (lim = 0 /\ Rows(l) # {})
          /\ pages' = "error" /\ cursor' = None /\ page' = {} /\ got' = {}
    /\ UNCHANGED table

NextChunks ==
  /\ list = "chunks" /\ pages = "more"
  /\ \/ /\ Found(list)
        /\ Answer(list, limit, {x \in Rows(list) : After(x)})
        /\ got' = got \cup page'
        /\ twice' = twice \cup (got \cap page')
     \/ ~Found(list) /\ pages' = "error" /\ UNCHANGED <<cursor, page, got, twice>>
  /\ UNCHANGED <<table, list, limit, there>>

\* created_at is compared with the string in the cursor, and PostgreSQL has no such operator.
NextDocuments ==
  /\ list = "documents" /\ pages = "more"
  /\ pages' = "error"
  /\ UNCHANGED <<table, list, limit, cursor, page, got, twice, there>>

-------------------------------------------------------------------------------
(* Meanwhile. *)

\* complete_job of an attempt, which does not ask whether the document is deleted: its chunks
\* are numbered from 0.
CommitBatch(a) ==
  /\ a \notin batches
  /\ Doc \in docs \cup deleted
  /\ batches' = batches \cup {a}
  /\ UNCHANGED <<docs, deleted, walk>>

\* An upload commits; created_at is the time its transaction began, so that a later commit
\* may have the earlier time.
CommitUpload(d) ==
  /\ d \notin docs \cup deleted
  /\ docs' = docs \cup {d}
  /\ UNCHANGED <<batches, deleted, walk>>

DeleteDocument(d) ==
  /\ d \in docs
  /\ docs' = docs \ {d}
  /\ deleted' = deleted \cup {d}
  /\ there' = IF list = "documents" THEN {x \in there : x.key # d} ELSE there
  /\ UNCHANGED <<batches, list, limit, cursor, page, got, twice, pages>>

Next ==
  \/ FirstPage
  \/ NextChunks
  \/ NextDocuments
  \/ \E a \in Attempts : CommitBatch(a)
  \/ \E d \in Documents : CommitUpload(d) \/ DeleteDocument(d)

Spec == Init /\ [][Next]_vars

-------------------------------------------------------------------------------
(* Properties. *)

\* Every variable stays in its domain, and no page is longer than asked for.
TypeOK ==
  /\ batches \subseteq Attempts /\ docs \subseteq Documents /\ deleted \subseteq Documents
  /\ list \in {"none", "chunks", "documents"}
  /\ limit \in 0 .. MaxLimit
  /\ cursor \in {None} \cup 0 .. Size - 1 \cup Documents
  /\ {page, got, twice, there} \subseteq (SUBSET Chunks) \cup (SUBSET Uploads)
  /\ Cardinality(page) <= limit
  /\ pages \in {"more", "last", "error"}

\* A walk that came to its last page has returned no row twice, and every row that was there
\* from its start, with one exception: a chunk that a second batch has the like of, which the
\* end of a page separated from it (the strict comparison, documents/service.py:330, with
\* neither a unique index on chunk_index nor the id in the cursor).
WalkReturnsEachRow ==
  pages = "last" =>
    /\ twice = {}
    /\ \A x \in there \ got : \E y \in got : y # x /\ y.key = x.key
===============================================================================
