------------------------- MODULE DocumentUploadProofs -------------------------
(***************************************************************************)
(* Proofs about DocumentUpload for any requests, keys and contents: what   *)
(* clients are told, what the bucket keeps, and that the unique indexes    *)
(* make a retry safe.                                                      *)
(***************************************************************************)
EXTENDS DocumentUpload, TLAPS

Committed == {d \in Requests : doc_state[d] # "none"}

\* A row is committed by a request that ran to its end and answered with it.  Before it sends
\* its response a request has no answer; between the response and the commit, and when it dies
\* there, the answer is its own document.
OwnRows ==
  \A r \in Requests :
    /\ pc[r] \in (InFlight \cup {"new"}) \ {"commit"} => answer[r] = "none"
    /\ pc[r] = "commit" => answer[r] = r
    /\ pc[r] = "crashed" => answer[r] \in {"none", r}
    /\ pc[r] = "done" => answer[r] # "none"
    /\ r \in Committed <=> pc[r] = "done" /\ answer[r] = r
    /\ deletion[r] # "none" => r \in Committed

\* The unique indexes: on what is committed, and between open transactions and the rest.
UniqueRows ==
  /\ \A d, e \in Committed : content[d] = content[e] => d = e
  /\ \A d, e \in Committed : key[d] = key[e] => d = e
  /\ \A r \in Requests : pc[r] \in {"insert_job", "respond", "commit"} =>
       /\ \A d \in Committed : content[d] # content[r]
       /\ \A s \in Requests \ {r} :
            pc[s] \in {"insert_job", "respond", "commit"} => content[s] # content[r]
  /\ \A r \in Requests : pc[r] \in {"respond", "commit"} =>
       /\ \A d \in Committed : key[d] # key[r]
       /\ \A s \in Requests \ {r} : pc[s] \in {"respond", "commit"} => key[s] # key[r]

\* The bucket, step by step of an upload and of a deletion.
Files ==
  \A r \in Requests :
    /\ pc[r] \in {"new", "check_key", "check_content", "put"} => r \notin objects
    /\ pc[r] \in {"insert_document", "insert_job", "respond", "commit"} => r \in objects
    /\ pc[r] \in {"find_key", "find_content"} => r \notin objects \/ r \in not_cleaned
    /\ pc[r] = "done" /\ answer[r] \notin {r, "error"} => r \notin objects \/ r \in not_cleaned
    /\ r \in Committed /\ deletion[r] = "none" => r \in objects
    /\ deletion[r] = "removed" => r \notin objects

UploadInv == TypeOK /\ OwnRows /\ UniqueRows /\ Files /\ AnswerIsStored
-------------------------------------------------------------------------------
(* The inductive invariant holds at the start and is kept by every step. *)

\* Nothing has begun and nothing is stored.
LEMMA UploadInvInit == Init => UploadInv
<1> SUFFICES ASSUME Init PROVE UploadInv
  OBVIOUS
<1>1. TypeOK
  BY DEF Init, TypeOK, InFlight, Answers
<1>2. OwnRows /\ UniqueRows /\ Files /\ AnswerIsStored
  BY RequestsAssumption
  DEF Init, OwnRows, UniqueRows, Files, AnswerIsStored, Told, LostAfterAnswer, Committed,
      InFlight
<1> QED
  BY <1>1, <1>2 DEF UploadInv

\* A request begins with nothing stored under its name.
LEMMA BeginKeeps ==
  ASSUME UploadInv, NEW r \in Requests, NEW k \in Keys, NEW c \in Contents, Begin(r, k, c)
  PROVE  UploadInv'
<1> USE DEF UploadInv
<1>1. TypeOK'
  BY DEF TypeOK, InFlight, Answers, Begin, Goto
<1>2. OwnRows'
  BY DEF TypeOK, OwnRows, Committed, InFlight, Begin, Goto
<1>3. UniqueRows'
  BY DEF TypeOK, OwnRows, UniqueRows, Committed, InFlight, Begin, Goto
<1>4. Files'
  BY DEF TypeOK, OwnRows, Files, Committed, InFlight, Begin, Goto
<1>5. AnswerIsStored'
  BY DEF TypeOK, OwnRows, AnswerIsStored, Told, LostAfterAnswer, Committed, InFlight, Begin, Goto
<1> QED
  BY <1>1, <1>2, <1>3, <1>4, <1>5

\* A known key is answered with its committed document.
LEMMA CheckKeyKeeps == ASSUME UploadInv, NEW r \in Requests, CheckKey(r) PROVE UploadInv'
<1> USE DEF UploadInv
<1>1. TypeOK'
  BY DEF TypeOK, InFlight, Answers, CheckKey, SameKey, Goto, Reply
<1>2. OwnRows'
  BY DEF TypeOK, OwnRows, Committed, InFlight, CheckKey, SameKey, Goto, Reply
<1>3. UniqueRows'
  BY DEF TypeOK, OwnRows, UniqueRows, Committed, InFlight, CheckKey, SameKey, Goto, Reply
<1>4. Files'
  BY DEF TypeOK, OwnRows, Files, Committed, InFlight, CheckKey, SameKey, Goto, Reply
<1>5. AnswerIsStored'
  BY DEF TypeOK, OwnRows, AnswerIsStored, Told, LostAfterAnswer, Committed, InFlight, CheckKey,
         SameKey, Goto, Reply
<1> QED
  BY <1>1, <1>2, <1>3, <1>4, <1>5

\* Known content is answered with its committed document.
LEMMA CheckContentKeeps ==
  ASSUME UploadInv, NEW r \in Requests, CheckContent(r)
  PROVE  UploadInv'
<1> USE DEF UploadInv
<1>1. TypeOK'
  BY DEF TypeOK, InFlight, Answers, CheckContent, SameLiveContent, Goto, Reply
<1>2. OwnRows'
  BY DEF TypeOK, OwnRows, Committed, InFlight, CheckContent, SameLiveContent, Goto, Reply
<1>3. UniqueRows'
  BY DEF TypeOK, OwnRows, UniqueRows, Committed, InFlight, CheckContent, SameLiveContent, Goto,
         Reply
<1>4. Files'
  BY DEF TypeOK, OwnRows, Files, Committed, InFlight, CheckContent, SameLiveContent, Goto, Reply
<1>5. AnswerIsStored'
  BY DEF TypeOK, OwnRows, AnswerIsStored, Told, LostAfterAnswer, Committed, InFlight,
         CheckContent, SameLiveContent, Goto, Reply
<1> QED
  BY <1>1, <1>2, <1>3, <1>4, <1>5

\* An upload stores its own file.
LEMMA PutObjectKeeps == ASSUME UploadInv, NEW r \in Requests, PutObject(r) PROVE UploadInv'
<1> USE DEF UploadInv
<1>1. TypeOK'
  BY DEF TypeOK, InFlight, Answers, PutObject, Goto, Reply
<1>2. OwnRows'
  BY RequestsAssumption DEF TypeOK, OwnRows, Committed, InFlight, PutObject, Goto, Reply
<1>3. UniqueRows'
  BY DEF TypeOK, OwnRows, UniqueRows, Committed, InFlight, PutObject, Goto, Reply
<1>4. Files'
  BY DEF TypeOK, OwnRows, Files, Committed, InFlight, PutObject, Goto, Reply
<1>5. AnswerIsStored'
  BY RequestsAssumption
  DEF TypeOK, OwnRows, AnswerIsStored, Told, LostAfterAnswer, Committed, InFlight, PutObject,
      Goto, Reply
<1> QED
  BY <1>1, <1>2, <1>3, <1>4, <1>5

\* The index on the content lets one transaction pass.
LEMMA InsertDocumentKeeps ==
  ASSUME UploadInv, NEW r \in Requests, InsertDocument(r)
  PROVE  UploadInv'
<1> USE DEF UploadInv
<1>1. TypeOK'
  BY DEF TypeOK, InFlight, Answers, InsertDocument, ContentHeld, ContentTaken, Goto
<1>2. OwnRows'
  BY DEF TypeOK, OwnRows, Committed, InFlight, InsertDocument, ContentHeld, ContentTaken, Goto
<1>3. UniqueRows'
  BY DEF TypeOK, OwnRows, UniqueRows, Committed, InFlight, InsertDocument, ContentHeld,
         ContentTaken, Goto
<1>4. Files'
  BY DEF TypeOK, OwnRows, Files, Committed, InFlight, InsertDocument, ContentHeld, ContentTaken,
         Goto
<1>5. AnswerIsStored'
  BY DEF TypeOK, OwnRows, AnswerIsStored, Told, LostAfterAnswer, Committed, InFlight,
         InsertDocument, ContentHeld, ContentTaken, Goto
<1> QED
  BY <1>1, <1>2, <1>3, <1>4, <1>5

\* The index on the key lets one transaction pass.
LEMMA InsertJobKeeps == ASSUME UploadInv, NEW r \in Requests, InsertJob(r) PROVE UploadInv'
<1> USE DEF UploadInv
<1>1. TypeOK'
  BY DEF TypeOK, InFlight, Answers, InsertJob, KeyHeld, KeyTaken, SameKey, Goto
<1>2. OwnRows'
  BY DEF TypeOK, OwnRows, Committed, InFlight, InsertJob, KeyHeld, KeyTaken, SameKey, Goto
<1>3. UniqueRows'
  BY DEF TypeOK, OwnRows, UniqueRows, Committed, InFlight, InsertJob, KeyHeld, KeyTaken, SameKey,
         Goto
<1>4. Files'
  BY DEF TypeOK, OwnRows, Files, Committed, InFlight, InsertJob, KeyHeld, KeyTaken, SameKey, Goto
<1>5. AnswerIsStored'
  BY DEF TypeOK, OwnRows, AnswerIsStored, Told, LostAfterAnswer, Committed, InFlight, InsertJob,
         KeyHeld, KeyTaken, SameKey, Goto
<1> QED
  BY <1>1, <1>2, <1>3, <1>4, <1>5

\* A loser removes its own file or is marked.
LEMMA DeleteOwnObjectKeeps ==
  ASSUME UploadInv, NEW r \in Requests, DeleteOwnObject(r)
  PROVE  UploadInv'
<1> USE DEF UploadInv
<1>1. TypeOK'
  BY DEF TypeOK, InFlight, Answers, DeleteOwnObject, Goto
<1>2. OwnRows'
  BY DEF TypeOK, OwnRows, Committed, InFlight, DeleteOwnObject, Goto
<1>3. UniqueRows'
  BY DEF TypeOK, OwnRows, UniqueRows, Committed, InFlight, DeleteOwnObject, Goto
<1>4. Files'
  BY DEF TypeOK, OwnRows, Files, Committed, InFlight, DeleteOwnObject, Goto
<1>5. AnswerIsStored'
  BY DEF TypeOK, OwnRows, AnswerIsStored, Told, LostAfterAnswer, Committed, InFlight,
         DeleteOwnObject, Goto
<1> QED
  BY <1>1, <1>2, <1>3, <1>4, <1>5

\* A loser is answered with the document of its key.
LEMMA FindByKeyKeeps == ASSUME UploadInv, NEW r \in Requests, FindByKey(r) PROVE UploadInv'
<1> USE DEF UploadInv
<1>1. TypeOK'
  BY DEF TypeOK, InFlight, Answers, FindByKey, SameKey, Goto, Reply
<1>2. OwnRows'
  BY DEF TypeOK, OwnRows, Committed, InFlight, FindByKey, SameKey, Goto, Reply
<1>3. UniqueRows'
  BY DEF TypeOK, OwnRows, UniqueRows, Committed, InFlight, FindByKey, SameKey, Goto, Reply
<1>4. Files'
  BY DEF TypeOK, OwnRows, Files, Committed, InFlight, FindByKey, SameKey, Goto, Reply
<1>5. AnswerIsStored'
  BY DEF TypeOK, OwnRows, AnswerIsStored, Told, LostAfterAnswer, Committed, InFlight, FindByKey,
         SameKey, Goto, Reply
<1> QED
  BY <1>1, <1>2, <1>3, <1>4, <1>5

\* A loser is answered with the document of its content.
LEMMA FindByContentKeeps ==
  ASSUME UploadInv, NEW r \in Requests, FindByContent(r)
  PROVE  UploadInv'
<1> USE DEF UploadInv
<1>1. TypeOK'
  BY DEF TypeOK, InFlight, Answers, FindByContent, SameLiveContent, Goto, Reply
<1>2. OwnRows'
  BY RequestsAssumption
  DEF TypeOK, OwnRows, Committed, InFlight, FindByContent, SameLiveContent, Goto, Reply
<1>3. UniqueRows'
  BY DEF TypeOK, OwnRows, UniqueRows, Committed, InFlight, FindByContent, SameLiveContent, Goto,
         Reply
<1>4. Files'
  BY DEF TypeOK, OwnRows, Files, Committed, InFlight, FindByContent, SameLiveContent, Goto, Reply
<1>5. AnswerIsStored'
  BY RequestsAssumption
  DEF TypeOK, OwnRows, AnswerIsStored, Told, LostAfterAnswer, Committed, InFlight, FindByContent,
      SameLiveContent, Goto, Reply
<1> QED
  BY <1>1, <1>2, <1>3, <1>4, <1>5

\* The answer that is sent names the request's own document.
LEMMA RespondKeeps == ASSUME UploadInv, NEW r \in Requests, Respond(r) PROVE UploadInv'
<1> USE DEF UploadInv
<1>1. TypeOK'
  BY DEF TypeOK, InFlight, Answers, Respond, Goto, Reply
<1>2. OwnRows'
  BY RequestsAssumption DEF TypeOK, OwnRows, Committed, InFlight, Respond, Goto, Reply
<1>3. UniqueRows'
  BY DEF TypeOK, OwnRows, UniqueRows, Committed, InFlight, Respond, Goto, Reply
<1>4. Files'
  BY DEF TypeOK, OwnRows, Files, Committed, InFlight, Respond, Goto, Reply
<1>5. AnswerIsStored'
  BY DEF TypeOK, OwnRows, AnswerIsStored, Told, LostAfterAnswer, Committed, InFlight, Respond,
         Goto, Reply
<1> QED
  BY <1>1, <1>2, <1>3, <1>4, <1>5

\* What is committed is unique, because what is open is.
LEMMA CommitKeeps == ASSUME UploadInv, NEW r \in Requests, Commit(r) PROVE UploadInv'
<1> USE DEF UploadInv
<1>1. TypeOK'
  BY DEF TypeOK, InFlight, Answers, Commit, Goto
<1>2. OwnRows'
  BY RequestsAssumption DEF TypeOK, OwnRows, Committed, InFlight, Commit, Goto
<1>3. UniqueRows'
  BY DEF TypeOK, OwnRows, UniqueRows, Committed, InFlight, Commit, Goto
<1>4. Files'
  BY DEF TypeOK, OwnRows, Files, Committed, InFlight, Commit, Goto
<1>5. AnswerIsStored'
  BY DEF TypeOK, OwnRows, AnswerIsStored, Told, LostAfterAnswer, Committed, InFlight, Commit,
         Goto
<1> QED
  BY <1>1, <1>2, <1>3, <1>4, <1>5

\* A crash commits nothing.
LEMMA CrashKeeps == ASSUME UploadInv, NEW r \in Requests, Crash(r) PROVE UploadInv'
<1> USE DEF UploadInv
<1>1. TypeOK'
  BY DEF TypeOK, InFlight, Answers, Crash, Goto
<1>2. OwnRows'
  BY DEF TypeOK, OwnRows, Committed, InFlight, Crash, Goto
<1>3. UniqueRows'
  BY DEF TypeOK, OwnRows, UniqueRows, Committed, InFlight, Crash, Goto
<1>4. Files'
  BY DEF TypeOK, OwnRows, Files, Committed, InFlight, Crash, Goto
<1>5. AnswerIsStored'
  BY DEF TypeOK, OwnRows, AnswerIsStored, Told, LostAfterAnswer, Committed, InFlight, Crash, Goto
<1> QED
  BY <1>1, <1>2, <1>3, <1>4, <1>5

\* A deletion removes the file of a committed document.
LEMMA DeleteDocumentKeeps ==
  ASSUME UploadInv, NEW r \in Requests, DeleteDocument(r)
  PROVE  UploadInv'
<1> USE DEF UploadInv
<1>1. TypeOK'
  BY DEF TypeOK, InFlight, Answers, DeleteDocument
<1>2. OwnRows'
  BY DEF TypeOK, OwnRows, Committed, InFlight, DeleteDocument
<1>3. UniqueRows'
  BY DEF TypeOK, OwnRows, UniqueRows, Committed, InFlight, DeleteDocument
<1>4. Files'
  BY DEF TypeOK, OwnRows, Files, Committed, InFlight, DeleteDocument
<1>5. AnswerIsStored'
  BY DEF TypeOK, OwnRows, AnswerIsStored, Told, LostAfterAnswer, Committed, InFlight,
         DeleteDocument
<1> QED
  BY <1>1, <1>2, <1>3, <1>4, <1>5

\* A deleted row stays committed.
LEMMA CommitDeleteKeeps ==
  ASSUME UploadInv, NEW r \in Requests, CommitDelete(r)
  PROVE  UploadInv'
<1> USE DEF UploadInv
<1>1. TypeOK'
  BY DEF TypeOK, InFlight, Answers, CommitDelete
<1>2. OwnRows'
  BY DEF TypeOK, OwnRows, Committed, InFlight, CommitDelete
<1>3. UniqueRows'
  BY DEF TypeOK, OwnRows, UniqueRows, Committed, InFlight, CommitDelete
<1>4. Files'
  BY DEF TypeOK, OwnRows, Files, Committed, InFlight, CommitDelete
<1>5. AnswerIsStored'
  BY DEF TypeOK, OwnRows, AnswerIsStored, Told, LostAfterAnswer, Committed, InFlight,
         CommitDelete
<1> QED
  BY <1>1, <1>2, <1>3, <1>4, <1>5

\* A lost deletion leaves the row.
LEMMA CrashDeleteKeeps == ASSUME UploadInv, NEW r \in Requests, CrashDelete(r) PROVE UploadInv'
<1> USE DEF UploadInv
<1>1. TypeOK'
  BY DEF TypeOK, InFlight, Answers, CrashDelete
<1>2. OwnRows'
  BY DEF TypeOK, OwnRows, Committed, InFlight, CrashDelete
<1>3. UniqueRows'
  BY DEF TypeOK, OwnRows, UniqueRows, Committed, InFlight, CrashDelete
<1>4. Files'
  BY DEF TypeOK, OwnRows, Files, Committed, InFlight, CrashDelete
<1>5. AnswerIsStored'
  BY DEF TypeOK, OwnRows, AnswerIsStored, Told, LostAfterAnswer, Committed, InFlight, CrashDelete
<1> QED
  BY <1>1, <1>2, <1>3, <1>4, <1>5

\* So does a step that changes nothing.
LEMMA UploadInvStep == UploadInv /\ [Next]_vars => UploadInv'
<1> SUFFICES ASSUME UploadInv, [Next]_vars PROVE UploadInv'
  OBVIOUS
<1>1. CASE \E r \in Requests, k \in Keys, c \in Contents : Begin(r, k, c)
  BY <1>1, BeginKeeps
<1>2. CASE \E r \in Requests : Step(r)
  BY <1>2, CheckKeyKeeps, CheckContentKeeps, PutObjectKeeps, InsertDocumentKeeps, InsertJobKeeps,
     RespondKeeps, DeleteOwnObjectKeeps, FindByKeyKeeps, FindByContentKeeps, CommitKeeps DEF Step
<1>3. CASE \E r \in Requests : Crash(r)
  BY <1>3, CrashKeeps
<1>4. CASE \E d \in Requests : DeleteDocument(d) \/ CommitDelete(d) \/ CrashDelete(d)
  BY <1>4, DeleteDocumentKeeps, CommitDeleteKeeps, CrashDeleteKeeps
<1>5. CASE UNCHANGED vars
  BY <1>5
  DEF vars, UploadInv, TypeOK, OwnRows, UniqueRows, Files, AnswerIsStored, Told, LostAfterAnswer,
      Committed
<1> QED
  BY <1>1, <1>2, <1>3, <1>4, <1>5 DEF Next

-------------------------------------------------------------------------------
(* What the runs check on three requests holds for any number of them. *)

\* The indexes, the bucket and the answers, at every reachable state.
THEOREM UploadInvariant == Spec => []UploadInv
<1>1. Init => UploadInv
  BY UploadInvInit
<1>2. UploadInv /\ [Next]_vars => UploadInv'
  BY UploadInvStep
<1> QED
  BY <1>1, <1>2, PTL DEF Spec

\* A request that has begun has its key and its content (upload_document).
THEOREM UploadTypes == Spec => []TypeOK
<1>1. UploadInv => TypeOK
  BY DEF UploadInv
<1> QED
  BY <1>1, UploadInvariant, PTL

\* Nobody is told of another request's document before that is stored, and of its own only in
\* the moment before the commit (get_db_session after the response).
THEOREM UploadAnswerIsStored == Spec => []AnswerIsStored
<1>1. UploadInv => AnswerIsStored
  BY DEF UploadInv
<1> QED
  BY <1>1, UploadInvariant, PTL

\* No loser of a race removes the winner's file (service.py:124-132).
THEOREM UploadFilesKept == Spec => []FilesKept
<1>1. UploadInv => FilesKept
  BY DEF UploadInv, Files, FilesKept, Committed
<1> QED
  BY <1>1, UploadInvariant, PTL

\* Files are left behind only where the bucket refused to remove them.
THEOREM UploadNoOrphans == Spec => []NoOrphans
<1>1. UploadInv => NoOrphans
  BY DEF UploadInv, TypeOK, Files, NoOrphans
<1> QED
  BY <1>1, UploadInvariant, PTL

\* One key for one file means one document, except where an answer was sent and its commit
\* failed (service.py:49-93, dependencies.py:43-48).
THEOREM UploadSafeRetry == Spec => []SafeRetry
<1>1. UploadInv => SafeRetry
  <2> SUFFICES ASSUME UploadInv,
                      NEW q \in Told, NEW r \in Told,
                      key[q] = key[r],
                      \A s \in Requests : key[s] = key[r] => content[s] = content[r],
                      ~LostAfterAnswer(q), ~LostAfterAnswer(r)
               PROVE  answer[q] = answer[r]
    BY DEF SafeRetry
  <2> USE DEF UploadInv, Told
  <2>1. content[q] = content[r]
    OBVIOUS
  <2>2. ASSUME NEW s \in {q, r}
        PROVE  /\ content[answer[s]] = content[r]
               /\ answer[s] \in Committed \/ (pc[s] = "commit" /\ answer[s] = s)
    <3>1. s \in Told /\ key[s] = key[r] /\ content[s] = content[r] /\ ~LostAfterAnswer(s)
      BY <2>1
    <3>2. content[answer[s]] = content[r]
      BY <3>1 DEF AnswerIsStored
    <3>3. answer[s] \in Committed \/ (pc[s] = "commit" /\ answer[s] = s)
      BY <3>1 DEF AnswerIsStored, LostAfterAnswer, Committed
    <3> QED
      BY <3>2, <3>3
  <2>3. CASE answer[q] \in Committed /\ answer[r] \in Committed
    BY <2>2, <2>3 DEF UniqueRows
  <2>4. CASE pc[q] = "commit" /\ answer[q] = q
    <3>1. \A d \in Committed : content[d] # content[q]
      BY <2>4 DEF UniqueRows
    <3>2. pc[r] = "commit" /\ answer[r] = r
      BY <2>1, <2>2, <3>1
    <3> QED
      BY <2>1, <2>4, <3>2 DEF UniqueRows
  <2>5. CASE pc[r] = "commit" /\ answer[r] = r
    <3>1. \A d \in Committed : content[d] # content[r]
      BY <2>5 DEF UniqueRows
    <3>2. pc[q] = "commit" /\ answer[q] = q
      BY <2>2, <3>1
    <3> QED
      BY <2>4, <3>2
  <2> QED
    BY <2>2, <2>3, <2>4, <2>5
<1> QED
  BY <1>1, UploadInvariant, PTL
===============================================================================
