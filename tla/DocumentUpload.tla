---------------------------- MODULE DocumentUpload ----------------------------
(***************************************************************************)
(* Concurrent uploads and deletions of one tenant's documents              *)
(* (src/documents/service.py): the rows of documents and ingestion_jobs,   *)
(* the bucket, and requests that may die between any two of their calls.   *)
(*                                                                         *)
(* A request runs in one READ COMMITTED transaction: a query sees what is  *)
(* committed, an INSERT waits for an uncommitted row with the same unique  *)
(* value and fails on a committed one.  The id of the document a request   *)
(* creates is fresh, so it is the request itself; its job is created with  *)
(* it and carries the request's idempotency key.                           *)
(*                                                                         *)
(* The session is committed by the dependency get_db_session.  FastAPI     *)
(* runs what a dependency does after its yield when the response has been  *)
(* sent, so a client is answered before the row it is told of is stored.   *)
(***************************************************************************)
EXTENDS Naturals

CONSTANTS
  Requests,   \* the upload requests, and the documents they may create
  Keys,       \* idempotency keys
  Contents    \* file contents, up to content_hash

VARIABLES
  pc,             \* pc[r]: what request r does next
  key, content,   \* what r was sent with, once it has begun
  answer,         \* what r's client is told: a document, "conflict", "error" or "none"
  doc_state,      \* the committed row of document d: "none", "live" or "deleted"
  objects,        \* the documents whose file is in the bucket
  not_cleaned,    \* the requests whose orphan_upload_cleanup_failed
  deletion        \* the last DELETE of d: "none", its file "removed" or "kept", or "lost"

vars == <<pc, key, content, answer, doc_state, objects, not_cleaned, deletion>>

InFlight == {"check_key", "check_content", "put", "insert_document", "insert_job",
             "respond", "commit", "cleanup", "find_key", "find_content"}
NoKey == "no key"
NoContent == "no content"

ASSUME RequestsAssumption == Requests \cap {"none", "conflict", "error"} = {}
ASSUME InputsAssumption == NoKey \notin Keys /\ NoContent \notin Contents

Answers == Requests \cup {"none", "conflict", "error"}

Init ==
  /\ pc = [r \in Requests |-> "new"]
  /\ key = [r \in Requests |-> NoKey]
  /\ content = [r \in Requests |-> NoContent]
  /\ answer = [r \in Requests |-> "none"]
  /\ doc_state = [r \in Requests |-> "none"]
  /\ objects = {}
  /\ not_cleaned = {}
  /\ deletion = [r \in Requests |-> "none"]

-------------------------------------------------------------------------------
(* The queries and the unique constraints. *)

\* The committed document whose job has r's key, whether or not it is deleted.
SameKey(r) == {d \in Requests : doc_state[d] # "none" /\ key[d] = key[r]}

\* The committed document that has r's content and is not deleted.
SameLiveContent(r) == {d \in Requests : doc_state[d] = "live" /\ content[d] = content[r]}

\* MUTANT: the unique index covers only the rows that are not deleted.
ContentTaken_LiveOnly(r) == SameLiveContent(r) # {}

\* uq_documents_tenant_content covers deleted rows too.
ContentTaken(r) == \E d \in Requests : doc_state[d] # "none" /\ content[d] = content[r]

\* uq_jobs_tenant_idempotency.
KeyTaken(r) == SameKey(r) # {}

\* Another transaction has inserted r's content, or r's key, and has not ended.
ContentHeld(r) ==
  \E s \in Requests \ {r} :
    pc[s] \in {"insert_job", "respond", "commit"} /\ content[s] = content[r]
KeyHeld(r) == \E s \in Requests \ {r} : pc[s] \in {"respond", "commit"} /\ key[s] = key[r]

Goto(r, label) == pc' = [pc EXCEPT ![r] = label]
Reply(r, a) == answer' = [answer EXCEPT ![r] = a]

-------------------------------------------------------------------------------
(* upload_document, call by call. *)

\* MUTANT: the Idempotency-Key header is optional.
Begin_KeyOptional(r, k, c) ==
  /\ pc[r] = "new"
  /\ key' \in {key, [key EXCEPT ![r] = k]}
  /\ content' = [content EXCEPT ![r] = c]
  /\ Goto(r, "check_key")
  /\ UNCHANGED <<answer, doc_state, objects, not_cleaned, deletion>>

\* The route has the key from a required header, and the content's hash.
Begin(r, k, c) ==
  /\ pc[r] = "new"
  /\ key' = [key EXCEPT ![r] = k]
  /\ content' = [content EXCEPT ![r] = c]
  /\ Goto(r, "check_key")
  /\ UNCHANGED <<answer, doc_state, objects, not_cleaned, deletion>>

\* The key is known: answer with its document.  Nothing was written, so the request is over.
CheckKey(r) ==
  /\ pc[r] = "check_key"
  /\ \/ SameKey(r) = {} /\ Goto(r, "check_content") /\ UNCHANGED answer
     \/ \E d \in SameKey(r) : Reply(r, d) /\ Goto(r, "done")
  /\ UNCHANGED <<key, content, doc_state, objects, not_cleaned, deletion>>

CheckContent(r) ==
  /\ pc[r] = "check_content"
  /\ \/ SameLiveContent(r) = {} /\ Goto(r, "put") /\ UNCHANGED answer
     \/ \E d \in SameLiveContent(r) : Reply(r, d) /\ Goto(r, "done")
  /\ UNCHANGED <<key, content, doc_state, objects, not_cleaned, deletion>>

\* storage.upload; when it raises, the bucket may or may not have stored the object.
PutObject(r) ==
  /\ pc[r] = "put"
  /\ \/ objects' = objects \cup {r} /\ Goto(r, "insert_document") /\ UNCHANGED answer
     \/ objects' \in {objects, objects \cup {r}} /\ Reply(r, "error") /\ Goto(r, "done")
  /\ UNCHANGED <<key, content, doc_state, not_cleaned, deletion>>

\* The flush inserts the document first.
InsertDocument(r) ==
  /\ pc[r] = "insert_document"
  /\ ~ContentHeld(r)
  /\ Goto(r, IF ContentTaken(r) THEN "cleanup" ELSE "insert_job")
  /\ UNCHANGED <<key, content, answer, doc_state, objects, not_cleaned, deletion>>

\* MUTANT: the IntegrityError is swallowed and the new document is returned.
InsertJob_ErrorSwallowed(r) ==
  /\ pc[r] = "insert_job"
  /\ ~KeyHeld(r)
  /\ \/ KeyTaken(r) /\ Goto(r, "done") /\ Reply(r, r)
     \/ ~KeyTaken(r) /\ Goto(r, "respond") /\ UNCHANGED answer
  /\ UNCHANGED <<key, content, doc_state, objects, not_cleaned, deletion>>

\* Then its job.  The conflict rolls the savepoint back, which lets go of the document's row.
InsertJob(r) ==
  /\ pc[r] = "insert_job"
  /\ ~KeyHeld(r)
  /\ Goto(r, IF KeyTaken(r) THEN "cleanup" ELSE "respond")
  /\ UNCHANGED <<key, content, answer, doc_state, objects, not_cleaned, deletion>>

\* MUTANT: the loser's object stays in the bucket.
DeleteOwnObject_Never(r) ==
  /\ pc[r] = "cleanup"
  /\ Goto(r, "find_key")
  /\ UNCHANGED <<key, content, answer, doc_state, objects, not_cleaned, deletion>>

\* MUTANT: storage keys are derived from the content, and the loser deletes the winner's file.
DeleteOwnObject_SharedKey(r) ==
  /\ pc[r] = "cleanup"
  /\ objects' = objects \ {d \in Requests : content[d] = content[r]}
  /\ Goto(r, "find_key")
  /\ UNCHANGED <<key, content, answer, doc_state, not_cleaned, deletion>>

\* The loser of a conflict removes its own object; a failure is logged and passed over.
DeleteOwnObject(r) ==
  /\ pc[r] = "cleanup"
  /\ \/ objects' = objects \ {r} /\ UNCHANGED not_cleaned
     \/ not_cleaned' = not_cleaned \cup {r} /\ objects' \in {objects, objects \ {r}}
  /\ Goto(r, "find_key")
  /\ UNCHANGED <<key, content, answer, doc_state, deletion>>

\* _find_existing_upload, by key and then by content.
FindByKey(r) ==
  /\ pc[r] = "find_key"
  /\ \/ SameKey(r) = {} /\ Goto(r, "find_content") /\ UNCHANGED answer
     \/ \E d \in SameKey(r) : Reply(r, d) /\ Goto(r, "done")
  /\ UNCHANGED <<key, content, doc_state, objects, not_cleaned, deletion>>

\* MUTANT: the upload is tried again instead of reporting the conflict.
FindByContent_Retry(r) ==
  /\ pc[r] = "find_content"
  /\ \/ SameLiveContent(r) = {} /\ Goto(r, "insert_document") /\ UNCHANGED answer
     \/ \E d \in SameLiveContent(r) : Reply(r, d) /\ Goto(r, "done")
  /\ UNCHANGED <<key, content, doc_state, objects, not_cleaned, deletion>>

FindByContent(r) ==
  /\ pc[r] = "find_content"
  /\ \/ SameLiveContent(r) = {} /\ Reply(r, "conflict")
     \/ \E d \in SameLiveContent(r) : Reply(r, d)
  /\ Goto(r, "done")
  /\ UNCHANGED <<key, content, doc_state, objects, not_cleaned, deletion>>

\* The 201 with the new document is sent; a client that it never reaches knows less.
Respond(r) ==
  /\ pc[r] = "respond"
  /\ Reply(r, r)
  /\ Goto(r, "commit")
  /\ UNCHANGED <<key, content, doc_state, objects, not_cleaned, deletion>>

\* Only then does get_db_session commit.
Commit(r) ==
  /\ pc[r] = "commit"
  /\ doc_state' = [doc_state EXCEPT ![r] = "live"]
  /\ Goto(r, "done")
  /\ UNCHANGED <<key, content, answer, objects, not_cleaned, deletion>>

\* The API process dies, or the connection is lost: the transaction is rolled back.  At
\* "commit" the client keeps its answer, which names a document that will never be stored.
Crash(r) ==
  /\ pc[r] \in InFlight
  /\ Goto(r, "crashed")
  /\ UNCHANGED <<key, content, answer, doc_state, objects, not_cleaned, deletion>>

-------------------------------------------------------------------------------
(* soft_delete_document: the row is marked in the open transaction, the file *)
(* is removed, the 204 is sent, and only then does get_db_session commit.    *)

\* The UPDATE and storage.delete.  Until the commit nobody else sees the mark, and only another
\* DELETE of d waits for it, so the two are one step.  A DELETE that has found the row live and
\* waited proceeds when the other has ended, also when it has committed.  A storage error is
\* logged and passed over.
DeleteDocument(d) ==
  /\ \/ doc_state[d] = "live" /\ deletion[d] \in {"none", "lost"}
     \/ doc_state[d] = "deleted"
  /\ \/ deletion' = [deletion EXCEPT ![d] = "removed"] /\ objects' = objects \ {d}
     \/ deletion' = [deletion EXCEPT ![d] = "kept"] /\ objects' \in {objects, objects \ {d}}
  /\ UNCHANGED <<pc, key, content, answer, doc_state, not_cleaned>>

CommitDelete(d) ==
  /\ doc_state[d] = "live"
  /\ deletion[d] \in {"removed", "kept"}
  /\ doc_state' = [doc_state EXCEPT ![d] = "deleted"]
  /\ UNCHANGED <<pc, key, content, answer, objects, not_cleaned, deletion>>

\* The API process dies before the commit: the mark is rolled back, the file is not.
CrashDelete(d) ==
  /\ doc_state[d] = "live"
  /\ deletion[d] \in {"removed", "kept"}
  /\ deletion' = [deletion EXCEPT ![d] = "lost"]
  /\ UNCHANGED <<pc, key, content, answer, doc_state, objects, not_cleaned>>

-------------------------------------------------------------------------------
Step(r) ==
  \/ CheckKey(r)
  \/ CheckContent(r)
  \/ PutObject(r)
  \/ InsertDocument(r)
  \/ InsertJob(r)
  \/ Respond(r)
  \/ DeleteOwnObject(r)
  \/ FindByKey(r)
  \/ FindByContent(r)
  \/ Commit(r)

Next ==
  \/ \E r \in Requests, k \in Keys, c \in Contents : Begin(r, k, c)
  \/ \E r \in Requests : Step(r) \/ Crash(r)
  \/ \E d \in Requests : DeleteDocument(d) \/ CommitDelete(d) \/ CrashDelete(d)

Spec == Init /\ [][Next]_vars

\* A running handler is scheduled again, and every call it awaits returns or raises.
Fairness == \A r \in Requests : WF_vars(Step(r))
FairSpec == Spec /\ Fairness

-------------------------------------------------------------------------------
(* Properties. *)

\* Every variable stays in its domain, and a request that has begun has a key and a content.
TypeOK ==
  /\ pc \in [Requests -> InFlight \cup {"new", "done", "crashed"}]
  /\ key \in [Requests -> Keys \cup {NoKey}]
  /\ content \in [Requests -> Contents \cup {NoContent}]
  /\ answer \in [Requests -> Answers]
  /\ doc_state \in [Requests -> {"none", "live", "deleted"}]
  /\ objects \subseteq Requests
  /\ not_cleaned \subseteq Requests
  /\ deletion \in [Requests -> {"none", "removed", "kept", "lost"}]
  /\ \A r \in Requests : pc[r] # "new" => key[r] \in Keys /\ content[r] \in Contents

\* Every document that a client is told of is stored and was uploaded under its key or with
\* its content, except for one: its own, of which it was told just before the commit, and
\* which is not stored yet or never will be (the returns of upload_document, and
\* get_db_session, dependencies.py:43-48).
Told == {r \in Requests : answer[r] \in Requests}
LostAfterAnswer(r) == pc[r] = "crashed" /\ answer[r] = r
AnswerIsStored ==
  \A r \in Told :
    /\ \/ doc_state[answer[r]] # "none"
       \/ pc[r] = "commit" /\ answer[r] = r
       \/ LostAfterAnswer(r)
    /\ key[answer[r]] = key[r] \/ content[answer[r]] = content[r]

\* However uploads race and fail, the file of a live document stays in the bucket until a
\* DELETE of that document has reached the bucket (the cleanup after IntegrityError, lines
\* 124-132, and the best-effort removal, lines 289-298).
FilesKept ==
  \A d \in Requests : doc_state[d] = "live" /\ deletion[d] = "none" => d \in objects

\* No file is left behind by an upload that was answered with another document or with a
\* conflict, nor by a DELETE, unless the bucket refused the removal.
NoOrphans ==
  \A r \in objects :
    /\ ~(pc[r] = "done" /\ answer[r] \notin {r, "error"} /\ r \notin not_cleaned)
    /\ ~(doc_state[r] = "deleted" /\ deletion[r] = "removed")

\* Clients that send one file under one key, concurrently or one after the other, are told of
\* one document, even when some of their requests crash or the document is deleted, as long
\* as the key is not used for another file.  The exception is a client that was told of its
\* own document before a commit that then failed: the others are told of another one.
SafeRetry ==
  \A q, r \in Told :
    /\ key[q] = key[r]
    /\ \A s \in Requests : key[s] = key[r] => content[s] = content[r]
    /\ ~LostAfterAnswer(q) /\ ~LostAfterAnswer(r)
    => answer[q] = answer[r]

\* An upload ends: the waits for the rows of other transactions (InsertDocument, InsertJob)
\* form no cycle, and a conflict is reported instead of tried again.
EveryRequestEnds == \A r \in Requests : pc[r] = "check_key" ~> pc[r] \in {"done", "crashed"}
===============================================================================
