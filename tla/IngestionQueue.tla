---------------------------- MODULE IngestionQueue ----------------------------
(***************************************************************************)
(* The ingestion_jobs table and the worker processes that poll it          *)
(* (src/ingestion/service.py, src/ingestion/worker.py).                    *)
(*                                                                         *)
(* The row variables hold what is COMMITTED.  A worker handles a job in    *)
(* three transactions: it claims it; it processes it (mark_running,        *)
(* pipeline, complete_job), holding the row's lock from mark_running to    *)
(* the commit, so that "running" is never visible to anyone else; and, if  *)
(* that raised, it runs fail_job.  The claim and the fail transactions     *)
(* touch the row in one statement and commit, so each is one action; the   *)
(* processing transaction is the interval in which pc[w] = "running".      *)
(*                                                                         *)
(* The columns nothing reads back (worker_id, the timestamps other than    *)
(* claimed_at, error_message) are left out; of claimed_at the model keeps  *)
(* what the stale-claim query asks of it.                                  *)
(***************************************************************************)
EXTENDS Naturals

CONSTANTS
  Jobs,          \* the jobs, numbered in created_at order; one document each
  Workers,       \* the worker processes
  max_attempts   \* the column of that name, the same for every job

ASSUME JobsAssumption == Jobs \subseteq Nat \ {0}
ASSUME MaxAttemptsAssumption == max_attempts \in Nat \ {0}

VARIABLES
  status,          \* status[j]; "none" before the row exists
  attempt_count,   \* attempt_count[j]
  version,         \* version[j]
  stale,           \* the jobs whose claimed_at is older than the cutoff
  doc_status,      \* status of j's document; "none" before it exists
  deleted,         \* the jobs whose document has deleted_at set
  stored,          \* stored[j][a]: chunk batches that attempt a of j committed
  pc,              \* pc[w]: where worker w is
  claim            \* claim[w]: the values w read back when it claimed its job

rowVars == <<status, attempt_count, version, stale>>
docVars == <<doc_status, deleted, stored>>
workerVars == <<pc, claim>>
vars == <<status, attempt_count, version, stale, doc_status, deleted, stored, pc, claim>>

JobStatus == {"none", "queued", "claimed", "completed", "dead"}
DocStatus == {"none", "pending", "ready", "failed"}
Attempts == 1..max_attempts

NoClaim == [job |-> 0, version |-> 0, attempt_count |-> 0]
Claims == [job : Jobs \cup {0}, version : Nat, attempt_count : Nat]

Init ==
  /\ status = [j \in Jobs |-> "none"]
  /\ attempt_count = [j \in Jobs |-> 0]
  /\ version = [j \in Jobs |-> 1]
  /\ stale = {}
  /\ doc_status = [j \in Jobs |-> "none"]
  /\ deleted = {}
  /\ stored = [j \in Jobs |-> [a \in Attempts |-> 0]]
  /\ pc = [w \in Workers |-> "idle"]
  /\ claim = [w \in Workers |-> NoClaim]

-------------------------------------------------------------------------------
(* The API side. *)

\* The upload commits the document and its job in one transaction.
upload_document(j) ==
  /\ status[j] = "none"
  /\ status' = [status EXCEPT ![j] = "queued"]
  /\ doc_status' = [doc_status EXCEPT ![j] = "pending"]
  /\ UNCHANGED <<attempt_count, version, stale, deleted, stored, workerVars>>

\* The document is marked deleted and failed; its job is not touched.
soft_delete_document(j) ==
  /\ doc_status[j] # "none" /\ j \notin deleted
  /\ deleted' = deleted \cup {j}
  /\ doc_status' = [doc_status EXCEPT ![j] = "failed"]
  /\ UNCHANGED <<rowVars, stored, workerVars>>

-------------------------------------------------------------------------------
(* The worker side. *)

\* A processing transaction holds the lock of j's row.
Locked(j) == \E w \in Workers : pc[w] = "running" /\ claim[w].job = j

\* Time passes: j's claim is now older than worker_stale_claim_timeout_minutes.
ClaimExpires(j) ==
  /\ status[j] = "claimed" /\ j \notin stale
  /\ stale' = stale \cup {j}
  /\ UNCHANGED <<status, attempt_count, version, docVars, workerVars>>

\* MUTANT: claim_next_job no longer resets stale claims.
StaleClaims_Never == {}

\* The rows the reset at the head of claim_next_job turns back to "queued".
StaleClaims == {j \in stale : status[j] = "claimed"}

\* MUTANT: the claiming SELECT takes rows that another transaction has locked.
Claimable_NoSkipLocked ==
  {j \in Jobs : /\ status[j] = "queued" \/ j \in StaleClaims
                /\ attempt_count[j] < max_attempts}

\* MUTANT: the attempt limit is off by one.
Claimable_OneMore ==
  {j \in Jobs : /\ status[j] = "queued" \/ j \in StaleClaims
                /\ attempt_count[j] <= max_attempts
                /\ ~Locked(j)}

\* The rows the claiming SELECT sees as queued after the reset, and can lock.
Claimable ==
  {j \in Jobs : /\ status[j] = "queued" \/ j \in StaleClaims
                /\ attempt_count[j] < max_attempts
                /\ ~Locked(j)}

\* The reset UPDATE has no SKIP LOCKED: it waits for every stale row that is locked.
ResetNotBlocked == \A j \in StaleClaims : ~Locked(j)

\* MUTANT: the claim leaves attempt_count alone.
claim_next_job_NotCounted(w) ==
  /\ pc[w] = "idle"
  /\ ResetNotBlocked
  /\ \E j \in Claimable :
       /\ status' = [status EXCEPT ![j] = "claimed"]
       /\ stale' = stale \ {j}
       /\ version' = [version EXCEPT ![j] = @ + 1]
       /\ claim' = [claim EXCEPT ![w] = [job |-> j,
                                         version |-> version[j] + 1,
                                         attempt_count |-> attempt_count[j] + 1]]
       /\ pc' = [pc EXCEPT ![w] = "claimed"]
  /\ UNCHANGED <<attempt_count, docVars>>

\* claim_next_job and its commit, when some job can be claimed.
claim_next_job(w) ==
  /\ pc[w] = "idle"
  /\ ResetNotBlocked
  /\ \E j \in Claimable :
       /\ \A i \in Claimable : j <= i
       /\ status' = [i \in Jobs |-> IF i = j THEN "claimed"
                                    ELSE IF i \in StaleClaims THEN "queued"
                                    ELSE status[i]]
       /\ stale' = stale \ (StaleClaims \cup {j})
       /\ attempt_count' = [attempt_count EXCEPT ![j] = @ + 1]
       /\ version' = [version EXCEPT ![j] = @ + 1]
       /\ claim' = [claim EXCEPT ![w] = [job |-> j,
                                         version |-> version[j] + 1,
                                         attempt_count |-> attempt_count[j] + 1]]
       /\ pc' = [pc EXCEPT ![w] = "claimed"]
  /\ UNCHANGED docVars

\* claim_next_job and its commit when there is nothing to claim: only the reset remains,
\* and the worker polls again.
poll_empty(w) ==
  /\ pc[w] = "idle"
  /\ ResetNotBlocked
  /\ Claimable = {}
  /\ status' = [i \in Jobs |-> IF i \in StaleClaims THEN "queued" ELSE status[i]]
  /\ stale' = stale \ StaleClaims
  /\ UNCHANGED <<attempt_count, version, docVars, workerVars>>

\* MUTANT: mark_running takes the row whatever its version.
mark_running_Unversioned(w) ==
  /\ pc[w] = "claimed"
  /\ ~Locked(claim[w].job)
  /\ pc' = [pc EXCEPT ![w] = "running"]
  /\ UNCHANGED <<rowVars, docVars, claim>>

\* mark_running waits for the row's lock.  If the version still is the one claimed, the row
\* is updated in the worker's transaction, which keeps the lock; nobody sees the update yet.
\* Otherwise the worker rolls back and drops the job.
mark_running(w) ==
  /\ pc[w] = "claimed"
  /\ ~Locked(claim[w].job)
  /\ \/ /\ version[claim[w].job] = claim[w].version
        /\ pc' = [pc EXCEPT ![w] = "running"]
        /\ UNCHANGED claim
     \/ /\ version[claim[w].job] # claim[w].version
        /\ pc' = [pc EXCEPT ![w] = "idle"]
        /\ claim' = [claim EXCEPT ![w] = NoClaim]
  /\ UNCHANGED <<rowVars, docVars>>

\* complete_job and the commit of the processing transaction.  The statement has no version
\* or status condition.  The reply to the commit can be lost, and then the worker takes the
\* exception for a failure of the job.
complete_job(w) ==
  LET j == claim[w].job IN
  /\ pc[w] = "running"
  /\ stored' = [stored EXCEPT ![j][claim[w].attempt_count] = @ + 1]
  /\ doc_status' = [doc_status EXCEPT ![j] = "ready"]
  /\ status' = [status EXCEPT ![j] = "completed"]
  /\ version' = [version EXCEPT ![j] = @ + 1]
  /\ \/ /\ pc' = [pc EXCEPT ![w] = "idle"]
        /\ claim' = [claim EXCEPT ![w] = NoClaim]
     \/ /\ pc' = [pc EXCEPT ![w] = "failing"]
        /\ UNCHANGED claim
  /\ UNCHANGED <<attempt_count, stale, deleted>>

\* Anything raised before the commit rolls the processing transaction back: the row is again
\* what the claim left, and its lock is free.
ProcessingFails(w) ==
  /\ pc[w] \in {"claimed", "running"}
  /\ pc' = [pc EXCEPT ![w] = "failing"]
  /\ UNCHANGED <<rowVars, docVars, claim>>

\* MUTANT: a job is dead-lettered one attempt too early.
DeadLetter_OneEarly(w) ==
  LET j == claim[w].job IN
  /\ claim[w].attempt_count + 1 >= max_attempts
  /\ status' = [status EXCEPT ![j] = "dead"]
  /\ doc_status' = [doc_status EXCEPT ![j] = "failed"]
  /\ UNCHANGED stale

\* MUTANT: the document keeps its status when its job is dead-lettered.
DeadLetter_DocumentForgotten(w) ==
  LET j == claim[w].job IN
  /\ claim[w].attempt_count >= max_attempts
  /\ status' = [status EXCEPT ![j] = "dead"]
  /\ UNCHANGED <<doc_status, stale>>

\* fail_job and its commit, for a worker whose own attempt was the last one.
DeadLetter(w) ==
  LET j == claim[w].job IN
  /\ claim[w].attempt_count >= max_attempts
  /\ status' = [status EXCEPT ![j] = "dead"]
  /\ doc_status' = [doc_status EXCEPT ![j] = "failed"]
  /\ UNCHANGED stale

\* fail_job and its commit, for a worker whose own attempt was not the last one.
Requeue(w) ==
  LET j == claim[w].job IN
  /\ claim[w].attempt_count < max_attempts
  /\ status' = [status EXCEPT ![j] = "queued"]
  /\ stale' = stale \ {j}
  /\ UNCHANGED doc_status

\* fail_job waits for the row's lock and has no version condition either.
fail_job(w) ==
  /\ pc[w] = "failing"
  /\ ~Locked(claim[w].job)
  /\ \/ DeadLetter(w)
     \/ Requeue(w)
  /\ pc' = [pc EXCEPT ![w] = "idle"]
  /\ claim' = [claim EXCEPT ![w] = NoClaim]
  /\ UNCHANGED <<attempt_count, version, deleted, stored>>

\* The fail transaction itself raises: that is logged, and the worker polls again.
FailUpdateLost(w) ==
  /\ pc[w] = "failing"
  /\ pc' = [pc EXCEPT ![w] = "idle"]
  /\ claim' = [claim EXCEPT ![w] = NoClaim]
  /\ UNCHANGED <<rowVars, docVars>>

\* The process dies and takes its open transaction with it.  A death between two jobs loses
\* nothing and is not a step.
Crash(w) ==
  /\ pc[w] \in {"claimed", "running", "failing"}
  /\ pc' = [pc EXCEPT ![w] = "down"]
  /\ claim' = [claim EXCEPT ![w] = NoClaim]
  /\ UNCHANGED <<rowVars, docVars>>

\* Somebody starts the process again.
Restart(w) ==
  /\ pc[w] = "down"
  /\ pc' = [pc EXCEPT ![w] = "idle"]
  /\ UNCHANGED <<rowVars, docVars, claim>>

-------------------------------------------------------------------------------

Next ==
  \/ \E j \in Jobs : upload_document(j) \/ soft_delete_document(j) \/ ClaimExpires(j)
  \/ \E w \in Workers : \/ claim_next_job(w) \/ poll_empty(w)
                        \/ mark_running(w) \/ complete_job(w) \/ ProcessingFails(w)
                        \/ fail_job(w) \/ FailUpdateLost(w)
                        \/ Crash(w) \/ Restart(w)

Spec == Init /\ [][Next]_vars

\* Workers keep running their loop, the clock keeps running, and whoever operates the
\* deployment starts a dead worker again.  Uploads, deletions and failures need not happen.
Fairness ==
  /\ \A w \in Workers : /\ WF_vars(claim_next_job(w) \/ poll_empty(w))
                        /\ WF_vars(mark_running(w))
                        /\ WF_vars(complete_job(w) \/ ProcessingFails(w))
                        /\ WF_vars(fail_job(w) \/ FailUpdateLost(w))
                        /\ WF_vars(Restart(w))
  /\ \A j \in Jobs : WF_vars(ClaimExpires(j))

FairSpec == Spec /\ Fairness

-------------------------------------------------------------------------------
(* Properties. *)

\* The rows and the workers' variables have their types; in particular no claim ever takes
\* attempt_count past max_attempts.
TypeOK ==
  /\ status \in [Jobs -> JobStatus]
  /\ attempt_count \in [Jobs -> 0..max_attempts]
  /\ version \in [Jobs -> Nat]
  /\ stale \subseteq Jobs
  /\ doc_status \in [Jobs -> DocStatus]
  /\ deleted \subseteq Jobs
  /\ stored \in [Jobs -> [Attempts -> Nat]]
  /\ pc \in [Workers -> {"idle", "claimed", "running", "failing", "down"}]
  /\ claim \in [Workers -> Claims]

\* A worker inside the processing transaction works on the newest claim of its job: whoever
\* claimed it again would have had to take the row away from under it.
ProcessesNewestClaim ==
  \A w \in Workers : pc[w] = "running" =>
    /\ claim[w].version = version[claim[w].job]
    /\ claim[w].attempt_count = attempt_count[claim[w].job]

\* Once a job has been claimed again, the earlier attempt never commits its chunks: the
\* version check of mark_running and the row lock fence it off.
FencedStore ==
  [][\A j \in Jobs, a \in Attempts :
       stored'[j][a] # stored[j][a] => a = attempt_count[j]]_vars

\* No attempt commits two batches of chunks, whoever crashes, loses a reply or is slow.
AttemptStoresOnce == \A j \in Jobs, a \in Attempts : stored[j][a] <= 1

\* Some worker still can commit chunks for j: it holds the version that j's row has.
Live(j) == \E w \in Workers : /\ pc[w] \in {"claimed", "running"}
                              /\ claim[w].job = j
                              /\ claim[w].version = version[j]

\* A dead-lettered job has used every attempt, and nobody is left who could still commit
\* chunks for it.
DeadIsOver ==
  \A j \in Jobs : status[j] = "dead" =>
    attempt_count[j] = max_attempts /\ ~Live(j)

HasChunks(j) == \E a \in Attempts : stored[j][a] > 0

\* What the two tables say of one upload agrees, although fail_job checks neither: a completed
\* job has a ready document (or a deleted one), a dead job a failed one, a ready document has
\* had its chunks committed, and a document that failed without being deleted has no attempt left.
JobAndDocumentAgree ==
  \A j \in Jobs :
    /\ status[j] = "completed" => doc_status[j] = "ready" \/ j \in deleted
    /\ status[j] = "dead" => doc_status[j] = "failed"
    /\ doc_status[j] = "ready" => HasChunks(j)
    /\ doc_status[j] = "failed" /\ j \notin deleted => attempt_count[j] = max_attempts

\* The queue implements FencedDelivery: a hand-out is an attempt, and the newest one may still
\* store while it is live.
Delivery == INSTANCE FencedDelivery WITH
  Tasks <- Jobs,
  Limit <- max_attempts,
  given <- attempt_count,
  live <- [j \in Jobs |-> Live(j)],
  stored <- stored

\* Every step of the workers, the API and the clock is a step of FencedDelivery or leaves
\* what it speaks of alone.
ImplementsDelivery == Delivery!Spec

\* Nothing remains to be done for j: it was never uploaded, it is over, or it is queued with
\* no attempt left.
Settled(j) ==
  \/ status[j] \in {"none", "completed", "dead"}
  \/ status[j] = "queued" /\ attempt_count[j] = max_attempts

\* However often workers crash or lose updates, every job comes to rest: retries end, and no
\* claim of a dead worker stays in the way for ever.
EventuallySettled == \A j \in Jobs : <>[]Settled(j)

\* REFUTED.  "jobs exceeding max_attempts move to status = 'dead'" (ADR, milestone 3): every
\* uploaded job ends completed or dead.
EveryJobEnds == \A j \in Jobs : status[j] = "queued" ~> status[j] \in {"completed", "dead"}
===============================================================================
