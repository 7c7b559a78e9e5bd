------------------------- MODULE IngestionQueueProofs -------------------------
(***************************************************************************)
(* For every set of jobs and workers and every max_attempts: the safety    *)
(* properties of IngestionQueue and its implementation of FencedDelivery.  *)
(*                                                                         *)
(* The inductive invariant says what a claim that a worker carries around  *)
(* still is worth: different workers hold different attempts and versions  *)
(* of a job, and a claim whose version is the row's version is the newest  *)
(* attempt.  The version therefore fences: complete_job, which checks      *)
(* nothing, can only be reached by the newest claim.                       *)
(*                                                                         *)
(* And for every text and every size and overlap of chunks: what the       *)
(* chunkers of the pipeline that the worker runs keep of a text.  They     *)
(* are recursive functions, and what these compute is proved by induction  *)
(* on the length of the data, in the form of statements about sets of      *)
(* naturals; the greater part of the module are the loop invariants.       *)
(***************************************************************************)
EXTENDS IngestionQueue, TextChunker, FiniteSetTheorems, FunctionTheorems, SequenceTheorems,
        WellFoundedInduction, TLAPS

\* w carries a claim.
Holds(w) == pc[w] \in {"claimed", "running", "failing"}

\* A claim that a worker carries is a claim that was made.
ClaimsWereMade ==
  \A w \in Workers : Holds(w) =>
    /\ claim[w].job \in Jobs
    /\ claim[w].attempt_count \in 1..attempt_count[claim[w].job]
    /\ claim[w].version <= version[claim[w].job]

\* No two workers carry the same attempt of a job, nor the same version of it.
ClaimsDiffer ==
  \A v, w \in Workers : Holds(v) /\ Holds(w) /\ v # w /\ claim[v].job = claim[w].job =>
    /\ claim[v].attempt_count # claim[w].attempt_count
    /\ claim[v].version # claim[w].version

\* The version a row has belongs to its newest attempt.
VersionIsNewest ==
  \A w \in Workers : Holds(w) /\ claim[w].version = version[claim[w].job] =>
    claim[w].attempt_count = attempt_count[claim[w].job]

\* Attempts that were not made, or have not committed yet, have stored nothing.
UnfinishedUnstored ==
  /\ \A j \in Jobs, a \in Attempts : a > attempt_count[j] => stored[j][a] = 0
  /\ \A w \in Workers : pc[w] \in {"claimed", "running"} =>
       stored[claim[w].job][claim[w].attempt_count] = 0

FenceInv ==
  /\ TypeOK
  /\ ClaimsWereMade
  /\ ClaimsDiffer
  /\ VersionIsNewest
  /\ ProcessesNewestClaim
  /\ UnfinishedUnstored
  /\ AttemptStoresOnce

-------------------------------------------------------------------------------

\* FenceInv holds before anything is uploaded or claimed.
LEMMA FenceInvInit == Init => FenceInv
  BY JobsAssumption, MaxAttemptsAssumption
  DEF Init, FenceInv, TypeOK, ClaimsWereMade, ClaimsDiffer, VersionIsNewest,
      ProcessesNewestClaim, UnfinishedUnstored, AttemptStoresOnce, Holds,
      JobStatus, DocStatus, Attempts, Claims, NoClaim

\* Every step of the next-state relation preserves the fencing invariant.
LEMMA FenceInvNext == FenceInv /\ [Next]_vars => FenceInv'
<1> SUFFICES ASSUME FenceInv, [Next]_vars PROVE FenceInv'
  OBVIOUS
<1> USE JobsAssumption, MaxAttemptsAssumption
<1>0. TypeOK /\ ClaimsWereMade /\ ClaimsDiffer /\ VersionIsNewest
        /\ ProcessesNewestClaim /\ UnfinishedUnstored /\ AttemptStoresOnce
  BY DEF FenceInv
<1>1. ASSUME NEW j \in Jobs, upload_document(j) PROVE FenceInv'
  BY <1>0, <1>1
  DEF upload_document, workerVars, FenceInv, TypeOK, ClaimsWereMade, ClaimsDiffer,
      VersionIsNewest, ProcessesNewestClaim, UnfinishedUnstored, AttemptStoresOnce, Holds,
      JobStatus, DocStatus
<1>2. ASSUME NEW j \in Jobs, soft_delete_document(j) PROVE FenceInv'
  BY <1>0, <1>2
  DEF soft_delete_document, workerVars, rowVars, FenceInv, TypeOK, ClaimsWereMade,
      ClaimsDiffer, VersionIsNewest, ProcessesNewestClaim, UnfinishedUnstored,
      AttemptStoresOnce, Holds, DocStatus
<1>3. ASSUME NEW j \in Jobs, ClaimExpires(j) PROVE FenceInv'
  BY <1>0, <1>3
  DEF ClaimExpires, workerVars, docVars, FenceInv, TypeOK, ClaimsWereMade, ClaimsDiffer,
      VersionIsNewest, ProcessesNewestClaim, UnfinishedUnstored, AttemptStoresOnce, Holds
<1>4. ASSUME NEW w \in Workers, claim_next_job(w) PROVE FenceInv'
  <2>1. PICK j \in Claimable :
          /\ status' = [i \in Jobs |-> IF i = j THEN "claimed"
                                       ELSE IF i \in StaleClaims THEN "queued"
                                       ELSE status[i]]
          /\ stale' = stale \ (StaleClaims \cup {j})
          /\ attempt_count' = [attempt_count EXCEPT ![j] = @ + 1]
          /\ version' = [version EXCEPT ![j] = @ + 1]
          /\ claim' = [claim EXCEPT ![w] = [job |-> j,
                                            version |-> version[j] + 1,
                                            attempt_count |-> attempt_count[j] + 1]]
          /\ pc' = [pc EXCEPT ![w] = "claimed"]
    BY <1>4 DEF claim_next_job
  <2>2. /\ j \in Jobs
        /\ attempt_count[j] < max_attempts
        /\ \A v \in Workers : pc[v] = "running" => claim[v].job # j
    BY <2>1 DEF Claimable, Locked
  <2>3. UNCHANGED <<doc_status, deleted, stored>>
    BY <1>4 DEF claim_next_job, docVars
  <2>4. pc[w] = "idle"
    BY <1>4 DEF claim_next_job
  <2>5. TypeOK'
    <3>1. status' \in [Jobs -> JobStatus]
      BY <1>0, <2>1 DEF TypeOK, JobStatus
    <3>2. attempt_count' \in [Jobs -> 0..max_attempts] /\ version' \in [Jobs -> Nat]
      BY <1>0, <2>1, <2>2 DEF TypeOK
    <3>3. claim' \in [Workers -> Claims] /\ pc' \in [Workers -> {"idle", "claimed", "running", "failing", "down"}]
      BY <1>0, <2>1, <2>2 DEF TypeOK, Claims
    <3> QED
      BY <1>0, <2>1, <2>3, <3>1, <3>2, <3>3 DEF TypeOK
  <2>6. ClaimsWereMade' /\ VersionIsNewest' /\ ProcessesNewestClaim'
    BY <1>0, <2>1, <2>2, <2>4
    DEF TypeOK, ClaimsWereMade, VersionIsNewest, ProcessesNewestClaim, Holds, Claims
  <2>7. ClaimsDiffer'
    BY <1>0, <2>1, <2>2, <2>4 DEF TypeOK, ClaimsWereMade, ClaimsDiffer, Holds, Claims
  <2>8. UnfinishedUnstored' /\ AttemptStoresOnce'
    BY <1>0, <2>1, <2>2, <2>3, <2>4
    DEF TypeOK, UnfinishedUnstored, AttemptStoresOnce, ClaimsWereMade, Holds, Attempts, Claims
  <2> QED
    BY <2>5, <2>6, <2>7, <2>8 DEF FenceInv
<1>5. ASSUME NEW w \in Workers, poll_empty(w) PROVE FenceInv'
  BY <1>0, <1>5
  DEF poll_empty, StaleClaims, workerVars, docVars, FenceInv, TypeOK, ClaimsWereMade,
      ClaimsDiffer, VersionIsNewest, ProcessesNewestClaim, UnfinishedUnstored,
      AttemptStoresOnce, Holds, JobStatus
<1>6. ASSUME NEW w \in Workers, mark_running(w) PROVE FenceInv'
  <2>1. CASE /\ version[claim[w].job] = claim[w].version
             /\ pc' = [pc EXCEPT ![w] = "running"]
             /\ UNCHANGED claim
    <3>1. pc[w] = "claimed" /\ UNCHANGED <<rowVars, docVars>>
      BY <1>6 DEF mark_running
    <3>2. ProcessesNewestClaim'
      BY <1>0, <2>1, <3>1 DEF rowVars, TypeOK, VersionIsNewest, ProcessesNewestClaim, Holds
    <3> QED
      BY <1>0, <2>1, <3>1, <3>2
      DEF rowVars, docVars, FenceInv, TypeOK, ClaimsWereMade, ClaimsDiffer,
          VersionIsNewest, UnfinishedUnstored, AttemptStoresOnce, Holds
  <2>2. CASE /\ pc' = [pc EXCEPT ![w] = "idle"]
             /\ claim' = [claim EXCEPT ![w] = NoClaim]
    BY <1>0, <1>6, <2>2
    DEF mark_running, rowVars, docVars, FenceInv, TypeOK, ClaimsWereMade, ClaimsDiffer,
        VersionIsNewest, ProcessesNewestClaim, UnfinishedUnstored, AttemptStoresOnce, Holds,
        Claims, NoClaim
  <2> QED
    BY <1>6, <2>1, <2>2 DEF mark_running
<1>7. ASSUME NEW w \in Workers, complete_job(w) PROVE FenceInv'
  <2> DEFINE j == claim[w].job
             a == claim[w].attempt_count
  <2>1. /\ claim[w].job = j /\ claim[w].attempt_count = a
        /\ pc[w] = "running" /\ j \in Jobs /\ a \in Attempts
        /\ claim[w].version = version[j] /\ a = attempt_count[j] /\ stored[j][a] = 0
    <3>1. pc[w] = "running" /\ Holds(w)
      BY <1>7 DEF complete_job, Holds
    <3>2. j \in Jobs /\ a \in 1..attempt_count[j]
      BY <1>0, <3>1 DEF ClaimsWereMade
    <3>3. a \in Attempts
      <4>1. attempt_count[j] \in 0..max_attempts
        BY <1>0, <3>2 DEF TypeOK
      <4> QED
        BY <3>2, <4>1 DEF Attempts
    <3>4. claim[w].version = version[j] /\ a = attempt_count[j]
      BY <1>0, <3>1 DEF ProcessesNewestClaim
    <3>5. stored[j][a] = 0
      BY <1>0, <3>1 DEF UnfinishedUnstored
    <3> QED
      BY <3>1, <3>2, <3>3, <3>4, <3>5
  <2>2. /\ stored' = [stored EXCEPT ![j] = [stored[j] EXCEPT ![a] = stored[j][a] + 1]]
        /\ doc_status' = [doc_status EXCEPT ![j] = "ready"]
        /\ status' = [status EXCEPT ![j] = "completed"]
        /\ version' = [version EXCEPT ![j] = version[j] + 1]
        /\ \/ pc' = [pc EXCEPT ![w] = "idle"] /\ claim' = [claim EXCEPT ![w] = NoClaim]
           \/ pc' = [pc EXCEPT ![w] = "failing"] /\ claim' = claim
        /\ UNCHANGED <<attempt_count, stale, deleted>>
    BY <1>7 DEF complete_job
  <2> HIDE DEF j, a
  <2>3. TypeOK'
    <3>1. stored' \in [Jobs -> [Attempts -> Nat]]
      BY <1>0, <2>1, <2>2 DEF TypeOK
    <3>2. /\ status' \in [Jobs -> JobStatus]
          /\ doc_status' \in [Jobs -> DocStatus]
          /\ version' \in [Jobs -> Nat]
      BY <1>0, <2>1, <2>2 DEF TypeOK, JobStatus, DocStatus
    <3>3. pc' \in [Workers -> {"idle", "claimed", "running", "failing", "down"}]
      BY <1>0, <2>2 DEF TypeOK
    <3>4. claim' \in [Workers -> Claims]
      <4>1. NoClaim \in Claims
        BY DEF NoClaim, Claims
      <4> QED
        BY <1>0, <2>2, <4>1 DEF TypeOK
    <3> QED
      BY <1>0, <2>2, <3>1, <3>2, <3>3, <3>4 DEF TypeOK
  <2>4. ClaimsWereMade' /\ ClaimsDiffer' /\ VersionIsNewest'
    <3>1. \A v \in Workers : Holds(v)' => Holds(v) /\ claim'[v] = claim[v]
      BY <1>0, <2>1, <2>2 DEF TypeOK, Holds
    <3>2. ClaimsWereMade'
      BY <1>0, <2>1, <2>2, <3>1 DEF TypeOK, ClaimsWereMade, Claims
    <3>3. ClaimsDiffer'
      BY <1>0, <3>1 DEF ClaimsDiffer
    <3>4. VersionIsNewest'
      BY <1>0, <2>1, <2>2, <3>1 DEF TypeOK, ClaimsWereMade, VersionIsNewest, Claims
    <3> QED
      BY <3>2, <3>3, <3>4
  <2>5. ProcessesNewestClaim'
    BY <1>0, <2>1, <2>2 DEF TypeOK, ClaimsDiffer, ProcessesNewestClaim, Holds, Claims
  <2>6. \A i \in Jobs, n \in Attempts :
          stored'[i][n] = IF i = j /\ n = a THEN 1 ELSE stored[i][n]
    BY <1>0, <2>1, <2>2 DEF TypeOK
  <2>7. UnfinishedUnstored'
    BY <1>0, <2>1, <2>2, <2>6
    DEF TypeOK, UnfinishedUnstored, ClaimsDiffer, ClaimsWereMade, Holds, Claims, Attempts
  <2>8. AttemptStoresOnce'
    BY <1>0, <2>6 DEF AttemptStoresOnce
  <2> QED
    BY <2>3, <2>4, <2>5, <2>7, <2>8 DEF FenceInv
<1>8. ASSUME NEW w \in Workers, ProcessingFails(w) PROVE FenceInv'
  BY <1>0, <1>8
  DEF ProcessingFails, rowVars, docVars, FenceInv, TypeOK, ClaimsWereMade, ClaimsDiffer,
      VersionIsNewest, ProcessesNewestClaim, UnfinishedUnstored, AttemptStoresOnce, Holds
<1>9. ASSUME NEW w \in Workers, fail_job(w) PROVE FenceInv'
  <2>1. claim[w].job \in Jobs /\ pc[w] = "failing"
    BY <1>0, <1>9 DEF fail_job, ClaimsWereMade, Holds
  <2>2. /\ status' \in [Jobs -> JobStatus]
        /\ doc_status' \in [Jobs -> DocStatus]
        /\ stale' \subseteq Jobs
    BY <1>0, <1>9, <2>1 DEF fail_job, DeadLetter, Requeue, TypeOK, JobStatus, DocStatus
  <2>3. /\ pc' = [pc EXCEPT ![w] = "idle"]
        /\ claim' = [claim EXCEPT ![w] = NoClaim]
        /\ UNCHANGED <<attempt_count, version, deleted, stored>>
    BY <1>9 DEF fail_job
  <2> QED
    BY <1>0, <2>2, <2>3
    DEF FenceInv, TypeOK, ClaimsWereMade, ClaimsDiffer, VersionIsNewest,
        ProcessesNewestClaim, UnfinishedUnstored, AttemptStoresOnce, Holds, Claims, NoClaim
<1>10. ASSUME NEW w \in Workers, FailUpdateLost(w) PROVE FenceInv'
  BY <1>0, <1>10
  DEF FailUpdateLost, rowVars, docVars, FenceInv, TypeOK, ClaimsWereMade, ClaimsDiffer,
      VersionIsNewest, ProcessesNewestClaim, UnfinishedUnstored, AttemptStoresOnce, Holds,
      Claims, NoClaim
<1>11. ASSUME NEW w \in Workers, Crash(w) PROVE FenceInv'
  BY <1>0, <1>11
  DEF Crash, rowVars, docVars, FenceInv, TypeOK, ClaimsWereMade, ClaimsDiffer,
      VersionIsNewest, ProcessesNewestClaim, UnfinishedUnstored, AttemptStoresOnce, Holds,
      Claims, NoClaim
<1>12. ASSUME NEW w \in Workers, Restart(w) PROVE FenceInv'
  BY <1>0, <1>12
  DEF Restart, rowVars, docVars, FenceInv, TypeOK, ClaimsWereMade, ClaimsDiffer,
      VersionIsNewest, ProcessesNewestClaim, UnfinishedUnstored, AttemptStoresOnce, Holds
<1>13. CASE UNCHANGED vars
  BY <1>0, <1>13
  DEF vars, FenceInv, TypeOK, ClaimsWereMade, ClaimsDiffer, VersionIsNewest,
      ProcessesNewestClaim, UnfinishedUnstored, AttemptStoresOnce, Holds
<1> QED
  BY <1>1, <1>2, <1>3, <1>4, <1>5, <1>6, <1>7, <1>8, <1>9, <1>10, <1>11, <1>12, <1>13
  DEF Next

\* The fencing invariant holds of every state of the queue.
THEOREM QueueIsFenced == Spec => []FenceInv
  BY FenceInvInit, FenceInvNext, PTL DEF Spec

\* The rows and the workers always have their types, and attempt_count never passes
\* max_attempts, whatever the number of workers.
THEOREM QueueTypes == Spec => []TypeOK
<1>1. FenceInv => TypeOK
  BY DEF FenceInv
<1> QED
  BY <1>1, QueueIsFenced, PTL

\* A worker in its processing transaction always processes the newest claim of its job.
THEOREM QueueProcessesNewest == Spec => []ProcessesNewestClaim
<1>1. FenceInv => ProcessesNewestClaim
  BY DEF FenceInv
<1> QED
  BY <1>1, QueueIsFenced, PTL

\* complete_job and its lost replies never store two batches for one attempt.
THEOREM QueueStoresOnce == Spec => []AttemptStoresOnce
<1>1. FenceInv => AttemptStoresOnce
  BY DEF FenceInv
<1> QED
  BY <1>1, QueueIsFenced, PTL

-------------------------------------------------------------------------------
(* The fence over time, and over the document. *)

\* Only complete_job writes chunks, and only for the newest attempt: an attempt that was
\* claimed over again never commits its chunks.
THEOREM QueueFencedStore == Spec => FencedStore
<1>1. FenceInv /\ [Next]_vars =>
        [\A j \in Jobs, a \in Attempts :
           stored'[j][a] # stored[j][a] => a = attempt_count[j]]_vars
  <2> SUFFICES ASSUME FenceInv, Next,
                      NEW j \in Jobs, NEW a \in Attempts, stored'[j][a] # stored[j][a]
               PROVE  a = attempt_count[j]
    OBVIOUS
  <2>1. CASE \E w \in Workers : complete_job(w)
    <3>1. PICK w \in Workers : complete_job(w)
      BY <2>1
    <3>2. /\ pc[w] = "running" /\ claim[w].job \in Jobs
          /\ claim[w].attempt_count = attempt_count[claim[w].job]
          /\ stored \in [Jobs -> [Attempts -> Nat]]
      BY <3>1
      DEF complete_job, FenceInv, TypeOK, ClaimsWereMade, ProcessesNewestClaim, Holds
    <3>3. stored' = [stored EXCEPT ![claim[w].job] =
                       [stored[claim[w].job] EXCEPT ![claim[w].attempt_count] =
                          stored[claim[w].job][claim[w].attempt_count] + 1]]
      BY <3>1 DEF complete_job
    <3> QED
      BY <3>2, <3>3
  <2>2. CASE ~ \E w \in Workers : complete_job(w)
    <3>1. UNCHANGED stored
      BY <2>2
      DEF Next, upload_document, soft_delete_document, ClaimExpires, claim_next_job,
          poll_empty, mark_running, ProcessingFails, fail_job, FailUpdateLost, Crash, Restart,
          docVars
    <3> QED
      BY <3>1
  <2> QED
    BY <2>1, <2>2
<1> QED
  BY <1>1, QueueIsFenced, PTL DEF Spec, FencedStore

\* Every step keeps DeadIsOver: the last attempt is dead-lettered by the worker that made it,
\* and a job with no attempt left is never claimed again.
LEMMA DeadIsOverNext == FenceInv /\ DeadIsOver /\ [Next]_vars => DeadIsOver'
<1> SUFFICES ASSUME FenceInv, DeadIsOver, [Next]_vars,
                    NEW j \in Jobs, status'[j] = "dead"
             PROVE  attempt_count'[j] = max_attempts /\ ~Live(j)'
  BY DEF DeadIsOver
<1> USE JobsAssumption, MaxAttemptsAssumption
<1>0. TypeOK /\ ClaimsWereMade /\ ClaimsDiffer /\ VersionIsNewest
  BY DEF FenceInv
<1>1. CASE \E w \in Workers : fail_job(w) /\ claim[w].job = j /\ status[j] # "dead"
  <2>1. PICK w \in Workers : fail_job(w) /\ claim[w].job = j /\ status[j] # "dead"
    BY <1>1
  <2>2. Holds(w) /\ claim[w].attempt_count >= max_attempts
    BY <1>0, <2>1 DEF fail_job, DeadLetter, Requeue, Holds, TypeOK
  <2>3. claim[w].attempt_count = attempt_count[j] /\ attempt_count[j] = max_attempts
    <3>1. /\ claim[w].attempt_count \in 1..attempt_count[j]
          /\ attempt_count[j] \in 0..max_attempts
      BY <1>0, <2>1, <2>2 DEF ClaimsWereMade, TypeOK
    <3> QED
      BY <2>2, <3>1
  <2>4. ASSUME NEW v \in Workers, pc[v] \in {"claimed", "running"}, claim[v].job = j
        PROVE claim[v].version # version[j]
    <3>1. Holds(v) /\ v # w
      BY <2>1, <2>4 DEF fail_job, Holds
    <3> QED
      BY <1>0, <2>1, <2>2, <2>3, <2>4, <3>1 DEF ClaimsDiffer, VersionIsNewest
  <2>5. /\ pc' = [pc EXCEPT ![w] = "idle"]
        /\ claim' = [claim EXCEPT ![w] = NoClaim]
        /\ UNCHANGED <<attempt_count, version>>
    BY <2>1 DEF fail_job
  <2> QED
    BY <1>0, <2>3, <2>4, <2>5 DEF Live, TypeOK
<1>2. CASE status[j] = "dead"
  <2>1. attempt_count[j] = max_attempts /\ ~Live(j)
    BY <1>2 DEF DeadIsOver
  <2>2. ASSUME NEW w \in Workers, claim_next_job(w) PROVE attempt_count'[j] = max_attempts /\ ~Live(j)'
    <3>1. PICK i \in Jobs :
            /\ attempt_count[i] < max_attempts
            /\ attempt_count' = [attempt_count EXCEPT ![i] = @ + 1]
            /\ version' = [version EXCEPT ![i] = @ + 1]
            /\ claim' = [claim EXCEPT ![w] = [job |-> i,
                                              version |-> version[i] + 1,
                                              attempt_count |-> attempt_count[i] + 1]]
            /\ pc' = [pc EXCEPT ![w] = "claimed"]
      BY <2>2 DEF claim_next_job, Claimable
    <3>2. i # j
      BY <2>1, <3>1 DEF TypeOK
    <3> QED
      BY <1>0, <2>1, <3>1, <3>2 DEF Live, TypeOK
  <2>3. ASSUME NEW w \in Workers, complete_job(w) PROVE attempt_count'[j] = max_attempts /\ ~Live(j)'
    <3>1. pc[w] = "running" /\ claim[w].version = version[claim[w].job]
      BY <2>3 DEF complete_job, FenceInv, ProcessesNewestClaim
    <3>2. claim[w].job # j
      BY <2>1, <3>1 DEF Live
    <3>3. /\ version' = [version EXCEPT ![claim[w].job] = version[claim[w].job] + 1]
          /\ \/ pc' = [pc EXCEPT ![w] = "idle"] /\ claim' = [claim EXCEPT ![w] = NoClaim]
             \/ pc' = [pc EXCEPT ![w] = "failing"] /\ claim' = claim
          /\ UNCHANGED attempt_count
      BY <2>3 DEF complete_job
    <3> QED
      BY <1>0, <2>1, <3>1, <3>2, <3>3 DEF Live, TypeOK
  <2>4. ASSUME NEW w \in Workers, mark_running(w) PROVE attempt_count'[j] = max_attempts /\ ~Live(j)'
    BY <1>0, <2>1, <2>4 DEF mark_running, rowVars, Live, TypeOK
  <2>5. ASSUME NEW w \in Workers, fail_job(w) PROVE attempt_count'[j] = max_attempts /\ ~Live(j)'
    <3>1. /\ pc' = [pc EXCEPT ![w] = "idle"]
          /\ claim' = [claim EXCEPT ![w] = NoClaim]
          /\ UNCHANGED <<attempt_count, version>>
      BY <2>5 DEF fail_job
    <3> QED
      BY <1>0, <2>1, <3>1 DEF Live, TypeOK
  <2>6. ASSUME NEW w \in Workers,
               ProcessingFails(w) \/ FailUpdateLost(w) \/ Crash(w) \/ Restart(w)
        PROVE attempt_count'[j] = max_attempts /\ ~Live(j)'
    BY <1>0, <2>1, <2>6
    DEF ProcessingFails, FailUpdateLost, Crash, Restart, rowVars, Live, TypeOK
  <2>7. ASSUME \/ \E i \in Jobs : upload_document(i) \/ soft_delete_document(i) \/ ClaimExpires(i)
               \/ \E w \in Workers : poll_empty(w)
               \/ UNCHANGED vars
        PROVE attempt_count'[j] = max_attempts /\ ~Live(j)'
    <3>1. UNCHANGED <<attempt_count, version, pc, claim>>
      BY <2>7
      DEF upload_document, soft_delete_document, ClaimExpires, poll_empty, vars, rowVars,
          workerVars
    <3> QED
      BY <2>1, <3>1 DEF Live
  <2> QED
    BY <2>2, <2>3, <2>4, <2>5, <2>6, <2>7 DEF Next
<1>3. CASE status[j] # "dead" /\ ~ \E w \in Workers : fail_job(w) /\ claim[w].job = j
  <2>1. ASSUME NEW w \in Workers, fail_job(w) PROVE FALSE
    BY <1>0, <1>3, <2>1 DEF fail_job, DeadLetter, Requeue, TypeOK
  <2>2. ASSUME NEW w \in Workers, complete_job(w) PROVE FALSE
    BY <1>0, <1>3, <2>2 DEF complete_job, TypeOK
  <2> QED
    BY <1>0, <1>3, <2>1, <2>2
    DEF Next, upload_document, soft_delete_document, ClaimExpires, claim_next_job, poll_empty,
        mark_running, ProcessingFails, FailUpdateLost, Crash, Restart, rowVars, vars, TypeOK
<1> QED
  BY <1>1, <1>2, <1>3

\* fail_job, which checks neither version nor status, still dead-letters only jobs that nobody
\* can complete any more.
THEOREM QueueDeadIsOver == Spec => []DeadIsOver
<1>1. Init => DeadIsOver
  BY DEF Init, DeadIsOver
<1> QED
  BY <1>1, DeadIsOverNext, QueueIsFenced, PTL DEF Spec

\* Every step keeps JobAndDocumentAgree: each of the writers of the two rows writes both in
\* one commit, or leaves a state in which the other row already agrees.
LEMMA AgreeNext == FenceInv /\ JobAndDocumentAgree /\ [Next]_vars => JobAndDocumentAgree'
<1> SUFFICES ASSUME FenceInv, JobAndDocumentAgree, [Next]_vars
             PROVE  JobAndDocumentAgree'
  OBVIOUS
<1> USE JobsAssumption, MaxAttemptsAssumption
<1>0. TypeOK /\ ClaimsWereMade /\ ProcessesNewestClaim
  BY DEF FenceInv
<1>1. ASSUME NEW j \in Jobs, upload_document(j) PROVE JobAndDocumentAgree'
  BY <1>0, <1>1 DEF upload_document, JobAndDocumentAgree, HasChunks, TypeOK
<1>2. ASSUME NEW j \in Jobs, soft_delete_document(j) PROVE JobAndDocumentAgree'
  BY <1>0, <1>2 DEF soft_delete_document, rowVars, JobAndDocumentAgree, HasChunks, TypeOK
<1>3. ASSUME NEW w \in Workers, claim_next_job(w) PROVE JobAndDocumentAgree'
  <2>1. PICK i \in Jobs :
          /\ attempt_count[i] < max_attempts
          /\ status' = [k \in Jobs |-> IF k = i THEN "claimed"
                                       ELSE IF k \in StaleClaims THEN "queued"
                                       ELSE status[k]]
          /\ attempt_count' = [attempt_count EXCEPT ![i] = @ + 1]
    BY <1>3 DEF claim_next_job, Claimable
  <2>2. UNCHANGED <<doc_status, deleted, stored>>
    BY <1>3 DEF claim_next_job, docVars
  <2>3. \A k \in Jobs : /\ status'[k] \in {"claimed", "queued", status[k]}
                        /\ attempt_count[k] = max_attempts => attempt_count'[k] = max_attempts
    BY <1>0, <2>1 DEF TypeOK
  <2> QED
    BY <1>0, <2>2, <2>3 DEF JobAndDocumentAgree, HasChunks
<1>4. ASSUME NEW w \in Workers, poll_empty(w) PROVE JobAndDocumentAgree'
  BY <1>0, <1>4 DEF poll_empty, docVars, JobAndDocumentAgree, HasChunks
<1>5. ASSUME NEW w \in Workers, complete_job(w) PROVE JobAndDocumentAgree'
  <2>1. PICK j \in Jobs, a \in Attempts : j = claim[w].job /\ a = claim[w].attempt_count
    <3>1. /\ claim[w].job \in Jobs
          /\ claim[w].attempt_count \in 1..attempt_count[claim[w].job]
      BY <1>0, <1>5 DEF complete_job, ClaimsWereMade, Holds
    <3>2. attempt_count[claim[w].job] \in 0..max_attempts
      BY <1>0, <3>1 DEF TypeOK
    <3>3. claim[w].attempt_count \in Attempts
      BY <3>1, <3>2 DEF Attempts
    <3> QED
      BY <3>1, <3>3
  <2>2. /\ stored' = [stored EXCEPT ![j] = [stored[j] EXCEPT ![a] = stored[j][a] + 1]]
        /\ doc_status' = [doc_status EXCEPT ![j] = "ready"]
        /\ status' = [status EXCEPT ![j] = "completed"]
        /\ UNCHANGED <<attempt_count, deleted>>
    BY <1>5, <2>1 DEF complete_job
  <2>3. /\ \A k \in Jobs : k # j => stored'[k] = stored[k]
        /\ stored'[j][a] > 0
    BY <1>0, <2>1, <2>2 DEF TypeOK
  <2>4. \A k \in Jobs : k # j => /\ doc_status'[k] = doc_status[k]
                                 /\ status'[k] = status[k]
    BY <2>1, <2>2 DEF TypeOK
  <2>5. doc_status'[j] = "ready" /\ status'[j] = "completed"
    BY <1>0, <2>1, <2>2 DEF TypeOK
  <2>6. HasChunks(j)' /\ \A k \in Jobs : k # j => HasChunks(k)' = HasChunks(k)
    BY <2>1, <2>3 DEF HasChunks
  <2> QED
    BY <2>2, <2>4, <2>5, <2>6 DEF JobAndDocumentAgree
<1>6. ASSUME NEW w \in Workers, fail_job(w) PROVE JobAndDocumentAgree'
  <2>1. /\ claim[w].job \in Jobs
        /\ claim[w].attempt_count \in 1..attempt_count[claim[w].job]
        /\ attempt_count[claim[w].job] \in 0..max_attempts
    BY <1>0, <1>6 DEF fail_job, ClaimsWereMade, Holds, TypeOK
  <2>2. UNCHANGED <<attempt_count, deleted, stored>>
    BY <1>6 DEF fail_job
  <2>3. CASE DeadLetter(w)
    <3>1. attempt_count[claim[w].job] = max_attempts
      BY <2>1, <2>3 DEF DeadLetter
    <3> QED
      BY <1>0, <2>1, <2>2, <2>3, <3>1 DEF DeadLetter, JobAndDocumentAgree, HasChunks, TypeOK
  <2>4. CASE Requeue(w)
    BY <1>0, <2>1, <2>2, <2>4 DEF Requeue, JobAndDocumentAgree, HasChunks, TypeOK
  <2> QED
    BY <1>6, <2>3, <2>4 DEF fail_job
<1>7. ASSUME \/ \E j \in Jobs : ClaimExpires(j)
             \/ \E w \in Workers : \/ mark_running(w) \/ ProcessingFails(w)
                                   \/ FailUpdateLost(w) \/ Crash(w) \/ Restart(w)
             \/ UNCHANGED vars
      PROVE JobAndDocumentAgree'
  <2>1. UNCHANGED <<status, attempt_count, doc_status, deleted, stored>>
    BY <1>7
    DEF ClaimExpires, mark_running, ProcessingFails, FailUpdateLost, Crash, Restart, vars,
        rowVars, docVars
  <2> QED
    BY <2>1 DEF JobAndDocumentAgree, HasChunks
<1> QED
  BY <1>1, <1>2, <1>3, <1>4, <1>5, <1>6, <1>7 DEF Next

\* The jobs table and the documents table never disagree on what became of an upload,
\* whatever late or repeated updates the workers make.
THEOREM QueueTablesAgree == Spec => []JobAndDocumentAgree
<1>1. Init => JobAndDocumentAgree
  BY DEF Init, JobAndDocumentAgree
<1> QED
  BY <1>1, AgreeNext, QueueIsFenced, PTL DEF Spec

-------------------------------------------------------------------------------
(* The queue implements FencedDelivery. *)

\* The empty queue has handed nothing out.
LEMMA DeliveryInit == Init => Delivery!Init
  BY DEF Init, Delivery!Init, Live, Attempts

\* A worker that lets go of its claim, or had none, ends its job's hand-out at most.
LEMMA LettingGo ==
  ASSUME FenceInv, NEW w \in Workers, NEW p \in {"idle", "failing", "down"},
         UNCHANGED <<attempt_count, version, stored>>,
         pc' = [pc EXCEPT ![w] = p],
         \A v \in Workers : v # w => claim'[v] = claim[v]
  PROVE  [Delivery!Next]_(Delivery!vars)
<1>0. TypeOK /\ ClaimsWereMade /\ ClaimsDiffer
  BY DEF FenceInv
<1>1. /\ pc'[w] \notin {"claimed", "running"}
      /\ \A v \in Workers : v # w => pc'[v] = pc[v]
  BY <1>0 DEF TypeOK
<1>2. CASE pc[w] \in {"claimed", "running"} /\ claim[w].version = version[claim[w].job]
  <2>0. PICK k \in Jobs : k = claim[w].job
    BY <1>0, <1>2 DEF ClaimsWereMade, Holds
  <2>1. Live(k) /\ ~Live(k)'
    <3>1. Live(k)
      BY <1>2, <2>0 DEF Live
    <3>2. ASSUME NEW v \in Workers, pc'[v] \in {"claimed", "running"}, claim'[v].job = k
          PROVE claim'[v].version # version'[k]
      <4>1. v # w /\ claim'[v] = claim[v] /\ pc'[v] = pc[v]
        BY <1>1, <3>2
      <4> QED
        BY <1>0, <1>2, <2>0, <3>2, <4>1 DEF ClaimsDiffer, Holds
    <3> QED
      BY <3>1, <3>2 DEF Live
  <2>2. \A j \in Jobs : j # k => Live(j)' = Live(j)
    <3> SUFFICES ASSUME NEW j \in Jobs, j # k PROVE Live(j)' = Live(j)
      OBVIOUS
    <3>1. \A v \in Workers :
            (pc'[v] \in {"claimed", "running"} /\ claim'[v].job = j /\ claim'[v].version = version'[j])
            <=> (pc[v] \in {"claimed", "running"} /\ claim[v].job = j /\ claim[v].version = version[j])
      BY <1>1, <2>0
    <3> QED
      BY <3>1 DEF Live
  <2>3. [j \in Jobs |-> Live(j)]' = [[j \in Jobs |-> Live(j)] EXCEPT ![k] = FALSE]
    BY <2>1, <2>2 DEF Live
  <2>4. Delivery!Abandon(k)
    BY <2>1, <2>3 DEF Delivery!Abandon
  <2> QED
    BY <2>1, <2>4 DEF Delivery!Next
<1>3. CASE ~ (pc[w] \in {"claimed", "running"} /\ claim[w].version = version[claim[w].job])
  <2>1. \A j \in Jobs : Live(j)' = Live(j)
    <3> SUFFICES ASSUME NEW j \in Jobs PROVE Live(j)' = Live(j)
      OBVIOUS
    <3>1. \A v \in Workers :
            (pc'[v] \in {"claimed", "running"} /\ claim'[v].job = j /\ claim'[v].version = version'[j])
            <=> (pc[v] \in {"claimed", "running"} /\ claim[v].job = j /\ claim[v].version = version[j])
      BY <1>1, <1>3
    <3> QED
      BY <3>1 DEF Live
  <2> QED
    BY <2>1 DEF Delivery!vars
<1> QED
  BY <1>2, <1>3

\* A claim is a delivery, complete_job a store, and a worker that gives up the newest claim
\* abandons it; every other step leaves what FencedDelivery speaks of alone.
LEMMA DeliveryNext == FenceInv /\ [Next]_vars => [Delivery!Next]_(Delivery!vars)
<1> SUFFICES ASSUME FenceInv, [Next]_vars PROVE [Delivery!Next]_(Delivery!vars)
  OBVIOUS
<1> USE JobsAssumption, MaxAttemptsAssumption
<1>0. TypeOK /\ ClaimsWereMade /\ ProcessesNewestClaim /\ UnfinishedUnstored
  BY DEF FenceInv
<1>1. ASSUME NEW w \in Workers, claim_next_job(w) PROVE [Delivery!Next]_(Delivery!vars)
  <2>1. PICK j \in Jobs :
          /\ attempt_count[j] < max_attempts
          /\ attempt_count' = [attempt_count EXCEPT ![j] = @ + 1]
          /\ version' = [version EXCEPT ![j] = @ + 1]
          /\ claim' = [claim EXCEPT ![w] = [job |-> j,
                                            version |-> version[j] + 1,
                                            attempt_count |-> attempt_count[j] + 1]]
          /\ pc' = [pc EXCEPT ![w] = "claimed"]
    BY <1>1 DEF claim_next_job, Claimable
  <2>2. pc[w] = "idle" /\ UNCHANGED stored
    BY <1>1 DEF claim_next_job, docVars
  <2>3. Live(j)'
    BY <1>0, <2>1 DEF Live, TypeOK
  <2>4. \A i \in Jobs : i # j => Live(i)' = Live(i)
    <3> SUFFICES ASSUME NEW i \in Jobs, i # j PROVE Live(i)' = Live(i)
      OBVIOUS
    <3>1. version'[i] = version[i]
      BY <1>0, <2>1 DEF TypeOK
    <3>2. /\ pc[w] \notin {"claimed", "running"} /\ claim'[w].job # i
          /\ \A v \in Workers : v # w => pc'[v] = pc[v] /\ claim'[v] = claim[v]
      BY <1>0, <2>1, <2>2 DEF TypeOK
    <3> QED
      BY <3>1, <3>2 DEF Live
  <2>5. [i \in Jobs |-> Live(i)]' = [[i \in Jobs |-> Live(i)] EXCEPT ![j] = TRUE]
    BY <2>3, <2>4 DEF Live
  <2>6. Delivery!Deliver(j)
    BY <2>1, <2>2, <2>5 DEF Delivery!Deliver
  <2> QED
    BY <2>6 DEF Delivery!Next
<1>2. ASSUME NEW w \in Workers, complete_job(w) PROVE [Delivery!Next]_(Delivery!vars)
  <2>0. pc[w] = "running" /\ Holds(w)
    BY <1>2 DEF complete_job, Holds
  <2>1. PICK j \in Jobs :
          /\ claim[w].job = j /\ claim[w].version = version[j]
          /\ claim[w].attempt_count = attempt_count[j]
          /\ stored[j][attempt_count[j]] = 0
    <3>1. claim[w].job \in Jobs
      BY <1>0, <2>0 DEF ClaimsWereMade
    <3>2. /\ claim[w].version = version[claim[w].job]
          /\ claim[w].attempt_count = attempt_count[claim[w].job]
      BY <1>0, <2>0 DEF ProcessesNewestClaim
    <3>3. stored[claim[w].job][claim[w].attempt_count] = 0
      BY <1>0, <2>0 DEF UnfinishedUnstored
    <3> QED
      BY <3>1, <3>2, <3>3
  <2>2. /\ stored' = [stored EXCEPT ![j] =
                        [stored[j] EXCEPT ![attempt_count[j]] = stored[j][attempt_count[j]] + 1]]
        /\ version' = [version EXCEPT ![j] = version[j] + 1]
        /\ \/ pc' = [pc EXCEPT ![w] = "idle"] /\ claim' = [claim EXCEPT ![w] = NoClaim]
           \/ pc' = [pc EXCEPT ![w] = "failing"] /\ claim' = claim
        /\ UNCHANGED attempt_count
    BY <1>2, <2>1 DEF complete_job
  <2>3. /\ pc'[w] \notin {"claimed", "running"}
        /\ \A v \in Workers : v # w => pc'[v] = pc[v] /\ claim'[v] = claim[v]
    BY <1>0, <2>2 DEF TypeOK
  <2>4. stored' = [stored EXCEPT ![j][attempt_count[j]] = 1]
    <3>1. stored[j][attempt_count[j]] + 1 = 1
      BY <2>1
    <3> QED
      BY <2>2, <3>1
  <2>5. Live(j)
    BY <2>0, <2>1 DEF Live
  <2>6. ~Live(j)'
    <3> SUFFICES ASSUME NEW v \in Workers, pc'[v] \in {"claimed", "running"}, claim'[v].job = j
                 PROVE claim'[v].version # version'[j]
      BY DEF Live
    <3>1. v # w /\ claim'[v] = claim[v] /\ Holds(v)
      BY <2>3 DEF Holds
    <3>2. claim[v].version <= version[j] /\ claim[v] \in Claims
      BY <1>0, <3>1 DEF ClaimsWereMade, TypeOK
    <3>3. version[j] \in Nat /\ version'[j] = version[j] + 1
      BY <1>0, <2>1, <2>2 DEF TypeOK
    <3> QED
      BY <3>1, <3>2, <3>3 DEF Claims
  <2>7. \A i \in Jobs : i # j => Live(i)' = Live(i)
    <3> SUFFICES ASSUME NEW i \in Jobs, i # j PROVE Live(i)' = Live(i)
      OBVIOUS
    <3>1. version'[i] = version[i]
      BY <1>0, <2>2 DEF TypeOK
    <3> QED
      BY <2>0, <2>1, <2>3, <3>1 DEF Live
  <2>8. [i \in Jobs |-> Live(i)]' = [[i \in Jobs |-> Live(i)] EXCEPT ![j] = FALSE]
    BY <2>6, <2>7 DEF Live
  <2>9. Delivery!Store(j)
    BY <2>1, <2>2, <2>4, <2>5, <2>8 DEF Delivery!Store
  <2> QED
    BY <2>1, <2>9 DEF Delivery!Next
<1>3. ASSUME NEW w \in Workers, mark_running(w) PROVE [Delivery!Next]_(Delivery!vars)
  <2>1. CASE /\ pc' = [pc EXCEPT ![w] = "running"]
             /\ UNCHANGED claim
    <3>1. pc[w] = "claimed" /\ UNCHANGED <<version, attempt_count, stored>>
      BY <1>3 DEF mark_running, rowVars, docVars
    <3>2. \A j \in Jobs : Live(j)' = Live(j)
      BY <1>0, <2>1, <3>1 DEF Live, TypeOK
    <3> QED
      BY <3>1, <3>2 DEF Delivery!vars
  <2>2. CASE /\ pc' = [pc EXCEPT ![w] = "idle"]
             /\ claim' = [claim EXCEPT ![w] = NoClaim]
    BY <1>0, <1>3, <2>2, LettingGo DEF mark_running, rowVars, docVars, TypeOK
  <2> QED
    BY <1>3, <2>1, <2>2 DEF mark_running
<1>4. ASSUME NEW w \in Workers,
             ProcessingFails(w) \/ fail_job(w) \/ FailUpdateLost(w) \/ Crash(w) \/ Restart(w)
      PROVE [Delivery!Next]_(Delivery!vars)
  <2>1. UNCHANGED <<attempt_count, version, stored>>
    BY <1>4
    DEF ProcessingFails, fail_job, FailUpdateLost, Crash, Restart, rowVars, docVars
  <2>2. PICK p \in {"idle", "failing", "down"} : pc' = [pc EXCEPT ![w] = p]
    BY <1>4 DEF ProcessingFails, fail_job, FailUpdateLost, Crash, Restart
  <2>3. \A v \in Workers : v # w => claim'[v] = claim[v]
    BY <1>0, <1>4 DEF ProcessingFails, fail_job, FailUpdateLost, Crash, Restart, TypeOK
  <2> QED
    BY <2>1, <2>2, <2>3, LettingGo
<1>5. ASSUME \/ \E j \in Jobs : upload_document(j) \/ soft_delete_document(j) \/ ClaimExpires(j)
             \/ \E w \in Workers : poll_empty(w)
             \/ UNCHANGED vars
      PROVE [Delivery!Next]_(Delivery!vars)
  <2>1. UNCHANGED <<attempt_count, version, stored, pc, claim>>
    BY <1>5
    DEF upload_document, soft_delete_document, ClaimExpires, poll_empty, vars, rowVars, docVars,
        workerVars
  <2>2. \A j \in Jobs : Live(j)' = Live(j)
    BY <2>1 DEF Live
  <2> QED
    BY <2>1, <2>2 DEF Delivery!vars
<1> QED
  BY <1>1, <1>2, <1>3, <1>4, <1>5 DEF Next

\* The queue with any number of workers, late and repeated updates, crashes and lost replies
\* hands each job out at most max_attempts times, fences every hand-out but the newest, and
\* stores each at most once.
THEOREM QueueImplementsDelivery == Spec => ImplementsDelivery
  BY DeliveryInit, DeliveryNext, QueueIsFenced, PTL
  DEF Spec, Delivery!Spec, ImplementsDelivery

-------------------------------------------------------------------------------
(* Recursion and induction on data. *)

\* A set of naturals has a least member.
LEMMA LeastOfNaturals ==
  ASSUME NEW S \in SUBSET Nat, S # {}
  PROVE  \E n \in S : \A m \in S : n <= m
<1> DEFINE R == OpToRel(<, Nat)
<1>1. IsWellFoundedOn(R, Nat)
  BY NatLessThanWellFounded
<1> HIDE DEF R
<1>2. \E x \in S : \A y \in S : ~ (<<y, x>> \in R)
  BY <1>1, WFMin
<1>3. PICK n \in S : \A m \in S : ~ (<<m, n>> \in R)
  BY <1>2
<1>4. \A m \in Nat : m < n => <<m, n>> \in R
  BY DEF R, OpToRel
<1>5. n \in Nat /\ \A m \in S : m \in Nat
  OBVIOUS
<1>6. \A m \in S : ~(m < n)
  BY <1>3, <1>4, <1>5
<1> QED
  BY <1>5, <1>6

\* Induction, in the form of a statement about sets: what the provers can instantiate.
LEMMA Induction ==
  ASSUME NEW S, 0 \in S, \A n \in Nat : n \in S => n + 1 \in S
  PROVE  Nat \subseteq S
<1> SUFFICES ASSUME Nat \ S # {} PROVE FALSE
  OBVIOUS
<1>1. PICK n \in Nat \ S : \A m \in Nat \ S : n <= m
  BY LeastOfNaturals
<1>2. n # 0 /\ n - 1 \in Nat
  BY <1>1
<1>3. n - 1 \in S
  BY <1>1, <1>2
<1>4. (n - 1) + 1 = n
  OBVIOUS
<1> QED
  BY <1>1, <1>2, <1>3, <1>4

\* Induction downwards on an interval.
LEMMA DownwardInduction ==
  ASSUME NEW N \in Nat, NEW S, \A i \in 1 .. N : (\A j \in i + 1 .. N : j \in S) => i \in S
  PROVE  1 .. N \subseteq S
<1> DEFINE Left == {n \in Nat : \E i \in 1 .. N : i \notin S /\ n = N - i}
<1> SUFFICES ASSUME NEW i \in 1 .. N, i \notin S PROVE FALSE
  OBVIOUS
<1>1. N - i \in Left
  BY DEF Left
<1>2. PICK n \in Left : \A m \in Left : n <= m
  BY <1>1, LeastOfNaturals
<1>3. PICK j \in 1 .. N : j \notin S /\ n = N - j
  BY <1>2
<1>4. PICK k \in j + 1 .. N : k \notin S
  BY <1>3
<1>5. k \in 1 .. N /\ N - k \in Left
  BY <1>3, <1>4
<1>6. n <= N - k
  BY <1>2, <1>5
<1> QED
  BY <1>3, <1>4, <1>6

\* A recursion over the naturals up to N, whose step is given as a function.
Iterates(f, N, T, b, step) ==
  f \in [0 .. N -> T] /\ f[0] = b /\ \A i \in 1 .. N : f[i] = step[<<i, f[i - 1]>>]

\* Such a recursion has a solution.
LEMMA UpwardRecursion ==
  ASSUME NEW N \in Nat, NEW T, NEW b \in T, NEW step \in [(1 .. N) \X T -> T]
  PROVE  \E f : Iterates(f, N, T, b, step)
<1> DEFINE Solves(f, n) == f[0] = b /\ \A i \in 1 .. n : f[i] = step[<<i, f[i - 1]>>]
           S == {n \in Nat : n <= N => \E f \in [0 .. n -> T] : Solves(f, n)}
<1>1. 0 \in S
  <2>1. [i \in 0 .. 0 |-> b] \in [0 .. 0 -> T] /\ Solves([i \in 0 .. 0 |-> b], 0)
    OBVIOUS
  <2> QED
    BY <2>1
<1>2. ASSUME NEW n \in Nat, n \in S PROVE n + 1 \in S
  <2> SUFFICES ASSUME n + 1 <= N PROVE \E f \in [0 .. n + 1 -> T] : Solves(f, n + 1)
    OBVIOUS
  <2>1. PICK f \in [0 .. n -> T] : Solves(f, n)
    BY <1>2
  <2> DEFINE g == [i \in 0 .. n + 1 |-> IF i <= n THEN f[i] ELSE step[<<n + 1, f[n]>>]]
  <2>2. g \in [0 .. n + 1 -> T]
    <3>1. <<n + 1, f[n]>> \in (1 .. N) \X T
      BY <2>1
    <3>2. step[<<n + 1, f[n]>>] \in T
      BY <3>1
    <3> HIDE DEF Solves
    <3> QED
      BY <2>1, <3>2
  <2>3. g[0] = b
    BY <2>1
  <2>4. ASSUME NEW i \in 1 .. n + 1 PROVE g[i] = step[<<i, g[i - 1]>>]
    <3>1. CASE i <= n
      <4>1. i \in 1 .. n /\ i - 1 \in 0 .. n /\ i \in 0 .. n + 1 /\ i - 1 \in 0 .. n + 1 /\ i - 1 <= n
        BY <3>1
      <4>2. g[i] = f[i] /\ g[i - 1] = f[i - 1]
        BY <3>1, <4>1
      <4> HIDE DEF g
      <4> QED
        BY <2>1, <4>1, <4>2
    <3>2. CASE i = n + 1
      <4>1. g[i] = step[<<n + 1, f[n]>>] /\ g[n] = f[n] /\ i - 1 = n
        BY <3>2
      <4> HIDE DEF g
      <4> QED
        BY <3>2, <4>1
    <3> QED
      BY <3>1, <3>2
  <2> HIDE DEF g
  <2>5. Solves(g, n + 1)
    BY <2>3, <2>4
  <2> QED
    BY <2>2, <2>5
<1> HIDE DEF S
<1>3. N \in S
  BY <1>1, <1>2, Induction
<1>4. \E f \in [0 .. N -> T] : Solves(f, N)
  BY <1>3 DEF S
<1> QED
  BY <1>4 DEF Iterates

\* A recursion from the end of an interval, which appends what comes later.
Chained(f, N, Stops, last, head, next) ==
  f = [i \in 1 .. N |-> IF i \in Stops THEN last[i] ELSE head[i] \o f[next[i]]]

\* And so has this one, when every step goes on behind where it began.
LEMMA DownwardRecursion ==
  ASSUME NEW N \in Nat, NEW Stops, NEW last, NEW head, NEW next,
         \A i \in 1 .. N : i \notin Stops => next[i] \in i + 1 .. N
  PROVE  \E f : Chained(f, N, Stops, last, head, next)
<1> DEFINE Value(f, i) == IF i \in Stops THEN last[i] ELSE head[i] \o f[next[i]]
           Solves(f, n) == \A i \in 1 .. N : i > N - n => f[i] = Value(f, i)
           S == {n \in Nat : n <= N => \E f : f = [i \in 1 .. N |-> f[i]] /\ Solves(f, n)}
<1>1. 0 \in S
  <2> DEFINE f == [i \in 1 .. N |-> 0]
  <2>1. f = [i \in 1 .. N |-> f[i]]
    OBVIOUS
  <2>2. \A i \in 1 .. N : ~(i > N - 0)
    OBVIOUS
  <2> HIDE DEF f, Value
  <2> QED
    BY <2>1, <2>2
<1>2. ASSUME NEW n \in Nat, n \in S PROVE n + 1 \in S
  <2> SUFFICES ASSUME n + 1 <= N
               PROVE  \E f : f = [i \in 1 .. N |-> f[i]] /\ Solves(f, n + 1)
    OBVIOUS
  <2>1. PICK f : f = [i \in 1 .. N |-> f[i]] /\ Solves(f, n)
    BY <1>2
  <2> DEFINE m == N - n
             g == [i \in 1 .. N |-> IF i = m THEN Value(f, m) ELSE f[i]]
  <2>2. m \in 1 .. N
    OBVIOUS
  <2>3. g = [i \in 1 .. N |-> g[i]]
    OBVIOUS
  <2>4. \A i \in 1 .. N : i # m => g[i] = f[i]
    OBVIOUS
  <2>5. g[m] = Value(f, m)
    BY <2>2
  <2>6. \A i \in 1 .. N : i \notin Stops => next[i] \in 1 .. N /\ next[i] > i
    OBVIOUS
  <2> HIDE DEF g
  <2>7. ASSUME NEW i \in 1 .. N, i > N - (n + 1) PROVE g[i] = Value(g, i)
    <3>1. i >= m /\ m \in Int
      BY <2>7
    <3>2. i \notin Stops => next[i] # m /\ g[next[i]] = f[next[i]]
      BY <2>4, <2>6, <3>1
    <3>3. Value(g, i) = Value(f, i)
      BY <3>2
    <3>4. i # m => f[i] = Value(f, i)
      <4>1. i # m => i > N - n
        BY <3>1
      <4> HIDE DEF m, Value
      <4> QED
        BY <2>1, <4>1
    <3> QED
      BY <2>4, <2>5, <3>3, <3>4
  <2> QED
    BY <2>3, <2>7
<1> HIDE DEF S
<1>3. N \in S
  BY <1>1, <1>2, Induction
<1>4. PICK f : f = [i \in 1 .. N |-> f[i]] /\ Solves(f, N)
  BY <1>3 DEF S
<1> HIDE DEF Value
<1>5. \A i \in 1 .. N : f[i] = Value(f, i)
  <2>1. \A i \in 1 .. N : i > N - N
    OBVIOUS
  <2> QED
    BY <1>4, <2>1
<1>6. f = [i \in 1 .. N |-> Value(f, i)]
  BY <1>4, <1>5
<1> QED
  BY <1>6 DEF Value, Chained

-------------------------------------------------------------------------------
(* Texts and lists of chunks. *)

\* What the chunkers take and give.
Texts == Seq(Chars)

\* Every letter of the one set comes before every letter of the other.
Below(A, B) == \A c \in A, d \in B : c.at < d.at

\* What a concatenation is made of.
LEMMA ConcatSet ==
  ASSUME NEW S, NEW s \in Seq(S), NEW t \in Seq(S)
  PROVE  /\ s \o t \in Seq(S) /\ ToSet(s \o t) = ToSet(s) \cup ToSet(t)
         /\ Len(s \o t) = Len(s) + Len(t)
         /\ \A i \in 1 .. Len(s) : (s \o t)[i] = s[i]
         /\ \A i \in 1 .. Len(t) : (s \o t)[Len(s) + i] = t[i]
<1>1. /\ s \o t \in Seq(S) /\ Len(s \o t) = Len(s) + Len(t)
      /\ \A i \in 1 .. Len(s) + Len(t) : (s \o t)[i] = IF i <= Len(s) THEN s[i] ELSE t[i - Len(s)]
  BY ConcatProperties
<1>2. Len(s) \in Nat /\ Len(t) \in Nat
  OBVIOUS
<1>3. /\ \A i \in 1 .. Len(s) : i \in 1 .. Len(s) + Len(t) /\ (s \o t)[i] = s[i]
      /\ \A i \in 1 .. Len(t) : Len(s) + i \in 1 .. Len(s) + Len(t) /\ (s \o t)[Len(s) + i] = t[i]
  BY <1>1, <1>2
<1>4. DOMAIN s = 1 .. Len(s) /\ DOMAIN t = 1 .. Len(t) /\ DOMAIN (s \o t) = 1 .. Len(s) + Len(t)
  BY <1>1, LenProperties
<1>5. ToSet(s \o t) \subseteq ToSet(s) \cup ToSet(t)
  <2> SUFFICES ASSUME NEW i \in 1 .. Len(s) + Len(t)
               PROVE  (s \o t)[i] \in ToSet(s) \cup ToSet(t)
    BY <1>4 DEF ToSet
  <2>1. CASE i <= Len(s)
    BY <1>1, <1>4, <2>1 DEF ToSet
  <2>2. CASE ~(i <= Len(s))
    <3>1. i - Len(s) \in 1 .. Len(t) /\ (s \o t)[i] = t[i - Len(s)]
      BY <1>1, <1>2, <2>2
    <3> QED
      BY <1>4, <3>1 DEF ToSet
  <2> QED
    BY <2>1, <2>2
<1>6. ToSet(s) \subseteq ToSet(s \o t) /\ ToSet(t) \subseteq ToSet(s \o t)
  <2>1. /\ \A i \in 1 .. Len(s) : s[i] \in ToSet(s \o t)
        /\ \A i \in 1 .. Len(t) : t[i] \in ToSet(s \o t)
    <3> HIDE DEF ToSet
    <3>1. \A i \in DOMAIN (s \o t) : (s \o t)[i] \in ToSet(s \o t)
      BY DEF ToSet
    <3> QED
      BY <1>3, <1>4, <3>1
  <2> QED
    BY <1>4, <2>1 DEF ToSet
<1> QED
  BY <1>1, <1>3, <1>5, <1>6

\* What a slice is made of.
LEMMA SliceSet ==
  ASSUME NEW S, NEW s \in Seq(S), NEW a \in 1 .. Len(s) + 1, NEW b \in 0 .. Len(s)
  PROVE  /\ SubSeq(s, a, b) \in Seq(S)
         /\ Len(SubSeq(s, a, b)) = IF a <= b THEN b - a + 1 ELSE 0
         /\ \A i \in 1 .. b - a + 1 : SubSeq(s, a, b)[i] = s[a + i - 1]
         /\ ToSet(SubSeq(s, a, b)) = {s[i] : i \in a .. b}
<1>1. \A i \in a .. b : i \in 1 .. Len(s) /\ s[i] \in S
  OBVIOUS
<1>2. /\ SubSeq(s, a, b) \in Seq(S)
      /\ Len(SubSeq(s, a, b)) = IF a <= b THEN b - a + 1 ELSE 0
      /\ \A i \in 1 .. b - a + 1 : SubSeq(s, a, b)[i] = s[a + i - 1]
  BY <1>1, SubSeqProperties
<1>3. DOMAIN SubSeq(s, a, b) = 1 .. b - a + 1
  <2>1. DOMAIN SubSeq(s, a, b) = 1 .. Len(SubSeq(s, a, b))
    BY <1>2, LenProperties
  <2> QED
    BY <1>2, <2>1
<1>4. /\ \A i \in 1 .. b - a + 1 : a + i - 1 \in a .. b
      /\ \A i \in a .. b : i - a + 1 \in 1 .. b - a + 1 /\ SubSeq(s, a, b)[i - a + 1] = s[i]
  BY <1>2
<1>5. ToSet(SubSeq(s, a, b)) = {s[i] : i \in a .. b}
  <2> DEFINE sub == SubSeq(s, a, b)
  <2>1. \A i \in DOMAIN sub : sub[i] \in {s[j] : j \in a .. b}
    BY <1>2, <1>3, <1>4
  <2>2. \A j \in a .. b : \E i \in DOMAIN sub : sub[i] = s[j]
    BY <1>3, <1>4
  <2> HIDE DEF sub
  <2>3. ToSet(sub) = {s[i] : i \in a .. b}
    BY <2>1, <2>2 DEF ToSet
  <2> QED
    BY <2>3 DEF sub
<1> QED
  BY <1>2, <1>5

\* The letters of a concatenation, and when they are in order.
LEMMA ConcatText ==
  ASSUME NEW s \in Texts, NEW t \in Texts
  PROVE  /\ s \o t \in Texts /\ Letters(s \o t) = Letters(s) \cup Letters(t)
         /\ Increasing(s) /\ Increasing(t) /\ Below(Letters(s), Letters(t))
            => Increasing(s \o t)
<1>1. /\ s \o t \in Texts /\ ToSet(s \o t) = ToSet(s) \cup ToSet(t)
      /\ Len(s \o t) = Len(s) + Len(t)
      /\ \A i \in 1 .. Len(s) : (s \o t)[i] = s[i]
      /\ \A i \in 1 .. Len(t) : (s \o t)[Len(s) + i] = t[i]
  BY ConcatSet DEF Texts
<1>2. Letters(s \o t) = Letters(s) \cup Letters(t)
  BY <1>1 DEF Letters
<1>3. DOMAIN s = 1 .. Len(s) /\ DOMAIN t = 1 .. Len(t) /\ DOMAIN (s \o t) = 1 .. Len(s) + Len(t)
      /\ Len(s) \in Nat /\ Len(t) \in Nat
  BY <1>1, LenProperties DEF Texts
<1>4. ASSUME Increasing(s), Increasing(t), Below(Letters(s), Letters(t)),
             NEW i \in DOMAIN (s \o t), NEW j \in DOMAIN (s \o t), i < j,
             (s \o t)[i].ch = "x", (s \o t)[j].ch = "x"
      PROVE  (s \o t)[i].at < (s \o t)[j].at
  <2>1. CASE j <= Len(s)
    BY <1>1, <1>3, <1>4, <2>1 DEF Increasing
  <2>2. CASE i <= Len(s) /\ j > Len(s)
    <3>1. j - Len(s) \in 1 .. Len(t) /\ (s \o t)[j] = t[j - Len(s)] /\ (s \o t)[i] = s[i]
          /\ i \in 1 .. Len(s)
      <4>1. j - Len(s) \in 1 .. Len(t) /\ j = Len(s) + (j - Len(s)) /\ i \in 1 .. Len(s)
        BY <1>3, <2>2
      <4> QED
        BY <1>1, <4>1
    <3>2. s[i] \in Letters(s) /\ t[j - Len(s)] \in Letters(t)
      BY <1>3, <1>4, <3>1 DEF Letters, ToSet
    <3> QED
      BY <1>4, <3>1, <3>2 DEF Below
  <2>3. CASE i > Len(s)
    <3> DEFINE k == i - Len(s)
               l == j - Len(s)
    <3>1. k \in 1 .. Len(t) /\ l \in 1 .. Len(t) /\ i = Len(s) + k /\ j = Len(s) + l /\ k < l
      BY <1>3, <1>4, <2>3
    <3> HIDE DEF k, l
    <3>2. (s \o t)[i] = t[k] /\ (s \o t)[j] = t[l]
      BY <1>1, <3>1
    <3> QED
      BY <1>3, <1>4, <3>1, <3>2 DEF Increasing
  <2> QED
    BY <1>3, <2>1, <2>2, <2>3
<1> QED
  BY <1>1, <1>2, <1>4 DEF Increasing

\* The letters of a slice, and that a slice of a text in order is in order.
LEMMA SliceText ==
  ASSUME NEW s \in Texts, NEW a \in 1 .. Len(s) + 1, NEW b \in 0 .. Len(s)
  PROVE  /\ SubSeq(s, a, b) \in Texts
         /\ Letters(SubSeq(s, a, b)) = {c \in {s[i] : i \in a .. b} : c.ch = "x"}
         /\ Increasing(s) => Increasing(SubSeq(s, a, b))
<1>1. /\ SubSeq(s, a, b) \in Texts
      /\ Len(SubSeq(s, a, b)) = IF a <= b THEN b - a + 1 ELSE 0
      /\ \A i \in 1 .. b - a + 1 : SubSeq(s, a, b)[i] = s[a + i - 1]
      /\ ToSet(SubSeq(s, a, b)) = {s[i] : i \in a .. b}
  BY SliceSet DEF Texts
<1>2. DOMAIN SubSeq(s, a, b) = 1 .. b - a + 1 /\ DOMAIN s = 1 .. Len(s)
  <2>1. DOMAIN SubSeq(s, a, b) = 1 .. Len(SubSeq(s, a, b)) /\ DOMAIN s = 1 .. Len(s)
    BY <1>1, LenProperties DEF Texts
  <2> QED
    BY <1>1, <2>1
<1>3. \A i \in 1 .. b - a + 1 : a + i - 1 \in DOMAIN s
  BY <1>2
<1>4. Increasing(s) => Increasing(SubSeq(s, a, b))
  BY <1>1, <1>2, <1>3 DEF Increasing
<1> QED
  BY <1>1, <1>4 DEF Letters

\* The same for lists of chunks.
LEMMA ConcatChunks ==
  ASSUME NEW cs \in Seq(Texts), NEW ds \in Seq(Texts)
  PROVE  /\ cs \o ds \in Seq(Texts) /\ LettersOf(cs \o ds) = LettersOf(cs) \cup LettersOf(ds)
         /\ InOrder(cs) /\ InOrder(ds) /\ Below(LettersOf(cs), LettersOf(ds))
            => InOrder(cs \o ds)
<1>1. /\ cs \o ds \in Seq(Texts) /\ ToSet(cs \o ds) = ToSet(cs) \cup ToSet(ds)
      /\ Len(cs \o ds) = Len(cs) + Len(ds)
      /\ \A i \in 1 .. Len(cs) : (cs \o ds)[i] = cs[i]
      /\ \A i \in 1 .. Len(ds) : (cs \o ds)[Len(cs) + i] = ds[i]
  BY ConcatSet
<1>2. LettersOf(cs \o ds) = LettersOf(cs) \cup LettersOf(ds)
  BY <1>1 DEF LettersOf
<1>3. DOMAIN cs = 1 .. Len(cs) /\ DOMAIN ds = 1 .. Len(ds) /\ DOMAIN (cs \o ds) = 1 .. Len(cs) + Len(ds)
      /\ Len(cs) \in Nat /\ Len(ds) \in Nat
  BY <1>1, LenProperties
<1>4. ASSUME InOrder(cs), InOrder(ds), Below(LettersOf(cs), LettersOf(ds)),
             NEW i \in DOMAIN (cs \o ds), NEW j \in DOMAIN (cs \o ds), i < j
      PROVE  Below(Letters((cs \o ds)[i]), Letters((cs \o ds)[j]))
  <2>1. CASE j <= Len(cs)
    <3>1. i \in DOMAIN cs /\ j \in DOMAIN cs /\ (cs \o ds)[i] = cs[i] /\ (cs \o ds)[j] = cs[j]
      BY <1>1, <1>3, <1>4, <2>1
    <3> QED
      BY <1>4, <3>1 DEF InOrder, Below
  <2>2. CASE i <= Len(cs) /\ j > Len(cs)
    <3>1. j - Len(cs) \in 1 .. Len(ds) /\ j = Len(cs) + (j - Len(cs)) /\ i \in 1 .. Len(cs)
      BY <1>3, <2>2
    <3>2. (cs \o ds)[i] = cs[i] /\ (cs \o ds)[j] = ds[j - Len(cs)]
      BY <1>1, <3>1
    <3>3. cs[i] \in ToSet(cs) /\ ds[j - Len(cs)] \in ToSet(ds)
      BY <1>3, <3>1 DEF ToSet
    <3>4. Letters(cs[i]) \subseteq LettersOf(cs) /\ Letters(ds[j - Len(cs)]) \subseteq LettersOf(ds)
      BY <3>3 DEF LettersOf
    <3> QED
      BY <1>4, <3>2, <3>4 DEF Below
  <2>3. CASE i > Len(cs)
    <3> DEFINE k == i - Len(cs)
               l == j - Len(cs)
    <3>1. k \in 1 .. Len(ds) /\ l \in 1 .. Len(ds) /\ i = Len(cs) + k /\ j = Len(cs) + l /\ k < l
      BY <1>3, <1>4, <2>3
    <3> HIDE DEF k, l
    <3>2. (cs \o ds)[i] = ds[k] /\ (cs \o ds)[j] = ds[l]
      BY <1>1, <3>1
    <3> QED
      BY <1>3, <1>4, <3>1, <3>2 DEF InOrder, Below
  <2> QED
    BY <1>3, <2>1, <2>2, <2>3
<1>5. ASSUME InOrder(cs), InOrder(ds), NEW s \in ToSet(cs \o ds) PROVE Increasing(s)
  BY <1>1, <1>5 DEF InOrder
<1> QED
  BY <1>1, <1>2, <1>4, <1>5 DEF InOrder, Below

\* A list of one chunk.
LEMMA SingleChunk ==
  ASSUME NEW s \in Texts
  PROVE  /\ <<s>> \in Seq(Texts) /\ ToSet(<<s>>) = {s} /\ LettersOf(<<s>>) = Letters(s)
         /\ Increasing(s) => InOrder(<<s>>)
<1>1. <<s>> \in Seq(Texts) /\ DOMAIN <<s>> = {1} /\ <<s>>[1] = s
  OBVIOUS
<1>2. ToSet(<<s>>) = {s}
  BY <1>1 DEF ToSet
<1> QED
  BY <1>1, <1>2 DEF LettersOf, InOrder

\* The empty list, and the empty text.
LEMMA NoChunk ==
  /\ <<>> \in Seq(Texts) /\ LettersOf(<<>>) = {} /\ InOrder(<<>>)
  /\ <<>> \in Texts /\ Letters(<<>>) = {} /\ Increasing(<<>>)
BY DEF LettersOf, InOrder, Letters, ToSet, Texts, Increasing

-------------------------------------------------------------------------------
(* Splitting at a separator. *)

\* A non-empty set of places has a first and a last one.
LEMMA LeastAndGreatest ==
  ASSUME NEW n \in Nat, NEW S \in SUBSET (1 .. n), S # {}
  PROVE  /\ Min(S) \in S /\ \A x \in S : Min(S) <= x
         /\ Max(S) \in S /\ \A x \in S : Max(S) >= x
<1>1. \E x \in S : \A y \in S : x <= y
  BY LeastOfNaturals
<1>2. \E x \in S : \A y \in S : x >= y
  <2> DEFINE T == {n - x : x \in S}
  <2>1. T \in SUBSET Nat /\ T # {}
    <3>1. \A x \in S : n - x \in Nat
      OBVIOUS
    <3> QED
      BY <3>1
  <2>2. PICK m \in T : \A k \in T : m <= k
    BY <2>1, LeastOfNaturals
  <2>3. PICK x \in S : m = n - x
    BY <2>2
  <2>4. \A y \in S : n - x <= n - y
    BY <2>2, <2>3
  <2> QED
    BY <2>4
<1> QED
  BY <1>1, <1>2 DEF Min, Max

\* The letters of s from the i-th character to the j-th.
LettersIn(s, i, j) == {c \in {s[p] : p \in i .. j} : c.ch = "x"}

\* In a text in order, what is left of a place comes before what is right of it.
LEMMA LettersInOrder ==
  ASSUME NEW s \in Texts, Increasing(s), NEW a \in 1 .. Len(s) + 1, NEW b \in 0 .. Len(s),
         NEW c \in Int, NEW d \in 0 .. Len(s), b < c
  PROVE  Below(LettersIn(s, a, b), LettersIn(s, c, d))
<1>1. DOMAIN s = 1 .. Len(s) /\ Len(s) \in Nat
  BY LenProperties DEF Texts
<1>2. ASSUME NEW i \in a .. b, NEW j \in c .. d, s[i].ch = "x", s[j].ch = "x"
      PROVE  s[i].at < s[j].at
  <2>1. i \in DOMAIN s /\ j \in DOMAIN s /\ i < j
    BY <1>1
  <2> QED
    BY <1>2, <2>1 DEF Increasing
<1> QED
  BY <1>2 DEF Below, LettersIn

\* str.split: a separator has no letters, so the parts have those of the text, in their order.
LEMMA SplitKeeps ==
  ASSUME NEW s \in Texts, NEW sep, Len(sep) \in Nat \ {0},
         \A k \in 1 .. Len(sep) : sep[k] # "x"
  PROVE  /\ Split(s, sep) \in Seq(Texts) /\ LettersOf(Split(s, sep)) = Letters(s)
         /\ Increasing(s) => InOrder(Split(s, sep))
<1> DEFINE N == Len(s) + 1
           Later(i) == {h \in Hits(s, sep) : h >= i}
           Value(f, i) == IF Later(i) = {} THEN <<From(s, i)>>
                          ELSE <<SubSeq(s, i, Min(Later(i)) - 1)>> \o f[Min(Later(i)) + Len(sep)]
           split == CHOOSE f : f = [i \in 1 .. N |-> Value(f, i)]
<1>1. Len(s) \in Nat /\ N \in Nat /\ DOMAIN s = 1 .. Len(s)
  BY LenProperties DEF Texts
<1>2. Split(s, sep) = split[1]
  BY DEF Split
<1>3. ASSUME NEW i \in 1 .. N, Later(i) # {}
      PROVE  /\ Min(Later(i)) \in i .. Len(s)
             /\ Min(Later(i)) + Len(sep) \in i + 1 .. N
             /\ \A p \in Min(Later(i)) .. Min(Later(i)) + Len(sep) - 1 : s[p].ch # "x"
  <2>1. Later(i) \in SUBSET (1 .. Len(s))
    BY <1>1 DEF Hits
  <2>2. Min(Later(i)) \in Later(i)
    BY <1>1, <1>3, <2>1, LeastAndGreatest
  <2> DEFINE m == Min(Later(i))
  <2>3. m >= i /\ m \in 1 .. Len(s) - Len(sep) + 1
    BY <2>2 DEF Hits
  <2>4. \A k \in 1 .. Len(sep) : s[m + k - 1].ch = sep[k]
    BY <2>2 DEF Hits
  <2> HIDE DEF m
  <2>5. ASSUME NEW p \in m .. m + Len(sep) - 1 PROVE s[p].ch # "x"
    <3>1. p - m + 1 \in 1 .. Len(sep) /\ m + (p - m + 1) - 1 = p
      BY <2>3
    <3>2. s[m + (p - m + 1) - 1].ch = sep[p - m + 1]
      BY <2>4, <3>1
    <3> QED
      BY <3>1, <3>2
  <2>6. m \in i .. Len(s) /\ m + Len(sep) \in i + 1 .. N
    BY <1>1, <2>3
  <2> QED
    BY <2>5, <2>6 DEF m
<1> HIDE DEF Later
<1>4. \E f : f = [i \in 1 .. N |-> Value(f, i)]
  <2> DEFINE Stops == {i \in 1 .. N : Later(i) = {}}
             last == [i \in 1 .. N |-> <<From(s, i)>>]
             head == [i \in 1 .. N |-> <<SubSeq(s, i, Min(Later(i)) - 1)>>]
             next == [i \in 1 .. N |-> Min(Later(i)) + Len(sep)]
  <2>1. \A i \in 1 .. N : i \notin Stops => next[i] \in i + 1 .. N
    BY <1>3
  <2>2. \A i \in 1 .. N : /\ i \in Stops <=> Later(i) = {}
                          /\ last[i] = <<From(s, i)>>
                          /\ head[i] = <<SubSeq(s, i, Min(Later(i)) - 1)>>
                          /\ next[i] = Min(Later(i)) + Len(sep)
    OBVIOUS
  <2> HIDE DEF Stops, last, head, next, N
  <2>3. PICK f : Chained(f, N, Stops, last, head, next)
    BY <1>1, <2>1, DownwardRecursion
  <2>4. f = [i \in 1 .. N |-> Value(f, i)]
    BY <2>2, <2>3 DEF Chained
  <2> QED
    BY <2>4
<1>5. split = [i \in 1 .. N |-> Value(split, i)]
  <2> HIDE DEF Value, N
  <2> QED
    BY <1>4
<1> HIDE DEF split
<1> DEFINE Kept == {i \in 1 .. N : /\ split[i] \in Seq(Texts)
                                   /\ LettersOf(split[i]) = LettersIn(s, i, Len(s))
                                   /\ Increasing(s) => InOrder(split[i])}
<1>6. ASSUME NEW i \in 1 .. N, \A j \in i + 1 .. N : j \in Kept
      PROVE  i \in Kept
  <2>1. CASE Later(i) = {}
    <3>1. split[i] = <<From(s, i)>>
      BY <1>5, <2>1
    <3>2. From(s, i) \in Texts /\ Letters(From(s, i)) = LettersIn(s, i, Len(s))
          /\ (Increasing(s) => Increasing(From(s, i)))
      <4>1. i \in 1 .. Len(s) + 1 /\ Len(s) \in 0 .. Len(s)
        BY <1>1
      <4> QED
        BY <4>1, SliceText DEF From, LettersIn
    <3> QED
      BY <3>1, <3>2, SingleChunk
  <2>2. CASE Later(i) # {}
    <3> DEFINE m == Min(Later(i))
               n == m + Len(sep)
    <3>1. m \in i .. Len(s) /\ n \in i + 1 .. N /\ \A p \in m .. n - 1 : s[p].ch # "x"
      BY <1>3, <2>2
    <3>2. split[i] = <<SubSeq(s, i, m - 1)>> \o split[n]
      BY <1>5, <2>2
    <3> HIDE DEF m, n
    <3>3. /\ split[n] \in Seq(Texts) /\ LettersOf(split[n]) = LettersIn(s, n, Len(s))
          /\ Increasing(s) => InOrder(split[n])
      BY <1>6, <3>1
    <3>4. i \in 1 .. Len(s) + 1 /\ m - 1 \in 0 .. Len(s) /\ n \in Int /\ m - 1 < n
      BY <1>1, <3>1 DEF n
    <3>5. /\ SubSeq(s, i, m - 1) \in Texts
          /\ Letters(SubSeq(s, i, m - 1)) = LettersIn(s, i, m - 1)
          /\ Increasing(s) => Increasing(SubSeq(s, i, m - 1))
      BY <3>4, SliceText DEF LettersIn
    <3>6. LettersIn(s, i, Len(s)) = LettersIn(s, i, m - 1) \cup LettersIn(s, n, Len(s))
      <4>1. \A p \in i .. Len(s) : p \in i .. m - 1 \/ p \in m .. n - 1 \/ p \in n .. Len(s)
        BY <1>1, <3>1, <3>4
      <4>2. \A p : p \in i .. m - 1 \/ p \in n .. Len(s) => p \in i .. Len(s)
        BY <1>1, <3>1, <3>4
      <4> QED
        BY <3>1, <4>1, <4>2 DEF LettersIn
    <3>7. Increasing(s) => Below(LettersIn(s, i, m - 1), LettersIn(s, n, Len(s)))
      BY <1>1, <3>4, LettersInOrder
    <3> DEFINE first == <<SubSeq(s, i, m - 1)>>
    <3>8. /\ first \in Seq(Texts) /\ LettersOf(first) = LettersIn(s, i, m - 1)
          /\ Increasing(s) => InOrder(first)
      BY <3>5, SingleChunk
    <3> HIDE DEF first
    <3>9. /\ first \o split[n] \in Seq(Texts)
          /\ LettersOf(first \o split[n]) = LettersIn(s, i, Len(s))
          /\ Increasing(s) => InOrder(first \o split[n])
      BY <3>3, <3>6, <3>7, <3>8, ConcatChunks
    <3> QED
      BY <3>2, <3>9 DEF first
  <2> QED
    BY <2>1, <2>2
<1> HIDE DEF Kept
<1>7. 1 .. N \subseteq Kept
  BY <1>1, <1>6, DownwardInduction
<1>8. Letters(s) = LettersIn(s, 1, Len(s))
  BY <1>1 DEF Letters, LettersIn, ToSet
<1>9. 1 \in Kept
  BY <1>1, <1>7
<1> QED
  BY <1>2, <1>8, <1>9 DEF Kept

-------------------------------------------------------------------------------
(* Merging the parts. *)

\* What _split carries through its loop: the chunks, and the text that is not in one yet.
States == [chunks : Seq(Texts), current : Texts]
\* The letters that the loop has seen.
Seen(st) == LettersOf(st.chunks) \cup Letters(st.current)
\* No text is longer than bound.
Bounded(texts, bound) == \A c \in ToSet(texts) : Len(c) <= bound
\* Everything the loop carries is in order.
OrderedState(st) ==
  /\ InOrder(st.chunks) /\ Increasing(st.current)
  /\ Below(LettersOf(st.chunks), Letters(st.current))

\* The text carried along becomes a chunk.
LEMMA EmitKeeps ==
  ASSUME NEW cs \in Seq(Texts), NEW t \in Texts
  PROVE  /\ Emit(cs, t) \in Seq(Texts) /\ LettersOf(Emit(cs, t)) = LettersOf(cs) \cup Letters(t)
         /\ ToSet(Emit(cs, t)) \subseteq ToSet(cs) \cup {t}
         /\ InOrder(cs) /\ Increasing(t) /\ Below(LettersOf(cs), Letters(t))
            => InOrder(Emit(cs, t))
<1>1. CASE t = <<>>
  <2>1. Emit(cs, t) = cs
    BY <1>1 DEF Emit
  <2> QED
    BY <1>1, <2>1, NoChunk
<1>2. CASE t # <<>>
  <2>1. Emit(cs, t) = cs \o <<t>>
    BY <1>2, AppendIsConcat DEF Emit
  <2> DEFINE one == <<t>>
  <2>2. /\ one \in Seq(Texts) /\ ToSet(one) = {t} /\ LettersOf(one) = Letters(t)
        /\ Increasing(t) => InOrder(one)
    BY SingleChunk
  <2> HIDE DEF one
  <2>3. ToSet(cs \o one) = ToSet(cs) \cup ToSet(one)
    BY <2>2, ConcatSet
  <2>4. /\ cs \o one \in Seq(Texts) /\ LettersOf(cs \o one) = LettersOf(cs) \cup LettersOf(one)
        /\ InOrder(cs) /\ InOrder(one) /\ Below(LettersOf(cs), LettersOf(one))
            => InOrder(cs \o one)
    BY <2>2, ConcatChunks
  <2>5. Emit(cs, t) = cs \o one
    BY <2>1 DEF one
  <2> QED
    BY <2>2, <2>3, <2>4, <2>5
<1> QED
  BY <1>1, <1>2

\* The kinds of characters that the chunkers add.
AddedKinds == {" ", ".", "n"}

\* A separator that is added is text without letters.
LEMMA AddedIsNoLetter ==
  ASSUME NEW sep \in Seq(AddedKinds)
  PROVE  Added(sep) \in Texts /\ Letters(Added(sep)) = {} /\ Increasing(Added(sep))
<1> DEFINE n == Len(sep)
<1>1. n \in Nat /\ \A i \in 1 .. n : sep[i] \in AddedKinds
  BY LenProperties, ElementOfSeq
<1>2. \A k \in AddedKinds : [ch |-> k, at |-> 0] \in Chars /\ k # "x"
  BY Zenon DEF Chars, AddedKinds
<1> HIDE DEF n
<1>3. Added(sep) = [i \in 1 .. n |-> [ch |-> sep[i], at |-> 0]]
  BY DEF Added, n
<1>4. \A i \in 1 .. n : [ch |-> sep[i], at |-> 0] \in Chars /\ sep[i] # "x"
  BY <1>1, <1>2
<1>5. Added(sep) \in [1 .. n -> Chars]
  BY <1>3, <1>4
<1>6. Added(sep) \in Texts
  BY <1>1, <1>5, SeqDef DEF Texts
<1>7. DOMAIN Added(sep) = 1 .. n
  BY <1>3
<1>8. ASSUME NEW i \in 1 .. n PROVE Added(sep)[i].ch # "x"
  <2>1. Added(sep)[i] = [ch |-> sep[i], at |-> 0]
    BY <1>3
  <2>2. [ch |-> sep[i], at |-> 0].ch = sep[i]
    OBVIOUS
  <2> QED
    BY <1>4, <2>1, <2>2
<1> QED
  BY <1>6, <1>7, <1>8 DEF Letters, ToSet, Increasing

\* The parts of what the loop carries.
LEMMA StateParts ==
  ASSUME NEW cs, NEW t, NEW st, st = [chunks |-> cs, current |-> t]
  PROVE  /\ st.chunks = cs /\ st.current = t
         /\ cs \in Seq(Texts) /\ t \in Texts => st \in States
         /\ Seen(st) = LettersOf(cs) \cup Letters(t)
         /\ OrderedState(st) <=> /\ InOrder(cs) /\ Increasing(t)
                                /\ Below(LettersOf(cs), Letters(t))
<1>1. [chunks |-> cs, current |-> t].chunks = cs /\ [chunks |-> cs, current |-> t].current = t
  OBVIOUS
<1>2. st.chunks = cs /\ st.current = t
  BY <1>1
<1>3. cs \in Seq(Texts) /\ t \in Texts => st \in States
  BY DEF States
<1> QED
  BY <1>2, <1>3 DEF Seen, OrderedState

\* The three ways of the loop's body.
BodyOf(next, cs, t, part, finer, size, candidate) ==
  next = IF Len(candidate) <= size THEN [chunks |-> cs, current |-> candidate]
         ELSE IF Len(part) > size THEN [chunks |-> Emit(cs, t) \o finer, current |-> t]
         ELSE [chunks |-> Emit(cs, t), current |-> part]

\* The loop's body is one of them.
LEMMA ExtendCases ==
  ASSUME NEW cs, NEW t, NEW part, NEW finer, NEW sep, NEW size, NEW candidate,
         candidate = IF t = <<>> THEN part ELSE t \o Added(sep) \o part
  PROVE  BodyOf(Extend([chunks |-> cs, current |-> t], part, finer, sep, size),
                cs, t, part, finer, size, candidate)
<1> DEFINE st == [chunks |-> cs, current |-> t]
<1>1. st.chunks = cs /\ st.current = t
  OBVIOUS
<1> HIDE DEF st
<1>2. BodyOf(Extend(st, part, finer, sep, size), cs, t, part, finer, size, candidate)
  BY <1>1, Zenon DEF Extend, BodyOf
<1> QED
  BY <1>2 DEF st

\* What a pass of the loop over the parts does.
Extended(st, next, part, finer, size, bound) ==
  /\ next \in States
  /\ (Len(part) > size => LettersOf(finer) = Letters(part))
     => Seen(next) = Seen(st) \cup Letters(part)
  /\ /\ Bounded(st.chunks, bound) /\ Len(st.current) <= size
     /\ Len(part) > size => Bounded(finer, bound)
     => Bounded(next.chunks, bound) /\ Len(next.current) <= size
  /\ /\ OrderedState(st) /\ Increasing(part) /\ Below(Seen(st), Letters(part))
     /\ Len(part) > size =>
          LettersOf(finer) = Letters(part) /\ InOrder(finer) /\ st.current = <<>>
     => OrderedState(next)
  /\ st.current = <<>> /\ (part = <<>> \/ Len(part) > size) => next.current = <<>>

\* The loop's body loses no letter, keeps the bound, and keeps the order unless it repeats text.
LEMMA ExtendKeeps ==
  ASSUME NEW st \in States, NEW part \in Texts, NEW finer \in Seq(Texts),
         NEW sep \in Seq(AddedKinds), NEW size \in Nat, NEW bound \in Nat, size <= bound
  PROVE  Extended(st, Extend(st, part, finer, sep, size), part, finer, size, bound)
<1> DEFINE next == Extend(st, part, finer, sep, size)
<1>0. next = Extend(st, part, finer, sep, size)
  OBVIOUS
<1> SUFFICES Extended(st, next, part, finer, size, bound)
  OBVIOUS
<1> HIDE DEF next
<1>1. PICK cs \in Seq(Texts), t \in Texts : st = [chunks |-> cs, current |-> t]
  BY DEF States
<1> DEFINE candidate == IF t = <<>> THEN part ELSE t \o Added(sep) \o part
<1>2. /\ candidate \in Texts /\ Letters(candidate) = Letters(t) \cup Letters(part)
      /\ Increasing(t) /\ Increasing(part) /\ Below(Letters(t), Letters(part))
         => Increasing(candidate)
      /\ t = <<>> => candidate = part
  <2>1. CASE t = <<>>
    BY <2>1, NoChunk
  <2>2. CASE t # <<>>
    <3>1. Added(sep) \in Texts /\ Letters(Added(sep)) = {} /\ Increasing(Added(sep))
      BY AddedIsNoLetter
    <3> DEFINE a == Added(sep)
               u == t \o a
    <3> HIDE DEF a
    <3>2. a \in Texts /\ Letters(a) = {} /\ Increasing(a) /\ Below(Letters(t), Letters(a))
      BY <3>1 DEF Below, a
    <3>3a. t \o a \in Texts /\ Letters(t \o a) = Letters(t) \cup Letters(a)
           /\ (Increasing(t) /\ Increasing(a) /\ Below(Letters(t), Letters(a))
              => Increasing(t \o a))
      BY <1>1, <3>2, ConcatText
    <3>3. u \in Texts /\ Letters(u) = Letters(t) /\ (Increasing(t) => Increasing(u))
      BY <3>2, <3>3a
    <3>4. candidate = u \o part
      BY <2>2 DEF a
    <3> HIDE DEF u, candidate
    <3>5. /\ u \o part \in Texts /\ Letters(u \o part) = Letters(u) \cup Letters(part)
          /\ Increasing(u) /\ Increasing(part) /\ Below(Letters(u), Letters(part))
            => Increasing(u \o part)
      BY <3>3, ConcatText
    <3> QED
      BY <2>2, <3>3, <3>4, <3>5
  <2> QED
    BY <2>1, <2>2
<1> DEFINE ds == Emit(cs, t)
<1>3. /\ ds \in Seq(Texts) /\ LettersOf(ds) = LettersOf(cs) \cup Letters(t)
      /\ ToSet(ds) \subseteq ToSet(cs) \cup {t}
      /\ InOrder(cs) /\ Increasing(t) /\ Below(LettersOf(cs), Letters(t)) => InOrder(ds)
  BY <1>1, EmitKeeps
<1>3a. next = Extend([chunks |-> cs, current |-> t], part, finer, sep, size)
  BY <1>0, <1>1, Zenon
<1>3b. candidate = IF t = <<>> THEN part ELSE t \o Added(sep) \o part
  OBVIOUS
<1>3c. st.chunks = cs /\ st.current = t /\ Len(st.current) = Len(t)
  BY <1>1, StateParts
<1> HIDE DEF candidate
<1>3d. BodyOf(next, cs, t, part, finer, size, candidate)
  BY <1>3a, <1>3b, ExtendCases, Zenon
<1>4. next = IF Len(candidate) <= size THEN [chunks |-> cs, current |-> candidate]
             ELSE IF Len(part) > size THEN [chunks |-> ds \o finer, current |-> t]
             ELSE [chunks |-> ds, current |-> part]
  BY <1>3d, Zenon DEF BodyOf
<1>5. Len(candidate) \in Nat /\ Len(part) \in Nat /\ Len(t) \in Nat
  BY <1>1, <1>2, LenProperties DEF Texts
<1>6. /\ st.chunks = cs /\ st.current = t
      /\ Seen(st) = LettersOf(cs) \cup Letters(t)
      /\ OrderedState(st) <=> /\ InOrder(cs) /\ Increasing(t)
                             /\ Below(LettersOf(cs), Letters(t))
  BY <1>1, StateParts
<1> HIDE DEF ds
<1>7. CASE Len(candidate) <= size
  <2>1. next = [chunks |-> cs, current |-> candidate]
    BY <1>4, <1>7
  <2>2. /\ next.chunks = cs /\ next.current = candidate /\ next \in States
        /\ Seen(next) = LettersOf(cs) \cup Letters(candidate)
        /\ OrderedState(next) <=> /\ InOrder(cs) /\ Increasing(candidate)
                                 /\ Below(LettersOf(cs), Letters(candidate))
    BY <1>1, <1>2, <2>1, StateParts
  <2>3. ASSUME OrderedState(st), Increasing(part), Below(Seen(st), Letters(part))
        PROVE  OrderedState(next)
    <3>1. Below(Letters(t), Letters(part)) /\ Below(LettersOf(cs), Letters(candidate))
      BY <1>2, <1>6, <2>3 DEF Below
    <3> QED
      BY <1>2, <1>6, <2>2, <2>3, <3>1
  <2>4. st.current = <<>> => Len(next.current) = Len(part)
    BY <1>2, <1>6, <2>2
  <2>5. st.current = <<>> /\ part = <<>> => next.current = <<>>
    BY <1>2, <1>6, <2>2
  <2>6. st.current = <<>> => ~(Len(part) > size)
    <3>1. t = <<>> => Len(candidate) = Len(part)
      BY <1>2
    <3> QED
      BY <1>3c, <1>5, <1>7, <3>1
  <2>7. Bounded(st.chunks, bound) => Bounded(next.chunks, bound) /\ Len(next.current) <= size
    BY <1>3c, <1>7, <2>2
  <2>8. Seen(next) = Seen(st) \cup Letters(part)
    BY <1>2, <1>6, <2>2
  <2> QED
    BY <2>2, <2>3, <2>5, <2>6, <2>7, <2>8 DEF Extended
<1>8. CASE ~(Len(candidate) <= size) /\ Len(part) > size
  <2> DEFINE all == ds \o finer
  <2>1. next = [chunks |-> all, current |-> t]
    BY <1>4, <1>8
  <2>2. /\ all \in Seq(Texts) /\ ToSet(all) = ToSet(ds) \cup ToSet(finer)
        /\ LettersOf(all) = LettersOf(ds) \cup LettersOf(finer)
        /\ InOrder(ds) /\ InOrder(finer) /\ Below(LettersOf(ds), LettersOf(finer))
           => InOrder(all)
    <3>1. ToSet(all) = ToSet(ds) \cup ToSet(finer)
      BY <1>3, ConcatSet
    <3> QED
      BY <1>3, <3>1, ConcatChunks
  <2> HIDE DEF all
  <2>3. /\ next.chunks = all /\ next.current = t /\ next \in States
        /\ Seen(next) = LettersOf(all) \cup Letters(t)
        /\ OrderedState(next) <=> /\ InOrder(all) /\ Increasing(t)
                                 /\ Below(LettersOf(all), Letters(t))
    BY <1>1, <2>1, <2>2, StateParts
  <2>4. LettersOf(finer) = Letters(part) => Seen(next) = Seen(st) \cup Letters(part)
    BY <1>3, <1>6, <2>2, <2>3
  <2>5. ASSUME Bounded(st.chunks, bound), Len(st.current) <= size, Bounded(finer, bound)
        PROVE  Bounded(next.chunks, bound) /\ Len(next.current) <= size
    <3>1. \A c \in ToSet(cs) : Len(c) <= bound
      BY <1>6, <2>5 DEF Bounded
    <3>2. Len(t) <= bound
      BY <1>3c, <1>5, <2>5
    <3>3. \A c \in ToSet(all) : Len(c) <= bound
      BY <1>3, <2>2, <2>5, <3>1, <3>2 DEF Bounded
    <3> QED
      BY <1>6, <2>3, <2>5, <3>3 DEF Bounded
  <2>6. ASSUME OrderedState(st), Below(Seen(st), Letters(part)),
               LettersOf(finer) = Letters(part), InOrder(finer), st.current = <<>>
        PROVE  OrderedState(next)
    <3>1. InOrder(ds) /\ LettersOf(ds) = Seen(st) /\ Letters(t) = {} /\ Increasing(t)
      BY <1>3, <1>6, <2>6, NoChunk
    <3>2. Below(LettersOf(ds), LettersOf(finer)) /\ Below(LettersOf(all), Letters(t))
      BY <2>6, <3>1 DEF Below
    <3> QED
      BY <2>2, <2>3, <2>6, <3>1, <3>2
  <2> QED
    BY <1>6, <1>8, <2>3, <2>4, <2>5, <2>6 DEF Extended
<1>9. CASE ~(Len(candidate) <= size) /\ ~(Len(part) > size)
  <2>1. next = [chunks |-> ds, current |-> part]
    BY <1>4, <1>9
  <2>2. /\ next.chunks = ds /\ next.current = part /\ next \in States
        /\ Seen(next) = LettersOf(ds) \cup Letters(part)
        /\ OrderedState(next) <=> /\ InOrder(ds) /\ Increasing(part)
                                 /\ Below(LettersOf(ds), Letters(part))
    BY <1>1, <1>3, <2>1, StateParts
  <2>3. Seen(next) = Seen(st) \cup Letters(part)
    BY <1>3, <1>6, <2>2
  <2>4. ASSUME Bounded(st.chunks, bound), Len(st.current) <= size
        PROVE  Bounded(next.chunks, bound) /\ Len(next.current) <= size
    <3>1. \A c \in ToSet(cs) : Len(c) <= bound
      BY <1>6, <2>4 DEF Bounded
    <3>2. Len(t) <= bound /\ Len(part) <= size
      BY <1>3c, <1>5, <1>9, <2>4
    <3>3. \A c \in ToSet(ds) : Len(c) <= bound
      BY <1>3, <3>1, <3>2
    <3> QED
      BY <2>2, <3>2, <3>3 DEF Bounded
  <2>5. ASSUME OrderedState(st), Increasing(part), Below(Seen(st), Letters(part))
        PROVE  OrderedState(next)
    BY <1>3, <1>6, <2>2, <2>5
  <2>6. part = <<>> => next.current = <<>>
    BY <2>2
  <2> QED
    BY <1>9, <2>2, <2>3, <2>4, <2>5, <2>6 DEF Extended
<1> QED
  BY <1>7, <1>8, <1>9

\* The letters of the first i parts, and that none of them is a small part with text.
LettersUpTo(parts, i) == UNION {Letters(parts[j]) : j \in 1 .. i}
\* None of the first i parts is text that fits into a chunk.
NoneSmall(parts, i, size) == \A j \in 1 .. i : parts[j] = <<>> \/ Len(parts[j]) > size

\* What the merge of parts promises, when every part that is too large has become finer.
Merged(chunks, parts, finer, size, bound) ==
  /\ chunks \in Seq(Texts)
  /\ (\A i \in 1 .. Len(parts) : Len(parts[i]) > size => LettersOf(finer[i]) = Letters(parts[i]))
     => LettersOf(chunks) = LettersOf(parts)
  /\ (\A i \in 1 .. Len(parts) : Len(parts[i]) > size => Bounded(finer[i], bound))
     => Bounded(chunks, bound)
  /\ /\ InOrder(parts)
     /\ \A i \in 1 .. Len(parts) : Len(parts[i]) > size =>
          /\ LettersOf(finer[i]) = Letters(parts[i]) /\ InOrder(finer[i])
          /\ NoneSmall(parts, i - 1, size)
     => InOrder(chunks)

\* The whole loop, by induction on the number of parts.
LEMMA MergeKeeps ==
  ASSUME NEW parts \in Seq(Texts), NEW finer \in [1 .. Len(parts) -> Seq(Texts)],
         NEW sep \in Seq(AddedKinds), NEW size \in Nat, NEW bound \in Nat, size <= bound
  PROVE  Merged(Merge(parts, finer, sep, size), parts, finer, size, bound)
<1> DEFINE N == Len(parts)
           start == [chunks |-> <<>>, current |-> <<>>]
           Value(f, i) == IF i = 0 THEN start ELSE Extend(f[i - 1], parts[i], finer[i], sep, size)
           after == CHOOSE f : f = [i \in 0 .. N |-> Value(f, i)]
           merged == Merge(parts, finer, sep, size)
<1>1. N \in Nat /\ DOMAIN parts = 1 .. N
  BY LenProperties
<1>2. \A i \in 1 .. N : parts[i] \in Texts /\ finer[i] \in Seq(Texts)
  BY ElementOfSeq
<1>3. merged = Emit(after[N].chunks, after[N].current)
  BY DEF Merge
<1> HIDE DEF N, start, merged
<1>4. start \in States /\ start.chunks = <<>> /\ start.current = <<>>
      /\ Seen(start) = {} /\ OrderedState(start)
  <2>1. /\ <<>> \in Seq(Texts) /\ LettersOf(<<>>) = {} /\ InOrder(<<>>)
        /\ <<>> \in Texts /\ Letters(<<>>) = {} /\ Increasing(<<>>)
    BY NoChunk
  <2>2. start = [chunks |-> <<>>, current |-> <<>>]
    BY DEF start
  <2> QED
    BY <2>1, <2>2, StateParts DEF Below
<1>5. \A st \in States, i \in 1 .. N :
        Extended(st, Extend(st, parts[i], finer[i], sep, size), parts[i], finer[i], size, bound)
  BY <1>2, ExtendKeeps
<1>6. \E f \in [0 .. N -> States] : f = [i \in 0 .. N |-> Value(f, i)]
  <2> DEFINE step == [p \in (1 .. N) \X States |-> Extend(p[2], parts[p[1]], finer[p[1]], sep, size)]
  <2>1. step \in [(1 .. N) \X States -> States]
    BY <1>5 DEF Extended
  <2>2. \A i \in 1 .. N, st \in States :
          step[<<i, st>>] = Extend(st, parts[i], finer[i], sep, size)
    OBVIOUS
  <2> HIDE DEF step
  <2>3. PICK f : Iterates(f, N, States, start, step)
    BY <1>1, <1>4, <2>1, UpwardRecursion
  <2>4. \A i \in 1 .. N : f[i] = Extend(f[i - 1], parts[i], finer[i], sep, size)
    <3>1. \A i \in 1 .. N : i - 1 \in 0 .. N
      BY <1>1
    <3> QED
      BY <2>2, <2>3, <3>1 DEF Iterates
  <2>5. \A i \in 0 .. N : f[i] = Value(f, i)
    BY <1>1, <2>3, <2>4 DEF Iterates
  <2> HIDE DEF Value
  <2>6. f \in [0 .. N -> States] /\ f = [i \in 0 .. N |-> Value(f, i)]
    BY <2>3, <2>5 DEF Iterates
  <2> QED
    BY <2>6
<1>7. after = [i \in 0 .. N |-> Value(after, i)]
  <2> HIDE DEF Value
  <2> QED
    BY <1>6
<1> HIDE DEF after
<1>8. /\ after[0] = start
      /\ \A i \in 1 .. N : after[i] = Extend(after[i - 1], parts[i], finer[i], sep, size)
  <2>1. \A i \in 0 .. N : after[i] = Value(after, i)
    <3> HIDE DEF Value
    <3> QED
      BY <1>7
  <2>2. 0 \in 0 .. N /\ \A i \in 1 .. N : i \in 0 .. N /\ i # 0
    BY <1>1
  <2> QED
    BY <2>1, <2>2
<1> DEFINE Kept == \A i \in 1 .. N : Len(parts[i]) > size => LettersOf(finer[i]) = Letters(parts[i])
           Fit == \A i \in 1 .. N : Len(parts[i]) > size => Bounded(finer[i], bound)
           Clean == /\ InOrder(parts)
                    /\ \A i \in 1 .. N : Len(parts[i]) > size =>
                         /\ LettersOf(finer[i]) = Letters(parts[i]) /\ InOrder(finer[i])
                         /\ NoneSmall(parts, i - 1, size)
           Good(st, i) == /\ st \in States
                          /\ Kept => Seen(st) = LettersUpTo(parts, i)
                          /\ Fit => Bounded(st.chunks, bound) /\ Len(st.current) <= size
                          /\ Clean => OrderedState(st)
                          /\ NoneSmall(parts, i, size) => st.current = <<>>
           S == {i \in Nat : i <= N => Good(after[i], i)}
<1>9. 0 \in S
  <2>1. LettersUpTo(parts, 0) = {}
    BY DEF LettersUpTo
  <2>2. Bounded(<<>>, bound) /\ Len(<<>>) = 0
    BY DEF Bounded, ToSet
  <2>3. Good(start, 0)
    BY <1>4, <2>1, <2>2
  <2> QED
    BY <1>8, <2>3
<1>10. ASSUME NEW n \in Nat, n \in S PROVE n + 1 \in S
  <2> SUFFICES ASSUME n + 1 <= N PROVE Good(after[n + 1], n + 1)
    OBVIOUS
  <2> DEFINE st == after[n]
             i == n + 1
             next == after[i]
  <2>1. Good(st, n)
    BY <1>1, <1>10
  <2>2. i \in 1 .. N /\ i - 1 = n
    BY <1>1
  <2>3. next = Extend(st, parts[i], finer[i], sep, size)
    BY <1>8, <2>2
  <2> HIDE DEF Good, st, next, i
  <2>4. Extended(st, next, parts[i], finer[i], size, bound)
    BY <1>5, <2>1, <2>2, <2>3 DEF Good
  <2> HIDE DEF Kept, Fit, Clean
  <2>5. LettersUpTo(parts, i) = LettersUpTo(parts, n) \cup Letters(parts[i])
    <3>1. 1 .. i = 1 .. n \cup {i}
      BY <2>2 DEF i
    <3> QED
      BY <3>1 DEF LettersUpTo
  <2>6. NoneSmall(parts, i, size) =>
          NoneSmall(parts, n, size) /\ (parts[i] = <<>> \/ Len(parts[i]) > size)
    <3>1. i \in 1 .. i /\ \A j \in 1 .. n : j \in 1 .. i
      BY <2>2 DEF i
    <3> QED
      BY <3>1 DEF NoneSmall
  <2>7. next \in States
    BY <2>4 DEF Extended
  <2>8. ASSUME Kept PROVE Seen(next) = LettersUpTo(parts, i)
    <3>1. Len(parts[i]) > size => LettersOf(finer[i]) = Letters(parts[i])
      BY <2>2, <2>8 DEF Kept
    <3> QED
      BY <2>1, <2>4, <2>5, <2>8, <3>1 DEF Extended, Good
  <2>9. ASSUME Fit PROVE Bounded(next.chunks, bound) /\ Len(next.current) <= size
    <3>1. Len(parts[i]) > size => Bounded(finer[i], bound)
      BY <2>2, <2>9 DEF Fit
    <3> QED
      BY <2>1, <2>4, <2>9, <3>1 DEF Extended, Good
  <2>10. ASSUME Clean PROVE OrderedState(next)
    <3>1. Kept
      BY <2>10 DEF Clean, Kept
    <3>2. Seen(st) = LettersUpTo(parts, n) /\ OrderedState(st)
      BY <2>1, <2>10, <3>1 DEF Good
    <3>3. Len(parts[i]) > size =>
            LettersOf(finer[i]) = Letters(parts[i]) /\ InOrder(finer[i]) /\ st.current = <<>>
      BY <2>1, <2>2, <2>10 DEF Clean, Good
    <3>4. Increasing(parts[i]) /\ \A j \in 1 .. n : Below(Letters(parts[j]), Letters(parts[i]))
      <4>1. parts[i] \in ToSet(parts)
        BY <1>1, <2>2 DEF ToSet
      <4>2. \A j \in 1 .. n : j \in DOMAIN parts /\ i \in DOMAIN parts /\ j < i
        BY <1>1, <2>2
      <4> QED
        BY <2>10, <4>1, <4>2 DEF Clean, InOrder, Below
    <3>5. Below(Seen(st), Letters(parts[i]))
      BY <3>2, <3>4 DEF LettersUpTo, Below
    <3> QED
      BY <2>4, <3>2, <3>3, <3>4, <3>5 DEF Extended
  <2>11. NoneSmall(parts, i, size) => next.current = <<>>
    BY <2>1, <2>4, <2>6 DEF Extended, Good
  <2>12. Good(next, i)
    BY <2>7, <2>8, <2>9, <2>10, <2>11 DEF Good
  <2> QED
    BY <2>12 DEF next, i
<1> HIDE DEF S, Good
<1>11. Good(after[N], N)
  <2>1. N \in S
    BY <1>1, <1>9, <1>10, Induction
  <2> QED
    BY <1>1, <2>1 DEF S
<1> DEFINE cs == after[N].chunks
           t == after[N].current
<1>12. cs \in Seq(Texts) /\ t \in Texts /\ Seen(after[N]) = LettersOf(cs) \cup Letters(t)
  BY <1>11 DEF Good, States, Seen
<1>13. /\ merged \in Seq(Texts) /\ LettersOf(merged) = LettersOf(cs) \cup Letters(t)
       /\ ToSet(merged) \subseteq ToSet(cs) \cup {t}
       /\ InOrder(cs) /\ Increasing(t) /\ Below(LettersOf(cs), Letters(t)) => InOrder(merged)
  <2> HIDE DEF cs, t
  <2>1. merged = Emit(cs, t)
    BY <1>3 DEF cs, t
  <2> QED
    BY <1>12, <2>1, EmitKeeps
<1>14. LettersUpTo(parts, N) = LettersOf(parts)
  BY <1>1 DEF LettersUpTo, LettersOf, ToSet
<1> HIDE DEF Kept, Fit, Clean
<1>15. Kept => LettersOf(merged) = LettersOf(parts)
  BY <1>11, <1>12, <1>13, <1>14 DEF Good
<1>16. Fit => Bounded(merged, bound)
  <2> SUFFICES ASSUME Fit, NEW c \in ToSet(merged) PROVE Len(c) <= bound
    BY DEF Bounded
  <2>1. Bounded(cs, bound) /\ Len(t) <= size /\ Len(t) \in Nat
    BY <1>11, <1>12, LenProperties DEF Good, Texts
  <2>2. c \in ToSet(cs) \/ c = t
    BY <1>13
  <2>3. c \in ToSet(cs) => Len(c) <= bound
    BY <2>1 DEF Bounded
  <2> QED
    BY <2>1, <2>2, <2>3
<1>17. Clean => InOrder(merged)
  BY <1>11, <1>13 DEF Good, OrderedState
<1>18. Merged(merged, parts, finer, size, bound)
  BY <1>13, <1>15, <1>16, <1>17 DEF Merged, N, Kept, Fit, Clean
<1> QED
  BY <1>18 DEF merged

\* _apply_overlap adds at most overlap characters to a chunk, all of them from the next chunk.
LEMMA OverlapKeeps ==
  ASSUME NEW cs \in Seq(Texts), NEW overlap \in Nat
  PROVE  /\ ApplyOverlap(cs, overlap) \in Seq(Texts)
         /\ LettersOf(ApplyOverlap(cs, overlap)) = LettersOf(cs)
         /\ \A bound \in Nat : Bounded(cs, bound) => Bounded(ApplyOverlap(cs, overlap), bound + overlap)
         /\ overlap = 0 /\ InOrder(cs) => InOrder(ApplyOverlap(cs, overlap))
<1> DEFINE N == Len(cs)
           out == ApplyOverlap(cs, overlap)
           more(i) == Start(cs[i + 1], overlap)
<1>1. N \in Nat /\ DOMAIN cs = 1 .. N /\ \A i \in 1 .. N : cs[i] \in Texts /\ Len(cs[i]) \in Nat
  BY LenProperties, ElementOfSeq DEF Texts
<1>2. out = [i \in 1 .. N |-> IF i < N THEN cs[i] \o more(i) ELSE cs[i]]
  BY DEF ApplyOverlap
<1>3. ASSUME NEW s \in Texts
      PROVE  /\ Start(s, overlap) \in Texts /\ Len(Start(s, overlap)) <= overlap
             /\ Len(Start(s, overlap)) \in Nat
             /\ Letters(Start(s, overlap)) \subseteq Letters(s)
             /\ overlap = 0 => Start(s, overlap) = <<>>
  <2> DEFINE n == IF overlap < Len(s) THEN overlap ELSE Len(s)
  <2>1. Len(s) \in Nat /\ n \in 0 .. Len(s) /\ n <= overlap /\ 1 \in 1 .. Len(s) + 1
        /\ DOMAIN s = 1 .. Len(s)
    BY LenProperties DEF Texts
  <2>2. Start(s, overlap) = SubSeq(s, 1, n)
    BY DEF Start
  <2> HIDE DEF n
  <2>3. /\ SubSeq(s, 1, n) \in Texts /\ Len(SubSeq(s, 1, n)) = IF 1 <= n THEN n - 1 + 1 ELSE 0
        /\ Letters(SubSeq(s, 1, n)) = {c \in {s[i] : i \in 1 .. n} : c.ch = "x"}
    BY <2>1, SliceText, SliceSet DEF Texts
  <2>4. \A i \in 1 .. n : s[i] \in ToSet(s)
    BY <2>1 DEF ToSet
  <2>5. Letters(SubSeq(s, 1, n)) \subseteq Letters(s)
    BY <2>3, <2>4 DEF Letters
  <2>6. Len(SubSeq(s, 1, n)) = n
    BY <2>1, <2>3
  <2>7. n = 0 => SubSeq(s, 1, n) = <<>>
    BY <2>3, <2>6, EmptySeq DEF Texts
  <2> QED
    BY <2>1, <2>2, <2>3, <2>5, <2>6, <2>7
<1> HIDE DEF out, N
<1>4. ASSUME NEW i \in 1 .. N
      PROVE  /\ out[i] \in Texts /\ Letters(cs[i]) \subseteq Letters(out[i])
             /\ Letters(out[i]) \subseteq LettersOf(cs)
             /\ Len(out[i]) \in Nat /\ Len(out[i]) <= Len(cs[i]) + overlap
             /\ overlap = 0 => out[i] = cs[i]
  <2>1. Letters(cs[i]) \subseteq LettersOf(cs)
    BY <1>1 DEF LettersOf, ToSet
  <2>2. CASE i < N
    <3>1. i + 1 \in 1 .. N
      BY <1>1, <2>2
    <3> DEFINE a == cs[i]
               b == more(i)
    <3>2. out[i] = a \o b
      BY <1>2, <2>2
    <3>3. /\ a \in Texts /\ b \in Texts /\ Len(b) <= overlap /\ Len(b) \in Nat /\ Len(a) \in Nat
          /\ Letters(b) \subseteq Letters(cs[i + 1]) /\ (overlap = 0 => b = <<>>)
      BY <1>1, <1>3, <3>1
    <3>4. Letters(cs[i + 1]) \subseteq LettersOf(cs)
      BY <1>1, <3>1 DEF LettersOf, ToSet
    <3>5. overlap = 0 => b = <<>>
      BY <3>3
    <3> HIDE DEF b
    <3>6. a \o b \in Texts /\ Letters(a \o b) = Letters(a) \cup Letters(b)
      BY <1>1, <3>3, ConcatText
    <3>7. Len(a \o b) = Len(a) + Len(b)
      BY <1>1, <3>3, ConcatSet DEF Texts
    <3>8. overlap = 0 => a \o b = a
      BY <1>1, <3>5, ConcatEmptySeq DEF Texts
    <3> HIDE DEF a
    <3>9. Len(out[i]) \in Nat /\ Len(out[i]) <= Len(a) + overlap
      BY <3>2, <3>3, <3>7
    <3>10. Letters(a) \subseteq LettersOf(cs)
      BY <2>1 DEF a
    <3>11. out[i] \in Texts /\ Letters(a) \subseteq Letters(out[i])
           /\ Letters(out[i]) \subseteq LettersOf(cs)
      BY <3>2, <3>3, <3>4, <3>6, <3>10
    <3> QED
      BY <3>2, <3>8, <3>9, <3>11 DEF a
  <2>3. CASE ~(i < N)
    <3>1. out[i] = cs[i]
      BY <1>2, <2>3
    <3> QED
      BY <1>1, <2>1, <3>1
  <2> QED
    BY <2>2, <2>3
<1>5. DOMAIN out = 1 .. N /\ out \in Seq(Texts)
  <2>1. out = [i \in 1 .. N |-> out[i]]
    BY <1>2
  <2>2. out \in [1 .. N -> Texts]
    BY <1>4, <2>1
  <2> QED
    BY <1>1, <2>2, SeqDef
<1>6. LettersOf(out) = LettersOf(cs)
  <2>1. LettersOf(out) \subseteq LettersOf(cs)
    BY <1>4, <1>5 DEF LettersOf, ToSet
  <2>2. LettersOf(cs) \subseteq LettersOf(out)
    BY <1>1, <1>4, <1>5 DEF LettersOf, ToSet
  <2> QED
    BY <2>1, <2>2
<1>7. ASSUME NEW bound \in Nat, Bounded(cs, bound) PROVE Bounded(out, bound + overlap)
  <2>1. \A i \in 1 .. N : Len(cs[i]) <= bound
    BY <1>1, <1>7 DEF Bounded, ToSet
  <2>2. ASSUME NEW i \in 1 .. N PROVE Len(out[i]) <= bound + overlap
    <3>1. Len(cs[i]) \in Nat /\ Len(out[i]) \in Nat /\ Len(out[i]) <= Len(cs[i]) + overlap
      BY <1>1, <1>4
    <3>2. Len(cs[i]) <= bound
      BY <2>1
    <3> QED
      BY <3>1, <3>2
  <2> QED
    BY <1>5, <2>2 DEF Bounded, ToSet
<1>8. ASSUME overlap = 0, InOrder(cs) PROVE InOrder(out)
  <2>1. \A i \in 1 .. N : out[i] = cs[i]
    BY <1>4, <1>8
  <2> QED
    BY <1>1, <1>5, <1>8, <2>1 DEF InOrder, ToSet
<1> QED
  BY <1>5, <1>6, <1>7, <1>8 DEF out

-------------------------------------------------------------------------------
(* Splitting without a separator, and the levels of the recursion. *)

\* Multiples of a positive number are that number apart.
LEMMA Multiples ==
  ASSUME NEW d \in Nat \ {0}, NEW i \in Nat, NEW j \in Nat, i < j
  PROVE  i * d \in Nat /\ i * d >= i /\ j * d \in Nat /\ i * d + d <= j * d
<1>1. PICK e \in Nat : j = i + 1 + e
  <2>1. j - (i + 1) \in Nat /\ j = i + 1 + (j - (i + 1))
    OBVIOUS
  <2> QED
    BY <2>1
<1>2. e * d >= 0 /\ e * d \in Nat /\ i * d \in Nat
  OBVIOUS
<1>3. j * d = i * d + d + e * d
  BY <1>1
<1>4. i * d >= i
  <2>1. i * d = i * (d - 1) + i
    OBVIOUS
  <2>2. i * (d - 1) \in Nat
    <3>1. d - 1 \in Nat
      OBVIOUS
    <3> QED
      BY <3>1
  <2> QED
    BY <1>2, <2>1, <2>2
<1> QED
  BY <1>2, <1>3, <1>4

\* _hard_split: the slices cover the text, as each begins before the one before it has ended.
LEMMA HardSplitKeeps ==
  ASSUME NEW t \in Texts, NEW size \in Nat, NEW overlap \in Nat, overlap < size, t # <<>>
  PROVE  /\ HardSplit(t, size, overlap) \in Seq(Texts)
         /\ LettersOf(HardSplit(t, size, overlap)) = Letters(t)
         /\ Bounded(HardSplit(t, size, overlap), size)
         /\ overlap = 0 /\ Increasing(t) => InOrder(HardSplit(t, size, overlap))
<1> DEFINE d == size - overlap
           L == Len(t)
           begin(i) == (i - 1) * d + 1
           end(i) == IF begin(i) + size - 1 < L THEN begin(i) + size - 1 ELSE L
           J == {j \in 1 .. L : begin(j) <= L}
           N == Max(J)
           out == HardSplit(t, size, overlap)
<1>1. L \in Nat \ {0} /\ DOMAIN t = 1 .. L
  BY LenProperties, EmptySeq DEF Texts
<1>2. d \in Nat \ {0} /\ d <= size /\ (overlap = 0 => d = size)
  OBVIOUS
<1>3. out = [i \in 1 .. N |-> SubSeq(t, begin(i), end(i))]
  BY DEF HardSplit
<1> HIDE DEF out, d, L
<1>4. ASSUME NEW i \in Nat \ {0}
      PROVE  /\ begin(i) \in Nat /\ begin(i) >= i
             /\ begin(i + 1) = begin(i) + d
             /\ \A j \in Nat : i < j => begin(i) + d <= begin(j)
  <2>1. i - 1 \in Nat /\ (i - 1) * d \in Nat /\ (i - 1) * d >= i - 1
    BY <1>2, Multiples
  <2>2. ((i + 1) - 1) * d = (i - 1) * d + d
    BY <1>2
  <2>3. \A j \in Nat : i < j => (i - 1) * d + d <= (j - 1) * d
    <3> SUFFICES ASSUME NEW j \in Nat, i < j PROVE (i - 1) * d + d <= (j - 1) * d
      OBVIOUS
    <3>1. j - 1 \in Nat /\ i - 1 < j - 1
      OBVIOUS
    <3> QED
      BY <1>2, <2>1, <3>1, Multiples
  <2>4. \A j \in Nat : i < j => (j - 1) * d \in Int
    BY <1>2
  <2> QED
    BY <1>2, <2>1, <2>2, <2>3, <2>4
<1>5. begin(1) = 1
  BY <1>2
<1> HIDE DEF begin
<1>6. 1 \in J /\ J \in SUBSET (1 .. L)
  BY <1>1, <1>5
<1>7. N \in J /\ \A j \in J : j <= N
  <2> HIDE DEF J
  <2> QED
    BY <1>1, <1>6, LeastAndGreatest
<1>8. N \in 1 .. L /\ begin(N) <= L
  BY <1>7
<1> HIDE DEF N
<1>9. ASSUME NEW i \in 1 .. N
      PROVE  /\ begin(i) \in 1 .. L /\ end(i) \in 1 .. L
             /\ begin(i) <= end(i) /\ end(i) - begin(i) + 1 <= size
             /\ end(i) <= begin(i) + size - 1
  <2>1. begin(i) \in Nat /\ begin(i) >= i
    BY <1>4
  <2>2. begin(i) <= L
    <3>1. CASE i = N
      BY <1>8, <3>1
    <3>2. CASE i < N
      <4>1. i \in Nat \ {0} /\ N \in Nat /\ N \in Nat \ {0}
        BY <1>8
      <4>2. begin(i) + d <= begin(N) /\ begin(N) \in Nat
        BY <1>4, <3>2, <4>1
      <4> QED
        BY <1>1, <1>2, <1>8, <2>1, <4>2
    <3> QED
      BY <1>8, <3>1, <3>2
  <2> QED
    BY <1>1, <1>2, <2>1, <2>2
<1>10. ASSUME NEW i \in 1 .. N
       PROVE  /\ out[i] \in Texts /\ Letters(out[i]) = LettersIn(t, begin(i), end(i))
              /\ Len(out[i]) <= size /\ (Increasing(t) => Increasing(out[i]))
  <2> DEFINE b == begin(i)
             e == end(i)
  <2>1. b \in 1 .. L + 1 /\ e \in 0 .. L /\ b <= e /\ e - b + 1 <= size
    BY <1>1, <1>9
  <2>2. out[i] = SubSeq(t, b, e)
    BY <1>3
  <2> HIDE DEF b, e
  <2>3. /\ SubSeq(t, b, e) \in Texts /\ Letters(SubSeq(t, b, e)) = LettersIn(t, b, e)
        /\ (Increasing(t) => Increasing(SubSeq(t, b, e)))
    BY <2>1, SliceText DEF L, LettersIn
  <2>4. Len(SubSeq(t, b, e)) = e - b + 1
    BY <2>1, SliceSet DEF L, Texts
  <2> QED
    BY <2>1, <2>2, <2>3, <2>4 DEF b, e
<1>11. DOMAIN out = 1 .. N /\ out \in Seq(Texts)
  <2>1. out = [i \in 1 .. N |-> out[i]]
    BY <1>3
  <2>2. out \in [1 .. N -> Texts]
    BY <1>10, <2>1
  <2> QED
    BY <1>8, <2>2, SeqDef
<1>12. \A p \in 1 .. L : \E i \in 1 .. N : p \in begin(i) .. end(i)
  <2> DEFINE Covered(p) == \E i \in 1 .. N : begin(i) <= p /\ p <= begin(i) + size - 1
             S == {n \in Nat : n + 1 <= L => Covered(n + 1)}
  <2>1. 0 \in S
    BY <1>2, <1>5, <1>8
  <2>2. ASSUME NEW n \in Nat, n \in S PROVE n + 1 \in S
    <3> SUFFICES ASSUME n + 2 <= L PROVE Covered(n + 2)
      OBVIOUS
    <3>1. PICK i \in 1 .. N : begin(i) <= n + 1 /\ n + 1 <= begin(i) + size - 1
      BY <1>1, <2>2
    <3>2. /\ i \in Nat \ {0} /\ i + 1 \in Nat \ {0} /\ begin(i) \in Nat /\ begin(i + 1) \in Nat
          /\ begin(i + 1) = begin(i) + d /\ begin(i + 1) >= i + 1
      <4>1. i \in Nat \ {0} /\ i + 1 \in Nat \ {0}
        BY <1>8
      <4> HIDE DEF end, J
      <4> QED
        BY <1>4, <4>1
    <3>3. CASE n + 2 <= begin(i) + size - 1
      BY <3>1, <3>2, <3>3
    <3>4. CASE n + 2 > begin(i) + size - 1
      <4>1. n + 2 = begin(i) + size
        BY <3>1, <3>2, <3>4
      <4>2. begin(i + 1) <= n + 2 /\ n + 2 <= begin(i + 1) + size - 1
        BY <1>2, <3>2, <4>1
      <4>3. i + 1 \in J
        BY <1>1, <3>2, <4>2
      <4>4. i + 1 \in 1 .. N
        BY <1>7, <1>8, <3>2, <4>3
      <4> QED
        BY <4>2, <4>4
    <3> QED
      BY <3>2, <3>3, <3>4
  <2> HIDE DEF S
  <2>3. Nat \subseteq S
    BY <2>1, <2>2, Induction
  <2> SUFFICES ASSUME NEW p \in 1 .. L PROVE \E i \in 1 .. N : p \in begin(i) .. end(i)
    OBVIOUS
  <2>4. p - 1 \in S /\ p - 1 + 1 <= L /\ p - 1 + 1 = p
    BY <1>1, <2>3
  <2>5. Covered(p)
    <3>1. Covered(p - 1 + 1)
      BY <2>4 DEF S
    <3> QED
      BY <2>4, <3>1
  <2>6. PICK i \in 1 .. N : begin(i) <= p /\ p <= begin(i) + size - 1
    BY <2>5
  <2>7. begin(i) \in Nat
    BY <1>4
  <2>8. p <= end(i)
    BY <1>1, <2>6, <2>7
  <2>9. end(i) \in Int
    BY <1>9
  <2> QED
    BY <2>6, <2>7, <2>8, <2>9
<1>13. LettersOf(out) = Letters(t)
  <2>1. ASSUME NEW c \in Letters(t) PROVE c \in LettersOf(out)
    <3>1. PICK p \in 1 .. L : c = t[p] /\ t[p].ch = "x"
      BY <1>1 DEF Letters, ToSet
    <3>2. PICK i \in 1 .. N : p \in begin(i) .. end(i)
      BY <1>12
    <3>3. c \in Letters(out[i])
      BY <1>10, <3>1, <3>2 DEF LettersIn
    <3> QED
      BY <1>11, <3>3 DEF LettersOf, ToSet
  <2>2. ASSUME NEW i \in 1 .. N PROVE Letters(out[i]) \subseteq Letters(t)
    <3>1. \A p \in begin(i) .. end(i) : p \in 1 .. L
      BY <1>1, <1>9
    <3>2. \A p \in begin(i) .. end(i) : t[p] \in ToSet(t)
      BY <1>1, <3>1 DEF ToSet
    <3> HIDE DEF end
    <3> QED
      BY <1>10, <3>2 DEF LettersIn, Letters
  <2> QED
    BY <1>11, <2>1, <2>2 DEF LettersOf, ToSet
<1>14. Bounded(out, size)
  BY <1>10, <1>11 DEF Bounded, ToSet
<1>15. ASSUME overlap = 0, Increasing(t) PROVE InOrder(out)
  <2>1. ASSUME NEW i \in 1 .. N, NEW j \in 1 .. N, i < j
        PROVE  Below(Letters(out[i]), Letters(out[j]))
    <3>1. begin(i) + size <= begin(j)
      BY <1>2, <1>4, <1>8, <1>15, <2>1
    <3>2. begin(i) \in 1 .. L + 1 /\ begin(j) \in Int /\ end(i) \in 0 .. L /\ end(j) \in 0 .. L
          /\ end(i) < begin(j)
      BY <1>1, <1>9, <3>1
    <3> HIDE DEF end
    <3>3. Below(LettersIn(t, begin(i), end(i)), LettersIn(t, begin(j), end(j)))
      BY <1>15, <3>2, LettersInOrder DEF L
    <3> QED
      BY <1>10, <3>3
  <2>2. \A s \in ToSet(out) : Increasing(s)
    BY <1>10, <1>11, <1>15 DEF ToSet
  <2> QED
    BY <1>11, <2>1, <2>2 DEF InOrder, Below
<1> QED
  BY <1>11, <1>13, <1>14, <1>15 DEF out

\* A recursion from N + 1 down to 1.
Descends(f, N, T, b, step) ==
  /\ f \in [1 .. N + 1 -> T] /\ f[N + 1] = b
  /\ \A k \in 1 .. N : f[k] = step[<<k, f[k + 1]>>]

\* Such a recursion has a solution.
LEMMA LevelRecursion ==
  ASSUME NEW N \in Nat, NEW T, NEW b \in T, NEW step \in [(1 .. N) \X T -> T]
  PROVE  \E f : Descends(f, N, T, b, step)
<1> DEFINE turned == [p \in (1 .. N) \X T |-> step[<<N + 1 - p[1], p[2]>>]]
<1>1. turned \in [(1 .. N) \X T -> T]
  <2>1. \A p \in (1 .. N) \X T : <<N + 1 - p[1], p[2]>> \in (1 .. N) \X T
    OBVIOUS
  <2> QED
    BY <2>1
<1>2. \A i \in 1 .. N, v \in T : turned[<<i, v>>] = step[<<N + 1 - i, v>>]
  OBVIOUS
<1> HIDE DEF turned
<1>3. PICK g : Iterates(g, N, T, b, turned)
  BY <1>1, UpwardRecursion
<1> DEFINE f == [k \in 1 .. N + 1 |-> g[N + 1 - k]]
<1>4. \A k \in 1 .. N + 1 : N + 1 - k \in 0 .. N /\ f[k] = g[N + 1 - k]
  OBVIOUS
<1>5. f \in [1 .. N + 1 -> T]
  BY <1>3, <1>4 DEF Iterates
<1> HIDE DEF f
<1>6. f[N + 1] = b
  <2>1. N + 1 \in 1 .. N + 1 /\ N + 1 - (N + 1) = 0
    OBVIOUS
  <2>2. f[N + 1] = g[0]
    BY <1>4, <2>1
  <2> QED
    BY <1>3, <2>2 DEF Iterates
<1>7. ASSUME NEW k \in 1 .. N PROVE f[k] = step[<<k, f[k + 1]>>]
  <2> DEFINE i == N + 1 - k
  <2>1. i \in 1 .. N /\ N + 1 - i = k /\ i - 1 \in 0 .. N /\ i - 1 = N + 1 - (k + 1)
        /\ k \in 1 .. N + 1 /\ k + 1 \in 1 .. N + 1
    OBVIOUS
  <2>2. f[k] = g[i] /\ f[k + 1] = g[i - 1]
    BY <1>4, <2>1
  <2> HIDE DEF i
  <2>3. g[i] = turned[<<i, g[i - 1]>>] /\ g[i - 1] \in T
    BY <1>3, <2>1 DEF Iterates
  <2>4. turned[<<i, g[i - 1]>>] = step[<<k, g[i - 1]>>]
    BY <1>2, <2>1, <2>3
  <2> QED
    BY <2>2, <2>3, <2>4
<1> QED
  BY <1>5, <1>6, <1>7 DEF Descends

\* Four lists of at most two kinds.
LEMMA ListsOfSeparators ==
  ASSUME NEW K, NEW n \in K, NEW d \in K, NEW s \in K,
         NEW all, all = << <<n, n>>, <<n>>, <<d, s>>, <<s>> >>
  PROVE  Len(all) = 4 /\ \A k \in 1 .. 4 : all[k] \in Seq(K) /\ Len(all[k]) \in Nat \ {0}
<1>1. Len(all) = 4
  OBVIOUS
<1>2. all[1] = <<n, n>> /\ all[2] = <<n>> /\ all[3] = <<d, s>> /\ all[4] = <<s>>
  OBVIOUS
<1>3. /\ <<n, n>> \in Seq(K) /\ Len(<<n, n>>) = 2 /\ <<n>> \in Seq(K) /\ Len(<<n>>) = 1
      /\ <<d, s>> \in Seq(K) /\ Len(<<d, s>>) = 2 /\ <<s>> \in Seq(K) /\ Len(<<s>>) = 1
  OBVIOUS
<1> QED
  BY <1>1, <1>2, <1>3

\* No separator is empty or has a letter.
LEMMA SeparatorsAdd ==
  /\ Len(Separators) = 4
  /\ \A k \in 1 .. 4 :
       /\ Separators[k] \in Seq(AddedKinds) /\ Len(Separators[k]) \in Nat \ {0}
       /\ \A j \in 1 .. Len(Separators[k]) : Separators[k][j] # "x"
<1>1. "n" \in AddedKinds /\ "." \in AddedKinds /\ " " \in AddedKinds /\ "x" \notin AddedKinds
  BY Zenon DEF AddedKinds
<1>2. Len(Separators) = 4 /\ \A k \in 1 .. 4 : Separators[k] \in Seq(AddedKinds)
                                          /\ Len(Separators[k]) \in Nat \ {0}
  BY <1>1, ListsOfSeparators, Zenon DEF Separators
<1>3. \A k \in 1 .. 4 : \A j \in 1 .. Len(Separators[k]) : Separators[k][j] \in AddedKinds
  BY <1>2, ElementOfSeq
<1> QED
  BY <1>1, <1>2, <1>3

\* A text taken apart at the k-th separator, whose parts g takes apart further.
Cut(k, g, t, size, overlap) ==
  LET parts == Split(t, Separators[k])
      finer == [i \in DOMAIN parts |-> g[parts[i]]]
  IN  ApplyOverlap(Merge(parts, finer, Separators[k], size), overlap)

\* What g makes of a text has the letters of the text.
Keeping(g) == \A u \in Texts : LettersOf(g[u]) = Letters(u)

\* What a level of _split promises, from what g, the next level, does.
CutOf(chunks, k, g, t, size, bound, overlap) ==
  LET parts == Split(t, Separators[k]) IN
  /\ chunks \in Seq(Texts)
  /\ Keeping(g) => LettersOf(chunks) = Letters(t)
  /\ (\A u \in Texts : Bounded(g[u], bound)) => Bounded(chunks, bound + overlap)
  /\ /\ overlap = 0 /\ Increasing(t) /\ Keeping(g)
     /\ \A i \in DOMAIN parts : Len(parts[i]) > size =>
          /\ NoneSmall(parts, i - 1, size)
          /\ Increasing(parts[i]) => InOrder(g[parts[i]])
     => InOrder(chunks)

\* It keeps that promise.
LEMMA CutKeeps ==
  ASSUME NEW k \in 1 .. 4, NEW g \in [Texts -> Seq(Texts)], NEW t \in Texts,
         NEW size \in Nat, NEW overlap \in Nat, NEW bound \in Nat, size <= bound
  PROVE  CutOf(Cut(k, g, t, size, overlap), k, g, t, size, bound, overlap)
<1> DEFINE sep == Separators[k]
           parts == Split(t, sep)
           N == Len(parts)
           finer == [i \in DOMAIN parts |-> g[parts[i]]]
           merged == Merge(parts, finer, sep, size)
           out == ApplyOverlap(merged, overlap)
<1>1. out = Cut(k, g, t, size, overlap)
  BY DEF Cut
<1>2. sep \in Seq(AddedKinds) /\ Len(sep) \in Nat \ {0} /\ \A j \in 1 .. Len(sep) : sep[j] # "x"
  BY SeparatorsAdd
<1> HIDE DEF sep
<1>3. /\ parts \in Seq(Texts) /\ LettersOf(parts) = Letters(t)
      /\ Increasing(t) => InOrder(parts)
  BY <1>2, SplitKeeps
<1> HIDE DEF parts
<1>4. N \in Nat /\ DOMAIN parts = 1 .. N /\ \A i \in 1 .. N : parts[i] \in Texts
  BY <1>3, LenProperties, ElementOfSeq
<1>5. finer \in [1 .. N -> Seq(Texts)] /\ \A i \in 1 .. N : finer[i] = g[parts[i]]
  BY <1>4
<1> HIDE DEF finer
<1>6. Merged(merged, parts, finer, size, bound)
  BY <1>2, <1>3, <1>5, MergeKeeps
<1> HIDE DEF merged
<1>7. merged \in Seq(Texts)
  BY <1>6 DEF Merged
<1>8. /\ out \in Seq(Texts)
      /\ LettersOf(out) = LettersOf(merged)
      /\ Bounded(merged, bound) => Bounded(out, bound + overlap)
      /\ overlap = 0 /\ InOrder(merged) => InOrder(out)
  BY <1>7, OverlapKeeps
<1> HIDE DEF out
<1>9. ASSUME Keeping(g) PROVE LettersOf(out) = Letters(t)
  <2>1. \A i \in 1 .. N : LettersOf(finer[i]) = Letters(parts[i])
    BY <1>4, <1>5, <1>9 DEF Keeping
  <2>2. LettersOf(merged) = LettersOf(parts)
    BY <1>6, <2>1 DEF Merged
  <2> QED
    BY <1>3, <1>8, <2>2
<1>10. ASSUME \A u \in Texts : Bounded(g[u], bound) PROVE Bounded(out, bound + overlap)
  <2>1. \A i \in 1 .. N : Bounded(finer[i], bound)
    BY <1>4, <1>5, <1>10
  <2>2. Bounded(merged, bound)
    BY <1>6, <2>1 DEF Merged
  <2> QED
    BY <1>8, <2>2
<1>11. ASSUME overlap = 0, Increasing(t), Keeping(g),
              \A i \in DOMAIN parts : Len(parts[i]) > size =>
                /\ NoneSmall(parts, i - 1, size)
                /\ Increasing(parts[i]) => InOrder(g[parts[i]])
       PROVE  InOrder(out)
  <2>1. InOrder(parts)
    BY <1>3, <1>11
  <2>2. \A i \in 1 .. N : Increasing(parts[i])
    BY <1>4, <2>1 DEF InOrder, ToSet
  <2>3. \A i \in 1 .. N : Len(parts[i]) > size =>
          /\ LettersOf(finer[i]) = Letters(parts[i]) /\ InOrder(finer[i])
          /\ NoneSmall(parts, i - 1, size)
    BY <1>4, <1>5, <1>11, <2>2 DEF Keeping
  <2>4. InOrder(merged)
    BY <1>6, <2>1, <2>3 DEF Merged
  <2> QED
    BY <1>8, <1>11, <2>4
<1>12. CutOf(out, k, g, t, size, bound, overlap)
  BY <1>8, <1>9, <1>10, <1>11 DEF CutOf, parts, sep
<1> QED
  BY <1>1, <1>12

\* What the recursive function of SplitText is, level by level.
SplitLevels(split, size, overlap) ==
  \A k \in 1 .. 5 :
    /\ split[k] \in [Texts -> Seq(Texts)]
    /\ \A t \in Texts :
         split[k][t] = IF Len(t) <= size THEN <<t>>
                       ELSE IF k = 5 THEN HardSplit(t, size, overlap)
                       ELSE Cut(k, split[k + 1], t, size, overlap)

\* Each level of SplitText is given by the next one.
LEMMA SplitTextByLevels ==
  ASSUME NEW size \in Nat, NEW overlap \in Nat, overlap < size, NEW s
  PROVE  \E split : SplitLevels(split, size, overlap) /\ SplitText(s, size, overlap) = split[1][s]
<1> DEFINE Value(f, k, t) ==
             IF Len(t) <= size THEN <<t>>
             ELSE IF k > Len(Separators) THEN HardSplit(t, size, overlap)
             ELSE Cut(k, f[k + 1], t, size, overlap)
           split == CHOOSE f :
             f = [k \in 1 .. Len(Separators) + 1 |-> [t \in Seq(Chars) |-> Value(f, k, t)]]
           T == [Texts -> Seq(Texts)]
           base == [t \in Texts |-> IF Len(t) <= size THEN <<t>> ELSE HardSplit(t, size, overlap)]
           next(k, g) == [t \in Texts |-> IF Len(t) <= size THEN <<t>> ELSE Cut(k, g, t, size, overlap)]
           step == [p \in (1 .. 4) \X T |-> next(p[1], p[2])]
<1>1. SplitText(s, size, overlap) = split[1][s]
  BY DEF SplitText, Cut
<1>2. \A t \in Texts : <<t>> \in Seq(Texts)
  OBVIOUS
<1>3. base \in T
  <2>1. \A t \in Texts : ~(Len(t) <= size) => HardSplit(t, size, overlap) \in Seq(Texts)
    <3> SUFFICES ASSUME NEW t \in Texts, ~(Len(t) <= size)
                 PROVE  HardSplit(t, size, overlap) \in Seq(Texts)
      OBVIOUS
    <3>1. t # <<>>
      OBVIOUS
    <3> QED
      BY <3>1, HardSplitKeeps
  <2> QED
    BY <1>2, <2>1
<1>4. \A k \in 1 .. 4, g \in T : next(k, g) \in T
  <2>1. \A k \in 1 .. 4, g \in T, t \in Texts : Cut(k, g, t, size, overlap) \in Seq(Texts)
    <3>1. \A k \in 1 .. 4, g \in T, t \in Texts :
            CutOf(Cut(k, g, t, size, overlap), k, g, t, size, size, overlap)
      BY CutKeeps
    <3> QED
      BY <3>1 DEF CutOf
  <2> QED
    BY <1>2, <2>1
<1>5. step \in [(1 .. 4) \X T -> T]
  <2> HIDE DEF next, T
  <2> QED
    BY <1>4
<1>6. \A k \in 1 .. 4, g \in T : step[<<k, g>>] = next(k, g)
  <2> HIDE DEF next, T
  <2> QED
    OBVIOUS
<1> HIDE DEF step, T, base, next
<1>7. PICK f : Descends(f, 4, T, base, step)
  BY <1>3, <1>5, LevelRecursion
<1>8. f \in [1 .. 5 -> T] /\ f[5] = base /\ \A k \in 1 .. 4 : f[k] = next(k, f[k + 1])
  <2>1. \A k \in 1 .. 4 : k + 1 \in 1 .. 5
    OBVIOUS
  <2> QED
    BY <1>6, <1>7, <2>1 DEF Descends
<1>9. \A k \in 1 .. 5 : f[k] = [t \in Texts |-> Value(f, k, t)]
  <2>1. Len(Separators) = 4
    BY SeparatorsAdd
  <2>2. f[5] = [t \in Texts |-> Value(f, 5, t)]
    BY <1>8, <2>1 DEF base
  <2>3. ASSUME NEW k \in 1 .. 4 PROVE f[k] = [t \in Texts |-> Value(f, k, t)]
    <3>1. ~(k > Len(Separators))
      BY <2>1
    <3>2. \A t \in Texts : Value(f, k, t) = IF Len(t) <= size THEN <<t>>
                                          ELSE Cut(k, f[k + 1], t, size, overlap)
      BY <3>1
    <3> HIDE DEF Value
    <3>3. next(k, f[k + 1]) = [t \in Texts |-> Value(f, k, t)]
      BY <3>2 DEF next
    <3> QED
      BY <1>8, <3>3
  <2> HIDE DEF Value
  <2> QED
    BY <2>2, <2>3
<1>10. f = [k \in 1 .. Len(Separators) + 1 |-> [t \in Seq(Chars) |-> Value(f, k, t)]]
  <2> HIDE DEF Value
  <2>1. f = [k \in 1 .. 5 |-> f[k]]
    BY <1>8
  <2>2. f = [k \in 1 .. 5 |-> [t \in Texts |-> Value(f, k, t)]]
    BY <1>9, <2>1
  <2>3. Len(Separators) + 1 = 5
    BY SeparatorsAdd
  <2> QED
    BY <2>2, <2>3 DEF Texts
<1>11. split = [k \in 1 .. Len(Separators) + 1 |-> [t \in Seq(Chars) |-> Value(split, k, t)]]
  <2> HIDE DEF Value
  <2> QED
    BY <1>10
<1> HIDE DEF split
<1>12. SplitLevels(split, size, overlap)
  <2>1. Len(Separators) = 4
    BY SeparatorsAdd
  <2>2. \A k \in 1 .. 5 : split[k] = [t \in Texts |-> Value(split, k, t)]
    <3> HIDE DEF Value
    <3>1. Len(Separators) + 1 = 5
      BY <2>1
    <3> QED
      BY <1>11, <3>1 DEF Texts
  <2>3. split[5] = base
    BY <2>1, <2>2 DEF base
  <2>4. ASSUME NEW k \in 1 .. 4 PROVE split[k] = next(k, split[k + 1])
    <3>1. ~(k > Len(Separators)) /\ k \in 1 .. 5
      BY <2>1
    <3>2. \A t \in Texts : Value(split, k, t) = IF Len(t) <= size THEN <<t>>
                                              ELSE Cut(k, split[k + 1], t, size, overlap)
      BY <3>1
    <3> HIDE DEF Value
    <3>3. next(k, split[k + 1]) = [t \in Texts |-> Value(split, k, t)]
      BY <3>2 DEF next
    <3> QED
      BY <2>2, <3>1, <3>3
  <2>5. split[4] \in T /\ split[3] \in T /\ split[2] \in T /\ split[1] \in T /\ split[5] \in T
    <3>1. split[4] \in T
      BY <1>3, <1>4, <2>3, <2>4
    <3>2. split[3] \in T
      BY <1>4, <2>4, <3>1
    <3>3. split[2] \in T
      BY <1>4, <2>4, <3>2
    <3>4. split[1] \in T
      BY <1>4, <2>4, <3>3
    <3> QED
      BY <1>3, <2>3, <3>1, <3>2, <3>3, <3>4
  <2>6. \A k \in 1 .. 5 : split[k] \in T
    <3>1. \A k \in 1 .. 5 : k = 1 \/ k = 2 \/ k = 3 \/ k = 4 \/ k = 5
      OBVIOUS
    <3> QED
      BY <2>5, <3>1
  <2>7. \A k \in 1 .. 5, t \in Texts : split[k][t] = Value(split, k, t)
    <3> HIDE DEF Value
    <3> QED
      BY <2>2
  <2>8. \A k \in 1 .. 5 : k > Len(Separators) <=> k = 5
    BY <2>1
  <2> QED
    BY <2>6, <2>7, <2>8 DEF SplitLevels, T
<1> QED
  BY <1>1, <1>12

\* A text that repeats some of itself when it is taken apart at the k-th separator, as g says of
\* its parts.
StaleCut(k, g, t, size) ==
  LET parts == Split(t, Separators[k]) IN
  \E i \in DOMAIN parts :
    /\ Len(parts[i]) > size
    /\ \/ \E j \in 1 .. i - 1 : parts[j] # <<>> /\ Len(parts[j]) <= size
       \/ g[parts[i]]

\* What the recursive function of KeepsStale is, level by level.
StaleLevels(repeats, size) ==
  /\ \A k \in 1 .. 5, t \in Texts : repeats[k][t] => Len(t) > size
  /\ \A k \in 1 .. 4, t \in Texts :
       Len(t) > size /\ StaleCut(k, repeats[k + 1], t, size) => repeats[k][t]

\* Each level of KeepsStale is given by the next one.
LEMMA KeepsStaleByLevels ==
  ASSUME NEW size \in Nat, NEW s
  PROVE  \E repeats : StaleLevels(repeats, size) /\ KeepsStale(s, size) = repeats[1][s]
<1> DEFINE Value(f, k, t) ==
             Len(t) > size /\ k <= Len(Separators) /\ StaleCut(k, f[k + 1], t, size)
           repeats == CHOOSE f :
             f = [k \in 1 .. Len(Separators) + 1 |-> [t \in Seq(Chars) |-> Value(f, k, t)]]
           T == [Texts -> BOOLEAN]
           base == [t \in Texts |-> FALSE]
           next(k, g) == [t \in Texts |-> Len(t) > size /\ StaleCut(k, g, t, size)]
           step == [p \in (1 .. 4) \X T |-> next(p[1], p[2])]
<1>1. KeepsStale(s, size) = repeats[1][s]
  BY Zenon DEF KeepsStale, StaleCut
<1>3. base \in T
  OBVIOUS
<1>4. \A k \in 1 .. 4, g \in T : next(k, g) \in T
  OBVIOUS
<1>5. step \in [(1 .. 4) \X T -> T]
  <2> HIDE DEF next, T
  <2> QED
    BY <1>4
<1>6. \A k \in 1 .. 4, g \in T : step[<<k, g>>] = next(k, g)
  <2> HIDE DEF next, T
  <2> QED
    OBVIOUS
<1> HIDE DEF step, T, base, next
<1>7. PICK f : Descends(f, 4, T, base, step)
  BY <1>3, <1>5, LevelRecursion
<1>8. f \in [1 .. 5 -> T] /\ f[5] = base /\ \A k \in 1 .. 4 : f[k] = next(k, f[k + 1])
  <2>1. \A k \in 1 .. 4 : k + 1 \in 1 .. 5
    OBVIOUS
  <2> QED
    BY <1>6, <1>7, <2>1 DEF Descends
<1>9. \A k \in 1 .. 5 : f[k] = [t \in Texts |-> Value(f, k, t)]
  <2>1. Len(Separators) = 4
    BY SeparatorsAdd
  <2>2. f[5] = [t \in Texts |-> Value(f, 5, t)]
    <3>1. \A t \in Texts : Value(f, 5, t) = FALSE
      BY <2>1
    <3> HIDE DEF Value
    <3> QED
      BY <1>8, <3>1 DEF base
  <2>3. ASSUME NEW k \in 1 .. 4 PROVE f[k] = [t \in Texts |-> Value(f, k, t)]
    <3>1. k <= Len(Separators)
      BY <2>1
    <3>2. \A t \in Texts : Value(f, k, t) = (Len(t) > size /\ StaleCut(k, f[k + 1], t, size))
      BY <3>1
    <3> HIDE DEF Value
    <3>3. next(k, f[k + 1]) = [t \in Texts |-> Value(f, k, t)]
      BY <3>2 DEF next
    <3> QED
      BY <1>8, <3>3
  <2> HIDE DEF Value
  <2> QED
    BY <2>2, <2>3
<1>10. f = [k \in 1 .. Len(Separators) + 1 |-> [t \in Seq(Chars) |-> Value(f, k, t)]]
  <2> HIDE DEF Value
  <2>1. f = [k \in 1 .. 5 |-> f[k]]
    BY <1>8
  <2>2. f = [k \in 1 .. 5 |-> [t \in Texts |-> Value(f, k, t)]]
    BY <1>9, <2>1
  <2>3. Len(Separators) + 1 = 5
    BY SeparatorsAdd
  <2> QED
    BY <2>2, <2>3 DEF Texts
<1>11. repeats = [k \in 1 .. Len(Separators) + 1 |-> [t \in Seq(Chars) |-> Value(repeats, k, t)]]
  <2> HIDE DEF Value
  <2> QED
    BY <1>10
<1> HIDE DEF repeats
<1>12. StaleLevels(repeats, size)
  <2>1. Len(Separators) = 4
    BY SeparatorsAdd
  <2>2. \A k \in 1 .. 5, t \in Texts : repeats[k][t] = Value(repeats, k, t)
    <3> HIDE DEF Value
    <3>1. Len(Separators) + 1 = 5
      BY <2>1
    <3> QED
      BY <1>11, <3>1 DEF Texts
  <2>3. \A k \in 1 .. 4 : k <= Len(Separators) /\ k \in 1 .. 5
    BY <2>1
  <2>4. \A k \in 1 .. 4, t \in Texts : repeats[k][t] = Value(repeats, k, t)
    BY <2>2, <2>3
  <2>5. \A k \in 1 .. 5, t \in Texts : repeats[k][t] => Len(t) > size
    BY <2>2
  <2>6. \A k \in 1 .. 4, t \in Texts :
          Len(t) > size /\ StaleCut(k, repeats[k + 1], t, size) => repeats[k][t]
    BY <2>3, <2>4
  <2> QED
    BY <2>5, <2>6 DEF StaleLevels
<1> QED
  BY <1>1, <1>12

\* What SplitText keeps of a text.
LEMMA SplitTextKeeps ==
  ASSUME NEW s \in Texts, NEW size \in Nat, NEW overlap \in Nat, overlap < size
  PROVE  /\ SplitText(s, size, overlap) \in Seq(Texts)
         /\ LettersOf(SplitText(s, size, overlap)) = Letters(s)
         /\ Bounded(SplitText(s, size, overlap), size + 4 * overlap)
         /\ overlap = 0 /\ Increasing(s) /\ ~KeepsStale(s, size)
            => InOrder(SplitText(s, size, overlap))
<1>1. PICK split : SplitLevels(split, size, overlap) /\ SplitText(s, size, overlap) = split[1][s]
  BY SplitTextByLevels
<1>2. PICK repeats : StaleLevels(repeats, size) /\ KeepsStale(s, size) = repeats[1][s]
  BY KeepsStaleByLevels
<1> DEFINE Good(k) == \A t \in Texts :
             /\ LettersOf(split[k][t]) = Letters(t)
             /\ Bounded(split[k][t], size + (5 - k) * overlap)
             /\ overlap = 0 /\ Increasing(t) /\ ~repeats[k][t] => InOrder(split[k][t])
<1>3. \A t \in Texts : /\ LettersOf(<<t>>) = Letters(t) /\ (Increasing(t) => InOrder(<<t>>))
                       /\ \A bound \in Nat : Len(t) <= bound => Bounded(<<t>>, bound)
  BY SingleChunk DEF Bounded
<1>4. ASSUME NEW t \in Texts, Len(t) <= size, NEW k \in 1 .. 5
      PROVE  /\ LettersOf(split[k][t]) = Letters(t)
             /\ Bounded(split[k][t], size + (5 - k) * overlap)
             /\ Increasing(t) => InOrder(split[k][t])
  <2>1. split[k][t] = <<t>>
    BY <1>1, <1>4 DEF SplitLevels
  <2>2. Len(t) \in Nat
    BY LenProperties DEF Texts
  <2>3. 5 - k \in Nat
    OBVIOUS
  <2>4. size + (5 - k) * overlap \in Nat /\ size <= size + (5 - k) * overlap
    BY <2>3
  <2>5. Len(t) <= size + (5 - k) * overlap
    BY <1>4, <2>2, <2>4
  <2> QED
    BY <1>3, <2>1, <2>4, <2>5
<1>5. Good(5)
  <2> SUFFICES ASSUME NEW t \in Texts, ~(Len(t) <= size)
               PROVE  /\ LettersOf(split[5][t]) = Letters(t)
                      /\ Bounded(split[5][t], size + (5 - 5) * overlap)
                      /\ overlap = 0 /\ Increasing(t) => InOrder(split[5][t])
    BY <1>4
  <2>1. split[5][t] = HardSplit(t, size, overlap)
    <3>1. 5 \in 1 .. 5
      OBVIOUS
    <3> QED
      BY <1>1, <3>1 DEF SplitLevels
  <2>2. t # <<>>
    OBVIOUS
  <2>3. size + (5 - 5) * overlap = size
    OBVIOUS
  <2> QED
    BY <2>1, <2>2, <2>3, HardSplitKeeps
<1>6. ASSUME NEW k \in 1 .. 4, Good(k + 1) PROVE Good(k)
  <2> SUFFICES ASSUME NEW t \in Texts, ~(Len(t) <= size)
               PROVE  /\ LettersOf(split[k][t]) = Letters(t)
                      /\ Bounded(split[k][t], size + (5 - k) * overlap)
                      /\ overlap = 0 /\ Increasing(t) /\ ~repeats[k][t] => InOrder(split[k][t])
    <3>1. k \in 1 .. 5
      OBVIOUS
    <3> QED
      BY <1>4, <3>1
  <2> DEFINE g == split[k + 1]
             bound == size + (4 - k) * overlap
             parts == Split(t, Separators[k])
             out == Cut(k, g, t, size, overlap)
  <2>1. k \in 1 .. 5 /\ k + 1 \in 1 .. 5 /\ k # 5
    OBVIOUS
  <2>2. split[k][t] = out /\ g \in [Texts -> Seq(Texts)]
    BY <1>1, <2>1 DEF SplitLevels
  <2>3. bound \in Nat /\ size <= bound /\ bound + overlap = size + (5 - k) * overlap
        /\ bound = size + (5 - (k + 1)) * overlap
    <3>1. 4 - k \in Nat /\ 5 - k = (4 - k) + 1 /\ 5 - (k + 1) = 4 - k
      OBVIOUS
    <3>2. (4 - k) * overlap \in Nat
      BY <3>1
    <3>3. ((4 - k) + 1) * overlap = (4 - k) * overlap + overlap
      BY <3>1
    <3>4. (5 - k) * overlap = (4 - k) * overlap + overlap
      BY <3>1, <3>3
    <3> QED
      BY <3>1, <3>2, <3>4
  <2>4. \A u \in Texts : /\ LettersOf(g[u]) = Letters(u) /\ Bounded(g[u], bound)
                         /\ overlap = 0 /\ Increasing(u) /\ ~repeats[k + 1][u] => InOrder(g[u])
    <3> HIDE DEF bound
    <3> QED
      BY <1>6, <2>3
  <2>5. CutOf(out, k, g, t, size, bound, overlap)
    <3> HIDE DEF g, bound
    <3> QED
      BY <2>2, <2>3, CutKeeps
  <2> HIDE DEF g, bound, out
  <2>6. Keeping(g) /\ LettersOf(out) = Letters(t)
    BY <2>4, <2>5 DEF CutOf, Keeping
  <2>7. Bounded(out, size + (5 - k) * overlap)
    BY <2>3, <2>4, <2>5 DEF CutOf
  <2>8. ASSUME overlap = 0, Increasing(t), ~repeats[k][t] PROVE InOrder(out)
    <3>1. /\ parts \in Seq(Texts) /\ DOMAIN parts = 1 .. Len(parts) /\ Len(parts) \in Nat
      <4>1. parts \in Seq(Texts)
        BY SeparatorsAdd, SplitKeeps
      <4> QED
        BY <4>1, LenProperties
    <3>2. ~StaleCut(k, repeats[k + 1], t, size)
      <4>1. Len(t) > size
        <5>1. Len(t) \in Nat
          BY LenProperties DEF Texts
        <5> QED
          BY <5>1
      <4> QED
        BY <1>2, <2>8, <4>1 DEF StaleLevels
    <3> HIDE DEF parts
    <3>3. ASSUME NEW i \in DOMAIN parts, Len(parts[i]) > size
          PROVE  NoneSmall(parts, i - 1, size) /\ (Increasing(parts[i]) => InOrder(g[parts[i]]))
      <4>1. /\ \A j \in 1 .. i - 1 : ~(parts[j] # <<>> /\ Len(parts[j]) <= size)
            /\ ~repeats[k + 1][parts[i]]
        BY <3>2, <3>3 DEF StaleCut, parts
      <4>2. parts[i] \in Texts
        BY <3>1, ElementOfSeq
      <4>3. ASSUME NEW j \in 1 .. i - 1 PROVE parts[j] = <<>> \/ Len(parts[j]) > size
        <5>1. parts[j] \in Texts
          BY <3>1, ElementOfSeq
        <5>2. Len(parts[j]) \in Nat
          BY <5>1, LenProperties DEF Texts
        <5> QED
          BY <4>1, <5>2
      <4> QED
        BY <2>4, <2>8, <4>1, <4>2, <4>3 DEF NoneSmall
    <3> QED
      BY <2>5, <2>6, <2>8, <3>3 DEF CutOf, parts
  <2> QED
    BY <2>2, <2>6, <2>7, <2>8
<1> HIDE DEF Good
<1>7. Good(1)
  <2>1. Good(4)
    BY <1>5, <1>6
  <2>2. Good(3)
    BY <1>6, <2>1
  <2>3. Good(2)
    BY <1>6, <2>2
  <2> QED
    BY <1>6, <2>3
<1>8. split[1] \in [Texts -> Seq(Texts)]
  BY <1>1 DEF SplitLevels
<1>9. size + (5 - 1) * overlap = size + 4 * overlap
  OBVIOUS
<1> QED
  BY <1>1, <1>2, <1>7, <1>8, <1>9 DEF Good

-------------------------------------------------------------------------------
(* Lists of lists. *)

\* FlattenSeq, one list after the other.
Flattens(f, css, S) ==
  /\ f \in [0 .. Len(css) -> Seq(S)] /\ f[0] = <<>> /\ f[Len(css)] = FlattenSeq(css)
  /\ \A i \in 1 .. Len(css) : f[i] = f[i - 1] \o css[i]

\* FlattenSeq is given by a recursion over the lists.
LEMMA FlattenByLists ==
  ASSUME NEW S, NEW css \in Seq(Seq(S))
  PROVE  \E f : Flattens(f, css, S)
<1> DEFINE N == Len(css)
           Value(f, i) == IF i = 1 THEN css[i] ELSE f[i - 1] \o css[i]
           flatten == CHOOSE f : f = [i \in 1 .. N |-> Value(f, i)]
           step == [p \in (1 .. N) \X Seq(S) |-> p[2] \o css[p[1]]]
<1>1. N \in Nat /\ \A i \in 1 .. N : css[i] \in Seq(S)
  BY LenProperties, ElementOfSeq
<1>2. N # 0 => FlattenSeq(css) = flatten[N]
  BY DEF FlattenSeq
<1>3. N = 0 => FlattenSeq(css) = <<>>
  BY EmptySeq DEF FlattenSeq
<1> HIDE DEF N
<1>4. step \in [(1 .. N) \X Seq(S) -> Seq(S)]
  <2>1. \A p \in (1 .. N) \X Seq(S) : p[2] \o css[p[1]] \in Seq(S)
    <3> SUFFICES ASSUME NEW i \in 1 .. N, NEW t \in Seq(S) PROVE t \o css[i] \in Seq(S)
      OBVIOUS
    <3> QED
      BY <1>1, ConcatProperties
  <2> QED
    BY <2>1
<1>5. <<>> \in Seq(S)
  OBVIOUS
<1>6. \A i \in 1 .. N, t \in Seq(S) : step[<<i, t>>] = t \o css[i]
  OBVIOUS
<1> HIDE DEF step
<1>7. PICK f : Iterates(f, N, Seq(S), <<>>, step)
  BY <1>1, <1>4, <1>5, UpwardRecursion
<1>8. /\ f \in [0 .. N -> Seq(S)] /\ f[0] = <<>>
      /\ \A i \in 1 .. N : f[i] = f[i - 1] \o css[i]
  <2>1. \A i \in 1 .. N : i - 1 \in 0 .. N
    BY <1>1
  <2> QED
    BY <1>6, <1>7, <2>1 DEF Iterates
<1>9. \E g : g = [i \in 1 .. N |-> Value(g, i)]
  <2> DEFINE g == [i \in 1 .. N |-> f[i]]
  <2>1. ASSUME NEW i \in 1 .. N PROVE f[i] = Value(g, i)
    <3>1. CASE i = 1
      <4>1. f[1] = <<>> \o css[1]
        <5>1. 1 \in 1 .. N /\ 1 - 1 = 0
          BY <3>1
        <5> QED
          BY <1>8, <5>1
      <4>2. <<>> \o css[1] = css[1]
        BY <1>1, <3>1, ConcatEmptySeq
      <4> QED
        BY <3>1, <4>1, <4>2
    <3>2. CASE i # 1
      <4>1. i - 1 \in 1 .. N
        BY <1>1, <3>2
      <4>2. g[i - 1] = f[i - 1]
        BY <4>1
      <4> QED
        BY <1>8, <3>2, <4>2
    <3> QED
      BY <3>1, <3>2
  <2> HIDE DEF Value
  <2>2. g = [i \in 1 .. N |-> Value(g, i)]
    BY <2>1
  <2> QED
    BY <2>2
<1>10. flatten = [i \in 1 .. N |-> Value(flatten, i)]
  <2> HIDE DEF Value
  <2> QED
    BY <1>9
<1> HIDE DEF flatten
<1>11. \A i \in 1 .. N : flatten[i] = f[i]
  <2> DEFINE Q == {n \in Nat : n \in 1 .. N => flatten[n] = f[n]}
  <2>1. 0 \in Q
    OBVIOUS
  <2>2. ASSUME NEW n \in Nat, n \in Q PROVE n + 1 \in Q
    <3> SUFFICES ASSUME n + 1 \in 1 .. N PROVE flatten[n + 1] = f[n + 1]
      OBVIOUS
    <3>1. flatten[n + 1] = Value(flatten, n + 1)
      <4> HIDE DEF Value
      <4> QED
        BY <1>10
    <3>2. f[n + 1] = f[n] \o css[n + 1]
      <4>1. n + 1 \in 1 .. N /\ (n + 1) - 1 = n
        OBVIOUS
      <4> QED
        BY <1>8, <4>1
    <3>3. CASE n = 0
      <4>1. f[1] = <<>> \o css[1]
        <5>1. 1 \in 1 .. N /\ 1 - 1 = 0
          BY <3>3
        <5> QED
          BY <1>8, <5>1
      <4>2. <<>> \o css[1] = css[1]
        BY <1>1, <3>3, ConcatEmptySeq
      <4> QED
        BY <3>1, <3>3, <4>1, <4>2
    <3>4. CASE n # 0
      <4>1. n \in 1 .. N /\ n + 1 # 1 /\ (n + 1) - 1 = n
        BY <1>1, <3>4
      <4>2. flatten[n] = f[n]
        BY <2>2, <4>1
      <4>3. flatten[n + 1] = flatten[n] \o css[n + 1]
        BY <3>1, <4>1
      <4> QED
        BY <3>2, <4>2, <4>3
    <3> QED
      BY <3>3, <3>4
  <2> HIDE DEF Q
  <2>3. Nat \subseteq Q
    BY <2>1, <2>2, Induction
  <2>4. \A i \in 1 .. N : i \in Q
    BY <1>1, <2>3
  <2> QED
    BY <2>4 DEF Q
<1>12. f[N] = FlattenSeq(css)
  <2>1. CASE N = 0
    BY <1>3, <1>8, <2>1
  <2>2. CASE N # 0
    <3>1. N \in 1 .. N
      BY <1>1, <2>2
    <3> QED
      BY <1>2, <1>11, <2>2, <3>1
  <2> QED
    BY <2>1, <2>2
<1>13. Flattens(f, css, S)
  BY <1>8, <1>12 DEF Flattens, N
<1> QED
  BY <1>13

\* out has exactly the members of the lists.
FlatOf(out, css, S) ==
  out \in Seq(S) /\ \A c : c \in ToSet(out) <=> \E i \in 1 .. Len(css) : c \in ToSet(css[i])

\* So has FlattenSeq.
LEMMA FlattenMembers ==
  ASSUME NEW S, NEW css \in Seq(Seq(S))
  PROVE  FlatOf(FlattenSeq(css), css, S)
<1> DEFINE N == Len(css)
<1>1. N \in Nat /\ \A i \in 1 .. N : css[i] \in Seq(S)
  BY LenProperties, ElementOfSeq
<1>2. PICK f : Flattens(f, css, S)
  BY FlattenByLists
<1>3. /\ f \in [0 .. N -> Seq(S)] /\ f[0] = <<>> /\ f[N] = FlattenSeq(css)
      /\ \A i \in 1 .. N : f[i] = f[i - 1] \o css[i]
  BY <1>2 DEF Flattens
<1> HIDE DEF N
<1> DEFINE UpTo(n, c) == \E i \in 1 .. n : c \in ToSet(css[i])
           Q == {n \in Nat : n <= N => \A c : c \in ToSet(f[n]) <=> UpTo(n, c)}
<1>4. 0 \in Q
  <2>1. ToSet(<<>>) = {}
    BY DEF ToSet
  <2>2. \A c : ~UpTo(0, c)
    OBVIOUS
  <2> QED
    BY <1>3, <2>1, <2>2
<1>5. ASSUME NEW n \in Nat, n \in Q PROVE n + 1 \in Q
  <2> SUFFICES ASSUME n + 1 <= N PROVE \A c : c \in ToSet(f[n + 1]) <=> UpTo(n + 1, c)
    OBVIOUS
  <2>1. n + 1 \in 1 .. N /\ n \in 0 .. N /\ (n + 1) - 1 = n
    BY <1>1
  <2>2. \A c : c \in ToSet(f[n]) <=> UpTo(n, c)
    BY <1>5, <2>1
  <2>3. f[n + 1] = f[n] \o css[n + 1] /\ f[n] \in Seq(S) /\ css[n + 1] \in Seq(S)
    BY <1>1, <1>3, <2>1
  <2>4. ToSet(f[n + 1]) = ToSet(f[n]) \cup ToSet(css[n + 1])
    BY <2>3, ConcatSet
  <2>5. \A c : UpTo(n + 1, c) <=> UpTo(n, c) \/ c \in ToSet(css[n + 1])
    <3>1. 1 .. n + 1 = 1 .. n \cup {n + 1}
      BY <2>1
    <3> HIDE DEF N
    <3> QED
      BY <3>1
  <2> QED
    BY <2>2, <2>4, <2>5
<1> HIDE DEF Q
<1>6. N \in Q
  BY <1>1, <1>4, <1>5, Induction
<1>7. \A c : c \in ToSet(f[N]) <=> UpTo(N, c)
  BY <1>1, <1>6 DEF Q
<1>8. f[N] \in Seq(S)
  <2>1. N \in 0 .. N
    BY <1>1
  <2> QED
    BY <1>3, <2>1
<1>9. FlatOf(f[N], css, S)
  BY <1>7, <1>8 DEF N, FlatOf
<1> QED
  BY <1>3, <1>9

\* Lists of chunks, one after the other.
LEMMA FlattenChunks ==
  ASSUME NEW css \in Seq(Seq(Texts))
  PROVE  /\ FlattenSeq(css) \in Seq(Texts)
         /\ \A c : c \in LettersOf(FlattenSeq(css)) <=> \E i \in 1 .. Len(css) : c \in LettersOf(css[i])
         /\ \A bound \in Nat : (\A i \in 1 .. Len(css) : Bounded(css[i], bound))
              => Bounded(FlattenSeq(css), bound)
         /\ /\ \A i \in 1 .. Len(css) : InOrder(css[i])
            /\ \A i, j \in 1 .. Len(css) : i < j => Below(LettersOf(css[i]), LettersOf(css[j]))
            => InOrder(FlattenSeq(css))
<1> DEFINE N == Len(css)
           out == FlattenSeq(css)
<1>1. N \in Nat /\ \A i \in 1 .. N : css[i] \in Seq(Texts)
  BY LenProperties, ElementOfSeq
<1>2. out \in Seq(Texts) /\ \A c : c \in ToSet(out) <=> \E i \in 1 .. N : c \in ToSet(css[i])
  BY FlattenMembers, Zenon DEF FlatOf
<1>3. PICK f : Flattens(f, css, Texts)
  BY FlattenByLists
<1>4. /\ f \in [0 .. N -> Seq(Texts)] /\ f[0] = <<>> /\ f[N] = out
      /\ \A i \in 1 .. N : f[i] = f[i - 1] \o css[i]
  BY <1>3 DEF Flattens
<1> HIDE DEF N, out
<1>5. \A c : c \in LettersOf(out) <=> \E i \in 1 .. N : c \in LettersOf(css[i])
  BY <1>2 DEF LettersOf
<1>6. \A bound \in Nat : (\A i \in 1 .. N : Bounded(css[i], bound)) => Bounded(out, bound)
  BY <1>2 DEF Bounded
<1>7. ASSUME \A i \in 1 .. N : InOrder(css[i]),
             \A i, j \in 1 .. N : i < j => Below(LettersOf(css[i]), LettersOf(css[j]))
      PROVE  InOrder(out)
  <2> DEFINE Q == {n \in Nat : n <= N =>
                     /\ InOrder(f[n])
                     /\ \A c \in LettersOf(f[n]) : \E i \in 1 .. n : c \in LettersOf(css[i])}
  <2>1. 0 \in Q
    BY <1>4, NoChunk
  <2>2. ASSUME NEW n \in Nat, n \in Q PROVE n + 1 \in Q
    <3> SUFFICES ASSUME n + 1 <= N
                 PROVE  /\ InOrder(f[n + 1])
                        /\ \A c \in LettersOf(f[n + 1]) :
                             \E i \in 1 .. n + 1 : c \in LettersOf(css[i])
      OBVIOUS
    <3>1. n + 1 \in 1 .. N /\ n \in 0 .. N /\ (n + 1) - 1 = n /\ n <= N
      BY <1>1
    <3>2. /\ InOrder(f[n])
          /\ \A c \in LettersOf(f[n]) : \E i \in 1 .. n : c \in LettersOf(css[i])
      BY <2>2, <3>1
    <3>3. f[n + 1] = f[n] \o css[n + 1] /\ f[n] \in Seq(Texts) /\ css[n + 1] \in Seq(Texts)
      BY <1>1, <1>4, <3>1
    <3>4. /\ LettersOf(f[n + 1]) = LettersOf(f[n]) \cup LettersOf(css[n + 1])
          /\ InOrder(f[n]) /\ InOrder(css[n + 1]) /\ Below(LettersOf(f[n]), LettersOf(css[n + 1]))
             => InOrder(f[n + 1])
      BY <3>3, ConcatChunks
    <3>5. \A i \in 1 .. n : i \in 1 .. N /\ i < n + 1 /\ i \in 1 .. n + 1
      <4> HIDE DEF Q
      <4> QED
        BY <1>1, <3>1
    <3>6. Below(LettersOf(f[n]), LettersOf(css[n + 1]))
      <4>1. \A i \in 1 .. n : Below(LettersOf(css[i]), LettersOf(css[n + 1]))
        BY <1>7, <3>1, <3>5
      <4> QED
        BY <3>2, <4>1 DEF Below
    <3>7. n + 1 \in 1 .. n + 1
      OBVIOUS
    <3> QED
      BY <1>7, <3>1, <3>2, <3>4, <3>5, <3>6, <3>7
  <2> HIDE DEF Q
  <2>3. N \in Q
    BY <1>1, <2>1, <2>2, Induction
  <2> QED
    BY <1>1, <1>4, <2>3 DEF Q
<1> QED
  BY <1>2, <1>5, <1>6, <1>7 DEF N, out

-------------------------------------------------------------------------------
(* The chunkers. *)

\* A letter is no white space.
LEMMA LetterIsNotWhite == "x" \notin White
BY Zenon DEF White

\* str.strip keeps the letters and their order.
LEMMA StripKeeps ==
  ASSUME NEW s \in Texts
  PROVE  /\ Strip(s) \in Texts /\ Letters(Strip(s)) = Letters(s)
         /\ Len(Strip(s)) <= Len(s)
         /\ Increasing(s) => Increasing(Strip(s))
<1> DEFINE I == NonWhite(s)
           a == Min(I)
           b == Max(I)
<1>1. Len(s) \in Nat /\ DOMAIN s = 1 .. Len(s)
  BY LenProperties DEF Texts
<1>2. I \in SUBSET (1 .. Len(s))
  BY DEF NonWhite
<1>3. \A i \in 1 .. Len(s) : s[i].ch = "x" => i \in I
  BY LetterIsNotWhite, Zenon DEF NonWhite
<1> HIDE DEF I
<1>4. CASE I = {}
  <2>1. Strip(s) = <<>>
    BY <1>4 DEF Strip, I
  <2>2. Letters(s) = {}
    BY <1>1, <1>3, <1>4 DEF Letters, ToSet
  <2> QED
    BY <1>1, <2>1, <2>2, NoChunk
<1>5. CASE I # {}
  <2>1. a \in I /\ b \in I /\ \A i \in I : a <= i /\ i <= b
    BY <1>1, <1>2, <1>5, LeastAndGreatest
  <2>2. Strip(s) = SubSeq(s, a, b)
    BY <1>5 DEF Strip, I
  <2> HIDE DEF a, b
  <2>3. a \in 1 .. Len(s) + 1 /\ b \in 0 .. Len(s) /\ a <= b
    BY <1>1, <1>2, <2>1
  <2>4. /\ SubSeq(s, a, b) \in Texts
        /\ Letters(SubSeq(s, a, b)) = {c \in {s[i] : i \in a .. b} : c.ch = "x"}
        /\ Increasing(s) => Increasing(SubSeq(s, a, b))
    BY <2>3, SliceText
  <2>5. Len(SubSeq(s, a, b)) = b - a + 1
    BY <2>3, SliceSet DEF Texts
  <2>6. Letters(SubSeq(s, a, b)) = Letters(s)
    <3>1. \A i \in 1 .. Len(s) : s[i].ch = "x" => i \in a .. b
      BY <1>1, <1>2, <1>3, <2>1, <2>3
    <3>2. \A i \in a .. b : i \in 1 .. Len(s)
      BY <1>1, <2>3
    <3> QED
      BY <1>1, <2>4, <3>1, <3>2 DEF Letters, ToSet
  <2> QED
    BY <1>1, <2>2, <2>3, <2>4, <2>5, <2>6
<1> QED
  BY <1>4, <1>5

\* A text of white space has no letters.
LEMMA BlankHasNoLetter ==
  ASSUME NEW s \in Texts, NonWhite(s) = {}
  PROVE  Letters(s) = {}
<1>1. DOMAIN s = 1 .. Len(s)
  BY LenProperties DEF Texts
<1>2. \A i \in 1 .. Len(s) : s[i].ch # "x"
  BY LetterIsNotWhite, Zenon DEF NonWhite
<1> QED
  BY <1>1, <1>2 DEF Letters, ToSet

\* Dropping the blank chunks drops no letter.
LEMMA NotBlankKeeps ==
  ASSUME NEW cs \in Seq(Texts)
  PROVE  /\ NotBlank(cs) \in Seq(Texts) /\ LettersOf(NotBlank(cs)) = LettersOf(cs)
         /\ \A bound \in Nat : Bounded(cs, bound) => Bounded(NotBlank(cs), bound)
         /\ InOrder(cs) => InOrder(NotBlank(cs))
<1> DEFINE N == Len(cs)
           css == [i \in DOMAIN cs |-> IF NonWhite(cs[i]) = {} THEN <<>> ELSE <<cs[i]>>]
           out == NotBlank(cs)
<1>1. N \in Nat /\ DOMAIN cs = 1 .. N /\ \A i \in 1 .. N : cs[i] \in Texts
  BY LenProperties, ElementOfSeq
<1>2. out = FlattenSeq(css)
  BY DEF NotBlank
<1> HIDE DEF out, N
<1>3. ASSUME NEW i \in 1 .. N
      PROVE  /\ css[i] \in Seq(Texts) /\ LettersOf(css[i]) = Letters(cs[i])
             /\ ToSet(css[i]) \subseteq {cs[i]}
             /\ Increasing(cs[i]) => InOrder(css[i])
  <2>1. CASE NonWhite(cs[i]) = {}
    <3>1. css[i] = <<>>
      BY <1>1, <2>1
    <3>2. Letters(cs[i]) = {}
      BY <1>1, <2>1, BlankHasNoLetter
    <3>3. ToSet(<<>>) = {}
      BY DEF ToSet
    <3> HIDE DEF css
    <3> QED
      BY <3>1, <3>2, <3>3, NoChunk
  <2>2. CASE NonWhite(cs[i]) # {}
    <3> DEFINE one == <<cs[i]>>
    <3>1. css[i] = one
      BY <1>1, <2>2
    <3>2. /\ one \in Seq(Texts) /\ ToSet(one) = {cs[i]} /\ LettersOf(one) = Letters(cs[i])
          /\ Increasing(cs[i]) => InOrder(one)
      BY <1>1, SingleChunk
    <3> HIDE DEF css, one
    <3> QED
      BY <3>1, <3>2
  <2> QED
    BY <2>1, <2>2
<1>4. DOMAIN css = 1 .. N /\ css = [i \in 1 .. N |-> css[i]]
  BY <1>1
<1> HIDE DEF css
<1>5. css \in Seq(Seq(Texts)) /\ Len(css) = N
  <2>1. css \in [1 .. N -> Seq(Texts)]
    BY <1>3, <1>4
  <2>2. css \in Seq(Seq(Texts))
    BY <1>1, <2>1, SeqDef
  <2> QED
    BY <1>1, <1>4, <2>2, LenProperties
<1>6. /\ out \in Seq(Texts)
      /\ \A c : c \in LettersOf(out) <=> \E i \in 1 .. N : c \in LettersOf(css[i])
      /\ \A bound \in Nat : (\A i \in 1 .. N : Bounded(css[i], bound)) => Bounded(out, bound)
      /\ /\ \A i \in 1 .. N : InOrder(css[i])
         /\ \A i, j \in 1 .. N : i < j => Below(LettersOf(css[i]), LettersOf(css[j]))
         => InOrder(out)
  BY <1>2, <1>5, FlattenChunks
<1>7. LettersOf(out) = LettersOf(cs)
  <2>1. \A c : c \in LettersOf(cs) <=> \E i \in 1 .. N : c \in Letters(cs[i])
    BY <1>1 DEF LettersOf, ToSet
  <2>2. \A c : c \in LettersOf(out) <=> c \in LettersOf(cs)
    BY <1>3, <1>6, <2>1
  <2> QED
    BY <2>2
<1>8. ASSUME NEW bound \in Nat, Bounded(cs, bound) PROVE Bounded(out, bound)
  <2>1. \A i \in 1 .. N : Len(cs[i]) <= bound
    BY <1>1, <1>8 DEF Bounded, ToSet
  <2>2. \A i \in 1 .. N : Bounded(css[i], bound)
    BY <1>3, <2>1 DEF Bounded
  <2> QED
    BY <1>6, <2>2
<1>9. ASSUME InOrder(cs) PROVE InOrder(out)
  <2>1. \A i \in 1 .. N : Increasing(cs[i])
    BY <1>1, <1>9 DEF InOrder, ToSet
  <2>2. \A i, j \in 1 .. N : i < j => Below(Letters(cs[i]), Letters(cs[j]))
    BY <1>1, <1>9 DEF InOrder, Below
  <2> QED
    BY <1>3, <1>6, <2>1, <2>2
<1> QED
  BY <1>6, <1>7, <1>8, <1>9 DEF out

\* RecursiveTextChunker.chunk.
LEMMA ChunkKeeps ==
  ASSUME NEW text \in Texts, NEW size \in Nat, NEW overlap \in Nat, overlap < size
  PROVE  /\ chunk(text, size, overlap) \in Seq(Texts)
         /\ LettersOf(chunk(text, size, overlap)) = Letters(text)
         /\ Bounded(chunk(text, size, overlap), size + 4 * overlap)
         /\ overlap = 0 /\ Increasing(text) /\ ~KeepsStale(Strip(text), size)
            => InOrder(chunk(text, size, overlap))
<1> DEFINE s == Strip(text)
           cs == SplitText(s, size, overlap)
           out == chunk(text, size, overlap)
<1>1. s \in Texts /\ Letters(s) = Letters(text) /\ (Increasing(text) => Increasing(s))
  BY StripKeeps
<1> HIDE DEF s
<1>2. CASE s = <<>>
  <2>1. out = <<>>
    BY <1>2 DEF chunk, s
  <2>2. Bounded(<<>>, size + 4 * overlap)
    BY DEF Bounded, ToSet
  <2> QED
    BY <1>1, <1>2, <2>1, <2>2, NoChunk
<1>3. CASE s # <<>>
  <2>1. out = NotBlank(cs)
    BY <1>3 DEF chunk, s
  <2>2. /\ cs \in Seq(Texts) /\ LettersOf(cs) = Letters(s) /\ Bounded(cs, size + 4 * overlap)
        /\ overlap = 0 /\ Increasing(s) /\ ~KeepsStale(s, size) => InOrder(cs)
    BY <1>1, SplitTextKeeps
  <2> HIDE DEF out, cs
  <2>3. size + 4 * overlap \in Nat
    OBVIOUS
  <2>4. /\ out \in Seq(Texts) /\ LettersOf(out) = LettersOf(cs)
        /\ Bounded(out, size + 4 * overlap)
        /\ InOrder(cs) => InOrder(out)
    BY <2>1, <2>2, <2>3, NotBlankKeeps
  <2> QED
    BY <1>1, <2>2, <2>4 DEF out, s
<1> QED
  BY <1>2, <1>3

\* sep.join adds no letter and drops none.
LEMMA JoinKeeps ==
  ASSUME NEW parts \in Seq(Texts), NEW sep \in Seq(AddedKinds)
  PROVE  Join(parts, sep) \in Texts /\ Letters(Join(parts, sep)) = LettersOf(parts)
<1> DEFINE N == Len(parts)
           added == Added(sep)
           css == [i \in DOMAIN parts |-> IF i = 1 THEN parts[i] ELSE added \o parts[i]]
           out == Join(parts, sep)
<1>1. N \in Nat /\ DOMAIN parts = 1 .. N /\ \A i \in 1 .. N : parts[i] \in Texts
  BY LenProperties, ElementOfSeq
<1>2. out = FlattenSeq(css)
  BY DEF Join
<1>3. added \in Texts /\ Letters(added) = {}
  BY AddedIsNoLetter
<1> HIDE DEF out, N, added
<1>4. ASSUME NEW i \in 1 .. N PROVE css[i] \in Texts /\ Letters(css[i]) = Letters(parts[i])
  <2>1. CASE i = 1
    BY <1>1, <2>1
  <2>2. CASE i # 1
    <3>1. css[i] = added \o parts[i]
      BY <1>1, <2>2
    <3> HIDE DEF css
    <3>2. /\ added \o parts[i] \in Texts
          /\ Letters(added \o parts[i]) = Letters(added) \cup Letters(parts[i])
      BY <1>1, <1>3, ConcatText
    <3> QED
      BY <1>3, <3>1, <3>2
  <2> QED
    BY <2>1, <2>2
<1>5. DOMAIN css = 1 .. N /\ css = [i \in 1 .. N |-> css[i]]
  BY <1>1
<1> HIDE DEF css
<1>6. css \in Seq(Texts) /\ Len(css) = N
  <2>1. css \in [1 .. N -> Texts]
    BY <1>4, <1>5
  <2>2. css \in Seq(Texts)
    BY <1>1, <2>1, SeqDef
  <2> QED
    BY <1>1, <1>5, <2>2, LenProperties
<1>7. FlatOf(out, css, Chars)
  BY <1>2, <1>6, FlattenMembers DEF Texts
<1>8. out \in Texts /\ \A c : c \in ToSet(out) <=> \E i \in 1 .. N : c \in ToSet(css[i])
  BY <1>6, <1>7 DEF FlatOf, Texts
<1>9. Letters(out) = LettersOf(parts)
  <2>1. \A c : c \in LettersOf(parts) <=> \E i \in 1 .. N : c \in Letters(parts[i])
    BY <1>1 DEF LettersOf, ToSet
  <2>2. \A c : c \in Letters(out) <=> \E i \in 1 .. N : c \in Letters(css[i])
    BY <1>8 DEF Letters
  <2>3. \A c : c \in Letters(out) <=> c \in LettersOf(parts)
    BY <1>4, <2>1, <2>2
  <2> QED
    BY <2>3
<1> QED
  BY <1>8, <1>9 DEF out

\* Taking a text apart into sentences drops no letter.
LEMMA SentencesKeep ==
  ASSUME NEW s \in Texts
  PROVE  Sentences(s) \in Seq(Texts) /\ LettersOf(Sentences(s)) = Letters(s)
<1> DEFINE L == Len(s)
           N == L + 1
           Ends(i) == {e \in i .. L - 1 : EndsSentence(s, e)}
           Blank(i) == NonWhite(From(s, i)) = {}
           last == [i \in 1 .. N |-> IF Blank(i) THEN <<>> ELSE <<Strip(From(s, i))>>]
           head == [i \in 1 .. N |-> <<Strip(SubSeq(s, i, Min(Ends(i))))>>]
           next == [i \in 1 .. N |-> Min(Ends(i)) + 1]
           Value(f, i) == IF Blank(i) THEN <<>>
                          ELSE IF Ends(i) = {} THEN <<Strip(From(s, i))>>
                          ELSE <<Strip(SubSeq(s, i, Min(Ends(i))))>> \o f[Min(Ends(i)) + 1]
           sentences == CHOOSE f : f = [i \in 1 .. N |-> Value(f, i)]
<1>1. L \in Nat /\ N \in Nat /\ DOMAIN s = 1 .. L /\ N = L + 1
  BY LenProperties DEF Texts
<1>2. Sentences(s) = sentences[1]
  BY DEF Sentences
<1>3. ASSUME NEW i \in 1 .. N, Ends(i) # {}
      PROVE  Min(Ends(i)) \in i .. L - 1 /\ Min(Ends(i)) + 1 \in i + 1 .. N
  <2>1. Ends(i) \in SUBSET (1 .. L)
    BY <1>1
  <2> HIDE DEF L
  <2>2. Min(Ends(i)) \in Ends(i)
    <3> HIDE DEF Ends
    <3> QED
      BY <1>1, <1>3, <2>1, LeastAndGreatest
  <2>3. Min(Ends(i)) \in i .. L - 1
    BY <2>2
  <2> QED
    BY <1>1, <2>3
<1> HIDE DEF Ends, Blank, L, N
<1>4. \E f : f = [i \in 1 .. N |-> Value(f, i)]
  <2> DEFINE Stops == {i \in 1 .. N : Blank(i) \/ Ends(i) = {}}
  <2>1. \A i \in 1 .. N : i \notin Stops => next[i] \in i + 1 .. N
    BY <1>3
  <2>2. \A i \in 1 .. N : /\ i \in Stops <=> Blank(i) \/ Ends(i) = {}
                          /\ last[i] = IF Blank(i) THEN <<>> ELSE <<Strip(From(s, i))>>
                          /\ head[i] = <<Strip(SubSeq(s, i, Min(Ends(i))))>>
                          /\ next[i] = Min(Ends(i)) + 1
    OBVIOUS
  <2> HIDE DEF Stops, last, head, next
  <2>3. PICK f : Chained(f, N, Stops, last, head, next)
    BY <1>1, <2>1, DownwardRecursion
  <2>4. f = [i \in 1 .. N |-> Value(f, i)]
    BY <2>2, <2>3 DEF Chained
  <2> QED
    BY <2>4
<1>5. sentences = [i \in 1 .. N |-> Value(sentences, i)]
  <2> HIDE DEF Value
  <2> QED
    BY <1>4
<1> HIDE DEF sentences
<1> DEFINE Kept == {i \in 1 .. N : /\ sentences[i] \in Seq(Texts)
                                   /\ LettersOf(sentences[i]) = LettersIn(s, i, L)}
<1>6. ASSUME NEW i \in 1 .. N, \A j \in i + 1 .. N : j \in Kept
      PROVE  i \in Kept
  <2> DEFINE rest == From(s, i)
  <2>1. rest \in Texts /\ Letters(rest) = LettersIn(s, i, L)
    <3>1. i \in 1 .. L + 1 /\ L \in 0 .. L
      BY <1>1
    <3> QED
      BY <3>1, SliceText DEF From, LettersIn, L
  <2> HIDE DEF rest
  <2>2. CASE Blank(i)
    <3>1. sentences[i] = <<>>
      BY <1>5, <2>2
    <3>2. Letters(rest) = {}
      BY <2>1, <2>2, BlankHasNoLetter DEF Blank, rest
    <3> QED
      BY <2>1, <3>1, <3>2, NoChunk
  <2>3. CASE ~Blank(i) /\ Ends(i) = {}
    <3> DEFINE t == Strip(rest)
    <3>1. sentences[i] = <<t>>
      BY <1>5, <2>3 DEF rest
    <3>2. t \in Texts /\ Letters(t) = Letters(rest)
      BY <2>1, StripKeeps
    <3> HIDE DEF t
    <3> QED
      BY <2>1, <3>1, <3>2, SingleChunk
  <2>4. CASE ~Blank(i) /\ Ends(i) # {}
    <3> DEFINE m == Min(Ends(i))
               t == Strip(SubSeq(s, i, m))
               first == <<t>>
               tail == sentences[m + 1]
    <3>1. m \in i .. L - 1 /\ m + 1 \in i + 1 .. N
      BY <1>3, <2>4
    <3>2. sentences[i] = first \o tail
      BY <1>5, <2>4
    <3> HIDE DEF m
    <3>3. tail \in Seq(Texts) /\ LettersOf(tail) = LettersIn(s, m + 1, L)
      BY <1>6, <3>1
    <3>4. i \in 1 .. L + 1 /\ m \in 0 .. L
      BY <1>1, <3>1
    <3>5. SubSeq(s, i, m) \in Texts /\ Letters(SubSeq(s, i, m)) = LettersIn(s, i, m)
      BY <3>4, SliceText DEF LettersIn, L
    <3>6. t \in Texts /\ Letters(t) = LettersIn(s, i, m)
      BY <3>5, StripKeeps
    <3>7. LettersIn(s, i, L) = LettersIn(s, i, m) \cup LettersIn(s, m + 1, L)
      <4>1. \A p : p \in i .. L <=> p \in i .. m \/ p \in m + 1 .. L
        BY <1>1, <3>1, <3>4
      <4> QED
        BY <4>1 DEF LettersIn
    <3> HIDE DEF t, tail
    <3>8. first \in Seq(Texts) /\ LettersOf(first) = LettersIn(s, i, m)
      BY <3>6, SingleChunk
    <3> HIDE DEF first
    <3>9. first \o tail \in Seq(Texts) /\ LettersOf(first \o tail) = LettersIn(s, i, L)
      BY <3>3, <3>7, <3>8, ConcatChunks
    <3> QED
      BY <3>2, <3>9
  <2> QED
    BY <2>2, <2>3, <2>4
<1> HIDE DEF Kept
<1>7. 1 .. N \subseteq Kept
  BY <1>1, <1>6, DownwardInduction
<1>8. Letters(s) = LettersIn(s, 1, L)
  BY <1>1 DEF Letters, LettersIn, ToSet
<1>9. 1 \in Kept
  BY <1>1, <1>7
<1> QED
  BY <1>2, <1>8, <1>9 DEF Kept

\* A space is one of the kinds that are added.
LEMMA SpaceAdds == Space \in Seq(AddedKinds)
<1>1. \A K : \A k \in K : <<k>> \in Seq(K)
  OBVIOUS
<1>2. " " \in AddedKinds
  BY Zenon DEF AddedKinds
<1> QED
  BY <1>1, <1>2, Zenon DEF Space

\* The groups of sentences have the letters of the sentences, whatever the boundaries are.
LEMMA GroupsKeep ==
  ASSUME NEW ts \in Seq(Texts), NEW bounds, bounds \subseteq 1 .. Len(ts)
  PROVE  Groups(ts, bounds) \in Seq(Texts) /\ LettersOf(Groups(ts, bounds)) = LettersOf(ts)
<1> DEFINE L == Len(ts)
           N == L + 1
           Ends(i) == {e \in bounds : e >= i}
           stop(i) == IF Ends(i) = {} THEN L ELSE Min(Ends(i))
           last == [i \in 1 .. N |-> <<>>]
           head == [i \in 1 .. N |-> <<Join(SubSeq(ts, i, stop(i)), Space)>>]
           next == [i \in 1 .. N |-> stop(i) + 1]
           Value(f, i) == IF i > L THEN <<>>
                          ELSE <<Join(SubSeq(ts, i, stop(i)), Space)>> \o f[stop(i) + 1]
           groups == CHOOSE f : f = [i \in 1 .. N |-> Value(f, i)]
<1>1. L \in Nat /\ N \in Nat /\ DOMAIN ts = 1 .. L /\ N = L + 1
  BY LenProperties
<1>2. Groups(ts, bounds) = groups[1]
  BY DEF Groups
<1> HIDE DEF L, N
<1>3. ASSUME NEW i \in 1 .. N, ~(i > L)
      PROVE  stop(i) \in i .. L /\ stop(i) + 1 \in i + 1 .. N
  <2>1. Ends(i) \in SUBSET (1 .. L)
    BY DEF L
  <2>2. Ends(i) # {} => Min(Ends(i)) \in Ends(i)
    <3> HIDE DEF Ends
    <3> QED
      BY <1>1, <2>1, LeastAndGreatest
  <2>3. Ends(i) # {} => Min(Ends(i)) \in i .. L
    BY <1>1, <2>1, <2>2
  <2> HIDE DEF Ends
  <2>4. stop(i) \in i .. L
    BY <1>1, <1>3, <2>3
  <2> HIDE DEF stop
  <2> QED
    BY <1>1, <2>4
<1> HIDE DEF stop
<1>4. \E f : f = [i \in 1 .. N |-> Value(f, i)]
  <2> DEFINE Stops == {i \in 1 .. N : i > L}
  <2>1. \A i \in 1 .. N : i \notin Stops => next[i] \in i + 1 .. N
    BY <1>3
  <2>2. \A i \in 1 .. N : /\ i \in Stops <=> i > L
                          /\ last[i] = <<>>
                          /\ head[i] = <<Join(SubSeq(ts, i, stop(i)), Space)>>
                          /\ next[i] = stop(i) + 1
    OBVIOUS
  <2> HIDE DEF Stops, last, head, next
  <2>3. PICK f : Chained(f, N, Stops, last, head, next)
    BY <1>1, <2>1, DownwardRecursion
  <2>4. f = [i \in 1 .. N |-> Value(f, i)]
    BY <2>2, <2>3 DEF Chained
  <2> QED
    BY <2>4
<1>5. groups = [i \in 1 .. N |-> Value(groups, i)]
  <2> HIDE DEF Value
  <2> QED
    BY <1>4
<1> HIDE DEF groups
<1> DEFINE Kept == {i \in 1 .. N :
                      /\ groups[i] \in Seq(Texts)
                      /\ \A c : c \in LettersOf(groups[i]) <=> \E j \in i .. L : c \in Letters(ts[j])}
<1>6. ASSUME NEW i \in 1 .. N, \A j \in i + 1 .. N : j \in Kept
      PROVE  i \in Kept
  <2>1. CASE i > L
    <3>1. groups[i] = <<>>
      BY <1>5, <2>1
    <3>2. i .. L = {}
      BY <1>1, <2>1
    <3> QED
      BY <3>1, <3>2, NoChunk
  <2>2. CASE ~(i > L)
    <3> DEFINE m == stop(i)
               sub == SubSeq(ts, i, m)
               t == Join(sub, Space)
               first == <<t>>
               tail == groups[m + 1]
    <3>1. m \in i .. L /\ m + 1 \in i + 1 .. N
      BY <1>3, <2>2
    <3>2. groups[i] = first \o tail
      BY <1>5, <2>2
    <3> HIDE DEF m
    <3>3. /\ tail \in Seq(Texts)
          /\ \A c : c \in LettersOf(tail) <=> \E j \in m + 1 .. L : c \in Letters(ts[j])
      BY <1>6, <3>1
    <3>4. i \in 1 .. L + 1 /\ m \in 0 .. L
      BY <1>1, <3>1
    <3>5. sub \in Seq(Texts) /\ ToSet(sub) = {ts[j] : j \in i .. m}
      BY <3>4, SliceSet DEF L
    <3> HIDE DEF sub
    <3>6. t \in Texts /\ Letters(t) = LettersOf(sub)
      BY <3>5, SpaceAdds, JoinKeeps
    <3>7. \A c : c \in LettersOf(sub) <=> \E j \in i .. m : c \in Letters(ts[j])
      BY <3>5 DEF LettersOf
    <3> HIDE DEF t, tail
    <3>8. first \in Seq(Texts) /\ LettersOf(first) = LettersOf(sub)
      BY <3>6, SingleChunk
    <3> HIDE DEF first
    <3>9. first \o tail \in Seq(Texts) /\
          LettersOf(first \o tail) = LettersOf(first) \cup LettersOf(tail)
      BY <3>3, <3>8, ConcatChunks
    <3>10. \A j : j \in i .. L <=> j \in i .. m \/ j \in m + 1 .. L
      BY <1>1, <3>1, <3>4
    <3>11. \A c : c \in LettersOf(groups[i]) <=> \E j \in i .. L : c \in Letters(ts[j])
      BY <3>2, <3>3, <3>7, <3>8, <3>9, <3>10
    <3> QED
      BY <3>2, <3>9, <3>11
  <2> QED
    BY <2>1, <2>2
<1> HIDE DEF Kept
<1>7. 1 .. N \subseteq Kept
  BY <1>1, <1>6, DownwardInduction
<1>8. \A c : c \in LettersOf(ts) <=> \E j \in 1 .. L : c \in Letters(ts[j])
  BY <1>1 DEF LettersOf, ToSet
<1>9. 1 \in Kept
  BY <1>1, <1>7
<1>10. \A c : c \in LettersOf(groups[1]) <=> c \in LettersOf(ts)
  BY <1>8, <1>9 DEF Kept
<1> QED
  BY <1>2, <1>9, <1>10 DEF Kept

\* SemanticTextChunker.chunk.
LEMMA SemanticKeeps ==
  ASSUME NEW text \in Texts, NEW distances, NEW percentile, NEW size \in Nat \ {0}
  PROVE  /\ semantic_chunk(text, distances, percentile, size) \in Seq(Texts)
         /\ LettersOf(semantic_chunk(text, distances, percentile, size)) = Letters(text)
<1> DEFINE sentences == Sentences(Strip(text))
           known == [i \in 1 .. Len(sentences) - 1 |-> distances[i]]
           bounds == Boundaries(known, percentile)
           groups == Groups(sentences, bounds)
           M == Len(groups)
           lists == [i \in DOMAIN groups |->
                       IF Len(groups[i]) > size THEN chunk(groups[i], size, 0) ELSE <<groups[i]>>]
           fit == FlattenSeq(lists)
           kept == NotBlank(fit)
           N == Len(kept)
           out == semantic_chunk(text, distances, percentile, size)
<1>1. out = IF Len(sentences) <= 1 THEN sentences ELSE [i \in 1 .. N |-> Strip(kept[i])]
  BY DEF semantic_chunk
<1>2. sentences \in Seq(Texts) /\ LettersOf(sentences) = Letters(text)
  BY StripKeeps, SentencesKeep
<1> HIDE DEF sentences, out
<1>3. bounds \subseteq 1 .. Len(sentences)
  <2>1. DOMAIN known = 1 .. Len(sentences) - 1
    OBVIOUS
  <2>2. bounds \subseteq DOMAIN known
    BY DEF Boundaries
  <2>3. Len(sentences) \in Nat
    BY <1>2, LenProperties
  <2> HIDE DEF known, bounds
  <2> QED
    BY <2>1, <2>2, <2>3
<1> HIDE DEF known, bounds
<1>4. groups \in Seq(Texts) /\ LettersOf(groups) = Letters(text)
  BY <1>2, <1>3, GroupsKeep
<1> HIDE DEF groups
<1>5. M \in Nat /\ DOMAIN groups = 1 .. M /\ \A i \in 1 .. M : groups[i] \in Texts
  BY <1>4, LenProperties, ElementOfSeq
<1> HIDE DEF M
<1>6. ASSUME NEW i \in 1 .. M
      PROVE  lists[i] \in Seq(Texts) /\ LettersOf(lists[i]) = Letters(groups[i])
  <2> DEFINE g == groups[i]
             cut == chunk(g, size, 0)
             one == <<g>>
  <2>1. g \in Texts
    BY <1>5
  <2>2. lists[i] = IF Len(g) > size THEN cut ELSE one
    BY <1>5
  <2> HIDE DEF g, lists
  <2>3. cut \in Seq(Texts) /\ LettersOf(cut) = Letters(g)
    BY <2>1, ChunkKeeps
  <2>4. one \in Seq(Texts) /\ LettersOf(one) = Letters(g)
    BY <2>1, SingleChunk
  <2> QED
    BY <2>2, <2>3, <2>4 DEF g
<1>7. DOMAIN lists = 1 .. M /\ lists = [i \in 1 .. M |-> lists[i]]
  BY <1>5
<1> HIDE DEF lists
<1>8. lists \in Seq(Seq(Texts)) /\ Len(lists) = M
  <2>1. lists \in [1 .. M -> Seq(Texts)]
    BY <1>6, <1>7
  <2>2. lists \in Seq(Seq(Texts))
    BY <1>5, <2>1, SeqDef
  <2> QED
    BY <1>5, <1>7, <2>2, LenProperties
<1>9. fit \in Seq(Texts) /\ LettersOf(fit) = Letters(text)
  <2>1. /\ fit \in Seq(Texts)
        /\ \A c : c \in LettersOf(fit) <=> \E i \in 1 .. M : c \in LettersOf(lists[i])
    BY <1>8, FlattenChunks
  <2>2. \A c : c \in LettersOf(groups) <=> \E i \in 1 .. M : c \in Letters(groups[i])
    BY <1>5 DEF LettersOf, ToSet
  <2> HIDE DEF fit
  <2>3. \A c : c \in LettersOf(fit) <=> c \in LettersOf(groups)
    BY <1>6, <2>1, <2>2
  <2> QED
    BY <1>4, <2>1, <2>3
<1> HIDE DEF fit
<1>10. kept \in Seq(Texts) /\ LettersOf(kept) = Letters(text)
  BY <1>9, NotBlankKeeps
<1> HIDE DEF kept
<1>11. N \in Nat /\ DOMAIN kept = 1 .. N /\ \A i \in 1 .. N : kept[i] \in Texts
  BY <1>10, LenProperties, ElementOfSeq
<1> HIDE DEF N
<1> DEFINE stripped == [i \in 1 .. N |-> Strip(kept[i])]
<1>12. \A i \in 1 .. N : stripped[i] \in Texts /\ Letters(stripped[i]) = Letters(kept[i])
  BY <1>11, StripKeeps
<1>13. DOMAIN stripped = 1 .. N /\ stripped = [i \in 1 .. N |-> stripped[i]]
  OBVIOUS
<1> HIDE DEF stripped
<1>14. stripped \in Seq(Texts)
  <2>1. stripped \in [1 .. N -> Texts]
    BY <1>12, <1>13
  <2> QED
    BY <1>11, <2>1, SeqDef
<1>15. LettersOf(stripped) = Letters(text)
  <2>1. \A c : c \in LettersOf(kept) <=> \E i \in 1 .. N : c \in Letters(kept[i])
    BY <1>11 DEF LettersOf, ToSet
  <2>2. \A c : c \in LettersOf(stripped) <=> \E i \in 1 .. N : c \in Letters(stripped[i])
    BY <1>13 DEF LettersOf, ToSet
  <2>3. \A c : c \in LettersOf(stripped) <=> c \in LettersOf(kept)
    BY <1>12, <2>1, <2>2
  <2> QED
    BY <1>10, <2>3
<1>16. out = IF Len(sentences) <= 1 THEN sentences ELSE stripped
  BY <1>1 DEF stripped
<1>17. out \in Seq(Texts) /\ LettersOf(out) = Letters(text)
  BY <1>2, <1>14, <1>15, <1>16
<1> QED
  BY <1>17 DEF out

\* A text whose characters have their places is in order.
LEMMA PlacedText ==
  ASSUME NEW kinds \in Seq(Kinds)
  PROVE  Placed(kinds) \in Texts /\ Increasing(Placed(kinds))
<1> DEFINE n == Len(kinds)
           text == Placed(kinds)
<1>1. n \in Nat /\ \A i \in 1 .. n : kinds[i] \in Kinds
  BY LenProperties, ElementOfSeq
<1>2. text = [i \in 1 .. n |-> [ch |-> kinds[i], at |-> i]]
  BY DEF Placed
<1> HIDE DEF text, n
<1>3. \A k \in Kinds, i \in Nat : [ch |-> k, at |-> i] \in Chars
  BY Zenon DEF Chars
<1>4. ASSUME NEW i \in 1 .. n PROVE text[i] \in Chars /\ text[i].at = i
  <2>1. text[i] = [ch |-> kinds[i], at |-> i]
    BY <1>2
  <2>2. [ch |-> kinds[i], at |-> i].at = i
    OBVIOUS
  <2>3. i \in Nat
    BY <1>1
  <2> QED
    BY <1>1, <1>3, <2>1, <2>2, <2>3
<1>5. DOMAIN text = 1 .. n /\ text = [i \in 1 .. n |-> text[i]]
  BY <1>2
<1>6. text \in [1 .. n -> Chars]
  BY <1>4, <1>5
<1>7. text \in Texts
  BY <1>1, <1>6, SeqDef DEF Texts
<1>8. Increasing(text)
  BY <1>4, <1>5 DEF Increasing
<1> QED
  BY <1>7, <1>8 DEF text

\* ChunksKeepTheText, for texts of every length over every alphabet, every chunk_size, every
\* smaller chunk_overlap and every boundaries: both chunkers of pipeline.py lose no letter of
\* the text and add none, RecursiveTextChunker exceeds chunk_size by at most one overlap for
\* each separator, and without overlap it keeps the text in its order unless a part that is too
\* large follows text that is not.
THEOREM ChunkerChunksKeepTheText == ChunkerSpec => []ChunksKeepTheText
<1>1. ChunkerInit => ChunksKeepTheText
  BY DEF ChunkerInit, ChunksKeepTheText
<1>2. ASSUME ChunkText PROVE ChunksKeepTheText'
  <2>1. PICK kinds \in [1 .. Length -> Kinds], size \in Sizes, overlap \in Overlaps :
          /\ overlap < size
          /\ input' = [of |-> "text", text |-> Placed(kinds), size |-> size, overlap |-> overlap]
          /\ output' = chunk(Placed(kinds), size, overlap)
    BY <1>2 DEF ChunkText
  <2> DEFINE text == Placed(kinds)
             out == chunk(text, size, overlap)
  <2>2. kinds \in Seq(Kinds)
    <3>1. Length \in Nat
      BY ChunkerAssumption
    <3> QED
      BY <3>1, SeqDef
  <2>3. text \in Texts /\ Increasing(text)
    BY <2>2, PlacedText
  <2>4. size \in Nat /\ overlap \in Nat
    BY ChunkerAssumption
  <2>5. input'.of = "text" /\ input'.text = text /\ input'.size = size /\ input'.overlap = overlap
        /\ output' = out
    BY <2>1
  <2> HIDE DEF text
  <2>6. /\ out \in Seq(Texts) /\ LettersOf(out) = Letters(text)
        /\ Bounded(out, size + 4 * overlap)
        /\ overlap = 0 /\ ~KeepsStale(Strip(text), size) => InOrder(out)
    BY <2>1, <2>3, <2>4, ChunkKeeps
  <2>7. \A i \in DOMAIN out : Len(out[i]) <= size + Len(Separators) * overlap
    <3>1. Len(Separators) = 4
      BY SeparatorsAdd
    <3>2. \A i \in DOMAIN out : out[i] \in ToSet(out)
      BY DEF ToSet
    <3> HIDE DEF out
    <3> QED
      BY <2>6, <3>1, <3>2 DEF Bounded
  <2> HIDE DEF out
  <2> QED
    BY <2>5, <2>6, <2>7 DEF ChunksKeepTheText
<1>3. ASSUME ChunkSentences PROVE ChunksKeepTheText'
  <2>1. PICK words \in [1 .. Pieces -> Words], ds \in [1 .. Pieces \div 2 -> Distances], size \in Sizes :
          /\ input' = [of |-> "sentences", text |-> Placed(FlattenSeq(words)), size |-> size,
                       distances |-> ds]
          /\ output' = semantic_chunk(Placed(FlattenSeq(words)), ds, Percentile, size)
    BY <1>3 DEF ChunkSentences
  <2> DEFINE flat == FlattenSeq(words)
             text == Placed(flat)
             out == semantic_chunk(text, ds, Percentile, size)
  <2>2. flat \in Seq(Kinds)
    <3>1. Pieces \in Nat /\ Words \subseteq Seq(Kinds)
      BY ChunkerAssumption
    <3>2. words \in [1 .. Pieces -> Seq(Kinds)]
      BY <3>1
    <3>3. words \in Seq(Seq(Kinds))
      BY <3>1, <3>2, SeqDef
    <3> QED
      BY <3>3, FlattenMembers DEF FlatOf
  <2> HIDE DEF flat
  <2>3. text \in Texts
    BY <2>2, PlacedText
  <2>4. size \in Nat \ {0}
    BY ChunkerAssumption
  <2>5. input'.of = "sentences" /\ input'.text = text /\ output' = out
    BY <2>1 DEF flat
  <2> HIDE DEF text
  <2>6. LettersOf(out) = Letters(text)
    BY <2>3, <2>4, SemanticKeeps
  <2> HIDE DEF out
  <2> QED
    BY <2>5, <2>6 DEF ChunksKeepTheText
<1>4. ASSUME ChunksKeepTheText, UNCHANGED chunkerVars PROVE ChunksKeepTheText'
  BY <1>4 DEF chunkerVars, ChunksKeepTheText
<1> QED
  BY <1>1, <1>2, <1>3, <1>4, PTL DEF ChunkerSpec
===============================================================================
