----------------------------- MODULE HybridSearch -----------------------------
(***************************************************************************)
(* Search requests of one API process and its pool of database connections *)
(* (src/retrieval/service.py, src/retrieval/routes.py, src/core/database). *)
(*                                                                         *)
(* A request's session takes a connection with its first query, the one    *)
(* that authenticates the caller, and keeps it until get_db_session ends   *)
(* the request.  hybrid_search opens two more sessions beside it, and with *)
(* its own connection in hand waits for both.  gather hands on the first   *)
(* exception at once and lets the other branch run on.                     *)
(***************************************************************************)
EXTENDS Naturals, FiniteSets

CONSTANTS
  Requests,   \* the requests that use the database
  Capacity    \* database_pool_size + database_max_overflow

ASSUME PoolAssumption == IsFiniteSet(Requests) /\ Capacity \in Nat \ {0}

VARIABLES
  pc,       \* what request r does next
  branch,   \* branch[r][b]: how far the dense and the sparse query of r are
  result,   \* what r would return: "none", "internal" or "web" results
  free      \* connections the pool can give out

vars == <<pc, branch, result, free>>

Branches == {"dense", "sparse"}
Outside == {"new", "connecting", "done", "failed"}
Handling == {"ready", "gather", "evaluate", "web", "synthesize", "respond"}

\* Who holds a connection: requests from their first query on, and branches while they query.
Holders == {r \in Requests : pc[r] \in Handling}
QueryingBranches == {rb \in Requests \X Branches : branch[rb[1]][rb[2]] = "querying"}

Goto(r, place) == pc' = [pc EXCEPT ![r] = place]
SetBranch(r, b, how) == branch' = [branch EXCEPT ![r] = [branch[r] EXCEPT ![b] = how]]

Init ==
  /\ pc = [r \in Requests |-> "new"]
  /\ branch = [r \in Requests |-> [b \in Branches |-> "none"]]
  /\ result = [r \in Requests |-> "none"]
  /\ free = Capacity

-------------------------------------------------------------------------------
(* The request's own session. *)

Arrive(r) ==
  /\ pc[r] = "new"
  /\ Goto(r, "connecting")
  /\ UNCHANGED <<branch, result, free>>

\* The first query: get_current_user, then the tenant.
Connect(r) ==
  /\ pc[r] = "connecting"
  /\ free > 0
  /\ free' = free - 1
  /\ Goto(r, "ready")
  /\ UNCHANGED <<branch, result>>

\* database_pool_timeout is over, and nobody gave a connection back.
ConnectTimesOut(r) ==
  /\ pc[r] = "connecting"
  /\ free = 0
  /\ Goto(r, "failed")
  /\ UNCHANGED <<branch, result, free>>

\* get_db_session commits, or rolls back and passes the exception on, and closes the session.
EndSession(r, how) == free' = free + 1 /\ Goto(r, how)

\* Authentication fails, or an endpoint that needs no other session has run its query.
FinishPlain(r) ==
  /\ pc[r] = "ready"
  /\ EndSession(r, "done") \/ EndSession(r, "failed")
  /\ UNCHANGED <<branch, result>>

-------------------------------------------------------------------------------
(* hybrid_search: the two branches. *)

Gather(r) ==
  /\ pc[r] = "ready"
  /\ Goto(r, "gather")
  /\ branch' = [branch EXCEPT ![r] = [b \in Branches |-> "connecting"]]
  /\ UNCHANGED <<result, free>>

\* MUTANT: the branches' sessions do not come from the bounded pool.
BranchConnect_Unbounded(r, b) ==
  /\ branch[r][b] = "connecting"
  /\ free' = free - 1
  /\ SetBranch(r, b, "querying")
  /\ UNCHANGED <<pc, result>>

BranchConnect(r, b) ==
  /\ branch[r][b] = "connecting"
  /\ free > 0
  /\ free' = free - 1
  /\ SetBranch(r, b, "querying")
  /\ UNCHANGED <<pc, result>>

\* MUTANT: a branch waits for its connection however long that takes.
BranchTimesOut_Never(r, b) == FALSE /\ UNCHANGED vars

BranchTimesOut(r, b) ==
  /\ branch[r][b] = "connecting"
  /\ free = 0
  /\ SetBranch(r, b, "raised")
  /\ UNCHANGED <<pc, result, free>>

\* The query returns or raises; either way the branch's session is closed.
BranchQueried(r, b) ==
  /\ branch[r][b] = "querying"
  /\ SetBranch(r, b, "returned") \/ SetBranch(r, b, "raised")
  /\ free' = free + 1
  /\ UNCHANGED <<pc, result>>

\* MUTANT: gather with return_exceptions, a branch that raised counting as one without rows.
Join_ExceptionsReturned(r) ==
  /\ pc[r] = "gather"
  /\ \A b \in Branches : branch[r][b] \in {"returned", "raised"}
  /\ \/ Goto(r, "web") /\ UNCHANGED result
     \/ Goto(r, "evaluate") /\ result' = [result EXCEPT ![r] = "internal"]
  /\ UNCHANGED <<branch, free>>

\* Both branches have returned.  The fused list is empty, which goes straight to the web, or
\* it is to be evaluated.
Join(r) ==
  /\ pc[r] = "gather"
  /\ \A b \in Branches : branch[r][b] = "returned"
  /\ \/ Goto(r, "web") /\ UNCHANGED result
     \/ Goto(r, "evaluate") /\ result' = [result EXCEPT ![r] = "internal"]
  /\ UNCHANGED <<branch, free>>

\* MUTANT: the other branch is cancelled, and its connection is not given back.
GatherRaises_SiblingDropped(r) ==
  /\ pc[r] = "gather"
  /\ \E b \in Branches : branch[r][b] = "raised"
  /\ branch' = [branch EXCEPT ![r] = [b \in Branches |-> "raised"]]
  /\ EndSession(r, "failed")
  /\ UNCHANGED result

\* The first exception of a branch ends the request.  The other branch is left running.
GatherRaises(r) ==
  /\ pc[r] = "gather"
  /\ \E b \in Branches : branch[r][b] = "raised"
  /\ EndSession(r, "failed")
  /\ UNCHANGED <<branch, result>>

-------------------------------------------------------------------------------
(* hybrid_search: what is made of the rows.  Each step waits for a service outside, catches *)
(* whatever that raises, and keeps the request's connection.                                *)

\* _evaluate_chunks: no key, an error or anything without NO in it counts as useful.
Evaluate(r) ==
  /\ pc[r] = "evaluate"
  /\ Goto(r, "synthesize") \/ Goto(r, "web")
  /\ UNCHANGED <<branch, result, free>>

\* MUTANT: the web results replace the chunks even when there are none.
FallbackWebSearch_Replaces(r) ==
  /\ pc[r] = "web"
  /\ \/ result' = [result EXCEPT ![r] = "web"] /\ Goto(r, "synthesize")
     \/ result' = [result EXCEPT ![r] = "none"] /\ Goto(r, "respond")
  /\ UNCHANGED <<branch, free>>

\* _fallback_web_search: what it finds replaces the chunks; no key, an error or an empty list
\* leaves them.
FallbackWebSearch(r) ==
  /\ pc[r] = "web"
  /\ \/ result' = [result EXCEPT ![r] = "web"] /\ Goto(r, "synthesize")
     \/ UNCHANGED result /\ Goto(r, IF result[r] = "none" THEN "respond" ELSE "synthesize")
  /\ UNCHANGED <<branch, free>>

\* _synthesize_answer: an answer or None.
SynthesizeAnswer(r) ==
  /\ pc[r] = "synthesize"
  /\ Goto(r, "respond")
  /\ UNCHANGED <<branch, result, free>>

Respond(r) ==
  /\ pc[r] = "respond"
  /\ EndSession(r, "done") \/ EndSession(r, "failed")
  /\ UNCHANGED <<branch, result>>

-------------------------------------------------------------------------------
RequestStep(r) ==
  \/ Connect(r) \/ ConnectTimesOut(r) \/ FinishPlain(r)
  \/ Gather(r) \/ Join(r) \/ GatherRaises(r)
  \/ Evaluate(r) \/ FallbackWebSearch(r) \/ SynthesizeAnswer(r) \/ Respond(r)

BranchStep(r, b) == BranchConnect(r, b) \/ BranchTimesOut(r, b) \/ BranchQueried(r, b)

Next ==
  \/ \E r \in Requests : Arrive(r) \/ RequestStep(r)
  \/ \E r \in Requests, b \in Branches : BranchStep(r, b)

Spec == Init /\ [][Next]_vars

\* Tasks are scheduled, queries and outside services return or raise, and the pool's timeout
\* fires.  A waiter that could be served is served or times out later: weak fairness is enough.
Fairness ==
  /\ \A r \in Requests : WF_vars(RequestStep(r))
  /\ \A r \in Requests, b \in Branches : WF_vars(BranchStep(r, b))

FairSpec == Spec /\ Fairness

-------------------------------------------------------------------------------
(* Properties. *)

\* Every variable stays in its domain; in particular the pool never gives out more than it has.
TypeOK ==
  /\ pc \in [Requests -> Outside \cup Handling]
  /\ branch \in [Requests ->
                   [Branches -> {"none", "connecting", "querying", "returned", "raised"}]]
  /\ result \in [Requests -> {"none", "internal", "web"}]
  /\ free \in 0..Capacity

\* No connection is lost or given back twice, on whichever path a request and its branches
\* end, a branch that outlives its request included (the sessions of lines 225 and 237 and of
\* get_db_session).
PoolAccounts == free + Cardinality(Holders) + Cardinality(QueryingBranches) = Capacity

\* A hybrid search that goes on to evaluate, fall back and answer has the rows of both lists
\* (line 249): half of a retrieval is an error, not a poorer answer.
AnswersFromBothLists ==
  \A r \in Requests : pc[r] \in {"evaluate", "web", "synthesize", "respond"} =>
    \A b \in Branches : branch[r][b] = "returned"

\* What a search has found it keeps or exchanges for web results (lines 270-275): chunks judged
\* useless come back rather than nothing when the web search fails.
FindingsAreKept == [][\A r \in Requests : result[r] # "none" => result'[r] # "none"]_vars

\* A request that wants a connection ends, although requests that hold one wait for more: the
\* pool's timeout breaks every such circle.
EveryRequestEnds == \A r \in Requests : pc[r] = "connecting" ~> pc[r] \in {"done", "failed"}

\* After the last request every connection is back in the pool, those of branches whose
\* request had already failed included.
PoolRefills == <>[](free = Capacity)

\* REFUTED.  "verify no pool timeout" (ADR, section on concepts, Connection Pooling): the pool
\* is never in a state out of which only timeouts lead, every connection being held by a search
\* that waits for two more.
PoolNeverJams ==
  ~ /\ free = 0
    /\ QueryingBranches = {}
    /\ \A r \in Holders :
         /\ pc[r] = "gather"
         /\ \A b \in Branches : branch[r][b] = "connecting"
===============================================================================
