---------------------------- MODULE TenantRequests ----------------------------
(***************************************************************************)
(* What stands between a request and the rows of a tenant                  *)
(* (get_current_tenant): the fixed-window rate limiter in Redis, and the   *)
(* tenant that a transaction carries for PostgreSQL's row-level security,  *)
(* on connections that requests of several tenants use in turn.            *)
(*                                                                         *)
(* Time passes in ticks, Window of them to a window.  A request is one     *)
(* transaction on one pooled connection; the branches of a hybrid search   *)
(* run on connections of their own.  A request that has ended is           *)
(* forgotten, so Requests bounds how many are under way at a time.         *)
(***************************************************************************)
EXTENDS Integers, FiniteSetsExt

CONSTANTS
  Tenants,
  Requests,
  Connections,
  Limit,      \* rate_limit_requests
  Window    \* rate_limit_window_seconds, in ticks

ASSUME TenantsAssumption == "none" \notin Tenants
ASSUME ConnectionsAssumption == "none" \notin Connections
ASSUME LimitAssumption == Limit \in Nat \ {0} /\ Window \in Nat \ {0}

VARIABLES
  superuser, \* the application's database role bypasses row-level security
  pc,        \* pc[r]: what request r does next
  tenant,    \* the tenant of r's membership
  search,    \* r is a hybrid search
  conn,      \* the connection of r's session
  branch,    \* the connection of r's branch
  context,   \* context[c]: app.current_tenant on connection c
  seen,      \* the tenants whose rows row-level security showed to r's query
  count,     \* the value of a tenant's key in Redis, more than Limit + 1 counted as that
  ttl,       \* the ticks until the key expires
  passed     \* history: passed[t][age], the requests the limiter let through age ticks ago

limiter == <<count, ttl, passed>>
request == <<pc, tenant, search, conn, branch, seen>>
vars == <<superuser, request, context, limiter>>

InFlight == {"limit", "query", "branch", "close", "commit"}
Ages == 0 .. Window - 1

Init ==
  /\ superuser \in BOOLEAN
  /\ pc = [r \in Requests |-> "new"]
  /\ tenant = [r \in Requests |-> "none"]
  /\ search = [r \in Requests |-> FALSE]
  /\ conn = [r \in Requests |-> "none"]
  /\ branch = [r \in Requests |-> "none"]
  /\ seen = [r \in Requests |-> {}]
  /\ context = [c \in Connections |-> "none"]
  /\ count = [t \in Tenants |-> 0]
  /\ ttl = [t \in Tenants |-> 0]
  /\ passed = [t \in Tenants |-> [a \in Ages |-> 0]]

-------------------------------------------------------------------------------
(* Connections and row-level security. *)

Idle == {c \in Connections : \A r \in Requests : conn[r] # c /\ branch[r] # c}

\* The policy tenant_isolation: the rows of the tenant that the transaction carries.
Visible(c) == IF superuser THEN Tenants ELSE Tenants \cap {context[c]}

\* MUTANT: set_config(..., false): the setting outlives the transaction that commits.
ContextAfterCommit_Session(c) == context[c]

\* set_config(..., true): the setting ends with its transaction.
ContextAfterCommit(c) == "none"

Goto(r, label) == pc' = [pc EXCEPT ![r] = label]

\* r ends: its connections go back to the pool.
Forget(r) ==
  /\ Goto(r, "new")
  /\ tenant' = [tenant EXCEPT ![r] = "none"]
  /\ search' = [search EXCEPT ![r] = FALSE]
  /\ conn' = [conn EXCEPT ![r] = "none"]
  /\ branch' = [branch EXCEPT ![r] = "none"]
  /\ seen' = [seen EXCEPT ![r] = {}]

\* An exception, or the loss of the process or of a connection, rolls back every transaction
\* of r and what they had set.
RollBack(r) ==
  /\ Forget(r)
  /\ context' = [c \in Connections |-> IF c \in {conn[r], branch[r]} THEN "none" ELSE context[c]]

-------------------------------------------------------------------------------
(* get_current_tenant *)

\* get_db_session, the user, and resolve_membership: tables without policies.
Begin(r) ==
  /\ pc[r] = "new"
  /\ \E t \in Tenants, s \in BOOLEAN, c \in Idle :
       /\ tenant' = [tenant EXCEPT ![r] = t]
       /\ search' = [search EXCEPT ![r] = s]
       /\ conn' = [conn EXCEPT ![r] = c]
  /\ Goto(r, "limit")
  /\ UNCHANGED <<superuser, branch, seen, context, limiter>>

\* MUTANT: EXPIRE at each INCR.
Increment_Extends(t) ==
  /\ count' = [count EXCEPT ![t] = IF @ > Limit THEN @ ELSE @ + 1]
  /\ ttl' = [ttl EXCEPT ![t] = Window]

\* MUTANT: INCR and EXPIRE are two commands, and the second may be lost.
Increment_TwoCommands(t) ==
  /\ count' = [count EXCEPT ![t] = IF @ > Limit THEN @ ELSE @ + 1]
  /\ \/ ttl' = [ttl EXCEPT ![t] = IF count[t] = 0 THEN Window ELSE @]
     \/ UNCHANGED ttl

\* RATE_LIMIT_LUA: INCR, and EXPIRE when that made the key.
Increment(t) ==
  /\ count' = [count EXCEPT ![t] = IF @ > Limit THEN @ ELSE @ + 1]
  /\ ttl' = [ttl EXCEPT ![t] = IF count[t] = 0 THEN Window ELSE @]

\* MUTANT: the answer compares with >=, on the count before the INCR.
Allowed_OffByOne(t) == count[t] <= Limit

\* The script's answer.
Allowed(t) == count[t] + 1 <= Limit

\* set_tenant_context, in the transaction of the request.
SetContext(r) ==
  /\ context' = [context EXCEPT ![conn[r]] = tenant[r]]
  /\ Goto(r, IF search[r] THEN "branch" ELSE "query")
  /\ UNCHANGED <<superuser, tenant, search, conn, branch, seen>>

Allow(r) ==
  LET t == tenant[r] IN
  /\ pc[r] = "limit"
  /\ Allowed(t)
  /\ Increment(t)
  /\ passed' = [passed EXCEPT ![t][0] = @ + 1]
  /\ SetContext(r)

\* RateLimitError
Refuse(r) ==
  /\ pc[r] = "limit"
  /\ ~Allowed(tenant[r])
  /\ Increment(tenant[r])
  /\ RollBack(r)
  /\ UNCHANGED <<superuser, passed>>

\* A RedisError lets the request pass; the script may have run, its answer lost.
FailOpen(r) ==
  /\ pc[r] = "limit"
  /\ \/ Increment(tenant[r])
     \/ UNCHANGED <<count, ttl>>
  /\ UNCHANGED passed
  /\ SetContext(r)

-------------------------------------------------------------------------------
(* The handlers: each query names the tenant in its WHERE clause as well. *)

Query(r) ==
  /\ pc[r] = "query"
  /\ seen' = [seen EXCEPT ![r] = Visible(conn[r])]
  /\ Goto(r, "commit")
  /\ UNCHANGED <<superuser, tenant, search, conn, branch, context, limiter>>

\* AsyncSession(bind=db.bind): a connection from the pool, without set_tenant_context.
BranchConnections(r) == Idle

OpenBranch(r) ==
  /\ pc[r] = "branch"
  /\ \E c \in BranchConnections(r) :
       /\ branch' = [branch EXCEPT ![r] = c]
       /\ seen' = [seen EXCEPT ![r] = Visible(c)]
  /\ Goto(r, "close")
  /\ UNCHANGED <<superuser, tenant, search, conn, context, limiter>>

\* The end of the branch's async with: its transaction is rolled back.
CloseBranch(r) ==
  /\ pc[r] = "close"
  /\ branch' = [branch EXCEPT ![r] = "none"]
  /\ Goto(r, "commit")
  /\ UNCHANGED <<superuser, tenant, search, conn, seen, context, limiter>>

Commit(r) ==
  /\ pc[r] = "commit"
  /\ context' = [context EXCEPT ![conn[r]] = ContextAfterCommit(conn[r])]
  /\ Forget(r)
  /\ UNCHANGED <<superuser, limiter>>

\* Any step may fail: no membership, no connection in pool_timeout, a crash.
Raise(r) ==
  /\ pc[r] \in InFlight
  /\ RollBack(r)
  /\ UNCHANGED <<superuser, limiter>>

-------------------------------------------------------------------------------
(* Redis and time. *)

\* A tick passes, and the keys whose time is over are gone.
Tick ==
  /\ ttl' = [t \in Tenants |-> IF ttl[t] > 0 THEN ttl[t] - 1 ELSE 0]
  /\ count' = [t \in Tenants |-> IF ttl[t] > 1 THEN count[t] ELSE 0]
  /\ passed' = [t \in Tenants |-> [a \in Ages |-> IF a = 0 THEN 0 ELSE passed[t][a - 1]]]
  /\ UNCHANGED <<superuser, request, context>>

\* Redis loses its keys; the history starts again with them.
RedisRestarts ==
  /\ count' = [t \in Tenants |-> 0]
  /\ ttl' = [t \in Tenants |-> 0]
  /\ passed' = [t \in Tenants |-> [a \in Ages |-> 0]]
  /\ UNCHANGED <<superuser, request, context>>

Step(r) ==
  \/ Begin(r)
  \/ Allow(r)
  \/ Refuse(r)
  \/ FailOpen(r)
  \/ Query(r)
  \/ OpenBranch(r)
  \/ CloseBranch(r)
  \/ Commit(r)
  \/ Raise(r)

Next == Tick \/ RedisRestarts \/ \E r \in Requests : Step(r)

\* Time passes.  Nothing else is assumed: no client has to ask, and any request may hang.
Spec == Init /\ [][Next]_vars /\ WF_vars(Tick)

-------------------------------------------------------------------------------
(* Properties. *)

\* Every variable stays in its domain, and every key in Redis has an expiry.
TypeOK ==
  /\ superuser \in BOOLEAN
  /\ pc \in [Requests -> InFlight \cup {"new"}]
  /\ tenant \in [Requests -> Tenants \cup {"none"}]
  /\ search \in [Requests -> BOOLEAN]
  /\ conn \in [Requests -> Connections \cup {"none"}]
  /\ branch \in [Requests -> Connections \cup {"none"}]
  /\ seen \in [Requests -> SUBSET Tenants]
  /\ context \in [Connections -> Tenants \cup {"none"}]
  /\ count \in [Tenants -> 0 .. Limit + 1]
  /\ ttl \in [Tenants -> 0 .. Window]
  /\ \A t \in Tenants : count[t] > 0 <=> ttl[t] > 0
  /\ passed \in [Tenants -> [Ages -> Nat]]

\* Where row-level security applies, a query on the session of its request is shown the rows
\* of the request's tenant and no other's, whoever had the connection before, and a branch
\* of a hybrid search is shown none at all, as its own transaction carries no tenant
\* (middleware.py:18 with is_local, retrieval/service.py:225 and 238).
RowsOfOwnContext ==
  ~superuser => \A r \in Requests :
    /\ pc[r] = "commit" /\ ~search[r] => seen[r] = {tenant[r]}
    /\ pc[r] \in {"close", "commit"} /\ search[r] => seen[r] = {}

\* The limiter lets at most twice the limit through in as many ticks as a window has: a key's
\* whole allowance at its end and the next one's at its start, and never a third
\* (rate_limit.py:19-28, a fixed window).
AtMostTwiceTheLimit ==
  \A t \in Tenants : MapThenSumSet(LAMBDA a : passed[t][a], Ages) <= 2 * Limit

\* However often a refused tenant asks again, its key expires (EXPIRE only when current == 1,
\* rate_limit.py:21-23), so that it is let through again.
RefusalsEnd == \A t \in Tenants : count[t] > Limit ~> count[t] = 0
===============================================================================
