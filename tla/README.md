# Verification of the AI research platform

TLA+ modules that model the parts of the platform in which several processes,
tasks or requests share state; TLC configurations that check them on small
instances; and proofs, checked by TLAPS, of their main safety properties for
every size of instance. Paths below are relative to the repository; `service.py:64`
is a file and a line of it.

- [The system](#the-system)
- [The modules](#the-modules), one section for each part modelled
- [The runs](#the-runs) and their bounds
- [Fairness](#fairness)
- [The proofs](#the-proofs)
- [What the checks found](#what-the-checks-found)
- [What is left out](#what-is-left-out)
- [Plan](#plan)

## The system

An API process (FastAPI, one event loop) and worker processes (each a loop of
its own) share a PostgreSQL database and a bucket in MinIO. The API also talks
to Redis, to a language model, to a web search and to Google's sign-in.

| Part | State | Operations | Hard about it |
|---|---|---|---|
| Ingestion queue and worker (`src/ingestion/service.py`, `worker.py`, `models.py`) | rows of `ingestion_jobs`, `documents`, `chunks`; each worker's claim | claim (with the reset of stale claims), mark running, complete, fail | several workers, crashes, claims that expire under a living worker, lost commit replies |
| Document upload and deletion (`src/documents/service.py`, `storage.py`) | rows of `documents` and `ingestion_jobs`, objects in the bucket | upload, soft delete | concurrent uploads of one file or key, two stores without a common transaction, retries by clients |
| Document and chunk listing (`src/documents/service.py:201`, `:304`, `src/core/pagination.py`) | what a client's cursor says | paged queries | cursors at ties, rows that come and go between pages |
| LLM gateway (`src/evaluation/llm_gateway.py`) | breaker, token bucket, semaphore, attempts, threads | complete | outcomes out of order, timeouts that leave threads behind |
| Relevance evaluation (`src/evaluation/service.py`) | none | grade chunk after chunk through the gateway | a refused chunk is graded AMBIGUOUS and the next one asks again |
| Retrieval (`src/retrieval/service.py`, `routes.py`) and the connection pool (`src/core/database.py`) | connections in use, tasks of each request | dense, sparse and hybrid search, evaluation, web fallback, answer | nested checkout of connections, a branch that outlives its request |
| Ingestion pipeline (`src/ingestion/pipeline.py`) | none | extract, chunk, embed | boundaries of the splitting algorithm |
| Authentication (`src/auth`) | `users`, `refresh_tokens`, `api_keys` | first and later logins, rotation of refresh tokens, making, using and revoking API keys | two first logins, two rotations of one token, a key revoked under a request, clean-ups that are rolled back |
| Organizations (`src/tenants`) | memberships, invitations | create, invite, accept, remove | checks followed by inserts, roles read when a request begins |
| Tenant context (`src/tenants/middleware.py`, the policies of `alembic/versions/0002_multi_tenant_rls.py`) | a setting of each connection's transaction | set | which transaction has it, and what the next one finds |
| Rate limiter (`src/core/rate_limit.py`) | a counter with an expiry in Redis | is_allowed | edges of the window, failing open |
| MCP server, frontend, metrics, configuration, migrations | none of their own that interacts | | |

How they interact:

- An upload commits the document and its job together; the worker finds the job
  by polling. There are no notifications.
- The worker handles a job in three transactions: claim; process, which holds
  the row's lock from `mark_running` to the commit; and, after an exception, fail.
- Every request of the API has one database session, a dependency with a yield
  (`get_db_session`, `src/auth/dependencies.py:33-48`). What the handler raises is rolled back
  before the error is sent. When it returns, FastAPI (0.141.1 in `src/requirements.txt:93`)
  first sends the response and then runs the rest of the dependency, the COMMIT: a client is
  answered before what it is told of is stored, and if the process dies or the commit fails
  in between, it never is. A hybrid search opens two more sessions beside that one.
- Every request for a tenant's rows passes `get_current_tenant`
  (`src/tenants/dependencies.py`): the membership and its role are read once, the rate
  limiter is asked, and the transaction gets the tenant.
- Every handler runs in one transaction. Beside the pool, the gateway, Redis and the bucket,
  requests meet in the database: in committed rows, in row locks, and in unique indexes, whose inserts wait for one another.
- Evaluation calls the gateway, whose breaker, bucket and semaphore all callers
  of a process share.

What makes each of them correct:

- *Queue*: an attempt that was overtaken stores nothing; an attempt stores at
  most once; attempts are bounded; the job and the document agree on how the
  upload ended; every job comes to rest.
- *Upload*: an answer names a document that the client asked for and that is stored, unless
  it is the client's own and its commit is to come or failed; a live document has its file;
  nobody leaves files behind; a retry gets the same answer, with that exception; waits for
  rows of other transactions end.
- *Gateway*: the breaker opens for failed calls and for nothing else, and its
  count and state agree; calls end whether or not a reply comes; nobody is
  refused for ever.
- *Retrieval*: connections all come back; an answer rests on both lists;
  results once found are kept; every request ends.
- *Members*: an invitation lets in once; an organization does not lose its last
  administrator to administrators who only remove others.
- *Accounts*: one address is one user with an organization; a refresh token goes exactly when
  another is stored; what was revoked stays revoked.
- *Tenant context and limiter*: a query sees the rows of its own tenant; no tenant passes
  more than the fixed window can let through, and none is refused for ever.
- *Listing*: a walk to the end returns what was there, and nothing twice.
- *Algorithms*: no text is lost in chunks; fusion keeps what both rankings agree on.

## The modules

| Module | Models |
|---|---|
| `FencedDelivery` | abstract: what the queue promises about each job |
| `IngestionQueue` | `src/ingestion/service.py`, `worker.py` |
| `DocumentUpload` | `src/documents/service.py` (upload, soft delete), the bucket |
| `LLMGateway` | `src/evaluation/llm_gateway.py` |
| `HybridSearch` | `src/retrieval/service.py`, `routes.py`, the pool of `src/core/database.py` |
| `Membership` | `src/tenants/service.py` (members, invitations) |
| `Accounts` | `src/auth/service.py`, the API keys of `src/auth/dependencies.py` |
| `TenantRequests` | `src/tenants/dependencies.py`, `middleware.py`, `src/core/rate_limit.py`, the policy of `alembic/versions/0002_multi_tenant_rls.py` |
| `Listing` | the paged lists of `src/documents/service.py`, `src/core/pagination.py` |
| `TextChunker` | both chunkers of `src/ingestion/pipeline.py` |
| `RankFusion` | `_reciprocal_rank_fusion` of `src/retrieval/service.py` |
| `Algorithms` | runs the two on every input within bounds |
| `...Proofs` (eight) | the theorems about the module of that name; `HybridSearchProofs` holds those about `RankFusion` too, `IngestionQueueProofs` those about `TextChunker` |
| `MC...` | instances for TLC |

Every state machine has a type invariant `TypeOK`, its safety, action and liveness
properties at the end, and, before a definition, the wrong versions of it
(marked MUTANT, named `definition_Mistake`) that a property is known to detect:
put in place of the definition, TLC reports the property violated.

`DocumentUpload`, `Membership` and `Accounts` share a way of writing the database down.
`pc[r]` is the next call of request `r`, and what its open transaction has written is told
by its place (at `commit` a login whose `owner` is itself has inserted a user). Where an
answer is used later, `Respond` is a step between the handler and the commit, and a crash
between the two leaves the client with its answer and the tables without the row
(`DocumentUpload`: the answer of a crashed request; `Accounts`: the place `died`). An answer
that gets lost on the way needs no step: its client is one that does not use it. A query
reads the committed tables; an INSERT, UPDATE or DELETE has a guard that says who it waits
for (`...Held`, `...Locked`, `RowDeleted`); `get_db_session` is the step `Commit...`, or the
rollback of `Raise` and `Crash`. A row with a fresh id is named by the request that
inserted it, so that the number of requests bounds the rows; in `Membership` and `Accounts`
a request that leaves no row is forgotten and its name used again, so that it does not bound
the requests. `before[r]`, there, is a history: who had finished when `r` was sent.

### IngestionQueue

Variables are the committed columns of `ingestion_jobs` (`status`,
`attempt_count`, `version`, and `stale`, what the reset asks of `claimed_at`), of
`documents` (`doc_status`, `deleted`), the batches of chunks committed by each
attempt (`stored`), and for each worker its place in the loop and the values it
read back when it claimed (`pc`, `claim`).

| Action | Code |
|---|---|
| `upload_document`, `soft_delete_document` | the API's writes, `documents/service.py:100-123`, `263-301` |
| `ClaimExpires` | a claim passes the cutoff of `service.py:37-45` |
| `claim_next_job`, `poll_empty` | `service.py:25-86`: the reset of stale claims, then `FOR UPDATE SKIP LOCKED`, then the commit of `worker.py:175` |
| `mark_running` | `service.py:89-113` and `worker.py:66-74`: version check; on success the transaction stays open and holds the row's lock |
| `complete_job` | `service.py:116-166` and the commit; its reply may be lost |
| `ProcessingFails` | any exception before the commit, with the rollback |
| `fail_job` = `DeadLetter` or `Requeue` | `service.py:169-220`: decided by the worker's own attempt number |
| `FailUpdateLost` | `worker.py:113-118` |
| `Crash`, `Restart` | the process dies with its open transaction; somebody starts it again |

The claim transaction and the fail transaction change the row in one statement
and commit, so each is one step. The processing transaction is long: it is the
interval in which `pc[w] = "running"`, and its lock is `Locked`. For that reason
the status `running` is never visible to anyone and is not in the model; nor are
`failed` (jobs) and `processing` (documents), which no code writes. The reset's
UPDATE has no SKIP LOCKED and waits for every stale row that is locked:
`ResetNotBlocked`. The model has no step for a crash between two jobs, which
loses nothing.

`Delivery == INSTANCE FencedDelivery WITH ...` is the refinement: a hand-out is an
attempt, and the newest hand-out is live while some worker holds the version the
row has. `FencedDelivery` deliberately does not promise that a job is stored
once: when the reply to a commit is lost, the job is queued again and the next
attempt adds a second batch of chunks.

### DocumentUpload

A request is a sequence of calls, and `pc[r]` is the next one. A query sees what
is committed; an insert waits while another open transaction has inserted the
same unique value (`ContentHeld`, `KeyHeld`) and fails if a committed row has it
(`ContentTaken`, `KeyTaken`). The document a request creates has a fresh id, so
it is named by the request; its job, created with it, carries `key[r]`.

| Action | Code (`src/documents/service.py`) |
|---|---|
| `Begin` | the route, `routes.py:36-65`: key from a required header, hash of the content |
| `CheckKey`, `CheckContent` | 49-65, 67-93 |
| `PutObject` | 95-98; an error may or may not have stored the object |
| `InsertDocument`, `InsertJob` | the flush in its savepoint, 120-123, in the order of the foreign key |
| `Respond` | `routes.py:62-65`, the 201, sent before the commit |
| `DeleteOwnObject` | 124-132 |
| `FindByKey`, `FindByContent` | `_find_existing_upload`, 156-198, and the ConflictError |
| `Commit`, `Crash` | `get_db_session` |
| `DeleteDocument`, `CommitDelete`, `CrashDelete` | 263-301: the file is removed before the commit |

`FilesKept` exempts documents for which a DELETE has reached the bucket: after a
crash before the commit such a document is live and has no file. The 204 of a DELETE, too, is
sent before the commit; no property is about who has seen it.

`AnswerIsStored` and `SafeRetry` are about every answer given, also of requests at their commit
and of those that died there. Both have one exception, and it is narrow: `LostAfterAnswer`, a
client that was told of its own new document before a commit that then failed. Nobody else is
ever told of that document, and the key and the content are free for a retry, which is told
of another one.

### LLMGateway

The callers are tasks of one event loop; an action ends where the task waits.
The breaker's lock is never held across an await, so `check`, `record_success` and
`record_failure` happen inside the steps of the callers.

| Action | Code (`src/evaluation/llm_gateway.py`) |
|---|---|
| `check` | 79-106, called in 201 |
| `acquire_token`, `enter_semaphore` | 202, 204 |
| `AttemptSucceeds` | 204-211 with `record_success`, 108-115 |
| `AttemptFails`, `AttemptTimesOut`, with `RetryOrGiveUp` | 212-242 with `record_failure`, 117-137 |
| `BackoffEnds` | tenacity's wait, 222-227: the permit is kept, no new token is taken |
| `AbandonedThreadEnds` | the thread of `asyncio.to_thread` after `wait_for` gave up |
| `RecoveryTimeoutPasses` | the clock of 90-91 |
| `ComesBack` | `evaluation/service.py:104-130`: the next chunk to grade |

The level of the token bucket is left out (a token comes sooner or later), and
so is the size of the thread pool: a thread that is abandoned may not have
started, and then it never does.

### HybridSearch

`free` counts the connections the pool can give out; a request holds one from
its first query, which authenticates the caller, to the end of `get_db_session`
(`Holders`), and a branch holds one while it queries (`QueryingBranches`).

| Action | Code |
|---|---|
| `Arrive`, `Connect`, `ConnectTimesOut` | `auth/dependencies.py:33-100`, `core/database.py:58-69` |
| `FinishPlain` | a search with one list, or a request refused by authentication |
| `Gather`, `BranchConnect`, `BranchTimesOut`, `BranchQueried` | `retrieval/service.py:223-249` |
| `Join`, `GatherRaises` | what `asyncio.gather` does: all rows, or the first exception at once |
| `Evaluate`, `FallbackWebSearch`, `SynthesizeAnswer` | 262-280, 285-316, 412-439, 364-409 |
| `Respond` | 282, `routes.py:57-87`, the response, then the commit and the end of the session |

A timeout needs `free = 0`: SQLAlchemy's pool fails a waiter only if no
connection comes back in time.

### Membership

One organization: `member[u]` is a user's row and role, `status[i]` and `lapsed` are an
invitation, `ctx[r]` is the role that `r` read when it began.

| Action | Code (`src/tenants/service.py`) |
|---|---|
| `Arrive` | the routes, `routes.py:63-122` |
| `Resolve` | `dependencies.py:20-49` with 83-113: the role, once; the check against removing oneself, 151 |
| `FindMember`, `DeleteMember`, `CommitRemoval` | 143-166; a DELETE that finds no row is no error |
| `CheckMember`, `CheckPending`, `CommitInvite` | 178-232; no unique index stands behind the second check |
| `LockInvite`, `InsertMember`, `CommitAccept` | 263-307: FOR UPDATE, and `uq_org_memberships_org_user` |
| `Lapse`, `Crash` | `expires_at` passes; the process dies |

`LockInvite` of a lapsed invitation raises and leaves the status: the code sets it to
`expired`, which the CHECK constraint of `models.py:122` forbids.

### Accounts

| Action | Code |
|---|---|
| `Respond` | `auth/routes.py`: the response with the token or the key, before the commit |
| `FindUser`, `InsertUser`, `CommitLogin` | `auth/service.py:49-77`: a user that is not there is inserted and flushed, and gets an organization (`tenants/service.py:25-65`) in the same transaction |
| `FindToken`, `DeleteToken`, `CommitRefresh` | `auth/service.py:114-151` |
| `CommitCreateKey`, `FindKey`, `UpdateKey`, `CommitRevoke` | `auth/service.py:157-230` |
| `FindKey`, `UpdateKey`, `CommitUse` | `auth/dependencies.py:103-129`: a request with a key writes `last_used_at` |
| `Expire`, `Deactivate`, `Crash` | `expires_at`; an operator; the process dies, at `commit` after the response |

A client may send a token or a key as soon as it has the response (`Given`), when the row is
not stored yet, or after a crash at the commit (`died`), when it never will be: it is not
found. `ExchangedOnceUnlessOverlapping` is about the tables: the old token goes if and only if
a new one is stored. It is no promise that a client can go on. One that misses the response of
a refresh that commits has lost its session, and so has one that forgets the old token at a
response whose commit fails.

`CommitUse` changes no column that the model has: SQLAlchemy's UPDATE names the assigned
columns only. Its mutant, which writes the whole row, revives revoked keys.

### TenantRequests

| Action | Code |
|---|---|
| `Begin` | `auth/dependencies.py:33-100`, `tenants/dependencies.py:20-37`: a connection, the membership |
| `Allow`, `Refuse`, `FailOpen` with `Increment` | `core/rate_limit.py:19-58` and `tenants/dependencies.py:38-49` with `set_tenant_context` |
| `Query` | a handler's query; `Visible` is the policy `tenant_isolation` |
| `OpenBranch`, `CloseBranch` | the sessions of a hybrid search, `retrieval/service.py:223-249` |
| `Commit`, `Raise` | `get_db_session`; both end the setting, as `is_local` is true |
| `Tick`, `RedisRestarts` | keys expire; Redis loses them |

`superuser` is chosen at the start: as deployed the application's role is the superuser,
whom no policy binds; `RowsOfOwnContext` says what the policies would do for another role.
`count` is cut at `Limit + 1`, above which nothing is told apart, and `passed` is a history
of as many ticks as a window has.

### Listing

A client walks through the chunks of a document or through the documents (`list_jobs`
pages the same way), while `CommitBatch`, `CommitUpload` and `DeleteDocument` change the tables.
`Pages` are all the answers that ORDER BY, LIMIT and the cut allow, so that ties may come in
any order. `NextDocuments` can only fail: the cursor is a string that PostgreSQL will not
compare with a timestamp. With a limit of 0 `FirstPage` fails on a list that is not empty.

### TextChunker, RankFusion, Algorithms

A text is a sequence of characters with their places, so that a property can say where a
letter went; of the kinds of characters only those are kept that the separators, `strip` and
the end of a sentence tell apart. Distances between sentences are integers that any
embedder could give. Scores of the fusion are exact: a score is a fraction, compared by
multiplying crosswise. Loops and recursion are recursive functions (`SplitText` is one from
the levels of separators to functions on texts; `Merge` is one over the parts, whose step
`Extend` is the loop's body).

Each of the two picks an input and applies the code once; a state is an input with its
result (`ChunkerSpec`, `FusionSpec`). `Algorithms` runs them side by side: its steps are
theirs, with the other's variables unchanged.

`ChunksKeepTheText` follows letters: of the separator `". "` the code drops the full stop where
two chunks meet. Its claim about order has one exception, and it is narrow: `KeepsStale` says that at some level
a part too large for a chunk follows one that is not (`pipeline.py:153`, where `current` is
emitted and kept). Everywhere else, without overlap, the chunks have the text's letters in its
order.

## The runs

| Run | Instance | Shows | Distinct states |
|---|---|---|---|
| `queue` | 2 jobs, 2 workers, 3 attempts | `TypeOK`, `AttemptStoresOnce`, `DeadIsOver`, `JobAndDocumentAgree`, `FencedStore`, `ImplementsDelivery`, `EventuallySettled` | 901,877 |
| `queue_ends` | 1 job, 1 worker, 2 attempts | refutes `EveryJobEnds` | |
| `upload` | 3 requests, 2 keys, 2 contents | `TypeOK`, `AnswerIsStored`, `FilesKept`, `NoOrphans`, `SafeRetry`, `EveryRequestEnds` | 749,077 |
| `gateway` | 4 calls, threshold 2, 2 attempts, 2 permits | `TypeOK`, `CountMatchesState`, `OpensForFailedCalls`, `EveryCallEnds`, `NotRefusedForEver` | 33,059 |
| `search` | 3 requests, 3 connections | `TypeOK`, `PoolAccounts`, `AnswersFromBothLists`, `FindingsAreKept`, `EveryRequestEnds`, `PoolRefills` | 56,203 |
| `search_jam` | 2 requests, 2 connections | refutes `PoolNeverJams` | |
| `members` | 2 users, 2 roles, 4 requests | `TypeOK`, `InvitationUsedOnce`, `PendingTwiceOnlyIfOverlapping`, `LastAdminLostToStaleRole` | 148,733 |
| `accounts` | 2 addresses, 4 requests | `TypeOK`, `OneAccountPerAddress`, `ExchangedOnceUnlessOverlapping`, `RevocationIsFinal` | 576,666 |
| `refresh_once` | 1 address, 3 requests | refutes `OneTimeUse` | |
| `tenant` | 2 tenants, 2 requests, 2 connections, 2 requests in 2 ticks | `TypeOK`, `RowsOfOwnContext`, `AtMostTwiceTheLimit`, `RefusalsEnd` | 606,600 |
| `listing` | 5 chunks, 2 batches, 3 documents, limits 0 to 3 | `TypeOK`, `WalkReturnsEachRow` | 8,570 |
| `algorithms` | texts of 7 characters, 5 pieces of sentences, lists of up to 3 of 4 chunks | `ChunksKeepTheText`, `FusionRespectsBothRankings` | 109,835 |

Why the bounds are enough to be interesting, and what bounds them:

- *Queue*. Two workers are the least with which one can overtake the other; the
  three attempts of the schema let an overtaken worker come back between two
  later attempts; two jobs make the order of claiming and the reset of somebody
  else's stale claim matter. No extra bound is needed: `attempt_count` is bounded
  by `max_attempts`, and the version by two per attempt. Deadlock is checked.
- *Upload*. With three requests, two can race while the third, committed,
  deleted or crashed, holds the key of one and the content of the other. Each
  request is sent once; a client's retry is another request with the same key
  and content.
- *Gateway*. Four calls with a threshold of two: two open the breaker, one can
  be a probe, and one that was admitted earlier is still out. Only calls that
  were refused come back, which bounds `failure_count` and `abandoned`.
- *Search*. Three connections for three requests: enough for one search to get
  everything, for two to block one another in part, for three to jam.
- *Members*. Each of the four requests can be used for an invitation, an acceptance or, any
  number of times, a removal. That is enough for two invitations of one address, a second
  acceptance beside a first, and an acceptance beside a removal of the same user; and for a
  guest to become an administrator and two administrators to remove each other.
- *Accounts*. Each of the four requests can be used for a row, or any number of times for what
  leaves none. That is enough for two first logins, a rotation and its rival; for a login, a
  key, and requests that use and revoke it; and for a login that dies after its response beside
  those. A second address tells one user from another.
- *Tenant*. Each connection is found by each tenant as the other left it, and one search can
  take both. With a limit of two in a window of two ticks the allowance can be used up in any
  part of a window. The model asserts nothing about more than one window's length.
- *Listing*. With two batches every index comes twice, and pages of one to three end inside
  and outside a pair. A walk is as long as it is, there is no bound on it.
- *Algorithms*. Seven characters with chunks of two or three reach every level of separators
  and parts that are too large at each of them; three rows in each of two lists, with `RRF_K`
  down to 1, reach the edge at which presence in both lists ceases to decide.

The runs on uploads, gateway, search, members, accounts and algorithms switch the deadlock
check off, because there a finished system has nothing left to do; on the first three the
liveness properties take its place. `members` and `accounts` use the symmetry of their
requests, which is sound for invariants and for action properties; they have no liveness
property.

## Fairness

- *Queue* (`Fairness` of `IngestionQueue`): the worker loop keeps running
  (`worker.py:169`), the clock runs, so a claim that stays claimed expires, a
  pipeline run or a commit returns or raises, and a dead worker is started again.
  The compose file has no restart policy, so the last is a duty of whoever
  operates the system; the ADR counts on it ("Worker restarts -> picks up queued
  jobs automatically", `final_adr.md:835`). Nothing makes uploads, deletions,
  successes or failures happen.
- *Upload*: a running handler goes on, and the calls it awaits return or raise.
  Crashes, deletions and new requests need not happen.
- *Gateway*: the event loop runs ready tasks, timeouts, backoffs and the
  recovery timeout fire, tokens come. No reply is assumed ever to come, and no
  thread to end. Weak fairness suffices for the semaphore in a finite system: a
  waiter that loses to others all the time sees them end.
- *Search*: queries and services outside return or raise; a waiter for a
  connection is either served or timed out. No request need arrive. The clients
  of the model and of the web search have timeouts of their own.
- *Tenant requests*: time passes (`WF_vars(Tick)`), and nothing else: any request may hang, no
  client need ask, and a refused tenant may ask as often as it likes.
- *Members, accounts, listing, algorithms*: none. What they say is safety only: a handler's
  waits for rows are of the kind whose end the run `upload` shows.

Fairness is per request or per step of a worker, never per outcome.

## The proofs

Assumptions, each in the module that declares the constants: `JobsAssumption` and
`MaxAttemptsAssumption` (jobs are numbered from one, at least one attempt),
`GatewayAssumption` (finitely many calls; threshold, attempts and permits are
positive), `ChunkerAssumption` (chunk sizes are positive, as `chunk_overlap < chunk_size` of
`pipeline.py:114` needs), `FusionAssumption` (`RRF_K` is a natural number), `PoolAssumption` (finitely many requests, at least one connection);
`RequestsAssumption` and `InputsAssumption` (in uploads, names of outcomes are no
requests, and the marks for no key and no content are none),
`FoundersAssumption` and `RolesAssumption` (founders are users; `admin` is a role),
`TenantsAssumption`, `ConnectionsAssumption` and `LimitAssumption` of `TenantRequests`, and,
for `Listing`, a positive number of chunks and finite tables. Unless it is said here, sets
need not even be finite.

Where a property is about data (a text, a list, the ticks of a window), its proof is by
induction on the data. The library's induction theorems take a predicate, which the provers
cannot instantiate; here induction is a statement about a set of naturals (`Induction`,
`DownwardInduction`, from `LeastOfNaturals`, the library's theorem about minimal elements of
well-founded relations applied to such a set), and the predicate is a set made for the
occasion. `UpwardRecursion`, `DownwardRecursion` and `LevelRecursion` say in the same way,
with the step of the recursion given as a function, that a recursive function has the
value its definition says.

**IngestionQueueProofs.** `complete_job` has no version condition, so that "the newest
attempt stores" is not inductive: it needs to be known why nobody overtaken gets
as far. `FenceInv` says what a claim that a worker carries is worth:
`ClaimsWereMade` (it is not newer than the row), `ClaimsDiffer` (two workers never
carry the same attempt or the same version of a job), `VersionIsNewest` (a claim
with the row's version has the row's attempt number), `ProcessesNewestClaim`,
`UnfinishedUnstored` (an attempt still on its way has stored nothing). From it
follow `QueueTypes`, `QueueProcessesNewest`, `QueueStoresOnce` and the action property
`QueueFencedStore`. `QueueDeadIsOver` and `QueueTablesAgree` are inductive relative to it.
`QueueImplementsDelivery` maps each step to a step of `FencedDelivery`: a claim is
Deliver, a completion Store, the failure or death of a live holder Abandon
(`LettingGo`), everything else a stutter.

Its second half is about the chunkers, for a text of any length, any size of chunks and any
smaller overlap. `ConcatText` and `SliceText` relate a text's letters and their order to
those of its pieces. `SplitKeeps` (downwards over the text) says that the parts are slices
that leave out separators only. `ExtendKeeps` and `MergeKeeps` are the loop: what has
been seen is in the chunks or in `current` (`Seen`), nothing is longer than allowed (`Bounded`),
and as long as no part that fits came before one that does not (`NoneSmall`), the chunks are
in order with `current` behind them (`OrderedState`). `HardSplitKeeps` covers the text with slices that
overlap; `OverlapKeeps` adds one overlap to the bound. `SplitTextKeeps` puts them together,
level by level from the hard split up, and there `KeepsStale` is needed level by level in the
same way. `SentencesKeep` and `GroupsKeep` (downwards again) and `FlattenByLists` lead to
`SemanticKeeps`, for any boundaries whatever, since `Boundaries` is only known to be a set of
places between sentences. `ChunkerChunksKeepTheText` is their sum.

**LLMGatewayProofs.** `GatewayInv` adds to the properties that a call in its backoff has
an attempt left and that the count never exceeds the failed calls.
`GatewayCountMatchesState` holds because every record restores it, whichever state the
call was admitted in; `GatewayOpensForFailedCalls` combines it with the bound on the
count.

**HybridSearchProofs.** `SearchInv` is the accounts of the pool with `NoEarlyBranch` (before
gather a request has no branches, so that starting them loses none) and
`AnswersFromBothLists`. Lemmas say what each step does to the sets of holders;
cardinality theorems of the library turn that into arithmetic. That the pool is
never overdrawn (`SearchTypes`) follows from the accounts.

Rank fusion, for lists of any length, any `RRF_K` and any `top_k`: comparing fractions
crosswise is transitive (`FractionsOrdered`), so that `Before` is a strict total order of what
was found (`BeforeIsAnOrder`); hence places are one to one, by cardinality, and `Fuse` lists
the chunks by place (`FuseByPlace`). `AgreementWins`: a chunk before another in both lists has
the larger sum. `FoundByBothWins`: in lists of at most `RRF_K + 1` chunks, two shares are
more than any one.

**DocumentUploadProofs.** `UploadInv` adds to `AnswerIsStored` what relates a request's place
to the tables: `OwnRows` (a row is committed by the request that ends with it as its answer;
before its response a request has no answer, and at its commit, or dead there, none but its
own document), `UniqueRows` (what the unique constraints keep apart, said of committed rows and
of those of open transactions together, answered or not; that inserts wait for open
transactions is what makes it inductive) and `Files` (step by step, whether a request's object
is in the bucket). `FilesKept` and `NoOrphans` follow from `Files`. `SafeRetry` follows from
`AnswerIsStored` and `UniqueRows`: while an answered request is at its commit, no other with
its content is there and none is committed.

**MembershipProofs.** `MembershipInv` says that an invitation's acceptances past the lock are
one, in flight or committed (`AcceptedOnce`), that who passed the check for pending
invitations is joined only by what it could not see (`Overlaps`), and that an inserted
member was none (`InsertedIsNew`). `MembershipLastAdmin` is an action property: of the steps
that change a membership, an acceptance takes nobody's role, and a removal that leaves no
administrator was sent by someone else than it removes, who therefore is none.

**AccountsProofs.** `UniqueUsers` says of each login at its response or its commit that it acts
for a committed user or is the only one to insert it, and of one that died after its response
that it acts for a committed user or would have been a new one. `Overlaps`, as above, gives the second half of
`ExchangedOnceUnlessOverlapping`; the first half is inductive, as the deletion and the new
token are one commit. `CommittedRows` says that a row is left by a commit only, and that what a
request has found, unlike what it was sent with, is a row; it gives `RevocationIsFinal`: only
a request that has no key yet makes one active.

**TenantRequestsProofs.** `OwnConnections` (nothing is used twice) and `OwnContexts` (a
connection carries the tenant of the request whose session it is, or none) give
`RowsOfOwnContext`. `IncrementKeeps` is the fact about the script that keeps count and expiry
in step.

`AtMostTwiceTheLimit` sums over a window whose length is a constant. `SumIsRunningTotal` turns the
sum into the last value of a running total, by induction on the window, and `WindowInv` is
what is inductive about that total: what passed since the present key was made is at most
the key's count and at most the limit, and what passed before it, in the rest of the window,
at most the limit, since it was the previous key that let it through. A tick drops the oldest term;
when a key expires its part becomes the earlier one, and by then the part before it has left
the window (`TickKeepsWindows`).

**ListingProofs.** `ReturnedUpToCursor` is the loop invariant of a walk: up to the cursor,
everything that was there has been returned, but for the likes of a row, and nothing beyond
it. `LastKeyCovers` says why a page keeps it, whatever order ties come in. A page that is not
cut is all the rows there are, by cardinality.

Every invariant and every action property that a run checks is stated by a theorem. Only
model-checked are the seven liveness properties (`EventuallySettled`, `EveryRequestEnds` of
uploads and of searches, `EveryCallEnds`, `NotRefusedForEver`, `PoolRefills`, `RefusalsEnd`):
fairness is defined by ENABLED, which the provers do not handle. The theorems about chunkers
and fusion are about `ChunkerSpec` and `FusionSpec`, of which the `Spec` that the run
checks is the composition.

## What the checks found

Three runs refute a statement of the repository:

1. *A job can stay queued for ever* (`queue_ends`). A death or a lost update on the
   last attempt leaves a row that no claim takes and nobody dead-letters, against
   `final_adr.md:826`.
2. *Searches can jam the pool* (`search_jam`) until its timeout fails some of them,
   against `final_adr.md:879`.
3. *A refresh token can be exchanged twice* (`refresh_once`), by refreshes that overlap,
   against `auth/service.py:104`. That nothing but an overlap does it is proved.

The others were met while modelling. The models behave as the code does, and no
run is spent on them:

- `fail_job` checks no version, against `ingestion/service.py:3-5`: a late worker can turn a
  completed job back to queued. What is fenced all the same is proved.
- Responses are sent before the commit (`auth/dependencies.py:46`): a client can be given a
  document, a token or a key that never exists, and a retry with the same key
  (`documents/routes.py:47`, "for safe retries") is told of another document.
- A key can name two documents, against `documents/service.py:37`.
- A deleted file cannot be uploaded again: the unique constraint covers deleted rows, the
  checks do not, and the advice to retry (`documents/service.py:142`) does not help.
- A half-open breaker admits everybody, against `llm_gateway.py:54`; timed-out calls go on
  beside their retries, against `llm_gateway.py:12`.
- The deletion of an expired refresh token is rolled back by the exception that follows
  it, against the comment of `auth/service.py:127`.
- Accepting a lapsed invitation is a server error, and the invitation stays pending and
  blocks its successor (`tenants/service.py:281`).
- The second page of documents or jobs is always an error (`documents/service.py:225`), and a
  limit of 0 is one on any list that is not empty (`documents/routes.py:71`).
- A chunker emits text twice and out of order when a part too large for a chunk follows it
  (`ingestion/pipeline.py:154`).
- The rate limiter's window is fixed where `final_adr.md:925` calls it sliding.
- Row-level security binds nobody as deployed, and would empty every hybrid search if it did,
  against `final_adr.md:130`.

Seen while reading, and against no statement of the repository: a retry in the gateway takes no
new token; a success of a call admitted earlier closes an open breaker directly;
a worker that finishes a document deleted meanwhile sets it to ready again (it
stays hidden by `deleted_at`); `worker_max_concurrent_jobs` is only logged; the MCP server keeps
its storage client before the bucket is ensured, and does not try again when that failed
(`mcp_server/adapters/research_platform.py:224-228`).

## What is left out

- Columns nothing reads back: `worker_id`, `started_at`, `completed_at`,
  `error_message`, `chunk_count`.
- The contents of files, chunks, embeddings, prompts and answers. A batch of
  chunks is counted, not its members; results are their origin.
- The database itself: PostgreSQL's READ COMMITTED, row locks and unique indexes
  are assumed to work, and so are the bucket's single operations. Losing the
  database or the bucket is not modelled.
- A claim whose transaction rolls back changes nothing and is not a step. (While it is
  open, another worker passes over its row and takes the next one; no property
  depends on that order.)
- One tenant is modelled in `DocumentUpload`, `Membership` and `Listing`: tenants share no rows. What they
  share, connections and Redis, is in `TenantRequests`.
- `create_organization` with a slug of its own inserts two rows and meets one unique index,
  and races like a first login; the personal organization is a step of `Accounts`.
- Google's verification of a sign-in, the signing of access tokens and hashing are taken to
  work; the role of a request is modelled where it decides (`Membership`).
- In `DocumentUpload` a deletion's UPDATE and the call to the bucket are one step,
  since nobody sees or waits for the first before the commit. The worker's updates
  of the document are in `IngestionQueue`.
- In `HybridSearch` a statement of the request's own session is not told apart from
  its first one; pool pre-ping and recycling are invisible.
- Extraction and embedding belong to libraries, and so does PostgreSQL's ranking; the parsing
  of grades, the MCP server, the frontend, metrics and configuration keep no state that
  interacts (see PROJECT.json).

## Plan

In this order; modules are added beside the present ones.

1. `DocumentLifecycle`: uploads, deletions and the queue together, with the bucket: a
   document processed is one whose file was there; it composes `DocumentUpload` and
   `IngestionQueue`.
2. An abstract breaker that `LLMGateway` implements, and an abstract account store (one
   user to an address, tokens with one owner) that `Accounts` implements, with the
   refinements proved.
3. `create_organization` in `Membership`, with the conflict on its slug.
