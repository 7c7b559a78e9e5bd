------------------------ MODULE TenantRequestsProofs ------------------------
(***************************************************************************)
(* Proofs about TenantRequests for any tenants, requests, connections,     *)
(* limit and window: what a setting that ends with its transaction is      *)
(* worth on connections that requests of several tenants use in turn, and  *)
(* how much a fixed window lets through.                                   *)
(***************************************************************************)
EXTENDS TenantRequests, FiniteSetTheorems, FunctionTheorems, TLAPS

\* What a request holds agrees with where it is.
Shapes ==
  \A r \in Requests :
    /\ pc[r] = "new" => conn[r] = "none"
    /\ pc[r] # "new" => conn[r] \in Connections /\ tenant[r] \in Tenants
    /\ pc[r] = "close" <=> branch[r] # "none"
    /\ pc[r] \in {"branch", "close"} => search[r]
    /\ pc[r] = "query" => ~search[r]

\* No connection is used twice.
OwnConnections ==
  \A r, s \in Requests :
    /\ conn[r] # "none" => conn[r] # branch[s] /\ (r # s => conn[r] # conn[s])
    /\ branch[r] # "none" /\ r # s => branch[r] # branch[s]

\* A connection carries the tenant of the request whose session it is, once that was set, and
\* none otherwise: neither in the pool nor in a branch.
OwnContexts ==
  /\ \A c \in Connections : (\A r \in Requests : conn[r] # c) => context[c] = "none"
  /\ \A r \in Requests :
       /\ pc[r] = "limit" => context[conn[r]] = "none"
       /\ pc[r] \in InFlight \ {"limit"} => context[conn[r]] = tenant[r]

TenantInv == TypeOK /\ Shapes /\ OwnConnections /\ OwnContexts /\ RowsOfOwnContext

-------------------------------------------------------------------------------
(* The script keeps the count and the expiry of a key in step. *)

\* INCR and EXPIRE in one script: a key that is there has an expiry (rate_limit.py:19-28).
LEMMA IncrementKeeps ==
  ASSUME TypeOK, NEW t \in Tenants, Increment(t)
  PROVE  /\ count' \in [Tenants -> 0 .. Limit + 1] /\ ttl' \in [Tenants -> 0 .. Window]
         /\ \A u \in Tenants : count'[u] > 0 <=> ttl'[u] > 0
<1> DEFINE c == IF count[t] > Limit THEN count[t] ELSE count[t] + 1
           x == IF count[t] = 0 THEN Window ELSE ttl[t]
<1>1. count[t] \in 0 .. Limit + 1 /\ ttl[t] \in 0 .. Window /\ (count[t] > 0 <=> ttl[t] > 0)
  BY DEF TypeOK
<1>2. c \in 0 .. Limit + 1 /\ x \in 0 .. Window /\ c > 0 /\ x > 0
  BY <1>1, LimitAssumption
<1>3. count' = [count EXCEPT ![t] = c] /\ ttl' = [ttl EXCEPT ![t] = x]
  BY DEF Increment
<1> HIDE DEF c, x
<1> QED
  BY <1>2, <1>3 DEF TypeOK

-------------------------------------------------------------------------------
(* The inductive invariant holds at the start and is kept by every step. *)

\* Every connection is idle and carries no tenant.
LEMMA TenantInvInit == Init => TenantInv
<1> SUFFICES ASSUME Init PROVE TenantInv
  OBVIOUS
<1>1. TypeOK
  <2>1. count \in [Tenants -> 0 .. Limit + 1] /\ ttl \in [Tenants -> 0 .. Window]
    BY LimitAssumption DEF Init
  <2>2. passed \in [Tenants -> [Ages -> Nat]]
    BY DEF Init
  <2>3. \A t \in Tenants : count[t] > 0 <=> ttl[t] > 0
    BY DEF Init
  <2> QED
    BY <2>1, <2>2, <2>3 DEF Init, TypeOK, InFlight
<1>2. Shapes /\ OwnConnections /\ OwnContexts /\ RowsOfOwnContext
  BY DEF Init, Shapes, OwnConnections, OwnContexts, RowsOfOwnContext, InFlight
<1> QED
  BY <1>1, <1>2 DEF TenantInv

\* A request that fails leaves its connections without a tenant.
LEMMA RollBackKeeps ==
  ASSUME TenantInv, NEW r \in Requests, RollBack(r), UNCHANGED superuser,
         count' \in [Tenants -> 0 .. Limit + 1], ttl' \in [Tenants -> 0 .. Window],
         \A t \in Tenants : count'[t] > 0 <=> ttl'[t] > 0,
         passed' \in [Tenants -> [Ages -> Nat]]
  PROVE  TenantInv'
<1> USE DEF TenantInv, request, limiter
<1>1. TypeOK'
  BY DEF TypeOK, Shapes, InFlight, RollBack, Forget, Goto
<1>2. Shapes'
  BY DEF TypeOK, Shapes, InFlight, RollBack, Forget, Goto
<1>3. OwnConnections'
  BY DEF TypeOK, Shapes, OwnConnections, RollBack, Forget, Goto
<1>4. OwnContexts'
  BY ConnectionsAssumption
  DEF TypeOK, Shapes, OwnConnections, OwnContexts, InFlight, RollBack, Forget, Goto
<1>5. RowsOfOwnContext'
  BY DEF TypeOK, Shapes, OwnConnections, OwnContexts, RowsOfOwnContext, InFlight, RollBack,
         Forget, Goto
<1> QED
  BY <1>1, <1>2, <1>3, <1>4, <1>5

\* The connection of the session carries the tenant of the request.
LEMMA SetContextKeeps ==
  ASSUME TenantInv, NEW r \in Requests, pc[r] = "limit", SetContext(r),
         count' \in [Tenants -> 0 .. Limit + 1], ttl' \in [Tenants -> 0 .. Window],
         \A t \in Tenants : count'[t] > 0 <=> ttl'[t] > 0,
         passed' \in [Tenants -> [Ages -> Nat]]
  PROVE  TenantInv'
<1> USE DEF TenantInv, request, limiter
<1>1. TypeOK'
  BY DEF TypeOK, Shapes, InFlight, SetContext, Goto
<1>2. Shapes'
  BY DEF TypeOK, Shapes, InFlight, SetContext, Goto
<1>3. OwnConnections'
  BY DEF TypeOK, Shapes, OwnConnections, SetContext, Goto
<1>4. OwnContexts'
  BY ConnectionsAssumption
  DEF TypeOK, Shapes, OwnConnections, OwnContexts, InFlight, SetContext, Goto
<1>5. RowsOfOwnContext'
  BY DEF TypeOK, Shapes, OwnConnections, OwnContexts, RowsOfOwnContext, InFlight, SetContext,
         Goto
<1> QED
  BY <1>1, <1>2, <1>3, <1>4, <1>5

\* A request takes an idle connection.
LEMMA BeginKeeps ==
  ASSUME TenantInv, NEW r \in Requests, Begin(r)
  PROVE  TenantInv'
<1> USE DEF TenantInv, request, limiter
<1>1. TypeOK'
  BY DEF TypeOK, Shapes, InFlight, Begin, Idle, Goto
<1>2. Shapes'
  BY DEF TypeOK, Shapes, InFlight, Begin, Idle, Goto
<1>3. OwnConnections'
  BY DEF TypeOK, Shapes, OwnConnections, Begin, Idle, Goto
<1>4. OwnContexts'
  BY ConnectionsAssumption
  DEF TypeOK, Shapes, OwnConnections, OwnContexts, InFlight, Begin, Idle, Goto
<1>5. RowsOfOwnContext'
  BY DEF TypeOK, Shapes, OwnConnections, OwnContexts, RowsOfOwnContext, InFlight, Begin, Idle,
         Goto
<1> QED
  BY <1>1, <1>2, <1>3, <1>4, <1>5

\* The limiter lets a request pass, or refuses it.
LEMMA LimitKeeps ==
  ASSUME TenantInv, NEW r \in Requests, Allow(r) \/ Refuse(r) \/ FailOpen(r)
  PROVE  TenantInv'
<1>1. pc[r] = "limit" /\ tenant[r] \in Tenants
  BY DEF TenantInv, Shapes, Allow, Refuse, FailOpen
<1>2. CASE Allow(r)
  <2>1. Increment(tenant[r]) /\ SetContext(r)
    BY <1>2 DEF Allow
  <2>2. passed' \in [Tenants -> [Ages -> Nat]]
    <3>1. 0 \in Ages
      BY LimitAssumption DEF Ages
    <3>2. passed[tenant[r]][0] + 1 \in Nat
      BY <1>1, <3>1 DEF TenantInv, TypeOK
    <3>3. passed' = [passed EXCEPT ![tenant[r]][0] = passed[tenant[r]][0] + 1]
      BY <1>2 DEF Allow
    <3> QED
      BY <1>1, <3>1, <3>2, <3>3 DEF TenantInv, TypeOK
  <2> QED
    BY <1>1, <2>1, <2>2, IncrementKeeps, SetContextKeeps DEF TenantInv
<1>3. CASE Refuse(r)
  BY <1>1, <1>3, IncrementKeeps, RollBackKeeps DEF TenantInv, TypeOK, Refuse
<1>4. CASE FailOpen(r)
  <2>1. SetContext(r) /\ passed' \in [Tenants -> [Ages -> Nat]]
    BY <1>4 DEF FailOpen, TenantInv, TypeOK
  <2>2. /\ count' \in [Tenants -> 0 .. Limit + 1] /\ ttl' \in [Tenants -> 0 .. Window]
        /\ \A u \in Tenants : count'[u] > 0 <=> ttl'[u] > 0
    <3>1. CASE Increment(tenant[r])
      BY <1>1, <3>1, IncrementKeeps DEF TenantInv
    <3>2. CASE UNCHANGED <<count, ttl>>
      BY <3>2 DEF TenantInv, TypeOK
    <3> QED
      BY <1>4, <3>1, <3>2 DEF FailOpen
  <2> QED
    BY <1>1, <2>1, <2>2, SetContextKeeps
<1> QED
  BY <1>2, <1>3, <1>4

\* The query sees the rows of the tenant that its connection carries.
LEMMA QueryKeeps ==
  ASSUME TenantInv, NEW r \in Requests, Query(r)
  PROVE  TenantInv'
<1> USE DEF TenantInv, request, limiter
<1>1. TypeOK'
  BY DEF TypeOK, Shapes, InFlight, Query, Visible, Goto
<1>2. Shapes'
  BY DEF TypeOK, Shapes, InFlight, Query, Visible, Goto
<1>3. OwnConnections'
  BY DEF TypeOK, Shapes, OwnConnections, Query, Visible, Goto
<1>4. OwnContexts'
  BY DEF TypeOK, Shapes, OwnConnections, OwnContexts, InFlight, Query, Visible, Goto
<1>5. RowsOfOwnContext'
  BY TenantsAssumption
  DEF TypeOK, Shapes, OwnConnections, OwnContexts, RowsOfOwnContext, InFlight, Query, Visible,
      Goto
<1> QED
  BY <1>1, <1>2, <1>3, <1>4, <1>5

\* A branch takes an idle connection, which carries no tenant.
LEMMA OpenBranchKeeps ==
  ASSUME TenantInv, NEW r \in Requests, OpenBranch(r)
  PROVE  TenantInv'
<1> USE DEF TenantInv, request, limiter
<1>1. TypeOK'
  BY DEF TypeOK, Shapes, InFlight, OpenBranch, BranchConnections, Idle, Visible, Goto
<1>2. Shapes'
  BY DEF TypeOK, Shapes, InFlight, OpenBranch, BranchConnections, Idle, Visible, Goto
<1>3. OwnConnections'
  BY DEF TypeOK, Shapes, OwnConnections, OpenBranch, BranchConnections, Idle, Visible, Goto
<1>4. OwnContexts'
  BY DEF TypeOK, Shapes, OwnConnections, OwnContexts, InFlight, OpenBranch, BranchConnections,
         Idle, Visible, Goto
<1>5. RowsOfOwnContext'
  BY TenantsAssumption
  DEF TypeOK, Shapes, OwnConnections, OwnContexts, RowsOfOwnContext, InFlight, OpenBranch,
      BranchConnections, Idle, Visible, Goto
<1> QED
  BY <1>1, <1>2, <1>3, <1>4, <1>5

\* The connection of the branch goes back as it came.
LEMMA CloseBranchKeeps ==
  ASSUME TenantInv, NEW r \in Requests, CloseBranch(r)
  PROVE  TenantInv'
<1> USE DEF TenantInv, request, limiter
<1>1. TypeOK'
  BY DEF TypeOK, Shapes, InFlight, CloseBranch, Goto
<1>2. Shapes'
  BY DEF TypeOK, Shapes, InFlight, CloseBranch, Goto
<1>3. OwnConnections'
  BY DEF TypeOK, Shapes, OwnConnections, CloseBranch, Goto
<1>4. OwnContexts'
  BY DEF TypeOK, Shapes, OwnConnections, OwnContexts, InFlight, CloseBranch, Goto
<1>5. RowsOfOwnContext'
  BY DEF TypeOK, Shapes, OwnConnections, OwnContexts, RowsOfOwnContext, InFlight, CloseBranch,
         Goto
<1> QED
  BY <1>1, <1>2, <1>3, <1>4, <1>5

\* The setting ends with its transaction.
LEMMA CommitKeeps ==
  ASSUME TenantInv, NEW r \in Requests, Commit(r)
  PROVE  TenantInv'
<1> USE DEF TenantInv, request, limiter
<1>1. TypeOK'
  BY DEF TypeOK, Shapes, InFlight, Commit, ContextAfterCommit, Forget, Goto
<1>2. Shapes'
  BY DEF TypeOK, Shapes, InFlight, Commit, ContextAfterCommit, Forget, Goto
<1>3. OwnConnections'
  BY DEF TypeOK, Shapes, OwnConnections, Commit, ContextAfterCommit, Forget, Goto
<1>4. OwnContexts'
  BY ConnectionsAssumption
  DEF TypeOK, Shapes, OwnConnections, OwnContexts, InFlight, Commit, ContextAfterCommit, Forget,
      Goto
<1>5. RowsOfOwnContext'
  BY DEF TypeOK, Shapes, OwnConnections, OwnContexts, RowsOfOwnContext, InFlight, Commit,
         ContextAfterCommit, Forget, Goto
<1> QED
  BY <1>1, <1>2, <1>3, <1>4, <1>5

\* An exception, or the loss of the process.
LEMMA RaiseKeeps ==
  ASSUME TenantInv, NEW r \in Requests, Raise(r)
  PROVE  TenantInv'
BY RollBackKeeps DEF Raise, limiter, TenantInv, TypeOK

\* The connections stay as they are.
LEMMA SameRequestsKeep ==
  ASSUME TenantInv, UNCHANGED <<superuser, request, context>>, TypeOK'
  PROVE  TenantInv'
<1>1. Shapes' /\ OwnConnections' /\ OwnContexts' /\ RowsOfOwnContext'
  BY DEF TenantInv, Shapes, OwnConnections, OwnContexts, RowsOfOwnContext, request
<1> QED
  BY <1>1 DEF TenantInv

\* A key expires and is gone at once.
LEMMA TickKeeps ==
  ASSUME TenantInv, Tick
  PROVE  TenantInv'
<1>1. \A t \in Tenants : /\ count[t] \in 0 .. Limit + 1 /\ ttl[t] \in 0 .. Window
                         /\ count[t] > 0 <=> ttl[t] > 0
  BY DEF TenantInv, TypeOK
<1>2. ttl' \in [Tenants -> 0 .. Window] /\ count' \in [Tenants -> 0 .. Limit + 1]
  BY <1>1, LimitAssumption DEF Tick
<1>3. \A t \in Tenants : count'[t] > 0 <=> ttl'[t] > 0
  BY <1>1, LimitAssumption DEF Tick
<1>4. passed' \in [Tenants -> [Ages -> Nat]]
  <2>1. \A t \in Tenants, a \in Ages : (IF a = 0 THEN 0 ELSE passed[t][a - 1]) \in Nat
    <3> SUFFICES ASSUME NEW t \in Tenants, NEW a \in Ages, a # 0
                 PROVE  passed[t][a - 1] \in Nat
      OBVIOUS
    <3>1. a - 1 \in Ages
      BY LimitAssumption DEF Ages
    <3> QED
      BY <3>1 DEF TenantInv, TypeOK
  <2> QED
    BY <2>1 DEF Tick
<1>5. TypeOK'
  BY <1>2, <1>3, <1>4 DEF TenantInv, TypeOK, Tick, request
<1> QED
  BY <1>5, SameRequestsKeep DEF Tick

\* Redis starts again without keys.
LEMMA RedisRestartsKeeps ==
  ASSUME TenantInv, RedisRestarts
  PROVE  TenantInv'
<1>1. ttl' \in [Tenants -> 0 .. Window] /\ count' \in [Tenants -> 0 .. Limit + 1]
  BY LimitAssumption DEF RedisRestarts
<1>2. passed' \in [Tenants -> [Ages -> Nat]]
  BY DEF RedisRestarts
<1>3. \A t \in Tenants : count'[t] > 0 <=> ttl'[t] > 0
  BY DEF RedisRestarts
<1>4. TypeOK'
  BY <1>1, <1>2, <1>3 DEF TenantInv, TypeOK, RedisRestarts, request
<1> QED
  BY <1>4, SameRequestsKeep DEF RedisRestarts

\* Every step keeps the invariant.
LEMMA TenantInvStep == TenantInv /\ [Next]_vars => TenantInv'
<1> SUFFICES ASSUME TenantInv, [Next]_vars PROVE TenantInv'
  OBVIOUS
<1>1. CASE Tick \/ RedisRestarts
  BY <1>1, TickKeeps, RedisRestartsKeeps
<1>2. CASE \E r \in Requests : Step(r)
  BY <1>2, BeginKeeps, LimitKeeps, QueryKeeps, OpenBranchKeeps, CloseBranchKeeps, CommitKeeps,
     RaiseKeeps
  DEF Step
<1>3. CASE UNCHANGED vars
  <2>1. TypeOK'
    BY <1>3 DEF vars, TenantInv, TypeOK, request, limiter
  <2> QED
    BY <1>3, <2>1, SameRequestsKeep DEF vars
<1> QED
  BY <1>1, <1>2, <1>3 DEF Next

-------------------------------------------------------------------------------
(* Sums over a window. *)

\* A set of naturals has a least member.
LEMMA LeastOfNaturals ==
  ASSUME NEW S \in SUBSET Nat, S # {}
  PROVE  \E n \in S : \A m \in S : n <= m
<1> DEFINE R == OpToRel(<, Nat)
<1>1. IsWellFoundedOn(R, Nat)
  BY NatLessThanWellFounded
<1> HIDE DEF R
<1>2. \E x \in S : \A y \in S : ~ (<<y, x>> \in R)
  BY <1>1, WFMin
<1>3. PICK n \in S : \A m \in S : ~ (<<m, n>> \in R)
  BY <1>2
<1>4. \A m \in Nat : m < n => <<m, n>> \in R
  BY DEF R, OpToRel
<1>5. n \in Nat /\ \A m \in S : m \in Nat
  OBVIOUS
<1>6. \A m \in S : ~(m < n)
  BY <1>3, <1>4, <1>5
<1> QED
  BY <1>5, <1>6

\* Induction, in the form of a statement about sets: what the provers can instantiate.
LEMMA Induction ==
  ASSUME NEW S, 0 \in S, \A n \in Nat : n \in S => n + 1 \in S
  PROVE  Nat \subseteq S
<1> SUFFICES ASSUME Nat \ S # {} PROVE FALSE
  OBVIOUS
<1>1. PICK n \in Nat \ S : \A m \in Nat \ S : n <= m
  BY LeastOfNaturals
<1>2. n # 0 /\ n - 1 \in Nat
  BY <1>1
<1>3. n - 1 \in S
  BY <1>1, <1>2
<1>4. (n - 1) + 1 = n
  OBVIOUS
<1> QED
  BY <1>1, <1>2, <1>3, <1>4

\* A token for every unit of f on T: the sum of f on T is their number.
Tokens(f, T) == {p \in T \X Nat : 1 <= p[2] /\ p[2] <= f[p[1]]}

\* There are finitely many of them, those of one place being an interval.
LEMMA TokensFinite ==
  ASSUME NEW S, IsFiniteSet(S), NEW f \in [S -> Nat], NEW T \in SUBSET S
  PROVE  IsFiniteSet(Tokens(f, T)) /\ Cardinality(Tokens(f, T)) \in Nat
<1> DEFINE fibre == [x \in T |-> {x} \X (1 .. f[x])]
           Fibres == {fibre[x] : x \in T}
<1>1. IsFiniteSet(Fibres)
  <2>1. IsFiniteSet(T)
    BY FS_Subset
  <2>2. fibre \in [T -> Fibres]
    OBVIOUS
  <2>3. \A y \in Fibres : \E x \in T : fibre[x] = y
    OBVIOUS
  <2> HIDE DEF fibre, Fibres
  <2>4. fibre \in Surjection(T, Fibres)
    BY <2>2, <2>3, Fun_IsSurj
  <2> QED
    BY <2>1, <2>4, FS_Surjection
<1>2. \A F \in Fibres : IsFiniteSet(F)
  <2> SUFFICES ASSUME NEW x \in T PROVE IsFiniteSet({x} \X (1 .. f[x]))
    OBVIOUS
  <2>1. f[x] \in Int /\ 1 \in Int
    OBVIOUS
  <2>2. IsFiniteSet({x}) /\ IsFiniteSet(1 .. f[x])
    BY <2>1, FS_Singleton, FS_Interval
  <2> QED
    BY <2>2, FS_Product
<1>3. IsFiniteSet(UNION Fibres)
  <2> HIDE DEF Fibres
  <2> QED
    BY <1>1, <1>2, FS_UNION
<1>4. Tokens(f, T) \in SUBSET UNION Fibres
  <2> SUFFICES ASSUME NEW p \in Tokens(f, T) PROVE \E F \in Fibres : p \in F
    OBVIOUS
  <2>1. p[1] \in T /\ p[2] \in 1 .. f[p[1]] /\ p = <<p[1], p[2]>>
    BY DEF Tokens
  <2>2. p \in fibre[p[1]]
    BY <2>1
  <2> QED
    BY <2>1, <2>2
<1> QED
  BY <1>3, <1>4, FS_Subset, FS_CardinalityType

\* A place has as many tokens as f says.
LEMMA TokensOfOne ==
  ASSUME NEW S, IsFiniteSet(S), NEW f \in [S -> Nat], NEW T \in SUBSET S, NEW x \in T
  PROVE  Cardinality(Tokens(f, T)) = f[x] + Cardinality(Tokens(f, T \ {x}))
<1> DEFINE A == Tokens(f, T \ {x})
           B == {x} \X (1 .. f[x])
<1>1. IsFiniteSet(A) /\ Cardinality(A) \in Nat
  BY TokensFinite
<1>2. IsFiniteSet(B) /\ Cardinality(B) = f[x]
  <2>1. IsFiniteSet({x}) /\ Cardinality({x}) = 1
    BY FS_Singleton
  <2>2. f[x] \in Nat
    OBVIOUS
  <2>3. IsFiniteSet(1 .. f[x]) /\ Cardinality(1 .. f[x]) = f[x]
    BY <2>2, FS_Interval
  <2> QED
    BY <2>1, <2>2, <2>3, FS_Product
<1>3. A \cap B = {}
  BY DEF Tokens
<1>4. Tokens(f, T) = A \cup B
  <2>1. \A p \in Tokens(f, T) : p \in A \cup B
    <3> SUFFICES ASSUME NEW p \in Tokens(f, T), p[1] = x PROVE p \in B
      BY DEF Tokens
    <3>1. p = <<x, p[2]>> /\ p[2] \in 1 .. f[x]
      BY DEF Tokens
    <3> QED
      BY <3>1
  <2>2. \A p \in A \cup B : p \in Tokens(f, T)
    BY DEF Tokens
  <2> QED
    BY <2>1, <2>2
<1>5. Cardinality(A \cup B) = Cardinality(A) + Cardinality(B) - Cardinality(A \cap B)
  BY <1>1, <1>2, FS_Union
<1>6. Cardinality(A \cap B) = 0 /\ f[x] \in Nat
  BY <1>3, FS_EmptySet
<1>7. Cardinality(Tokens(f, T)) = f[x] + Cardinality(A)
  <2> HIDE DEF A, B
  <2> QED
    BY <1>1, <1>2, <1>4, <1>5, <1>6
<1> QED
  BY <1>7

\* The fold that AtMostTwiceTheLimit is stated with is the number of tokens, in whatever order
\* it chooses the places: the recursion has a solution, and a least set with two values of it
\* would have a smaller one.
LEMMA SumIsCardinality ==
  ASSUME NEW S, IsFiniteSet(S), NEW f \in [S -> Nat]
  PROVE  MapThenSumSet(LAMBDA x : f[x], S) = Cardinality(Tokens(f, S))
<1> DEFINE Some(s) == CHOOSE x \in s : TRUE
           Body(g) == [s \in SUBSET S |->
                         IF s = {} THEN 0 ELSE f[Some(s)] + g[s \ {Some(s)}]]
           iter == CHOOSE g : g = Body(g)
           N == [s \in SUBSET S |-> Cardinality(Tokens(f, s))]
<1>1. MapThenSumSet(LAMBDA x : f[x], S) = iter[S]
  BY DEF MapThenSumSet, MapThenFoldSet
<1>2. N = Body(N)
  <2> SUFFICES ASSUME NEW s \in SUBSET S
               PROVE  N[s] = IF s = {} THEN 0 ELSE f[Some(s)] + N[s \ {Some(s)}]
    OBVIOUS
  <2>1. CASE s = {}
    <3>1. Tokens(f, s) = {}
      BY <2>1 DEF Tokens
    <3> QED
      BY <2>1, <3>1, FS_EmptySet
  <2>2. CASE s # {}
    <3>1. Some(s) \in s
      BY <2>2
    <3>2. s \ {Some(s)} \in SUBSET S
      OBVIOUS
    <3> HIDE DEF Some
    <3>3. Cardinality(Tokens(f, s)) = f[Some(s)] + Cardinality(Tokens(f, s \ {Some(s)}))
      BY <3>1, TokensOfOne
    <3> QED
      BY <2>2, <3>2, <3>3
  <2> QED
    BY <2>1, <2>2
<1>3. iter = Body(iter)
  <2> HIDE DEF Body, N
  <2> QED
    BY <1>2
<1> HIDE DEF iter
<1>4. \A s \in SUBSET S : iter[s] = N[s]
  <2> DEFINE Bad == {s \in SUBSET S : iter[s] # N[s]}
             R == StrictSubsetOrdering(S)
  <2> SUFFICES ASSUME Bad # {} PROVE FALSE
    OBVIOUS
  <2>1. IsWellFoundedOn(R, SUBSET S)
    BY FS_StrictSubsetOrderingWellFounded, FS_FiniteSubsetsOfFinite
  <2>2. PICK s \in Bad : \A u \in Bad : ~ (<<u, s>> \in R)
    <3> HIDE DEF R
    <3>1. Bad \subseteq SUBSET S
      OBVIOUS
    <3> HIDE DEF Bad
    <3> QED
      BY <2>1, <3>1, WFMin
  <2>3. s # {}
    BY <1>2, <1>3
  <2>4. Some(s) \in s
    BY <2>3
  <2> DEFINE u == s \ {Some(s)}
  <2>5. u \in SUBSET S /\ <<u, s>> \in R
    BY <2>4 DEF StrictSubsetOrdering
  <2>6. iter[u] = N[u]
    BY <2>2, <2>5
  <2>7. iter[s] = f[Some(s)] + iter[u] /\ N[s] = f[Some(s)] + N[u]
    BY <1>2, <1>3, <2>3
  <2> QED
    BY <2>2, <2>6, <2>7
<1> QED
  BY <1>1, <1>4

\* g[m] is the sum of f below m.
RunningTotal(g, f, n) ==
  /\ g \in [0 .. n -> Nat]
  /\ g[0] = 0
  /\ \A a \in 0 .. n - 1 : g[a + 1] = g[a] + f[a]

\* By induction on the length of the window.
LEMMA SumIsRunningTotal ==
  ASSUME NEW n \in Nat, NEW f \in [0 .. n - 1 -> Nat], NEW g, RunningTotal(g, f, n)
  PROVE  MapThenSumSet(LAMBDA a : f[a], 0 .. n - 1) = g[n]
<1> DEFINE Total(m) == Cardinality(Tokens(f, 0 .. m - 1))
           Good == {m \in Nat : m <= n => Total(m) = g[m]}
<1>1. IsFiniteSet(0 .. n - 1)
  BY FS_Interval
<1>2. 0 \in Good
  <2>1. Tokens(f, 0 .. 0 - 1) = {}
    BY DEF Tokens
  <2> QED
    BY <2>1, FS_EmptySet DEF RunningTotal
<1>3. ASSUME NEW m \in Nat, m \in Good PROVE m + 1 \in Good
  <2> SUFFICES ASSUME m + 1 <= n PROVE Total(m + 1) = g[m + 1]
    OBVIOUS
  <2>1. Total(m) = g[m] /\ m \in 0 .. n - 1
    BY <1>3
  <2>2. (0 .. (m + 1) - 1) \in SUBSET (0 .. n - 1) /\ m \in 0 .. (m + 1) - 1
    BY <2>1
  <2>3. (0 .. (m + 1) - 1) \ {m} = 0 .. m - 1
    BY <2>1
  <2>4. Total(m + 1) = f[m] + Total(m)
    BY <1>1, <2>2, <2>3, TokensOfOne
  <2>5. g[m + 1] = g[m] + f[m] /\ g[m] \in Nat /\ f[m] \in Nat
    BY <2>1 DEF RunningTotal
  <2> HIDE DEF Total
  <2> QED
    BY <2>1, <2>4, <2>5
<1>4. n \in Good
  <2> HIDE DEF Good
  <2> QED
    BY <1>2, <1>3, Induction
<1>5. MapThenSumSet(LAMBDA a : f[a], 0 .. n - 1) = Total(n)
  BY <1>1, SumIsCardinality
<1> QED
  BY <1>4, <1>5

-------------------------------------------------------------------------------
(* The limiter: a fixed window starts with the first request after the last one ended. *)

\* The ticks that the key of t has been there, this one included.
KeyAge(t) == IF ttl[t] = 0 THEN 0 ELSE Window - ttl[t] + 1

\* What passed in the window passed with the present key, which counts it, or with the one
\* before: each has let at most Limit through.
Windows(t, g) ==
  /\ g[KeyAge(t)] <= count[t] /\ g[KeyAge(t)] <= Limit
  /\ g[Window] - g[KeyAge(t)] <= Limit
  /\ ttl[t] = 0 => g[1] = 0

\* The window of every tenant is the end of one key's time and the beginning of another's.
WindowInv == \A t \in Tenants : \E g : RunningTotal(g, passed[t], Window) /\ Windows(t, g)

\* Nothing has passed.
LEMMA WindowInvInit == Init => WindowInv
<1> SUFFICES ASSUME Init, NEW t \in Tenants
             PROVE  \E g : RunningTotal(g, passed[t], Window) /\ Windows(t, g)
  BY DEF WindowInv
<1> DEFINE g == [a \in 0 .. Window |-> 0]
<1>1. RunningTotal(g, passed[t], Window)
  BY LimitAssumption DEF Init, RunningTotal, Ages
<1>2. Windows(t, g)
  BY LimitAssumption DEF Init, Windows, KeyAge
<1> QED
  BY <1>1, <1>2

\* A request that passes is counted with its key, whose total is still within the limit.  A new
\* key starts its own part, and what passed before is the other one.
LEMMA PassKeeps ==
  ASSUME TypeOK, WindowInv, NEW t \in Tenants, Increment(t), Allowed(t),
         passed' = [passed EXCEPT ![t][0] = @ + 1]
  PROVE  WindowInv'
<1> SUFFICES ASSUME NEW u \in Tenants
             PROVE  \E g : RunningTotal(g, passed'[u], Window) /\ Windows(u, g)'
  BY DEF WindowInv
<1>1. PICK g : RunningTotal(g, passed[u], Window) /\ Windows(u, g)
  BY DEF WindowInv
<1>2. CASE u # t
  <2>1. passed'[u] = passed[u] /\ count'[u] = count[u] /\ ttl'[u] = ttl[u]
    BY <1>2 DEF Increment, TypeOK
  <2>2. Windows(u, g)'
    BY <1>1, <2>1 DEF Windows, KeyAge
  <2> QED
    BY <1>1, <2>1, <2>2
<1>3. CASE u = t
  <2> DEFINE h == [a \in 0 .. Window |-> IF a = 0 THEN 0 ELSE g[a] + 1]
  <2>1. /\ count[t] \in Nat /\ ttl[t] \in 0 .. Window /\ (count[t] > 0 <=> ttl[t] > 0)
        /\ count[t] + 1 <= Limit
    BY DEF TypeOK, Allowed
  <2>2. count'[t] = count[t] + 1 /\ ttl'[t] = IF count[t] = 0 THEN Window ELSE ttl[t]
    BY <2>1, LimitAssumption DEF Increment, TypeOK
  <2>3. passed[t] \in [Ages -> Nat] /\ 0 \in Ages
    BY LimitAssumption DEF TypeOK, Ages
  <2>4. \A a \in Ages : passed'[t][a] = IF a = 0 THEN passed[t][0] + 1 ELSE passed[t][a]
    BY <2>3 DEF TypeOK
  <2>5. g \in [0 .. Window -> Nat] /\ g[0] = 0 /\ \A a \in Ages : g[a + 1] = g[a] + passed[t][a]
    BY <1>1, <1>3 DEF RunningTotal, Ages
  <2>6. h \in [0 .. Window -> Nat] /\ h[0] = 0
    BY <2>5, LimitAssumption
  <2>7. ASSUME NEW a \in Ages PROVE h[a + 1] = h[a] + passed'[t][a]
    <3>1. a \in 0 .. Window /\ a + 1 \in 0 .. Window /\ a + 1 # 0
      BY LimitAssumption DEF Ages
    <3>2. h[a + 1] = g[a + 1] + 1 /\ g[a + 1] = g[a] + passed[t][a]
      BY <3>1, <2>5
    <3>3. passed[t][a] \in Nat /\ g[a] \in Nat
      BY <2>3, <2>5, <3>1
    <3>4. CASE a = 0
      BY <2>4, <2>5, <3>1, <3>2, <3>3, <3>4
    <3>5. CASE a # 0
      <4>1. h[a] = g[a] + 1 /\ passed'[t][a] = passed[t][a]
        BY <2>4, <3>1, <3>5
      <4> QED
        BY <3>2, <3>3, <4>1
    <3> QED
      BY <3>4, <3>5
  <2>8. RunningTotal(h, passed'[t], Window)
    BY <2>6, <2>7 DEF RunningTotal, Ages
  <2>9. Windows(t, h)'
    <3>1. CASE ttl[t] = 0
      <4>1. KeyAge(t) = 0 /\ KeyAge(t)' = 1 /\ count[t] = 0
        BY <2>1, <2>2, <3>1, LimitAssumption DEF KeyAge
      <4>2. h[1] = g[1] + 1 /\ h[Window] = g[Window] + 1 /\ g[1] = 0
        BY <1>1, <1>3, <3>1, LimitAssumption DEF Windows
      <4>3. g[Window] <= Limit /\ g[Window] \in Nat
        BY <1>1, <1>3, <2>5, <4>1, LimitAssumption DEF Windows
      <4> HIDE DEF h
      <4> QED
        BY <2>1, <2>2, <4>1, <4>2, <4>3, LimitAssumption DEF Windows
    <3>2. CASE ttl[t] > 0
      <4> DEFINE k == KeyAge(t)
      <4>1. KeyAge(t)' = k /\ k \in 1 .. Window /\ ttl'[t] = ttl[t]
        BY <2>1, <2>2, <3>2, LimitAssumption DEF KeyAge
      <4>2. g[k] <= count[t] /\ g[Window] - g[k] <= Limit
        BY <1>1, <1>3 DEF Windows
      <4>3. h[k] = g[k] + 1 /\ h[Window] = g[Window] + 1 /\ g[k] \in Nat /\ g[Window] \in Nat
        BY <2>5, <4>1, LimitAssumption
      <4> HIDE DEF h, k
      <4> QED
        BY <2>1, <2>2, <3>2, <4>1, <4>2, <4>3, LimitAssumption DEF Windows
    <3> QED
      BY <2>1, <3>1, <3>2
  <2> QED
    BY <1>3, <2>8, <2>9
<1> QED
  BY <1>2, <1>3

\* A request that is refused, or passes uncounted by the history, can only raise the count.
LEMMA CountKeeps ==
  ASSUME TypeOK, WindowInv, NEW t \in Tenants, Increment(t), UNCHANGED passed
  PROVE  WindowInv'
<1> SUFFICES ASSUME NEW u \in Tenants
             PROVE  \E g : RunningTotal(g, passed[u], Window) /\ Windows(u, g)'
  BY DEF WindowInv
<1>1. PICK g : RunningTotal(g, passed[u], Window) /\ Windows(u, g)
  BY DEF WindowInv
<1>2. g \in [0 .. Window -> Nat] /\ g[0] = 0
  BY <1>1 DEF RunningTotal
<1>3. Windows(u, g)'
  <2>1. /\ count[u] \in Nat /\ ttl[u] \in 0 .. Window /\ (count[u] > 0 <=> ttl[u] > 0)
    BY DEF TypeOK
  <2>2. CASE u # t
    <3>1. count'[u] = count[u] /\ ttl'[u] = ttl[u]
      BY <2>2 DEF Increment, TypeOK
    <3> QED
      BY <1>1, <3>1 DEF Windows, KeyAge
  <2>3. CASE u = t
    <3>1. /\ count'[u] = IF count[u] > Limit THEN count[u] ELSE count[u] + 1
          /\ ttl'[u] = IF count[u] = 0 THEN Window ELSE ttl[u]
      BY <2>3 DEF Increment, TypeOK
    <3>2. CASE ttl[u] = 0
      <4>1. KeyAge(u) = 0 /\ KeyAge(u)' = 1 /\ count'[u] = 1 /\ ttl'[u] = Window
        BY <2>1, <3>1, <3>2, LimitAssumption DEF KeyAge
      <4>2. g[1] = 0 /\ g[Window] <= Limit /\ g[Window] \in Nat
        BY <1>1, <1>2, <3>2, <4>1, LimitAssumption DEF Windows
      <4> QED
        BY <4>1, <4>2, LimitAssumption DEF Windows
    <3>3. CASE ttl[u] > 0
      <4>1. KeyAge(u)' = KeyAge(u) /\ KeyAge(u) \in 1 .. Window /\ ttl'[u] = ttl[u]
        BY <2>1, <3>1, <3>3, LimitAssumption DEF KeyAge
      <4>2. g[KeyAge(u)] \in Nat /\ count[u] <= count'[u]
        BY <1>2, <2>1, <3>1, <4>1
      <4> QED
        BY <1>1, <2>1, <3>1, <3>3, <4>1, <4>2 DEF Windows
    <3> QED
      BY <2>1, <3>2, <3>3
  <2> QED
    BY <2>2, <2>3
<1> QED
  BY <1>1, <1>3

\* A tick shifts the window.  When a key expires, what passed with it is all that is left, since
\* the key was there as long as the window is.
LEMMA TickKeepsWindows ==
  ASSUME TypeOK, WindowInv, Tick
  PROVE  WindowInv'
<1> SUFFICES ASSUME NEW t \in Tenants
             PROVE  \E g : RunningTotal(g, passed'[t], Window) /\ Windows(t, g)'
  BY DEF WindowInv
<1>1. PICK g : RunningTotal(g, passed[t], Window) /\ Windows(t, g)
  BY DEF WindowInv
<1> DEFINE h == [a \in 0 .. Window |-> IF a = 0 THEN 0 ELSE g[a - 1]]
<1>2. g \in [0 .. Window -> Nat] /\ g[0] = 0 /\ \A a \in Ages : g[a + 1] = g[a] + passed[t][a]
  BY <1>1 DEF RunningTotal, Ages
<1>3. /\ count[t] \in Nat /\ ttl[t] \in 0 .. Window /\ (count[t] > 0 <=> ttl[t] > 0)
      /\ ttl'[t] = IF ttl[t] > 0 THEN ttl[t] - 1 ELSE 0
      /\ count'[t] = IF ttl[t] > 1 THEN count[t] ELSE 0
      /\ passed'[t] = [a \in Ages |-> IF a = 0 THEN 0 ELSE passed[t][a - 1]]
  BY DEF TypeOK, Tick
<1>4. RunningTotal(h, passed'[t], Window)
  <2>1. h \in [0 .. Window -> Nat] /\ h[0] = 0
    <3> SUFFICES ASSUME NEW a \in 0 .. Window, a # 0 PROVE g[a - 1] \in Nat
      BY LimitAssumption
    <3>1. a - 1 \in 0 .. Window
      BY LimitAssumption
    <3> QED
      BY <1>2, <3>1
  <2>2. ASSUME NEW a \in Ages PROVE h[a + 1] = h[a] + passed'[t][a]
    <3>1. a \in 0 .. Window /\ a + 1 \in 0 .. Window /\ a + 1 # 0 /\ (a + 1) - 1 = a
      BY LimitAssumption DEF Ages
    <3>2. h[a + 1] = g[a]
      BY <3>1
    <3>3. CASE a = 0
      BY <1>2, <1>3, <3>1, <3>2, <3>3
    <3>4. CASE a # 0
      <4>1. a - 1 \in Ages /\ (a - 1) + 1 = a
        BY <3>4, LimitAssumption DEF Ages
      <4>2. g[a] = g[a - 1] + passed[t][a - 1]
        BY <1>2, <4>1
      <4> QED
        BY <1>3, <3>1, <3>2, <3>4, <4>2
    <3> QED
      BY <3>3, <3>4
  <2> QED
    BY <2>1, <2>2 DEF RunningTotal, Ages
<1>5. Windows(t, h)'
  <2>1. h[1] = 0 /\ h[0] = 0
    BY <1>2, LimitAssumption
  <2>2. /\ h[Window] = g[Window - 1] /\ g[Window - 1] <= g[Window]
        /\ g[Window - 1] \in Nat /\ g[Window] \in Nat
    <3>1. Window \in 0 .. Window /\ Window - 1 \in Ages /\ Window - 1 \in 0 .. Window /\ (Window - 1) + 1 = Window
      BY LimitAssumption DEF Ages
    <3>2. passed[t][Window - 1] \in Nat
      BY <3>1 DEF TypeOK
    <3> QED
      BY <1>2, <3>1, <3>2, LimitAssumption
  <2>3. CASE ttl[t] <= 1
    <3>1. g[Window] <= Limit
      <4>1. CASE ttl[t] = 0
        BY <1>1, <1>2, <2>2, <4>1 DEF Windows, KeyAge
      <4>2. CASE ttl[t] = 1
        <5>1. KeyAge(t) = Window
          BY <4>2, LimitAssumption DEF KeyAge
        <5> QED
          BY <1>1, <5>1 DEF Windows
      <4> QED
        BY <1>3, <2>3, <4>1, <4>2
    <3>2. ttl'[t] = 0 /\ KeyAge(t)' = 0 /\ count'[t] = 0
      BY <1>3, <2>3 DEF KeyAge
    <3> HIDE DEF h
    <3> QED
      BY <2>1, <2>2, <3>1, <3>2, LimitAssumption DEF Windows
  <2>4. CASE ttl[t] > 1
    <3> DEFINE k == KeyAge(t)
    <3>1. /\ KeyAge(t)' = k + 1 /\ k \in 1 .. Window - 1
          /\ ttl'[t] > 0 /\ count'[t] = count[t]
      BY <1>3, <2>4, LimitAssumption DEF KeyAge
    <3>2. g[k] <= count[t] /\ g[k] <= Limit /\ g[Window] - g[k] <= Limit
      BY <1>1 DEF Windows
    <3>3. h[k + 1] = g[k] /\ g[k] \in Nat
      <4>1. k + 1 \in 0 .. Window /\ k + 1 # 0 /\ (k + 1) - 1 = k /\ k \in 0 .. Window
        BY <3>1, LimitAssumption
      <4> HIDE DEF k
      <4> QED
        BY <1>2, <4>1
    <3> HIDE DEF h, k
    <3> QED
      BY <1>3, <2>2, <3>1, <3>2, <3>3, LimitAssumption DEF Windows
  <2> QED
    BY <1>3, <2>3, <2>4
<1> QED
  BY <1>4, <1>5

\* The history starts again.
LEMMA RestartKeepsWindows == RedisRestarts => WindowInv'
<1> SUFFICES ASSUME RedisRestarts, NEW t \in Tenants
             PROVE  \E g : RunningTotal(g, passed'[t], Window) /\ Windows(t, g)'
  BY DEF WindowInv
<1> DEFINE g == [a \in 0 .. Window |-> 0]
<1>1. RunningTotal(g, passed'[t], Window)
  BY LimitAssumption DEF RedisRestarts, RunningTotal, Ages
<1>2. Windows(t, g)'
  BY LimitAssumption DEF RedisRestarts, Windows, KeyAge
<1> QED
  BY <1>1, <1>2

\* Only the limiter, Redis and the clock change what the invariant is about.
LEMMA WindowInvStep ==
  ASSUME TenantInv, WindowInv, [Next]_vars
  PROVE  WindowInv'
<1>1. ASSUME UNCHANGED limiter PROVE WindowInv'
  BY <1>1, Zenon DEF WindowInv, Windows, KeyAge, limiter
<1>2. ASSUME NEW r \in Requests, Allow(r) PROVE WindowInv'
  BY <1>2, PassKeeps DEF Allow, TenantInv, Shapes
<1>3. ASSUME NEW r \in Requests, Refuse(r) PROVE WindowInv'
  BY <1>3, CountKeeps DEF Refuse, TenantInv, Shapes
<1>4. ASSUME NEW r \in Requests, FailOpen(r) PROVE WindowInv'
  <2>1. CASE Increment(tenant[r])
    BY <1>4, <2>1, CountKeeps DEF FailOpen, TenantInv, Shapes
  <2>2. CASE UNCHANGED <<count, ttl>>
    BY <1>1, <1>4, <2>2 DEF FailOpen, limiter
  <2> QED
    BY <1>4, <2>1, <2>2 DEF FailOpen
<1>5. CASE Tick
  BY <1>5, TickKeepsWindows DEF TenantInv
<1>6. CASE RedisRestarts
  BY <1>6, RestartKeepsWindows
<1>7. ASSUME NEW r \in Requests,
             Begin(r) \/ Query(r) \/ OpenBranch(r) \/ CloseBranch(r) \/ Commit(r) \/ Raise(r)
      PROVE  WindowInv'
  BY <1>1, <1>7 DEF Begin, Query, OpenBranch, CloseBranch, Commit, Raise
<1>8. CASE UNCHANGED vars
  BY <1>1, <1>8 DEF vars
<1> QED
  BY <1>2, <1>3, <1>4, <1>5, <1>6, <1>7, <1>8 DEF Next, Step

-------------------------------------------------------------------------------
(* What the run checks on two tenants and three connections holds for any number of them. *)

\* Connections, contexts and keys, at every reachable state.
THEOREM TenantInvariant == Spec => []TenantInv
<1>1. Init => TenantInv
  BY TenantInvInit
<1>2. TenantInv /\ [Next]_vars => TenantInv'
  BY TenantInvStep
<1> QED
  BY <1>1, <1>2, PTL DEF Spec

\* Every key in Redis has an expiry (rate_limit.py:19-28).
THEOREM TenantTypes == Spec => []TypeOK
<1>1. TenantInv => TypeOK
  BY DEF TenantInv
<1> QED
  BY <1>1, TenantInvariant, PTL

\* Row-level security shows a request the rows of its own tenant, and a branch of a hybrid
\* search none (middleware.py:18, retrieval/service.py:225 and 238).
THEOREM TenantRowsOfOwnContext == Spec => []RowsOfOwnContext
<1>1. TenantInv => RowsOfOwnContext
  BY DEF TenantInv
<1> QED
  BY <1>1, TenantInvariant, PTL

\* In a window's length at most twice the limit passes, whenever it begins: the end of one key
\* and the beginning of the next (rate_limit.py:19-28).
THEOREM TenantAtMostTwiceTheLimit == Spec => []AtMostTwiceTheLimit
<1>1. Init => TenantInv /\ WindowInv
  BY TenantInvInit, WindowInvInit
<1>2. TenantInv /\ WindowInv /\ [Next]_vars => TenantInv' /\ WindowInv'
  BY TenantInvStep, WindowInvStep
<1>3. TenantInv /\ WindowInv => AtMostTwiceTheLimit
  <2> SUFFICES ASSUME TenantInv, WindowInv, NEW t \in Tenants
               PROVE  MapThenSumSet(LAMBDA a : passed[t][a], Ages) <= 2 * Limit
    BY DEF AtMostTwiceTheLimit
  <2>1. PICK g : RunningTotal(g, passed[t], Window) /\ Windows(t, g)
    BY DEF WindowInv
  <2>2. passed[t] \in [0 .. Window - 1 -> Nat] /\ Window \in Nat
    BY LimitAssumption DEF TenantInv, TypeOK, Ages
  <2>3. MapThenSumSet(LAMBDA a : passed[t][a], 0 .. Window - 1) = g[Window]
    BY <2>1, <2>2, SumIsRunningTotal
  <2>4. g[Window] \in Nat /\ g[KeyAge(t)] \in Nat
    <3>1. KeyAge(t) \in 0 .. Window /\ Window \in 0 .. Window
      BY LimitAssumption DEF TenantInv, TypeOK, KeyAge
    <3> QED
      BY <2>1, <3>1 DEF RunningTotal
  <2> QED
    BY <2>1, <2>3, <2>4, LimitAssumption DEF Windows, Ages
<1> QED
  BY <1>1, <1>2, <1>3, PTL DEF Spec
=============================================================================
