-------------------------- MODULE HybridSearchProofs --------------------------
(***************************************************************************)
(* Proofs about HybridSearch for any finite set of requests and any pool   *)
(* capacity: the pool's accounts balance, a search answers from both lists *)
(* and keeps its findings.  And about RankFusion, for lists of any length, *)
(* what the fused list keeps of the two.                                   *)
(***************************************************************************)
EXTENDS HybridSearch, RankFusion, FiniteSetTheorems, FunctionTheorems, TLAPS

\* The types, but for the bound of free, which follows from the accounts.
PoolTypes ==
  /\ pc \in [Requests -> Outside \cup Handling]
  /\ branch \in [Requests ->
                   [Branches -> {"none", "connecting", "querying", "returned", "raised"}]]
  /\ result \in [Requests -> {"none", "internal", "web"}]
  /\ free \in Nat

\* Before gather, a request has no branches.
NoEarlyBranch ==
  \A r \in Requests : pc[r] \in {"new", "connecting", "ready"} =>
    \A b \in Branches : branch[r][b] = "none"

SearchInv == PoolTypes /\ NoEarlyBranch /\ PoolAccounts /\ AnswersFromBothLists

-------------------------------------------------------------------------------
(* Counting connections. *)

\* The holders of connections are finitely many, and so they can be counted.
LEMMA HoldersFinite ==
  /\ IsFiniteSet(Holders) /\ Cardinality(Holders) \in Nat
  /\ IsFiniteSet(QueryingBranches) /\ Cardinality(QueryingBranches) \in Nat
<1>1. IsFiniteSet(Requests)
  BY PoolAssumption DEF PoolAssumption
<1>2. IsFiniteSet(Holders)
  BY <1>1, FS_Subset DEF Holders
<1>3. IsFiniteSet(Branches)
  <2>1. IsFiniteSet({"dense"})
    BY FS_Singleton
  <2>2. Branches = {"dense"} \cup {"sparse"}
    BY DEF Branches
  <2> QED
    BY <2>1, <2>2, FS_AddElement
<1>4. IsFiniteSet(Requests \X Branches)
  BY <1>1, <1>3, FS_Product
<1>5. IsFiniteSet(QueryingBranches)
  BY <1>4, FS_Subset DEF QueryingBranches
<1> QED
  BY <1>2, <1>5, FS_CardinalityType

\* A connection taken from the pool is in new hands.
LEMMA TakeBalances ==
  ASSUME NEW S, NEW T, NEW x, IsFiniteSet(S), x \notin S, T = S \cup {x}
  PROVE  Cardinality(T) = Cardinality(S) + 1
BY FS_AddElement

\* A connection given back is in nobody's hands.
LEMMA GiveBackBalances ==
  ASSUME NEW S, NEW T, NEW x, IsFiniteSet(S), x \in S, T = S \ {x}
  PROVE  Cardinality(T) = Cardinality(S) - 1
BY FS_RemoveElement

-------------------------------------------------------------------------------
(* What each action does to the holders. *)

\* A request's session takes a connection with its first query.
LEMMA ConnectHolds ==
  ASSUME PoolTypes, NEW r \in Requests, Connect(r)
  PROVE  r \notin Holders /\ Holders' = Holders \cup {r} /\ QueryingBranches' = QueryingBranches
BY DEF PoolTypes, Connect, Goto, Holders, QueryingBranches, Handling, Outside

\* A request that ends its session lets go of its connection, and no branch's changes hands.
LEMMA EndSessionReleases ==
  ASSUME PoolTypes, NEW r \in Requests, NEW how \in {"done", "failed"},
         pc[r] \in Handling, EndSession(r, how), UNCHANGED branch
  PROVE  /\ r \in Holders /\ Holders' = Holders \ {r}
         /\ QueryingBranches' = QueryingBranches /\ free' = free + 1
BY DEF PoolTypes, EndSession, Goto, Holders, QueryingBranches, Handling, Outside

\* A step inside the handler, or outside of it, changes no hands.
LEMMA MoveKeeps ==
  ASSUME PoolTypes, NEW r \in Requests, NEW place, Goto(r, place),
         pc[r] \in Handling <=> place \in Handling
  PROVE  Holders' = Holders
BY DEF PoolTypes, Goto, Holders

\* A branch whose state changes is, or is not, a querying one.
LEMMA BranchHolds ==
  ASSUME PoolTypes, NEW r \in Requests, NEW b \in Branches, NEW how, SetBranch(r, b, how)
  PROVE  /\ how = "querying" => QueryingBranches' = QueryingBranches \cup {<<r, b>>}
         /\ how # "querying" => QueryingBranches' = QueryingBranches \ {<<r, b>>}
<1>1. \A q \in Requests, c \in Branches :
        branch'[q][c] = IF q = r /\ c = b THEN how ELSE branch[q][c]
  BY DEF PoolTypes, SetBranch
<1>2. \A qc \in Requests \X Branches : qc = <<r, b>> <=> qc[1] = r /\ qc[2] = b
  OBVIOUS
<1> QED
  BY <1>1, <1>2 DEF QueryingBranches

-------------------------------------------------------------------------------
(* The inductive invariant. *)

\* Initially the whole pool is free.
LEMMA SearchInvInit == Init => SearchInv
<1> SUFFICES ASSUME Init PROVE SearchInv
  OBVIOUS
<1>1. PoolTypes /\ NoEarlyBranch /\ AnswersFromBothLists
  BY PoolAssumption
  DEF Init, PoolAssumption, PoolTypes, NoEarlyBranch, AnswersFromBothLists, Outside, Handling
<1>2. Holders = {} /\ QueryingBranches = {}
  BY DEF Init, Holders, QueryingBranches, Handling
<1>3. PoolAccounts
  BY <1>2, FS_EmptySet, PoolAssumption DEF PoolAccounts, PoolAssumption, Init
<1> QED
  BY <1>1, <1>3 DEF SearchInv

\* A step that moves one request and no branch keeps all but the accounts, if it enters the
\* places of a search only with both lists.
LEMMA MoveKeepsShape ==
  ASSUME SearchInv, NEW r \in Requests, NEW place \in Outside \cup Handling, Goto(r, place),
         UNCHANGED branch, result' \in [Requests -> {"none", "internal", "web"}], free' \in Nat,
         place \in {"new", "connecting", "ready"} => pc[r] \in {"new", "connecting", "ready"},
         place \in {"evaluate", "web", "synthesize", "respond"} =>
           \A b \in Branches : branch[r][b] = "returned"
  PROVE  PoolTypes' /\ NoEarlyBranch' /\ AnswersFromBothLists'
<1>1. \A q \in Requests : pc'[q] = IF q = r THEN place ELSE pc[q]
  BY DEF SearchInv, PoolTypes, Goto
<1>2. PoolTypes'
  BY DEF SearchInv, PoolTypes, Goto
<1>3. NoEarlyBranch'
  BY <1>1 DEF SearchInv, NoEarlyBranch
<1>4. AnswersFromBothLists'
  BY <1>1 DEF SearchInv, AnswersFromBothLists
<1> QED
  BY <1>2, <1>3, <1>4

\* So does a step of a branch that has not returned and is under way.
LEMMA BranchKeepsShape ==
  ASSUME SearchInv, NEW r \in Requests, NEW b \in Branches,
         NEW how \in {"querying", "returned", "raised"}, SetBranch(r, b, how),
         branch[r][b] \in {"connecting", "querying"}, UNCHANGED <<pc, result>>, free' \in Nat
  PROVE  PoolTypes' /\ NoEarlyBranch' /\ AnswersFromBothLists'
<1>1. \A q \in Requests, c \in Branches :
        branch'[q][c] = IF q = r /\ c = b THEN how ELSE branch[q][c]
  BY DEF SearchInv, PoolTypes, SetBranch
<1>2. PoolTypes'
  BY DEF SearchInv, PoolTypes, SetBranch
<1>3. pc[r] \notin {"new", "connecting", "ready", "evaluate", "web", "synthesize", "respond"}
  BY DEF SearchInv, NoEarlyBranch, AnswersFromBothLists
<1>4. NoEarlyBranch'
  BY <1>1, <1>3 DEF SearchInv, NoEarlyBranch
<1>5. AnswersFromBothLists'
  BY <1>1, <1>3 DEF SearchInv, AnswersFromBothLists
<1> QED
  BY <1>2, <1>4, <1>5

\* The end of a session that leaves the branches alone keeps the invariant.
LEMMA EndSessionKeeps ==
  ASSUME SearchInv, NEW r \in Requests, NEW how \in {"done", "failed"},
         pc[r] \in Handling, EndSession(r, how), UNCHANGED <<branch, result>>
  PROVE  SearchInv'
<1>1. PoolTypes
  BY DEF SearchInv
<1>2. /\ r \in Holders /\ Holders' = Holders \ {r}
      /\ QueryingBranches' = QueryingBranches /\ free' = free + 1
  BY <1>1, EndSessionReleases
<1>3. PoolAccounts'
  <2>1. Cardinality(Holders') = Cardinality(Holders) - 1
    BY <1>2, HoldersFinite, GiveBackBalances
  <2> QED
    BY <1>1, <1>2, <2>1, HoldersFinite, PoolAssumption
    DEF SearchInv, PoolTypes, PoolAccounts, PoolAssumption
<1>4. PoolTypes' /\ NoEarlyBranch' /\ AnswersFromBothLists'
  <2>1. free' \in Nat /\ result' \in [Requests -> {"none", "internal", "web"}]
    BY <1>1, <1>2 DEF PoolTypes
  <2>2. Goto(r, how)
    BY DEF EndSession
  <2>3. how \in Outside \cup Handling /\ how \notin {"new", "connecting", "ready"}
        /\ how \notin {"evaluate", "web", "synthesize", "respond"}
    BY DEF Outside
  <2> QED
    BY <2>1, <2>2, <2>3, MoveKeepsShape
<1> QED
  BY <1>3, <1>4 DEF SearchInv

\* A step that changes no hands keeps the accounts.
LEMMA SameHandsKeepAccounts ==
  ASSUME PoolAccounts, UNCHANGED free, Holders' = Holders, QueryingBranches' = QueryingBranches
  PROVE  PoolAccounts'
BY DEF PoolAccounts

\* A step of the handler between its queries keeps the invariant.
LEMMA HandlerMoveKeeps ==
  ASSUME SearchInv, NEW r \in Requests, NEW place \in Outside \cup Handling, Goto(r, place),
         pc[r] \in Handling <=> place \in Handling,
         UNCHANGED <<branch, free>>, result' \in [Requests -> {"none", "internal", "web"}],
         place \in {"new", "connecting", "ready"} => pc[r] \in {"new", "connecting", "ready"},
         place \in {"evaluate", "web", "synthesize", "respond"} =>
           \A b \in Branches : branch[r][b] = "returned"
  PROVE  SearchInv'
<1>1. PoolTypes /\ PoolAccounts
  BY DEF SearchInv
<1>2. Holders' = Holders
  BY <1>1, MoveKeeps
<1>3. QueryingBranches' = QueryingBranches
  BY DEF QueryingBranches
<1>4. PoolAccounts'
  BY <1>1, <1>2, <1>3, SameHandsKeepAccounts
<1>5. free' \in Nat
  BY <1>1 DEF PoolTypes
<1>6. PoolTypes' /\ NoEarlyBranch' /\ AnswersFromBothLists'
  BY <1>5, MoveKeepsShape
<1> QED
  BY <1>4, <1>6 DEF SearchInv

\* Steps of a branch keep the invariant: the connection a branch takes or gives back is the one
\* the accounts count for it.
LEMMA BranchStepKeeps ==
  ASSUME SearchInv, NEW r \in Requests, NEW b \in Branches, BranchStep(r, b)
  PROVE  SearchInv'
<1>1. PoolTypes /\ PoolAccounts
  BY DEF SearchInv
<1>2. <<r, b>> \in QueryingBranches <=> branch[r][b] = "querying"
  BY DEF QueryingBranches
<1>3. UNCHANGED <<pc, result>> /\ Holders' = Holders
  BY DEF BranchStep, BranchConnect, BranchTimesOut, BranchQueried, Holders
<1>4. CASE BranchConnect(r, b)
  <2>1. QueryingBranches' = QueryingBranches \cup {<<r, b>>} /\ <<r, b>> \notin QueryingBranches
    BY <1>1, <1>2, <1>4, BranchHolds DEF BranchConnect
  <2>2. Cardinality(QueryingBranches') = Cardinality(QueryingBranches) + 1
    BY <2>1, HoldersFinite, TakeBalances
  <2>3. free' \in Nat /\ free' = free - 1
    BY <1>1, <1>4 DEF PoolTypes, BranchConnect
  <2>4. PoolAccounts'
    BY <1>1, <1>3, <2>2, <2>3, HoldersFinite, PoolAssumption
    DEF PoolTypes, PoolAccounts, PoolAssumption
  <2>5. PoolTypes' /\ NoEarlyBranch' /\ AnswersFromBothLists'
    BY <1>4, <2>3, BranchKeepsShape DEF BranchConnect
  <2> QED
    BY <2>4, <2>5 DEF SearchInv
<1>5. CASE BranchTimesOut(r, b)
  <2>1. QueryingBranches' = QueryingBranches
    BY <1>1, <1>2, <1>5, BranchHolds DEF BranchTimesOut
  <2>2. free' \in Nat /\ UNCHANGED free
    BY <1>1, <1>5 DEF PoolTypes, BranchTimesOut
  <2>3. PoolAccounts'
    BY <1>1, <1>3, <2>1, <2>2, SameHandsKeepAccounts
  <2>4. PoolTypes' /\ NoEarlyBranch' /\ AnswersFromBothLists'
    BY <1>5, <2>2, BranchKeepsShape DEF BranchTimesOut
  <2> QED
    BY <2>3, <2>4 DEF SearchInv
<1>6. CASE BranchQueried(r, b)
  <2>1. PICK how \in {"returned", "raised"} : SetBranch(r, b, how)
    BY <1>6 DEF BranchQueried
  <2>2. QueryingBranches' = QueryingBranches \ {<<r, b>>} /\ <<r, b>> \in QueryingBranches
    BY <1>1, <1>2, <1>6, <2>1, BranchHolds DEF BranchQueried
  <2>3. Cardinality(QueryingBranches') = Cardinality(QueryingBranches) - 1
    BY <2>2, HoldersFinite, GiveBackBalances
  <2>4. free' \in Nat /\ free' = free + 1
    BY <1>1, <1>6 DEF PoolTypes, BranchQueried
  <2>5. PoolAccounts'
    BY <1>1, <1>3, <2>3, <2>4, HoldersFinite, PoolAssumption
    DEF PoolTypes, PoolAccounts, PoolAssumption
  <2>6. PoolTypes' /\ NoEarlyBranch' /\ AnswersFromBothLists'
    BY <1>6, <2>1, <2>4, BranchKeepsShape DEF BranchQueried
  <2> QED
    BY <2>5, <2>6 DEF SearchInv
<1> QED
  BY <1>4, <1>5, <1>6 DEF BranchStep

\* Connecting keeps the invariant.
LEMMA ConnectKeeps ==
  ASSUME SearchInv, NEW r \in Requests, Connect(r)
  PROVE  SearchInv'
<1>1. PoolTypes /\ PoolAccounts
  BY DEF SearchInv
<1>2. r \notin Holders /\ Holders' = Holders \cup {r} /\ QueryingBranches' = QueryingBranches
  BY <1>1, ConnectHolds
<1>3. Cardinality(Holders') = Cardinality(Holders) + 1
  BY <1>2, HoldersFinite, TakeBalances
<1>4. free' \in Nat /\ free' = free - 1
  BY <1>1 DEF PoolTypes, Connect
<1>5. PoolAccounts'
  BY <1>1, <1>2, <1>3, <1>4, HoldersFinite, PoolAssumption
  DEF PoolTypes, PoolAccounts, PoolAssumption
<1>6. PoolTypes' /\ NoEarlyBranch' /\ AnswersFromBothLists'
  <2>1. Goto(r, "ready") /\ UNCHANGED branch /\ pc[r] = "connecting"
    BY DEF Connect
  <2>2. result' \in [Requests -> {"none", "internal", "web"}] /\ "ready" \in Outside \cup Handling
    BY <1>1 DEF Connect, PoolTypes, Handling
  <2> QED
    BY <1>4, <2>1, <2>2, MoveKeepsShape
<1> QED
  BY <1>5, <1>6 DEF SearchInv

\* So does starting the two branches, which hold nothing yet.
LEMMA GatherKeeps ==
  ASSUME SearchInv, NEW r \in Requests, Gather(r)
  PROVE  SearchInv'
<1>1. PoolTypes /\ PoolAccounts
  BY DEF SearchInv
<1>2. \A q \in Requests : pc'[q] = IF q = r THEN "gather" ELSE pc[q]
  BY <1>1 DEF PoolTypes, Gather, Goto
<1>3. \A q \in Requests, b \in Branches :
        branch'[q][b] = IF q = r THEN "connecting" ELSE branch[q][b]
  BY <1>1 DEF PoolTypes, Gather
<1>4. PoolTypes'
  BY <1>1 DEF PoolTypes, Gather, Goto, Handling
<1>5. NoEarlyBranch'
  BY <1>2, <1>3 DEF SearchInv, NoEarlyBranch
<1>6. AnswersFromBothLists'
  BY <1>2, <1>3 DEF SearchInv, AnswersFromBothLists
<1>7. \A b \in Branches : branch[r][b] = "none"
  BY DEF SearchInv, NoEarlyBranch, Gather
<1>8. QueryingBranches' = QueryingBranches
  BY <1>3, <1>7 DEF QueryingBranches
<1>9. Holders' = Holders
  BY <1>1, MoveKeeps DEF Gather, Handling
<1>10. PoolAccounts'
  BY <1>1, <1>8, <1>9, SameHandsKeepAccounts DEF Gather
<1> QED
  BY <1>4, <1>5, <1>6, <1>10 DEF SearchInv

\* Every step keeps the invariant.
LEMMA SearchInvNext == SearchInv /\ [Next]_vars => SearchInv'
<1> SUFFICES ASSUME SearchInv, [Next]_vars PROVE SearchInv'
  OBVIOUS
<1>1. PoolTypes /\ AnswersFromBothLists
  BY DEF SearchInv
<1>2. ASSUME NEW r \in Requests, Arrive(r) PROVE SearchInv'
  BY <1>1, <1>2, HandlerMoveKeeps DEF Arrive, PoolTypes, Outside, Handling
<1>3. ASSUME NEW r \in Requests, Connect(r) PROVE SearchInv'
  BY <1>3, ConnectKeeps
<1>4. ASSUME NEW r \in Requests, ConnectTimesOut(r) PROVE SearchInv'
  BY <1>1, <1>4, HandlerMoveKeeps DEF ConnectTimesOut, PoolTypes, Outside, Handling
<1>5. ASSUME NEW r \in Requests, FinishPlain(r) PROVE SearchInv'
  BY <1>5, EndSessionKeeps DEF FinishPlain, Handling
<1>6. ASSUME NEW r \in Requests, Gather(r) PROVE SearchInv'
  BY <1>6, GatherKeeps
<1>7. ASSUME NEW r \in Requests, Join(r) PROVE SearchInv'
  <2>1. result' \in [Requests -> {"none", "internal", "web"}]
    BY <1>1, <1>7 DEF Join, PoolTypes
  <2>2. UNCHANGED <<branch, free>> /\ pc[r] = "gather" /\ \A b \in Branches : branch[r][b] = "returned"
    BY <1>7 DEF Join
  <2>3. Goto(r, "web") \/ Goto(r, "evaluate")
    BY <1>7 DEF Join
  <2> QED
    BY <2>1, <2>2, <2>3, HandlerMoveKeeps DEF Handling
<1>8. ASSUME NEW r \in Requests, GatherRaises(r) PROVE SearchInv'
  BY <1>8, EndSessionKeeps DEF GatherRaises, Handling
<1>9. ASSUME NEW r \in Requests, Evaluate(r) PROVE SearchInv'
  <2>1. UNCHANGED <<branch, free, result>> /\ pc[r] = "evaluate"
    BY <1>9 DEF Evaluate
  <2>2. \A b \in Branches : branch[r][b] = "returned"
    BY <1>1, <2>1 DEF AnswersFromBothLists
  <2>3. Goto(r, "synthesize") \/ Goto(r, "web")
    BY <1>9 DEF Evaluate
  <2> QED
    BY <1>1, <2>1, <2>2, <2>3, HandlerMoveKeeps DEF PoolTypes, Handling
<1>10. ASSUME NEW r \in Requests, FallbackWebSearch(r) PROVE SearchInv'
  <2>1. UNCHANGED <<branch, free>> /\ pc[r] = "web"
    BY <1>10 DEF FallbackWebSearch
  <2>2. \A b \in Branches : branch[r][b] = "returned"
    BY <1>1, <2>1 DEF AnswersFromBothLists
  <2>3. Goto(r, "synthesize") \/ Goto(r, "respond")
    BY <1>10 DEF FallbackWebSearch
  <2>4. result' \in [Requests -> {"none", "internal", "web"}]
    BY <1>1, <1>10 DEF FallbackWebSearch, PoolTypes
  <2> QED
    BY <2>1, <2>2, <2>3, <2>4, HandlerMoveKeeps DEF Handling
<1>11. ASSUME NEW r \in Requests, SynthesizeAnswer(r) PROVE SearchInv'
  <2>1. UNCHANGED <<branch, free, result>> /\ pc[r] = "synthesize" /\ Goto(r, "respond")
    BY <1>11 DEF SynthesizeAnswer
  <2>2. \A b \in Branches : branch[r][b] = "returned"
    BY <1>1, <2>1 DEF AnswersFromBothLists
  <2> QED
    BY <1>1, <2>1, <2>2, HandlerMoveKeeps DEF PoolTypes, Handling
<1>12. ASSUME NEW r \in Requests, Respond(r) PROVE SearchInv'
  BY <1>12, EndSessionKeeps DEF Respond, Handling
<1>13. ASSUME NEW r \in Requests, NEW b \in Branches, BranchStep(r, b) PROVE SearchInv'
  BY <1>13, BranchStepKeeps
<1>14. CASE UNCHANGED vars
  BY <1>14 DEF SearchInv, PoolTypes, NoEarlyBranch, PoolAccounts, AnswersFromBothLists,
               Holders, QueryingBranches, vars
<1> QED
  BY <1>2, <1>3, <1>4, <1>5, <1>6, <1>7, <1>8, <1>9, <1>10, <1>11, <1>12, <1>13, <1>14
  DEF Next, RequestStep

-------------------------------------------------------------------------------
(* Theorems. *)

\* The inductive invariant holds in every reachable state.
THEOREM SearchInvariant == Spec => []SearchInv
BY SearchInvInit, SearchInvNext, PTL DEF Spec

\* The pool never gives out more connections than it has, and free never exceeds Capacity,
\* because what is out is counted.
THEOREM SearchTypes == Spec => []TypeOK
<1>1. SearchInv => TypeOK
  BY HoldersFinite, PoolAssumption
  DEF SearchInv, PoolTypes, PoolAccounts, PoolAssumption, TypeOK
<1> QED
  BY <1>1, SearchInvariant, PTL

\* Every connection is free, or in the hands of one request or one branch.
THEOREM SearchPoolAccounts == Spec => []PoolAccounts
<1>1. SearchInv => PoolAccounts
  BY DEF SearchInv
<1> QED
  BY <1>1, SearchInvariant, PTL

\* A search answers from the rows of both lists.
THEOREM SearchAnswersFromBothLists == Spec => []AnswersFromBothLists
<1>1. SearchInv => AnswersFromBothLists
  BY DEF SearchInv
<1> QED
  BY <1>1, SearchInvariant, PTL

\* A search keeps its chunks unless it has web results instead.
THEOREM SearchFindingsAreKept == Spec => FindingsAreKept
<1>1. SearchInv /\ [Next]_vars => [\A r \in Requests : result[r] # "none" => result'[r] # "none"]_vars
  <2> SUFFICES ASSUME SearchInv, [Next]_vars, NEW r \in Requests, result[r] # "none"
               PROVE  result'[r] # "none"
    OBVIOUS
  <2>1. result \in [Requests -> {"none", "internal", "web"}]
    BY DEF SearchInv, PoolTypes
  <2>2. CASE UNCHANGED result
    BY <2>2
  <2>3. ASSUME NEW q \in Requests, Join(q) PROVE result'[r] # "none"
    BY <2>1, <2>3 DEF Join
  <2>4. ASSUME NEW q \in Requests, FallbackWebSearch(q) PROVE result'[r] # "none"
    BY <2>1, <2>4 DEF FallbackWebSearch
  <2>5. ASSUME NEW q \in Requests, RequestStep(q), ~Join(q), ~FallbackWebSearch(q)
        PROVE  UNCHANGED result
    BY <2>5 DEF RequestStep, Connect, ConnectTimesOut, FinishPlain, Gather, GatherRaises,
                Evaluate, SynthesizeAnswer, Respond
  <2>6. ASSUME NEW q \in Requests, Arrive(q) PROVE UNCHANGED result
    BY <2>6 DEF Arrive
  <2>7. ASSUME NEW q \in Requests, NEW b \in Branches, BranchStep(q, b) PROVE UNCHANGED result
    BY <2>7 DEF BranchStep, BranchConnect, BranchTimesOut, BranchQueried
  <2>8. CASE UNCHANGED vars
    BY <2>8 DEF vars
  <2> QED
    BY <2>2, <2>3, <2>4, <2>5, <2>6, <2>7, <2>8 DEF Next
<1> QED
  BY <1>1, SearchInvariant, PTL DEF Spec, FindingsAreKept

-------------------------------------------------------------------------------
(* Fusing the two lists of a search. *)

\* The fractions that scores are, and their order.
Fractions == Nat \X (Nat \ {0})
AtMost(p, q) == ~Less(q, p)

\* A positive factor on both sides of a comparison does not matter.
LEMMA Cancel ==
  ASSUME NEW a \in Int, NEW b \in Int, NEW n \in Nat \ {0}
  PROVE  (a < b <=> a * n < b * n) /\ (a <= b <=> a * n <= b * n)
OBVIOUS

\* Comparing scores is transitive: the comparison that sorted() makes is one of the exact
\* values (retrieval/service.py:345-346).
LEMMA FractionsOrdered ==
  ASSUME NEW p \in Fractions, NEW q \in Fractions, NEW r \in Fractions
  PROVE  /\ ~Less(p, p) /\ (Less(p, q) => AtMost(p, q))
         /\ AtMost(p, q) /\ AtMost(q, r) => AtMost(p, r)
         /\ Less(p, q) /\ AtMost(q, r) => Less(p, r)
         /\ AtMost(p, q) /\ Less(q, r) => Less(p, r)
<1> DEFINE pqr == p[1] * q[2] * r[2]
           qpr == q[1] * p[2] * r[2]
           rpq == r[1] * q[2] * p[2]
<1>1. /\ p[1] \in Nat /\ q[1] \in Nat /\ r[1] \in Nat
      /\ p[2] \in Nat \ {0} /\ q[2] \in Nat \ {0} /\ r[2] \in Nat \ {0}
  BY DEF Fractions
<1>2. /\ Less(p, q) <=> pqr < qpr
      /\ AtMost(p, q) <=> pqr <= qpr
  <2>1. p[1] * q[2] \in Int /\ q[1] * p[2] \in Int
    BY <1>1
  <2> QED
    BY <1>1, <2>1, Cancel DEF Less, AtMost
<1>3. /\ Less(q, r) <=> qpr < rpq
      /\ AtMost(q, r) <=> qpr <= rpq
  <2>1. q[1] * r[2] \in Int /\ r[1] * q[2] \in Int
    BY <1>1
  <2>2. qpr = (q[1] * r[2]) * p[2] /\ rpq = (r[1] * q[2]) * p[2]
    BY <1>1
  <2> HIDE DEF qpr, rpq
  <2>3. /\ q[1] * r[2] < r[1] * q[2] <=> qpr < rpq
        /\ q[1] * r[2] <= r[1] * q[2] <=> qpr <= rpq
    BY <1>1, <2>1, <2>2, Cancel
  <2> QED
    BY <2>1, <2>3 DEF Less, AtMost
<1>4. /\ Less(p, r) <=> pqr < rpq
      /\ AtMost(p, r) <=> pqr <= rpq
  <2>1. p[1] * r[2] \in Int /\ r[1] * p[2] \in Int
    BY <1>1
  <2>2. pqr = (p[1] * r[2]) * q[2] /\ rpq = (r[1] * p[2]) * q[2]
    BY <1>1
  <2> HIDE DEF pqr, rpq
  <2>3. /\ p[1] * r[2] < r[1] * p[2] <=> pqr < rpq
        /\ p[1] * r[2] <= r[1] * p[2] <=> pqr <= rpq
    BY <1>1, <2>1, <2>2, Cancel
  <2> QED
    BY <2>1, <2>3 DEF Less, AtMost
<1>5. pqr \in Int /\ qpr \in Int /\ rpq \in Int /\ p[1] * p[2] \in Int
  BY <1>1
<1>6. ~Less(p, p)
  BY <1>5 DEF Less
<1> HIDE DEF pqr, qpr, rpq
<1> QED
  BY <1>2, <1>3, <1>4, <1>5, <1>6

\* Adding the shares of both lists keeps what both agree on (retrieval/service.py:336, 341).
LEMMA PlusIsMonotone ==
  ASSUME NEW p \in Fractions, NEW q \in Fractions, NEW r \in Fractions, NEW s \in Fractions,
         AtMost(p, q), AtMost(r, s), Less(p, q) \/ Less(r, s)
  PROVE  Less(Plus(p, r), Plus(q, s))
<1>1. /\ p[1] \in Nat /\ q[1] \in Nat /\ r[1] \in Nat /\ s[1] \in Nat
      /\ p[2] \in Nat \ {0} /\ q[2] \in Nat \ {0} /\ r[2] \in Nat \ {0} /\ s[2] \in Nat \ {0}
  BY DEF Fractions
<1> DEFINE rs == r[2] * s[2]
           pq == p[2] * q[2]
           low == p[1] * q[2]
           high == q[1] * p[2]
           lower == r[1] * s[2]
           higher == s[1] * r[2]
<1>2. /\ rs \in Nat \ {0} /\ pq \in Nat \ {0}
      /\ low \in Nat /\ high \in Nat /\ lower \in Nat /\ higher \in Nat
  BY <1>1
<1>3. low <= high /\ lower <= higher /\ (low < high \/ lower < higher)
  BY <1>2 DEF AtMost, Less
<1>4. /\ (p[1] * r[2] + r[1] * p[2]) * (q[2] * s[2]) = low * rs + lower * pq
      /\ (q[1] * s[2] + s[1] * q[2]) * (p[2] * r[2]) = high * rs + higher * pq
  BY <1>1
<1> HIDE DEF rs, pq, low, high, lower, higher
<1>5. /\ low * rs <= high * rs /\ lower * pq <= higher * pq
      /\ low < high => low * rs < high * rs
      /\ lower < higher => lower * pq < higher * pq
  BY <1>2, <1>3, Cancel
<1>6. low * rs \in Int /\ high * rs \in Int /\ lower * pq \in Int /\ higher * pq \in Int
  BY <1>2
<1>7. low * rs + lower * pq < high * rs + higher * pq
  BY <1>3, <1>5, <1>6
<1> QED
  BY <1>4, <1>7 DEF Plus, Less

\* Two shares of lists no longer than k + 1 are worth more than the first place of one list: the
\* arithmetic of RRF_K (retrieval/service.py:336, 341).
LEMMA TwoSharesBeatOne ==
  ASSUME NEW k \in Nat, NEW a \in 1 .. k + 1, NEW b \in 1 .. k + 1, NEW m \in Nat \ {0}
  PROVE  (k + a) * (k + b) < ((k + b) + (k + a)) * (k + m)
<1> DEFINE A == k + a
           B == k + b
           M == k + m
<1>1. A \in 1 .. 2 * k + 1 /\ B \in 1 .. 2 * k + 1 /\ M \in Nat /\ A + 1 <= 2 * M /\ B + 1 <= 2 * M
  OBVIOUS
<1> HIDE DEF A, B, M
<1>2. A * B + B <= 2 * (B * M)
  <2>1. (A + 1) * B <= (2 * M) * B
    <3>1. A + 1 \in Int /\ 2 * M \in Int /\ B \in Nat \ {0}
      BY <1>1
    <3> QED
      BY <1>1, <3>1, Cancel
  <2>2. (A + 1) * B = A * B + B /\ (2 * M) * B = 2 * (B * M)
    BY <1>1
  <2> QED
    BY <2>1, <2>2
<1>3. A * B + A <= 2 * (A * M)
  <2>1. (B + 1) * A <= (2 * M) * A
    <3>1. B + 1 \in Int /\ 2 * M \in Int /\ A \in Nat \ {0}
      BY <1>1
    <3> QED
      BY <1>1, <3>1, Cancel
  <2>2. (B + 1) * A = A * B + A /\ (2 * M) * A = 2 * (A * M)
    BY <1>1
  <2> QED
    BY <2>1, <2>2
<1>4. A * B \in Int /\ B * M \in Int /\ A * M \in Int /\ A \in Nat \ {0} /\ B \in Nat \ {0}
  BY <1>1
<1>5. A * B < B * M + A * M
  BY <1>2, <1>3, <1>4
<1>6. B * M + A * M = (B + A) * M
  BY <1>1
<1>7. A * B < (B + A) * M
  BY <1>5, <1>6
<1> QED
  BY <1>7 DEF A, B, M

\* R is a strict total order of S, and the place of a member is one more than those before it.
StrictOrder(S, R) ==
  /\ \A a \in S : <<a, a>> \notin R
  /\ \A a, b, c \in S : <<a, b>> \in R /\ <<b, c>> \in R => <<a, c>> \in R
  /\ \A a, b \in S : a # b => <<a, b>> \in R \/ <<b, a>> \in R

Places(S, R) == [c \in S |-> Cardinality({d \in S : <<d, c>> \in R}) + 1]

\* In a strict total order of a finite set every place from first to last has one member.
LEMMA PlacesAreOneToOne ==
  ASSUME NEW S, NEW R, IsFiniteSet(S), StrictOrder(S, R)
  PROVE  /\ \A c \in S : Places(S, R)[c] \in 1 .. Cardinality(S)
         /\ \A a, b \in S : <<a, b>> \in R => Places(S, R)[a] < Places(S, R)[b]
         /\ \A a, b \in S : Places(S, R)[a] = Places(S, R)[b] => a = b
         /\ \A i \in 1 .. Cardinality(S) : \E c \in S : Places(S, R)[c] = i
<1> DEFINE Ahead(c) == {d \in S : <<d, c>> \in R}
           place == Places(S, R)
<1>1. place = [c \in S |-> Cardinality(Ahead(c)) + 1]
  BY DEF Places
<1>2. /\ \A a \in S : a \notin Ahead(a)
      /\ \A a, b \in S : <<a, b>> \in R => a \in Ahead(b) /\ Ahead(a) \in SUBSET Ahead(b)
      /\ \A a, b \in S : a # b => <<a, b>> \in R \/ <<b, a>> \in R
  BY DEF StrictOrder
<1> HIDE DEF place
<1>3. \A c \in S : IsFiniteSet(Ahead(c)) /\ Cardinality(Ahead(c)) \in Nat
  <2> TAKE c \in S
  <2>1. Ahead(c) \in SUBSET S
    OBVIOUS
  <2> HIDE DEF Ahead
  <2> QED
    BY <2>1, FS_Subset, FS_CardinalityType
<1>4. Cardinality(S) \in Nat
  BY FS_CardinalityType
<1>5. ASSUME NEW c \in S
      PROVE  place[c] \in 1 .. Cardinality(S)
  <2>1. Ahead(c) \in SUBSET S /\ Ahead(c) # S
    BY <1>2
  <2>2. place[c] = Cardinality(Ahead(c)) + 1
    BY <1>1
  <2> HIDE DEF Ahead
  <2>3. Cardinality(Ahead(c)) < Cardinality(S)
    <3>1. /\ Cardinality(Ahead(c)) <= Cardinality(S)
          /\ Cardinality(S) = Cardinality(Ahead(c)) => S = Ahead(c)
      BY <2>1, FS_Subset
    <3> QED
      BY <1>3, <1>4, <2>1, <3>1
  <2> QED
    BY <1>3, <1>4, <2>2, <2>3
<1>6. ASSUME NEW a \in S, NEW b \in S, <<a, b>> \in R
      PROVE  place[a] < place[b]
  <2>1. Ahead(a) \in SUBSET Ahead(b) /\ a \in Ahead(b) /\ a \notin Ahead(a)
    BY <1>6, <1>2
  <2>2. place[a] = Cardinality(Ahead(a)) + 1 /\ place[b] = Cardinality(Ahead(b)) + 1
    BY <1>1
  <2> HIDE DEF Ahead
  <2>3. /\ Cardinality(Ahead(a)) <= Cardinality(Ahead(b))
        /\ Cardinality(Ahead(b)) = Cardinality(Ahead(a)) => Ahead(b) = Ahead(a)
    BY <1>3, <2>1, FS_Subset
  <2>4. Cardinality(Ahead(a)) < Cardinality(Ahead(b))
    BY <1>3, <2>1, <2>3
  <2> QED
    BY <1>3, <2>2, <2>4
<1>7. \A a, b \in S : place[a] = place[b] => a = b
  <2> TAKE a, b \in S
  <2>1. place[a] \in Nat /\ place[b] \in Nat
    BY <1>4, <1>5
  <2>2. place[a] = place[b] => ~(<<a, b>> \in R \/ <<b, a>> \in R)
    BY <1>6, <2>1
  <2> QED
    BY <1>2, <2>2
<1>8. place \in Injection(S, 1 .. Cardinality(S))
  <2>1. place \in [S -> 1 .. Cardinality(S)]
    BY <1>5, <1>1
  <2>2. \A a, b \in DOMAIN place : place[a] = place[b] => a = b
    BY <1>7, <1>1
  <2> QED
    BY <2>1, <2>2, Zenon DEF Injection, IsInjective
<1>9. IsFiniteSet(1 .. Cardinality(S)) /\ Cardinality(1 .. Cardinality(S)) = Cardinality(S)
  BY <1>4, FS_Interval
<1>10. place \in Surjection(S, 1 .. Cardinality(S))
  BY <1>8, <1>9, FS_Injection
<1>11. \A i \in 1 .. Cardinality(S) : \E c \in S : place[c] = i
  BY <1>10 DEF Surjection
<1> QED
  BY <1>5, <1>6, <1>7, <1>11, Zenon DEF place

\* A list that a query returns has each chunk at its rank, from 1 on
\* (enumerate(rows, start=1), retrieval/service.py:333, 339).
LEMMA RankOfRanking ==
  ASSUME NEW rows \in Rankings
  PROVE  /\ Len(rows) \in Nat /\ DOMAIN rows = 1 .. Len(rows)
         /\ IsFiniteSet(ToSet(rows))
         /\ \A c \in ToSet(rows) : Rank(c, rows) \in 1 .. Len(rows) /\ rows[Rank(c, rows)] = c
<1>1. PICK n \in Nat : rows \in [1 .. n -> Ids]
  BY FusionAssumption DEF Rankings
<1>2. rows \in Seq(Ids) /\ Len(rows) = n /\ DOMAIN rows = 1 .. Len(rows)
  BY <1>1
<1>3. IsFiniteSet(ToSet(rows))
  <2>1. rows \in Surjection(1 .. n, ToSet(rows))
    BY <1>1 DEF Surjection, ToSet
  <2> QED
    BY <1>1, <2>1, FS_Surjection, FS_Interval
<1>4. ASSUME NEW c \in ToSet(rows)
      PROVE  Rank(c, rows) \in 1 .. Len(rows) /\ rows[Rank(c, rows)] = c
  <2>1. \E i \in DOMAIN rows : rows[i] = c
    BY DEF ToSet
  <2> QED
    BY <1>2, <2>1 DEF Rank
<1> QED
  BY <1>1, <1>2, <1>3, <1>4

\* Shares and scores are fractions: no rank makes a denominator of zero.
LEMMA ScoresAreFractions ==
  ASSUME NEW dense \in Rankings, NEW sparse \in Rankings, NEW k \in Nat, NEW c
  PROVE  /\ Share(c, dense, k) \in Fractions /\ Share(c, sparse, k) \in Fractions
         /\ Score(c, dense, sparse, k) \in Fractions
<1>1. \A rows \in Rankings : Share(c, rows, k) \in Fractions
  <2> TAKE rows \in Rankings
  <2>1. CASE c \in ToSet(rows)
    <3>1. Rank(c, rows) \in Nat \ {0}
      BY <2>1, RankOfRanking
    <3> QED
      BY <2>1, <3>1 DEF Share, Fractions
  <2>2. CASE c \notin ToSet(rows)
    BY <2>2 DEF Share, Fractions
  <2> QED
    BY <2>1, <2>2
<1>2. \A p, q \in Fractions : Plus(p, q) \in Fractions
  <2> SUFFICES ASSUME NEW p \in Fractions, NEW q \in Fractions
               PROVE  Plus(p, q) \in Fractions
    OBVIOUS
  <2>1. p[1] \in Nat /\ q[1] \in Nat /\ p[2] \in Nat \ {0} /\ q[2] \in Nat \ {0}
    BY DEF Fractions
  <2>2. p[1] * q[2] + q[1] * p[2] \in Nat /\ p[2] * q[2] \in Nat \ {0}
    BY <2>1
  <2> QED
    BY <2>2 DEF Fractions, Plus
<1> QED
  BY <1>1, <1>2 DEF Score

\* No two chunks come into the dictionary of scores at the same time
\* (retrieval/service.py:329-343).
LEMMA InsertedOnce ==
  ASSUME NEW dense \in Rankings, NEW sparse \in Rankings
  PROVE  \A c, d \in Found(dense, sparse) :
           /\ Inserted(c, dense, sparse) \in Nat
           /\ Inserted(c, dense, sparse) = Inserted(d, dense, sparse) => c = d
BY RankOfRanking DEF Inserted, Found

\* Sorting by score, ties in the order of insertion, has one outcome
\* (retrieval/service.py:345-346).
LEMMA BeforeIsAnOrder ==
  ASSUME NEW dense \in Rankings, NEW sparse \in Rankings, NEW k \in Nat,
         NEW c \in Found(dense, sparse), NEW d \in Found(dense, sparse),
         NEW e \in Found(dense, sparse)
  PROVE  /\ ~Before(c, c, dense, sparse, k)
         /\ Before(c, d, dense, sparse, k) /\ Before(d, e, dense, sparse, k)
            => Before(c, e, dense, sparse, k)
         /\ c # d => Before(c, d, dense, sparse, k) \/ Before(d, c, dense, sparse, k)
<1> DEFINE score(x) == Score(x, dense, sparse, k)
           inserted(x) == Inserted(x, dense, sparse)
<1>1. score(c) \in Fractions /\ score(d) \in Fractions /\ score(e) \in Fractions
  BY ScoresAreFractions
<1>2. /\ inserted(c) \in Nat /\ inserted(d) \in Nat /\ inserted(e) \in Nat
      /\ inserted(c) = inserted(d) => c = d
  BY InsertedOnce
<1>3. \A x, y : Before(x, y, dense, sparse, k)
                <=> \/ Less(score(y), score(x))
                    \/ ~Less(score(x), score(y)) /\ inserted(x) < inserted(y)
  BY DEF Before
<1> HIDE DEF score, inserted
<1>4. ~Less(score(c), score(c)) /\ ~Less(score(d), score(d)) /\ ~Less(score(e), score(e))
  BY <1>1, FractionsOrdered
<1>5. \A p, q, r \in Fractions :
        /\ ~Less(p, q) /\ ~Less(q, r) => ~Less(p, r)
        /\ ~Less(p, q) /\ Less(r, q) => Less(r, p)
        /\ Less(q, p) /\ ~Less(q, r) => Less(r, p)
        /\ Less(q, p) => ~Less(p, q)
  BY FractionsOrdered DEF AtMost
<1>6. /\ ~Less(score(c), score(d)) /\ ~Less(score(d), score(e)) => ~Less(score(c), score(e))
      /\ ~Less(score(c), score(d)) /\ Less(score(e), score(d)) => Less(score(e), score(c))
      /\ Less(score(d), score(c)) /\ ~Less(score(d), score(e)) => Less(score(e), score(c))
      /\ Less(score(d), score(c)) => ~Less(score(c), score(d))
  BY <1>1, <1>5
<1> QED
  BY <1>2, <1>3, <1>4, <1>6

\* Of two chunks the one that sorts before the other is in front of it in the list, and the cut at
\* top_k takes no chunk and leaves one before it out (retrieval/service.py:345-349).
LEMMA FuseByPlace ==
  ASSUME NEW dense \in Rankings, NEW sparse \in Rankings, NEW top_k \in Nat, NEW k \in Nat,
         NEW c \in Found(dense, sparse), NEW d \in Found(dense, sparse),
         Before(c, d, dense, sparse, k),
         NEW list, list = Fuse(dense, sparse, top_k, k), d \in ToSet(list)
  PROVE  c \in ToSet(list) /\ Rank(c, list) < Rank(d, list)
<1> DEFINE ids == Found(dense, sparse)
           R == {p \in ids \X ids : Before(p[1], p[2], dense, sparse, k)}
           place == Places(ids, R)
           length == IF top_k < Cardinality(ids) THEN top_k ELSE Cardinality(ids)
<1>1. IsFiniteSet(ids)
  BY RankOfRanking, FS_Union DEF Found
<1>2. Cardinality(ids) \in Nat
  BY <1>1, FS_CardinalityType
<1>3. \A x, y \in ids : <<x, y>> \in R <=> Before(x, y, dense, sparse, k)
  OBVIOUS
<1>4. StrictOrder(ids, R)
  <2> HIDE DEF R
  <2> QED
    BY <1>3, BeforeIsAnOrder DEF StrictOrder
<1>5. \A x \in ids : Place(x, dense, sparse, k) = place[x]
  <2>1. \A x \in ids : {y \in ids : Before(y, x, dense, sparse, k)} = {y \in ids : <<y, x>> \in R}
    BY <1>3
  <2> QED
    BY <2>1 DEF Place, Places
<1>6. /\ \A x \in ids : place[x] \in 1 .. Cardinality(ids)
      /\ \A x, y \in ids : <<x, y>> \in R => place[x] < place[y]
      /\ \A x, y \in ids : place[x] = place[y] => x = y
      /\ \A i \in 1 .. Cardinality(ids) : \E x \in ids : place[x] = i
  <2> HIDE DEF R, ids
  <2> QED
    BY <1>1, <1>4, PlacesAreOneToOne
<1>7. <<c, d>> \in R
  BY <1>3
<1> HIDE DEF place, R
<1>8. length \in Nat /\ length <= Cardinality(ids)
  BY <1>2
<1>9. DOMAIN list = 1 .. length /\ \A i \in 1 .. length : list[i] \in ids /\ place[list[i]] = i
  <2>1. list = [i \in 1 .. length |-> CHOOSE x \in ids : Place(x, dense, sparse, k) = i]
    BY DEF Fuse
  <2> HIDE DEF ids, length
  <2>2. ASSUME NEW i \in 1 .. length
        PROVE  list[i] \in ids /\ place[list[i]] = i
    <3>1. \E x \in ids : Place(x, dense, sparse, k) = i
      <4>1. i \in 1 .. Cardinality(ids)
        BY <1>2, <1>8
      <4> QED
        BY <1>5, <1>6, <4>1
    <3>2. list[i] = CHOOSE x \in ids : Place(x, dense, sparse, k) = i
      BY <2>1
    <3>3. list[i] \in ids /\ Place(list[i], dense, sparse, k) = i
      BY <3>1, <3>2
    <3> QED
      BY <1>5, <3>3
  <2> QED
    BY <2>1, <2>2
<1> HIDE DEF ids, length
<1>10. ASSUME NEW x \in ids
       PROVE  /\ x \in ToSet(list) <=> place[x] <= length
              /\ x \in ToSet(list) => Rank(x, list) = place[x]
  <2>1. \A i \in 1 .. length : list[i] = x <=> i = place[x]
    BY <1>6, <1>9
  <2>2. place[x] <= length <=> place[x] \in DOMAIN list
    BY <1>6, <1>8, <1>9
  <2>3. place[x] \in DOMAIN list => \A i \in DOMAIN list : list[i] = x <=> i = place[x]
    BY <1>9, <2>1
  <2> QED
    BY <1>9, <2>1, <2>2, <2>3 DEF ToSet, Rank
<1>11. place[c] < place[d] /\ place[c] \in Nat /\ place[d] \in Nat
  BY <1>2, <1>6, <1>7 DEF ids
<1>12. c \in ToSet(list)
  BY <1>8, <1>10, <1>11 DEF ids
<1> QED
  BY <1>10, <1>11, <1>12 DEF ids

\* A chunk that no list places lower, and one places higher, has the higher score.
LEMMA AgreementWins ==
  ASSUME NEW dense \in Rankings, NEW sparse \in Rankings, NEW k \in Nat,
         NEW c \in Found(dense, sparse), NEW d \in Found(dense, sparse),
         Beats(c, d, dense), Beats(c, d, sparse)
  PROVE  Before(c, d, dense, sparse, k)
<1>1. ASSUME NEW rows \in Rankings, Beats(c, d, rows)
      PROVE  /\ AtMost(Share(d, rows, k), Share(c, rows, k))
             /\ c \in ToSet(rows) => Less(Share(d, rows, k), Share(c, rows, k))
  <2>1. CASE {c, d} \cap ToSet(rows) = {}
    BY <2>1 DEF AtMost, Less, Share
  <2>2. CASE Above(c, d, rows)
    <3>1. c \in ToSet(rows) /\ Share(c, rows, k) = <<1, k + Rank(c, rows)>>
          /\ Rank(c, rows) \in Nat \ {0}
      BY <2>2, RankOfRanking DEF Above, Share
    <3>2. CASE d \in ToSet(rows)
      <4>1. Share(d, rows, k) = <<1, k + Rank(d, rows)>> /\ Rank(d, rows) \in Nat \ {0}
        BY <3>2, RankOfRanking DEF Share
      <4>2. Rank(c, rows) < Rank(d, rows)
        BY <2>2, <3>2 DEF Above
      <4> QED
        BY <3>1, <4>1, <4>2 DEF AtMost, Less
    <3>3. CASE d \notin ToSet(rows)
      <4>1. Share(d, rows, k) = <<0, 1>>
        BY <3>3 DEF Share
      <4> QED
        BY <3>1, <4>1 DEF AtMost, Less
    <3> QED
      BY <3>2, <3>3
  <2> QED
    BY <1>1, <2>1, <2>2 DEF Beats
<1>2. Less(Score(d, dense, sparse, k), Score(c, dense, sparse, k))
  <2>1. c \in ToSet(dense) \/ c \in ToSet(sparse)
    BY DEF Found
  <2>2. /\ Share(c, dense, k) \in Fractions /\ Share(c, sparse, k) \in Fractions
        /\ Share(d, dense, k) \in Fractions /\ Share(d, sparse, k) \in Fractions
    BY ScoresAreFractions
  <2>3. /\ AtMost(Share(d, dense, k), Share(c, dense, k))
        /\ AtMost(Share(d, sparse, k), Share(c, sparse, k))
        /\ \/ Less(Share(d, dense, k), Share(c, dense, k))
           \/ Less(Share(d, sparse, k), Share(c, sparse, k))
    BY <1>1, <2>1
  <2> QED
    BY <2>2, <2>3, PlusIsMonotone DEF Score
<1> QED
  BY <1>2 DEF Before

\* In short lists a chunk of both has a higher score than a chunk of one.
LEMMA FoundByBothWins ==
  ASSUME NEW dense \in Rankings, NEW sparse \in Rankings, NEW k \in Nat,
         NEW c \in ToSet(dense) \cap ToSet(sparse), NEW d \in Found(dense, sparse),
         d \notin ToSet(dense) \cap ToSet(sparse), Len(dense) <= k + 1, Len(sparse) <= k + 1
  PROVE  Before(c, d, dense, sparse, k)
<1> DEFINE a == Rank(c, dense)
           b == Rank(c, sparse)
<1>1. a \in 1 .. k + 1 /\ b \in 1 .. k + 1
  BY RankOfRanking
<1>2. Score(c, dense, sparse, k) = <<(k + b) + (k + a), (k + a) * (k + b)>>
  <2>1. Share(c, dense, k) = <<1, k + a>> /\ Share(c, sparse, k) = <<1, k + b>>
    BY DEF Share
  <2> HIDE DEF a, b
  <2> QED
    BY <1>1, <2>1 DEF Score, Plus
<1>3. PICK m \in Nat \ {0} : Score(d, dense, sparse, k) = <<1, k + m>>
  <2>1. CASE d \in ToSet(dense) /\ d \notin ToSet(sparse)
    <3>1. Share(d, dense, k) = <<1, k + Rank(d, dense)>> /\ Share(d, sparse, k) = <<0, 1>>
      BY <2>1 DEF Share
    <3>2. Rank(d, dense) \in Nat \ {0}
      BY <2>1, RankOfRanking
    <3> QED
      BY <3>1, <3>2 DEF Score, Plus
  <2>2. CASE d \notin ToSet(dense) /\ d \in ToSet(sparse)
    <3>1. Share(d, dense, k) = <<0, 1>> /\ Share(d, sparse, k) = <<1, k + Rank(d, sparse)>>
      BY <2>2 DEF Share
    <3>2. Rank(d, sparse) \in Nat \ {0}
      BY <2>2, RankOfRanking
    <3>3. Score(d, dense, sparse, k) = <<1, k + Rank(d, sparse)>>
      BY <3>1, <3>2 DEF Score, Plus
    <3> QED
      BY <3>2, <3>3
  <2> QED
    BY <2>1, <2>2 DEF Found
<1> HIDE DEF a, b
<1>4. (k + a) * (k + b) < ((k + b) + (k + a)) * (k + m)
  BY <1>1, TwoSharesBeatOne
<1>5. (k + a) * (k + b) \in Int
  BY <1>1
<1>6. Less(Score(d, dense, sparse, k), Score(c, dense, sparse, k))
  BY <1>2, <1>3, <1>4, <1>5 DEF Less
<1> QED
  BY <1>6 DEF Before

\* What both branches agree on the fusion keeps, for lists of any length, any RRF_K and any top_k
\* (_reciprocal_rank_fusion, retrieval/service.py:319-363).
THEOREM SearchFusionRespectsBothRankings == FusionSpec => []FusionRespectsBothRankings
<1>1. FusionInit => FusionRespectsBothRankings
  BY DEF FusionInit, FusionRespectsBothRankings
<1>2. FuseRankings => FusionRespectsBothRankings'
  <2> SUFFICES ASSUME NEW dense \in Rankings, NEW sparse \in Rankings,
                      NEW top_k \in 1 .. 2 * Depth, NEW k \in Ks,
                      found' = [of |-> "rankings", dense |-> dense, sparse |-> sparse,
                                top_k |-> top_k, k |-> k],
                      fused' = Fuse(dense, sparse, top_k, k)
               PROVE  FusionRespectsBothRankings'
    BY DEF FuseRankings
  <2>1. top_k \in Nat /\ k \in Nat
    BY FusionAssumption
  <2>2. found'.dense = dense /\ found'.sparse = sparse /\ found'.k = k
    OBVIOUS
  <2>3. ASSUME NEW c \in Found(dense, sparse),
               NEW d \in Found(dense, sparse),
               \/ Beats(c, d, dense) /\ Beats(c, d, sparse)
               \/ /\ Len(dense) <= k + 1 /\ Len(sparse) <= k + 1
                  /\ c \in ToSet(dense) \cap ToSet(sparse)
                  /\ d \notin ToSet(dense) \cap ToSet(sparse)
        PROVE  Before(c, d, dense, sparse, k)
    BY <2>1, <2>3, AgreementWins, FoundByBothWins
  <2>4. ASSUME NEW c \in Found(dense, sparse),
               NEW d \in Found(dense, sparse),
               Before(c, d, dense, sparse, k), d \in ToSet(fused')
        PROVE  c \in ToSet(fused') /\ Rank(c, fused') < Rank(d, fused')
    BY <2>1, <2>4, FuseByPlace
  <2> QED
    BY <2>2, <2>3, <2>4 DEF FusionRespectsBothRankings
<1>3. FusionRespectsBothRankings /\ UNCHANGED fusionVars => FusionRespectsBothRankings'
  BY DEF FusionRespectsBothRankings, fusionVars
<1> QED
  BY <1>1, <1>2, <1>3, PTL DEF FusionSpec
===============================================================================
