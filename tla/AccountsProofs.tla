---------------------------- MODULE AccountsProofs ----------------------------
(***************************************************************************)
(* Proofs about Accounts for any addresses and requests: what the unique   *)
(* address, the deletion inside the transaction and the columns that an    *)
(* UPDATE names are worth, however requests interleave and die.            *)
(***************************************************************************)
EXTENDS Accounts, TLAPS

\* What a request was sent with agrees with where it is.
Shapes ==
  \A r \in Requests :
    /\ pc[r] = "new" => req[r] = NoArgs
    /\ pc[r] \in {"find_user", "insert_user"} => req[r] \in LoginArgs
    /\ pc[r] \in {"find_token", "delete_token"} => req[r] \in RefreshArgs
    /\ pc[r] \in {"find_key", "update_key"} => req[r] \in KeyArgs
    /\ pc[r] \in {"respond", "commit"} => req[r] \in Args
    /\ pc[r] \in {"done", "died"} => req[r] \in LoginArgs \cup RefreshArgs \cup CreateKeyArgs

\* A row was left by a request that has committed, and what a request has found is a row.
CommittedRows ==
  \A r \in Requests :
    /\ r \in users => pc[r] = "done" /\ req[r] \in LoginArgs
    /\ token[r] # "none" => pc[r] = "done"
    /\ key[r] # "none" => pc[r] = "done"
    /\ req[r] \in RefreshArgs /\ pc[r] # "find_token" => token[req[r].token] # "none"
    /\ req[r] \in KeyArgs /\ pc[r] # "find_key" => key[req[r].key] # "none"

\* r acts for the user with its address.
ActsForUser(r) == owner[r] \in users /\ req[owner[r]].email = req[r].email

\* r is the one login that inserts a user with its address, and there is none yet.
InsertsUser(r) ==
  /\ owner[r] = r
  /\ \A u \in users : req[u].email # req[r].email
  /\ \A s \in Requests :
       /\ req[s] \in LoginArgs /\ pc[s] \in {"respond", "commit"}
       /\ owner[s] = s /\ req[s].email = req[r].email
       => s = r

\* The unique index: a user to an address, on the table or in one open transaction.  Who died
\* after its response acted for that user, or would have been a new one.
UniqueUsers ==
  /\ homes = users
  /\ \A u, v \in users : req[u].email = req[v].email => u = v
  /\ \A r \in Requests : req[r] \in LoginArgs =>
       /\ pc[r] = "done" => ActsForUser(r)
       /\ pc[r] \in {"respond", "commit"} => ActsForUser(r) \/ InsertsUser(r)
       /\ pc[r] = "died" => ActsForUser(r) \/ owner[r] = r

\* What was done before a request was sent stays done; and who found its token valid shares it
\* only with exchanges that were not there when it was sent.
Overlaps ==
  /\ \A r \in Requests : before[r] \subseteq {q \in Requests : pc[q] = "done"}
  /\ \A r \in Requests :
       req[r] \in RefreshArgs /\ pc[r] \in {"delete_token", "respond", "commit"} =>
         \A q \in Exchanges(req[r].token) : q \notin before[r]

AccountsInv ==
  /\ TypeOK /\ Shapes /\ CommittedRows /\ UniqueUsers /\ Overlaps
  /\ ExchangedOnceUnlessOverlapping

-------------------------------------------------------------------------------
(* The inductive invariant holds at the start and is kept by every step. *)

\* No row is there and nothing has been sent.
LEMMA AccountsInvInit == Init => AccountsInv
<1> SUFFICES ASSUME Init PROVE AccountsInv
  OBVIOUS
<1>1. TypeOK
  BY DEF Init, TypeOK, InFlight
<1>2. Shapes /\ CommittedRows /\ UniqueUsers
  BY DEF Init, Shapes, CommittedRows, UniqueUsers, NoArgs, LoginArgs, RefreshArgs, KeyArgs
<1>3. Overlaps /\ ExchangedOnceUnlessOverlapping
  BY DEF Init, Overlaps, ExchangedOnceUnlessOverlapping, Exchanges, NoArgs, RefreshArgs
<1> QED
  BY <1>1, <1>2, <1>3 DEF AccountsInv

\* As long as the finished requests stay, and no token becomes used or unused, the exchanges do.
LEMMA SameExchanges ==
  ASSUME ExchangedOnceUnlessOverlapping,
         \A t \in Requests : token'[t] = "used" <=> token[t] = "used",
         \A q \in Requests : /\ pc'[q] = "done" /\ req'[q].op = "refresh"
                               <=> pc[q] = "done" /\ req[q].op = "refresh",
         \A q \in Requests : pc[q] = "done" => req'[q] = req[q] /\ before'[q] = before[q]
  PROVE  ExchangedOnceUnlessOverlapping'
<1>1. \A t \in Requests : Exchanges(t)' = Exchanges(t)
  BY DEF Exchanges
<1>2. \A t \in Requests : \A q \in Exchanges(t) : before'[q] = before[q]
  BY DEF Exchanges
<1> QED
  BY <1>1, <1>2 DEF ExchangedOnceUnlessOverlapping

\* A first or a later login arrives.
LEMMA ArriveLoginKeeps ==
  ASSUME AccountsInv, NEW r \in Requests, NEW a \in LoginArgs,
         Start(r, a, "find_user")
  PROVE  AccountsInv'
<1> USE DEF AccountsInv, Args, LoginArgs, RefreshArgs, CreateKeyArgs, KeyArgs, NoArgs
<1>1. TypeOK'
  BY DEF TypeOK, InFlight, Start, Goto, Tables
<1>2. Shapes'
  BY DEF TypeOK, Shapes, Start, Goto, Tables
<1>3. CommittedRows'
  BY DEF TypeOK, Shapes, CommittedRows, Start, Goto, Tables
<1>4. UniqueUsers'
  BY DEF TypeOK, Shapes, CommittedRows, UniqueUsers, ActsForUser, InsertsUser, Start, Goto,
         Tables
<1>5. Overlaps'
  BY DEF TypeOK, Shapes, CommittedRows, Overlaps, Exchanges, Start, Goto, Tables
<1>6. ExchangedOnceUnlessOverlapping'
  BY SameExchanges DEF TypeOK, Shapes, CommittedRows, Start, Goto, Tables
<1> QED
  BY <1>1, <1>2, <1>3, <1>4, <1>5, <1>6

\* A refresh arrives, with a token that may not be stored.
LEMMA ArriveRefreshKeeps ==
  ASSUME AccountsInv, NEW r \in Requests, NEW a \in RefreshArgs,
         Start(r, a, "find_token")
  PROVE  AccountsInv'
<1> USE DEF AccountsInv, Args, LoginArgs, RefreshArgs, CreateKeyArgs, KeyArgs, NoArgs
<1>1. TypeOK'
  BY DEF TypeOK, InFlight, Start, Goto, Tables
<1>2. Shapes'
  BY DEF TypeOK, Shapes, Start, Goto, Tables
<1>3. CommittedRows'
  BY DEF TypeOK, Shapes, CommittedRows, Start, Goto, Tables
<1>4. UniqueUsers'
  BY DEF TypeOK, Shapes, CommittedRows, UniqueUsers, ActsForUser, InsertsUser, Start, Goto,
         Tables
<1>5. Overlaps'
  BY DEF TypeOK, Shapes, CommittedRows, Overlaps, Exchanges, Start, Goto, Tables
<1>6. ExchangedOnceUnlessOverlapping'
  BY SameExchanges DEF TypeOK, Shapes, CommittedRows, Start, Goto, Tables
<1> QED
  BY <1>1, <1>2, <1>3, <1>4, <1>5, <1>6

\* A user asks for a key.
LEMMA ArriveCreateKeyKeeps ==
  ASSUME AccountsInv, NEW r \in Requests, NEW a \in CreateKeyArgs,
         Start(r, a, "respond")
  PROVE  AccountsInv'
<1> USE DEF AccountsInv, Args, LoginArgs, RefreshArgs, CreateKeyArgs, KeyArgs, NoArgs
<1>1. TypeOK'
  BY DEF TypeOK, InFlight, Start, Goto, Tables
<1>2. Shapes'
  BY DEF TypeOK, Shapes, Start, Goto, Tables
<1>3. CommittedRows'
  BY DEF TypeOK, Shapes, CommittedRows, Start, Goto, Tables
<1>4. UniqueUsers'
  BY DEF TypeOK, Shapes, CommittedRows, UniqueUsers, ActsForUser, InsertsUser, Start, Goto,
         Tables
<1>5. Overlaps'
  BY DEF TypeOK, Shapes, CommittedRows, Overlaps, Exchanges, Start, Goto, Tables
<1>6. ExchangedOnceUnlessOverlapping'
  BY SameExchanges DEF TypeOK, Shapes, CommittedRows, Start, Goto, Tables
<1> QED
  BY <1>1, <1>2, <1>3, <1>4, <1>5, <1>6

\* A request with a key arrives, which may not be stored.
LEMMA ArriveUseKeyKeeps ==
  ASSUME AccountsInv, NEW r \in Requests, NEW a \in KeyArgs,
         Start(r, a, "find_key")
  PROVE  AccountsInv'
<1> USE DEF AccountsInv, Args, LoginArgs, RefreshArgs, CreateKeyArgs, KeyArgs, NoArgs
<1>1. TypeOK'
  BY DEF TypeOK, InFlight, Start, Goto, Tables
<1>2. Shapes'
  BY DEF TypeOK, Shapes, Start, Goto, Tables
<1>3. CommittedRows'
  BY DEF TypeOK, Shapes, CommittedRows, Start, Goto, Tables
<1>4. UniqueUsers'
  BY DEF TypeOK, Shapes, CommittedRows, UniqueUsers, ActsForUser, InsertsUser, Start, Goto,
         Tables
<1>5. Overlaps'
  BY DEF TypeOK, Shapes, CommittedRows, Overlaps, Exchanges, Start, Goto, Tables
<1>6. ExchangedOnceUnlessOverlapping'
  BY SameExchanges DEF TypeOK, Shapes, CommittedRows, Start, Goto, Tables
<1> QED
  BY <1>1, <1>2, <1>3, <1>4, <1>5, <1>6

\* A request that raises leaves everything as it was, and is forgotten.
LEMMA RaiseKeeps ==
  ASSUME AccountsInv, NEW r \in Requests,
         pc[r] # "done", Raise(r)
  PROVE  AccountsInv'
<1> USE DEF AccountsInv, Args, LoginArgs, RefreshArgs, CreateKeyArgs, KeyArgs, NoArgs
<1>1. TypeOK'
  BY DEF TypeOK, InFlight, Raise, Forget, Goto, Tables
<1>2. Shapes'
  BY DEF TypeOK, Shapes, Raise, Forget, Goto, Tables
<1>3. CommittedRows'
  BY DEF TypeOK, Shapes, CommittedRows, Raise, Forget, Goto, Tables
<1>4. UniqueUsers'
  BY DEF TypeOK, Shapes, CommittedRows, UniqueUsers, ActsForUser, InsertsUser, Raise, Forget,
         Goto, Tables
<1>5. Overlaps'
  BY DEF TypeOK, Shapes, CommittedRows, Overlaps, Exchanges, Raise, Forget, Goto, Tables
<1>6. ExchangedOnceUnlessOverlapping'
  BY SameExchanges DEF TypeOK, Shapes, CommittedRows, Raise, Forget, Goto, Tables
<1> QED
  BY <1>1, <1>2, <1>3, <1>4, <1>5, <1>6

\* A response changes no row.
LEMMA RespondKeeps ==
  ASSUME AccountsInv, NEW r \in Requests,
         Respond(r)
  PROVE  AccountsInv'
<1> USE DEF AccountsInv, Args, LoginArgs, RefreshArgs, CreateKeyArgs, KeyArgs, NoArgs
<1>1. TypeOK'
  BY DEF TypeOK, InFlight, Respond, Continue, Goto, Tables
<1>2. Shapes'
  BY DEF TypeOK, Shapes, Respond, Continue, Goto, Tables
<1>3. CommittedRows'
  BY DEF TypeOK, Shapes, CommittedRows, Respond, Continue, Goto, Tables
<1>4. UniqueUsers'
  BY DEF TypeOK, Shapes, CommittedRows, UniqueUsers, ActsForUser, InsertsUser, Respond, Continue,
         Goto, Tables
<1>5. Overlaps'
  BY DEF TypeOK, Shapes, CommittedRows, Overlaps, Exchanges, Respond, Continue, Goto, Tables
<1>6. ExchangedOnceUnlessOverlapping'
  BY SameExchanges DEF TypeOK, Shapes, CommittedRows, Respond, Continue, Goto, Tables
<1> QED
  BY <1>1, <1>2, <1>3, <1>4, <1>5, <1>6

\* Nor does a request that dies after its response.
LEMMA DieKeeps ==
  ASSUME AccountsInv, NEW r \in Requests, pc[r] = "commit",
         req[r].op \in {"login", "refresh", "create_key"},
         Continue(r, "died")
  PROVE  AccountsInv'
<1> USE DEF AccountsInv, Args, LoginArgs, RefreshArgs, CreateKeyArgs, KeyArgs, NoArgs
<1>1. TypeOK'
  BY DEF TypeOK, InFlight, Continue, Goto, Tables
<1>2. Shapes'
  BY DEF TypeOK, Shapes, Continue, Goto, Tables
<1>3. CommittedRows'
  BY DEF TypeOK, Shapes, CommittedRows, Continue, Goto, Tables
<1>4. UniqueUsers'
  BY DEF TypeOK, Shapes, CommittedRows, UniqueUsers, ActsForUser, InsertsUser, Continue, Goto,
         Tables
<1>5. Overlaps'
  BY DEF TypeOK, Shapes, CommittedRows, Overlaps, Exchanges, Continue, Goto, Tables
<1>6. ExchangedOnceUnlessOverlapping'
  BY SameExchanges DEF TypeOK, Shapes, CommittedRows, Continue, Goto, Tables
<1> QED
  BY <1>1, <1>2, <1>3, <1>4, <1>5, <1>6

\* The user that is found has the address.
LEMMA FindUserKeeps ==
  ASSUME AccountsInv, NEW r \in Requests,
         FindUser(r)
  PROVE  AccountsInv'
<1> USE DEF AccountsInv, Args, LoginArgs, RefreshArgs, CreateKeyArgs, KeyArgs, NoArgs
<1>1. CASE Raise(r)
  BY <1>1, RaiseKeeps DEF FindUser
<1>2. CASE ~Raise(r)
  <2>1. TypeOK'
    BY <1>2 DEF TypeOK, InFlight, FindUser, WithEmail, Continue, Goto, Tables
  <2>2. Shapes'
    BY <1>2 DEF TypeOK, Shapes, FindUser, WithEmail, Continue, Goto, Tables
  <2>3. CommittedRows'
    BY <1>2 DEF TypeOK, Shapes, CommittedRows, FindUser, WithEmail, Continue, Goto, Tables
  <2>4. UniqueUsers'
    BY <1>2
    DEF TypeOK, Shapes, CommittedRows, UniqueUsers, ActsForUser, InsertsUser, FindUser,
        WithEmail, Continue, Goto, Tables
  <2>5. Overlaps'
    BY <1>2
    DEF TypeOK, Shapes, CommittedRows, Overlaps, Exchanges, FindUser, WithEmail, Continue, Goto,
        Tables
  <2>6. ExchangedOnceUnlessOverlapping'
    BY <1>2, SameExchanges
    DEF TypeOK, Shapes, CommittedRows, FindUser, WithEmail, Continue, Goto, Tables
  <2> QED
    BY <2>1, <2>2, <2>3, <2>4, <2>5, <2>6
<1> QED
  BY <1>1, <1>2

\* Nobody has the address, in the table or in another transaction.
LEMMA InsertUserKeeps ==
  ASSUME AccountsInv, NEW r \in Requests,
         InsertUser(r)
  PROVE  AccountsInv'
<1> USE DEF AccountsInv, Args, LoginArgs, RefreshArgs, CreateKeyArgs, KeyArgs, NoArgs
<1>1. CASE Raise(r)
  BY <1>1, RaiseKeeps DEF InsertUser
<1>2. CASE ~Raise(r)
  <2>1. TypeOK'
    BY <1>2
    DEF TypeOK, InFlight, InsertUser, EmailHeld, EmailTaken, WithEmail, Continue, Goto, Tables
  <2>2. Shapes'
    BY <1>2
    DEF TypeOK, Shapes, InsertUser, EmailHeld, EmailTaken, WithEmail, Continue, Goto, Tables
  <2>3. CommittedRows'
    BY <1>2
    DEF TypeOK, Shapes, CommittedRows, InsertUser, EmailHeld, EmailTaken, WithEmail, Continue,
        Goto, Tables
  <2>4. UniqueUsers'
    BY <1>2
    DEF TypeOK, Shapes, CommittedRows, UniqueUsers, ActsForUser, InsertsUser, InsertUser,
        EmailHeld, EmailTaken, WithEmail, Continue, Goto, Tables
  <2>5. Overlaps'
    BY <1>2
    DEF TypeOK, Shapes, CommittedRows, Overlaps, Exchanges, InsertUser, EmailHeld, EmailTaken,
        WithEmail, Continue, Goto, Tables
  <2>6. ExchangedOnceUnlessOverlapping'
    BY <1>2, SameExchanges
    DEF TypeOK, Shapes, CommittedRows, InsertUser, EmailHeld, EmailTaken, WithEmail, Continue,
        Goto, Tables
  <2> QED
    BY <2>1, <2>2, <2>3, <2>4, <2>5, <2>6
<1> QED
  BY <1>1, <1>2

\* The new user is the first with its address.
LEMMA CommitLoginKeeps ==
  ASSUME AccountsInv, NEW r \in Requests,
         CommitLogin(r)
  PROVE  AccountsInv'
<1> USE DEF AccountsInv, Args, LoginArgs, RefreshArgs, CreateKeyArgs, KeyArgs, NoArgs
<1>1. TypeOK'
  <2>1. req[r] \in LoginArgs
    BY DEF TypeOK, CommitLogin
  <2>2. owner[r] = r \/ owner[r] \in users
    BY <2>1 DEF UniqueUsers, ActsForUser, InsertsUser, CommitLogin
  <2> QED
    BY <2>2 DEF TypeOK, InFlight, CommitLogin, Goto
<1>2. Shapes'
  BY DEF TypeOK, Shapes, CommitLogin, Goto
<1>3. CommittedRows'
  <2>1. req[r] \in LoginArgs
    BY DEF TypeOK, CommitLogin
  <2>2. owner[r] = r \/ owner[r] \in users
    BY <2>1 DEF UniqueUsers, ActsForUser, InsertsUser, CommitLogin
  <2> QED
    BY <2>1, <2>2 DEF TypeOK, CommittedRows, CommitLogin, Goto
<1>4. UniqueUsers'
  <2>1. req[r] \in LoginArgs /\ pc[r] = "commit" /\ r \notin users
    BY DEF TypeOK, CommittedRows, CommitLogin
  <2>2. CASE owner[r] # r
    BY <2>1, <2>2
    DEF TypeOK, Shapes, CommittedRows, UniqueUsers, ActsForUser, InsertsUser, CommitLogin, Goto
  <2>3. CASE owner[r] = r
    <3>1. InsertsUser(r) /\ users' = users \cup {r} /\ homes' = homes \cup {r}
      BY <2>1, <2>3 DEF UniqueUsers, ActsForUser, CommitLogin
    <3>2. /\ req' = req /\ owner' = owner /\ pc'[r] = "done"
          /\ \A s \in Requests : s # r => pc'[s] = pc[s]
      BY DEF TypeOK, CommitLogin, Goto
    <3>3. homes' = users' /\ \A u, v \in users' : req'[u].email = req'[v].email => u = v
      BY <3>1, <3>2 DEF UniqueUsers, InsertsUser
    <3>4. \A s \in Requests : ActsForUser(s) => ActsForUser(s)'
      BY <3>1, <3>2 DEF ActsForUser
    <3>5. ActsForUser(r)'
      BY <2>3, <3>1, <3>2 DEF ActsForUser
    <3>6. ASSUME NEW s \in Requests, s # r, req[s] \in LoginArgs, InsertsUser(s),
                 pc[s] \in {"respond", "commit"}
          PROVE  InsertsUser(s)'
      BY <2>1, <2>3, <3>1, <3>2, <3>6 DEF InsertsUser
    <3> QED
      BY <3>2, <3>3, <3>4, <3>5, <3>6 DEF UniqueUsers
  <2> QED
    BY <2>2, <2>3
<1>5. Overlaps'
  BY DEF TypeOK, Shapes, CommittedRows, Overlaps, Exchanges, CommitLogin, Goto
<1>6. ExchangedOnceUnlessOverlapping'
  BY SameExchanges DEF TypeOK, Shapes, CommittedRows, CommitLogin, Goto
<1> QED
  BY <1>1, <1>2, <1>3, <1>4, <1>5, <1>6

\* A valid token has not been exchanged.
LEMMA FindTokenKeeps ==
  ASSUME AccountsInv, NEW r \in Requests,
         FindToken(r)
  PROVE  AccountsInv'
<1> USE DEF AccountsInv, Args, LoginArgs, RefreshArgs, CreateKeyArgs, KeyArgs, NoArgs
<1>1. CASE Raise(r)
  BY <1>1, RaiseKeeps DEF FindToken
<1>2. CASE ~Raise(r)
  <2>1. TypeOK'
    BY <1>2
    DEF TypeOK, InFlight, FindToken, ExchangedOnceUnlessOverlapping, Continue, Goto, Tables
  <2>2. Shapes'
    BY <1>2
    DEF TypeOK, Shapes, FindToken, ExchangedOnceUnlessOverlapping, Continue, Goto, Tables
  <2>3. CommittedRows'
    BY <1>2
    DEF TypeOK, Shapes, CommittedRows, FindToken, ExchangedOnceUnlessOverlapping, Continue,
        Goto, Tables
  <2>4. UniqueUsers'
    BY <1>2
    DEF TypeOK, Shapes, CommittedRows, UniqueUsers, ActsForUser, InsertsUser, FindToken,
        ExchangedOnceUnlessOverlapping, Continue, Goto, Tables
  <2>5. Overlaps'
    BY <1>2
    DEF TypeOK, Shapes, CommittedRows, Overlaps, Exchanges, FindToken,
        ExchangedOnceUnlessOverlapping, Continue, Goto, Tables
  <2>6. ExchangedOnceUnlessOverlapping'
    BY <1>2, SameExchanges
    DEF TypeOK, Shapes, CommittedRows, FindToken, ExchangedOnceUnlessOverlapping, Continue,
        Goto, Tables
  <2> QED
    BY <2>1, <2>2, <2>3, <2>4, <2>5, <2>6
<1> QED
  BY <1>1, <1>2

\* The deletion waits in its transaction.
LEMMA DeleteTokenKeeps ==
  ASSUME AccountsInv, NEW r \in Requests,
         DeleteToken(r)
  PROVE  AccountsInv'
<1> USE DEF AccountsInv, Args, LoginArgs, RefreshArgs, CreateKeyArgs, KeyArgs, NoArgs
<1>1. TypeOK'
  BY DEF TypeOK, InFlight, DeleteToken, Continue, Goto, Tables
<1>2. Shapes'
  BY DEF TypeOK, Shapes, DeleteToken, Continue, Goto, Tables
<1>3. CommittedRows'
  BY DEF TypeOK, Shapes, CommittedRows, DeleteToken, Continue, Goto, Tables
<1>4. UniqueUsers'
  BY DEF TypeOK, Shapes, CommittedRows, UniqueUsers, ActsForUser, InsertsUser, DeleteToken,
         Continue, Goto, Tables
<1>5. Overlaps'
  BY DEF TypeOK, Shapes, CommittedRows, Overlaps, Exchanges, DeleteToken, Continue, Goto, Tables
<1>6. ExchangedOnceUnlessOverlapping'
  BY SameExchanges DEF TypeOK, Shapes, CommittedRows, DeleteToken, Continue, Goto, Tables
<1> QED
  BY <1>1, <1>2, <1>3, <1>4, <1>5, <1>6

\* The token goes and another comes; who did the same had not been done before.
LEMMA CommitRefreshKeeps ==
  ASSUME AccountsInv, NEW r \in Requests,
         CommitRefresh(r)
  PROVE  AccountsInv'
<1> USE DEF AccountsInv, Args, LoginArgs, RefreshArgs, CreateKeyArgs, KeyArgs, NoArgs
<1>1. TypeOK'
  BY DEF TypeOK, CommittedRows, InFlight, CommitRefresh, Goto
<1>2. Shapes'
  BY DEF TypeOK, Shapes, CommitRefresh, Goto
<1>3. CommittedRows'
  BY DEF TypeOK, Shapes, CommittedRows, CommitRefresh, Goto
<1>4. UniqueUsers'
  BY DEF TypeOK, Shapes, CommittedRows, UniqueUsers, ActsForUser, InsertsUser, CommitRefresh,
         Goto
<1>5. Overlaps'
  BY DEF TypeOK, Shapes, CommittedRows, Overlaps, Exchanges, CommitRefresh, Goto
<1>6. ExchangedOnceUnlessOverlapping'
  <2>1. req[r] \in RefreshArgs
    BY DEF TypeOK, CommitRefresh
  <2>2. PICK t \in Requests : t = req[r].token
    BY <2>1
  <2>3. pc[t] = "done" /\ t # r /\ token[r] = "none"
    BY <2>1, <2>2 DEF TypeOK, CommittedRows, CommitRefresh
  <2>4. Exchanges(r) = {}
    BY <2>3 DEF TypeOK, Shapes, CommittedRows, Exchanges
  <2>5. Exchanges(t)' = Exchanges(t) \cup {r}
    BY <2>2 DEF TypeOK, Exchanges, CommitRefresh, Goto
  <2>6. \A s \in Requests : s # t => Exchanges(s)' = Exchanges(s)
    BY <2>2 DEF TypeOK, Exchanges, CommitRefresh, Goto
  <2>7. \A q \in Exchanges(t)' : r \notin before[q] /\ q \notin before[r]
    BY <2>1, <2>2, <2>5 DEF Overlaps, Exchanges, CommitRefresh
  <2>8. /\ token'[t] = "used" /\ token'[r] = "valid"
        /\ \A s \in Requests : s # t /\ s # r => token'[s] = token[s]
    BY <2>2, <2>3 DEF TypeOK, CommitRefresh
  <2>9. \A s \in Requests : token'[s] = "used" <=> Exchanges(s)' # {}
    BY <2>4, <2>5, <2>6, <2>8, <2>3 DEF ExchangedOnceUnlessOverlapping
  <2>10. before' = before
    BY DEF CommitRefresh
  <2>11. \A p, q \in Exchanges(t)' : p \notin before'[q]
    BY <2>5, <2>7, <2>10 DEF ExchangedOnceUnlessOverlapping
  <2>12. \A s \in Requests : \A p, q \in Exchanges(s)' : p \notin before'[q]
    BY <2>6, <2>10, <2>11 DEF ExchangedOnceUnlessOverlapping
  <2> QED
    BY <2>9, <2>12 DEF ExchangedOnceUnlessOverlapping
<1> QED
  BY <1>1, <1>2, <1>3, <1>4, <1>5, <1>6

\* A new key.
LEMMA CommitCreateKeyKeeps ==
  ASSUME AccountsInv, NEW r \in Requests,
         CommitCreateKey(r)
  PROVE  AccountsInv'
<1> USE DEF AccountsInv, Args, LoginArgs, RefreshArgs, CreateKeyArgs, KeyArgs, NoArgs
<1>1. TypeOK'
  BY DEF TypeOK, InFlight, CommitCreateKey, Goto
<1>2. Shapes'
  BY DEF TypeOK, Shapes, CommitCreateKey, Goto
<1>3. CommittedRows'
  BY DEF TypeOK, Shapes, CommittedRows, CommitCreateKey, Goto
<1>4. UniqueUsers'
  BY DEF TypeOK, Shapes, CommittedRows, UniqueUsers, ActsForUser, InsertsUser, CommitCreateKey,
         Goto
<1>5. Overlaps'
  BY DEF TypeOK, Shapes, CommittedRows, Overlaps, Exchanges, CommitCreateKey, Goto
<1>6. ExchangedOnceUnlessOverlapping'
  BY SameExchanges DEF TypeOK, Shapes, CommittedRows, CommitCreateKey, Goto
<1> QED
  BY <1>1, <1>2, <1>3, <1>4, <1>5, <1>6

\* The key that is found is a row.
LEMMA FindKeyKeeps ==
  ASSUME AccountsInv, NEW r \in Requests,
         FindKey(r)
  PROVE  AccountsInv'
<1> USE DEF AccountsInv, Args, LoginArgs, RefreshArgs, CreateKeyArgs, KeyArgs, NoArgs
<1>1. CASE Raise(r)
  BY <1>1, RaiseKeeps DEF FindKey
<1>2. CASE ~Raise(r)
  <2>1. TypeOK'
    BY <1>2 DEF TypeOK, InFlight, FindKey, Continue, Goto, Tables
  <2>2. Shapes'
    BY <1>2 DEF TypeOK, Shapes, FindKey, Continue, Goto, Tables
  <2>3. CommittedRows'
    BY <1>2 DEF TypeOK, Shapes, CommittedRows, FindKey, Continue, Goto, Tables
  <2>4. UniqueUsers'
    BY <1>2
    DEF TypeOK, Shapes, CommittedRows, UniqueUsers, ActsForUser, InsertsUser, FindKey, Continue,
        Goto, Tables
  <2>5. Overlaps'
    BY <1>2
    DEF TypeOK, Shapes, CommittedRows, Overlaps, Exchanges, FindKey, Continue, Goto, Tables
  <2>6. ExchangedOnceUnlessOverlapping'
    BY <1>2, SameExchanges DEF TypeOK, Shapes, CommittedRows, FindKey, Continue, Goto, Tables
  <2> QED
    BY <2>1, <2>2, <2>3, <2>4, <2>5, <2>6
<1> QED
  BY <1>1, <1>2

\* The update waits in its transaction.
LEMMA UpdateKeyKeeps ==
  ASSUME AccountsInv, NEW r \in Requests,
         UpdateKey(r)
  PROVE  AccountsInv'
<1> USE DEF AccountsInv, Args, LoginArgs, RefreshArgs, CreateKeyArgs, KeyArgs, NoArgs
<1>1. TypeOK'
  BY DEF TypeOK, InFlight, UpdateKey, Continue, Goto, Tables
<1>2. Shapes'
  BY DEF TypeOK, Shapes, UpdateKey, Continue, Goto, Tables
<1>3. CommittedRows'
  BY DEF TypeOK, Shapes, CommittedRows, UpdateKey, Continue, Goto, Tables
<1>4. UniqueUsers'
  BY DEF TypeOK, Shapes, CommittedRows, UniqueUsers, ActsForUser, InsertsUser, UpdateKey,
         Continue, Goto, Tables
<1>5. Overlaps'
  BY DEF TypeOK, Shapes, CommittedRows, Overlaps, Exchanges, UpdateKey, Continue, Goto, Tables
<1>6. ExchangedOnceUnlessOverlapping'
  BY SameExchanges DEF TypeOK, Shapes, CommittedRows, UpdateKey, Continue, Goto, Tables
<1> QED
  BY <1>1, <1>2, <1>3, <1>4, <1>5, <1>6

\* A key is revoked.
LEMMA CommitRevokeKeeps ==
  ASSUME AccountsInv, NEW r \in Requests,
         CommitRevoke(r)
  PROVE  AccountsInv'
<1> USE DEF AccountsInv, Args, LoginArgs, RefreshArgs, CreateKeyArgs, KeyArgs, NoArgs
<1>1. TypeOK'
  BY DEF TypeOK, InFlight, CommitRevoke, Forget, Goto
<1>2. Shapes'
  BY DEF TypeOK, Shapes, CommitRevoke, Forget, Goto
<1>3. CommittedRows'
  BY DEF TypeOK, Shapes, CommittedRows, CommitRevoke, Forget, Goto
<1>4. UniqueUsers'
  BY DEF TypeOK, Shapes, CommittedRows, UniqueUsers, ActsForUser, InsertsUser, CommitRevoke,
         Forget, Goto
<1>5. Overlaps'
  BY DEF TypeOK, Shapes, CommittedRows, Overlaps, Exchanges, CommitRevoke, Forget, Goto
<1>6. ExchangedOnceUnlessOverlapping'
  BY SameExchanges DEF TypeOK, Shapes, CommittedRows, CommitRevoke, Forget, Goto
<1> QED
  BY <1>1, <1>2, <1>3, <1>4, <1>5, <1>6

\* A token that expires was not used.
LEMMA ExpireKeeps ==
  ASSUME AccountsInv, NEW t \in Requests,
         Expire(t)
  PROVE  AccountsInv'
<1> USE DEF AccountsInv, Args, LoginArgs, RefreshArgs, CreateKeyArgs, KeyArgs, NoArgs
<1>1. TypeOK'
  BY DEF TypeOK, InFlight, Expire
<1>2. Shapes'
  BY DEF TypeOK, Shapes, Expire
<1>3. CommittedRows'
  BY DEF TypeOK, Shapes, CommittedRows, Expire
<1>4. UniqueUsers'
  BY DEF TypeOK, Shapes, CommittedRows, UniqueUsers, ActsForUser, InsertsUser, Expire
<1>5. Overlaps'
  BY DEF TypeOK, Shapes, CommittedRows, Overlaps, Exchanges, Expire
<1>6. ExchangedOnceUnlessOverlapping'
  BY SameExchanges DEF TypeOK, Shapes, CommittedRows, Expire
<1> QED
  BY <1>1, <1>2, <1>3, <1>4, <1>5, <1>6

\* A deactivated user stays a user.
LEMMA DeactivateKeeps ==
  ASSUME AccountsInv, NEW u \in Requests,
         Deactivate(u)
  PROVE  AccountsInv'
<1> USE DEF AccountsInv, Args, LoginArgs, RefreshArgs, CreateKeyArgs, KeyArgs, NoArgs
<1>1. TypeOK'
  BY DEF TypeOK, InFlight, Deactivate
<1>2. Shapes'
  BY DEF TypeOK, Shapes, Deactivate
<1>3. CommittedRows'
  BY DEF TypeOK, Shapes, CommittedRows, Deactivate
<1>4. UniqueUsers'
  BY DEF TypeOK, Shapes, CommittedRows, UniqueUsers, ActsForUser, InsertsUser, Deactivate
<1>5. Overlaps'
  BY DEF TypeOK, Shapes, CommittedRows, Overlaps, Exchanges, Deactivate
<1>6. ExchangedOnceUnlessOverlapping'
  BY SameExchanges DEF TypeOK, Shapes, CommittedRows, Deactivate
<1> QED
  BY <1>1, <1>2, <1>3, <1>4, <1>5, <1>6

\* The use of a key and a crash leave no row.
LEMMA EndKeeps ==
  ASSUME AccountsInv, NEW r \in Requests, CommitUse(r) \/ Crash(r)
  PROVE  AccountsInv'
BY RaiseKeeps, DieKeeps DEF CommitUse, Crash, InFlight

\* Every step keeps the invariant.
LEMMA AccountsInvStep == AccountsInv /\ [Next]_vars => AccountsInv'
<1> SUFFICES ASSUME AccountsInv, [Next]_vars PROVE AccountsInv'
  OBVIOUS
<1>1. CASE \E r \in Requests : Arrive(r)
  BY <1>1, ArriveLoginKeeps, ArriveRefreshKeeps, ArriveCreateKeyKeeps, ArriveUseKeyKeeps
  DEF Arrive
<1>2. CASE \E r \in Requests : Step(r)
  BY <1>2, RespondKeeps, FindUserKeeps, InsertUserKeeps, CommitLoginKeeps, FindTokenKeeps,
     DeleteTokenKeeps, CommitRefreshKeeps, CommitCreateKeyKeeps, FindKeyKeeps, UpdateKeyKeeps,
     EndKeeps, CommitRevokeKeeps
  DEF Step
<1>3. CASE \E r \in Requests : Crash(r) \/ Expire(r) \/ Deactivate(r)
  BY <1>3, EndKeeps, ExpireKeeps, DeactivateKeeps
<1>4. CASE UNCHANGED vars
  BY <1>4
  DEF vars, AccountsInv, TypeOK, Shapes, CommittedRows, UniqueUsers, ActsForUser, InsertsUser,
      Overlaps, ExchangedOnceUnlessOverlapping, Exchanges
<1> QED
  BY <1>1, <1>2, <1>3, <1>4 DEF Next

-------------------------------------------------------------------------------
(* What the run checks on two addresses and four rows holds for any number of them. *)

\* The rows and who holds what, at every reachable state.
THEOREM AccountsInvariant == Spec => []AccountsInv
<1>1. Init => AccountsInv
  BY AccountsInvInit
<1>2. AccountsInv /\ [Next]_vars => AccountsInv'
  BY AccountsInvStep
<1> QED
  BY <1>1, <1>2, PTL DEF Spec

\* Every request and every row keeps to its type.
THEOREM AccountsTypes == Spec => []TypeOK
<1>1. AccountsInv => TypeOK
  BY DEF AccountsInv
<1> QED
  BY <1>1, AccountsInvariant, PTL

\* First logins that race end in one account with a home (service.py:61-73), and only who was
\* answered before a commit that failed (dependencies.py:43-48) is left without.
THEOREM AccountsOnePerAddress == Spec => []OneAccountPerAddress
<1>1. AccountsInv => OneAccountPerAddress
  <2> SUFFICES ASSUME AccountsInv PROVE OneAccountPerAddress
    OBVIOUS
  <2>1. ASSUME NEW r \in SignedIn
        PROVE  /\ req[r] \in LoginArgs
               /\ pc[r] = "done" => ActsForUser(r)
               /\ ~LostUser(r) => ActsForUser(r) \/ InsertsUser(r)
               /\ InsertsUser(r) /\ ~LostUser(r) /\ ~ActsForUser(r) => pc[r] = "commit"
    <3>1. req[r] \in LoginArgs
      BY DEF AccountsInv, Shapes, SignedIn, Given, Args, LoginArgs, RefreshArgs, CreateKeyArgs,
             KeyArgs
    <3> QED
      BY <3>1 DEF AccountsInv, UniqueUsers, SignedIn, Given, LostUser
  <2>2. ASSUME NEW q \in SignedIn, NEW r \in SignedIn, req[q].email = req[r].email,
               ~LostUser(q), ~LostUser(r)
        PROVE  owner[q] = owner[r]
    <3>1. CASE ActsForUser(q) /\ ActsForUser(r)
      BY <2>2, <3>1 DEF AccountsInv, UniqueUsers, ActsForUser
    <3>2. CASE ActsForUser(q) /\ InsertsUser(r)
      BY <2>2, <3>2 DEF ActsForUser, InsertsUser
    <3>3. CASE InsertsUser(q) /\ ActsForUser(r)
      BY <2>2, <3>3 DEF ActsForUser, InsertsUser
    <3>4. CASE InsertsUser(q) /\ InsertsUser(r) /\ ~ActsForUser(q) /\ ~ActsForUser(r)
      BY <2>1, <2>2, <3>4 DEF InsertsUser, SignedIn
    <3> QED
      BY <2>1, <2>2, <3>1, <3>2, <3>3, <3>4
  <2>3. \A r \in SignedIn : pc[r] = "done" => owner[r] \in users \cap homes
    BY <2>1 DEF AccountsInv, UniqueUsers, ActsForUser
  <2> QED
    BY <2>2, <2>3 DEF OneAccountPerAddress
<1> QED
  BY <1>1, AccountsInvariant, PTL

\* A token goes when another comes, and twice only in refreshes that overlapped
\* (service.py:116-148).
THEOREM AccountsExchangedOnce == Spec => []ExchangedOnceUnlessOverlapping
<1>1. AccountsInv => ExchangedOnceUnlessOverlapping
  BY DEF AccountsInv
<1> QED
  BY <1>1, AccountsInvariant, PTL

\* Only a new key becomes active, and it was no revoked one.
LEMMA RevocationStep ==
  ASSUME AccountsInv, [Next]_vars, NEW k \in Requests, key[k] = "revoked"
  PROVE  key'[k] = "revoked"
<1>1. CASE \E r \in Requests : CommitCreateKey(r) \/ CommitRevoke(r)
  BY <1>1 DEF AccountsInv, TypeOK, CommittedRows, CommitCreateKey, CommitRevoke
<1>2. CASE ~\E r \in Requests : CommitCreateKey(r) \/ CommitRevoke(r)
  BY <1>2
  DEF Next, vars, Arrive, Start, Step, Respond, FindUser, InsertUser, CommitLogin, FindToken,
      DeleteToken, CommitRefresh, FindKey, UpdateKey, CommitUse, Crash, Expire, Deactivate,
      Raise, Continue, Tables
<1> QED
  BY <1>1, <1>2

\* A revoked key stays revoked, whatever requests that it had let in still write
\* (dependencies.py:126).
THEOREM AccountsRevocationIsFinal == Spec => RevocationIsFinal
<1>1. AccountsInv /\ [Next]_vars =>
        [\A k \in Requests : key[k] = "revoked" => key'[k] = "revoked"]_vars
  BY RevocationStep
<1> QED
  BY <1>1, AccountsInvariant, PTL DEF Spec, RevocationIsFinal
===============================================================================
