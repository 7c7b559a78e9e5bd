------------------------------- MODULE Accounts -------------------------------
(***************************************************************************)
(* Accounts, refresh tokens and API keys (src/auth/service.py): first      *)
(* logins, rotations of tokens, and requests authenticated by keys that    *)
(* are revoked meanwhile, in concurrent requests that may die.             *)
(*                                                                         *)
(* A request runs in one READ COMMITTED transaction: a query sees what is  *)
(* committed, an INSERT waits for an uncommitted row with the same unique  *)
(* value, an UPDATE or a DELETE waits for the transaction that has the     *)
(* row.  get_db_session rolls back when the handler raises, and commits    *)
(* when it has returned: FastAPI runs what a dependency does after its     *)
(* yield when the response has been sent, so a client holds a token or a   *)
(* key before the row behind it is stored.                                 *)
(*                                                                         *)
(* A row has a fresh id, so it is named by the request that inserts it; a  *)
(* request that leaves no row behind is forgotten when it ends, and its    *)
(* name can be used again, unless a client was given something that it     *)
(* never stored.  Requests bounds the rows, not the requests.              *)
(***************************************************************************)
CONSTANTS
  Emails,     \* the addresses that sign in
  Requests    \* requests, and the rows they may insert

VARIABLES
  pc,       \* pc[r]: what request r does next
  req,      \* what r was sent with
  owner,    \* the user that r acts for, once it knows
  before,   \* the requests that had committed a row when r was sent
  users,    \* the committed users
  homes,    \* the users with an organization of their own and the role admin in it
  inactive, \* the users whose is_active is false
  token,    \* the refresh token that r inserted: "none", "valid", "expired" or "used"
  key       \* the API key that r inserted: "none", "active" or "revoked"

vars == <<pc, req, owner, before, users, homes, inactive, token, key>>

NoArgs == [op |-> "none"]
LoginArgs == [op : {"login"}, email : Emails]
RefreshArgs == [op : {"refresh"}, token : Requests]
CreateKeyArgs == [op : {"create_key"}, user : Requests]
KeyArgs == [op : {"use_key", "revoke_key"}, key : Requests]
Args == LoginArgs \cup RefreshArgs \cup CreateKeyArgs \cup KeyArgs
NoUser == "none"
InFlight == {"find_user", "insert_user", "find_token", "delete_token", "find_key", "update_key",
             "respond", "commit"}
Given == {"commit", "done", "died"}  \* where the client has its response

Init ==
  /\ pc = [r \in Requests |-> "new"]
  /\ req = [r \in Requests |-> NoArgs]
  /\ owner = [r \in Requests |-> NoUser]
  /\ before = [r \in Requests |-> {}]
  /\ users = {}
  /\ homes = {}
  /\ inactive = {}
  /\ token = [r \in Requests |-> "none"]
  /\ key = [r \in Requests |-> "none"]

-------------------------------------------------------------------------------
(* The queries, and what other open transactions hold. *)

\* The committed users with r's address.
WithEmail(r) == {u \in users : req[u].email = req[r].email}

\* MUTANT: there is no unique index on the address.
EmailTaken_Never(r) == FALSE

\* users.email is unique.
EmailTaken(r) == WithEmail(r) # {}

\* Another login has inserted a user with r's address: owner is its own new row.
EmailHeld(r) ==
  \E s \in Requests \ {r} : /\ pc[s] \in {"respond", "commit"} /\ req[s].op = "login"
                            /\ owner[s] = s /\ req[s].email = req[r].email

\* Another refresh has deleted the token.
TokenHeld(r) ==
  \E s \in Requests \ {r} : /\ pc[s] \in {"respond", "commit"} /\ req[s].op = "refresh"
                            /\ req[s].token = req[r].token

\* Another request has updated the key's row, its last_used_at or its is_active.
KeyHeld(r) ==
  \E s \in Requests \ {r} : /\ pc[s] \in {"respond", "commit"}
                            /\ req[s].op \in {"use_key", "revoke_key"}
                            /\ req[s].key = req[r].key

Tables == <<users, homes, inactive, token, key>>
Goto(r, label) == pc' = [pc EXCEPT ![r] = label]
Continue(r, label) == Goto(r, label) /\ UNCHANGED <<req, owner, before, Tables>>

\* r ends and leaves no row.
Forget(r) ==
  /\ Goto(r, "new")
  /\ req' = [req EXCEPT ![r] = NoArgs]
  /\ owner' = [owner EXCEPT ![r] = NoUser]
  /\ before' = [before EXCEPT ![r] = {}]
Raise(r) == Forget(r) /\ UNCHANGED Tables

-------------------------------------------------------------------------------
Start(r, a, label) ==
  /\ pc[r] = "new"
  /\ Goto(r, label)
  /\ req' = [req EXCEPT ![r] = a]
  /\ before' = [before EXCEPT ![r] = {q \in Requests : pc[q] = "done"}]
  /\ UNCHANGED <<owner, Tables>>

\* A client sends an address that Google vouches for, a token or a key it was once given,
\* stored or not, or, with an access token, asks for a key: _authenticate_jwt has found its
\* user active, and the INSERT waits for nobody.
Arrive(r) ==
  \/ \E a \in LoginArgs : Start(r, a, "find_user")
  \/ \E a \in RefreshArgs : /\ pc[a.token] \in Given /\ req[a.token].op \in {"login", "refresh"}
                           /\ Start(r, a, "find_token")
  \/ \E a \in CreateKeyArgs : a.user \in users \ inactive /\ Start(r, a, "respond")
  \/ \E a \in KeyArgs : /\ pc[a.key] \in Given /\ req[a.key].op = "create_key"
                       /\ Start(r, a, "find_key")

\* The response is sent, with the token or the key if there is one.  A client that it never
\* reaches is one that never sends them.
Respond(r) == pc[r] = "respond" /\ Continue(r, "commit")

-------------------------------------------------------------------------------
(* google_login *)

FindUser(r) ==
  /\ pc[r] = "find_user"
  /\ \/ WithEmail(r) = {} /\ Continue(r, "insert_user")
     \/ \E u \in WithEmail(r) \ inactive :
          /\ Goto(r, "respond")
          /\ owner' = [owner EXCEPT ![r] = u]
          /\ UNCHANGED <<req, before, Tables>>
     \/ WithEmail(r) \cap inactive # {} /\ Raise(r)

\* MUTANT: without the flush the new user has no id when it is used.
InsertUser_NoFlush(r) == pc[r] = "insert_user" /\ Continue(r, "respond")

\* The flush of the new user.  The organization and the membership that follow wait for
\* nobody: their unique values contain the new user's id.
InsertUser(r) ==
  /\ pc[r] = "insert_user"
  /\ ~EmailHeld(r)
  /\ \/ EmailTaken(r) /\ Raise(r)
     \/ /\ ~EmailTaken(r)
        /\ Goto(r, "respond")
        /\ owner' = [owner EXCEPT ![r] = r]
        /\ UNCHANGED <<req, before, Tables>>

\* The token and, with a new user only, the user, the organization and the membership.
CommitLogin(r) ==
  /\ pc[r] = "commit" /\ req[r].op = "login"
  /\ Goto(r, "done")
  /\ \/ owner[r] = r /\ users' = users \cup {r} /\ homes' = homes \cup {r}
     \/ owner[r] # r /\ UNCHANGED <<users, homes>>
  /\ token' = [token EXCEPT ![r] = "valid"]
  /\ UNCHANGED <<req, owner, before, inactive, key>>

-------------------------------------------------------------------------------
(* refresh_access_token *)

\* The deletion of an expired token is rolled back by the AuthenticationError after it.
FindToken(r) ==
  LET t == req[r].token IN
  /\ pc[r] = "find_token"
  /\ \/ token[t] = "valid" /\ owner[t] \notin inactive /\ Continue(r, "delete_token")
     \/ token[t] # "valid" /\ Raise(r)
     \/ owner[t] \in inactive /\ Raise(r)

\* MUTANT: the deletion is committed before the new token is stored.
DeleteToken_Committed(r) ==
  /\ pc[r] = "delete_token"
  /\ ~TokenHeld(r)
  /\ Goto(r, "respond")
  /\ token' = [token EXCEPT ![req[r].token] = "used"]
  /\ UNCHANGED <<req, owner, before, users, homes, inactive, key>>

\* The flush: the DELETE waits for who has deleted the token, and it is no error that there
\* is none any more.
DeleteToken(r) ==
  /\ pc[r] = "delete_token"
  /\ ~TokenHeld(r)
  /\ Continue(r, "respond")

CommitRefresh(r) ==
  LET t == req[r].token IN
  /\ pc[r] = "commit" /\ req[r].op = "refresh"
  /\ Goto(r, "done")
  /\ owner' = [owner EXCEPT ![r] = owner[t]]
  /\ token' = [token EXCEPT ![t] = "used", ![r] = "valid"]
  /\ UNCHANGED <<req, before, users, homes, inactive, key>>

-------------------------------------------------------------------------------
(* API keys *)

CommitCreateKey(r) ==
  /\ pc[r] = "commit" /\ req[r].op = "create_key"
  /\ Goto(r, "done")
  /\ owner' = [owner EXCEPT ![r] = req[r].user]
  /\ key' = [key EXCEPT ![r] = "active"]
  /\ UNCHANGED <<req, before, users, homes, inactive, token>>

\* _authenticate_api_key finds active keys only; revoke_user_api_key finds any of the caller's
\* own, whom an access token has authenticated.
FindKey(r) ==
  LET k == req[r].key
      found == key[k] = "active" \/ (key[k] = "revoked" /\ req[r].op = "revoke_key")
  IN
  /\ pc[r] = "find_key"
  /\ \/ found /\ owner[k] \notin inactive /\ Continue(r, "update_key")
     \/ ~found /\ Raise(r)
     \/ owner[k] \in inactive /\ Raise(r)

\* The flush of last_used_at, before the next query of the request, or of is_active.  What a
\* request that was let in does before its response is not about the key.
UpdateKey(r) ==
  /\ pc[r] = "update_key"
  /\ ~KeyHeld(r)
  /\ Continue(r, "respond")

\* MUTANT: the whole row is written back as it was read.
CommitUse_WholeRow(r) ==
  /\ pc[r] = "commit" /\ req[r].op = "use_key"
  /\ key' = [key EXCEPT ![req[r].key] = "active"]
  /\ Forget(r)
  /\ UNCHANGED <<users, homes, inactive, token>>

\* The request commits last_used_at: SQLAlchemy writes the columns that were assigned, and no
\* other.
CommitUse(r) == pc[r] = "commit" /\ req[r].op = "use_key" /\ Raise(r)

CommitRevoke(r) ==
  /\ pc[r] = "commit" /\ req[r].op = "revoke_key"
  /\ key' = [key EXCEPT ![req[r].key] = "revoked"]
  /\ Forget(r)
  /\ UNCHANGED <<users, homes, inactive, token>>

-------------------------------------------------------------------------------
\* The process dies or the connection is lost: the transaction is rolled back.  At "commit" a
\* login, a refresh or the creation of a key has given its client what will never be stored.
Crash(r) ==
  \/ /\ pc[r] \in InFlight
     /\ pc[r] = "commit" => req[r].op \in {"use_key", "revoke_key"}
     /\ Raise(r)
  \/ /\ pc[r] = "commit" /\ req[r].op \in {"login", "refresh", "create_key"}
     /\ Continue(r, "died")

\* A token's expires_at passes.
Expire(t) ==
  /\ token[t] = "valid"
  /\ token' = [token EXCEPT ![t] = "expired"]
  /\ UNCHANGED <<pc, req, owner, before, users, homes, inactive, key>>

\* An operator deactivates an account: no code does.
Deactivate(u) ==
  /\ u \in users \ inactive
  /\ inactive' = inactive \cup {u}
  /\ UNCHANGED <<pc, req, owner, before, users, homes, token, key>>

Step(r) ==
  \/ Respond(r)
  \/ FindUser(r)
  \/ InsertUser(r)
  \/ CommitLogin(r)
  \/ FindToken(r)
  \/ DeleteToken(r)
  \/ CommitRefresh(r)
  \/ CommitCreateKey(r)
  \/ FindKey(r)
  \/ UpdateKey(r)
  \/ CommitUse(r)
  \/ CommitRevoke(r)

Next == \E r \in Requests : Arrive(r) \/ Step(r) \/ Crash(r) \/ Expire(r) \/ Deactivate(r)

Spec == Init /\ [][Next]_vars

-------------------------------------------------------------------------------
(* Properties. *)

\* Every variable stays in its domain, and who has committed a row acts for a user.
TypeOK ==
  /\ pc \in [Requests -> InFlight \cup {"new", "done", "died"}]
  /\ req \in [Requests -> Args \cup {NoArgs}]
  /\ owner \in [Requests -> Requests \cup {NoUser}]
  /\ before \in [Requests -> SUBSET Requests]
  /\ users \subseteq Requests /\ homes \subseteq Requests /\ inactive \subseteq users
  /\ token \in [Requests -> {"none", "valid", "expired", "used"}]
  /\ key \in [Requests -> {"none", "active", "revoked"}]
  /\ \A r \in Requests : pc[r] = "done" => owner[r] \in Requests

\* However first logins race and die, all who were signed in with one address act for one
\* user, except who was answered as a new user just before a commit that failed; and a login
\* that ended leaves its user with an organization to work in (the IntegrityError of
\* service.py:67-70, the organization of 72-73, and dependencies.py:43-48).
SignedIn == {r \in Requests : pc[r] \in Given /\ req[r].op = "login"}
LostUser(r) == pc[r] = "died" /\ owner[r] = r
OneAccountPerAddress ==
  /\ \A q, r \in SignedIn :
       req[q].email = req[r].email /\ ~LostUser(q) /\ ~LostUser(r) => owner[q] = owner[r]
  /\ \A r \in SignedIn : pc[r] = "done" => owner[r] \in users \cap homes

\* A token goes exactly when another one is stored in its place: a refresh that dies, before
\* or after its response, leaves the old token as it was.  And it is exchanged twice only by
\* refreshes that overlapped: one sent after another committed is refused (the rotation,
\* service.py:116-148).  It is not promised that a client can go on: one that misses the
\* response of a refresh that commits, or forgets the old token at a response whose commit
\* fails, has no token that is stored.
Exchanges(t) == {r \in Requests : pc[r] = "done" /\ req[r].op = "refresh" /\ req[r].token = t}
ExchangedOnceUnlessOverlapping ==
  \A t \in Requests :
    /\ token[t] = "used" <=> Exchanges(t) # {}
    /\ \A q, r \in Exchanges(t) : q \notin before[r]

\* Once a revocation is committed, which is slightly after its 204, the key stays revoked, also
\* when requests that it had authenticated write to its row afterwards (routes.py:104, "Cannot
\* be undone", and dependencies.py:126).
RevocationIsFinal == [][\A k \in Requests : key[k] = "revoked" => key'[k] = "revoked"]_vars

\* What refresh_access_token's docstring says (service.py:104, "The old refresh token is
\* deleted (one-time use)"): a token is exchanged once.  It does not hold: of two refreshes
\* that have both read the token, the second deletes nothing and succeeds as well.
OneTimeUse == \A t \in Requests : \A q, r \in Exchanges(t) : q = r
===============================================================================
