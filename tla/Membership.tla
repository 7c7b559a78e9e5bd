------------------------------ MODULE Membership ------------------------------
(***************************************************************************)
(* The members and the invitations of one organization                     *)
(* (src/tenants/service.py): administrators who remove members and send    *)
(* invitations, and users who accept them, in concurrent requests.         *)
(*                                                                         *)
(* A request runs in one READ COMMITTED transaction: a query sees what is  *)
(* committed, a DELETE or a SELECT ... FOR UPDATE waits for the            *)
(* transaction that has the row, an INSERT waits for one that inserts or   *)
(* deletes the same (organization, user).  get_db_session rolls back when  *)
(* the handler raises, and commits when it has returned and its response   *)
(* has been sent.  Who knows an invitation from a response and accepts it  *)
(* before it is stored finds none, which changes nothing.                  *)
(*                                                                         *)
(* A row has a fresh id, so it is named by the request that inserts it; a  *)
(* request that leaves no row behind is forgotten when it ends, and its    *)
(* name can be used again.  Requests bounds the rows, not the requests.    *)
(***************************************************************************)
EXTENDS Naturals

CONSTANTS
  Users,      \* the users, and their addresses: users.email is unique
  Founders,   \* the administrators the organization starts with
  Roles,      \* the roles an invitation can carry
  Requests    \* requests, and the rows they may insert

ASSUME FoundersAssumption == Founders \subseteq Users
ASSUME RolesAssumption == "admin" \in Roles /\ "none" \notin Roles

VARIABLES
  pc,       \* pc[r]: what request r does next
  req,      \* what r was sent with
  ctx,      \* the role r read when its tenant was resolved
  row,      \* the membership row that r's DELETE names
  before,   \* the requests that had committed a row when r was sent
  member,   \* the committed membership of each user: its row and its role
  status,   \* the committed status of the invitation that r inserted
  lapsed    \* the invitations whose expires_at has passed

vars == <<pc, req, ctx, row, before, member, status, lapsed>>

NoArgs == [op |-> "none"]
RemoveArgs == [op : {"remove"}, user : Users, target : Users]
InviteArgs == [op : {"invite"}, user : Users, email : Users, role : Roles]
AcceptArgs == [op : {"accept"}, user : Users, invite : Requests]

Rows == Requests \cup {"founding"}
NoMember == [row |-> "none", role |-> "none"]
InFlight == {"resolve", "find", "delete", "check_member", "check_pending", "lock", "insert",
             "commit"}

Init ==
  /\ pc = [r \in Requests |-> "new"]
  /\ req = [r \in Requests |-> NoArgs]
  /\ ctx = [r \in Requests |-> "none"]
  /\ row = [r \in Requests |-> "none"]
  /\ before = [r \in Requests |-> {}]
  /\ member = [u \in Users |->
                 IF u \in Founders THEN [row |-> "founding", role |-> "admin"] ELSE NoMember]
  /\ status = [r \in Requests |-> "none"]
  /\ lapsed = {}

-------------------------------------------------------------------------------
(* The queries, and what other open transactions hold. *)

\* list_org_members
Members == {u \in Users : member[u].role # "none"}
Admins == {u \in Users : member[u].role = "admin"}

\* list_pending_invites: whether they have lapsed is not asked.
PendingInvites(u) == {i \in Requests : status[i] = "pending" /\ req[i].email = u}

\* MUTANT: the invitation is read without FOR UPDATE.
InviteLocked_Never(i) == FALSE

\* Another acceptance has the invitation FOR UPDATE.
InviteLocked(i) ==
  \E s \in Requests : pc[s] \in {"insert", "commit"} /\ req[s].op = "accept"
                        /\ req[s].invite = i

\* An open transaction has deleted the row.
RowDeleted(x) == \E s \in Requests : pc[s] = "commit" /\ req[s].op = "remove" /\ row[s] = x

\* An open transaction has inserted a membership of u.
MemberInserted(u) == \E s \in Requests : pc[s] = "commit" /\ req[s].op = "accept" /\ req[s].user = u

Goto(r, label) == pc' = [pc EXCEPT ![r] = label]

\* r ends and leaves no row: it raised (a 4xx or a 500), died, or was a removal.
Forget(r) ==
  /\ Goto(r, "new")
  /\ req' = [req EXCEPT ![r] = NoArgs]
  /\ ctx' = [ctx EXCEPT ![r] = "none"]
  /\ row' = [row EXCEPT ![r] = "none"]
  /\ before' = [before EXCEPT ![r] = {}]
Raise(r) == Forget(r) /\ UNCHANGED <<member, status, lapsed>>
Continue(r, label) == Goto(r, label) /\ UNCHANGED <<req, ctx, row, before, member, status, lapsed>>


-------------------------------------------------------------------------------
(* A request arrives.  Its user is authenticated; who accepts names an invitation that was  *)
(* listed as pending for the user's address, then or earlier.                                *)

Start(r, a, label) ==
  /\ pc[r] = "new"
  /\ Goto(r, label)
  /\ req' = [req EXCEPT ![r] = a]
  /\ before' = [before EXCEPT ![r] = {q \in Requests : pc[q] = "done"}]
  /\ UNCHANGED <<ctx, row, member, status, lapsed>>

Arrive(r) ==
  \/ \E a \in RemoveArgs \cup InviteArgs : Start(r, a, "resolve")
  \/ \E a \in AcceptArgs :
       status[a.invite] # "none" /\ req[a.invite].email = a.user /\ Start(r, a, "lock")

\* require_role, with the role just read.
MayManage(r, role) == role = "admin"

\* MUTANT: administrators can remove themselves.
RemovesSelf_Allowed(r) == FALSE

\* The first check of remove_member.
RemovesSelf(r) == req[r].op = "remove" /\ req[r].target = req[r].user

\* get_current_tenant with resolve_membership, then require_role.
Resolve(r) ==
  LET role == member[req[r].user].role IN
  /\ pc[r] = "resolve"
  /\ \/ /\ MayManage(r, role) /\ ~RemovesSelf(r)
        /\ ctx' = [ctx EXCEPT ![r] = role]
        /\ Goto(r, IF req[r].op = "remove" THEN "find" ELSE "check_member")
        /\ UNCHANGED <<req, row, before, member, status, lapsed>>
     \/ ~MayManage(r, role) /\ Raise(r)
     \/ RemovesSelf(r) /\ Raise(r)

-------------------------------------------------------------------------------
(* remove_member *)

FindMember(r) ==
  LET found == member[req[r].target] IN
  /\ pc[r] = "find"
  /\ \/ found = NoMember /\ Raise(r)
     \/ /\ found # NoMember
        /\ row' = [row EXCEPT ![r] = found.row]
        /\ Goto(r, "delete")
        /\ UNCHANGED <<req, ctx, before, member, status, lapsed>>

\* DELETE ... WHERE id = row: it waits for who has deleted the row, and it is no error that
\* there is no such row any more.
DeleteMember(r) ==
  /\ pc[r] = "delete"
  /\ ~RowDeleted(row[r])
  /\ Continue(r, "commit")

CommitRemoval(r) ==
  LET u == req[r].target IN
  /\ pc[r] = "commit" /\ req[r].op = "remove"
  /\ member' = IF member[u].row = row[r] THEN [member EXCEPT ![u] = NoMember] ELSE member
  /\ Forget(r)
  /\ UNCHANGED <<status, lapsed>>

-------------------------------------------------------------------------------
(* create_invite *)

CheckMember(r) ==
  /\ pc[r] = "check_member"
  /\ \/ req[r].email \in Members /\ Raise(r)
     \/ req[r].email \notin Members /\ Continue(r, "check_pending")

\* MUTANT: only an invitation with the same role counts as pending.
PendingFor_SameRole(r) == {i \in PendingInvites(req[r].email) : req[i].role = req[r].role}

\* The query for a pending invitation; scalar_one_or_none raises when there are two, and the
\* handler when there is one.
PendingFor(r) == PendingInvites(req[r].email)

CheckPending(r) ==
  /\ pc[r] = "check_pending"
  /\ \/ PendingFor(r) = {} /\ Continue(r, "commit")
     \/ PendingFor(r) # {} /\ Raise(r)

\* The INSERT waits for nobody, so it is one step with the commit.
CommitInvite(r) ==
  /\ pc[r] = "commit" /\ req[r].op = "invite"
  /\ Goto(r, "done")
  /\ status' = [status EXCEPT ![r] = "pending"]
  /\ UNCHANGED <<req, ctx, row, before, member, lapsed>>

-------------------------------------------------------------------------------
(* accept_invite *)

\* MUTANT: the status "expired" is stored, which the CHECK constraint forbids.
LockInvite_ExpiredStored(r) ==
  LET i == req[r].invite IN
  /\ pc[r] = "lock"
  /\ ~InviteLocked(i)
  /\ \/ status[i] # "pending" /\ Raise(r)
     \/ i \in lapsed /\ Forget(r) /\ status' = [status EXCEPT ![i] = "expired"]
        /\ UNCHANGED <<member, lapsed>>
     \/ status[i] = "pending" /\ i \notin lapsed /\ Continue(r, "insert")

\* SELECT ... FOR UPDATE and the checks.  For an invitation that has lapsed the flush of the
\* status "expired" fails on ck_org_invites_status_valid, and everything is rolled back.
LockInvite(r) ==
  LET i == req[r].invite IN
  /\ pc[r] = "lock"
  /\ ~InviteLocked(i)
  /\ \/ status[i] # "pending" /\ Raise(r)
     \/ i \in lapsed /\ Raise(r)
     \/ status[i] = "pending" /\ i \notin lapsed /\ Continue(r, "insert")

\* The flush: uq_org_memberships_org_user.
InsertMember(r) ==
  LET u == req[r].user IN
  /\ pc[r] = "insert"
  /\ ~MemberInserted(u)
  /\ ~RowDeleted(member[u].row)
  /\ \/ u \in Members /\ Raise(r)
     \/ u \notin Members /\ Continue(r, "commit")

CommitAccept(r) ==
  LET i == req[r].invite IN
  /\ pc[r] = "commit" /\ req[r].op = "accept"
  /\ Goto(r, "done")
  /\ member' = [member EXCEPT ![req[r].user] = [row |-> r, role |-> req[i].role]]
  /\ status' = [status EXCEPT ![i] = "accepted"]
  /\ UNCHANGED <<req, ctx, row, before, lapsed>>

-------------------------------------------------------------------------------
\* The process dies or the connection is lost: the transaction is rolled back.
Crash(r) == pc[r] \in InFlight /\ Raise(r)

\* Seven days pass.
Lapse(i) ==
  /\ status[i] = "pending" /\ i \notin lapsed
  /\ lapsed' = lapsed \cup {i}
  /\ UNCHANGED <<pc, req, ctx, row, before, member, status>>

Step(r) ==
  \/ Resolve(r)
  \/ FindMember(r)
  \/ DeleteMember(r)
  \/ CommitRemoval(r)
  \/ CheckMember(r)
  \/ CheckPending(r)
  \/ CommitInvite(r)
  \/ LockInvite(r)
  \/ InsertMember(r)
  \/ CommitAccept(r)

Next == \E r \in Requests : Arrive(r) \/ Step(r) \/ Crash(r) \/ Lapse(r)

Spec == Init /\ [][Next]_vars

-------------------------------------------------------------------------------
(* Properties. *)

\* Every variable stays in its domain.
TypeOK ==
  /\ pc \in [Requests -> InFlight \cup {"new", "done"}]
  /\ req \in [Requests -> RemoveArgs \cup InviteArgs \cup AcceptArgs \cup {NoArgs}]
  /\ ctx \in [Requests -> Roles \cup {"none"}]
  /\ row \in [Requests -> Rows \cup {"none"}]
  /\ before \in [Requests -> SUBSET Requests]
  /\ member \in [Users -> [row : Rows, role : Roles] \cup {NoMember}]
  /\ status \in [Requests -> {"none", "pending", "accepted"}]
  /\ lapsed \subseteq Requests

\* r removes a member with the administrator's role that it read at its start, and that its
\* sender no longer has.
RemovesWithStaleRole(r) ==
  /\ pc[r] = "commit" /\ pc'[r] = "new"
  /\ req[r].op = "remove" /\ ctx[r] = "admin" /\ req[r].user \notin Admins
LosesLastAdmin == Admins # {} /\ Admins' = {}

\* Administrators cannot leave their organization without one, except when the one who
\* removes the last of them has been removed, or let in again with less, while that request
\* was under way with the role it read at its start (the check against removing oneself,
\* service.py:151, and the role of dependencies.py:49).
LastAdminLostToStaleRole ==
  [][LosesLastAdmin => \E r \in Requests : RemovesWithStaleRole(r)]_vars

\* An invitation lets its addressee in once, however acceptances, removals and crashes
\* interleave, and it is marked as accepted exactly when it did (with_for_update, 270).
Acceptances(i) == {r \in Requests : pc[r] = "done" /\ req[r].op = "accept"
                                      /\ req[r].invite = i}
InvitationUsedOnce ==
  \A i \in Requests :
    /\ \A q, r \in Acceptances(i) : q = r
    /\ status[i] = "accepted" <=> Acceptances(i) # {}

\* Two invitations of one address are pending at a time only if the requests that created
\* them overlapped: neither was sent after the other had committed (the check of 194-202).
\* A client has its answer slightly before that, so one that sends the two in a row can still
\* make them overlap.
PendingTwiceOnlyIfOverlapping ==
  \A u \in Users : \A i, j \in PendingInvites(u) : i \notin before[j]
===============================================================================
