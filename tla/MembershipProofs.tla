--------------------------- MODULE MembershipProofs ---------------------------
(***************************************************************************)
(* Proofs about Membership for any users, roles and requests: what FOR     *)
(* UPDATE, the unique index on members and the checks before the inserts   *)
(* are worth, however requests interleave and die.                         *)
(***************************************************************************)
EXTENDS Membership, TLAPS

\* What a request was sent with agrees with where it is.
Shapes ==
  \A r \in Requests :
    /\ pc[r] = "new" => req[r] = NoArgs
    /\ pc[r] \in {"resolve", "find", "delete", "check_member", "check_pending"} =>
         req[r] \in RemoveArgs \cup InviteArgs
    /\ pc[r] \in {"find", "delete"} => req[r] \in RemoveArgs
    /\ pc[r] \in {"check_member", "check_pending"} => req[r] \in InviteArgs
    /\ pc[r] \in {"lock", "insert"} => req[r] \in AcceptArgs
    /\ pc[r] = "commit" => req[r] # NoArgs
    /\ pc[r] = "done" => req[r] \in InviteArgs \cup AcceptArgs
    /\ pc[r] = "delete" => row[r] \in Rows

\* An invitation is a row that a finished request has left.
InviteRows ==
  \A r \in Requests :
    /\ status[r] # "none" => pc[r] = "done" /\ req[r] \in InviteArgs
    /\ req[r] \in AcceptArgs => status[req[r].invite] # "none"

\* FOR UPDATE: of the acceptances that have passed the check one is under way, while the
\* invitation is pending, or one has been committed, and the invitation says so.
AcceptedOnce ==
  /\ \A r \in Requests : req[r] \in AcceptArgs /\ pc[r] \in {"insert", "commit"} =>
       /\ status[req[r].invite] = "pending"
       /\ \A s \in Requests :
            /\ req[s] \in AcceptArgs /\ pc[s] \in {"insert", "commit"}
            /\ req[s].invite = req[r].invite
            => s = r
  /\ \A r \in Requests : req[r] \in AcceptArgs /\ pc[r] = "done" =>
       status[req[r].invite] = "accepted"

\* What was done before a request was sent stays done; and who passed the check for pending
\* invitations can only be joined by one that was not there when it was sent.
Overlaps ==
  /\ \A r \in Requests : before[r] \subseteq {q \in Requests : pc[q] = "done"}
  /\ \A j \in Requests : req[j] \in InviteArgs /\ pc[j] \in {"commit", "done"} =>
       \A i \in PendingInvites(req[j].email) : i \notin before[j]

\* A removal under way was asked for by an administrator, of someone else.
RemovesOther ==
  \A r \in Requests :
    req[r] \in RemoveArgs /\ pc[r] \in {"find", "delete", "commit"} =>
      ctx[r] = "admin" /\ req[r].target # req[r].user

\* An inserted member was none before, and no two transactions insert the same one.
InsertedIsNew ==
  \A r \in Requests : req[r] \in AcceptArgs /\ pc[r] = "commit" =>
    /\ req[r].user \notin Members
    /\ \A s \in Requests :
         req[s] \in AcceptArgs /\ pc[s] = "commit" /\ req[s].user = req[r].user => s = r

MembershipInv ==
  /\ TypeOK /\ Shapes /\ InviteRows /\ AcceptedOnce /\ InvitationUsedOnce
  /\ Overlaps /\ RemovesOther /\ InsertedIsNew

-------------------------------------------------------------------------------
(* The inductive invariant holds at the start and is kept by every step. *)

\* Nothing has been sent but there are the founders.
LEMMA MembershipInvInit == Init => MembershipInv
<1> SUFFICES ASSUME Init PROVE MembershipInv
  OBVIOUS
<1>1. TypeOK
  BY FoundersAssumption, RolesAssumption DEF Init, TypeOK, InFlight, Rows, NoMember
<1>2. Shapes /\ InviteRows /\ AcceptedOnce /\ Overlaps /\ RemovesOther /\ InsertedIsNew
  BY DEF Init, Shapes, InviteRows, AcceptedOnce, Overlaps, PendingInvites, RemovesOther,
         InsertedIsNew, NoArgs, RemoveArgs, InviteArgs, AcceptArgs
<1>3. InvitationUsedOnce
  BY DEF Init, InvitationUsedOnce, Acceptances
<1> QED
  BY <1>1, <1>2, <1>3 DEF MembershipInv

\* As long as the finished requests and the statuses stay, so do the acceptances.
LEMMA SameAcceptances ==
  ASSUME InvitationUsedOnce, UNCHANGED status,
         \A q \in Requests : pc'[q] = "done" <=> pc[q] = "done",
         \A q \in Requests : pc[q] = "done" => req'[q] = req[q]
  PROVE  InvitationUsedOnce'
<1>1. \A i \in Requests : Acceptances(i)' = Acceptances(i)
  BY DEF Acceptances
<1> QED
  BY <1>1 DEF InvitationUsedOnce

\* A request about members or invitations arrives.
LEMMA ArriveManagesKeeps ==
  ASSUME MembershipInv, NEW r \in Requests, NEW a \in RemoveArgs \cup InviteArgs,
         Start(r, a, "resolve")
  PROVE  MembershipInv'
<1> USE DEF MembershipInv, RemoveArgs, InviteArgs, AcceptArgs, NoArgs
<1>1. TypeOK'
  BY DEF TypeOK, Shapes, InFlight, Rows, Start, Goto
<1>2. Shapes'
  BY DEF TypeOK, Shapes, InFlight, Start, Goto
<1>3. InviteRows'
  BY DEF TypeOK, Shapes, InviteRows, InFlight, Start, Goto
<1>4. AcceptedOnce'
  BY DEF TypeOK, Shapes, InviteRows, AcceptedOnce, Start, Goto
<1>5. InvitationUsedOnce'
  BY SameAcceptances DEF TypeOK, Shapes, Start, Goto
<1>6. Overlaps'
  BY DEF TypeOK, Shapes, InviteRows, Overlaps, PendingInvites, Start, Goto
<1>7. RemovesOther'
  BY DEF TypeOK, Shapes, RemovesOther, Start, Goto
<1>8. InsertedIsNew'
  BY DEF TypeOK, Shapes, InsertedIsNew, Members, Start, Goto
<1> QED
  BY <1>1, <1>2, <1>3, <1>4, <1>5, <1>6, <1>7, <1>8

\* An acceptance arrives: its invitation is a committed row.
LEMMA ArriveAcceptsKeeps ==
  ASSUME MembershipInv, NEW r \in Requests, NEW a \in AcceptArgs,
         status[a.invite] # "none", Start(r, a, "lock")
  PROVE  MembershipInv'
<1> USE DEF MembershipInv, RemoveArgs, InviteArgs, AcceptArgs, NoArgs
<1>1. TypeOK'
  BY DEF TypeOK, Shapes, InFlight, Rows, Start, Goto
<1>2. Shapes'
  BY DEF TypeOK, Shapes, InFlight, Start, Goto
<1>3. InviteRows'
  BY DEF TypeOK, Shapes, InviteRows, InFlight, Start, Goto
<1>4. AcceptedOnce'
  BY DEF TypeOK, Shapes, InviteRows, AcceptedOnce, Start, Goto
<1>5. InvitationUsedOnce'
  BY SameAcceptances DEF TypeOK, Shapes, Start, Goto
<1>6. Overlaps'
  BY DEF TypeOK, Shapes, InviteRows, Overlaps, PendingInvites, Start, Goto
<1>7. RemovesOther'
  BY DEF TypeOK, Shapes, RemovesOther, Start, Goto
<1>8. InsertedIsNew'
  BY DEF TypeOK, Shapes, InsertedIsNew, Members, Start, Goto
<1> QED
  BY <1>1, <1>2, <1>3, <1>4, <1>5, <1>6, <1>7, <1>8

\* A request that raises leaves everything as it was, and is forgotten.
LEMMA RaiseKeeps ==
  ASSUME MembershipInv, NEW r \in Requests, pc[r] # "done", Raise(r)
  PROVE  MembershipInv'
<1> USE DEF MembershipInv, RemoveArgs, InviteArgs, AcceptArgs, NoArgs
<1>1. TypeOK'
  BY DEF TypeOK, Shapes, InFlight, Rows, Forget, Goto, Raise
<1>2. Shapes'
  BY DEF TypeOK, Shapes, InFlight, Forget, Goto, Raise
<1>3. InviteRows'
  BY DEF TypeOK, Shapes, InviteRows, InFlight, Forget, Goto, Raise
<1>4. AcceptedOnce'
  BY DEF TypeOK, Shapes, InviteRows, AcceptedOnce, Forget, Goto, Raise
<1>5. InvitationUsedOnce'
  BY SameAcceptances DEF TypeOK, Shapes, Forget, Goto, Raise
<1>6. Overlaps'
  BY DEF TypeOK, Shapes, InviteRows, Overlaps, PendingInvites, Forget, Goto, Raise
<1>7. RemovesOther'
  BY DEF TypeOK, Shapes, RemovesOther, Forget, Goto, Raise
<1>8. InsertedIsNew'
  BY DEF TypeOK, Shapes, InsertedIsNew, Members, Forget, Goto, Raise
<1> QED
  BY <1>1, <1>2, <1>3, <1>4, <1>5, <1>6, <1>7, <1>8

\* The role is read, and who would remove themselves is refused.
LEMMA ResolveKeeps == ASSUME MembershipInv, NEW r \in Requests, Resolve(r) PROVE MembershipInv'
<1> USE DEF MembershipInv, RemoveArgs, InviteArgs, AcceptArgs, NoArgs
<1>1. CASE Raise(r)
  BY <1>1, RaiseKeeps DEF Resolve
<1>2. CASE ~Raise(r)
  <2>1. TypeOK'
    BY <1>2, RolesAssumption
    DEF TypeOK, Shapes, InFlight, Rows, Resolve, MayManage, RemovesSelf, Goto
  <2>2. Shapes'
    BY <1>2 DEF TypeOK, Shapes, InFlight, Resolve, MayManage, RemovesSelf, Goto
  <2>3. InviteRows'
    BY <1>2 DEF TypeOK, Shapes, InviteRows, InFlight, Resolve, MayManage, RemovesSelf, Goto
  <2>4. AcceptedOnce'
    BY <1>2 DEF TypeOK, Shapes, InviteRows, AcceptedOnce, Resolve, MayManage, RemovesSelf, Goto
  <2>5. InvitationUsedOnce'
    BY <1>2, SameAcceptances DEF TypeOK, Shapes, Resolve, MayManage, RemovesSelf, Goto
  <2>6. Overlaps'
    BY <1>2
    DEF TypeOK, Shapes, InviteRows, Overlaps, PendingInvites, Resolve, MayManage, RemovesSelf,
        Goto
  <2>7. RemovesOther'
    BY <1>2 DEF TypeOK, Shapes, RemovesOther, Resolve, MayManage, RemovesSelf, Goto
  <2>8. InsertedIsNew'
    BY <1>2 DEF TypeOK, Shapes, InsertedIsNew, Members, Resolve, MayManage, RemovesSelf, Goto
  <2> QED
    BY <2>1, <2>2, <2>3, <2>4, <2>5, <2>6, <2>7, <2>8
<1> QED
  BY <1>1, <1>2

\* The row to delete is found.
LEMMA FindMemberKeeps ==
  ASSUME MembershipInv, NEW r \in Requests, FindMember(r)
  PROVE  MembershipInv'
<1> USE DEF MembershipInv, RemoveArgs, InviteArgs, AcceptArgs, NoArgs
<1>1. CASE Raise(r)
  BY <1>1, RaiseKeeps DEF FindMember
<1>2. CASE ~Raise(r)
  <2>1. TypeOK'
    BY <1>2 DEF TypeOK, Shapes, InFlight, Rows, FindMember, NoMember, Goto
  <2>2. Shapes'
    BY <1>2 DEF TypeOK, Shapes, InFlight, FindMember, NoMember, Goto
  <2>3. InviteRows'
    BY <1>2 DEF TypeOK, Shapes, InviteRows, InFlight, FindMember, NoMember, Goto
  <2>4. AcceptedOnce'
    BY <1>2 DEF TypeOK, Shapes, InviteRows, AcceptedOnce, FindMember, NoMember, Goto
  <2>5. InvitationUsedOnce'
    BY <1>2, SameAcceptances DEF TypeOK, Shapes, FindMember, NoMember, Goto
  <2>6. Overlaps'
    BY <1>2 DEF TypeOK, Shapes, InviteRows, Overlaps, PendingInvites, FindMember, NoMember, Goto
  <2>7. RemovesOther'
    BY <1>2 DEF TypeOK, Shapes, RemovesOther, FindMember, NoMember, Goto
  <2>8. InsertedIsNew'
    BY <1>2 DEF TypeOK, Shapes, InsertedIsNew, Members, FindMember, NoMember, Goto
  <2> QED
    BY <2>1, <2>2, <2>3, <2>4, <2>5, <2>6, <2>7, <2>8
<1> QED
  BY <1>1, <1>2

\* The deletion waits in its transaction.
LEMMA DeleteMemberKeeps ==
  ASSUME MembershipInv, NEW r \in Requests, DeleteMember(r)
  PROVE  MembershipInv'
<1> USE DEF MembershipInv, RemoveArgs, InviteArgs, AcceptArgs, NoArgs
<1>1. TypeOK'
  BY DEF TypeOK, Shapes, InFlight, Rows, DeleteMember, Continue, Goto
<1>2. Shapes'
  BY DEF TypeOK, Shapes, InFlight, DeleteMember, Continue, Goto
<1>3. InviteRows'
  BY DEF TypeOK, Shapes, InviteRows, InFlight, DeleteMember, Continue, Goto
<1>4. AcceptedOnce'
  BY DEF TypeOK, Shapes, InviteRows, AcceptedOnce, DeleteMember, Continue, Goto
<1>5. InvitationUsedOnce'
  BY SameAcceptances DEF TypeOK, Shapes, DeleteMember, Continue, Goto
<1>6. Overlaps'
  BY DEF TypeOK, Shapes, InviteRows, Overlaps, PendingInvites, DeleteMember, Continue, Goto
<1>7. RemovesOther'
  BY DEF TypeOK, Shapes, RemovesOther, DeleteMember, Continue, Goto
<1>8. InsertedIsNew'
  BY DEF TypeOK, Shapes, InsertedIsNew, Members, DeleteMember, Continue, Goto
<1> QED
  BY <1>1, <1>2, <1>3, <1>4, <1>5, <1>6, <1>7, <1>8

\* A member less, and no row of its own.
LEMMA CommitRemovalKeeps ==
  ASSUME MembershipInv, NEW r \in Requests, CommitRemoval(r)
  PROVE  MembershipInv'
<1> USE DEF MembershipInv, RemoveArgs, InviteArgs, AcceptArgs, NoArgs
<1>1. TypeOK'
  BY DEF TypeOK, Shapes, InFlight, Rows, CommitRemoval, Forget, Goto, NoMember
<1>2. Shapes'
  BY DEF TypeOK, Shapes, InFlight, CommitRemoval, Forget, Goto, NoMember
<1>3. InviteRows'
  BY DEF TypeOK, Shapes, InviteRows, InFlight, CommitRemoval, Forget, Goto, NoMember
<1>4. AcceptedOnce'
  BY DEF TypeOK, Shapes, InviteRows, AcceptedOnce, CommitRemoval, Forget, Goto, NoMember
<1>5. InvitationUsedOnce'
  BY DEF TypeOK, Shapes, InviteRows, AcceptedOnce, InvitationUsedOnce, Acceptances,
         CommitRemoval, Forget, Goto, NoMember
<1>6. Overlaps'
  BY DEF TypeOK, Shapes, InviteRows, Overlaps, PendingInvites, CommitRemoval, Forget, Goto,
         NoMember
<1>7. RemovesOther'
  BY DEF TypeOK, Shapes, RemovesOther, CommitRemoval, Forget, Goto, NoMember
<1>8. InsertedIsNew'
  BY DEF TypeOK, Shapes, InsertedIsNew, Members, CommitRemoval, Forget, Goto, NoMember
<1> QED
  BY <1>1, <1>2, <1>3, <1>4, <1>5, <1>6, <1>7, <1>8

\* Who is a member is not invited.
LEMMA CheckMemberKeeps ==
  ASSUME MembershipInv, NEW r \in Requests, CheckMember(r)
  PROVE  MembershipInv'
<1> USE DEF MembershipInv, RemoveArgs, InviteArgs, AcceptArgs, NoArgs
<1>1. CASE Raise(r)
  BY <1>1, RaiseKeeps DEF CheckMember
<1>2. CASE ~Raise(r)
  <2>1. TypeOK'
    BY <1>2 DEF TypeOK, Shapes, InFlight, Rows, CheckMember, Continue, Goto
  <2>2. Shapes'
    BY <1>2 DEF TypeOK, Shapes, InFlight, CheckMember, Continue, Goto
  <2>3. InviteRows'
    BY <1>2 DEF TypeOK, Shapes, InviteRows, InFlight, CheckMember, Continue, Goto
  <2>4. AcceptedOnce'
    BY <1>2 DEF TypeOK, Shapes, InviteRows, AcceptedOnce, CheckMember, Continue, Goto
  <2>5. InvitationUsedOnce'
    BY <1>2, SameAcceptances DEF TypeOK, Shapes, CheckMember, Continue, Goto
  <2>6. Overlaps'
    BY <1>2
    DEF TypeOK, Shapes, InviteRows, Overlaps, PendingInvites, CheckMember, Continue, Goto
  <2>7. RemovesOther'
    BY <1>2 DEF TypeOK, Shapes, RemovesOther, CheckMember, Continue, Goto
  <2>8. InsertedIsNew'
    BY <1>2 DEF TypeOK, Shapes, InsertedIsNew, Members, CheckMember, Continue, Goto
  <2> QED
    BY <2>1, <2>2, <2>3, <2>4, <2>5, <2>6, <2>7, <2>8
<1> QED
  BY <1>1, <1>2

\* Who has a pending invitation is not invited.
LEMMA CheckPendingKeeps ==
  ASSUME MembershipInv, NEW r \in Requests, CheckPending(r)
  PROVE  MembershipInv'
<1> USE DEF MembershipInv, RemoveArgs, InviteArgs, AcceptArgs, NoArgs
<1>1. CASE Raise(r)
  BY <1>1, RaiseKeeps DEF CheckPending
<1>2. CASE ~Raise(r)
  <2>1. TypeOK'
    BY <1>2
    DEF TypeOK, Shapes, InFlight, Rows, CheckPending, PendingFor, PendingInvites, Continue, Goto
  <2>2. Shapes'
    BY <1>2
    DEF TypeOK, Shapes, InFlight, CheckPending, PendingFor, PendingInvites, Continue, Goto
  <2>3. InviteRows'
    BY <1>2
    DEF TypeOK, Shapes, InviteRows, InFlight, CheckPending, PendingFor, PendingInvites,
        Continue, Goto
  <2>4. AcceptedOnce'
    BY <1>2
    DEF TypeOK, Shapes, InviteRows, AcceptedOnce, CheckPending, PendingFor, PendingInvites,
        Continue, Goto
  <2>5. InvitationUsedOnce'
    BY <1>2, SameAcceptances
    DEF TypeOK, Shapes, CheckPending, PendingFor, PendingInvites, Continue, Goto
  <2>6. Overlaps'
    BY <1>2
    DEF TypeOK, Shapes, InviteRows, Overlaps, PendingInvites, CheckPending, PendingFor,
        Continue, Goto
  <2>7. RemovesOther'
    BY <1>2
    DEF TypeOK, Shapes, RemovesOther, CheckPending, PendingFor, PendingInvites, Continue, Goto
  <2>8. InsertedIsNew'
    BY <1>2
    DEF TypeOK, Shapes, InsertedIsNew, Members, CheckPending, PendingFor, PendingInvites,
        Continue, Goto
  <2> QED
    BY <2>1, <2>2, <2>3, <2>4, <2>5, <2>6, <2>7, <2>8
<1> QED
  BY <1>1, <1>2

\* A new invitation was in nobody's past.
LEMMA CommitInviteKeeps ==
  ASSUME MembershipInv, NEW r \in Requests, CommitInvite(r)
  PROVE  MembershipInv'
<1> USE DEF MembershipInv, RemoveArgs, InviteArgs, AcceptArgs, NoArgs
<1>1. TypeOK'
  BY DEF TypeOK, Shapes, InFlight, Rows, CommitInvite, Goto
<1>2. Shapes'
  BY DEF TypeOK, Shapes, InFlight, CommitInvite, Goto
<1>3. InviteRows'
  BY DEF TypeOK, Shapes, InviteRows, InFlight, CommitInvite, Goto
<1>4. AcceptedOnce'
  BY DEF TypeOK, Shapes, InviteRows, AcceptedOnce, CommitInvite, Goto
<1>5. InvitationUsedOnce'
  BY DEF TypeOK, Shapes, InviteRows, AcceptedOnce, InvitationUsedOnce, Acceptances,
         CommitInvite, Goto
<1>6. Overlaps'
  BY DEF TypeOK, Shapes, InviteRows, Overlaps, PendingInvites, CommitInvite, Goto
<1>7. RemovesOther'
  BY DEF TypeOK, Shapes, RemovesOther, CommitInvite, Goto
<1>8. InsertedIsNew'
  BY DEF TypeOK, Shapes, InsertedIsNew, Members, CommitInvite, Goto
<1> QED
  BY <1>1, <1>2, <1>3, <1>4, <1>5, <1>6, <1>7, <1>8

\* Nobody else has the invitation.
LEMMA LockInviteKeeps ==
  ASSUME MembershipInv, NEW r \in Requests, LockInvite(r)
  PROVE  MembershipInv'
<1> USE DEF MembershipInv, RemoveArgs, InviteArgs, AcceptArgs, NoArgs
<1>1. CASE Raise(r)
  BY <1>1, RaiseKeeps DEF LockInvite
<1>2. CASE ~Raise(r)
  <2>1. TypeOK'
    BY <1>2 DEF TypeOK, Shapes, InFlight, Rows, LockInvite, InviteLocked, Continue, Goto
  <2>2. Shapes'
    BY <1>2 DEF TypeOK, Shapes, InFlight, LockInvite, InviteLocked, Continue, Goto
  <2>3. InviteRows'
    BY <1>2 DEF TypeOK, Shapes, InviteRows, InFlight, LockInvite, InviteLocked, Continue, Goto
  <2>4. AcceptedOnce'
    BY <1>2
    DEF TypeOK, Shapes, InviteRows, AcceptedOnce, LockInvite, InviteLocked, Continue, Goto
  <2>5. InvitationUsedOnce'
    BY <1>2, SameAcceptances DEF TypeOK, Shapes, LockInvite, InviteLocked, Continue, Goto
  <2>6. Overlaps'
    BY <1>2
    DEF TypeOK, Shapes, InviteRows, Overlaps, PendingInvites, LockInvite, InviteLocked,
        Continue, Goto
  <2>7. RemovesOther'
    BY <1>2 DEF TypeOK, Shapes, RemovesOther, LockInvite, InviteLocked, Continue, Goto
  <2>8. InsertedIsNew'
    BY <1>2 DEF TypeOK, Shapes, InsertedIsNew, Members, LockInvite, InviteLocked, Continue, Goto
  <2> QED
    BY <2>1, <2>2, <2>3, <2>4, <2>5, <2>6, <2>7, <2>8
<1> QED
  BY <1>1, <1>2

\* Nobody else inserts the member.
LEMMA InsertMemberKeeps ==
  ASSUME MembershipInv, NEW r \in Requests, InsertMember(r)
  PROVE  MembershipInv'
<1> USE DEF MembershipInv, RemoveArgs, InviteArgs, AcceptArgs, NoArgs
<1>1. CASE Raise(r)
  BY <1>1, RaiseKeeps DEF InsertMember
<1>2. CASE ~Raise(r)
  <2>1. TypeOK'
    BY <1>2
    DEF TypeOK, Shapes, InFlight, Rows, InsertMember, MemberInserted, Members, Continue, Goto
  <2>2. Shapes'
    BY <1>2 DEF TypeOK, Shapes, InFlight, InsertMember, MemberInserted, Members, Continue, Goto
  <2>3. InviteRows'
    BY <1>2
    DEF TypeOK, Shapes, InviteRows, InFlight, InsertMember, MemberInserted, Members, Continue,
        Goto
  <2>4. AcceptedOnce'
    BY <1>2
    DEF TypeOK, Shapes, InviteRows, AcceptedOnce, InsertMember, MemberInserted, Members,
        Continue, Goto
  <2>5. InvitationUsedOnce'
    BY <1>2, SameAcceptances
    DEF TypeOK, Shapes, InsertMember, MemberInserted, Members, Continue, Goto
  <2>6. Overlaps'
    BY <1>2
    DEF TypeOK, Shapes, InviteRows, Overlaps, PendingInvites, InsertMember, MemberInserted,
        Members, Continue, Goto
  <2>7. RemovesOther'
    BY <1>2
    DEF TypeOK, Shapes, RemovesOther, InsertMember, MemberInserted, Members, Continue, Goto
  <2>8. InsertedIsNew'
    BY <1>2
    DEF TypeOK, Shapes, InsertedIsNew, Members, InsertMember, MemberInserted, Continue, Goto
  <2> QED
    BY <2>1, <2>2, <2>3, <2>4, <2>5, <2>6, <2>7, <2>8
<1> QED
  BY <1>1, <1>2

\* The first acceptance to be committed is the only one.
LEMMA CommitAcceptKeeps ==
  ASSUME MembershipInv, NEW r \in Requests, CommitAccept(r)
  PROVE  MembershipInv'
<1> USE DEF MembershipInv, RemoveArgs, InviteArgs, AcceptArgs, NoArgs
<1>1. TypeOK'
  <2>1. req[r] \in AcceptArgs /\ req[r].invite \in Requests
    BY DEF TypeOK, CommitAccept
  <2>2. req[req[r].invite] \in InviteArgs
    BY <2>1 DEF InviteRows, AcceptedOnce, CommitAccept
  <2>3. [row |-> r, role |-> req[req[r].invite].role] \in [row : Rows, role : Roles]
    BY <2>2 DEF Rows
  <2>4. member' \in [Users -> [row : Rows, role : Roles] \cup {NoMember}]
    BY <2>1, <2>3 DEF TypeOK, CommitAccept
  <2> QED
    BY <2>1, <2>4 DEF TypeOK, CommitAccept, Goto
<1>2. Shapes'
  BY DEF TypeOK, Shapes, InFlight, CommitAccept, Goto
<1>3. InviteRows'
  BY DEF TypeOK, Shapes, InviteRows, InFlight, CommitAccept, Goto
<1>4. AcceptedOnce'
  BY DEF TypeOK, Shapes, InviteRows, AcceptedOnce, CommitAccept, Goto
<1>5. InvitationUsedOnce'
  BY DEF TypeOK, Shapes, InviteRows, AcceptedOnce, InvitationUsedOnce, Acceptances,
         CommitAccept, Goto
<1>6. Overlaps'
  BY DEF TypeOK, Shapes, InviteRows, Overlaps, PendingInvites, CommitAccept, Goto
<1>7. RemovesOther'
  BY DEF TypeOK, Shapes, RemovesOther, CommitAccept, Goto
<1>8. InsertedIsNew'
  BY DEF TypeOK, Shapes, InsertedIsNew, Members, CommitAccept, Goto
<1> QED
  BY <1>1, <1>2, <1>3, <1>4, <1>5, <1>6, <1>7, <1>8

\* A crash commits nothing.
LEMMA CrashKeeps == ASSUME MembershipInv, NEW r \in Requests, Crash(r) PROVE MembershipInv'
BY RaiseKeeps DEF Crash, InFlight

\* Time passes for an invitation.
LEMMA LapseKeeps == ASSUME MembershipInv, NEW r \in Requests, Lapse(r) PROVE MembershipInv'
<1> USE DEF MembershipInv, RemoveArgs, InviteArgs, AcceptArgs, NoArgs
<1>1. TypeOK'
  BY DEF TypeOK, Shapes, InFlight, Rows, Lapse
<1>2. Shapes'
  BY DEF TypeOK, Shapes, InFlight, Lapse
<1>3. InviteRows'
  BY DEF TypeOK, Shapes, InviteRows, InFlight, Lapse
<1>4. AcceptedOnce'
  BY DEF TypeOK, Shapes, InviteRows, AcceptedOnce, Lapse
<1>5. InvitationUsedOnce'
  BY SameAcceptances DEF TypeOK, Shapes, Lapse
<1>6. Overlaps'
  BY DEF TypeOK, Shapes, InviteRows, Overlaps, PendingInvites, Lapse
<1>7. RemovesOther'
  BY DEF TypeOK, Shapes, RemovesOther, Lapse
<1>8. InsertedIsNew'
  BY DEF TypeOK, Shapes, InsertedIsNew, Members, Lapse
<1> QED
  BY <1>1, <1>2, <1>3, <1>4, <1>5, <1>6, <1>7, <1>8

\* Every step keeps the invariant.
LEMMA MembershipInvStep == MembershipInv /\ [Next]_vars => MembershipInv'
<1> SUFFICES ASSUME MembershipInv, [Next]_vars PROVE MembershipInv'
  OBVIOUS
<1>1. CASE \E r \in Requests : Arrive(r)
  BY <1>1, ArriveManagesKeeps, ArriveAcceptsKeeps DEF Arrive
<1>2. CASE \E r \in Requests : Step(r)
  BY <1>2, ResolveKeeps, FindMemberKeeps, DeleteMemberKeeps, CommitRemovalKeeps, CheckMemberKeeps,
     CheckPendingKeeps, CommitInviteKeeps, LockInviteKeeps, InsertMemberKeeps, CommitAcceptKeeps
  DEF Step
<1>3. CASE \E r \in Requests : Crash(r) \/ Lapse(r)
  BY <1>3, CrashKeeps, LapseKeeps
<1>4. CASE UNCHANGED vars
  BY <1>4
  DEF vars, MembershipInv, TypeOK, Shapes, InviteRows, AcceptedOnce, InvitationUsedOnce,
      Acceptances, Overlaps, PendingInvites, RemovesOther, InsertedIsNew, Members
<1> QED
  BY <1>1, <1>2, <1>3, <1>4 DEF Next

-------------------------------------------------------------------------------
(* What the run checks on two users and four requests holds for any number of them. *)

\* The checks, the lock and the unique index, at every reachable state.
THEOREM MembershipInvariant == Spec => []MembershipInv
<1>1. Init => MembershipInv
  BY MembershipInvInit
<1>2. MembershipInv /\ [Next]_vars => MembershipInv'
  BY MembershipInvStep
<1> QED
  BY <1>1, <1>2, PTL DEF Spec

\* No invitation is ever stored as expired: the constraint forbids it (service.py:281).
THEOREM MembershipTypes == Spec => []TypeOK
<1>1. MembershipInv => TypeOK
  BY DEF MembershipInv
<1> QED
  BY <1>1, MembershipInvariant, PTL

\* An invitation lets in once (with_for_update, service.py:270).
THEOREM MembershipInvitationUsedOnce == Spec => []InvitationUsedOnce
<1>1. MembershipInv => InvitationUsedOnce
  BY DEF MembershipInv
<1> QED
  BY <1>1, MembershipInvariant, PTL

\* Two pending invitations of one address come from requests that overlapped
\* (service.py:194-202).
THEOREM MembershipPendingTwice == Spec => []PendingTwiceOnlyIfOverlapping
<1>1. MembershipInv => PendingTwiceOnlyIfOverlapping
  BY DEF MembershipInv, InviteRows, Overlaps, PendingInvites, PendingTwiceOnlyIfOverlapping
<1> QED
  BY <1>1, MembershipInvariant, PTL

\* A step that empties the set of administrators is the removal of one by someone who is one
\* no longer (service.py:151-166).
LEMMA LastAdminStep ==
  ASSUME MembershipInv, [Next]_vars, LosesLastAdmin
  PROVE  \E r \in Requests : RemovesWithStaleRole(r)
<1>1. member' # member
  BY DEF LosesLastAdmin, Admins
<1>2. PICK r \in Requests : CommitRemoval(r) \/ CommitAccept(r)
  BY <1>1
  DEF Next, vars, Arrive, Start, Step, Resolve, FindMember, DeleteMember, CheckMember,
      CheckPending, CommitInvite, LockInvite, InsertMember, Crash, Lapse, Raise, Continue
<1>3. ~CommitAccept(r)
  <2> SUFFICES ASSUME CommitAccept(r) PROVE FALSE
    OBVIOUS
  <2>1. req[r] \in AcceptArgs
    BY DEF MembershipInv, TypeOK, CommitAccept, RemoveArgs, InviteArgs, AcceptArgs, NoArgs
  <2>2. req[r].user \notin Members
    BY <2>1 DEF MembershipInv, InsertedIsNew, CommitAccept
  <2>3. \A u \in Users : u # req[r].user => member'[u] = member[u]
    BY DEF MembershipInv, TypeOK, CommitAccept
  <2>4. Admins \subseteq Admins'
    BY <2>1, <2>2, <2>3 DEF Admins, Members, AcceptArgs
  <2> QED
    BY <2>4 DEF LosesLastAdmin
<1>4. CommitRemoval(r)
  BY <1>2, <1>3
<1>5. req[r] \in RemoveArgs /\ req[r].target # req[r].user /\ ctx[r] = "admin"
  BY <1>4
  DEF MembershipInv, TypeOK, RemovesOther, CommitRemoval, RemoveArgs, InviteArgs, AcceptArgs, NoArgs
<1>6. pc'[r] = "new"
  BY <1>4 DEF MembershipInv, TypeOK, CommitRemoval, Forget, Goto
<1>7. \A u \in Users : u # req[r].target => member'[u] = member[u]
  BY <1>4 DEF MembershipInv, TypeOK, CommitRemoval
<1>8. req[r].user \notin Admins
  BY <1>5, <1>7 DEF LosesLastAdmin, Admins, RemoveArgs
<1> QED
  BY <1>4, <1>5, <1>6, <1>8 DEF CommitRemoval, RemovesWithStaleRole

\* An organization loses its last administrator only to a request whose sender was removed,
\* or let in again with less, while it was under way.
THEOREM MembershipLastAdmin == Spec => LastAdminLostToStaleRole
<1>1. MembershipInv /\ [Next]_vars =>
        [LosesLastAdmin => \E r \in Requests : RemovesWithStaleRole(r)]_vars
  BY LastAdminStep DEF LosesLastAdmin
<1> QED
  BY <1>1, MembershipInvariant, PTL DEF Spec, LastAdminLostToStaleRole
===============================================================================
