\* An administrator and a guest.  Four requests are enough to invite, accept and remove while
\* a second acceptance is under way, and for two administrators to remove one another.  A
\* finished system has nothing left to do.
CONSTANTS
  a = a
  g = g
  Users = {a, g}
  Founders = {a}
  Roles = {"admin", "viewer"}
  r1 = r1
  r2 = r2
  r3 = r3
  r4 = r4
  Requests = {r1, r2, r3, r4}
CHECK_DEADLOCK FALSE
SYMMETRY Symmetry
SPECIFICATION Spec
INVARIANTS
  TypeOK
  InvitationUsedOnce
  PendingTwiceOnlyIfOverlapping
PROPERTIES
  LastAdminLostToStaleRole
