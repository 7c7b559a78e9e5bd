\* One login, and two rotations of its token.
CONSTANTS
  e = e
  Emails = {e}
  r1 = r1
  r2 = r2
  r3 = r3
  Requests = {r1, r2, r3}
CHECK_DEADLOCK FALSE
SPECIFICATION Spec
INVARIANTS
  OneTimeUse
