\* Two addresses and four rows: two logins that race for one account or have one each, a rotation
\* and its rival; or a login, a key, and requests that use and revoke it.  A finished system has
\* nothing left to do.
CONSTANTS
  e1 = e1
  e2 = e2
  Emails = {e1, e2}
  r1 = r1
  r2 = r2
  r3 = r3
  r4 = r4
  Requests = {r1, r2, r3, r4}
CHECK_DEADLOCK FALSE
SYMMETRY Symmetry
SPECIFICATION Spec
INVARIANTS
  TypeOK
  OneAccountPerAddress
  ExchangedOnceUnlessOverlapping
PROPERTIES
  RevocationIsFinal
