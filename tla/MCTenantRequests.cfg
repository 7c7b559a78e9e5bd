\* Two tenants whose requests share two connections, so that each finds a connection as the
\* other left it, and windows of two ticks with two requests each.
CONSTANTS
  t1 = t1
  t2 = t2
  Tenants = {t1, t2}
  r1 = r1
  r2 = r2
  Requests = {r1, r2}
  c1 = c1
  c2 = c2
  Connections = {c1, c2}
  Limit = 2
  Window = 2
SPECIFICATION Spec
INVARIANTS
  TypeOK
  RowsOfOwnContext
  AtMostTwiceTheLimit
PROPERTIES
  RefusalsEnd
