\* Three requests and three connections: two searches can take all of them in several ways, and
\* three searches can jam the pool.  A finished system has nothing left to do.
CONSTANTS
  Requests = {r1, r2, r3}
  Capacity = 3
CHECK_DEADLOCK FALSE
SPECIFICATION FairSpec
INVARIANTS
  TypeOK
  PoolAccounts
  AnswersFromBothLists
PROPERTIES
  FindingsAreKept
  EveryRequestEnds
  PoolRefills
