\* Two searches and two connections, each in the hands of a search.
CONSTANTS
  Requests = {r1, r2}
  Capacity = 2
CHECK_DEADLOCK FALSE
SPECIFICATION FairSpec
INVARIANT PoolNeverJams
