\* Two failures open the breaker, so that with four calls it can open, half-open and open again
\* while a call admitted earlier is still under way.  A finished system has nothing left to do.
CONSTANTS
  Calls = {c1, c2, c3, c4}
  failure_threshold = 2
  max_retries = 2
  concurrency_limit = 2
CHECK_DEADLOCK FALSE
SPECIFICATION FairSpec
INVARIANTS
  TypeOK
  CountMatchesState
  OpensForFailedCalls
PROPERTIES
  EveryCallEnds
  NotRefusedForEver
