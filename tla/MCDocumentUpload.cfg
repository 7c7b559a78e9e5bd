\* Three uploads, of which two can share a key, a content, both or neither while the third
\* holds what they want.  A finished system has nothing left to do.
CONSTANTS
  Requests = {r1, r2, r3}
  Keys = {k1, k2}
  Contents = {c1, c2}
CHECK_DEADLOCK FALSE
SPECIFICATION FairSpec
INVARIANTS
  TypeOK
  AnswerIsStored
  FilesKept
  NoOrphans
  SafeRetry
PROPERTIES
  EveryRequestEnds
