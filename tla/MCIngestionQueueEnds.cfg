\* A worker dies on the last attempt: one document is enough.
CONSTANTS
  Jobs <- OneJob
  Workers = {w1}
  max_attempts = 2
SPECIFICATION FairSpec
PROPERTY EveryJobEnds
