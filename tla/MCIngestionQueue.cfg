\* Two documents, two workers, the three attempts of the schema: a job can be retried while a
\* worker that lost an earlier attempt is still on its way to fail_job.
CONSTANTS
  Jobs <- TwoJobs
  Workers = {w1, w2}
  max_attempts = 3
SPECIFICATION FairSpec
INVARIANTS
  TypeOK
  AttemptStoresOnce
  DeadIsOver
  JobAndDocumentAgree
PROPERTIES
  FencedStore
  ImplementsDelivery
  EventuallySettled
