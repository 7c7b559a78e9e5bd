\* Five chunks, with pages of up to three, and two batches, so that a page can end within a
\* pair of equal indices; three documents.
CONSTANTS
  Size = 5
  Attempts = {1, 2}
  Documents = {1, 2, 3}
  Doc = 2
  MaxLimit = 3
SPECIFICATION Spec
INVARIANTS
  TypeOK
  WalkReturnsEachRow
