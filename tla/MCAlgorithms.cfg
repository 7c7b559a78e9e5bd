\* All texts of seven characters, all sequences of five of four pieces, and all pairs of lists of
\* up to three of four chunks.  A state is a result: nothing follows it.
CONSTANTS
  Kinds <- AllKinds
  Length = 7
  Words <- SomeWords
  Pieces = 5
  Sizes = {2, 3}
  Overlaps = {0, 1}
  Distances = {0, 1, 2}
  Percentile = 60
  Ids = {1, 2, 3, 4}
  Depth = 3
  Ks = {1, 2, 60}
CHECK_DEADLOCK FALSE
SPECIFICATION Spec
INVARIANTS
  ChunksKeepTheText
  FusionRespectsBothRankings
