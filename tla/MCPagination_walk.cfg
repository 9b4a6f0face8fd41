\* A client walks the pages of either store while points arrive, in sequence order and
\* late, and trims run.
SPECIFICATION FairSpec
CONSTANTS
  Backends = {"redis", "mem"}
  Exact = 4
  Stamps = {1, 2}
  Limits = {1, 2}
  Cap = 2
  Disturbances = {"late", "trim"}
  MaxAppends = 6
INVARIANTS TypeOK NoPointSkipped NoPointTwice WindowRespected
PROPERTIES PagesAscend WalkEnds
