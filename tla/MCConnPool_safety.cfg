\* A reader, a writer and the warm-up share a pool while everything can fail, Close
\* included.
SPECIFICATION Spec
CONSTANTS
  Readers = {r1}
  Writers = {w1}
  Warmers = {warm}
  Conns = {c1, c2, c3, c4}
  PoolSize = 2
  MaxAttempts = 2
  Faults = {"redis", "conn", "error", "close"}
  MaxFaults = 1
  none = none
SYMMETRY Symmetry
INVARIANTS TypeOK PooledIsClean RepliesAreOwn ConnsAccounted
