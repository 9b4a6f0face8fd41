\* Redis may stall for ever: reads and the warm-up end all the same.  If it does
\* answer, so do writes.
SPECIFICATION CodeFairSpec
CONSTANTS
  Readers = {r1}
  Writers = {w1}
  Warmers = {warm}
  Conns = {c1, c2}
  PoolSize = 1
  MaxAttempts = 1
  Faults = {"redis"}
  MaxFaults = 1
  none = none
PROPERTIES ReadsEnd WritesEnd WarmUpEnds
