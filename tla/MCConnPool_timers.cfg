\* The two timers of a read deadline.
SPECIFICATION Spec
CONSTANTS
  Readers = {r1}
  Writers = {w1}
  Warmers = {}
  Conns = {c1, c2, c3}
  PoolSize = 1
  MaxAttempts = 2
  Faults = {}
  MaxFaults = 0
  none = none
INVARIANTS DeadlineIsReported
