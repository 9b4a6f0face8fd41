\* One instance that is never restarted, every other fault, two devices.  Requests
\* end because goroutines are scheduled and Redis serves.
SPECIFICATION FairSpec
CONSTANTS
  Instances = {i1}
  Devices = {d1, d2}
  Requests = {r1, r2}
  Stamps = {1}
  Values = {0}
  Cap = 1
  TrimEvery = 2
  MaxBatch = 2
  MaxRequests = 3
  FaultKinds = {"dial", "conn", "refuse", "redis", "evict"}
  MaxFaults = 1
INVARIANTS AcceptedIsAdded
PROPERTIES ImplementsLog EveryRequestEnds
