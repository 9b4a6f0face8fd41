\* One device fed by one instance, three requests at a time.
SPECIFICATION Spec
CONSTANTS
  Instances = {i1}
  Devices = {d1}
  Requests = {r1, r2, r3}
  Stamps = {1}
  Values = {0}
  Cap = 1
  TrimEvery = 2
  MaxBatch = 1
  MaxRequests = 10
  FaultKinds = {}
  MaxFaults = 0
SYMMETRY Symmetry
INVARIANTS OverlapBound
