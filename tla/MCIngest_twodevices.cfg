\* Two devices that share the write counter of one instance.
SPECIFICATION Spec
CONSTANTS
  Instances = {i1}
  Devices = {d1, d2}
  Requests = {r1}
  Stamps = {1}
  Values = {0}
  Cap = 1
  TrimEvery = 2
  MaxBatch = 1
  MaxRequests = 8
  FaultKinds = {}
  MaxFaults = 0
SYMMETRY Symmetry
INVARIANTS TrimBound
