\* Two instances that write one device, every fault that leaves Redis' data alone.
SPECIFICATION Spec
CONSTANTS
  Instances = {i1, i2}
  Devices = {d1}
  Requests = {r1, r2}
  Stamps = {1, 2}
  Values = {0}
  Cap = 2
  TrimEvery = 2
  MaxBatch = 1
  MaxRequests = 4
  FaultKinds = {"dial", "conn", "refuse", "instance"}
  MaxFaults = 2
SYMMETRY Symmetry
INVARIANTS TypeOK AcceptedIsStored NewestRetained RecentIsNewest PointsAreStored
