SPECIFICATION FairSpec
CONSTANTS
  Deployment <- Deployments
  i1 = i1
  i2 = i2
  i3 = i3
  p1 = "p1"
  p2 = "p2"
  Inode = {i1, i2, i3}
  Pair = {"p1", "p2"}
  MaxMaterial = 2
  MaxRotations = 2
INVARIANTS
  MaterialIsOfItsPath
  NothingIgnored
  CleanReturnIsComplete
  ActiveLeaseIsReported
PROPERTIES
  LostLeaseStopsHost
CHECK_DEADLOCK FALSE
