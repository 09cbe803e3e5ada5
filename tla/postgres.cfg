SPECIFICATION FairSpec
CONSTANTS
  c1 = c1
  c2 = c2
  c3 = c3
  i1 = i1
  i2 = i2
  i3 = i3
  l1 = l1
  l2 = l2
  a = a
  b = b
  Calls <- ThreeCalls
  IDs <- ThreeIDs
  URLs <- TwoURLs
  Users <- TwoUsers
  Batches <- SomeBatches
INVARIANTS
  ExistsMeansStored
  NilMeansStored
PROPERTIES
  EveryCallEnds
  ImplementsLinkStore
