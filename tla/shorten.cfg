SPECIFICATION FairSpec
CONSTANTS
  i1 = i1
  i2 = i2
  i3 = i3
  l1 = l1
  l2 = l2
  a = a
  b = b
  r1 = r1
  r2 = r2
  r3 = r3
  IDs <- ThreeIDs
  URLs <- TwoURLs
  Users <- TwoUsers
  Requests <- TwoRequests
  Batches <- DistinctBatches
  Anonymous = Anonymous
  None = None
  MaxBatch = 2
  DrawApart = TRUE
  MaxSaveRetries = 2
INVARIANTS
  LookupNeverMisses
  AnswersResolve
  OneIDPerURL
  OneCreator
  ListingExact
PROPERTIES
  LinkImmutable
  EveryRequestEnds
