SPECIFICATION Spec
CONSTANTS
  i1 = i1
  i2 = i2
  i3 = i3
  l1 = l1
  l2 = l2
  a = a
  IDs <- ThreeIDs
  URLs <- TwoURLs
  Users <- OneUser
  Anonymous = Anonymous
  None = None
  Torn = Torn
  TooLong <- NeverTooLong
  MaxBatch = 2
  MaxErrors = 1
  PartialWrites = TRUE
  CrashInFlush = FALSE
SYMMETRY Symmetry
PROPERTIES
  SaveAdds
