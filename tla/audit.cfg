SPECIFICATION FairSpec
CONSTANTS
  e1 = e1
  e2 = e2
  Events <- TwoEvents
  Kinds <- FileAndRemote
  RetryMax = 1
  Stuck <- Endpoint
INVARIANTS
  OneAtATime
  NoneLeft
  NilMeansTaken
PROPERTIES
  NotifyReturns
  OthersServed
  CancelledLeaves
