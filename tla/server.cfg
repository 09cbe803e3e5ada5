SPECIFICATION Spec
CONSTANTS
  alice = alice
  bob = bob
  i1 = i1
  i2 = i2
  l1 = l1
  l2 = l2
  None = None
  Invalid = Invalid
  MaxRequests = 3
  MaxUsers = 2
  MaxFailures = 1
  Clients <- TwoClients
  IDs <- TwoIDs
  URLs <- TwoURLs
  FirstCookies <- NoCookies
  Calls <- SomeCalls
INVARIANTS
  AnswersAgree
  NeverForgotten
  ListsOwn
  DeletedByOwner
  OrderlyStop
