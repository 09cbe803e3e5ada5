SPECIFICATION FairSpec
CONSTANTS
  c1 = c1
  c2 = c2
  k1 = k1
  k2 = k2
  u1 = u1
  u2 = u2
  Calls <- TwoCalls
  Closers <- TwoClosers
  Users <- TwoUsers
  MaxIDs = 2
  ChanCap = 1
  BatchSize = 3
  Nobody = Nobody
INVARIANTS
  ChannelDiscipline
  CloseFlushesAll
PROPERTIES
  EveryAcceptedHandled
  CloseReturns
  ImplementsAsyncDelete
