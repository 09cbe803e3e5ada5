SPECIFICATION ResponseSpec
CONSTANTS
  MaxWrites = 3
INVARIANTS
  Readable
  LoggedAsSent
