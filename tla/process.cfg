SPECIFICATION FairSpec
CONSTANTS
  Unset = Unset
  Bad = Bad
  Envs <- SomeEnvs
  FlagSets <- SomeFlags
  FileSets <- SomeFiles
INVARIANTS
  NoneCutOff
  NothingLeft
  ExitStatus
PROPERTIES
  VolatileOnlyIfAsked
  StopsInTheEnd
