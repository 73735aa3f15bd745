SPECIFICATION FairSpec
CONSTANTS
  NumberOfCpus = 2
  BspElection = FALSE
  BlockStartupThisAp = FALSE
  NeedConfigureMtrrs = FALSE
  SmiStatusHook = TRUE
  GiveUpRace = TRUE
  CoreOf <- OwnCore
  MaxSmi = 1
  MaxCalls = 0
PROPERTY RunEnds
CHECK_DEADLOCK FALSE
