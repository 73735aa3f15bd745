SPECIFICATION FairSpec
CONSTANTS
  NumberOfCpus = 2
  BspElection = FALSE
  BlockStartupThisAp = FALSE
  NeedConfigureMtrrs = FALSE
  SmiStatusHook = TRUE
  GiveUpRace = FALSE
  CoreOf <- OwnCore
  MaxSmi = 2
  MaxCalls = 2
INVARIANT NoSignalLeftOver
INVARIANT ModesAgree
INVARIANT BusyGuardsProcedure
PROPERTY NobodyLeavesClosedRun
PROPERTY RunEnds
PROPERTY EverybodyLeaves
PROPERTY SmiServed
