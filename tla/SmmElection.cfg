SPECIFICATION Spec
CONSTANTS
  NumberOfCpus = 2
  BspElection = TRUE
  BlockStartupThisAp = TRUE
  NeedConfigureMtrrs = TRUE
  SmiStatusHook = TRUE
  GiveUpRace = TRUE
  CoreOf <- Threads01
  MaxSmi = 3
  MaxCalls = 2
INVARIANT OneBsp
INVARIANT MtrrPhases
PROPERTY SwitchHonoured
CHECK_DEADLOCK FALSE
