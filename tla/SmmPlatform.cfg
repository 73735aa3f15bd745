SPECIFICATION Spec
CONSTANTS
  NumberOfCpus = 3
  BspElection = FALSE
  BlockStartupThisAp = FALSE
  NeedConfigureMtrrs = FALSE
  SmiStatusHook = FALSE
  GiveUpRace = FALSE
  CoreOf <- OwnCore
  MaxSmi = 1
  MaxCalls = 1
INVARIANT TypeOK
INVARIANT CounterCounts
INVARIANT PresentAreCounted
INVARIANT NoNormalModeCode
INVARIANT ScheduledOnce
INVARIANT ReopenedEmpty
PROPERTY BlockingCallReturnsAfter
