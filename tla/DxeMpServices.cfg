SPECIFICATION FairSpec
CONSTANTS
  NumberOfCpus = 4
  Timely = TRUE
  Overlap = FALSE
  MaxCalls = 2
INVARIANT TypeOK
INVARIANT CompletedMeansFinished
INVARIANT OneAfterAnother
INVARIANT NothingLeftBehind
PROPERTY CallCompletes
