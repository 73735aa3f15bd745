SPECIFICATION Spec
CONSTANTS
  NumberOfCpus = 3
  Timely = FALSE
  Overlap = FALSE
  MaxCalls = 1
INVARIANT CompletedMeansFinished
CHECK_DEADLOCK FALSE
