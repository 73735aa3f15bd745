SPECIFICATION FairSpec
CONSTANTS
  Records <- MixedRecords
  Context <- MixedContext
  MaxSwi = 3
  Escape = 4
  MaxArrivals = 1
  CarefulClients = TRUE
INVARIANT ReturnsWithEos
 
PROPERTY CallsOnlyRegistered
PROPERTY PeriodKept
