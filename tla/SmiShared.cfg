SPECIFICATION FairSpec
CONSTANTS
  Records <- SharedRecords
  Context <- SharedContext
  MaxSwi = 3
  Escape = 4
  MaxArrivals = 1
  CarefulClients = TRUE
PROPERTY AllServed
