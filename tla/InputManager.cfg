\* Three device batches, with any number of stops and restarts around them.
CONSTANTS
  MaxBatches = 3
SPECIFICATION Spec
INVARIANT TypeOK
PROPERTY StopEventuallyReturns
