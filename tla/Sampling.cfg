\* Runs, failures, kills and restarts, with four samples of two units each.
SPECIFICATION FairSpec
CONSTANTS
  Samp = 4
  Tmr = 2
INVARIANTS
  QuietSharedMemory
PROPERTIES
  MeasurementEnds
  KeepsPromise
