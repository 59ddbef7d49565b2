\* Every signal, in and out of range, whatever the build makes of an overflow.
SPECIFICATION PeakSpec
CONSTANTS
  N <- MCN
  Frac <- MCFrac
  IntMax <- MCIntMax
  Builds <- MCBuilds
  Signals <- MCSignals
INVARIANTS
  PeakNear
  FirstOfEquals
\* The loop ends.
CHECK_DEADLOCK FALSE
