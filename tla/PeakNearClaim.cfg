\* Values that may not fit, on the BeagleBone: is the peak found to within one unit?
SPECIFICATION PeakSpec
CONSTANTS
  N <- MCN
  Frac <- MCFrac
  IntMax <- MCIntMax
  Builds <- MCArm
  Signals <- MCSignals
INVARIANTS
  PeakNearAlways
\* The loop ends.
CHECK_DEADLOCK FALSE
