\* Does SimulatedChirp.m report no delay of a recording that begins with the chirp?
SPECIFICATION Spec
CONSTANTS
  N <- MCN
  Frac = 1
  IntMax <- MCIntMax
  Builds <- MCBuilds
  Signals = {}
  Chirps <- MCChirps
  Shifts <- MCShifts
  Recordings <- MCRecordings
  Amplitude = 3
  Offset = 1
  Stack <- StackValues
INVARIANTS
  MatlabDelayFound
\* Cross Correlation.cpp ends.
CHECK_DEADLOCK FALSE
