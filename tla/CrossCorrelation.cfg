\* A delayed chirp, or any recording round after round, in the three programs.
SPECIFICATION Spec
CONSTANTS
  N <- MCN
  Frac = 1
  IntMax <- MCIntMax
  Builds <- MCBuilds
  Signals = {}
  Chirps <- MCChirps
  Shifts <- MCShifts
  Recordings <- MCRecordings
  Amplitude = 3
  Offset = 1
  Stack <- StackValues
INVARIANTS
  IsCorrelation
  ShiftFound
  BestMatchFound
\* Cross Correlation.cpp ends.
CHECK_DEADLOCK FALSE
