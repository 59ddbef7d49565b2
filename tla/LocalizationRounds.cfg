\* Sampling (6 units) fits the period (8) and takes a second, as the comments say:
\* the rounds as they were intended.
SPECIFICATION FairSpec
CONSTANTS
  Samp = 3
  Tmr = 2
  Period = 8
  Second = 6
  MaxExec = 3
INVARIANTS
  TypeOK
  FreshBuffer
  QuietSharedMemory
  TofWithinOneSample
PROPERTIES
  SpacingAtLeast
  SpacingAtMost
  KeepsPromise
  KeepsMeasuring
