\* Counters of four bits, ints of three; a table of 6 m by 5 m in quarters of a millimetre.
SPECIFICATION Spec
CONSTANTS
  SAMPLES = 4
  DoubleSize = 2
  sampling_period_us = 3
  Magnitudes = {0, 1, 2}
  IntRange = 8
  Wrap = 16
  MaxStep = 2
  MaxAge = 20
  Rounds = 20
  Length = 24000
  Height = 20000
  Points <- MCPoints
  Deltas <- MCDeltas
  Resolution = 16
INVARIANTS
  WaitIsExact
  NegativeOnlyIfSpoiled
  DelayUpToRange
  ResidualShows
  LostOnlyWhenConverged
  AllRounds
PROPERTIES
  NeverAway
