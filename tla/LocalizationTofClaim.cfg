\* The constants in the ratio the code has: is the time of flight right?
SPECIFICATION Spec
CONSTANTS
  Samp = 3
  Tmr = 5
  Period = 12
  Second = 3
  MaxExec = 0
INVARIANTS
  TofWithinOneSample
