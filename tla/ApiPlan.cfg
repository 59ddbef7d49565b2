\* Two problems, three levels of patience, two plans between calls that forget.
SPECIFICATION FairSpec
CONSTANTS
  whole = whole
  part = part
  Signatures <- MCSignatures
  Words <- MCWords
  INFEASIBLE = INFEASIBLE
  NULL = NULL
  Solvers <- MCSolvers
  Levels <- MCLevels
  Hard <- MCHard
  Relax <- MCRelax
  Files <- MCFiles
  MaxCalls = 2
  Limits = {0, 1}
INVARIANTS
  TablesSound
  KeptIrredundant
  TimeIsNoticed
  PlanIfAny
  AfreshIsSound
  Reconstructible
PROPERTIES
  PlanningEnds
