\* The instance of ApiPlan.cfg, for the assertion at planner.c:370.
SPECIFICATION Spec
CONSTANTS
  whole = whole
  part = part
  Signatures <- MCSignatures
  Words <- MCWords
  INFEASIBLE = INFEASIBLE
  NULL = NULL
  Solvers <- MCSolvers
  Levels <- MCLevels
  Hard <- MCHard
  Relax <- MCRelax
  Files <- MCFiles
  MaxCalls = 2
  Limits = {0, 1}
INVARIANTS
  AlwaysIrredundant
