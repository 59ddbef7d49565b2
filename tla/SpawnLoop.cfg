\* Two threads of the application, three calls with seven iterations between them,
\* at the same time or one inside another; more workers than they ask for.
SPECIFICATION FairSpec
CONSTANTS
  Apps = {a1, a2}
  Workers = {q1, q2, q3, q4, q5, q6}
  Shapes <- MCShapes
  MaxCalls = 3
  MaxIterations = 7
  NULL = NULL
INVARIANTS
  NoDanglingWork
  NobodyEscapes
PROPERTIES
  ExecutesEachOnce
  EveryWaitEnds
