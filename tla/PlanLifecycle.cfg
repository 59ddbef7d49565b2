\* Rounds without end of three plans; the searches measure.
SPECIFICATION LifecycleSpec
CONSTANTS
  a1 = a1
  a2 = a2
  b1 = b1
  c1 = c1
  c2 = c2
  s1 = s1
  Users <- MCUsers
  Tables = {t1, t2, t3, t4}
  HASHSZ = 2
  Requests <- MCRequests
  Awakeness = {"AWAKE_ZERO", "AWAKE_SINCOS"}
  NULL = NULL
  Trees <- MCTrees
  Wanted <- MCWanted
  Scratch <- MCScratch
  Measure = TRUE
INVARIANTS
  CountsUsers
  ExecutesWhole
  RoundLeavesNothing
PROPERTIES
  SharingIsInvisible
  RoundsGoOn
