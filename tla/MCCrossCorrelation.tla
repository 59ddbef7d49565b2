--------------------------- MODULE MCCrossCorrelation ---------------------------
(***************************************************************************)
(* An instance of CrossCorrelation: four-point signals of small integers.  *)
(***************************************************************************)
EXTENDS CrossCorrelation

MCN      == 4
MCIntMax == 1000    \* no correlation of these signals reaches it
MCBuilds == {{MCIntMax}}

NotSilent(S) == {c \in S : \E k \in DOMAIN c : c[k] # 0}

\* For the simulation, every chirp of amplitude 3; for recordings, three chirps.
MCChirps ==
  [p \in Programs |->
     IF p = "Cross Correlation" THEN NotSilent([0 .. 1 -> -3 .. 3])
     ELSE {[k \in 0 .. 1 |-> c[k + 1]] : c \in {<<0, 2>>, <<1, -1>>, <<1, 2>>}}]

\* Every delay that keeps the chirp inside the signal.
MCShifts == 0 .. 2

\* Every signal of amplitude 1.
MCRecordings == [0 .. 3 -> -1 .. 1]

StackValues == {0, 7}
================================================================================
