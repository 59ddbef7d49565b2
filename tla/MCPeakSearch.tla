------------------------------ MODULE MCPeakSearch ------------------------------
(***************************************************************************)
(* A small instance of PeakSearch: every signal of three values in thirds  *)
(* of a unit, from -1 to just below IntMax + 2, so that some signals fit   *)
(* an int and others do not.                                               *)
(***************************************************************************)
EXTENDS PeakSearch

MCN      == 3
MCFrac   == 3
MCIntMax == 2

MCSignals == [0 .. MCN - 1 -> -MCFrac .. (MCIntMax + 2) * MCFrac - 1]

\* ARM saturates, x86 gives the smallest int; a build may do either.
MCBuilds == {{MCIntMax}, {-MCIntMax - 1}, {MCIntMax, -MCIntMax - 1}}

\* The BeagleBone is an ARM.
MCArm == {{MCIntMax}}
================================================================================
