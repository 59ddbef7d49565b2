------------------------------- MODULE PeakSearch -------------------------------
(***************************************************************************)
(* The loop that ends localization.cpp and Cross Correlation.cpp: it walks *)
(* through the correlated signal, keeps the largest value so far in max    *)
(* and its place in index.  The signal is double, max is int: every        *)
(* assignment to max drops the fraction, and is undefined when the value   *)
(* does not fit.                                                           *)
(*                                                                         *)
(* A value of the signal is an integer number of (1/Frac)ths, so that      *)
(* v stands for v / Frac.                                                  *)
(***************************************************************************)
EXTENDS Integers

CONSTANTS
  N,         \* length of the signal (samp in localization.cpp)
  Frac,      \* resolution of its values: multiples of 1 / Frac
  IntMax,    \* the largest int
  Builds,    \* for each build, what it may make of a conversion that does not fit
  Signals    \* the correlated signals considered

ASSUME PeakAssumption ==
  /\ N \in Nat \ {0} /\ Frac \in Nat \ {0} /\ IntMax \in Nat
  /\ \A b \in Builds : b # {} /\ b \subseteq {IntMax, -IntMax - 1}
  /\ Signals \subseteq [0 .. N - 1 -> Int]

VARIABLES
  overflow,  \* the build
  spectrum,  \* the correlated signal
  i,         \* loop index
  max,       \* largest value so far, as an int
  index      \* where it was found

peakVars == <<overflow, spectrum, i, max, index>>

Positions == 0 .. N - 1

\* Conversion of v / Frac to int: towards zero if the result fits; otherwise
\* the saturated value (ARM) or the smallest int (x86).  What is assigned to
\* max is above the old max, so it may be too large but never too small.
Truncated(v) == IF v >= 0 THEN v \div Frac ELSE -((-v) \div Frac)
ToInt(v)     == IF Truncated(v) <= IntMax THEN {Truncated(v)} ELSE overflow

PeakReset == i = 0 /\ max = 0 /\ index = 0

PeakInit == overflow \in Builds /\ spectrum \in Signals /\ PeakReset

\* Mutant of PeakStep: max is not kept up to date.
PeakStepMaxForgotten ==
  /\ i < N /\ i' = i + 1
  /\ \/ spectrum[i] > max * Frac  /\ index' = i
     \/ spectrum[i] <= max * Frac /\ UNCHANGED index
  /\ UNCHANGED <<overflow, spectrum, max>>

\* Mutant of PeakStep: >= for >.
PeakStepLastOfEquals ==
  /\ i < N /\ i' = i + 1
  /\ \/ spectrum[i] >= max * Frac /\ max' \in ToInt(spectrum[i]) /\ index' = i
     \/ spectrum[i] < max * Frac  /\ UNCHANGED <<max, index>>
  /\ UNCHANGED <<overflow, spectrum>>

\* One iteration.
PeakStep ==
  /\ i < N /\ i' = i + 1
  /\ \/ spectrum[i] > max * Frac  /\ max' \in ToInt(spectrum[i]) /\ index' = i
     \/ spectrum[i] <= max * Frac /\ UNCHANGED <<max, index>>
  /\ UNCHANGED <<overflow, spectrum>>

PeakDone == i = N

\* The loop, then nothing more.
PeakSpec == PeakInit /\ [][PeakStep]_peakVars

--------------------------------------------------------------------------------
(* Properties *)

\* Every variable has its type.
PeakTypeOK ==
  /\ overflow \in Builds
  /\ spectrum \in [Positions -> Int]
  /\ i \in 0 .. N /\ index \in Positions
  /\ max \in (-IntMax - 1) .. IntMax

\* No value of the signal is too large for an int.
Fits == \A p \in Positions : Truncated(spectrum[p]) <= IntMax

\* As long as the values fit, the place reported is a peak to within one unit
\* of the signal: nothing is larger than what is found there by a unit or
\* more.  Dropping fractions in the comparison costs no more than that
\* (localization.cpp:112-117).  Index 0 also stands for "no positive value".
PeakNear ==
  PeakDone /\ Fits =>
    \/ index = 0 /\ \A p \in Positions : spectrum[p] <= 0
    \/ \A p \in Positions : spectrum[p] < spectrum[index] + Frac

\* Of several places with the same whole-valued peak, the first is reported:
\* the direct sound rather than a later echo (line 113 compares with >).
FirstOfEquals ==
  PeakDone /\ Fits =>
    \A p \in Positions :
      spectrum[p] > 0 /\ spectrum[p] = spectrum[index] /\ spectrum[p] % Frac = 0
        => index <= p

\* "finding the peak in the correlated signal" (line 112), to within one unit
\* but without the proviso that the values fit an int.
PeakNearAlways ==
  PeakDone /\ (\E p \in Positions : spectrum[p] > 0) =>
    \A p \in Positions : spectrum[p] < spectrum[index] + Frac

--------------------------------------------------------------------------------
(* Why they hold: what is known after i iterations *)

Seen == {p \in Positions : p < i}

\* max is the truncated value at index, and nothing seen truncates to more.
Tracks ==
  Fits =>
    /\ max >= 0
    /\ \A p \in Seen : spectrum[p] < (max + 1) * Frac
    /\ \/ index = 0 /\ max = 0 /\ \A p \in Seen : spectrum[p] <= 0
       \/ index \in Seen /\ max * Frac <= spectrum[index]

PeakInv == PeakTypeOK /\ Tracks

\* Nothing seen that equals a whole-valued spectrum[index] comes before it.
FirstSoFar ==
  Fits =>
    \A p \in Seen :
      spectrum[p] > 0 /\ spectrum[p] = spectrum[index] /\ spectrum[p] % Frac = 0
        => index <= p
================================================================================
