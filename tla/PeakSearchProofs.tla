---------------------------- MODULE PeakSearchProofs ----------------------------
(***************************************************************************)
(* What the peak search reports, for signals of every length and every     *)
(* value, every resolution and every width of int.                         *)
(***************************************************************************)
EXTENDS PeakSearch, TLAPS

(* Truncation brackets a non-negative value... *)
LEMMA TruncatedBracket ==
  ASSUME NEW v \in Nat
  PROVE  /\ Truncated(v) \in Nat
         /\ Truncated(v) * Frac <= v
         /\ v < (Truncated(v) + 1) * Frac
BY PeakAssumption DEF Truncated

(* ...keeps the sign of a negative one... *)
LEMMA TruncatedNegative ==
  ASSUME NEW v \in Int, v < 0
  PROVE  Truncated(v) \in Int /\ Truncated(v) <= 0
BY PeakAssumption DEF Truncated

(* ...and never falls below a whole number that the value exceeds. *)
LEMMA TruncatedAbove ==
  ASSUME NEW v \in Int, NEW m \in Int, v > m * Frac
  PROVE  Truncated(v) >= m
<1>1. CASE v >= 0
  <2>1. v \in Nat
    BY <1>1
  <2>2. v < (Truncated(v) + 1) * Frac /\ Truncated(v) \in Nat
    BY <2>1, TruncatedBracket
  <2>3. m < Truncated(v) + 1
    BY <2>2, PeakAssumption
  <2> QED  BY <2>2, <2>3
<1>2. CASE v < 0
  <2> DEFINE w == -v
  <2>1. w \in Nat /\ w < -m * Frac
    BY <1>2, PeakAssumption
  <2>2. Truncated(v) = -(w \div Frac)
    BY <1>2 DEF Truncated
  <2>3. w \div Frac \in Nat /\ (w \div Frac) * Frac <= w
    BY <2>1, PeakAssumption
  <2>4. w \div Frac <= -m
    BY <2>1, <2>3, PeakAssumption
  <2> QED  BY <2>2, <2>3, <2>4
<1>3. QED
  BY <1>1, <1>2

(* Order is kept by the resolution. *)
LEMMA ScaleMonotone ==
  ASSUME NEW a \in Int, NEW b \in Int, a <= b
  PROVE  a * Frac <= b * Frac
BY PeakAssumption

(* PeakInv and FirstSoFar are inductive. *)
LEMMA PeakInvInit == PeakInit => PeakInv
BY PeakAssumption
   DEF PeakInit, PeakReset, PeakInv, PeakTypeOK, Tracks, Positions, Seen

LEMMA PeakInvNext == PeakInv /\ [PeakStep]_peakVars => PeakInv'
<1> SUFFICES ASSUME PeakInv, [PeakStep]_peakVars PROVE PeakInv'
  OBVIOUS
<1> USE PeakAssumption DEF PeakInv, PeakTypeOK, Positions
<1>1. CASE UNCHANGED peakVars
  BY <1>1 DEF peakVars, Tracks, Fits, Seen
<1>2. CASE PeakStep
  <2> DEFINE v == spectrum[i]
  <2>1. /\ i \in Positions /\ i' = i + 1 /\ spectrum' = spectrum /\ v \in Int
        /\ overflow' = overflow
        /\ Seen' = Seen \union {i} /\ (Fits' <=> Fits)
    BY <1>2 DEF PeakStep, Seen, Fits
  <2>2. CASE v <= max * Frac /\ UNCHANGED <<max, index>>
    <3>1. PeakTypeOK'
      BY <2>1, <2>2
    <3>2. Tracks'
      BY <2>1, <2>2 DEF Tracks
    <3> QED  BY <3>1, <3>2
  <2>3. CASE v > max * Frac /\ max' \in ToInt(v) /\ index' = i
    <3>1. Truncated(v) \in Int /\ Truncated(v) >= max
      <4>1. Truncated(v) \in Int
        <5>1. CASE v \in Nat
          <6>1. Truncated(v) \in Nat
            BY <5>1, TruncatedBracket, Zenon
          <6> QED  BY <6>1
        <5>2. CASE v < 0
          BY <2>1, <5>2, TruncatedNegative
        <5> QED  BY <2>1, <5>1, <5>2
      <4> QED  BY <2>1, <2>3, <4>1, TruncatedAbove
    <3>2. PeakTypeOK'
      <4>1. CASE Truncated(v) <= IntMax
        BY <2>1, <2>3, <3>1, <4>1 DEF ToInt
      <4>2. CASE ~(Truncated(v) <= IntMax)
        <5>1. max' \in {IntMax, -IntMax - 1}
          <6>1. max' \in overflow /\ overflow \subseteq {IntMax, -IntMax - 1}
            BY <2>3, <4>2 DEF ToInt
          <6> QED  BY <6>1
        <5> QED  BY <2>1, <2>3, <5>1
      <4> QED  BY <4>1, <4>2
    <3>3. Tracks'
      <4> SUFFICES ASSUME Fits PROVE Tracks'
        BY <2>1 DEF Tracks
      <4>1. max' = Truncated(v)
        BY <2>1, <2>3 DEF Fits, ToInt
      <4>2. max >= 0 /\ v \in Nat
        BY <2>1, <2>3, SMTT(30) DEF Tracks
      <4>3. max' \in Nat /\ max' * Frac <= v /\ v < (max' + 1) * Frac
        BY <4>1, <4>2, TruncatedBracket
      <4>4. ASSUME NEW p \in Seen PROVE spectrum[p] < (max' + 1) * Frac
        <5>1. spectrum[p] \in Int /\ spectrum[p] < (max + 1) * Frac
          BY <4>4 DEF Tracks, Seen
        <5>2. (max + 1) * Frac <= (max' + 1) * Frac
          <6>1. max + 1 \in Int /\ max' + 1 \in Int /\ max + 1 <= max' + 1
            BY <3>1, <4>1
          <6> QED  BY <6>1, ScaleMonotone
        <5>3. (max + 1) * Frac \in Int /\ (max' + 1) * Frac \in Int
          BY <3>1, <4>1
        <5> QED  BY <5>1, <5>2, <5>3
      <4>5. \A p \in Seen' : spectrum'[p] < (max' + 1) * Frac
        BY <2>1, <4>3, <4>4
      <4>6. index' \in Seen' /\ max' * Frac <= spectrum'[index']
        BY <2>1, <2>3, <4>3
      <4>7. max' >= 0
        BY <4>3
      <4> QED  BY <4>5, <4>6, <4>7 DEF Tracks
    <3> QED  BY <3>2, <3>3
  <2> QED  BY <1>2, <2>2, <2>3 DEF PeakStep
<1>3. QED
  BY <1>1, <1>2

\* The inductive invariant of the peak loop (localization.cpp:112-117): max is
\* what was last put there, nothing seen so far truncates to more, and index is
\* its place.
THEOREM PeakInvariance == PeakSpec => []PeakInv
BY PeakInvInit, PeakInvNext, PTL DEF PeakSpec

\* Every variable keeps its type, whatever overflows.
THEOREM PeakTypeCorrect == PeakSpec => []PeakTypeOK
BY PeakInvariance, PTL DEF PeakInv

(* What is tracked is, at the end, a peak to within one unit. *)
LEMMA TracksPeak == PeakInv => PeakNear
<1> SUFFICES ASSUME PeakInv, PeakDone, Fits PROVE
      \/ index = 0 /\ \A p \in Positions : spectrum[p] <= 0
      \/ \A p \in Positions : spectrum[p] < spectrum[index] + Frac
  BY DEF PeakNear
<1> USE PeakAssumption DEF PeakInv, PeakTypeOK, PeakDone, Positions, Seen
<1>1. Seen = Positions
  OBVIOUS
<1>2. max \in Int /\ (max + 1) * Frac = max * Frac + Frac
  OBVIOUS
<1>3. ASSUME NEW p \in Positions, max * Frac <= spectrum[index]
      PROVE  spectrum[p] < spectrum[index] + Frac
  <2>1. spectrum[p] < max * Frac + Frac
    BY <1>1, <1>2 DEF Tracks
  <2> QED  BY <1>2, <1>3, <2>1
<1> QED  BY <1>1, <1>3 DEF Tracks

\* If the values fit an int, the place reported is a peak to within one unit
\* (localization.cpp:112-117).
THEOREM PeakIsNear == PeakSpec => []PeakNear
BY TracksPeak, PeakInvariance, PTL

(* A whole multiple of Frac above max * Frac is at least (max + 1) * Frac. *)
LEMMA NextMultiple ==
  ASSUME NEW v \in Nat, NEW m \in Nat, v % Frac = 0, v > m * Frac
  PROVE  v >= (m + 1) * Frac
<1>1. v = (v \div Frac) * Frac /\ v \div Frac \in Nat
  BY PeakAssumption
<1>2. v \div Frac > m
  BY <1>1, PeakAssumption
<1>3. (m + 1) * Frac <= (v \div Frac) * Frac
  BY <1>1, <1>2, ScaleMonotone
<1> QED  BY <1>1, <1>3, PeakAssumption

LEMMA FirstNext == PeakInv /\ FirstSoFar /\ [PeakStep]_peakVars => FirstSoFar'
<1> SUFFICES ASSUME PeakInv, FirstSoFar, [PeakStep]_peakVars PROVE FirstSoFar'
  OBVIOUS
<1> USE PeakAssumption DEF PeakInv, PeakTypeOK, Positions
<1>1. CASE UNCHANGED peakVars
  BY <1>1 DEF peakVars, FirstSoFar, Fits, Seen, Truncated
<1>2. CASE PeakStep
  <2> DEFINE v == spectrum[i]
  <2>1. /\ i \in Positions /\ i' = i + 1 /\ spectrum' = spectrum /\ v \in Int
        /\ Seen' = Seen \union {i} /\ (Fits' <=> Fits)
    BY <1>2 DEF PeakStep, Seen, Fits
  <2> SUFFICES ASSUME Fits, NEW p \in Seen', spectrum[p] > 0,
                      spectrum[p] = spectrum[index'], spectrum[p] % Frac = 0
               PROVE  index' <= p
    BY <2>1 DEF FirstSoFar
  <2>2. CASE v <= max * Frac /\ UNCHANGED <<max, index>>
    BY <2>1, <2>2 DEF FirstSoFar, Tracks, Seen
  <2>3. CASE v > max * Frac /\ index' = i
    <3>1. CASE p = i
      BY <2>3, <3>1
    <3>2. CASE p \in Seen
      <4>1. max \in Nat /\ v \in Nat /\ v % Frac = 0 /\ spectrum[p] = v
        BY <2>1, <2>3 DEF Tracks
      <4>2. v >= (max + 1) * Frac
        BY <2>3, <4>1, NextMultiple
      <4>3. spectrum[p] < (max + 1) * Frac
        BY <3>2 DEF Tracks
      <4> QED  BY <4>1, <4>2, <4>3
    <3> QED  BY <2>1, <3>1, <3>2
  <2> QED  BY <1>2, <2>2, <2>3 DEF PeakStep
<1>3. QED
  BY <1>1, <1>2

\* Of several places with the same whole-valued peak, the first is reported
\* (localization.cpp:113).
THEOREM FirstIsReported == PeakSpec => []FirstOfEquals
<1>1. PeakInit => FirstSoFar
  BY DEF PeakInit, PeakReset, FirstSoFar, Seen, Positions
<1>2. FirstSoFar /\ PeakInv => FirstOfEquals
  BY DEF FirstSoFar, FirstOfEquals, PeakDone, PeakInv, PeakTypeOK, Seen, Positions
<1>3. QED
  BY <1>1, <1>2, FirstNext, PeakInvariance, PTL DEF PeakSpec
================================================================================
