--------------------------- MODULE LocalizationProofs ---------------------------
(***************************************************************************)
(* The safety properties of localization.cpp, for every number of samples, *)
(* sampling period, round period and bound on the execution time.          *)
(*                                                                         *)
(* All of them follow from RoundInv.  That it is inductive is shown one    *)
(* conjunct at a time, each for every action that can disturb it; the      *)
(* actions that leave its variables alone share a step.                    *)
(***************************************************************************)
EXTENDS Localization, TLAPS

(* A library call that fails ends main and touches nothing else. *)
LEMMA FailsKeeps ==
  ASSUME NEW at, Fails(at)
  PROVE  /\ pc' = "returned"
         /\ UNCHANGED <<pru, dram0, value, stored, due, i, samples, index, tof,
                        elapsed, wait, exec>>
BY DEF Fails, Goto, pruVars

(* RoundInv is inductive, conjunct by conjunct. *)
LEMMA RoundInvInit == Init => RoundInv
BY PruAssumption, LocalizationAssumption
   DEF Init, PruInit, MainInit, RoundInv, TypeOK, PruTypeOK, PruBooks, Handshake,
       Buffer, Timing, Label, PruState, Age, Slots, Untouched

--------------------------------------------------------------------------------
(* The PRU's books *)

LEMMA PruBooksNext == RoundInv /\ [Next]_vars => PruBooks'
<1> SUFFICES ASSUME RoundInv, [Next]_vars PROVE PruBooks'
  OBVIOUS
<1> USE PruAssumption DEF RoundInv, TypeOK, PruTypeOK, PruBooks, Slots
<1>1. CASE PruActs
  <2>1. CASE Store
    BY <2>1 DEF Store
  <2>2. CASE Publish
    BY <2>2 DEF Publish
  <2> QED  BY <1>1, <2>1, <2>2 DEF PruActs, PruStep
<1>2. CASE New
  BY <1>2, FailsKeeps DEF New, PruNew
<1>3. CASE Config \/ Reconfig
  BY <1>3, FailsKeeps DEF Config, Reconfig, PruConfig
<1>4. CASE MmStart
  BY <1>4, FailsKeeps DEF MmStart, PruMmStart
<1>5. CASE Reset
  BY <1>5 DEF Reset
<1>6. CASE Tick
  BY <1>6 DEF Tick, PruTick, PruLetsTimePass
<1>7. CASE UNCHANGED pruVars
  BY <1>7 DEF pruVars
<1>8. QED
  BY <1>1, <1>2, <1>3, <1>4, <1>5, <1>6, <1>7, FailsKeeps
     DEF Next, Main, SetStep, Start, Poll, CopySample, Offset, Correlate,
         Report, Elapsed, Wake, Kill, Restart, vars, pruVars

--------------------------------------------------------------------------------
(* What each side may rely on *)

LEMMA HandshakeNext == RoundInv /\ [Next]_vars => Handshake'
<1> SUFFICES ASSUME RoundInv, [Next]_vars PROVE Handshake'
  OBVIOUS
<1> USE PruAssumption DEF RoundInv, TypeOK, PruTypeOK, PruBooks, Handshake
<1>1. CASE PruActs
  BY <1>1 DEF PruActs, PruStep, Store, Publish, mainVars
<1>2. CASE New
  BY <1>2, FailsKeeps DEF New, PruNew, Goto
<1>3. CASE Config \/ Reconfig
  BY <1>3, FailsKeeps DEF Config, Reconfig, PruConfig, Goto
<1>4. CASE MmStart
  BY <1>4, FailsKeeps DEF MmStart, PruMmStart, Goto
<1>5. CASE Poll
  BY <1>5 DEF Poll, Goto, pruVars
<1>6. CASE CopySample
  BY <1>6 DEF CopySample, pruVars
<1>7. CASE Reset
  BY <1>7 DEF Reset, Goto
<1>8. CASE SetStep \/ Start \/ Offset \/ Correlate \/ Report \/ Elapsed \/ Wake
  BY <1>8, FailsKeeps
     DEF SetStep, Start, Offset, Correlate, Report, Elapsed, Wake, Goto, pruVars
<1>9. CASE Tick
  BY <1>9 DEF Tick
<1>10. CASE Kill \/ Restart
  BY <1>10 DEF Kill, Restart
<1>11. CASE UNCHANGED vars
  BY <1>11 DEF vars, pruVars, mainVars
<1>12. QED
  BY <1>1, <1>2, <1>3, <1>4, <1>5, <1>6, <1>7, <1>8, <1>9, <1>10, <1>11
     DEF Next, Main

--------------------------------------------------------------------------------
(* The buffer *)

LEMMA BufferNext == RoundInv /\ [Next]_vars => Buffer'
<1> SUFFICES ASSUME RoundInv, [Next]_vars PROVE Buffer'
  OBVIOUS
<1> USE PruAssumption DEF RoundInv, TypeOK, PruTypeOK, Slots, Buffer, Filled
<1>1. CASE Poll
  BY <1>1 DEF Poll, Goto
<1>2. CASE CopySample
  <2>1. value[i] = "new" /\ i < Samp
    BY <1>2 DEF CopySample, PruBooks, Handshake
  <2>2. \A s \in Slots : s < i + 1 => samples'[s] = [age |-> "new", dc |-> 0]
    BY <1>2, <2>1 DEF CopySample
  <2> QED  BY <1>2, <2>1, <2>2 DEF CopySample
<1>3. CASE Reset
  BY <1>3 DEF Reset, Goto
<1>4. CASE Offset
  BY <1>4 DEF Offset, Goto
<1>5. CASE Correlate
  BY <1>5 DEF Correlate, Goto
<1>6. CASE New \/ SetStep \/ Config \/ Start \/ MmStart \/ Report \/ Reconfig
           \/ Elapsed \/ Wake \/ Kill \/ Restart
  BY <1>6, FailsKeeps
     DEF New, SetStep, Config, Start, MmStart, Report, Reconfig, Elapsed, Wake,
         Kill, Restart, Goto
<1>7. CASE UNCHANGED <<pc, i, samples>>
  BY <1>7
<1>8. QED
  BY <1>1, <1>2, <1>3, <1>4, <1>5, <1>6, <1>7
     DEF Next, Main, PruActs, Tick, mainVars, vars

--------------------------------------------------------------------------------
(* Where the time went *)

LEMMA TimingNext == RoundInv /\ [Next]_vars => Timing'
<1> SUFFICES ASSUME RoundInv, [Next]_vars PROVE Timing'
  OBVIOUS
<1> USE PruAssumption, LocalizationAssumption
    DEF RoundInv, TypeOK, PruTypeOK, PruBooks, Timing
<1>1. CASE PruActs
  <2>1. (stored + 1) * Tmr = stored * Tmr + Tmr
    OBVIOUS
  <2>2. CASE Store
    <3>1. pc = "poll" => elapsed = exec + stored' * Tmr
      BY <2>1, <2>2 DEF Store
    <3> QED  BY <1>1, <2>2, <3>1, SMTT(30) DEF PruActs, Store, mainVars
  <2>3. CASE Publish
    BY <1>1, <2>3, SMTT(30) DEF PruActs, Publish, mainVars
  <2> QED  BY <1>1, <2>2, <2>3 DEF PruActs, PruStep
<1>2. CASE Start
  BY <1>2 DEF Start, Goto
<1>3. CASE MmStart
  BY <1>3, FailsKeeps DEF MmStart, PruMmStart, Goto
<1>4. CASE Poll
  BY <1>4 DEF Poll, Handshake, Goto
<1>5. CASE Elapsed
  BY <1>5 DEF Elapsed, pruVars
<1>6. CASE Wake
  BY <1>6 DEF Wake, Goto
<1>7. CASE Tick
  BY <1>7 DEF Tick, PruTick, PruLetsTimePass, Waiting, Down, SetUp, Handshake
<1>8. CASE CopySample \/ Reset \/ Offset \/ Correlate \/ Report \/ Reconfig
  BY <1>8, FailsKeeps
     DEF CopySample, Reset, Offset, Correlate, Report, Reconfig, Goto, pruVars
<1>9. CASE New \/ SetStep \/ Config \/ Kill \/ Restart
  BY <1>9, FailsKeeps DEF New, SetStep, Config, Kill, Restart, Goto
<1>10. CASE UNCHANGED vars
  BY <1>10 DEF vars, pruVars, mainVars
<1>11. QED
  BY <1>1, <1>2, <1>3, <1>4, <1>5, <1>6, <1>7, <1>8, <1>9, <1>10
     DEF Next, Main

--------------------------------------------------------------------------------
(* Types *)

LEMMA TypeOKNext == RoundInv /\ [Next]_vars => TypeOK'
<1> SUFFICES ASSUME RoundInv, [Next]_vars PROVE TypeOK'
  OBVIOUS
<1> USE PruAssumption, LocalizationAssumption DEF RoundInv
<1>1. PruTypeOK'
  <2> USE DEF TypeOK, PruTypeOK, PruBooks, PruState, Age, Slots
  <2>1. CASE PruActs
    BY <2>1 DEF PruActs, PruStep, Store, Publish
  <2>2. CASE New
    BY <2>2, FailsKeeps DEF New, PruNew
  <2>3. CASE Config \/ Reconfig
    BY <2>3, FailsKeeps DEF Config, Reconfig, PruConfig
  <2>4. CASE MmStart
    BY <2>4, FailsKeeps, SMTT(30) DEF MmStart, PruMmStart, Aged
  <2>5. CASE Reset
    BY <2>5 DEF Reset
  <2>6. CASE Tick
    BY <2>6 DEF Tick, PruTick, PruLetsTimePass
  <2>7. CASE UNCHANGED pruVars
    BY <2>7 DEF pruVars
  <2>8. QED
    BY <2>1, <2>2, <2>3, <2>4, <2>5, <2>6, <2>7, FailsKeeps
       DEF Next, Main, SetStep, Start, Poll, CopySample, Offset, Correlate,
           Report, Elapsed, Wake, Kill, Restart, vars, pruVars
<1>2. samples' \in [Slots -> [age : Age, dc : {0, 1}]]
  <2> USE DEF TypeOK, PruTypeOK, Age, Slots
  <2>1. CASE MmStart
    <3>1. ASSUME NEW s \in Slots
          PROVE  [samples[s] EXCEPT !.age = Aged(@)] \in [age : Age, dc : {0, 1}]
      <4>1. samples[s] \in [age : Age, dc : {0, 1}]
        OBVIOUS
      <4> QED  BY <4>1 DEF Aged
    <3>2. CASE UNCHANGED samples
      BY <3>2
    <3>3. CASE samples' = [s \in Slots |-> [samples[s] EXCEPT !.age = Aged(@)]]
      BY <3>1, <3>3 DEF Aged
    <3> QED  BY <2>1, <3>2, <3>3, FailsKeeps DEF MmStart
  <2>2. CASE CopySample
    BY <2>2 DEF CopySample, Buffer
  <2>3. CASE Offset
    <3>1. ASSUME NEW s \in Slots
          PROVE  [samples[s] EXCEPT !.dc = @ + 1] = [age |-> "new", dc |-> 1]
      <4>1. samples[s] = [age |-> "new", dc |-> 0]
        BY <2>3 DEF Offset, Goto, Buffer, Filled
      <4> QED  BY <4>1
    <3> QED  BY SMTT(30), <2>3, <3>1 DEF Offset
  <2>4. CASE Restart
    BY <2>4 DEF Restart, Untouched
  <2>5. CASE UNCHANGED samples
    BY <2>5
  <2>6. QED
    BY <2>1, <2>2, <2>3, <2>4, <2>5, FailsKeeps
       DEF Next, Main, New, SetStep, Config, Start, Poll, Reset, Correlate, Report,
           Reconfig, Elapsed, Wake, Kill, PruActs, Tick, mainVars, vars
<1>3. pc' \in Label /\ i' \in 0 .. Samp /\ index' \in Slots /\ tof' \in Nat
  BY FailsKeeps, SMTT(30)
     DEF TypeOK, Label, Slots, Buffer, Goto, Next, Main, New, SetStep, Config, Start,
         MmStart, Poll, CopySample, Reset, Offset, Correlate, Report, Reconfig,
         Elapsed, Wake, Kill, Restart, PruActs, Tick, mainVars, vars
<1>4. elapsed' \in Nat /\ wait' \in 0 .. Period /\ exec' \in 0 .. MaxExec
  BY FailsKeeps
     DEF TypeOK, Next, Main, New, SetStep, Config, Start, MmStart, Poll, CopySample,
         Reset, Offset, Correlate, Report, Reconfig, Elapsed, Wake, Kill, Restart,
         PruActs, Tick, mainVars, vars
<1>5. QED
  BY <1>1, <1>2, <1>3, <1>4 DEF TypeOK

--------------------------------------------------------------------------------
(* The theorems *)

LEMMA RoundInvNext == RoundInv /\ [Next]_vars => RoundInv'
BY PruBooksNext, HandshakeNext, BufferNext, TimingNext, TypeOKNext DEF RoundInv

\* The invariant holds of every run of the loop, failures, kills and restarts
\* included.
THEOREM Invariance == Spec => []RoundInv
BY RoundInvInit, RoundInvNext, PTL DEF Spec

\* Every variable keeps its type.
THEOREM TypeCorrect == Spec => []TypeOK
BY Invariance, PTL DEF RoundInv

\* Only samples of the round under way, corrected once, are correlated
\* (localization.cpp:48-63), however the counter was left by earlier rounds.
THEOREM CorrelatesFreshBuffer == Spec => []FreshBuffer
<1>1. RoundInv => FreshBuffer
  BY DEF RoundInv, Buffer, Filled, FreshBuffer
<1>2. QED
  BY <1>1, Invariance, PTL

\* Main and the PRU never touch the shared memory at the same time
\* (lines 42-59, 133).
THEOREM MemoryIsQuiet == Spec => []QuietSharedMemory
<1>1. RoundInv => QuietSharedMemory
  BY DEF RoundInv, Handshake, QuietSharedMemory, Running
<1>2. QED
  BY <1>1, Invariance, PTL

\* Every measurement starts on a configured sampler and a cleared counter
\* (lines 33, 43, 59, 133).
THEOREM MeasurementStartsClean == Spec => []StartsClean
<1>1. RoundInv => StartsClean
  BY DEF RoundInv, Handshake, StartsClean
<1>2. QED
  BY <1>1, Invariance, PTL

(* A step that begins the next round knows how long the last one took. *)
LEMMA RoundLength ==
  RoundInv /\ [Next]_vars /\ LoopsBack
    => elapsed >= Longer /\ elapsed <= Longer + MaxExec
<1> SUFFICES ASSUME RoundInv, [Next]_vars, LoopsBack
             PROVE  elapsed >= Longer /\ elapsed <= Longer + MaxExec
  OBVIOUS
<1> USE PruAssumption, LocalizationAssumption
    DEF RoundInv, TypeOK, Timing, LoopsBack, Longer
<1>1. Samp * Tmr \in Nat
  OBVIOUS
<1>2. CASE pc = "elapsed"
  <2>1. Elapsed
    BY <1>2, FailsKeeps
       DEF Next, Main, New, SetStep, Config, Start, MmStart, Poll, CopySample, Reset,
           Offset, Correlate, Report, Reconfig, Wake, Kill, Restart, PruActs, Tick,
           Goto, mainVars, vars, Down
  <2>2. Period <= elapsed
    BY <1>2, <2>1 DEF Elapsed
  <2> QED  BY <1>1, <1>2, <2>2
<1>3. CASE pc = "sleep"
  <2>1. Wake
    BY <1>3, FailsKeeps
       DEF Next, Main, New, SetStep, Config, Start, MmStart, Poll, CopySample, Reset,
           Offset, Correlate, Report, Reconfig, Elapsed, Kill, Restart, PruActs, Tick,
           Goto, mainVars, vars, Down
  <2>2. wait = 0
    BY <2>1 DEF Wake
  <2> QED  BY <1>1, <1>3, <2>2
<1>4. QED
  BY <1>2, <1>3

\* No round is shorter than the period or than its sampling
\* (lines 40, 139-148).
THEOREM RoundsAreSpaced == Spec => SpacingAtLeast
<1>1. RoundInv /\ [Next]_vars => [LoopsBack => elapsed >= Longer]_vars
  BY RoundLength
<1>2. QED
  BY <1>1, Invariance, PTL DEF Spec, SpacingAtLeast

\* A round is late by at most the time it lost outside its waits
\* (lines 139-148).
THEOREM RoundsAreOnTime == Spec => SpacingAtMost
<1>1. RoundInv /\ [Next]_vars => [LoopsBack => elapsed <= Longer + MaxExec]_vars
  BY RoundLength
<1>2. QED
  BY <1>1, Invariance, PTL DEF Spec, SpacingAtMost

--------------------------------------------------------------------------------
(* The time of flight *)

(* Between the report and the next round tof is the index, as a time. *)
TofInv == pc = "reconfig" => tof = index * Second

(* The sampling period is the one the program computes with, 1/(Samp-1) of a *)
(* second, to within the rounding of its own divisor (lines 28, 119).        *)
RateAsDocumented ==
  -Tmr <= Second - Tmr * (Samp - 1) /\ Second - Tmr * (Samp - 1) <= Tmr

(* Only the report sets pc to "reconfig", and it computes tof. *)
LEMMA TofInvNext == TofInv /\ [Next]_vars => TofInv'
BY FailsKeeps
   DEF TofInv, Next, Main, New, SetStep, Config, Start, MmStart, Poll, CopySample, Reset,
       Offset, Correlate, Report, Reconfig, Elapsed, Wake, Kill, Restart, PruActs, Tick,
       Goto, mainVars, vars

\* With the rate of the comment on line 28, whatever the number of samples, the
\* time of flight is right to one sample (line 119).
THEOREM TofIsRight == ASSUME RateAsDocumented PROVE Spec => []TofWithinOneSample
<1>1. Init => TofInv
  BY DEF Init, MainInit, TofInv
<1>2. RoundInv /\ TofInv => TofWithinOneSample
  <2> SUFFICES ASSUME RoundInv, TofInv, pc = "reconfig" PROVE TofWithinOneSample
    BY DEF TofWithinOneSample
  <2>1. /\ index \in Nat /\ index <= Samp - 1 /\ Samp - 1 \in Nat
        /\ Tmr \in Nat /\ Second \in Int
    BY PruAssumption, LocalizationAssumption DEF RoundInv, TypeOK, Slots
  <2>2. PICK per \in Int : per = Tmr * (Samp - 1)
    BY <2>1
  <2>3. PICK off \in Int : off = Second - per
    BY <2>1, <2>2
  <2>4. -Tmr <= off /\ off <= Tmr
    BY <2>2, <2>3, RateAsDocumented DEF RateAsDocumented
  <2>5. tof - index * Tmr * (Samp - 1) = index * off
    <3>1. index * Tmr * (Samp - 1) = index * per
      BY <2>1, <2>2
    <3>2. tof = index * (per + off)
      BY <2>1, <2>2, <2>3 DEF TofInv
    <3> QED  BY <2>1, <2>2, <2>3, <3>1, <3>2
  <2>6. index * off <= index * Tmr /\ index * (-Tmr) <= index * off
    BY <2>1, <2>3, <2>4
  <2>7. index * Tmr <= per
    BY <2>1, <2>2
  <2>8. PICK err \in Int : err = index * off
    BY <2>1, <2>3
  <2>9. -per <= err /\ err <= per
    <3>1. PICK x \in Int : x = index * Tmr
      BY <2>1
    <3>2. index * (-Tmr) = -x
      BY <2>1, <3>1
    <3> QED  BY <2>2, <2>6, <2>7, <2>8, <3>1, <3>2
  <2> QED  BY <2>2, <2>5, <2>8, <2>9 DEF TofWithinOneSample
<1> QED  BY <1>1, <1>2, TofInvNext, Invariance, PTL DEF Spec

\* With any other rate, such as the one the program sets, it is wrong by more
\* for the last index (lines 28, 119).
THEOREM TofNeedsTheRate ==
  ASSUME ~RateAsDocumented, TofInv, pc = "reconfig", index = Samp - 1
  PROVE  ~TofWithinOneSample
<1>1. Samp - 1 \in Nat \ {0} /\ Tmr \in Nat \ {0} /\ Second \in Int
  BY PruAssumption, LocalizationAssumption
<1>2. PICK per \in Int : per = Tmr * (Samp - 1)
  BY <1>1
<1>3. PICK off \in Int : off = Second - per
  BY <1>1, <1>2
<1>4. off < -Tmr \/ off > Tmr
  BY <1>1, <1>2, <1>3 DEF RateAsDocumented
<1>5. tof - index * Tmr * (Samp - 1) = (Samp - 1) * off
  <2>1. index * Tmr * (Samp - 1) = (Samp - 1) * per
    BY <1>1, <1>2
  <2>2. tof = (Samp - 1) * (per + off)
    BY <1>1, <1>2, <1>3 DEF TofInv
  <2> QED  BY <1>1, <1>2, <1>3, <2>1, <2>2
<1>6. PICK err \in Int : err = (Samp - 1) * off
  BY <1>1, <1>3
<1>7. err < -per \/ err > per
  <2>1. PICK last \in Nat \ {0} : last = Samp - 1
    BY <1>1
  <2>2. CASE off + Tmr + 1 <= 0
    <3>1. last * (off + Tmr + 1) <= 0
      BY <1>1, <2>1, <2>2
    <3>2. last * (off + Tmr + 1) = err + per + last
      BY <1>1, <1>2, <1>6, <2>1
    <3> QED  BY <3>1, <3>2
  <2>3. CASE off - Tmr - 1 >= 0
    <3>1. last * (off - Tmr - 1) >= 0
      BY <1>1, <2>1, <2>3
    <3>2. last * (off - Tmr - 1) = err - per - last
      BY <1>1, <1>2, <1>6, <2>1
    <3> QED  BY <3>1, <3>2
  <2> QED  BY <1>1, <1>4, <2>2, <2>3
<1> QED  BY <1>2, <1>5, <1>6, <1>7 DEF TofWithinOneSample

--------------------------------------------------------------------------------
(* The loop implements module Ranging *)

\* The mapped state, by name.
Phase   == IF Down \/ SetUp THEN "down" ELSE IF Measuring THEN "measuring" ELSE "idle"
Sampled == IF Measuring THEN {s \in Slots : value[s] = "new"} ELSE {}
Got     == IF Measuring THEN {s \in Slots : samples[s].age = "new"} ELSE {}

(* A step that ends up in "returned" or "killed" is the promise's Stop. *)
LEMMA StopRefines ==
  ASSUME pc' \in {"returned", "killed"}
  PROVE  [Promise!Next]_(Promise!rangingVars)
<1>1. Phase' = "down" /\ Sampled' = {} /\ Got' = {}
  BY DEF Phase, Sampled, Got, Down, Measuring
<1>2. CASE Phase = "down"
  <2>1. Sampled = {} /\ Got = {}
    BY <1>2 DEF Phase, Sampled, Got, Down, SetUp, Measuring
  <2> QED
    BY <1>1, <1>2, <2>1 DEF Phase, Sampled, Got, Promise!rangingVars
<1>3. CASE Phase # "down"
  BY <1>1, <1>3 DEF Phase, Sampled, Got, Promise!Next, Promise!Stop
<1>4. QED
  BY <1>2, <1>3

(* Every step is one of Ranging or a stutter. *)
LEMMA StepRefines ==
  RoundInv /\ [Next]_vars => [Promise!Next]_(Promise!rangingVars)
<1> SUFFICES ASSUME RoundInv, [Next]_vars
             PROVE  [Promise!Next]_(Promise!rangingVars)
  OBVIOUS
<1> DEFINE Stutter == UNCHANGED <<Phase, Sampled, Got>>
<1>0. ASSUME Stutter PROVE [Promise!Next]_(Promise!rangingVars)
  BY <1>0 DEF Phase, Sampled, Got, Promise!rangingVars
<1>1. CASE pc' \in {"returned", "killed"}
  BY <1>1, StopRefines
<1>2. CASE pc' \notin {"returned", "killed"} /\ Config
  BY <1>2, FailsKeeps
     DEF Config, Goto, Down, SetUp, Measuring, Promise!Next, Promise!Recover
<1>3. CASE pc' \notin {"returned", "killed"} /\ MmStart
  <2>1. Phase = "idle" /\ Phase' = "measuring"
    BY <1>3, FailsKeeps DEF MmStart, Goto, Phase, Down, SetUp, Measuring
  <2>2. Sampled' = {}
    BY <1>3, FailsKeeps DEF MmStart, PruMmStart, Goto, Sampled, Aged, RoundInv, TypeOK, PruTypeOK
  <2>3. Got' = {}
    <3>1. samples' = [s \in Slots |-> [samples[s] EXCEPT !.age = Aged(@)]]
      BY <1>3, FailsKeeps DEF MmStart
    <3>2. ASSUME NEW s \in Slots PROVE samples'[s].age # "new"
      <4>1. samples[s] \in [age : Age, dc : {0, 1}]
        BY DEF RoundInv, TypeOK
      <4>2. samples'[s].age = Aged(samples[s].age)
        BY <3>1, <4>1
      <4> QED  BY <4>2 DEF Aged
    <3> QED  BY <3>2 DEF Got
  <2> QED
    BY <2>1, <2>2, <2>3 DEF Phase, Sampled, Got, Promise!Next, Promise!Begin
<1>4. CASE CopySample
  <2>1. Phase = "measuring" /\ Phase' = "measuring" /\ Sampled' = Sampled
    BY <1>4 DEF CopySample, pruVars, Phase, Sampled, Down, SetUp, Measuring, Slots
  <2>2. Sampled = Slots /\ i \in Slots /\ value[i] = "new"
    BY <1>4, PruAssumption
       DEF CopySample, Sampled, Measuring, RoundInv, TypeOK, PruTypeOK, PruBooks,
           Handshake, Buffer, Slots
  <2>3. Got' = Got \union {i}
    BY <1>4, <2>2 DEF CopySample, Got, Measuring, RoundInv, TypeOK
  <2>4. CASE i \in Got
    BY <1>0, <2>1, <2>3, <2>4
  <2>5. CASE i \notin Got
    BY <2>1, <2>2, <2>3, <2>5
       DEF Phase, Sampled, Got, Slots, Promise!Next, Promise!Read, Promise!AllSlots
  <2> QED  BY <2>4, <2>5
<1>5. CASE Offset
  <2>1. ASSUME NEW s \in Slots PROVE samples'[s].age = samples[s].age
    BY <1>5 DEF Offset, RoundInv, TypeOK
  <2>2. Got' = Got
    BY <1>5, <2>1 DEF Offset, Goto, Got, Measuring
  <2>3. Phase' = Phase /\ Sampled' = Sampled
    BY <1>5 DEF Offset, Goto, pruVars, Phase, Sampled, Down, SetUp, Measuring, Slots
  <2> QED  BY <1>0, <2>2, <2>3
<1>6. CASE Report
  <2>1. Phase = "measuring" /\ Phase' = "idle" /\ Sampled' = {} /\ Got' = {}
    BY <1>6 DEF Report, Goto, Phase, Sampled, Got, Down, SetUp, Measuring
  <2>2. Got = Slots
    BY <1>6 DEF Report, Goto, Got, Measuring, RoundInv, Buffer, Filled
  <2> QED
    BY <2>1, <2>2
       DEF Phase, Sampled, Got, Slots, Promise!Next, Promise!ReportRound, Promise!AllSlots
<1>7. CASE PruActs
  <2>1. Phase' = Phase /\ Got' = Got
    BY <1>7 DEF PruActs, mainVars, Phase, Got, Down, SetUp, Measuring
  <2>2. CASE ~Measuring \/ Publish
    BY <1>0, <1>7, <2>1, <2>2 DEF PruActs, Publish, mainVars, Sampled, Measuring, Slots
  <2>3. CASE Measuring /\ Store
    <3>1. stored \in Slots
      BY <2>3, PruAssumption DEF Store, RoundInv, TypeOK, PruTypeOK, PruBooks, Slots
    <3>2. Sampled' = Sampled \union {stored}
      BY <1>7, <2>3, <3>1
         DEF PruActs, Store, mainVars, Sampled, Measuring, RoundInv, TypeOK, PruTypeOK
    <3>3. CASE stored \in Sampled
      BY <1>0, <2>1, <3>2, <3>3
    <3>4. CASE stored \notin Sampled
      <4>1. Phase = "measuring"
        BY <2>3 DEF Phase, Measuring, Down, SetUp
      <4> QED
        BY <2>1, <3>1, <3>2, <3>4, <4>1
           DEF Phase, Sampled, Got, Slots, Promise!Next, Promise!Take, Promise!AllSlots
    <3> QED  BY <3>3, <3>4
  <2> QED  BY <1>7, <2>2, <2>3 DEF PruActs, PruStep
<1>8. CASE \/ pc' \notin {"returned", "killed"} /\ (New \/ SetStep \/ Reconfig)
           \/ Start \/ Elapsed \/ Wake \/ Restart
  <2>1. Stutter
    BY <1>8, FailsKeeps
       DEF New, SetStep, Reconfig, Start, Elapsed, Wake, Restart, Goto, Phase,
           Sampled, Got, Down, SetUp, Measuring
  <2> QED  BY <1>0, <2>1
<1>9. CASE Poll \/ Reset \/ Correlate \/ Tick \/ UNCHANGED vars
  <2>1. Stutter
    BY <1>9 DEF Poll, Reset, Correlate, Tick, Goto, Phase, Sampled, Got, Down, SetUp,
                Measuring, Slots, pruVars, mainVars, vars
  <2> QED  BY <1>0, <2>1
<1>10. QED
  BY <1>1, <1>2, <1>3, <1>4, <1>5, <1>6, <1>7, <1>8, <1>9 DEF Next, Main, Kill

\* A report is always backed by a complete series of its own round, read
\* after the series was complete: the loop implements module Ranging.
THEOREM LoopKeepsPromise == Spec => KeepsPromise
<1>1. Init => Promise!Init
  BY DEF Init, MainInit, SetUp, Measuring, Promise!Init
<1>2. QED
  BY <1>1, StepRefines, Invariance, PTL DEF Spec, KeepsPromise, Promise!Spec
================================================================================
