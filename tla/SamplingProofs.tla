----------------------------- MODULE SamplingProofs -----------------------------
(***************************************************************************)
(* The safety properties of SAMPLING.cpp, for every number of samples and  *)
(* every sampling period.  They follow from SamplingInv, shown inductive   *)
(* one conjunct at a time.                                                 *)
(***************************************************************************)
EXTENDS Sampling, TLAPS

(* A library call that fails ends main and touches nothing else. *)
LEMMA FailsKeeps ==
  ASSUME NEW at, Fails(at)
  PROVE  pc' = "failed" /\ UNCHANGED <<pru, dram0, value, stored, due, i, samples>>
BY DEF Fails, Goto, pruVars

(* SamplingInv is inductive, conjunct by conjunct. *)
LEMMA SamplingInvInit == Init => SamplingInv
BY PruAssumption
   DEF Init, PruInit, MainInit, SamplingInv, TypeOK, PruTypeOK, PruBooks, Handshake,
       Printed, Label, PruState, Age, Slots

--------------------------------------------------------------------------------
(* The sampler: its types and its books *)

LEMMA SamplerNext == SamplingInv /\ [Next]_vars => PruTypeOK' /\ PruBooks'
<1> SUFFICES ASSUME SamplingInv, [Next]_vars PROVE PruTypeOK' /\ PruBooks'
  OBVIOUS
<1> USE PruAssumption
    DEF SamplingInv, TypeOK, PruTypeOK, PruBooks, PruState, Age, Slots
<1>1. CASE PruActs
  <2>1. CASE Store
    BY <2>1 DEF Store
  <2>2. CASE Publish
    BY <2>2 DEF Publish
  <2> QED  BY <1>1, <2>1, <2>2 DEF PruActs, PruStep
<1>2. CASE New
  BY <1>2, FailsKeeps DEF New, PruNew
<1>3. CASE Config
  BY <1>3, FailsKeeps DEF Config, PruConfig
<1>4. CASE MmStart
  BY <1>4, FailsKeeps DEF MmStart, PruMmStart, Aged
<1>5. CASE Destroy
  BY <1>5 DEF Destroy, PruDestroy
<1>6. CASE Tick
  BY <1>6 DEF Tick, PruTick, PruLetsTimePass
<1>7. CASE UNCHANGED pruVars
  BY <1>7 DEF pruVars
<1>8. QED
  BY <1>1, <1>2, <1>3, <1>4, <1>5, <1>6, <1>7, FailsKeeps
     DEF Next, Main, SetStep, Poll, CopySample, Return, Kill, Restart, vars, pruVars

--------------------------------------------------------------------------------
(* The program: its types, what it may rely on and what it printed *)

LEMMA ProgramTypesNext ==
  SamplingInv /\ [Next]_vars
    => pc' \in Label /\ i' \in 0 .. Samp /\ samples' \in [Slots -> Age]
<1> SUFFICES ASSUME SamplingInv, [Next]_vars
             PROVE  pc' \in Label /\ i' \in 0 .. Samp /\ samples' \in [Slots -> Age]
  OBVIOUS
<1> USE PruAssumption DEF SamplingInv, TypeOK, PruTypeOK, Label, Age, Slots
<1>1. CASE MmStart
  BY <1>1, FailsKeeps DEF MmStart, Aged, Goto
<1>2. CASE CopySample
  BY <1>2 DEF CopySample, Printed
<1>3. CASE New \/ SetStep \/ Config \/ Poll \/ Destroy \/ Return
  BY <1>3, FailsKeeps DEF New, SetStep, Config, Poll, Destroy, Return, Goto
<1>4. CASE Kill \/ Restart \/ UNCHANGED mainVars
  BY <1>4 DEF Kill, Restart, mainVars
<1>5. QED
  BY <1>1, <1>2, <1>3, <1>4 DEF Next, Main, PruActs, Tick, mainVars, vars

LEMMA HandshakeNext == SamplingInv /\ [Next]_vars => Handshake'
<1> SUFFICES ASSUME SamplingInv, [Next]_vars PROVE Handshake'
  OBVIOUS
<1> USE PruAssumption DEF SamplingInv, TypeOK, PruTypeOK, PruBooks, Handshake
<1>1. CASE PruActs
  BY <1>1 DEF PruActs, PruStep, Store, Publish, mainVars
<1>2. CASE New
  BY <1>2, FailsKeeps DEF New, PruNew, Goto
<1>3. CASE Config
  BY <1>3, FailsKeeps DEF Config, PruConfig, Goto
<1>4. CASE MmStart
  BY <1>4, FailsKeeps DEF MmStart, PruMmStart, Goto
<1>5. CASE Poll
  BY <1>5 DEF Poll, Goto, pruVars
<1>6. CASE CopySample
  BY <1>6 DEF CopySample, pruVars
<1>7. CASE SetStep \/ Destroy \/ Return
  BY <1>7, FailsKeeps DEF SetStep, Destroy, Return, Goto, pruVars
<1>8. CASE Tick
  BY <1>8 DEF Tick, mainVars
<1>9. CASE Kill \/ Restart
  BY <1>9 DEF Kill, Restart
<1>10. CASE UNCHANGED vars
  BY <1>10 DEF vars, pruVars, mainVars
<1>11. QED
  BY <1>1, <1>2, <1>3, <1>4, <1>5, <1>6, <1>7, <1>8, <1>9, <1>10 DEF Next, Main

LEMMA PrintedNext == SamplingInv /\ [Next]_vars => Printed'
<1> SUFFICES ASSUME SamplingInv, [Next]_vars PROVE Printed'
  OBVIOUS
<1> USE PruAssumption DEF SamplingInv, TypeOK, PruTypeOK, Slots, Printed
<1>1. CASE Poll
  BY <1>1 DEF Poll, Goto
<1>2. CASE CopySample
  <2>1. value[i] = "new" /\ i < Samp
    BY <1>2 DEF CopySample, PruBooks, Handshake
  <2>2. \A s \in Slots : s < i + 1 => samples'[s] = "new"
    BY <1>2, <2>1 DEF CopySample
  <2> QED  BY <1>2, <2>1, <2>2 DEF CopySample
<1>3. CASE New \/ SetStep \/ Config \/ MmStart \/ Destroy \/ Return \/ Kill \/ Restart
  BY <1>3, FailsKeeps
     DEF New, SetStep, Config, MmStart, Destroy, Return, Kill, Restart, Goto
<1>4. CASE UNCHANGED mainVars
  BY <1>4 DEF mainVars
<1>5. QED
  BY <1>1, <1>2, <1>3, <1>4 DEF Next, Main, PruActs, Tick, mainVars, vars

LEMMA SamplingInvNext == SamplingInv /\ [Next]_vars => SamplingInv'
BY SamplerNext, ProgramTypesNext, HandshakeNext, PrintedNext DEF SamplingInv, TypeOK

--------------------------------------------------------------------------------
(* The theorems *)

\* The invariant holds of every run of the program, of runs after failed and
\* killed ones too.
THEOREM Invariance == Spec => []SamplingInv
BY SamplingInvInit, SamplingInvNext, PTL DEF Spec

\* Every variable keeps its type.
THEOREM TypeCorrect == Spec => []TypeOK
BY Invariance, PTL DEF SamplingInv

\* The sample memory is read, and the driver released, only when the PRU has
\* stopped (SAMPLING.cpp:31-39).
THEOREM MemoryIsQuiet == Spec => []QuietSharedMemory
<1>1. SamplingInv => QuietSharedMemory
  BY DEF SamplingInv, Handshake, QuietSharedMemory, Running
<1>2. QED
  BY <1>1, Invariance, PTL

--------------------------------------------------------------------------------
(* The program implements module Ranging *)

\* The mapped state, by name.
Phase   == IF Measuring THEN "measuring" ELSE IF pc \in {"mmStart", "return"} THEN "idle" ELSE "down"
Sampled == IF Measuring THEN {s \in Slots : value[s] = "new"} ELSE {}
Got     == IF Measuring THEN {s \in Slots : samples[s] = "new"} ELSE {}

(* A step to the end of a run is the promise's Stop. *)
LEMMA StopRefines ==
  ASSUME pc' \in {"returned", "failed", "killed"}
  PROVE  [Promise!Next]_(Promise!rangingVars)
<1>1. Phase' = "down" /\ Sampled' = {} /\ Got' = {}
  BY DEF Phase, Sampled, Got, Measuring
<1>2. CASE Phase = "down"
  <2>1. Sampled = {} /\ Got = {}
    BY <1>2 DEF Phase, Sampled, Got, Measuring
  <2> QED  BY <1>1, <1>2, <2>1 DEF Phase, Sampled, Got, Promise!rangingVars
<1>3. CASE Phase # "down"
  BY <1>1, <1>3 DEF Phase, Sampled, Got, Promise!Next, Promise!Stop
<1>4. QED
  BY <1>2, <1>3

(* Every step is one of Ranging or a stutter. *)
LEMMA StepRefines ==
  SamplingInv /\ [Next]_vars => [Promise!Next]_(Promise!rangingVars)
<1> SUFFICES ASSUME SamplingInv, [Next]_vars
             PROVE  [Promise!Next]_(Promise!rangingVars)
  OBVIOUS
<1> DEFINE Ended   == pc' \in {"returned", "failed", "killed"}
           Stutter == UNCHANGED <<Phase, Sampled, Got>>
<1>0. ASSUME Stutter PROVE [Promise!Next]_(Promise!rangingVars)
  BY <1>0 DEF Phase, Sampled, Got, Promise!rangingVars
<1>1. CASE Ended
  BY <1>1, StopRefines
<1>2. CASE ~Ended /\ Config
  BY <1>2, FailsKeeps
     DEF Config, Goto, Measuring, Promise!Next, Promise!Recover
<1>3. CASE ~Ended /\ MmStart
  <2>1. Phase = "idle" /\ Phase' = "measuring"
    BY <1>3, FailsKeeps DEF MmStart, Goto, Phase, Measuring
  <2>2. Sampled' = {} /\ Got' = {}
    BY <1>3, FailsKeeps
       DEF MmStart, PruMmStart, Goto, Sampled, Got, Aged, SamplingInv, TypeOK, PruTypeOK
  <2> QED  BY <2>1, <2>2 DEF Phase, Sampled, Got, Promise!Next, Promise!Begin
<1>4. CASE CopySample
  <2>1. Phase = "measuring" /\ Phase' = "measuring" /\ Sampled' = Sampled
    BY <1>4 DEF CopySample, pruVars, Phase, Sampled, Measuring, Slots
  <2>2. Sampled = Slots /\ i \in Slots /\ value[i] = "new"
    BY <1>4, PruAssumption
       DEF CopySample, Sampled, Measuring, SamplingInv, TypeOK, PruTypeOK, PruBooks,
           Handshake, Printed, Slots
  <2>3. Got' = Got \union {i}
    BY <1>4, <2>2 DEF CopySample, Got, Measuring, SamplingInv, TypeOK
  <2>4. CASE i \in Got
    BY <1>0, <2>1, <2>3, <2>4
  <2>5. CASE i \notin Got
    BY <2>1, <2>2, <2>3, <2>5
       DEF Phase, Sampled, Got, Slots, Promise!Next, Promise!Read, Promise!AllSlots
  <2> QED  BY <2>4, <2>5
<1>5. CASE Destroy
  <2>1. Phase = "measuring" /\ Phase' = "idle" /\ Sampled' = {} /\ Got' = {}
    BY <1>5 DEF Destroy, Goto, Phase, Sampled, Got, Measuring
  <2>2. Got = Slots
    BY <1>5 DEF Destroy, Goto, Got, Measuring, SamplingInv, Printed
  <2> QED
    BY <2>1, <2>2
       DEF Phase, Sampled, Got, Slots, Promise!Next, Promise!ReportRound, Promise!AllSlots
<1>6. CASE PruActs
  <2>1. Phase' = Phase /\ Got' = Got
    BY <1>6 DEF PruActs, mainVars, Phase, Got, Measuring
  <2>2. CASE ~Measuring \/ Publish
    BY <1>0, <1>6, <2>1, <2>2 DEF PruActs, Publish, mainVars, Sampled, Measuring, Slots
  <2>3. CASE Measuring /\ Store
    <3>1. stored \in Slots
      BY <2>3, PruAssumption DEF Store, SamplingInv, TypeOK, PruTypeOK, PruBooks, Slots
    <3>2. Sampled' = Sampled \union {stored}
      BY <1>6, <2>3, <3>1
         DEF PruActs, Store, mainVars, Sampled, Measuring, SamplingInv, TypeOK, PruTypeOK
    <3>3. CASE stored \in Sampled
      BY <1>0, <2>1, <3>2, <3>3
    <3>4. CASE stored \notin Sampled
      <4>1. Phase = "measuring"
        BY <2>3 DEF Phase
      <4> QED
        BY <2>1, <3>1, <3>2, <3>4, <4>1
           DEF Phase, Sampled, Got, Slots, Promise!Next, Promise!Take, Promise!AllSlots
    <3> QED  BY <3>3, <3>4
  <2> QED  BY <1>6, <2>2, <2>3 DEF PruActs, PruStep
<1>7. CASE (~Ended /\ (New \/ SetStep)) \/ Restart
  <2>1. Stutter
    BY <1>7, FailsKeeps
       DEF New, SetStep, Restart, Down, Goto, Phase, Sampled, Got, Measuring
  <2> QED  BY <1>0, <2>1
<1>8. CASE Poll \/ Tick \/ UNCHANGED vars
  <2>1. Stutter
    BY <1>8 DEF Poll, Tick, Goto, Phase, Sampled, Got, Measuring, Slots, pruVars, mainVars, vars
  <2> QED  BY <1>0, <2>1
<1>9. CASE Return \/ Kill
  BY <1>1, <1>9 DEF Return, Kill, Goto
<1>10. QED
  BY <1>1, <1>2, <1>3, <1>4, <1>5, <1>6, <1>7, <1>8, <1>9 DEF Next, Main

\* A run that ends well has printed the complete series of its own
\* measurement: the program implements module Ranging.
THEOREM SamplerKeepsPromise == Spec => KeepsPromise
<1>1. Init => Promise!Init
  BY DEF Init, MainInit, Measuring, Promise!Init
<1>2. QED
  BY <1>1, StepRefines, Invariance, PTL DEF Spec, KeepsPromise, Promise!Spec
================================================================================
