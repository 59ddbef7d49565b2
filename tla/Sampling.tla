-------------------------------- MODULE Sampling --------------------------------
(***************************************************************************)
(* SAMPLING.cpp: the one-shot program that tries the sampler out.  It      *)
(* starts one measurement, polls DRam[0] until all samples are there,      *)
(* prints them out of the shared memory and releases the driver.  It never *)
(* writes DRam[0].  Whoever runs it runs it again, also after it failed or *)
(* was killed half way with the PRU still sampling.                        *)
(***************************************************************************)
EXTENDS Pru

VARIABLES
  pc,      \* the next statement of main
  i,       \* index of the printing loop
  samples  \* the local buffer: the age of each sample

mainVars == <<pc, i, samples>>
vars     == <<pruVars, mainVars>>

Label == {"new", "setStep", "config", "mmStart", "poll", "copy", "destroy",
          "return", "returned", "failed", "killed"}
Down  == pc \in {"returned", "failed", "killed"}

MainInit == pc = "new" /\ i = 0 /\ samples = [s \in Slots |-> "none"]

Init == PruInit /\ MainInit

Goto(from, to) == pc = from /\ pc' = to

\* A library call reports an error: main returns 1 without pruio_destroy.
Fails(at) == Goto(at, "failed") /\ UNCHANGED <<pruVars, i, samples>>

New ==
  \/ Goto("new", "setStep") /\ PruNew /\ UNCHANGED <<i, samples>>
  \/ Fails("new")

SetStep ==
  \/ Goto("setStep", "config") /\ UNCHANGED <<pruVars, i, samples>>
  \/ Fails("setStep")

Config ==
  \/ Goto("config", "mmStart") /\ PruConfig /\ UNCHANGED <<i, samples>>
  \/ Fails("config")

\* A new measurement; with it what the buffer holds becomes old.
MmStart ==
  \/ /\ Goto("mmStart", "poll")
     /\ PruMmStart
     /\ samples' = [s \in Slots |-> Aged(samples[s])]
     /\ UNCHANGED i
  \/ Fails("mmStart")

\* Mutant of Poll: the loop ends at the second last sample.
PollEarly ==
  /\ Goto("poll", "copy")
  /\ dram0 >= Samp - 1
  /\ i' = 0
  /\ UNCHANGED <<pruVars, samples>>

\* Mutant of Poll: the loop waits for one sample too many.
PollPastEnd ==
  /\ Goto("poll", "copy")
  /\ dram0 > Samp
  /\ i' = 0
  /\ UNCHANGED <<pruVars, samples>>

\* The loop on DRam[0] ends.
Poll ==
  /\ Goto("poll", "copy")
  /\ dram0 >= Samp
  /\ i' = 0
  /\ UNCHANGED <<pruVars, samples>>

\* One sample is copied and printed.
CopySample ==
  /\ pc = "copy"
  /\ samples' = [samples EXCEPT ![i] = value[i]]
  /\ i' = i + 1
  /\ pc' = IF i + 1 < Samp THEN "copy" ELSE "destroy"
  /\ UNCHANGED pruVars

\* pruio_destroy, only on this path.
Destroy ==
  /\ Goto("destroy", "return")
  /\ PruDestroy
  /\ UNCHANGED <<i, samples>>

Return ==
  /\ Goto("return", "returned")
  /\ UNCHANGED <<pruVars, i, samples>>

--------------------------------------------------------------------------------
(* The environment *)

Kill == ~Down /\ pc' = "killed" /\ UNCHANGED <<pruVars, i, samples>>

Restart ==
  /\ Down
  /\ pc' = "new" /\ i' = 0 /\ samples' = [s \in Slots |-> "none"]
  /\ UNCHANGED pruVars

\* Time passes at its own pace, whatever main does.
Tick ==
  /\ PruLetsTimePass /\ PruTick
  /\ UNCHANGED <<pru, dram0, value, stored, mainVars>>

Main == New \/ SetStep \/ Config \/ MmStart \/ Poll \/ CopySample \/ Destroy \/ Return

PruActs == PruStep /\ UNCHANGED mainVars

Next == Main \/ PruActs \/ Tick \/ Kill \/ Restart

Spec == Init /\ [][Next]_vars

\* The program keeps being scheduled, the PRU keeps converting, and time does
\* not stop while a conversion is under way.
Fairness == WF_vars(Main) /\ WF_vars(PruActs) /\ WF_vars(Tick)

FairSpec == Spec /\ Fairness

--------------------------------------------------------------------------------
(* Properties *)

\* Every variable has its type.
TypeOK ==
  /\ PruTypeOK
  /\ pc \in Label
  /\ i \in 0 .. Samp
  /\ samples \in [Slots -> Age]

\* Main reads the sample memory and releases the driver only while the PRU
\* is not writing (SAMPLING.cpp:31-39).
QuietSharedMemory == pc \in {"copy", "destroy"} => ~Running

\* A measurement that was started ends: the polling loop, which has no
\* timeout, does not hang while the PRU keeps sampling (lines 31-33).
MeasurementEnds == (pc = "poll") ~> Down

\* The rounds of module Ranging: one per run, from pruio_mm_start to
\* pruio_destroy.
Measuring == pc \in {"poll", "copy", "destroy"}

Promise == INSTANCE Ranging WITH
  phase   <- IF Measuring THEN "measuring"
             ELSE IF pc \in {"mmStart", "return"} THEN "idle" ELSE "down",
  sampled <- IF Measuring THEN {s \in Slots : value[s] = "new"} ELSE {},
  got     <- IF Measuring THEN {s \in Slots : samples[s] = "new"} ELSE {}

\* SAMPLING.cpp keeps the promise of module Ranging: what it prints before it
\* ends is the complete series of this run, although it never resets the
\* counter that an earlier run left in DRam[0].
KeepsPromise == Promise!Spec

--------------------------------------------------------------------------------
(* Why the safety properties hold: an inductive invariant *)

\* What each side may rely on at each statement of main.  The counter is
\* cleared by pruio_new alone, and by nobody after the measurement.
Handshake ==
  /\ pc \in {"setStep", "config"} => pru = "idle" /\ dram0 = 0
  /\ pc = "mmStart" => pru = "ready" /\ dram0 = 0
  /\ pc = "poll" =>
       /\ pru \in {"sampling", "publishing", "done"}
       /\ dram0 = IF pru = "publishing" THEN stored - 1 ELSE stored
  /\ pc \in {"copy", "destroy"} => pru = "done"

\* What was printed is new.
Printed ==
  /\ pc = "copy" => i < Samp /\ \A s \in Slots : s < i => samples[s] = "new"
  /\ pc = "destroy" => \A s \in Slots : samples[s] = "new"

SamplingInv == TypeOK /\ PruBooks /\ Handshake /\ Printed
================================================================================
