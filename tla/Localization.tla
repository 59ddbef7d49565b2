------------------------------ MODULE Localization ------------------------------
(***************************************************************************)
(* localization.cpp: a program that measures forever.  Each round starts   *)
(* the sampler, polls DRam[0] until all samples are there, copies them out *)
(* of shared memory, resets the counter, correlates the buffer with the    *)
(* reference chirp, prints the distance, configures the sampler again and  *)
(* sleeps for what is left of the period.  The PRU runs concurrently       *)
(* (module Pru); a round can fail in any library call, and the only way    *)
(* the loop ends otherwise is that somebody kills the process, which then  *)
(* leaves the PRU as it is.                                                *)
(*                                                                         *)
(* The correlation is reduced to the choice of an index (modules           *)
(* CrossCorrelation and PeakSearch model it), a sample to its age and to   *)
(* how often the ADC offset was subtracted from it.                        *)
(***************************************************************************)
EXTENDS Pru

CONSTANTS
  Period,   \* the intended time between two rounds (4 s in the code)
  Second,   \* one second
  MaxExec   \* bound: time units a round may lose outside its two waits

ASSUME LocalizationAssumption ==
  Period \in Nat /\ Second \in Nat \ {0} /\ MaxExec \in Nat

VARIABLES
  pc,       \* the next statement of main
  i,        \* index of the copying loop
  samples,  \* the local buffer: age and number of offset subtractions
  index,    \* position of the correlation peak
  tof,      \* time of flight reported, in 1/(Samp-1) time units
  elapsed,  \* time since the round's start was recorded
  wait,     \* what is left of the sleep
  exec      \* time lost outside the waits in this round

mainVars == <<pc, i, samples, index, tof, elapsed, wait, exec>>
vars     == <<pruVars, mainVars>>

Label == {"new", "setStep", "config", "start", "mmStart", "poll", "copy",
          "reset", "offset", "correlate", "report", "reconfig", "elapsed",
          "sleep", "returned", "killed"}
Down  == pc \in {"returned", "killed"}
SetUp == pc \in {"new", "setStep", "config"}

\* The buffer of a process that has not copied anything.
Untouched == [s \in Slots |-> [age |-> "none", dc |-> 0]]

MainInit ==
  /\ pc = "new" /\ i = 0 /\ index = 0 /\ tof = 0
  /\ elapsed = 0 /\ wait = 0 /\ exec = 0
  /\ samples = Untouched

Init == PruInit /\ MainInit

Goto(from, to) == pc = from /\ pc' = to

\* A library call reports an error: main prints it and returns 1, without
\* pruio_destroy.
Fails(at) ==
  /\ Goto(at, "returned")
  /\ UNCHANGED <<pruVars, i, samples, index, tof, elapsed, wait, exec>>
--------------------------------------------------------------------------------
(* Before the loop *)

New ==
  \/ /\ Goto("new", "setStep")
     /\ PruNew
     /\ UNCHANGED <<i, samples, index, tof, elapsed, wait, exec>>
  \/ Fails("new")

SetStep ==
  \/ /\ Goto("setStep", "config")
     /\ UNCHANGED <<pruVars, i, samples, index, tof, elapsed, wait, exec>>
  \/ Fails("setStep")

Config ==
  \/ /\ Goto("config", "start")
     /\ PruConfig
     /\ UNCHANGED <<i, samples, index, tof, elapsed, wait, exec>>
  \/ Fails("config")

--------------------------------------------------------------------------------
(* One round *)

\* start = steady_clock::now()
Start ==
  /\ Goto("start", "mmStart")
  /\ elapsed' = 0 /\ exec' = 0
  /\ UNCHANGED <<pruVars, i, samples, index, tof, wait>>

\* A new measurement; with it what the buffer holds becomes old.
MmStart ==
  \/ /\ Goto("mmStart", "poll")
     /\ PruMmStart
     /\ samples' = [s \in Slots |-> [samples[s] EXCEPT !.age = Aged(@)]]
     /\ UNCHANGED <<i, index, tof, elapsed, wait, exec>>
  \/ Fails("mmStart")

\* Mutants of Poll: leaving the loop one sample early, or never.
PollEarly ==
  /\ Goto("poll", "copy")
  /\ dram0 >= Samp - 1
  /\ i' = 0
  /\ UNCHANGED <<pruVars, samples, index, tof, elapsed, wait, exec>>

PollPastEnd ==
  /\ Goto("poll", "copy")
  /\ dram0 > Samp
  /\ i' = 0
  /\ UNCHANGED <<pruVars, samples, index, tof, elapsed, wait, exec>>

\* The loop on DRam[0] ends; while the counter is short of samp, main only
\* sleeps and reads it again.
Poll ==
  /\ Goto("poll", "copy")
  /\ dram0 >= Samp
  /\ i' = 0
  /\ UNCHANGED <<pruVars, samples, index, tof, elapsed, wait, exec>>

CopySample ==
  /\ pc = "copy"
  /\ samples' = [samples EXCEPT ![i] = [age |-> value[i], dc |-> 0]]
  /\ i' = i + 1
  /\ pc' = IF i + 1 < Samp THEN "copy" ELSE "reset"
  /\ UNCHANGED <<pruVars, index, tof, elapsed, wait, exec>>

\* Mutant of Reset: the counter keeps its final value.
ResetForgotten ==
  /\ Goto("reset", "offset")
  /\ UNCHANGED <<pruVars, i, samples, index, tof, elapsed, wait, exec>>

\* io->DRam[0] = 0: the ARM side writes the shared counter.
Reset ==
  /\ Goto("reset", "offset")
  /\ dram0' = 0
  /\ UNCHANGED <<pru, value, stored, due>>
  /\ UNCHANGED <<i, samples, index, tof, elapsed, wait, exec>>

\* samples[i] = samples[i] - 2048
Offset ==
  /\ Goto("offset", "correlate")
  /\ samples' = [s \in Slots |-> [samples[s] EXCEPT !.dc = @ + 1]]
  /\ UNCHANGED <<pruVars, i, index, tof, elapsed, wait, exec>>

Correlate ==
  /\ Goto("correlate", "report")
  /\ index' \in Slots
  /\ UNCHANGED <<pruVars, i, samples, tof, elapsed, wait, exec>>

\* Mutant of Report: MATLAB's one-based index in C.
ReportOneBased ==
  /\ Goto("report", "reconfig")
  /\ tof' = (index + 1) * Second
  /\ UNCHANGED <<pruVars, i, samples, index, elapsed, wait, exec>>

\* tof = index / (samp - 1) seconds; prints it and releases the plans.
Report ==
  /\ Goto("report", "reconfig")
  /\ tof' = index * Second
  /\ UNCHANGED <<pruVars, i, samples, index, elapsed, wait, exec>>

Reconfig ==
  \/ /\ Goto("reconfig", "elapsed")
     /\ PruConfig
     /\ UNCHANGED <<i, samples, index, tof, elapsed, wait, exec>>
  \/ Fails("reconfig")

\* Mutants of Elapsed: a sleep that ignores the execution time, a negative
\* sleep, no sleep at all.
ElapsedIgnored ==
  /\ Goto("elapsed", "sleep")
  /\ wait' = Period
  /\ UNCHANGED <<pruVars, i, samples, index, tof, elapsed, exec>>

ElapsedUnguarded ==
  /\ Goto("elapsed", "sleep")
  /\ wait' = Period - elapsed
  /\ UNCHANGED <<pruVars, i, samples, index, tof, elapsed, exec>>

ElapsedNoSleep ==
  /\ Goto("elapsed", "start")
  /\ UNCHANGED <<pruVars, i, samples, index, tof, elapsed, wait, exec>>

\* wait_time = 4 s - elapsed; sleep only if it is positive.
Elapsed ==
  /\ pc = "elapsed"
  /\ wait' = IF Period - elapsed > 0 THEN Period - elapsed ELSE 0
  /\ pc' = IF Period - elapsed > 0 THEN "sleep" ELSE "start"
  /\ UNCHANGED <<pruVars, i, samples, index, tof, elapsed, exec>>

Wake ==
  /\ Goto("sleep", "start")
  /\ wait = 0
  /\ UNCHANGED <<pruVars, i, samples, index, tof, elapsed, wait, exec>>
--------------------------------------------------------------------------------
(* The environment: the user, and time *)

\* The process is interrupted; the PRU and its memory stay as they are.
Kill ==
  /\ ~Down
  /\ pc' = "killed"
  /\ UNCHANGED <<pruVars, i, samples, index, tof, elapsed, wait, exec>>

\* The program is run again: a new process, the same PRU.
Restart ==
  /\ Down
  /\ pc' = "new" /\ i' = 0 /\ index' = 0 /\ tof' = 0
  /\ elapsed' = 0 /\ wait' = 0 /\ exec' = 0
  /\ samples' = Untouched
  /\ UNCHANGED pruVars

\* main is in usleep with samples missing, or in sleep_for.
Waiting == (pc = "poll" /\ dram0 < Samp) \/ (pc = "sleep" /\ wait > 0)

\* Time passes freely while main waits (or is not running); in a round it
\* otherwise passes for MaxExec units at most.
Tick ==
  /\ PruLetsTimePass /\ PruTick
  /\ UNCHANGED <<pru, dram0, value, stored, pc, i, samples, index, tof>>
  /\ \/ /\ Down \/ SetUp
        /\ UNCHANGED <<elapsed, wait, exec>>
     \/ /\ ~Down /\ ~SetUp
        /\ elapsed' = elapsed + 1
        /\ \/ Waiting  /\ exec' = exec
           \/ ~Waiting /\ exec < MaxExec /\ exec' = exec + 1
        /\ wait' = IF pc = "sleep" /\ wait > 0 THEN wait - 1 ELSE wait

Main ==
  \/ New \/ SetStep \/ Config
  \/ Start \/ MmStart \/ Poll \/ CopySample \/ Reset \/ Offset
  \/ Correlate \/ Report \/ Reconfig \/ Elapsed \/ Wake

PruActs == PruStep /\ UNCHANGED mainVars

Next == Main \/ PruActs \/ Tick \/ Kill \/ Restart

Spec == Init /\ [][Next]_vars

\* The ARM program keeps being scheduled, the PRU keeps converting, time
\* does not stop.  Nobody has to kill or restart the program.
Fairness == WF_vars(Main) /\ WF_vars(PruActs) /\ WF_vars(Tick)

FairSpec == Spec /\ Fairness

--------------------------------------------------------------------------------
(* Properties *)

\* Every variable has its type.
TypeOK ==
  /\ PruTypeOK
  /\ pc \in Label
  /\ i \in 0 .. Samp
  /\ samples \in [Slots -> [age : Age, dc : {0, 1}]]
  /\ index \in Slots /\ tof \in Nat
  /\ elapsed \in Nat /\ wait \in 0 .. Period /\ exec \in 0 .. MaxExec

\* The buffer that is correlated holds samples of this round only, each with
\* the ADC offset subtracted exactly once (localization.cpp:48-63).  The
\* counter that says so is written by both sides and survives rounds,
\* reconfigurations and killed processes.
FreshBuffer ==
  pc \in {"correlate", "report"} =>
    \A s \in Slots : samples[s] = [age |-> "new", dc |-> 1]

\* Whenever main is about to read the sample memory, write DRam[0],
\* configure or start the sampler, the PRU is not running: neither side
\* touches the shared memory under the other's hands (lines 42-59, 133).
QuietSharedMemory ==
  pc \in {"copy", "reset", "reconfig", "mmStart"} => ~Running

\* Every pruio_mm_start finds the sampler configured for it and the counter
\* at zero, so that the polling loop cannot take the previous round's count
\* for this one's (lines 33, 43, 59, 133).
StartsClean == pc = "mmStart" => pru = "ready" /\ dram0 = 0

LoopsBack == pc \in {"elapsed", "sleep"} /\ pc' = "start"
Longer    == IF Period > Samp * Tmr THEN Period ELSE Samp * Tmr

\* A round lasts at least the period, and at least the sampling time
\* (lines 40, 139-148).
SpacingAtLeast == [][LoopsBack => elapsed >= Longer]_vars

\* The sleep absorbs the execution time: a round is late by no more than
\* what it lost outside its waits (lines 139-148).
SpacingAtMost == [][LoopsBack => elapsed <= Longer + MaxExec]_vars

\* The time of flight is the peak's index times the sampling period, to
\* within one sample; both sides are multiplied by Samp - 1, the divisor of
\* line 119.
TofWithinOneSample ==
  pc = "reconfig" =>
    LET error == tof - index * Tmr * (Samp - 1)
        one   == Tmr * (Samp - 1)
    IN  -one <= error /\ error <= one

\* Unless it stops, the program reports again and again: no round hangs in
\* the polling loop, which has no timeout, as long as the PRU keeps sampling
\* (lines 38-50).
KeepsMeasuring == []<>(pc = "report" \/ Down)

\* The rounds of module Ranging, seen in this program: between pruio_mm_start
\* and the report a round is under way.
Measuring == pc \in {"poll", "copy", "reset", "offset", "correlate", "report"}

Promise == INSTANCE Ranging WITH
  phase   <- IF Down \/ SetUp THEN "down" ELSE IF Measuring THEN "measuring" ELSE "idle",
  sampled <- IF Measuring THEN {s \in Slots : value[s] = "new"} ELSE {},
  got     <- IF Measuring THEN {s \in Slots : samples[s].age = "new"} ELSE {}

\* localization.cpp keeps the promise of module Ranging: a report is backed
\* by a complete series of its own round, read after the series was complete.
KeepsPromise == Promise!Spec

--------------------------------------------------------------------------------
(* Why the safety properties hold: an inductive invariant *)

\* What each side may rely on at each statement of main.
Handshake ==
  /\ pc \in {"setStep", "config"} => pru = "idle" /\ dram0 = 0
  /\ pc \in {"start", "mmStart", "elapsed", "sleep"} => pru = "ready" /\ dram0 = 0
  /\ pc = "poll" =>
       /\ pru \in {"sampling", "publishing", "done"}
       /\ dram0 = IF pru = "publishing" THEN stored - 1 ELSE stored
  /\ pc \in {"copy", "reset"} => pru = "done" /\ dram0 = Samp
  /\ pc \in {"offset", "correlate", "report", "reconfig"} =>
       pru = "done" /\ dram0 = 0

\* What the buffer holds between the copying loop and the correlation.
Filled(s, n) == samples[s] = [age |-> "new", dc |-> n]

Buffer ==
  /\ pc = "copy" => i < Samp /\ \A s \in Slots : s < i => Filled(s, 0)
  /\ pc \in {"reset", "offset"} => \A s \in Slots : Filled(s, 0)
  /\ pc \in {"correlate", "report"} => \A s \in Slots : Filled(s, 1)

\* Where the time of a round went: to the conversions, to the sleep, or it
\* was lost.
Timing ==
  /\ pc = "mmStart" => elapsed = exec
  /\ pc = "poll" =>
       elapsed = exec + stored * Tmr + (IF pru = "sampling" THEN Tmr - due ELSE 0)
  /\ pc \in {"copy", "reset", "offset", "correlate", "report", "reconfig", "elapsed"} =>
       elapsed = exec + Samp * Tmr
  /\ pc = "sleep" =>
       /\ elapsed >= Samp * Tmr
       /\ Period <= elapsed + wait
       /\ elapsed + wait <= Period + exec

\* The inductive invariant behind TypeOK, FreshBuffer, QuietSharedMemory,
\* StartsClean, SpacingAtLeast and SpacingAtMost.
RoundInv == TypeOK /\ PruBooks /\ Handshake /\ Buffer /\ Timing
================================================================================
