---------------------------------- MODULE Pru ----------------------------------
(***************************************************************************)
(* The analog sampler that localization.cpp and SAMPLING.cpp drive through *)
(* libpruio: a BeagleBone PRU that runs beside the ARM program and shares  *)
(* two pieces of memory with it, the counter io->DRam[0] and the sample    *)
(* buffer io->Adc->Value.  The library is not part of the repository; the  *)
(* module says what the two programs rely on.                              *)
(*                                                                         *)
(* The data of a sample is not modelled, only its age: "new" if it was     *)
(* taken since the latest pruio_mm_start, "old" if it was taken before     *)
(* that, "none" if the slot was never written.  Relative ages keep the     *)
(* state finite over any number of measurements.                           *)
(***************************************************************************)
EXTENDS Integers

CONSTANTS
  Samp,   \* samples per measurement (the programs' samp)
  Tmr     \* time units between two samples (their tmr)

ASSUME PruAssumption == Samp \in Nat \ {0, 1} /\ Tmr \in Nat \ {0}

VARIABLES
  pru,     \* what the driver and the PRU are doing
  dram0,   \* io->DRam[0], written by both sides
  value,   \* io->Adc->Value, the age of each slot
  stored,  \* the PRU's own count of samples stored in this measurement
  due      \* time units until the next conversion completes

pruVars == <<pru, dram0, value, stored, due>>

Slots == 0 .. Samp - 1
Age   == {"none", "old", "new"}

\* "absent": no driver; "idle": created; "ready": configured;
\* "sampling": a conversion is under way; "publishing": a sample is stored
\* but not yet counted in DRam[0]; "done": the measurement is complete.
PruState == {"absent", "idle", "ready", "sampling", "publishing", "done"}
Running  == pru \in {"sampling", "publishing"}

Aged(age) == IF age = "new" THEN "old" ELSE age

PruTypeOK ==
  /\ pru    \in PruState
  /\ dram0  \in 0 .. Samp
  /\ value  \in [Slots -> Age]
  /\ stored \in 0 .. Samp
  /\ due    \in 0 .. Tmr

PruInit ==
  /\ pru = "absent" /\ dram0 = 0 /\ stored = 0 /\ due = 0
  /\ value = [s \in Slots |-> "none"]

--------------------------------------------------------------------------------
(* Calls of the ARM program *)

\* Mutant of PruNew: the counter survives.
PruNewKeepsCounter ==
  /\ pru' = "idle" /\ stored' = 0 /\ due' = 0
  /\ UNCHANGED <<dram0, value>>

\* pruio_new stops whatever the PRU was running and clears its registers;
\* the sample memory keeps what an earlier process left there.
PruNew ==
  /\ pru' = "idle" /\ dram0' = 0 /\ stored' = 0 /\ due' = 0
  /\ UNCHANGED value

\* pruio_config makes the sampler ready, abandoning a measurement under way.
\* The programs do not rely on what it does to the counter.
PruConfig ==
  /\ pru' = "ready" /\ stored' = 0 /\ due' = 0
  /\ dram0' \in {dram0, 0}
  /\ UNCHANGED value

\* pruio_mm_start without a trigger: sampling begins at once, from slot 0.
\* It may or may not clear the counter.
PruMmStart ==
  /\ pru' = "sampling" /\ stored' = 0 /\ due' = Tmr
  /\ dram0' \in {dram0, 0}
  /\ value' = [s \in Slots |-> Aged(value[s])]

\* pruio_destroy halts the PRU and releases the driver.
PruDestroy ==
  /\ pru' = "absent" /\ stored' = 0 /\ due' = 0
  /\ UNCHANGED <<dram0, value>>

--------------------------------------------------------------------------------
(* The PRU's own steps *)

\* A conversion completes and its sample goes to the next slot.
Store ==
  /\ pru = "sampling" /\ due = 0
  /\ value'  = [value EXCEPT ![stored] = "new"]
  /\ stored' = stored + 1
  /\ pru'    = "publishing"
  /\ UNCHANGED <<dram0, due>>

\* The stored sample is counted; after the last one the PRU stops.
Publish ==
  /\ pru = "publishing"
  /\ dram0' = stored
  /\ \/ stored < Samp /\ pru' = "sampling" /\ due' = Tmr
     \/ stored = Samp /\ pru' = "done"     /\ due' = 0
  /\ UNCHANGED <<value, stored>>

PruStep == Store \/ Publish

\* The PRU is hard real time: time does not pass a conversion that is due.
PruLetsTimePass == pru # "publishing" /\ ~(pru = "sampling" /\ due = 0)
PruTick         == due' = IF pru = "sampling" THEN due - 1 ELSE due
--------------------------------------------------------------------------------
\* The PRU's books, whatever the program does: part of the invariants of
\* Localization and Sampling.
PruBooks ==
  /\ pru \in {"absent", "idle", "ready"} => stored = 0
  /\ pru = "sampling"   => stored < Samp
  /\ pru = "publishing" => stored > 0
  /\ pru = "done"       => stored = Samp
  /\ pru # "sampling"   => due = 0
  /\ \A s \in Slots : s < stored => value[s] = "new"
================================================================================
