-------------------------------- MODULE Ranging --------------------------------
(***************************************************************************)
(* What a measuring program promises, whatever sampler it uses: it works   *)
(* in rounds; a round gathers one sample per slot, each of them taken in   *)
(* that round, reads them once the series is complete, and only then       *)
(* reports; a round that is cut short reports nothing and leaves nothing   *)
(* behind for the next one.  Localization and Sampling implement this      *)
(* module.                                                                 *)
(***************************************************************************)
EXTENDS Integers

CONSTANT Samp

VARIABLES
  phase,    \* "down", "idle" or "measuring"
  sampled,  \* the PRU-side slots that hold a sample of this round
  got       \* the slots of the buffer that hold a sample of this round

rangingVars == <<phase, sampled, got>>

AllSlots == 0 .. Samp - 1

Init == phase = "down" /\ sampled = {} /\ got = {}

Recover ==
  /\ phase = "down"
  /\ phase' = "idle" /\ UNCHANGED <<sampled, got>>

Begin ==
  /\ phase = "idle"
  /\ phase' = "measuring" /\ sampled' = {} /\ got' = {}

\* The sampler takes one more sample.
Take ==
  /\ phase = "measuring"
  /\ \E s \in AllSlots \ sampled : sampled' = sampled \union {s}
  /\ UNCHANGED <<phase, got>>

\* A sample is read, once the sampler has finished the whole series.
Read ==
  /\ phase = "measuring" /\ sampled = AllSlots
  /\ \E s \in AllSlots \ got : got' = got \union {s}
  /\ UNCHANGED <<phase, sampled>>

\* The round ends with its report.
ReportRound ==
  /\ phase = "measuring" /\ got = AllSlots
  /\ phase' = "idle" /\ sampled' = {} /\ got' = {}

\* The program stops, at any point.
Stop ==
  /\ phase # "down"
  /\ phase' = "down" /\ sampled' = {} /\ got' = {}

Next == Recover \/ Begin \/ Take \/ Read \/ ReportRound \/ Stop

Spec == Init /\ [][Next]_rangingVars
================================================================================
