------------------------------ MODULE LatencyTest ------------------------------
(***************************************************************************)
(* radio/latency_test/latency_test.ino: one packet is sent in setup, and   *)
(* loop prints, for every packet that is received, the time since then.    *)
(* start and end are int, 16 bits on an AVR, micros() counts in 32.        *)
(***************************************************************************)
EXTENDS Board

CONSTANT IntRange  \* number of ints (2^16)

ASSUME LatencyAssumption ==
  /\ IntRange \in Nat \ {0} /\ IntRange % 2 = 0
  /\ Wrap % IntRange = 0

VARIABLES
  start, end,
  printed     \* the last delay that was printed

latencyVars == <<start, end, printed>>

Int16 == -(IntRange \div 2) .. IntRange \div 2 - 1

\* What an int holds after x was assigned to it.
ToInt16(x) == CHOOSE y \in Int16 : (x - y) % IntRange = 0

LatencyInit ==
  /\ pc = "setup" /\ BoardInit
  /\ start = 0 /\ end = 0 /\ printed = 0

\* The packet has been sent (whether or not the driver could be initialised).
Setup ==
  /\ Goto("setup", "loop")
  /\ start' = ToInt16(micros) /\ age' = 0
  /\ UNCHANGED <<micros, end, printed>>

\* recv has nothing.
Nothing ==
  /\ pc = "loop"
  /\ \E d \in 1 .. MaxStep : age + d <= MaxAge /\ Elapse(age, d)
  /\ UNCHANGED <<pc, latencyVars>>

\* Mutant of Received: the difference is taken of the counter, not of an int.
ReceivedLong ==
  /\ Goto("loop", "print")
  /\ end' = ToInt16(micros)
  /\ printed' = micros - start
  /\ UNCHANGED <<micros, age, start>>

\* recv has a packet, of this or of any other sender.
Received ==
  /\ Goto("loop", "print")
  /\ end' = ToInt16(micros)
  /\ printed' = ToInt16(end' - start)
  /\ UNCHANGED <<micros, age, start>>

\* It is printed; start remains.
PrintMessage ==
  /\ Goto("print", "loop")
  /\ UNCHANGED <<micros, age, latencyVars>>

LatencyNext == Setup \/ Nothing \/ Received \/ PrintMessage

--------------------------------------------------------------------------------
(* Properties *)

\* A delay below half the range of an int (32 ms) is printed right, wherever
\* the counter and the ints wrap in it; a longer one is printed short by a
\* multiple of the range, for a packet after the first the time since the
\* first was sent (lines 24, 33-36).
DelayUpToRange ==
  pc = "print" =>
    /\ age < IntRange \div 2 => printed = age
    /\ (age - printed) % IntRange = 0 /\ printed \in Int16
================================================================================
