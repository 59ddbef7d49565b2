--------------------------------- MODULE Board ---------------------------------
(***************************************************************************)
(* An Arduino as the sketches use it: the counter micros(), which runs on  *)
(* while the sketch does anything, and wraps.                              *)
(***************************************************************************)
EXTENDS Integers

CONSTANTS
  Wrap,     \* micros() counts modulo this (2^32)
  MaxStep,  \* longest time between two readings of the counter
  MaxAge    \* bound: what is older than this is not timed further

ASSUME BoardAssumption == Wrap \in Nat \ {0} /\ MaxStep \in Nat \ {0} /\ MaxAge \in Nat

VARIABLES
  pc,      \* where the sketch is
  micros,  \* the counter
  age      \* time since the sketch kept a reading of it

board == <<pc, micros, age>>

Goto(from, to) == pc = from /\ pc' = to

BoardInit == micros \in 0 .. Wrap - 1 /\ age = 0

\* d passes since a time that is "since" ago.
Elapse(since, d) ==
  /\ micros' = (micros + d) % Wrap
  /\ age' = IF since + d < MaxAge THEN since + d ELSE MaxAge
================================================================================
