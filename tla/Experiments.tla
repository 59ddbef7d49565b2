------------------------------- MODULE Experiments ------------------------------
(* The programs that run on their own, for TLC: the sketches that measure time *)
(* with micros(), of which a board runs one, and deltax.m.                     *)
EXTENDS FftSignal, LatencyTest, Trilateration

VARIABLE program

vars == <<board, fftVars, latencyVars, deltaxVars, program>>

NoBoard  == pc = "off" /\ micros = 0 /\ age = 0
NoSketch == i = 0 /\ microseconds = 0 /\ NoResult
NoRadio  == start = 0 /\ end = 0 /\ printed = 0
NoTable ==
  /\ stage = "off" /\ s = 0 /\ x1Given = FALSE /\ E = <<0, 0>> /\ bias = 0
  /\ nan = FALSE /\ f = 1 /\ e = 0 /\ X = "zeros"

Init ==
  \/ program = "FFT_signal" /\ FftInit /\ NoRadio /\ NoTable
  \/ program = "latency_test" /\ LatencyInit /\ NoSketch /\ NoTable
  \/ program = "deltax" /\ DeltaxInit /\ NoBoard /\ NoSketch /\ NoRadio

Next ==
  \/ program = "FFT_signal" /\ FftNext /\ UNCHANGED <<program, latencyVars, deltaxVars>>
  \/ program = "latency_test" /\ LatencyNext /\ UNCHANGED <<program, fftVars, deltaxVars>>
  \/ program = "deltax" /\ DeltaxNext /\ UNCHANGED <<program, board, fftVars, latencyVars>>

Spec == Init /\ [][Next]_vars
================================================================================
