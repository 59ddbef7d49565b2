------------------------------- MODULE FftSignal -------------------------------
(***************************************************************************)
(* Preliminary Arduino Code/FFT_signal.ino: findPeakTime samples the       *)
(* microphone on the beat of micros(), transforms the samples and a        *)
(* reference with arduinoFFT, multiplies, transforms back and looks for    *)
(* the peak.  Modelled are the waits on a counter that wraps, and what of  *)
(* the spectrum gets into the product: memcpy counts bytes, the arrays     *)
(* hold doubles.                                                           *)
(***************************************************************************)
EXTENDS Board

CONSTANTS
  SAMPLES,
  DoubleSize,           \* sizeof(double): 4 on an AVR, 8 on an ARM
  sampling_period_us,
  Magnitudes            \* of the correlated signal

ASSUME FftAssumption ==
  /\ SAMPLES \in Nat \ {0} /\ DoubleSize \in Nat \ {0}
  /\ sampling_period_us \in 1 .. Wrap - 1
  /\ MaxAge > sampling_period_us + MaxStep
  /\ Magnitudes # {} /\ Magnitudes \subseteq Nat

VARIABLES
  i,
  microseconds,  \* when this sample was taken
  soundReal,     \* and soundImag: "sound", from this recording, or what was
                 \* there before: "stack", "huge" and "nan"
  correlated,    \* the product, transformed back: its entries that are numbers
  peakIndex

wait    == <<i, microseconds>>
result  == <<soundReal, correlated, peakIndex>>
fftVars == <<wait, result>>
Index   == 0 .. SAMPLES - 1

\* Local arrays, uninitialised: they hold what the stack held, numbers, also
\* infinite or so large that sums of their products overflow, and others.
Local == [Index -> {"stack", "huge", "nan"}]

NoResult == soundReal = <<>> /\ correlated = <<>> /\ peakIndex = -1

FftInit ==
  /\ pc = "sample" /\ BoardInit
  /\ i = 0 /\ microseconds = 0
  /\ NoResult

\* microseconds = micros(), and a sample is read.
Sample ==
  /\ Goto("sample", "wait")
  /\ microseconds' = micros
  /\ \E d \in 1 .. MaxStep : Elapse(0, d)
  /\ UNCHANGED <<i, result>>

\* The loop condition: unsigned, so that the sum wraps as the counter does.
Early == micros < (microseconds + sampling_period_us) % Wrap

\* Mutant of Wait: <= for <.
WaitOneMore ==
  /\ pc = "wait"
  /\ micros <= (microseconds + sampling_period_us) % Wrap
  /\ \E d \in 1 .. MaxStep : Elapse(age, d)
  /\ UNCHANGED <<pc, i, microseconds, result>>

Wait ==
  /\ pc = "wait" /\ Early
  /\ \E d \in 1 .. MaxStep : Elapse(age, d)
  /\ UNCHANGED <<pc, i, microseconds, result>>

WaitOver ==
  /\ pc = "wait" /\ ~Early
  /\ IF i + 1 < SAMPLES THEN i' = i + 1 /\ pc' = "sample" ELSE i' = 0 /\ pc' = "copy"
  /\ UNCHANGED <<micros, age, microseconds, result>>

\* The samples are transformed in place (vReal, vImag) and SAMPLES bytes of
\* the spectrum copied to local arrays.
Copy ==
  /\ Goto("copy", "multiply")
  /\ \E stack \in Local :
       soundReal' = [k \in Index |-> IF k < SAMPLES \div DoubleSize THEN "sound" ELSE stack[k]]
  /\ UNCHANGED <<micros, age, wait, correlated, peakIndex>>

Garbage(value) == \E k \in Index : soundReal[k] = value

\* All entries are multiplied with the reference's spectrum and transformed
\* back: one that is not a number spoils the sums of all, a huge one any of
\* them, with infinity (which counts as a magnitude) or, where infinities
\* cancel, with what is not a number.
Correlate ==
  /\ Goto("multiply", "peak")
  /\ \E numbers \in SUBSET Index :
       /\ correlated' \in [numbers -> Magnitudes]
       /\ Garbage("nan") => numbers = {}
       /\ ~Garbage("nan") /\ ~Garbage("huge") => numbers = Index
  /\ UNCHANGED <<micros, age, wait, soundReal, peakIndex>>

\* Mutant of FindPeak: the search starts from zero.
FindPeakFromZero ==
  /\ Goto("peak", "report")
  /\ LET above == {k \in DOMAIN correlated : correlated[k] > 0}
     IN peakIndex' = IF above = {} THEN -1
          ELSE CHOOSE k \in above : \A l \in above :
                 correlated[l] < correlated[k] \/ (correlated[l] = correlated[k] /\ k <= l)
  /\ UNCHANGED <<micros, age, wait, soundReal, correlated>>

\* From peak = -1 and peakIndex = -1 the first of the largest is found; what
\* is not a number is not larger than anything.
FindPeak ==
  /\ Goto("peak", "report")
  /\ LET above == {k \in DOMAIN correlated : correlated[k] > -1}
     IN peakIndex' = IF above = {} THEN -1
          ELSE CHOOSE k \in above : \A l \in above :
                 correlated[l] < correlated[k] \/ (correlated[l] = correlated[k] /\ k <= l)
  /\ UNCHANGED <<micros, age, wait, soundReal, correlated>>

\* The distance is printed; after three seconds the next call finds the
\* counter anywhere.
Loop ==
  /\ Goto("report", "sample")
  /\ micros' \in 0 .. Wrap - 1
  /\ soundReal' = <<>> /\ correlated' = <<>> /\ peakIndex' = -1
  /\ UNCHANGED <<i, microseconds, age>>

FftNext == Sample \/ Wait \/ WaitOver \/ Copy \/ Correlate \/ FindPeak \/ Loop

--------------------------------------------------------------------------------
(* Properties *)

\* A wait is over within one reading of the counter after the sampling
\* period, except one that begins so late that the counter wraps in it: its
\* sum, or the first reading beyond the sum, is small again (lines 45-50).
WaitIsExact ==
  pc = "wait" /\ ~Early =>
    \/ age \in sampling_period_us .. sampling_period_us + MaxStep - 1
    \/ microseconds + sampling_period_us + MaxStep > Wrap

\* A time before zero is reported whenever one of the entries that memcpy
\* leaves out, most of the product, was no number, and never unless one of
\* them was none or huge: a recording alone does not spoil the search
\* (lines 62-65, 77-98).
NegativeOnlyIfSpoiled ==
  LET LeftOut(values) == \E k \in Index : k >= SAMPLES \div DoubleSize /\ soundReal[k] \in values
  IN  pc = "report" =>
        /\ LeftOut({"nan"}) => peakIndex = -1
        /\ peakIndex = -1 => LeftOut({"nan", "huge"})
================================================================================
