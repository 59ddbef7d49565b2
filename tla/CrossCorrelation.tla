---------------------------- MODULE CrossCorrelation ----------------------------
(***************************************************************************)
(* The signal processing of Cross Correlation.cpp, localization.cpp and    *)
(* SimulatedChirp.m: a chirp and a signal are transformed, one spectrum is *)
(* multiplied by the conjugate of the other, the product is transformed    *)
(* back, and the peak of the result (module PeakSearch) is the delay of    *)
(* the chirp in the signal.                                                *)
(*                                                                         *)
(* Cross Correlation.cpp simulates the signal by shifting the chirp and    *)
(* ends; localization.cpp takes it from the sampler and goes round;        *)
(* SimulatedChirp.m places the beginning of a recording in a signal of     *)
(* zeros, and measures again when its section is run again.  Arrays of the *)
(* C programs are local and uninitialised: an entry that is not written    *)
(* holds whatever the stack held, in a later round the previous round's    *)
(* value.                                                                  *)
(*                                                                         *)
(* The transforms are FFTW's own for four points, the one size above two   *)
(* at which they are exact in integers.                                    *)
(***************************************************************************)
EXTENDS PeakSearch

CONSTANTS
  Chirps,      \* the chirps considered for each program, on the first half
  Shifts,      \* delays of the simulated signal
  Recordings,  \* sampled signals
  Amplitude,   \* of chirps and recordings
  Offset,      \* where SimulatedChirp.m places a recording (100, zero-based)
  Stack        \* values an uninitialised array may hold

Programs == {"Cross Correlation", "localization", "SimulatedChirp"}

ASSUME CorrelationAssumption ==
  /\ N = 4 /\ Frac = 1
  /\ Shifts \subseteq 0 .. N \div 2
  /\ Offset \in 0 .. N \div 2
  /\ Stack # {} /\ Stack \subseteq Int

ASSUME SignalAssumption ==
  /\ DOMAIN Chirps = Programs
  /\ \A p \in Programs : Chirps[p] \subseteq [0 .. N \div 2 - 1 -> -Amplitude .. Amplitude]
  /\ Recordings \subseteq [0 .. N - 1 -> -Amplitude .. Amplitude]

\* No correlation is too large for the int that the search keeps it in, and
\* the chirp that Cross Correlation.cpp delays is not silent.
ASSUME AmplitudeAssumption == Amplitude \in Nat /\ N * (N \div 2) * Amplitude * Amplitude <= IntMax
ASSUME ChirpAssumption == \A c \in Chirps["Cross Correlation"] : \E k \in DOMAIN c : c[k] # 0

VARIABLES
  program,          \* which of the three
  pc,               \* the next statement
  chirp,            \* the chirp's samples
  shift,            \* the delay of the simulated signal
  recording,        \* what was sampled
  soundSamples,     \* the signal
  referenceSignal,  \* the chirp, padded with zeros
  sampout, refout,  \* their transforms
  out               \* the product

arrays    == <<soundSamples, referenceSignal, sampout, refout, out>>
inputs    == <<program, chirp, shift, recording>>
ccVars    == <<pc, inputs, arrays, peakVars>>

Complex   == [re : Int, im : Int]
Label     == {"reference", "samples", "plan", "forward", "multiply", "backward",
              "search", "report", "transform"}
Simulated == program = "Cross Correlation"
Matlab    == program = "SimulatedChirp"
HalfN     == N \div 2

Goto(from, to) == pc = from /\ pc' = to

Filled(v) == [k \in Positions |-> v]

Init ==
  /\ pc = "reference"
  /\ program \in Programs /\ overflow \in Builds
  /\ chirp \in Chirps[program]
  /\ shift \in IF Simulated THEN Shifts ELSE {0}
  /\ \E g \in Stack :
       /\ recording = Filled(0)
       /\ soundSamples = Filled(g) /\ referenceSignal = Filled(g)
       /\ sampout = Filled([re |-> g, im |-> g])
       /\ refout  = Filled([re |-> g, im |-> g])
       /\ out     = Filled([re |-> g, im |-> g])
       /\ spectrum = Filled(g)
  /\ PeakReset

--------------------------------------------------------------------------------
(* FFTW's transforms of four points *)

\* Real to complex, unnormalised: the real parts Cr and the one imaginary
\* part that is not always zero.
R2cf(x) ==
  [Cr |-> [k \in 0 .. HalfN |->
             CASE k = 0 -> (x[0] + x[2]) + (x[1] + x[3])
               [] k = 1 -> x[0] - x[2]
               [] k = 2 -> (x[0] + x[2]) - (x[1] + x[3])],
   Ci |-> [k \in {1} |-> x[3] - x[1]]]

\* The solver around it clears the imaginary parts at both ends; entries
\* above the middle keep what they hold.
ApplyR2hc(x, old) ==
  [k \in Positions |->
     CASE k \in {0, HalfN} -> [re |-> R2cf(x).Cr[k], im |-> 0]
       [] k = 1            -> [re |-> R2cf(x).Cr[k], im |-> R2cf(x).Ci[k]]
       [] OTHER            -> old[k]]

\* Mutant of R2cb: the sign of the forward transform.
R2cbForward(c) ==
  LET sum  == c[0].re + c[2].re
      diff == c[0].re - c[2].re
  IN  [k \in Positions |->
         CASE k = 0 -> sum  + 2 * c[1].re
           [] k = 1 -> diff + 2 * c[1].im
           [] k = 2 -> sum  - 2 * c[1].re
           [] OTHER -> diff - 2 * c[1].im]

\* Complex to real, unnormalised: reads the same entries, without the
\* imaginary parts at both ends.
R2cb(c) ==
  LET sum  == c[0].re + c[2].re
      diff == c[0].re - c[2].re
  IN  [k \in Positions |->
         CASE k = 0 -> sum  + 2 * c[1].re
           [] k = 1 -> diff - 2 * c[1].im
           [] k = 2 -> sum  - 2 * c[1].re
           [] OTHER -> diff + 2 * c[1].im]

--------------------------------------------------------------------------------
(* The program *)

\* The chirp fills the first half of the reference (in SimulatedChirp.m as
\* much of it as is kept, 1000 of 41377 samples), zeros the rest.
BuildReference ==
  /\ Goto("reference", "samples")
  /\ referenceSignal' = [k \in Positions |-> IF k < HalfN THEN chirp[k] ELSE 0]
  /\ UNCHANGED <<inputs, soundSamples, sampout, refout, out, peakVars>>

\* The simulated signal: the chirp, delayed by shift.
BuildSamples ==
  /\ Simulated
  /\ Goto("samples", "plan")
  /\ soundSamples' = [k \in Positions |->
       IF k < shift \/ k >= HalfN + shift THEN 0 ELSE chirp[k - shift]]
  /\ UNCHANGED <<inputs, referenceSignal, sampout, refout, out, peakVars>>

\* The sampled signal, with the offset removed (module Localization); that
\* localization.cpp fills it before the reference makes no difference here.
CaptureSamples ==
  /\ program = "localization"
  /\ Goto("samples", "plan")
  /\ recording' \in Recordings
  /\ soundSamples' = recording'
  /\ UNCHANGED <<program, chirp, shift, referenceSignal, sampout, refout, out, peakVars>>

\* sig(:,101:1100) = -p(:,1:1000): the beginning of the recording, negated,
\* at Offset in a signal of zeros.
PlaceWindow ==
  /\ Matlab
  /\ Goto("samples", "transform")
  /\ recording' \in Recordings
  /\ soundSamples' = [k \in Positions |->
       IF k \in Offset .. Offset + HalfN - 1 THEN -recording'[k - Offset] ELSE 0]
  /\ UNCHANGED <<program, chirp, shift, referenceSignal, sampout, refout, out, peakVars>>

\* Mutant of Plan: planning with FFTW_MEASURE runs the transforms on the
\* arrays, which are full already.
PlanMeasure ==
  /\ Goto("plan", "forward")
  /\ \E g \in Stack : soundSamples' = Filled(g) /\ referenceSignal' = Filled(g)
  /\ UNCHANGED <<inputs, sampout, refout, out, peakVars>>

\* Planning with FFTW_ESTIMATE leaves the arrays alone.
Plan ==
  /\ Goto("plan", "forward")
  /\ UNCHANGED <<inputs, arrays, peakVars>>

ExecuteForward ==
  /\ Goto("forward", "multiply")
  /\ sampout' = ApplyR2hc(soundSamples, sampout)
  /\ refout'  = ApplyR2hc(referenceSignal, refout)
  /\ UNCHANGED <<inputs, soundSamples, referenceSignal, out, peakVars>>

\* Mutant of Multiply: without the conjugate, a convolution.
MultiplyPlain ==
  /\ Goto("multiply", "backward")
  /\ out' = [k \in Positions |->
       [re |-> sampout[k].re * refout[k].re - sampout[k].im * refout[k].im,
        im |-> sampout[k].re * refout[k].im + sampout[k].im * refout[k].re]]
  /\ UNCHANGED <<inputs, soundSamples, referenceSignal, sampout, refout, peakVars>>

\* refout is conjugated in place and multiplied with sampout, entry by entry,
\* the unwritten ones included.
Multiply ==
  /\ Goto("multiply", "backward")
  /\ refout' = [k \in Positions |-> [refout[k] EXCEPT !.im = -@]]
  /\ out' = [k \in Positions |->
       [re |-> sampout[k].re * refout'[k].re - sampout[k].im * refout'[k].im,
        im |-> sampout[k].re * refout'[k].im + sampout[k].im * refout'[k].re]]
  /\ UNCHANGED <<inputs, soundSamples, referenceSignal, sampout, peakVars>>

\* max and index are reset and the product transformed back; the plan was
\* made with FFTW_DESTROY_INPUT, so that out may be overwritten.
ExecuteBackward ==
  /\ Goto("backward", "search")
  /\ i' = 0 /\ max' = 0 /\ index' = 0 /\ UNCHANGED overflow
  /\ spectrum' = R2cb(out)
  /\ out' \in {out} \union {Filled([re |-> g, im |-> g]) : g \in Stack}
  /\ UNCHANGED <<inputs, soundSamples, referenceSignal, sampout, refout>>

Search ==
  /\ pc = "search" /\ PeakStep
  /\ UNCHANGED <<pc, inputs, arrays>>

EndSearch ==
  /\ Goto("search", "report") /\ PeakDone
  /\ UNCHANGED <<inputs, arrays, peakVars>>

\* x[0] + ... + x[n - 1]
Total(x, n) ==
  LET sum[k \in 0 .. n] == IF k = 0 THEN 0 ELSE sum[k - 1] + x[k - 1]
  IN  sum[n]

\* The circular cross-correlation at delay m, by its definition.
Correlation(m) == Total([n \in Positions |-> soundSamples[n] * referenceSignal[(n - m) % N]], N)

\* fft, conj, ifft and max of MATLAB, which transform exactly and report the
\* first of the largest values, positive or not.
MatlabCorrelate ==
  /\ Goto("transform", "report")
  /\ spectrum' = [m \in Positions |-> Correlation(m)]
  /\ index' = CHOOSE m \in Positions :
       \A l \in Positions : spectrum'[l] < spectrum'[m] \/ (spectrum'[l] = spectrum'[m] /\ m <= l)
  /\ UNCHANGED <<inputs, arrays, overflow, i, max>>

\* tof = (i-100)*(1/(sr-1)), in samples: i is one-based.
MatlabDelay == (index + 1) - Offset

\* localization.cpp measures again; the arrays come back uninitialised, with
\* the contents they had.
NextRound ==
  /\ ~Simulated
  /\ Goto("report", "reference")
  /\ UNCHANGED <<inputs, arrays, peakVars>>

Next ==
  \/ BuildReference \/ BuildSamples \/ CaptureSamples \/ Plan \/ ExecuteForward
  \/ Multiply \/ ExecuteBackward \/ Search \/ EndSearch
  \/ PlaceWindow \/ MatlabCorrelate \/ NextRound

Spec == Init /\ [][Next]_ccVars

--------------------------------------------------------------------------------
(* Properties *)

\* The peak search sees N times the circular cross-correlation of the signal
\* with the chirp, whatever was on the stack and although the transforms fill
\* and read only half of the complex arrays (localization.cpp:84-110).
IsCorrelation ==
  pc = "search" => \A m \in Positions : spectrum[m] = N * Correlation(m)

\* The simulated delay is the one found (Cross Correlation.cpp:8, 29-39, 75).
ShiftFound == pc = "report" /\ Simulated => index = shift

\* In a sampled signal, too, the delay found is one at which the signal
\* matches the chirp best; 0 if it matches nowhere (localization.cpp:65-117).
BestMatchFound ==
  pc = "report" =>
    \/ \A m \in Positions : Correlation(m) <= Correlation(index)
    \/ index = 0 /\ \A m \in Positions : Correlation(m) <= 0

\* "converting that index to a time" (SimulatedChirp.m:28): a recording that
\* begins with the inverted chirp is reported with no delay.
MatlabDelayFound ==
  pc = "report" /\ Matlab /\ (\A k \in 0 .. HalfN - 1 : -recording[k] = chirp[k]) =>
    MatlabDelay = 0
================================================================================
