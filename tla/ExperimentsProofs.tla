--------------------------- MODULE ExperimentsProofs ---------------------------
(***************************************************************************)
(* The sketches and deltax.m for every range of the counters, every        *)
(* sampling period, every table and error of the distances.                *)
(***************************************************************************)
EXTENDS Experiments, TLAPS, WellFoundedInduction

--------------------------------------------------------------------------------
(* Arithmetic modulo n. *)

(* Quotient and remainder, and multiples of the wrap of a counter. *)
LEMMA Division ==
  ASSUME NEW a \in Int, NEW n \in Nat \ {0}
  PROVE  /\ a % n \in 0 .. n - 1 /\ a \div n \in Int
         /\ a = n * (a \div n) + (a % n)
  BY SMTT(30)

LEMMA Multiple ==
  ASSUME NEW n \in Nat \ {0}, NEW k \in Int
  PROVE  (n * k) % n = 0
<1>1. PICK a \in Int : a = n * k
  BY SMTT(30)
<1>2. PICK r \in 0 .. n - 1 : r = a % n
  BY <1>1, Division
<1>3. PICK m \in Int : a = n * m + r
  BY <1>1, <1>2, Division
<1>4. n * (k - m) = r
  BY <1>1, <1>3, SMTT(30)
<1>5. k - m = 0
  <2>1. k - m >= 1 => n * (k - m) >= n
    BY SMTT(30)
  <2>2. k - m <= -1 => n * (k - m) <= -n
    BY SMTT(30)
  <2> QED  BY <1>2, <1>4, <2>1, <2>2
<1>6. r = 0
  BY <1>4, <1>5
<1> QED  BY <1>1, <1>2, <1>6

LEMMA MultipleOf ==
  ASSUME NEW a \in Int, NEW n \in Nat \ {0}, a % n = 0
  PROVE  \E k \in Int : a = n * k
<1>1. a = n * (a \div n) + 0 /\ a \div n \in Int
  BY Division
<1>2. PICK k \in Int : a = n * k + 0
  BY <1>1
<1>3. n * k \in Int
  BY SMTT(30)
<1> QED  BY <1>2, <1>3

LEMMA SumsOfMultiples ==
  ASSUME NEW n \in Nat \ {0}, NEW a \in Int, NEW b \in Int, a % n = 0, b % n = 0
  PROVE  (a + b) % n = 0 /\ (a - b) % n = 0
<1>1. PICK k \in Int : a = n * k
  BY MultipleOf
<1>2. PICK m \in Int : b = n * m
  BY MultipleOf
<1>3. a + b = n * (k + m) /\ a - b = n * (k - m)
  BY <1>1, <1>2, SMTT(30)
<1>4. k + m \in Int /\ k - m \in Int
  OBVIOUS
<1>5. (n * (k + m)) % n = 0 /\ (n * (k - m)) % n = 0
  BY <1>4, Multiple
<1> QED  BY <1>3, <1>5

(* Two numbers that differ by a multiple of n and by less than n are equal. *)
LEMMA NearMultiple ==
  ASSUME NEW n \in Nat \ {0}, NEW a \in Int, a % n = 0, -n < a, a < n
  PROVE  a = 0
<1>1. PICK k \in Int : a = n * k
  BY MultipleOf
<1>2. k >= 1 => n * k >= n
  BY SMTT(30)
<1>3. k <= -1 => n * k <= -n
  BY SMTT(30)
<1>4. k = 0
  BY <1>1, <1>2, <1>3
<1> QED  BY <1>1, <1>4

(* A remainder modulo a multiple of n differs from the number by a multiple of n. *)
LEMMA RemainderModulo ==
  ASSUME NEW n \in Nat \ {0}, NEW w \in Nat \ {0}, w % n = 0, NEW a \in Int
  PROVE  ((a % w) - a) % n = 0 /\ a % w \in 0 .. w - 1
<1>1. PICK r, k : r = a % w /\ k = a \div w
  OBVIOUS
<1>2. r \in 0 .. w - 1 /\ k \in Int /\ a = w * k + r
  BY <1>1, Division
<1>3. PICK m \in Int : w = n * m
  BY MultipleOf
<1>4. r - a = n * (m * (-k)) /\ m * (-k) \in Int
  BY <1>2, <1>3, SMTT(30)
<1> QED  BY <1>1, <1>2, <1>4, Multiple

--------------------------------------------------------------------------------
(* latency_test.ino. *)

(* The range of an int has two halves; ToInt16 reaches one of its values. *)
LEMMA HalfOfEven ==
  ASSUME NEW n \in Nat, n % 2 = 0
  PROVE  n \div 2 \in Int /\ n = 2 * (n \div 2)
  OBVIOUS

LEMMA IntHolds ==
  ASSUME NEW x \in Int
  PROVE  ToInt16(x) \in Int16 /\ (x - ToInt16(x)) % IntRange = 0
<1>1. PICK n, h : n = IntRange /\ h = IntRange \div 2
  OBVIOUS
<1>2. n \in Nat \ {0} /\ h \in Int /\ n = 2 * h
  <2>1. n \in Nat \ {0} /\ n % 2 = 0 /\ h = n \div 2
    BY <1>1, LatencyAssumption
  <2> QED  BY <2>1, HalfOfEven
<1>3. PICK z \in Int : z = x + h
  BY <1>2
<1>4. PICK r, k : r = z % n /\ k = z \div n
  OBVIOUS
<1>5. r \in 0 .. n - 1 /\ k \in Int /\ x + h = n * k + r
  BY <1>2, <1>3, <1>4, Division
<1>6. PICK y \in Int : y = r - h
  BY <1>2, <1>5
<1>7. n * k \in Int /\ x - y = n * k
  BY <1>2, <1>5, <1>6, SMTT(30)
<1>8. y \in Int16
  BY <1>1, <1>2, <1>5, <1>6 DEF Int16
<1>9. (x - y) % IntRange = 0
  BY <1>1, <1>2, <1>5, <1>7, Multiple
<1> QED  BY <1>8, <1>9 DEF ToInt16

LEMMA IntsAreIntegers ==
  /\ IntRange \in Nat \ {0} /\ Int16 \subseteq Int
  /\ \A x, y \in Int16 : -IntRange < x - y /\ x - y < IntRange
  /\ \A x \in Nat : x < IntRange \div 2 => x \in Int16
<1>1. PICK n, h : n = IntRange /\ h = IntRange \div 2
  OBVIOUS
<1>2. n \in Nat \ {0} /\ h \in Int /\ n = 2 * h
  <2>1. n \in Nat \ {0} /\ n % 2 = 0 /\ h = n \div 2
    BY <1>1, LatencyAssumption
  <2> QED  BY <2>1, HalfOfEven
<1>3. Int16 = -h .. h - 1
  BY <1>1 DEF Int16
<1> QED  BY <1>1, <1>2, <1>3

(* The start that was kept is that long ago, up to multiples of the range of an  *)
(* int, and so is what was printed.                                              *)
LatencyInv ==
  /\ pc \in {"setup", "loop", "print"}
  /\ micros \in 0 .. Wrap - 1 /\ age \in Nat /\ start \in Int16
  /\ pc # "setup" => (micros - start - age) % IntRange = 0
  /\ pc = "print" => printed \in Int16 /\ (age - printed) % IntRange = 0

(* The steps of the latency sketch, and the delay it prints. *)
LEMMA LatencyKeeps ==
  ASSUME LatencyInv, LatencyNext
  PROVE  LatencyInv'
<1>1. IntRange \in Nat \ {0} /\ Int16 \subseteq Int /\ Wrap \in Nat \ {0} /\ Wrap % IntRange = 0
  BY IntsAreIntegers, LatencyAssumption, BoardAssumption
<1>2. micros \in Int /\ micros \in 0 .. Wrap - 1 /\ age \in Nat /\ start \in Int
  BY <1>1 DEF LatencyInv
<1>3. CASE Setup
  <2>1. start' = ToInt16(micros) /\ age' = 0 /\ micros' = micros /\ pc' = "loop"
    BY <1>3 DEF Setup, Goto
  <2>2. start' \in Int16 /\ (micros - start') % IntRange = 0
    BY <1>2, <2>1, IntHolds
  <2>3. micros' - start' - age' = micros - start'
    BY <1>1, <1>2, <2>1, <2>2
  <2> QED  BY <1>2, <2>1, <2>2, <2>3 DEF LatencyInv
<1>4. CASE Nothing
  <2>1. PICK d \in 1 .. MaxStep : age + d <= MaxAge /\ Elapse(age, d)
    BY <1>4 DEF Nothing
  <2>2. d \in Nat /\ MaxAge \in Nat
    BY <2>1, BoardAssumption
  <2>3. age' = age + d /\ micros' = (micros + d) % Wrap
    BY <1>2, <2>1, <2>2 DEF Elapse
  <2>4. (((micros + d) % Wrap) - (micros + d)) % IntRange = 0 /\ micros' \in 0 .. Wrap - 1
    <3>1. PICK a \in Int : a = micros + d
      BY <1>2, <2>2
    <3>2. ((a % Wrap) - a) % IntRange = 0 /\ a % Wrap \in 0 .. Wrap - 1
      BY <1>1, RemainderModulo
    <3> QED  BY <2>3, <3>1, <3>2
  <2>5. (micros - start - age) % IntRange = 0 /\ pc = "loop" /\ pc' = "loop" /\ start' = start
    BY <1>4 DEF Nothing, LatencyInv, latencyVars
  <2>6. PICK a \in Int : a = micros' - (micros + d)
    <3>1. micros' \in Int /\ micros + d \in Int
      BY <1>2, <2>2, <2>4
    <3>2. micros' - (micros + d) \in Int
      BY <3>1
    <3> QED  BY <3>2
  <2>7. PICK b \in Int : b = micros - start - age
    BY <1>2
  <2>8. a % IntRange = 0 /\ b % IntRange = 0
    BY <2>3, <2>4, <2>5, <2>6, <2>7
  <2>9. (a + b) % IntRange = 0
    BY <1>1, <2>8, SumsOfMultiples
  <2>10. age' = age + d /\ start' = start /\ micros' \in Int
    BY <2>3, <2>4, <2>5
  <2>11. a + b = micros' - start' - age'
    BY <1>2, <2>2, <2>6, <2>7, <2>10
  <2> QED  BY <1>2, <2>2, <2>3, <2>4, <2>5, <2>9, <2>11 DEF LatencyInv
<1>5. CASE Received
  <2>1. /\ pc = "loop" /\ pc' = "print" /\ end' = ToInt16(micros) /\ printed' = ToInt16(end' - start)
        /\ micros' = micros /\ age' = age /\ start' = start
    BY <1>5 DEF Received, Goto
  <2>2. end' \in Int /\ (micros - end') % IntRange = 0
    BY <1>1, <1>2, <2>1, IntHolds
  <2>3. printed' \in Int16 /\ printed' \in Int /\ (end' - start - printed') % IntRange = 0
    BY <1>1, <1>2, <2>1, <2>2, IntHolds
  <2>4. (micros - start - age) % IntRange = 0
    BY <2>1 DEF LatencyInv
  <2>5. PICK a \in Int : a = micros - end'
    <3>1. micros - end' \in Int
      BY <1>2, <2>2
    <3> QED  BY <3>1
  <2>6. PICK b \in Int : b = end' - start - printed'
    <3>1. end' - start - printed' \in Int
      BY <1>2, <2>2, <2>3
    <3> QED  BY <3>1
  <2>7. PICK c \in Int : c = micros - start - age
    BY <1>2
  <2>8. a % IntRange = 0 /\ b % IntRange = 0 /\ c % IntRange = 0
    BY <2>2, <2>3, <2>4, <2>5, <2>6, <2>7
  <2>9. (a + b) % IntRange = 0
    BY <1>1, <2>8, SumsOfMultiples
  <2>10. ((a + b) - c) % IntRange = 0
    BY <1>1, <2>8, <2>9, a + b \in Int, SumsOfMultiples
  <2>11. (a + b) - c = age - printed'
    BY <1>2, <2>2, <2>3, <2>5, <2>6, <2>7
  <2> QED  BY <1>2, <2>1, <2>3, <2>4, <2>10, <2>11 DEF LatencyInv
<1>6. CASE PrintMessage
  BY <1>6 DEF PrintMessage, Goto, LatencyInv, latencyVars
<1> QED  BY <1>3, <1>4, <1>5, <1>6 DEF LatencyNext

LEMMA DelayRight == LatencyInv => DelayUpToRange
<1> SUFFICES ASSUME LatencyInv, pc = "print"
             PROVE  /\ age < IntRange \div 2 => printed = age
                    /\ (age - printed) % IntRange = 0 /\ printed \in Int16
  BY DEF DelayUpToRange
<1>1. printed \in Int16 /\ printed \in Int /\ age \in Nat /\ (age - printed) % IntRange = 0
  BY IntsAreIntegers DEF LatencyInv
<1>2. ASSUME age < IntRange \div 2 PROVE printed = age
  <2>1. age \in Int16
    BY <1>1, <1>2, IntsAreIntegers
  <2>2. -IntRange < age - printed /\ age - printed < IntRange /\ age - printed \in Int
    BY <1>1, <2>1, IntsAreIntegers
  <2>3. age - printed = 0
    BY <1>1, <2>2, IntsAreIntegers, NearMultiple
  <2> QED  BY <1>1, <2>3
<1> QED  BY <1>1, <1>2

--------------------------------------------------------------------------------
(* FFT_signal.ino. *)

(* The search for the largest entry finds the first such. *)
LEMMA SmallestOf ==
  ASSUME NEW T, T \subseteq Nat, T # {}
  PROVE  \E x \in T : \A y \in T : x <= y
<1>1. PICK R : R = {ss \in Nat \X Nat : ss[1] < ss[2]}
  OBVIOUS
<1>2. IsWellFoundedOn(R, Nat)
  BY <1>1, NatLessThanWellFounded DEF OpToRel
<1>3. PICK x \in T : \A y \in T : <<y, x>> \notin R
  BY <1>2, WFMin
<1>4. \A y \in T : ~(y < x)
  BY <1>1, <1>3
<1> QED  BY <1>4

(* k is the first of the largest of a[0], ..., a[n - 1]. *)
FirstLargest(a, n, k) ==
  \A l \in 0 .. n - 1 : a[l] < a[k] \/ (a[l] = a[k] /\ k <= l)

LEMMA FirstLargestExists ==
  ASSUME NEW n \in Nat \ {0}, NEW a, \A k \in 0 .. n - 1 : a[k] \in Int
  PROVE  \E k \in 0 .. n - 1 : FirstLargest(a, n, k)
<1> DEFINE Bad == {m \in 1 .. n : ~ \E k \in 0 .. m - 1 : FirstLargest(a, m, k)}
<1>1. SUFFICES ASSUME Bad # {} PROVE FALSE
  BY n \in 1 .. n
<1>2. PICK m \in Bad : \A y \in Bad : m <= y
  BY <1>1, SmallestOf, Bad \subseteq Nat
<1>3. m \in 1 .. n /\ ~ \E k \in 0 .. m - 1 : FirstLargest(a, m, k)
  BY <1>2
<1>4. CASE m = 1
  <2>1. FirstLargest(a, 1, 0)
    BY DEF FirstLargest
  <2> QED  BY <1>3, <1>4, <2>1
<1>5. CASE m # 1
  <2>1. m - 1 \in 1 .. n /\ ~(m <= m - 1)
    BY <1>3, <1>5
  <2>2. m - 1 \notin Bad
    BY <1>2, <2>1
  <2>3. PICK k \in 0 .. (m - 1) - 1 : FirstLargest(a, m - 1, k)
    BY <2>1, <2>2
  <2>4. a[k] \in Int /\ a[m - 1] \in Int /\ k \in 0 .. m - 1
    BY <1>3, <2>1, <2>3
  <2>5. \A l \in 0 .. (m - 1) - 1 : a[l] \in Int /\ (a[l] < a[k] \/ (a[l] = a[k] /\ k <= l))
    BY <1>3, <2>3 DEF FirstLargest
  <2>6. \A l \in 0 .. m - 1 : l \in 0 .. (m - 1) - 1 \/ l = m - 1
    BY <1>3
  <2>7. CASE a[m - 1] <= a[k]
    <3>1. FirstLargest(a, m, k)
      BY <1>3, <2>3, <2>4, <2>5, <2>6, <2>7 DEF FirstLargest
    <3> QED  BY <1>3, <2>4, <3>1
  <2>8. CASE a[k] < a[m - 1]
    <3>1. FirstLargest(a, m, m - 1)
      BY <1>3, <2>4, <2>5, <2>6, <2>8 DEF FirstLargest
    <3> QED  BY <1>3, <3>1
  <2> QED  BY <2>4, <2>7, <2>8
<1> QED  BY <1>4, <1>5

(* While a wait cannot wrap, the counter is at the reading that began it plus    *)
(* the time that has passed, which is at most one reading beyond the period.     *)
WaitPart ==
  pc = "wait" /\ microseconds + sampling_period_us + MaxStep <= Wrap =>
    /\ age \in 1 .. sampling_period_us + MaxStep - 1
    /\ micros = microseconds + age

\* One of the product's factors is not a number, or huge.
Spoiled == Garbage("nan") \/ Garbage("huge")

(* Only what memcpy leaves out is not a number or huge; an entry that is not a   *)
(* number takes all numbers from the product, and without either it has a peak.  *)
ProductPart ==
  /\ pc \in {"multiply", "peak", "report"} =>
       \A k \in Index : k < SAMPLES \div DoubleSize => soundReal[k] = "sound"
  /\ pc \in {"peak", "report"} =>
       /\ Garbage("nan") => correlated = <<>>
       /\ ~Spoiled => correlated \in [Index -> Magnitudes]
  /\ pc = "report" =>
       /\ Garbage("nan") => peakIndex = -1
       /\ peakIndex = -1 => Spoiled

FftInv ==
  /\ pc \in {"sample", "wait", "copy", "multiply", "peak", "report"}
  /\ micros \in 0 .. Wrap - 1 /\ microseconds \in 0 .. Wrap - 1
  /\ WaitPart
  /\ ProductPart

\* The constants of the sketch, as numbers.
LEMMA FftNumbers ==
  /\ Wrap \in Nat \ {0} /\ MaxStep \in Nat \ {0} /\ MaxAge \in Nat
  /\ SAMPLES \in Nat \ {0} /\ SAMPLES \div DoubleSize \in Int
  /\ sampling_period_us \in 1 .. Wrap - 1
  /\ MaxAge > sampling_period_us + MaxStep
  /\ Magnitudes \subseteq Nat
<1>1. PICK n, d : n = SAMPLES /\ d = DoubleSize
  OBVIOUS
<1>2. n \in Nat \ {0} /\ d \in Nat \ {0}
  BY <1>1, FftAssumption
<1>3. n \div d \in Int
  BY <1>2, Division
<1> QED  BY <1>1, <1>2, <1>3, BoardAssumption, FftAssumption

\* A reading later: the counter is within its range, and ahead by what passed
\* unless it wrapped.
LEMMA Elapsed ==
  ASSUME micros \in 0 .. Wrap - 1, NEW d \in 1 .. MaxStep, NEW since \in Nat, Elapse(since, d)
  PROVE  /\ micros' \in 0 .. Wrap - 1
         /\ micros + d < Wrap => micros' = micros + d
         /\ since + d < MaxAge => age' = since + d
<1>1. PICK w \in Nat \ {0} : w = Wrap
  BY FftNumbers
<1>2. PICK a \in Nat : a = micros + d
  BY FftNumbers
<1>3. micros' = a % w
  BY <1>1, <1>2 DEF Elapse
<1>4. a % w \in 0 .. w - 1 /\ (a < w => a % w = a)
  BY <1>1, SMTT(30)
<1> QED  BY <1>1, <1>2, <1>3, <1>4 DEF Elapse

(* The steps of the FFT sketch: the wait, the product, and both. *)
LEMMA WaitKeeps ==
  ASSUME FftInv, FftNext
  PROVE  micros' \in 0 .. Wrap - 1 /\ microseconds' \in 0 .. Wrap - 1 /\ WaitPart'
<1>1. /\ micros \in 0 .. Wrap - 1 /\ microseconds \in 0 .. Wrap - 1 /\ WaitPart
      /\ sampling_period_us \in Nat /\ MaxStep \in Nat /\ Wrap \in Nat
  BY FftNumbers DEF FftInv
<1>2. CASE Sample
  <2>1. PICK d \in 1 .. MaxStep : Elapse(0, d)
    BY <1>2 DEF Sample
  <2>2. /\ micros' \in 0 .. Wrap - 1
        /\ micros + d < Wrap => micros' = micros + d
        /\ 0 + d < MaxAge => age' = 0 + d
    BY <1>1, <2>1, Elapsed
  <2>3. microseconds' = micros /\ pc' = "wait"
    BY <1>2 DEF Sample, Goto
  <2>4. d < MaxAge /\ age' = d /\ d <= sampling_period_us + MaxStep - 1
    BY <2>2, FftNumbers
  <2>5. micros + sampling_period_us + MaxStep <= Wrap => micros + d < Wrap
    BY <1>1, FftNumbers
  <2> QED  BY <1>1, <2>2, <2>3, <2>4, <2>5 DEF WaitPart
<1>3. CASE Wait
  <2>1. PICK d \in 1 .. MaxStep : Elapse(age, d)
    BY <1>3 DEF Wait
  <2>2. microseconds' = microseconds /\ pc = "wait" /\ pc' = "wait" /\ Early
    BY <1>3 DEF Wait
  <2>3. micros' \in 0 .. Wrap - 1
    <3>1. PICK a \in Int : a = micros + d
      BY <1>1
    <3>2. a % Wrap \in 0 .. Wrap - 1
      BY FftNumbers, Division
    <3> QED  BY <2>1, <3>1, <3>2 DEF Elapse
  <2>4. ASSUME microseconds + sampling_period_us + MaxStep <= Wrap
        PROVE  /\ age' \in 1 .. sampling_period_us + MaxStep - 1
               /\ micros' = microseconds + age'
    <3>1. age \in 1 .. sampling_period_us + MaxStep - 1 /\ micros = microseconds + age
      BY <2>2, <2>4, <1>1 DEF WaitPart
    <3>2. microseconds + sampling_period_us < Wrap
      BY <1>1, <2>4, FftNumbers
    <3>3. (microseconds + sampling_period_us) % Wrap = microseconds + sampling_period_us
      <4>1. PICK a \in Nat : a = microseconds + sampling_period_us
        BY <1>1
      <4>2. PICK w \in Nat : w = Wrap
        BY <1>1
      <4>3. a < w => a % w = a
        BY SMTT(30)
      <4> QED  BY <3>2, <4>1, <4>2, <4>3
    <3>4. age < sampling_period_us
      BY <1>1, <2>2, <3>1, <3>3 DEF Early
    <3>5. age \in Nat /\ age + d < MaxAge /\ micros + d < Wrap
      BY <1>1, <2>4, <3>1, <3>4, FftNumbers
    <3>6. age' = age + d /\ micros' = micros + d
      BY <1>1, <2>1, <3>5, Elapsed
    <3> QED  BY <1>1, <3>1, <3>4, <3>6
  <2> QED  BY <1>1, <2>2, <2>3, <2>4 DEF WaitPart
<1>4. CASE WaitOver
  BY <1>1, <1>4 DEF WaitOver, WaitPart
<1>5. CASE Copy
  BY <1>1, <1>5 DEF Copy, Goto, wait, WaitPart
<1>6. CASE Correlate
  BY <1>1, <1>6 DEF Correlate, Goto, wait, WaitPart
<1>7. CASE FindPeak
  BY <1>1, <1>7 DEF FindPeak, Goto, wait, WaitPart
<1>8. CASE Loop
  BY <1>1, <1>8 DEF Loop, Goto, WaitPart
<1> QED  BY <1>2, <1>3, <1>4, <1>5, <1>6, <1>7, <1>8 DEF FftNext

\* The search finds the first of the largest entries if there are any.
LEMMA PeakFound ==
  ASSUME NEW c \in [Index -> Magnitudes]
  PROVE  LET above == {k \in DOMAIN c : c[k] > -1}
         IN /\ above # {}
            /\ (CHOOSE k \in above : \A l \in above :
                  c[l] < c[k] \/ (c[l] = c[k] /\ k <= l)) \in Index
<1>1. PICK n \in Nat \ {0} : n = SAMPLES
  BY FftNumbers
<1>2. Index = 0 .. n - 1 /\ DOMAIN c = 0 .. n - 1
  BY <1>1 DEF Index
<1>3. \A k \in 0 .. n - 1 : c[k] \in Nat
  BY <1>2, FftNumbers
<1>4. PICK above : above = {k \in DOMAIN c : c[k] > -1}
  OBVIOUS
<1>5. above = 0 .. n - 1
  <2>1. \A k \in 0 .. n - 1 : c[k] > -1
    BY <1>3
  <2> QED  BY <1>2, <1>4, <2>1
<1>6. PICK k \in 0 .. n - 1 : FirstLargest(c, n, k)
  BY <1>3, FirstLargestExists
<1>7. \E p \in above : \A l \in above : c[l] < c[p] \/ (c[l] = c[p] /\ p <= l)
  BY <1>5, <1>6 DEF FirstLargest
<1>8. (CHOOSE p \in above : \A l \in above : c[l] < c[p] \/ (c[l] = c[p] /\ p <= l)) \in above
  BY <1>7
<1> QED  BY <1>2, <1>4, <1>5, <1>6, <1>8

\* A function of nothing has no entries.
LEMMA NothingIsEmpty ==
  ASSUME NEW c \in [{} -> Magnitudes]
  PROVE  c = <<>>
  OBVIOUS

LEMMA ProductKeeps ==
  ASSUME FftInv, FftNext
  PROVE  ProductPart'
<1>1. ProductPart
  BY DEF FftInv
<1>2. CASE Sample
  BY <1>2 DEF Sample, Goto, ProductPart
<1>3. CASE Wait
  BY <1>3 DEF Wait, ProductPart
<1>4. CASE WaitOver
  BY <1>4 DEF WaitOver, ProductPart
<1>5. CASE Copy
  <2>1. PICK stack \in Local :
          soundReal' = [k \in Index |-> IF k < SAMPLES \div DoubleSize THEN "sound" ELSE stack[k]]
    BY <1>5 DEF Copy
  <2>2. \A k \in Index : k < SAMPLES \div DoubleSize => soundReal'[k] = "sound"
    BY <2>1
  <2> QED  BY <1>5, <2>2 DEF Copy, Goto, ProductPart
<1>6. CASE Correlate
  <2>1. pc = "multiply" /\ pc' = "peak" /\ soundReal' = soundReal
    BY <1>6 DEF Correlate, Goto
  <2>2. PICK numbers \in SUBSET Index :
          /\ correlated' \in [numbers -> Magnitudes]
          /\ Garbage("nan") => numbers = {}
          /\ ~Spoiled => numbers = Index
    BY <1>6 DEF Correlate, Spoiled
  <2>3. Garbage("nan") => correlated' = <<>>
    BY <2>2, NothingIsEmpty
  <2>4. (Garbage("nan")' <=> Garbage("nan")) /\ (Spoiled' <=> Spoiled)
    BY <2>1 DEF Spoiled, Garbage
  <2> QED  BY <1>1, <2>1, <2>2, <2>3, <2>4 DEF ProductPart
<1>7. CASE FindPeak
  <2>1. pc = "peak" /\ pc' = "report" /\ soundReal' = soundReal /\ correlated' = correlated
    BY <1>7 DEF FindPeak, Goto
  <2>2. (Garbage("nan")' <=> Garbage("nan")) /\ (Spoiled' <=> Spoiled)
    BY <2>1 DEF Spoiled, Garbage
  <2>3. PICK above : above = {k \in DOMAIN correlated : correlated[k] > -1}
    OBVIOUS
  <2>4. peakIndex' = IF above = {} THEN -1
          ELSE CHOOSE k \in above : \A l \in above :
                 correlated[l] < correlated[k] \/ (correlated[l] = correlated[k] /\ k <= l)
    BY <1>7, <2>3 DEF FindPeak
  <2>5. Garbage("nan") => peakIndex' = -1
    BY <1>1, <2>1, <2>3, <2>4 DEF ProductPart
  <2>6. ~Spoiled => peakIndex' # -1
    <3> SUFFICES ASSUME ~Spoiled PROVE peakIndex' # -1
      OBVIOUS
    <3>1. PICK c : c = correlated
      OBVIOUS
    <3>2. c \in [Index -> Magnitudes]
      BY <1>1, <2>1, <3>1 DEF ProductPart
    <3>3. /\ {k \in DOMAIN c : c[k] > -1} # {}
          /\ (CHOOSE k \in {k \in DOMAIN c : c[k] > -1} :
                \A l \in {l \in DOMAIN c : c[l] > -1} :
                  c[l] < c[k] \/ (c[l] = c[k] /\ k <= l)) \in Index
      BY <3>2, PeakFound
    <3>4. peakIndex' \in Index
      BY <2>3, <2>4, <3>1, <3>3
    <3> QED  BY <3>4, FftNumbers DEF Index
  <2> QED  BY <1>1, <2>1, <2>2, <2>5, <2>6 DEF ProductPart
<1>8. CASE Loop
  BY <1>8 DEF Loop, Goto, ProductPart
<1> QED  BY <1>2, <1>3, <1>4, <1>5, <1>6, <1>7, <1>8 DEF FftNext

LEMMA FftKeeps ==
  ASSUME FftInv, FftNext
  PROVE  FftInv'
<1>1. pc' \in {"sample", "wait", "copy", "multiply", "peak", "report"}
  BY DEF FftInv, FftNext, Sample, Wait, WaitOver, Copy, Correlate, FindPeak, Loop, Goto
<1> QED  BY <1>1, WaitKeeps, ProductKeeps DEF FftInv

(* What the invariant says of waits and of peaks. *)
LEMMA WaitRight == FftInv => WaitIsExact
<1> SUFFICES ASSUME FftInv, pc = "wait", ~Early,
                    ~(microseconds + sampling_period_us + MaxStep > Wrap)
             PROVE  age \in sampling_period_us .. sampling_period_us + MaxStep - 1
  BY DEF WaitIsExact
<1>1. /\ microseconds \in Nat /\ sampling_period_us \in Nat /\ MaxStep \in Nat \ {0}
      /\ Wrap \in Nat
      /\ microseconds + sampling_period_us + MaxStep <= Wrap
  BY FftNumbers DEF FftInv
<1>2. age \in 1 .. sampling_period_us + MaxStep - 1 /\ micros = microseconds + age
  BY <1>1 DEF FftInv, WaitPart
<1>3. PICK a \in Nat : a = microseconds + sampling_period_us
  BY <1>1
<1>4. PICK w \in Nat : w = Wrap
  BY <1>1
<1>5. a < w => a % w = a
  BY SMTT(30)
<1>6. (microseconds + sampling_period_us) % Wrap = microseconds + sampling_period_us
  BY <1>1, <1>3, <1>4, <1>5
<1> QED  BY <1>1, <1>2, <1>6 DEF Early

LEMMA NegativeRight == FftInv => NegativeOnlyIfSpoiled
<1> SUFFICES ASSUME FftInv, pc = "report"
             PROVE  LET LeftOut(values) ==
                          \E k \in Index : k >= SAMPLES \div DoubleSize /\ soundReal[k] \in values
                    IN  /\ LeftOut({"nan"}) => peakIndex = -1
                        /\ peakIndex = -1 => LeftOut({"nan", "huge"})
  BY DEF NegativeOnlyIfSpoiled
<1>1. /\ Garbage("nan") => peakIndex = -1
      /\ peakIndex = -1 => Spoiled
      /\ \A k \in Index : k < SAMPLES \div DoubleSize => soundReal[k] = "sound"
  BY DEF FftInv, ProductPart
<1>2. \A k \in Index : k < SAMPLES \div DoubleSize \/ k >= SAMPLES \div DoubleSize
  BY FftNumbers DEF Index
<1> QED  BY <1>1, <1>2 DEF Spoiled, Garbage

--------------------------------------------------------------------------------
(* deltax.m. *)

(* A correction by an error that shows the bias b as ResidualShows says, in the  *)
(* direction g that a trial with such an error t gives, or without a point in it *)
(* (lost), brings the bias closer to zero, or keeps it within the resolution.    *)
LEMMA CorrectionCloser ==
  ASSUME NEW R \in Int, R >= 16, NEW b \in Int, NEW d, NEW t, NEW lost \in BOOLEAN,
         Shows(b, d), ~lost => Shows(b + d, t), lost => Abs(b + d) <= R,
         NEW g, g = IF ~lost /\ t > d THEN 0 ELSE 1,
         NEW c, c = IF g = 0 THEN b - d ELSE b + d
  PROVE  /\ c \in Int
         /\ c = b \/ Abs(c) < Abs(b) \/ (Abs(b) <= R /\ Abs(c) <= R)
<1>1. d \in Nat /\ b + d \in Int /\ b - d \in Int
  BY DEF Shows
<1>2. CASE lost
  <2>1. c = b + d
    BY <1>2
  <2>2. CASE b < 0
    BY <1>1, <1>2, <2>1, <2>2 DEF Abs
  <2>3. CASE b >= 0
    BY <1>1, <1>2, <2>1, <2>3 DEF Abs
  <2> QED  BY <2>2, <2>3
<1>3. CASE ~lost /\ t > d
  <2>1. c = b - d /\ t \in Nat
    BY <1>3 DEF Shows
  <2>2. CASE b >= 0
    <3>1. 62 * b - 100 <= 100 * d /\ 100 * d <= 116 * b + 100
      BY <1>1, <2>2 DEF Shows
    <3> QED  BY <1>1, <2>1, <2>2, <3>1 DEF Abs
  <2>3. CASE b < 0
    <3>1. -70 * b - 100 <= 100 * d /\ 100 * d <= -141 * b + 100
      BY <1>1, <2>3 DEF Shows
    <3>2. b + d < 0 => 100 * t <= -141 * (b + d) + 100
      BY <1>1, <1>3 DEF Shows
    <3>3. b + d >= 0 => 100 * t <= 116 * (b + d) + 100
      BY <1>1, <1>3 DEF Shows
    <3> QED  BY <1>1, <1>3, <2>1, <2>3, <3>1, <3>2, <3>3 DEF Abs
  <2> QED  BY <2>2, <2>3
<1>4. CASE ~lost /\ ~(t > d)
  <2>1. c = b + d /\ t \in Nat
    BY <1>4 DEF Shows
  <2>2. CASE b >= 0
    <3>1. 62 * b - 100 <= 100 * d /\ 100 * d <= 116 * b + 100
      BY <1>1, <2>2 DEF Shows
    <3>2. 62 * (b + d) - 100 <= 100 * t
      BY <1>1, <1>4, <2>2 DEF Shows
    <3> QED  BY <1>1, <1>4, <2>1, <2>2, <3>1, <3>2 DEF Abs
  <2>3. CASE b < 0
    <3>1. -70 * b - 100 <= 100 * d /\ 100 * d <= -141 * b + 100
      BY <1>1, <2>3 DEF Shows
    <3> QED  BY <1>1, <2>1, <2>3, <3>1 DEF Abs
  <2> QED  BY <2>2, <2>3
<1> QED  BY <1>2, <1>3, <1>4

(* While a correction is awaited, the error it will take is the one of the       *)
(* present distances, and its direction the one of its trial.                    *)
DeltaxInv ==
  /\ stage \in {"check", "correct", "failed", "done"}
  /\ stage = "correct" /\ ~nan =>
       /\ ~Degenerate(Distances(bias))
       /\ e = drawa_quad(Distances(bias))
       /\ f = check_direction(e)

LEMMA DeltaxKeeps ==
  ASSUME DeltaxInv, DeltaxNext
  PROVE  DeltaxInv'
<1>1. CASE Check
  <2>1. stage' = "correct" /\ bias' = bias /\ E' = E
    BY <1>1 DEF Check
  <2>2. CASE ~nan' 
    <3>1. /\ ~Degenerate(Distances(bias))
          /\ e' = drawa_quad(Distances(bias))
          /\ f' = check_direction(e')
      BY <1>1, <2>2 DEF Check
    <3>2. Distances(bias)' = Distances(bias) /\ check_direction(e)' = check_direction(e')
      BY <2>1 DEF Distances, check_direction
    <3> QED  BY <2>1, <3>1, <3>2 DEF DeltaxInv
  <2> QED  BY <2>1, <2>2 DEF DeltaxInv
<1>2. CASE Fail
  BY <1>2 DEF Fail, DeltaxInv
<1>3. CASE Correct
  BY <1>3 DEF Correct, DeltaxInv
<1>4. CASE Done
  BY <1>4 DEF Done, DeltaxInv
<1>5. CASE Ended
  BY <1>5 DEF Ended, deltaxVars, DeltaxInv
<1> QED  BY <1>1, <1>2, <1>3, <1>4, <1>5 DEF DeltaxNext

(* What a step of deltax.m does to the bias. *)
LEMMA DeltaxCloser ==
  ASSUME DeltaxInv, ResidualShows, DeltaxNext, bias \in Int,
         Resolution \in Int, Resolution >= 16
  PROVE  /\ bias' \in Int
         /\ bias' = bias \/ Abs(bias') < Abs(bias) \/ (Converged /\ Converged')
<1>1. CASE Correct /\ ~nan
  <2>1. stage = "correct" /\ ~nan /\ bias' = IF f = 0 THEN bias - e ELSE bias + e
    BY <1>1 DEF Correct
  <2>2. PICK r, q : r = Distances(bias) /\ q = Distances(bias + e)
    OBVIOUS
  <2>3. ~Degenerate(r) /\ e = drawa_quad(r) /\ f = check_direction(e)
    BY <2>1, <2>2 DEF DeltaxInv
  <2>4. Shows(bias, e)
    BY <2>1, <2>2, <2>3 DEF ResidualShows, Tells
  <2>5. IF Degenerate(q) THEN Abs(bias + e) <= Resolution ELSE Shows(bias + e, drawa_quad(q))
    BY <2>1, <2>2 DEF ResidualShows, Tells
  <2>6. f = IF ~Degenerate(q) /\ drawa_quad(q) > e THEN 0 ELSE 1
    BY <2>2, <2>3 DEF check_direction
  <2>7. PICK lost \in BOOLEAN : lost <=> Degenerate(q)
    OBVIOUS
  <2>8. /\ bias' \in Int
        /\ \/ bias' = bias \/ Abs(bias') < Abs(bias)
           \/ Abs(bias) <= Resolution /\ Abs(bias') <= Resolution
    BY <2>1, <2>4, <2>5, <2>6, <2>7, CorrectionCloser
  <2> QED  BY <2>8 DEF Converged, Abs
<1>2. CASE ~(Correct /\ ~nan)
  <2>1. bias' = bias
    BY <1>2 DEF DeltaxNext, Check, Fail, Correct, Done, Ended, deltaxVars
  <2> QED  BY <2>1
<1> QED  BY <1>1, <1>2

--------------------------------------------------------------------------------
(* The experiments: a run is of one program, the variables of the others rest. *)

ExperimentsInv ==
  \/ program = "FFT_signal" /\ FftInv
  \/ program = "latency_test" /\ LatencyInv
  \/ program = "deltax" /\ DeltaxInv /\ pc = "off"

(* The invariant of whichever program runs. *)
LEMMA ExperimentsStart == Init => ExperimentsInv
<1>1. ASSUME program = "FFT_signal", FftInit PROVE ExperimentsInv
  <2>1. FftInv
    BY <1>1, FftNumbers DEF FftInit, BoardInit, FftInv, WaitPart, ProductPart
  <2> QED  BY <1>1, <2>1 DEF ExperimentsInv
<1>2. ASSUME program = "latency_test", LatencyInit PROVE ExperimentsInv
  <2>1. 0 \in Int16
    <3>1. PICK n : n = IntRange
      OBVIOUS
    <3>2. n \in Nat \ {0} /\ n % 2 = 0
      BY <3>1, LatencyAssumption
    <3>3. n \div 2 \in Int /\ n = 2 * (n \div 2)
      BY <3>2, HalfOfEven
    <3>4. 0 \in -(n \div 2) .. (n \div 2) - 1
      BY <3>2, <3>3
    <3> QED  BY <3>1, <3>4 DEF Int16
  <2>2. LatencyInv
    BY <1>2, <2>1 DEF LatencyInit, BoardInit, LatencyInv
  <2> QED  BY <1>2, <2>2 DEF ExperimentsInv
<1>3. ASSUME program = "deltax", DeltaxInit, NoBoard PROVE ExperimentsInv
  <2>1. DeltaxInv
    BY <1>3 DEF DeltaxInit, DeltaxInv
  <2> QED  BY <1>3, <2>1 DEF NoBoard, ExperimentsInv
<1> QED  BY <1>1, <1>2, <1>3 DEF Init

LEMMA ExperimentsKeep ==
  ASSUME ExperimentsInv, [Next]_vars
  PROVE  ExperimentsInv'
<1>1. CASE program = "FFT_signal" /\ FftNext /\ UNCHANGED <<program, latencyVars, deltaxVars>>
  BY <1>1, FftKeeps DEF ExperimentsInv
<1>2. CASE program = "latency_test" /\ LatencyNext /\ UNCHANGED <<program, fftVars, deltaxVars>>
  BY <1>2, LatencyKeeps DEF ExperimentsInv
<1>3. CASE program = "deltax" /\ DeltaxNext /\ UNCHANGED <<program, board, fftVars, latencyVars>>
  BY <1>3, DeltaxKeeps DEF ExperimentsInv, board
<1>4. CASE UNCHANGED vars
  <2>1. program' = program /\ pc' = pc
    BY <1>4 DEF vars, board
  <2>2. FftInv => FftInv'
    BY <1>4 DEF vars, board, fftVars, wait, result, FftInv, WaitPart, ProductPart, Spoiled, Garbage
  <2>3. LatencyInv => LatencyInv'
    BY <1>4 DEF vars, board, latencyVars, LatencyInv
  <2>4. DeltaxInv => DeltaxInv'
    BY <1>4 DEF vars, deltaxVars, DeltaxInv, Distances, check_direction
  <2> QED  BY <2>1, <2>2, <2>3, <2>4 DEF ExperimentsInv
<1> QED  BY <1>1, <1>2, <1>3, <1>4 DEF Next

\* A board runs one sketch in its states, and deltax.m in its own, with the
\* readings, the product and the corrections as described above (the inductive
\* invariant of the properties below).
THEOREM ProgramsKeepState == Spec => []ExperimentsInv
<1>1. ExperimentsInv /\ [Next]_vars => ExperimentsInv'
  BY ExperimentsKeep
<1> QED  BY <1>1, ExperimentsStart, PTL DEF Spec

\* FFT_signal.ino:45-50, for every period and width of the counter: the wait for
\* the next sample ends within one reading of the period, unless the counter
\* wraps in it.
THEOREM WaitsAreExact == Spec => []WaitIsExact
<1>1. ExperimentsInv => WaitIsExact
  BY WaitRight DEF ExperimentsInv, LatencyInv, DeltaxInv, WaitIsExact
<1> QED  BY <1>1, ProgramsKeepState, PTL

\* FFT_signal.ino:62-98, for every number of samples and size of a double: a
\* time before zero is reported whenever an entry that memcpy left out was not a
\* number, and only if one was none or huge.
THEOREM NegativeIsSpoiled == Spec => []NegativeOnlyIfSpoiled
<1>1. ExperimentsInv => NegativeOnlyIfSpoiled
  BY NegativeRight DEF ExperimentsInv, LatencyInv, NegativeOnlyIfSpoiled
<1> QED  BY <1>1, ProgramsKeepState, PTL

\* latency_test.ino:24-36, for every width of the counter and of an int: the
\* printed delay is the time since the packet was sent, modulo the range of an
\* int.
THEOREM DelaysUpToRange == Spec => []DelayUpToRange
<1>1. ExperimentsInv => DelayUpToRange
  BY DelayRight DEF ExperimentsInv, FftInv, DelayUpToRange
<1> QED  BY <1>1, ProgramsKeepState, PTL

\* deltax.m:62-79, check_direction.m:10-21, for every table, point and error of
\* the distances, and any number of rounds: as long as the residuals of rounds
\* and trials show the error as ResidualShows says, the direction that the trial
\* gives to a residual without a sign is such that no round takes the distances
\* further off, beyond the resolution.
THEOREM CorrectionsConverge ==
  ASSUME Resolution >= 16
  PROVE  Spec /\ []ResidualShows => NeverAway
<1> DEFINE WholeBias == program = "deltax" => bias \in Int
<1>1. Init => WholeBias
  BY TrilaterationAssumption DEF Init, DeltaxInit
<1>2. ASSUME ExperimentsInv, ResidualShows, WholeBias, [Next]_vars
      PROVE  /\ WholeBias'
             /\ bias' = bias \/ Abs(bias') < Abs(bias) \/ (Converged /\ Converged')
  <2>1. CASE program = "deltax" /\ DeltaxNext /\ UNCHANGED <<program, board, fftVars, latencyVars>>
    <3>1. DeltaxInv /\ bias \in Int
      BY <1>2, <2>1 DEF ExperimentsInv
    <3>2. Resolution \in Int
      BY TrilaterationAssumption
    <3> QED  BY <1>2, <3>1, <3>2, <2>1, DeltaxCloser
  <2>2. CASE bias' = bias /\ program' = program
    BY <1>2, <2>2
  <2> QED  BY <1>2, <2>1, <2>2 DEF Next, vars, deltaxVars
<1>3. ExperimentsInv /\ ResidualShows /\ WholeBias /\ [Next]_vars =>
        WholeBias' /\ [Abs(bias') < Abs(bias) \/ (Converged /\ Converged')]_bias
  BY <1>2
<1> HIDE DEF WholeBias
<1> QED  BY <1>1, <1>3, ProgramsKeepState, PTL DEF Spec, NeverAway

================================================================================
