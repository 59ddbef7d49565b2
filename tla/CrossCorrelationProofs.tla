------------------------- MODULE CrossCorrelationProofs -------------------------
(***************************************************************************)
(* The signal processing for every chirp, every recording, every delay     *)
(* and every value on the stack.                                           *)
(***************************************************************************)
EXTENDS CrossCorrelation, PeakSearchProofs

(* The sizes of the run: four points, whole values. *)
LEMMA FourPoints ==
  /\ N = 4 /\ Frac = 1 /\ HalfN = 2 /\ Positions = {0, 1, 2, 3}
  /\ IntMax \in Nat /\ Offset \in {0, 1, 2}
<1>1. N = 4 /\ Frac = 1 /\ Offset \in 0 .. N \div 2
  BY CorrelationAssumption
<1>2. 4 \div 2 = 2
  OBVIOUS
<1> QED  BY <1>1, <1>2, PeakAssumption DEF HalfN, Positions

--------------------------------------------------------------------------------
(* Sums *)

\* t holds the sums of the first entries of x.
Sums(x, n, t) == t = [k \in 0 .. n |-> IF k = 0 THEN 0 ELSE t[k - 1] + x[k - 1]]

(* A sum is the last of its partial sums. *)
LEMMA TotalIs ==
  ASSUME NEW x, NEW n, NEW s0, Sums(x, n, s0)
  PROVE  \E t : Sums(x, n, t) /\ Total(x, n) = t[n]
<1>1. PICK t : t = CHOOSE u : Sums(x, n, u)
  OBVIOUS
<1>2. Sums(x, n, t)
  BY <1>1
<1>3. Total(x, n) = t[n]
  BY <1>1 DEF Total, Sums
<1> QED  BY <1>2, <1>3

(* Sums of two and of four terms. *)
LEMMA TotalOfTwo ==
  ASSUME NEW x, x[0] \in Int, x[1] \in Int
  PROVE  Total(x, 2) = x[0] + x[1]
<1>1. PICK t : t = [k \in 0 .. 2 |-> IF k = 0 THEN 0 ELSE IF k = 1 THEN x[0] ELSE x[0] + x[1]]
  OBVIOUS
<1>2. t[0] = 0 /\ t[1] = x[0] /\ t[2] = x[0] + x[1]
  BY <1>1
<1>3. \A k \in 0 .. 2 : t[k] = IF k = 0 THEN 0 ELSE t[k - 1] + x[k - 1]
  BY <1>2
<1>4. Sums(x, 2, t)
  BY <1>1, <1>3 DEF Sums
<1>5. PICK u : Sums(x, 2, u) /\ Total(x, 2) = u[2]
  BY <1>4, TotalIs
<1>6. u[0] = 0 /\ u[1] = u[0] + x[0] /\ u[2] = u[1] + x[1]
  BY <1>5 DEF Sums
<1> QED  BY <1>5, <1>6

LEMMA TotalOfFour ==
  ASSUME NEW x, x[0] \in Int, x[1] \in Int, x[2] \in Int, x[3] \in Int
  PROVE  Total(x, 4) = x[0] + x[1] + x[2] + x[3]
<1>1. PICK t : t = [k \in 0 .. 4 |->
                      IF k = 0 THEN 0 ELSE IF k = 1 THEN x[0] ELSE IF k = 2 THEN x[0] + x[1]
                      ELSE IF k = 3 THEN x[0] + x[1] + x[2] ELSE x[0] + x[1] + x[2] + x[3]]
  OBVIOUS
<1>2. /\ t[0] = 0 /\ t[1] = x[0] /\ t[2] = x[0] + x[1] /\ t[3] = x[0] + x[1] + x[2]
      /\ t[4] = x[0] + x[1] + x[2] + x[3]
  BY <1>1
<1>3. \A k \in 0 .. 4 : t[k] = IF k = 0 THEN 0 ELSE t[k - 1] + x[k - 1]
  BY <1>2
<1>4. Sums(x, 4, t)
  BY <1>1, <1>3 DEF Sums
<1>5. PICK u : Sums(x, 4, u) /\ Total(x, 4) = u[4]
  BY <1>4, TotalIs
<1>6. u[0] = 0 /\ u[1] = u[0] + x[0] /\ u[2] = u[1] + x[1] /\ u[3] = u[2] + x[2] /\ u[4] = u[3] + x[3]
  BY <1>5 DEF Sums
<1> QED  BY <1>5, <1>6

\* The correlation of two signals.
Corr(a, b, m) == Total([n \in Positions |-> a[n] * b[(n - m) % N]], N)

(* The correlation the properties speak of, as an operator on two signals. *)
LEMMA CorrelationIsCorr ==
  \A m : Correlation(m) = Corr(soundSamples, referenceSignal, m)
  BY DEF Correlation, Corr

(* Remainders that wrap around four points. *)
LEMMA Modulo4 ==
  /\ 0 % 4 = 0 /\ 1 % 4 = 1 /\ 2 % 4 = 2 /\ 3 % 4 = 3
  /\ (-1) % 4 = 3 /\ (-2) % 4 = 2 /\ (-3) % 4 = 1
<1>1. ASSUME NEW z \in -3 .. 3, NEW r \in 0 .. 3, z = r \/ z = r - 4
      PROVE  z % 4 = r
  <2>1. PICK q \in Int, v \in 0 .. 3 : z = 4 * q + v /\ v = z % 4
    OBVIOUS
  <2> QED  BY <1>1, <2>1
<1>2. -1 = 3 - 4 /\ -2 = 2 - 4 /\ -3 = 1 - 4
  OBVIOUS
<1> QED  BY <1>1, <1>2

(* The four values of a correlation, written out. *)
LEMMA CorrOfFour ==
  ASSUME NEW a \in [Positions -> Int], NEW b \in [Positions -> Int]
  PROVE  /\ Corr(a, b, 0) = a[0] * b[0] + a[1] * b[1] + a[2] * b[2] + a[3] * b[3]
         /\ Corr(a, b, 1) = a[0] * b[3] + a[1] * b[0] + a[2] * b[1] + a[3] * b[2]
         /\ Corr(a, b, 2) = a[0] * b[2] + a[1] * b[3] + a[2] * b[0] + a[3] * b[1]
         /\ Corr(a, b, 3) = a[0] * b[1] + a[1] * b[2] + a[2] * b[3] + a[3] * b[0]
<1>1. \A k, l \in {0, 1, 2, 3} : a[k] \in Int /\ b[l] \in Int /\ a[k] * b[l] \in Int
  BY FourPoints
<1>2. ASSUME NEW m \in {0, 1, 2, 3}
      PROVE  Corr(a, b, m) = a[0] * b[(0 - m) % 4] + a[1] * b[(1 - m) % 4]
                             + a[2] * b[(2 - m) % 4] + a[3] * b[(3 - m) % 4]
  <2>1. PICK x : x = [n \in Positions |-> a[n] * b[(n - m) % N]]
    OBVIOUS
  <2>2. /\ x[0] = a[0] * b[(0 - m) % 4] /\ x[1] = a[1] * b[(1 - m) % 4]
        /\ x[2] = a[2] * b[(2 - m) % 4] /\ x[3] = a[3] * b[(3 - m) % 4]
    BY <2>1, FourPoints
  <2>3. (0 - m) % 4 \in {0, 1, 2, 3} /\ (1 - m) % 4 \in {0, 1, 2, 3}
        /\ (2 - m) % 4 \in {0, 1, 2, 3} /\ (3 - m) % 4 \in {0, 1, 2, 3}
    OBVIOUS
  <2>4. x[0] \in Int /\ x[1] \in Int /\ x[2] \in Int /\ x[3] \in Int
    BY <1>1, <2>2, <2>3
  <2>5. Corr(a, b, m) = Total(x, 4)
    BY <2>1, FourPoints DEF Corr
  <2> QED  BY <2>2, <2>4, <2>5, TotalOfFour
<1>3. /\ 0 - 0 = 0 /\ 1 - 0 = 1 /\ 2 - 0 = 2 /\ 3 - 0 = 3
      /\ 0 - 1 = -1 /\ 1 - 1 = 0 /\ 2 - 1 = 1 /\ 3 - 1 = 2
      /\ 0 - 2 = -2 /\ 1 - 2 = -1 /\ 2 - 2 = 0 /\ 3 - 2 = 1
      /\ 0 - 3 = -3 /\ 1 - 3 = -2 /\ 2 - 3 = -1 /\ 3 - 3 = 0
  OBVIOUS
<1>4. Corr(a, b, 0) = a[0] * b[0] + a[1] * b[1] + a[2] * b[2] + a[3] * b[3]
  BY <1>2, <1>3, Modulo4
<1>5. Corr(a, b, 1) = a[0] * b[3] + a[1] * b[0] + a[2] * b[1] + a[3] * b[2]
  BY <1>2, <1>3, Modulo4
<1>6. Corr(a, b, 2) = a[0] * b[2] + a[1] * b[3] + a[2] * b[0] + a[3] * b[1]
  BY <1>2, <1>3, Modulo4
<1>7. Corr(a, b, 3) = a[0] * b[1] + a[1] * b[2] + a[2] * b[3] + a[3] * b[0]
  BY <1>2, <1>3, Modulo4
<1> QED  BY <1>4, <1>5, <1>6, <1>7

--------------------------------------------------------------------------------
(* The transforms *)

\* y holds the transform of x, as far as the solver writes it.
Transformed(x, y) ==
  /\ y[0].re = (x[0] + x[2]) + (x[1] + x[3]) /\ y[0].im = 0
  /\ y[1].re = x[0] - x[2] /\ y[1].im = x[3] - x[1]
  /\ y[2].re = (x[0] + x[2]) - (x[1] + x[3]) /\ y[2].im = 0

(* r2cf_4 and apply_r2hc: half of the transform, whatever the array held. *)
LEMMA ForwardTransforms ==
  ASSUME NEW x \in [Positions -> Int], NEW old \in [Positions -> Complex],
         NEW y, y = ApplyR2hc(x, old)
  PROVE  y \in [Positions -> Complex] /\ Transformed(x, y)
<1>1. /\ y[0] = [re |-> (x[0] + x[2]) + (x[1] + x[3]), im |-> 0]
      /\ y[1] = [re |-> x[0] - x[2], im |-> x[3] - x[1]]
      /\ y[2] = [re |-> (x[0] + x[2]) - (x[1] + x[3]), im |-> 0]
      /\ y[3] = old[3]
      /\ DOMAIN y = Positions
  BY FourPoints DEF ApplyR2hc, R2cf
<1>2. \A k \in {0, 1, 2, 3} : x[k] \in Int
  BY FourPoints
<1>3. y[0] \in Complex /\ y[1] \in Complex /\ y[2] \in Complex
  BY <1>1, <1>2 DEF Complex
<1>4. y[3] \in Complex
  BY <1>1, FourPoints
<1>5. y = [k \in Positions |-> y[k]]
  BY DEF ApplyR2hc
<1>6. y \in [Positions -> Complex]
  BY <1>3, <1>4, <1>5, FourPoints
<1>7. Transformed(x, y)
  BY <1>1 DEF Transformed
<1> QED  BY <1>6, <1>7

\* What Multiply computes of y and z.
Product(y, z) ==
  [k \in Positions |->
    [re |-> y[k].re * z[k].re - y[k].im * z[k].im,
     im |-> y[k].re * z[k].im + y[k].im * z[k].re]]

Conjugate(y) == [k \in Positions |-> [y[k] EXCEPT !.im = -@]]

\* The polynomials behind the two transforms and the product.
LEMMA FourPointIdentities ==
  ASSUME NEW a0 \in Int, NEW a1 \in Int, NEW a2 \in Int, NEW a3 \in Int,
         NEW b0 \in Int, NEW b1 \in Int, NEW b2 \in Int, NEW b3 \in Int,
         NEW p0 \in Int, p0 = ((a0 + a2) + (a1 + a3)) * ((b0 + b2) + (b1 + b3)),
         NEW p2 \in Int, p2 = ((a0 + a2) - (a1 + a3)) * ((b0 + b2) - (b1 + b3)),
         NEW pr \in Int, pr = (a0 - a2) * (b0 - b2) - (a3 - a1) * (-(b3 - b1)),
         NEW pi \in Int, pi = (a0 - a2) * (-(b3 - b1)) + (a3 - a1) * (b0 - b2)
  PROVE  /\ (p0 + p2) + 2 * pr = 4 * (a0 * b0 + a1 * b1 + a2 * b2 + a3 * b3)
         /\ (p0 - p2) - 2 * pi = 4 * (a0 * b3 + a1 * b0 + a2 * b1 + a3 * b2)
         /\ (p0 + p2) - 2 * pr = 4 * (a0 * b2 + a1 * b3 + a2 * b0 + a3 * b1)
         /\ (p0 - p2) + 2 * pi = 4 * (a0 * b1 + a1 * b2 + a2 * b3 + a3 * b0)
  BY SMTT(60)

(* Conjugating and multiplying, entry by entry. *)
LEMMA ConjugateIs ==
  ASSUME NEW z \in [Positions -> Complex], NEW c, c = Conjugate(z)
  PROVE  /\ c \in [Positions -> Complex]
         /\ \A k \in Positions : c[k].re = z[k].re /\ c[k].im = -z[k].im
<1>1. ASSUME NEW k \in Positions
      PROVE  c[k] = [re |-> z[k].re, im |-> -z[k].im] /\ z[k].re \in Int /\ z[k].im \in Int
  <2>1. c[k] = [z[k] EXCEPT !.im = -@]
    BY DEF Conjugate
  <2>2. PICK v \in Complex : v = z[k]
    OBVIOUS
  <2>3. [v EXCEPT !.im = -@] = [re |-> v.re, im |-> -v.im] /\ v.re \in Int /\ v.im \in Int
    BY DEF Complex
  <2> QED  BY <2>1, <2>2, <2>3
<1>2. \A k \in Positions : c[k] \in Complex
  <2>1. \A u, v \in Int : [re |-> u, im |-> -v] \in Complex
    BY DEF Complex
  <2> QED  BY <1>1, <2>1
<1>3. c = [k \in Positions |-> c[k]]
  BY DEF Conjugate
<1>4. c \in [Positions -> Complex]
  BY <1>2, <1>3
<1> QED  BY <1>1, <1>4

LEMMA ProductIs ==
  ASSUME NEW y \in [Positions -> Complex], NEW z \in [Positions -> Complex],
         NEW w, w = Product(y, z)
  PROVE  /\ w \in [Positions -> Complex]
         /\ \A k \in Positions :
              /\ w[k].re = y[k].re * z[k].re - y[k].im * z[k].im
              /\ w[k].im = y[k].re * z[k].im + y[k].im * z[k].re
<1>1. ASSUME NEW k \in Positions
      PROVE  /\ w[k].re = y[k].re * z[k].re - y[k].im * z[k].im
             /\ w[k].im = y[k].re * z[k].im + y[k].im * z[k].re
             /\ w[k] \in Complex
  <2>1. /\ y[k].re \in Int /\ y[k].im \in Int /\ z[k].re \in Int /\ z[k].im \in Int
    BY DEF Complex
  <2>2. PICK p \in Int : p = y[k].re * z[k].re - y[k].im * z[k].im
    BY <2>1
  <2>3. PICK q \in Int : q = y[k].re * z[k].im + y[k].im * z[k].re
    BY <2>1
  <2>4. w[k] = [re |-> p, im |-> q]
    BY <2>2, <2>3 DEF Product
  <2> QED  BY <2>2, <2>3, <2>4 DEF Complex
<1>2. w = [k \in Positions |-> w[k]]
  BY DEF Product
<1>3. w \in [Positions -> Complex]
  BY <1>1, <1>2
<1> QED  BY <1>1, <1>3

\* The product of a spectrum with the conjugate of another transforms back to
\* four times the correlation: only the entries that were written are read.
LEMMA ProductCorrelates ==
  ASSUME NEW a \in [Positions -> Int], NEW b \in [Positions -> Int],
         NEW y \in [Positions -> Complex], NEW z \in [Positions -> Complex],
         Transformed(a, y), Transformed(b, z),
         NEW w, w = Product(y, Conjugate(z))
  PROVE  /\ w \in [Positions -> Complex]
         /\ \A m \in Positions : R2cb(w)[m] = N * Corr(a, b, m)
<1>1. PICK c : c = Conjugate(z)
  OBVIOUS
<1>2. /\ c \in [Positions -> Complex]
      /\ \A k \in Positions : c[k].re = z[k].re /\ c[k].im = -z[k].im
  BY <1>1, ConjugateIs
<1>3. /\ w \in [Positions -> Complex]
      /\ \A k \in Positions :
           /\ w[k].re = y[k].re * c[k].re - y[k].im * c[k].im
           /\ w[k].im = y[k].re * c[k].im + y[k].im * c[k].re
  BY <1>1, <1>2, ProductIs
<1>4. PICK a0 \in Int : a0 = a[0]
  BY FourPoints
<1>5. PICK a1 \in Int : a1 = a[1]
  BY FourPoints
<1>6. PICK a2 \in Int : a2 = a[2]
  BY FourPoints
<1>7. PICK a3 \in Int : a3 = a[3]
  BY FourPoints
<1>8. PICK b0 \in Int : b0 = b[0]
  BY FourPoints
<1>9. PICK b1 \in Int : b1 = b[1]
  BY FourPoints
<1>10. PICK b2 \in Int : b2 = b[2]
  BY FourPoints
<1>11. PICK b3 \in Int : b3 = b[3]
  BY FourPoints
<1>12. /\ y[0].re = (a0 + a2) + (a1 + a3) /\ y[0].im = 0
       /\ y[1].re = a0 - a2 /\ y[1].im = a3 - a1
       /\ y[2].re = (a0 + a2) - (a1 + a3) /\ y[2].im = 0
  BY <1>4, <1>5, <1>6, <1>7 DEF Transformed
<1>13. /\ z[0].re = (b0 + b2) + (b1 + b3) /\ z[0].im = 0
       /\ z[1].re = b0 - b2 /\ z[1].im = b3 - b1
       /\ z[2].re = (b0 + b2) - (b1 + b3) /\ z[2].im = 0
  BY <1>8, <1>9, <1>10, <1>11 DEF Transformed
<1>14. PICK p0 \in Int : p0 = ((a0 + a2) + (a1 + a3)) * ((b0 + b2) + (b1 + b3))
  BY SMTT(30)
<1>15. PICK p2 \in Int : p2 = ((a0 + a2) - (a1 + a3)) * ((b0 + b2) - (b1 + b3))
  BY SMTT(30)
<1>16. PICK pr \in Int : pr = (a0 - a2) * (b0 - b2) - (a3 - a1) * (-(b3 - b1))
  BY SMTT(30)
<1>17. PICK pi \in Int : pi = (a0 - a2) * (-(b3 - b1)) + (a3 - a1) * (b0 - b2)
  BY SMTT(30)
<1>18. w[0].re = p0
  <2>1. w[0].re = y[0].re * z[0].re - 0 * (-0)
    BY <1>2, <1>3, <1>12, <1>13, FourPoints
  <2> QED  BY <1>12, <1>13, <1>14, <2>1
<1>19. w[2].re = p2
  <2>1. w[2].re = y[2].re * z[2].re - 0 * (-0)
    BY <1>2, <1>3, <1>12, <1>13, FourPoints
  <2> QED  BY <1>12, <1>13, <1>15, <2>1
<1>20. w[1].re = pr /\ w[1].im = pi
  <2>1. /\ w[1].re = y[1].re * c[1].re - y[1].im * c[1].im
        /\ w[1].im = y[1].re * c[1].im + y[1].im * c[1].re
    BY <1>3, FourPoints
  <2>2. c[1].re = b0 - b2 /\ c[1].im = -(b3 - b1)
    BY <1>2, <1>13, FourPoints
  <2> QED  BY <1>12, <1>16, <1>17, <2>1, <2>2
<1>21. /\ R2cb(w)[0] = (p0 + p2) + 2 * pr
       /\ R2cb(w)[1] = (p0 - p2) - 2 * pi
       /\ R2cb(w)[2] = (p0 + p2) - 2 * pr
       /\ R2cb(w)[3] = (p0 - p2) + 2 * pi
  BY <1>18, <1>19, <1>20, FourPoints DEF R2cb
<1>22. /\ Corr(a, b, 0) = a0 * b0 + a1 * b1 + a2 * b2 + a3 * b3
       /\ Corr(a, b, 1) = a0 * b3 + a1 * b0 + a2 * b1 + a3 * b2
       /\ Corr(a, b, 2) = a0 * b2 + a1 * b3 + a2 * b0 + a3 * b1
       /\ Corr(a, b, 3) = a0 * b1 + a1 * b2 + a2 * b3 + a3 * b0
  BY <1>4, <1>5, <1>6, <1>7, <1>8, <1>9, <1>10, <1>11, CorrOfFour
<1>23. /\ R2cb(w)[0] = 4 * Corr(a, b, 0) /\ R2cb(w)[1] = 4 * Corr(a, b, 1)
       /\ R2cb(w)[2] = 4 * Corr(a, b, 2) /\ R2cb(w)[3] = 4 * Corr(a, b, 3)
  BY <1>14, <1>15, <1>16, <1>17, <1>21, <1>22, FourPointIdentities
<1> QED  BY <1>3, <1>23, FourPoints

--------------------------------------------------------------------------------
(* The signals of the programs *)

Reference(c)  == [k \in Positions |-> IF k < HalfN THEN c[k] ELSE 0]
Delayed(c, d) == [k \in Positions |-> IF k < d \/ k >= HalfN + d THEN 0 ELSE c[k - d]]
Window(x)     == [k \in Positions |->
                    IF k \in Offset .. Offset + HalfN - 1 THEN -x[k - Offset] ELSE 0]

(* The chirp is the first half of the reference. *)
LEMMA ReferenceIs ==
  ASSUME NEW c, c[0] \in Int, c[1] \in Int, NEW b, b = Reference(c)
  PROVE  b \in [Positions -> Int] /\ b[0] = c[0] /\ b[1] = c[1] /\ b[2] = 0 /\ b[3] = 0
<1>1. b[0] = c[0] /\ b[1] = c[1] /\ b[2] = 0 /\ b[3] = 0
  BY FourPoints DEF Reference
<1>2. b = [k \in Positions |-> b[k]]
  BY DEF Reference
<1>3. \A k \in {0, 1, 2, 3} : b[k] \in Int
  BY <1>1
<1>4. b \in [Positions -> Int]
  BY <1>2, <1>3, FourPoints
<1> QED  BY <1>1, <1>4

(* The correlation with a chirp, written out. *)
LEMMA CorrOfChirp ==
  ASSUME NEW a \in [Positions -> Int], NEW c, c[0] \in Int, c[1] \in Int,
         NEW b, b = Reference(c)
  PROVE  /\ Corr(a, b, 0) = a[0] * c[0] + a[1] * c[1]
         /\ Corr(a, b, 1) = a[1] * c[0] + a[2] * c[1]
         /\ Corr(a, b, 2) = a[2] * c[0] + a[3] * c[1]
         /\ Corr(a, b, 3) = a[3] * c[0] + a[0] * c[1]
<1>1. b \in [Positions -> Int] /\ b[0] = c[0] /\ b[1] = c[1] /\ b[2] = 0 /\ b[3] = 0
  BY ReferenceIs
<1>2. ASSUME NEW k \in {0, 1, 2, 3}
      PROVE  /\ a[k] * c[0] \in Int /\ a[k] * c[1] \in Int
             /\ a[k] * b[0] = a[k] * c[0] /\ a[k] * b[1] = a[k] * c[1]
             /\ a[k] * b[2] = 0 /\ a[k] * b[3] = 0
  <2>1. PICK v \in Int : v = a[k]
    BY FourPoints
  <2>2. v * 0 = 0 /\ v * c[0] \in Int /\ v * c[1] \in Int
    OBVIOUS
  <2> QED  BY <1>1, <2>1, <2>2
<1>3. /\ Corr(a, b, 0) = a[0] * b[0] + a[1] * b[1] + a[2] * b[2] + a[3] * b[3]
      /\ Corr(a, b, 1) = a[0] * b[3] + a[1] * b[0] + a[2] * b[1] + a[3] * b[2]
      /\ Corr(a, b, 2) = a[0] * b[2] + a[1] * b[3] + a[2] * b[0] + a[3] * b[1]
      /\ Corr(a, b, 3) = a[0] * b[1] + a[1] * b[2] + a[2] * b[3] + a[3] * b[0]
  BY <1>1, CorrOfFour
<1>4. Corr(a, b, 0) = a[0] * c[0] + a[1] * c[1]
  BY <1>2, <1>3
<1>5. Corr(a, b, 1) = a[1] * c[0] + a[2] * c[1]
  BY <1>2, <1>3
<1>6. Corr(a, b, 2) = a[2] * c[0] + a[3] * c[1]
  BY <1>2, <1>3
<1>7. Corr(a, b, 3) = a[3] * c[0] + a[0] * c[1]
  BY <1>2, <1>3
<1> QED  BY <1>4, <1>5, <1>6, <1>7

(* Products of amplitudes are bounded by the square of the largest. *)
LEMMA Bounded ==
  ASSUME NEW g \in Nat, NEW x \in -g .. g, NEW y \in -g .. g
  PROVE  x * y \in Int /\ x * y <= g * g /\ g * g \in Nat
<1>1. x * y \in Int /\ g * g \in Nat
  BY SMTT(30)
<1>2. CASE x >= 0
  <2>1. x * y <= x * g /\ x * g <= g * g
    BY <1>2, SMTT(30)
  <2> QED  BY <1>1, <2>1
<1>3. CASE x < 0
  <2>1. x * y <= (-x) * g /\ (-x) * g <= g * g
    BY <1>3, SMTT(30)
  <2> QED  BY <1>1, <2>1
<1> QED  BY <1>2, <1>3

\* No correlation of a signal and a chirp of the amplitude is too large.
LEMMA CorrBounded ==
  ASSUME NEW a \in [Positions -> -Amplitude .. Amplitude], NEW c,
         c[0] \in -Amplitude .. Amplitude, c[1] \in -Amplitude .. Amplitude,
         NEW b, b = Reference(c), NEW m \in Positions
  PROVE  Corr(a, b, m) \in Int /\ N * Corr(a, b, m) <= IntMax
<1>1. PICK g \in Nat : g = Amplitude
  BY AmplitudeAssumption
<1>2. PICK h \in Nat : h = g * g
  BY SMTT(30)
<1>3. 8 * h <= IntMax
  <2>1. N * (N \div 2) * Amplitude * Amplitude = 8 * h
    <3>1. N * (N \div 2) = 8
      BY FourPoints
    <3>2. 8 * g * g = 8 * h
      BY <1>2, SMTT(30)
    <3> QED  BY <1>1, <3>1, <3>2
  <2> QED  BY <2>1, AmplitudeAssumption
<1>4. \A k \in {0, 1, 2, 3} : a[k] \in -g .. g
  BY <1>1, FourPoints
<1>5. \A k \in {0, 1, 2, 3} : /\ a[k] * c[0] \in Int /\ a[k] * c[0] <= h
                              /\ a[k] * c[1] \in Int /\ a[k] * c[1] <= h
  BY <1>1, <1>2, <1>4, Bounded
<1>6. a \in [Positions -> Int] /\ c[0] \in Int /\ c[1] \in Int
  BY <1>1
<1>7. PICK v \in Int : v = Corr(a, b, m) /\ v <= 2 * h
  BY <1>2, <1>5, <1>6, CorrOfChirp, FourPoints
<1>8. 4 * v <= IntMax
  BY <1>2, <1>3, <1>7, FourPoints
<1> QED  BY <1>7, <1>8, FourPoints

(* A chirp that is not silent matches itself better than it does shifted. *)
LEMMA Squares ==
  ASSUME NEW x \in Int, NEW y \in Int, x # 0 \/ y # 0
  PROVE  x * x + y * y > 0 /\ x * x + y * y > x * y /\ x * y \in Int /\ x * x + y * y \in Int
         /\ x * y = y * x
<1>1. x * x >= 0 /\ y * y >= 0 /\ (x # 0 => x * x > 0) /\ (y # 0 => y * y > 0)
  BY SMTT(30)
<1>2. (x - y) * (x - y) >= 0 /\ (x - y) * (x - y) = x * x + y * y - 2 * (x * y)
  BY SMTT(30)
<1>3. x * x \in Int /\ y * y \in Int /\ x * y \in Int /\ x * y = y * x
  BY SMTT(30)
<1> QED  BY <1>1, <1>2, <1>3

\* A chirp matches itself best, and only where it is.
LEMMA DelayMatchesBest ==
  ASSUME NEW c, c[0] \in Int, c[1] \in Int, c[0] # 0 \/ c[1] # 0,
         NEW d \in {0, 1, 2}, NEW a, a = Delayed(c, d), NEW b, b = Reference(c)
  PROVE  /\ a \in [Positions -> Int]
         /\ Corr(a, b, d) > 0
         /\ \A m \in Positions \ {d} : Corr(a, b, m) < Corr(a, b, d)
<1>1. PICK x \in Int : x = c[0]
  OBVIOUS
<1>2. PICK y \in Int : y = c[1]
  OBVIOUS
<1>3. /\ x * x + y * y > 0 /\ x * x + y * y > x * y /\ x * y \in Int /\ x * x + y * y \in Int
      /\ x * y = y * x
  BY <1>1, <1>2, Squares
<1>4. \A k \in {0, 1, 2, 3} : a[k] = IF k < d \/ k >= 2 + d THEN 0 ELSE c[k - d]
  BY FourPoints DEF Delayed
<1>5. /\ a[0] = IF d = 0 THEN x ELSE 0
      /\ a[1] = IF d = 0 THEN y ELSE IF d = 1 THEN x ELSE 0
      /\ a[2] = IF d = 0 THEN 0 ELSE IF d = 1 THEN y ELSE x
      /\ a[3] = IF d = 2 THEN y ELSE 0
  BY <1>1, <1>2, <1>4
<1>6. a = [k \in Positions |-> a[k]]
  BY DEF Delayed
<1>7. a \in [Positions -> Int]
  BY <1>5, <1>6, FourPoints
<1>8. /\ Corr(a, b, 0) = a[0] * x + a[1] * y /\ Corr(a, b, 1) = a[1] * x + a[2] * y
      /\ Corr(a, b, 2) = a[2] * x + a[3] * y /\ Corr(a, b, 3) = a[3] * x + a[0] * y
  BY <1>1, <1>2, <1>7, CorrOfChirp
<1>9. CASE d = 0
  <2>1. /\ Corr(a, b, 0) = x * x + y * y /\ Corr(a, b, 1) = y * x + 0 * y
        /\ Corr(a, b, 2) = 0 * x + 0 * y /\ Corr(a, b, 3) = 0 * x + x * y
    BY <1>5, <1>8, <1>9
  <2> QED  BY <1>3, <1>7, <1>9, <2>1, FourPoints
<1>10. CASE d = 1
  <2>1. /\ Corr(a, b, 0) = 0 * x + x * y /\ Corr(a, b, 1) = x * x + y * y
        /\ Corr(a, b, 2) = y * x + 0 * y /\ Corr(a, b, 3) = 0 * x + 0 * y
    BY <1>5, <1>8, <1>10
  <2> QED  BY <1>3, <1>7, <1>10, <2>1, FourPoints
<1>11. CASE d = 2
  <2>1. /\ Corr(a, b, 0) = 0 * x + 0 * y /\ Corr(a, b, 1) = 0 * x + x * y
        /\ Corr(a, b, 2) = x * x + y * y /\ Corr(a, b, 3) = y * x + 0 * y
    BY <1>5, <1>8, <1>11
  <2> QED  BY <1>3, <1>7, <1>11, <2>1, FourPoints
<1> QED  BY <1>9, <1>10, <1>11

--------------------------------------------------------------------------------
(* The programs *)

Loud == -Amplitude .. Amplitude

Typed ==
  /\ pc \in Label /\ program \in Programs
  /\ Matlab => pc \in {"reference", "samples", "transform", "report"}
  /\ pc = "transform" => Matlab
  /\ chirp \in Chirps[program] /\ shift \in {0, 1, 2}
  /\ recording \in [Positions -> Loud]
  /\ soundSamples \in [Positions -> Int] /\ referenceSignal \in [Positions -> Int]
  /\ sampout \in [Positions -> Complex] /\ refout \in [Positions -> Complex]
  /\ out \in [Positions -> Complex]

\* Once they are built, the arrays hold this round's chirp and signal.
SignalPart ==
  /\ pc # "reference" => referenceSignal = Reference(chirp)
  /\ pc \notin {"reference", "samples"} =>
       /\ soundSamples \in [Positions -> Loud]
       /\ Simulated => soundSamples = Delayed(chirp, shift)
       /\ Matlab => soundSamples = Window(recording)

\* What is behind the signal, of what has been transformed.
TransformPart ==
  /\ pc = "multiply" => Transformed(soundSamples, sampout) /\ Transformed(referenceSignal, refout)
  /\ pc = "backward" =>
       \A m \in Positions : R2cb(out)[m] = N * Corr(soundSamples, referenceSignal, m)
  /\ ~Matlab /\ pc \in {"search", "report"} =>
       \A m \in Positions : spectrum[m] = N * Corr(soundSamples, referenceSignal, m)

\* What the search knows.
PeakPart ==
  /\ ~Matlab => PeakInv /\ (pc = "report" => PeakDone)
  /\ Matlab /\ pc = "report" =>
       /\ index \in Positions
       /\ \A m \in Positions : Corr(soundSamples, referenceSignal, m)
                               <= Corr(soundSamples, referenceSignal, index)

CorrInv == Typed /\ SignalPart /\ TransformPart /\ PeakPart

(* What the constants allow for a chirp and for a recording. *)
LEMMA ChirpIs ==
  ASSUME NEW p \in Programs, NEW c \in Chirps[p]
  PROVE  /\ c[0] \in Loud /\ c[1] \in Loud /\ c[0] \in Int /\ c[1] \in Int
         /\ p = "Cross Correlation" => c[0] # 0 \/ c[1] # 0
<1>1. 0 .. N \div 2 - 1 = {0, 1}
  BY FourPoints
<1>2. c \in [{0, 1} -> Loud]
  BY <1>1, SignalAssumption DEF Loud
<1>3. c[0] \in Loud /\ c[1] \in Loud /\ DOMAIN c = {0, 1}
  BY <1>2
<1>4. Loud \subseteq Int
  BY AmplitudeAssumption DEF Loud
<1>5. ASSUME p = "Cross Correlation" PROVE c[0] # 0 \/ c[1] # 0
  BY <1>3, <1>5, ChirpAssumption
<1> QED  BY <1>3, <1>4, <1>5

LEMMA LoudIs ==
  /\ Loud \subseteq Int /\ 0 \in Loud
  /\ \A v \in Loud : -v \in Loud
  /\ Recordings \subseteq [Positions -> Loud]
  BY AmplitudeAssumption, SignalAssumption DEF Loud, Positions

LEMMA CorrInvInit == Init => CorrInv
<1> SUFFICES ASSUME Init PROVE CorrInv
  OBVIOUS
<1>1. PICK g \in Stack :
        /\ recording = Filled(0)
        /\ soundSamples = Filled(g) /\ referenceSignal = Filled(g)
        /\ sampout = Filled([re |-> g, im |-> g])
        /\ refout  = Filled([re |-> g, im |-> g])
        /\ out     = Filled([re |-> g, im |-> g])
        /\ spectrum = Filled(g)
  BY DEF Init
<1>2. g \in Int /\ [re |-> g, im |-> g] \in Complex
  BY CorrelationAssumption DEF Complex
<1>3. \A S, v : v \in S => Filled(v) \in [Positions -> S]
  BY DEF Filled
<1>4. pc = "reference" /\ program \in Programs /\ overflow \in Builds /\ chirp \in Chirps[program]
      /\ i = 0 /\ max = 0 /\ index = 0
  BY DEF Init, PeakReset
<1>5. shift \in {0, 1, 2}
  <2>1. Shifts \subseteq {0, 1, 2}
    BY CorrelationAssumption, FourPoints
  <2> QED  BY <2>1 DEF Init
<1>6. Typed
  BY <1>1, <1>2, <1>3, <1>4, <1>5, LoudIs DEF Typed, Label, Matlab
<1>7. PeakInv
  <2>1. spectrum \in [Positions -> Int]
    BY <1>1, <1>2, <1>3
  <2>2. PeakTypeOK
    BY <1>4, <2>1, PeakAssumption DEF PeakTypeOK, Positions
  <2> QED  BY <1>4, <2>1, <2>2, PeakAssumption
           DEF PeakInv, Tracks, Seen, Positions
<1> QED  BY <1>4, <1>6, <1>7 DEF CorrInv, SignalPart, TransformPart, PeakPart

(* Delayed and windowed signals have amplitudes of the recording. *)
LEMMA SimulatedSignal ==
  ASSUME NEW c, c[0] \in Loud, c[1] \in Loud, NEW d \in {0, 1, 2}, NEW a, a = Delayed(c, d)
  PROVE  a \in [Positions -> Loud]
<1>1. \A k \in {0, 1, 2, 3} : a[k] = IF k < d \/ k >= 2 + d THEN 0 ELSE c[k - d]
  BY FourPoints DEF Delayed
<1>2. \A k \in {0, 1, 2, 3} : ~(k < d \/ k >= 2 + d) => k - d \in {0, 1}
  OBVIOUS
<1>3. \A k \in {0, 1, 2, 3} : a[k] \in Loud
  BY <1>1, <1>2, LoudIs
<1>4. a = [k \in Positions |-> a[k]]
  BY DEF Delayed
<1> QED  BY <1>3, <1>4, FourPoints

LEMMA WindowSignal ==
  ASSUME NEW x \in [Positions -> Loud], NEW a, a = Window(x)
  PROVE  a \in [Positions -> Loud]
<1>1. PICK h \in {0, 1, 2} : h = Offset
  BY FourPoints
<1>2. \A k \in {0, 1, 2, 3} : a[k] = IF k \in h .. h + 1 THEN -x[k - h] ELSE 0
  BY <1>1, FourPoints DEF Window
<1>3. \A k \in {0, 1, 2, 3} : k \in h .. h + 1 => k - h \in {0, 1}
  OBVIOUS
<1>4. \A k \in {0, 1} : x[k] \in Loud /\ -x[k] \in Loud
  BY FourPoints, LoudIs
<1>5. \A k \in {0, 1, 2, 3} : a[k] \in Loud
  BY <1>2, <1>3, <1>4, LoudIs
<1>6. a = [k \in Positions |-> a[k]]
  BY DEF Window
<1> QED  BY <1>5, <1>6, FourPoints

\* The steps before the transforms: they build the two signals.
Building == BuildReference \/ BuildSamples \/ CaptureSamples \/ PlaceWindow

(* The statements that build the signals. *)
LEMMA BuildingKeeps ==
  ASSUME CorrInv, Building
  PROVE  CorrInv'
<1>1. Typed /\ SignalPart /\ PeakPart
  BY DEF CorrInv
<1>2. chirp[0] \in Loud /\ chirp[1] \in Loud /\ chirp[0] \in Int /\ chirp[1] \in Int
  BY <1>1, ChirpIs DEF Typed
<1>3. [Positions -> Loud] \subseteq [Positions -> Int]
  BY LoudIs
<1>4. ~Matlab => PeakInv'
  <2>1. UNCHANGED peakVars
    BY DEF Building, BuildReference, BuildSamples, CaptureSamples, PlaceWindow
  <2> QED  BY <1>1, <2>1, PeakInvNext DEF PeakPart
<1>5. CASE BuildReference
  <2>1. /\ pc = "reference" /\ pc' = "samples" /\ referenceSignal' = Reference(chirp)
        /\ UNCHANGED <<inputs, soundSamples, sampout, refout, out>>
    BY <1>5 DEF BuildReference, Goto, Reference
  <2>2. referenceSignal' \in [Positions -> Int]
    BY <1>2, <2>1, ReferenceIs
  <2>3. Typed'
    BY <1>1, <2>1, <2>2 DEF Typed, inputs, Label, Matlab
  <2> QED  BY <1>4, <2>1, <2>3
           DEF CorrInv, SignalPart, TransformPart, PeakPart, inputs, Matlab
<1>6. CASE BuildSamples
  <2>1. /\ pc = "samples" /\ pc' = "plan" /\ Simulated /\ soundSamples' = Delayed(chirp, shift)
        /\ UNCHANGED <<inputs, referenceSignal, sampout, refout, out>>
    BY <1>6 DEF BuildSamples, Goto, Delayed
  <2>2. soundSamples' \in [Positions -> Loud]
    BY <1>1, <1>2, <2>1, SimulatedSignal DEF Typed
  <2>3. ~Matlab
    BY <2>1 DEF Simulated, Matlab
  <2>4. Typed'
    BY <1>1, <1>3, <2>1, <2>2, <2>3 DEF Typed, inputs, Label, Matlab
  <2>5. SignalPart'
    BY <1>1, <2>1, <2>2, <2>3 DEF SignalPart, inputs, Matlab, Simulated
  <2> QED  BY <1>4, <2>1, <2>3, <2>4, <2>5
           DEF CorrInv, TransformPart, PeakPart, inputs, Matlab
<1>7. CASE CaptureSamples
  <2>1. /\ pc = "samples" /\ pc' = "plan" /\ program = "localization"
        /\ recording' \in Recordings /\ soundSamples' = recording'
        /\ UNCHANGED <<program, chirp, shift, referenceSignal, sampout, refout, out>>
    BY <1>7 DEF CaptureSamples, Goto
  <2>2. soundSamples' \in [Positions -> Loud] /\ recording' \in [Positions -> Loud]
    BY <2>1, LoudIs
  <2>3. ~Matlab /\ ~Simulated
    BY <2>1 DEF Simulated, Matlab
  <2>4. Typed'
    BY <1>1, <1>3, <2>1, <2>2, <2>3 DEF Typed, Label, Matlab
  <2>5. SignalPart'
    BY <1>1, <2>1, <2>2, <2>3 DEF SignalPart, Matlab, Simulated
  <2> QED  BY <1>4, <2>1, <2>3, <2>4, <2>5
           DEF CorrInv, TransformPart, PeakPart, Matlab
<1>8. CASE PlaceWindow
  <2>1. /\ pc = "samples" /\ pc' = "transform" /\ Matlab
        /\ recording' \in Recordings
        /\ UNCHANGED <<program, chirp, shift, referenceSignal, sampout, refout, out>>
    BY <1>8 DEF PlaceWindow, Goto
  <2>2. PICK x : x = recording'
    OBVIOUS
  <2>3. soundSamples' = Window(x)
    BY <1>8, <2>2 DEF PlaceWindow, Window
  <2>4. x \in [Positions -> Loud]
    BY <2>1, <2>2, LoudIs
  <2>5. soundSamples' \in [Positions -> Loud]
    BY <2>3, <2>4, WindowSignal
  <2>6. Typed'
    BY <1>1, <1>3, <2>1, <2>2, <2>4, <2>5 DEF Typed, Label, Matlab
  <2>7. SignalPart'
    BY <1>1, <2>1, <2>2, <2>3, <2>5 DEF SignalPart, Matlab, Simulated
  <2> QED  BY <2>1, <2>6, <2>7
           DEF CorrInv, TransformPart, PeakPart, Matlab
<1> QED  BY <1>5, <1>6, <1>7, <1>8 DEF Building

(* Statements that leave the signals alone. *)
LEMMA RestIsTyped ==
  ASSUME Typed, UNCHANGED <<program, chirp, shift, recording, soundSamples, referenceSignal>>,
         pc' \in Label, Matlab => pc' \in {"reference", "report"}, pc' # "transform",
         sampout' \in [Positions -> Complex], refout' \in [Positions -> Complex],
         out' \in [Positions -> Complex]
  PROVE  Typed'
  BY DEF Typed, Matlab

LEMMA SignalStays ==
  ASSUME SignalPart, UNCHANGED <<program, chirp, shift, recording, soundSamples, referenceSignal>>,
         pc \notin {"reference", "samples"}
  PROVE  SignalPart'
  BY DEF SignalPart, Matlab, Simulated

\* The four statements that FFTW makes up, and the product.
Transforming == Plan \/ ExecuteForward \/ Multiply \/ ExecuteBackward

(* The transforms and the product. *)
LEMMA TransformingKeeps ==
  ASSUME CorrInv, Transforming
  PROVE  CorrInv'
<1>1. /\ Typed /\ SignalPart /\ TransformPart /\ PeakPart
      /\ UNCHANGED <<program, chirp, shift, recording, soundSamples, referenceSignal>>
  BY DEF CorrInv, Transforming, Plan, ExecuteForward, Multiply, ExecuteBackward, inputs, arrays
<1>2. /\ pc \in {"plan", "forward", "multiply", "backward"}
      /\ pc' \in {"forward", "multiply", "backward", "search"}
  BY DEF Transforming, Plan, ExecuteForward, Multiply, ExecuteBackward, Goto
<1>3. ~Matlab /\ ~Matlab'
  BY <1>1, <1>2 DEF Typed, Matlab
<1>4. SignalPart'
  BY <1>1, <1>2, SignalStays
<1>5. /\ soundSamples \in [Positions -> Int] /\ referenceSignal \in [Positions -> Int]
      /\ sampout \in [Positions -> Complex] /\ refout \in [Positions -> Complex]
      /\ out \in [Positions -> Complex]
  BY <1>1 DEF Typed
<1>6. PeakInv
  BY <1>1, <1>3 DEF PeakPart
<1>7. CASE Plan
  <2>1. pc' = "forward" /\ UNCHANGED <<sampout, refout, out, peakVars>>
    BY <1>7 DEF Plan, Goto, arrays
  <2>2. Typed'
    BY <1>1, <1>3, <1>5, <2>1, RestIsTyped DEF Label
  <2>3. PeakInv'
    BY <1>6, <2>1, PeakInvNext
  <2> QED  BY <1>3, <1>4, <2>1, <2>2, <2>3 DEF CorrInv, TransformPart, PeakPart
<1>8. CASE ExecuteForward
  <2>1. /\ pc' = "multiply" /\ UNCHANGED <<out, peakVars>>
        /\ sampout' = ApplyR2hc(soundSamples, sampout)
        /\ refout' = ApplyR2hc(referenceSignal, refout)
    BY <1>8 DEF ExecuteForward, Goto
  <2>2. /\ sampout' \in [Positions -> Complex] /\ Transformed(soundSamples, sampout')
        /\ refout' \in [Positions -> Complex] /\ Transformed(referenceSignal, refout')
    BY <1>5, <2>1, ForwardTransforms
  <2>3. Typed'
    BY <1>1, <1>3, <1>5, <2>1, <2>2, RestIsTyped DEF Label
  <2>4. PeakInv'
    BY <1>6, <2>1, PeakInvNext
  <2>5. TransformPart'
    BY <1>1, <2>1, <2>2 DEF TransformPart, Transformed
  <2> QED  BY <1>3, <1>4, <2>1, <2>3, <2>4, <2>5 DEF CorrInv, PeakPart
<1>9. CASE Multiply
  <2>1. /\ pc = "multiply" /\ pc' = "backward" /\ UNCHANGED <<sampout, peakVars>>
        /\ refout' = Conjugate(refout)
    BY <1>9 DEF Multiply, Goto, Conjugate
  <2>2. out' = Product(sampout, refout')
    BY <1>9 DEF Multiply, Product
  <2>3. /\ Transformed(soundSamples, sampout) /\ Transformed(referenceSignal, refout)
    BY <1>1, <2>1 DEF TransformPart
  <2>4. PICK w : w = out'
    OBVIOUS
  <2>5. /\ w \in [Positions -> Complex]
        /\ \A m \in Positions : R2cb(w)[m] = N * Corr(soundSamples, referenceSignal, m)
    BY <1>5, <2>1, <2>2, <2>3, <2>4, ProductCorrelates
  <2>6. refout' \in [Positions -> Complex]
    BY <1>5, <2>1, ConjugateIs
  <2>7. Typed'
    BY <1>1, <1>3, <1>5, <2>1, <2>4, <2>5, <2>6, RestIsTyped DEF Label
  <2>8. PeakInv'
    BY <1>6, <2>1, PeakInvNext
  <2>9. TransformPart'
    BY <1>1, <2>1, <2>4, <2>5 DEF TransformPart
  <2> QED  BY <1>3, <1>4, <2>1, <2>7, <2>8, <2>9 DEF CorrInv, PeakPart
<1>10. CASE ExecuteBackward
  <2>1. /\ pc = "backward" /\ pc' = "search" /\ UNCHANGED <<sampout, refout, overflow>>
        /\ i' = 0 /\ max' = 0 /\ index' = 0 /\ spectrum' = R2cb(out)
        /\ out' \in {out} \union {Filled([re |-> g, im |-> g]) : g \in Stack}
    BY <1>10 DEF ExecuteBackward, Goto
  <2>2. out' \in [Positions -> Complex]
    <3>1. \A g \in Stack : [re |-> g, im |-> g] \in Complex
      BY CorrelationAssumption DEF Complex
    <3>2. \A v \in Complex : Filled(v) \in [Positions -> Complex]
      BY DEF Filled
    <3> QED  BY <1>5, <2>1, <3>1, <3>2
  <2>3. Typed'
    BY <1>1, <1>3, <1>5, <2>1, <2>2, RestIsTyped DEF Label
  <2>4. \A m \in Positions : spectrum'[m] = N * Corr(soundSamples, referenceSignal, m)
    BY <1>1, <2>1 DEF TransformPart
  <2>5. spectrum' \in [Positions -> Int]
    <3>1. PICK w : w = R2cb(out)
      OBVIOUS
    <3>2. /\ out[0].re \in Int /\ out[1].re \in Int /\ out[1].im \in Int /\ out[2].re \in Int
      BY <1>5, FourPoints DEF Complex
    <3>3. PICK p \in Int, q \in Int, u \in Int, v \in Int :
            p = out[0].re /\ q = out[2].re /\ u = out[1].re /\ v = out[1].im
      BY <3>2
    <3>4. /\ w[0] = (p + q) + 2 * u /\ w[1] = (p - q) - 2 * v
          /\ w[2] = (p + q) - 2 * u /\ w[3] = (p - q) + 2 * v
      BY <3>1, <3>3, FourPoints DEF R2cb
    <3>5. w[0] \in Int /\ w[1] \in Int /\ w[2] \in Int /\ w[3] \in Int
      BY <3>4
    <3>6. w = [k \in Positions |-> w[k]]
      BY <3>1 DEF R2cb
    <3>7. w \in [Positions -> Int]
      BY <3>5, <3>6, FourPoints
    <3> QED  BY <2>1, <3>1, <3>7
  <2>6. PeakInv'
    <3>1. overflow' \in Builds
      BY <1>6, <2>1 DEF PeakInv, PeakTypeOK
    <3>2. PeakTypeOK'
      BY <2>1, <2>5, <3>1, PeakAssumption DEF PeakTypeOK, Positions
    <3> QED  BY <2>1, <2>5, <3>2, PeakAssumption
             DEF PeakInv, Tracks, Seen, Positions
  <2>7. TransformPart'
    BY <1>1, <1>3, <2>1, <2>4 DEF TransformPart
  <2> QED  BY <1>3, <1>4, <2>1, <2>3, <2>6, <2>7 DEF CorrInv, PeakPart
<1> QED  BY <1>7, <1>8, <1>9, <1>10 DEF Transforming

\* Of four values one is the first of the largest.
LEMMA FirstLargest ==
  ASSUME NEW x \in [Positions -> Int],
         NEW j, j = CHOOSE m \in Positions :
                      \A l \in Positions : x[l] < x[m] \/ (x[l] = x[m] /\ m <= l)
  PROVE  j \in Positions /\ \A l \in Positions : x[l] <= x[j]
<1>1. PICK p \in Int : p = x[0]
  BY FourPoints
<1>2. PICK q \in Int : q = x[1]
  BY FourPoints
<1>3. PICK u \in Int : u = x[2]
  BY FourPoints
<1>4. PICK v \in Int : v = x[3]
  BY FourPoints
<1>5. \E m \in Positions : \A l \in Positions : x[l] < x[m] \/ (x[l] = x[m] /\ m <= l)
  <2>1. CASE q <= p /\ u <= p /\ v <= p
    BY <1>1, <1>2, <1>3, <1>4, <2>1, FourPoints
  <2>2. CASE p < q /\ u <= q /\ v <= q
    BY <1>1, <1>2, <1>3, <1>4, <2>2, FourPoints
  <2>3. CASE p < u /\ q < u /\ v <= u
    BY <1>1, <1>2, <1>3, <1>4, <2>3, FourPoints
  <2>4. CASE p < v /\ q < v /\ u < v
    BY <1>1, <1>2, <1>3, <1>4, <2>4, FourPoints
  <2> QED  BY <2>1, <2>2, <2>3, <2>4
<1>6. /\ j \in Positions
      /\ \A l \in Positions : x[l] < x[j] \/ (x[l] = x[j] /\ j <= l)
  BY <1>5
<1>7. \A l \in Positions : x[l] \in Int
  OBVIOUS
<1> QED  BY <1>6, <1>7

\* The last statements: they look for the peak, report it, and begin again.
Reporting == Search \/ EndSearch \/ MatlabCorrelate \/ NextRound

(* The search and the report. *)
LEMMA ReportingKeeps ==
  ASSUME CorrInv, Reporting
  PROVE  CorrInv'
<1>1. /\ Typed /\ SignalPart /\ TransformPart /\ PeakPart
      /\ UNCHANGED <<program, chirp, shift, recording, soundSamples, referenceSignal,
                     sampout, refout, out>>
  BY DEF CorrInv, Reporting, Search, EndSearch, MatlabCorrelate, NextRound, inputs, arrays
<1>2. /\ sampout' \in [Positions -> Complex] /\ refout' \in [Positions -> Complex]
      /\ out' \in [Positions -> Complex]
  BY <1>1 DEF Typed
<1>3. Matlab' = Matlab
  BY <1>1 DEF Matlab
<1>4. CASE Search
  <2>1. pc = "search" /\ pc' = "search" /\ PeakStep /\ spectrum' = spectrum
    BY <1>4 DEF Search, PeakStep
  <2>2. ~Matlab
    BY <1>1, <2>1 DEF Typed
  <2>3. PeakInv'
    BY <1>1, <2>1, <2>2, PeakInvNext DEF PeakPart
  <2>4. Typed' /\ SignalPart'
    BY <1>1, <1>2, <2>1, <2>2, RestIsTyped, SignalStays DEF Label
  <2>5. TransformPart'
    BY <1>1, <1>3, <2>1, <2>2 DEF TransformPart
  <2> QED  BY <1>3, <2>1, <2>2, <2>3, <2>4, <2>5 DEF CorrInv, PeakPart
<1>5. CASE EndSearch
  <2>1. pc = "search" /\ pc' = "report" /\ PeakDone /\ UNCHANGED peakVars
    BY <1>5 DEF EndSearch, Goto
  <2>2. ~Matlab
    BY <1>1, <2>1 DEF Typed
  <2>3. PeakInv'
    BY <1>1, <2>1, <2>2, PeakInvNext DEF PeakPart
  <2>4. Typed' /\ SignalPart'
    BY <1>1, <1>2, <2>1, <2>2, RestIsTyped, SignalStays DEF Label
  <2>5. TransformPart'
    BY <1>1, <1>3, <2>1, <2>2 DEF TransformPart, peakVars
  <2>6. PeakDone'
    BY <2>1 DEF PeakDone, peakVars
  <2> QED  BY <1>3, <2>2, <2>3, <2>4, <2>5, <2>6 DEF CorrInv, PeakPart
<1>6. CASE MatlabCorrelate
  <2>1. /\ pc = "transform" /\ pc' = "report"
        /\ spectrum' = [m \in Positions |-> Correlation(m)]
    BY <1>6 DEF MatlabCorrelate, Goto
  <2>2. PICK x : x = spectrum'
    OBVIOUS
  <2>3. index' = CHOOSE m \in Positions :
                   \A l \in Positions : x[l] < x[m] \/ (x[l] = x[m] /\ m <= l)
    BY <1>6, <2>2 DEF MatlabCorrelate
  <2>4. Matlab
    BY <1>1, <2>1 DEF Typed
  <2>5. /\ \A m \in Positions : x[m] = Corr(soundSamples, referenceSignal, m)
        /\ x = [m \in Positions |-> x[m]]
    BY <2>1, <2>2, CorrelationIsCorr
  <2>6. x \in [Positions -> Int]
    <3>1. /\ chirp[0] \in Loud /\ chirp[1] \in Loud
          /\ soundSamples \in [Positions -> Loud] /\ referenceSignal = Reference(chirp)
      BY <1>1, <2>1, ChirpIs DEF Typed, SignalPart
    <3>2. \A m \in Positions : Corr(soundSamples, referenceSignal, m) \in Int
      BY <3>1, CorrBounded DEF Loud
    <3> QED  BY <2>5, <3>2
  <2>7. PICK j : j = index'
    OBVIOUS
  <2>8. j \in Positions /\ \A l \in Positions : x[l] <= x[j]
    BY <2>3, <2>6, <2>7, FirstLargest
  <2>9. PeakPart'
    BY <1>1, <1>3, <2>4, <2>5, <2>7, <2>8 DEF PeakPart
  <2>10. Typed' /\ SignalPart'
    BY <1>1, <1>2, <2>1, RestIsTyped, SignalStays DEF Label
  <2> QED  BY <1>3, <2>1, <2>4, <2>9, <2>10 DEF CorrInv, TransformPart
<1>7. CASE NextRound
  <2>1. pc = "report" /\ pc' = "reference" /\ UNCHANGED peakVars
    BY <1>7 DEF NextRound, Goto
  <2>2. ~Matlab => PeakInv'
    BY <1>1, <2>1, PeakInvNext DEF PeakPart
  <2>3. Typed' /\ SignalPart'
    BY <1>1, <1>2, <2>1, RestIsTyped, SignalStays DEF Label
  <2> QED  BY <1>3, <2>1, <2>2, <2>3 DEF CorrInv, TransformPart, PeakPart
<1> QED  BY <1>4, <1>5, <1>6, <1>7 DEF Reporting

(* Every step preserves the invariant. *)
LEMMA CorrInvNext == CorrInv /\ [Next]_ccVars => CorrInv'
<1> SUFFICES ASSUME CorrInv, [Next]_ccVars PROVE CorrInv'
  OBVIOUS
<1>1. CASE UNCHANGED ccVars
  <2>1. UNCHANGED <<pc, program, chirp, shift, recording, soundSamples, referenceSignal,
                    sampout, refout, out, spectrum, index, peakVars>>
    BY <1>1 DEF ccVars, inputs, arrays, peakVars
  <2>2. ~Matlab => PeakInv'
    BY <2>1, PeakInvNext DEF CorrInv, PeakPart
  <2>3. PeakPart'
    BY <2>1, <2>2 DEF CorrInv, PeakPart, PeakDone, Matlab, peakVars
  <2>4. TransformPart'
    BY <2>1 DEF CorrInv, TransformPart, Transformed, Matlab
  <2> QED  BY <2>1, <2>3, <2>4 DEF CorrInv, Typed, SignalPart, Matlab, Simulated
<1>2. Next => Building \/ Transforming \/ Reporting
  BY DEF Next, Building, Transforming, Reporting
<1> QED  BY <1>1, <1>2, BuildingKeeps, TransformingKeeps, ReportingKeeps

\* What each statement leaves behind, of the signals, the transforms and the search.
THEOREM CorrInvariance == Spec => []CorrInv
BY CorrInvInit, CorrInvNext, PTL DEF Spec

--------------------------------------------------------------------------------
(* What is reported *)

\* The peak search sees N times the circular cross-correlation, for every
\* chirp, signal and content of the stack, although fft.execute() fills and
\* ifft reads only half of the complex arrays (localization.cpp:84-110).
THEOREM SearchesCorrelation == Spec => []IsCorrelation
<1>1. CorrInv => IsCorrelation
  <2> SUFFICES ASSUME CorrInv, pc = "search"
               PROVE  \A m \in Positions : spectrum[m] = N * Correlation(m)
    BY DEF IsCorrelation
  <2>1. ~Matlab
    BY DEF CorrInv, Typed
  <2> QED  BY <2>1, CorrelationIsCorr DEF CorrInv, TransformPart
<1> QED  BY <1>1, CorrInvariance, PTL

\* At the report the search has seen all of a correlation that fits an int.
LEMMA Reported ==
  ASSUME CorrInv, pc = "report", ~Matlab
  PROVE  /\ \A m \in Positions : /\ Corr(soundSamples, referenceSignal, m) \in Int
                                 /\ spectrum[m] = 4 * Corr(soundSamples, referenceSignal, m)
         /\ index \in Positions
         /\ \/ index = 0 /\ \A m \in Positions : spectrum[m] <= 0
            \/ \A m \in Positions : spectrum[m] < spectrum[index] + 1
<1>1. Typed /\ SignalPart /\ TransformPart /\ PeakPart
  BY DEF CorrInv
<1>2. /\ chirp[0] \in Loud /\ chirp[1] \in Loud
      /\ soundSamples \in [Positions -> Loud] /\ referenceSignal = Reference(chirp)
  BY <1>1, ChirpIs DEF Typed, SignalPart
<1>3. \A m \in Positions : /\ Corr(soundSamples, referenceSignal, m) \in Int
                           /\ spectrum[m] = N * Corr(soundSamples, referenceSignal, m)
                           /\ spectrum[m] <= IntMax
  BY <1>1, <1>2, CorrBounded DEF Loud, TransformPart
<1>4. \A m \in Positions : spectrum[m] = 4 * Corr(soundSamples, referenceSignal, m)
  BY <1>3, FourPoints
<1>5. Fits
  <2>1. \A v \in Int : v <= IntMax => Truncated(v) <= IntMax
    <3>1. Frac = 1 /\ IntMax \in Nat
      BY PeakAssumption, CorrelationAssumption
    <3>2. \A v \in Int : v \div 1 = v
      OBVIOUS
    <3> QED  BY <3>1, <3>2 DEF Truncated
  <2>2. \A m \in Positions : spectrum[m] \in Int
    BY <1>3, <1>4
  <2> QED  BY <1>3, <2>1, <2>2 DEF Fits
<1>6. PeakInv /\ PeakDone
  BY <1>1 DEF PeakPart
<1>7. PeakNear /\ index \in Positions
  BY <1>6, TracksPeak DEF PeakInv, PeakTypeOK
<1>8. Frac = 1
  BY CorrelationAssumption
<1> QED  BY <1>3, <1>4, <1>5, <1>6, <1>7, <1>8 DEF PeakNear

\* The simulated delay is the one found, whatever the chirp, the delay and the
\* stack, if the chirp is not silent (Cross Correlation.cpp:8, 29-39, 75).
THEOREM SimulatedShiftFound == Spec => []ShiftFound
<1>1. CorrInv => ShiftFound
  <2> SUFFICES ASSUME CorrInv, pc = "report", Simulated PROVE index = shift
    BY DEF ShiftFound
  <2>1. ~Matlab
    BY DEF Simulated, Matlab
  <2>2. /\ program = "Cross Correlation" /\ chirp \in Chirps[program] /\ shift \in {0, 1, 2}
        /\ referenceSignal = Reference(chirp) /\ soundSamples = Delayed(chirp, shift)
    BY DEF CorrInv, Typed, SignalPart, Simulated
  <2>3. chirp[0] \in Int /\ chirp[1] \in Int /\ (chirp[0] # 0 \/ chirp[1] # 0)
    BY <2>2, ChirpIs DEF Programs
  <2>4. /\ Corr(soundSamples, referenceSignal, shift) > 0
        /\ \A m \in Positions \ {shift} : Corr(soundSamples, referenceSignal, m)
                                          < Corr(soundSamples, referenceSignal, shift)
    BY <2>2, <2>3, DelayMatchesBest
  <2>5. shift \in Positions
    BY <2>2, FourPoints
  <2>6. PICK s : s = spectrum
    OBVIOUS
  <2>7. /\ \A m \in Positions : s[m] \in Int
        /\ s[shift] > 0
        /\ \A m \in Positions \ {shift} : s[m] <= s[shift] - 4
    BY <2>1, <2>4, <2>5, <2>6, Reported
  <2>8. /\ index \in Positions
        /\ \/ index = 0 /\ \A m \in Positions : s[m] <= 0
           \/ \A m \in Positions : s[m] < s[index] + 1
    BY <2>1, <2>6, Reported
  <2>9. s[shift] < s[index] + 1
    BY <2>5, <2>7, <2>8
  <2> QED  BY <2>5, <2>7, <2>8, <2>9
<1> QED  BY <1>1, CorrInvariance, PTL

\* The delay found is one at which the signal matches the chirp best, 0 if it
\* matches nowhere (localization.cpp:65-117): with the amplitudes of the
\* assumption, no conversion to int gets in the way.
THEOREM BestMatchIsFound == Spec => []BestMatchFound
<1>1. CorrInv => BestMatchFound
  <2> SUFFICES ASSUME CorrInv, pc = "report"
               PROVE  \/ \A m \in Positions : Correlation(m) <= Correlation(index)
                      \/ index = 0 /\ \A m \in Positions : Correlation(m) <= 0
    BY DEF BestMatchFound
  <2>1. CASE Matlab
    BY <2>1, CorrelationIsCorr DEF CorrInv, PeakPart
  <2>2. CASE ~Matlab
    <3>1. PICK c : c = [m \in Positions |-> Corr(soundSamples, referenceSignal, m)]
      OBVIOUS
    <3>2. \A m \in Positions : c[m] \in Int /\ spectrum[m] = 4 * c[m] /\ c[m] = Correlation(m)
      BY <2>2, <3>1, Reported, CorrelationIsCorr
    <3>3. /\ index \in Positions
          /\ \/ index = 0 /\ \A m \in Positions : spectrum[m] <= 0
             \/ \A m \in Positions : spectrum[m] < spectrum[index] + 1
      BY <2>2, Reported
    <3>4. /\ \A m \in Positions : spectrum[m] <= 0 => c[m] <= 0
          /\ \A m \in Positions : spectrum[m] < spectrum[index] + 1 => c[m] <= c[index]
      BY <3>2, <3>3
    <3> QED  BY <3>2, <3>3, <3>4
  <2> QED  BY <2>1, <2>2
<1> QED  BY <1>1, CorrInvariance, PTL

================================================================================
