------------------------------ MODULE Trilateration ------------------------------
(***************************************************************************)
(* Megha's Algorithm/deltax.m: the four distances of a point E to the      *)
(* corners of a table carry a common error (delta).  Each of 20 rounds     *)
(* intersects the circles (drawa_quad.m, circle_intersection.m), measures  *)
(* how far the centre of the four intersections is from them, and shortens *)
(* or lengthens all distances by seven tenths of that; which of the two, a *)
(* trial decides (check_direction.m).                                      *)
(*                                                                         *)
(* Lengths are whole numbers of a unit that stands for the resolution of   *)
(* the arithmetic; roots and quotients are rounded to it.  So, as with     *)
(* doubles, intersections that are closer than that coincide, and slopes   *)
(* of lines through them are not numbers.                                  *)
(***************************************************************************)
EXTENDS Integers

CONSTANTS
  Rounds,         \* 20
  Length, Height, \* of the table
  Points,         \* the points considered, inside the margins
  Deltas,         \* the errors that the distances start with
  Resolution      \* of the results

ASSUME TrilaterationAssumption ==
  /\ Rounds \in Nat /\ Resolution \in Nat
  /\ Length \in Nat \ {0} /\ Height \in Nat \ {0}
  /\ Points \subseteq (0 .. Length) \X (0 .. Height)
  /\ Deltas \subseteq Int

VARIABLES
  stage,
  x1Given,   \* does MATLAB find an x1 (circle_intersection.m:8)?
  E,         \* the point
  s,
  bias,      \* the common error of the distances now
  nan,       \* are the distances not numbers?
  f,         \* the direction found by the trial
  e,         \* drawa_quad's result(2,1) for this round's distances
  X          \* what X holds: is it a point?

deltaxVars == <<stage, x1Given, E, s, bias, nan, f, e, X>>

Abs(x) == IF x < 0 THEN -x ELSE x

--------------------------------------------------------------------------------
(* Geometry *)

\* The root of n, rounded down, ...
Root[n \in Nat] ==
  IF n = 0 THEN 0
  ELSE LET r == 2 * Root[n \div 4] IN IF (r + 1) * (r + 1) <= n THEN r + 1 ELSE r

\* ... and to the nearest unit.
sqrt(n) == IF n - Root[n] * Root[n] > Root[n] THEN Root[n] + 1 ELSE Root[n]

Plus(p, q)  == <<p[1] + q[1], p[2] + q[2]>>
Minus(p, q) == <<p[1] - q[1], p[2] - q[2]>>
Dist(p, q)  == LET v == Minus(p, q) IN sqrt(v[1] * v[1] + v[2] * v[2])

Corner == [A |-> <<0, 0>>, B |-> <<Length, 0>>, C |-> <<Length, Height>>, D |-> <<0, Height>>]

\* The four distances with the error b.
Distances(b) == [c \in DOMAIN Corner |-> Dist(E, Corner[c]) + b]

\* Of the circles with these radii about the ends of a side of length d, an
\* intersection, seen from the first end: so far along the side, so far off it.
circle_intersection(d, r1, r2) ==
  LET along == ((r1 - r2) * (r1 + r2) + d * d + d) \div (2 * d)
  IN  <<along, sqrt(r1 * r1 - along * along)>>

Meet(d, r1, r2) == d <= r1 + r2 /\ d >= Abs(r1 - r2)

\* The circles about neighbouring corners meet; if not, drawa_quad indexes an
\* empty array.  The function needs x1, which it does not define (its parameter
\* x holds it as x(1)).
CirclesMeet(r) ==
  /\ x1Given
  /\ Meet(Length, r.D, r.C) /\ Meet(Length, r.B, r.A)
  /\ Meet(Height, r.D, r.A) /\ Meet(Height, r.B, r.C)

\* The intersections inside the table, opposite D-C, D-A, B-C and B-A.
Quadrilateral(r) ==
  LET dc == circle_intersection(Length, r.D, r.C)
      da == circle_intersection(Height, r.D, r.A)
      bc == circle_intersection(Height, r.B, r.C)
      ba == circle_intersection(Length, r.B, r.A)
  IN  <<<<dc[1], Height - dc[2]>>, <<da[2], Height - da[1]>>,
        <<Length - bc[2], bc[1]>>, <<Length - ba[1], ba[2]>>>>

\* Mutant of centre_quadrilateral: two of the sides are taken twice.
centre_quadrilateral_twice(q) ==
  <<Plus(q[1], q[2]), Plus(q[4], q[3]), Plus(q[4], q[3]), Plus(q[1], q[2])>>

\* The middles of its sides, times two: two lines join opposite ones.
centre_quadrilateral(q) ==
  <<Plus(q[1], q[2]), Plus(q[4], q[3]), Plus(q[4], q[2]), Plus(q[1], q[3])>>

\* A line is vertical or both have one slope: what is computed from the slopes
\* is then not a number.
Degenerate(r) ==
  LET cp == centre_quadrilateral(Quadrilateral(r))
      v1 == Minus(cp[2], cp[1])
      v2 == Minus(cp[4], cp[3])
  IN  v1[1] = 0 \/ v2[1] = 0 \/ v1[2] * v2[1] = v2[2] * v1[1]

\* The lines bisect each other, at the mean of the four intersections.
F(r) ==
  LET cp  == centre_quadrilateral(Quadrilateral(r))
      sum == Plus(cp[1], cp[2])
  IN  <<(sum[1] + 2) \div 4, (sum[2] + 2) \div 4>>

\* Mutant of drawa_quad: the average keeps its sign.
drawa_quad_signed(r) ==
  LET off(c) == Dist(F(r), Corner[c]) - r[c]
  IN  (7 * (off("A") + off("B") + off("C") + off("D")) + 20) \div 40

\* Seven tenths of the average distance from F to the circles.
drawa_quad(r) ==
  LET off(c) == Dist(F(r), Corner[c]) - r[c]
  IN  (7 * Abs(off("A") + off("B") + off("C") + off("D")) + 20) \div 40

--------------------------------------------------------------------------------
(* The program *)

DeltaxInit ==
  /\ stage = "check" /\ s = 0
  /\ x1Given \in BOOLEAN /\ E \in Points
  /\ bias \in Deltas
  /\ nan = FALSE /\ f = 1 /\ e = 0 /\ X = "zeros"

\* Mutant of check_direction: < for >.
check_direction_swapped(d) ==
  LET r == Distances(bias + d)
  IN  IF ~Degenerate(r) /\ drawa_quad(r) < d THEN 0 ELSE 1

\* The trial lengthens its copies of the distances by the error d.  A
\* comparison with what is not a number is false.
check_direction(d) ==
  LET r == Distances(bias + d)
  IN  IF ~Degenerate(r) /\ drawa_quad(r) > d THEN 0 ELSE 1

\* No error ends the trial or the round's own call, which gives what the first
\* of the trial gave: circles of which the radii are not numbers pass the test.
NoError ==
  LET r == Distances(bias)
  IN  /\ x1Given
      /\ nan \/ CirclesMeet(r)
      /\ nan \/ Degenerate(r) \/ CirclesMeet(Distances(bias + drawa_quad(r)))

\* A round, up to its own call of drawa_quad.
Check ==
  /\ stage = "check" /\ s < Rounds
  /\ NoError
  /\ stage' = "correct"
  /\ LET r == Distances(bias)
     IN  IF nan \/ Degenerate(r)
         THEN nan' = TRUE /\ X' = "nan" /\ f' = 1 /\ UNCHANGED e
         ELSE /\ e' = drawa_quad(r) /\ f' = check_direction(e')
              /\ X' = "point" /\ UNCHANGED nan
  /\ UNCHANGED <<x1Given, E, s, bias>>

\* An error ends the program.
Fail ==
  /\ stage = "check" /\ s < Rounds
  /\ ~NoError
  /\ stage' = "failed"
  /\ UNCHANGED <<x1Given, E, s, bias, nan, f, e, X>>

\* Mutant of Correct: drawa_quad's error without the 0.7.
CorrectInFull ==
  /\ stage = "correct" /\ stage' = "check"
  /\ s' = s + 1
  /\ IF nan THEN UNCHANGED bias
     ELSE bias' = IF f = 0 THEN bias - (10 * e) \div 7 ELSE bias + (10 * e) \div 7
  /\ UNCHANGED <<x1Given, E, nan, f, e, X>>

\* The rest of the round: the correction.
Correct ==
  /\ stage = "correct" /\ stage' = "check"
  /\ s' = s + 1
  /\ IF nan THEN UNCHANGED bias
     ELSE bias' = IF f = 0 THEN bias - e ELSE bias + e
  /\ UNCHANGED <<x1Given, E, nan, f, e, X>>

Done ==
  /\ stage = "check" /\ s = Rounds /\ stage' = "done"
  /\ UNCHANGED <<x1Given, E, s, bias, nan, f, e, X>>

\* The program has ended.
Ended ==
  /\ stage \in {"failed", "done"}
  /\ UNCHANGED deltaxVars

DeltaxNext == Check \/ Fail \/ Correct \/ Done \/ Ended

--------------------------------------------------------------------------------
(* Properties *)

\* Within the resolution of the results.
Converged == Abs(bias) <= Resolution

\* An error d as drawa_quad gives it for a bias b: it shows the bias to within
\* a good third, more closely when the distances are too long.
Shows(b, d) ==
  /\ d \in Nat
  /\ IF b < 0 THEN 100 * d \in -70 * b - 100 .. -141 * b + 100
     ELSE 100 * d \in 62 * b - 100 .. 116 * b + 100

\* So do the intersections for distances with this bias, if there is a point.
Tells(b) ==
  LET r == Distances(b)
  IN  IF Degenerate(r) THEN Abs(b) <= Resolution ELSE Shows(b, drawa_quad(r))

\* The mean of the intersections shows how wrong the distances are, wherever
\* the point is, in every round and its trial (drawa_quad.m:32-73,
\* circle_intersection.m:16-25).
ResidualShows == stage = "correct" /\ ~nan => Tells(bias) /\ Tells(bias + e)

\* Every correction brings the distances closer to the true ones, or keeps
\* them as close as the arithmetic tells: the residual has no sign, the trial
\* finds it (deltax.m:62-79, check_direction.m:10-21).
NeverAway == [][Abs(bias') < Abs(bias) \/ (Converged /\ Converged')]_bias

\* The circles of every round and trial meet, so that no index is out of
\* bounds and no error ends the program, provided x1 is given
\* (drawa_quad.m:13-35); without it no round is completed.
AllRounds == IF x1Given THEN stage # "failed" ELSE s = 0

\* No line of the quadrilateral is vertical or meets the other nowhere, so that
\* the point is no number, before the distances have converged
\* (drawa_quad.m:47-56, deltax.m:62-65).
LostOnlyWhenConverged == X = "nan" => Converged

================================================================================
