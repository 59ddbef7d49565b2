------------------------------ MODULE MCExperiments ------------------------------
(* The table of deltax.m for TLC, in units of a quarter of a millimetre.       *)
EXTENDS Experiments

\* The literal error of deltax.m:34.
Literal == 40

MCDeltas == {-Literal, -10, -3, 0, 1, 6, 25, Literal, 240}

\* Near the margins, near the axes of the table and between them.
MCPoints == {1200, 5000, 12000, 15500, 22800} \X {1200, 6100, 10000, 18800}
================================================================================
