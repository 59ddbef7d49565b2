--------------------------- MODULE MCPlanLifecycle ---------------------------
(* PlanLifecycle for TLC: two forward plans and a backward plan, with trees *)
(* of one object and of two. *)
EXTENDS PlanLifecycle, TLC

CONSTANTS a1, a2, b1, c1, c2, s1

Instr(op, v, i) == [op |-> op, v |-> v, i |-> i]

full == <<Instr("TW_FULL", 0, 4), Instr("TW_NEXT", 1, 0)>>
next == <<Instr("TW_FULL", 0, 0), Instr("TW_NEXT", 1, 0)>>
half == <<Instr("TW_HALF", 1, 0), Instr("TW_NEXT", 1, 0)>>
simd == <<Instr("TW_CEXP", 0, 1), Instr("TW_CEXP", 1, 1), Instr("TW_CEXP", 0, 2),
          Instr("TW_CEXP", 1, 2), Instr("TW_NEXT", 2, 0)>>
simd13 == <<Instr("TW_CEXP", 0, 1), Instr("TW_CEXP", 1, 1), Instr("TW_CEXP", 0, 3),
            Instr("TW_CEXP", 1, 3), Instr("TW_NEXT", 2, 0)>>

\* A radix-4 step of size 8 by two codelets, one with an extra iteration;
\* vector codelets of equal shape; a prime size.
short   == [n |-> 8, r |-> 4, m |-> 2, instr |-> full]
long    == [n |-> 8, r |-> 4, m |-> 3, instr |-> next]
vector  == [n |-> 8, r |-> 4, m |-> 2, instr |-> simd]
vector2 == [n |-> 8, r |-> 4, m |-> 2, instr |-> simd13]
odd     == [n |-> 5, r |-> 5, m |-> 2, instr |-> half]

MCUsers    == {a1, a2, b1, c1, c2, s1}
MCScratch  == {s1}
MCTrees    == <<{a1, a2}, {b1}, {c1, c2}>>
MCWanted   == a1 :> short @@ a2 :> vector @@ b1 :> short
           @@ c1 :> long @@ c2 :> vector2
MCRequests == {short, long, vector, vector2, odd}
================================================================================
