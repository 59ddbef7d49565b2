------------------------------ MODULE ParallelLoop ------------------------------
(***************************************************************************)
(* What spawn_loop promises its callers: every iteration of a loop is      *)
(* executed once, and the call returns only after the last of them.        *)
(***************************************************************************)
EXTENDS Naturals, Sequences

CONSTANT LoopMaxes  \* the lengths of loops

VARIABLES
  times,  \* for every call, how often each iteration was executed
  open    \* the calls that have not returned

vars == <<times, open>>

Init == times = <<>> /\ open = {}

Call ==
  /\ \E loopmax \in LoopMaxes : times' = Append(times, [k \in 0 .. loopmax - 1 |-> 0])
  /\ open' = open \cup {Len(times) + 1}

Execute(c) ==
  /\ \E its \in SUBSET DOMAIN times[c] :
       /\ its # {} /\ \A k \in its : times[c][k] = 0
       /\ times' = [times EXCEPT ![c] = [k \in DOMAIN @ |-> IF k \in its THEN 1 ELSE @[k]]]
  /\ UNCHANGED open

Return(c) ==
  /\ \A k \in DOMAIN times[c] : times[c][k] = 1
  /\ open' = open \ {c}
  /\ UNCHANGED times

Next == Call \/ \E c \in open : Execute(c) \/ Return(c)

Spec == Init /\ [][Next]_vars
================================================================================
