----------------------------- MODULE PrivateTables -----------------------------
(***************************************************************************)
(* What FFTW's plans are promised: from being woken to being put to sleep  *)
(* a plan has a table of its own, computed for what it asked for.          *)
(***************************************************************************)
CONSTANTS Users, Requests, NULL, Awakeness, Needed(_, _)

VARIABLES
  asked, \* the request of each plan, NULL if there is no such plan
  table  \* the table of each plan, empty while it sleeps

vars == <<asked, table>>

Init == asked = [u \in Users |-> NULL] /\ table = [u \in Users |-> <<>>]

Create(u) ==
  /\ asked[u] = NULL
  /\ \E q \in Requests : asked' = [asked EXCEPT ![u] = q]
  /\ UNCHANGED table

Wake(u) ==
  /\ asked[u] # NULL /\ table[u] = <<>>
  /\ \E w \in Awakeness : table' = [table EXCEPT ![u] = Needed(w, asked[u])]
  /\ UNCHANGED asked

Sleep(u) ==
  /\ table' = [table EXCEPT ![u] = <<>>]
  /\ UNCHANGED asked

Destroy(u) ==
  /\ table[u] = <<>>
  /\ asked' = [asked EXCEPT ![u] = NULL]
  /\ UNCHANGED table

Next == \E u \in Users : Create(u) \/ Wake(u) \/ Sleep(u) \/ Destroy(u)

Spec == Init /\ [][Next]_vars
================================================================================
