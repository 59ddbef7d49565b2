----------------------------- MODULE SolutionTable ------------------------------
(***************************************************************************)
(* FFTW's hash table of solutions (kernel/planner.c): open addressing with *)
(* double hashing, in tables whose size is prime.  A slot that held a      *)
(* solution stays valid when the solution is killed, so that searches go   *)
(* on behind it.  A solution says which solver to use for a problem under  *)
(* the flags l and u, or that no solver is known within the time limit.    *)
(*                                                                         *)
(* A signature is the problem it is the MD5 sum of.  Of its words only the *)
(* two matter that the table is addressed with.                            *)
(***************************************************************************)
EXTENDS Integers, FiniteSets, SequencesExt

CONSTANTS
  Signatures,  \* the signatures of problems
  Words,       \* the first two words of each
  INFEASIBLE,  \* the solver index that stands for none
  NULL

ASSUME WordsAssumption == Words \in [Signatures -> Nat \X Nat]

\* Mutant of Subsumes: a solution is good whatever was asked for.
SubsumesLoosely(a, b) ==
  IF a.slvndx # INFEASIBLE THEN a.u \subseteq b.u ELSE a.l \subseteq b.l /\ a.limit <= b.limit

\* a subsumes b, where b may be flags only.
Subsumes(a, b) ==
  IF a.slvndx # INFEASIBLE
  THEN a.u \subseteq b.u /\ b.l \subseteq a.l
  ELSE a.l \subseteq b.l /\ a.limit <= b.limit

-----------------------------------------------------------------------------
(* A slot is [valid, sol], live unless sol is NULL. *)
Empty == [valid |-> FALSE, sol |-> NULL]

\* Mutant of Tombstone: kill_slot sets hash_info to zero.
KilledInvalid == [valid |-> FALSE, sol |-> NULL]

Tombstone == [valid |-> TRUE, sol |-> NULL]

hashsiz(ht) == Len(ht.slots)
Live(ht)    == {g \in DOMAIN ht.slots : ht.slots[g].sol # NULL}

\* The slot that a search for s looks at after n others.
Place(ht, s, n) ==
  LET h1 == Words[s][1] % hashsiz(ht)
      h2 == 1 + (Words[s][2] % (hashsiz(ht) - 1))
  IN  1 + ((h1 + n * h2) % hashsiz(ht))

Slot(ht, s, n) == ht.slots[Place(ht, s, n)]

\* How many slots htab_lookup and htab_insert have passed at each they look at:
\* they end with the first invalid one, or when they are back at the first.
Seen(ht, s) ==
  LET path == 0 .. hashsiz(ht) - 1
      stop == {n \in path : ~Slot(ht, s, n).valid \/ (n > 0 /\ Place(ht, s, n) = Place(ht, s, 0))}
  IN  {n \in path : \A m \in stop : n < m}

\* Where they meet a solution for s.
Matching(ht, s) == {n \in Seen(ht, s) : Slot(ht, s, n).sol # NULL /\ Slot(ht, s, n).sol.s = s}

\* Of the solutions that subsume the flags, one with the lowest u.
htab_lookup(ht, s, flags) ==
  LET found == {n \in Matching(ht, s) : Subsumes(Slot(ht, s, n).sol, flags)}
      best[n \in 0 .. hashsiz(ht)] ==
        IF n = 0 THEN NULL
        ELSE LET sofar == best[n - 1]
                 l     == Slot(ht, s, n - 1).sol
             IN  IF n - 1 \in found /\ (sofar = NULL \/ l.u \subseteq sofar.u) THEN l ELSE sofar
  IN  best[hashsiz(ht)]

fill_slot(ht, g, sol) ==
  [slots |-> [ht.slots EXCEPT ![g] = [valid |-> TRUE, sol |-> sol]], nelem |-> ht.nelem + 1]

\* The first slot of the search that is not live.
hinsert0(ht, sol) ==
  LET free == {n \in 0 .. hashsiz(ht) - 1 : Place(ht, sol.s, n) \notin Live(ht)}
  IN  fill_slot(ht, Place(ht, sol.s, CHOOSE n \in free : \A m \in free : n <= m), sol)

Prime(q) == q > 1 /\ \A d \in 2 .. q - 1 : q % d # 0

next_prime(n) ==
  LET primes == {q \in n .. 2 * n + 2 : Prime(q)} IN CHOOSE q \in primes : \A r \in primes : q <= r

minsz(n)  == 1 + n + n \div 8
nextsz(n) == minsz(minsz(n))

rehash(ht, nsiz) ==
  LET copy[g \in 0 .. hashsiz(ht)] ==
        IF g = 0 THEN [slots |-> [h \in 1 .. next_prime(nsiz) |-> Empty], nelem |-> 0]
        ELSE IF ht.slots[g].sol = NULL THEN copy[g - 1] ELSE hinsert0(copy[g - 1], ht.slots[g].sol)
  IN  copy[hashsiz(ht)]

hgrow(ht) == IF minsz(ht.nelem) >= hashsiz(ht) THEN rehash(ht, nextsz(ht.nelem)) ELSE ht

mkhashtab == hgrow([slots |-> <<>>, nelem |-> 0])

\* Mutant of Subsumed: those the new one is subsumed by.
SubsumedBy(ht, sol) == {n \in Matching(ht, sol.s) : Subsumes(Slot(ht, sol.s, n).sol, sol)}

\* Where a search meets the solutions that are subsumed by the new one.
Subsumed(ht, sol) == {n \in Matching(ht, sol.s) : Subsumes(sol, Slot(ht, sol.s, n).sol)}

\* They are killed, and the first of them is overwritten.
htab_insert(ht, sol) ==
  LET dead   == Subsumed(ht, sol)
      killed == {Place(ht, sol.s, n) : n \in dead}
      kill   == [slots |-> [g \in DOMAIN ht.slots |-> IF g \in killed THEN Tombstone ELSE ht.slots[g]],
                 nelem |-> ht.nelem - Cardinality(killed)]
      first  == CHOOSE n \in dead : \A m \in dead : n <= m
  IN  IF dead = {} THEN hinsert0(hgrow(ht), sol) ELSE fill_slot(kill, Place(ht, sol.s, first), sol)

-----------------------------------------------------------------------------
(* Properties of a table, for the modules that keep one. *)
Solutions(ht) == {ht.slots[g].sol : g \in Live(ht)}

\* The search for a problem sees every solution for it.
Finds(ht) ==
  \A s \in Signatures :
    {Place(ht, s, n) : n \in Matching(ht, s)} = {g \in Live(ht) : ht.slots[g].sol.s = s}

\* No two solutions of which one makes the other useless.
Irredundant(ht) ==
  \A g, h \in Live(ht) :
    g # h /\ ht.slots[g].sol.s = ht.slots[h].sol.s
      => ~Subsumes(ht.slots[g].sol, ht.slots[h].sol)

Counted(ht) == ht.nelem = Cardinality(Live(ht)) /\ ht.nelem < hashsiz(ht)
================================================================================
