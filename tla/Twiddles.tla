-------------------------------- MODULE Twiddles --------------------------------
(***************************************************************************)
(* kernel/twiddle.c and kernel/plan.c of FFTW: the plan objects and the    *)
(* tables of twiddle factors they share.  A plan gets its table when it is *)
(* woken, with real factors to be executed or with zeros to be measured,   *)
(* and gives it up when it goes to sleep.  Tables are kept in a hash table *)
(* of lists, counted by reference, and handed to every plan whose request  *)
(* they satisfy.                                                           *)
(***************************************************************************)
EXTENDS Integers, Sequences, FiniteSets, SequencesExt

CONSTANTS
  Users,     \* plan objects with a pointer td to a table
  Tables,    \* blocks of memory for tables
  HASHSZ,    \* number of lists
  Requests,  \* what a plan may ask for: [n, r, m, instr]
  Awakeness, \* how plans are woken: AWAKE_ZERO to be measured, AWAKE_SINCOS or
             \* AWAKE_SQRTN_TABLE to be executed
  NULL

\* struct twid, without the contents W, which compute gives, and the link.
Twid == [n : Int, r : Int, m : Int, instr : {q.instr : q \in Requests},
         wakefulness : Awakeness, refcnt : Nat]

ASSUME HashAssumption  == HASHSZ \in Nat \ {0}
ASSUME RequestAssumption == \A q \in Requests : q.n \in Int /\ q.r \in Nat \ {0} /\ q.m \in Nat

\* A program of instructions ends with its only TW_NEXT, whose v, the step of
\* the loop around it, is positive.
Instructions == [op : {"TW_COS", "TW_SIN", "TW_CEXP", "TW_NEXT", "TW_FULL", "TW_HALF"},
                 v : Int, i : Int]
IsProgram(p) ==
  /\ p \in Seq(Instructions) /\ p # <<>>
  /\ \A k \in DOMAIN p : p[k].op = "TW_NEXT" <=> k = Len(p)
  /\ Last(p).v > 0

ASSUME ProgramAssumption == \A q \in Requests : IsProgram(q.instr)
ASSUME TableAssumption ==
  /\ IsFiniteSet(Users)
  /\ NULL \notin Tables \cup Requests \cup Twid
  /\ Awakeness \cap {"SLEEPY", "none"} = {}

Wakefulness == Awakeness \cup {"SLEEPY", "none"}

VARIABLES
  wakefulness, \* of each plan; "none" if there is no such plan
  req,         \* what each plan will ask for
  td,          \* each plan's pointer to its table
  tab,         \* the tables: NULL for free memory
  twlist       \* the lists

vars == <<wakefulness, req, td, tab, twlist>>

Abs(x) == IF x < 0 THEN -x ELSE x

hash(n, r) == Abs(n * 17 + r) % HASHSZ

\* Mutant of equal_instr: i is ignored in all instructions.
equal_instr_ignoring_i(p, q) ==
  /\ Len(p) = Len(q)
  /\ \A k \in DOMAIN p : p[k].op = q[k].op /\ p[k].v = q[k].v

\* Two programs are equal if they have the same instructions; where the
\* instruction does not use i, it is ignored.
equal_instr(p, q) ==
  /\ Len(p) = Len(q)
  /\ \A k \in DOMAIN p :
       /\ p[k].op = q[k].op
       /\ p[k].v = q[k].v
       /\ p[k].op \in {"TW_NEXT", "TW_FULL", "TW_HALF"} \/ p[k].i = q[k].i

\* The table a program asks for, as the angles (in units of 1/n of a turn)
\* whose factors are put in it, one step of vl at a time.
compute(w, instr, n, r, m) ==
  LET vl == Last(instr).v
      body == Front(instr)
      angle(j, p, i) == <<w, p.op, ((j + p.v) * i) % n>>
      step(j, p) == CASE p.op = "TW_FULL" -> [i \in 1 .. r - 1 |-> angle(j, p, i)]
                      [] p.op = "TW_HALF" -> [i \in 1 .. (r - 1) \div 2 |-> angle(j, p, i)]
                      [] OTHER            -> <<angle(j, p, p.i)>>
  IN FlattenSeq([k \in 1 .. (m \div vl) * Len(body) |->
       step(vl * ((k - 1) \div Len(body)), body[1 + ((k - 1) % Len(body))])])

Needed(w, q) == compute(w, q.instr, q.n, q.r, q.m)

\* Mutant of ok_twid: a table is taken whatever its length.
ok_twid_any_length(t, w, q) ==
  /\ w = t.wakefulness
  /\ q.n = t.n
  /\ q.r = t.r
  /\ equal_instr(t.instr, q.instr)

\* A table serves a request for the same factors of the same length or less.
ok_twid(t, w, q) ==
  /\ w = t.wakefulness
  /\ q.n = t.n
  /\ q.r = t.r
  /\ q.m <= t.m
  /\ equal_instr(t.instr, q.instr)

\* The first table of the list that serves, or NULL.
lookup(w, q) ==
  LET list == twlist[hash(q.n, q.r)]
      serves == {k \in DOMAIN list : ok_twid(tab[list[k]], w, q)}
  IN IF serves = {} THEN NULL
     ELSE list[CHOOSE k \in serves : \A l \in serves : k <= l]

--------------------------------------------------------------------------------
Init ==
  /\ wakefulness = [u \in Users |-> "none"]
  /\ req = [u \in Users |-> NULL]
  /\ td = [u \in Users |-> NULL]
  /\ tab = [t \in Tables |-> NULL]
  /\ twlist = [h \in 0 .. HASHSZ - 1 |-> <<>>]

\* A solver makes a plan: asleep, with no table.
mkplan(u, q) ==
  /\ wakefulness[u] = "none"
  /\ wakefulness' = [wakefulness EXCEPT ![u] = "SLEEPY"]
  /\ req' = [req EXCEPT ![u] = q]
  /\ td' = [td EXCEPT ![u] = NULL]
  /\ UNCHANGED <<tab, twlist>>

\* mktwiddle, when a table serves: it is shared.
ShareTable(u, w) ==
  LET t == lookup(w, req[u])
  IN /\ t # NULL
     /\ tab' = [tab EXCEPT ![t].refcnt = @ + 1]
     /\ td' = [td EXCEPT ![u] = t]
     /\ UNCHANGED twlist

\* mktwiddle, when none serves: a table is made and put first in its list.
NewTable(u, w) ==
  LET q == req[u]
      h == hash(q.n, q.r)
  IN /\ lookup(w, q) = NULL
     /\ \E t \in {x \in Tables : tab[x] = NULL} :
          /\ tab' = [tab EXCEPT ![t] =
               [n |-> q.n, r |-> q.r, m |-> q.m, instr |-> q.instr,
                wakefulness |-> w, refcnt |-> 1]]
          /\ twlist' = [twlist EXCEPT ![h] = <<t>> \o @]
          /\ td' = [td EXCEPT ![u] = t]

\* plan_awake with a wakefulness other than SLEEPY.
Awake(u, w) ==
  /\ wakefulness[u] = "SLEEPY"
  /\ ShareTable(u, w) \/ NewTable(u, w)
  /\ wakefulness' = [wakefulness EXCEPT ![u] = w]
  /\ UNCHANGED req

\* twiddle_destroy, when others still use the table.  The pointer stays.
ReleaseTable(t) ==
  /\ tab[t].refcnt > 1
  /\ tab' = [tab EXCEPT ![t].refcnt = @ - 1]
  /\ UNCHANGED <<td, twlist>>

\* The list without the entry for t.
Unlinked(list, t) ==
  LET at == CHOOSE k \in DOMAIN list : list[k] = t
  IN [k \in 1 .. Len(list) - 1 |-> IF k < at THEN list[k] ELSE list[k + 1]]

\* Mutant of FreeTable: the last user leaves the table behind.
FreeTableForgotten(u, t) ==
  /\ tab[t].refcnt = 1
  /\ tab' = [tab EXCEPT ![t].refcnt = 0]
  /\ td' = [td EXCEPT ![u] = NULL]
  /\ UNCHANGED twlist

\* twiddle_destroy by the last user: the table is taken out of its list and
\* freed, and the pointer is cleared.
FreeTable(u, t) ==
  LET h == hash(tab[t].n, tab[t].r)
  IN /\ tab[t].refcnt = 1
     /\ tab' = [tab EXCEPT ![t] = NULL]
     /\ twlist' = [twlist EXCEPT ![h] = Unlinked(@, t)]
     /\ td' = [td EXCEPT ![u] = NULL]

\* plan_awake with SLEEPY.
Sleep(u) ==
  /\ wakefulness[u] \in Awakeness
  /\ ReleaseTable(td[u]) \/ FreeTable(u, td[u])
  /\ wakefulness' = [wakefulness EXCEPT ![u] = "SLEEPY"]
  /\ UNCHANGED req

\* plan_destroy_internal, of a plan that sleeps.
plan_destroy(u) ==
  /\ wakefulness[u] = "SLEEPY"
  /\ wakefulness' = [wakefulness EXCEPT ![u] = "none"]
  /\ req' = [req EXCEPT ![u] = NULL]
  /\ td' = [td EXCEPT ![u] = NULL]
  /\ UNCHANGED <<tab, twlist>>

Next ==
  \E u \in Users :
    \/ \E q \in Requests : mkplan(u, q)
    \/ \E w \in Awakeness : Awake(u, w)
    \/ Sleep(u)
    \/ plan_destroy(u)

Spec == Init /\ [][Next]_vars

--------------------------------------------------------------------------------
(* Properties *)

Live     == {t \in Tables : tab[t] # NULL}
Using(t) == {u \in Users : wakefulness[u] \in Awakeness /\ td[u] = t}

\* Every variable has its type.
TypeOK ==
  /\ wakefulness \in [Users -> Wakefulness]
  /\ req \in [Users -> Requests \cup {NULL}]
  /\ td \in [Users -> Tables \cup {NULL}]
  /\ tab \in [Tables -> Twid \cup {NULL}]
  /\ twlist \in [0 .. HASHSZ - 1 -> Seq(Tables)]
  /\ \A u \in Users : req[u] = NULL <=> wakefulness[u] = "none"

\* The count of a table is the number of plans that are awake on it, and is
\* not zero: nothing is freed under a plan, nothing is kept for nobody
\* (twiddle.c:203, 229).
CountsUsers == \A t \in Live : tab[t].refcnt = Cardinality(Using(t)) /\ Using(t) # {}

\* A plan that is awake has a table, and one that serves its request: no
\* plan is executed with the zeros of a measurement, or past the end of a
\* shorter table (lines 67-76).
HasTable ==
  \A u \in Users : wakefulness[u] \in Awakeness =>
    /\ td[u] \in Live
    /\ tab[td[u]].wakefulness = wakefulness[u]
    /\ tab[td[u]].n = req[u].n /\ tab[td[u]].r = req[u].r /\ tab[td[u]].m >= req[u].m

\* The lists hold the live tables, each once and in the list where it will
\* be looked for.
ListedOnce ==
  /\ \A t \in Live : \E k \in DOMAIN twlist[hash(tab[t].n, tab[t].r)] :
       twlist[hash(tab[t].n, tab[t].r)][k] = t
  /\ \A h \in DOMAIN twlist : \A k \in DOMAIN twlist[h] :
       /\ twlist[h][k] \in Live
       /\ hash(tab[twlist[h][k]].n, tab[twlist[h][k]].r) = h
       /\ \A l \in DOMAIN twlist[h] : twlist[h][k] = twlist[h][l] => k = l

\* What the execution of a plan reads: as many entries of its table as it
\* asked for.
Reads(u) ==
  IF wakefulness[u] \notin Awakeness THEN <<>>
  ELSE IF td[u] \notin Live THEN <<"freed">>
  ELSE LET t == tab[td[u]]
           W == compute(t.wakefulness, t.instr, t.n, t.r, t.m)
           length == Len(Needed(wakefulness[u], req[u]))
       IN IF length > Len(W) THEN <<"past the end">> ELSE SubSeq(W, 1, length)

Private == INSTANCE PrivateTables WITH
  asked <- [u \in Users |-> IF wakefulness[u] = "none" THEN NULL ELSE req[u]],
  table <- [u \in Users |-> Reads(u)]

\* Sharing cannot be told from each plan having a table of its own.
SharingIsInvisible == Private!Spec
================================================================================
