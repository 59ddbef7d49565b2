-------------------------- MODULE PlanLifecycleProofs --------------------------
(***************************************************************************)
(* The shared twiddle tables and the rounds that use them.                 *)
(*                                                                         *)
(* The books of the tables are right, and sharing cannot be noticed, for   *)
(* any set of plans, requests and lists: these theorems are about Twiddles *)
(* and use none of the constants of PlanLifecycle.  In the rounds, for any *)
(* number of plans of any objects, where the program is tells how far each *)
(* plan has come, and what it is awake for.                                *)
(***************************************************************************)
EXTENDS PlanLifecycle, TLAPS, FiniteSetTheorems, SequenceTheorems, WellFoundedInduction

(* The books of the shared tables *)

TableInv == TypeOK /\ CountsUsers /\ HasTable /\ ListedOnce

(* A hash is the number of a list. *)
LEMMA HashRange ==
  ASSUME NEW n \in Int, NEW r \in Int
  PROVE  hash(n, r) \in 0 .. HASHSZ - 1
BY HashAssumption DEF hash, Abs

(* A set of naturals that is not empty has a least element. *)
LEMMA LeastNatural ==
  ASSUME NEW S \in SUBSET Nat, S # {}
  PROVE  \E i \in S : \A l \in S : i <= l
<1>1. PICK i \in S : \A l \in S : <<l, i>> \notin OpToRel(<, Nat)
  BY NatLessThanWellFounded, WFMin, Zenon
<1>2. \A l \in S : ~ (l < i)
  BY <1>1 DEF OpToRel
<1>3. i \in Nat /\ \A l \in S : l \in Nat
  OBVIOUS
<1>4. \A l \in S : i <= l
  BY <1>2, <1>3
<1> QED  BY <1>4

(* What lookup finds is in the list it searched and serves the request. *)
LEMMA LookupFinds ==
  ASSUME NEW w, NEW q, lookup(w, q) # NULL, TypeOK, hash(q.n, q.r) \in DOMAIN twlist
  PROVE  \E i \in DOMAIN twlist[hash(q.n, q.r)] :
           /\ lookup(w, q) = twlist[hash(q.n, q.r)][i]
           /\ ok_twid(tab[lookup(w, q)], w, q)
<1> DEFINE list == twlist[hash(q.n, q.r)]
           serves == {i \in DOMAIN list : ok_twid(tab[list[i]], w, q)}
           first == CHOOSE i \in serves : \A l \in serves : i <= l
<1>1. serves # {} /\ lookup(w, q) = list[first]
  BY DEF lookup
<1>2. serves \in SUBSET Nat
  BY DEF TypeOK
<1>3. first \in serves
  <2> HIDE DEF serves
  <2> QED  BY <1>1, <1>2, LeastNatural
<1> QED  BY <1>1, <1>3

(* The plans that use a table are finitely many. *)
LEMMA UsingFinite == \A t : IsFiniteSet(Using(t))
BY TableAssumption, FS_Subset DEF Using

--------------------------------------------------------------------------------
(* The books are right when there is nothing. *)
LEMMA TableInvInit == Init => TableInv
BY HashAssumption, TableAssumption
   DEF Init, TableInv, TypeOK, CountsUsers, HasTable, ListedOnce, Live, Wakefulness

(* Making and destroying a plan that sleeps touches no table and no user of *)
(* one. *)
LEMMA MakeDestroyKeep ==
  ASSUME TableInv, NEW u \in Users,
         (\E q \in Requests : mkplan(u, q)) \/ plan_destroy(u)
  PROVE  TableInv'
<1> USE TableAssumption DEF TableInv, Wakefulness
<1>1. /\ wakefulness[u] \notin Awakeness /\ wakefulness'[u] \notin Awakeness
      /\ \A v \in Users \ {u} : /\ wakefulness'[v] = wakefulness[v]
                                /\ td'[v] = td[v] /\ req'[v] = req[v]
      /\ UNCHANGED <<tab, twlist>>
  BY DEF mkplan, plan_destroy, TypeOK
<1>2. TypeOK'
  <2>1. CASE plan_destroy(u)
    BY <2>1 DEF TypeOK, plan_destroy
  <2>2. ASSUME NEW q \in Requests, mkplan(u, q) PROVE TypeOK'
    BY <2>2 DEF TypeOK, mkplan
  <2> QED  BY <2>1, <2>2
<1>3. \A t : Using(t)' = Using(t)
  BY <1>1 DEF Using
<1>4. Live' = Live
  BY <1>1 DEF Live
<1>5. CountsUsers'
  BY <1>1, <1>3, <1>4 DEF CountsUsers
<1>6. HasTable'
  BY <1>1, <1>4 DEF HasTable
<1>7. ListedOnce'
  BY <1>1, <1>4 DEF ListedOnce
<1> QED  BY <1>2, <1>5, <1>6, <1>7

(* A plan that is woken shares a table that serves it. *)
LEMMA ShareKeeps ==
  ASSUME TableInv, NEW u \in Users, NEW w \in Awakeness, Awake(u, w), ShareTable(u, w)
  PROVE  TableInv'
<1> USE TableAssumption DEF TableInv
<1> DEFINE q == req[u]
<1> PICK t : t = lookup(w, q)
  OBVIOUS
<1>1. q \in Requests /\ hash(q.n, q.r) \in DOMAIN twlist
  <2>1. q \in Requests /\ DOMAIN twlist = 0 .. HASHSZ - 1
    BY DEF Awake, TypeOK
  <2>2. q.n \in Int /\ q.r \in Int
    BY <2>1, RequestAssumption
  <2> QED  BY <2>1, <2>2, HashRange
<1>2. t # NULL
  BY DEF ShareTable
<1>3. t \in Live /\ ok_twid(tab[t], w, q)
  BY <1>1, <1>2, LookupFinds DEF ListedOnce
<1>4. wakefulness' = [wakefulness EXCEPT ![u] = w] /\ td' = [td EXCEPT ![u] = t]
      /\ req' = req /\ twlist' = twlist /\ tab' = [tab EXCEPT ![t].refcnt = @ + 1]
      /\ wakefulness[u] = "SLEEPY"
  BY DEF Awake, ShareTable
<1>5. /\ tab[t] \in Twid /\ tab'[t] \in Twid
      /\ tab'[t] = [tab[t] EXCEPT !.refcnt = @ + 1]
      /\ \A x \in Tables \ {t} : tab'[x] = tab[x]
      /\ t \in Tables
  <2>1. t \in Tables /\ tab[t] \in Twid
    BY <1>3 DEF TypeOK, Live
  <2>2. /\ tab'[t] = [tab[t] EXCEPT !.refcnt = @ + 1]
        /\ \A x \in Tables \ {t} : tab'[x] = tab[x]
    BY <1>4, <2>1 DEF TypeOK
  <2>3. [tab[t] EXCEPT !.refcnt = @ + 1] \in Twid
    BY <2>1 DEF Twid
  <2> QED  BY <2>1, <2>2, <2>3
<1>6. /\ tab'[t].n = tab[t].n /\ tab'[t].r = tab[t].r /\ tab'[t].m = tab[t].m
      /\ tab'[t].instr = tab[t].instr /\ tab'[t].wakefulness = tab[t].wakefulness
      /\ tab'[t].refcnt = tab[t].refcnt + 1 /\ tab'[t] # NULL
  <2>1. tab'[t] # NULL
    BY <1>5
  <2> QED  BY <1>5, <2>1 DEF Twid
<1>7. Live' = Live
  BY <1>3, <1>5, <1>6 DEF Live
<1>71. \A x \in Live : /\ tab'[x].n = tab[x].n /\ tab'[x].r = tab[x].r
                       /\ tab'[x].m = tab[x].m
                       /\ tab'[x].wakefulness = tab[x].wakefulness
  BY <1>5, <1>6 DEF Live
<1>8. TypeOK'
  BY <1>4, <1>5, <1>1 DEF TypeOK, Wakefulness, Twid
<1>9. \A v \in Users : /\ wakefulness'[v] = IF v = u THEN w ELSE wakefulness[v]
                      /\ td'[v] = IF v = u THEN t ELSE td[v]
  BY <1>4 DEF TypeOK
<1>10. CountsUsers'
  <2>1. \A x : Using(x)' = {v \in Users : wakefulness'[v] \in Awakeness /\ td'[v] = x}
    BY DEF Using
  <2>2. Using(t)' = Using(t) \cup {u} /\ u \notin Using(t)
        /\ \A x \in Tables \ {t} : Using(x)' = Using(x)
    BY <1>4, <1>9, <2>1 DEF Using
  <2>3. Cardinality(Using(t)') = Cardinality(Using(t)) + 1
    <3>1. Cardinality(Using(t) \cup {u}) = Cardinality(Using(t)) + 1
      BY <2>2, UsingFinite, FS_AddElement, Zenon
    <3> QED  BY <2>2, <3>1
  <2>4. tab'[t].refcnt = Cardinality(Using(t)') /\ Using(t)' # {}
    BY <1>3, <1>6, <2>2, <2>3 DEF CountsUsers
  <2>5. ASSUME NEW x \in Live \ {t}
        PROVE  tab'[x].refcnt = Cardinality(Using(x)') /\ Using(x)' # {}
    BY <1>5, <2>2 DEF CountsUsers, Live
  <2> QED  BY <1>7, <2>4, <2>5 DEF CountsUsers
<1>11. HasTable'
  <2> SUFFICES ASSUME NEW v \in Users, wakefulness'[v] \in Awakeness
               PROVE  /\ td'[v] \in Live
                      /\ tab'[td'[v]].wakefulness = wakefulness'[v]
                      /\ tab'[td'[v]].n = req[v].n /\ tab'[td'[v]].r = req[v].r
                      /\ tab'[td'[v]].m >= req[v].m
    BY <1>4, <1>7 DEF HasTable
  <2>1. CASE v = u
    BY <1>3, <1>6, <1>9, <2>1, RequestAssumption, <1>1, <1>5 DEF ok_twid, Twid
  <2>2. CASE v # u
    <3>1. td'[v] = td[v] /\ wakefulness'[v] = wakefulness[v]
      BY <1>9, <2>2
    <3>2. td[v] \in Live
      BY <3>1 DEF HasTable
    <3> QED  BY <1>71, <3>1, <3>2 DEF HasTable
  <2> QED  BY <2>1, <2>2
<1>12. ListedOnce'
  BY <1>4, <1>7, <1>71, SMTT(30) DEF ListedOnce
<1> QED  BY <1>8, <1>10, <1>11, <1>12

(* A plan that is woken and finds nothing gets a table of its own. *)
LEMMA NewKeeps ==
  ASSUME TableInv, NEW u \in Users, NEW w \in Awakeness, Awake(u, w), NewTable(u, w)
  PROVE  TableInv'
<1> USE TableAssumption DEF TableInv
<1> DEFINE q == req[u]
           h == hash(q.n, q.r)
<1> PICK t \in Tables :
      /\ tab[t] = NULL
      /\ tab' = [tab EXCEPT ![t] =
           [n |-> q.n, r |-> q.r, m |-> q.m, instr |-> q.instr,
            wakefulness |-> w, refcnt |-> 1]]
      /\ twlist' = [twlist EXCEPT ![h] = <<t>> \o @]
      /\ td' = [td EXCEPT ![u] = t]
  BY DEF NewTable
<1>1. q \in Requests /\ h \in DOMAIN twlist /\ h \in 0 .. HASHSZ - 1
  BY HashRange, RequestAssumption DEF Awake, TypeOK
<1>2. /\ wakefulness' = [wakefulness EXCEPT ![u] = w] /\ req' = req
      /\ wakefulness[u] = "SLEEPY"
  BY DEF Awake
<1>3. /\ tab'[t] \in Twid
      /\ tab'[t].n = q.n /\ tab'[t].r = q.r /\ tab'[t].m = q.m
      /\ tab'[t].wakefulness = w /\ tab'[t].refcnt = 1
      /\ \A x \in Tables \ {t} : tab'[x] = tab[x]
  BY <1>1, RequestAssumption DEF TypeOK, Twid
<1>4. t \notin Live /\ Live' = Live \cup {t}
  BY <1>3 DEF Live
<1>5. \A v \in Users : /\ wakefulness'[v] = IF v = u THEN w ELSE wakefulness[v]
                      /\ td'[v] = IF v = u THEN t ELSE td[v]
  BY <1>2 DEF TypeOK
<1>6. TypeOK'
  <2>1. tab' \in [Tables -> Twid \cup {NULL}]
    BY <1>3 DEF TypeOK
  <2>2. twlist' \in [0 .. HASHSZ - 1 -> Seq(Tables)]
    BY <1>1 DEF TypeOK
  <2>3. td' \in [Users -> Tables \cup {NULL}]
    BY DEF TypeOK
  <2> QED  BY <1>2, <2>1, <2>2, <2>3 DEF TypeOK, Wakefulness
<1>7. CountsUsers'
  <2>1. \A x : Using(x)' = {v \in Users : wakefulness'[v] \in Awakeness /\ td'[v] = x}
    BY DEF Using
  <2>2. \A v \in Users : wakefulness[v] \in Awakeness => td[v] # t
    BY <1>4 DEF HasTable
  <2>3. Using(t)' = {u}
    BY <1>5, <2>1, <2>2
  <2>4. \A x \in Tables \ {t} : Using(x)' = Using(x)
    BY <1>2, <1>5, <2>1 DEF Using
  <2>5. Cardinality(Using(t)') = 1
    BY <2>3, FS_Singleton
  <2>6. ASSUME NEW x \in Live
        PROVE  tab'[x].refcnt = Cardinality(Using(x)') /\ Using(x)' # {}
    BY <1>3, <1>4, <2>4 DEF CountsUsers, Live
  <2> QED  BY <1>3, <1>4, <2>3, <2>5, <2>6 DEF CountsUsers
<1>8. HasTable'
  <2> SUFFICES ASSUME NEW v \in Users, wakefulness'[v] \in Awakeness
               PROVE  /\ td'[v] \in Live'
                      /\ tab'[td'[v]].wakefulness = wakefulness'[v]
                      /\ tab'[td'[v]].n = req[v].n /\ tab'[td'[v]].r = req[v].r
                      /\ tab'[td'[v]].m >= req[v].m
    BY <1>2 DEF HasTable
  <2>1. CASE v = u
    BY <1>1, <1>3, <1>4, <1>5, <2>1, RequestAssumption
  <2>2. CASE v # u
    <3>1. td'[v] = td[v] /\ wakefulness'[v] = wakefulness[v]
      BY <1>5, <2>2
    <3>2. td[v] \in Live
      BY <3>1 DEF HasTable
    <3>3. tab'[td[v]] = tab[td[v]]
      BY <1>3, <1>4, <3>2 DEF Live
    <3> QED  BY <1>4, <3>1, <3>2, <3>3 DEF HasTable
  <2> QED  BY <2>1, <2>2
<1>9. ListedOnce'
  <2>1. /\ \A g \in DOMAIN twlist : g # h => twlist'[g] = twlist[g]
        /\ twlist'[h] = <<t>> \o twlist[h]
        /\ DOMAIN twlist' = DOMAIN twlist
    BY <1>1 DEF TypeOK
  <2>2. twlist[h] \in Seq(Tables)
    BY <1>1 DEF TypeOK
  <2>3. /\ DOMAIN twlist'[h] = 1 .. Len(twlist[h]) + 1
        /\ DOMAIN twlist[h] = 1 .. Len(twlist[h]) /\ Len(twlist[h]) \in Nat
        /\ twlist'[h][1] = t
        /\ \A i \in DOMAIN twlist[h] : twlist'[h][i + 1] = twlist[h][i]
        /\ \A i \in DOMAIN twlist'[h] : i # 1 =>
             i - 1 \in DOMAIN twlist[h] /\ twlist'[h][i] = twlist[h][i - 1]
    BY <2>1, <2>2
  <2>4. \A x \in Live : tab'[x] = tab[x]
    BY <1>3, <1>4 DEF Live
  <2>5. \A x \in Live' : \E i \in DOMAIN twlist'[hash(tab'[x].n, tab'[x].r)] :
          twlist'[hash(tab'[x].n, tab'[x].r)][i] = x
    <3> SUFFICES ASSUME NEW x \in Live'
                 PROVE  \E i \in DOMAIN twlist'[hash(tab'[x].n, tab'[x].r)] :
                          twlist'[hash(tab'[x].n, tab'[x].r)][i] = x
      OBVIOUS
    <3>1. CASE x = t
      BY SMTT(30), <1>3, <2>3, <3>1
    <3>2. CASE x # t
      <4>1. x \in Live /\ tab'[x] = tab[x]
        BY <1>4, <2>4, <3>2
      <4> DEFINE g == hash(tab[x].n, tab[x].r)
      <4>2. PICK i \in DOMAIN twlist[g] : twlist[g][i] = x
        BY <4>1 DEF ListedOnce
      <4>3. g \in DOMAIN twlist
        <5>1. tab[x] \in Twid
          BY <4>1 DEF Live, TypeOK
        <5> QED  BY <5>1, HashRange DEF Twid, TypeOK
      <4>4. CASE g = h
        <5>1. i + 1 \in DOMAIN twlist'[g] /\ twlist'[g][i + 1] = x
          BY <2>3, <4>2, <4>4
        <5> QED  BY <4>1, <5>1
      <4>5. CASE g # h
        BY <2>1, <4>1, <4>2, <4>3, <4>5
      <4> QED  BY <4>4, <4>5
    <3> QED  BY <3>1, <3>2
  <2>6. ASSUME NEW g \in DOMAIN twlist', NEW i \in DOMAIN twlist'[g]
        PROVE  /\ twlist'[g][i] \in Live'
               /\ hash(tab'[twlist'[g][i]].n, tab'[twlist'[g][i]].r) = g
               /\ \A l \in DOMAIN twlist'[g] : twlist'[g][i] = twlist'[g][l] => i = l
    <3>1. CASE g # h
      BY SMTT(30), <1>4, <2>1, <2>4, <3>1 DEF ListedOnce
    <3>2. CASE g = h /\ i = 1
      <4>1. \A l \in DOMAIN twlist[h] : twlist[h][l] # t
        BY SMTT(30), <1>1, <1>4 DEF ListedOnce
      <4> QED  BY SMTT(30), <1>3, <1>4, <2>3, <3>2, <4>1
    <3>3. CASE g = h /\ i # 1
      <4>1. i - 1 \in DOMAIN twlist[h] /\ twlist'[h][i] = twlist[h][i - 1]
        BY <2>3, <3>3
      <4>2. twlist[h][i - 1] \in Live
            /\ hash(tab[twlist[h][i - 1]].n, tab[twlist[h][i - 1]].r) = h
            /\ \A l \in DOMAIN twlist[h] : twlist[h][i - 1] = twlist[h][l] => i - 1 = l
        BY <1>1, <4>1 DEF ListedOnce
      <4>3. ASSUME NEW l \in DOMAIN twlist'[h], twlist'[h][i] = twlist'[h][l]
            PROVE  i = l
        <5>1. l # 1
          BY ZenonT(40), <1>4, <2>3, <4>1, <4>2, <4>3
        <5>2. i - 1 = l - 1
          BY <2>3, <4>1, <4>2, <4>3, <5>1
        <5> QED  BY SMTT(30), <2>3, <3>3, <4>3, <5>2
      <4> QED  BY <1>4, <2>4, <3>3, <4>1, <4>2, <4>3
    <3> QED  BY <3>1, <3>2, <3>3
  <2> QED  BY <2>5, <2>6 DEF ListedOnce
<1> QED  BY <1>6, <1>7, <1>8, <1>9

(* A plan that goes to sleep leaves a shared table to the others. *)
LEMMA ReleaseKeeps ==
  ASSUME TableInv, NEW u \in Users, Sleep(u), ReleaseTable(td[u])
  PROVE  TableInv'
<1> USE TableAssumption DEF TableInv
<1> PICK t : t = td[u]
  OBVIOUS
<1>1. /\ wakefulness' = [wakefulness EXCEPT ![u] = "SLEEPY"]
      /\ tab' = [tab EXCEPT ![t].refcnt = @ - 1]
      /\ tab[t].refcnt > 1 /\ wakefulness[u] \in Awakeness
      /\ req' = req /\ td' = td /\ twlist' = twlist
  BY DEF Sleep, ReleaseTable
<1>2. t \in Live /\ t \in Tables /\ tab[t] \in Twid
  BY <1>1 DEF HasTable, TypeOK, Live
<1>3. /\ tab'[t] = [tab[t] EXCEPT !.refcnt = @ - 1]
      /\ \A x \in Tables \ {t} : tab'[x] = tab[x]
  BY <1>1, <1>2 DEF TypeOK
<1>4. tab'[t] \in Twid /\ tab'[t].refcnt = tab[t].refcnt - 1
  BY <1>1, <1>2, <1>3 DEF Twid
<1>5. Live' = Live
  BY <1>2, <1>3, <1>4 DEF Live
<1>6. \A x \in Live : /\ tab'[x].n = tab[x].n /\ tab'[x].r = tab[x].r
                      /\ tab'[x].m = tab[x].m
                      /\ tab'[x].wakefulness = tab[x].wakefulness
  BY <1>2, <1>3 DEF Live, Twid
<1>7. \A v \in Users : wakefulness'[v] = IF v = u THEN "SLEEPY" ELSE wakefulness[v]
  BY <1>1 DEF TypeOK
<1>8. TypeOK'
  BY <1>1, <1>2, <1>3, <1>4 DEF TypeOK, Wakefulness
<1>9. CountsUsers'
  <2>1. \A x : Using(x)' = {v \in Users : wakefulness'[v] \in Awakeness /\ td'[v] = x}
    BY DEF Using
  <2>2. Using(t)' = Using(t) \ {u} /\ u \in Using(t)
        /\ \A x \in Tables \ {t} : Using(x)' = Using(x)
    BY <1>1, <1>7, <2>1 DEF Using
  <2>3. Cardinality(Using(t)') = Cardinality(Using(t)) - 1
    <3>1. Cardinality(Using(t) \ {u}) = Cardinality(Using(t)) - 1
      BY <2>2, UsingFinite, FS_RemoveElement, Zenon
    <3> QED  BY <2>2, <3>1
  <2>4. IsFiniteSet(Using(t)')
    BY <2>2, UsingFinite, FS_RemoveElement, Zenon
  <2>5. tab'[t].refcnt = Cardinality(Using(t)') /\ tab'[t].refcnt > 0
    BY <1>1, <1>2, <1>4, <2>3 DEF CountsUsers, Twid
  <2>6. Using(t)' # {}
    BY <2>5, FS_EmptySet
  <2>7. ASSUME NEW x \in Live \ {t}
        PROVE  tab'[x].refcnt = Cardinality(Using(x)') /\ Using(x)' # {}
    BY <1>3, <2>2 DEF CountsUsers, Live
  <2> QED  BY <1>5, <2>5, <2>6, <2>7 DEF CountsUsers
<1>10. HasTable'
  <2> SUFFICES ASSUME NEW v \in Users, wakefulness'[v] \in Awakeness
               PROVE  /\ td[v] \in Live
                      /\ tab'[td[v]].wakefulness = wakefulness'[v]
                      /\ tab'[td[v]].n = req[v].n /\ tab'[td[v]].r = req[v].r
                      /\ tab'[td[v]].m >= req[v].m
    BY <1>1, <1>5 DEF HasTable
  <2>1. wakefulness'[v] = wakefulness[v] /\ td[v] \in Live
    BY <1>7 DEF HasTable
  <2> QED  BY <1>6, <2>1 DEF HasTable
<1>11. ListedOnce'
  BY SMTT(30), <1>1, <1>5, <1>6 DEF ListedOnce
<1> QED  BY <1>8, <1>9, <1>10, <1>11

(* Taking a table out of a list in which it occurs once leaves the others,  *)
(* once each. *)
LEMMA UnlinkedKeeps ==
  ASSUME NEW list \in Seq(Tables), NEW t, NEW at \in DOMAIN list, list[at] = t,
         \A i, l \in DOMAIN list : list[i] = list[l] => i = l
  PROVE  /\ Unlinked(list, t) \in Seq(Tables)
         /\ \A i \in DOMAIN list : list[i] # t =>
              \E l \in DOMAIN Unlinked(list, t) : Unlinked(list, t)[l] = list[i]
         /\ \A i \in DOMAIN Unlinked(list, t) :
              \E l \in DOMAIN list : Unlinked(list, t)[i] = list[l] /\ list[l] # t
         /\ \A i, l \in DOMAIN Unlinked(list, t) :
              Unlinked(list, t)[i] = Unlinked(list, t)[l] => i = l
<1> DEFINE short == Unlinked(list, t)
<1>1. DOMAIN list = 1 .. Len(list) /\ Len(list) \in Nat /\ at \in 1 .. Len(list)
  OBVIOUS
<1>2. at = CHOOSE i \in DOMAIN list : list[i] = t
  OBVIOUS
<1>3. short = [i \in 1 .. Len(list) - 1 |-> IF i < at THEN list[i] ELSE list[i + 1]]
  BY <1>2 DEF Unlinked
<1> HIDE DEF short
<1>4. DOMAIN short = 1 .. Len(list) - 1
  BY <1>3
<1>5. short \in Seq(Tables)
  BY <1>1, <1>3
<1>6. \A i \in DOMAIN list : list[i] # t =>
        \E l \in DOMAIN short : short[l] = list[i]
  <2> SUFFICES ASSUME NEW i \in DOMAIN list, list[i] # t
               PROVE  \E l \in DOMAIN short : short[l] = list[i]
    OBVIOUS
  <2>1. CASE i < at
    BY <1>1, <1>3, <1>4, <2>1
  <2>2. CASE i > at
    <3>1. i - 1 \in DOMAIN short /\ short[i - 1] = list[i]
      BY <1>1, <1>3, <1>4, <2>2
    <3> QED  BY <3>1
  <2> QED  BY <1>1, <2>1, <2>2
<1>7. \A i \in DOMAIN short : \E l \in DOMAIN list : short[i] = list[l] /\ list[l] # t
  <2> SUFFICES ASSUME NEW i \in DOMAIN short
               PROVE  \E l \in DOMAIN list : short[i] = list[l] /\ list[l] # t
    OBVIOUS
  <2>1. CASE i < at
    BY <1>1, <1>3, <1>4, <2>1
  <2>2. CASE ~ (i < at)
    <3>1. i + 1 \in DOMAIN list /\ short[i] = list[i + 1] /\ i + 1 # at
      BY <1>1, <1>3, <1>4, <2>2
    <3> QED  BY <3>1
  <2> QED  BY <2>1, <2>2
<1>8. \A i, l \in DOMAIN short : short[i] = short[l] => i = l
  <2> SUFFICES ASSUME NEW i \in DOMAIN short, NEW l \in DOMAIN short, short[i] = short[l]
               PROVE  i = l
    OBVIOUS
  <2> DEFINE old(x) == IF x < at THEN x ELSE x + 1
  <2>1. /\ old(i) \in DOMAIN list /\ short[i] = list[old(i)]
        /\ old(l) \in DOMAIN list /\ short[l] = list[old(l)]
    BY <1>1, <1>3, <1>4
  <2>2. old(i) = old(l)
    BY <2>1
  <2> QED  BY <1>1, <1>4, <2>2
<1> QED  BY <1>5, <1>6, <1>7, <1>8 DEF short

(* The last plan that uses a table takes it out of its list. *)
LEMMA FreeKeeps ==
  ASSUME TableInv, NEW u \in Users, Sleep(u), FreeTable(u, td[u])
  PROVE  TableInv'
<1> USE TableAssumption DEF TableInv
<1> PICK t : t = td[u]
  OBVIOUS
<1> DEFINE h == hash(tab[t].n, tab[t].r)
<1>1. /\ wakefulness' = [wakefulness EXCEPT ![u] = "SLEEPY"]
      /\ tab' = [tab EXCEPT ![t] = NULL]
      /\ tab[t].refcnt = 1 /\ wakefulness[u] \in Awakeness
      /\ req' = req /\ td' = [td EXCEPT ![u] = NULL]
      /\ twlist' = [twlist EXCEPT ![h] = Unlinked(@, t)]
  BY DEF Sleep, FreeTable
<1>2. t \in Live /\ t \in Tables /\ tab[t] \in Twid
  BY <1>1 DEF HasTable, TypeOK, Live
<1>3. h \in DOMAIN twlist /\ twlist[h] \in Seq(Tables) /\ DOMAIN twlist = 0 .. HASHSZ - 1
  BY <1>2, HashRange DEF Twid, TypeOK
<1>4. tab'[t] = NULL /\ \A x \in Tables \ {t} : tab'[x] = tab[x]
  BY <1>1, <1>2 DEF TypeOK
<1>5. Live' = Live \ {t} /\ \A x \in Live' : tab'[x] = tab[x]
  BY <1>4 DEF Live
<1>6. \A v \in Users : /\ wakefulness'[v] = IF v = u THEN "SLEEPY" ELSE wakefulness[v]
                      /\ td'[v] = IF v = u THEN NULL ELSE td[v]
  BY <1>1 DEF TypeOK
<1>7. Using(t) = {u}
  <2>1. u \in Using(t) /\ Cardinality(Using(t)) = 1
    BY <1>1, <1>2 DEF Using, CountsUsers
  <2>2. \E x : Using(t) = {x}
    BY <2>1, UsingFinite, FS_Singleton
  <2> QED  BY <2>1, <2>2
<1>8. PICK at \in DOMAIN twlist[h] : twlist[h][at] = t
  BY <1>2 DEF ListedOnce
<1>9. \A i, l \in DOMAIN twlist[h] : twlist[h][i] = twlist[h][l] => i = l
  BY <1>3 DEF ListedOnce
<1> DEFINE short == Unlinked(twlist[h], t)
<1>10. /\ short \in Seq(Tables)
       /\ \A i \in DOMAIN twlist[h] : twlist[h][i] # t =>
            \E l \in DOMAIN short : short[l] = twlist[h][i]
       /\ \A i \in DOMAIN short :
            \E l \in DOMAIN twlist[h] : short[i] = twlist[h][l] /\ twlist[h][l] # t
       /\ \A i, l \in DOMAIN short : short[i] = short[l] => i = l
  <2> HIDE DEF h
  <2>1. twlist[h] \in Seq(Tables)
    BY <1>3
  <2>2. \A i, l \in DOMAIN twlist[h] : twlist[h][i] = twlist[h][l] => i = l
    BY <1>9
  <2> PICK list : list = twlist[h]
    OBVIOUS
  <2>3. /\ list \in Seq(Tables) /\ at \in DOMAIN list /\ list[at] = t
        /\ \A i, l \in DOMAIN list : list[i] = list[l] => i = l
    BY <1>8, <2>1, <2>2
  <2>4. /\ Unlinked(list, t) \in Seq(Tables)
        /\ \A i \in DOMAIN list : list[i] # t =>
             \E l \in DOMAIN Unlinked(list, t) : Unlinked(list, t)[l] = list[i]
        /\ \A i \in DOMAIN Unlinked(list, t) :
             \E l \in DOMAIN list : Unlinked(list, t)[i] = list[l] /\ list[l] # t
        /\ \A i, l \in DOMAIN Unlinked(list, t) :
             Unlinked(list, t)[i] = Unlinked(list, t)[l] => i = l
    BY ZenonT(40), <2>3, UnlinkedKeeps
  <2> QED  BY <2>4
<1>11. twlist'[h] = short /\ DOMAIN twlist' = DOMAIN twlist
       /\ \A g \in DOMAIN twlist : g # h => twlist'[g] = twlist[g]
  BY <1>1, <1>3 DEF TypeOK
<1>12. twlist' \in [0 .. HASHSZ - 1 -> Seq(Tables)]
  <2>1. twlist' = [twlist EXCEPT ![h] = short]
    BY <1>1
  <2> HIDE DEF short, h
  <2> QED  BY <1>3, <1>10, <2>1 DEF TypeOK
<1>13. TypeOK'
  BY <1>1, <1>2, <1>12 DEF TypeOK, Wakefulness
<1>14. CountsUsers'
  <2>1. \A x : Using(x)' = {v \in Users : wakefulness'[v] \in Awakeness /\ td'[v] = x}
    BY DEF Using
  <2>2. \A x \in Tables \ {t} : Using(x)' = Using(x)
    BY <1>6, <2>1, NULL \notin Tables DEF Using
  <2> QED  BY <1>5, <2>2 DEF CountsUsers, Live
<1>15. HasTable'
  <2> SUFFICES ASSUME NEW v \in Users, wakefulness'[v] \in Awakeness
               PROVE  /\ td'[v] \in Live'
                      /\ tab'[td'[v]].wakefulness = wakefulness'[v]
                      /\ tab'[td'[v]].n = req[v].n /\ tab'[td'[v]].r = req[v].r
                      /\ tab'[td'[v]].m >= req[v].m
    BY <1>1 DEF HasTable
  <2>1. v # u /\ wakefulness'[v] = wakefulness[v] /\ td'[v] = td[v]
    BY <1>6
  <2>2. td[v] \in Live /\ td[v] # t
    BY <1>7, <2>1 DEF HasTable, Using
  <2> QED  BY <1>5, <2>1, <2>2 DEF HasTable
<1>16. ListedOnce'
  <2> HIDE DEF h, short
  <2>1. ASSUME NEW x \in Live'
        PROVE  \E i \in DOMAIN twlist'[hash(tab'[x].n, tab'[x].r)] :
                 twlist'[hash(tab'[x].n, tab'[x].r)][i] = x
    <3> DEFINE g == hash(tab[x].n, tab[x].r)
    <3>1. x \in Live /\ x # t /\ tab'[x] = tab[x] /\ tab[x] \in Twid
      BY <1>5 DEF Live, TypeOK
    <3>2. g \in DOMAIN twlist
      BY <1>3, <3>1, HashRange DEF Twid
    <3>3. PICK i \in DOMAIN twlist[g] : twlist[g][i] = x
      BY <3>1 DEF ListedOnce
    <3>4. CASE g = h
      <4>1. \E l \in DOMAIN short : short[l] = x
        BY <1>10, <3>1, <3>3, <3>4
      <4> QED  BY <1>11, <3>1, <3>4, <4>1
    <3>5. CASE g # h
      BY <1>11, <3>1, <3>2, <3>3, <3>5
    <3> QED  BY <3>4, <3>5
  <2>2. ASSUME NEW g \in DOMAIN twlist', NEW i \in DOMAIN twlist'[g]
        PROVE  /\ twlist'[g][i] \in Live'
               /\ hash(tab'[twlist'[g][i]].n, tab'[twlist'[g][i]].r) = g
               /\ \A l \in DOMAIN twlist'[g] : twlist'[g][i] = twlist'[g][l] => i = l
    <3>1. CASE g = h
      <4>1. PICK l \in DOMAIN twlist[h] : short[i] = twlist[h][l] /\ twlist[h][l] # t
        BY <1>10, <1>11, <3>1
      <4>2. twlist[h][l] \in Live /\ hash(tab[twlist[h][l]].n, tab[twlist[h][l]].r) = h
        BY <1>3, <4>1 DEF ListedOnce
      <4> QED  BY <1>5, <1>10, <1>11, <3>1, <4>1, <4>2
    <3>2. CASE g # h
      <4>1. /\ g \in DOMAIN twlist /\ twlist'[g] = twlist[g]
        BY <1>11, <3>2
      <4>2. /\ twlist[g][i] \in Live /\ hash(tab[twlist[g][i]].n, tab[twlist[g][i]].r) = g
            /\ \A l \in DOMAIN twlist[g] : twlist[g][i] = twlist[g][l] => i = l
        BY <4>1 DEF ListedOnce
      <4>3. twlist[g][i] # t
        BY <3>2, <4>2 DEF h
      <4> QED  BY <1>5, <4>1, <4>2, <4>3
    <3> QED  BY <3>1, <3>2
  <2> QED  BY <2>1, <2>2 DEF ListedOnce
<1> QED  BY <1>13, <1>14, <1>15, <1>16

--------------------------------------------------------------------------------
(* Every step preserves the books. *)
LEMMA TableInvNext == TableInv /\ [Next]_vars => TableInv'
<1> SUFFICES ASSUME TableInv, [Next]_vars PROVE TableInv'
  OBVIOUS
<1>1. ASSUME NEW u \in Users, NEW w \in Awakeness, Awake(u, w) PROVE TableInv'
  BY <1>1, ShareKeeps, NewKeeps DEF Awake
<1>2. ASSUME NEW u \in Users, Sleep(u) PROVE TableInv'
  BY <1>2, ReleaseKeeps, FreeKeeps DEF Sleep
<1>3. CASE UNCHANGED vars
  <2> USE <1>3 DEF vars, TableInv
  <2>1. TypeOK'
    BY DEF TypeOK
  <2>2. CountsUsers'
    BY DEF CountsUsers, Live, Using
  <2>3. HasTable'
    BY DEF HasTable, Live
  <2>4. ListedOnce'
    BY DEF ListedOnce, Live
  <2> QED  BY <2>1, <2>2, <2>3, <2>4
<1> QED  BY <1>1, <1>2, <1>3, MakeDestroyKeep DEF Next

(* The inductive invariant holds of every run: the counts, the lists and    *)
(* the tables the plans that are awake rely on (kernel/twiddle.c).          *)
THEOREM Invariance == Spec => []TableInv
BY TableInvInit, TableInvNext, PTL DEF Spec

(* Type correctness. *)
THEOREM TypeCorrect == Spec => []TypeOK
BY Invariance, PTL DEF TableInv

(* The count of each table is the number of plans awake on it             *)
(* (twiddle.c:203, 229).                                                   *)
THEOREM CountsAreRight == Spec => []CountsUsers
BY Invariance, PTL DEF TableInv

(* No plan is awake without a table that serves it (twiddle.c:67-76).      *)
THEOREM NoPlanLacksItsTable == Spec => []HasTable
BY Invariance, PTL DEF TableInv

(* Live tables are listed once, where they are looked for, and nothing      *)
(* else is listed (twiddle.c:224-242).                                      *)
THEOREM ListsAreSound == Spec => []ListedOnce
BY Invariance, PTL DEF TableInv

--------------------------------------------------------------------------------
(* The contents of a table *)

(* A set with 1 that has the successors of its members up to n has 1 .. n. *)
LEMMA Successors ==
  ASSUME NEW S, NEW n \in Nat, 1 \in S, \A i \in 1 .. n - 1 : i \in S => i + 1 \in S
  PROVE  1 .. n \subseteq S
<1>1. PICK bad : bad = (1 .. n) \ S
  OBVIOUS
<1>2. ASSUME bad # {} PROVE FALSE
  <2>1. bad \in SUBSET Nat
    BY <1>1
  <2>2. PICK m \in bad : \A l \in bad : m <= l
    BY <1>2, <2>1, LeastNatural
  <2>3. m \in 1 .. n /\ m \notin S /\ m # 1
    BY <1>1, <2>2
  <2>4. m - 1 \in 1 .. n - 1 /\ ~(m <= m - 1)
    BY <2>3
  <2>5. m - 1 \in S
    BY <1>1, <2>2, <2>4
  <2>6. (m - 1) + 1 \in S
    BY <2>4, <2>5
  <2> QED  BY <2>3, <2>6
<1> QED  BY <1>1, <1>2

\* f holds the first n pieces of s, joined.
Joined(s, n, f) ==
  /\ f = [i \in 1 .. n |-> f[i]]
  /\ \A i \in 1 .. n : f[i] = IF i = 1 THEN s[i] ELSE f[i - 1] \o s[i]

Joinable(X, s, n) == \E f : Joined(s, n, f) /\ f \in [1 .. n -> Seq(X)]

(* The pieces of a sequence can be joined from left to right. *)
LEMMA JoinedExists ==
  ASSUME NEW X, NEW s \in Seq(Seq(X)), NEW n \in 1 .. Len(s)
  PROVE  Joinable(X, s, n)
<1>1. PICK S : S = {i \in 1 .. Len(s) : Joinable(X, s, i)}
  OBVIOUS
<1>2. Len(s) \in Nat /\ \A i \in 1 .. Len(s) : s[i] \in Seq(X)
  OBVIOUS
<1>3. 1 \in S
  <2>1. PICK f : f = [i \in 1 .. 1 |-> s[1]]
    OBVIOUS
  <2>2. f \in [1 .. 1 -> Seq(X)] /\ f[1] = s[1]
    BY <1>2, <2>1
  <2>3. Joined(s, 1, f)
    BY <2>1, <2>2 DEF Joined
  <2>4. Joinable(X, s, 1)
    BY <2>2, <2>3 DEF Joinable
  <2> QED  BY <1>1, <1>2, <2>4
<1>4. ASSUME NEW m \in 1 .. Len(s) - 1, m \in S
      PROVE  m + 1 \in S
  <2>1. PICK g : Joined(s, m, g) /\ g \in [1 .. m -> Seq(X)]
    BY <1>1, <1>4 DEF Joinable
  <2>2. s[m + 1] \in Seq(X) /\ g[m] \in Seq(X)
    BY <1>2, <2>1
  <2>3. PICK p : p = g[m] \o s[m + 1]
    OBVIOUS
  <2>4. p \in Seq(X)
    BY <2>2, <2>3, ConcatProperties
  <2>5. PICK f : f = [i \in 1 .. m + 1 |-> IF i = m + 1 THEN p ELSE g[i]]
    OBVIOUS
  <2>6. f \in [1 .. m + 1 -> Seq(X)]
    BY <1>2, <2>1, <2>4, <2>5
  <2>7. ASSUME NEW i \in 1 .. m + 1
        PROVE  f[i] = IF i = 1 THEN s[i] ELSE f[i - 1] \o s[i]
    <3>1. CASE i = m + 1
      <4>1. i # 1 /\ i - 1 = m
        BY <1>2, <3>1
      <4>2. m \in 1 .. m + 1 /\ m # m + 1
        BY <1>2
      <4>3. f[i] = p /\ f[m] = g[m]
        BY <2>5, <3>1, <4>2
      <4>4. f[i] = f[i - 1] \o s[i]
        BY <2>3, <3>1, <4>1, <4>3
      <4> QED  BY <4>1, <4>4
    <3>2. CASE i # m + 1
      <4>1. i \in 1 .. m /\ (i # 1 => i - 1 \in 1 .. m + 1 /\ i - 1 # m + 1)
        BY <1>2, <3>2
      <4>2. f[i] = g[i] /\ (i # 1 => f[i - 1] = g[i - 1])
        BY <2>5, <3>2, <4>1
      <4> QED  BY <2>1, <4>1, <4>2 DEF Joined
    <3> QED  BY <3>1, <3>2
  <2>8. Joined(s, m + 1, f)
    BY <2>5, <2>7 DEF Joined
  <2>9. Joinable(X, s, m + 1)
    BY <2>6, <2>8 DEF Joinable
  <2>10. m + 1 \in 1 .. Len(s)
    BY <1>2
  <2> QED  BY <1>1, <2>9, <2>10
<1>5. 1 .. Len(s) \subseteq S
  BY <1>2, <1>3, <1>4, Successors
<1> QED  BY <1>1, <1>5

\* The first n entries are the same.
Agree(s, t, n) == \A i \in 1 .. n : s[i] = t[i]

(* What is joined of the same pieces is the same. *)
LEMMA JoinedSame ==
  ASSUME NEW s, NEW t, NEW n \in Nat, NEW m \in Nat, n <= m, Agree(s, t, n),
         NEW f, Joined(s, n, f), NEW g, Joined(t, m, g)
  PROVE  Agree(f, g, n)
<1>1. PICK S : S = {i \in 1 .. n : f[i] = g[i]} \cup {1}
  OBVIOUS
<1>2. n >= 1 => f[1] = g[1]
  <2>1. n >= 1 => 1 \in 1 .. n /\ 1 \in 1 .. m
    OBVIOUS
  <2>2. n >= 1 => f[1] = s[1]
    BY <2>1 DEF Joined
  <2>3. n >= 1 => g[1] = t[1]
    BY <2>1 DEF Joined
  <2> QED  BY <2>1, <2>2, <2>3 DEF Agree
<1>3. ASSUME NEW l \in 1 .. n - 1, l \in S
      PROVE  l + 1 \in S
  <2>1. f[l] = g[l]
    BY <1>1, <1>2, <1>3
  <2>2. l + 1 \in 1 .. n /\ l + 1 \in 1 .. m /\ l + 1 # 1 /\ (l + 1) - 1 = l
    OBVIOUS
  <2>3. f[l + 1] = f[l] \o s[l + 1] /\ g[l + 1] = g[l] \o t[l + 1]
    BY <2>2 DEF Joined
  <2>4. f[l + 1] = g[l + 1]
    BY <2>1, <2>2, <2>3 DEF Agree
  <2> QED  BY <1>1, <2>2, <2>4
<1>4. 1 .. n \subseteq S
  <2>1. 1 \in S
    BY <1>1
  <2> QED  BY <1>3, <2>1, Successors
<1> QED  BY <1>1, <1>2, <1>4 DEF Agree

\* f is the function that FlattenSeq(s) defines.
Flattens(s, f) == f = [i \in 1 .. Len(s) |-> IF i = 1 THEN s[i] ELSE f[i - 1] \o s[i]]

(* FlattenSeq joins the pieces from the first to the last. *)
LEMMA FlattenIs ==
  ASSUME NEW X, NEW s \in Seq(Seq(X)), s # <<>>
  PROVE  \E f \in [1 .. Len(s) -> Seq(X)] : Joined(s, Len(s), f) /\ FlattenSeq(s) = f[Len(s)]
<1>1. Len(s) \in 1 .. Len(s) /\ Len(s) # 0 /\ Len(s) \in Nat
  OBVIOUS
<1>2. PICK g : Joined(s, Len(s), g) /\ g \in [1 .. Len(s) -> Seq(X)]
  BY <1>1, JoinedExists DEF Joinable
<1>3. Flattens(s, g)
  BY <1>2 DEF Joined, Flattens
<1>4. PICK f : f = CHOOSE h : Flattens(s, h)
  OBVIOUS
<1>5. Flattens(s, f)
  BY <1>3, <1>4
<1>6. FlattenSeq(s) = f[Len(s)]
  BY <1>1, <1>4 DEF FlattenSeq, Flattens
<1>7. Joined(s, Len(s), f)
  BY <1>5 DEF Joined, Flattens
<1>8. \A i \in 1 .. Len(s) : f[i] = g[i]
  <2>1. Agree(s, s, Len(s)) /\ Len(s) <= Len(s)
    BY <1>1 DEF Agree
  <2>2. Agree(f, g, Len(s))
    BY <1>1, <1>2, <1>7, <2>1, JoinedSame
  <2> QED  BY <2>2 DEF Agree
<1>9. f \in [1 .. Len(s) -> Seq(X)]
  BY <1>2, <1>5, <1>8 DEF Flattens
<1> QED  BY <1>6, <1>7, <1>9

\* b begins with a.
Begins(a, b) == Len(a) <= Len(b) /\ \A i \in 1 .. Len(a) : b[i] = a[i]

(* What is joined later begins with what was joined before. *)
LEMMA JoinedGrows ==
  ASSUME NEW X, NEW s \in Seq(Seq(X)), NEW m \in Nat, m <= Len(s), NEW n \in 1 .. m,
         NEW f \in [1 .. m -> Seq(X)], Joined(s, m, f)
  PROVE  Begins(f[n], f[m])
<1>1. PICK S : S = {j \in 1 .. m - n + 1 : Begins(f[n], f[n + j - 1])}
  OBVIOUS
<1>2. f[n] \in Seq(X) /\ Len(f[n]) \in Nat
  OBVIOUS
<1>3. 1 \in S
  <2>1. n + 1 - 1 = n /\ 1 \in 1 .. m - n + 1
    OBVIOUS
  <2>2. Begins(f[n], f[n])
    BY <1>2 DEF Begins
  <2> QED  BY <1>1, <2>1, <2>2
<1>4. ASSUME NEW j \in 1 .. (m - n + 1) - 1, j \in S
      PROVE  j + 1 \in S
  <2>1. PICK l \in 1 .. m - 1 : l = n + j - 1
    OBVIOUS
  <2>2. l + 1 \in 1 .. m /\ l + 1 # 1 /\ (l + 1) - 1 = l /\ l \in 1 .. m /\ l + 1 = n + (j + 1) - 1
        /\ l + 1 \in 1 .. Len(s)
    BY <2>1
  <2>3. PICK a \in Seq(X) : a = f[l]
    BY <2>2
  <2>4. PICK c \in Seq(X) : c = s[l + 1]
    BY <2>2
  <2>5. f[l + 1] = a \o c
    BY <2>2, <2>3, <2>4 DEF Joined
  <2>6. Begins(a, f[l + 1])
    <3>1. PICK b : b = a \o c
      OBVIOUS
    <3>2. /\ Len(b) = Len(a) + Len(c) /\ Len(a) \in Nat /\ Len(c) \in Nat
          /\ \A i \in 1 .. Len(a) + Len(c) : b[i] = IF i <= Len(a) THEN a[i] ELSE c[i - Len(a)]
      BY <3>1, ConcatProperties
    <3>3. Len(a) <= Len(b) /\ \A i \in 1 .. Len(a) : i \in 1 .. Len(a) + Len(c) /\ i <= Len(a)
      BY <3>2
    <3>4. Begins(a, b)
      BY <3>2, <3>3 DEF Begins
    <3> QED  BY <2>5, <3>1, <3>4
  <2>7. Begins(f[n], a)
    BY <1>1, <1>4, <2>1, <2>3
  <2>8. PICK b \in Seq(X) : b = f[l + 1]
    BY <2>2
  <2>9. Begins(f[n], b)
    <3>1. Len(b) \in Nat /\ Len(a) \in Nat
      OBVIOUS
    <3> QED  BY <1>2, <2>6, <2>7, <2>8, <3>1 DEF Begins
  <2>10. j + 1 \in 1 .. m - n + 1
    OBVIOUS
  <2> QED  BY <1>1, <2>2, <2>8, <2>9, <2>10
<1>5. m - n + 1 \in Nat
  OBVIOUS
<1>6. 1 .. m - n + 1 \subseteq S
  BY <1>3, <1>4, <1>5, Successors
<1>7. m - n + 1 \in 1 .. m - n + 1 /\ n + (m - n + 1) - 1 = m
  OBVIOUS
<1> QED  BY <1>1, <1>6, <1>7

(* More pieces joined begin with what fewer of them are joined to. *)
LEMMA FlattenBegins ==
  ASSUME NEW X, NEW s \in Seq(Seq(X)), NEW t \in Seq(Seq(X)), Len(s) <= Len(t),
         \A i \in 1 .. Len(s) : s[i] = t[i]
  PROVE  /\ FlattenSeq(s) \in Seq(X) /\ FlattenSeq(t) \in Seq(X)
         /\ Begins(FlattenSeq(s), FlattenSeq(t))
<1>1. ASSUME NEW v \in Seq(Seq(X)) PROVE FlattenSeq(v) \in Seq(X)
  <2>1. CASE v = <<>>
    <3>1. FlattenSeq(v) = <<>>
      BY <2>1 DEF FlattenSeq
    <3> QED  BY <3>1
  <2>2. CASE v # <<>>
    <3>1. Len(v) \in 1 .. Len(v)
      BY <2>2
    <3> QED  BY SMTT(30), <2>2, <3>1, FlattenIs
  <2> QED  BY <2>1, <2>2
<1>2. PICK b \in Seq(X) : b = FlattenSeq(t)
  BY <1>1
<1>3. CASE s = <<>>
  <2>1. FlattenSeq(s) = <<>>
    BY <1>3 DEF FlattenSeq
  <2>2. Begins(<<>>, b)
    <3>1. Len(<<>>) = 0 /\ Len(b) \in Nat
      OBVIOUS
    <3> QED  BY <3>1 DEF Begins
  <2> QED  BY <1>1, <1>2, <2>1, <2>2
<1>4. CASE s # <<>>
  <2>1. PICK n \in Nat \ {0} : n = Len(s)
    BY <1>4
  <2>2. PICK m \in Nat : m = Len(t)
    OBVIOUS
  <2>3. n <= m /\ n \in 1 .. m /\ m \in 1 .. m
    BY <2>1, <2>2
  <2>4. t # <<>>
    BY <2>2, <2>3
  <2>5. PICK f : f \in [1 .. n -> Seq(X)] /\ Joined(s, n, f) /\ FlattenSeq(s) = f[n]
    BY <1>4, <2>1, FlattenIs
  <2>6. PICK g : g \in [1 .. m -> Seq(X)] /\ Joined(t, m, g) /\ FlattenSeq(t) = g[m]
    BY <2>2, <2>4, FlattenIs
  <2>7. f[n] = g[n]
    <3>1. Agree(s, t, n)
      BY <2>1 DEF Agree
    <3>2. n \in Nat /\ Joined(s, n, f) /\ Joined(t, m, g) /\ n \in 1 .. n /\ n <= m
      BY <2>3, <2>5, <2>6
    <3>3. Agree(f, g, n)
      BY <3>1, <3>2, JoinedSame
    <3> QED  BY <3>2, <3>3 DEF Agree
  <2>8. Begins(g[n], g[m])
    <3>1. m <= Len(t) /\ g \in [1 .. m -> Seq(X)] /\ Joined(t, m, g) /\ n \in 1 .. m
      BY <2>2, <2>3, <2>6
    <3> QED  BY <3>1, JoinedGrows
  <2> QED  BY <1>1, <2>5, <2>6, <2>7, <2>8
<1> QED  BY <1>3, <1>4

\* The factors that an instruction can ask for, of a table of w and n, ...
Angle(w, n, j, p, l) == <<w, p.op, ((j + p.v) * l) % n>>
Angles(w, n) == {<<w, o, x % n>> : o \in {p.op : p \in Instructions}, x \in Int}

\* ... those that p asks for in the step at j, ...
Piece(w, n, r, j, p) ==
  CASE p.op = "TW_FULL" -> [l \in 1 .. r - 1 |-> Angle(w, n, j, p, l)]
    [] p.op = "TW_HALF" -> [l \in 1 .. (r - 1) \div 2 |-> Angle(w, n, j, p, l)]
    [] OTHER            -> <<Angle(w, n, j, p, p.i)>>

\* ... and all of them, step by step, of a program with the given body.
Pieces(w, body, vl, n, r, m) ==
  [i \in 1 .. (m \div vl) * Len(body) |->
    Piece(w, n, r, vl * ((i - 1) \div Len(body)), body[1 + ((i - 1) % Len(body))])]

(* A table is the joined pieces of its program, one for each instruction and turn. *)
LEMMA ComputeIs ==
  ASSUME NEW w, NEW p, NEW n, NEW r, NEW m
  PROVE  compute(w, p, n, r, m) = FlattenSeq(Pieces(w, Front(p), Last(p).v, n, r, m))
  BY DEF compute, Pieces, Piece, Angle

(* A piece is a sequence of angles. *)
LEMMA PieceIs ==
  ASSUME NEW w, NEW n, NEW r \in Nat \ {0}, NEW j \in Int, NEW p \in Instructions
  PROVE  Piece(w, n, r, j, p) \in Seq(Angles(w, n))
<1>1. ASSUME NEW l \in Int PROVE Angle(w, n, j, p, l) \in Angles(w, n)
  <2>1. PICK x \in Int : x = (j + p.v) * l
    <3>1. p.v \in Int
      BY DEF Instructions
    <3> QED  BY <3>1
  <2>2. PICK o \in {q.op : q \in Instructions} : o = p.op
    OBVIOUS
  <2> QED  BY <2>1, <2>2 DEF Angle, Angles
<1>2. ASSUME NEW h \in Nat, NEW y, y = [l \in 1 .. h |-> Angle(w, n, j, p, l)]
      PROVE  y \in Seq(Angles(w, n))
  <2>1. \A l \in 1 .. h : y[l] \in Angles(w, n)
    BY <1>1, <1>2
  <2>2. y = [l \in 1 .. h |-> y[l]]
    BY <1>2
  <2>3. y \in [1 .. h -> Angles(w, n)]
    BY <2>1, <2>2
  <2> QED  BY <2>3
<1>3. CASE p.op = "TW_FULL"
  <2>1. r - 1 \in Nat
    OBVIOUS
  <2> QED  BY <1>2, <1>3, <2>1 DEF Piece
<1>4. CASE p.op = "TW_HALF"
  <2>1. (r - 1) \div 2 \in Nat
    OBVIOUS
  <2> QED  BY <1>2, <1>4, <2>1 DEF Piece
<1>5. CASE p.op # "TW_FULL" /\ p.op # "TW_HALF"
  <2>1. p.i \in Int
    BY DEF Instructions
  <2>2. PICK a \in Angles(w, n) : a = Angle(w, n, j, p, p.i)
    BY <1>1, <2>1
  <2>3. <<a>> \in Seq(Angles(w, n))
    OBVIOUS
  <2> QED  BY <1>5, <2>2, <2>3 DEF Piece
<1> QED  BY <1>3, <1>4, <1>5

(* Instructions that equal_instr does not tell apart ask for the same. *)
LEMMA PieceSame ==
  ASSUME NEW w, NEW n, NEW r, NEW j, NEW p, NEW q, p.op = q.op, p.v = q.v,
         p.op \in {"TW_FULL", "TW_HALF"} \/ p.i = q.i
  PROVE  Piece(w, n, r, j, p) = Piece(w, n, r, j, q)
<1>1. \A l : Angle(w, n, j, p, l) = Angle(w, n, j, q, l)
  BY DEF Angle
<1>2. CASE p.op = "TW_FULL"
  BY <1>1, <1>2 DEF Piece
<1>3. CASE p.op = "TW_HALF"
  BY <1>1, <1>3 DEF Piece
<1>4. CASE p.op # "TW_FULL" /\ p.op # "TW_HALF"
  BY <1>1, <1>4 DEF Piece
<1> QED  BY <1>2, <1>3, <1>4

(* The program without its TW_NEXT. *)
LEMMA BodyIs ==
  ASSUME NEW p, IsProgram(p)
  PROVE  /\ Front(p) \in Seq(Instructions) /\ Len(p) \in Nat \ {0}
         /\ Len(Front(p)) = Len(p) - 1
         /\ \A i \in 1 .. Len(p) - 1 : Front(p)[i] = p[i] /\ p[i].op # "TW_NEXT"
         /\ Last(p) = p[Len(p)] /\ Last(p).v \in Nat \ {0}
<1>1. p \in Seq(Instructions) /\ Len(p) \in Nat \ {0} /\ DOMAIN p = 1 .. Len(p)
  BY DEF IsProgram
<1>2. /\ Front(p) \in Seq(Instructions) /\ Len(Front(p)) = Len(p) - 1
      /\ \A i \in 1 .. Len(p) - 1 : Front(p)[i] = p[i]
  BY <1>1 DEF Front
<1>3. \A i \in 1 .. Len(p) - 1 : p[i].op # "TW_NEXT"
  BY <1>1 DEF IsProgram
<1>4. Last(p) = p[Len(p)] /\ Last(p).v \in Nat \ {0}
  <2>1. Last(p) = p[Len(p)] /\ p[Len(p)] \in Instructions
    BY <1>1 DEF Last
  <2> QED  BY <2>1 DEF IsProgram, Instructions
<1> QED  BY <1>1, <1>2, <1>3, <1>4

(* More turns of the loop for a longer table. *)
LEMMA QuotientGrows ==
  ASSUME NEW a \in Nat, NEW b \in Nat, b <= a, NEW d \in Nat \ {0}
  PROVE  b \div d \in Nat /\ a \div d \in Nat /\ b \div d <= a \div d
<1>1. /\ b \div d \in Nat /\ d * (b \div d) <= b
      /\ a \div d \in Nat /\ a < d * (a \div d) + d
  BY SMTT(30)
<1>2. PICK x \in Nat : x = b \div d
  BY <1>1
<1>3. PICK y \in Nat : y = a \div d
  BY <1>1
<1>4. ASSUME x > y PROVE FALSE
  <2>1. d * (y + 1) <= d * x
    BY <1>4, SMTT(30)
  <2>2. d * (y + 1) = d * y + d /\ d * y \in Nat /\ d * x \in Nat
    BY SMTT(30)
  <2> QED  BY <1>1, <1>2, <1>3, <2>1, <2>2
<1> QED  BY <1>2, <1>3, <1>4

\* How many pieces there are.
Count(m, vl, body) == (m \div vl) * Len(body)

(* How many pieces there are. *)
LEMMA PiecesIs ==
  ASSUME NEW w, NEW n, NEW r \in Nat \ {0}, NEW body \in Seq(Instructions),
         NEW vl \in Nat \ {0}, NEW m \in Nat, NEW x, x = Pieces(w, body, vl, n, r, m)
  PROVE  /\ Len(x) = Count(m, vl, body)
         /\ x \in Seq(Seq(Angles(w, n)))
<1>1. PICK c \in Nat : c = m \div vl
  BY m <= m, QuotientGrows
<1>2. PICK L \in Nat : L = Len(body)
  OBVIOUS
<1>3. PICK h \in Nat : h = c * L
  OBVIOUS
<1>4. ASSUME NEW i \in 1 .. h
      PROVE  Piece(w, n, r, vl * ((i - 1) \div L), body[1 + ((i - 1) % L)]) \in Seq(Angles(w, n))
  <2>1. L # 0
    <3>1. ASSUME L = 0 PROVE FALSE
      <4>1. c * 0 = 0
        OBVIOUS
      <4> QED  BY <1>3, <3>1, <4>1
    <3> QED  BY <3>1
  <2>2. PICK j \in Int : j = (i - 1) \div L
    BY <2>1
  <2>3. PICK g \in 0 .. L - 1 : g = (i - 1) % L
    BY <2>1
  <2>4. vl * j \in Int
    OBVIOUS
  <2>5. body[1 + g] \in Instructions
    BY <1>2
  <2> QED  BY <2>2, <2>3, <2>4, <2>5, PieceIs
<1>5. x = [i \in 1 .. h |-> Piece(w, n, r, vl * ((i - 1) \div L), body[1 + ((i - 1) % L)])]
  BY <1>1, <1>2, <1>3 DEF Pieces
<1>6. x \in [1 .. h -> Seq(Angles(w, n))]
  BY <1>4, <1>5
<1> QED  BY <1>1, <1>2, <1>3, <1>6 DEF Count

(* A table whose program is not told apart from the one asked for, and that *)
(* is no shorter, begins with the factors that were asked for.              *)
LEMMA ContentsBegin ==
  ASSUME NEW w, NEW n, NEW r \in Nat \ {0}, NEW a \in Nat, NEW b \in Nat, b <= a,
         NEW p, IsProgram(p), NEW q, IsProgram(q), equal_instr(p, q)
  PROVE  /\ compute(w, p, n, r, a) \in Seq(Angles(w, n))
         /\ compute(w, q, n, r, b) \in Seq(Angles(w, n))
         /\ Begins(compute(w, q, n, r, b), compute(w, p, n, r, a))
<1>1. PICK f \in Seq(Instructions) : f = Front(p)
  BY BodyIs
<1>2. PICK g \in Seq(Instructions) : g = Front(q)
  BY BodyIs
<1>3. /\ Len(p) = Len(q) /\ Len(f) = Len(g) /\ Len(f) = Len(p) - 1 /\ Len(f) \in Nat
      /\ Last(p).v = Last(q).v
  <2>1. Len(p) = Len(q) /\ Len(p) \in DOMAIN p
    BY BodyIs DEF equal_instr, IsProgram
  <2> QED  BY <1>1, <1>2, <2>1, BodyIs DEF equal_instr
<1>4. PICK v \in Nat \ {0} : v = Last(p).v /\ v = Last(q).v
  BY <1>3, BodyIs
<1>5. ASSUME NEW i \in 1 .. Len(f)
      PROVE  /\ f[i].op = g[i].op /\ f[i].v = g[i].v
             /\ f[i].op \in {"TW_FULL", "TW_HALF"} \/ f[i].i = g[i].i
  <2>1. i \in 1 .. Len(p) - 1 /\ i \in 1 .. Len(q) - 1
    BY <1>3
  <2>2. f[i] = p[i] /\ g[i] = q[i] /\ p[i].op # "TW_NEXT"
    BY <1>1, <1>2, <2>1, BodyIs
  <2>3. i \in DOMAIN p
    BY <1>3, <2>1 DEF IsProgram
  <2>4. /\ p[i].op = q[i].op /\ p[i].v = q[i].v
        /\ p[i].op \in {"TW_NEXT", "TW_FULL", "TW_HALF"} \/ p[i].i = q[i].i
    BY <2>3 DEF equal_instr
  <2> QED  BY <2>2, <2>4
<1>6. PICK s : s = Pieces(w, g, v, n, r, b)
  OBVIOUS
<1>7. PICK t : t = Pieces(w, f, v, n, r, a)
  OBVIOUS
<1>8. s \in Seq(Seq(Angles(w, n))) /\ Len(s) = Count(b, v, g)
  BY <1>6, PiecesIs
<1>9. t \in Seq(Seq(Angles(w, n))) /\ Len(t) = Count(a, v, f)
  BY <1>7, PiecesIs
<1>10. Len(s) <= Len(t)
  <2>1. PICK x \in Nat, y \in Nat : x = b \div v /\ y = a \div v /\ x <= y
    BY QuotientGrows
  <2>2. PICK L \in Nat : L = Len(f) /\ L = Len(g)
    BY <1>3
  <2>3. x * L <= y * L
    BY <2>1, <2>2, SMTT(30)
  <2> QED  BY <1>8, <1>9, <2>1, <2>2, <2>3 DEF Count
<1>11. ASSUME NEW i \in 1 .. Len(s)
       PROVE  s[i] = t[i]
  <2>1. PICK L \in Nat : L = Len(f) /\ L = Len(g)
    BY <1>3
  <2>2. L # 0
    <3>1. ASSUME L = 0 PROVE FALSE
      <4>1. \A x \in Nat : x * 0 = 0
        OBVIOUS
      <4>2. b \div v \in Nat
        BY QuotientGrows
      <4> QED  BY <1>8, <2>1, <3>1, <4>1, <4>2 DEF Count
    <3> QED  BY <3>1
  <2>3. i \in Nat \ {0} /\ i \in 1 .. (b \div v) * L /\ i \in 1 .. (a \div v) * L
    <3>1. i \in 1 .. Len(s) /\ i \in 1 .. Len(t) /\ i \in Nat \ {0}
      <4>1. Len(s) \in Nat
        BY <1>8
      <4>2. Len(t) \in Nat
        BY <1>9
      <4> QED  BY <1>10, <4>1, <4>2
    <3>2. Len(s) = (b \div v) * L /\ Len(t) = (a \div v) * L
      BY <1>8, <1>9, <2>1, Zenon DEF Count
    <3> QED  BY <3>1, <3>2
  <2>4. PICK j : j = v * ((i - 1) \div L)
    OBVIOUS
  <2>5. PICK e \in 1 .. L : e = 1 + ((i - 1) % L)
    <3>1. PICK x \in Nat : x = i - 1
      BY <2>3
    <3>2. x % L \in 0 .. L - 1
      BY <2>2
    <3> QED  BY <3>1, <3>2
  <2>6. s[i] = Piece(w, n, r, j, g[e]) /\ t[i] = Piece(w, n, r, j, f[e])
    BY <1>6, <1>7, <2>1, <2>3, <2>4, <2>5 DEF Pieces
  <2>7. Piece(w, n, r, j, f[e]) = Piece(w, n, r, j, g[e])
    BY <1>5, <2>1, PieceSame
  <2> QED  BY <2>6, <2>7
<1>12. /\ FlattenSeq(s) \in Seq(Angles(w, n)) /\ FlattenSeq(t) \in Seq(Angles(w, n))
       /\ Begins(FlattenSeq(s), FlattenSeq(t))
  BY <1>8, <1>9, <1>10, <1>11, FlattenBegins
<1>13. /\ compute(w, p, n, r, a) = FlattenSeq(t) /\ compute(w, q, n, r, b) = FlattenSeq(s)
  BY <1>1, <1>2, <1>4, <1>6, <1>7, ComputeIs
<1> QED  BY <1>12, <1>13

(* A sequence that begins another is its subsequence. *)
LEMMA BeginningIs ==
  ASSUME NEW X, NEW a \in Seq(X), NEW b \in Seq(X), Begins(a, b)
  PROVE  Len(a) <= Len(b) /\ SubSeq(b, 1, Len(a)) = a
<1>1. Len(a) \in Nat /\ Len(b) \in Nat /\ Len(a) <= Len(b) /\ \A i \in 1 .. Len(a) : b[i] = a[i]
  BY DEF Begins
<1>2. \A i \in 1 .. Len(a) : b[i] \in X
  BY <1>1
<1>3. PICK c : c = SubSeq(b, 1, Len(a))
  OBVIOUS
<1>4. /\ c \in Seq(X) /\ Len(c) = Len(a)
      /\ \A i \in 1 .. Len(a) : c[i] = b[i]
  <2>1. /\ c \in Seq(X) /\ Len(c) = IF 1 <= Len(a) THEN Len(a) - 1 + 1 ELSE 0
        /\ \A i \in 1 .. Len(a) - 1 + 1 : c[i] = b[1 + i - 1]
    BY <1>1, <1>2, <1>3, SubSeqProperties
  <2> QED  BY <1>1, <2>1
<1>5. c = a
  BY <1>1, <1>4
<1> QED  BY <1>1, <1>3, <1>5

(* equal_instr of a program with itself. *)
LEMMA ProgramsEqual == \A p : equal_instr(p, p)
  BY DEF equal_instr

--------------------------------------------------------------------------------
(* What plans read *)

\* The table of a plan that is awake was made by a program that equal_instr
\* does not tell from its own.
SameProgram ==
  \A u \in Users : wakefulness[u] \in Awakeness => equal_instr(tab[td[u]].instr, req[u].instr)

ServedInv == TableInv /\ SameProgram

(* Every step preserves that a plan's table was made by an equal program. *)
LEMMA ServedNext == ServedInv /\ [Next]_vars => ServedInv'
<1> SUFFICES ASSUME TableInv, SameProgram, [Next]_vars, TableInv' PROVE SameProgram'
  BY TableInvNext DEF ServedInv
<1>1. TypeOK /\ HasTable /\ TypeOK' /\ HasTable'
  BY DEF TableInv
<1>2. CASE UNCHANGED vars
  BY <1>2 DEF vars, SameProgram
<1>3. ASSUME NEW u \in Users, (\E q \in Requests : mkplan(u, q)) \/ plan_destroy(u)
      PROVE  SameProgram'
  <2>1. wakefulness'[u] \notin Awakeness /\ tab' = tab
    BY <1>1, <1>3, TableAssumption DEF TypeOK, mkplan, plan_destroy
  <2>2. \A v \in Users \ {u} : wakefulness'[v] = wakefulness[v] /\ req'[v] = req[v] /\ td'[v] = td[v]
    BY <1>1, <1>3 DEF TypeOK, mkplan, plan_destroy
  <2> QED  BY <2>1, <2>2 DEF SameProgram
<1>4. ASSUME NEW u \in Users, NEW w \in Awakeness, Awake(u, w), ShareTable(u, w)
      PROVE  SameProgram'
  <2>1. PICK t : t = lookup(w, req[u])
    OBVIOUS
  <2>2. req[u] \in Requests /\ hash(req[u].n, req[u].r) \in DOMAIN twlist
    <3>1. wakefulness[u] = "SLEEPY" /\ TypeOK
      BY <1>1, <1>4 DEF Awake
    <3>2. req[u] \in Requests /\ DOMAIN twlist = 0 .. HASHSZ - 1
      BY <3>1 DEF TypeOK
    <3>3. req[u].n \in Int /\ req[u].r \in Int
      BY <3>2, RequestAssumption
    <3> QED  BY <3>2, <3>3, HashRange
  <2>3. t \in Live /\ ok_twid(tab[t], w, req[u])
    BY <1>4, <2>1, <2>2, LookupFinds DEF ShareTable, TableInv, ListedOnce
  <2>4. req' = req /\ tab' = [tab EXCEPT ![t].refcnt = @ + 1] /\ td' = [td EXCEPT ![u] = t]
        /\ wakefulness' = [wakefulness EXCEPT ![u] = w]
    BY <1>4, <2>1 DEF Awake, ShareTable
  <2>5. \A x \in Live : tab'[x].instr = tab[x].instr
    BY <1>1, <2>3, <2>4 DEF TypeOK, Live, Twid
  <2>6. td'[u] = t /\ \A v \in Users \ {u} : td'[v] = td[v] /\ wakefulness'[v] = wakefulness[v]
    BY <1>1, <2>4 DEF TypeOK
  <2>7. equal_instr(tab'[t].instr, req'[u].instr)
    BY <2>3, <2>4, <2>5 DEF ok_twid
  <2>8. \A v \in Users \ {u} : wakefulness[v] \in Awakeness =>
          equal_instr(tab'[td[v]].instr, req'[v].instr)
    BY <1>1, <2>4, <2>5 DEF SameProgram, HasTable
  <2> QED  BY <2>6, <2>7, <2>8 DEF SameProgram
<1>5. ASSUME NEW u \in Users, NEW w \in Awakeness, Awake(u, w), NewTable(u, w)
      PROVE  SameProgram'
  <2>1. PICK t \in Tables :
          /\ tab[t] = NULL /\ td' = [td EXCEPT ![u] = t]
          /\ tab' = [tab EXCEPT ![t] =
               [n |-> req[u].n, r |-> req[u].r, m |-> req[u].m, instr |-> req[u].instr,
                wakefulness |-> w, refcnt |-> 1]]
    BY <1>5 DEF NewTable
  <2>2. req' = req /\ wakefulness' = [wakefulness EXCEPT ![u] = w]
    BY <1>5 DEF Awake
  <2>3. tab'[t].instr = req[u].instr /\ \A x \in Live : tab'[x] = tab[x]
    BY <1>1, <2>1 DEF TypeOK, Live
  <2>4. td'[u] = t /\ \A v \in Users \ {u} : td'[v] = td[v] /\ wakefulness'[v] = wakefulness[v]
    BY <1>1, <2>1, <2>2 DEF TypeOK
  <2>5. equal_instr(tab'[t].instr, req'[u].instr)
    BY <2>2, <2>3, ProgramsEqual
  <2>6. \A v \in Users \ {u} : wakefulness[v] \in Awakeness =>
          equal_instr(tab'[td[v]].instr, req'[v].instr)
    BY <1>1, <2>2, <2>3 DEF SameProgram, HasTable
  <2> QED  BY <2>4, <2>5, <2>6 DEF SameProgram
<1>6. ASSUME NEW u \in Users, Sleep(u) PROVE SameProgram'
  <2>1. PICK t : t = td[u]
    OBVIOUS
  <2>2. t \in Live /\ req' = req /\ wakefulness' = [wakefulness EXCEPT ![u] = "SLEEPY"]
    BY <1>1, <1>6, <2>1 DEF Sleep, HasTable
  <2>3. wakefulness'[u] \notin Awakeness
        /\ \A v \in Users \ {u} : wakefulness'[v] = wakefulness[v]
    BY <1>1, <2>2, TableAssumption DEF TypeOK
  <2>4. /\ \A v \in Users \ {u} : td'[v] = td[v]
        /\ \A x \in Live \cap Live' : tab'[x].instr = tab[x].instr
    <3>1. CASE ReleaseTable(t)
      <4>1. td' = td /\ tab' = [tab EXCEPT ![t].refcnt = @ - 1]
        BY <3>1 DEF ReleaseTable
      <4> QED  BY <1>1, <2>2, <4>1 DEF TypeOK, Live, Twid
    <3>2. CASE FreeTable(u, t)
      <4>1. td' = [td EXCEPT ![u] = NULL] /\ tab' = [tab EXCEPT ![t] = NULL]
        BY <3>2 DEF FreeTable
      <4> QED  BY <1>1, <4>1 DEF TypeOK, Live
    <3> QED  BY <1>6, <2>1, <3>1, <3>2 DEF Sleep
  <2>5. \A v \in Users \ {u} : wakefulness'[v] \in Awakeness => td[v] \in Live \cap Live'
    BY <1>1, <2>3, <2>4 DEF HasTable
  <2> QED  BY <2>2, <2>3, <2>4, <2>5 DEF SameProgram
<1> QED  BY <1>2, <1>3, <1>4, <1>5, <1>6 DEF Next, Awake

\* What a plan was promised: its own factors while it is awake, else nothing.
Promised(u) == IF wakefulness[u] \in Awakeness THEN Needed(wakefulness[u], req[u]) ELSE <<>>

(* A plan that is awake reads what its own request needs. *)
LEMMA ReadsIs ==
  ASSUME ServedInv, NEW u \in Users
  PROVE  Reads(u) = Promised(u)
<1>1. TypeOK /\ HasTable /\ SameProgram
  BY DEF ServedInv, TableInv
<1>2. CASE wakefulness[u] \notin Awakeness
  BY <1>2 DEF Reads, Promised
<1>3. CASE wakefulness[u] \in Awakeness
  <2>1. wakefulness[u] # "none" /\ req[u] \in Requests
    BY <1>1, <1>3, TableAssumption DEF TypeOK
  <2>2. PICK w : w = wakefulness[u]
    OBVIOUS
  <2>3. PICK q \in Requests : q = req[u]
    BY <2>1
  <2>4. td[u] \in Live /\ tab[td[u]] \in Twid
    BY <1>1, <1>3 DEF HasTable, TypeOK, Live
  <2>5. PICK t \in Twid : t = tab[td[u]]
    BY <2>4
  <2>6. /\ t.wakefulness = w /\ t.n = q.n /\ t.r = q.r /\ t.m >= q.m
        /\ equal_instr(t.instr, q.instr)
    BY <1>1, <1>3, <2>2, <2>3, <2>5 DEF HasTable, SameProgram
  <2>7. IsProgram(t.instr) /\ IsProgram(q.instr)
    <3>1. PICK p \in Requests : t.instr = p.instr
      BY DEF Twid
    <3> QED  BY <3>1, ProgramAssumption
  <2>8. PICK r \in Nat \ {0} : r = q.r
    BY RequestAssumption
  <2>9. PICK b \in Nat : b = q.m
    BY RequestAssumption
  <2>10. PICK a \in Nat : a = t.m /\ b <= a
    <3>1. t.m \in Int
      BY DEF Twid
    <3> QED  BY <2>6, <2>9, <3>1
  <2>11. PICK W : W = compute(w, t.instr, q.n, r, a)
    OBVIOUS
  <2>12. PICK V : V = compute(w, q.instr, q.n, r, b)
    OBVIOUS
  <2>13. /\ W \in Seq(Angles(w, q.n)) /\ V \in Seq(Angles(w, q.n)) /\ Begins(V, W)
    BY <2>6, <2>7, <2>10, <2>11, <2>12, ContentsBegin
  <2>14. Len(V) <= Len(W) /\ SubSeq(W, 1, Len(V)) = V /\ Len(V) \in Nat /\ Len(W) \in Nat
    BY <2>13, BeginningIs
  <2>15. Needed(wakefulness[u], req[u]) = V
    BY <2>2, <2>3, <2>8, <2>9, <2>12 DEF Needed
  <2>16. compute(t.wakefulness, t.instr, t.n, t.r, t.m) = W
    BY <2>6, <2>8, <2>10, <2>11
  <2>17. ~(Len(V) > Len(W))
    BY <2>14
  <2>18. Reads(u) = SubSeq(W, 1, Len(V))
    BY <1>3, <2>4, <2>5, <2>15, <2>16, <2>17 DEF Reads
  <2> QED  BY <1>3, <2>14, <2>15, <2>18 DEF Promised
<1> QED  BY <1>2, <1>3

\* The two variables of PrivateTables, as Twiddles shows them.
Asked == [u \in Users |-> IF wakefulness[u] = "none" THEN NULL ELSE req[u]]
Shown == [u \in Users |-> Promised(u)]

(* What each step does to the plans' requests and to what they are promised. *)
LEMMA StepIsPrivate ==
  ASSUME TypeOK, TypeOK', Next
  PROVE  \E u \in Users :
           \/ Asked[u] = NULL /\ Shown' = Shown
                /\ \E q \in Requests : Asked' = [Asked EXCEPT ![u] = q]
           \/ /\ Asked[u] # NULL /\ Shown[u] = <<>> /\ Asked' = Asked
              /\ \E w \in Awakeness : Shown' = [Shown EXCEPT ![u] = Needed(w, Asked[u])]
           \/ Shown' = [Shown EXCEPT ![u] = <<>>] /\ Asked' = Asked
           \/ Shown[u] = <<>> /\ Asked' = [Asked EXCEPT ![u] = NULL] /\ Shown' = Shown
<1>1. ASSUME NEW u \in Users, NEW q \in Requests, mkplan(u, q)
      PROVE  Asked[u] = NULL /\ Shown' = Shown /\ Asked' = [Asked EXCEPT ![u] = q]
  <2>1. /\ wakefulness[u] = "none" /\ wakefulness'[u] = "SLEEPY" /\ req'[u] = q
        /\ \A v \in Users \ {u} : wakefulness'[v] = wakefulness[v] /\ req'[v] = req[v]
    BY <1>1 DEF TypeOK, mkplan
  <2>2. \A v \in Users : Promised(v)' = Promised(v)
    BY <2>1, TableAssumption DEF Promised
  <2> QED  BY <2>1, <2>2 DEF Asked, Shown
<1>2. ASSUME NEW u \in Users, NEW w \in Awakeness, Awake(u, w)
      PROVE  /\ Asked[u] # NULL /\ Shown[u] = <<>> /\ Asked' = Asked
             /\ Shown' = [Shown EXCEPT ![u] = Needed(w, Asked[u])]
  <2>1. /\ wakefulness[u] = "SLEEPY" /\ wakefulness'[u] = w /\ req' = req
        /\ \A v \in Users \ {u} : wakefulness'[v] = wakefulness[v]
    BY <1>2 DEF TypeOK, Awake
  <2>2. Promised(u)' = Needed(w, req[u]) /\ \A v \in Users \ {u} : Promised(v)' = Promised(v)
    BY <2>1 DEF Promised
  <2>3. Promised(u) = <<>> /\ Asked[u] = req[u] /\ req[u] # NULL
    BY <2>1, TableAssumption DEF Promised, Asked, TypeOK
  <2>4. Asked' = Asked
    BY <2>1, TableAssumption DEF Asked
  <2> QED  BY <2>2, <2>3, <2>4 DEF Shown
<1>3. ASSUME NEW u \in Users, Sleep(u)
      PROVE  Shown' = [Shown EXCEPT ![u] = <<>>] /\ Asked' = Asked
  <2>1. /\ wakefulness[u] \in Awakeness /\ wakefulness'[u] = "SLEEPY" /\ req' = req
        /\ \A v \in Users \ {u} : wakefulness'[v] = wakefulness[v]
    BY <1>3 DEF TypeOK, Sleep
  <2>2. Promised(u)' = <<>> /\ \A v \in Users \ {u} : Promised(v)' = Promised(v)
    BY <2>1, TableAssumption DEF Promised
  <2>3. Asked' = Asked
    BY <2>1, TableAssumption DEF Asked
  <2> QED  BY <2>2, <2>3 DEF Shown
<1>4. ASSUME NEW u \in Users, plan_destroy(u)
      PROVE  Shown[u] = <<>> /\ Asked' = [Asked EXCEPT ![u] = NULL] /\ Shown' = Shown
  <2>1. /\ wakefulness[u] = "SLEEPY" /\ wakefulness'[u] = "none"
        /\ \A v \in Users \ {u} : wakefulness'[v] = wakefulness[v] /\ req'[v] = req[v]
    BY <1>4 DEF TypeOK, plan_destroy
  <2>2. Promised(u) = <<>> /\ \A v \in Users : Promised(v)' = Promised(v)
    BY <2>1, TableAssumption DEF Promised
  <2> QED  BY <2>1, <2>2 DEF Asked, Shown
<1> QED  BY <1>1, <1>2, <1>3, <1>4 DEF Next

(* What is promised is what is read. *)
LEMMA ShownIsRead == ServedInv => [u \in Users |-> Reads(u)] = Shown
  BY ReadsIs DEF Shown

(* The inductive invariant with the programs the tables were made by. *)
THEOREM ServedInvariance == Spec => []ServedInv
<1>1. Init => ServedInv
  BY TableInvInit, TableAssumption DEF ServedInv, SameProgram, Init
<1> QED  BY <1>1, ServedNext, PTL DEF Spec

(* Sharing cannot be told from each plan having a table of its own: between  *)
(* waking and sleep a plan reads the factors of its own request, of any      *)
(* program, radix and length, in whichever table it was given                *)
(* (twiddle.c:67-88, 197-242).                                               *)
THEOREM TablesArePrivate == Spec => SharingIsInvisible
<1>1. Init => Private!Init
  <2> SUFFICES ASSUME Init PROVE Private!Init
    OBVIOUS
  <2>1. \A u \in Users : wakefulness[u] = "none" /\ "none" \notin Awakeness
    BY TableAssumption DEF Init
  <2>2. \A u \in Users : Reads(u) = <<>>
    BY <2>1 DEF Reads
  <2> QED  BY <2>1, <2>2 DEF Private!Init
<1>2. ServedInv' => ([u \in Users |-> Reads(u)] = Shown)'
  BY ShownIsRead, PTL
<1>3. ServedInv /\ ServedInv' /\ [Next]_vars => [Private!Next]_(Private!vars)
  <2> SUFFICES ASSUME ServedInv, ServedInv', [Next]_vars
               PROVE  [Private!Next]_(Private!vars)
    OBVIOUS
  <2>1. /\ [u \in Users |-> Reads(u)] = Shown /\ [u \in Users |-> Reads(u)]' = Shown'
        /\ TypeOK /\ TypeOK'
    BY <1>2, ShownIsRead DEF ServedInv, TableInv
  <2>2. CASE UNCHANGED vars
    <3>1. Asked' = Asked /\ Shown' = Shown
      BY <2>2 DEF vars, Asked, Shown, Promised
    <3> QED  BY <2>1, <3>1 DEF Private!vars, Asked
  <2>3. CASE Next
    BY <2>1, <2>3, StepIsPrivate
       DEF Private!Next, Private!Create, Private!Wake, Private!Sleep, Private!Destroy, Asked
  <2> QED  BY <2>2, <2>3
<1> QED  BY <1>1, <1>3, ServedInvariance, PTL DEF Spec, SharingIsInvisible, Private!Spec

--------------------------------------------------------------------------------
(* How far the plan with tree j has come *)

Absent(j)   == All(Trees[j], "none")
Made(u)     == req[u] = Wanted[u]
Making(j)   == \A u \in Trees[j] : wakefulness[u] = "none" \/
                 (wakefulness[u] = "SLEEPY" /\ Made(u) /\ j \in slv)
Waking(j)   == j \in slv /\ \A u \in Trees[j] :
                 wakefulness[u] \in {"SLEEPY", "AWAKE_SINCOS"} /\ Made(u)
Standing(j) == j \in slv /\ \A u \in Trees[j] : wakefulness[u] = "AWAKE_SINCOS" /\ Made(u)

(* Plans are made in order, are executed when all stand, and are destroyed *)
(* in order. *)
Progress(j) ==
  /\ pc \in {"plan", "search", "make", "wake"} =>
       (j < k => Standing(j)) /\ (j > k => Absent(j))
  /\ pc \in {"plan", "search"} /\ j = k => Absent(j)
  /\ pc = "make" /\ j = k => Making(j)
  /\ pc = "wake" /\ j = k => Waking(j)
  /\ pc = "execute" => Standing(j)
  /\ pc = "destroy" => j \in slv /\ (j < k => Absent(j)) /\ (j > k => Standing(j))
  /\ pc = "cleanup" => Absent(j)

(* What the searches leave. *)
ScratchGone ==
  /\ pc \in {"make", "wake"} => \A s \in Scratch : wakefulness[s] \in {"SLEEPY", "none"}
  /\ pc \in {"plan", "execute", "destroy", "cleanup"} => All(Scratch, "none")

InTrees == UNION {Trees[j] : j \in DOMAIN Trees}

CallInv ==
  /\ pc \in {"plan", "search", "make", "wake", "execute", "destroy", "cleanup"}
  /\ k \in DOMAIN Trees
  /\ pc = "cleanup" => k = 1
  /\ pc = "plan" /\ k = 1 => ~planner /\ slv = {}
  /\ All(Users \ (Scratch \cup InTrees), "none")
  /\ ScratchGone
  /\ \A j \in DOMAIN Trees : Progress(j)

LifecycleInv == ServedInv /\ CallInv

--------------------------------------------------------------------------------
(* Trees are made of plan objects, of which no other plan and no search has *)
(* one. *)
LEMMA TreesApart ==
  /\ \A j \in DOMAIN Trees : Trees[j] \subseteq Users /\ Trees[j] \cap Scratch = {}
  /\ \A j, l \in DOMAIN Trees : \A u \in Trees[j] : u \in Trees[l] => j = l
  /\ \A j \in DOMAIN Trees : \A u \in Trees[j] : Wanted[u] \in Requests
  /\ Scratch \subseteq Users /\ {"AWAKE_ZERO", "AWAKE_SINCOS"} \subseteq Awakeness
  /\ DOMAIN Trees = 1 .. Len(Trees) /\ Len(Trees) \in Nat \ {0}
<1>1. Trees \in Seq(SUBSET (Users \ Scratch)) /\ Trees # <<>>
  BY LifecycleAssumption
<1>2. DOMAIN Trees = 1 .. Len(Trees) /\ Len(Trees) \in Nat \ {0}
  BY <1>1
<1>3. \A j \in DOMAIN Trees : Trees[j] \subseteq Users /\ Trees[j] \cap Scratch = {}
  BY <1>1
<1>4. \A j, l \in DOMAIN Trees : \A u \in Trees[j] : u \in Trees[l] => j = l
  BY LifecycleAssumption
<1> QED  BY <1>2, <1>3, <1>4, LifecycleAssumption

(* What an operation of module Twiddles does not do to other plan objects. *)
Rest(u) == \A v \in Users : v # u => wakefulness'[v] = wakefulness[v] /\ req'[v] = req[v]

(* Each operation is of one plan object. *)
LEMMA OneObject ==
  ASSUME TypeOK, NEW u \in Users
  PROVE  /\ \A q : mkplan(u, q) => Rest(u) /\ wakefulness'[u] = "SLEEPY" /\ req'[u] = q
         /\ \A w : Awake(u, w) => Rest(u) /\ wakefulness'[u] = w /\ req'[u] = req[u]
         /\ Sleep(u) => Rest(u) /\ wakefulness'[u] = "SLEEPY" /\ req'[u] = req[u]
         /\ plan_destroy(u) => Rest(u) /\ wakefulness'[u] = "none"
<1>1. wakefulness \in [Users -> Wakefulness] /\ req \in [Users -> Requests \cup {NULL}]
  BY DEF TypeOK
<1>2. \A q : mkplan(u, q) => Rest(u) /\ wakefulness'[u] = "SLEEPY" /\ req'[u] = q
  BY <1>1 DEF mkplan, Rest
<1>3. \A w : Awake(u, w) => Rest(u) /\ wakefulness'[u] = w /\ req'[u] = req[u]
  BY <1>1 DEF Awake, Rest
<1>4. Sleep(u) => Rest(u) /\ wakefulness'[u] = "SLEEPY" /\ req'[u] = req[u]
  BY <1>1 DEF Sleep, Rest
<1>5. plan_destroy(u) => Rest(u) /\ wakefulness'[u] = "none"
  BY <1>1 DEF plan_destroy, Rest
<1> QED  BY <1>2, <1>3, <1>4, <1>5

(* A call is, for the plan objects, a step of module Twiddles or none. *)
LEMMA CallsAreSteps ==
  ASSUME CallInv, [LifecycleNext]_allVars
  PROVE  [Next]_vars
<1> USE DEF Next
<1>1. k \in DOMAIN Trees
  BY DEF CallInv
<1>2. CASE UNCHANGED allVars
  BY <1>2 DEF allVars
<1>3. CASE the_planner \/ SearchDone \/ Planned \/ Execute \/ Destroyed \/ Cleanup
  BY <1>3 DEF the_planner, SearchDone, Planned, Execute, Destroyed, Cleanup
<1>4. ASSUME NEW s \in Scratch, Search(s) PROVE Next
  BY <1>4, TreesApart DEF Search, measure_execution_time
<1>5. ASSUME NEW s \in Scratch, Drop(s) PROVE Next
  BY <1>5, TreesApart DEF Drop
<1>6. ASSUME NEW u \in Trees[k], Make(u) \/ Wake(u) \/ DestroyAwake(u) \/ DestroyInternal(u)
      PROVE  Next
  <2>1. u \in Users /\ Wanted[u] \in Requests /\ "AWAKE_SINCOS" \in Awakeness
    BY <1>1, TreesApart
  <2> QED  BY <1>6, <2>1 DEF Make, Wake, DestroyAwake, DestroyInternal
<1> QED  BY <1>2, <1>3, <1>4, <1>5, <1>6 DEF LifecycleNext

(* An operation on an object of a search leaves every plan as it is. *)
LEMMA ScratchStep ==
  ASSUME CallInv, NEW s \in Scratch, Rest(s), UNCHANGED <<pc, k, planner, slv>>
  PROVE  /\ All(Users \ (Scratch \cup InTrees), "none")'
         /\ \A j \in DOMAIN Trees : Progress(j)'
<1>1. ASSUME NEW j \in DOMAIN Trees, NEW u \in Trees[j]
      PROVE  wakefulness'[u] = wakefulness[u] /\ req'[u] = req[u]
  BY <1>1, TreesApart DEF Rest
<1>2. \A j \in DOMAIN Trees : Progress(j)'
  BY <1>1 DEF CallInv, Progress, Absent, Making, Waking, Standing, Made, All
<1> QED  BY <1>2 DEF CallInv, All, Rest

(* An operation on an object of plan k leaves the others as they are, and the *)
(* searches. *)
LEMMA TreeStep ==
  ASSUME CallInv, NEW u \in Trees[k], Rest(u), k' = k, UNCHANGED planner,
         slv \subseteq slv', pc' = pc \/ (pc = "make" /\ pc' = "wake"), pc # "plan",
         Progress(k)'
  PROVE  CallInv'
<1>1. k \in DOMAIN Trees /\ u \in InTrees /\ u \notin Scratch
  BY TreesApart DEF CallInv, InTrees
<1>2. ASSUME NEW j \in DOMAIN Trees, NEW v \in Trees[j], j # k
      PROVE  wakefulness'[v] = wakefulness[v] /\ req'[v] = req[v]
  BY <1>1, <1>2, TreesApart DEF Rest
<1>3. ASSUME NEW j \in DOMAIN Trees, j # k PROVE Progress(j)'
  <2>1. Progress(j)
    BY DEF CallInv
  <2> QED  BY <1>2, <1>3, <2>1 DEF Progress, Absent, Standing, Made, All
<1>4. All(Users \ (Scratch \cup InTrees), "none")'
  BY <1>1 DEF CallInv, All, Rest
<1>5. \A s \in Scratch : wakefulness'[s] = wakefulness[s]
  BY <1>1, TreesApart DEF Rest
<1>6. ScratchGone'
  BY <1>5 DEF CallInv, ScratchGone, All
<1>7. \A j \in DOMAIN Trees : Progress(j)'
  BY <1>3
<1> QED  BY <1>1, <1>4, <1>6, <1>7 DEF CallInv

--------------------------------------------------------------------------------
(* Each call keeps the invariant *)

(* A search makes, measures and destroys objects of its own only. *)
LEMMA SearchKeeps ==
  ASSUME CallInv, TypeOK, NEW s \in Scratch, Search(s) \/ Drop(s)
  PROVE  CallInv'
<1>1. s \in Users
  BY TreesApart
<1>2. UNCHANGED <<pc, k, planner, slv>>
  BY DEF Search, Drop, callVars
<1>3. Rest(s)
  BY <1>1, OneObject DEF Search, Drop, measure_execution_time
<1>4. ScratchGone'
  <2>1. CASE Search(s)
    BY <1>2, <2>1 DEF Search, ScratchGone
  <2>2. CASE Drop(s)
    <3>1. pc = "wake" /\ wakefulness'[s] = "none"
      BY <1>1, <2>2, OneObject DEF Drop
    <3> QED  BY <1>2, <1>3, <3>1, TreesApart DEF Rest, ScratchGone, CallInv
  <2> QED  BY <2>1, <2>2
<1> QED  BY <1>2, <1>3, <1>4, ScratchStep DEF CallInv

(* The plan found is made again and woken, object by object, ... *)
LEMMA MakeKeeps ==
  ASSUME CallInv, TypeOK, NEW u \in Trees[k], Make(u) \/ Wake(u)
  PROVE  CallInv'
<1>1. k \in DOMAIN Trees /\ u \in Users /\ Progress(k) /\ \A v \in Trees[k] : v \in Users
  BY TreesApart DEF CallInv
<1>2. k \in Nat
  BY <1>1, TreesApart
<1>3. CASE Make(u)
  <2>1. /\ pc = "make" /\ Rest(u) /\ wakefulness'[u] = "SLEEPY" /\ Made(u)'
        /\ slv' = slv \cup {k} /\ UNCHANGED <<pc, k, planner>>
    BY <1>1, <1>3, OneObject DEF Make, Made
  <2>2. Making(k)'
    <3>1. Making(k)
      BY <1>1, <2>1 DEF Progress
    <3>2. ASSUME NEW v \in Trees[k]
          PROVE  (wakefulness[v] = "none" \/ (wakefulness[v] = "SLEEPY" /\ Made(v) /\ k \in slv))'
      <4>1. CASE v = u
        BY <2>1, <4>1
      <4>2. CASE v # u
        <5>1. wakefulness'[v] = wakefulness[v] /\ req'[v] = req[v]
          BY <1>1, <2>1, <4>2 DEF Rest
        <5> QED  BY <2>1, <3>1, <5>1 DEF Making, Made
      <4> QED  BY <4>1, <4>2
    <3>3. k' = k
      BY <2>1
    <3> QED  BY <3>2, <3>3 DEF Making
  <2>3. Progress(k)'
    BY <1>2, <2>1, <2>2 DEF Progress
  <2> QED  BY <2>1, <2>3, TreeStep
<1>4. CASE Wake(u)
  <2>1. /\ pc \in {"make", "wake"} /\ pc' = "wake" /\ UNCHANGED <<k, planner, slv>>
        /\ Rest(u) /\ wakefulness'[u] = "AWAKE_SINCOS" /\ req'[u] = req[u]
    BY <1>1, <1>4, OneObject DEF Wake
  <2>2. Waking(k)
    <3>1. CASE pc = "wake"
      BY <1>1, <3>1 DEF Progress
    <3>2. CASE pc = "make"
      <4>1. Making(k) /\ All(Trees[k], "SLEEPY")
        BY <1>1, <1>4, <3>2 DEF Progress, Wake
      <4> QED  BY <4>1 DEF Making, Waking, All
    <3> QED  BY <2>1, <3>1, <3>2
  <2>3. Waking(k)'
    <3>1. ASSUME NEW v \in Trees[k]
          PROVE  (wakefulness[v] \in {"SLEEPY", "AWAKE_SINCOS"} /\ Made(v))'
      <4>1. CASE v = u
        BY <2>1, <2>2, <4>1 DEF Waking, Made
      <4>2. CASE v # u
        <5>1. wakefulness'[v] = wakefulness[v] /\ req'[v] = req[v]
          BY <1>1, <2>1, <4>2 DEF Rest
        <5> QED  BY <2>2, <5>1 DEF Waking, Made
      <4> QED  BY <4>1, <4>2
    <3>2. k' = k /\ (k \in slv)'
      BY <2>1, <2>2 DEF Waking
    <3> QED  BY <3>1, <3>2 DEF Waking
  <2>4. Progress(k)'
    BY <1>2, <2>1, <2>3 DEF Progress
  <2> QED  BY <2>1, <2>4, TreeStep
<1> QED  BY <1>3, <1>4

(* ... and later put to sleep and destroyed. *)
LEMMA DestroyKeeps ==
  ASSUME CallInv, TypeOK, NEW u \in Trees[k], DestroyAwake(u) \/ DestroyInternal(u)
  PROVE  CallInv'
<1>1. k \in DOMAIN Trees /\ u \in Users /\ Progress(k)
  BY TreesApart DEF CallInv
<1>2. pc = "destroy" /\ Rest(u) /\ UNCHANGED <<pc, k, planner, slv>>
  BY <1>1, OneObject DEF DestroyAwake, DestroyInternal, callVars
<1>3. k \in Nat
  BY <1>1, TreesApart
<1>4. Progress(k)'
  BY <1>1, <1>2, <1>3 DEF Progress
<1> QED  BY <1>2, <1>4, TreeStep

(* Where the program only goes on, plans stay and it is elsewhere. *)
LEMMA GoingOnKeeps ==
  ASSUME CallInv, the_planner \/ SearchDone \/ Planned \/ Execute \/ Destroyed \/ Cleanup
  PROVE  CallInv'
<1>1. /\ k \in Nat \ {0} /\ k <= Len(Trees) /\ Len(Trees) \in Nat
      /\ DOMAIN Trees = 1 .. Len(Trees) /\ 1 \in DOMAIN Trees
      /\ \A j \in DOMAIN Trees : Progress(j) /\ j \in Nat /\ 1 <= j /\ j <= Len(Trees)
  BY TreesApart DEF CallInv
<1>2. UNCHANGED vars
  BY DEF the_planner, SearchDone, Planned, Execute, Destroyed, Cleanup
<1>3. All(Users \ (Scratch \cup InTrees), "none")'
  BY <1>2 DEF CallInv, All, vars
<1>4. \A j \in DOMAIN Trees : Absent(j)' = Absent(j)
  BY <1>2 DEF Absent, All, vars
<1>5. UNCHANGED slv => \A j \in DOMAIN Trees : Standing(j)' = Standing(j)
  BY <1>2 DEF Standing, Made, vars
<1>6. CASE the_planner
  <2>1. /\ pc = "plan" /\ pc' = "search" /\ UNCHANGED <<k, slv>>
    BY <1>6 DEF the_planner
  <2>2. \A j \in DOMAIN Trees : Progress(j)'
    BY <1>1, <1>4, <1>5, <2>1 DEF Progress
  <2>3. ScratchGone'
    BY <2>1 DEF ScratchGone
  <2> QED  BY <1>3, <2>1, <2>2, <2>3 DEF CallInv
<1>7. CASE SearchDone
  <2>1. /\ pc = "search" /\ pc' = "make" /\ UNCHANGED <<k, planner, slv>>
        /\ \A s \in Scratch : wakefulness[s] \in {"SLEEPY", "none"}
    BY <1>7 DEF SearchDone
  <2>2. Making(k)'
    BY <1>1, <1>2, <2>1 DEF Progress, Absent, Making, All, vars
  <2>3. \A j \in DOMAIN Trees : Progress(j)'
    BY <1>1, <1>4, <1>5, <2>1, <2>2 DEF Progress
  <2>4. ScratchGone'
    BY <1>2, <2>1 DEF ScratchGone, vars
  <2> QED  BY <1>3, <2>1, <2>3, <2>4 DEF CallInv
<1>8. CASE Planned
  <2>1. /\ pc = "wake" /\ UNCHANGED <<planner, slv>>
        /\ All(Trees[k], "AWAKE_SINCOS") /\ All(Scratch, "none")
        /\ IF k < Len(Trees) THEN k' = k + 1 /\ pc' = "plan" ELSE k' = 1 /\ pc' = "execute"
    BY <1>8 DEF Planned
  <2>2. Standing(k)
    BY <1>1, <2>1 DEF Progress, Waking, Standing, All
  <2>3. \A j \in DOMAIN Trees : Progress(j)'
    BY <1>1, <1>4, <1>5, <2>1, <2>2 DEF Progress
  <2>4. ScratchGone'
    BY <1>2, <2>1 DEF ScratchGone, All, vars
  <2> QED  BY <1>1, <1>3, <2>1, <2>3, <2>4 DEF CallInv
<1>9. CASE Execute
  <2>1. /\ pc = "execute" /\ UNCHANGED <<planner, slv>>
        /\ IF k < Len(Trees) THEN k' = k + 1 /\ UNCHANGED pc ELSE k' = 1 /\ pc' = "destroy"
    BY <1>9 DEF Execute, Proceed
  <2>2. \A j \in DOMAIN Trees : Standing(j)
    BY <1>1, <2>1 DEF Progress
  <2>3. \A j \in DOMAIN Trees : j \in slv
    BY <2>2 DEF Standing
  <2>4. \A j \in DOMAIN Trees : Progress(j)'
    BY <1>1, <1>5, <2>1, <2>2, <2>3 DEF Progress
  <2>5. ScratchGone'
    BY <1>2, <2>1 DEF CallInv, ScratchGone, All, vars
  <2> QED  BY <1>1, <1>3, <2>1, <2>4, <2>5 DEF CallInv
<1>10. CASE Destroyed
  <2>1. /\ pc = "destroy" /\ UNCHANGED <<planner, slv>> /\ Absent(k)
        /\ IF k < Len(Trees) THEN k' = k + 1 /\ UNCHANGED pc ELSE k' = 1 /\ pc' = "cleanup"
    BY <1>10 DEF Destroyed, Proceed, Absent
  <2>2. \A j \in DOMAIN Trees : Progress(j)'
    BY <1>1, <1>4, <1>5, <2>1 DEF Progress
  <2>3. ScratchGone'
    BY <1>2, <2>1 DEF CallInv, ScratchGone, All, vars
  <2> QED  BY <1>1, <1>3, <2>1, <2>2, <2>3 DEF CallInv
<1>11. CASE Cleanup
  <2>1. /\ pc = "cleanup" /\ pc' = "plan" /\ planner' = FALSE /\ slv' = {} /\ k' = k /\ k = 1
    BY <1>11 DEF Cleanup, CallInv
  <2>2. \A j \in DOMAIN Trees : Progress(j)'
    BY <1>1, <1>4, <2>1 DEF Progress
  <2>3. ScratchGone'
    BY <1>2, <2>1 DEF CallInv, ScratchGone, All, vars
  <2> QED  BY <1>1, <1>3, <2>1, <2>2, <2>3 DEF CallInv
<1> QED  BY <1>6, <1>7, <1>8, <1>9, <1>10, <1>11

(* The first round begins with nothing. *)
LEMMA CallInvInit == LifecycleInit => LifecycleInv
<1> SUFFICES ASSUME LifecycleInit PROVE LifecycleInv
  OBVIOUS
<1>1. ServedInv
  BY TableInvInit, TableAssumption DEF LifecycleInit, ServedInv, SameProgram, Init
<1>2. \A u \in Users : wakefulness[u] = "none"
  BY DEF LifecycleInit, Init
<1>3. pc = "plan" /\ k = 1 /\ planner = FALSE /\ slv = {}
  BY DEF LifecycleInit
<1>4. k \in DOMAIN Trees /\ \A j \in DOMAIN Trees : j \in Nat /\ 1 <= j /\ Absent(j)
  BY <1>2, <1>3, TreesApart DEF Absent, All
<1>5. \A j \in DOMAIN Trees : Progress(j)
  BY <1>3, <1>4 DEF Progress
<1>6. ScratchGone /\ All(Users \ (Scratch \cup InTrees), "none")
  BY <1>2, <1>3, TreesApart DEF ScratchGone, All
<1> QED  BY <1>1, <1>3, <1>4, <1>5, <1>6 DEF LifecycleInv, CallInv

(* Every step preserves how far the plans have come. *)
LEMMA LifecycleInvNext == LifecycleInv /\ [LifecycleNext]_allVars => LifecycleInv'
<1> SUFFICES ASSUME LifecycleInv, [LifecycleNext]_allVars PROVE LifecycleInv'
  OBVIOUS
<1>1. CallInv /\ ServedInv /\ TypeOK
  BY DEF LifecycleInv, ServedInv, TableInv
<1>2. ServedInv'
  <2>1. [Next]_vars
    BY <1>1, CallsAreSteps
  <2> QED  BY <1>1, <2>1, ServedNext
<1> SUFFICES CallInv'
  BY <1>2 DEF LifecycleInv
<1>3. CASE UNCHANGED allVars
  <2>1. UNCHANGED <<wakefulness, req, pc, k, planner, slv>>
    BY <1>3 DEF allVars, callVars, vars
  <2>3. ScratchGone'
    BY <1>1, <2>1 DEF CallInv, ScratchGone, All
  <2>4. \A j \in DOMAIN Trees : Progress(j)'
    BY <1>1, <2>1 DEF CallInv, Progress, Absent, Making, Waking, Standing, Made, All
  <2>5. All(Users \ (Scratch \cup InTrees), "none")'
    BY <1>1, <2>1 DEF CallInv, All
  <2>6. (pc = "plan" /\ k = 1 => ~planner /\ slv = {})'
    BY <1>1, <2>1 DEF CallInv
  <2>7. /\ pc' \in {"plan", "search", "make", "wake", "execute", "destroy", "cleanup"}
        /\ k' \in DOMAIN Trees /\ (pc = "cleanup" => k = 1)'
    BY <1>1, <2>1 DEF CallInv
  <2> QED  BY <2>3, <2>4, <2>5, <2>6, <2>7 DEF CallInv
<1>4. CASE the_planner \/ SearchDone \/ Planned \/ Execute \/ Destroyed \/ Cleanup
  BY <1>1, <1>4, GoingOnKeeps
<1>5. ASSUME NEW s \in Scratch, Search(s) \/ Drop(s) PROVE CallInv'
  BY <1>1, <1>5, SearchKeeps
<1>6. ASSUME NEW u \in Trees[k], Make(u) \/ Wake(u) \/ DestroyAwake(u) \/ DestroyInternal(u)
      PROVE  CallInv'
  BY <1>1, <1>6, MakeKeeps, DestroyKeeps
<1> QED  BY <1>3, <1>4, <1>5, <1>6 DEF LifecycleNext

--------------------------------------------------------------------------------
(* Theorems *)

(* The inductive invariant holds in every round. *)
THEOREM LifecycleInvariance == LifecycleSpec => []LifecycleInv
BY CallInvInit, LifecycleInvNext, PTL DEF LifecycleSpec

(* The program's calls use the plan objects as module Twiddles has them, so   *)
(* that what is proved of those holds of every round: the tables count their  *)
(* users, none is missing or wrong (kernel/twiddle.c:67-76, 203, 229).         *)
THEOREM RoundsUsePlans == LifecycleSpec => Spec /\ [](CountsUsers /\ HasTable)
<1>1. LifecycleInit => Init
  BY DEF LifecycleInit
<1>2. LifecycleInv /\ [LifecycleNext]_allVars => [Next]_vars
  BY CallsAreSteps DEF LifecycleInv
<1>3. LifecycleInv => CountsUsers /\ HasTable
  BY DEF LifecycleInv, ServedInv, TableInv
<1> QED  BY <1>1, <1>2, <1>3, LifecycleInvariance, PTL DEF LifecycleSpec, Spec

(* No round can tell that plans share tables.                                *)
THEOREM RoundsSharePrivately == LifecycleSpec => SharingIsInvisible
BY RoundsUsePlans, TablesArePrivate, PTL

(* Plans are executed and taken apart while their solvers are there, and      *)
(* executed with the factors of their own requests in all parts, none left    *)
(* over from a measurement (localization.cpp; api/apiplan.c:148-164, 180-183).          *)
THEOREM PlansExecuteWhole == LifecycleSpec => []ExecutesWhole
<1>1. LifecycleInv => ExecutesWhole
  <2> SUFFICES ASSUME LifecycleInv PROVE ExecutesWhole
    OBVIOUS
  <2>1. ServedInv /\ k \in DOMAIN Trees /\ Progress(k)
    BY DEF LifecycleInv, CallInv
  <2>2. ASSUME pc = "execute", NEW u \in Trees[k]
        PROVE  Reads(u) = Needed("AWAKE_SINCOS", Wanted[u])
    <3>1. u \in Users /\ "AWAKE_SINCOS" \in Awakeness
      BY <2>1, TreesApart
    <3>2. wakefulness[u] = "AWAKE_SINCOS" /\ req[u] = Wanted[u]
      BY <2>1, <2>2 DEF Progress, Standing, Made
    <3>3. Reads(u) = Promised(u)
      BY <2>1, <3>1, ReadsIs
    <3> QED  BY <3>1, <3>2, <3>3 DEF Promised
  <2>3. pc = "execute" => k \in slv
    BY <2>1 DEF Progress, Standing
  <2>4. pc = "destroy" => k \in slv
    BY <2>1 DEF Progress
  <2> QED  BY <2>2, <2>3, <2>4 DEF ExecutesWhole
<1> QED  BY <1>1, LifecycleInvariance, PTL

(* A round leaves nothing to the next: no planner, no plan and no table.      *)
THEOREM RoundsLeaveNothing == LifecycleSpec => []RoundLeavesNothing
<1>1. LifecycleInv => RoundLeavesNothing
  <2> SUFFICES ASSUME LifecycleInv, pc = "plan", k = 1 PROVE RoundLeavesNothing
    BY DEF RoundLeavesNothing
  <2>1. CallInv /\ CountsUsers /\ ~planner /\ slv = {}
    BY DEF LifecycleInv, CallInv, ServedInv, TableInv
  <2>2. \A j \in DOMAIN Trees : Absent(j)
    <3>1. \A j \in DOMAIN Trees : Progress(j) /\ j \in Nat /\ (j = k \/ j > k)
      BY <2>1, TreesApart DEF CallInv
    <3> QED  BY <3>1 DEF Progress
  <2>3. ASSUME NEW u \in Users PROVE wakefulness[u] = "none"
    <3>1. CASE u \in InTrees
      BY <2>2, <3>1 DEF Absent, All, InTrees
    <3>2. CASE u \in Scratch
      BY <2>1, <3>2 DEF CallInv, ScratchGone, All
    <3>3. CASE u \notin Scratch \cup InTrees
      BY <2>1, <3>3 DEF CallInv, All
    <3> QED  BY <3>1, <3>2, <3>3
  <2>4. Live = {}
    <3>1. \A t : Using(t) = {}
      BY <2>3, TableAssumption DEF Using
    <3> QED  BY <2>1, <3>1 DEF CountsUsers
  <2> QED  BY <2>1, <2>3, <2>4 DEF RoundLeavesNothing, All
<1> QED  BY <1>1, LifecycleInvariance, PTL
================================================================================
