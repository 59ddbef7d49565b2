----------------------------- MODULE PlannerProofs ------------------------------
(***************************************************************************)
(* The planner's time, its hash tables, its plans and its wisdom, for any  *)
(* problems, solvers, flags and files.                                     *)
(*                                                                         *)
(* Time: the recursion of mkplan is a row of searches with the impatience  *)
(* flags of the first, and from some frame on of replays of wisdom, in     *)
(* which nothing is searched.  The estimator, which takes no notice of     *)
(* time, is therefore at work in all searches or in none.                  *)
(*                                                                         *)
(* Tables: as the size is prime, a search visits every slot, so that an    *)
(* insertion finds a free one; as slots that were used stay valid, what    *)
(* was put behind them is still reached.                                   *)
(*                                                                         *)
(* Plans and wisdom: each call hands on its flags to the calls it makes    *)
(* (CallsInv), so that plans are what was asked for (PlansInv); a call     *)
(* that gives none has tried everything (Denials); no solution is kept     *)
(* that another makes useless (RedundancyInv), and what is needed to       *)
(* follow a solution is kept with it (SupportInv).                         *)
(***************************************************************************)
EXTENDS ApiPlan, TLAPS, FiniteSetTheorems, SequenceTheorems, WellFoundedInduction

(* Frames of mkplan *)

Fields == {"p", "flags", "at", "sol", "x", "last_x", "i", "owisdom", "s", "parts", "got",
           "best", "slvndx"}

(* A solver is invoked by a search with the flags of the search; there is no *)
(* best plan before one was searched for. *)
IsFrame(f) ==
  /\ DOMAIN f = Fields
  /\ f.at \in {"lookup", "relax", "search0", "solve", "part", "got", "searched"}
  /\ f.owisdom \in Wisdom \cup {NULL}
  /\ f.owisdom # NULL => f.at \in {"solve", "part", "got"}
  /\ f.owisdom = NULL /\ f.at \in {"search0", "solve", "part", "got"} => f.sol.u = f.flags.u
  /\ f.at \in {"lookup", "relax", "search0"} => f.best = NULL

Calls == 1 .. Len(stack)

(* The calls of mkplan as a row: those before the innermost wait for a part. *)
(* Below a replay is nothing but replays and a call that begins; wisdom is    *)
(* all that is used then, and was before each inner replay.                  *)
Row ==
  /\ \E S : stack \in Seq(S)
  /\ \A i \in Calls : IsFrame(stack[i]) /\ (i < Len(stack) => stack[i].at = "part")
  /\ \A i, j \in Calls : i < j /\ stack[i].owisdom # NULL =>
       stack[j].at = "lookup" \/ stack[j].owisdom = "ONLY"
  /\ \A i \in Calls : stack[i].owisdom # NULL => wisdom_state \in {"ONLY", "BOGUS"}
  /\ \A j \in Calls : (\A i \in Calls : i < j => stack[i].owisdom = NULL) =>
       stack[j].flags.u = stack[1].flags.u
  /\ wisdom_state \in Wisdom

(* If the searches are estimates, they have not run out of time. *)
Time ==
  /\ timed_out \in BOOLEAN
  /\ timed_out => need_timeout_check
  /\ stack # <<>> /\ stack[1].at # "lookup" /\ stack[1].owisdom = NULL
       /\ Estimate(stack[1].flags.u) => ~timed_out
  /\ At("searched") /\ timed_out => Top.best = NULL

PlannerInv == Row /\ Time

--------------------------------------------------------------------------------
(* The stack *)

(* Frames taken from the innermost end. *)
LEMMA LastFrame ==
  ASSUME NEW S, NEW s \in Seq(S), s # <<>>
  PROVE  /\ Len(s) \in Nat \ {0} /\ Last(s) = s[Len(s)]
         /\ Front(s) \in Seq(S) /\ Len(Front(s)) = Len(s) - 1
         /\ \A i \in 1 .. Len(s) - 1 : Front(s)[i] = s[i]
<1>1. Len(s) \in Nat \ {0}
  OBVIOUS
<1>2. Front(s) \in Seq(S) /\ Len(Front(s)) = Len(s) - 1
      /\ \A i \in 1 .. Len(s) - 1 : Front(s)[i] = s[i]
  <2>1. PICK n \in Nat : n = Len(s) - 1
    BY <1>1
  <2>2. \A i \in 1 .. n : s[i] \in S
    BY <2>1
  <2>3. PICK t : t = SubSeq(s, 1, n)
    OBVIOUS
  <2>4. t \in Seq(S) /\ Len(t) = (IF 1 <= n THEN n - 1 + 1 ELSE 0)
        /\ \A i \in 1 .. n - 1 + 1 : t[i] = s[1 + i - 1]
    BY <2>2, <2>3, SubSeqProperties
  <2>5. Len(t) = n /\ \A i \in 1 .. n : t[i] = s[i]
    BY <2>4
  <2> QED  BY <2>1, <2>3, <2>4, <2>5 DEF Front
<1> QED  BY <1>1, <1>2 DEF Last

(* What Become, a call and Return make of a stack s. *)
Replaced(s, t, f) ==
  /\ \E S : t \in Seq(S)
  /\ Len(t) = Len(s) /\ t[Len(s)] = f /\ \A i \in 1 .. Len(s) - 1 : t[i] = s[i]
Called(s, t, f, g) ==
  /\ \E S : t \in Seq(S)
  /\ Len(t) = Len(s) + 1 /\ t[Len(s)] = f /\ t[Len(s) + 1] = g
  /\ \A i \in 1 .. Len(s) - 1 : t[i] = s[i]
Returned(s, t) ==
  /\ \E S : t \in Seq(S)
  /\ Len(t) = Len(s) - 1 /\ \A i \in 1 .. Len(s) - 1 : t[i] = s[i]

(* A sequence with one more element. *)
LEMMA AppendIs ==
  ASSUME NEW T, NEW n \in Nat, NEW h \in Seq(T), Len(h) = n, NEW f \in T
  PROVE  /\ Append(h, f) \in Seq(T)
         /\ Len(Append(h, f)) = n + 1 /\ Append(h, f)[n + 1] = f
         /\ \A i \in 1 .. n : Append(h, f)[i] = h[i]
OBVIOUS

(* The stack with its innermost frame replaced, called from, or gone. *)
LEMMA StackIs ==
  ASSUME NEW S, NEW s \in Seq(S), s # <<>>, NEW f, NEW g
  PROVE  /\ Replaced(s, Append(Front(s), f), f)
         /\ Called(s, Append(Append(Front(s), f), g), f, g)
         /\ Returned(s, Front(s))
<1>1. PICK n \in Nat : n = Len(s) - 1 /\ Len(s) = n + 1
  BY LastFrame
<1>2. PICK h : h = Front(s)
  OBVIOUS
<1>3. h \in Seq(S) /\ Len(h) = n /\ \A i \in 1 .. n : h[i] = s[i]
  BY <1>1, <1>2, LastFrame
<1>4. PICK T : T = S \cup {f, g}
  OBVIOUS
<1>5. h \in Seq(T) /\ f \in T /\ g \in T
  BY <1>3, <1>4, SeqMonotonic
<1>6. PICK k : k = Append(h, f)
  OBVIOUS
<1>7. k \in Seq(T) /\ Len(k) = n + 1 /\ k[n + 1] = f /\ \A i \in 1 .. n : k[i] = s[i]
  BY <1>3, <1>5, <1>6, AppendIs
<1>8. PICK l : l = Append(k, g)
  OBVIOUS
<1>9. /\ l \in Seq(T) /\ Len(l) = n + 1 + 1 /\ l[n + 1 + 1] = g
      /\ \A i \in 1 .. n + 1 : l[i] = k[i]
  BY <1>5, <1>7, <1>8, n + 1 \in Nat, AppendIs
<1>10. Replaced(s, k, f)
  BY <1>1, <1>6, <1>7 DEF Replaced
<1>11. Called(s, l, f, g)
  BY <1>1, <1>7, <1>8, <1>9 DEF Called
<1>12. Returned(s, h)
  BY <1>1, <1>3 DEF Returned
<1> QED  BY <1>2, <1>6, <1>8, <1>10, <1>11, <1>12

--------------------------------------------------------------------------------
(* The row *)

(* The row without its last two conjuncts' dependence on the stack's variable. *)
LEMMA RowTop ==
  ASSUME Row, stack # <<>>
  PROVE  /\ Len(stack) \in Nat \ {0} /\ Top = stack[Len(stack)] /\ IsFrame(Top)
         /\ \A i \in Calls : i \in Nat /\ 1 <= i /\ i <= Len(stack)
         /\ \A f, g : /\ Replaced(stack, Append(Front(stack), f), f)
                      /\ Called(stack, Append(Append(Front(stack), f), g), f, g)
         /\ Returned(stack, Front(stack))
<1>1. PICK S : stack \in Seq(S)
  BY DEF Row
<1>2. Len(stack) \in Nat \ {0} /\ Top = stack[Len(stack)]
  BY <1>1, LastFrame DEF Top
<1>3. \A i \in Calls : i \in Nat /\ 1 <= i /\ i <= Len(stack)
  BY <1>2 DEF Calls
<1>4. IsFrame(Top)
  BY <1>2 DEF Row, Calls
<1> QED  BY <1>1, <1>2, <1>3, <1>4, StackIs

(* The innermost call goes on. *)
LEMMA BecomeKeeps ==
  ASSUME Row, stack # <<>>, NEW f, Replaced(stack, stack', f), IsFrame(f),
         f.flags = Top.flags, f.owisdom = Top.owisdom, f.at # "lookup",
         Top.at # "lookup" \/ wisdom_state \notin {"ONLY", "BOGUS"},
         wisdom_state' = wisdom_state
  PROVE  Row'
<1>1. PICK n \in Nat \ {0} : n = Len(stack)
  BY RowTop
<1>2. /\ Calls = 1 .. n /\ Calls' = 1 .. n /\ Len(stack') = n /\ stack'[n] = f
      /\ \A i \in 1 .. n - 1 : stack'[i] = stack[i]
      /\ Top = stack[n] /\ \E S : stack' \in Seq(S)
  BY <1>1, RowTop DEF Replaced, Calls
<1>3. \A i \in 1 .. n : i < n => i \in 1 .. n - 1
  OBVIOUS
<1>4. \A i \in 1 .. n : stack'[i].owisdom = stack[i].owisdom /\ stack'[i].flags = stack[i].flags
  BY <1>2, <1>3
<1>5. \A i \in 1 .. n : IsFrame(stack'[i]) /\ (i < n => stack'[i].at = "part")
  BY <1>1, <1>2, <1>3 DEF Row
<1>6. ASSUME NEW i \in 1 .. n, NEW j \in 1 .. n, i < j, stack'[i].owisdom # NULL
      PROVE  stack'[j].at = "lookup" \/ stack'[j].owisdom = "ONLY"
  <2>1. stack[i].owisdom # NULL /\ (stack[j].at = "lookup" \/ stack[j].owisdom = "ONLY")
    BY <1>2, <1>4, <1>6 DEF Row
  <2>2. wisdom_state \in {"ONLY", "BOGUS"}
    BY <1>2, <2>1 DEF Row
  <2>3. CASE j < n
    BY <1>2, <1>3, <2>1, <2>3
  <2>4. CASE j = n
    BY <1>2, <1>4, <2>1, <2>2, <2>4
  <2> QED  BY <2>3, <2>4
<1>7. \A i \in 1 .. n : stack'[i].owisdom # NULL => wisdom_state' \in {"ONLY", "BOGUS"}
  BY <1>2, <1>4 DEF Row
<1>8. \A j \in 1 .. n : (\A i \in 1 .. n : i < j => stack'[i].owisdom = NULL) =>
        stack'[j].flags.u = stack'[1].flags.u
  BY <1>2, <1>4 DEF Row
<1>9. wisdom_state' \in Wisdom
  BY DEF Row
<1> QED  BY <1>1, <1>2, <1>5, <1>6, <1>7, <1>8, <1>9 DEF Row

(* The innermost call begins to follow a solution. *)
LEMMA ReplayBegins ==
  ASSUME Row, stack # <<>>, NEW f, Replaced(stack, stack', f), IsFrame(f),
         f.flags = Top.flags, Top.at = "lookup", f.owisdom = wisdom_state,
         wisdom_state # "BOGUS", wisdom_state' = "ONLY"
  PROVE  Row'
<1>1. PICK n \in Nat \ {0} : n = Len(stack)
  BY RowTop
<1>2. /\ Calls = 1 .. n /\ Calls' = 1 .. n /\ Len(stack') = n /\ stack'[n] = f
      /\ \A i \in 1 .. n - 1 : stack'[i] = stack[i]
      /\ Top = stack[n] /\ \E S : stack' \in Seq(S)
  BY <1>1, RowTop DEF Replaced, Calls
<1>3. \A i \in 1 .. n : i < n => i \in 1 .. n - 1
  OBVIOUS
<1>4. \A i \in 1 .. n : i < n => stack'[i] = stack[i]
  BY <1>2, <1>3
<1>5. \A i \in 1 .. n : IsFrame(stack'[i]) /\ (i < n => stack'[i].at = "part")
  BY <1>1, <1>2, <1>3 DEF Row
<1>6. ASSUME NEW i \in 1 .. n, NEW j \in 1 .. n, i < j, stack'[i].owisdom # NULL
      PROVE  stack'[j].at = "lookup" \/ stack'[j].owisdom = "ONLY"
  <2>1. stack[i].owisdom # NULL
    BY <1>4, <1>6
  <2>2. wisdom_state = "ONLY"
    BY <1>2, <2>1 DEF Row
  <2>3. CASE j < n
    BY <1>2, <1>4, <1>6, <2>1, <2>3 DEF Row
  <2>4. CASE j = n
    BY <1>2, <2>2, <2>4
  <2> QED  BY <2>3, <2>4
<1>7. \A i \in 1 .. n : stack'[i].flags = stack[i].flags
  BY <1>2, <1>4
<1>8. ASSUME NEW j \in 1 .. n, \A i \in 1 .. n : i < j => stack'[i].owisdom = NULL
      PROVE  stack'[j].flags.u = stack'[1].flags.u
  <2>1. \A i \in 1 .. n : i < j => stack[i].owisdom = NULL
    BY <1>4, <1>8
  <2> QED  BY <1>2, <1>7, <2>1 DEF Row
<1>9. wisdom_state' \in Wisdom
  BY DEF Wisdom
<1> QED  BY <1>1, <1>2, <1>5, <1>6, <1>8, <1>9 DEF Row

(* A part is planned. *)
LEMMA PartBegins ==
  ASSUME Row, stack # <<>>, NEW f, NEW g, Called(stack, stack', f, g), IsFrame(f), IsFrame(g),
         f.flags = Top.flags, f.owisdom = Top.owisdom, f.at = "part", Top.at # "lookup",
         g.at = "lookup", Top.owisdom = NULL => g.flags.u = Top.flags.u,
         wisdom_state' = wisdom_state
  PROVE  Row'
<1>1. PICK n \in Nat \ {0} : n = Len(stack)
  BY RowTop
<1>2. /\ Calls = 1 .. n /\ Calls' = 1 .. n + 1 /\ Len(stack') = n + 1
      /\ stack'[n] = f /\ stack'[n + 1] = g
      /\ \A i \in 1 .. n - 1 : stack'[i] = stack[i]
      /\ Top = stack[n] /\ \E S : stack' \in Seq(S)
  BY <1>1, RowTop DEF Called, Calls
<1>3. \A i \in 1 .. n + 1 : i = n + 1 \/ i = n \/ i \in 1 .. n - 1
  OBVIOUS
<1>4. \A i \in 1 .. n : stack'[i].owisdom = stack[i].owisdom /\ stack'[i].flags = stack[i].flags
  BY <1>2, <1>3
<1>5. \A i \in 1 .. n + 1 : IsFrame(stack'[i]) /\ (i < n + 1 => stack'[i].at = "part")
  BY <1>1, <1>2, <1>3 DEF Row
<1>6. g.owisdom = NULL
  BY DEF IsFrame
<1>7. ASSUME NEW i \in 1 .. n + 1, NEW j \in 1 .. n + 1, i < j, stack'[i].owisdom # NULL
      PROVE  stack'[j].at = "lookup" \/ stack'[j].owisdom = "ONLY"
  <2>1. CASE j = n + 1
    BY <1>2, <2>1
  <2>2. CASE j \in 1 .. n
    <3>1. i \in 1 .. n /\ stack[i].owisdom # NULL
      BY <1>4, <1>7, <2>2
    <3>2. stack[j].at = "lookup" \/ stack[j].owisdom = "ONLY"
      BY <1>2, <1>7, <2>2, <3>1 DEF Row
    <3>3. stack[j].at # "lookup"
      BY <1>1, <1>2, <2>2 DEF Row
    <3> QED  BY <1>4, <2>2, <3>2, <3>3
  <2> QED  BY <2>1, <2>2
<1>8. ASSUME NEW i \in 1 .. n + 1, stack'[i].owisdom # NULL
      PROVE  wisdom_state' \in {"ONLY", "BOGUS"}
  <2>1. i \in 1 .. n
    BY <1>2, <1>3, <1>6, <1>8
  <2> QED  BY <1>2, <1>4, <1>8, <2>1 DEF Row
<1>9. ASSUME NEW j \in 1 .. n + 1, \A i \in 1 .. n + 1 : i < j => stack'[i].owisdom = NULL
      PROVE  stack'[j].flags.u = stack'[1].flags.u
  <2>1. ASSUME NEW l \in 1 .. n, l <= j PROVE stack'[l].flags.u = stack'[1].flags.u
    <3>1. \A i \in 1 .. n : i < l => stack[i].owisdom = NULL
      BY <1>4, <1>9, <2>1
    <3> QED  BY <1>2, <1>4, <2>1, <3>1 DEF Row
  <2>2. CASE j \in 1 .. n
    BY <2>1, <2>2
  <2>3. CASE j = n + 1
    <3>1. stack'[n].owisdom = NULL /\ n \in 1 .. n + 1 /\ n \in 1 .. n /\ n <= j
      BY <1>9, <2>3
    <3>2. g.flags.u = Top.flags.u
      BY <1>2, <3>1
    <3>3. stack'[n].flags.u = stack'[1].flags.u
      BY <2>1, <3>1
    <3> QED  BY <1>2, <2>3, <3>2, <3>3
  <2> QED  BY <2>2, <2>3
<1>10. wisdom_state' \in Wisdom
  BY DEF Row
<1> QED  BY <1>1, <1>2, <1>5, <1>7, <1>8, <1>9, <1>10 DEF Row

(* The innermost call returns: wisdom is as before, or bogus, or as it was    *)
(* before the call followed it.                                              *)
LEMMA ReturnKeeps ==
  ASSUME Row, stack # <<>>, Returned(stack, stack'),
         wisdom_state' \in {wisdom_state, "BOGUS"}
           \/ (Top.at # "lookup" /\ Top.owisdom # NULL /\ wisdom_state' = Top.owisdom)
  PROVE  Row'
<1>1. PICK n \in Nat \ {0} : n = Len(stack)
  BY RowTop
<1>2. /\ Calls = 1 .. n /\ Calls' = 1 .. n - 1 /\ Len(stack') = n - 1
      /\ \A i \in 1 .. n - 1 : stack'[i] = stack[i] /\ i \in 1 .. n /\ i < n
      /\ Top = stack[n] /\ n \in 1 .. n /\ \E S : stack' \in Seq(S)
  BY <1>1, RowTop DEF Returned, Calls
<1>3. \A i \in 1 .. n - 1 : IsFrame(stack'[i]) /\ stack'[i].at = "part"
  BY <1>1, <1>2 DEF Row
<1>4. \A i, j \in 1 .. n - 1 : i < j /\ stack'[i].owisdom # NULL =>
        stack'[j].at = "lookup" \/ stack'[j].owisdom = "ONLY"
  BY <1>2 DEF Row
<1>5. ASSUME NEW i \in 1 .. n - 1, stack'[i].owisdom # NULL
      PROVE  wisdom_state' \in {"ONLY", "BOGUS"}
  <2>1. stack[i].owisdom # NULL /\ i \in 1 .. n /\ i < n
    BY <1>2, <1>5
  <2>2. wisdom_state \in {"ONLY", "BOGUS"}
    BY <1>2, <2>1 DEF Row
  <2>3. stack[n].at = "lookup" \/ stack[n].owisdom = "ONLY"
    BY <1>2, <2>1 DEF Row
  <2> QED  BY <1>2, <2>2, <2>3
<1>6. ASSUME NEW j \in 1 .. n - 1, \A i \in 1 .. n - 1 : i < j => stack'[i].owisdom = NULL
      PROVE  stack'[j].flags.u = stack'[1].flags.u
  <2>1. \A i \in 1 .. n : i < j => stack[i].owisdom = NULL
    BY <1>2, <1>6
  <2>2. stack[j].flags.u = stack[1].flags.u
    BY <1>2, <2>1 DEF Row
  <2> QED  BY <1>2, <2>2
<1>7. wisdom_state' \in Wisdom
  BY <1>2, RowTop DEF Row, IsFrame, Wisdom
<1> QED  BY <1>1, <1>2, <1>3, <1>4, <1>5, <1>6, <1>7 DEF Row

--------------------------------------------------------------------------------
(* The time *)

(* A call that searches is one of a row that searches with the same flags.   *)
LEMMA SearchesAgree ==
  ASSUME Row, stack # <<>>, Top.at # "lookup", Top.owisdom = NULL
  PROVE  /\ stack[1].at # "lookup" /\ stack[1].owisdom = NULL
         /\ stack[1].flags.u = Top.flags.u
<1>1. PICK n \in Nat \ {0} : n = Len(stack)
  BY RowTop
<1>2. Calls = 1 .. n /\ 1 \in Calls /\ n \in Calls /\ Top = stack[n] /\ NULL # "ONLY"
  BY <1>1, RowTop, NullAssumption DEF Calls, Wisdom
<1>3. \A i \in Calls : i < n => stack[i].owisdom = NULL
  <2>1. \A i \in Calls : i < n /\ stack[i].owisdom # NULL =>
          stack[n].at = "lookup" \/ stack[n].owisdom = "ONLY"
    BY <1>2 DEF Row
  <2>2. stack[n].at # "lookup" /\ stack[n].owisdom # "ONLY"
    BY <1>2
  <2> QED  BY <2>1, <2>2
<1>4. Top.flags.u = stack[1].flags.u
  BY <1>2, <1>3 DEF Row
<1>5. CASE n = 1
  BY <1>2, <1>4, <1>5
<1>6. CASE 1 < n
  <2>1. stack[1].at = "part" /\ stack[1].owisdom = NULL
    BY <1>1, <1>2, <1>3, <1>6 DEF Row
  <2> QED  BY <1>4, <2>1
<1> QED  BY <1>5, <1>6

(* Where the innermost call is afterwards. *)
LEMMA NewTop ==
  ASSUME NEW f, Row, stack # <<>>
  PROVE  /\ Replaced(stack, stack', f) => stack' # <<>> /\ Top' = f
         /\ \A g : Called(stack, stack', f, g) => stack' # <<>> /\ Top' = g
<1>1. PICK n \in Nat \ {0} : n = Len(stack)
  BY RowTop
<1>2. ASSUME NEW S, stack' \in Seq(S), Len(stack') \in Nat \ {0}
      PROVE  stack' # <<>> /\ Top' = stack'[Len(stack')]
  <2>1. PICK t : t = stack'
    OBVIOUS
  <2>2. t # <<>>
    BY <1>2, <2>1
  <2>3. Last(t) = t[Len(t)]
    BY <1>2, <2>1, <2>2, LastFrame
  <2> QED  BY <2>1, <2>2, <2>3 DEF Top
<1>3. ASSUME Replaced(stack, stack', f) PROVE stack' # <<>> /\ Top' = f
  BY <1>1, <1>2, <1>3 DEF Replaced
<1>4. ASSUME NEW g, Called(stack, stack', f, g) PROVE stack' # <<>> /\ Top' = g
  BY <1>1, <1>2, <1>4 DEF Called
<1> QED  BY <1>3, <1>4

(* Only a search that is not an estimate may notice that time is up. *)
LEMMA TimeBecomes ==
  ASSUME PlannerInv, stack # <<>>, NEW f, Replaced(stack, stack', f),
         f.flags = Top.flags, f.owisdom = Top.owisdom, Top.at # "lookup",
         timed_out' \in BOOLEAN, timed_out' => need_timeout_check',
         timed_out' = timed_out \/ (Top.owisdom = NULL /\ ~Estimate(Top.flags.u)),
         f.at = "searched" /\ timed_out' => f.best = NULL
  PROVE  Time'
<1>1. PICK n \in Nat \ {0} : n = Len(stack)
  BY RowTop DEF PlannerInv
<1>2. Row /\ Time /\ Top = stack[n] /\ stack'[n] = f /\ Top' = f
  BY <1>1, RowTop, NewTop DEF PlannerInv, Replaced
<1>3. stack'[1].flags = stack[1].flags /\ stack'[1].owisdom = stack[1].owisdom /\ stack[1].at # "lookup"
  <2>1. CASE n = 1
    BY <1>2, <2>1
  <2>2. CASE 1 < n
    <3>1. 1 \in 1 .. n - 1
      BY <2>2
    <3>2. stack'[1] = stack[1] /\ stack[1].at = "part"
      BY <1>1, <1>2, <2>2, <3>1 DEF Replaced, Row, Calls
    <3> QED  BY <3>2
  <2> QED  BY <2>1, <2>2
<1>4. stack'[1].owisdom = NULL /\ Estimate(stack'[1].flags.u) => ~timed_out'
  <2> SUFFICES ASSUME stack[1].owisdom = NULL, Estimate(stack[1].flags.u) PROVE ~timed_out'
    BY <1>3
  <2>1. ~timed_out
    BY <1>2, <1>3 DEF Time
  <2>2. ~(Top.owisdom = NULL /\ ~Estimate(Top.flags.u))
    BY <1>2, SearchesAgree
  <2> QED  BY <2>1, <2>2
<1>5. At("searched")' /\ timed_out' => Top'.best = NULL
  BY <1>2 DEF At
<1> QED  BY <1>4, <1>5 DEF Time

(* Calls and returns do not look at the clock. *)
LEMMA TimeStays ==
  ASSUME PlannerInv, Row', stack # <<>>, UNCHANGED clock,
         \/ \E f, g : /\ Called(stack, stack', f, g) /\ f.flags = Top.flags
                      /\ f.owisdom = Top.owisdom /\ Top.at # "lookup" /\ g.at = "lookup"
         \/ Returned(stack, stack')
  PROVE  Time'
<1>1. PICK n \in Nat \ {0} : n = Len(stack)
  BY RowTop DEF PlannerInv
<1>2. Row /\ Time /\ Top = stack[n] /\ timed_out' = timed_out
      /\ need_timeout_check' = need_timeout_check
  BY <1>1, RowTop DEF PlannerInv, clock
<1>3. CASE \E f, g : /\ Called(stack, stack', f, g) /\ f.flags = Top.flags
                     /\ f.owisdom = Top.owisdom /\ Top.at # "lookup" /\ g.at = "lookup"
  <2>1. PICK f, g : /\ Called(stack, stack', f, g) /\ f.flags = Top.flags
                    /\ f.owisdom = Top.owisdom /\ Top.at # "lookup" /\ g.at = "lookup"
    BY <1>3
  <2>2. Top' = g
    BY <1>2, <2>1, NewTop
  <2>3. ~At("searched")'
    BY <2>1, <2>2 DEF At
  <2>4. stack'[1].flags = stack[1].flags /\ stack'[1].owisdom = stack[1].owisdom
        /\ stack[1].at # "lookup"
    <3>1. CASE n = 1
      BY <1>1, <1>2, <2>1, <3>1 DEF Called
    <3>2. CASE 1 < n
      <4>1. 1 \in 1 .. n - 1
        BY <3>2
      <4>2. stack'[1] = stack[1] /\ stack[1].at = "part"
        BY <1>1, <1>2, <2>1, <3>2, <4>1 DEF Called, Row, Calls
      <4> QED  BY <4>2
    <3> QED  BY <3>1, <3>2
  <2>5. stack'[1].owisdom = NULL /\ Estimate(stack'[1].flags.u) => ~timed_out'
    BY <1>2, <2>4 DEF Time
  <2> QED  BY <1>2, <2>3, <2>5 DEF Time
<1>4. CASE Returned(stack, stack')
  <2>1. CASE n = 1
    <3>1. stack' = <<>>
      BY <1>1, <1>4, <2>1 DEF Returned
    <3> QED  BY <1>2, <3>1 DEF Time, At
  <2>2. CASE 1 < n
    <3>1. 1 \in 1 .. n - 1 /\ n - 1 \in 1 .. n - 1 /\ n - 1 \in 1 .. n /\ n - 1 < n
      BY <2>2
    <3>2. stack'[1] = stack[1] /\ stack'[n - 1] = stack[n - 1] /\ stack[n - 1].at = "part"
          /\ Len(stack') = n - 1
      BY <1>1, <1>2, <1>4, <3>1 DEF Returned, Row, Calls
    <3>3. Top' = stack'[n - 1] /\ stack # <<>>
      <4>1. PICK S : stack' \in Seq(S)
        BY <1>4 DEF Returned
      <4>2. stack' # <<>>
        BY <3>1, <3>2, <4>1
      <4> QED  BY <3>2, <4>1, <4>2, LastFrame DEF Top
    <3>4. ~At("searched")'
      BY <3>2, <3>3 DEF At
    <3> QED  BY <1>2, <3>2, <3>4 DEF Time
  <2> QED  BY <2>1, <2>2
<1> QED  BY <1>3, <1>4

(* Nothing is out of time once the planner forgets that it was. *)
LEMMA TimeForgotten ==
  ASSUME timed_out' = FALSE
  PROVE  Time'
BY DEF Time

--------------------------------------------------------------------------------
(* The steps of mkplan *)

(* Become, with the frame that the innermost call has then. *)
LEMMA Becomes ==
  ASSUME PlannerInv, stack # <<>>, NEW f, stack' = Append(Front(stack), f)
  PROVE  Replaced(stack, stack', f)
BY RowTop DEF PlannerInv

(* Return leaves the calls before the innermost. *)
LEMMA Returns ==
  ASSUME PlannerInv, stack # <<>>, NEW plan, Return(plan)
  PROVE  Returned(stack, stack')
BY RowTop DEF PlannerInv, Return

(* A call begins with a frame. *)
LEMMA FrameBegins ==
  ASSUME NEW p, NEW l, NEW u, NEW limit, NEW bless, NEW f, f = Frame(p, l, u, limit, bless)
  PROVE  IsFrame(f) /\ f.at = "lookup" /\ f.flags.u = u /\ f.owisdom = NULL
BY DEF Frame, IsFrame, Fields

(* Where search goes on. *)
LEMMA SearchedIs ==
  ASSUME NEW f, IsFrame(f), f.owisdom = NULL
  PROVE  /\ IsFrame(Searched(f)) /\ Searched(f).at \in {"searched", "relax"}
         /\ Searched(f).flags = f.flags /\ Searched(f).owisdom = NULL /\ Searched(f).best = f.best
<1>1. PICK g : g = Searched(f)
  OBVIOUS
<1>2. /\ DOMAIN g = Fields /\ g.at = IF f.best # NULL \/ f.i > Len(Relax) + 1 THEN "searched" ELSE "relax"
      /\ g.flags = f.flags /\ g.owisdom = f.owisdom /\ g.best = f.best
  BY <1>1 DEF Searched, IsFrame, Fields
<1> QED  BY <1>1, <1>2 DEF IsFrame

(* Where search goes on after a solver. *)
LEMMA NextSolverIs ==
  ASSUME NEW f, IsFrame(f), f.owisdom = NULL, f.sol.u = f.flags.u
  PROVE  /\ IsFrame(NextSolver(f)) /\ NextSolver(f).at \in {"solve", "searched", "relax"}
         /\ NextSolver(f).flags = f.flags /\ NextSolver(f).owisdom = NULL
         /\ NextSolver(f).best = f.best
<1>1. CASE f.s < Len(Solvers[f.p])
  <2>1. PICK g : g = Invoke([f EXCEPT !.s = @ + 1])
    OBVIOUS
  <2>2. /\ DOMAIN g = Fields /\ g.at = "solve" /\ g.sol = f.sol
        /\ g.flags = f.flags /\ g.owisdom = f.owisdom /\ g.best = f.best
    BY <2>1 DEF Invoke, IsFrame, Fields
  <2> QED  BY <1>1, <2>1, <2>2 DEF NextSolver, IsFrame
<1>2. CASE ~(f.s < Len(Solvers[f.p]))
  BY <1>2, SearchedIs DEF NextSolver
<1> QED  BY <1>1, <1>2

(* Wisdom is looked up: it is followed, says no, is bogus, or a search begins. *)
LEMMA LookupKeeps ==
  ASSUME PlannerInv, Lookup
  PROVE  PlannerInv'
<1>1. Row /\ Time /\ stack # <<>> /\ Top.at = "lookup" /\ IsFrame(Top)
  BY RowTop DEF PlannerInv, Lookup, At
<1>2. CASE wisdom_state = "BOGUS"
  <2>1. wisdom_state' = "BOGUS" /\ Return(NULL) /\ UNCHANGED clock
    BY <1>2 DEF Lookup, wisdom_is_bogus, clock
  <2>2. Returned(stack, stack')
    BY <1>1, <2>1, Returns
  <2>3. Row'
    BY <1>1, <2>1, <2>2, ReturnKeeps
  <2> QED  BY <1>1, <2>1, <2>2, <2>3, TimeStays DEF PlannerInv
<1>3. CASE wisdom_state # "BOGUS"
  <2>1. PICK sol : sol = hlookup(Top.p, Top.flags)
    OBVIOUS
  <2>2. Time'
    BY <1>3, TimeForgotten DEF Lookup
  <2>3. CASE \/ wisdom_state' = "BOGUS" /\ Return(NULL)
             \/ wisdom_state' = wisdom_state /\ Return(NULL)
    <3>1. Returned(stack, stack')
      BY <1>1, <2>3, Returns
    <3>2. Row'
      BY <1>1, <2>3, <3>1, ReturnKeeps
    <3> QED  BY <2>2, <3>2 DEF PlannerInv
  <2>4. CASE /\ wisdom_state # "ONLY" /\ wisdom_state' = wisdom_state
             /\ Become([Top EXCEPT !.at = "relax"])
    <3>1. PICK f : f = [Top EXCEPT !.at = "relax"]
      OBVIOUS
    <3>2. Replaced(stack, stack', f)
      BY <1>1, <2>4, <3>1, Becomes DEF Become
    <3>3. /\ DOMAIN f = Fields /\ f.at = "relax" /\ f.flags = Top.flags
          /\ f.owisdom = Top.owisdom /\ f.best = Top.best
      BY <1>1, <3>1 DEF IsFrame, Fields
    <3>4. IsFrame(f)
      BY <1>1, <3>3 DEF IsFrame
    <3>5. Row'
      BY <1>1, <1>3, <2>4, <3>2, <3>3, <3>4, BecomeKeeps
    <3> QED  BY <2>2, <3>5 DEF PlannerInv
  <2>5. CASE /\ wisdom_state' = "ONLY"
             /\ Become(Invoke([Top EXCEPT !.sol = sol, !.s = sol.slvndx, !.owisdom = wisdom_state]))
    <3>1. PICK f : f = Invoke([Top EXCEPT !.sol = sol, !.s = sol.slvndx, !.owisdom = wisdom_state])
      OBVIOUS
    <3>2. Replaced(stack, stack', f)
      BY <1>1, <2>5, <3>1, Becomes DEF Become
    <3>3. /\ DOMAIN f = Fields /\ f.at = "solve" /\ f.flags = Top.flags
          /\ f.owisdom = wisdom_state
      BY <1>1, <3>1 DEF IsFrame, Fields, Invoke
    <3>4. wisdom_state \in Wisdom /\ wisdom_state # NULL
      BY <1>1, NullAssumption DEF Row
    <3>5. IsFrame(f)
      BY <3>3, <3>4 DEF IsFrame
    <3>6. Row'
      BY <1>1, <1>3, <2>5, <3>2, <3>3, <3>5, ReplayBegins
    <3> QED  BY <2>2, <3>6 DEF PlannerInv
  <2> QED  BY <1>3, <2>1, <2>3, <2>4, <2>5 DEF Lookup, wisdom_is_bogus
<1> QED  BY <1>2, <1>3

(* The solver plans its next part under the flags of its solution, or is done. *)
LEMMA SolveKeeps ==
  ASSUME PlannerInv, Solve
  PROVE  PlannerInv'
<1>1. Row /\ Time /\ stack # <<>> /\ Top.at = "solve" /\ IsFrame(Top)
  BY RowTop DEF PlannerInv, Solve, At
<1>2. UNCHANGED clock /\ wisdom_state' = wisdom_state
      /\ timed_out' = timed_out /\ need_timeout_check' = need_timeout_check
  BY DEF Solve, clock
<1>3. ASSUME NEW f, Become(f), f = [Top EXCEPT !.at = "got"]
             \/ \E got : f = [Top EXCEPT !.at = "got", !.got = got]
      PROVE  PlannerInv'
  <2>1. /\ DOMAIN f = Fields /\ f.at = "got" /\ f.flags = Top.flags /\ f.sol = Top.sol
        /\ f.owisdom = Top.owisdom
    BY <1>1, <1>3 DEF IsFrame, Fields
  <2>2. IsFrame(f)
    BY <1>1, <2>1 DEF IsFrame
  <2>3. Replaced(stack, stack', f)
    BY <1>1, <1>3, Becomes DEF Become
  <2>4. Row'
    BY <1>1, <1>2, <2>1, <2>2, <2>3, BecomeKeeps
  <2>5. Time'
    BY <1>1, <1>2, <2>1, <2>3, TimeBecomes DEF Time
  <2> QED  BY <2>4, <2>5 DEF PlannerInv
<1>4. ASSUME NEW f, NEW g, NEW p,
             f = [Top EXCEPT !.at = "part"], g = Frame(p, Top.sol.l, Top.sol.u, 0, Top.flags.bless),
             stack' = Append(Append(Front(stack), f), g)
      PROVE  PlannerInv'
  <2>1. /\ DOMAIN f = Fields /\ f.at = "part" /\ f.flags = Top.flags /\ f.sol = Top.sol
        /\ f.owisdom = Top.owisdom
    BY <1>1, <1>4 DEF IsFrame, Fields
  <2>2. IsFrame(f)
    BY <1>1, <2>1 DEF IsFrame
  <2>3. IsFrame(g) /\ g.at = "lookup" /\ g.flags.u = Top.sol.u
    BY <1>4, FrameBegins
  <2>4. Called(stack, stack', f, g)
    BY <1>1, <1>4, RowTop
  <2>5. Top.owisdom = NULL => g.flags.u = Top.flags.u
    BY <1>1, <2>3 DEF IsFrame
  <2>6. Row'
    BY <1>1, <1>2, <2>1, <2>2, <2>3, <2>4, <2>5, PartBegins
  <2>7. Time'
    BY <1>1, <1>2, <2>1, <2>3, <2>4, <2>6, TimeStays
  <2> QED  BY <2>6, <2>7 DEF PlannerInv
<1> QED  BY <1>3, <1>4 DEF Solve, Become

(* The part is planned, or cannot be. *)
LEMMA PartKeeps ==
  ASSUME PlannerInv, Part
  PROVE  PlannerInv'
<1>1. Row /\ Time /\ stack # <<>> /\ Top.at = "part" /\ IsFrame(Top)
  BY RowTop DEF PlannerInv, Part, At
<1>2. wisdom_state' = wisdom_state
      /\ timed_out' = timed_out /\ need_timeout_check' = need_timeout_check
  BY DEF Part, clock
<1>3. PICK f : f = IF pln = NULL THEN [Top EXCEPT !.at = "got"]
                   ELSE [Top EXCEPT !.at = "solve", !.parts = Append(@, pln)]
  OBVIOUS
<1>4. /\ DOMAIN f = Fields /\ f.at \in {"got", "solve"} /\ f.flags = Top.flags /\ f.sol = Top.sol
      /\ f.owisdom = Top.owisdom
  BY <1>1, <1>3 DEF IsFrame, Fields
<1>5. IsFrame(f)
  BY <1>1, <1>4 DEF IsFrame
<1>6. Replaced(stack, stack', f)
  BY <1>1, <1>3, Becomes DEF Become, Part
<1>7. Row'
  BY <1>1, <1>2, <1>4, <1>5, <1>6, BecomeKeeps
<1>8. Time'
  BY <1>1, <1>2, <1>4, <1>6, TimeBecomes DEF Time
<1> QED  BY <1>7, <1>8 DEF PlannerInv

(* A replay returns, and wisdom is trusted as much as before it. *)
LEMMA ReplayedKeeps ==
  ASSUME PlannerInv, Replayed
  PROVE  PlannerInv'
<1>1. Row /\ stack # <<>> /\ Top.at = "got" /\ Top.owisdom # NULL /\ UNCHANGED clock
  BY DEF PlannerInv, Replayed, At
<1>2. /\ wisdom_state' = "BOGUS" \/ wisdom_state' = Top.owisdom
      /\ Return(NULL) \/ Return(Top.got)
  BY DEF Replayed, wisdom_is_bogus, Finish
<1>3. Returned(stack, stack')
  BY <1>1, <1>2, RowTop DEF Return
<1>4. Row'
  BY <1>1, <1>2, <1>3, ReturnKeeps
<1> QED  BY <1>1, <1>3, <1>4, TimeStays DEF PlannerInv

(* Impatience flags are taken away one after the other. *)
LEMMA SearchKeeps ==
  ASSUME PlannerInv, Search
  PROVE  PlannerInv'
<1>1. Row /\ Time /\ stack # <<>> /\ Top.at = "relax" /\ IsFrame(Top) /\ Top.owisdom = NULL
  BY RowTop DEF PlannerInv, Search, At, IsFrame
<1>2. wisdom_state' = wisdom_state
      /\ timed_out' = timed_out /\ need_timeout_check' = need_timeout_check
  BY DEF Search, clock
<1>3. ASSUME NEW f, Become(f), IsFrame(f), f.flags = Top.flags, f.owisdom = NULL,
             f.at # "lookup", f.best = NULL
      PROVE  PlannerInv'
  <2>1. Replaced(stack, stack', f)
    BY <1>1, <1>3, Becomes DEF Become
  <2>2. Row'
    BY <1>1, <1>2, <1>3, <2>1, BecomeKeeps
  <2>3. Time'
    BY <1>1, <1>2, <1>3, <2>1, TimeBecomes DEF Time
  <2> QED  BY <2>2, <2>3 DEF PlannerInv
<1>4. Top.best = NULL
  BY <1>1 DEF IsFrame
<1>5. ASSUME NEW x, NEW sol, sol.u = Top.flags.u,
             Become([Top EXCEPT !.at = "search0", !.x = x, !.last_x = x, !.i = @ + 1, !.sol = sol])
      PROVE  PlannerInv'
  <2>1. PICK f : f = [Top EXCEPT !.at = "search0", !.x = x, !.last_x = x, !.i = @ + 1, !.sol = sol]
    OBVIOUS
  <2>2. /\ DOMAIN f = Fields /\ f.at = "search0" /\ f.flags = Top.flags /\ f.sol = sol
        /\ f.owisdom = NULL /\ f.best = NULL
    BY <1>1, <1>4, <2>1 DEF IsFrame, Fields
  <2>3. IsFrame(f)
    BY <1>5, <2>2 DEF IsFrame
  <2> QED  BY <1>3, <1>5, <2>1, <2>2, <2>3
<1>6. CASE Become([Top EXCEPT !.at = "searched"])
  <2>1. PICK f : f = [Top EXCEPT !.at = "searched"]
    OBVIOUS
  <2>2. /\ DOMAIN f = Fields /\ f.at = "searched" /\ f.flags = Top.flags
        /\ f.owisdom = NULL /\ f.best = NULL
    BY <1>1, <1>4, <2>1 DEF IsFrame, Fields
  <2>3. IsFrame(f)
    BY <2>2 DEF IsFrame
  <2> QED  BY <1>3, <1>6, <2>1, <2>2, <2>3
<1>7. CASE Become([Top EXCEPT !.i = @ + 1])
  <2>1. PICK f : f = [Top EXCEPT !.i = @ + 1]
    OBVIOUS
  <2>2. /\ DOMAIN f = Fields /\ f.at = "relax" /\ f.flags = Top.flags
        /\ f.owisdom = NULL /\ f.best = NULL
    BY <1>1, <1>4, <2>1 DEF IsFrame, Fields
  <2>3. IsFrame(f)
    BY <2>2 DEF IsFrame
  <2> QED  BY <1>3, <1>7, <2>1, <2>2, <2>3
<1>8. \/ \E x, sol : /\ sol.u = Top.flags.u
                     /\ Become([Top EXCEPT !.at = "search0", !.x = x, !.last_x = x, !.i = @ + 1,
                                           !.sol = sol])
      \/ Become([Top EXCEPT !.at = "searched"])
      \/ Become([Top EXCEPT !.i = @ + 1])
  <2>1. PICK x : x = IF Top.i > Len(Relax) THEN Top.flags.l
                     ELSE IF Top.flags.l \subseteq Top.x \ Relax[Top.i]
                     THEN Top.x \ Relax[Top.i] ELSE Top.x
    OBVIOUS
  <2>2. PICK sol : sol = [s |-> Top.p, l |-> x, u |-> Top.flags.u, limit |-> Top.flags.limit,
                          slvndx |-> INFEASIBLE]
    OBVIOUS
  <2>3. sol.u = Top.flags.u
    BY <2>2
  <2>4. \/ Become([Top EXCEPT !.at = "search0", !.x = x, !.last_x = x, !.i = @ + 1, !.sol = sol])
        \/ Become([Top EXCEPT !.at = "searched"])
        \/ Become([Top EXCEPT !.i = @ + 1])
    BY <2>1, <2>2 DEF Search
  <2> QED  BY <2>3, <2>4
<1> QED  BY <1>5, <1>6, <1>7, <1>8

(* Looking at the clock: an estimate does not run out of time. *)
LEMMA ClockIsRead ==
  ASSUME PlannerInv, stack # <<>>, Top.at # "lookup", Top.owisdom = NULL,
         NEW late \in BOOLEAN, timeout_p(late)
  PROVE  /\ timed_out' \in BOOLEAN
         /\ timed_out' => need_timeout_check'
         /\ timed_out' = timed_out \/ ~Estimate(Top.flags.u)
         /\ timed_out' => late
<1>1. timed_out \in BOOLEAN
  BY DEF PlannerInv, Time
<1>2. CASE Estimate(Top.flags.u)
  <2>1. ~timed_out
    BY <1>2, SearchesAgree DEF PlannerInv, Time
  <2> QED  BY <1>1, <1>2, <2>1 DEF timeout_p
<1>3. CASE ~Estimate(Top.flags.u)
  BY <1>3 DEF timeout_p
<1> QED  BY <1>2, <1>3

(* search0 looks at the clock before the first solver, ... *)
LEMMA Search0Keeps ==
  ASSUME PlannerInv, Search0
  PROVE  PlannerInv'
<1>1. /\ Row /\ stack # <<>> /\ Top.at = "search0" /\ IsFrame(Top) /\ Top.owisdom = NULL
      /\ Top.best = NULL /\ Top.sol.u = Top.flags.u
  BY RowTop DEF PlannerInv, Search0, At, IsFrame
<1>2. wisdom_state' = wisdom_state
  BY DEF Search0
<1>3. PICK late \in BOOLEAN :
        /\ timeout_p(late)
        /\ Become(IF late THEN Searched(Top) ELSE NextSolver([Top EXCEPT !.s = 0]))
  BY DEF Search0
<1>4. PICK h : h = Top
  OBVIOUS
<1>5. PICK g : g = [Top EXCEPT !.s = 0]
  OBVIOUS
<1>6. IsFrame(g) /\ g.owisdom = NULL /\ g.sol.u = g.flags.u /\ g.flags = Top.flags /\ g.best = NULL
  <2>1. /\ DOMAIN g = Fields /\ g.at = "search0" /\ g.flags = Top.flags /\ g.sol = Top.sol
        /\ g.owisdom = NULL /\ g.best = NULL
    BY <1>1, <1>5 DEF IsFrame, Fields
  <2> QED  BY <1>1, <2>1 DEF IsFrame
<1>7. PICK f : f = IF late THEN Searched(h) ELSE NextSolver(g)
  OBVIOUS
<1>8. /\ IsFrame(f) /\ f.at # "lookup" /\ f.flags = Top.flags /\ f.owisdom = NULL
      /\ f.best = NULL
  <2>1. CASE late
    BY <1>1, <1>4, <1>7, <2>1, SearchedIs
  <2>2. CASE ~late
    BY <1>6, <1>7, <2>2, NextSolverIs
  <2> QED  BY <2>1, <2>2
<1>9. Replaced(stack, stack', f)
  BY <1>1, <1>3, <1>4, <1>5, <1>7, Becomes DEF Become
<1>10. Row'
  BY <1>1, <1>2, <1>8, <1>9, BecomeKeeps
<1>11. /\ timed_out' \in BOOLEAN
       /\ timed_out' => need_timeout_check'
       /\ timed_out' = timed_out \/ ~Estimate(Top.flags.u)
  BY <1>1, <1>3, ClockIsRead
<1>12. Time'
  BY <1>1, <1>8, <1>9, <1>11, TimeBecomes
<1> QED  BY <1>10, <1>12 DEF PlannerInv

(* ... and after each: time is up, and every plan is destroyed, ... *)
LEMMA TimeIsUpKeeps ==
  ASSUME PlannerInv, TimeIsUp
  PROVE  PlannerInv'
<1>1. /\ Row /\ stack # <<>> /\ Top.at = "got" /\ IsFrame(Top) /\ Top.owisdom = NULL
      /\ Top.sol.u = Top.flags.u
  BY RowTop DEF PlannerInv, TimeIsUp, At, IsFrame
<1>2. wisdom_state' = wisdom_state /\ timeout_p(TRUE)
  BY DEF TimeIsUp
<1>3. PICK g : g = [Top EXCEPT !.best = NULL]
  OBVIOUS
<1>4. IsFrame(g) /\ g.owisdom = NULL /\ g.flags = Top.flags /\ g.best = NULL
  <2>1. /\ DOMAIN g = Fields /\ g.at = "got" /\ g.flags = Top.flags /\ g.sol = Top.sol
        /\ g.owisdom = NULL /\ g.best = NULL
    BY <1>1, <1>3 DEF IsFrame, Fields
  <2> QED  BY <1>1, <2>1 DEF IsFrame
<1>5. PICK f : f = Searched(g)
  OBVIOUS
<1>6. /\ IsFrame(f) /\ f.at # "lookup" /\ f.flags = Top.flags /\ f.owisdom = NULL
      /\ f.best = NULL
  BY <1>4, <1>5, SearchedIs
<1>7. Replaced(stack, stack', f)
  BY <1>1, <1>3, <1>5, Becomes DEF Become, TimeIsUp
<1>8. Row'
  BY <1>1, <1>2, <1>6, <1>7, BecomeKeeps
<1>9. /\ timed_out' \in BOOLEAN
      /\ timed_out' => need_timeout_check'
      /\ timed_out' = timed_out \/ ~Estimate(Top.flags.u)
  BY <1>1, <1>2, ClockIsRead
<1>10. Time'
  BY <1>1, <1>6, <1>7, <1>9, TimeBecomes
<1> QED  BY <1>8, <1>10 DEF PlannerInv

(* ... or is not, and the search goes on. *)
LEMMA CompareKeeps ==
  ASSUME PlannerInv, Compare
  PROVE  PlannerInv'
<1>1. /\ Row /\ Time /\ stack # <<>> /\ Top.at = "got" /\ IsFrame(Top) /\ Top.owisdom = NULL
      /\ Top.sol.u = Top.flags.u
  BY RowTop DEF PlannerInv, Compare, At, IsFrame
<1>2. wisdom_state' = wisdom_state /\ timed_out' = timed_out
      /\ (need_timeout_check /\ timed_out => Estimate(Top.flags.u))
  BY DEF Compare
<1>3. ~timed_out
  BY <1>1, <1>2, SearchesAgree DEF Time
<1>4. PICK better, prune \in BOOLEAN :
        LET f == IF better THEN [Top EXCEPT !.best = Top.got, !.slvndx = Top.s] ELSE Top
        IN  Become(IF prune THEN Searched(f) ELSE NextSolver(f))
  BY DEF Compare
<1>5. PICK g : g = IF better THEN [Top EXCEPT !.best = Top.got, !.slvndx = Top.s] ELSE Top
  OBVIOUS
<1>6. IsFrame(g) /\ g.owisdom = NULL /\ g.flags = Top.flags /\ g.sol.u = g.flags.u
  <2>1. CASE better
    <3>1. /\ DOMAIN g = Fields /\ g.at = "got" /\ g.flags = Top.flags /\ g.sol = Top.sol
          /\ g.owisdom = NULL
      BY <1>1, <1>5, <2>1 DEF IsFrame, Fields
    <3> QED  BY <1>1, <3>1 DEF IsFrame
  <2>2. CASE ~better
    BY <1>1, <1>5, <2>2
  <2> QED  BY <2>1, <2>2
<1>7. PICK f : f = IF prune THEN Searched(g) ELSE NextSolver(g)
  OBVIOUS
<1>8. IsFrame(f) /\ f.at # "lookup" /\ f.flags = Top.flags /\ f.owisdom = NULL
  BY <1>6, <1>7, SearchedIs, NextSolverIs
<1>9. Replaced(stack, stack', f)
  BY <1>1, <1>4, <1>5, <1>7, Becomes DEF Become
<1>10. Row'
  BY <1>1, <1>2, <1>8, <1>9, BecomeKeeps
<1>11. Time'
  BY <1>1, <1>2, <1>3, <1>8, <1>9, TimeForgotten DEF Time
<1> QED  BY <1>10, <1>11 DEF PlannerInv

(* A search returns. *)
LEMMA ConcludeKeeps ==
  ASSUME PlannerInv, Conclude
  PROVE  PlannerInv'
<1>1. Row /\ stack # <<>> /\ UNCHANGED clock
  BY DEF PlannerInv, Conclude, At
<1>2. /\ wisdom_state' = "BOGUS" \/ wisdom_state' = wisdom_state
      /\ Return(NULL) \/ Return(Top.best)
  BY DEF Conclude, wisdom_is_bogus, Finish
<1>3. Returned(stack, stack')
  BY <1>1, <1>2, RowTop DEF Return
<1>4. Row'
  BY <1>1, <1>2, <1>3, ReturnKeeps
<1> QED  BY <1>1, <1>3, <1>4, TimeStays DEF PlannerInv

--------------------------------------------------------------------------------
(* The API *)

(* A call of mkplan0 begins a new row. *)
LEMMA RowBegins ==
  ASSUME PlannerInv, UNCHANGED clock, NEW a, NEW level, NEW wisdom \in Wisdom, NEW try,
         mkplan0(a, level, wisdom, try)
  PROVE  PlannerInv'
<1>1. PICK f : f = Frame(a.p, a.l, Levels[level] \cup a.l, a.limit, a.at = "recreate")
  OBVIOUS
<1>2. IsFrame(f) /\ f.at = "lookup" /\ f.owisdom = NULL
  BY <1>1, FrameBegins
<1>3. stack' = <<f>> /\ wisdom_state' \in Wisdom
  BY <1>1 DEF mkplan0
<1>4. stack' \in Seq({f}) /\ Calls' = {1} /\ Len(stack') = 1 /\ stack'[1] = f
  BY <1>3 DEF Calls
<1>5. Row'
  <2>1. \A i \in Calls' : IsFrame(stack'[i]) /\ (i < Len(stack') => stack'[i].at = "part")
    BY <1>2, <1>4
  <2>2. \A i, j \in Calls' : ~(i < j) /\ stack'[i] = f /\ stack'[j] = stack'[1]
    BY <1>4
  <2> QED  BY <1>2, <1>3, <1>4, <2>1, <2>2 DEF Row
<1>6. PICK t : t = <<f>>
  OBVIOUS
<1>7. Last(t) = f
  BY <1>6 DEF Last
<1>8. ~At("searched")'
  BY <1>2, <1>3, <1>6, <1>7 DEF At, Top
<1>9. Time'
  BY <1>2, <1>4, <1>8 DEF PlannerInv, Time, clock
<1> QED  BY <1>5, <1>9 DEF PlannerInv

(* Nothing that the planner's time depends on changes. *)
LEMMA PlannerRests ==
  ASSUME PlannerInv, UNCHANGED <<wisdom_state, clock, stack>>
  PROVE  PlannerInv'
BY DEF PlannerInv, Row, Time, Calls, clock, At, Top

(* mkplan's attempts and the levels of mkapiplan. *)
LEMMA CallKeeps ==
  ASSUME PlannerInv, Call
  PROVE  PlannerInv'
<1>1. {"NORMAL", "IGNORE_INFEASIBLE", "IGNORE_ALL"} \subseteq Wisdom
  BY DEF Wisdom
<1>2. CASE TryEstimator
  BY <1>1, <1>2, RowBegins DEF TryEstimator
<1>3. CASE TryAgain
  BY <1>1, <1>3, RowBegins DEF TryAgain
<1>4. CASE NextLevel
  BY <1>1, <1>4, RowBegins DEF NextLevel
<1>5. CASE Recreate
  BY <1>1, <1>5, RowBegins DEF Recreate
<1>6. CASE End
  BY <1>6, PlannerRests DEF End
<1> QED  BY <1>2, <1>3, <1>4, <1>5, <1>6 DEF Call

(* The user asks for a plan. *)
LEMMA StartKeeps ==
  ASSUME PlannerInv, Start
  PROVE  PlannerInv'
<1>1. \E a, level : \E wisdom \in {"NORMAL", "ONLY"} : \E try : mkplan0(a, level, wisdom, try)
  BY DEF Start
<1>2. UNCHANGED clock /\ {"NORMAL", "ONLY"} \subseteq Wisdom
  BY DEF Start, Wisdom
<1> QED  BY <1>1, <1>2, RowBegins

(* PlannerInv is inductive. *)
LEMMA PlannerInvInit ==
  ASSUME Init
  PROVE  PlannerInv
<1>1. stack = <<>> /\ timed_out = FALSE /\ wisdom_state = "NORMAL"
  BY DEF Init, PlannerInit
<1>2. Calls = {} /\ stack \in Seq({})
  BY <1>1 DEF Calls
<1> QED  BY <1>1, <1>2 DEF PlannerInv, Row, Time, At, Wisdom

LEMMA PlannerInvNext ==
  ASSUME PlannerInv, [Next]_vars
  PROVE  PlannerInv'
<1>1. CASE Start
  BY <1>1, StartKeeps
<1>2. CASE mkplan
  BY <1>2, LookupKeeps, SolveKeeps, PartKeeps, ReplayedKeeps, SearchKeeps, Search0Keeps,
     TimeIsUpKeeps, CompareKeeps, ConcludeKeeps DEF mkplan
<1>3. CASE Call
  BY <1>3, CallKeeps
<1>4. CASE Import
  BY <1>4, PlannerRests DEF Import
<1>5. CASE Forget
  BY <1>5, PlannerRests DEF Forget
<1>6. CASE UNCHANGED vars
  BY <1>6, PlannerRests DEF vars, clock
<1> QED  BY <1>1, <1>2, <1>3, <1>4, <1>5, <1>6 DEF Next

(* However deep the recursion of mkplan is, whatever the clock shows and     *)
(* however bogus the wisdom is: the searches of a call of the API agree on   *)
(* the estimator, what follows a solution follows solutions only, and        *)
(* timed_out is set only where it is looked at.                              *)
THEOREM PlannerInvariance ==
  Spec => []PlannerInv
<1>1. Init => PlannerInv
  BY PlannerInvInit
<1>2. PlannerInv /\ [Next]_vars => PlannerInv'
  BY PlannerInvNext
<1> QED  BY <1>1, <1>2, PTL DEF Spec

(* The planner's assertions about time (planner.c:501, 513 and 715) never    *)
(* fail: when time is up the next check is due, and a search that is out of  *)
(* time has no plan, for any problems, solvers, flags and wisdom.            *)
THEOREM TimeIsAlwaysNoticed ==
  Spec => []TimeIsNoticed
<1>1. PlannerInv => TimeIsNoticed
  BY DEF PlannerInv, Time, TimeIsNoticed
<1> QED  BY <1>1, PlannerInvariance, PTL

--------------------------------------------------------------------------------
(* Numbers *)

(* A set of naturals that is not empty has a least element. *)
LEMMA LeastNatural ==
  ASSUME NEW S \in SUBSET Nat, S # {}
  PROVE  \E i \in S : \A l \in S : i <= l
<1>1. PICK i \in S : \A l \in S : <<l, i>> \notin OpToRel(<, Nat)
  BY NatLessThanWellFounded, WFMin, Zenon
<1>2. \A l \in S : ~ (l < i)
  BY <1>1 DEF OpToRel
<1> QED  BY <1>2

(* A set of naturals with 0 that has the successors of its members below n  *)
(* has all up to n. *)
LEMMA UpTo ==
  ASSUME NEW S, NEW n \in Nat, 0 \in S, \A i \in 0 .. n - 1 : i \in S => i + 1 \in S
  PROVE  0 .. n \subseteq S
<1>1. PICK bad : bad = (0 .. n) \ S
  OBVIOUS
<1>2. ASSUME bad # {} PROVE FALSE
  <2>1. bad \in SUBSET Nat
    BY <1>1
  <2>2. PICK m \in bad : \A l \in bad : m <= l
    BY <1>2, <2>1, LeastNatural
  <2>3. m \in 0 .. n /\ m \notin S /\ m # 0
    BY <1>1, <2>2
  <2>4. m - 1 \in 0 .. n - 1 /\ ~(m <= m - 1)
    BY <2>3
  <2>5. m - 1 \in S
    BY <1>1, <2>2, <2>4
  <2>6. (m - 1) + 1 \in S
    BY <2>4, <2>5
  <2> QED  BY <2>3, <2>6
<1> QED  BY <1>1, <1>2

--------------------------------------------------------------------------------
(* Prime sizes *)

(* Bertrand's postulate, in the form in which next_prime relies on it. *)
Bertrand == \A n \in Nat : \E q \in n .. 2 * n + 2 : Prime(q)

LEMMA NextPrimeIs ==
  ASSUME Bertrand, NEW n \in Nat
  PROVE  next_prime(n) \in Nat /\ Prime(next_prime(n)) /\ next_prime(n) >= n
<1>1. PICK primes : primes = {q \in n .. 2 * n + 2 : Prime(q)}
  OBVIOUS
<1>2. primes \in SUBSET Nat /\ primes # {}
  BY <1>1 DEF Bertrand
<1>3. PICK q \in primes : \A r \in primes : q <= r
  BY <1>2, LeastNatural
<1>4. next_prime(n) = CHOOSE x \in primes : \A r \in primes : x <= r
  BY <1>1 DEF next_prime
<1>5. next_prime(n) \in primes
  BY <1>3, <1>4
<1> QED  BY <1>1, <1>5

(* Division by a number, and of its multiples. *)
LEMMA Division ==
  ASSUME NEW a \in Int, NEW n \in Nat \ {0}
  PROVE  /\ a % n \in 0 .. n - 1 /\ a \div n \in Int
         /\ a = n * (a \div n) + (a % n)
  BY SMTT(30)

LEMMA Divides ==
  ASSUME NEW p \in Nat \ {0}, NEW a \in Int
  PROVE  /\ a % p = 0 => \E c \in Int : a = p * c
         /\ \A c \in Int : a = p * c => a % p = 0
<1>1. PICK q \in Int, r \in 0 .. p - 1 : a = p * q + r /\ r = a % p
  BY Division
<1>2. ASSUME NEW c \in Int, a = p * c PROVE a % p = 0
  <2>1. PICK d \in Int : d = c - q
    OBVIOUS
  <2>2. r = p * d
    <3>1. p * c = p * q + p * d
      BY <2>1, SMTT(30)
    <3>2. PICK x \in Int, y \in Int : x = p * q /\ y = p * d
      OBVIOUS
    <3> QED  BY <1>1, <1>2, <3>1, <3>2
  <2>3. d >= 1 => p * d >= p
    BY SMTT(30)
  <2>4. d <= 0 => p * d <= 0
    BY SMTT(30)
  <2>5. r = 0
    BY <1>1, <2>1, <2>2, <2>3, <2>4
  <2> QED  BY <1>1, <2>5
<1>3. a % p = 0 => a = p * q
  <2>1. p * q \in Int
    OBVIOUS
  <2> QED  BY <1>1, <2>1
<1> QED  BY <1>2, <1>3

(* A prime divides no product of two smaller numbers. *)
LEMMA PrimeDivides ==
  ASSUME NEW p \in Nat, Prime(p), NEW h \in 1 .. p - 1, NEW n \in 1 .. p - 1
  PROVE  (n * h) % p # 0
<1>1. PICK S : S = {k \in 1 .. p - 1 : \E c \in Int : k * h = p * c}
  OBVIOUS
<1>2. ASSUME S # {} PROVE FALSE
  <2>1. S \in SUBSET Nat
    BY <1>1
  <2>2. PICK m \in S : \A l \in S : m <= l
    BY <1>2, <2>1, LeastNatural
  <2>3. m \in 1 .. p - 1
    BY <1>1, <2>2
  <2>4. PICK c \in Int : m * h = p * c
    BY <1>1, <2>2
  <2>5. m # 1
    <3> SUFFICES ASSUME m = 1 PROVE FALSE
      OBVIOUS
    <3>1. h = p * c
      BY <2>4
    <3>2. CASE c >= 1
      <4>1. p * c >= p
        BY <3>2
      <4> QED  BY <3>1, <4>1
    <3>3. CASE c <= 0
      <4>1. p * c <= 0
        BY <3>3
      <4> QED  BY <3>1, <4>1
    <3> QED  BY <3>2, <3>3
  <2>6. p % m # 0
    BY <2>3, <2>5 DEF Prime
  <2>7. PICK q \in Int, r \in 1 .. m - 1 : p = m * q + r
    <3>0. m \in Nat \ {0} /\ p \in Int
      BY <2>3
    <3>1. p = m * (p \div m) + (p % m) /\ p \div m \in Int /\ p % m \in 0 .. m - 1
      BY <3>0, Division
    <3>2. p % m \in 1 .. m - 1
      BY <2>3, <2>6, <3>1
    <3> QED  BY <3>1, <3>2
  <2>8. r * h = p * (h - q * c)
    <3>1. m \in Int /\ h \in Int /\ p \in Int
      BY <2>3
    <3>2. r * h = p * h - (m * q) * h
      <4>1. r = p - m * q
        BY <2>7, <3>1
      <4>2. \A x, y, z \in Int : (x - y) * z = x * z - y * z
        OBVIOUS
      <4>3. m * q \in Int
        BY <3>1
      <4> QED  BY <3>1, <4>1, <4>2, <4>3
    <3>3. (m * q) * h = q * (m * h)
      <4>1. \A x, y, z \in Int : (x * y) * z = y * (x * z)
        OBVIOUS
      <4> QED  BY <3>1, <4>1
    <3>4. p * (h - q * c) = p * h - q * (p * c)
      <4>1. \A x, y, z, w \in Int : x * (y - z * w) = x * y - z * (x * w)
        OBVIOUS
      <4> QED  BY <3>1, <4>1
    <3> QED  BY <2>4, <3>2, <3>3, <3>4
  <2>9. r \in S
    <3>1. h - q * c \in Int /\ r \in 1 .. p - 1
      BY <2>3, <2>7
    <3> QED  BY <1>1, <2>8, <3>1
  <2> QED  BY <2>2, <2>7, <2>9
<1>3. p \in Nat \ {0} /\ n * h \in Int
  OBVIOUS
<1> QED  BY ZenonT(40), <1>1, <1>2, <1>3, Divides

--------------------------------------------------------------------------------
(* The way of a search *)

LEMMA Remainder ==
  ASSUME NEW a \in Int, NEW n \in Nat, n > 0
  PROVE  a % n \in 0 .. n - 1
<1>1. n \in Nat \ {0}
  OBVIOUS
<1> QED  BY <1>1, Division

(* It begins somewhere, and goes on in equal steps. *)
LEMMA PlaceSteps ==
  ASSUME NEW ht, hashsiz(ht) \in Nat, Prime(hashsiz(ht)), NEW s \in Signatures
  PROVE  \E h \in 0 .. hashsiz(ht) - 1, d \in 1 .. hashsiz(ht) - 1 :
           \A n : Place(ht, s, n) = 1 + ((h + n * d) % hashsiz(ht))
<1>1. PICK p \in Nat : p = hashsiz(ht) /\ p > 1
  BY DEF Prime
<1>2. Words[s][1] \in Nat /\ Words[s][2] \in Nat
  BY WordsAssumption
<1>3. PICK a \in Nat, b \in Nat : a = Words[s][1] /\ b = Words[s][2]
  BY <1>2
<1>4. a % p \in 0 .. p - 1
  BY <1>1, Remainder
<1>5. b % (p - 1) \in 0 .. (p - 1) - 1
  BY <1>1, Remainder
<1>6. PICK h \in 0 .. p - 1 : h = a % p
  BY <1>4
<1>7. PICK d \in 1 .. p - 1 : d = 1 + (b % (p - 1))
  BY <1>1, <1>5
<1>8. \A n : Place(ht, s, n) = 1 + ((h + n * d) % p)
  BY <1>1, <1>3, <1>6, <1>7 DEF Place
<1> QED  BY <1>1, <1>8

LEMMA PlaceRange ==
  ASSUME NEW ht, hashsiz(ht) \in Nat, Prime(hashsiz(ht)), NEW s \in Signatures, NEW n \in Nat
  PROVE  Place(ht, s, n) \in 1 .. hashsiz(ht)
<1>1. PICK p \in Nat : p = hashsiz(ht) /\ p > 1
  BY DEF Prime
<1>2. PICK h \in 0 .. p - 1, d \in 1 .. p - 1 : Place(ht, s, n) = 1 + ((h + n * d) % p)
  BY <1>1, PlaceSteps
<1>3. PICK x \in Int : x = h + n * d
  BY <1>2
<1>4. x % p \in 0 .. p - 1
  BY <1>1, Remainder
<1> QED  BY <1>1, <1>2, <1>3, <1>4

(* In a table of prime size a search does not come back to a slot before it *)
(* has been everywhere. *)
LEMMA PlaceDistinct ==
  ASSUME NEW ht, hashsiz(ht) \in Nat, Prime(hashsiz(ht)), NEW s \in Signatures,
         NEW m \in 0 .. hashsiz(ht) - 1, NEW n \in 0 .. hashsiz(ht) - 1, m < n
  PROVE  Place(ht, s, m) # Place(ht, s, n)
<1>1. PICK p \in Nat : p = hashsiz(ht) /\ p > 1
  BY DEF Prime
<1>4. PICK h1 \in 0 .. p - 1, h2 \in 1 .. p - 1 :
         \A l : Place(ht, s, l) = 1 + ((h1 + l * h2) % p)
  BY <1>1, PlaceSteps
<1>5. m \in Nat /\ n \in Nat /\ n - m \in 1 .. p - 1
  BY <1>1
<1>6. PICK x \in Int, y \in Int : x = m * h2 /\ y = n * h2 /\ (n - m) * h2 = y - x
  <2>1. m * h2 \in Int /\ n * h2 \in Int
    BY <1>4, <1>5
  <2>2. \A a, b, c \in Int : (a - b) * c = a * c - b * c
    OBVIOUS
  <2> QED  BY <1>4, <1>5, <2>1, <2>2
<1>7. PICK a \in Int, b \in Int : a = h1 + x /\ b = h1 + y
  OBVIOUS
<1>8. PICK z \in Int : z = y - x /\ z % p # 0
  <2>1. ((n - m) * h2) % p # 0
    BY <1>1, <1>4, <1>5, PrimeDivides
  <2> QED  BY <1>6, <2>1
<1>9. Place(ht, s, m) = 1 + (a % p) /\ Place(ht, s, n) = 1 + (b % p)
  <2>1. h1 + m * h2 = a /\ h1 + n * h2 = b
    BY <1>6, <1>7
  <2>2. Place(ht, s, m) = 1 + ((h1 + m * h2) % p) /\ Place(ht, s, n) = 1 + ((h1 + n * h2) % p)
    BY <1>4
  <2> QED  BY <2>1, <2>2
<1>10. PICK r \in 0 .. p - 1, v \in 0 .. p - 1 : r = a % p /\ v = b % p
  BY <1>1, Remainder
<1>12. PICK q \in Int, u \in Int : a = p * q + r /\ b = p * u + v
  <2>1. p \in Nat \ {0}
    BY <1>1
  <2>2. a = p * (a \div p) + (a % p) /\ a \div p \in Int
    BY <2>1, Division
  <2>3. b = p * (b \div p) + (b % p) /\ b \div p \in Int
    BY <2>1, Division
  <2> QED  BY <1>10, <2>2, <2>3
<1>11. ASSUME r = v PROVE FALSE
  <2>1. PICK e \in Int : e = u - q
    OBVIOUS
  <2>2. p * e = p * u - p * q
    BY <1>1, <2>1
  <2>3. PICK i \in Int, j \in Int : i = p * u /\ j = p * q
    BY <1>1
  <2>4. z = p * e
    <3>1. a = j + r /\ b = i + r
      BY <1>11, <1>12, <2>3
    <3>2. p * e = i - j
      BY <2>2, <2>3
    <3> QED  BY <1>7, <1>8, <3>1, <3>2
  <2>5. p \in Nat \ {0}
    BY <1>1
  <2>6. z % p = 0
    BY <2>4, <2>5, Divides
  <2> QED  BY <1>8, <2>6
<1> QED  BY <1>9, <1>10, <1>11

(* It comes everywhere. *)
LEMMA PlaceCovers ==
  ASSUME NEW ht, hashsiz(ht) \in Nat, Prime(hashsiz(ht)), NEW s \in Signatures,
         NEW g \in 1 .. hashsiz(ht)
  PROVE  \E n \in 0 .. hashsiz(ht) - 1 : Place(ht, s, n) = g
<1>1. PICK p \in Nat : p = hashsiz(ht) /\ p > 1
  BY DEF Prime
<1>2. PICK f : f = [n \in 0 .. p - 1 |-> Place(ht, s, n)]
  OBVIOUS
<1>3. f \in [0 .. p - 1 -> 1 .. p]
  BY <1>1, <1>2, PlaceRange
<1>4. \A m, n \in 0 .. p - 1 : f[m] = f[n] => m = n
  <2> SUFFICES ASSUME NEW m \in 0 .. p - 1, NEW n \in 0 .. p - 1, f[m] = f[n], m # n PROVE FALSE
    OBVIOUS
  <2>1. Place(ht, s, m) = Place(ht, s, n)
    BY <1>2
  <2>2. m < n \/ n < m
    OBVIOUS
  <2> QED  BY <1>1, <2>1, <2>2, PlaceDistinct
<1>5. f \in Injection(0 .. p - 1, 1 .. p)
  BY <1>3, <1>4 DEF Injection, IsInjective
<1>6. IsFiniteSet(1 .. p) /\ Cardinality(1 .. p) = p /\ Cardinality(0 .. p - 1) = p
  BY <1>1, FS_Interval
<1>7. f \in Surjection(0 .. p - 1, 1 .. p)
  BY <1>5, <1>6, FS_Injection
<1>8. \E n \in 0 .. p - 1 : f[n] = g
  BY <1>1, <1>7 DEF Surjection
<1> QED  BY <1>1, <1>2, <1>8

--------------------------------------------------------------------------------
(* Tables *)

\* Solutions that are stored are for problems.
Storable(S) == NULL \notin S /\ \A sol \in S : sol.s \in Signatures

SlotsOf(S) == [valid : BOOLEAN, sol : S \cup {NULL}]

\* A search for the solution in slot g comes there: all slots before are valid.
Reached(ht, g) ==
  \E n \in 0 .. hashsiz(ht) - 1 :
    /\ Place(ht, ht.slots[g].sol.s, n) = g
    /\ \A m \in 0 .. n : Slot(ht, ht.slots[g].sol.s, m).valid

\* The tables that insertions make: of prime size, with a free slot, and every
\* solution where it is looked for.
IsTable(ht, S) ==
  /\ ht = [slots |-> ht.slots, nelem |-> ht.nelem]
  /\ ht.slots \in Seq(SlotsOf(S)) /\ Prime(hashsiz(ht))
  /\ \A g \in Live(ht) : Reached(ht, g)
  /\ Counted(ht)

\* No solution is in two slots.
Distinct(ht) ==
  \A g, h \in Live(ht) : ht.slots[g].sol = ht.slots[h].sol => g = h

LEMMA TableIs ==
  ASSUME NEW S, NEW ht, ht.slots \in Seq(SlotsOf(S))
  PROVE  /\ hashsiz(ht) \in Nat /\ DOMAIN ht.slots = 1 .. hashsiz(ht)
         /\ \A g \in 1 .. hashsiz(ht) : ht.slots[g] \in SlotsOf(S)
         /\ Live(ht) = {g \in 1 .. hashsiz(ht) : ht.slots[g].sol # NULL}
         /\ IsFiniteSet(Live(ht)) /\ Cardinality(Live(ht)) \in Nat
         /\ Cardinality(Live(ht)) <= hashsiz(ht)
<1>1. /\ hashsiz(ht) \in Nat /\ DOMAIN ht.slots = 1 .. hashsiz(ht)
      /\ \A g \in 1 .. hashsiz(ht) : ht.slots[g] \in SlotsOf(S)
  BY DEF hashsiz
<1>2. Live(ht) = {g \in 1 .. hashsiz(ht) : ht.slots[g].sol # NULL}
  BY <1>1 DEF Live
<1>3. Live(ht) \in SUBSET (1 .. hashsiz(ht))
  BY <1>2
<1>4. IsFiniteSet(1 .. hashsiz(ht)) /\ Cardinality(1 .. hashsiz(ht)) = hashsiz(ht)
  BY <1>1, FS_Interval
<1>5. IsFiniteSet(Live(ht)) /\ Cardinality(Live(ht)) <= hashsiz(ht)
  BY <1>3, <1>4, FS_Subset
<1> QED  BY <1>1, <1>2, <1>5, FS_CardinalityType

(* A search passes the slots up to the first invalid one. *)
LEMMA SeenIs ==
  ASSUME NEW S, NEW ht, ht.slots \in Seq(SlotsOf(S)), Prime(hashsiz(ht)), NEW s \in Signatures
  PROVE  Seen(ht, s) = {n \in 0 .. hashsiz(ht) - 1 : \A m \in 0 .. n : Slot(ht, s, m).valid}
<1>1. PICK p \in Nat : p = hashsiz(ht) /\ p > 1
  BY TableIs DEF Prime
<1>2. PICK stop : stop = {n \in 0 .. p - 1 :
                            ~Slot(ht, s, n).valid \/ (n > 0 /\ Place(ht, s, n) = Place(ht, s, 0))}
  OBVIOUS
<1>3. Seen(ht, s) = {n \in 0 .. p - 1 : \A m \in stop : n < m}
  BY <1>1, <1>2 DEF Seen
<1>4. stop = {n \in 0 .. p - 1 : ~Slot(ht, s, n).valid}
  <2>1. \A n \in 0 .. p - 1 : n > 0 => Place(ht, s, 0) # Place(ht, s, n)
    <3>1. 0 \in 0 .. p - 1
      BY <1>1
    <3> QED  BY <1>1, <3>1, PlaceDistinct
  <2> QED  BY <1>2, <2>1
<1>5. ASSUME NEW n \in 0 .. p - 1
      PROVE  (\A m \in stop : n < m) <=> \A m \in 0 .. n : Slot(ht, s, m).valid
  <2>1. \A m \in 0 .. n : m \in 0 .. p - 1
    BY <1>1
  <2>2. \A m \in 0 .. p - 1 : ~(n < m) => m \in 0 .. n
    BY <1>1
  <2>3. \A m \in 0 .. n : ~(n < m)
    BY <1>1
  <2> QED  BY <1>4, <2>1, <2>2, <2>3
<1> QED  BY <1>1, <1>3, <1>5

(* A search sees every solution for its problem. *)
LEMMA TableFinds ==
  ASSUME NEW S, NEW ht, IsTable(ht, S)
  PROVE  Finds(ht)
<1>1. ht.slots \in Seq(SlotsOf(S)) /\ Prime(hashsiz(ht)) /\ hashsiz(ht) \in Nat
  BY TableIs DEF IsTable
<1> SUFFICES ASSUME NEW s \in Signatures
             PROVE  {Place(ht, s, n) : n \in Matching(ht, s)}
                      = {g \in Live(ht) : ht.slots[g].sol.s = s}
  BY DEF Finds
<1>2. Matching(ht, s) = {n \in 0 .. hashsiz(ht) - 1 :
                           /\ \A m \in 0 .. n : Slot(ht, s, m).valid
                           /\ Slot(ht, s, n).sol # NULL /\ Slot(ht, s, n).sol.s = s}
  BY <1>1, SeenIs DEF Matching
<1>3. ASSUME NEW n \in Matching(ht, s)
      PROVE  Place(ht, s, n) \in Live(ht) /\ ht.slots[Place(ht, s, n)].sol.s = s
  <2>1. n \in Nat /\ Slot(ht, s, n).sol # NULL /\ Slot(ht, s, n).sol.s = s
    BY <1>2
  <2>2. Place(ht, s, n) \in 1 .. hashsiz(ht)
    BY <1>1, <2>1, PlaceRange
  <2> QED  BY <1>1, <2>1, <2>2, TableIs DEF Slot
<1>4. ASSUME NEW g \in Live(ht), ht.slots[g].sol.s = s
      PROVE  \E n \in Matching(ht, s) : Place(ht, s, n) = g
  <2>1. PICK n \in 0 .. hashsiz(ht) - 1 :
          Place(ht, s, n) = g /\ \A m \in 0 .. n : Slot(ht, s, m).valid
    BY <1>4 DEF IsTable, Reached
  <2>2. Slot(ht, s, n).sol # NULL /\ Slot(ht, s, n).sol.s = s
    BY <1>1, <1>4, <2>1, TableIs DEF Slot
  <2> QED  BY <1>2, <2>1, <2>2
<1> QED  BY <1>3, <1>4

(* Filling a free slot that a search reaches. *)
LEMMA FillKeeps ==
  ASSUME NEW S, Storable(S), NEW ht, IsTable(ht, S), ht.nelem + 1 < hashsiz(ht), NEW sol \in S,
         NEW n \in 0 .. hashsiz(ht) - 1, Place(ht, sol.s, n) \notin Live(ht),
         \A m \in 0 .. n - 1 : Slot(ht, sol.s, m).valid
  PROVE  LET new == fill_slot(ht, Place(ht, sol.s, n), sol)
         IN  /\ IsTable(new, S) /\ hashsiz(new) = hashsiz(ht)
             /\ new.nelem = ht.nelem + 1
             /\ Solutions(new) = Solutions(ht) \cup {sol}
             /\ Distinct(ht) /\ sol \notin Solutions(ht) => Distinct(new)
<1>1. /\ ht.slots \in Seq(SlotsOf(S)) /\ Prime(hashsiz(ht)) /\ hashsiz(ht) \in Nat
      /\ ht.nelem = Cardinality(Live(ht)) /\ ht.nelem \in Nat
  BY TableIs DEF IsTable, Counted
<1>2. PICK p \in Nat : p = hashsiz(ht)
  BY <1>1
<1>3. sol.s \in Signatures /\ sol # NULL
  BY DEF Storable
<1>4. PICK g \in 1 .. p : g = Place(ht, sol.s, n)
  BY <1>1, <1>2, <1>3, PlaceRange
<1>5. PICK new : new = fill_slot(ht, g, sol)
  OBVIOUS
<1>6. /\ new.slots = [ht.slots EXCEPT ![g] = [valid |-> TRUE, sol |-> sol]]
      /\ new.nelem = ht.nelem + 1
      /\ new = [slots |-> new.slots, nelem |-> new.nelem]
  BY <1>5 DEF fill_slot
<1>7. DOMAIN ht.slots = 1 .. p
  BY <1>1, <1>2, TableIs
<1>8. new.slots[g] = [valid |-> TRUE, sol |-> sol] /\ \A h \in 1 .. p : h # g => new.slots[h] = ht.slots[h]
  BY <1>6, <1>7
<1>9. new.slots \in Seq(SlotsOf(S)) /\ hashsiz(new) = p
  <2>1. [valid |-> TRUE, sol |-> sol] \in SlotsOf(S)
    BY DEF SlotsOf
  <2>2. new.slots \in Seq(SlotsOf(S)) /\ Len(new.slots) = Len(ht.slots)
    BY <1>1, <1>4, <1>6, <1>7, <2>1
  <2> QED  BY <1>2, <2>2 DEF hashsiz
<1>10. \A s, m : Place(new, s, m) = Place(ht, s, m)
  BY <1>2, <1>9 DEF Place
<1>11. Live(new) = Live(ht) \cup {g}
  <2>1. Live(new) = {h \in 1 .. p : new.slots[h].sol # NULL}
    BY <1>9, TableIs
  <2>2. Live(ht) = {h \in 1 .. p : ht.slots[h].sol # NULL}
    BY <1>1, <1>2, TableIs
  <2> QED  BY <1>3, <1>8, <2>1, <2>2
<1>12. Counted(new)
  <2>1. g \notin Live(ht) /\ IsFiniteSet(Live(ht))
    BY <1>1, <1>4, TableIs
  <2>2. Cardinality(Live(new)) = Cardinality(Live(ht)) + 1
    BY <1>11, <2>1, FS_AddElement
  <2> QED  BY <1>1, <1>2, <1>6, <1>9, <2>2 DEF Counted
<1>13. \A h \in 1 .. p : ht.slots[h].valid => new.slots[h].valid
  BY <1>8
<1>14. ASSUME NEW h \in Live(new) PROVE Reached(new, h)
  <2>1. CASE h = g
    <3>1. \A m \in 0 .. n : Slot(new, sol.s, m).valid
      <4> SUFFICES ASSUME NEW m \in 0 .. n PROVE new.slots[Place(ht, sol.s, m)].valid
        BY <1>10 DEF Slot
      <4>1. CASE m = n
        BY <1>4, <1>8, <4>1
      <4>2. CASE m # n
        <5>1. m \in 0 .. n - 1 /\ m \in Nat
          BY <4>2
        <5>2. Place(ht, sol.s, m) \in 1 .. p /\ ht.slots[Place(ht, sol.s, m)].valid
          BY <1>1, <1>2, <1>3, <5>1, PlaceRange DEF Slot
        <5> QED  BY <1>13, <5>2
      <4> QED  BY <4>1, <4>2
    <3>2. new.slots[h].sol = sol
      BY <1>8, <2>1
    <3> QED  BY <1>2, <1>4, <1>9, <1>10, <2>1, <3>1, <3>2 DEF Reached
  <2>2. CASE h # g
    <3>1. h \in Live(ht) /\ h \in 1 .. p /\ new.slots[h] = ht.slots[h]
      BY <1>1, <1>2, <1>8, <1>11, <2>2, TableIs
    <3>2. PICK t : t = ht.slots[h].sol.s
      OBVIOUS
    <3>3. t \in Signatures
      <4>1. ht.slots[h].sol \in S
        BY <1>1, <1>2, <3>1, TableIs DEF SlotsOf
      <4> QED  BY <3>2, <4>1 DEF Storable
    <3>4. PICK k \in 0 .. p - 1 : Place(ht, t, k) = h /\ \A m \in 0 .. k : Slot(ht, t, m).valid
      BY <1>2, <3>1, <3>2 DEF IsTable, Reached
    <3>5. ASSUME NEW m \in 0 .. k PROVE Slot(new, t, m).valid
      <4>1. m \in Nat
        OBVIOUS
      <4>2. Place(ht, t, m) \in 1 .. p
        BY <1>1, <1>2, <3>3, <4>1, PlaceRange
      <4> QED  BY <1>10, <1>13, <3>4, <4>2 DEF Slot
    <3> QED  BY <1>9, <1>10, <3>1, <3>2, <3>4, <3>5 DEF Reached
  <2> QED  BY <2>1, <2>2
<1>15. IsTable(new, S)
  BY <1>1, <1>2, <1>6, <1>9, <1>12, <1>14 DEF IsTable
<1>16. /\ \A h \in Live(ht) : h # g /\ new.slots[h].sol = ht.slots[h].sol
       /\ new.slots[g].sol = sol
  <2>1. g \notin Live(ht) /\ Live(ht) \subseteq 1 .. p
    BY <1>1, <1>2, <1>4, TableIs
  <2>2. \A h \in Live(ht) : h # g /\ new.slots[h] = ht.slots[h]
    BY <1>8, <2>1
  <2> QED  BY <1>8, <2>2
<1>17. Solutions(new) = Solutions(ht) \cup {sol}
  BY <1>11, <1>16 DEF Solutions
<1>18. ASSUME Distinct(ht), sol \notin Solutions(ht) PROVE Distinct(new)
  <2>1. \A h \in Live(ht) : new.slots[h].sol # sol
    BY <1>16, <1>18 DEF Solutions
  <2> QED  BY <1>11, <1>16, <1>18, <2>1 DEF Distinct
<1> QED  BY <1>2, <1>4, <1>5, <1>6, <1>9, <1>15, <1>17, <1>18

(* A slot with a solution is valid. *)
LEMMA LiveIsValid ==
  ASSUME NEW S, NEW ht, IsTable(ht, S), NEW g \in Live(ht)
  PROVE  ht.slots[g].valid
<1>1. PICK n \in 0 .. hashsiz(ht) - 1 :
        /\ Place(ht, ht.slots[g].sol.s, n) = g
        /\ \A m \in 0 .. n : Slot(ht, ht.slots[g].sol.s, m).valid
  BY DEF IsTable, Reached
<1>2. n \in 0 .. n
  OBVIOUS
<1> QED  BY <1>1, <1>2 DEF Slot

(* A solution is inserted while two slots are free. *)
LEMMA HinsertKeeps ==
  ASSUME NEW S, Storable(S), NEW ht, IsTable(ht, S), ht.nelem + 1 < hashsiz(ht), NEW sol \in S
  PROVE  LET new == hinsert0(ht, sol)
         IN  /\ IsTable(new, S) /\ hashsiz(new) = hashsiz(ht)
             /\ new.nelem = ht.nelem + 1
             /\ Solutions(new) = Solutions(ht) \cup {sol}
             /\ Distinct(ht) /\ sol \notin Solutions(ht) => Distinct(new)
<1>1. /\ ht.slots \in Seq(SlotsOf(S)) /\ Prime(hashsiz(ht)) /\ hashsiz(ht) \in Nat
      /\ ht.nelem = Cardinality(Live(ht)) /\ ht.nelem \in Nat
  BY TableIs DEF IsTable, Counted
<1>2. PICK free : free = {n \in 0 .. hashsiz(ht) - 1 : Place(ht, sol.s, n) \notin Live(ht)}
  OBVIOUS
<1>3. free # {}
  <2>1. PICK g \in 1 .. hashsiz(ht) : g \notin Live(ht)
    <3>1. Cardinality(1 .. hashsiz(ht)) = hashsiz(ht)
      BY <1>1, FS_Interval
    <3>2. Live(ht) # 1 .. hashsiz(ht)
      BY <1>1, <3>1
    <3> QED  BY <1>1, <3>2, TableIs
  <2>2. sol.s \in Signatures
    BY DEF Storable
  <2>3. \E n \in 0 .. hashsiz(ht) - 1 : Place(ht, sol.s, n) = g
    BY <1>1, <2>2, PlaceCovers
  <2> QED  BY <1>2, <2>1, <2>3
<1>4. free \in SUBSET Nat
  BY <1>1, <1>2
<1>5. PICK n : n = CHOOSE i \in free : \A m \in free : i <= m
  OBVIOUS
<1>6. n \in free /\ \A m \in free : n <= m
  BY <1>3, <1>4, <1>5, LeastNatural
<1>7. n \in 0 .. hashsiz(ht) - 1 /\ Place(ht, sol.s, n) \notin Live(ht)
  BY <1>2, <1>6
<1>8. ASSUME NEW m \in 0 .. n - 1 PROVE Slot(ht, sol.s, m).valid
  <2>1. m \in 0 .. hashsiz(ht) - 1 /\ ~(n <= m)
    BY <1>1, <1>7
  <2>2. Place(ht, sol.s, m) \in Live(ht)
    BY <1>2, <1>6, <2>1
  <2> QED  BY <2>2, LiveIsValid DEF Slot
<1>9. hinsert0(ht, sol) = fill_slot(ht, Place(ht, sol.s, n), sol)
  BY <1>2, <1>5 DEF hinsert0
<1> QED  BY <1>7, <1>8, <1>9, FillKeeps

--------------------------------------------------------------------------------
(* Recursive functions *)

\* f has the value base at 0, and each other value from the one before.
Computes(f, N, base, step) == f = [n \in 0 .. N |-> IF n = 0 THEN base ELSE step[<<n, f[n - 1]>>]]

(* There is a function that is defined by its value at 0 and by the step to *)
(* each number from the one before, if the steps stay among good values.    *)
LEMMA RecursionExists ==
  ASSUME NEW N \in Nat, NEW T, NEW base, <<0, base>> \in T, NEW step,
         \A n \in 1 .. N : \A x : <<n - 1, x>> \in T => <<n, step[<<n, x>>]>> \in T
  PROVE  \E f : Computes(f, N, base, step)
<1> DEFINE Upto(m, f) == f = [n \in 0 .. m |-> IF n = 0 THEN base ELSE step[<<n, f[n - 1]>>]]
           S == {m \in 0 .. N : \E f : Upto(m, f) /\ <<m, f[m]>> \in T}
<1>1. 0 \in S
  <2>1. PICK f : f = [n \in 0 .. 0 |-> base]
    OBVIOUS
  <2>2. \A n \in 0 .. 0 : n = 0
    OBVIOUS
  <2>3. f[0] = base /\ f = [n \in 0 .. 0 |-> f[n]]
    BY <2>1
  <2>4. Upto(0, f)
    BY <2>1, <2>2, <2>3
  <2> QED  BY <2>3, <2>4
<1>2. ASSUME NEW m \in 0 .. N - 1, m \in S PROVE m + 1 \in S
  <2>1. PICK f : Upto(m, f) /\ <<m, f[m]>> \in T
    BY <1>2
  <2>2. PICK y : y = step[<<m + 1, f[m]>>]
    OBVIOUS
  <2>3. <<m + 1, y>> \in T
    <3>1. m + 1 \in 1 .. N /\ (m + 1) - 1 = m
      OBVIOUS
    <3> QED  BY <2>1, <2>2, <3>1
  <2>4. PICK g : g = [n \in 0 .. m + 1 |-> IF n = m + 1 THEN y ELSE f[n]]
    OBVIOUS
  <2>5. ASSUME NEW n \in 0 .. m + 1
        PROVE  g[n] = IF n = 0 THEN base ELSE step[<<n, g[n - 1]>>]
    <3>1. CASE n = m + 1
      <4>1. n # 0 /\ n - 1 = m /\ m \in 0 .. m + 1 /\ m # m + 1
        BY <3>1
      <4>2. g[n] = y /\ g[n - 1] = f[m]
        BY <2>4, <3>1, <4>1
      <4> QED  BY <2>2, <3>1, <4>1, <4>2
    <3>2. CASE n # m + 1
      <4>1. n \in 0 .. m
        BY <3>2
      <4>2. n # 0 => n - 1 \in 0 .. m + 1 /\ n - 1 # m + 1
        BY <4>1
      <4>3. g[n] = f[n] /\ (n # 0 => g[n - 1] = f[n - 1])
        BY <2>4, <3>2, <4>2
      <4>4. f[n] = IF n = 0 THEN base ELSE step[<<n, f[n - 1]>>]
        BY <2>1, <4>1
      <4> QED  BY <4>3, <4>4
    <3> QED  BY <3>1, <3>2
  <2>6. Upto(m + 1, g)
    BY <2>4, <2>5
  <2>7. g[m + 1] = y /\ m + 1 \in 0 .. N
    BY <2>4
  <2> QED  BY <2>3, <2>6, <2>7
<1> HIDE DEF S
<1>3. N \in S
  BY <1>1, <1>2, UpTo
<1> USE DEF S
<1> QED  BY <1>3 DEF Computes

(* Its values are good. *)
LEMMA RecursionKeeps ==
  ASSUME NEW N \in Nat, NEW T, NEW f, <<0, f[0]>> \in T,
         \A n \in 1 .. N : <<n - 1, f[n - 1]>> \in T => <<n, f[n]>> \in T,
         NEW m \in 0 .. N
  PROVE  <<m, f[m]>> \in T
<1>1. PICK S : S = {n \in 0 .. N : <<n, f[n]>> \in T}
  OBVIOUS
<1>2. 0 \in S
  BY <1>1
<1>3. ASSUME NEW n \in 0 .. N - 1, n \in S PROVE n + 1 \in S
  <2>1. n + 1 \in 1 .. N /\ (n + 1) - 1 = n /\ n + 1 \in 0 .. N
    OBVIOUS
  <2> QED  BY <1>1, <1>3, <2>1
<1>4. 0 .. N \subseteq S
  BY <1>2, <1>3, UpTo
<1> QED  BY <1>1, <1>4

--------------------------------------------------------------------------------
(* The operations on tables *)

(* A table without solutions. *)
LEMMA EmptyTable ==
  ASSUME NEW S, NEW q \in Nat, Prime(q),
         NEW ht, ht = [slots |-> [h \in 1 .. q |-> Empty], nelem |-> 0]
  PROVE  IsTable(ht, S) /\ hashsiz(ht) = q /\ Live(ht) = {}
<1>1. Empty \in SlotsOf(S) /\ Empty.sol = NULL
  BY DEF Empty, SlotsOf
<1>2. ht.slots \in Seq(SlotsOf(S)) /\ hashsiz(ht) = q
  <2>1. ht.slots \in [1 .. q -> SlotsOf(S)]
    BY <1>1
  <2> QED  BY <2>1 DEF hashsiz
<1>3. \A h \in 1 .. q : ht.slots[h].sol = NULL
  BY <1>1
<1>4. Live(ht) = {}
  BY <1>2, <1>3, TableIs
<1>5. Counted(ht)
  <2>1. Cardinality(Live(ht)) = 0
    BY <1>4, FS_EmptySet
  <2>2. q > 1 /\ ht.nelem = 0
    BY DEF Prime
  <2> QED  BY <1>2, <2>1, <2>2 DEF Counted
<1> QED  BY <1>2, <1>4, <1>5 DEF IsTable

\* The solutions in the first n slots.
LiveUpto(ht, n) == {g \in Live(ht) : g <= n}

SolutionsUpto(ht, n) == {ht.slots[g].sol : g \in LiveUpto(ht, n)}

LEMMA LiveUptoStep ==
  ASSUME NEW S, NEW ht, ht.slots \in Seq(SlotsOf(S)), NEW n \in 1 .. hashsiz(ht)
  PROVE  /\ LiveUpto(ht, n - 1) \in SUBSET Live(ht)
         /\ IF ht.slots[n].sol = NULL THEN LiveUpto(ht, n) = LiveUpto(ht, n - 1)
            ELSE /\ SolutionsUpto(ht, n) = SolutionsUpto(ht, n - 1) \cup {ht.slots[n].sol}
                 /\ Distinct(ht) => ht.slots[n].sol \notin SolutionsUpto(ht, n - 1)
                 /\ Cardinality(LiveUpto(ht, n)) = Cardinality(LiveUpto(ht, n - 1)) + 1
                 /\ Cardinality(LiveUpto(ht, n - 1)) + 1 <= Cardinality(Live(ht))
         /\ Cardinality(LiveUpto(ht, n - 1)) \in Nat
<1>1. /\ hashsiz(ht) \in Nat /\ IsFiniteSet(Live(ht)) /\ n \in Nat
      /\ Live(ht) = {g \in 1 .. hashsiz(ht) : ht.slots[g].sol # NULL}
  BY TableIs
<1>2. LiveUpto(ht, n - 1) \in SUBSET Live(ht) /\ LiveUpto(ht, n) \in SUBSET Live(ht)
  BY DEF LiveUpto
<1>3. \A g \in Nat : g <= n <=> g <= n - 1 \/ g = n
  BY <1>1
<1>4. \A g \in Live(ht) : g \in Nat
  BY <1>1
<1>5. IsFiniteSet(LiveUpto(ht, n - 1)) /\ Cardinality(LiveUpto(ht, n - 1)) \in Nat
  BY <1>1, <1>2, FS_Subset, FS_CardinalityType
<1>6. CASE ht.slots[n].sol = NULL
  <2>1. n \notin Live(ht)
    BY <1>1, <1>6
  <2>2. LiveUpto(ht, n) = LiveUpto(ht, n - 1)
    BY <1>3, <1>4, <2>1 DEF LiveUpto
  <2> QED  BY <1>2, <1>5, <1>6, <2>2
<1>7. CASE ht.slots[n].sol # NULL
  <2>1. n \in Live(ht)
    BY <1>1, <1>7
  <2>2. LiveUpto(ht, n) = LiveUpto(ht, n - 1) \cup {n}
    BY <1>3, <1>4, <2>1 DEF LiveUpto
  <2>3. n \notin LiveUpto(ht, n - 1)
    BY <1>1 DEF LiveUpto
  <2>4. Cardinality(LiveUpto(ht, n)) = Cardinality(LiveUpto(ht, n - 1)) + 1
    BY <1>5, <2>2, <2>3, FS_AddElement
  <2>5. Cardinality(LiveUpto(ht, n)) <= Cardinality(Live(ht))
    BY <1>1, <1>2, FS_Subset
  <2>6. SolutionsUpto(ht, n) = SolutionsUpto(ht, n - 1) \cup {ht.slots[n].sol}
    BY <2>2 DEF SolutionsUpto
  <2>7. Distinct(ht) => ht.slots[n].sol \notin SolutionsUpto(ht, n - 1)
    BY <1>2, <2>1, <2>3 DEF SolutionsUpto, Distinct
  <2> QED  BY <1>2, <1>5, <1>7, <2>4, <2>5, <2>6, <2>7
<1> QED  BY <1>6, <1>7

\* One step of rehash.
Copied(ht, g, a) == IF ht.slots[g].sol = NULL THEN a ELSE hinsert0(a, ht.slots[g].sol)

(* Moving the solutions to a table with more slots than solutions. *)
LEMMA RehashKeeps ==
  ASSUME Bertrand, NEW S, Storable(S), NEW ht, ht.slots \in Seq(SlotsOf(S)),
         NEW nsiz \in Nat, Cardinality(Live(ht)) < nsiz
  PROVE  LET new == rehash(ht, nsiz)
         IN  /\ IsTable(new, S) /\ hashsiz(new) >= nsiz /\ hashsiz(new) \in Nat
             /\ new.nelem = Cardinality(Live(ht))
             /\ Solutions(new) = Solutions(ht)
             /\ Distinct(ht) => Distinct(new)
<1>1. PICK N \in Nat : N = hashsiz(ht)
  BY TableIs
<1>2. PICK q \in Nat : q = next_prime(nsiz) /\ Prime(q) /\ q >= nsiz
  BY NextPrimeIs
<1>3. PICK base : base = [slots |-> [h \in 1 .. q |-> Empty], nelem |-> 0]
  OBVIOUS
<1>4. PICK Tables : Tables = {a \in [slots : Seq(SlotsOf(S)), nelem : Nat] :
                                 IsTable(a, S) /\ hashsiz(a) = q}
  OBVIOUS
<1>5. \A a : IsTable(a, S) /\ hashsiz(a) = q => a \in Tables
  <2> SUFFICES ASSUME NEW a, IsTable(a, S), hashsiz(a) = q PROVE a \in Tables
    OBVIOUS
  <2>1. a = [slots |-> a.slots, nelem |-> a.nelem] /\ a.slots \in Seq(SlotsOf(S))
        /\ a.nelem = Cardinality(Live(a))
    BY DEF IsTable, Counted
  <2>2. a.nelem \in Nat
    BY <2>1, TableIs
  <2> QED  BY <1>4, <2>1, <2>2
<1> DEFINE Upto(n, a) == /\ a.nelem = Cardinality(LiveUpto(ht, n))
                         /\ Solutions(a) = SolutionsUpto(ht, n)
                         /\ Distinct(ht) => Distinct(a)
<1>6. PICK T : T = {e \in (0 .. N) \X Tables : Upto(e[1], e[2])}
  OBVIOUS
<1>7. \A n \in 0 .. N : \A a : <<n, a>> \in T
        <=> IsTable(a, S) /\ hashsiz(a) = q /\ Upto(n, a)
  BY <1>4, <1>5, <1>6
<1>8. <<0, base>> \in T
  <2>1. IsTable(base, S) /\ hashsiz(base) = q /\ base.nelem = 0 /\ Live(base) = {}
    BY <1>2, <1>3, EmptyTable
  <2>2. LiveUpto(ht, 0) = {}
    BY TableIs DEF LiveUpto
  <2>3. Cardinality(LiveUpto(ht, 0)) = 0
    BY <2>2, FS_EmptySet
  <2>4. 0 \in 0 .. N
    BY <1>1
  <2>5. Solutions(base) = SolutionsUpto(ht, 0) /\ Distinct(base)
    BY <2>1, <2>2 DEF Solutions, SolutionsUpto, Distinct
  <2> QED  BY <1>7, <2>1, <2>3, <2>4, <2>5
<1>9. PICK step : step = [e \in (1 .. N) \X Tables |-> Copied(ht, e[1], e[2])]
  OBVIOUS
<1>10. ASSUME NEW n \in 1 .. N, NEW a, <<n - 1, a>> \in T
       PROVE  /\ <<n, Copied(ht, n, a)>> \in T
              /\ step[<<n, a>>] = Copied(ht, n, a)
  <2>1. n - 1 \in 0 .. N /\ n \in 0 .. N
    BY <1>1
  <2>2. IsTable(a, S) /\ hashsiz(a) = q /\ Upto(n - 1, a) /\ a \in Tables
    BY <1>5, <1>7, <1>10, <2>1
  <2>3. step[<<n, a>>] = Copied(ht, n, a)
    BY <1>9, <2>2
  <2>4. CASE ht.slots[n].sol = NULL
    <3>1. LiveUpto(ht, n) = LiveUpto(ht, n - 1)
      BY <1>1, <2>4, LiveUptoStep
    <3>2. Upto(n, a)
      BY <2>2, <3>1 DEF SolutionsUpto
    <3> QED  BY <1>7, <2>1, <2>2, <2>3, <2>4, <3>2 DEF Copied
  <2>5. CASE ht.slots[n].sol # NULL
    <3>1. ht.slots[n].sol \in S
      <4>1. ht.slots[n] \in SlotsOf(S)
        BY <1>1, TableIs
      <4> QED  BY <2>5, <4>1 DEF SlotsOf
    <3>2. /\ Cardinality(LiveUpto(ht, n)) = a.nelem + 1
          /\ a.nelem + 1 <= Cardinality(Live(ht)) /\ a.nelem \in Nat
          /\ SolutionsUpto(ht, n) = Solutions(a) \cup {ht.slots[n].sol}
          /\ Distinct(ht) => ht.slots[n].sol \notin Solutions(a)
      BY <1>1, <2>2, <2>5, LiveUptoStep
    <3>3. a.nelem + 1 < q
      <4>1. Cardinality(Live(ht)) \in Nat
        BY TableIs
      <4> QED  BY <1>2, <3>2, <4>1
    <3>4. PICK new : new = hinsert0(a, ht.slots[n].sol)
      OBVIOUS
    <3>5. /\ IsTable(new, S) /\ hashsiz(new) = q /\ new.nelem = a.nelem + 1
          /\ Solutions(new) = Solutions(a) \cup {ht.slots[n].sol}
          /\ Distinct(a) /\ ht.slots[n].sol \notin Solutions(a) => Distinct(new)
      BY <2>2, <3>1, <3>3, <3>4, HinsertKeeps
    <3>6. Upto(n, new)
      BY <2>2, <3>2, <3>5
    <3>7. <<n, new>> \in T
      BY <1>7, <2>1, <3>5, <3>6
    <3> QED  BY <2>3, <2>5, <3>4, <3>7 DEF Copied
  <2> QED  BY <2>4, <2>5
<1> HIDE DEF Upto
<1>11. PICK f : Computes(f, N, base, step)
  <2>1. \A n \in 1 .. N : \A a : <<n - 1, a>> \in T => <<n, step[<<n, a>>]>> \in T
    BY <1>10
  <2> QED  BY <1>1, <1>8, <2>1, RecursionExists
<1> DEFINE Copies(c) == c = [g \in 0 .. N |->
             IF g = 0 THEN base ELSE Copied(ht, g, c[g - 1])]
<1>12. Copies(f)
  <2>1. <<0, f[0]>> \in T
    BY <1>1, <1>8, <1>11 DEF Computes
  <2>2. \A n \in 1 .. N : n \in 0 .. N /\ n # 0 /\ f[n] = step[<<n, f[n - 1]>>]
    BY <1>1, <1>11 DEF Computes
  <2>3. ASSUME NEW n \in 1 .. N, <<n - 1, f[n - 1]>> \in T PROVE <<n, f[n]>> \in T
    <3>1. PICK a : a = f[n - 1]
      OBVIOUS
    <3>2. <<n - 1, a>> \in T
      BY <2>3, <3>1
    <3> QED  BY <1>10, <2>2, <3>1, <3>2
  <2>4. \A n \in 0 .. N : <<n, f[n]>> \in T
    BY <1>1, <2>1, <2>3, RecursionKeeps
  <2>5. \A n \in 1 .. N : n - 1 \in 0 .. N
    BY <1>1
  <2>6. \A n \in 1 .. N : f[n] = Copied(ht, n, f[n - 1])
    BY <1>10, <2>2, <2>4, <2>5
  <2>7. \A n \in 0 .. N : n # 0 => n \in 1 .. N
    BY <1>1
  <2>8. f[0] = base
    BY <1>1, <1>11 DEF Computes
  <2> QED  BY <1>11, <2>6, <2>7, <2>8 DEF Computes
<1>13. PICK copy : copy = CHOOSE c : Copies(c)
  OBVIOUS
<1>14. Copies(copy)
  BY <1>12, <1>13
<1>15. rehash(ht, nsiz) = copy[N]
  BY <1>1, <1>2, <1>3, <1>13 DEF rehash, Copied
<1>16. <<N, copy[N]>> \in T
  <2>1. <<0, copy[0]>> \in T
    BY <1>1, <1>8, <1>14
  <2>2. \A n \in 1 .. N : n \in 0 .. N /\ n # 0
    BY <1>1
  <2>3. \A n \in 1 .. N : copy[n] = Copied(ht, n, copy[n - 1])
    BY <1>14, <2>2
  <2>4. ASSUME NEW n \in 1 .. N, <<n - 1, copy[n - 1]>> \in T PROVE <<n, copy[n]>> \in T
    <3>1. PICK a : a = copy[n - 1]
      OBVIOUS
    <3>2. <<n - 1, a>> \in T
      BY <2>4, <3>1
    <3> QED  BY <1>10, <2>3, <3>1, <3>2
  <2>5. N \in 0 .. N
    BY <1>1
  <2> HIDE DEF Copies
  <2> QED  BY <1>1, <2>1, <2>4, <2>5, RecursionKeeps
<1>17. LiveUpto(ht, N) = Live(ht)
  BY <1>1, TableIs DEF LiveUpto
<1>18. N \in 0 .. N
  BY <1>1
<1> HIDE DEF Copies
<1> USE DEF Upto
<1>19. SolutionsUpto(ht, N) = Solutions(ht)
  BY <1>17 DEF Solutions, SolutionsUpto
<1>20. IsTable(copy[N], S) /\ hashsiz(copy[N]) = q /\ Upto(N, copy[N])
  BY <1>7, <1>16, <1>18
<1> QED  BY <1>2, <1>15, <1>17, <1>19, <1>20

\* Enough slots for another solution and one that stays free.
Roomy(ht) == ht.nelem + 1 < hashsiz(ht)

LEMMA Sizes ==
  ASSUME NEW n \in Nat
  PROVE  /\ minsz(n) \in Nat /\ n < minsz(n)
         /\ nextsz(n) \in Nat /\ n + 1 < nextsz(n)
<1>1. PICK d \in Int : d = n \div 8
  OBVIOUS
<1>2. d >= 0
  BY <1>1
<1>3. PICK m \in Nat : m = 1 + n + d
  BY <1>2
<1>4. minsz(n) = m
  BY <1>1, <1>3 DEF minsz
<1>5. PICK e \in Int : e = m \div 8
  OBVIOUS
<1>6. e >= 0
  BY <1>5
<1>7. nextsz(n) = 1 + m + e
  BY <1>4, <1>5 DEF nextsz, minsz
<1> QED  BY <1>2, <1>3, <1>4, <1>6, <1>7

(* hgrow leaves a table with room for another solution. *)
LEMMA GrowKeeps ==
  ASSUME Bertrand, NEW S, Storable(S), NEW ht, IsTable(ht, S)
  PROVE  /\ IsTable(hgrow(ht), S) /\ Roomy(hgrow(ht))
         /\ hgrow(ht).nelem = ht.nelem
         /\ Solutions(hgrow(ht)) = Solutions(ht)
         /\ Distinct(ht) => Distinct(hgrow(ht))
<1>1. /\ ht.slots \in Seq(SlotsOf(S)) /\ hashsiz(ht) \in Nat
      /\ ht.nelem = Cardinality(Live(ht)) /\ ht.nelem \in Nat
  BY TableIs DEF IsTable, Counted
<1>2. PICK n \in Nat : n = ht.nelem
  BY <1>1
<1>3. minsz(n) \in Nat /\ n < minsz(n) /\ nextsz(n) \in Nat /\ n + 1 < nextsz(n)
  BY Sizes
<1>4. CASE minsz(n) >= hashsiz(ht)
  <2>1. PICK new : new = rehash(ht, nextsz(n))
    OBVIOUS
  <2>2. Cardinality(Live(ht)) < nextsz(n)
    BY <1>1, <1>2, <1>3
  <2>3. /\ IsTable(new, S) /\ hashsiz(new) >= nextsz(n) /\ hashsiz(new) \in Nat /\ new.nelem = n
        /\ Solutions(new) = Solutions(ht) /\ (Distinct(ht) => Distinct(new))
    BY <1>1, <1>2, <1>3, <2>1, <2>2, RehashKeeps
  <2>4. hgrow(ht) = new
    BY <1>2, <1>4, <2>1 DEF hgrow
  <2>5. Roomy(new)
    BY <1>3, <2>3 DEF Roomy
  <2> QED  BY <1>2, <2>3, <2>4, <2>5
<1>5. CASE ~(minsz(n) >= hashsiz(ht))
  <2>1. hgrow(ht) = ht
    BY <1>2, <1>5 DEF hgrow
  <2>2. Roomy(ht)
    <3>1. minsz(n) < hashsiz(ht) /\ n + 1 <= minsz(n)
      BY <1>1, <1>3, <1>5
    <3> QED  BY <1>1, <1>2, <1>3, <3>1 DEF Roomy
  <2> QED  BY <2>1, <2>2
<1> QED  BY <1>4, <1>5

(* A new table. *)
LEMMA MkhashtabIs ==
  ASSUME Bertrand, NEW S, Storable(S)
  PROVE  IsTable(mkhashtab, S) /\ Solutions(mkhashtab) = {} /\ Distinct(mkhashtab)
<1>1. PICK ht : ht = [slots |-> <<>>, nelem |-> 0]
  OBVIOUS
<1>2. ht.slots \in Seq(SlotsOf(S)) /\ hashsiz(ht) = 0 /\ ht.nelem = 0
  BY <1>1 DEF hashsiz
<1>3. Live(ht) = {}
  BY <1>1 DEF Live
<1>4. Cardinality(Live(ht)) = 0
  BY <1>3, FS_EmptySet
<1>5. minsz(0) \in Nat /\ nextsz(0) \in Nat /\ 0 < nextsz(0)
  BY Sizes
<1>6. mkhashtab = rehash(ht, nextsz(0))
  BY <1>1, <1>2, <1>5 DEF mkhashtab, hgrow
<1>7. Solutions(ht) = {} /\ Distinct(ht)
  BY <1>3 DEF Solutions, Distinct
<1> QED  BY <1>2, <1>4, <1>5, <1>6, <1>7, RehashKeeps

\* The table of htab_insert when the solutions in killed have been killed.
Killed(ht, killed) ==
  [slots |-> [g \in DOMAIN ht.slots |-> IF g \in killed THEN Tombstone ELSE ht.slots[g]],
   nelem |-> ht.nelem - Cardinality(killed)]

(* Solutions that are killed leave valid slots behind. *)
LEMMA KillKeeps ==
  ASSUME NEW S, Storable(S), NEW ht, IsTable(ht, S), NEW killed \in SUBSET Live(ht),
         NEW kill, kill = Killed(ht, killed)
  PROVE  /\ IsTable(kill, S) /\ hashsiz(kill) = hashsiz(ht)
         /\ Live(kill) = Live(ht) \ killed
         /\ \A g \in Live(kill) : kill.slots[g].sol = ht.slots[g].sol
         /\ killed # {} => Roomy(kill)
         /\ \A s, n : Place(kill, s, n) = Place(ht, s, n)
         /\ \A g \in 1 .. hashsiz(ht) : ht.slots[g].valid => kill.slots[g].valid
<1>1. /\ ht.slots \in Seq(SlotsOf(S)) /\ Prime(hashsiz(ht)) /\ hashsiz(ht) \in Nat
      /\ ht.nelem = Cardinality(Live(ht)) /\ ht.nelem \in Nat /\ ht.nelem < hashsiz(ht)
  BY TableIs DEF IsTable, Counted
<1>2. PICK p \in Nat : p = hashsiz(ht)
  BY <1>1
<1>3. DOMAIN ht.slots = 1 .. p /\ \A g \in 1 .. p : ht.slots[g] \in SlotsOf(S)
  BY <1>1, <1>2, TableIs
<1>4. \A g \in 1 .. p : kill.slots[g] = IF g \in killed THEN Tombstone ELSE ht.slots[g]
  BY <1>3 DEF Killed
<1>5. kill.slots \in Seq(SlotsOf(S)) /\ hashsiz(kill) = p
  <2>1. Tombstone \in SlotsOf(S)
    BY DEF Tombstone, SlotsOf
  <2>2. kill.slots = [g \in 1 .. p |-> IF g \in killed THEN Tombstone ELSE ht.slots[g]]
    BY <1>3 DEF Killed
  <2>3. kill.slots \in [1 .. p -> SlotsOf(S)]
    BY <1>3, <2>1, <2>2
  <2> QED  BY <2>3 DEF hashsiz
<1>6. \A s, n : Place(kill, s, n) = Place(ht, s, n)
  BY <1>2, <1>5 DEF Place
<1>7. \A g \in 1 .. p : ht.slots[g].valid => kill.slots[g].valid
  BY <1>4 DEF Tombstone
<1>8. Live(kill) = Live(ht) \ killed
  <2>1. Live(kill) = {g \in 1 .. p : kill.slots[g].sol # NULL}
    BY <1>5, TableIs
  <2>2. Live(ht) = {g \in 1 .. p : ht.slots[g].sol # NULL}
    BY <1>1, <1>2, TableIs
  <2> QED  BY <1>4, <2>1, <2>2 DEF Tombstone
<1>9. /\ IsFiniteSet(killed) /\ Cardinality(killed) \in Nat
      /\ Cardinality(Live(kill)) = ht.nelem - Cardinality(killed) /\ Cardinality(Live(kill)) \in Nat
  <2>1. IsFiniteSet(Live(ht))
    BY <1>1, TableIs
  <2>2. IsFiniteSet(killed) /\ IsFiniteSet(Live(kill))
    BY <1>8, <2>1, FS_Subset
  <2>3. Cardinality(Live(kill)) = Cardinality(Live(ht)) - Cardinality(Live(ht) \cap killed)
    BY <1>8, <2>1, FS_Difference
  <2>4. Live(ht) \cap killed = killed
    OBVIOUS
  <2> QED  BY <1>1, <2>2, <2>3, <2>4, FS_CardinalityType
<1>10. kill.nelem = ht.nelem - Cardinality(killed)
  BY DEF Killed
<1>11. Counted(kill)
  BY <1>1, <1>2, <1>5, <1>9, <1>10 DEF Counted
<1>12. ASSUME killed # {} PROVE Roomy(kill)
  <2>1. Cardinality(killed) # 0
    BY <1>9, <1>12, FS_EmptySet
  <2> QED  BY <1>1, <1>2, <1>5, <1>9, <1>10, <2>1 DEF Roomy
<1>13. ASSUME NEW g \in Live(kill) PROVE Reached(kill, g)
  <2>1. g \in Live(ht) /\ g \in 1 .. p /\ kill.slots[g] = ht.slots[g]
    BY <1>1, <1>2, <1>4, <1>8, TableIs
  <2>2. PICK t : t = ht.slots[g].sol.s
    OBVIOUS
  <2>3. t \in Signatures
    <3>1. ht.slots[g].sol \in S
      BY <1>1, <1>3, <2>1, TableIs DEF SlotsOf
    <3> QED  BY <2>2, <3>1 DEF Storable
  <2>4. PICK k \in 0 .. p - 1 : Place(ht, t, k) = g /\ \A m \in 0 .. k : Slot(ht, t, m).valid
    BY <1>2, <2>1, <2>2 DEF IsTable, Reached
  <2>5. ASSUME NEW m \in 0 .. k PROVE Slot(kill, t, m).valid
    <3>1. m \in Nat
      OBVIOUS
    <3>2. Place(ht, t, m) \in 1 .. p
      BY <1>1, <1>2, <2>3, <3>1, PlaceRange
    <3> QED  BY <1>6, <1>7, <2>4, <3>2 DEF Slot
  <2> QED  BY <1>5, <1>6, <2>1, <2>2, <2>4, <2>5 DEF Reached
<1>14. kill = [slots |-> kill.slots, nelem |-> kill.nelem]
  BY DEF Killed
<1>15. IsTable(kill, S)
  BY <1>1, <1>2, <1>5, <1>11, <1>13, <1>14 DEF IsTable
<1>16. \A g \in Live(kill) : kill.slots[g].sol = ht.slots[g].sol
  BY <1>1, <1>2, <1>4, <1>8, TableIs
<1> QED  BY <1>2, <1>5, <1>6, <1>7, <1>8, <1>12, <1>15, <1>16

\* The solutions that the new one leaves.
Kept(ht, sol) == {a \in Solutions(ht) : ~(a.s = sol.s /\ Subsumes(sol, a))}

(* Insertion keeps the table sound, and all solutions that are not subsumed. *)
LEMMA InsertKeeps ==
  ASSUME Bertrand, NEW S, Storable(S), NEW ht, IsTable(ht, S), NEW sol \in S
  PROVE  /\ IsTable(htab_insert(ht, sol), S)
         /\ Solutions(htab_insert(ht, sol)) = Kept(ht, sol) \cup {sol}
         /\ Distinct(ht) /\ Subsumes(sol, sol) => Distinct(htab_insert(ht, sol))
<1>1. ht.slots \in Seq(SlotsOf(S)) /\ Prime(hashsiz(ht)) /\ hashsiz(ht) \in Nat
  BY TableIs DEF IsTable
<1>2. sol.s \in Signatures
  BY DEF Storable
<1>3. PICK dead : dead = Subsumed(ht, sol)
  OBVIOUS
<1>6. {Place(ht, sol.s, n) : n \in Matching(ht, sol.s)} = {g \in Live(ht) : ht.slots[g].sol.s = sol.s}
  BY <1>2, TableFinds DEF Finds
<1>7. {Place(ht, sol.s, n) : n \in dead}
        = {g \in Live(ht) : ht.slots[g].sol.s = sol.s /\ Subsumes(sol, ht.slots[g].sol)}
  BY <1>3, <1>6 DEF Subsumed, Slot
<1>8. Subsumes(sol, sol) => sol \notin Kept(ht, sol)
  BY DEF Kept
<1>4. CASE dead = {}
  <2>1. PICK grown : grown = hgrow(ht)
    OBVIOUS
  <2>2. /\ IsTable(grown, S) /\ Roomy(grown) /\ Solutions(grown) = Solutions(ht)
        /\ Distinct(ht) => Distinct(grown)
    BY <2>1, GrowKeeps
  <2>3. /\ IsTable(hinsert0(grown, sol), S)
        /\ Solutions(hinsert0(grown, sol)) = Solutions(ht) \cup {sol}
        /\ Distinct(grown) /\ sol \notin Solutions(ht) => Distinct(hinsert0(grown, sol))
    BY <2>2, HinsertKeeps DEF Roomy
  <2>4. htab_insert(ht, sol) = hinsert0(grown, sol)
    BY <1>3, <1>4, <2>1 DEF htab_insert
  <2>5. \A g \in Live(ht) : ~(ht.slots[g].sol.s = sol.s /\ Subsumes(sol, ht.slots[g].sol))
    BY <1>4, <1>7
  <2>6. Kept(ht, sol) = Solutions(ht)
    BY <2>5 DEF Kept, Solutions
  <2> QED  BY <1>8, <2>2, <2>3, <2>4, <2>6
<1>5. CASE dead # {}
  <2>1. dead \subseteq Matching(ht, sol.s)
    BY <1>3 DEF Subsumed
  <2>2. ASSUME NEW n \in dead
        PROVE  /\ n \in 0 .. hashsiz(ht) - 1 /\ Slot(ht, sol.s, n).sol # NULL
               /\ \A m \in 0 .. n : Slot(ht, sol.s, m).valid
    BY <1>1, <1>2, <2>1, SeenIs DEF Matching
  <2>3. dead \in SUBSET Nat
    BY <1>1, <2>2
  <2>4. PICK n : n = CHOOSE i \in dead : \A m \in dead : i <= m
    OBVIOUS
  <2>5. n \in dead
    BY <1>5, <2>3, <2>4, LeastNatural
  <2>6. PICK killed : killed = {Place(ht, sol.s, i) : i \in dead}
    OBVIOUS
  <2>7. killed \in SUBSET Live(ht)
    <3> SUFFICES ASSUME NEW i \in dead PROVE Place(ht, sol.s, i) \in Live(ht)
      BY <2>6
    <3>1. i \in Nat
      BY <2>3
    <3>2. Place(ht, sol.s, i) \in 1 .. hashsiz(ht)
      BY <1>1, <1>2, <3>1, PlaceRange
    <3>3. ht.slots[Place(ht, sol.s, i)].sol # NULL
      BY <2>2 DEF Slot
    <3> QED  BY <1>1, <3>2, <3>3, TableIs
  <2>8. killed # {} /\ Place(ht, sol.s, n) \in killed
    BY <2>5, <2>6
  <2>9. PICK kill : kill = Killed(ht, killed)
    OBVIOUS
  <2>10. /\ IsTable(kill, S) /\ hashsiz(kill) = hashsiz(ht) /\ Live(kill) = Live(ht) \ killed
         /\ \A g \in Live(kill) : kill.slots[g].sol = ht.slots[g].sol
         /\ Roomy(kill) /\ \A s, m : Place(kill, s, m) = Place(ht, s, m)
         /\ \A g \in 1 .. hashsiz(ht) : ht.slots[g].valid => kill.slots[g].valid
    BY <2>7, <2>8, <2>9, KillKeeps
  <2>11. ASSUME NEW m \in 0 .. n - 1 PROVE Slot(kill, sol.s, m).valid
    <3>1. n \in Nat /\ m \in Nat /\ m \in 0 .. n
      BY <2>3, <2>5
    <3>2. Place(ht, sol.s, m) \in 1 .. hashsiz(ht)
      BY <1>1, <1>2, <3>1, PlaceRange
    <3>3. Slot(ht, sol.s, m).valid
      BY <2>2, <2>5, <3>1
    <3> QED  BY <2>10, <3>2, <3>3 DEF Slot
  <2>12. Place(kill, sol.s, n) \notin Live(kill) /\ n \in 0 .. hashsiz(kill) - 1
    BY <2>2, <2>5, <2>8, <2>10
  <2>13. PICK new : new = fill_slot(kill, Place(kill, sol.s, n), sol)
    OBVIOUS
  <2>15. /\ IsTable(new, S) /\ Solutions(new) = Solutions(kill) \cup {sol}
         /\ Distinct(kill) /\ sol \notin Solutions(kill) => Distinct(new)
    BY <2>10, <2>11, <2>12, <2>13, FillKeeps DEF Roomy
  <2>16. Solutions(kill) = Kept(ht, sol)
    <3>1. Live(kill) = {g \in Live(ht) : ~(ht.slots[g].sol.s = sol.s /\ Subsumes(sol, ht.slots[g].sol))}
      BY <1>7, <2>6, <2>10
    <3> QED  BY <2>10, <3>1 DEF Kept, Solutions
  <2>17. Distinct(ht) => Distinct(kill)
    BY <2>10 DEF Distinct
  <2>14. htab_insert(ht, sol) = fill_slot(kill, Place(ht, sol.s, n), sol)
    BY <1>3, <1>5, <2>4, <2>6, <2>9 DEF htab_insert, Killed
  <2>18. htab_insert(ht, sol) = new
    BY <2>10, <2>13, <2>14
  <2> QED  BY <1>8, <2>15, <2>16, <2>17, <2>18
<1> QED  BY <1>4, <1>5

(* What is looked up is a solution of the table for the problem that subsumes *)
(* the flags, if there is one.                                               *)
LEMMA LookupIs ==
  ASSUME NEW S, Storable(S), NEW ht, IsTable(ht, S), NEW s \in Signatures, NEW flags
  PROVE  \/ /\ htab_lookup(ht, s, flags) = NULL
            /\ \A a \in Solutions(ht) : a.s = s => ~Subsumes(a, flags)
         \/ /\ htab_lookup(ht, s, flags) \in S /\ htab_lookup(ht, s, flags) \in Solutions(ht)
            /\ htab_lookup(ht, s, flags).s = s /\ Subsumes(htab_lookup(ht, s, flags), flags)
<1>1. ht.slots \in Seq(SlotsOf(S)) /\ Prime(hashsiz(ht)) /\ hashsiz(ht) \in Nat
  BY TableIs DEF IsTable
<1>2. PICK N \in Nat : N = hashsiz(ht)
  BY <1>1
<1>3. PICK found : found = {n \in Matching(ht, s) : Subsumes(Slot(ht, s, n).sol, flags)}
  OBVIOUS
<1>4. PICK Answers : Answers = {l \in S \cap Solutions(ht) : l.s = s /\ Subsumes(l, flags)} \cup {NULL}
  OBVIOUS
<1>5. ASSUME NEW n \in found PROVE Slot(ht, s, n).sol \in Answers /\ Slot(ht, s, n).sol # NULL
  <2>1. n \in 0 .. N - 1 /\ Slot(ht, s, n).sol # NULL /\ Slot(ht, s, n).sol.s = s
    BY <1>2, <1>3 DEF Matching, Seen
  <2>2. n \in Nat
    BY <2>1
  <2>3. Place(ht, s, n) \in 1 .. hashsiz(ht)
    BY <1>1, <2>2, PlaceRange
  <2>4. ht.slots[Place(ht, s, n)] \in SlotsOf(S)
    BY <1>1, <2>3, TableIs
  <2>5. Slot(ht, s, n).sol \in S \cap Solutions(ht)
    BY <1>1, <2>1, <2>3, <2>4, TableIs DEF Slot, SlotsOf, Solutions
  <2> QED  BY <1>3, <1>4, <2>1, <2>5
<1> DEFINE Better(n, a) ==
             IF n - 1 \in found /\ (a = NULL \/ Slot(ht, s, n - 1).sol.u \subseteq a.u)
             THEN Slot(ht, s, n - 1).sol ELSE a
           Chooses(f) == f = [n \in 0 .. N |-> IF n = 0 THEN NULL ELSE Better(n, f[n - 1])]
<1>6. \A n : \A a \in Answers : Better(n, a) \in Answers
  BY <1>5
<1> DEFINE None(n, a) == a = NULL => \A m \in found : ~(m < n)
<1>19. ASSUME NEW n \in 1 .. N, NEW a \in Answers, None(n - 1, a) PROVE None(n, Better(n, a))
  <2> SUFFICES ASSUME Better(n, a) = NULL, NEW m \in found, m < n PROVE FALSE
    OBVIOUS
  <2>1. a = NULL /\ n - 1 \notin found
    BY <1>5
  <2>2. m \in Nat
    BY <1>2, <1>3 DEF Matching, Seen
  <2>3. ~(m < n - 1)
    BY <1>19, <2>1
  <2>4. m = n - 1
    BY <1>2, <2>2, <2>3
  <2> QED  BY <2>1, <2>4
<1> HIDE DEF Better
<1>7. PICK T : T = {e \in (0 .. N) \X Answers : None(e[1], e[2])}
  OBVIOUS
<1>8. \A n \in 0 .. N : \A a : <<n, a>> \in T <=> a \in Answers /\ None(n, a)
  BY <1>7
<1>9. <<0, NULL>> \in T
  <2>1. \A m \in found : ~(m < 0)
    BY <1>2, <1>3 DEF Matching, Seen
  <2> QED  BY <1>2, <1>4, <1>8, <2>1
<1>10. PICK step : step = [e \in (1 .. N) \X Answers |-> Better(e[1], e[2])]
  OBVIOUS
<1>11. ASSUME NEW n \in 1 .. N, NEW a, <<n - 1, a>> \in T
       PROVE  <<n, Better(n, a)>> \in T /\ step[<<n, a>>] = Better(n, a)
  <2>1. n - 1 \in 0 .. N /\ n \in 0 .. N
    BY <1>2
  <2>2. a \in Answers /\ None(n - 1, a)
    BY <1>8, <1>11, <2>1
  <2>3. None(n, Better(n, a))
    BY <1>19, <2>2
  <2>4. step[<<n, a>>] = Better(n, a)
    BY <1>10, <2>2
  <2> QED  BY <1>6, <1>8, <2>1, <2>2, <2>3, <2>4
<1> HIDE DEF None
<1>12. PICK f : Computes(f, N, NULL, step)
  <2>1. \A n \in 1 .. N : \A a : <<n - 1, a>> \in T => <<n, step[<<n, a>>]>> \in T
    BY <1>11
  <2> QED  BY <1>2, <1>9, <2>1, RecursionExists
<1>13. Chooses(f)
  <2>1. f[0] = NULL
    BY <1>2, <1>12 DEF Computes
  <2>2. \A n \in 1 .. N : n \in 0 .. N /\ n # 0 /\ f[n] = step[<<n, f[n - 1]>>]
    BY <1>2, <1>12 DEF Computes
  <2>3. ASSUME NEW n \in 1 .. N, <<n - 1, f[n - 1]>> \in T PROVE <<n, f[n]>> \in T
    <3>1. PICK a : a = f[n - 1]
      OBVIOUS
    <3>2. <<n - 1, a>> \in T
      BY <2>3, <3>1
    <3> QED  BY <1>11, <2>2, <3>1, <3>2
  <2>4. <<0, f[0]>> \in T
    BY <1>9, <2>1
  <2>5. \A n \in 0 .. N : <<n, f[n]>> \in T
    BY <1>2, <2>3, <2>4, RecursionKeeps
  <2>6. \A n \in 1 .. N : n - 1 \in 0 .. N
    BY <1>2
  <2>7. \A n \in 1 .. N : f[n] = Better(n, f[n - 1])
    BY <1>11, <2>2, <2>5, <2>6
  <2>8. \A n \in 0 .. N : n # 0 => n \in 1 .. N
    BY <1>2
  <2> QED  BY <1>12, <2>1, <2>7, <2>8 DEF Computes
<1>14. PICK best : best = CHOOSE c : Chooses(c)
  OBVIOUS
<1>15. Chooses(best)
  BY <1>13, <1>14
<1>16. htab_lookup(ht, s, flags) = best[N]
  BY <1>2, <1>3, <1>14 DEF htab_lookup, Better
<1>17. <<N, best[N]>> \in T
  <2>1. <<0, best[0]>> \in T
    BY <1>2, <1>9, <1>15
  <2>2. \A n \in 1 .. N : n \in 0 .. N /\ n # 0
    BY <1>2
  <2>3. \A n \in 1 .. N : best[n] = Better(n, best[n - 1])
    BY <1>15, <2>2
  <2>4. ASSUME NEW n \in 1 .. N, <<n - 1, best[n - 1]>> \in T PROVE <<n, best[n]>> \in T
    <3>1. PICK a : a = best[n - 1]
      OBVIOUS
    <3>2. <<n - 1, a>> \in T
      BY <2>4, <3>1
    <3> QED  BY <1>11, <2>3, <3>1, <3>2
  <2>5. N \in 0 .. N
    BY <1>2
  <2> QED  BY <1>2, <2>1, <2>4, <2>5, RecursionKeeps
<1>18. best[N] \in Answers /\ None(N, best[N])
  <2>1. N \in 0 .. N
    BY <1>2
  <2> QED  BY <1>8, <1>17, <2>1
<1>20. ASSUME best[N] = NULL, NEW a \in Solutions(ht), a.s = s PROVE ~Subsumes(a, flags)
  <2>1. PICK g \in Live(ht) : ht.slots[g].sol = a
    BY DEF Solutions
  <2>2. PICK n \in Matching(ht, s) : Place(ht, s, n) = g
    BY <1>20, <2>1, TableFinds DEF Finds
  <2>3. n \in 0 .. N - 1
    BY <1>2, <2>2 DEF Matching, Seen
  <2>4. n \notin found
    BY <1>2, <1>18, <1>20, <2>3 DEF None
  <2> QED  BY <1>3, <2>1, <2>2, <2>4 DEF Slot
<1> QED  BY <1>4, <1>16, <1>18, <1>20

--------------------------------------------------------------------------------
(* What the frames and the API hold *)

\* The solver at work has planned some parts of its problem.
InParts(f) ==
  /\ \E S : f.parts \in Seq(S)
  /\ Len(f.parts) <= Len(Solvers[f.p][f.s].parts)

(* A frame is about a problem, under flags; a solver that is at work is one of *)
(* the problem's, and the solution it works for is one that can be stored.     *)
TypedFrame(f) ==
  /\ f.p \in Problems
  /\ f.flags.l \in SUBSET Flags /\ f.flags.u \in SUBSET Flags
  /\ f.flags.limit \in Limits \cup {0}
  /\ f.x \in SUBSET Flags
  /\ f.s \in Nat
  /\ f.at \in {"solve", "part", "got"} => f.s \in DOMAIN Solvers[f.p]
  /\ f.at \notin {"lookup", "relax"} \/ f.last_x # NULL => f.sol \in Stored /\ f.sol.s = f.p
  /\ f.best # NULL => f.slvndx \in DOMAIN Solvers[f.p]
  /\ f.at \in {"solve", "part"} => InParts(f)
  /\ f.at = "part" => Len(f.parts) # Len(Solvers[f.p][f.s].parts)

TypedStack(s) == \A i \in 1 .. Len(s) : TypedFrame(s[i])

(* The API asks for a problem at levels that there are. *)
TypedApi ==
  api.at # "idle" =>
    /\ api.at \in {"plan", "only", "recreate"} /\ DOMAIN api = DOMAIN Idle
    /\ api.p \in Problems /\ api.l \in Hard /\ api.limit \in Limits
    /\ api.pat \in DOMAIN Levels /\ api.pat_max \in DOMAIN Levels
    /\ api.at = "recreate" \/ api.pln # NULL => api.used \in DOMAIN Levels

Tables == IsTable(htab_blessed, Stored) /\ IsTable(htab_unblessed, Stored)

Types == Tables /\ TypedStack(stack) /\ TypedApi

(* The tables are for solutions of problems. *)
LEMMA StoredIs ==
  /\ Storable(Stored)
  /\ \A sol \in Stored : /\ sol.s \in Problems /\ sol.l \in SUBSET Flags /\ sol.u \in SUBSET Flags
                         /\ sol.limit \in Limits \cup {0}
                         /\ sol.slvndx # INFEASIBLE =>
                              sol.slvndx \in DOMAIN Solvers[sol.s] /\ sol.limit = 0
BY PlannerAssumption DEF Storable, Stored, Problems

(* The solvers of a problem, and their parts. *)
LEMMA SolversAre ==
  ASSUME NEW p \in Problems
  PROVE  /\ Len(Solvers[p]) \in Nat /\ DOMAIN Solvers[p] = 1 .. Len(Solvers[p])
         /\ \A s \in DOMAIN Solvers[p] : Solvers[p][s].parts \in Seq(Problems)
<1>1. PICK R : R = [forbidden : SUBSET Flags, parts : Seq(Problems)]
  OBVIOUS
<1>2. PICK q : q = Solvers[p]
  OBVIOUS
<1>3. q \in Seq(R)
  BY <1>1, <1>2, PlannerAssumption
<1>4. Len(q) \in Nat /\ DOMAIN q = 1 .. Len(q) /\ \A s \in DOMAIN q : q[s] \in R
  BY <1>3
<1> QED  BY <1>1, <1>2, <1>4

(* A stack stays typed when its innermost frame is replaced, calls or returns. *)
LEMMA TypedStackIs ==
  ASSUME NEW s, NEW t, Len(s) \in Nat \ {0}, TypedStack(s)
  PROVE  /\ \A f : Replaced(s, t, f) /\ TypedFrame(f) => TypedStack(t)
         /\ \A f, g : Called(s, t, f, g) /\ TypedFrame(f) /\ TypedFrame(g) => TypedStack(t)
         /\ Returned(s, t) => TypedStack(t)
<1>1. PICK n \in Nat \ {0} : n = Len(s)
  OBVIOUS
<1>2. \A i \in 1 .. n - 1 : TypedFrame(s[i])
  BY <1>1 DEF TypedStack
<1>3. /\ \A i \in 1 .. n : i = n \/ i \in 1 .. n - 1
      /\ \A i \in 1 .. n + 1 : i = n + 1 \/ i = n \/ i \in 1 .. n - 1
  BY <1>1
<1>4. ASSUME NEW f, Replaced(s, t, f), TypedFrame(f) PROVE TypedStack(t)
  BY <1>1, <1>2, <1>3, <1>4 DEF Replaced, TypedStack
<1>5. ASSUME NEW f, NEW g, Called(s, t, f, g), TypedFrame(f), TypedFrame(g) PROVE TypedStack(t)
  BY <1>1, <1>2, <1>3, <1>5 DEF Called, TypedStack
<1>6. ASSUME Returned(s, t) PROVE TypedStack(t)
  BY <1>1, <1>2, <1>6 DEF Returned, TypedStack
<1> QED  BY <1>4, <1>5, <1>6

(* A call of mkplan begins. *)
LEMMA FrameTyped ==
  ASSUME NEW p \in Problems, NEW l \in SUBSET Flags, NEW u \in SUBSET Flags,
         NEW limit \in Limits \cup {0}, NEW bless, NEW f, f = Frame(p, l, u, limit, bless)
  PROVE  TypedFrame(f)
<1>1. /\ f.p = p /\ f.flags.l = l /\ f.flags.u = u /\ f.flags.limit \in {limit, 0} /\ f.x = u
      /\ f.s = 0 /\ f.at = "lookup" /\ f.last_x = NULL /\ f.best = NULL
  BY DEF Frame
<1> QED  BY <1>1 DEF TypedFrame

(* Where search goes on. *)
LEMMA SearchedTyped ==
  ASSUME NEW f, IsFrame(f), TypedFrame(f), f.at \notin {"lookup", "relax"}
  PROVE  TypedFrame(Searched(f))
<1>1. PICK g : g = Searched(f)
  OBVIOUS
<1>2. /\ g.at \in {"searched", "relax"} /\ g.p = f.p /\ g.flags = f.flags /\ g.x = f.x /\ g.s = f.s
      /\ g.last_x = f.last_x /\ g.sol = f.sol /\ g.best = f.best /\ g.slvndx = f.slvndx
  BY <1>1 DEF Searched, IsFrame, Fields
<1>3. TypedFrame(g)
  BY <1>2 DEF TypedFrame
<1> QED  BY <1>1, <1>3

LEMMA NextSolverTyped ==
  ASSUME NEW f, IsFrame(f), TypedFrame(f), f.at \notin {"lookup", "relax"}
  PROVE  TypedFrame(NextSolver(f))
<1>1. CASE f.s < Len(Solvers[f.p])
  <2>1. PICK g : g = Invoke([f EXCEPT !.s = @ + 1])
    OBVIOUS
  <2>2. /\ g.at = "solve" /\ g.p = f.p /\ g.flags = f.flags /\ g.x = f.x /\ g.s = f.s + 1
        /\ g.last_x = f.last_x /\ g.sol = f.sol /\ g.best = f.best /\ g.slvndx = f.slvndx
        /\ g.parts = <<>>
    BY <2>1 DEF Invoke, IsFrame, Fields
  <2>3. g.s \in DOMAIN Solvers[g.p] /\ g.s \in Nat /\ g.p \in Problems
    BY <1>1, <2>2, SolversAre DEF TypedFrame
  <2>4. InParts(g)
    <3>1. Solvers[g.p][g.s].parts \in Seq(Problems)
      BY <2>3, SolversAre
    <3>2. g.parts \in Seq({}) /\ Len(g.parts) = 0
      BY <2>2
    <3> QED  BY <3>1, <3>2 DEF InParts
  <2>5. TypedFrame(g)
    BY <2>2, <2>3, <2>4 DEF TypedFrame
  <2> QED  BY <1>1, <2>1, <2>5 DEF NextSolver
<1>2. CASE ~(f.s < Len(Solvers[f.p]))
  BY <1>2, SearchedTyped DEF NextSolver
<1> QED  BY <1>1, <1>2

(* The innermost call. *)
LEMMA TopTyped ==
  ASSUME Row, Types, stack # <<>>
  PROVE  /\ IsFrame(Top) /\ TypedFrame(Top) /\ Len(stack) \in Nat \ {0} /\ TypedStack(stack)
         /\ Top.p \in Problems
<1>1. Len(stack) \in Nat \ {0} /\ Top = stack[Len(stack)] /\ IsFrame(Top)
  BY RowTop
<1>2. TypedStack(stack)
  BY DEF Types
<1>3. TypedFrame(Top)
  BY <1>1, <1>2 DEF TypedStack
<1> QED  BY <1>1, <1>2, <1>3 DEF TypedFrame

(* The innermost call goes on. *)
LEMMA TypesBecome ==
  ASSUME Row, Types, stack # <<>>, NEW f, Become(f), TypedFrame(f), UNCHANGED <<tables, api>>
  PROVE  Types'
<1>1. Replaced(stack, stack', f)
  BY RowTop DEF Become
<1>2. TypedStack(stack')
  BY <1>1, TopTyped, TypedStackIs
<1> QED  BY <1>2 DEF Types, Tables, TypedApi, tables

(* It returns. *)
LEMMA TypesReturn ==
  ASSUME Row, Types, stack # <<>>, NEW plan, Return(plan), Tables', UNCHANGED api
  PROVE  Types'
<1>1. Returned(stack, stack')
  BY RowTop DEF Return
<1>2. TypedStack(stack')
  BY <1>1, TopTyped, TypedStackIs
<1> QED  BY <1>2 DEF Types, TypedApi

(* Its solution is inserted. *)
LEMMA FinishTyped ==
  ASSUME Bertrand, Types, NEW sol \in Stored, NEW plan, NEW bless, NEW wisdom,
         Finish(plan, sol, bless, wisdom)
  PROVE  Tables' /\ Return(plan)
<1>1. IsTable(htab_blessed, Stored) /\ IsTable(htab_unblessed, Stored)
  BY DEF Types, Tables
<1>2. IsTable(htab_insert(htab_blessed, sol), Stored)
      /\ IsTable(htab_insert(htab_unblessed, sol), Stored)
  BY <1>1, StoredIs, InsertKeeps
<1>3. htab_blessed' \in {htab_blessed, htab_insert(htab_blessed, sol)}
      /\ htab_unblessed' \in {htab_unblessed, htab_insert(htab_unblessed, sol)}
  BY DEF Finish, tables
<1>4. IsTable(htab_blessed', Stored) /\ IsTable(htab_unblessed', Stored)
  BY <1>1, <1>2, <1>3
<1> QED  BY <1>4 DEF Tables, Finish

(* What is looked up can be trusted as far as the tables can. *)
LEMMA LookupTypes ==
  ASSUME PlannerInv, Types, Lookup
  PROVE  Types'
<1>1. /\ Row /\ stack # <<>> /\ Top.at = "lookup" /\ IsFrame(Top) /\ TypedFrame(Top)
      /\ Top.p \in Problems
  BY TopTyped DEF PlannerInv, Lookup, At
<1>2. UNCHANGED <<tables, api>>
  BY DEF Lookup
<1>3. Tables'
  BY <1>2 DEF Types, Tables, tables
<1>4. PICK sol : sol = hlookup(Top.p, Top.flags)
  OBVIOUS
<1>5. sol = NULL \/ (sol \in Stored /\ sol.s = Top.p)
  <2>1. IsTable(htab_blessed, Stored) /\ IsTable(htab_unblessed, Stored)
    BY DEF Types, Tables
  <2>2. \A ht : IsTable(ht, Stored) =>
          \/ htab_lookup(ht, Top.p, Top.flags) = NULL
          \/ /\ htab_lookup(ht, Top.p, Top.flags) \in Stored
             /\ htab_lookup(ht, Top.p, Top.flags).s = Top.p
    BY <1>1, StoredIs, LookupIs DEF Problems
  <2> QED  BY <1>4, <2>1, <2>2 DEF hlookup
<1>6. CASE Return(NULL)
  BY <1>1, <1>2, <1>3, <1>6, TypesReturn
<1>7. CASE Become([Top EXCEPT !.at = "relax"])
  <2>1. PICK f : f = [Top EXCEPT !.at = "relax"]
    OBVIOUS
  <2>2. /\ f.at = "relax" /\ f.p = Top.p /\ f.flags = Top.flags /\ f.x = Top.x /\ f.s = Top.s
        /\ f.last_x = Top.last_x /\ f.sol = Top.sol /\ f.best = Top.best /\ f.slvndx = Top.slvndx
    BY <1>1, <2>1 DEF IsFrame, Fields
  <2>3. TypedFrame(f)
    BY <1>1, <2>2 DEF TypedFrame
  <2> QED  BY <1>1, <1>2, <1>7, <2>1, <2>3, TypesBecome
<1>8. CASE /\ sol # NULL /\ sol.slvndx # INFEASIBLE
           /\ Become(Invoke([Top EXCEPT !.sol = sol, !.s = sol.slvndx, !.owisdom = wisdom_state]))
  <2>1. PICK f : f = Invoke([Top EXCEPT !.sol = sol, !.s = sol.slvndx, !.owisdom = wisdom_state])
    OBVIOUS
  <2>2. /\ f.at = "solve" /\ f.p = Top.p /\ f.flags = Top.flags /\ f.x = Top.x /\ f.s = sol.slvndx
        /\ f.last_x = Top.last_x /\ f.sol = sol /\ f.best = Top.best /\ f.slvndx = Top.slvndx
        /\ f.parts = <<>>
    BY <1>1, <2>1 DEF Invoke, IsFrame, Fields
  <2>3. f.s \in DOMAIN Solvers[f.p] /\ f.p \in Problems
    BY <1>1, <1>5, <1>8, <2>2, StoredIs
  <2>4. f.s \in Nat
    BY <2>3, SolversAre
  <2>5. InParts(f)
    <3>1. Solvers[f.p][f.s].parts \in Seq(Problems)
      BY <2>3, SolversAre
    <3>2. f.parts \in Seq({}) /\ Len(f.parts) = 0
      BY <2>2
    <3> QED  BY <3>1, <3>2 DEF InParts
  <2>6. TypedFrame(f)
    BY <1>1, <1>5, <1>8, <2>2, <2>3, <2>4, <2>5 DEF TypedFrame
  <2> QED  BY <1>1, <1>2, <1>8, <2>1, <2>6, TypesBecome
<1> QED  BY <1>4, <1>6, <1>7, <1>8 DEF Lookup, wisdom_is_bogus

(* A solver plans a part of the problem. *)
LEMMA SolveTypes ==
  ASSUME PlannerInv, Types, Solve
  PROVE  Types'
<1>1. /\ Row /\ stack # <<>> /\ Top.at = "solve" /\ IsFrame(Top) /\ TypedFrame(Top)
      /\ Top.p \in Problems
  BY TopTyped DEF PlannerInv, Solve, At
<1>2. UNCHANGED <<tables, api>>
  BY DEF Solve
<1>3. /\ Top.s \in DOMAIN Solvers[Top.p] /\ Top.sol \in Stored /\ InParts(Top)
  BY <1>1 DEF TypedFrame
<1>4. ASSUME NEW f, Become(f), f = [Top EXCEPT !.at = "got"]
             \/ \E got : f = [Top EXCEPT !.at = "got", !.got = got]
      PROVE  Types'
  <2>1. /\ f.at = "got" /\ f.p = Top.p /\ f.flags = Top.flags /\ f.x = Top.x /\ f.s = Top.s
        /\ f.last_x = Top.last_x /\ f.sol = Top.sol /\ f.best = Top.best /\ f.slvndx = Top.slvndx
    BY <1>1, <1>4 DEF IsFrame, Fields
  <2>2. TypedFrame(f)
    BY <1>1, <2>1 DEF TypedFrame
  <2> QED  BY <1>1, <1>2, <1>4, <2>2, TypesBecome
<1>5. ASSUME NEW f, NEW g, Len(Top.parts) # Len(Solver.parts), f = [Top EXCEPT !.at = "part"],
             g = Frame(Solver.parts[Len(Top.parts) + 1], Top.sol.l, Top.sol.u, 0, Top.flags.bless),
             stack' = Append(Append(Front(stack), f), g)
      PROVE  Types'
  <2>1. PICK parts \in Seq(Problems) : parts = Solver.parts
    BY <1>1, <1>3, SolversAre DEF Solver
  <2>2. Len(Top.parts) \in Nat /\ Len(Top.parts) <= Len(parts)
    BY <1>3, <2>1 DEF InParts, Solver
  <2>3. Len(Top.parts) + 1 \in 1 .. Len(parts)
    BY <1>5, <2>1, <2>2
  <2>4. Solver.parts[Len(Top.parts) + 1] \in Problems
    BY <2>1, <2>3
  <2>5. TypedFrame(g)
    BY <1>3, <1>5, <2>4, StoredIs, FrameTyped
  <2>6. /\ f.at = "part" /\ f.p = Top.p /\ f.flags = Top.flags /\ f.x = Top.x /\ f.s = Top.s
        /\ f.last_x = Top.last_x /\ f.sol = Top.sol /\ f.best = Top.best /\ f.slvndx = Top.slvndx
        /\ f.parts = Top.parts
    BY <1>1, <1>5 DEF IsFrame, Fields
  <2>7. InParts(f) /\ Len(f.parts) # Len(Solvers[f.p][f.s].parts)
    BY <1>3, <1>5, <2>6 DEF InParts, Solver
  <2>8. TypedFrame(f)
    BY <1>1, <2>6, <2>7 DEF TypedFrame
  <2>9. Called(stack, stack', f, g)
    BY <1>1, <1>5, RowTop
  <2>10. TypedStack(stack')
    BY <1>1, <2>5, <2>8, <2>9, TopTyped, TypedStackIs
  <2> QED  BY <1>2, <2>10 DEF Types, Tables, TypedApi, tables
<1> QED  BY <1>4, <1>5 DEF Solve, Become

(* The part's plan is taken. *)
LEMMA PartTypes ==
  ASSUME PlannerInv, Types, Part
  PROVE  Types'
<1>1. /\ Row /\ stack # <<>> /\ Top.at = "part" /\ IsFrame(Top) /\ TypedFrame(Top)
      /\ Top.p \in Problems
  BY TopTyped DEF PlannerInv, Part, At
<1>2. UNCHANGED <<tables, api>>
  BY DEF Part
<1>3. /\ Top.s \in DOMAIN Solvers[Top.p] /\ InParts(Top)
      /\ Len(Top.parts) # Len(Solvers[Top.p][Top.s].parts)
  BY <1>1 DEF TypedFrame
<1>4. PICK f : f = IF pln = NULL THEN [Top EXCEPT !.at = "got"]
                   ELSE [Top EXCEPT !.at = "solve", !.parts = Append(@, pln)]
  OBVIOUS
<1>5. /\ f.at = (IF pln = NULL THEN "got" ELSE "solve")
      /\ f.p = Top.p /\ f.flags = Top.flags /\ f.x = Top.x /\ f.s = Top.s
      /\ f.last_x = Top.last_x /\ f.sol = Top.sol /\ f.best = Top.best /\ f.slvndx = Top.slvndx
      /\ pln # NULL => f.parts = Append(Top.parts, pln)
  BY <1>1, <1>4 DEF IsFrame, Fields
<1>6. ASSUME pln # NULL PROVE InParts(f)
  <2>1. PICK S : Top.parts \in Seq(S)
    BY <1>3 DEF InParts
  <2>2. PICK parts \in Seq(Problems) : parts = Solvers[Top.p][Top.s].parts
    BY <1>1, <1>3, SolversAre
  <2>3. Len(Top.parts) \in Nat /\ Len(parts) \in Nat /\ Len(Top.parts) < Len(parts)
    BY <1>3, <2>1, <2>2 DEF InParts
  <2>4. PICK T : T = S \cup {pln}
    OBVIOUS
  <2>5. Top.parts \in Seq(T) /\ pln \in T
    BY <2>1, <2>4, SeqMonotonic
  <2>6. f.parts \in Seq(T) /\ Len(f.parts) = Len(Top.parts) + 1
    <3>1. PICK old \in Seq(T) : old = Top.parts
      BY <2>5
    <3>2. Append(old, pln) \in Seq(T) /\ Len(Append(old, pln)) = Len(old) + 1
      BY <2>5
    <3> QED  BY <1>5, <1>6, <3>1, <3>2
  <2>7. Len(f.parts) <= Len(parts)
    BY <2>3, <2>6
  <2> QED  BY <1>5, <2>2, <2>6, <2>7 DEF InParts
<1>7. TypedFrame(f)
  BY <1>1, <1>5, <1>6 DEF TypedFrame
<1>8. Become(f)
  BY <1>4 DEF Part
<1> QED  BY <1>1, <1>2, <1>7, <1>8, TypesBecome

(* A solution that could be followed is inserted again. *)
LEMMA ReplayedTypes ==
  ASSUME Bertrand, PlannerInv, Types, Replayed
  PROVE  Types'
<1>1. /\ Row /\ stack # <<>> /\ Top.at = "got" /\ TypedFrame(Top) /\ UNCHANGED api
  BY TopTyped DEF PlannerInv, Replayed, At
<1>2. Top.sol \in Stored
  BY <1>1 DEF TypedFrame
<1>3. \/ Return(NULL) /\ UNCHANGED tables
      \/ Finish(Top.got, Top.sol, Top.flags.bless, Top.owisdom)
  BY DEF Replayed, wisdom_is_bogus
<1>4. CASE Return(NULL) /\ UNCHANGED tables
  <2>1. Tables'
    BY <1>4 DEF Types, Tables, tables
  <2> QED  BY <1>1, <1>4, <2>1, TypesReturn
<1>5. CASE Finish(Top.got, Top.sol, Top.flags.bless, Top.owisdom)
  <2>1. Tables' /\ Return(Top.got)
    BY <1>2, <1>5, FinishTyped
  <2> QED  BY <1>1, <2>1, TypesReturn
<1> QED  BY <1>3, <1>4, <1>5

(* The solution that is sought can be stored as infeasible. *)
LEMMA SearchTypes ==
  ASSUME PlannerInv, Types, Search
  PROVE  Types'
<1>1. /\ Row /\ stack # <<>> /\ Top.at = "relax" /\ IsFrame(Top) /\ TypedFrame(Top)
      /\ Top.p \in Problems
  BY TopTyped DEF PlannerInv, Search, At
<1>2. UNCHANGED <<tables, api>>
  BY DEF Search
<1>3. PICK x : x = IF Top.i > Len(Relax) THEN Top.flags.l
                   ELSE IF Top.flags.l \subseteq Top.x \ Relax[Top.i]
                   THEN Top.x \ Relax[Top.i] ELSE Top.x
  OBVIOUS
<1>4. Top.x \in SUBSET Flags /\ Top.flags.l \in SUBSET Flags /\ Top.flags.u \in SUBSET Flags
      /\ Top.flags.limit \in Limits \cup {0}
  BY <1>1 DEF TypedFrame
<1>5. x \in SUBSET Flags /\ x # NULL
  <2>1. x \in SUBSET Flags
    BY <1>3, <1>4
  <2> QED  BY <2>1, PlannerAssumption
<1>6. PICK sol : sol = [s |-> Top.p, l |-> x, u |-> Top.flags.u, limit |-> Top.flags.limit,
                        slvndx |-> INFEASIBLE]
  OBVIOUS
<1>7. sol \in Stored /\ sol.s = Top.p
  BY <1>1, <1>4, <1>5, <1>6 DEF Stored
<1>8. CASE Become([Top EXCEPT !.at = "search0", !.x = x, !.last_x = x, !.i = @ + 1, !.sol = sol])
  <2>1. PICK f : f = [Top EXCEPT !.at = "search0", !.x = x, !.last_x = x, !.i = @ + 1, !.sol = sol]
    OBVIOUS
  <2>2. /\ f.at = "search0" /\ f.p = Top.p /\ f.flags = Top.flags /\ f.x = x /\ f.s = Top.s
        /\ f.last_x = x /\ f.sol = sol /\ f.best = Top.best /\ f.slvndx = Top.slvndx
    BY <1>1, <2>1 DEF IsFrame, Fields
  <2>3. TypedFrame(f)
    BY <1>1, <1>5, <1>7, <2>2 DEF TypedFrame
  <2> QED  BY <1>1, <1>2, <1>8, <2>1, <2>3, TypesBecome
<1>9. CASE x = Top.last_x /\ Become([Top EXCEPT !.at = "searched"])
  <2>1. PICK f : f = [Top EXCEPT !.at = "searched"]
    OBVIOUS
  <2>2. /\ f.at = "searched" /\ f.p = Top.p /\ f.flags = Top.flags /\ f.x = Top.x /\ f.s = Top.s
        /\ f.last_x = Top.last_x /\ f.sol = Top.sol /\ f.best = Top.best /\ f.slvndx = Top.slvndx
    BY <1>1, <2>1 DEF IsFrame, Fields
  <2>3. TypedFrame(f)
    BY <1>1, <1>5, <1>9, <2>2 DEF TypedFrame
  <2> QED  BY <1>1, <1>2, <1>9, <2>1, <2>3, TypesBecome
<1>10. CASE Become([Top EXCEPT !.i = @ + 1])
  <2>1. PICK f : f = [Top EXCEPT !.i = @ + 1]
    OBVIOUS
  <2>2. /\ f.at = "relax" /\ f.p = Top.p /\ f.flags = Top.flags /\ f.x = Top.x /\ f.s = Top.s
        /\ f.last_x = Top.last_x /\ f.sol = Top.sol /\ f.best = Top.best /\ f.slvndx = Top.slvndx
    BY <1>1, <2>1 DEF IsFrame, Fields
  <2>3. TypedFrame(f)
    BY <1>1, <2>2 DEF TypedFrame
  <2> QED  BY <1>1, <1>2, <1>10, <2>1, <2>3, TypesBecome
<1> QED  BY <1>3, <1>6, <1>8, <1>9, <1>10 DEF Search

(* The first solver is tried, ... *)
LEMMA Search0Types ==
  ASSUME PlannerInv, Types, Search0
  PROVE  Types'
<1>1. /\ Row /\ stack # <<>> /\ Top.at = "search0" /\ IsFrame(Top) /\ TypedFrame(Top)
  BY TopTyped DEF PlannerInv, Search0, At
<1>2. UNCHANGED <<tables, api>>
  <2>1. UNCHANGED tables /\ \E late \in BOOLEAN : timeout_p(late)
    BY DEF Search0
  <2> QED  BY DEF Search0
<1>3. PICK g : g = [Top EXCEPT !.s = 0]
  OBVIOUS
<1>4. /\ DOMAIN g = Fields /\ g.at = "search0" /\ g.owisdom = Top.owisdom
      /\ g.p = Top.p /\ g.flags = Top.flags /\ g.x = Top.x /\ g.s = 0
      /\ g.last_x = Top.last_x /\ g.sol = Top.sol /\ g.best = Top.best /\ g.slvndx = Top.slvndx
  BY <1>1, <1>3 DEF IsFrame, Fields
<1>5. IsFrame(g) /\ TypedFrame(g)
  BY <1>1, <1>4 DEF IsFrame, TypedFrame
<1>6. TypedFrame(Searched(Top)) /\ TypedFrame(NextSolver(g))
  BY <1>1, <1>4, <1>5, SearchedTyped, NextSolverTyped
<1>7. Become(Searched(Top)) \/ Become(NextSolver(g))
  BY <1>3 DEF Search0
<1> QED  BY <1>1, <1>2, <1>6, <1>7, TypesBecome

(* ... or time is up, ... *)
LEMMA TimeIsUpTypes ==
  ASSUME PlannerInv, Types, TimeIsUp
  PROVE  Types'
<1>1. /\ Row /\ stack # <<>> /\ Top.at = "got" /\ IsFrame(Top) /\ TypedFrame(Top)
  BY TopTyped DEF PlannerInv, TimeIsUp, At
<1>2. UNCHANGED <<tables, api>>
  BY DEF TimeIsUp
<1>3. PICK g : g = [Top EXCEPT !.best = NULL]
  OBVIOUS
<1>4. /\ DOMAIN g = Fields /\ g.at = "got" /\ g.owisdom = Top.owisdom
      /\ g.p = Top.p /\ g.flags = Top.flags /\ g.x = Top.x /\ g.s = Top.s
      /\ g.last_x = Top.last_x /\ g.sol = Top.sol /\ g.best = NULL /\ g.slvndx = Top.slvndx
  BY <1>1, <1>3 DEF IsFrame, Fields
<1>5. IsFrame(g) /\ TypedFrame(g)
  BY <1>1, <1>4 DEF IsFrame, TypedFrame
<1>6. TypedFrame(Searched(g))
  BY <1>4, <1>5, SearchedTyped
<1>7. Become(Searched(g))
  BY <1>3 DEF TimeIsUp
<1> QED  BY <1>1, <1>2, <1>6, <1>7, TypesBecome

(* ... or the plan of the solver may be the best so far. *)
LEMMA CompareTypes ==
  ASSUME PlannerInv, Types, Compare
  PROVE  Types'
<1>1. /\ Row /\ stack # <<>> /\ Top.at = "got" /\ IsFrame(Top) /\ TypedFrame(Top)
  BY TopTyped DEF PlannerInv, Compare, At
<1>2. UNCHANGED <<tables, api>>
  BY DEF Compare
<1>3. Top.s \in DOMAIN Solvers[Top.p]
  BY <1>1 DEF TypedFrame
<1>4. PICK better, prune \in BOOLEAN :
        LET f == IF better THEN [Top EXCEPT !.best = Top.got, !.slvndx = Top.s] ELSE Top
        IN  Become(IF prune THEN Searched(f) ELSE NextSolver(f))
  BY DEF Compare
<1>5. PICK g : g = IF better THEN [Top EXCEPT !.best = Top.got, !.slvndx = Top.s] ELSE Top
  OBVIOUS
<1>6. IsFrame(g) /\ TypedFrame(g) /\ g.at = "got"
  <2>1. CASE better
    <3>1. /\ DOMAIN g = Fields /\ g.at = "got" /\ g.owisdom = Top.owisdom
          /\ g.p = Top.p /\ g.flags = Top.flags /\ g.x = Top.x /\ g.s = Top.s
          /\ g.last_x = Top.last_x /\ g.sol = Top.sol /\ g.slvndx = Top.s
      BY <1>1, <1>5, <2>1 DEF IsFrame, Fields
    <3> QED  BY <1>1, <1>3, <3>1 DEF IsFrame, TypedFrame
  <2>2. CASE ~better
    BY <1>1, <1>5, <2>2
  <2> QED  BY <2>1, <2>2
<1>7. TypedFrame(Searched(g)) /\ TypedFrame(NextSolver(g))
  BY <1>6, SearchedTyped, NextSolverTyped
<1>8. Become(Searched(g)) \/ Become(NextSolver(g))
  BY <1>4, <1>5
<1> QED  BY <1>1, <1>2, <1>7, <1>8, TypesBecome

(* What the search found is inserted: a solver for any time limit, as the    *)
(* search has no plan when it is out of time.                                *)
LEMMA ConcludeTypes ==
  ASSUME Bertrand, PlannerInv, Types, Conclude
  PROVE  Types'
<1>1. /\ Row /\ stack # <<>> /\ Top.at = "searched" /\ TypedFrame(Top) /\ UNCHANGED api
  BY TopTyped DEF PlannerInv, Conclude, At
<1>2. Top.sol \in Stored /\ Top.sol.s = Top.p
      /\ (Top.best # NULL => Top.slvndx \in DOMAIN Solvers[Top.p] /\ ~timed_out)
  <2>1. timed_out => Top.best = NULL
    BY <1>1 DEF PlannerInv, Time, At
  <2> QED  BY <1>1, <2>1 DEF TypedFrame
<1>3. PICK sol : sol = [Top.sol EXCEPT
                          !.slvndx = IF Top.best = NULL THEN INFEASIBLE ELSE Top.slvndx,
                          !.limit = IF timed_out THEN @ ELSE 0]
  OBVIOUS
<1>4. sol \in Stored
  <2>1. PICK R : R = [s : Problems, l : SUBSET Flags, u : SUBSET Flags, limit : Limits \cup {0},
                      slvndx : Nat \cup {INFEASIBLE}]
    OBVIOUS
  <2>2. Top.sol \in R
    BY <1>2, <2>1 DEF Stored
  <2>3. Top.best # NULL => Top.slvndx \in Nat
    <3>1. Top.p \in Problems
      BY <1>1 DEF TypedFrame
    <3> QED  BY <1>2, <3>1, SolversAre
  <2>4. sol \in R /\ sol.s = Top.p
        /\ sol.slvndx = (IF Top.best = NULL THEN INFEASIBLE ELSE Top.slvndx)
        /\ (~timed_out => sol.limit = 0)
    BY <1>2, <1>3, <2>1, <2>2, <2>3
  <2> QED  BY <1>2, <2>1, <2>4 DEF Stored
<1>5. \/ \E plan : Return(plan) /\ UNCHANGED tables
      \/ Finish(Top.best, sol, Top.flags.bless \/ timed_out, wisdom_state)
  BY <1>3 DEF Conclude, wisdom_is_bogus
<1>6. CASE \E plan : Return(plan) /\ UNCHANGED tables
  <2>1. Tables'
    BY <1>6 DEF Types, Tables, tables
  <2> QED  BY <1>1, <1>6, <2>1, TypesReturn
<1>7. CASE Finish(Top.best, sol, Top.flags.bless \/ timed_out, wisdom_state)
  <2>1. Tables' /\ Return(Top.best)
    BY <1>4, <1>7, FinishTyped
  <2> QED  BY <1>1, <2>1, TypesReturn
<1> QED  BY <1>5, <1>6, <1>7

(* mkplan0 begins to plan what the API asks for, at a level that there is. *)
LEMMA mkplan0Types ==
  ASSUME Tables', NEW a, NEW level \in DOMAIN Levels, NEW wisdom, NEW try,
         mkplan0(a, level, wisdom, try),
         a.at \in {"plan", "only", "recreate"}, DOMAIN a = DOMAIN Idle,
         a.p \in Problems, a.l \in Hard, a.limit \in Limits,
         a.pat \in DOMAIN Levels, a.pat_max \in DOMAIN Levels,
         a.at = "recreate" \/ a.pln # NULL => a.used \in DOMAIN Levels
  PROVE  Types'
<1>1. PICK f : f = Frame(a.p, a.l, Levels[level] \cup a.l, a.limit, a.at = "recreate")
  OBVIOUS
<1>2. a.l \in SUBSET Flags /\ Levels[level] \cup a.l \in SUBSET Flags
  <2>1. \A fs : (\E p \in DOMAIN Levels : fs = Levels[p]) \/ fs \in Hard => fs \in SUBSET Flags
    BY DEF Flags
  <2>2. a.l \in SUBSET Flags /\ Levels[level] \in SUBSET Flags
    BY <2>1
  <2> QED  BY <2>2
<1>3. TypedFrame(f)
  BY <1>1, <1>2, FrameTyped
<1>4. stack' = <<f>>
  BY <1>1 DEF mkplan0
<1>5. TypedStack(stack')
  <2>1. Len(stack') = 1 /\ stack'[1] = f
    BY <1>4
  <2>2. \A i \in 1 .. Len(stack') : stack'[i] = f
    BY <2>1
  <2> QED  BY <1>3, <2>2 DEF TypedStack
<1>6. TypedApi'
  <2>1. PICK b : b = [a EXCEPT !.try = try]
    OBVIOUS
  <2>2. /\ DOMAIN b = DOMAIN Idle /\ b.at = a.at /\ b.p = a.p /\ b.l = a.l /\ b.limit = a.limit
        /\ b.pat = a.pat /\ b.pat_max = a.pat_max /\ b.pln = a.pln /\ b.used = a.used
    BY <2>1 DEF Idle
  <2>3. api' = b
    BY <2>1 DEF mkplan0
  <2> QED  BY <2>2, <2>3 DEF TypedApi
<1> QED  BY <1>5, <1>6 DEF Types

(* The levels that there are. *)
LEMMA LevelsAre ==
  /\ Len(Levels) \in Nat /\ DOMAIN Levels = 1 .. Len(Levels) /\ 1 \in DOMAIN Levels
BY PlannerAssumption

(* The user asks for a plan. *)
LEMMA StartTypes ==
  ASSUME Types, Start
  PROVE  Types'
<1>1. Tables'
  BY DEF Start, Types, Tables, tables
<1>2. PICK p \in Problems, l \in Hard, limit \in Limits, pat_max \in DOMAIN Levels :
        LET a == [Idle EXCEPT !.p = p, !.l = l, !.limit = limit, !.pat_max = pat_max,
                              !.calls = api.calls + 1]
            pat == IF limit # 0 THEN 1 ELSE pat_max
        IN  \/ mkplan0([a EXCEPT !.at = "plan", !.pat = pat], pat, "NORMAL", 1)
            \/ mkplan0([a EXCEPT !.at = "only", !.pat = pat_max], pat_max, "ONLY", 4)
  BY DEF Start
<1>3. PICK a : a = [Idle EXCEPT !.p = p, !.l = l, !.limit = limit, !.pat_max = pat_max,
                                !.calls = api.calls + 1]
  OBVIOUS
<1>4. PICK pat \in DOMAIN Levels : pat = IF limit # 0 THEN 1 ELSE pat_max
  BY LevelsAre
<1>5. PICK b : b = [a EXCEPT !.at = "plan", !.pat = pat]
  OBVIOUS
<1>6. PICK c : c = [a EXCEPT !.at = "only", !.pat = pat_max]
  OBVIOUS
<1>7. /\ DOMAIN b = DOMAIN Idle /\ b.at = "plan" /\ b.p = p /\ b.l = l /\ b.limit = limit
      /\ b.pat = pat /\ b.pat_max = pat_max /\ b.pln = NULL
  BY <1>3, <1>5 DEF Idle
<1>8. /\ DOMAIN c = DOMAIN Idle /\ c.at = "only" /\ c.p = p /\ c.l = l /\ c.limit = limit
      /\ c.pat = pat_max /\ c.pat_max = pat_max /\ c.pln = NULL
  BY <1>3, <1>6 DEF Idle
<1>9. mkplan0(b, pat, "NORMAL", 1) \/ mkplan0(c, pat_max, "ONLY", 4)
  BY <1>2, <1>3, <1>4, <1>5, <1>6
<1> QED  BY <1>1, <1>7, <1>8, <1>9, mkplan0Types

(* mkplan's attempts and the levels of mkapiplan. *)
LEMMA CallTypes ==
  ASSUME Bertrand, Types, Call
  PROVE  Types'
<1>1. Tables /\ TypedApi
  BY DEF Types
<1>2. IsTable(mkhashtab, Stored)
  BY StoredIs, MkhashtabIs
<1>3. ASSUME api.at # "idle"
      PROVE  /\ api.at \in {"plan", "only", "recreate"} /\ DOMAIN api = DOMAIN Idle
             /\ api.p \in Problems /\ api.l \in Hard /\ api.limit \in Limits
             /\ api.pat \in DOMAIN Levels /\ api.pat_max \in DOMAIN Levels
             /\ api.at = "recreate" \/ api.pln # NULL => api.used \in DOMAIN Levels
             /\ Level \in DOMAIN Levels
  BY <1>1, <1>3 DEF TypedApi, Level
<1>4. CASE TryEstimator
  <2>1. api.at # "idle" /\ mkplan0(api, 1, "IGNORE_INFEASIBLE", 2) /\ Tables'
    BY <1>1, <1>4 DEF TryEstimator, Back, Tables, tables
  <2> QED  BY <1>3, <2>1, LevelsAre, mkplan0Types
<1>5. CASE TryAgain
  <2>1. api.at # "idle" /\ Tables'
    BY <1>2, <1>5 DEF TryAgain, Back, ForgetEverything, Tables
  <2>2. mkplan0(api, 1, "IGNORE_ALL", 4) \/ mkplan0(api, Level, "NORMAL", 3)
    BY <1>5 DEF TryAgain
  <2> QED  BY <1>3, <2>1, <2>2, LevelsAre, mkplan0Types
<1>6. ASSUME api.at # "idle"
      PROVE  /\ DOMAIN LevelDone = DOMAIN api /\ LevelDone.at = api.at /\ LevelDone.p = api.p
             /\ LevelDone.l = api.l /\ LevelDone.limit = api.limit /\ LevelDone.pat = api.pat
             /\ LevelDone.pat_max = api.pat_max
             /\ api.at = "recreate" \/ LevelDone.pln # NULL => LevelDone.used \in DOMAIN Levels
  <2>1. PICK a : a = [api EXCEPT !.pln = pln, !.used = api.pat]
    OBVIOUS
  <2>2. /\ DOMAIN a = DOMAIN api /\ a.at = api.at /\ a.p = api.p /\ a.l = api.l
        /\ a.limit = api.limit /\ a.pat = api.pat /\ a.pat_max = api.pat_max /\ a.used = api.pat
    BY <1>3, <1>6, <2>1 DEF Idle
  <2> QED  BY <1>3, <1>6, <2>1, <2>2 DEF LevelDone
<1>7. CASE NextLevel
  <2>1. /\ api.at = "plan" /\ api.pat < api.pat_max /\ Tables'
        /\ mkplan0([LevelDone EXCEPT !.pat = @ + 1], api.pat + 1, "NORMAL", 1)
    BY <1>1, <1>7 DEF NextLevel, Tables, tables
  <2>2. api.pat + 1 \in DOMAIN Levels
    <3>1. api.pat \in Nat /\ api.pat_max \in Nat /\ 1 <= api.pat /\ api.pat_max <= Len(Levels)
      BY <1>3, <2>1, LevelsAre
    <3> QED  BY <2>1, <3>1, LevelsAre
  <2>3. PICK a : a = [LevelDone EXCEPT !.pat = @ + 1]
    OBVIOUS
  <2>4. /\ DOMAIN a = DOMAIN Idle /\ a.at = "plan" /\ a.p = api.p /\ a.l = api.l
        /\ a.limit = api.limit /\ a.pat = api.pat + 1 /\ a.pat_max = api.pat_max
        /\ a.pln = LevelDone.pln /\ a.used = LevelDone.used
    BY <1>3, <1>6, <2>1, <2>3 DEF Idle
  <2>5. mkplan0(a, api.pat + 1, "NORMAL", 1)
    BY <2>1, <2>3
  <2> QED  BY <1>3, <1>6, <2>1, <2>2, <2>4, <2>5, mkplan0Types
<1>8. CASE Recreate
  <2>1. /\ api.at \in {"plan", "only"} /\ LevelDone.pln # NULL /\ Tables'
        /\ mkplan0([LevelDone EXCEPT !.at = "recreate"], LevelDone.used, "NORMAL", 1)
    BY <1>1, <1>8 DEF Recreate, Tables, tables
  <2>2. PICK a : a = [LevelDone EXCEPT !.at = "recreate"]
    OBVIOUS
  <2>3. /\ DOMAIN a = DOMAIN Idle /\ a.at = "recreate" /\ a.p = api.p /\ a.l = api.l
        /\ a.limit = api.limit /\ a.pat = api.pat /\ a.pat_max = api.pat_max
        /\ a.used = LevelDone.used
    BY <1>3, <1>6, <2>1, <2>2 DEF Idle
  <2>4. LevelDone.used \in DOMAIN Levels
    BY <1>6, <2>1
  <2>5. mkplan0(a, LevelDone.used, "NORMAL", 1)
    BY <2>1, <2>2
  <2> QED  BY <1>3, <2>1, <2>3, <2>4, <2>5, mkplan0Types
<1>9. CASE End
  <2>1. Tables' /\ stack' = stack
    BY <1>1, <1>2, <1>9 DEF End, Tables
  <2>2. api.at # "idle" /\ DOMAIN api = DOMAIN Idle
    BY <1>3, <1>9 DEF End, Planned, Back
  <2>3. PICK result : api' = [api EXCEPT !.at = "idle", !.result = result]
    BY <1>9 DEF End
  <2>4. api'.at = "idle"
    BY <2>2, <2>3 DEF Idle
  <2> QED  BY <2>1, <2>4 DEF Types, TypedApi
<1> QED  BY <1>4, <1>5, <1>7, <1>8, <1>9 DEF Call

(* A solution of a file is read: it is inserted if nothing known does as well. *)
Imported(a, sol) == IF htab_lookup(a, sol.s, sol) = NULL THEN htab_insert(a, sol) ELSE a

(* T relates to each number of solutions what the table may be after them. *)
LEMMA ImportInduction ==
  ASSUME NEW ht, NEW S, NEW file \in Seq(S), NEW T, <<0, ht>> \in T,
         \A i \in 1 .. Len(file) : \A a :
           <<i - 1, a>> \in T => <<i, Imported(a, file[i])>> \in T
  PROVE  <<Len(file), imprt(ht, file)>> \in T
<1>1. PICK N \in Nat : N = Len(file)
  OBVIOUS
<1> DEFINE Reads(f) == f = [i \in 0 .. N |-> IF i = 0 THEN ht ELSE Imported(f[i - 1], file[i])]
<1>2. PICK D : D = {<<t[1] + 1, t[2]>> : t \in T}
  OBVIOUS
<1>3. PICK step : step = [e \in D |-> Imported(e[2], file[e[1]])]
  OBVIOUS
<1>4. ASSUME NEW i \in 1 .. N, NEW a, <<i - 1, a>> \in T
      PROVE  <<i, Imported(a, file[i])>> \in T /\ step[<<i, a>>] = Imported(a, file[i])
  <2>1. <<i, a>> \in D
    <3>1. PICK t \in T : t = <<i - 1, a>>
      BY <1>4
    <3>2. t[1] + 1 = i /\ t[2] = a
      BY <3>1
    <3> QED  BY <1>2, <3>2
  <2>2. <<i, a>>[1] = i /\ <<i, a>>[2] = a
    OBVIOUS
  <2>3. step[<<i, a>>] = Imported(a, file[i])
    BY <1>3, <2>1, <2>2
  <2> QED  BY <1>1, <1>4, <2>3
<1>5. PICK f : Computes(f, N, ht, step)
  <2>1. \A i \in 1 .. N : \A a : <<i - 1, a>> \in T => <<i, step[<<i, a>>]>> \in T
    BY <1>4
  <2> QED  BY <1>1, <2>1, RecursionExists
<1>6. Reads(f)
  <2>1. f[0] = ht
    BY <1>1, <1>5 DEF Computes
  <2>2. \A i \in 1 .. N : i \in 0 .. N /\ i # 0 /\ f[i] = step[<<i, f[i - 1]>>]
    BY <1>1, <1>5 DEF Computes
  <2>3. ASSUME NEW i \in 1 .. N, <<i - 1, f[i - 1]>> \in T PROVE <<i, f[i]>> \in T
    <3>1. PICK a : a = f[i - 1]
      OBVIOUS
    <3>2. <<i - 1, a>> \in T
      BY <2>3, <3>1
    <3>3. f[i] = step[<<i, a>>]
      BY <2>2, <3>1
    <3>4. <<i, step[<<i, a>>]>> \in T
      BY <1>4, <3>2
    <3> QED  BY <3>3, <3>4
  <2>4. <<0, f[0]>> \in T
    BY <2>1
  <2>5. \A i \in 0 .. N : <<i, f[i]>> \in T
    BY <1>1, <2>3, <2>4, RecursionKeeps
  <2>6. \A i \in 1 .. N : i - 1 \in 0 .. N
    BY <1>1
  <2>7. \A i \in 1 .. N : f[i] = Imported(f[i - 1], file[i])
    BY <1>4, <2>2, <2>5, <2>6
  <2>8. \A i \in 0 .. N : i # 0 => i \in 1 .. N
    BY <1>1
  <2> QED  BY <1>5, <2>1, <2>7, <2>8 DEF Computes
<1>7. PICK read : read = CHOOSE c : Reads(c)
  OBVIOUS
<1>8. Reads(read)
  BY <1>6, <1>7
<1>9. imprt(ht, file) = read[N]
  BY <1>1, <1>7 DEF imprt, Imported
<1>10. <<0, read[0]>> \in T
  BY <1>1, <1>8
<1>11. \A i \in 1 .. N : i \in 0 .. N /\ i # 0
  BY <1>1
<1>12. \A i \in 1 .. N : read[i] = Imported(read[i - 1], file[i])
  BY <1>8, <1>11
<1>13. ASSUME NEW i \in 1 .. N, <<i - 1, read[i - 1]>> \in T PROVE <<i, read[i]>> \in T
  <2>1. PICK a : a = read[i - 1]
    OBVIOUS
  <2>2. <<i - 1, a>> \in T
    BY <1>13, <2>1
  <2> QED  BY <1>4, <1>12, <2>1, <2>2
<1>14. N \in 0 .. N
  BY <1>1
<1>15. <<N, read[N]>> \in T
  BY <1>1, <1>10, <1>13, <1>14, RecursionKeeps
<1> QED  BY <1>1, <1>9, <1>15

(* The tables there are. *)
LEMMA TablesAre ==
  \E Good : \A a : a \in Good <=> IsTable(a, Stored)
<1>1. PICK Good : Good = {a \in [slots : Seq(SlotsOf(Stored)), nelem : Nat] : IsTable(a, Stored)}
  OBVIOUS
<1>2. ASSUME NEW a, IsTable(a, Stored) PROVE a \in Good
  <2>1. a = [slots |-> a.slots, nelem |-> a.nelem] /\ a.slots \in Seq(SlotsOf(Stored))
        /\ a.nelem = Cardinality(Live(a))
    BY <1>2 DEF IsTable, Counted
  <2>2. a.nelem \in Nat
    BY <2>1, TableIs
  <2> QED  BY <1>1, <1>2, <2>1, <2>2
<1>3. \A a : a \in Good <=> IsTable(a, Stored)
  BY <1>1, <1>2
<1> QED  BY <1>3

(* A file is read into a table. *)
LEMMA ImportKeeps ==
  ASSUME Bertrand, NEW ht, IsTable(ht, Stored), NEW file \in Seq(Stored)
  PROVE  IsTable(imprt(ht, file), Stored)
<1>1. PICK Good : \A a : a \in Good <=> IsTable(a, Stored)
  BY TablesAre
<1>2. PICK T : T = (0 .. Len(file)) \X Good
  OBVIOUS
<1>3. <<0, ht>> \in T
  BY <1>1, <1>2
<1>4. ASSUME NEW i \in 1 .. Len(file), NEW a, <<i - 1, a>> \in T
      PROVE  <<i, Imported(a, file[i])>> \in T
  <2>1. file[i] \in Stored /\ i \in 0 .. Len(file) /\ IsTable(a, Stored)
    BY <1>1, <1>2, <1>4
  <2>2. IsTable(htab_insert(a, file[i]), Stored)
    BY <2>1, StoredIs, InsertKeeps
  <2> QED  BY <1>1, <1>2, <2>1, <2>2 DEF Imported
<1>5. <<Len(file), imprt(ht, file)>> \in T
  BY <1>3, <1>4, ImportInduction
<1> QED  BY <1>1, <1>2, <1>5

LEMMA ImportTypes ==
  ASSUME Bertrand, Types, Import
  PROVE  Types'
<1>1. PICK file \in Files : htab_blessed' = imprt(htab_blessed, file)
  BY DEF Import
<1>2. file \in Seq(Stored)
  BY PlannerAssumption
<1>3. IsTable(htab_blessed', Stored)
  BY <1>1, <1>2, ImportKeeps DEF Types, Tables
<1>4. htab_unblessed' = htab_unblessed /\ stack' = stack
      /\ api' = [Idle EXCEPT !.calls = api.calls]
  BY DEF Import
<1>5. api'.at = "idle"
  BY <1>4 DEF Idle
<1> QED  BY <1>3, <1>4, <1>5 DEF Types, Tables, TypedApi

LEMMA ForgetTypes ==
  ASSUME Bertrand, Types, Forget
  PROVE  Types'
<1>1. IsTable(mkhashtab, Stored)
  BY StoredIs, MkhashtabIs
<1>2. Tables' /\ stack' = stack /\ api' = Idle
  BY <1>1 DEF Forget, ForgetEverything, Tables
<1>3. api'.at = "idle"
  BY <1>2 DEF Idle
<1> QED  BY <1>2, <1>3 DEF Types, TypedApi

(* Types is inductive, given what was shown of the planner's row. *)
LEMMA TypesInit ==
  ASSUME Bertrand, Init
  PROVE  Types
<1>1. IsTable(mkhashtab, Stored)
  BY StoredIs, MkhashtabIs
<1>2. Tables /\ stack = <<>> /\ api = Idle
  BY <1>1 DEF Init, PlannerInit, Tables
<1>3. TypedStack(stack)
  BY <1>2 DEF TypedStack
<1>4. api.at = "idle"
  BY <1>2 DEF Idle
<1> QED  BY <1>2, <1>3, <1>4 DEF Types, TypedApi

LEMMA TypesNext ==
  ASSUME Bertrand, PlannerInv, Types, [Next]_vars
  PROVE  Types'
<1>1. CASE Start
  BY <1>1, StartTypes
<1>2. CASE mkplan
  BY <1>2, LookupTypes, SolveTypes, PartTypes, ReplayedTypes, SearchTypes, Search0Types,
     TimeIsUpTypes, CompareTypes, ConcludeTypes DEF mkplan
<1>3. CASE Call
  BY <1>3, CallTypes
<1>4. CASE Import
  BY <1>4, ImportTypes
<1>5. CASE Forget
  BY <1>5, ForgetTypes
<1>6. CASE UNCHANGED vars
  BY <1>6 DEF vars, Types, Tables, TypedApi
<1> QED  BY <1>1, <1>2, <1>3, <1>4, <1>5, <1>6 DEF Next

(* What check() asserts of the hash tables (planner.c:995-1034), for tables    *)
(* that grow to any size, any problems, solvers and files, and any words of    *)
(* the signatures: they are never full, a search finds every solution for its  *)
(* problem, and a solver is never stored as the answer to an impatient         *)
(* question.  Bertrand's postulate is what next_prime relies on.               *)
THEOREM SolutionsAreFound ==
  ASSUME Bertrand
  PROVE  Spec => []TablesSound
<1>1. Init => Types
  BY TypesInit
<1>2. PlannerInv /\ Types /\ [Next]_vars => Types'
  BY TypesNext
<1>3. Types => TablesSound
  <2> SUFFICES ASSUME Types, NEW ht \in {htab_blessed, htab_unblessed}
               PROVE  /\ Counted(ht) /\ Finds(ht)
                      /\ \A sol \in Solutions(ht) : sol.slvndx # INFEASIBLE => sol.limit = 0
    BY DEF TablesSound
  <2>1. IsTable(ht, Stored)
    BY DEF Types, Tables
  <2>2. Counted(ht) /\ Finds(ht)
    BY <2>1, TableFinds DEF IsTable
  <2>3. ASSUME NEW sol \in Solutions(ht) PROVE sol \in Stored
    <3>1. PICK g \in Live(ht) : sol = ht.slots[g].sol
      BY <2>3 DEF Solutions
    <3>2. g \in 1 .. hashsiz(ht) /\ sol # NULL /\ ht.slots[g] \in SlotsOf(Stored)
      BY <2>1, <3>1, TableIs DEF IsTable
    <3> QED  BY <3>1, <3>2 DEF SlotsOf
  <2> QED  BY <2>2, <2>3, StoredIs
<1> QED  BY <1>1, <1>2, <1>3, PlannerInvariance, PTL DEF Spec

--------------------------------------------------------------------------------
(* What the steps do *)

Blessed == Solutions(htab_blessed)
Known   == Blessed \cup Solutions(htab_unblessed)

(* The innermost call is at this point. *)
Working(at) ==
  /\ Row /\ stack # <<>> /\ Len(stack) \in Nat \ {0} /\ Top = stack[Len(stack)] /\ Top.at = at
  /\ IsFrame(Top) /\ TypedFrame(Top) /\ Top.p \in Problems

(* Its frame becomes f, for the same call; or it returns. *)
Becoming(f) ==
  /\ Replaced(stack, stack', f) /\ f.p = Top.p /\ f.flags = Top.flags
  /\ pln' = pln
Returning(plan) == Returned(stack, stack') /\ pln' = plan

(* Of a frame: the search, and its best plan. *)
SameSearch(f, g) ==
  g.owisdom = f.owisdom /\ g.sol = f.sol /\ g.x = f.x /\ g.last_x = f.last_x /\ g.i = f.i
SameBest(f, g) == g.best = f.best /\ g.slvndx = f.slvndx

LEMMA WorkingAt ==
  ASSUME PlannerInv, Types, NEW at, At(at)
  PROVE  Working(at)
BY TopTyped, RowTop DEF PlannerInv, At, Working

(* What is looked up. *)
LEMMA HlookupIs ==
  ASSUME Tables, NEW p \in Problems, NEW flags, NEW sol, sol = hlookup(p, flags)
  PROVE  \/ sol = NULL /\ \A a \in Known : a.s = p => ~Subsumes(a, flags)
         \/ /\ sol \in Known /\ sol \in Stored /\ sol # NULL /\ sol.s = p /\ Subsumes(sol, flags)
            /\ sol \in Blessed \/ \A a \in Blessed : a.s = p => ~Subsumes(a, flags)
<1>1. NULL \notin Stored
  BY StoredIs DEF Storable
<1>2. PICK b : b = htab_lookup(htab_blessed, p, flags)
  OBVIOUS
<1>3. PICK c : c = htab_lookup(htab_unblessed, p, flags)
  OBVIOUS
<1>4. \/ b = NULL /\ \A a \in Blessed : a.s = p => ~Subsumes(a, flags)
      \/ b \in Stored /\ b \in Blessed /\ b.s = p /\ Subsumes(b, flags)
  BY <1>2, StoredIs, LookupIs DEF Tables, Blessed, Problems
<1>5. \/ c = NULL /\ \A a \in Solutions(htab_unblessed) : a.s = p => ~Subsumes(a, flags)
      \/ c \in Stored /\ c \in Solutions(htab_unblessed) /\ c.s = p /\ Subsumes(c, flags)
  BY <1>3, StoredIs, LookupIs DEF Tables, Problems
<1>6. sol = IF b # NULL THEN b ELSE c
  BY <1>2, <1>3 DEF hlookup
<1> QED  BY <1>1, <1>4, <1>5, <1>6 DEF Known

(* A problem is looked up: wisdom is bogus, or lacks what it should have; it  *)
(* says no; there is none, and a search begins; or a solution is followed.    *)
LEMMA LookupDoes ==
  ASSUME PlannerInv, Types, Lookup
  PROVE  /\ Working("lookup") /\ Top.owisdom = NULL /\ UNCHANGED <<tables, api>>
         /\ wisdom_state = "BOGUS" \/ timed_out' = FALSE
         /\ \/ /\ wisdom_state \in {"BOGUS", "ONLY"} /\ wisdom_state' = "BOGUS" /\ Returning(NULL)
               /\ wisdom_state # "BOGUS" => \A b \in Known : b.s = Top.p => ~Subsumes(b, Top.flags)
            \/ /\ wisdom_state \in {"NORMAL", "ONLY"} /\ wisdom_state' = wisdom_state
               /\ Returning(NULL)
               /\ \E a \in Known : a.s = Top.p /\ a.slvndx = INFEASIBLE /\ Subsumes(a, Top.flags)
            \/ /\ wisdom_state \notin {"BOGUS", "ONLY"} /\ wisdom_state' = wisdom_state
               /\ wisdom_state = "NORMAL" => \A a \in Known : a.s = Top.p => ~Subsumes(a, Top.flags)
               /\ \E f : /\ Becoming(f) /\ f.at = "relax" /\ SameSearch(Top, f)
                         /\ SameBest(Top, f) /\ f.s = Top.s
            \/ /\ wisdom_state \notin {"BOGUS", "IGNORE_ALL"} /\ wisdom_state' = "ONLY"
               /\ \E f : /\ Becoming(f) /\ f.at = "solve" /\ f.owisdom = wisdom_state
                         /\ f.sol \in Known /\ f.sol \in Stored /\ f.sol.s = Top.p
                         /\ f.sol.slvndx # INFEASIBLE /\ Subsumes(f.sol, Top.flags)
                         /\ \/ f.sol \in Blessed
                            \/ \A a \in Blessed : a.s = Top.p => ~Subsumes(a, Top.flags)
                         /\ f.s = f.sol.slvndx /\ f.parts = <<>> /\ f.got = NULL
                         /\ SameBest(Top, f)
<1>1. Working("lookup")
  BY WorkingAt DEF Lookup
<1>2. UNCHANGED <<tables, api>> /\ Top.owisdom = NULL /\ wisdom_state \in Wisdom
  BY <1>1 DEF Lookup, Working, IsFrame, Row
<1>3. wisdom_state = "BOGUS" \/ timed_out' = FALSE
  BY DEF Lookup
<1>4. PICK sol : sol = hlookup(Top.p, Top.flags)
  OBVIOUS
<1>5. \/ sol = NULL /\ \A a \in Known : a.s = Top.p => ~Subsumes(a, Top.flags)
      \/ /\ sol \in Known /\ sol \in Stored /\ sol # NULL /\ sol.s = Top.p /\ Subsumes(sol, Top.flags)
         /\ sol \in Blessed \/ \A a \in Blessed : a.s = Top.p => ~Subsumes(a, Top.flags)
  BY <1>1, <1>4, HlookupIs DEF Working, Types
<1>6. ASSUME Return(NULL) PROVE Returning(NULL)
  BY <1>1, <1>6, Returns DEF Return, Returning, Working
<1>7. ASSUME Become([Top EXCEPT !.at = "relax"])
      PROVE  \E f : /\ Replaced(stack, stack', f) /\ f.p = Top.p /\ f.flags = Top.flags
                    /\ f.at = "relax" /\ SameSearch(Top, f) /\ SameBest(Top, f) /\ f.s = Top.s
  <2>1. PICK f : f = [Top EXCEPT !.at = "relax"]
    OBVIOUS
  <2>2. /\ f.at = "relax" /\ f.p = Top.p /\ f.flags = Top.flags /\ f.s = Top.s
        /\ SameSearch(Top, f) /\ SameBest(Top, f)
    BY <1>1, <2>1 DEF IsFrame, Fields, SameSearch, SameBest, Working
  <2>3. Replaced(stack, stack', f)
    BY <1>1, <1>7, <2>1, Becomes DEF Become, Working
  <2> QED  BY <2>2, <2>3
<1>8. ASSUME Become(Invoke([Top EXCEPT !.sol = sol, !.s = sol.slvndx, !.owisdom = wisdom_state]))
      PROVE  \E f : /\ Replaced(stack, stack', f) /\ f.p = Top.p /\ f.flags = Top.flags
                    /\ f.at = "solve" /\ f.owisdom = wisdom_state /\ f.sol = sol
                    /\ f.s = sol.slvndx /\ f.parts = <<>> /\ f.got = NULL /\ SameBest(Top, f)
  <2>1. PICK f : f = Invoke([Top EXCEPT !.sol = sol, !.s = sol.slvndx, !.owisdom = wisdom_state])
    OBVIOUS
  <2>2. /\ f.p = Top.p /\ f.flags = Top.flags
        /\ f.at = "solve" /\ f.owisdom = wisdom_state /\ f.sol = sol
        /\ f.s = sol.slvndx /\ f.parts = <<>> /\ f.got = NULL /\ SameBest(Top, f)
    BY <1>1, <2>1 DEF IsFrame, Fields, SameBest, Working, Invoke
  <2>3. Replaced(stack, stack', f)
    BY <1>1, <1>8, <2>1, Becomes DEF Become, Working
  <2> QED  BY <2>2, <2>3
<1>9. CASE wisdom_state = "BOGUS"
  <2>1. wisdom_state' = "BOGUS" /\ Return(NULL)
    BY <1>9 DEF Lookup, wisdom_is_bogus
  <2> QED  BY <1>1, <1>2, <1>6, <1>9, <2>1
<1>10. CASE wisdom_state # "BOGUS"
  <2>1. \/ wisdom_state = "ONLY" /\ wisdom_state' = "BOGUS" /\ Return(NULL) /\ sol = NULL
        \/ /\ sol # NULL /\ sol.slvndx = INFEASIBLE /\ Return(NULL) /\ wisdom_state' = wisdom_state
           /\ wisdom_state \in {"NORMAL", "ONLY"}
        \/ /\ wisdom_state \notin {"BOGUS", "ONLY"} /\ wisdom_state' = wisdom_state
           /\ wisdom_state = "NORMAL" => sol = NULL
           /\ pln' = pln /\ Become([Top EXCEPT !.at = "relax"])
        \/ /\ wisdom_state \notin {"BOGUS", "IGNORE_ALL"} /\ wisdom_state' = "ONLY"
           /\ sol # NULL /\ sol.slvndx # INFEASIBLE /\ pln' = pln
           /\ Become(Invoke([Top EXCEPT !.sol = sol, !.s = sol.slvndx, !.owisdom = wisdom_state]))
    BY <1>2, <1>4, <1>10 DEF Lookup, wisdom_is_bogus, Wisdom
  <2>2. CASE wisdom_state = "ONLY" /\ wisdom_state' = "BOGUS" /\ Return(NULL) /\ sol = NULL
    BY <1>1, <1>2, <1>3, <1>5, <1>6, <2>2
  <2>3. CASE /\ sol # NULL /\ sol.slvndx = INFEASIBLE /\ Return(NULL)
             /\ wisdom_state' = wisdom_state /\ wisdom_state \in {"NORMAL", "ONLY"}
    BY <1>1, <1>2, <1>3, <1>5, <1>6, <2>3
  <2>4. CASE /\ wisdom_state \notin {"BOGUS", "ONLY"} /\ wisdom_state' = wisdom_state
             /\ wisdom_state = "NORMAL" => sol = NULL
             /\ pln' = pln /\ Become([Top EXCEPT !.at = "relax"])
    <3>1. PICK f : /\ Replaced(stack, stack', f) /\ f.p = Top.p /\ f.flags = Top.flags
                   /\ f.at = "relax" /\ SameSearch(Top, f) /\ SameBest(Top, f) /\ f.s = Top.s
      BY <1>7, <2>4
    <3>2. Becoming(f)
      BY <2>4, <3>1 DEF Becoming
    <3> QED  BY <1>1, <1>2, <1>3, <1>5, <2>4, <3>1, <3>2
  <2>5. CASE /\ wisdom_state \notin {"BOGUS", "IGNORE_ALL"} /\ wisdom_state' = "ONLY"
             /\ sol # NULL /\ sol.slvndx # INFEASIBLE /\ pln' = pln
             /\ Become(Invoke([Top EXCEPT !.sol = sol, !.s = sol.slvndx, !.owisdom = wisdom_state]))
    <3>1. PICK f : /\ Replaced(stack, stack', f) /\ f.p = Top.p /\ f.flags = Top.flags
                   /\ f.at = "solve" /\ f.owisdom = wisdom_state /\ f.sol = sol
                   /\ f.s = sol.slvndx /\ f.parts = <<>> /\ f.got = NULL /\ SameBest(Top, f)
      BY <1>8, <2>5
    <3>2. Becoming(f)
      BY <2>5, <3>1 DEF Becoming
    <3> QED  BY <1>1, <1>2, <1>3, <1>5, <2>5, <3>1, <3>2
  <2> QED  BY <2>1, <2>2, <2>3, <2>4, <2>5
<1> QED  BY <1>9, <1>10

(* A solver has no plan or makes it, or begins with the next part. *)
LEMMA SolveDoes ==
  ASSUME PlannerInv, Types, Solve
  PROVE  /\ Working("solve") /\ UNCHANGED <<tables, clock, wisdom_state, pln, api>>
         /\ \/ /\ Solver.forbidden \cap Top.sol.l # {}
               /\ \E f : /\ Becoming(f) /\ f.at = "got" /\ f.got = Top.got /\ f.s = Top.s
                         /\ SameSearch(Top, f) /\ SameBest(Top, f)
            \/ /\ Solver.forbidden \cap Top.sol.l = {} /\ Len(Top.parts) = Len(Solver.parts)
               /\ \E f : /\ Becoming(f) /\ f.at = "got" /\ f.got = MakePlan /\ f.s = Top.s
                         /\ SameSearch(Top, f) /\ SameBest(Top, f)
            \/ /\ Solver.forbidden \cap Top.sol.l = {} /\ Len(Top.parts) # Len(Solver.parts)
               /\ \E f, g :
                    /\ Called(stack, stack', f, g)
                    /\ f.p = Top.p /\ f.flags = Top.flags /\ f.at = "part" /\ f.got = Top.got
                    /\ f.s = Top.s /\ f.parts = Top.parts
                    /\ SameSearch(Top, f) /\ SameBest(Top, f)
                    /\ g = Frame(Solver.parts[Len(Top.parts) + 1], Top.sol.l, Top.sol.u, 0,
                                 Top.flags.bless)
<1>1. Working("solve") /\ UNCHANGED <<tables, clock, wisdom_state, pln, api>>
  BY WorkingAt DEF Solve
<1>2. ASSUME NEW at, NEW f, f = [Top EXCEPT !.at = at]
      PROVE  /\ f.at = at /\ f.p = Top.p /\ f.flags = Top.flags /\ f.got = Top.got
             /\ f.s = Top.s /\ f.parts = Top.parts /\ SameSearch(Top, f) /\ SameBest(Top, f)
  BY <1>1, <1>2 DEF IsFrame, Fields, SameSearch, SameBest, Working
<1>3. ASSUME NEW f, f = [Top EXCEPT !.at = "got", !.got = MakePlan]
      PROVE  /\ f.at = "got" /\ f.p = Top.p /\ f.flags = Top.flags /\ f.got = MakePlan
             /\ f.s = Top.s /\ SameSearch(Top, f) /\ SameBest(Top, f)
  BY <1>1, <1>3 DEF IsFrame, Fields, SameSearch, SameBest, Working
<1>4. CASE Solver.forbidden \cap Top.sol.l # {}
  <2>1. PICK f : f = [Top EXCEPT !.at = "got"]
    OBVIOUS
  <2>2. Replaced(stack, stack', f)
    BY <1>1, <1>4, <2>1, Becomes DEF Solve, Become, Working
  <2>3. Becoming(f) /\ f.at = "got" /\ f.got = Top.got /\ f.s = Top.s /\ SameSearch(Top, f) /\ SameBest(Top, f)
    BY <1>1, <1>2, <2>1, <2>2 DEF Becoming
  <2> QED  BY <1>1, <1>4, <2>3
<1>5. CASE Solver.forbidden \cap Top.sol.l = {} /\ Len(Top.parts) = Len(Solver.parts)
  <2>1. PICK f : f = [Top EXCEPT !.at = "got", !.got = MakePlan]
    OBVIOUS
  <2>2. Replaced(stack, stack', f)
    BY <1>1, <1>5, <2>1, Becomes DEF Solve, Become, Working
  <2>3. Becoming(f) /\ f.at = "got" /\ f.got = MakePlan /\ f.s = Top.s /\ SameSearch(Top, f) /\ SameBest(Top, f)
    BY <1>1, <1>3, <2>1, <2>2 DEF Becoming
  <2> QED  BY <1>1, <1>5, <2>3
<1>6. CASE Solver.forbidden \cap Top.sol.l = {} /\ Len(Top.parts) # Len(Solver.parts)
  <2>1. PICK f : f = [Top EXCEPT !.at = "part"]
    OBVIOUS
  <2>2. PICK g : g = Frame(Solver.parts[Len(Top.parts) + 1], Top.sol.l, Top.sol.u, 0,
                           Top.flags.bless)
    OBVIOUS
  <2>3. stack' = Append(Append(Front(stack), f), g)
    BY <1>6, <2>1, <2>2 DEF Solve
  <2>4. Called(stack, stack', f, g)
    BY <1>1, <2>3, RowTop DEF Working
  <2>5. /\ f.p = Top.p /\ f.flags = Top.flags /\ f.at = "part" /\ f.got = Top.got
        /\ f.s = Top.s /\ f.parts = Top.parts /\ SameSearch(Top, f) /\ SameBest(Top, f)
    BY <1>2, <2>1
  <2>6. \E h, k :
          /\ Called(stack, stack', h, k)
          /\ h.p = Top.p /\ h.flags = Top.flags /\ h.at = "part" /\ h.got = Top.got
          /\ h.s = Top.s /\ h.parts = Top.parts
          /\ SameSearch(Top, h) /\ SameBest(Top, h)
          /\ k = Frame(Solver.parts[Len(Top.parts) + 1], Top.sol.l, Top.sol.u, 0, Top.flags.bless)
    BY <2>2, <2>4, <2>5
  <2> QED  BY <1>1, <1>6, <2>6
<1> QED  BY <1>1, <1>4, <1>5, <1>6

(* The solver gives up without a plan for a part, or takes it. *)
LEMMA PartDoes ==
  ASSUME PlannerInv, Types, Part
  PROVE  /\ Working("part") /\ UNCHANGED <<tables, clock, wisdom_state, pln, api>>
         /\ \E f : /\ Becoming(f) /\ f.got = Top.got /\ f.s = Top.s
                   /\ SameSearch(Top, f) /\ SameBest(Top, f)
                   /\ \/ pln = NULL /\ f.at = "got"
                      \/ pln # NULL /\ f.at = "solve" /\ f.parts = Append(Top.parts, pln)
<1>1. Working("part") /\ UNCHANGED <<tables, clock, wisdom_state, pln, api>>
  BY WorkingAt DEF Part
<1>2. PICK f : f = IF pln = NULL THEN [Top EXCEPT !.at = "got"]
                   ELSE [Top EXCEPT !.at = "solve", !.parts = Append(@, pln)]
  OBVIOUS
<1>3. /\ f.p = Top.p /\ f.flags = Top.flags /\ f.got = Top.got
      /\ f.s = Top.s /\ SameSearch(Top, f) /\ SameBest(Top, f)
      /\ \/ pln = NULL /\ f.at = "got"
         \/ pln # NULL /\ f.at = "solve" /\ f.parts = Append(Top.parts, pln)
  BY <1>1, <1>2 DEF IsFrame, Fields, SameSearch, SameBest, Working
<1>4. Replaced(stack, stack', f)
  BY <1>1, <1>2, Becomes DEF Part, Become, Working
<1> QED  BY <1>1, <1>3, <1>4 DEF Becoming

(* A solution has been followed. *)
LEMMA ReplayedDoes ==
  ASSUME PlannerInv, Types, Replayed
  PROVE  /\ Working("got") /\ Top.owisdom # NULL /\ UNCHANGED <<clock, api>>
         /\ \/ /\ wisdom_state = "BOGUS" \/ Top.got = NULL
               /\ wisdom_state' = "BOGUS" /\ Returning(NULL) /\ UNCHANGED tables
            \/ /\ wisdom_state # "BOGUS" /\ Top.got # NULL
               /\ wisdom_state' = Top.owisdom /\ Returning(Top.got)
               /\ Finish(Top.got, Top.sol, Top.flags.bless, Top.owisdom)
<1>1. Working("got") /\ UNCHANGED <<clock, api>>
  BY WorkingAt DEF Replayed
<1>2. ASSUME NEW plan, Return(plan) PROVE Returning(plan)
  BY <1>1, <1>2, Returns DEF Return, Returning, Working
<1> QED  BY <1>1, <1>2 DEF Replayed, wisdom_is_bogus, Finish

(* A search of a problem is over. *)
LEMMA ConcludeDoes ==
  ASSUME PlannerInv, Types, Conclude
  PROVE  /\ Working("searched") /\ Top.owisdom = NULL /\ UNCHANGED <<clock, api>>
         /\ timed_out => Top.best = NULL
         /\ \/ /\ wisdom_state = "BOGUS" /\ wisdom_state' = "BOGUS"
               /\ Returning(NULL) /\ UNCHANGED tables
            \/ /\ wisdom_state # "BOGUS" /\ wisdom_state' = wisdom_state
               /\ timed_out /\ Top.flags.limit = 0 /\ Returning(NULL) /\ UNCHANGED tables
            \/ /\ wisdom_state # "BOGUS" /\ wisdom_state' = wisdom_state
               /\ ~(timed_out /\ Top.flags.limit = 0) /\ Returning(Top.best)
               /\ \E sol \in Stored :
                    /\ sol.s = Top.p /\ sol.l = Top.sol.l /\ sol.u = Top.sol.u
                    /\ sol.slvndx = (IF Top.best = NULL THEN INFEASIBLE ELSE Top.slvndx)
                    /\ sol.limit = (IF timed_out THEN Top.sol.limit ELSE 0)
                    /\ Finish(Top.best, sol, Top.flags.bless \/ timed_out, wisdom_state)
<1>1. Working("searched") /\ UNCHANGED <<clock, api>>
  BY WorkingAt DEF Conclude
<1>2. Top.owisdom = NULL
  BY <1>1 DEF Working, IsFrame
<1>3. timed_out => Top.best = NULL
  BY <1>1 DEF PlannerInv, Time, Working, At
<1>4. ASSUME NEW plan, Return(plan) PROVE Returning(plan)
  BY <1>1, <1>4, Returns DEF Return, Returning, Working
<1>5. PICK sol : sol = [Top.sol EXCEPT
                          !.slvndx = IF Top.best = NULL THEN INFEASIBLE ELSE Top.slvndx,
                          !.limit = IF timed_out THEN @ ELSE 0]
  OBVIOUS
<1>6. /\ Top.sol \in Stored /\ Top.sol.s = Top.p
      /\ Top.best # NULL => Top.slvndx \in DOMAIN Solvers[Top.p]
  BY <1>1 DEF TypedFrame, Working
<1>7. PICK R : R = [s : Problems, l : SUBSET Flags, u : SUBSET Flags, limit : Limits \cup {0},
                    slvndx : Nat \cup {INFEASIBLE}]
  OBVIOUS
<1>8. Top.sol \in R
  BY <1>6, <1>7 DEF Stored
<1>9. Top.best # NULL => Top.slvndx \in Nat
  BY <1>1, <1>6, SolversAre DEF Working
<1>10. sol \in R /\ sol.s = Top.p /\ sol.l = Top.sol.l /\ sol.u = Top.sol.u
       /\ sol.slvndx = (IF Top.best = NULL THEN INFEASIBLE ELSE Top.slvndx)
       /\ sol.limit = (IF timed_out THEN Top.sol.limit ELSE 0)
  BY <1>5, <1>6, <1>7, <1>8, <1>9
<1>11. sol \in Stored
  BY <1>3, <1>6, <1>7, <1>10 DEF Stored
<1>12. CASE wisdom_state = "BOGUS"
  <2>1. wisdom_state' = "BOGUS" /\ Return(NULL) /\ UNCHANGED tables
    BY <1>12 DEF Conclude, wisdom_is_bogus
  <2> QED  BY <1>1, <1>2, <1>3, <1>4, <1>12, <2>1
<1>13. CASE wisdom_state # "BOGUS" /\ timed_out /\ Top.flags.limit = 0
  <2>1. wisdom_state' = wisdom_state /\ Return(NULL) /\ UNCHANGED tables
    BY <1>13 DEF Conclude
  <2> QED  BY <1>1, <1>2, <1>3, <1>4, <1>13, <2>1
<1>14. CASE wisdom_state # "BOGUS" /\ ~(timed_out /\ Top.flags.limit = 0)
  <2>1. wisdom_state' = wisdom_state
        /\ Finish(Top.best, sol, Top.flags.bless \/ timed_out, wisdom_state)
    BY <1>5, <1>14 DEF Conclude
  <2>2. Returning(Top.best)
    BY <1>4, <2>1 DEF Finish
  <2>3. \E a \in Stored :
          /\ a.s = Top.p /\ a.l = Top.sol.l /\ a.u = Top.sol.u
          /\ a.slvndx = (IF Top.best = NULL THEN INFEASIBLE ELSE Top.slvndx)
          /\ a.limit = (IF timed_out THEN Top.sol.limit ELSE 0)
          /\ Finish(Top.best, a, Top.flags.bless \/ timed_out, wisdom_state)
    BY <1>10, <1>11, <2>1
  <2> QED  BY <1>1, <1>2, <1>3, <1>14, <2>1, <2>2, <2>3
<1> QED  BY <1>12, <1>13, <1>14

(* Impatience flags are taken away, and the search goes on without them, if   *)
(* there were any; at last only l is left.                                   *)
LEMMA SearchDoes ==
  ASSUME PlannerInv, Types, Search
  PROVE  /\ Working("relax") /\ Top.owisdom = NULL /\ Top.best = NULL
         /\ UNCHANGED <<tables, clock, wisdom_state, pln, api>>
         /\ \E f, x :
              /\ x = Top.flags.l \/ x \subseteq Top.x
              /\ Becoming(f) /\ f.owisdom = NULL /\ f.best = NULL /\ f.s = Top.s
              /\ Top.flags.l \subseteq Top.x => Top.flags.l \subseteq x
              /\ Top.i > Len(Relax) => x = Top.flags.l
              /\ \/ /\ f.at = "search0" /\ f.x = x /\ f.last_x = x /\ f.i = Top.i + 1
                    /\ f.sol.l = x /\ f.sol.u = Top.flags.u /\ f.sol.limit = Top.flags.limit
                 \/ /\ x = Top.last_x /\ Top.i > Len(Relax) /\ f.at = "searched"
                    /\ SameSearch(Top, f)
                 \/ /\ x = Top.last_x /\ ~(Top.i > Len(Relax)) /\ f.at = "relax"
                    /\ f.i = Top.i + 1
                    /\ f.sol = Top.sol /\ f.x = Top.x /\ f.last_x = Top.last_x
<1>1. Working("relax") /\ UNCHANGED <<tables, clock, wisdom_state, pln, api>>
  BY WorkingAt DEF Search
<1>2. Top.owisdom = NULL /\ Top.best = NULL
  BY <1>1 DEF Working, IsFrame
<1>3. PICK x : x = IF Top.i > Len(Relax) THEN Top.flags.l
                   ELSE IF Top.flags.l \subseteq Top.x \ Relax[Top.i] THEN Top.x \ Relax[Top.i]
                   ELSE Top.x
  OBVIOUS
<1>4. x = Top.flags.l \/ x \subseteq Top.x
  BY <1>3
<1>6. /\ Top.flags.l \subseteq Top.x => Top.flags.l \subseteq x
      /\ Top.i > Len(Relax) => x = Top.flags.l
  BY <1>3
<1>7. PICK sol : sol = [s |-> Top.p, l |-> x, u |-> Top.flags.u, limit |-> Top.flags.limit,
                        slvndx |-> INFEASIBLE]
  OBVIOUS
<1>8. \/ Become([Top EXCEPT !.at = "search0", !.x = x, !.last_x = x, !.i = @ + 1, !.sol = sol])
      \/ x = Top.last_x /\ Top.i > Len(Relax) /\ Become([Top EXCEPT !.at = "searched"])
      \/ x = Top.last_x /\ ~(Top.i > Len(Relax)) /\ Become([Top EXCEPT !.i = @ + 1])
  BY <1>3, <1>7 DEF Search
<1>9. CASE Become([Top EXCEPT !.at = "search0", !.x = x, !.last_x = x, !.i = @ + 1, !.sol = sol])
  <2>1. PICK f : f = [Top EXCEPT !.at = "search0", !.x = x, !.last_x = x, !.i = @ + 1, !.sol = sol]
    OBVIOUS
  <2>2. /\ f.p = Top.p /\ f.flags = Top.flags /\ f.owisdom = NULL /\ f.best = NULL /\ f.s = Top.s
        /\ f.at = "search0" /\ f.x = x /\ f.last_x = x /\ f.i = Top.i + 1 /\ f.sol = sol
    BY <1>1, <1>2, <2>1 DEF IsFrame, Fields, Working
  <2>3. Replaced(stack, stack', f)
    BY <1>1, <1>9, <2>1, Becomes DEF Become, Working
  <2>4. sol.l = x /\ sol.u = Top.flags.u /\ sol.limit = Top.flags.limit
    BY <1>7
  <2>5. Becoming(f)
    BY <1>1, <2>2, <2>3 DEF Becoming
  <2> QED  BY <1>1, <1>2, <1>4, <1>6, <2>2, <2>4, <2>5
<1>10. CASE x = Top.last_x /\ Top.i > Len(Relax) /\ Become([Top EXCEPT !.at = "searched"])
  <2>1. PICK f : f = [Top EXCEPT !.at = "searched"]
    OBVIOUS
  <2>2. /\ f.p = Top.p /\ f.flags = Top.flags /\ f.owisdom = NULL /\ f.best = NULL /\ f.s = Top.s
        /\ f.at = "searched" /\ SameSearch(Top, f)
    BY <1>1, <1>2, <2>1 DEF IsFrame, Fields, Working, SameSearch
  <2>3. Replaced(stack, stack', f)
    BY <1>1, <1>10, <2>1, Becomes DEF Become, Working
  <2>4. Becoming(f)
    BY <1>1, <2>2, <2>3 DEF Becoming
  <2> QED  BY <1>1, <1>2, <1>4, <1>6, <1>10, <2>2, <2>4
<1>11. CASE x = Top.last_x /\ ~(Top.i > Len(Relax)) /\ Become([Top EXCEPT !.i = @ + 1])
  <2>1. PICK f : f = [Top EXCEPT !.i = @ + 1]
    OBVIOUS
  <2>2. /\ f.p = Top.p /\ f.flags = Top.flags /\ f.owisdom = NULL /\ f.best = NULL /\ f.s = Top.s
        /\ f.at = "relax" /\ f.i = Top.i + 1
        /\ f.sol = Top.sol /\ f.x = Top.x /\ f.last_x = Top.last_x
    BY <1>1, <1>2, <2>1 DEF IsFrame, Fields, Working
  <2>3. Replaced(stack, stack', f)
    BY <1>1, <1>11, <2>1, Becomes DEF Become, Working
  <2>4. Becoming(f)
    BY <1>1, <2>2, <2>3 DEF Becoming
  <2> QED  BY <1>1, <1>2, <1>4, <1>6, <1>11, <2>2, <2>4
<1> QED  BY <1>8, <1>9, <1>10, <1>11

(* The steps of search0: a solver is tried next, or search0 is over, as time  *)
(* is up or a plan was found or every solver has been tried.                  *)
Trying == Search0 \/ TimeIsUp \/ Compare

(* From f on, the next solver is tried, or search goes on with h. *)
Onward(f, h) ==
  /\ h.p = f.p /\ h.flags = f.flags /\ SameSearch(f, h) /\ SameBest(f, h)
  /\ \/ /\ h.at = "solve" /\ h.parts = <<>> /\ h.got = NULL /\ h.s = f.s + 1
        /\ h.s <= Len(Solvers[h.p])
     \/ h.at = "searched" /\ (h.best # NULL \/ h.i > Len(Relax) + 1)
     \/ h.at = "relax" /\ h.best = NULL

LEMMA OnwardIs ==
  ASSUME NEW f, IsFrame(f), f.p \in Problems, f.s \in Nat
  PROVE  Onward(f, Searched(f)) /\ Onward(f, NextSolver(f))
         /\ (NextSolver(f).at = "solve" \/ f.s >= Len(Solvers[f.p]))
<1>1. Onward(f, Searched(f))
  <2>1. PICK h : h = Searched(f)
    OBVIOUS
  <2>2. /\ h.p = f.p /\ h.flags = f.flags /\ SameSearch(f, h) /\ SameBest(f, h)
        /\ h.at = IF f.best # NULL \/ f.i > Len(Relax) + 1 THEN "searched" ELSE "relax"
    BY <2>1 DEF Searched, IsFrame, Fields, SameSearch, SameBest
  <2> QED  BY <2>1, <2>2 DEF Onward, SameBest, SameSearch
<1>2. CASE f.s < Len(Solvers[f.p])
  <2>1. PICK h : h = Invoke([f EXCEPT !.s = @ + 1])
    OBVIOUS
  <2>2. /\ h.p = f.p /\ h.flags = f.flags /\ SameSearch(f, h) /\ SameBest(f, h)
        /\ h.at = "solve" /\ h.parts = <<>> /\ h.got = NULL /\ h.s = f.s + 1
    BY <2>1 DEF Invoke, IsFrame, Fields, SameSearch, SameBest
  <2>3. f.s + 1 <= Len(Solvers[f.p])
    BY <1>2, SolversAre
  <2> QED  BY <1>1, <1>2, <2>1, <2>2, <2>3 DEF Onward, NextSolver
<1>3. CASE ~(f.s < Len(Solvers[f.p]))
  BY <1>1, <1>3, SolversAre DEF NextSolver
<1> QED  BY <1>2, <1>3

LEMMA TryDoes ==
  ASSUME PlannerInv, Types, Trying
  PROVE  /\ Working(Top.at) /\ Top.at \in {"search0", "got"} /\ Top.owisdom = NULL
         /\ UNCHANGED <<tables, wisdom_state, pln, api>>
         /\ timed_out => timed_out'
         /\ timed_out' => timed_out \/ (api.limit # 0 /\ ~Estimate(Top.flags.u))
         /\ \E f, h :
              /\ Becoming(h) /\ Onward(f, h)
              /\ f.p = Top.p /\ SameSearch(Top, f)
              /\ \/ SameBest(Top, f)
                 \/ timed_out' /\ f.best = NULL
                 \/ Top.at = "got" /\ Top.got # NULL /\ f.best = Top.got /\ f.slvndx = Top.s
              /\ h.at = "solve" => ~timed_out'
              /\ ~timed_out' => f.s = (IF Top.at = "got" THEN Top.s ELSE 0)
              /\ ~timed_out' /\ h.best = NULL =>
                   /\ Top.best = NULL /\ (Top.at = "got" => Top.got = NULL)
                   /\ h.at = "solve" \/ f.s >= Len(Solvers[f.p])
<1>1. ASSUME NEW f, NEW h, IsFrame(f), f.p = Top.p, f.flags = Top.flags, Onward(f, h), Become(h),
             Working(Top.at), pln' = pln
      PROVE  Becoming(h)
  BY <1>1, Becomes DEF Become, Becoming, Working, Onward
<1>2. ASSUME NEW f, IsFrame(f), f.s \in Nat, f.p = Top.p, Working(Top.at)
      PROVE  /\ Onward(f, Searched(f)) /\ Searched(f).at # "solve"
             /\ Onward(f, NextSolver(f))
             /\ (NextSolver(f).at = "solve" \/ f.s >= Len(Solvers[f.p]))
  <2>1. Searched(f).at # "solve"
    BY <1>2 DEF Searched, IsFrame, Fields
  <2> QED  BY <1>2, <2>1, OnwardIs DEF Working
<1>3. CASE Search0
  <2>1. Working("search0") /\ UNCHANGED <<tables, wisdom_state, pln, api>>
    BY <1>3, WorkingAt DEF Search0
  <2>2. Top.owisdom = NULL /\ Top.best = NULL /\ Top.at = "search0" /\ Working(Top.at)
    BY <2>1 DEF Working, IsFrame
  <2>3. PICK late \in BOOLEAN :
          /\ timeout_p(late)
          /\ Become(IF late THEN Searched(Top) ELSE NextSolver([Top EXCEPT !.s = 0]))
    BY <1>3 DEF Search0
  <2>4. /\ timed_out' => timed_out \/ (api.limit # 0 /\ ~Estimate(Top.flags.u))
        /\ late <=> timed_out'
        /\ timed_out => timed_out'
    <3>1. /\ timed_out' \in BOOLEAN /\ (timed_out' = timed_out \/ ~Estimate(Top.flags.u))
          /\ timed_out' => late
      BY <2>1, <2>2, <2>3, ClockIsRead DEF Working
    <3> QED  BY <2>3, <3>1 DEF timeout_p
  <2>5. PICK top : top = Top
    OBVIOUS
  <2>6. PICK f : f = IF late THEN top ELSE [Top EXCEPT !.s = 0]
    OBVIOUS
  <2>7. /\ DOMAIN f = Fields /\ f.at = "search0" /\ f.p = Top.p /\ f.flags = Top.flags
        /\ (~late => f.s = 0) /\ f.s \in {Top.s, 0} /\ SameSearch(Top, f) /\ SameBest(Top, f)
    BY <2>1, <2>5, <2>6 DEF IsFrame, Fields, Working, SameSearch, SameBest
  <2>8. IsFrame(f) /\ f.s \in Nat
    BY <2>1, <2>2, <2>7 DEF IsFrame, TypedFrame, Working, SameSearch, SameBest
  <2>9. PICK h : h = IF late THEN Searched(f) ELSE NextSolver(f)
    OBVIOUS
  <2>10. Onward(f, h) /\ (late => h.at # "solve") /\ (late \/ h.at = "solve" \/ f.s >= Len(Solvers[f.p]))
    BY <1>2, <2>2, <2>7, <2>8, <2>9
  <2>11. Become(h)
    BY <2>3, <2>5, <2>6, <2>9
  <2>12. Becoming(h)
    BY <1>1, <2>1, <2>2, <2>7, <2>8, <2>10, <2>11
  <2> QED  BY <2>1, <2>2, <2>4, <2>7, <2>10, <2>12
<1>4. CASE TimeIsUp
  <2>1. Working("got") /\ UNCHANGED <<tables, wisdom_state, pln, api>>
    BY <1>4, WorkingAt DEF TimeIsUp
  <2>2. Top.owisdom = NULL /\ Top.at = "got" /\ Working(Top.at)
    BY <1>4, <2>1 DEF Working, TimeIsUp
  <2>3. timeout_p(TRUE)
    BY <1>4 DEF TimeIsUp
  <2>4. timed_out' /\ (timed_out' => timed_out \/ (api.limit # 0 /\ ~Estimate(Top.flags.u)))
    BY <2>3 DEF timeout_p
  <2>5. PICK f : f = [Top EXCEPT !.best = NULL]
    OBVIOUS
  <2>6. /\ DOMAIN f = Fields /\ f.at = "got" /\ f.p = Top.p /\ f.flags = Top.flags
        /\ f.s = Top.s /\ SameSearch(Top, f) /\ f.best = NULL
    BY <2>1, <2>5 DEF IsFrame, Fields, Working, SameSearch
  <2>7. IsFrame(f) /\ f.s \in Nat
    BY <2>1, <2>2, <2>6 DEF IsFrame, TypedFrame, Working, SameSearch
  <2>8. PICK h : h = Searched(f)
    OBVIOUS
  <2>9. Onward(f, h) /\ h.at # "solve"
    BY <1>2, <2>2, <2>6, <2>7, <2>8
  <2>10. Become(h)
    BY <1>4, <2>5, <2>8 DEF TimeIsUp
  <2>11. Becoming(h)
    BY <1>1, <2>1, <2>2, <2>6, <2>7, <2>9, <2>10
  <2> QED  BY <2>1, <2>2, <2>4, <2>6, <2>9, <2>11
<1>5. CASE Compare
  <2>1. Working("got") /\ UNCHANGED <<tables, wisdom_state, pln, api>>
    BY <1>5, WorkingAt DEF Compare
  <2>2. Top.owisdom = NULL /\ Top.at = "got" /\ Working(Top.at)
    BY <1>5, <2>1 DEF Working, Compare
  <2>3. ~timed_out /\ ~timed_out'
    <3>1. timed_out' = timed_out /\ (need_timeout_check /\ timed_out => Estimate(Top.flags.u))
      BY <1>5 DEF Compare
    <3> QED  BY <2>1, <2>2, <3>1, SearchesAgree DEF Time, PlannerInv, Working
  <2>4. PICK better, prune \in BOOLEAN :
          /\ better => Top.got # NULL
          /\ Top.got # NULL /\ Top.best = NULL => better
          /\ prune => Top.got # NULL
          /\ LET f == IF better THEN [Top EXCEPT !.best = Top.got, !.slvndx = Top.s] ELSE Top
             IN  Become(IF prune THEN Searched(f) ELSE NextSolver(f))
    BY <1>5 DEF Compare
  <2>5. PICK f : f = IF better THEN [Top EXCEPT !.best = Top.got, !.slvndx = Top.s] ELSE Top
    OBVIOUS
  <2>6. /\ DOMAIN f = Fields /\ f.at = "got" /\ f.p = Top.p /\ f.flags = Top.flags
        /\ f.s = Top.s /\ SameSearch(Top, f)
        /\ \/ ~better /\ SameBest(Top, f)
           \/ better /\ f.best = Top.got /\ f.slvndx = Top.s
    BY <2>1, <2>5 DEF IsFrame, Fields, Working, SameSearch, SameBest
  <2>7. IsFrame(f) /\ f.s \in Nat
    BY <2>1, <2>2, <2>6 DEF IsFrame, TypedFrame, Working, SameSearch
  <2>8. PICK h : h = IF prune THEN Searched(f) ELSE NextSolver(f)
    OBVIOUS
  <2>9. Onward(f, h) /\ (prune \/ h.at = "solve" \/ f.s >= Len(Solvers[f.p]))
    BY <1>2, <2>2, <2>6, <2>7, <2>8
  <2>10. Become(h)
    BY <2>4, <2>5, <2>8
  <2>11. Becoming(h)
    BY <1>1, <2>1, <2>2, <2>6, <2>7, <2>9, <2>10
  <2>12. h.best = f.best
    BY <2>9 DEF Onward, SameBest
  <2>13. h.best = NULL => Top.best = NULL /\ Top.got = NULL /\ (h.at = "solve" \/ f.s >= Len(Solvers[f.p]))
    BY <2>4, <2>6, <2>9, <2>12 DEF SameBest
  <2>14. \/ SameBest(Top, f)
         \/ Top.got # NULL /\ f.best = Top.got /\ f.slvndx = Top.s
    BY <2>4, <2>6
  <2> QED  BY <2>1, <2>2, <2>3, <2>6, <2>9, <2>11, <2>13, <2>14
<1> QED  BY <1>3, <1>4, <1>5 DEF Trying

--------------------------------------------------------------------------------
(* How the calls hang together *)

(* A search relaxes the impatience flags from u down to l, and looks for a    *)
(* solution under those that are left; it is over when there are no more but  *)
(* l, or with a plan. *)
SearchFrame(f) ==
  f.owisdom = NULL =>
    /\ f.i \in Nat
    /\ f.at = "lookup" => f.x = f.flags.u /\ f.last_x = NULL /\ f.i = 1
    /\ f.at # "lookup" => /\ f.flags.l \subseteq f.x /\ f.x \subseteq f.flags.u
                          /\ f.i > Len(Relax) + 1 => f.last_x = f.flags.l
    /\ f.at \notin {"lookup", "relax"} => f.last_x # NULL
    /\ f.last_x # NULL => /\ f.last_x = f.x /\ f.sol.l = f.x
                          /\ f.sol.u = f.flags.u /\ f.sol.limit = f.flags.limit
    /\ f.at = "searched" => f.best # NULL \/ f.last_x = f.flags.l

(* A replay invokes the solver of a solution that subsumes what is asked. *)
ReplayFrame(f) ==
  f.owisdom # NULL => /\ f.sol.slvndx = f.s /\ f.sol.slvndx # INFEASIBLE
                      /\ Subsumes(f.sol, f.flags)

CallFrame(f) == SearchFrame(f) /\ ReplayFrame(f) /\ (f.at \in {"solve", "part"} => f.got = NULL)

(* The part that the solver of f plans next. *)
Awaited(f) == Solvers[f.p][f.s].parts[Len(f.parts) + 1]

LEMMA AwaitedIs ==
  ASSUME NEW f, TypedFrame(f), f.at = "part"
  PROVE  /\ Len(f.parts) + 1 \in DOMAIN Solvers[f.p][f.s].parts
         /\ Awaited(f) \in Problems /\ IsPart(Awaited(f), f.p)
<1>1. InParts(f) /\ f.p \in Problems /\ f.s \in DOMAIN Solvers[f.p]
      /\ Len(f.parts) # Len(Solvers[f.p][f.s].parts)
  BY DEF TypedFrame
<1>2. PICK ps \in Seq(Problems) : ps = Solvers[f.p][f.s].parts
  BY <1>1, SolversAre
<1>3. Len(f.parts) \in Nat
  BY <1>1 DEF InParts
<1>4. Len(f.parts) <= Len(ps) /\ Len(f.parts) # Len(ps)
  BY <1>1, <1>2 DEF InParts
<1>5. Len(ps) \in Nat /\ DOMAIN ps = 1 .. Len(ps)
  OBVIOUS
<1>6. Len(f.parts) + 1 \in DOMAIN ps
  BY <1>3, <1>4, <1>5
<1>7. Awaited(f) = ps[Len(f.parts) + 1] /\ Awaited(f) \in Problems
  BY <1>2, <1>6 DEF Awaited
<1> QED  BY <1>1, <1>2, <1>6, <1>7 DEF IsPart

(* g plans a part for f with the flags of f's solution. *)
Link(f, g) ==
  /\ g.p = Awaited(f) /\ g.flags.l = f.sol.l /\ g.flags.u = f.sol.u
  /\ g.flags.limit = 0 /\ g.flags.bless = f.flags.bless

Chain ==
  /\ stack # <<>> => stack[1].flags.l \subseteq stack[1].flags.u
  /\ \A i \in Calls : CallFrame(stack[i]) /\ (i > 1 => Link(stack[i - 1], stack[i]))

(* The innermost call goes on, calls, or returns. *)
LEMMA ChainIs ==
  ASSUME Row, Chain, stack # <<>>, NEW f, f.p = Top.p, f.flags = Top.flags
  PROVE  /\ Replaced(stack, stack', f) /\ CallFrame(f) => Chain'
         /\ \A g : /\ Called(stack, stack', f, g) /\ CallFrame(f) /\ CallFrame(g) /\ Link(f, g)
                   => Chain'
<1>1. PICK n \in Nat \ {0} : n = Len(stack)
  BY RowTop
<1>2. Calls = 1 .. n /\ Top = stack[n]
  BY <1>1, RowTop DEF Calls
<1>3. /\ \A i \in 1 .. n : i = n \/ i \in 1 .. n - 1
      /\ \A i \in 1 .. n + 1 : i = n + 1 \/ i \in 1 .. n
      /\ \A i \in 1 .. n : i > 1 => i - 1 \in 1 .. n - 1 /\ i - 1 \in 1 .. n
  OBVIOUS
<1>4. ASSUME Len(stack') \in Nat, Len(stack') >= n, stack'[n] = f, CallFrame(f),
             \A i \in 1 .. n - 1 : stack'[i] = stack[i]
      PROVE  /\ \A i \in 1 .. n : CallFrame(stack'[i]) /\ (i > 1 => Link(stack'[i - 1], stack'[i]))
             /\ stack'[1].flags.l \subseteq stack'[1].flags.u
  <2>1. \A i \in 1 .. n : CallFrame(stack'[i])
    BY <1>2, <1>3, <1>4 DEF Chain
  <2>2. \A i \in 1 .. n : stack'[i].p = stack[i].p /\ stack'[i].flags = stack[i].flags
    BY <1>2, <1>3, <1>4
  <2>3. ASSUME NEW i \in 1 .. n, i > 1 PROVE Link(stack'[i - 1], stack'[i])
    <3>1. Link(stack[i - 1], stack[i]) /\ stack'[i - 1] = stack[i - 1]
      BY <1>2, <1>3, <1>4, <2>3 DEF Chain
    <3> QED  BY <2>2, <3>1 DEF Link
  <2>4. 1 \in 1 .. n
    OBVIOUS
  <2> QED  BY <2>1, <2>2, <2>3, <2>4 DEF Chain
<1>5. ASSUME Replaced(stack, stack', f), CallFrame(f) PROVE Chain'
  <2>1. Len(stack') = n /\ stack'[n] = f /\ \A i \in 1 .. n - 1 : stack'[i] = stack[i]
    BY <1>1, <1>5 DEF Replaced
  <2>2. Calls' = 1 .. n
    BY <2>1 DEF Calls
  <2> QED  BY <1>4, <1>5, <2>1, <2>2 DEF Chain
<1>6. ASSUME NEW g, Called(stack, stack', f, g), CallFrame(f), CallFrame(g), Link(f, g)
      PROVE  Chain'
  <2>1. Len(stack') = n + 1 /\ stack'[n] = f /\ stack'[n + 1] = g
        /\ \A i \in 1 .. n - 1 : stack'[i] = stack[i]
    BY <1>1, <1>6 DEF Called
  <2>2. Calls' = 1 .. n + 1
    BY <2>1 DEF Calls
  <2>3. \A i \in 1 .. n : CallFrame(stack'[i]) /\ (i > 1 => Link(stack'[i - 1], stack'[i]))
    BY <1>4, <1>6, <2>1
  <2>4. CallFrame(stack'[n + 1]) /\ Link(stack'[n + 1 - 1], stack'[n + 1])
    BY <1>6, <2>1
  <2>5. stack'[1].flags.l \subseteq stack'[1].flags.u
    BY <1>4, <1>6, <2>1
  <2> QED  BY <1>3, <2>2, <2>3, <2>4, <2>5 DEF Chain
<1> QED  BY <1>5, <1>6

LEMMA ChainReturns ==
  ASSUME Row, Chain, stack # <<>>, Returned(stack, stack')
  PROVE  Chain'
<1>1. PICK n \in Nat \ {0} : n = Len(stack)
  BY RowTop
<1>2. Calls = 1 .. n /\ Calls' = 1 .. n - 1 /\ \A i \in 1 .. n - 1 : stack'[i] = stack[i]
  BY <1>1 DEF Calls, Returned
<1>3. \A i \in 1 .. n - 1 : i \in 1 .. n /\ (i > 1 => i - 1 \in 1 .. n - 1)
  OBVIOUS
<1>4. stack' # <<>> => 1 \in 1 .. n - 1
  BY <1>1 DEF Returned
<1> QED  BY <1>2, <1>3, <1>4 DEF Chain

LEMMA ChainBegins ==
  ASSUME NEW f, stack' = <<f>>, CallFrame(f), f.flags.l \subseteq f.flags.u
  PROVE  Chain'
<1>1. Calls' = {1} /\ stack'[1] = f
  BY DEF Calls
<1> QED  BY <1>1 DEF Chain

(* Impatience that a search begins with includes what cannot be relaxed. *)
LEMMA SearchBegins ==
  ASSUME Row, Chain, stack # <<>>, wisdom_state \notin {"BOGUS", "ONLY"}
  PROVE  Top.flags.l \subseteq Top.flags.u
<1>1. PICK n \in Nat \ {0} : n = Len(stack)
  BY RowTop
<1>2. Calls = 1 .. n /\ Top = stack[n]
  BY <1>1, RowTop DEF Calls
<1>3. CASE n = 1
  BY <1>1, <1>2, <1>3 DEF Chain
<1>4. CASE n > 1
  <2>1. n - 1 \in 1 .. n /\ n \in 1 .. n /\ n - 1 < n
    BY <1>4
  <2>2. PICK f : f = stack[n - 1]
    OBVIOUS
  <2>3. f.owisdom = NULL /\ f.at = "part" /\ CallFrame(f) /\ Link(f, Top)
    BY <1>1, <1>2, <1>4, <2>1, <2>2 DEF Row, Chain
  <2> QED  BY <2>3 DEF CallFrame, SearchFrame, Link
<1> QED  BY <1>3, <1>4

LEMMA FrameIs ==
  ASSUME NEW p, NEW l, NEW u, NEW limit, NEW bless, NEW f, f = Frame(p, l, u, limit, bless)
  PROVE  /\ f.p = p /\ f.flags.l = l /\ f.flags.u = u /\ f.flags.bless = bless
         /\ f.flags.limit = (IF Estimate(u) THEN 0 ELSE limit)
         /\ f.at = "lookup" /\ f.x = u /\ f.last_x = NULL /\ f.i = 1 /\ f.owisdom = NULL
         /\ f.best = NULL /\ f.s = 0 /\ CallFrame(f)
<1>1. /\ f.p = p /\ f.flags.l = l /\ f.flags.u = u /\ f.flags.bless = bless
      /\ f.flags.limit = (IF Estimate(u) THEN 0 ELSE limit)
      /\ f.at = "lookup" /\ f.x = u /\ f.last_x = NULL /\ f.i = 1 /\ f.owisdom = NULL
      /\ f.best = NULL /\ f.s = 0
  BY DEF Frame
<1> QED  BY <1>1 DEF CallFrame, SearchFrame, ReplayFrame

(* mkplan keeps the calls together. *)
LEMMA ChainStep ==
  ASSUME PlannerInv, Types, Chain, mkplan
  PROVE  Chain'
<1>1. /\ Len(Relax) \in Nat
      /\ \A fs \in SUBSET Flags : fs # NULL
  BY PlannerAssumption
<1>2. ASSUME NEW at, Working(at) PROVE CallFrame(Top) /\ Row /\ stack # <<>>
  BY <1>2 DEF Working, Chain, Calls
<1>3. ASSUME NEW f, NEW at, Working(at), Becoming(f), CallFrame(f) PROVE Chain'
  BY <1>3, ChainIs DEF Becoming, Working
<1>4. ASSUME NEW plan, NEW at, Working(at), Returning(plan) PROVE Chain'
  BY <1>4, ChainReturns DEF Returning, Working
<1>5. CASE Lookup
  <2>1. Working("lookup") /\ Top.owisdom = NULL /\ Top.at = "lookup"
    BY <1>5, LookupDoes DEF Working
  <2>2. ASSUME NEW f, wisdom_state \notin {"BOGUS", "ONLY"}, Becoming(f), f.at = "relax",
               SameSearch(Top, f)
        PROVE  Chain'
    <3>1. CallFrame(Top) /\ Top.flags.l \subseteq Top.flags.u
      BY <1>2, <2>1, <2>2, SearchBegins
    <3>2. Top.x = Top.flags.u /\ Top.last_x = NULL /\ Top.i = 1
      BY <2>1, <3>1 DEF CallFrame, SearchFrame
    <3>3. f.x = f.flags.u /\ f.last_x = NULL /\ f.i = 1 /\ f.owisdom = NULL /\ f.flags = Top.flags
      BY <2>1, <2>2, <3>2 DEF SameSearch, Becoming
    <3>4. CallFrame(f)
      BY <1>1, <2>2, <3>1, <3>3 DEF CallFrame, SearchFrame, ReplayFrame
    <3> QED  BY <1>3, <2>1, <2>2, <3>4
  <2>3. ASSUME NEW f, Becoming(f), f.at = "solve", f.owisdom = wisdom_state,
               f.sol.slvndx # INFEASIBLE, Subsumes(f.sol, Top.flags), f.s = f.sol.slvndx,
               f.got = NULL
        PROVE  Chain'
    <3>1. f.owisdom # NULL /\ f.flags = Top.flags
      BY <2>1, <2>3, NullAssumption DEF Row, Working, Becoming
    <3>2. CallFrame(f)
      BY <2>3, <3>1 DEF CallFrame, SearchFrame, ReplayFrame
    <3> QED  BY <1>3, <2>1, <2>3, <3>2
  <2> QED  BY <1>4, <1>5, <2>1, <2>2, <2>3, LookupDoes
<1>6. CASE Solve
  <2>1. Working("solve") /\ Top.at = "solve" /\ CallFrame(Top)
    BY <1>2, <1>6, SolveDoes DEF Working
  <2>2. ASSUME NEW f, f.flags = Top.flags, f.at \in {"got", "part"}, f.s = Top.s,
               f.at = "part" => f.got = Top.got, SameSearch(Top, f), SameBest(Top, f)
        PROVE  CallFrame(f)
    BY <2>1, <2>2 DEF CallFrame, SearchFrame, ReplayFrame, SameSearch, SameBest
  <2>3. ASSUME NEW f, Becoming(f), f.at = "got", f.s = Top.s, SameSearch(Top, f), SameBest(Top, f)
        PROVE  Chain'
    BY <1>3, <2>1, <2>2, <2>3 DEF Becoming
  <2>4. ASSUME NEW f, NEW g, Called(stack, stack', f, g),
               f.p = Top.p, f.flags = Top.flags, f.at = "part", f.got = Top.got, f.s = Top.s,
               f.parts = Top.parts, SameSearch(Top, f), SameBest(Top, f),
               g = Frame(Solver.parts[Len(Top.parts) + 1], Top.sol.l, Top.sol.u, 0, Top.flags.bless)
        PROVE  Chain'
    <3>1. CallFrame(f)
      BY <2>2, <2>4
    <3>2. CallFrame(g) /\ Link(f, g)
      <4>1. PICK p : p = Solver.parts[Len(Top.parts) + 1]
        OBVIOUS
      <4>2. /\ g.p = p /\ g.flags.l = Top.sol.l /\ g.flags.u = Top.sol.u
            /\ g.flags.bless = Top.flags.bless /\ g.flags.limit = 0 /\ CallFrame(g)
        BY <2>4, <4>1, FrameIs
      <4>3. Awaited(f) = p
        BY <2>4, <4>1 DEF Awaited, Solver
      <4> QED  BY <2>4, <4>2, <4>3 DEF Link, SameSearch
    <3> QED  BY <2>1, <2>4, <3>1, <3>2, ChainIs DEF Working
  <2> QED  BY <1>6, <2>3, <2>4, SolveDoes
<1>7. CASE Part
  <2>1. Working("part") /\ Top.at = "part" /\ CallFrame(Top)
    BY <1>2, <1>7, PartDoes DEF Working
  <2>2. PICK f : /\ Becoming(f) /\ f.got = Top.got /\ f.s = Top.s
                 /\ SameSearch(Top, f) /\ SameBest(Top, f) /\ f.at \in {"got", "solve"}
    BY <1>7, PartDoes
  <2>3. CallFrame(f)
    BY <2>1, <2>2 DEF CallFrame, SearchFrame, ReplayFrame, SameSearch, SameBest, Becoming
  <2> QED  BY <1>3, <2>1, <2>2, <2>3
<1>8. CASE Replayed
  BY <1>4, <1>8, ReplayedDoes
<1>9. CASE Search
  <2>1. /\ Working("relax") /\ Top.at = "relax" /\ CallFrame(Top) /\ Top.owisdom = NULL
        /\ TypedFrame(Top)
    BY <1>2, <1>9, SearchDoes DEF Working
  <2>2. PICK f, x :
              /\ x = Top.flags.l \/ x \subseteq Top.x
              /\ Becoming(f) /\ f.owisdom = NULL /\ f.best = NULL /\ f.s = Top.s
              /\ Top.flags.l \subseteq Top.x => Top.flags.l \subseteq x
              /\ Top.i > Len(Relax) => x = Top.flags.l
              /\ \/ /\ f.at = "search0" /\ f.x = x /\ f.last_x = x /\ f.i = Top.i + 1
                    /\ f.sol.l = x /\ f.sol.u = Top.flags.u /\ f.sol.limit = Top.flags.limit
                 \/ /\ x = Top.last_x /\ Top.i > Len(Relax) /\ f.at = "searched"
                    /\ SameSearch(Top, f)
                 \/ /\ x = Top.last_x /\ ~(Top.i > Len(Relax)) /\ f.at = "relax"
                    /\ f.i = Top.i + 1
                    /\ f.sol = Top.sol /\ f.x = Top.x /\ f.last_x = Top.last_x
    BY <1>9, SearchDoes
  <2>3. /\ Top.i \in Nat /\ Top.flags.l \subseteq Top.x /\ Top.x \subseteq Top.flags.u
        /\ Top.last_x # NULL => /\ Top.last_x = Top.x /\ Top.sol.l = Top.x
                                /\ Top.sol.u = Top.flags.u /\ Top.sol.limit = Top.flags.limit
        /\ Top.flags.l \in SUBSET Flags /\ Top.x \in SUBSET Flags
    BY <2>1 DEF CallFrame, SearchFrame, TypedFrame
  <2>4. /\ x \in SUBSET Flags /\ x # NULL /\ x \subseteq Top.flags.u /\ Top.flags.l \subseteq x
        /\ f.flags = Top.flags
    <3>1. x \in SUBSET Flags /\ x \subseteq Top.flags.u /\ Top.flags.l \subseteq x
      BY <2>2, <2>3
    <3> QED  BY <1>1, <2>2, <3>1 DEF Becoming
  <2>5. CASE /\ f.at = "search0" /\ f.x = x /\ f.last_x = x /\ f.i = Top.i + 1
             /\ f.sol.l = x /\ f.sol.u = Top.flags.u /\ f.sol.limit = Top.flags.limit
    <3>1. f.i \in Nat /\ (f.i > Len(Relax) + 1 => x = Top.flags.l)
      BY <1>1, <2>2, <2>3, <2>5
    <3> QED  BY <1>3, <2>1, <2>2, <2>4, <2>5, <3>1 DEF CallFrame, SearchFrame, ReplayFrame
  <2>6. CASE /\ x = Top.last_x /\ Top.i > Len(Relax) /\ f.at = "searched" /\ SameSearch(Top, f)
    <3>1. CallFrame(f)
      BY <2>2, <2>3, <2>4, <2>6 DEF CallFrame, SearchFrame, ReplayFrame, SameSearch
    <3> QED  BY <1>3, <2>1, <2>2, <3>1
  <2>7. CASE /\ x = Top.last_x /\ ~(Top.i > Len(Relax)) /\ f.at = "relax" /\ f.i = Top.i + 1
             /\ f.sol = Top.sol /\ f.x = Top.x /\ f.last_x = Top.last_x
    <3>1. f.i \in Nat /\ ~(f.i > Len(Relax) + 1)
      BY <1>1, <2>3, <2>7
    <3>2. CallFrame(f)
      BY <2>2, <2>3, <2>4, <2>7, <3>1 DEF CallFrame, SearchFrame, ReplayFrame
    <3> QED  BY <1>3, <2>1, <2>2, <3>2
  <2> QED  BY <2>2, <2>5, <2>6, <2>7
<1>10. CASE Trying
  <2>1. Working(Top.at) /\ Top.at \in {"search0", "got"} /\ Top.owisdom = NULL /\ CallFrame(Top)
    BY <1>2, <1>10, TryDoes
  <2>2. PICK f, h : Becoming(h) /\ Onward(f, h) /\ SameSearch(Top, f)
    BY <1>10, TryDoes
  <2>3. SameSearch(Top, h) /\ h.flags = Top.flags
    BY <2>2 DEF Onward, SameSearch, Becoming
  <2>4. h.at \in {"solve", "searched", "relax"} /\ (h.at = "solve" => h.got = NULL)
        /\ (h.at = "searched" => h.best # NULL \/ h.i > Len(Relax) + 1)
    BY <2>2 DEF Onward
  <2>5. CallFrame(h)
    BY <2>1, <2>3, <2>4 DEF CallFrame, SearchFrame, ReplayFrame, SameSearch
  <2> QED  BY <1>3, <2>1, <2>2, <2>5
<1>11. CASE Conclude
  BY <1>4, <1>11, ConcludeDoes
<1> QED  BY <1>5, <1>6, <1>7, <1>8, <1>9, <1>10, <1>11 DEF mkplan, Trying

--------------------------------------------------------------------------------
(* What the API asks for, and how much it trusts *)

(* The wisdom that the API calls mkplan0 with. *)
Base == IF api.at = "only" THEN "ONLY" ELSE IF api.try = 2 THEN "IGNORE_INFEASIBLE"
        ELSE IF api.try = 4 THEN "IGNORE_ALL" ELSE "NORMAL"

(* The outermost call is for what the user asked, at a level. *)
Asked ==
  api.at # "idle" /\ stack # <<>> =>
    /\ stack[1].p = api.p /\ stack[1].flags.l = api.l
    /\ stack[1].flags.bless = (api.at = "recreate")
    /\ stack[1].flags.limit # 0 => api.limit # 0 /\ api.try # 2
    /\ api.try = 2 => Estimate(stack[1].flags.u)
    /\ api.at = "recreate" /\ api.try \in {1, 3} =>
         stack[1].flags.u = Levels[api.used] \cup api.l

(* Outside replays wisdom is trusted as the API says, and after them again;   *)
(* nothing is searched when nothing but wisdom may be used. *)
Trust ==
  /\ api.at = "idle" => stack = <<>>
  /\ api.at # "idle" =>
     /\ api.try \in 1 .. 4 /\ (api.at = "only" => api.try = 4)
     /\ (\A i \in Calls : stack[i].owisdom = NULL) => wisdom_state \in {Base, "BOGUS"}
     /\ \A j \in Calls : stack[j].owisdom # NULL /\ (\A i \in Calls : i < j => stack[i].owisdom = NULL)
          => stack[j].owisdom = Base
     /\ \A i \in Calls : stack[i].owisdom = NULL /\ stack[i].at # "lookup" => Base # "ONLY"

(* The steps of the API that begin a call of mkplan0. *)
Begins == Start \/ TryEstimator \/ TryAgain \/ NextLevel \/ Recreate

(* The API is about what it was about. *)
SameRequest ==
  /\ api'.at = api.at /\ api'.p = api.p /\ api'.l = api.l /\ api'.limit = api.limit
  /\ api'.pln = api.pln /\ api'.used = api.used

LEMMA mkplan0Does ==
  ASSUME NEW a, DOMAIN a = DOMAIN Idle, NEW level, NEW wisdom, NEW try,
         mkplan0(a, level, wisdom, try)
  PROVE  /\ wisdom_state' = wisdom /\ api'.try = try /\ api'.at = a.at /\ api'.p = a.p
         /\ api'.l = a.l /\ api'.limit = a.limit /\ api'.pln = a.pln /\ api'.used = a.used
         /\ stack' = <<Frame(api'.p, api'.l, Levels[level] \cup api'.l, api'.limit,
                             api'.at = "recreate")>>
<1>1. PICK b : b = [a EXCEPT !.try = try]
  OBVIOUS
<1>2. /\ b.try = try /\ b.at = a.at /\ b.p = a.p
      /\ b.l = a.l /\ b.limit = a.limit /\ b.pln = a.pln /\ b.used = a.used
  BY <1>1 DEF Idle
<1>3. stack' = <<Frame(a.p, a.l, Levels[level] \cup a.l, a.limit, a.at = "recreate")>>
  BY DEF mkplan0
<1>4. stack' = <<Frame(b.p, b.l, Levels[level] \cup b.l, b.limit, b.at = "recreate")>>
  BY ONLY <1>2, <1>3, Zenon
<1>5. api' = b /\ wisdom_state' = wisdom
  BY <1>1 DEF mkplan0
<1> QED  BY <1>2, <1>4, <1>5, Zenon

(* What they do. *)
LEMMA BeginsDoes ==
  ASSUME Types, Trust, Begins
  PROVE  /\ stack = <<>> /\ UNCHANGED <<clock, pln>>
         /\ \E level \in DOMAIN Levels :
              /\ stack' = <<Frame(api'.p, api'.l, Levels[level] \cup api'.l, api'.limit,
                                  api'.at = "recreate")>>
              /\ \/ /\ api.at = "idle" /\ UNCHANGED tables /\ api'.pln = NULL
                    /\ \/ api'.at = "plan" /\ api'.try = 1 /\ wisdom_state' = "NORMAL"
                       \/ api'.at = "only" /\ api'.try = 4 /\ wisdom_state' = "ONLY"
                 \/ /\ Back /\ SameRequest /\ UNCHANGED tables /\ level = 1
                    /\ wisdom_state = "NORMAL" /\ pln = NULL
                    /\ api.try = 1 /\ api'.try = 2 /\ wisdom_state' = "IGNORE_INFEASIBLE"
                 \/ /\ Back /\ SameRequest /\ ForgetEverything /\ wisdom_state = "BOGUS"
                    /\ api.try # 4 /\ api'.try = 3 /\ wisdom_state' = "NORMAL"
                    /\ api.at = "recreate" => level = api.used
                 \/ /\ Back /\ SameRequest /\ ForgetEverything /\ wisdom_state = "BOGUS"
                    /\ api.try = 3 /\ api'.try = 4 /\ wisdom_state' = "IGNORE_ALL"
                 \/ /\ Planned /\ api'.p = api.p /\ api'.l = api.l /\ api'.limit = api.limit
                    /\ UNCHANGED tables /\ api'.try = 1 /\ wisdom_state' = "NORMAL"
                    /\ api'.at \in {"plan", "recreate"}
                    /\ api'.pln = (IF pln = NULL THEN api.pln ELSE pln)
                    /\ api'.at = "recreate" => level = api'.used /\ api'.pln # NULL
<1>1. api.at # "idle" => DOMAIN api = DOMAIN Idle
  BY DEF Types, TypedApi
<1>2. Begins => UNCHANGED <<clock, pln>>
  BY DEF Begins, Start, TryEstimator, TryAgain, NextLevel, Recreate
<1>3. 1 \in DOMAIN Levels
  BY LevelsAre
<1>4. CASE Start
  <2>1. api.at = "idle" /\ UNCHANGED tables
    BY <1>4 DEF Start
  <2>2. stack = <<>>
    BY <2>1 DEF Trust
  <2>3. PICK p \in Problems, l \in Hard, limit \in Limits, pat_max \in DOMAIN Levels :
          LET a == [Idle EXCEPT !.p = p, !.l = l, !.limit = limit, !.pat_max = pat_max,
                                !.calls = api.calls + 1]
              pat == IF limit # 0 THEN 1 ELSE pat_max
          IN  \/ mkplan0([a EXCEPT !.at = "plan", !.pat = pat], pat, "NORMAL", 1)
              \/ mkplan0([a EXCEPT !.at = "only", !.pat = pat_max], pat_max, "ONLY", 4)
    BY <1>4 DEF Start
  <2>4. PICK a : a = [Idle EXCEPT !.p = p, !.l = l, !.limit = limit, !.pat_max = pat_max,
                                  !.calls = api.calls + 1]
    OBVIOUS
  <2>5. PICK pat \in DOMAIN Levels : pat = IF limit # 0 THEN 1 ELSE pat_max
    BY <1>3
  <2>6. PICK b : b = [a EXCEPT !.at = "plan", !.pat = pat]
    OBVIOUS
  <2>7. PICK c : c = [a EXCEPT !.at = "only", !.pat = pat_max]
    OBVIOUS
  <2>8. DOMAIN b = DOMAIN Idle /\ b.at = "plan" /\ b.pln = NULL
    BY <2>4, <2>6 DEF Idle
  <2>9. DOMAIN c = DOMAIN Idle /\ c.at = "only" /\ c.pln = NULL
    BY <2>4, <2>7 DEF Idle
  <2>10. mkplan0(b, pat, "NORMAL", 1) \/ mkplan0(c, pat_max, "ONLY", 4)
    BY <2>3, <2>4, <2>5, <2>6, <2>7
  <2>11. ASSUME mkplan0(b, pat, "NORMAL", 1)
         PROVE  /\ stack' = <<Frame(api'.p, api'.l, Levels[pat] \cup api'.l, api'.limit,
                                    api'.at = "recreate")>>
                /\ api'.pln = NULL /\ api'.at = "plan" /\ api'.try = 1 /\ wisdom_state' = "NORMAL"
    BY <2>8, <2>11, mkplan0Does
  <2>12. ASSUME mkplan0(c, pat_max, "ONLY", 4)
         PROVE  /\ stack' = <<Frame(api'.p, api'.l, Levels[pat_max] \cup api'.l, api'.limit,
                                    api'.at = "recreate")>>
                /\ api'.pln = NULL /\ api'.at = "only" /\ api'.try = 4 /\ wisdom_state' = "ONLY"
    BY <2>9, <2>12, mkplan0Does
  <2> QED  BY <1>2, <2>1, <2>2, <2>10, <2>11, <2>12
<1>5. ASSUME NEW level \in DOMAIN Levels, NEW wisdom, NEW try, mkplan0(api, level, wisdom, try), Back
      PROVE  /\ wisdom_state' = wisdom /\ api'.try = try /\ SameRequest /\ stack = <<>>
             /\ stack' = <<Frame(api'.p, api'.l, Levels[level] \cup api'.l, api'.limit,
                                 api'.at = "recreate")>>
  BY <1>1, <1>5, mkplan0Does DEF Back, SameRequest
<1>6. CASE TryEstimator
  <2>1. Back /\ api.try = 1 /\ mkplan0(api, 1, "IGNORE_INFEASIBLE", 2) /\ UNCHANGED tables
        /\ wisdom_state = "NORMAL" /\ pln = NULL
    BY <1>6 DEF TryEstimator
  <2> QED  BY <1>2, <1>3, <1>5, <2>1
<1>7. CASE TryAgain
  <2>1. Back /\ api.try # 4 /\ wisdom_state = "BOGUS" /\ ForgetEverything
        /\ \/ api.try = 3 /\ mkplan0(api, 1, "IGNORE_ALL", 4)
           \/ mkplan0(api, Level, "NORMAL", 3)
    BY <1>7 DEF TryAgain
  <2>2. Level \in DOMAIN Levels /\ (api.at = "recreate" => Level = api.used)
    BY <2>1 DEF Level, Types, TypedApi, Back
  <2>3. CASE api.try = 3 /\ mkplan0(api, 1, "IGNORE_ALL", 4)
    BY <1>2, <1>3, <1>5, <1>7, <2>1, <2>3 DEF Begins
  <2>4. CASE mkplan0(api, Level, "NORMAL", 3)
    BY <1>2, <1>5, <1>7, <2>1, <2>2, <2>4 DEF Begins
  <2> QED  BY <2>1, <2>3, <2>4
<1>8. ASSUME api.at # "idle"
      PROVE  /\ DOMAIN LevelDone = DOMAIN Idle /\ LevelDone.at = api.at /\ LevelDone.p = api.p
             /\ LevelDone.l = api.l /\ LevelDone.limit = api.limit /\ LevelDone.pat = api.pat
             /\ LevelDone.pln = (IF pln = NULL THEN api.pln ELSE pln)
             /\ LevelDone.used \in {api.pat, api.used}
             /\ LevelDone.pln # NULL => LevelDone.used \in DOMAIN Levels
  <2>1. PICK a : a = [api EXCEPT !.pln = pln, !.used = api.pat]
    OBVIOUS
  <2>2. /\ DOMAIN a = DOMAIN api /\ a.at = api.at /\ a.p = api.p /\ a.l = api.l
        /\ a.limit = api.limit /\ a.pat = api.pat /\ a.pln = pln /\ a.used = api.pat
    BY <1>1, <1>8, <2>1 DEF Idle
  <2> QED  BY <1>1, <1>8, <2>1, <2>2 DEF LevelDone, Types, TypedApi
<1>9. CASE NextLevel
  <2>1. /\ Planned /\ api.at = "plan" /\ api.pat < api.pat_max /\ UNCHANGED tables
        /\ mkplan0([LevelDone EXCEPT !.pat = @ + 1], api.pat + 1, "NORMAL", 1)
    BY <1>9 DEF NextLevel
  <2>2. api.pat + 1 \in DOMAIN Levels
    <3>1. /\ api.pat \in DOMAIN Levels /\ api.pat_max \in DOMAIN Levels
      BY <2>1 DEF Types, TypedApi
    <3>2. api.pat \in Nat /\ api.pat_max \in Nat /\ 1 <= api.pat /\ api.pat_max <= Len(Levels)
      BY <3>1, LevelsAre
    <3> QED  BY <2>1, <3>2, LevelsAre
  <2>3. PICK a : a = [LevelDone EXCEPT !.pat = @ + 1]
    OBVIOUS
  <2>4. /\ DOMAIN a = DOMAIN Idle /\ a.at = "plan" /\ a.p = api.p /\ a.l = api.l
        /\ a.limit = api.limit /\ a.pln = (IF pln = NULL THEN api.pln ELSE pln)
    BY <1>8, <2>1, <2>3 DEF Idle
  <2>5. /\ wisdom_state' = "NORMAL" /\ api'.try = 1 /\ api'.at = "plan" /\ api'.p = api.p
        /\ api'.l = api.l /\ api'.limit = api.limit
        /\ api'.pln = (IF pln = NULL THEN api.pln ELSE pln)
        /\ stack' = <<Frame(api'.p, api'.l, Levels[api.pat + 1] \cup api'.l, api'.limit,
                            api'.at = "recreate")>>
    <3>1. mkplan0(a, api.pat + 1, "NORMAL", 1)
      BY <2>1, <2>3
    <3> QED  BY <2>4, <3>1, mkplan0Does
  <2> QED  BY <1>2, <1>9, <2>1, <2>2, <2>5 DEF Planned, Back, Begins
<1>10. CASE Recreate
  <2>1. /\ Planned /\ LevelDone.pln # NULL /\ UNCHANGED tables
        /\ mkplan0([LevelDone EXCEPT !.at = "recreate"], LevelDone.used, "NORMAL", 1)
    BY <1>10 DEF Recreate
  <2>2. api.at # "idle" /\ stack = <<>>
    BY <2>1 DEF Planned, Back
  <2>3. PICK a : a = [LevelDone EXCEPT !.at = "recreate"]
    OBVIOUS
  <2>4. /\ DOMAIN a = DOMAIN Idle /\ a.at = "recreate" /\ a.p = api.p /\ a.l = api.l
        /\ a.pln # NULL
        /\ a.limit = api.limit /\ a.pln = (IF pln = NULL THEN api.pln ELSE pln)
        /\ a.used = LevelDone.used
    BY <1>8, <2>1, <2>2, <2>3 DEF Idle
  <2>5. PICK level : level = LevelDone.used
    OBVIOUS
  <2>6. level \in DOMAIN Levels
    BY <1>8, <2>1, <2>2, <2>5
  <2>7. /\ wisdom_state' = "NORMAL" /\ api'.try = 1 /\ api'.at = "recreate" /\ api'.p = api.p
        /\ api'.l = api.l /\ api'.limit = api.limit
        /\ api'.pln = (IF pln = NULL THEN api.pln ELSE pln) /\ api'.used = level
        /\ api'.pln # NULL
        /\ stack' = <<Frame(api'.p, api'.l, Levels[level] \cup api'.l, api'.limit,
                            api'.at = "recreate")>>
    <3>1. mkplan0(a, level, "NORMAL", 1)
      BY <2>1, <2>3, <2>5
    <3>2. DOMAIN a = DOMAIN Idle
      BY <2>4
    <3>3. /\ wisdom_state' = "NORMAL" /\ api'.try = 1 /\ api'.at = a.at /\ api'.p = a.p
          /\ api'.l = a.l /\ api'.limit = a.limit /\ api'.pln = a.pln /\ api'.used = a.used
          /\ stack' = <<Frame(api'.p, api'.l, Levels[level] \cup api'.l, api'.limit,
                              api'.at = "recreate")>>
      BY <3>1, <3>2, mkplan0Does
    <3> QED  BY <2>4, <2>5, <3>3
  <2> QED  BY <1>2, <1>10, <2>1, <2>2, <2>6, <2>7 DEF Begins
<1> QED  BY <1>4, <1>6, <1>7, <1>9, <1>10 DEF Begins

(* The frame that a call of mkplan0 begins with. *)
LEMMA FirstFrame ==
  ASSUME NEW level, stack' = <<Frame(api'.p, api'.l, Levels[level] \cup api'.l, api'.limit,
                                     api'.at = "recreate")>>
  PROVE  \E f : /\ stack' = <<f>> /\ stack' # <<>> /\ Calls' = {1} /\ stack'[1] = f /\ Top' = f
                /\ f.p = api'.p /\ f.flags.l = api'.l /\ f.flags.u = Levels[level] \cup api'.l
                /\ f.flags.bless = (api'.at = "recreate")
                /\ f.flags.limit = (IF Estimate(f.flags.u) THEN 0 ELSE api'.limit)
                /\ f.at = "lookup" /\ f.owisdom = NULL /\ f.best = NULL /\ CallFrame(f)
<1>1. PICK p, l, u, limit, bless : /\ p = api'.p /\ l = api'.l /\ u = Levels[level] \cup api'.l
                                   /\ limit = api'.limit /\ bless = (api'.at = "recreate")
  OBVIOUS
<1>2. PICK f : f = Frame(p, l, u, limit, bless)
  OBVIOUS
<1>3. stack' = <<f>>
  BY <1>1, <1>2
<1>4. stack' # <<>> /\ Calls' = {1} /\ stack'[1] = f /\ Top' = f
  BY <1>3 DEF Calls, Top, Last
<1>5. /\ f.p = p /\ f.flags.l = l /\ f.flags.u = u /\ f.flags.bless = bless
      /\ f.flags.limit = (IF Estimate(u) THEN 0 ELSE limit)
      /\ f.at = "lookup" /\ f.owisdom = NULL /\ f.best = NULL /\ CallFrame(f)
  BY <1>2, FrameIs
<1> QED  BY <1>1, <1>3, <1>4, <1>5

(* A step of mkplan goes on with the innermost call, calls, or returns. *)
LEMMA StepIs ==
  ASSUME PlannerInv, Types, mkplan
  PROVE  /\ Working(Top.at) /\ UNCHANGED api
         /\ \/ \E f : /\ Becoming(f)
                      /\ \/ /\ f.owisdom = Top.owisdom /\ wisdom_state' = wisdom_state
                            /\ Top.at = "lookup" => wisdom_state \notin {"ONLY", "BOGUS"}
                         \/ /\ Top.owisdom = NULL /\ f.owisdom = wisdom_state
                            /\ wisdom_state # "BOGUS" /\ wisdom_state' = "ONLY"
            \/ \E f, g : /\ Called(stack, stack', f, g) /\ f.p = Top.p /\ f.flags = Top.flags
                         /\ f.owisdom = Top.owisdom /\ wisdom_state' = wisdom_state
                         /\ Top.at # "lookup" /\ g.owisdom = NULL /\ g.at = "lookup"
            \/ \E plan : /\ Returning(plan)
                         /\ \/ wisdom_state' = "BOGUS"
                            \/ Top.owisdom = NULL /\ wisdom_state' = wisdom_state
                            \/ Top.owisdom # NULL /\ wisdom_state' = Top.owisdom
<1>1. ASSUME NEW at, Working(at) PROVE Working(Top.at) /\ Top.at = at
  BY <1>1 DEF Working
<1>2. CASE Lookup
  <2>1. Working("lookup") /\ Top.owisdom = NULL /\ UNCHANGED api
    BY <1>2, LookupDoes
  <2>2. \/ /\ wisdom_state' \in {"BOGUS", wisdom_state} /\ Returning(NULL)
        \/ /\ wisdom_state \notin {"BOGUS", "ONLY"} /\ wisdom_state' = wisdom_state
           /\ \E f : Becoming(f) /\ f.owisdom = Top.owisdom
        \/ /\ wisdom_state # "BOGUS" /\ wisdom_state' = "ONLY"
           /\ \E f : Becoming(f) /\ f.owisdom = wisdom_state
    BY <1>2, LookupDoes DEF SameSearch
  <2> QED  BY <1>1, <2>1, <2>2
<1>3. CASE Solve
  <2>1. Working("solve") /\ UNCHANGED <<wisdom_state, api>>
    BY <1>3, SolveDoes
  <2>2. \/ \E f : Becoming(f) /\ f.owisdom = Top.owisdom
        \/ \E f, g : /\ Called(stack, stack', f, g) /\ f.p = Top.p /\ f.flags = Top.flags
                     /\ f.owisdom = Top.owisdom
                     /\ g = Frame(Solver.parts[Len(Top.parts) + 1], Top.sol.l, Top.sol.u, 0,
                                  Top.flags.bless)
    BY <1>3, SolveDoes DEF SameSearch
  <2>3. CASE \E f : Becoming(f) /\ f.owisdom = Top.owisdom
    BY <1>1, <2>1, <2>3
  <2>4. CASE \E f, g : /\ Called(stack, stack', f, g) /\ f.p = Top.p /\ f.flags = Top.flags
                       /\ f.owisdom = Top.owisdom
                       /\ g = Frame(Solver.parts[Len(Top.parts) + 1], Top.sol.l, Top.sol.u, 0,
                                    Top.flags.bless)
    <3>1. PICK f, g : /\ Called(stack, stack', f, g) /\ f.p = Top.p /\ f.flags = Top.flags
                      /\ f.owisdom = Top.owisdom
                      /\ g = Frame(Solver.parts[Len(Top.parts) + 1], Top.sol.l, Top.sol.u, 0,
                                   Top.flags.bless)
      BY <2>4
    <3>2. g.owisdom = NULL /\ g.at = "lookup"
      BY <3>1, FrameIs
    <3> QED  BY <1>1, <2>1, <3>1, <3>2
  <2> QED  BY <2>2, <2>3, <2>4
<1>4. CASE Part
  <2>1. Working("part") /\ UNCHANGED <<wisdom_state, api>>
        /\ \E f : Becoming(f) /\ f.owisdom = Top.owisdom
    BY <1>4, PartDoes DEF SameSearch
  <2> QED  BY <1>1, <2>1
<1>5. CASE Replayed
  <2>1. /\ Working("got") /\ Top.owisdom # NULL /\ UNCHANGED api
        /\ wisdom_state' \in {"BOGUS", Top.owisdom} /\ \E plan : Returning(plan)
    BY <1>5, ReplayedDoes
  <2> QED  BY <1>1, <2>1
<1>6. CASE Search
  <2>1. Working("relax") /\ UNCHANGED <<wisdom_state, api>> /\ Top.owisdom = NULL
        /\ \E f : Becoming(f) /\ f.owisdom = NULL
    BY <1>6, SearchDoes
  <2> QED  BY <1>1, <2>1
<1>7. CASE Trying
  <2>1. /\ Working(Top.at) /\ Top.at # "lookup" /\ UNCHANGED <<wisdom_state, api>>
        /\ \E f, h : Becoming(h) /\ Onward(f, h) /\ SameSearch(Top, f)
    BY <1>7, TryDoes
  <2>2. \E h : Becoming(h) /\ h.owisdom = Top.owisdom
    BY <2>1 DEF Onward, SameSearch
  <2> QED  BY <2>1, <2>2
<1>8. CASE Conclude
  <2>1. /\ Working("searched") /\ Top.owisdom = NULL /\ UNCHANGED api
        /\ wisdom_state' = wisdom_state /\ \E plan : Returning(plan)
    BY <1>8, ConcludeDoes
  <2> QED  BY <1>1, <2>1
<1> QED  BY <1>2, <1>3, <1>4, <1>5, <1>6, <1>7, <1>8 DEF mkplan, Trying

(* The outermost call stays what it is. *)
LEMMA AskedStep ==
  ASSUME PlannerInv, Types, Asked, mkplan
  PROVE  Asked'
<1>1. PICK n \in Nat \ {0} : n = Len(stack) /\ Top = stack[n] /\ stack # <<>>
  BY StepIs DEF Working
<1>2. UNCHANGED api
  BY StepIs
<1>3. stack' = <<>> \/ (stack'[1].p = stack[1].p /\ stack'[1].flags = stack[1].flags)
  <2>1. n = 1 \/ 1 \in 1 .. n - 1
    OBVIOUS
  <2>2. ASSUME NEW f, Becoming(f) PROVE stack'[1].p = stack[1].p /\ stack'[1].flags = stack[1].flags
    BY <1>1, <2>1, <2>2 DEF Becoming, Replaced
  <2>3. ASSUME NEW f, NEW g, Called(stack, stack', f, g), f.p = Top.p, f.flags = Top.flags
        PROVE  stack'[1].p = stack[1].p /\ stack'[1].flags = stack[1].flags
    BY <1>1, <2>1, <2>3 DEF Called
  <2>4. ASSUME Returned(stack, stack') PROVE stack' = <<>> \/ stack'[1] = stack[1]
    BY <1>1, <2>1, <2>4 DEF Returned
  <2> QED  BY <2>2, <2>3, <2>4, StepIs DEF Returning
<1> QED  BY <1>1, <1>2, <1>3 DEF Asked

(* Wisdom is trusted as much as the API says outside the outermost replay. *)
LEMMA TrustStep ==
  ASSUME PlannerInv, Types, Trust, mkplan
  PROVE  Trust'
<1>1. PICK n \in Nat \ {0} : n = Len(stack) /\ Top = stack[n] /\ stack # <<>>
  BY StepIs DEF Working
<1>2. UNCHANGED api /\ api.at # "idle" /\ Base' = Base /\ Calls = 1 .. n /\ n \in 1 .. n
  BY <1>1, StepIs DEF Trust, Base, Calls
<1>3. \A i \in 1 .. n : i = n \/ i \in 1 .. n - 1
  OBVIOUS
<1>4. Row /\ NULL \notin Wisdom /\ wisdom_state \in Wisdom
  BY NullAssumption DEF PlannerInv, Row
<1>5. Trust' <=>
        /\ (\A i \in Calls' : stack'[i].owisdom = NULL) => wisdom_state' \in {Base, "BOGUS"}
        /\ \A j \in Calls' : stack'[j].owisdom # NULL /\ (\A i \in Calls' : i < j => stack'[i].owisdom = NULL)
             => stack'[j].owisdom = Base
        /\ \A i \in Calls' : stack'[i].owisdom = NULL /\ stack'[i].at # "lookup" => Base # "ONLY"
  BY <1>2 DEF Trust
<1>6. ASSUME NEW f, Becoming(f), f.owisdom = Top.owisdom, wisdom_state' = wisdom_state,
             Top.at = "lookup" => wisdom_state \notin {"ONLY", "BOGUS"}
      PROVE  Trust'
  <2>1. Calls' = 1 .. n /\ stack'[n] = f /\ \A i \in 1 .. n - 1 : stack'[i] = stack[i]
    BY <1>1, <1>6 DEF Becoming, Replaced, Calls
  <2>2. \A i \in 1 .. n : stack'[i].owisdom = stack[i].owisdom
    BY <1>1, <1>3, <1>6, <2>1
  <2>3. Top.owisdom = NULL => Base # "ONLY"
    <3>1. CASE Top.at = "lookup"
      <4>1. \A i \in 1 .. n : stack[i].owisdom = NULL
        BY <1>2, <1>4, <1>6, <3>1 DEF Row
      <4> QED  BY <1>2, <1>6, <3>1, <4>1 DEF Trust
    <3>2. CASE Top.at # "lookup"
      BY <1>1, <1>2, <3>2 DEF Trust
    <3> QED  BY <3>1, <3>2
  <2>4. \A i \in 1 .. n : stack'[i].owisdom = NULL /\ stack'[i].at # "lookup" => Base # "ONLY"
    BY <1>1, <1>2, <1>3, <1>6, <2>1, <2>3 DEF Trust
  <2> QED  BY <1>2, <1>5, <1>6, <2>1, <2>2, <2>4 DEF Trust
<1>7. ASSUME NEW f, Becoming(f), Top.owisdom = NULL, f.owisdom = wisdom_state,
             wisdom_state # "BOGUS", wisdom_state' = "ONLY"
      PROVE  Trust'
  <2>1. Calls' = 1 .. n /\ stack'[n] = f /\ \A i \in 1 .. n - 1 : stack'[i] = stack[i]
    BY <1>1, <1>7 DEF Becoming, Replaced, Calls
  <2>2. f.owisdom # NULL /\ n \in 1 .. n
    BY <1>4, <1>7
  <2>3. \A i \in 1 .. n : i < n => stack'[i] = stack[i]
    BY <1>3, <2>1
  <2>4. ASSUME NEW j \in 1 .. n, stack'[j].owisdom # NULL, \A i \in 1 .. n : i < j => stack'[i].owisdom = NULL
        PROVE  stack'[j].owisdom = Base
    <3>1. CASE j = n
      <4>1. \A i \in 1 .. n : stack[i].owisdom = NULL
        BY <1>1, <1>3, <1>7, <2>3, <2>4, <3>1
      <4> QED  BY <1>2, <1>7, <2>1, <3>1, <4>1 DEF Trust
    <3>2. CASE j # n
      <4>1. \A i \in 1 .. n : i < j => stack[i].owisdom = NULL
        BY <1>3, <2>1, <2>4, <3>2
      <4> QED  BY <1>2, <1>3, <2>1, <2>4, <3>2, <4>1 DEF Trust
    <3> QED  BY <3>1, <3>2
  <2>5. \A i \in 1 .. n : stack'[i].owisdom = NULL /\ stack'[i].at # "lookup" => Base # "ONLY"
    BY <1>2, <1>3, <2>1, <2>2 DEF Trust
  <2> QED  BY <1>5, <2>1, <2>2, <2>4, <2>5
<1>8. ASSUME NEW f, NEW g, Called(stack, stack', f, g), f.owisdom = Top.owisdom,
             wisdom_state' = wisdom_state, Top.at # "lookup", g.owisdom = NULL, g.at = "lookup"
      PROVE  Trust'
  <2>1. Calls' = 1 .. n + 1 /\ stack'[n] = f /\ stack'[n + 1] = g
        /\ \A i \in 1 .. n - 1 : stack'[i] = stack[i]
    BY <1>1, <1>8 DEF Called, Calls
  <2>2. \A i \in 1 .. n : stack'[i].owisdom = stack[i].owisdom
    BY <1>1, <1>3, <1>8, <2>1
  <2>3. \A i \in 1 .. n + 1 : i = n + 1 \/ i \in 1 .. n
    OBVIOUS
  <2>4. \A i \in 1 .. n : i \in 1 .. n + 1
    OBVIOUS
  <2>5. (\A i \in Calls' : stack'[i].owisdom = NULL) => wisdom_state' \in {Base, "BOGUS"}
    BY <1>2, <1>8, <2>1, <2>2, <2>4 DEF Trust
  <2>6. ASSUME NEW j \in 1 .. n + 1, stack'[j].owisdom # NULL, \A i \in 1 .. n + 1 : i < j => stack'[i].owisdom = NULL
        PROVE  stack'[j].owisdom = Base
    <3>1. j \in 1 .. n
      BY <1>8, <2>1, <2>3, <2>6
    <3>2. \A i \in 1 .. n : i < j => stack[i].owisdom = NULL
      BY <2>2, <2>4, <2>6
    <3> QED  BY <1>2, <2>2, <2>6, <3>1, <3>2 DEF Trust
  <2>7. ASSUME NEW i \in 1 .. n + 1, stack'[i].owisdom = NULL, stack'[i].at # "lookup"
        PROVE  Base # "ONLY"
    <3>1. i \in 1 .. n
      BY <1>8, <2>1, <2>3, <2>7
    <3>2. stack[i].owisdom = NULL /\ stack[i].at # "lookup"
      BY <1>1, <1>3, <1>8, <2>1, <2>7, <3>1
    <3> QED  BY <1>2, <3>1, <3>2 DEF Trust
  <2> QED  BY <1>5, <2>1, <2>5, <2>6, <2>7
<1>9. ASSUME Returned(stack, stack'),
             \/ wisdom_state' = "BOGUS"
             \/ Top.owisdom = NULL /\ wisdom_state' = wisdom_state
             \/ Top.owisdom # NULL /\ wisdom_state' = Top.owisdom
      PROVE  Trust'
  <2>1. Calls' = 1 .. n - 1 /\ \A i \in 1 .. n - 1 : stack'[i] = stack[i] /\ i \in 1 .. n
    BY <1>1, <1>9 DEF Returned, Calls
  <2>2. (\A i \in Calls' : stack'[i].owisdom = NULL) => wisdom_state' \in {Base, "BOGUS"}
    <3> SUFFICES ASSUME \A i \in 1 .. n - 1 : stack[i].owisdom = NULL, wisdom_state' # "BOGUS"
                 PROVE  wisdom_state' \in {Base, "BOGUS"}
      BY <2>1
    <3>1. \A i \in 1 .. n : i < n => stack[i].owisdom = NULL
      BY <1>3
    <3>2. CASE Top.owisdom = NULL
      <4>1. \A i \in 1 .. n : stack[i].owisdom = NULL
        BY <1>1, <1>3, <3>2
      <4> QED  BY <1>2, <1>9, <3>2, <4>1 DEF Trust
    <3>3. CASE Top.owisdom # NULL
      BY <1>1, <1>2, <1>9, <3>1, <3>3 DEF Trust
    <3> QED  BY <3>2, <3>3
  <2>3. ASSUME NEW j \in 1 .. n - 1, stack'[j].owisdom # NULL, \A i \in 1 .. n - 1 : i < j => stack'[i].owisdom = NULL
        PROVE  stack'[j].owisdom = Base
    <3>1. \A i \in 1 .. n : i < j => i \in 1 .. n - 1
      OBVIOUS
    <3>2. \A i \in 1 .. n : i < j => stack[i].owisdom = NULL
      BY <2>1, <2>3, <3>1
    <3> QED  BY <1>2, <2>1, <2>3, <3>2 DEF Trust
  <2>4. \A i \in 1 .. n - 1 : stack'[i].owisdom = NULL /\ stack'[i].at # "lookup" => Base # "ONLY"
    BY <1>2, <2>1 DEF Trust
  <2> QED  BY <1>5, <2>1, <2>2, <2>3, <2>4
<1> QED  BY <1>6, <1>7, <1>8, <1>9, StepIs DEF Returning

CallsInv == Chain /\ Asked /\ Trust

(* The steps that are neither mkplan's nor begin a call of it find no call. *)
Rests == End \/ Import \/ Forget \/ UNCHANGED vars

LEMMA NextIs ==
  ASSUME [Next]_vars
  PROVE  mkplan \/ Begins \/ Rests
BY DEF Next, Call, Begins, Rests

(* A call of mkplan0. *)
LEMMA CallsBegin ==
  ASSUME Types, CallsInv, Begins
  PROVE  CallsInv'
<1>1. PICK level \in DOMAIN Levels :
        /\ stack' = <<Frame(api'.p, api'.l, Levels[level] \cup api'.l, api'.limit,
                            api'.at = "recreate")>>
        /\ \/ /\ api'.at = "plan" /\ api'.try = 1 /\ wisdom_state' = "NORMAL"
           \/ /\ api'.at = "only" /\ api'.try = 4 /\ wisdom_state' = "ONLY"
           \/ /\ Back /\ SameRequest /\ level = 1
              /\ api.try = 1 /\ api'.try = 2 /\ wisdom_state' = "IGNORE_INFEASIBLE"
           \/ /\ Back /\ SameRequest
              /\ api.try # 4 /\ api'.try = 3 /\ wisdom_state' = "NORMAL"
              /\ api.at = "recreate" => level = api.used
           \/ /\ Back /\ SameRequest
              /\ api.try = 3 /\ api'.try = 4 /\ wisdom_state' = "IGNORE_ALL"
           \/ /\ Planned /\ api'.try = 1 /\ wisdom_state' = "NORMAL"
              /\ api'.at \in {"plan", "recreate"}
              /\ api'.at = "recreate" => level = api'.used
  BY BeginsDoes DEF CallsInv
<1>2. PICK f : /\ stack' = <<f>> /\ stack' # <<>> /\ Calls' = {1} /\ stack'[1] = f
               /\ f.p = api'.p /\ f.flags.l = api'.l /\ f.flags.u = Levels[level] \cup api'.l
               /\ f.flags.bless = (api'.at = "recreate")
               /\ f.flags.limit = (IF Estimate(f.flags.u) THEN 0 ELSE api'.limit)
               /\ f.at = "lookup" /\ f.owisdom = NULL /\ CallFrame(f)
  BY <1>1, FirstFrame
<1>5. Chain'
  BY <1>2, ChainBegins
<1>6. level = 1 => Estimate(f.flags.u)
  BY <1>2, PlannerAssumption DEF Estimate
<1>7. api'.try = 2 => level = 1
  BY <1>1
<1>8. /\ api.at # "idle" /\ Trust => api.try \in 1 .. 4 /\ (api.at = "only" => api.try = 4)
      /\ Back \/ Planned => api.at # "idle"
  BY DEF Trust, Back, Planned
<1>9. api'.at = "recreate" /\ api'.try \in {1, 3} => level = api'.used
  BY <1>1 DEF SameRequest
<1>10. Asked'
  BY <1>2, <1>6, <1>7, <1>9 DEF Asked
<1>11. /\ api'.at # "idle" /\ api'.try \in 1 .. 4 /\ (api'.at = "only" => api'.try = 4)
       /\ wisdom_state' = Base'
  BY <1>1, <1>8 DEF CallsInv, SameRequest, Base
<1>12. Trust'
  BY <1>2, <1>11 DEF Trust
<1> QED  BY <1>5, <1>10, <1>12 DEF CallsInv

(* What they do. *)
LEMMA RestsDoes ==
  ASSUME Types, CallsInv, Rests
  PROVE  /\ UNCHANGED <<wisdom_state, clock, stack, pln>>
         /\ \/ UNCHANGED vars
            \/ /\ api'.at = "idle" /\ stack = <<>>
               /\ \/ /\ Planned /\ htab_unblessed' = mkhashtab /\ htab_blessed' = htab_blessed
                     /\ api'.p = api.p /\ api'.l = api.l /\ api'.limit = api.limit
                     /\ api'.used = api.used /\ api'.try = api.try
                     /\ api'.result = (IF api.at = "recreate" THEN pln ELSE NULL)
                  \/ /\ api.at = "idle" /\ api'.result = NULL /\ api'.try = 0
                     /\ htab_unblessed' = htab_unblessed
                     /\ \E file \in Files : htab_blessed' = imprt(htab_blessed, file)
                  \/ api.at = "idle" /\ api'.result = NULL /\ api'.try = 0 /\ ForgetEverything
<1>1. CASE End
  <2>1. stack = <<>> /\ UNCHANGED <<wisdom_state, clock, stack, pln>> /\ api.at # "idle"
        /\ Planned /\ htab_unblessed' = mkhashtab /\ htab_blessed' = htab_blessed
    BY <1>1 DEF End, Planned, Back
  <2>2. DOMAIN api = DOMAIN Idle
    BY <2>1 DEF Types, TypedApi
  <2>3. PICK result : result = IF api.at = "recreate" THEN pln ELSE NULL
    OBVIOUS
  <2>4. api' = [api EXCEPT !.at = "idle", !.result = result]
    BY <1>1, <2>3 DEF End
  <2>5. /\ api'.at = "idle" /\ api'.p = api.p /\ api'.l = api.l /\ api'.limit = api.limit
        /\ api'.used = api.used /\ api'.try = api.try /\ api'.result = result
    BY <2>2, <2>4 DEF Idle
  <2> QED  BY <2>1, <2>3, <2>5
<1>2. CASE Import
  <2>1. /\ UNCHANGED <<wisdom_state, clock, stack, pln>> /\ api.at = "idle" /\ stack = <<>>
        /\ htab_unblessed' = htab_unblessed
        /\ \E file \in Files : htab_blessed' = imprt(htab_blessed, file)
        /\ api' = [Idle EXCEPT !.calls = api.calls]
    BY <1>2 DEF Import, CallsInv, Trust
  <2>2. api'.at = "idle" /\ api'.result = NULL /\ api'.try = 0
    BY <2>1 DEF Idle
  <2> QED  BY <2>1, <2>2
<1>3. CASE Forget
  <2>1. /\ UNCHANGED <<wisdom_state, clock, stack, pln>> /\ api.at = "idle" /\ stack = <<>>
        /\ ForgetEverything /\ api' = Idle
    BY <1>3 DEF Forget, CallsInv, Trust
  <2>2. api'.at = "idle" /\ api'.result = NULL /\ api'.try = 0
    BY <2>1 DEF Idle
  <2> QED  BY <2>1, <2>2
<1>4. CASE UNCHANGED vars
  BY <1>4 DEF vars, clock
<1> QED  BY <1>1, <1>2, <1>3, <1>4 DEF Rests

LEMMA CallsRest ==
  ASSUME Types, CallsInv, Rests
  PROVE  CallsInv'
<1>1. UNCHANGED <<wisdom_state, clock, stack, pln>>
      /\ (UNCHANGED vars \/ (api'.at = "idle" /\ stack = <<>>))
  BY RestsDoes
<1>2. Chain'
  BY <1>1 DEF CallsInv, Chain, Calls
<1>3. CASE UNCHANGED vars
  BY <1>2, <1>3 DEF CallsInv, Asked, Trust, Calls, Base, vars
<1>4. CASE api'.at = "idle" /\ stack = <<>>
  BY <1>1, <1>2, <1>4 DEF CallsInv, Asked, Trust
<1> QED  BY <1>1, <1>3, <1>4

LEMMA CallsInvNext ==
  ASSUME PlannerInv, Types, CallsInv, [Next]_vars
  PROVE  CallsInv'
<1>1. CASE mkplan
  BY <1>1, ChainStep, AskedStep, TrustStep DEF CallsInv
<1> QED  BY <1>1, NextIs, CallsBegin, CallsRest

LEMMA CallsInvInit ==
  ASSUME Init
  PROVE  CallsInv
<1>1. stack = <<>> /\ api.at = "idle"
  BY DEF Init, PlannerInit, Idle
<1> QED  BY <1>1 DEF CallsInv, Chain, Asked, Trust, Calls

--------------------------------------------------------------------------------
(* Plans *)

(* The frames after a step are the old ones, but for those that are named; a  *)
(* call that returns leaves the one that waits for it.                        *)
LEMMA FramesAre ==
  ASSUME Row, Chain, stack # <<>>
  PROVE  /\ \A f : Replaced(stack, stack', f) =>
              /\ stack' # <<>> /\ Top' = f
              /\ \A i \in Calls' : stack'[i] = f \/ \E j \in Calls : stack'[i] = stack[j]
         /\ \A f, g : Called(stack, stack', f, g) =>
              /\ stack' # <<>> /\ Top' = g
              /\ \A i \in Calls' : \/ stack'[i] = f \/ stack'[i] = g
                                   \/ \E j \in Calls : stack'[i] = stack[j]
         /\ Returned(stack, stack') =>
              /\ \A i \in Calls' : \E j \in Calls : stack'[i] = stack[j]
              /\ \/ stack' = <<>> /\ stack[1] = Top
                 \/ /\ stack' # <<>> /\ Top'.at = "part" /\ Link(Top', Top)
                    /\ \E j \in Calls : Top' = stack[j]
<1>1. PICK n \in Nat \ {0} : n = Len(stack)
  BY RowTop
<1>2. Calls = 1 .. n /\ Top = stack[n]
  BY <1>1, RowTop DEF Calls
<1>3. /\ \A i \in 1 .. n : i = n \/ i \in 1 .. n - 1
      /\ \A i \in 1 .. n + 1 : i = n + 1 \/ i = n \/ i \in 1 .. n - 1
      /\ \A i \in 1 .. n - 1 : i \in 1 .. n
  OBVIOUS
<1>4. ASSUME NEW f, Replaced(stack, stack', f)
      PROVE  /\ stack' # <<>> /\ Top' = f
             /\ \A i \in Calls' : stack'[i] = f \/ \E j \in Calls : stack'[i] = stack[j]
  <2>1. Calls' = 1 .. n /\ stack'[n] = f /\ \A i \in 1 .. n - 1 : stack'[i] = stack[i]
    BY <1>1, <1>4 DEF Replaced, Calls
  <2> QED  BY <1>2, <1>3, <1>4, <2>1, NewTop
<1>5. ASSUME NEW f, NEW g, Called(stack, stack', f, g)
      PROVE  /\ stack' # <<>> /\ Top' = g
             /\ \A i \in Calls' : \/ stack'[i] = f \/ stack'[i] = g
                                  \/ \E j \in Calls : stack'[i] = stack[j]
  <2>1. Calls' = 1 .. n + 1 /\ stack'[n] = f /\ stack'[n + 1] = g
        /\ \A i \in 1 .. n - 1 : stack'[i] = stack[i]
    BY <1>1, <1>5 DEF Called, Calls
  <2> QED  BY <1>2, <1>3, <1>5, <2>1, NewTop
<1>6. ASSUME Returned(stack, stack')
      PROVE  /\ \A i \in Calls' : \E j \in Calls : stack'[i] = stack[j]
             /\ \/ stack' = <<>> /\ stack[1] = Top
                \/ /\ stack' # <<>> /\ Top'.at = "part" /\ Link(Top', Top)
                   /\ \E j \in Calls : Top' = stack[j]
  <2>1. PICK S : stack' \in Seq(S)
    BY <1>6 DEF Returned
  <2>2. Len(stack') = n - 1 /\ Calls' = 1 .. n - 1 /\ \A i \in 1 .. n - 1 : stack'[i] = stack[i]
    BY <1>1, <1>6 DEF Returned, Calls
  <2>3. CASE n = 1
    BY <1>2, <1>3, <2>1, <2>2, <2>3
  <2>4. CASE n > 1
    <3>1. n - 1 \in 1 .. n - 1 /\ n - 1 \in 1 .. n /\ n \in 1 .. n /\ n - 1 < n
      BY <2>4
    <3>2. stack' # <<>> /\ Top' = stack[n - 1]
      <4>1. stack' # <<>>
        BY <2>1, <2>2, <2>4
      <4>2. PICK t : t = stack'
        OBVIOUS
      <4>3. Last(t) = t[Len(t)]
        BY <2>1, <4>1, <4>2, LastFrame
      <4> QED  BY <2>2, <3>1, <4>1, <4>2, <4>3 DEF Top
    <3>3. stack[n - 1].at = "part" /\ Link(stack[n - 1], stack[n])
      BY <1>1, <1>2, <2>4, <3>1 DEF Row, Chain
    <3> QED  BY <1>2, <1>3, <2>2, <3>1, <3>2, <3>3
  <2> QED  BY <2>3, <2>4
<1> QED  BY <1>4, <1>5, <1>6

Allowed(p, n, l) == Solvers[p][n].forbidden \cap l = {}

(* Every plan that a call has is one that may be given for what is asked.     *)
PlansFrame(f) ==
  /\ f.at \in {"solve", "part"} =>
       \A k \in DOMAIN f.parts : Obeys(f.parts[k], Solvers[f.p][f.s].parts[k], f.sol.l)
  /\ f.at = "got" /\ f.got # NULL => Allowed(f.p, f.s, f.sol.l) /\ Obeys(f.got, f.p, f.sol.l)
  /\ f.best # NULL => Allowed(f.p, f.slvndx, f.sol.l) /\ Obeys(f.best, f.p, f.sol.l)

PlansInv ==
  /\ \A i \in Calls : PlansFrame(stack[i])
  /\ At("part") /\ pln # NULL => Obeys(pln, Awaited(Top), Top.sol.l)
  /\ api.at # "idle" /\ stack = <<>> /\ pln # NULL => Obeys(pln, api.p, api.l)

(* A plan for flags is one for fewer. *)
LEMMA ObeysLess ==
  ASSUME NEW plan, NEW p, NEW l, NEW m, m \subseteq l, Obeys(plan, p, l)
  PROVE  Obeys(plan, p, m)
BY DEF Obeys

(* A solver makes a plan of those of the parts. *)
LEMMA ObeysMake ==
  ASSUME NEW p \in Problems, NEW s \in DOMAIN Solvers[p], NEW l, Allowed(p, s, l), NEW parts,
         DOMAIN parts = DOMAIN Solvers[p][s].parts,
         \A k \in DOMAIN parts : Obeys(parts[k], Solvers[p][s].parts[k], l),
         NEW plan, plan = {<<p, s>>} \cup UNION {parts[k] : k \in DOMAIN parts}
  PROVE  Obeys(plan, p, l)
<1>1. /\ <<p, s>> \in Decisions
  BY DEF Decisions
<1>2. <<p, s>>[1] = p /\ <<p, s>>[2] = s /\ <<p, s>> \in plan
  OBVIOUS
<1>3. p \in Planning(plan)
  BY <1>2 DEF Planning
<1>4. \A k \in DOMAIN parts : parts[k] \subseteq plan
  OBVIOUS
<1>5. \A k \in DOMAIN parts : Planning(parts[k]) \subseteq Planning(plan)
  BY <1>4 DEF Planning
<1>6. \A k \in DOMAIN parts : Solvers[p][s].parts[k] \in Planning(plan)
  BY <1>5 DEF Obeys
<1>7. ASSUME NEW decision \in plan
      PROVE  LET solver == Solvers[decision[1]][decision[2]]
             IN  /\ decision \in Decisions /\ solver.forbidden \cap l = {}
                 /\ \A k \in DOMAIN solver.parts : solver.parts[k] \in Planning(plan)
  <2>1. CASE decision = <<p, s>>
    BY <1>1, <1>2, <1>6, <2>1 DEF Allowed
  <2>2. CASE \E k \in DOMAIN parts : decision \in parts[k]
    BY <1>5, <2>2 DEF Obeys
  <2> QED  BY <2>1, <2>2
<1> QED  BY <1>3, <1>7 DEF Obeys

(* So does the one at work. *)
LEMMA MakePlanIs ==
  ASSUME Working("solve"), PlansFrame(Top), Solver.forbidden \cap Top.sol.l = {},
         Len(Top.parts) = Len(Solver.parts)
  PROVE  Obeys(MakePlan, Top.p, Top.sol.l) /\ MakePlan # NULL /\ DOMAIN Top.parts = DOMAIN Solver.parts
<1>1. Top.at = "solve" /\ Top.p \in Problems /\ Top.s \in DOMAIN Solvers[Top.p] /\ InParts(Top)
  BY DEF Working, TypedFrame
<1>2. PICK S : Top.parts \in Seq(S)
  BY <1>1 DEF InParts
<1>3. Solver.parts \in Seq(Problems)
  BY <1>1, SolversAre DEF Solver
<1>4. DOMAIN Top.parts = DOMAIN Solver.parts
  <2>1. PICK a \in Seq(S) : a = Top.parts
    BY <1>2
  <2>2. PICK b \in Seq(Problems) : b = Solver.parts
    BY <1>3
  <2>3. Len(a) = Len(b) /\ DOMAIN a = 1 .. Len(a) /\ DOMAIN b = 1 .. Len(b)
    BY <2>1, <2>2
  <2> QED  BY <2>1, <2>2, <2>3
<1>5. Allowed(Top.p, Top.s, Top.sol.l)
  BY DEF Allowed, Solver
<1>6. \A k \in DOMAIN Top.parts : Obeys(Top.parts[k], Solvers[Top.p][Top.s].parts[k], Top.sol.l)
  BY <1>1 DEF PlansFrame
<1>7. PICK parts, p, s : parts = Top.parts /\ p = Top.p /\ s = Top.s
  OBVIOUS
<1>8. MakePlan = {<<p, s>>} \cup UNION {parts[k] : k \in DOMAIN parts}
  BY <1>7 DEF MakePlan
<1>9. Obeys(MakePlan, Top.p, Top.sol.l)
  BY <1>1, <1>4, <1>5, <1>6, <1>7, <1>8, ObeysMake DEF Solver
<1>10. PICK plan : plan = {<<p, s>>} \cup UNION {parts[k] : k \in DOMAIN parts}
  OBVIOUS
<1>11. \A decision \in plan : decision \in Decisions
  BY <1>8, <1>9, <1>10 DEF Obeys
<1>12. plan \in SUBSET Decisions
  BY <1>11
<1>13. \A x \in SUBSET Decisions : x # NULL
  BY PlannerAssumption
<1> QED  BY <1>4, <1>8, <1>9, <1>10, <1>12, <1>13

LEMMA PlansReturn ==
  ASSUME PlannerInv, CallsInv, PlansInv, NEW at, Working(at), UNCHANGED api, NEW plan, Returning(plan),
         plan # NULL => Obeys(plan, Top.p, Top.flags.l)
  PROVE  PlansInv'
<1>1. /\ \A i \in Calls' : \E j \in Calls : stack'[i] = stack[j]
      /\ \/ stack' = <<>> /\ stack[1] = Top
         \/ /\ stack' # <<>> /\ Top'.at = "part" /\ Link(Top', Top)
            /\ \E j \in Calls : Top' = stack[j]
  BY FramesAre DEF Working, Returning, CallsInv
<1>2. pln' = plan
  BY DEF Returning
<1>3. \A i \in Calls' : PlansFrame(stack'[i])
  BY <1>1 DEF PlansInv
<1>4. CASE stack' = <<>> /\ stack[1] = Top
  <2>1. api.at # "idle" => Top.p = api.p /\ Top.flags.l = api.l
    BY <1>4 DEF CallsInv, Asked, Working
  <2> QED  BY <1>2, <1>3, <1>4, <2>1 DEF PlansInv, At
<1>5. CASE stack' # <<>> /\ Link(Top', Top)
  <2>1. plan # NULL => Obeys(plan, Awaited(Top'), Top'.sol.l)
    BY <1>5 DEF Link
  <2>2. Awaited(Top') = Awaited(Top)'
    BY DEF Awaited
  <2> QED  BY <1>2, <1>3, <1>5, <2>1, <2>2 DEF PlansInv
<1> QED  BY <1>1, <1>4, <1>5

LEMMA PlansBecome ==
  ASSUME PlannerInv, CallsInv, PlansInv, NEW at, Working(at), NEW f, Becoming(f), PlansFrame(f),
         f.at # "part"
  PROVE  PlansInv'
<1>1. /\ stack' # <<>> /\ Top' = f
      /\ \A i \in Calls' : stack'[i] = f \/ \E j \in Calls : stack'[i] = stack[j]
  BY FramesAre DEF Working, Becoming, CallsInv
<1> QED  BY <1>1 DEF PlansInv, At

LEMMA PlansStep ==
  ASSUME PlannerInv, Types, CallsInv, PlansInv, mkplan
  PROVE  PlansInv'
<1>1. ASSUME NEW at, Working(at)
      PROVE  PlansFrame(Top) /\ CallFrame(Top) /\ TypedFrame(Top) /\ IsFrame(Top) /\ Top.at = at
  BY <1>1 DEF Working, PlansInv, CallsInv, Chain, Calls
<1>2. UNCHANGED api
  BY StepIs
<1>3. ASSUME NEW at, Working(at), NEW f, Becoming(f), PlansFrame(f), f.at # "part" PROVE PlansInv'
  BY <1>3, PlansBecome
<1>4. ASSUME NEW at, Working(at), NEW plan, Returning(plan),
             plan # NULL => Obeys(plan, Top.p, Top.flags.l)
      PROVE  PlansInv'
  BY <1>2, <1>4, PlansReturn
<1>5. CASE Lookup
  <2>1. Working("lookup")
    BY <1>5, LookupDoes
  <2>2. Top.best = NULL
    BY <1>1, <2>1 DEF IsFrame
  <2>3. ASSUME NEW f, Becoming(f), SameBest(Top, f), f.at = "relax" PROVE PlansInv'
    <3>1. PlansFrame(f)
      BY <2>2, <2>3 DEF PlansFrame, SameBest
    <3> QED  BY <1>3, <2>1, <2>3, <3>1
  <2>4. ASSUME NEW f, Becoming(f), SameBest(Top, f), f.at = "solve", f.parts = <<>> PROVE PlansInv'
    <3>1. PlansFrame(f)
      BY <2>2, <2>4 DEF PlansFrame, SameBest
    <3> QED  BY <1>3, <2>1, <2>4, <3>1
  <2> QED  BY <1>4, <1>5, <2>1, <2>3, <2>4, LookupDoes
<1>6. CASE Solve
  <2>1. Working("solve") /\ UNCHANGED pln
    BY <1>6, SolveDoes
  <2>2. PlansFrame(Top) /\ Top.got = NULL /\ Top.at = "solve" /\ TypedFrame(Top)
    BY <1>1, <2>1 DEF CallFrame
  <2>3. ASSUME NEW f, Becoming(f), f.at = "got", f.got = Top.got, SameSearch(Top, f), SameBest(Top, f)
        PROVE  PlansInv'
    <3>1. PlansFrame(f)
      BY <2>2, <2>3 DEF PlansFrame, SameSearch, SameBest, Becoming
    <3> QED  BY <1>3, <2>1, <2>3, <3>1
  <2>4. ASSUME NEW f, Becoming(f), f.at = "got", f.got = MakePlan, f.s = Top.s,
               SameSearch(Top, f), SameBest(Top, f),
               Solver.forbidden \cap Top.sol.l = {}, Len(Top.parts) = Len(Solver.parts)
        PROVE  PlansInv'
    <3>5. Allowed(Top.p, Top.s, Top.sol.l)
      BY <2>4 DEF Allowed, Solver
    <3>9. Obeys(MakePlan, Top.p, Top.sol.l)
      BY <2>1, <2>2, <2>4, MakePlanIs
    <3>10. PlansFrame(f)
      BY <2>2, <2>4, <3>5, <3>9 DEF PlansFrame, SameSearch, SameBest, Becoming
    <3> QED  BY <1>3, <2>1, <2>4, <3>10
  <2>5. ASSUME NEW f, NEW g, Called(stack, stack', f, g), f.p = Top.p, f.at = "part",
               f.s = Top.s, f.parts = Top.parts, SameSearch(Top, f), SameBest(Top, f),
               g = Frame(Solver.parts[Len(Top.parts) + 1], Top.sol.l, Top.sol.u, 0, Top.flags.bless)
        PROVE  PlansInv'
    <3>1. PlansFrame(f)
      BY <2>2, <2>5 DEF PlansFrame, SameSearch, SameBest
    <3>2. g.at = "lookup" /\ g.best = NULL
      BY <2>5, FrameIs
    <3>3. PlansFrame(g)
      BY <3>2 DEF PlansFrame
    <3>4. /\ stack' # <<>> /\ Top' = g
          /\ \A i \in Calls' : stack'[i] = f \/ stack'[i] = g \/ \E j \in Calls : stack'[i] = stack[j]
      BY <2>1, <2>5, FramesAre DEF Working, CallsInv
    <3> QED  BY <3>1, <3>2, <3>3, <3>4 DEF PlansInv, At
  <2> QED  BY <1>6, <2>3, <2>4, <2>5, SolveDoes
<1>7. CASE Part
  <2>1. Working("part") /\ At("part")
    BY <1>7, PartDoes DEF Part
  <2>2. /\ PlansFrame(Top) /\ Top.got = NULL /\ Top.at = "part" /\ InParts(Top)
        /\ pln # NULL => Obeys(pln, Awaited(Top), Top.sol.l)
    BY <1>1, <2>1 DEF CallFrame, TypedFrame, PlansInv
  <2>3. PICK f : /\ Becoming(f) /\ f.got = Top.got /\ f.s = Top.s
                 /\ SameSearch(Top, f) /\ SameBest(Top, f)
                 /\ \/ pln = NULL /\ f.at = "got"
                    \/ pln # NULL /\ f.at = "solve" /\ f.parts = Append(Top.parts, pln)
    BY <1>7, PartDoes
  <2>4. f.p = Top.p /\ f.sol = Top.sol /\ f.best = Top.best /\ f.slvndx = Top.slvndx
    BY <2>3 DEF Becoming, SameSearch, SameBest
  <2>5. CASE pln = NULL
    BY <1>3, <2>1, <2>2, <2>3, <2>4, <2>5 DEF PlansFrame
  <2>6. CASE pln # NULL
    <3>1. PICK S : Top.parts \in Seq(S)
      BY <2>2 DEF InParts
    <3>2. PICK parts \in Seq(S \cup {pln}) : parts = Top.parts
      <4>1. Top.parts \in Seq(S \cup {pln})
        BY <3>1, SeqMonotonic
      <4> QED  BY <4>1
    <3>3. PICK n \in Nat : n = Len(parts)
      BY <3>2
    <3>4. /\ Append(parts, pln) \in Seq(S \cup {pln}) /\ Len(Append(parts, pln)) = n + 1
          /\ Append(parts, pln)[n + 1] = pln /\ \A k \in 1 .. n : Append(parts, pln)[k] = parts[k]
      BY <3>2, <3>3, AppendIs
    <3>5. DOMAIN f.parts = 1 .. n + 1 /\ DOMAIN parts = 1 .. n
          /\ f.parts[n + 1] = pln /\ \A k \in 1 .. n : f.parts[k] = parts[k]
      <4>1. f.parts = Append(parts, pln)
        BY <2>3, <2>6, <3>2
      <4> QED  BY <3>3, <3>4, <4>1
    <3>6. ASSUME NEW k \in 1 .. n + 1
          PROVE  Obeys(f.parts[k], Solvers[f.p][f.s].parts[k], f.sol.l)
      <4>1. CASE k = n + 1
        BY <2>2, <2>3, <2>4, <2>6, <3>2, <3>3, <3>5, <4>1 DEF Awaited
      <4>2. CASE k \in 1 .. n
        BY <2>2, <2>3, <2>4, <3>2, <3>5, <4>2 DEF PlansFrame
      <4> QED  BY <4>1, <4>2
    <3>7. PlansFrame(f)
      BY <2>2, <2>3, <2>4, <2>6, <3>5, <3>6 DEF PlansFrame
    <3> QED  BY <1>3, <2>1, <2>3, <2>6, <3>7
  <2> QED  BY <2>5, <2>6
<1>8. CASE Replayed
  <2>1. Working("got") /\ Top.owisdom # NULL
    BY <1>8, ReplayedDoes
  <2>2. PlansFrame(Top) /\ CallFrame(Top) /\ Top.at = "got"
    BY <1>1, <2>1
  <2>3. Top.got # NULL => Obeys(Top.got, Top.p, Top.flags.l)
    BY <2>1, <2>2, ObeysLess DEF PlansFrame, CallFrame, ReplayFrame, Subsumes
  <2> QED  BY <1>4, <1>8, <2>1, <2>3, ReplayedDoes
<1>9. CASE Search
  <2>1. Working("relax")
    BY <1>9, SearchDoes
  <2>2. PICK f : Becoming(f) /\ f.best = NULL /\ f.at \in {"search0", "searched", "relax"}
    BY <1>9, SearchDoes
  <2>3. PlansFrame(f)
    BY <2>2 DEF PlansFrame
  <2> QED  BY <1>3, <2>1, <2>2, <2>3
<1>10. CASE Trying
  <2>1. Working(Top.at) /\ PlansFrame(Top)
    BY <1>1, <1>10, TryDoes
  <2>2. PICK f, h : /\ Becoming(h) /\ Onward(f, h) /\ f.p = Top.p /\ SameSearch(Top, f)
                    /\ \/ SameBest(Top, f)
                       \/ f.best = NULL
                       \/ Top.at = "got" /\ Top.got # NULL /\ f.best = Top.got /\ f.slvndx = Top.s
    BY <1>10, TryDoes
  <2>3. /\ h.p = Top.p /\ h.sol = Top.sol /\ h.best = f.best /\ h.slvndx = f.slvndx
        /\ h.at \in {"solve", "searched", "relax"} /\ (h.at = "solve" => h.parts = <<>>)
    BY <2>2 DEF Onward, SameSearch, SameBest
  <2>4. h.best # NULL => Allowed(h.p, h.slvndx, h.sol.l) /\ Obeys(h.best, h.p, h.sol.l)
    BY <2>1, <2>2, <2>3 DEF PlansFrame, SameBest
  <2>5. PlansFrame(h)
    BY <2>3, <2>4 DEF PlansFrame
  <2> QED  BY <1>3, <2>1, <2>2, <2>3, <2>5
<1>11. CASE Conclude
  <2>1. Working("searched") /\ Top.owisdom = NULL
    BY <1>11, ConcludeDoes
  <2>2. PlansFrame(Top) /\ CallFrame(Top) /\ Top.at = "searched"
    BY <1>1, <2>1
  <2>3. Top.best # NULL => Obeys(Top.best, Top.p, Top.flags.l)
    BY <2>1, <2>2, ObeysLess DEF PlansFrame, CallFrame, SearchFrame
  <2> QED  BY <1>4, <1>11, <2>1, <2>3, ConcludeDoes
<1> QED  BY <1>5, <1>6, <1>7, <1>8, <1>9, <1>10, <1>11 DEF mkplan, Trying

LEMMA PlansInvNext ==
  ASSUME PlannerInv, Types, CallsInv, PlansInv, [Next]_vars
  PROVE  PlansInv'
<1>1. CASE Begins
  <2>1. PICK level \in DOMAIN Levels :
          stack' = <<Frame(api'.p, api'.l, Levels[level] \cup api'.l, api'.limit,
                           api'.at = "recreate")>>
    BY <1>1, BeginsDoes DEF CallsInv
  <2>2. PICK f : /\ stack' # <<>> /\ Calls' = {1} /\ stack'[1] = f /\ Top' = f
                 /\ f.best = NULL /\ f.at = "lookup"
    BY <2>1, FirstFrame
  <2>3. PlansFrame(f)
    BY <2>2 DEF PlansFrame
  <2> QED  BY <2>2, <2>3 DEF PlansInv, At
<1>2. CASE Rests
  <2>1. UNCHANGED <<stack, pln>> /\ (UNCHANGED vars \/ (api'.at = "idle" /\ stack = <<>>))
    BY <1>2, RestsDoes
  <2>2. CASE UNCHANGED vars
    BY <2>2 DEF vars, PlansInv, Calls, At, Top, Awaited
  <2>3. CASE api'.at = "idle" /\ stack = <<>>
    BY <2>1, <2>3 DEF PlansInv, Calls, At
  <2> QED  BY <2>1, <2>2, <2>3
<1> QED  BY <1>1, <1>2, NextIs, PlansStep

LEMMA PlansInvInit ==
  ASSUME Init
  PROVE  PlansInv
BY DEF Init, PlannerInit, PlansInv, Calls, At

--------------------------------------------------------------------------------
(* What has been said of problems that cannot be planned *)

LEMMA StepKeeps ==
  ASSUME PlannerInv, Types, mkplan
  PROVE  /\ wisdom_state = "BOGUS" => wisdom_state' = "BOGUS"
         /\ timed_out' => \/ timed_out /\ ~(Top.at = "lookup" /\ wisdom_state # "BOGUS")
                          \/ /\ api.limit # 0 /\ ~Estimate(Top.flags.u)
                             /\ Top.at # "lookup" /\ Top.owisdom = NULL
         /\ stack' = <<>> \/ stack'[1].at # "lookup"
<1>1. PICK n \in Nat \ {0} : n = Len(stack) /\ Top = stack[n] /\ stack # <<>> /\ Calls = 1 .. n
  BY StepIs DEF Working, Calls
<1>2. n # 1 => 1 \in 1 .. n - 1 /\ 1 \in 1 .. n /\ stack[1].at = "part"
  BY <1>1 DEF PlannerInv, Row
<1>3. ASSUME NEW f, Becoming(f), f.at # "lookup" PROVE stack'[1].at # "lookup"
  BY <1>1, <1>2, <1>3 DEF Becoming, Replaced
<1>4. ASSUME NEW f, NEW g, Called(stack, stack', f, g), f.at = "part" PROVE stack'[1].at # "lookup"
  BY <1>1, <1>2, <1>4 DEF Called
<1>5. ASSUME NEW plan, Returning(plan) PROVE stack' = <<>> \/ stack'[1].at # "lookup"
  <2>1. Len(stack') = n - 1 /\ (\E S : stack' \in Seq(S)) /\ \A i \in 1 .. n - 1 : stack'[i] = stack[i]
    BY <1>1, <1>5 DEF Returning, Returned
  <2> QED  BY <1>2, <2>1
<1>6. CASE Lookup
  <2>1. Working("lookup") /\ (wisdom_state = "BOGUS" \/ ~timed_out')
        /\ (wisdom_state = "BOGUS" => wisdom_state' = "BOGUS")
    BY <1>6, LookupDoes
  <2>2. \/ Returning(NULL) \/ \E f : Becoming(f) /\ f.at # "lookup"
    BY <1>6, LookupDoes
  <2>3. timed_out' => timed_out /\ wisdom_state = "BOGUS"
    BY <1>6, <2>1 DEF Lookup
  <2> QED  BY <1>3, <1>5, <2>1, <2>2, <2>3
<1>7. ASSUME UNCHANGED clock, Top.at # "lookup"
      PROVE  timed_out' => timed_out /\ ~(Top.at = "lookup" /\ wisdom_state # "BOGUS")
  BY <1>7 DEF clock
<1>8. CASE Solve
  <2>1. Top.at # "lookup" /\ UNCHANGED <<clock, wisdom_state>>
    BY <1>8, SolveDoes DEF Working
  <2>2. \/ \E f : Becoming(f) /\ f.at # "lookup"
        \/ \E f, g : Called(stack, stack', f, g) /\ f.at = "part"
    BY <1>8, SolveDoes
  <2> QED  BY <1>3, <1>4, <1>7, <2>1, <2>2
<1>9. CASE Part
  <2>1. Top.at # "lookup" /\ UNCHANGED <<clock, wisdom_state>> /\ \E f : Becoming(f) /\ f.at # "lookup"
    BY <1>9, PartDoes DEF Working
  <2> QED  BY <1>3, <1>7, <2>1
<1>10. CASE Replayed
  <2>1. Top.at # "lookup" /\ UNCHANGED clock /\ (wisdom_state = "BOGUS" => wisdom_state' = "BOGUS")
        /\ \E plan : Returning(plan)
    BY <1>10, ReplayedDoes DEF Working
  <2> QED  BY <1>5, <1>7, <2>1
<1>11. CASE Search
  <2>1. Top.at # "lookup" /\ UNCHANGED <<clock, wisdom_state>> /\ \E f : Becoming(f) /\ f.at # "lookup"
    BY <1>11, SearchDoes DEF Working
  <2> QED  BY <1>3, <1>7, <2>1
<1>12. CASE Trying
  <2>1. /\ Top.at # "lookup" /\ Top.owisdom = NULL /\ UNCHANGED wisdom_state
        /\ timed_out' => timed_out \/ (api.limit # 0 /\ ~Estimate(Top.flags.u))
        /\ \E f, h : Becoming(h) /\ Onward(f, h)
    BY <1>12, TryDoes DEF Working
  <2>2. \E h : Becoming(h) /\ h.at # "lookup"
    BY <2>1 DEF Onward
  <2> QED  BY <1>3, <2>1, <2>2
<1>13. CASE Conclude
  <2>1. Top.at # "lookup" /\ UNCHANGED <<clock, wisdom_state>> /\ \E plan : Returning(plan)
    BY <1>13, ConcludeDoes DEF Working
  <2> QED  BY <1>5, <1>7, <2>1
<1> QED  BY <1>6, <1>8, <1>9, <1>10, <1>11, <1>12, <1>13 DEF mkplan, Trying

(* A table is kept, or a solution is inserted into one of the tables. *)
LEMMA FinishDoes ==
  ASSUME Bertrand, Tables, NEW sol \in Stored, NEW plan, NEW bless, NEW wisdom,
         Finish(plan, sol, bless, wisdom)
  PROVE  /\ Known' \subseteq Known \cup {sol}
         /\ \/ wisdom \notin {"NORMAL", "ONLY"} /\ UNCHANGED tables
            \/ /\ wisdom \in {"NORMAL", "ONLY"}
               /\ \/ /\ bless /\ htab_unblessed' = htab_unblessed
                     /\ htab_blessed' = htab_insert(htab_blessed, sol)
                     /\ Blessed' = Kept(htab_blessed, sol) \cup {sol}
                  \/ /\ ~bless /\ htab_blessed' = htab_blessed
                     /\ htab_unblessed' = htab_insert(htab_unblessed, sol)
                     /\ Solutions(htab_unblessed)' = Kept(htab_unblessed, sol) \cup {sol}
<1>1. /\ Solutions(htab_insert(htab_blessed, sol)) = Kept(htab_blessed, sol) \cup {sol}
      /\ Solutions(htab_insert(htab_unblessed, sol)) = Kept(htab_unblessed, sol) \cup {sol}
  BY StoredIs, InsertKeeps DEF Tables
<1>2. CASE wisdom \notin {"NORMAL", "ONLY"}
  <2>1. UNCHANGED <<htab_blessed, htab_unblessed>>
    BY <1>2 DEF Finish, tables
  <2> QED  BY <1>2, <2>1 DEF Known, Blessed, tables
<1>3. CASE wisdom \in {"NORMAL", "ONLY"} /\ bless
  <2>1. htab_unblessed' = htab_unblessed /\ htab_blessed' = htab_insert(htab_blessed, sol)
    BY <1>3 DEF Finish
  <2> QED  BY <1>1, <1>3, <2>1 DEF Known, Blessed, Kept
<1>4. CASE wisdom \in {"NORMAL", "ONLY"} /\ ~bless
  <2>1. htab_blessed' = htab_blessed /\ htab_unblessed' = htab_insert(htab_unblessed, sol)
    BY <1>4 DEF Finish
  <2> QED  BY <1>1, <1>4, <2>1 DEF Known, Blessed, Kept
<1> QED  BY <1>2, <1>3, <1>4

(* Nothing is known any more. *)
LEMMA Forgotten ==
  ASSUME Bertrand, ForgetEverything
  PROVE  Known' = {} /\ Blessed' = {}
<1>1. Solutions(mkhashtab) = {}
  BY StoredIs, MkhashtabIs
<1> QED  BY <1>1 DEF ForgetEverything, Known, Blessed

(* What is in a table that a file was read into was there, or comes from the file. *)
LEMMA ImportFrom ==
  ASSUME Bertrand, NEW ht, IsTable(ht, Stored), NEW file \in Seq(Stored)
  PROVE  \A a \in Solutions(imprt(ht, file)) :
           a \in Solutions(ht) \/ \E i \in DOMAIN file : a = file[i]
<1>1. PICK Good : \A a : a \in Good <=> IsTable(a, Stored)
  BY TablesAre
<1>2. PICK From : From = Solutions(ht) \cup {file[i] : i \in DOMAIN file}
  OBVIOUS
<1>3. PICK T : T = (0 .. Len(file)) \X {a \in Good : Solutions(a) \subseteq From}
  OBVIOUS
<1>4. <<0, ht>> \in T
  BY <1>1, <1>2, <1>3
<1>5. ASSUME NEW i \in 1 .. Len(file), NEW a, <<i - 1, a>> \in T
      PROVE  <<i, Imported(a, file[i])>> \in T
  <2>1. /\ file[i] \in Stored /\ i \in DOMAIN file /\ i \in 0 .. Len(file)
        /\ IsTable(a, Stored) /\ Solutions(a) \subseteq From
    BY <1>1, <1>3, <1>5
  <2>2. /\ IsTable(htab_insert(a, file[i]), Stored)
        /\ Solutions(htab_insert(a, file[i])) = Kept(a, file[i]) \cup {file[i]}
    BY <2>1, StoredIs, InsertKeeps
  <2>3. Solutions(htab_insert(a, file[i])) \subseteq From
    BY <1>2, <2>1, <2>2 DEF Kept
  <2> QED  BY <1>1, <1>3, <2>1, <2>2, <2>3 DEF Imported
<1>6. <<Len(file), imprt(ht, file)>> \in T
  BY <1>4, <1>5, ImportInduction
<1> QED  BY <1>2, <1>3, <1>6

(* A solver cannot plan its problem under the flags. *)
Blocked(p, n, l) ==
  \/ ~Allowed(p, n, l)
  \/ \E k \in DOMAIN Solvers[p][n].parts : ~Plannable(Solvers[p][n].parts[k], l)

LEMMA PlannableLess ==
  ASSUME NEW p, NEW l, NEW m, l \subseteq m, Plannable(p, m)
  PROVE  Plannable(p, l)
BY DEF Plannable, CanMake

(* Problems can be planned that have a solver whose parts can. *)
LEMMA PlannableBy ==
  ASSUME NEW p \in Problems, NEW l
  PROVE  Plannable(p, l) <=> \E n \in DOMAIN Solvers[p] : ~Blocked(p, n, l)
<1>1. ASSUME Plannable(p, l) PROVE \E n \in DOMAIN Solvers[p] : ~Blocked(p, n, l)
  <2>1. PICK S \in SUBSET Problems : p \in S /\ CanMake(S, l)
    BY <1>1 DEF Plannable
  <2>2. PICK n \in DOMAIN Solvers[p] :
          /\ Solvers[p][n].forbidden \cap l = {}
          /\ \A k \in DOMAIN Solvers[p][n].parts : Solvers[p][n].parts[k] \in S
    BY <2>1 DEF CanMake
  <2>3. \A k \in DOMAIN Solvers[p][n].parts : Plannable(Solvers[p][n].parts[k], l)
    BY <2>1, <2>2 DEF Plannable
  <2> QED  BY <2>2, <2>3 DEF Blocked, Allowed
<1>2. ASSUME NEW n \in DOMAIN Solvers[p], ~Blocked(p, n, l) PROVE Plannable(p, l)
  <2>1. PICK All : All = {q \in Problems : Plannable(q, l)}
    OBVIOUS
  <2>2. CanMake(All, l)
    <3> SUFFICES ASSUME NEW q \in All
                 PROVE  \E m \in DOMAIN Solvers[q] :
                          /\ Solvers[q][m].forbidden \cap l = {}
                          /\ \A k \in DOMAIN Solvers[q][m].parts : Solvers[q][m].parts[k] \in All
      BY DEF CanMake
    <3>1. PICK S \in SUBSET Problems : q \in S /\ CanMake(S, l)
      BY <2>1 DEF Plannable
    <3>2. S \subseteq All
      BY <2>1, <3>1 DEF Plannable
    <3> QED  BY <3>1, <3>2 DEF CanMake
  <2>3. /\ Solvers[p][n].forbidden \cap l = {}
        /\ \A k \in DOMAIN Solvers[p][n].parts : Plannable(Solvers[p][n].parts[k], l)
    BY <1>2 DEF Blocked, Allowed
  <2>4. Solvers[p][n].parts \in Seq(Problems)
    BY SolversAre
  <2>5. \A k \in DOMAIN Solvers[p][n].parts : Solvers[p][n].parts[k] \in All
    BY <2>1, <2>3, <2>4
  <2>6. PICK S : S = All \cup {p}
    OBVIOUS
  <2>7. S \in SUBSET Problems
    BY <2>1, <2>6
  <2>8. CanMake(S, l)
    BY <2>2, <2>3, <2>5, <2>6 DEF CanMake
  <2> QED  BY <2>6, <2>7, <2>8 DEF Plannable
<1> QED  BY <1>1, <1>2

(* A plan shows that its problem can be planned. *)
LEMMA ObeysPlannable ==
  ASSUME NEW plan, NEW p, NEW l, Obeys(plan, p, l)
  PROVE  Plannable(p, l)
<1>1. PICK S : S = Planning(plan)
  OBVIOUS
<1>2. ASSUME NEW decision \in plan
      PROVE  decision[1] \in Problems /\ decision[2] \in DOMAIN Solvers[decision[1]]
  <2>1. decision \in Decisions
    BY DEF Obeys
  <2>2. PICK q \in Problems : decision \in {q} \X DOMAIN Solvers[q]
    BY <2>1 DEF Decisions
  <2> QED  BY <2>2
<1>3. S \in SUBSET Problems /\ p \in S
  BY <1>1, <1>2 DEF Planning, Obeys
<1>4. ASSUME NEW q \in S
      PROVE  \E n \in DOMAIN Solvers[q] :
               /\ Solvers[q][n].forbidden \cap l = {}
               /\ \A k \in DOMAIN Solvers[q][n].parts : Solvers[q][n].parts[k] \in S
  <2>1. PICK decision \in plan : q = decision[1]
    BY <1>1 DEF Planning
  <2>2. decision[2] \in DOMAIN Solvers[q]
    BY <1>2, <2>1
  <2> QED  BY <1>1, <2>1, <2>2 DEF Obeys
<1>5. CanMake(S, l)
  BY <1>4 DEF CanMake
<1> QED  BY <1>3, <1>5 DEF Plannable

(* A call of mkplan0 begins without bogus wisdom; afresh, without any. *)
Fresh ==
  stack # <<>> /\ stack[1].at = "lookup" =>
    wisdom_state # "BOGUS" /\ (api.at # "idle" /\ api.try = 3 => Known = {})

(* Without a time limit, and with the estimator, time does not run out. *)
NoClock ==
  api.at # "idle" /\ (stack = <<>> \/ stack[1].at # "lookup") /\ (api.limit = 0 \/ api.try = 2)
    => ~timed_out

LEMMA FreshNext ==
  ASSUME Bertrand, PlannerInv, Types, CallsInv, Fresh, [Next]_vars
  PROVE  Fresh'
<1>1. CASE mkplan
  BY <1>1, StepKeeps DEF Fresh
<1>2. CASE Begins
  <2>1. /\ wisdom_state' \in {"NORMAL", "ONLY", "IGNORE_INFEASIBLE", "IGNORE_ALL"}
        /\ ForgetEverything \/ api'.try \in {1, 2, 4}
    <3>1. Trust
      BY DEF CallsInv
    <3> QED  BY ONLY <1>2, <3>1, Types, BeginsDoes
  <2> QED  BY <2>1, Forgotten DEF Fresh
<1>3. CASE Rests
  <2>1. UNCHANGED vars \/ stack' = <<>>
    BY <1>3, RestsDoes
  <2> QED  BY <2>1 DEF Fresh, vars, Known, Blessed
<1> QED  BY <1>1, <1>2, <1>3, NextIs

LEMMA NoClockNext ==
  ASSUME PlannerInv, Types, CallsInv, Fresh, NoClock, [Next]_vars
  PROVE  NoClock'
<1>1. CASE mkplan
  <2> SUFFICES ASSUME timed_out', api.limit = 0 \/ api.try = 2, api.at # "idle" PROVE FALSE
    BY <1>1, StepIs DEF NoClock
  <2>1. PICK n \in Nat \ {0} : n = Len(stack) /\ Top = stack[n] /\ stack # <<>> /\ Row /\ Calls = 1 .. n
    BY <1>1, StepIs DEF Working, Calls
  <2>2. \/ timed_out /\ ~(Top.at = "lookup" /\ wisdom_state # "BOGUS")
        \/ /\ api.limit # 0 /\ ~Estimate(Top.flags.u)
           /\ Top.at # "lookup" /\ Top.owisdom = NULL
    BY <1>1, StepKeeps
  <2>3. CASE timed_out /\ ~(Top.at = "lookup" /\ wisdom_state # "BOGUS")
    <3>1. stack[1].at = "lookup"
      BY <2>1, <2>3 DEF NoClock
    <3>2. n = 1
      BY <2>1, <3>1 DEF Row
    <3> QED  BY <2>1, <2>3, <3>1, <3>2 DEF Fresh
  <2>4. CASE /\ api.limit # 0 /\ ~Estimate(Top.flags.u)
             /\ Top.at # "lookup" /\ Top.owisdom = NULL
    <3>1. stack[1].flags.u = Top.flags.u
      BY <2>1, <2>4, SearchesAgree
    <3> QED  BY <2>1, <2>4, <3>1 DEF CallsInv, Asked
  <2> QED  BY <2>2, <2>3, <2>4
<1>2. CASE Begins
  <2>1. PICK level \in DOMAIN Levels :
          stack' = <<Frame(api'.p, api'.l, Levels[level] \cup api'.l, api'.limit,
                           api'.at = "recreate")>>
    BY <1>2, BeginsDoes DEF CallsInv
  <2>2. stack' # <<>> /\ stack'[1].at = "lookup"
    BY <2>1, FirstFrame
  <2> QED  BY <2>2 DEF NoClock
<1>3. CASE Rests
  <2>1. UNCHANGED vars \/ api'.at = "idle"
    BY <1>3, RestsDoes
  <2> QED  BY <2>1 DEF NoClock, vars
<1> QED  BY <1>1, <1>2, <1>3, NextIs

(* A solution of a table says what is so: of the solver that it is allowed    *)
(* and that the problem can be planned; or, for any time, that it cannot.     *)
IsTrue(a) ==
  IF a.slvndx = INFEASIBLE THEN a.limit = 0 => ~Plannable(a.s, a.l)
  ELSE Allowed(a.s, a.slvndx, a.l) /\ Plannable(a.s, a.l)

(* The files do not say that a problem cannot be planned that can. *)
FilesTrue ==
  \A file \in Files : \A i \in DOMAIN file : file[i].slvndx = INFEASIBLE => IsTrue(file[i])

(* Nothing false is known of problems that cannot be planned. *)
Clean == FilesTrue \/ (api.at # "idle" /\ api.try = 3)
NoLie == Clean => \A a \in Known : a.slvndx = INFEASIBLE => IsTrue(a)

(* A search has found no solver yet because those that it tried have no plan. *)
Tried(f) ==
  f.owisdom = NULL /\ f.best = NULL /\ f.at \in {"solve", "part", "got"} =>
    \A m \in 1 .. f.s - 1 : Blocked(f.p, m, f.sol.l)

(* If it has not run out of time, it has no plan where there is none. *)
Denied(f, plan) ==
  /\ f.at = "got" /\ f.got = NULL => Blocked(f.p, f.s, f.sol.l)
  /\ f.at \in {"relax", "searched"} /\ f.best = NULL /\ f.last_x # NULL =>
       ~Plannable(f.p, f.last_x)
  /\ f.at = "part" /\ plan = NULL => ~Plannable(Awaited(f), f.sol.l)

(* No lie is believed: what is read, or was before, is true, or not looked at. *)
Believing == wisdom_state # "BOGUS" /\ api.at # "idle" /\ (FilesTrue \/ api.try \in {2, 3})

Denials ==
  Believing =>
    /\ \A i \in Calls : Tried(stack[i])
    /\ stack # <<>> /\ Top.owisdom = NULL /\ ~timed_out => Denied(Top, pln)
    /\ stack = <<>> /\ ~timed_out /\ pln = NULL /\ (api.limit = 0 \/ api.try \in {2, 3}) =>
         ~Plannable(api.p, api.l)

LEMMA DenialsBecome ==
  ASSUME PlannerInv, CallsInv, Denials, NEW at, Working(at), UNCHANGED api, NEW f, Becoming(f),
         wisdom_state = "BOGUS" => wisdom_state' = "BOGUS",
         Believing => Tried(f),
         Believing /\ f.owisdom = NULL /\ ~timed_out' => Denied(f, pln)
  PROVE  Denials'
<1>1. /\ stack' # <<>> /\ Top' = f /\ pln' = pln
      /\ \A i \in Calls' : stack'[i] = f \/ \E j \in Calls : stack'[i] = stack[j]
  BY FramesAre DEF Working, Becoming, CallsInv
<1>2. Believing' => Believing
  BY DEF Believing
<1> QED  BY <1>1, <1>2 DEF Denials

LEMMA DenialsReturn ==
  ASSUME PlannerInv, CallsInv, Denials, NEW at, Working(at), UNCHANGED api, NEW plan, Returning(plan),
         wisdom_state = "BOGUS" => wisdom_state' = "BOGUS",
         \/ ~Believing'
         \/ timed_out'
         \/ plan # NULL
         \/ stack' # <<>> /\ Top'.owisdom # NULL
         \/ stack' = <<>> /\ ~(api.limit = 0 \/ api.try \in {2, 3})
         \/ ~Plannable(Top.p, Top.flags.l)
  PROVE  Denials'
<1>1. /\ \A i \in Calls' : \E j \in Calls : stack'[i] = stack[j]
      /\ \/ stack' = <<>> /\ stack[1] = Top
         \/ /\ stack' # <<>> /\ Top'.at = "part" /\ Link(Top', Top)
            /\ \E j \in Calls : Top' = stack[j]
  BY FramesAre DEF Working, Returning, CallsInv
<1>2. Believing' => Believing /\ api.at # "idle"
  BY DEF Believing
<1>3. pln' = plan
  BY DEF Returning
<1>4. Believing' => \A i \in Calls' : Tried(stack'[i])
  BY <1>1, <1>2 DEF Denials
<1>5. CASE stack' = <<>> /\ stack[1] = Top
  <2>1. api.at # "idle" => Top.p = api.p /\ Top.flags.l = api.l
    BY <1>5 DEF CallsInv, Asked, Working
  <2> QED  BY <1>2, <1>3, <1>4, <1>5, <2>1 DEF Denials
<1>6. CASE stack' # <<>> /\ Top'.at = "part" /\ Link(Top', Top)
  <2>1. PICK g : g = Top'
    OBVIOUS
  <2>2. g.at = "part" /\ Top.p = Awaited(g) /\ Top.flags.l = g.sol.l
    BY <1>6, <2>1 DEF Link
  <2>3. Believing' /\ g.owisdom = NULL /\ ~timed_out' => Denied(g, plan)
    BY <1>6, <2>1, <2>2 DEF Denied
  <2> QED  BY <1>3, <1>4, <1>6, <2>1, <2>3 DEF Denials
<1> QED  BY <1>1, <1>5, <1>6

(* While a search waits for a part, there is no replay, and wisdom is trusted *)
(* as the API says. *)
LEMMA SearchAbove ==
  ASSUME Row, Trust, api.at # "idle", stack # <<>>, Top.at = "lookup",
         Len(stack) = 1 \/ stack[Len(stack) - 1].owisdom = NULL
  PROVE  /\ \A i \in Calls : stack[i].owisdom = NULL
         /\ wisdom_state \in {Base, "BOGUS"}
         /\ Len(stack) # 1 => Base # "ONLY"
<1>1. PICK n \in Nat \ {0} : n = Len(stack) /\ Top = stack[n] /\ Calls = 1 .. n
  BY RowTop DEF Calls
<1>2. Top.owisdom = NULL
  BY <1>1 DEF Row, IsFrame
<1>3. NULL # "ONLY"
  BY NullAssumption DEF Wisdom
<1>4. CASE n = 1
  <2>1. \A i \in 1 .. n : i = n
    BY <1>4
  <2> QED  BY <1>1, <1>2, <1>4, <2>1 DEF Trust
<1>5. CASE n > 1
  <2>1. n - 1 \in 1 .. n /\ stack[n - 1].owisdom = NULL /\ stack[n - 1].at = "part"
    BY <1>1, <1>5 DEF Row
  <2>2. \A i \in 1 .. n : i = n \/ i = n - 1 \/ i < n - 1
    OBVIOUS
  <2>3. \A i \in 1 .. n : i < n - 1 => stack[i].owisdom = NULL
    BY <1>1, <1>3, <2>1 DEF Row
  <2>4. \A i \in 1 .. n : stack[i].owisdom = NULL
    BY <1>1, <1>2, <2>1, <2>2, <2>3
  <2> QED  BY <1>1, <2>1, <2>4 DEF Trust
<1> QED  BY <1>1, <1>4, <1>5

(* An answer that there is no plan is true when a search asks for it. *)
LEMMA NoIsTrue ==
  ASSUME PlannerInv, Types, CallsInv, Fresh, NoLie, Working("lookup"), Believing,
         wisdom_state \in {"NORMAL", "ONLY"},
         \/ Len(stack) = 1 /\ (api.limit = 0 \/ api.try \in {2, 3})
         \/ Len(stack) # 1 /\ stack[Len(stack) - 1].owisdom = NULL,
         NEW a \in Known, a.s = Top.p, a.slvndx = INFEASIBLE, Subsumes(a, Top.flags)
  PROVE  ~Plannable(Top.p, Top.flags.l)
<1>1. PICK n \in Nat \ {0} : n = Len(stack) /\ Top = stack[n] /\ Calls = 1 .. n
  BY DEF Calls, Working
<1>2. Top.at = "lookup" /\ api.at # "idle" /\ stack # <<>> /\ Trust /\ Row
  BY DEF Working, Believing, CallsInv
<1>3. wisdom_state = Base /\ (n # 1 => Base # "ONLY")
  BY <1>1, <1>2, SearchAbove DEF Believing
<1>4. api.try \notin {2, 4} \/ api.at = "only"
  BY <1>3 DEF Base
<1>5. api.at = "only" => n = 1 /\ api.try = 4
  BY <1>2, <1>3 DEF Base, Trust
<1>6. Clean
  BY <1>4, <1>5 DEF Believing, Clean
<1>7. a.limit \in Nat
  <2>1. a \in Stored
    <3>1. ASSUME NEW ht, IsTable(ht, Stored) PROVE \A b \in Solutions(ht) : b \in Stored
      <4>1. \A g \in Live(ht) : g \in 1 .. hashsiz(ht) /\ ht.slots[g].sol # NULL /\ ht.slots[g] \in SlotsOf(Stored)
        BY <3>1, TableIs DEF IsTable
      <4> QED  BY <4>1 DEF SlotsOf, Solutions
    <3> QED  BY <3>1 DEF Known, Blessed, Types, Tables
  <2>2. a.limit \in Limits \cup {0}
    BY <2>1, StoredIs
  <2>3. \A limit \in Limits \cup {0} : limit \in Nat
    BY PlannerAssumption
  <2> QED  BY <2>2, <2>3
<1>8. Top.flags.limit = 0 => ~Plannable(Top.p, Top.flags.l)
  <2> SUFFICES ASSUME Top.flags.limit = 0 PROVE ~Plannable(Top.p, Top.flags.l)
    OBVIOUS
  <2>1. a.limit = 0 /\ a.l \subseteq Top.flags.l
    BY <1>7 DEF Subsumes
  <2>2. ~Plannable(Top.p, a.l)
    BY <1>6, <2>1 DEF NoLie, IsTrue
  <2> QED  BY <2>1, <2>2, PlannableLess
<1>9. CASE n = 1
  <2>1. stack[1].at = "lookup" /\ Known # {}
    BY <1>1, <1>2, <1>9
  <2>2. api.try # 3
    BY <1>2, <2>1 DEF Fresh
  <2>3. api.limit = 0
    BY <1>1, <1>4, <1>5, <1>9, <2>2
  <2> QED  BY <1>1, <1>2, <1>8, <1>9, <2>3 DEF CallsInv, Asked
<1>10. CASE n # 1
  <2>1. n \in 1 .. n /\ n > 1
    BY <1>10
  <2>2. Top.flags.limit = 0
    BY <1>1, <2>1 DEF CallsInv, Chain, Link
  <2> QED  BY <1>8, <2>2
<1> QED  BY <1>9, <1>10

(* The steps of search0: what was tried in vain has no plan. *)
LEMMA DenialsTry ==
  ASSUME PlannerInv, Types, CallsInv, Denials, Trying
  PROVE  Denials'
<1>1. /\ Working(Top.at) /\ Top.at \in {"search0", "got"} /\ Top.owisdom = NULL
      /\ UNCHANGED api /\ UNCHANGED wisdom_state
      /\ timed_out => timed_out'
  BY TryDoes
<1>2. PICK f, h :
        /\ Becoming(h) /\ Onward(f, h)
        /\ f.p = Top.p /\ SameSearch(Top, f)
        /\ h.at = "solve" => ~timed_out'
        /\ ~timed_out' => f.s = (IF Top.at = "got" THEN Top.s ELSE 0)
        /\ ~timed_out' /\ h.best = NULL =>
             /\ Top.best = NULL /\ (Top.at = "got" => Top.got = NULL)
             /\ h.at = "solve" \/ f.s >= Len(Solvers[f.p])
  BY TryDoes
<1>3. h.p = Top.p /\ h.sol = Top.sol /\ h.last_x = Top.last_x /\ h.owisdom = NULL
      /\ (h.at = "solve" => h.s = f.s + 1) /\ h.at \in {"solve", "relax", "searched"}
  BY <1>1, <1>2 DEF Onward, SameSearch
<1>4. PICK n \in Nat : n = Top.s
  BY <1>1 DEF Working, TypedFrame
<1>5. ASSUME Believing, ~timed_out', h.best = NULL
      PROVE  \A m \in 1 .. f.s : Blocked(Top.p, m, Top.sol.l)
  <2>1. ~timed_out /\ Top.best = NULL
    BY <1>1, <1>2, <1>5
  <2>2. Tried(Top) /\ Denied(Top, pln)
    BY <1>1, <1>5, <2>1 DEF Denials, Working, Calls
  <2>3. CASE Top.at = "got"
    <3>1. f.s = n /\ Top.got = NULL
      BY <1>2, <1>4, <1>5, <2>3
    <3>2. \A m \in 1 .. n - 1 : Blocked(Top.p, m, Top.sol.l)
      BY <1>1, <1>4, <2>1, <2>2, <2>3 DEF Tried
    <3>3. Blocked(Top.p, n, Top.sol.l)
      BY <1>4, <2>2, <2>3, <3>1 DEF Denied
    <3>4. \A m \in 1 .. n : m = n \/ m \in 1 .. n - 1
      OBVIOUS
    <3> QED  BY <3>1, <3>2, <3>3, <3>4
  <2>4. CASE Top.at # "got"
    <3>1. f.s = 0
      BY <1>2, <1>5, <2>4
    <3> QED  BY <3>1
  <2> QED  BY <2>3, <2>4
<1>6. Believing => Tried(h)
  <2> SUFFICES ASSUME Believing, h.best = NULL, h.at = "solve"
               PROVE  \A m \in 1 .. h.s - 1 : Blocked(h.p, m, h.sol.l)
    BY <1>3 DEF Tried
  <2>1. \A m \in 1 .. f.s : Blocked(Top.p, m, Top.sol.l)
    BY <1>2, <1>5
  <2>2. f.s \in Nat /\ h.s - 1 = f.s
    BY <1>2, <1>3, <1>4
  <2> QED  BY <1>3, <2>1, <2>2
<1>7. Believing /\ ~timed_out' => Denied(h, pln)
  <2> SUFFICES ASSUME Believing, ~timed_out', h.at \in {"relax", "searched"}, h.best = NULL
               PROVE  ~Plannable(h.p, h.last_x)
    BY <1>3 DEF Denied
  <2>1. \A m \in 1 .. f.s : Blocked(Top.p, m, Top.sol.l)
    BY <1>5
  <2>2. f.s \in Nat /\ f.s >= Len(Solvers[Top.p]) /\ Top.p \in Problems
    BY <1>1, <1>2, <1>4 DEF Working
  <2>3. \A m \in DOMAIN Solvers[Top.p] : m \in 1 .. f.s
    BY <2>2, SolversAre
  <2>4. ~Plannable(Top.p, Top.sol.l)
    BY <2>1, <2>2, <2>3, PlannableBy
  <2>5. CallFrame(Top)
    BY <1>1 DEF CallsInv, Chain, Working, Calls
  <2>6. Top.last_x = Top.sol.l
    BY <1>1, <2>5 DEF CallFrame, SearchFrame
  <2> QED  BY <1>3, <2>4, <2>6
<1> QED  BY <1>1, <1>2, <1>3, <1>6, <1>7, DenialsBecome

LEMMA DenialsStep ==
  ASSUME PlannerInv, Types, CallsInv, PlansInv, Fresh, NoLie, Denials, mkplan
  PROVE  Denials'
<1>1. UNCHANGED api /\ (wisdom_state = "BOGUS" => wisdom_state' = "BOGUS")
  BY StepIs, StepKeeps
<1>2. ASSUME NEW at, Working(at)
      PROVE  /\ Row /\ Top.at = at /\ CallFrame(Top) /\ PlansFrame(Top) /\ TypedFrame(Top)
             /\ Believing => Tried(Top)
             /\ Believing /\ Top.owisdom = NULL /\ ~timed_out => Denied(Top, pln)
  BY <1>2 DEF Working, CallsInv, Chain, PlansInv, Calls, Denials
<1>3. ASSUME NEW at, Working(at), NEW f, Becoming(f), Believing => Tried(f),
             Believing /\ f.owisdom = NULL /\ ~timed_out' => Denied(f, pln)
      PROVE  Denials'
  BY <1>1, <1>3, DenialsBecome
<1>4. ASSUME NEW at, Working(at), NEW plan, Returning(plan),
         \/ ~Believing'
         \/ timed_out'
         \/ plan # NULL
         \/ stack' # <<>> /\ Top'.owisdom # NULL
         \/ stack' = <<>> /\ ~(api.limit = 0 \/ api.try \in {2, 3})
         \/ ~Plannable(Top.p, Top.flags.l)
      PROVE Denials'
  BY <1>1, <1>4, DenialsReturn
<1>5. CASE Lookup
  <2>1. Working("lookup") /\ Top.owisdom = NULL
    BY <1>5, LookupDoes
  <2>2. CASE wisdom_state' = "BOGUS" /\ Returning(NULL)
    BY <1>4, <2>1, <2>2 DEF Believing
  <2>3. ASSUME wisdom_state \in {"NORMAL", "ONLY"}, wisdom_state' = wisdom_state, Returning(NULL),
               NEW a \in Known, a.s = Top.p, a.slvndx = INFEASIBLE, Subsumes(a, Top.flags)
        PROVE  Denials'
    <3>1. PICK n \in Nat \ {0} : n = Len(stack)
      BY <2>1 DEF Working
    <3>2. \/ n = 1 /\ stack' = <<>>
          \/ n # 1 /\ stack' # <<>> /\ Top' = stack[n - 1]
      <4>1. (\E S : stack' \in Seq(S)) /\ Len(stack') = n - 1 /\ \A i \in 1 .. n - 1 : stack'[i] = stack[i]
        BY <2>3, <3>1 DEF Returning, Returned
      <4>2. PICK t, S : t = stack' /\ t \in Seq(S) /\ Len(t) = n - 1 /\ \A i \in 1 .. n - 1 : t[i] = stack[i]
        BY <4>1
      <4>3. CASE n = 1
        BY <4>2, <4>3
      <4>4. CASE n # 1
        <5>1. t # <<>> /\ n - 1 \in 1 .. n - 1
          BY <4>2, <4>4
        <5>2. Last(t) = t[n - 1]
          BY <4>2, <5>1, LastFrame
        <5> QED  BY <4>2, <4>4, <5>1, <5>2 DEF Top
      <4> QED  BY <4>3, <4>4
    <3>3. ASSUME Believing, \/ n = 1 /\ (api.limit = 0 \/ api.try \in {2, 3})
                            \/ n # 1 /\ stack[n - 1].owisdom = NULL
          PROVE  ~Plannable(Top.p, Top.flags.l)
      BY <2>1, <2>3, <3>1, <3>3, NoIsTrue
    <3>4. Believing' => Believing
      BY <1>1 DEF Believing
    <3>5. \/ ~Believing'
          \/ stack' # <<>> /\ Top'.owisdom # NULL
          \/ stack' = <<>> /\ ~(api.limit = 0 \/ api.try \in {2, 3})
          \/ ~Plannable(Top.p, Top.flags.l)
      BY <3>2, <3>3, <3>4
    <3> QED  BY <1>4, <2>1, <2>3, <3>5
  <2>4. ASSUME NEW f, Becoming(f), f.at = "relax", SameSearch(Top, f), SameBest(Top, f)
        PROVE  Denials'
    <3>1. f.last_x = NULL
      BY <1>2, <2>1, <2>4 DEF CallFrame, SearchFrame, SameSearch
    <3>2. Tried(f) /\ Denied(f, pln)
      BY <2>4, <3>1 DEF Tried, Denied
    <3> QED  BY <1>3, <2>1, <2>4, <3>2
  <2>5. ASSUME NEW f, Becoming(f), f.at = "solve", f.owisdom = wisdom_state PROVE Denials'
    <3>1. f.owisdom # NULL
      BY <2>1, <2>5, NullAssumption DEF Working, Row
    <3>2. Tried(f)
      BY <3>1 DEF Tried
    <3> QED  BY <1>3, <2>1, <2>5, <3>1, <3>2
  <2> QED  BY <1>5, <2>2, <2>3, <2>4, <2>5, LookupDoes
<1>6. CASE Solve
  <2>1. Working("solve") /\ UNCHANGED <<clock, wisdom_state, pln>> /\ Top.at = "solve"
    BY <1>6, SolveDoes DEF Working
  <2>2. ASSUME NEW f, f.p = Top.p, f.at \in {"got", "part"}, f.s = Top.s, SameSearch(Top, f), SameBest(Top, f)
        PROVE  Believing => Tried(f)
    BY <1>2, <2>1, <2>2 DEF Tried, SameSearch, SameBest
  <2>3. ASSUME NEW f, Becoming(f), f.at = "got", f.s = Top.s, SameSearch(Top, f), SameBest(Top, f),
               \/ Solver.forbidden \cap Top.sol.l # {}
               \/ f.got # NULL
        PROVE  Denials'
    <3>1. f.p = Top.p
      BY <2>3 DEF Becoming
    <3>2. Denied(f, pln)
      BY <2>3, <3>1 DEF Denied, Blocked, Allowed, Solver, SameSearch
    <3> QED  BY <1>3, <2>1, <2>2, <2>3, <3>1, <3>2
  <2>4. ASSUME NEW f, Becoming(f), f.at = "got", f.got = MakePlan, f.s = Top.s,
               SameSearch(Top, f), SameBest(Top, f),
               Solver.forbidden \cap Top.sol.l = {}, Len(Top.parts) = Len(Solver.parts)
        PROVE  Denials'
    <3>1. MakePlan # NULL
      BY <1>2, <2>1, <2>4, MakePlanIs
    <3> QED  BY <2>3, <2>4, <3>1
  <2>5. ASSUME NEW f, NEW g, Called(stack, stack', f, g), f.p = Top.p, f.at = "part",
               f.s = Top.s, SameSearch(Top, f), SameBest(Top, f),
               g = Frame(Solver.parts[Len(Top.parts) + 1], Top.sol.l, Top.sol.u, 0, Top.flags.bless)
        PROVE  Denials'
    <3>1. Believing => Tried(f)
      BY <2>2, <2>5
    <3>2. g.at = "lookup"
      BY <2>5, FrameIs
    <3>3. Tried(g) /\ Denied(g, pln)
      BY <3>2 DEF Tried, Denied
    <3>4. /\ stack' # <<>> /\ Top' = g
          /\ \A i \in Calls' : stack'[i] = f \/ stack'[i] = g \/ \E j \in Calls : stack'[i] = stack[j]
      BY <2>1, <2>5, FramesAre DEF Working, CallsInv
    <3>5. Believing' => Believing
      BY <1>1 DEF Believing
    <3>6. pln' = pln
      BY <2>1
    <3> QED  BY <3>1, <3>3, <3>4, <3>5, <3>6 DEF Denials
  <2> QED  BY <1>6, <2>3, <2>4, <2>5, SolveDoes
<1>7. CASE Part
  <2>1. Working("part") /\ UNCHANGED <<clock, wisdom_state>> /\ Top.at = "part"
    BY <1>7, PartDoes DEF Working
  <2>2. PICK f : /\ Becoming(f) /\ f.got = Top.got /\ f.s = Top.s
                 /\ SameSearch(Top, f) /\ SameBest(Top, f)
                 /\ \/ pln = NULL /\ f.at = "got"
                    \/ pln # NULL /\ f.at = "solve" /\ f.parts = Append(Top.parts, pln)
    BY <1>7, PartDoes
  <2>3. f.p = Top.p
    BY <2>2 DEF Becoming
  <2>4. Believing => Tried(f)
    BY <1>2, <2>1, <2>2, <2>3 DEF Tried, SameSearch, SameBest
  <2>5. ASSUME Believing, f.owisdom = NULL, ~timed_out', pln = NULL PROVE Blocked(f.p, f.s, f.sol.l)
    <3>1. ~Plannable(Awaited(Top), Top.sol.l)
      BY <1>2, <2>1, <2>2, <2>5 DEF Denied, SameSearch, clock
    <3>2. Len(Top.parts) + 1 \in DOMAIN Solvers[Top.p][Top.s].parts
      BY <1>2, <2>1, AwaitedIs
    <3> QED  BY <2>2, <2>3, <3>1, <3>2 DEF Blocked, Awaited, SameSearch
  <2>6. Believing /\ f.owisdom = NULL /\ ~timed_out' => Denied(f, pln)
    BY <2>2, <2>5 DEF Denied
  <2> QED  BY <1>3, <2>1, <2>2, <2>4, <2>6
<1>8. CASE Replayed
  <2>1. /\ Working("got")
        /\ \/ wisdom_state' = "BOGUS" /\ Returning(NULL)
           \/ Top.got # NULL /\ Returning(Top.got)
    BY <1>8, ReplayedDoes
  <2> QED  BY <1>4, <2>1 DEF Believing
<1>9. CASE Search
  <2>1. Working("relax") /\ Top.owisdom = NULL /\ Top.best = NULL /\ UNCHANGED clock /\ Top.at = "relax"
    BY <1>9, SearchDoes DEF Working
  <2>2. PICK f : /\ Becoming(f) /\ f.owisdom = NULL /\ f.best = NULL
                 /\ f.at \in {"search0", "searched", "relax"}
                 /\ f.at # "search0" => f.last_x = Top.last_x
    <3>1. \E f : /\ Becoming(f) /\ f.owisdom = NULL /\ f.best = NULL
                 /\ \/ f.at = "search0"
                    \/ f.at = "searched" /\ SameSearch(Top, f)
                    \/ f.at = "relax" /\ f.last_x = Top.last_x
      BY <1>9, SearchDoes
    <3> QED  BY <3>1 DEF SameSearch
  <2>3. Tried(f) /\ f.p = Top.p
    BY <2>2 DEF Tried, Becoming
  <2>4. Believing /\ ~timed_out' => Denied(f, pln)
    BY <1>2, <2>1, <2>2, <2>3 DEF Denied, clock
  <2> QED  BY <1>3, <2>1, <2>2, <2>3, <2>4
<1>10. CASE Trying
  BY <1>10, DenialsTry
<1>11. CASE Conclude
  <2>1. Working("searched") /\ Top.owisdom = NULL /\ UNCHANGED clock /\ Top.at = "searched"
    BY <1>11, ConcludeDoes DEF Working
  <2>2. \/ wisdom_state' = "BOGUS" /\ Returning(NULL)
        \/ timed_out /\ Returning(NULL)
        \/ Returning(Top.best)
    BY <1>11, ConcludeDoes
  <2>3. Top.best = NULL => Top.last_x # NULL /\ Top.last_x = Top.flags.l
    BY <1>2, <2>1 DEF CallFrame, SearchFrame
  <2>4. Believing /\ ~timed_out /\ Top.best = NULL => ~Plannable(Top.p, Top.flags.l)
    BY <1>2, <2>1, <2>3 DEF Denied
  <2>5. Believing' => Believing
    BY <1>1 DEF Believing
  <2> QED  BY <1>4, <2>1, <2>2, <2>4, <2>5 DEF clock, Believing
<1> QED  BY <1>5, <1>6, <1>7, <1>8, <1>9, <1>10, <1>11 DEF mkplan, Trying

(* What a search concludes is true. *)
LEMMA ConcludesTrue ==
  ASSUME PlannerInv, Types, CallsInv, PlansInv, Denials, Working("searched"), Top.owisdom = NULL,
         wisdom_state # "BOGUS", ~(timed_out /\ Top.flags.limit = 0),
         timed_out => Top.best = NULL,
         NEW sol, sol.s = Top.p, sol.l = Top.sol.l,
         sol.slvndx = (IF Top.best = NULL THEN INFEASIBLE ELSE Top.slvndx),
         sol.limit = (IF timed_out THEN Top.sol.limit ELSE 0)
  PROVE  /\ sol.slvndx # INFEASIBLE => IsTrue(sol)
         /\ Believing => IsTrue(sol)
<1>1. CallFrame(Top) /\ PlansFrame(Top) /\ Top.at = "searched"
  BY DEF Working, CallsInv, Chain, PlansInv, Calls
<1>2. CASE Top.best # NULL /\ sol.slvndx # INFEASIBLE
  <2>1. Allowed(Top.p, Top.slvndx, Top.sol.l) /\ Plannable(Top.p, Top.sol.l)
    BY <1>1, <1>2, ObeysPlannable DEF PlansFrame
  <2> QED  BY <1>2, <2>1 DEF IsTrue
<1>3. CASE Top.best # NULL /\ sol.slvndx = INFEASIBLE
  <2>1. Top.slvndx \in DOMAIN Solvers[Top.p] /\ Top.p \in Problems
    BY <1>3 DEF Working, TypedFrame
  <2> QED  BY <1>3, <2>1, PlannerAssumption
<1>4. CASE Top.best = NULL /\ timed_out
  <2>1. sol.limit # 0
    BY <1>1, <1>4 DEF CallFrame, SearchFrame
  <2> QED  BY <1>4, <2>1 DEF IsTrue
<1>5. CASE Top.best = NULL /\ ~timed_out
  <2>1. Top.last_x # NULL /\ Top.last_x = Top.sol.l
    BY <1>1 DEF CallFrame, SearchFrame
  <2>2. Believing => ~Plannable(Top.p, Top.last_x)
    BY <1>1, <1>5, <2>1 DEF Denials, Denied, Working
  <2> QED  BY <1>5, <2>1, <2>2 DEF IsTrue
<1> QED  BY <1>2, <1>3, <1>4, <1>5

LEMMA NoLieNext ==
  ASSUME Bertrand, PlannerInv, Types, CallsInv, PlansInv, NoLie, Denials, [Next]_vars
  PROVE  NoLie'
<1>1. ASSUME NEW sol, Known' \subseteq Known \cup {sol}, Clean' => Clean,
             Clean => (sol.slvndx = INFEASIBLE => IsTrue(sol))
      PROVE  NoLie'
  BY <1>1 DEF NoLie
<1>2. ASSUME UNCHANGED tables, Clean' => Clean PROVE NoLie'
  BY <1>2 DEF NoLie, Known, Blessed, tables
<1>3. CASE mkplan
  <2>1. (Clean' => Clean) /\ (Clean => wisdom_state = "BOGUS" \/ Believing)
    <3>1. UNCHANGED api /\ stack # <<>>
      BY <1>3, StepIs DEF Working
    <3>2. api.at # "idle"
      BY <3>1 DEF CallsInv, Trust
    <3> QED  BY <3>1, <3>2 DEF Clean, Believing
  <2>2. CASE Conclude
    <3>1. /\ Working("searched") /\ Top.owisdom = NULL /\ (timed_out => Top.best = NULL)
          /\ \/ UNCHANGED tables
             \/ /\ wisdom_state # "BOGUS" /\ ~(timed_out /\ Top.flags.limit = 0)
                /\ \E sol \in Stored :
                     /\ sol.s = Top.p /\ sol.l = Top.sol.l
                     /\ sol.slvndx = (IF Top.best = NULL THEN INFEASIBLE ELSE Top.slvndx)
                     /\ sol.limit = (IF timed_out THEN Top.sol.limit ELSE 0)
                     /\ Finish(Top.best, sol, Top.flags.bless \/ timed_out, wisdom_state)
      BY <2>2, ConcludeDoes
    <3>2. ASSUME wisdom_state # "BOGUS", ~(timed_out /\ Top.flags.limit = 0),
                 NEW sol \in Stored, sol.s = Top.p, sol.l = Top.sol.l,
                 sol.slvndx = (IF Top.best = NULL THEN INFEASIBLE ELSE Top.slvndx),
                 sol.limit = (IF timed_out THEN Top.sol.limit ELSE 0),
                 Finish(Top.best, sol, Top.flags.bless \/ timed_out, wisdom_state)
          PROVE  NoLie'
      <4>1. Believing => IsTrue(sol)
        BY <3>1, <3>2, ConcludesTrue
      <4>2. Known' \subseteq Known \cup {sol}
        BY <3>2, FinishDoes DEF Types
      <4> QED  BY <1>1, <2>1, <3>2, <4>1, <4>2
    <3> QED  BY <1>2, <2>1, <3>1, <3>2
  <2>3. CASE Replayed
    <3>1. \/ UNCHANGED tables
          \/ Finish(Top.got, Top.sol, Top.flags.bless, Top.owisdom)
      BY <2>3, ReplayedDoes
    <3>2. Working("got") /\ Top.owisdom # NULL
      BY <2>3, ReplayedDoes
    <3>3. Top.sol \in Stored /\ Top.sol.slvndx # INFEASIBLE
      BY <3>2 DEF Working, TypedFrame, CallsInv, Chain, CallFrame, ReplayFrame, Calls
    <3>4. CASE Finish(Top.got, Top.sol, Top.flags.bless, Top.owisdom)
      BY <1>1, <2>1, <3>3, <3>4, FinishDoes DEF Types
    <3> QED  BY <1>2, <2>1, <3>1, <3>4
  <2>4. CASE Lookup \/ Solve \/ Part \/ Search \/ Trying
    <3>1. UNCHANGED tables
      BY <2>4, LookupDoes, SolveDoes, PartDoes, SearchDoes, TryDoes
    <3> QED  BY <1>2, <2>1, <3>1
  <2> QED  BY <1>3, <2>2, <2>3, <2>4 DEF mkplan, Trying
<1>4. CASE Begins
  <2>1. Trust
    BY DEF CallsInv
  <2>2. ForgetEverything \/ (UNCHANGED tables /\ api'.try \in {1, 2, 4})
    BY ONLY <1>4, <2>1, Types, BeginsDoes
  <2>3. CASE ForgetEverything
    BY <2>3, Forgotten DEF NoLie
  <2>4. CASE UNCHANGED tables /\ api'.try \in {1, 2, 4}
    BY <1>2, <2>4 DEF Clean
  <2> QED  BY <2>2, <2>3, <2>4
<1>5. CASE Rests
  <2>1. CASE UNCHANGED vars
    BY <1>2, <2>1 DEF vars, Clean, tables
  <2>2. CASE api'.at = "idle" /\ htab_unblessed' = mkhashtab /\ htab_blessed' = htab_blessed
    <3>1. Solutions(mkhashtab) = {}
      BY StoredIs, MkhashtabIs
    <3>2. Known' \subseteq Known /\ (Clean' => Clean)
      BY <2>2, <3>1 DEF Known, Blessed, Clean
    <3> QED  BY <3>2 DEF NoLie
  <2>3. ASSUME api'.at = "idle", htab_unblessed' = htab_unblessed,
               NEW file \in Files, htab_blessed' = imprt(htab_blessed, file)
        PROVE  NoLie'
    <3>1. file \in Seq(Stored)
      BY PlannerAssumption
    <3>2. \A a \in Blessed' : a \in Blessed \/ \E i \in DOMAIN file : a = file[i]
      BY <2>3, <3>1, ImportFrom DEF Blessed, Types, Tables
    <3>3. Clean' => FilesTrue /\ Clean
      BY <2>3 DEF Clean
    <3>4. FilesTrue => \A i \in DOMAIN file : file[i].slvndx = INFEASIBLE => IsTrue(file[i])
      BY DEF FilesTrue
    <3> QED  BY <2>3, <3>2, <3>3, <3>4 DEF NoLie, Known, Blessed
  <2>4. CASE ForgetEverything
    BY <2>4, Forgotten DEF NoLie
  <2> QED  BY <1>5, <2>1, <2>2, <2>3, <2>4, RestsDoes
<1> QED  BY <1>3, <1>4, <1>5, NextIs

LEMMA DenialsNext ==
  ASSUME PlannerInv, Types, CallsInv, PlansInv, Fresh, NoLie, Denials, [Next]_vars
  PROVE  Denials'
<1>1. CASE Begins
  <2>1. PICK level \in DOMAIN Levels :
          stack' = <<Frame(api'.p, api'.l, Levels[level] \cup api'.l, api'.limit,
                           api'.at = "recreate")>>
    BY <1>1, BeginsDoes DEF CallsInv
  <2>2. PICK f : stack' # <<>> /\ Calls' = {1} /\ stack'[1] = f /\ Top' = f /\ f.at = "lookup"
    BY <2>1, FirstFrame
  <2>3. Tried(f) /\ \A plan : Denied(f, plan)
    BY <2>2 DEF Tried, Denied
  <2> QED  BY <2>2, <2>3 DEF Denials
<1>2. CASE Rests
  <2>1. CASE UNCHANGED vars
    BY <2>1 DEF vars, Denials, Believing, Calls, Top
  <2>2. CASE api'.at = "idle"
    BY <2>2 DEF Denials, Believing
  <2> QED  BY <1>2, <2>1, <2>2, RestsDoes
<1> QED  BY <1>1, <1>2, NextIs, DenialsStep

--------------------------------------------------------------------------------
(* Which solutions are of use *)

(* None of the solutions makes another useless. *)
Spare(T) == \A a, b \in T : a # b /\ a.s = b.s => ~Subsumes(a, b)

LEMMA SubsumesItself ==
  ASSUME NEW sol \in Stored
  PROVE  Subsumes(sol, sol)
<1>1. sol.limit \in Nat
  <2>1. sol.limit \in Limits \cup {0}
    BY StoredIs
  <2>2. \A limit \in Limits \cup {0} : limit \in Nat
    BY PlannerAssumption
  <2> QED  BY <2>1, <2>2
<1>2. sol.limit <= sol.limit
  BY <1>1
<1> QED  BY <1>2 DEF Subsumes

LEMMA IrredundantIs ==
  ASSUME NEW ht, IsTable(ht, Stored)
  PROVE  /\ Solutions(ht) \subseteq Stored
         /\ Irredundant(ht) <=> Distinct(ht) /\ Spare(Solutions(ht))
<1>1. Solutions(ht) \subseteq Stored
  <2>1. \A g \in Live(ht) : g \in 1 .. hashsiz(ht) /\ ht.slots[g].sol # NULL /\ ht.slots[g] \in SlotsOf(Stored)
    BY TableIs DEF IsTable
  <2> QED  BY <2>1 DEF SlotsOf, Solutions
<1>2. \A g \in Live(ht) : ht.slots[g].sol \in Solutions(ht)
  BY DEF Solutions
<1>3. ASSUME Irredundant(ht) PROVE Distinct(ht)
  <2> SUFFICES ASSUME NEW g \in Live(ht), NEW h \in Live(ht), ht.slots[g].sol = ht.slots[h].sol, g # h
               PROVE  FALSE
    BY DEF Distinct
  <2>1. Subsumes(ht.slots[g].sol, ht.slots[h].sol)
    BY <1>1, <1>2, SubsumesItself
  <2> QED  BY <1>3, <2>1 DEF Irredundant
<1>4. ASSUME Irredundant(ht) PROVE Spare(Solutions(ht))
  BY <1>4 DEF Irredundant, Spare, Solutions
<1>5. ASSUME Distinct(ht), Spare(Solutions(ht)) PROVE Irredundant(ht)
  BY <1>2, <1>5 DEF Irredundant, Spare, Distinct
<1> QED  BY <1>1, <1>3, <1>4, <1>5

(* A solution is inserted that no other makes useless. *)
LEMMA InsertSpare ==
  ASSUME Bertrand, NEW ht, IsTable(ht, Stored), Irredundant(ht), NEW sol \in Stored,
         \A a \in Solutions(ht) : a.s = sol.s /\ Subsumes(a, sol) => a = sol
  PROVE  Irredundant(htab_insert(ht, sol))
<1>1. Distinct(ht) /\ Spare(Solutions(ht))
  BY IrredundantIs
<1>2. /\ IsTable(htab_insert(ht, sol), Stored)
      /\ Solutions(htab_insert(ht, sol)) = Kept(ht, sol) \cup {sol}
      /\ Distinct(htab_insert(ht, sol))
  BY <1>1, StoredIs, InsertKeeps, SubsumesItself
<1>3. Spare(Kept(ht, sol) \cup {sol})
  BY <1>1 DEF Spare, Kept
<1> QED  BY <1>2, <1>3, IrredundantIs

LEMMA ImportSpare ==
  ASSUME Bertrand, NEW ht, IsTable(ht, Stored), Irredundant(ht), NEW file \in Seq(Stored)
  PROVE  Irredundant(imprt(ht, file))
<1>1. PICK Good : \A a : a \in Good <=> IsTable(a, Stored)
  BY TablesAre
<1>2. PICK T : T = (0 .. Len(file)) \X {a \in Good : Irredundant(a)}
  OBVIOUS
<1>3. <<0, ht>> \in T
  BY <1>1, <1>2
<1>4. ASSUME NEW i \in 1 .. Len(file), NEW a, <<i - 1, a>> \in T
      PROVE  <<i, Imported(a, file[i])>> \in T
  <2>1. file[i] \in Stored /\ i \in 0 .. Len(file) /\ IsTable(a, Stored) /\ Irredundant(a)
    BY <1>1, <1>2, <1>4
  <2>2. IsTable(htab_insert(a, file[i]), Stored)
    BY <2>1, StoredIs, InsertKeeps
  <2>3. ASSUME htab_lookup(a, file[i].s, file[i]) = NULL PROVE Irredundant(htab_insert(a, file[i]))
    <3>1. /\ file[i].s \in Signatures /\ NULL \notin Stored
      BY <2>1, StoredIs DEF Storable
    <3>2. \A b \in Solutions(a) : b.s = file[i].s => ~Subsumes(b, file[i])
      BY <2>1, <2>3, <3>1, StoredIs, LookupIs
    <3> QED  BY <2>1, <3>2, InsertSpare
  <2> QED  BY <1>1, <1>2, <2>1, <2>2, <2>3 DEF Imported
<1>5. <<Len(file), imprt(ht, file)>> \in T
  BY <1>3, <1>4, ImportInduction
<1> QED  BY <1>1, <1>2, <1>5

(* No call is for a problem that a call it is made for is for. *)
LEMMA NoCircle ==
  ASSUME Row, Chain, Types, NEW i \in Calls, NEW j \in Calls, i < j
  PROVE  stack[i].p # stack[j].p
<1> SUFFICES ASSUME stack[i].p = stack[j].p PROVE FALSE
  OBVIOUS
<1>1. PICK n \in Nat : n = Len(stack) /\ Calls = 1 .. n
  BY DEF Row, Calls
<1>2. PICK S : S = {stack[k].p : k \in i .. j - 1}
  OBVIOUS
<1>3. \A k \in i .. j - 1 : /\ k \in Calls /\ k + 1 \in Calls /\ k < n /\ k + 1 > 1
                            /\ k + 1 \in i .. j - 1 \/ k + 1 = j
  BY <1>1
<1>4. \A k \in Calls : TypedFrame(stack[k])
  BY <1>1 DEF Types, TypedStack
<1>5. S \subseteq Problems /\ stack[i].p \in S /\ i \in i .. j - 1
  BY <1>1, <1>2, <1>3, <1>4 DEF TypedFrame
<1>6. PICK p \in S : \A part \in S : ~IsPart(part, p)
  BY <1>5, PartsAssumption
<1>7. PICK k \in i .. j - 1 : p = stack[k].p
  BY <1>2, <1>6
<1>8. stack[k].at = "part" /\ Link(stack[k], stack[k + 1])
  <2>1. k \in Calls /\ k + 1 \in Calls /\ k < Len(stack) /\ k + 1 > 1 /\ (k + 1) - 1 = k
    BY <1>1, <1>3
  <2> QED  BY <2>1 DEF Row, Chain
<1>9. IsPart(stack[k + 1].p, p)
  BY <1>3, <1>4, <1>7, <1>8, AwaitedIs DEF Link
<1>10. stack[k + 1].p \in S
  BY <1>2, <1>3, <1>5
<1> QED  BY <1>6, <1>9, <1>10

(* A search goes on outside all replays. *)
LEMMA SearchOutside ==
  ASSUME Row, Trust, api.at # "idle", stack # <<>>, Top.owisdom = NULL,
         Top.at # "lookup" \/ wisdom_state \notin {"ONLY", "BOGUS"}
  PROVE  /\ \A i \in Calls : stack[i].owisdom = NULL
         /\ wisdom_state \in {Base, "BOGUS"}
         /\ Top.at # "lookup" => Base # "ONLY"
         /\ wisdom_state = "NORMAL" => api.try \in {1, 3}
         /\ wisdom_state # "BOGUS" /\ api.try \in {1, 3} => wisdom_state = "NORMAL"
<1>1. PICK n \in Nat \ {0} : n = Len(stack) /\ Top = stack[n] /\ Calls = 1 .. n /\ n \in 1 .. n
  BY RowTop DEF Calls
<1>2. NULL # "ONLY"
  BY NullAssumption DEF Wisdom
<1>3. \A i \in 1 .. n : i = n \/ i < n
  OBVIOUS
<1>4. \A i \in 1 .. n : stack[i].owisdom = NULL
  BY <1>1, <1>2, <1>3 DEF Row
<1>5. wisdom_state \in {Base, "BOGUS"} /\ (Top.at # "lookup" => Base # "ONLY")
  BY <1>1, <1>4 DEF Trust
<1>6. api.try \in 1 .. 4 /\ (api.at = "only" => api.try = 4)
  BY DEF Trust
<1>7. api.try \in {1, 2, 3, 4}
  BY <1>6
<1> QED  BY <1>1, <1>4, <1>5, <1>6, <1>7 DEF Base

(* A solver is not in the table of the solutions not kept unless it is true.  *)
UnblessedTrue == \A a \in Solutions(htab_unblessed) : a.slvndx # INFEASIBLE => IsTrue(a)

(* What a replay has confirmed is true. *)
LEMMA ReplaysTrue ==
  ASSUME CallsInv, PlansInv, Working("got"), Top.owisdom # NULL, Top.got # NULL
  PROVE  /\ Top.sol \in Stored /\ Top.sol.s = Top.p /\ Top.sol.slvndx # INFEASIBLE
         /\ IsTrue(Top.sol)
<1>1. CallFrame(Top) /\ PlansFrame(Top) /\ Top.at = "got"
  BY DEF Working, CallsInv, Chain, PlansInv, Calls
<1>2. Top.sol \in Stored /\ Top.sol.s = Top.p
  BY <1>1 DEF Working, TypedFrame
<1>3. Top.sol.slvndx # INFEASIBLE /\ Top.sol.slvndx = Top.s
  BY <1>1 DEF CallFrame, ReplayFrame
<1>4. Allowed(Top.p, Top.s, Top.sol.l) /\ Plannable(Top.p, Top.sol.l)
  BY <1>1, ObeysPlannable DEF PlansFrame
<1> QED  BY <1>2, <1>3, <1>4 DEF IsTrue

LEMMA UnblessedTrueNext ==
  ASSUME Bertrand, PlannerInv, Types, CallsInv, PlansInv, Denials, UnblessedTrue, [Next]_vars
  PROVE  UnblessedTrue'
<1>1. Solutions(mkhashtab) = {}
  BY StoredIs, MkhashtabIs
<1>2. ASSUME NEW sol \in Stored, NEW plan, NEW bless, NEW wisdom, Finish(plan, sol, bless, wisdom),
             sol.slvndx # INFEASIBLE => IsTrue(sol)
      PROVE  UnblessedTrue'
  <2>1. Solutions(htab_unblessed)' \subseteq Solutions(htab_unblessed) \cup {sol}
    <3>1. \/ htab_unblessed' = htab_unblessed
          \/ Solutions(htab_unblessed)' = Kept(htab_unblessed, sol) \cup {sol}
      BY <1>2, FinishDoes DEF Types, tables
    <3> QED  BY <3>1 DEF Kept
  <2> QED  BY <1>2, <2>1 DEF UnblessedTrue
<1>3. ASSUME UNCHANGED tables PROVE UnblessedTrue'
  BY <1>3 DEF UnblessedTrue, tables
<1>4. CASE Conclude
  <2>1. /\ Working("searched") /\ Top.owisdom = NULL /\ (timed_out => Top.best = NULL)
        /\ \/ UNCHANGED tables
           \/ /\ wisdom_state # "BOGUS" /\ ~(timed_out /\ Top.flags.limit = 0)
              /\ \E sol \in Stored :
                   /\ sol.s = Top.p /\ sol.l = Top.sol.l
                   /\ sol.slvndx = (IF Top.best = NULL THEN INFEASIBLE ELSE Top.slvndx)
                   /\ sol.limit = (IF timed_out THEN Top.sol.limit ELSE 0)
                   /\ Finish(Top.best, sol, Top.flags.bless \/ timed_out, wisdom_state)
    BY <1>4, ConcludeDoes
  <2>2. ASSUME wisdom_state # "BOGUS", ~(timed_out /\ Top.flags.limit = 0),
               NEW sol \in Stored, sol.s = Top.p, sol.l = Top.sol.l,
               sol.slvndx = (IF Top.best = NULL THEN INFEASIBLE ELSE Top.slvndx),
               sol.limit = (IF timed_out THEN Top.sol.limit ELSE 0),
               Finish(Top.best, sol, Top.flags.bless \/ timed_out, wisdom_state)
        PROVE  UnblessedTrue'
    <3>1. sol.slvndx # INFEASIBLE => IsTrue(sol)
      BY <2>1, <2>2, ConcludesTrue
    <3>2. PICK bless : bless = (Top.flags.bless \/ timed_out)
      OBVIOUS
    <3>3. Finish(Top.best, sol, bless, wisdom_state)
      BY <2>2, <3>2, Zenon
    <3> QED  BY <1>2, <3>1, <3>3
  <2> QED  BY <1>3, <2>1, <2>2
<1>5. CASE Replayed
  <2>1. /\ Working("got") /\ Top.owisdom # NULL
        /\ \/ UNCHANGED tables
           \/ Top.got # NULL /\ Finish(Top.got, Top.sol, Top.flags.bless, Top.owisdom)
    BY <1>5, ReplayedDoes
  <2> QED  BY <1>2, <1>3, <2>1, ReplaysTrue
<1>6. CASE Lookup \/ Solve \/ Part \/ Search \/ Trying
  <2>1. UNCHANGED tables
    BY <1>6, LookupDoes, SolveDoes, PartDoes, SearchDoes, TryDoes
  <2> QED  BY <1>3, <2>1
<1>7. CASE Begins
  <2>1. Trust
    BY DEF CallsInv
  <2>2. ForgetEverything \/ UNCHANGED tables
    BY ONLY <1>7, <2>1, Types, BeginsDoes
  <2>3. ForgetEverything => Solutions(htab_unblessed') = {}
    BY <1>1 DEF ForgetEverything
  <2> QED  BY <1>3, <2>2, <2>3 DEF UnblessedTrue
<1>8. CASE Rests
  <2>1. htab_unblessed' = htab_unblessed \/ htab_unblessed' = mkhashtab
    BY <1>8, RestsDoes DEF ForgetEverything, vars
  <2> QED  BY <1>1, <2>1 DEF UnblessedTrue
<1> QED  BY <1>4, <1>5, <1>6, <1>7, <1>8, NextIs DEF mkplan, Trying

(* A call that searches does so as no solution that is kept would do.  One    *)
(* that follows a solution which is to be kept knows of none that would.      *)
Unique(f, T, try) ==
  /\ f.owisdom = NULL /\ f.at # "lookup" /\ try \in {1, 3} =>
       \A a \in T : a.s = f.p => ~Subsumes(a, f.flags)
  /\ f.owisdom # NULL /\ f.flags.bless =>
       \A a \in T : a.s = f.p /\ Subsumes(a, f.sol) => a = f.sol

RedundancyInv ==
  FilesTrue => /\ Irredundant(htab_blessed)
               /\ \A i \in Calls : Unique(stack[i], Blessed, api.try)

(* The table is kept, and the innermost call goes on. *)
LEMMA UniqueBecomes ==
  ASSUME PlannerInv, CallsInv, RedundancyInv, NEW at, Working(at), UNCHANGED <<tables, api>>,
         NEW f, Becoming(f), FilesTrue => Unique(f, Blessed, api.try)
  PROVE  RedundancyInv'
<1>1. \A i \in Calls' : stack'[i] = f \/ \E j \in Calls : stack'[i] = stack[j]
  BY FramesAre DEF Working, Becoming, CallsInv
<1>2. Blessed' = Blessed /\ htab_blessed' = htab_blessed /\ api' = api /\ FilesTrue' = FilesTrue
  BY DEF Blessed, tables, FilesTrue, IsTrue, Allowed
<1> QED  BY <1>1, <1>2 DEF RedundancyInv

(* It stays as unique as it was. *)
LEMMA UniqueStays ==
  ASSUME NEW f, NEW g, NEW T, NEW try, Unique(f, T, try), f.at # "lookup",
         g.p = f.p, g.flags = f.flags, SameSearch(f, g)
  PROVE  Unique(g, T, try)
BY DEF Unique, SameSearch

(* The innermost call returns; a solution for its problem may be kept. *)
LEMMA UniqueReturns ==
  ASSUME Bertrand, PlannerInv, Types, CallsInv, RedundancyInv, NEW at, Working(at), UNCHANGED api,
         NEW plan, Returning(plan),
         \/ htab_blessed' = htab_blessed
         \/ \E sol \in Stored :
              /\ sol.s = Top.p /\ htab_blessed' = htab_insert(htab_blessed, sol)
              /\ Blessed' = Kept(htab_blessed, sol) \cup {sol}
              /\ FilesTrue => \A a \in Blessed : a.s = sol.s /\ Subsumes(a, sol) => a = sol
  PROVE  RedundancyInv'
<1>1. PICK n \in Nat \ {0} : n = Len(stack) /\ Top = stack[n] /\ Calls = 1 .. n /\ n \in 1 .. n
  BY DEF Working, Calls
<1>2. Calls' = 1 .. n - 1 /\ \A i \in 1 .. n - 1 : stack'[i] = stack[i]
  BY <1>1 DEF Returning, Returned, Calls
<1>3. \A i \in 1 .. n - 1 : i \in 1 .. n /\ i < n
  OBVIOUS
<1>4. FilesTrue' = FilesTrue
  BY DEF FilesTrue, IsTrue, Allowed
<1>5. CASE htab_blessed' = htab_blessed
  BY <1>1, <1>2, <1>3, <1>4, <1>5 DEF RedundancyInv, Blessed
<1>6. ASSUME NEW sol \in Stored, sol.s = Top.p, htab_blessed' = htab_insert(htab_blessed, sol),
             Blessed' = Kept(htab_blessed, sol) \cup {sol},
             FilesTrue => \A a \in Blessed : a.s = sol.s /\ Subsumes(a, sol) => a = sol
      PROVE  RedundancyInv'
  <2> SUFFICES ASSUME FilesTrue
               PROVE  /\ Irredundant(htab_blessed')
                      /\ \A i \in Calls' : Unique(stack'[i], Blessed', api.try)
    BY <1>4 DEF RedundancyInv
  <2>1. IsTable(htab_blessed, Stored) /\ Irredundant(htab_blessed)
    BY DEF Types, Tables, RedundancyInv
  <2>2. Irredundant(htab_blessed')
    BY <1>6, <2>1, InsertSpare DEF Blessed
  <2>3. ASSUME NEW i \in 1 .. n - 1 PROVE Unique(stack[i], Blessed', api.try)
    <3>1. Unique(stack[i], Blessed, api.try) /\ stack[i].p # Top.p
      BY <1>1, <1>3, NoCircle DEF PlannerInv, CallsInv, RedundancyInv
    <3>2. \A a \in Blessed' : a.s = stack[i].p => a \in Blessed
      BY <1>6, <3>1 DEF Kept, Blessed
    <3> QED  BY <3>1, <3>2 DEF Unique
  <2> QED  BY <1>2, <2>2, <2>3
<1> QED  BY <1>5, <1>6

(* A search that is over found what none of those kept would have told. *)
LEMMA SearchUnique ==
  ASSUME PlannerInv, Types, CallsInv, PlansInv, NoLie, RedundancyInv, FilesTrue,
         Working("searched"), Top.owisdom = NULL, wisdom_state \in {"NORMAL", "ONLY"},
         timed_out => Top.best = NULL,
         NEW sol \in Stored, sol.s = Top.p, sol.l = Top.sol.l, sol.u = Top.sol.u,
         sol.slvndx = (IF Top.best = NULL THEN INFEASIBLE ELSE Top.slvndx),
         sol.limit = (IF timed_out THEN Top.sol.limit ELSE 0),
         NEW a \in Blessed, a.s = sol.s, Subsumes(a, sol)
  PROVE  FALSE
<1>1. /\ Row /\ Trust /\ stack # <<>> /\ CallFrame(Top) /\ PlansFrame(Top) /\ Top.at = "searched"
      /\ Unique(Top, Blessed, api.try) /\ TypedFrame(Top) /\ Top.p \in Problems
  BY DEF Working, CallsInv, Chain, PlansInv, RedundancyInv, Calls
<1>2. api.at # "idle"
  BY <1>1 DEF Trust
<1>3. api.try \in {1, 3}
  BY <1>1, <1>2, SearchOutside
<1>4. ~Subsumes(a, Top.flags)
  BY <1>1, <1>3 DEF Unique
<1>5. Top.last_x # NULL /\ Top.sol.l = Top.last_x /\ Top.flags.l \subseteq Top.sol.l
      /\ Top.sol.u = Top.flags.u /\ Top.sol.limit = Top.flags.limit
      /\ (Top.best = NULL => Top.sol.l = Top.flags.l)
  BY <1>1 DEF CallFrame, SearchFrame
<1>6. \A b \in Stored : b.limit \in Nat
  <2>1. \A b \in Stored : b.limit \in Limits \cup {0}
    BY StoredIs
  <2>2. \A limit \in Limits \cup {0} : limit \in Nat
    BY PlannerAssumption
  <2> QED  BY <2>1, <2>2
<1>7. a \in Stored
  BY IrredundantIs DEF Types, Tables, Blessed
<1>8. CASE a.slvndx # INFEASIBLE
  BY <1>4, <1>5, <1>8 DEF Subsumes
<1>9. CASE a.slvndx = INFEASIBLE /\ Top.best = NULL
  <2>1. Top.flags.limit \in Nat
    <3>1. \A limit \in Limits \cup {0} : limit \in Nat
      BY PlannerAssumption
    <3> QED  BY <1>1, <3>1 DEF TypedFrame
  <2>2. sol.slvndx = INFEASIBLE /\ sol.l = Top.flags.l /\ sol.limit \in Nat /\ a.limit \in Nat
        /\ sol.limit <= Top.flags.limit
    BY <1>5, <1>6, <1>7, <1>9, <2>1
  <2>3. a.l \subseteq sol.l /\ a.limit <= sol.limit
    BY <1>9 DEF Subsumes
  <2>4. a.limit <= Top.flags.limit
    BY <2>1, <2>2, <2>3
  <2> QED  BY <1>4, <1>9, <2>2, <2>3, <2>4 DEF Subsumes
<1>10. CASE a.slvndx = INFEASIBLE /\ Top.best # NULL
  <2>1. a.l \subseteq sol.l /\ a.limit <= sol.limit /\ sol.limit = 0 /\ a.limit \in Nat
    BY <1>6, <1>7, <1>10 DEF Subsumes
  <2>2. a.limit = 0
    BY <2>1
  <2>3. ~Plannable(Top.p, a.l)
    <3>1. a \in Known /\ Clean
      BY DEF Known, Clean
    <3> QED  BY <1>10, <2>2, <3>1 DEF NoLie, IsTrue
  <2>4. Plannable(Top.p, Top.sol.l)
    BY <1>1, <1>10, ObeysPlannable DEF PlansFrame
  <2> QED  BY <2>1, <2>3, <2>4, PlannableLess
<1> QED  BY <1>8, <1>9, <1>10

(* So does a solution that is followed from now on. *)
LEMMA ReplayUnique ==
  ASSUME PlannerInv, Types, NoLie, UnblessedTrue, RedundancyInv, FilesTrue, NEW f,
         f.owisdom # NULL, f.sol \in Known, f.sol \in Stored, f.sol.s = f.p,
         f.sol.slvndx # INFEASIBLE, Subsumes(f.sol, f.flags),
         f.sol \in Blessed \/ \A a \in Blessed : a.s = f.p => ~Subsumes(a, f.flags)
  PROVE  Unique(f, Blessed, api.try)
<1> SUFFICES ASSUME NEW a \in Blessed, a.s = f.p, Subsumes(a, f.sol) PROVE a = f.sol
  BY DEF Unique
<1>1. Spare(Blessed) /\ Blessed \subseteq Stored
  BY IrredundantIs DEF Types, Tables, Blessed, RedundancyInv
<1>2. CASE f.sol \in Blessed
  BY <1>1, <1>2 DEF Spare
<1>3. CASE f.sol \notin Blessed /\ a.slvndx # INFEASIBLE
  BY <1>3 DEF Subsumes
<1>4. CASE f.sol \notin Blessed /\ a.slvndx = INFEASIBLE
  <2>1. a.l \subseteq f.sol.l /\ a.limit <= f.sol.limit
    BY <1>4 DEF Subsumes
  <2>2. f.sol.limit = 0 /\ a.limit \in Nat
    <3>1. a.limit \in Limits \cup {0} /\ f.sol.limit = 0
      BY <1>1, StoredIs
    <3>2. \A limit \in Limits \cup {0} : limit \in Nat
      BY PlannerAssumption
    <3> QED  BY <3>1, <3>2
  <2>3. a.limit = 0
    BY <2>1, <2>2
  <2>4. ~Plannable(f.p, a.l)
    <3>1. a \in Known /\ Clean
      BY DEF Known, Clean
    <3> QED  BY <1>4, <2>3, <3>1 DEF NoLie, IsTrue
  <2>5. Plannable(f.p, f.sol.l)
    BY <1>4 DEF UnblessedTrue, IsTrue, Known
  <2> QED  BY <2>1, <2>4, <2>5, PlannableLess
<1> QED  BY <1>2, <1>3, <1>4

LEMMA RedundancyStep ==
  ASSUME Bertrand, PlannerInv, Types, CallsInv, PlansInv, NoLie, UnblessedTrue, RedundancyInv, mkplan
  PROVE  RedundancyInv'
<1>1. UNCHANGED api
  BY StepIs
<1>2. ASSUME NEW at, Working(at)
      PROVE  /\ Top.at = at /\ Row /\ Trust /\ stack # <<>> /\ api.at # "idle" /\ IsFrame(Top)
             /\ FilesTrue => Unique(Top, Blessed, api.try)
  BY <1>2 DEF Working, CallsInv, Trust, RedundancyInv, Calls
<1>3. ASSUME NEW at, Working(at), at # "lookup", UNCHANGED tables,
             NEW f, Becoming(f), SameSearch(Top, f)
      PROVE  RedundancyInv'
  <2>1. FilesTrue => Unique(f, Blessed, api.try)
    BY <1>2, <1>3, UniqueStays DEF Becoming
  <2> QED  BY <1>1, <1>3, <2>1, UniqueBecomes
<1>4. ASSUME NEW at, Working(at), htab_blessed' = htab_blessed, NEW plan, Returning(plan)
      PROVE  RedundancyInv'
  BY <1>1, <1>4, UniqueReturns
<1>5. CASE Lookup
  <2>1. Working("lookup") /\ Top.owisdom = NULL /\ UNCHANGED tables /\ UNCHANGED htab_blessed
    BY <1>5, LookupDoes DEF tables
  <2>2. ASSUME wisdom_state \notin {"BOGUS", "ONLY"}, NEW f, Becoming(f), f.at = "relax",
               SameSearch(Top, f),
               wisdom_state = "NORMAL" => \A a \in Known : a.s = Top.p => ~Subsumes(a, Top.flags)
        PROVE  RedundancyInv'
    <3>1. api.try \in {1, 3} => wisdom_state = "NORMAL"
      BY <1>2, <2>1, <2>2, SearchOutside
    <3>2. f.owisdom = NULL /\ f.p = Top.p /\ f.flags = Top.flags
      BY <2>1, <2>2 DEF SameSearch, Becoming
    <3>3. Unique(f, Blessed, api.try)
      BY <2>2, <3>1, <3>2 DEF Unique, Known
    <3> QED  BY <1>1, <2>1, <2>2, <3>3, UniqueBecomes
  <2>3. ASSUME NEW f, Becoming(f), f.owisdom = wisdom_state,
               f.sol \in Known, f.sol \in Stored, f.sol.s = Top.p,
               f.sol.slvndx # INFEASIBLE, Subsumes(f.sol, Top.flags),
               f.sol \in Blessed \/ \A a \in Blessed : a.s = Top.p => ~Subsumes(a, Top.flags)
        PROVE  RedundancyInv'
    <3>1. f.owisdom # NULL /\ f.p = Top.p /\ f.flags = Top.flags
      BY <1>2, <2>1, <2>3, NullAssumption DEF Row, Becoming
    <3>2. FilesTrue => Unique(f, Blessed, api.try)
      BY <2>3, <3>1, ReplayUnique
    <3> QED  BY <1>1, <2>1, <2>3, <3>2, UniqueBecomes
  <2> QED  BY <1>4, <1>5, <2>1, <2>2, <2>3, LookupDoes
<1>6. CASE Solve
  <2>1. Working("solve") /\ UNCHANGED <<tables, api>>
    BY <1>6, SolveDoes
  <2>2. ASSUME NEW f, NEW g, Called(stack, stack', f, g), f.p = Top.p, f.flags = Top.flags,
               f.at = "part", SameSearch(Top, f),
               g = Frame(Solver.parts[Len(Top.parts) + 1], Top.sol.l, Top.sol.u, 0, Top.flags.bless)
        PROVE  RedundancyInv'
    <3>1. \A i \in Calls' : stack'[i] = f \/ stack'[i] = g \/ \E j \in Calls : stack'[i] = stack[j]
      BY <2>1, <2>2, FramesAre DEF Working, CallsInv
    <3>2. FilesTrue => Unique(f, Blessed, api.try)
      BY <1>2, <2>1, <2>2, UniqueStays
    <3>3. Unique(g, Blessed, api.try)
      <4>1. g.owisdom = NULL /\ g.at = "lookup"
        BY <2>2, FrameIs
      <4> QED  BY <4>1 DEF Unique
    <3>4. Blessed' = Blessed /\ htab_blessed' = htab_blessed /\ FilesTrue' = FilesTrue
      BY <2>1 DEF Blessed, tables, FilesTrue, IsTrue, Allowed
    <3> QED  BY <1>1, <3>1, <3>2, <3>3, <3>4 DEF RedundancyInv
  <2> QED  BY <1>3, <1>6, <2>1, <2>2, SolveDoes
<1>7. CASE Part
  BY <1>3, <1>7, PartDoes
<1>8. CASE Replayed
  <2>1. /\ Working("got") /\ Top.owisdom # NULL
        /\ \/ Returning(NULL) /\ UNCHANGED tables
           \/ /\ Top.got # NULL /\ Returning(Top.got)
              /\ Finish(Top.got, Top.sol, Top.flags.bless, Top.owisdom)
    BY <1>8, ReplayedDoes
  <2>2. CASE Returning(NULL) /\ UNCHANGED tables
    BY <1>4, <2>1, <2>2 DEF tables
  <2>3. CASE /\ Top.got # NULL /\ Returning(Top.got)
             /\ Finish(Top.got, Top.sol, Top.flags.bless, Top.owisdom)
    <3>1. Top.sol \in Stored /\ Top.sol.s = Top.p
      BY <2>1, <2>3, ReplaysTrue
    <3>2. \/ htab_blessed' = htab_blessed
          \/ /\ Top.flags.bless /\ htab_blessed' = htab_insert(htab_blessed, Top.sol)
             /\ Blessed' = Kept(htab_blessed, Top.sol) \cup {Top.sol}
      BY <2>3, <3>1, FinishDoes DEF Types, tables
    <3>3. FilesTrue /\ Top.flags.bless =>
            \A a \in Blessed : a.s = Top.sol.s /\ Subsumes(a, Top.sol) => a = Top.sol
      BY <1>2, <2>1, <3>1 DEF Unique
    <3> QED  BY <1>1, <2>1, <2>3, <3>1, <3>2, <3>3, UniqueReturns
  <2> QED  BY <2>1, <2>2, <2>3
<1>9. CASE Search
  <2>1. Working("relax") /\ Top.owisdom = NULL /\ UNCHANGED tables
    BY <1>9, SearchDoes
  <2>2. PICK f : Becoming(f) /\ f.owisdom = NULL
    BY <1>9, SearchDoes
  <2>3. FilesTrue => Unique(f, Blessed, api.try)
    BY <1>2, <2>1, <2>2 DEF Unique, Becoming
  <2> QED  BY <1>1, <2>1, <2>2, <2>3, UniqueBecomes
<1>10. CASE Trying
  <2>1. Working(Top.at) /\ Top.at # "lookup" /\ UNCHANGED tables
    BY <1>10, TryDoes
  <2>2. PICK f, h : Becoming(h) /\ Onward(f, h) /\ SameSearch(Top, f)
    BY <1>10, TryDoes
  <2>3. SameSearch(Top, h)
    BY <2>2 DEF Onward, SameSearch
  <2> QED  BY <1>3, <2>1, <2>2, <2>3
<1>11. CASE Conclude
  <2>1. /\ Working("searched") /\ Top.owisdom = NULL /\ (timed_out => Top.best = NULL)
        /\ \/ Returning(NULL) /\ UNCHANGED tables
           \/ /\ Returning(Top.best)
              /\ \E sol \in Stored :
                   /\ sol.s = Top.p /\ sol.l = Top.sol.l /\ sol.u = Top.sol.u
                   /\ sol.slvndx = (IF Top.best = NULL THEN INFEASIBLE ELSE Top.slvndx)
                   /\ sol.limit = (IF timed_out THEN Top.sol.limit ELSE 0)
                   /\ Finish(Top.best, sol, Top.flags.bless \/ timed_out, wisdom_state)
    BY <1>11, ConcludeDoes
  <2>2. CASE Returning(NULL) /\ UNCHANGED tables
    BY <1>4, <2>1, <2>2 DEF tables
  <2>3. ASSUME Returning(Top.best), NEW sol \in Stored,
               sol.s = Top.p, sol.l = Top.sol.l, sol.u = Top.sol.u,
               sol.slvndx = (IF Top.best = NULL THEN INFEASIBLE ELSE Top.slvndx),
               sol.limit = (IF timed_out THEN Top.sol.limit ELSE 0),
               Finish(Top.best, sol, Top.flags.bless \/ timed_out, wisdom_state)
        PROVE  RedundancyInv'
    <3>1. PICK bless : bless = (Top.flags.bless \/ timed_out)
      OBVIOUS
    <3>2. Finish(Top.best, sol, bless, wisdom_state)
      BY <2>3, <3>1, Zenon
    <3>3. \/ htab_blessed' = htab_blessed
          \/ /\ wisdom_state \in {"NORMAL", "ONLY"}
             /\ htab_blessed' = htab_insert(htab_blessed, sol)
             /\ Blessed' = Kept(htab_blessed, sol) \cup {sol}
      BY <3>2, FinishDoes DEF Types, tables
    <3>4. wisdom_state \in {"NORMAL", "ONLY"} /\ FilesTrue =>
            \A a \in Blessed : a.s = sol.s /\ Subsumes(a, sol) => a = sol
      BY <2>1, <2>3, SearchUnique
    <3> QED  BY <1>1, <2>1, <2>3, <3>3, <3>4, UniqueReturns
  <2> QED  BY <2>1, <2>2, <2>3
<1> QED  BY <1>5, <1>6, <1>7, <1>8, <1>9, <1>10, <1>11 DEF mkplan, Trying

LEMMA MkhashtabSpare ==
  ASSUME Bertrand
  PROVE  Irredundant(mkhashtab)
<1>1. IsTable(mkhashtab, Stored) /\ Solutions(mkhashtab) = {}
  BY StoredIs, MkhashtabIs
<1>2. Live(mkhashtab) = {}
  BY <1>1 DEF Solutions
<1> QED  BY <1>2 DEF Irredundant

LEMMA RedundancyNext ==
  ASSUME Bertrand, PlannerInv, Types, CallsInv, PlansInv, NoLie, UnblessedTrue, RedundancyInv,
         [Next]_vars
  PROVE  RedundancyInv'
<1>1. FilesTrue' = FilesTrue
  BY DEF FilesTrue, IsTrue, Allowed
<1>2. CASE Begins
  <2>1. PICK level \in DOMAIN Levels :
          /\ stack' = <<Frame(api'.p, api'.l, Levels[level] \cup api'.l, api'.limit,
                              api'.at = "recreate")>>
          /\ ForgetEverything \/ UNCHANGED tables
    BY <1>2, BeginsDoes DEF CallsInv
  <2>2. PICK f : Calls' = {1} /\ stack'[1] = f /\ f.at = "lookup" /\ f.owisdom = NULL
    BY <2>1, FirstFrame
  <2>3. \A T, try : Unique(f, T, try)
    BY <2>2 DEF Unique
  <2>4. FilesTrue => Irredundant(htab_blessed')
    BY <2>1, MkhashtabSpare DEF ForgetEverything, tables, RedundancyInv
  <2> QED  BY <1>1, <2>2, <2>3, <2>4 DEF RedundancyInv
<1>3. CASE Rests
  <2>1. CASE UNCHANGED vars
    BY <1>1, <2>1 DEF RedundancyInv, vars, Calls, Blessed
  <2>2. ASSUME stack' = <<>>, FilesTrue => Irredundant(htab_blessed') PROVE RedundancyInv'
    BY <1>1, <2>2 DEF RedundancyInv, Calls
  <2>3. UNCHANGED vars \/ stack' = <<>>
    BY <1>3, RestsDoes
  <2>4. ASSUME NEW file \in Files, htab_blessed' = imprt(htab_blessed, file), FilesTrue
        PROVE  Irredundant(htab_blessed')
    <3>1. file \in Seq(Stored)
      BY PlannerAssumption
    <3> QED  BY <2>4, <3>1, ImportSpare DEF Types, Tables, RedundancyInv
  <2>5. \/ UNCHANGED vars
        \/ htab_blessed' = htab_blessed
        \/ \E file \in Files : htab_blessed' = imprt(htab_blessed, file)
        \/ ForgetEverything
    BY <1>3, RestsDoes
  <2>6. CASE htab_blessed' = htab_blessed
    BY <2>1, <2>2, <2>3, <2>6 DEF RedundancyInv
  <2>7. CASE \E file \in Files : htab_blessed' = imprt(htab_blessed, file)
    BY <2>1, <2>2, <2>3, <2>4, <2>7
  <2>8. CASE ForgetEverything
    BY <2>1, <2>2, <2>3, <2>8, MkhashtabSpare DEF ForgetEverything
  <2> QED  BY <2>1, <2>5, <2>6, <2>7, <2>8
<1> QED  BY <1>2, <1>3, NextIs, RedundancyStep

--------------------------------------------------------------------------------
(* Wisdom that is enough *)

(* A solver for p is among the solutions T that may be used under these flags. *)
Answered(T, p, l, u) ==
  \E a \in T : a.s = p /\ a.slvndx # INFEASIBLE /\ a.u \subseteq u /\ l \subseteq a.l

AllAnswered(T, p, n, l, u) ==
  \A k \in DOMAIN Solvers[p][n].parts : Answered(T, Solvers[p][n].parts[k], l, u)

(* What a solution needs to be followed is among T. *)
Supported(a, T) == a.slvndx # INFEASIBLE => AllAnswered(T, a.s, a.slvndx, a.l, a.u)

SoundSolutions(T) == \A a \in T : IsTrue(a) /\ Supported(a, T)

(* The files say what is so, and each has all that is needed to follow its    *)
(* solutions, as those have that are written from a sound table.             *)
FilesSound == \A file \in Files : SoundSolutions({file[i] : i \in DOMAIN file})

(* What is answered by the one is by the other. *)
Answers(T, U) == \A p, l, u : Answered(T, p, l, u) => Answered(U, p, l, u)

LEMMA AnsweredLess ==
  ASSUME NEW T, NEW p, NEW l, NEW u, Answered(T, p, l, u), NEW m, NEW v, m \subseteq l, u \subseteq v
  PROVE  Answered(T, p, m, v)
BY DEF Answered

LEMMA AnswersMore ==
  ASSUME NEW T, NEW U, T \subseteq U
  PROVE  Answers(T, U)
BY DEF Answers, Answered

LEMMA SupportedMore ==
  ASSUME NEW T, NEW U, Answers(T, U), NEW a, Supported(a, T)
  PROVE  Supported(a, U)
BY DEF Answers, Supported, AllAnswered

(* Solutions in which a true one replaces those that it subsumes answer the same. *)
LEMMA TruthAnswers ==
  ASSUME NEW T, NEW U, NEW sol \in U, \A a \in T : a \in U \/ (a.s = sol.s /\ Subsumes(sol, a)),
         sol \in Stored, T \subseteq Stored, IsTrue(sol), \A a \in T : IsTrue(a)
  PROVE  Answers(T, U)
<1> SUFFICES ASSUME NEW p, NEW l, NEW u, Answered(T, p, l, u) PROVE Answered(U, p, l, u)
  BY DEF Answers
<1>0. PICK a \in T : a.s = p /\ a.slvndx # INFEASIBLE /\ a.u \subseteq u /\ l \subseteq a.l
  BY DEF Answered
<1>4. CASE a \in U
  BY <1>0, <1>4 DEF Answered
<1> SUFFICES ASSUME a \notin U PROVE Answered(U, p, l, u)
  BY <1>4
<1>1. a.s = sol.s /\ Subsumes(sol, a) /\ a.limit = 0
  <2>1. a \in Stored
    OBVIOUS
  <2> QED  BY <1>0, <2>1, StoredIs
<1>2. CASE sol.slvndx # INFEASIBLE
  <2>1. a.l \subseteq sol.l /\ sol.u \subseteq a.u
    BY <1>1, <1>2 DEF Subsumes
  <2>2. l \subseteq sol.l /\ sol.u \subseteq u /\ sol.s = p
    BY <1>0, <1>1, <2>1
  <2> QED  BY <1>2, <2>2 DEF Answered
<1>3. CASE sol.slvndx = INFEASIBLE
  <2>1. sol.l \subseteq a.l /\ sol.limit <= 0
    BY <1>1, <1>3 DEF Subsumes
  <2>2. sol.limit \in Nat
    <3>1. sol.limit \in Limits \cup {0}
      BY StoredIs
    <3>2. \A limit \in Limits \cup {0} : limit \in Nat
      BY PlannerAssumption
    <3> QED  BY <3>1, <3>2
  <2>3. sol.limit = 0
    BY <2>1, <2>2
  <2>4. ~Plannable(p, sol.l) /\ Plannable(p, a.l)
    BY <1>0, <1>1, <1>3, <2>3 DEF IsTrue
  <2> QED  BY <2>1, <2>4, PlannableLess
<1> QED  BY <1>2, <1>3

(* If all that is known is true, a question that is answered is not denied.   *)
LEMMA AnsweredIs ==
  ASSUME NEW T, T \subseteq Stored, \A a \in T : IsTrue(a),
         NEW flags, flags.limit = 0, NEW p, Answered(T, p, flags.l, flags.u)
  PROVE  /\ \E a \in T : a.s = p /\ Subsumes(a, flags)
         /\ \A a \in T : a.s = p /\ Subsumes(a, flags) => a.slvndx # INFEASIBLE
<1>1. PICK a \in T : a.s = p /\ a.slvndx # INFEASIBLE /\ a.u \subseteq flags.u /\ flags.l \subseteq a.l
  BY DEF Answered
<1>2. Subsumes(a, flags) /\ Plannable(p, a.l)
  BY <1>1 DEF Subsumes, IsTrue
<1>3. ASSUME NEW b \in T, b.s = p, Subsumes(b, flags), b.slvndx = INFEASIBLE PROVE FALSE
  <2>1. b.l \subseteq flags.l /\ b.limit <= 0
    BY <1>3 DEF Subsumes
  <2>2. b.limit \in Nat
    <3>1. b.limit \in Limits \cup {0}
      BY StoredIs
    <3>2. \A limit \in Limits \cup {0} : limit \in Nat
      BY PlannerAssumption
    <3> QED  BY <3>1, <3>2
  <2>3. b.limit = 0
    BY <2>1, <2>2
  <2>4. ~Plannable(p, b.l) /\ b.l \subseteq a.l
    BY <1>1, <1>3, <2>1, <2>3 DEF IsTrue
  <2> QED  BY <1>2, <2>4, PlannableLess
<1> QED  BY <1>1, <1>2, <1>3

(* Files that are sound are true. *)
LEMMA FilesAre ==
  FilesSound => FilesTrue
<1> SUFFICES ASSUME FilesSound, NEW file \in Files, NEW i \in DOMAIN file PROVE IsTrue(file[i])
  BY DEF FilesTrue
<1>1. file[i] \in {file[j] : j \in DOMAIN file}
  OBVIOUS
<1> QED  BY <1>1 DEF FilesSound, SoundSolutions

(* A true solution is inserted. *)
LEMMA InsertSound ==
  ASSUME NEW T, NEW U, NEW sol \in U, U \subseteq T \cup {sol},
         \A a \in T : a \in U \/ (a.s = sol.s /\ Subsumes(sol, a)),
         sol \in Stored, T \subseteq Stored, SoundSolutions(T), IsTrue(sol), Supported(sol, T)
  PROVE  SoundSolutions(U) /\ Answers(T, U)
<1>1. Answers(T, U)
  BY TruthAnswers DEF SoundSolutions
<1>2. \A a \in U : Supported(a, U)
  BY <1>1, SupportedMore DEF SoundSolutions
<1> QED  BY <1>1, <1>2 DEF SoundSolutions

(* A sound file is read. *)
LEMMA ImportSound ==
  ASSUME Bertrand, NEW ht, IsTable(ht, Stored), SoundSolutions(Solutions(ht)),
         NEW file \in Seq(Stored), SoundSolutions({file[i] : i \in DOMAIN file})
  PROVE  /\ SoundSolutions(Solutions(imprt(ht, file)))
         /\ Answers(Solutions(ht), Solutions(imprt(ht, file)))
<1>1. PICK Good : \A a : a \in Good <=> IsTable(a, Stored)
  BY TablesAre
<1> DEFINE Read(a, i) ==
             /\ Solutions(a) \subseteq Solutions(ht) \cup {file[j] : j \in DOMAIN file}
             /\ Answers(Solutions(ht), Solutions(a))
             /\ \A j \in 1 .. i : file[j].slvndx # INFEASIBLE =>
                  Answered(Solutions(a), file[j].s, file[j].l, file[j].u)
<1>2. PICK T : T = {e \in (0 .. Len(file)) \X Good : Read(e[2], e[1])}
  OBVIOUS
<1>3. <<0, ht>> \in T
  <2>1. Read(ht, 0)
    BY AnswersMore
  <2>2. <<0, ht>>[1] = 0 /\ <<0, ht>>[2] = ht /\ <<0, ht>> \in (0 .. Len(file)) \X Good
    BY <1>1
  <2> QED  BY <1>2, <2>1, <2>2
<1>4. \A i \in DOMAIN file : i \in 1 .. Len(file) /\ file[i] \in Stored /\ IsTrue(file[i])
  <2>1. SUFFICES ASSUME NEW i \in DOMAIN file
                 PROVE  i \in 1 .. Len(file) /\ file[i] \in Stored /\ IsTrue(file[i])
    OBVIOUS
  <2>2. file[i] \in {file[j] : j \in DOMAIN file}
    OBVIOUS
  <2>3. IsTrue(file[i])
    BY <2>2 DEF SoundSolutions
  <2> QED  BY <2>3
<1>5. Solutions(ht) \subseteq Stored /\ \A a \in Solutions(ht) : IsTrue(a)
  BY IrredundantIs DEF SoundSolutions
<1>6. ASSUME NEW i \in 1 .. Len(file), NEW a, <<i - 1, a>> \in T
      PROVE  <<i, Imported(a, file[i])>> \in T
  <2>1. IsTable(a, Stored) /\ Read(a, i - 1) /\ i \in DOMAIN file /\ i \in 0 .. Len(file)
    <3>1. <<i - 1, a>>[1] = i - 1 /\ <<i - 1, a>>[2] = a
      OBVIOUS
    <3>2. <<i - 1, a>> \in (0 .. Len(file)) \X Good /\ Read(<<i - 1, a>>[2], <<i - 1, a>>[1])
      BY <1>2, <1>6
    <3>3. a \in Good
      BY <3>2
    <3> QED  BY <1>1, <3>1, <3>2, <3>3
  <2>2. PICK sol \in Stored : sol = file[i] /\ IsTrue(sol)
    BY <1>4, <2>1
  <2>3. PICK b : b = Imported(a, sol)
    OBVIOUS
  <2>4. Solutions(a) \subseteq Stored /\ \A c \in Solutions(a) : IsTrue(c)
    <3>1. \A c \in Solutions(a) : c \in Solutions(ht) \/ \E j \in DOMAIN file : c = file[j]
      BY <2>1
    <3> QED  BY <1>4, <1>5, <3>1
  <2>5. /\ IsTable(b, Stored) /\ Solutions(b) \subseteq Solutions(a) \cup {sol}
        /\ Answers(Solutions(a), Solutions(b))
        /\ sol.slvndx # INFEASIBLE => Answered(Solutions(b), sol.s, sol.l, sol.u)
    <3>1. PICK known : known = htab_lookup(a, sol.s, sol)
      OBVIOUS
    <3>2. sol.s \in Signatures /\ NULL \notin Stored
      BY StoredIs DEF Storable
    <3>3. CASE known = NULL
      <4>1. b = htab_insert(a, sol)
        BY <2>3, <3>1, <3>3 DEF Imported
      <4>2. IsTable(b, Stored) /\ Solutions(b) = Kept(a, sol) \cup {sol}
        BY <2>1, <4>1, StoredIs, InsertKeeps
      <4>3. \A c \in Solutions(a) : c \in Solutions(b) \/ (c.s = sol.s /\ Subsumes(sol, c))
        BY <4>2 DEF Kept
      <4>4. sol \in Solutions(b) /\ Solutions(b) \subseteq Solutions(a) \cup {sol}
        BY <4>2 DEF Kept
      <4>5. Answers(Solutions(a), Solutions(b))
        BY <2>2, <2>4, <4>3, <4>4, TruthAnswers
      <4> QED  BY <4>2, <4>4, <4>5 DEF Answered
    <3>4. CASE known # NULL
      <4>1. b = a
        BY <2>3, <3>1, <3>4 DEF Imported
      <4>2. known \in Solutions(a) /\ known.s = sol.s /\ Subsumes(known, sol)
        BY <2>1, <3>1, <3>2, <3>4, StoredIs, LookupIs
      <4>3. known \in Stored /\ IsTrue(known)
        BY <2>4, <4>2
      <4>4. sol.slvndx # INFEASIBLE => Answered(Solutions(b), sol.s, sol.l, sol.u)
        <5> SUFFICES ASSUME sol.slvndx # INFEASIBLE PROVE Answered(Solutions(b), sol.s, sol.l, sol.u)
          OBVIOUS
        <5>1. PICK U : U = {known}
          OBVIOUS
        <5>5. known \in U /\ {sol} \subseteq Stored /\ (\A c \in {sol} : IsTrue(c))
              /\ \A c \in {sol} : c.s = known.s /\ Subsumes(known, c)
          BY <2>2, <4>2, <5>1
        <5>2. Answers({sol}, U)
          BY <4>3, <5>5, TruthAnswers
        <5>3. Answered({sol}, sol.s, sol.l, sol.u)
          BY DEF Answered
        <5>4. Answered(U, sol.s, sol.l, sol.u)
          BY <5>2, <5>3 DEF Answers
        <5> QED  BY <4>1, <4>2, <5>1, <5>4 DEF Answered
      <4>5. Answers(Solutions(a), Solutions(b))
        BY <4>1, AnswersMore
      <4> QED  BY <2>1, <4>1, <4>4, <4>5
    <3> QED  BY <3>3, <3>4
  <2>6. Read(b, i)
    <3>1. Solutions(b) \subseteq Solutions(ht) \cup {file[j] : j \in DOMAIN file}
      BY <2>1, <2>2, <2>5
    <3>2. Answers(Solutions(ht), Solutions(b))
      BY <2>1, <2>5 DEF Answers
    <3>3. ASSUME NEW j \in 1 .. i, file[j].slvndx # INFEASIBLE
          PROVE  Answered(Solutions(b), file[j].s, file[j].l, file[j].u)
      <4>1. CASE j = i
        BY <2>2, <2>5, <3>3, <4>1
      <4>2. CASE j \in 1 .. i - 1
        BY <2>1, <2>5, <3>3, <4>2 DEF Answers
      <4> QED  BY <4>1, <4>2
    <3> QED  BY <3>1, <3>2, <3>3
  <2>7. <<i, b>>[1] = i /\ <<i, b>>[2] = b /\ <<i, b>> \in (0 .. Len(file)) \X Good
    BY <1>1, <2>1, <2>5
  <2> QED  BY <1>2, <2>2, <2>3, <2>6, <2>7
<1>7. PICK n, new : n = Len(file) /\ new = imprt(ht, file)
  OBVIOUS
<1>8. <<n, new>> \in T
  BY <1>3, <1>6, <1>7, ImportInduction
<1>9. Read(new, n)
  <2>1. <<n, new>>[1] = n /\ <<n, new>>[2] = new
    OBVIOUS
  <2> QED  BY <1>2, <1>8, <2>1
<1>10. PICK U : U = Solutions(new)
  OBVIOUS
<1>11. Answers(Solutions(ht), U)
  BY <1>9, <1>10
<1>12. Answers({file[j] : j \in DOMAIN file}, U)
  <2> SUFFICES ASSUME NEW p, NEW l, NEW u, Answered({file[j] : j \in DOMAIN file}, p, l, u)
               PROVE  Answered(U, p, l, u)
    BY DEF Answers
  <2>2. PICK a \in {file[j] : j \in DOMAIN file} :
               a.s = p /\ a.slvndx # INFEASIBLE /\ a.u \subseteq u /\ l \subseteq a.l
    BY DEF Answered
  <2>3. PICK j \in DOMAIN file : a = file[j]
    OBVIOUS
  <2>1. Answered(U, p, a.l, a.u) /\ a.u \subseteq u /\ l \subseteq a.l
    BY <1>4, <1>7, <1>9, <1>10, <2>2, <2>3
  <2> QED  BY <2>1, AnsweredLess
<1>13. ASSUME NEW a \in U PROVE IsTrue(a) /\ Supported(a, U)
  <2>1. a \in Solutions(ht) \/ a \in {file[j] : j \in DOMAIN file}
    BY <1>9, <1>10
  <2>2. CASE a \in Solutions(ht)
    BY <1>11, <2>2, SupportedMore DEF SoundSolutions
  <2>3. CASE a \in {file[j] : j \in DOMAIN file}
    BY <1>12, <2>3, SupportedMore DEF SoundSolutions
  <2> QED  BY <2>1, <2>2, <2>3
<1> QED  BY <1>7, <1>10, <1>11, <1>13 DEF SoundSolutions


(* What the parts of the plans of f are remembered in: if they are kept, B.   *)
Reach(f, B, K) == IF f.flags.bless THEN B ELSE K

(* All that is needed for the plans that f has is known; what it replays      *)
(* cannot fail. *)
Backed(f, B, K, try) ==
  /\ f.owisdom # NULL =>
       /\ Allowed(f.p, f.s, f.sol.l) /\ AllAnswered(K, f.p, f.s, f.sol.l, f.sol.u)
       /\ f.at = "got" => f.got # NULL
  /\ f.owisdom # NULL \/ try \in {1, 3} =>
       /\ f.at \in {"solve", "part"} =>
            \A k \in DOMAIN f.parts :
              Answered(Reach(f, B, K), Solvers[f.p][f.s].parts[k], f.sol.l, f.sol.u)
       /\ f.at = "got" /\ f.got # NULL =>
            AllAnswered(Reach(f, B, K), f.p, f.s, f.sol.l, f.sol.u)
  /\ f.owisdom = NULL /\ try \in {1, 3} /\ f.best # NULL =>
       AllAnswered(Reach(f, B, K), f.p, f.slvndx, f.sol.l, f.sol.u)

(* The part that f waited for has a plan if f is a replay, and is remembered. *)
Awaits(f, plan, B, K, try) ==
  /\ f.owisdom # NULL => plan # NULL
  /\ plan # NULL /\ (f.owisdom # NULL \/ try \in {1, 3}) =>
       Answered(Reach(f, B, K), Awaited(f), f.sol.l, f.sol.u)

(* Wisdom is sound if the files are, or if all is planned afresh. *)
Sound == FilesSound \/ (api.at # "idle" /\ api.try = 3)

SupportInv ==
  /\ api.try = 3 => wisdom_state # "BOGUS"
  /\ api.at # "idle" /\ api.try = 4 => api.at = "only"
  /\ Sound =>
       /\ SoundSolutions(Known) /\ SoundSolutions(Blessed)
       /\ wisdom_state = "BOGUS" => api.at \in {"idle", "only"} /\ stack = <<>>
       /\ \A i \in Calls : Backed(stack[i], Blessed, Known, api.try)
       /\ At("part") => Awaits(Top, pln, Blessed, Known, api.try)
       /\ Back /\ pln # NULL /\ api.at = "recreate" /\ api.try \in {1, 3} =>
            Answered(Blessed, api.p, api.l, Levels[api.used] \cup api.l)

LEMMA ReachMore ==
  ASSUME NEW f, NEW B, NEW K, NEW C, NEW L, Answers(B, C), Answers(K, L)
  PROVE  Answers(Reach(f, B, K), Reach(f, C, L))
BY DEF Reach

LEMMA BackedMore ==
  ASSUME NEW f, NEW B, NEW K, NEW C, NEW L, NEW try, Answers(B, C), Answers(K, L), Backed(f, B, K, try)
  PROVE  Backed(f, C, L, try)
<1>1. Answers(Reach(f, B, K), Reach(f, C, L))
  BY ReachMore
<1>2. PICK R, Q : R = Reach(f, B, K) /\ Q = Reach(f, C, L)
  OBVIOUS
<1>3. Answers(R, Q) /\ Answers(K, L)
  BY <1>1, <1>2
<1>4. \A p, l, u : (Answered(R, p, l, u) => Answered(Q, p, l, u)) /\ (Answered(K, p, l, u) => Answered(L, p, l, u))
  BY <1>3 DEF Answers
<1>5. \A p, n, l, u : /\ AllAnswered(R, p, n, l, u) => AllAnswered(Q, p, n, l, u)
                      /\ AllAnswered(K, p, n, l, u) => AllAnswered(L, p, n, l, u)
  BY <1>4 DEF AllAnswered
<1> QED  BY <1>2, <1>4, <1>5 DEF Backed

(* The tables after a solution was inserted, or not. *)
LEMMA FinishSound ==
  ASSUME Bertrand, Tables, NEW sol \in Stored, NEW plan, NEW bless, NEW wisdom,
         Finish(plan, sol, bless, wisdom),
         SoundSolutions(Known), SoundSolutions(Blessed),
         IsTrue(sol), Supported(sol, Known), bless => Supported(sol, Blessed),
         NEW B, B = Blessed', NEW K, K = Known'
  PROVE  /\ SoundSolutions(B) /\ SoundSolutions(K) /\ Answers(Blessed, B) /\ Answers(Known, K)
         /\ wisdom \in {"NORMAL", "ONLY"} => IF bless THEN sol \in B ELSE sol \in K
<1>1. PICK U, V : U = Solutions(htab_unblessed) /\ V = Solutions(htab_unblessed')
  OBVIOUS
<1>2. Known = Blessed \cup U /\ K = B \cup V
  BY <1>1 DEF Known, Blessed
<1>3. Blessed \subseteq Stored /\ Known \subseteq Stored
  BY <1>1, <1>2, IrredundantIs DEF Tables, Blessed
<1>4. CASE UNCHANGED tables /\ wisdom \notin {"NORMAL", "ONLY"}
  <2>1. B = Blessed /\ K = Known
    BY <1>4 DEF Blessed, Known, tables
  <2> QED  BY <1>4, <2>1, AnswersMore
<1>5. ASSUME bless, htab_unblessed' = htab_unblessed, Blessed' = Kept(htab_blessed, sol) \cup {sol}
      PROVE  SoundSolutions(B) /\ SoundSolutions(K) /\ Answers(Blessed, B) /\ Answers(Known, K)
             /\ sol \in B
  <2>1. /\ sol \in B /\ B \subseteq Blessed \cup {sol}
        /\ \A a \in Blessed : a \in B \/ (a.s = sol.s /\ Subsumes(sol, a))
    BY <1>5 DEF Kept, Blessed
  <2>2. SoundSolutions(B) /\ Answers(Blessed, B)
    BY <1>3, <1>5, <2>1, InsertSound
  <2>3. /\ sol \in K /\ K \subseteq Known \cup {sol}
        /\ \A a \in Known : a \in K \/ (a.s = sol.s /\ Subsumes(sol, a))
    BY <1>1, <1>2, <1>5, <2>1
  <2>4. SoundSolutions(K) /\ Answers(Known, K)
    BY <1>3, <2>3, InsertSound
  <2> QED  BY <2>1, <2>2, <2>4
<1>6. ASSUME ~bless, htab_blessed' = htab_blessed,
             Solutions(htab_unblessed)' = Kept(htab_unblessed, sol) \cup {sol}
      PROVE  SoundSolutions(B) /\ SoundSolutions(K) /\ Answers(Blessed, B) /\ Answers(Known, K)
             /\ sol \in K
  <2>1. B = Blessed
    BY <1>6 DEF Blessed
  <2>2. /\ sol \in V /\ V \subseteq U \cup {sol}
        /\ \A a \in U : a \in V \/ (a.s = sol.s /\ Subsumes(sol, a))
    BY <1>1, <1>6 DEF Kept
  <2>3. /\ sol \in K /\ K \subseteq Known \cup {sol}
        /\ \A a \in Known : a \in K \/ (a.s = sol.s /\ Subsumes(sol, a))
    BY <1>2, <2>1, <2>2
  <2>4. SoundSolutions(K) /\ Answers(Known, K)
    BY <1>3, <2>3, InsertSound
  <2> QED  BY <2>1, <2>3, <2>4, AnswersMore
<1>7. PICK t : t = bless
  OBVIOUS
<1>8. \/ wisdom \notin {"NORMAL", "ONLY"} /\ UNCHANGED tables
      \/ wisdom \in {"NORMAL", "ONLY"} /\ bless /\ htab_unblessed' = htab_unblessed
         /\ Blessed' = Kept(htab_blessed, sol) \cup {sol}
      \/ wisdom \in {"NORMAL", "ONLY"} /\ ~bless /\ htab_blessed' = htab_blessed
         /\ Solutions(htab_unblessed)' = Kept(htab_unblessed, sol) \cup {sol}
  BY FinishDoes
<1> QED  BY <1>4, <1>5, <1>6, <1>8

(* Whether wisdom is sound does not change while a call is made. *)
LEMMA SoundStays ==
  ASSUME UNCHANGED api
  PROVE  Sound' = Sound /\ FilesSound' = FilesSound
BY DEF Sound, FilesSound, SoundSolutions, Supported, AllAnswered, Answered, IsTrue, Allowed

(* The innermost call goes on. *)
LEMMA SupportBecomes ==
  ASSUME PlannerInv, CallsInv, SupportInv, NEW at, Working(at), UNCHANGED <<tables, api>>,
         wisdom_state' = wisdom_state \/ wisdom_state' # "BOGUS",
         NEW f, Becoming(f), f.at # "part",
         Sound => Backed(f, Blessed, Known, api.try)
  PROVE  SupportInv'
<1>1. /\ stack' # <<>> /\ Top' = f
      /\ \A i \in Calls' : stack'[i] = f \/ \E j \in Calls : stack'[i] = stack[j]
  BY FramesAre DEF Working, Becoming, CallsInv
<1>2. Blessed' = Blessed /\ Known' = Known /\ api' = api /\ stack # <<>>
  BY DEF Blessed, Known, tables, Working
<1>3. Sound' = Sound
  BY <1>2, SoundStays
<1>4. wisdom_state' = "BOGUS" => wisdom_state = "BOGUS"
  OBVIOUS
<1>5. api.try = 3 => wisdom_state' # "BOGUS"
  BY <1>4 DEF SupportInv
<1>6. ASSUME Sound
      PROVE  /\ SoundSolutions(Known) /\ SoundSolutions(Blessed)
             /\ wisdom_state' # "BOGUS"
             /\ api.at # "idle" /\ api.try = 4 => api.at = "only"
             /\ \A i \in Calls' : Backed(stack'[i], Blessed, Known, api.try)
  BY <1>1, <1>2, <1>4, <1>6 DEF SupportInv
<1>7. ~At("part")' /\ ~Back'
  BY <1>1 DEF At, Back
<1>8. SoundSolutions(Known)' = SoundSolutions(Known) /\ SoundSolutions(Blessed)' = SoundSolutions(Blessed)
  BY <1>2 DEF SoundSolutions, Supported, AllAnswered, Answered, IsTrue, Allowed
<1> QED  BY <1>2, <1>3, <1>5, <1>6, <1>7, <1>8 DEF SupportInv

(* The call below the innermost one. *)
LEMMA BelowIs ==
  ASSUME PlannerInv, CallsInv, NEW at, Working(at), Returned(stack, stack')
  PROVE  \/ stack' = <<>> /\ Len(stack) = 1 /\ stack[1] = Top
         \/ /\ stack' # <<>> /\ Len(stack) # 1 /\ Len(stack) - 1 \in Calls
            /\ Top' = stack[Len(stack) - 1] /\ Top'.at = "part" /\ Link(Top', Top)
<1>1. PICK n \in Nat \ {0} : n = Len(stack) /\ Calls = 1 .. n
  BY DEF Working, Calls
<1>2. PICK t, S : t = stack' /\ t \in Seq(S) /\ Len(t) = n - 1 /\ \A i \in 1 .. n - 1 : t[i] = stack[i]
  BY <1>1 DEF Returned
<1>3. \/ stack' = <<>> /\ stack[1] = Top
      \/ stack' # <<>> /\ Top'.at = "part" /\ Link(Top', Top)
  BY FramesAre DEF Working, CallsInv
<1>4. CASE n = 1
  BY <1>1, <1>2, <1>3, <1>4
<1>5. CASE n # 1
  <2>1. t # <<>> /\ n - 1 \in 1 .. n - 1 /\ n - 1 \in 1 .. n
    BY <1>2, <1>5
  <2>2. Last(t) = t[n - 1]
    BY <1>2, <2>1, LastFrame
  <2> QED  BY <1>1, <1>2, <1>3, <1>5, <2>1, <2>2 DEF Top
<1> QED  BY <1>4, <1>5

(* The innermost call returns. *)
LEMMA SupportReturns ==
  ASSUME PlannerInv, CallsInv, SupportInv, NEW at, Working(at), UNCHANGED api,
         NEW plan, Returning(plan), NEW B, B = Blessed', NEW K, K = Known',
         Sound => /\ SoundSolutions(B) /\ SoundSolutions(K)
                  /\ Answers(Blessed, B) /\ Answers(Known, K)
                  /\ wisdom_state' = "BOGUS" => api.at = "only" /\ stack' = <<>>
                  /\ stack' # <<>> /\ Top'.owisdom # NULL => plan # NULL
                  /\ plan # NULL /\ (api.try \in {1, 3} \/ (stack' # <<>> /\ Top'.owisdom # NULL)) =>
                       Answered(Reach(Top, B, K), Top.p, Top.flags.l, Top.flags.u)
  PROVE  SupportInv'
<1>1. \/ stack' = <<>> /\ stack[1] = Top
      \/ /\ stack' # <<>> /\ Len(stack) - 1 \in Calls /\ Top' = stack[Len(stack) - 1]
         /\ Top'.at = "part" /\ Link(Top', Top)
  BY BelowIs DEF Returning
<1>2. \A i \in Calls' : \E j \in Calls : stack'[i] = stack[j]
  BY FramesAre DEF Working, Returning, CallsInv
<1>3. Sound' = Sound
  BY SoundStays
<1>4. api' = api /\ pln' = plan /\ stack # <<>> /\ api.at # "idle" /\ Asked
  BY DEF Returning, Working, CallsInv, Trust
<1>5. api.try = 3 => wisdom_state' # "BOGUS"
  <2>1. api.try = 3 => Sound /\ api.at # "only"
    BY <1>4 DEF Sound, CallsInv, Trust
  <2> QED  BY <2>1
<1>6. ASSUME Sound PROVE \A i \in Calls' : Backed(stack'[i], B, K, api.try)
  BY <1>2, <1>6, BackedMore DEF SupportInv
<1>7. ASSUME Sound, stack' # <<>> PROVE Awaits(Top', plan, B, K, api.try)
  <2>1. PICK g : g = Top'
    OBVIOUS
  <2>2. /\ Top.p = Awaited(g) /\ Top.flags.l = g.sol.l /\ Top.flags.u = g.sol.u
        /\ Top.flags.bless = g.flags.bless
    BY <1>1, <1>7, <2>1 DEF Link
  <2>3. Reach(g, B, K) = Reach(Top, B, K)
    BY <2>2 DEF Reach
  <2> QED  BY <1>7, <2>1, <2>2, <2>3 DEF Awaits
<1>8. ASSUME Sound, stack' = <<>>, plan # NULL, api.at = "recreate", api.try \in {1, 3}
      PROVE  Answered(B, api.p, api.l, Levels[api.used] \cup api.l)
  <2>1. /\ Top.p = api.p /\ Top.flags.l = api.l /\ Top.flags.bless
        /\ Top.flags.u = Levels[api.used] \cup api.l
    BY <1>1, <1>4, <1>8 DEF Asked
  <2> QED  BY <1>8, <2>1 DEF Reach
<1>9. Awaits(Top', plan, B, K, api.try) => Awaits(Top, pln, Blessed, Known, api.try)'
  BY <1>4 DEF Awaits, Awaited, Reach, Answered
<1>10. ASSUME Sound
       PROVE  /\ SoundSolutions(Known)' /\ SoundSolutions(Blessed)'
              /\ \A i \in Calls' : Backed(stack[i], Blessed, Known, api.try)'
  <2>1. SoundSolutions(Known)' = SoundSolutions(K)
    BY DEF SoundSolutions, Supported, AllAnswered, Answered, IsTrue, Allowed
  <2>2. SoundSolutions(Blessed)' = SoundSolutions(B)
    BY DEF SoundSolutions, Supported, AllAnswered, Answered, IsTrue, Allowed
  <2>3. ASSUME NEW i \in Calls'
        PROVE  Backed(stack[i], Blessed, Known, api.try)' = Backed(stack'[i], B, K, api.try)
    BY <1>4 DEF Backed, Reach, AllAnswered, Answered, Allowed
  <2> QED  BY <1>6, <1>10, <2>1, <2>2, <2>3
<1>11. Sound /\ stack' = <<>> /\ plan # NULL /\ api.at = "recreate" /\ api.try \in {1, 3} =>
         Answered(Blessed, api.p, api.l, Levels[api.used] \cup api.l)'
  BY <1>4, <1>8 DEF Answered
<1>12. ASSUME Sound
       PROVE  /\ wisdom_state' = "BOGUS" => api.at \in {"idle", "only"} /\ stack' = <<>>
              /\ api.at # "idle" /\ api.try = 4 => api.at = "only"
  BY <1>12 DEF SupportInv
<1> QED  BY <1>3, <1>4, <1>5, <1>7, <1>9, <1>10, <1>11, <1>12 DEF SupportInv, At, Back

(* What a replay looks up is known. *)
LEMMA ReplayAnswered ==
  ASSUME PlannerInv, Types, CallsInv, SupportInv, Sound, NEW at, Working(at), Len(stack) # 1,
         stack[Len(stack) - 1].owisdom # NULL
  PROVE  /\ \E a \in Known : a.s = Top.p /\ Subsumes(a, Top.flags)
         /\ \A a \in Known : a.s = Top.p /\ Subsumes(a, Top.flags) => a.slvndx # INFEASIBLE
<1>1. PICK n \in Nat \ {0} : n = Len(stack) /\ Top = stack[n] /\ Calls = 1 .. n /\ n # 1
  BY DEF Working, Calls
<1>2. n - 1 \in Calls /\ n \in Calls /\ n - 1 < n
  BY <1>1
<1>3. PICK g : g = stack[n - 1]
  OBVIOUS
<1>4. g.at = "part" /\ g.owisdom # NULL /\ TypedFrame(g) /\ Backed(g, Blessed, Known, api.try)
  BY <1>1, <1>2, <1>3 DEF PlannerInv, Row, Types, TypedStack, SupportInv, Calls
<1>5. Link(g, Top)
  BY <1>1, <1>2, <1>3 DEF CallsInv, Chain
<1>6. Top.p = Awaited(g) /\ Top.flags.l = g.sol.l /\ Top.flags.u = g.sol.u /\ Top.flags.limit = 0
  BY <1>5 DEF Link
<1>7. Len(g.parts) + 1 \in DOMAIN Solvers[g.p][g.s].parts
  BY <1>4, AwaitedIs
<1>8. Answered(Known, Top.p, Top.flags.l, Top.flags.u)
  BY <1>4, <1>6, <1>7 DEF Backed, AllAnswered, Awaited
<1>9. Known \subseteq Stored /\ \A a \in Known : IsTrue(a)
  BY IrredundantIs DEF Types, Tables, Known, Blessed, SupportInv, SoundSolutions
<1>10. PICK T, flags : T = Known /\ flags = Top.flags
  OBVIOUS
<1> QED  BY ONLY <1>6, <1>8, <1>9, <1>10, AnsweredIs

(* A problem is looked up. *)
LEMMA SupportLookup ==
  ASSUME PlannerInv, Types, CallsInv, SupportInv, Lookup
  PROVE  SupportInv'
<1>1. Working("lookup") /\ Top.owisdom = NULL /\ UNCHANGED <<tables, api>> /\ Top.at = "lookup"
      /\ stack # <<>> /\ api.at # "idle" /\ Row /\ Trust
  BY LookupDoes DEF Working, CallsInv, Trust
<1>2. Blessed' = Blessed /\ Known' = Known
  BY <1>1 DEF Blessed, Known, tables
<1>3. Sound => wisdom_state # "BOGUS" /\ SoundSolutions(Known) /\ SoundSolutions(Blessed)
  BY <1>1 DEF SupportInv
<1>4. ASSUME Returning(NULL),
             Sound => /\ wisdom_state' = "BOGUS" => api.at = "only" /\ stack' = <<>>
                      /\ stack' # <<>> => Top'.owisdom = NULL
      PROVE  SupportInv'
  <2>1. Answers(Blessed, Blessed) /\ Answers(Known, Known)
    BY AnswersMore
  <2> QED  BY <1>1, <1>2, <1>3, <1>4, <2>1, SupportReturns
<1>5. ASSUME Returning(NULL)
      PROVE  \/ stack' = <<>> /\ Len(stack) = 1
             \/ stack' # <<>> /\ Len(stack) # 1 /\ Top' = stack[Len(stack) - 1]
  BY <1>1, <1>5, BelowIs DEF Returning
<1>6. ASSUME wisdom_state \in {"BOGUS", "ONLY"}, wisdom_state' = "BOGUS", Returning(NULL),
             wisdom_state # "BOGUS" => \A b \in Known : b.s = Top.p => ~Subsumes(b, Top.flags)
      PROVE  SupportInv'
  <2> SUFFICES ASSUME Sound PROVE api.at = "only" /\ stack' = <<>>
    BY <1>4, <1>6
  <2>1. wisdom_state = "ONLY" /\ \A b \in Known : b.s = Top.p => ~Subsumes(b, Top.flags)
    BY <1>3, <1>6
  <2>2. ~(Len(stack) # 1 /\ stack[Len(stack) - 1].owisdom # NULL)
    BY <1>1, <2>1, ReplayAnswered
  <2>3. wisdom_state \in {Base, "BOGUS"} /\ (Len(stack) # 1 => Base # "ONLY")
    BY <1>1, <2>2, SearchAbove
  <2>4. Base = "ONLY" /\ Len(stack) = 1
    BY <2>1, <2>3
  <2> QED  BY <1>5, <1>6, <2>4 DEF Base
<1>7. ASSUME wisdom_state \in {"NORMAL", "ONLY"}, wisdom_state' = wisdom_state, Returning(NULL),
             \E a \in Known : a.s = Top.p /\ a.slvndx = INFEASIBLE /\ Subsumes(a, Top.flags)
      PROVE  SupportInv'
  <2>1. Sound => ~(Len(stack) # 1 /\ stack[Len(stack) - 1].owisdom # NULL)
    BY <1>1, <1>7, ReplayAnswered
  <2> QED  BY <1>4, <1>5, <1>7, <2>1
<1>8. Sound => Backed(Top, Blessed, Known, api.try)
  BY <1>1 DEF SupportInv, Working, Calls
<1>9. ASSUME wisdom_state' = wisdom_state, NEW f, Becoming(f), f.at = "relax", SameSearch(Top, f),
             SameBest(Top, f)
      PROVE  SupportInv'
  <2>1. Top.best = NULL
    BY <1>1 DEF Working, IsFrame
  <2>2. Backed(f, Blessed, Known, api.try)
    BY <1>1, <1>9, <2>1 DEF Backed, SameSearch, SameBest
  <2> QED  BY <1>1, <1>9, <2>2, SupportBecomes
<1>10. ASSUME wisdom_state # "BOGUS", wisdom_state' = "ONLY", NEW f, Becoming(f), f.at = "solve",
              f.owisdom = wisdom_state, f.sol \in Known, f.sol.s = Top.p,
              f.sol.slvndx # INFEASIBLE, f.s = f.sol.slvndx, f.parts = <<>>
       PROVE  SupportInv'
  <2>1. f.owisdom # NULL /\ f.p = Top.p
    BY <1>1, <1>10, NullAssumption DEF Becoming, Row
  <2>2. Sound => Allowed(f.p, f.s, f.sol.l) /\ AllAnswered(Known, f.p, f.s, f.sol.l, f.sol.u)
    BY <1>3, <1>10, <2>1 DEF SoundSolutions, IsTrue, Supported
  <2>3. Sound => Backed(f, Blessed, Known, api.try)
    BY <1>10, <2>1, <2>2 DEF Backed
  <2> QED  BY <1>1, <1>10, <2>3, SupportBecomes
<1> QED  BY <1>6, <1>7, <1>9, <1>10, LookupDoes

(* A solver plans its parts. *)
LEMMA SupportSolve ==
  ASSUME PlannerInv, Types, CallsInv, PlansInv, SupportInv, Solve
  PROVE  SupportInv'
<1>1. Working("solve") /\ UNCHANGED <<tables, clock, wisdom_state, pln, api>>
  BY SolveDoes
<1>2. /\ Top.at = "solve" /\ Top.got = NULL /\ InParts(Top) /\ stack # <<>>
      /\ Sound => Backed(Top, Blessed, Known, api.try)
  BY <1>1 DEF Working, CallsInv, Chain, CallFrame, SupportInv, Calls, TypedFrame
<1>3. CASE Solver.forbidden \cap Top.sol.l # {}
  <2>1. PICK f : /\ Becoming(f) /\ f.at = "got" /\ f.got = Top.got /\ f.s = Top.s
                 /\ SameSearch(Top, f) /\ SameBest(Top, f)
    BY <1>3, SolveDoes
  <2>2. f.p = Top.p /\ f.flags = Top.flags
    BY <2>1 DEF Becoming
  <2>3. Sound => Top.owisdom = NULL
    BY <1>2, <1>3 DEF Backed, Allowed, Solver
  <2>4. Sound => Backed(f, Blessed, Known, api.try)
    BY <1>2, <2>1, <2>2, <2>3 DEF Backed, SameSearch, SameBest, Reach
  <2> QED  BY <1>1, <2>1, <2>4, SupportBecomes
<1>4. CASE Solver.forbidden \cap Top.sol.l = {} /\ Len(Top.parts) = Len(Solver.parts)
  <2>1. PICK f : /\ Becoming(f) /\ f.at = "got" /\ f.got = MakePlan /\ f.s = Top.s
                 /\ SameSearch(Top, f) /\ SameBest(Top, f)
    BY <1>4, SolveDoes
  <2>2. f.p = Top.p /\ f.flags = Top.flags
    BY <2>1 DEF Becoming
  <2>3. PlansFrame(Top)
    BY <1>1 DEF PlansInv, Working, Calls
  <2>4. MakePlan # NULL /\ DOMAIN Top.parts = DOMAIN Solvers[Top.p][Top.s].parts
    BY <1>1, <1>4, <2>3, MakePlanIs DEF Solver
  <2>5. Sound => Backed(f, Blessed, Known, api.try)
    BY <1>2, <2>1, <2>2, <2>3, <2>4 DEF Backed, SameSearch, SameBest, Reach, AllAnswered
  <2> QED  BY <1>1, <2>1, <2>5, SupportBecomes
<1>5. CASE Solver.forbidden \cap Top.sol.l = {} /\ Len(Top.parts) # Len(Solver.parts)
  <2>1. PICK f, g :
          /\ Called(stack, stack', f, g)
          /\ f.p = Top.p /\ f.flags = Top.flags /\ f.at = "part" /\ f.got = Top.got
          /\ f.s = Top.s /\ f.parts = Top.parts
          /\ SameSearch(Top, f) /\ SameBest(Top, f)
          /\ g = Frame(Solver.parts[Len(Top.parts) + 1], Top.sol.l, Top.sol.u, 0, Top.flags.bless)
    BY <1>5, SolveDoes
  <2>2. /\ stack' # <<>> /\ Top' = g
        /\ \A i \in Calls' : stack'[i] = f \/ stack'[i] = g \/ \E j \in Calls : stack'[i] = stack[j]
    BY <1>1, <2>1, FramesAre DEF Working, CallsInv
  <2>3. Sound => Backed(f, Blessed, Known, api.try)
    BY <1>2, <2>1 DEF Backed, SameSearch, SameBest, Reach
  <2>4. g.at = "lookup" /\ g.best = NULL /\ g.owisdom = NULL
    BY <2>1, FrameIs
  <2>5. Backed(g, Blessed, Known, api.try)
    BY <2>4 DEF Backed
  <2>6. Blessed' = Blessed /\ Known' = Known /\ api' = api /\ wisdom_state' = wisdom_state
    BY <1>1 DEF Blessed, Known, tables
  <2>7. SoundSolutions(Known)' = SoundSolutions(Known) /\ SoundSolutions(Blessed)' = SoundSolutions(Blessed)
    BY <2>6 DEF SoundSolutions, Supported, AllAnswered, Answered, IsTrue, Allowed
  <2>8. Sound' = Sound
    BY <2>6, SoundStays
  <2>9. ASSUME Sound, NEW i \in Calls' PROVE Backed(stack'[i], Blessed, Known, api.try)
    BY <2>2, <2>3, <2>5, <2>9 DEF SupportInv
  <2>10. ~At("part")' /\ ~Back'
    BY <2>2, <2>4 DEF At, Back
  <2> QED  BY <1>2, <2>2, <2>6, <2>7, <2>8, <2>9, <2>10 DEF SupportInv
<1> QED  BY <1>3, <1>4, <1>5

(* A part has been planned, or not. *)
LEMMA SupportPart ==
  ASSUME PlannerInv, Types, CallsInv, SupportInv, Part
  PROVE  SupportInv'
<1>1. Working("part") /\ At("part") /\ UNCHANGED <<tables, clock, wisdom_state, pln, api>>
  BY PartDoes DEF Part
<1>2. /\ Top.at = "part" /\ Top.got = NULL /\ InParts(Top) /\ TypedFrame(Top)
      /\ Sound => Backed(Top, Blessed, Known, api.try) /\ Awaits(Top, pln, Blessed, Known, api.try)
  BY <1>1 DEF Working, CallsInv, Chain, CallFrame, SupportInv, Calls, TypedFrame
<1>3. PICK f : /\ Becoming(f) /\ f.got = Top.got /\ f.s = Top.s
               /\ SameSearch(Top, f) /\ SameBest(Top, f)
               /\ \/ pln = NULL /\ f.at = "got"
                  \/ pln # NULL /\ f.at = "solve" /\ f.parts = Append(Top.parts, pln)
  BY PartDoes
<1>4. f.p = Top.p /\ f.flags = Top.flags /\ f.sol = Top.sol /\ f.owisdom = Top.owisdom
  BY <1>3 DEF Becoming, SameSearch
<1>5. PICK R : R = Reach(Top, Blessed, Known) /\ R = Reach(f, Blessed, Known)
  BY <1>4 DEF Reach
<1>6. CASE pln = NULL
  <2>1. Sound => Top.owisdom = NULL
    BY <1>2, <1>6 DEF Awaits
  <2>2. Sound => Backed(f, Blessed, Known, api.try)
    BY <1>2, <1>3, <1>4, <1>5, <1>6, <2>1 DEF Backed, SameBest
  <2> QED  BY <1>1, <1>3, <1>6, <2>2, SupportBecomes
<1>7. CASE pln # NULL
  <2>1. PICK n \in Nat : /\ DOMAIN Top.parts = 1 .. n /\ n = Len(Top.parts) /\ DOMAIN f.parts = 1 .. n + 1
    <3>1. PICK S : Top.parts \in Seq(S)
      BY <1>2 DEF InParts
    <3>2. PICK parts \in Seq(S \cup {pln}) : parts = Top.parts
      <4>1. Top.parts \in Seq(S \cup {pln})
        BY <3>1, SeqMonotonic
      <4> QED  BY <4>1
    <3>3. PICK n \in Nat : n = Len(parts)
      BY <3>2
    <3>4. Append(parts, pln) \in Seq(S \cup {pln}) /\ Len(Append(parts, pln)) = n + 1
      BY <3>2, <3>3, AppendIs
    <3> QED  BY <1>3, <1>7, <3>2, <3>3, <3>4
  <2>2. ASSUME Sound, f.owisdom # NULL \/ api.try \in {1, 3}, NEW k \in DOMAIN f.parts
        PROVE  Answered(R, Solvers[f.p][f.s].parts[k], f.sol.l, f.sol.u)
    <3>1. CASE k = n + 1
      BY <1>2, <1>3, <1>4, <1>5, <1>7, <2>1, <2>2, <3>1 DEF Awaits, Awaited
    <3>2. CASE k \in 1 .. n
      BY <1>2, <1>3, <1>4, <1>5, <2>1, <2>2, <3>2 DEF Backed
    <3> QED  BY <2>1, <2>2, <3>1, <3>2
  <2>3. Sound => Backed(f, Blessed, Known, api.try)
    BY <1>2, <1>3, <1>4, <1>5, <1>7, <2>2 DEF Backed, SameBest
  <2> QED  BY <1>1, <1>3, <1>7, <2>3, SupportBecomes
<1> QED  BY <1>6, <1>7

(* A solution has been followed. *)
LEMMA SupportReplayed ==
  ASSUME Bertrand, PlannerInv, Types, CallsInv, PlansInv, SupportInv, Replayed
  PROVE  SupportInv'
<1>1. Working("got") /\ Top.owisdom # NULL /\ UNCHANGED api /\ Row /\ Trust
  BY ReplayedDoes DEF CallsInv, PlannerInv
<1>2. PICK n \in Nat \ {0} : n = Len(stack) /\ Top = stack[n] /\ Calls = 1 .. n /\ n \in 1 .. n
  BY <1>1 DEF Working, Calls
<1>3. /\ Top.at = "got" /\ stack # <<>> /\ CallFrame(Top) /\ Top.owisdom # "BOGUS" /\ api.at # "idle"
      /\ Sound => Backed(Top, Blessed, Known, api.try) /\ wisdom_state # "BOGUS"
  <2>1. Top.at = "got" /\ stack # <<>> /\ CallFrame(Top) /\ api.at # "idle"
    BY <1>1, <1>2 DEF Working, CallsInv, Chain, Trust
  <2>2. Sound => Backed(Top, Blessed, Known, api.try) /\ wisdom_state # "BOGUS"
    BY <1>2, <2>1 DEF SupportInv
  <2>3. Top.owisdom # "BOGUS"
    <3>1. CASE \E i \in Calls : i < n /\ stack[i].owisdom # NULL
      BY <1>1, <1>2, <2>1, <3>1 DEF Row
    <3>2. CASE \A i \in Calls : i < n => stack[i].owisdom = NULL
      <4>1. Top.owisdom = Base
        BY <1>1, <1>2, <2>1, <3>2 DEF Trust
      <4> QED  BY <4>1 DEF Base
    <3> QED  BY <3>1, <3>2
  <2> QED  BY <2>1, <2>2, <2>3
<1>4. Sound => SoundSolutions(Known) /\ SoundSolutions(Blessed)
  BY DEF SupportInv
<1>5. PICK B, K : B = Blessed' /\ K = Known'
  OBVIOUS
<1>6. CASE (wisdom_state = "BOGUS" \/ Top.got = NULL) /\ Returning(NULL)
  <2>1. ~Sound
    BY <1>1, <1>3, <1>6 DEF Backed
  <2> QED  BY <1>1, <1>5, <1>6, <2>1, SupportReturns
<1>7. CASE /\ wisdom_state # "BOGUS" /\ Top.got # NULL
           /\ wisdom_state' = Top.owisdom /\ Returning(Top.got)
           /\ Finish(Top.got, Top.sol, Top.flags.bless, Top.owisdom)
  <2>1. Top.sol \in Stored /\ Top.sol.s = Top.p /\ Top.sol.slvndx # INFEASIBLE /\ IsTrue(Top.sol)
    BY <1>1, <1>7, ReplaysTrue
  <2>2. Top.sol.slvndx = Top.s /\ Top.flags.l \subseteq Top.sol.l /\ Top.sol.u \subseteq Top.flags.u
    BY <1>1, <1>3, <2>1 DEF CallFrame, ReplayFrame, Subsumes
  <2>3. Sound => Supported(Top.sol, Known) /\ (Top.flags.bless => Supported(Top.sol, Blessed))
    BY <1>1, <1>3, <1>7, <2>1, <2>2 DEF Supported, Backed, Reach
  <2>4. PICK sol, bless, wisdom, plan :
          sol = Top.sol /\ bless = Top.flags.bless /\ wisdom = Top.owisdom /\ plan = Top.got
    OBVIOUS
  <2>5. Finish(plan, sol, bless, wisdom)
    BY <1>7, <2>4
  <2>6. Sound => /\ SoundSolutions(B) /\ SoundSolutions(K) /\ Answers(Blessed, B) /\ Answers(Known, K)
                 /\ wisdom \in {"NORMAL", "ONLY"} => IF bless THEN sol \in B ELSE sol \in K
    BY <1>4, <1>5, <2>1, <2>3, <2>4, <2>5, FinishSound DEF Types
  <2>7. ASSUME api.try \in {1, 3} \/ (stack' # <<>> /\ Top'.owisdom # NULL)
        PROVE  wisdom \in {"NORMAL", "ONLY"}
    <3>1. CASE \E i \in Calls : i < n /\ stack[i].owisdom # NULL
      BY <1>2, <1>3, <2>4, <3>1, <1>1 DEF Row
    <3>2. CASE \A i \in Calls : i < n => stack[i].owisdom = NULL
      <4>1. Top.owisdom = Base
        BY <1>1, <1>2, <1>3, <3>2 DEF Trust
      <4>2. ~(stack' # <<>> /\ Top'.owisdom # NULL)
        <5>1. \/ stack' = <<>>
              \/ stack' # <<>> /\ n - 1 \in Calls /\ Top' = stack[n - 1]
          BY <1>1, <1>2, <1>7, BelowIs DEF Returning
        <5>2. n - 1 < n
          OBVIOUS
        <5> QED  BY <3>2, <5>1, <5>2
      <4>3. api.at # "only"
        BY <1>1, <1>3, <2>7, <4>2 DEF Trust
      <4> QED  BY <2>4, <2>7, <4>1, <4>2, <4>3 DEF Base
    <3> QED  BY <3>1, <3>2
  <2>8. Sound /\ (api.try \in {1, 3} \/ (stack' # <<>> /\ Top'.owisdom # NULL)) =>
          Answered(Reach(Top, B, K), Top.p, Top.flags.l, Top.flags.u)
    BY <2>1, <2>2, <2>4, <2>6, <2>7 DEF Answered, Reach
  <2> QED  BY <1>1, <1>3, <1>5, <1>7, <2>4, <2>6, <2>8, SupportReturns
<1> QED  BY <1>6, <1>7, ReplayedDoes

(* The steps of a search but its end. *)
LEMMA SupportTry ==
  ASSUME PlannerInv, Types, CallsInv, SupportInv, Search \/ Trying
  PROVE  SupportInv'
<1>1. CASE Search
  <2>1. Working("relax") /\ UNCHANGED <<tables, clock, wisdom_state, pln, api>>
    BY <1>1, SearchDoes
  <2>2. PICK f : /\ Becoming(f) /\ f.owisdom = NULL /\ f.best = NULL
                 /\ f.at \in {"search0", "searched", "relax"}
    BY <1>1, SearchDoes
  <2>3. Backed(f, Blessed, Known, api.try)
    BY <2>2 DEF Backed
  <2> QED  BY <2>1, <2>2, <2>3, SupportBecomes
<1>2. CASE Trying
  <2>1. Working(Top.at) /\ Top.owisdom = NULL /\ UNCHANGED <<tables, wisdom_state, pln, api>>
    BY <1>2, TryDoes
  <2>2. Sound => Backed(Top, Blessed, Known, api.try)
    BY <2>1 DEF SupportInv, Working, Calls
  <2>3. PICK f, h : /\ Becoming(h) /\ Onward(f, h) /\ f.p = Top.p /\ SameSearch(Top, f)
                    /\ \/ SameBest(Top, f)
                       \/ f.best = NULL
                       \/ Top.at = "got" /\ Top.got # NULL /\ f.best = Top.got /\ f.slvndx = Top.s
    BY <1>2, TryDoes
  <2>4. /\ h.p = Top.p /\ h.flags = Top.flags /\ h.sol = Top.sol /\ h.owisdom = NULL
        /\ h.best = f.best /\ h.slvndx = f.slvndx
        /\ \/ h.at = "solve" /\ h.parts = <<>> /\ h.got = NULL
           \/ h.at \in {"searched", "relax"}
    BY <2>1, <2>3 DEF Becoming, Onward, SameSearch, SameBest
  <2>5. Sound => Backed(h, Blessed, Known, api.try)
    <3>1. PICK R : R = Reach(Top, Blessed, Known) /\ R = Reach(h, Blessed, Known)
      BY <2>4 DEF Reach
    <3>2. Sound /\ api.try \in {1, 3} /\ h.best # NULL =>
            AllAnswered(R, h.p, h.slvndx, h.sol.l, h.sol.u)
      BY <2>1, <2>2, <2>3, <2>4, <3>1 DEF Backed, SameBest
    <3> QED  BY <2>4, <3>1, <3>2 DEF Backed
  <2>6. h.at # "part"
    BY <2>4
  <2> QED  BY <2>1, <2>3, <2>5, <2>6, SupportBecomes
<1> QED  BY <1>1, <1>2

(* A search is over. *)
LEMMA SupportConclude ==
  ASSUME Bertrand, PlannerInv, Types, CallsInv, PlansInv, Denials, SupportInv, Conclude
  PROVE  SupportInv'
<1>1. Working("searched") /\ Top.owisdom = NULL /\ UNCHANGED api /\ Row /\ Trust
      /\ (timed_out => Top.best = NULL)
  BY ConcludeDoes DEF CallsInv, PlannerInv
<1>2. /\ Top.at = "searched" /\ stack # <<>> /\ CallFrame(Top) /\ TypedFrame(Top) /\ Top.p \in Problems
      /\ api.at # "idle"
      /\ Sound => Backed(Top, Blessed, Known, api.try) /\ wisdom_state # "BOGUS"
  BY <1>1 DEF Working, CallsInv, Chain, SupportInv, Trust, Calls
<1>3. /\ \A i \in Calls : stack[i].owisdom = NULL
      /\ wisdom_state \in {Base, "BOGUS"} /\ Base # "ONLY"
      /\ wisdom_state = "NORMAL" => api.try \in {1, 3}
      /\ wisdom_state # "BOGUS" /\ api.try \in {1, 3} => wisdom_state = "NORMAL"
  BY <1>1, <1>2, SearchOutside
<1>4. Sound => SoundSolutions(Known) /\ SoundSolutions(Blessed)
  BY DEF SupportInv
<1>5. Sound /\ wisdom_state # "BOGUS" => Believing
  BY <1>2, FilesAre DEF Sound, Believing
<1>6. PICK B, K : B = Blessed' /\ K = Known'
  OBVIOUS
<1>7. ASSUME NEW plan, Returning(plan) PROVE ~(stack' # <<>> /\ Top'.owisdom # NULL)
  <2>1. \/ stack' = <<>>
        \/ stack' # <<>> /\ Len(stack) - 1 \in Calls /\ Top' = stack[Len(stack) - 1]
    BY <1>1, <1>7, BelowIs DEF Returning
  <2> QED  BY <1>3, <2>1
<1>8. CASE wisdom_state = "BOGUS" /\ Returning(NULL)
  <2>1. ~Sound
    BY <1>2, <1>8
  <2> QED  BY <1>1, <1>6, <1>8, <2>1, SupportReturns
<1>9. ASSUME wisdom_state # "BOGUS", wisdom_state' = wisdom_state, NEW plan, Returning(plan),
             UNCHANGED tables, plan = NULL \/ api.try \notin {1, 3}
      PROVE  SupportInv'
  <2>1. B = Blessed /\ K = Known
    BY <1>6, <1>9 DEF Blessed, Known, tables
  <2>2. Answers(Blessed, B) /\ Answers(Known, K)
    BY <2>1, AnswersMore
  <2> QED  BY <1>1, <1>4, <1>6, <1>7, <1>9, <2>1, <2>2, SupportReturns
<1>10. ASSUME wisdom_state # "BOGUS", wisdom_state' = wisdom_state,
              ~(timed_out /\ Top.flags.limit = 0), Returning(Top.best),
              NEW sol \in Stored, sol.s = Top.p, sol.l = Top.sol.l, sol.u = Top.sol.u,
              sol.slvndx = (IF Top.best = NULL THEN INFEASIBLE ELSE Top.slvndx),
              sol.limit = (IF timed_out THEN Top.sol.limit ELSE 0),
              Finish(Top.best, sol, Top.flags.bless \/ timed_out, wisdom_state)
       PROVE  SupportInv'
  <2>1. PICK bless : /\ bless = (Top.flags.bless \/ timed_out) /\ Finish(Top.best, sol, bless, wisdom_state)
    BY <1>10, Zenon
  <2>2. CASE api.try \notin {1, 3}
    <3>1. wisdom_state \notin {"NORMAL", "ONLY"}
      BY <1>3, <1>10, <2>2
    <3>2. UNCHANGED tables
      BY <2>1, <3>1, FinishDoes DEF Types
    <3>3. PICK plan : plan = Top.best
      OBVIOUS
    <3>4. Returning(plan)
      BY <1>10, <3>3
    <3> QED  BY <1>9, <1>10, <2>2, <3>2, <3>4
  <2>3. CASE api.try \in {1, 3}
    <3>1. wisdom_state = "NORMAL"
      BY <1>3, <1>10, <2>3
    <3>2. Sound => IsTrue(sol)
      BY <1>1, <1>5, <1>10, ConcludesTrue
    <3>3. Top.best # NULL => Top.slvndx # INFEASIBLE /\ sol.slvndx = Top.slvndx /\ ~timed_out
      BY <1>1, <1>2, <1>10, PlannerAssumption DEF TypedFrame
    <3>4. Sound /\ Top.best # NULL =>
            AllAnswered(Reach(Top, Blessed, Known), sol.s, sol.slvndx, sol.l, sol.u)
      BY <1>1, <1>2, <1>10, <2>3, <3>3 DEF Backed
    <3>5. Answers(Blessed, Known)
      BY AnswersMore DEF Known
    <3>6. Sound => Supported(sol, Known) /\ (bless => Supported(sol, Blessed))
      <4>1. CASE Top.best = NULL
        BY <1>10, <4>1 DEF Supported
      <4>2. CASE Top.best # NULL
        <5>1. bless <=> Top.flags.bless
          BY <2>1, <3>3, <4>2, Zenon
        <5>2. CASE Top.flags.bless
          <6>1. Sound => AllAnswered(Blessed, sol.s, sol.slvndx, sol.l, sol.u)
            BY <3>4, <4>2, <5>2 DEF Reach
          <6>2. Sound => AllAnswered(Known, sol.s, sol.slvndx, sol.l, sol.u)
            BY <3>5, <6>1 DEF Answers, AllAnswered
          <6> QED  BY <6>1, <6>2 DEF Supported
        <5>3. CASE ~Top.flags.bless
          BY <3>4, <4>2, <5>1, <5>3 DEF Reach, Supported
        <5> QED  BY <5>2, <5>3
      <4> QED  BY <4>1, <4>2
    <3>7. PICK plan : plan = Top.best /\ Finish(plan, sol, bless, wisdom_state) /\ Returning(plan)
      BY <1>10, <2>1
    <3>8. Sound => /\ SoundSolutions(B) /\ SoundSolutions(K) /\ Answers(Blessed, B) /\ Answers(Known, K)
                   /\ IF bless THEN sol \in B ELSE sol \in K
      BY <1>4, <1>6, <3>1, <3>2, <3>6, <3>7, FinishSound DEF Types
    <3>9. Top.flags.l \subseteq sol.l /\ sol.u = Top.flags.u
      BY <1>1, <1>2, <1>10 DEF CallFrame, SearchFrame
    <3>10. Sound /\ plan # NULL => Answered(Reach(Top, B, K), Top.p, Top.flags.l, Top.flags.u)
      <4>1. plan # NULL => (bless <=> Top.flags.bless)
        BY <2>1, <3>3, <3>7, Zenon
      <4>2. plan # NULL => sol.slvndx # INFEASIBLE
        BY <3>3, <3>7
      <4> QED  BY <1>10, <3>8, <3>9, <4>1, <4>2 DEF Answered, Reach
    <3> QED  BY <1>1, <1>6, <1>7, <1>10, <3>7, <3>8, <3>10, SupportReturns
  <2> QED  BY <2>2, <2>3
<1> QED  BY <1>8, <1>9, <1>10, ConcludeDoes

LEMMA SupportStep ==
  ASSUME Bertrand, PlannerInv, Types, CallsInv, PlansInv, Denials, SupportInv, mkplan
  PROVE  SupportInv'
<1>1. Lookup \/ Solve \/ Part \/ Replayed \/ Search \/ Trying \/ Conclude
  BY DEF mkplan, Trying
<1> QED
  BY <1>1, SupportLookup, SupportSolve, SupportPart, SupportReplayed, SupportTry, SupportConclude

(* Wisdom that is enough stays so between the calls of mkplan. *)
LEMMA SupportBegin ==
  ASSUME Bertrand, Types, CallsInv, SupportInv, Begins
  PROVE  SupportInv'
<1>1. Trust
  BY DEF CallsInv
<1>2. PICK level \in DOMAIN Levels :
              /\ stack' = <<Frame(api'.p, api'.l, Levels[level] \cup api'.l, api'.limit,
                                  api'.at = "recreate")>>
              /\ \/ /\ api.at = "idle" /\ UNCHANGED tables
                    /\ \/ api'.at = "plan" /\ api'.try = 1 /\ wisdom_state' = "NORMAL"
                       \/ api'.at = "only" /\ api'.try = 4 /\ wisdom_state' = "ONLY"
                 \/ /\ Back /\ UNCHANGED tables
                    /\ api'.try \in {1, 2} /\ wisdom_state' \in {"NORMAL", "IGNORE_INFEASIBLE"}
                 \/ /\ ForgetEverything /\ api'.try = 3 /\ wisdom_state' = "NORMAL"
                 \/ /\ Back /\ wisdom_state = "BOGUS" /\ api.try = 3 /\ api'.try = 4
  BY ONLY <1>1, Types, Begins, BeginsDoes DEF Planned
<1>3. PICK f : /\ stack' = <<f>> /\ stack' # <<>> /\ Calls' = {1} /\ stack'[1] = f /\ Top' = f
               /\ f.at = "lookup" /\ f.owisdom = NULL /\ f.best = NULL
  BY <1>2, FirstFrame
<1>4. ~(api.try = 3 /\ wisdom_state = "BOGUS")
  BY DEF SupportInv
<1>5. wisdom_state' # "BOGUS"
  BY <1>2, <1>4
<1>6. api'.at # "idle" /\ api'.try = 4 => api'.at = "only"
  BY <1>2, <1>4
<1>7. FilesSound' = FilesSound
  BY DEF FilesSound, SoundSolutions, Supported, AllAnswered, Answered, IsTrue, Allowed
<1>8. ASSUME Sound' PROVE (SoundSolutions(Known) /\ SoundSolutions(Blessed))'
  <2>1. PICK B, K : B = Blessed' /\ K = Known'
    OBVIOUS
  <2>2. CASE ForgetEverything
    <3>1. B = {} /\ K = {}
      BY <2>1, <2>2, Forgotten
    <3>2. SoundSolutions(B) /\ SoundSolutions(K)
      BY <3>1 DEF SoundSolutions
    <3>3. SoundSolutions(Known)' = SoundSolutions(K) /\ SoundSolutions(Blessed)' = SoundSolutions(B)
      BY <2>1 DEF SoundSolutions, Supported, AllAnswered, Answered, IsTrue, Allowed
    <3> QED  BY <3>2, <3>3
  <2>3. CASE UNCHANGED tables /\ api'.try # 3
    <3>1. Sound
      BY <1>7, <1>8, <2>3 DEF Sound
    <3>2. SoundSolutions(Known) /\ SoundSolutions(Blessed)
      BY <3>1 DEF SupportInv
    <3>3. Known' = Known /\ Blessed' = Blessed
      BY <2>3 DEF Known, Blessed, tables
    <3>4. SoundSolutions(Known)' = SoundSolutions(Known) /\ SoundSolutions(Blessed)' = SoundSolutions(Blessed)
      BY <3>3 DEF SoundSolutions, Supported, AllAnswered, Answered, IsTrue, Allowed
    <3> QED  BY <3>2, <3>4
  <2> QED  BY <1>2, <1>4, <2>2, <2>3
<1>9. (\A i \in Calls : Backed(stack[i], Blessed, Known, api.try))'
  <2>1. Backed(f, Blessed', Known', api'.try)
    BY <1>3 DEF Backed
  <2>2. Backed(stack[1], Blessed, Known, api.try)'
    BY <1>3 DEF Backed
  <2> QED  BY <1>3, <2>2
<1>10. ~At("part")' /\ ~Back'
  BY <1>3 DEF At, Back
<1> QED  BY <1>5, <1>6, <1>8, <1>9, <1>10 DEF SupportInv

LEMMA SupportRest ==
  ASSUME Bertrand, Types, CallsInv, SupportInv, Rests
  PROVE  SupportInv'
<1>1. UNCHANGED <<wisdom_state, clock, stack, pln>>
  BY RestsDoes
<1>2. FilesSound' = FilesSound
  BY DEF FilesSound, SoundSolutions, Supported, AllAnswered, Answered, IsTrue, Allowed
<1>3. CASE UNCHANGED vars
  <2>1. Known' = Known /\ Blessed' = Blessed
    BY <1>3 DEF Known, Blessed, vars, tables
  <2>2. /\ SoundSolutions(Known)' = SoundSolutions(Known)
        /\ SoundSolutions(Blessed)' = SoundSolutions(Blessed)
    BY <2>1 DEF SoundSolutions, Supported, AllAnswered, Answered, IsTrue, Allowed
  <2>3. /\ Sound' = Sound /\ Calls' = Calls /\ At("part")' = At("part") /\ Back' = Back
    BY <1>2, <1>3 DEF vars, Sound, Calls, At, Back, Top
  <2>4. ASSUME NEW i \in Calls
        PROVE  Backed(stack[i], Blessed, Known, api.try)' = Backed(stack[i], Blessed, Known, api.try)
    BY <1>3, <2>1 DEF vars, Backed, Reach, AllAnswered, Answered, Allowed
  <2>5. Awaits(Top, pln, Blessed, Known, api.try)' = Awaits(Top, pln, Blessed, Known, api.try)
    BY <1>3, <2>1 DEF vars, Awaits, Awaited, Reach, Answered, Top
  <2>6. Answered(Blessed, api.p, api.l, Levels[api.used] \cup api.l)'
          = Answered(Blessed, api.p, api.l, Levels[api.used] \cup api.l)
    BY <1>3, <2>1 DEF vars, Answered
  <2> QED  BY <1>3, <2>2, <2>3, <2>4, <2>5, <2>6 DEF SupportInv, vars
<1>4. CASE /\ api'.at = "idle" /\ stack = <<>>
           /\ \/ Planned /\ htab_unblessed' = mkhashtab /\ htab_blessed' = htab_blessed
                 /\ (api'.try = 3 => api.try = 3)
              \/ /\ api.at = "idle" /\ htab_unblessed' = htab_unblessed /\ api'.try # 3
                 /\ \E file \in Files : htab_blessed' = imprt(htab_blessed, file)
              \/ api.at = "idle" /\ ForgetEverything /\ api'.try # 3
  <2>1. Calls' = {} /\ ~At("part")' /\ ~Back'
    BY <1>1, <1>4 DEF Calls, At, Back
  <2>2. api'.try = 3 => wisdom_state' # "BOGUS"
    BY <1>1, <1>4 DEF SupportInv
  <2>3. ASSUME Sound' PROVE (SoundSolutions(Known) /\ SoundSolutions(Blessed))'
    <3>1. FilesSound /\ SoundSolutions(Known) /\ SoundSolutions(Blessed)
      BY <1>2, <1>4, <2>3 DEF Sound, SupportInv
    <3>2. PICK B, K : B = Blessed' /\ K = Known'
      OBVIOUS
    <3>3. SoundSolutions(B) /\ SoundSolutions(K)
      <4>1. CASE htab_unblessed' = mkhashtab /\ htab_blessed' = htab_blessed
        <5>1. Solutions(mkhashtab) = {}
          BY StoredIs, MkhashtabIs
        <5>2. B = Blessed /\ K = Blessed
          BY <3>2, <4>1, <5>1 DEF Blessed, Known
        <5> QED  BY <3>1, <5>2
      <4>2. ASSUME htab_unblessed' = htab_unblessed, NEW file \in Files,
                   htab_blessed' = imprt(htab_blessed, file), api.at = "idle"
            PROVE  SoundSolutions(B) /\ SoundSolutions(K)
        <5>1. file \in Seq(Stored) /\ SoundSolutions({file[i] : i \in DOMAIN file})
          BY <3>1, PlannerAssumption DEF FilesSound
        <5>2. SoundSolutions(B) /\ Answers(Blessed, B)
          BY <3>1, <3>2, <4>2, <5>1, ImportSound DEF Types, Tables, Blessed
        <5>3. PICK U : U = Solutions(htab_unblessed)
          OBVIOUS
        <5>4. Known = Blessed \cup U /\ K = B \cup U
          BY <3>2, <4>2, <5>3 DEF Known, Blessed
        <5>5. Answers(Known, K)
          <6>1. Answers(B, K) /\ Answers(U, K)
            BY <5>4, AnswersMore
          <6>2. \A p, l, u : Answered(Known, p, l, u) => Answered(Blessed, p, l, u) \/ Answered(U, p, l, u)
            BY <5>4 DEF Answered
          <6> QED  BY <5>2, <6>1, <6>2 DEF Answers
        <5>6. ASSUME NEW a \in K PROVE IsTrue(a) /\ Supported(a, K)
          <6>1. CASE a \in B
            <7>1. Answers(B, K)
              BY <5>4, AnswersMore
            <7> QED  BY <5>2, <6>1, <7>1, SupportedMore DEF SoundSolutions
          <6>2. CASE a \in Known
            BY <3>1, <5>5, <6>2, SupportedMore DEF SoundSolutions
          <6> QED  BY <5>4, <6>1, <6>2
        <5> QED  BY <5>2, <5>6 DEF SoundSolutions
      <4>3. CASE ForgetEverything
        <5>1. B = {} /\ K = {}
          BY <3>2, <4>3, Forgotten
        <5> QED  BY <5>1 DEF SoundSolutions
      <4> QED  BY <1>4, <4>1, <4>2, <4>3
    <3>4. SoundSolutions(Known)' = SoundSolutions(K) /\ SoundSolutions(Blessed)' = SoundSolutions(B)
      BY <3>2 DEF SoundSolutions, Supported, AllAnswered, Answered, IsTrue, Allowed
    <3> QED  BY <3>3, <3>4
  <2> QED  BY <1>1, <1>4, <2>1, <2>2, <2>3 DEF SupportInv
<1> QED  BY <1>3, <1>4, RestsDoes

LEMMA SupportNext ==
  ASSUME Bertrand, PlannerInv, Types, CallsInv, PlansInv, Denials, SupportInv, [Next]_vars
  PROVE  SupportInv'
BY NextIs, SupportStep, SupportBegin, SupportRest

(* Who has a plan may be promised one, and gets it without the estimator,     *)
(* unless time is limited. *)
Promise ==
  /\ api.at # "idle" /\ api.pln # NULL => Plannable(api.p, api.l)
  /\ api.at = "recreate" => api.pln # NULL
  /\ FilesTrue /\ api.at = "recreate" /\ api.limit = 0 => api.try # 2

LEMMA PromiseNext ==
  ASSUME PlannerInv, Types, CallsInv, PlansInv, NoClock, Denials, Promise, [Next]_vars
  PROVE  Promise'
<1>1. FilesTrue' = FilesTrue
  BY DEF FilesTrue, IsTrue, Allowed
<1>2. CASE UNCHANGED api
  <2>1. Plannable(api.p, api.l)' = Plannable(api.p, api.l)
    BY <1>2
  <2> QED  BY <1>1, <1>2, <2>1 DEF Promise
<1>3. CASE mkplan
  BY <1>2, <1>3, StepIs
<1>4. CASE Begins
  <2>1. Trust
    BY DEF CallsInv
  <2>2. \/ api.at = "idle" /\ api'.pln = NULL /\ api'.at \in {"plan", "only"}
        \/ Back /\ SameRequest /\ api.try = 1 /\ wisdom_state = "NORMAL" /\ pln = NULL
        \/ Back /\ SameRequest /\ api'.try # 2
        \/ /\ Planned /\ api'.p = api.p /\ api'.l = api.l /\ api'.try = 1
           /\ api'.pln = (IF pln = NULL THEN api.pln ELSE pln)
           /\ api'.at = "recreate" => api'.pln # NULL
    <3>1. \/ api.at = "idle" /\ api'.pln = NULL /\ (api'.at = "plan" \/ api'.at = "only")
          \/ Back /\ SameRequest /\ api.try = 1 /\ wisdom_state = "NORMAL" /\ pln = NULL
          \/ Back /\ SameRequest /\ (api'.try = 3 \/ api'.try = 4)
          \/ /\ Planned /\ api'.p = api.p /\ api'.l = api.l /\ api'.try = 1
             /\ api'.pln = (IF pln = NULL THEN api.pln ELSE pln)
             /\ api'.at = "recreate" => api'.pln # NULL
      BY ONLY <1>4, <2>1, Types, BeginsDoes
    <3> QED  BY ONLY <3>1
  <2>3. CASE api.at = "idle" /\ api'.pln = NULL /\ api'.at \in {"plan", "only"}
    BY <2>3 DEF Promise
  <2>4. CASE Back /\ SameRequest /\ api.try = 1 /\ wisdom_state = "NORMAL" /\ pln = NULL
    <3>1. api.at # "idle" /\ stack = <<>>
      BY <2>4 DEF Back
    <3>2. FilesTrue /\ api.limit = 0 => ~Plannable(api.p, api.l)
      BY <2>4, <3>1 DEF Denials, Believing, NoClock
    <3>3. FilesTrue /\ api.limit = 0 => api.at # "recreate"
      BY <3>1, <3>2 DEF Promise
    <3> QED  BY <1>1, <2>4, <3>1, <3>3 DEF Promise, SameRequest
  <2>5. CASE Back /\ SameRequest /\ api'.try # 2
    BY <1>1, <2>5 DEF Promise, SameRequest, Back
  <2>6. CASE /\ Planned /\ api'.p = api.p /\ api'.l = api.l /\ api'.try = 1
             /\ api'.pln = (IF pln = NULL THEN api.pln ELSE pln)
             /\ api'.at = "recreate" => api'.pln # NULL
    <3>1. api.at # "idle" /\ stack = <<>>
      BY <2>6 DEF Planned, Back
    <3>2. pln # NULL => Plannable(api.p, api.l)
      BY <3>1, ObeysPlannable DEF PlansInv
    <3> QED  BY <1>1, <2>6, <3>1, <3>2 DEF Promise
  <2> QED  BY <2>2, <2>3, <2>4, <2>5, <2>6
<1>5. CASE Rests
  <2>1. UNCHANGED vars \/ api'.at = "idle"
    BY <1>5, RestsDoes
  <2> QED  BY <1>2, <2>1 DEF Promise, vars
<1> QED  BY <1>3, <1>4, <1>5, NextIs

(* What the user got is answered by what is kept. *)
Remembered ==
  FilesSound /\ api.at = "idle" /\ api.result # NULL /\ api.limit = 0 =>
    /\ api.p \in Problems
    /\ Answered(Blessed, api.p, api.l, Levels[api.used] \cup api.l)

LEMMA RememberedNext ==
  ASSUME PlannerInv, Types, CallsInv, SupportInv, Promise, Remembered, [Next]_vars
  PROVE  Remembered'
<1>1. FilesSound' = FilesSound
  BY DEF FilesSound, SoundSolutions, Supported, AllAnswered, Answered, IsTrue, Allowed
<1>2. CASE mkplan
  <2>1. api.at # "idle" /\ UNCHANGED api
    BY <1>2, StepIs DEF Working, CallsInv, Trust
  <2> QED  BY <2>1 DEF Remembered
<1>3. CASE Begins
  <2>1. Trust
    BY DEF CallsInv
  <2>2. stack' # <<>>
    <3>1. \E level : stack' = <<Frame(api'.p, api'.l, Levels[level] \cup api'.l, api'.limit,
                                      api'.at = "recreate")>>
      BY ONLY <1>3, <2>1, Types, BeginsDoes
    <3> QED  BY <3>1, FirstFrame
  <2>3. Trust'
    BY <1>3, CallsBegin DEF CallsInv
  <2> QED  BY <2>2, <2>3 DEF Trust, Remembered
<1>4. CASE UNCHANGED vars
  BY <1>1, <1>4 DEF vars, Remembered, Blessed, Answered
<1>5. CASE api'.result = NULL
  BY <1>5 DEF Remembered
<1>6. CASE /\ Planned /\ htab_blessed' = htab_blessed
           /\ api'.p = api.p /\ api'.l = api.l /\ api'.limit = api.limit /\ api'.used = api.used
           /\ api'.result = (IF api.at = "recreate" THEN pln ELSE NULL)
  <2> SUFFICES ASSUME FilesSound, api'.result # NULL, api.limit = 0
               PROVE  api.p \in Problems /\ Answered(Blessed, api.p, api.l, Levels[api.used] \cup api.l)
    BY <1>1, <1>6 DEF Remembered, Blessed, Answered
  <2>1. api.at = "recreate" /\ pln # NULL /\ Back
    BY <1>6 DEF Planned
  <2>2. api.p \in Problems /\ api.try \in 1 .. 4 /\ Sound
    BY <2>1 DEF Types, TypedApi, CallsInv, Trust, Sound
  <2>3. api.try # 4 /\ api.try # 2
    BY <2>1, FilesAre DEF SupportInv, Promise
  <2>4. api.try \in {1, 3}
    BY <2>2, <2>3
  <2> QED  BY <2>1, <2>2, <2>4 DEF SupportInv
<1> QED  BY <1>2, <1>3, <1>4, <1>5, <1>6, NextIs, RestsDoes

(* A question that is answered by sound solutions is looked up with success. *)
LEMMA LookupAnswered ==
  ASSUME NEW ht, IsTable(ht, Stored), SoundSolutions(Solutions(ht)),
         NEW p \in Problems, NEW l, NEW u, Answered(Solutions(ht), p, l, u)
  PROVE  /\ htab_lookup(ht, p, [l |-> l, u |-> u, limit |-> 0]) \in Solutions(ht)
         /\ htab_lookup(ht, p, [l |-> l, u |-> u, limit |-> 0]).slvndx # INFEASIBLE
<1>1. PICK flags : flags = [l |-> l, u |-> u, limit |-> 0]
  OBVIOUS
<1>2. flags.l = l /\ flags.u = u /\ flags.limit = 0
  BY <1>1
<1>3. PICK T : T = Solutions(ht)
  OBVIOUS
<1>4. T \subseteq Stored /\ \A a \in T : IsTrue(a)
  BY <1>3, IrredundantIs DEF SoundSolutions
<1>5. /\ \E a \in T : a.s = p /\ Subsumes(a, flags)
      /\ \A a \in T : a.s = p /\ Subsumes(a, flags) => a.slvndx # INFEASIBLE
  BY <1>2, <1>3, <1>4, AnsweredIs
<1>6. PICK sol : sol = htab_lookup(ht, p, flags)
  OBVIOUS
<1>7. p \in Signatures
  BY DEF Problems
<1>8. \/ sol = NULL /\ \A a \in T : a.s = p => ~Subsumes(a, flags)
      \/ sol \in T /\ sol.s = p /\ Subsumes(sol, flags)
  BY <1>3, <1>6, <1>7, StoredIs, LookupIs
<1> QED  BY <1>1, <1>3, <1>5, <1>6, <1>8

LEMMA SoundReplays ==
  ASSUME NEW ht, IsTable(ht, Stored), SoundSolutions(Solutions(ht)),
         NEW p \in Problems, NEW l, NEW u, Answered(Solutions(ht), p, l, u)
  PROVE  Replays(ht, p, [l |-> l, u |-> u, limit |-> 0])
<1>1. PICK S : S = {a \in Solutions(ht) : a.slvndx # INFEASIBLE}
  OBVIOUS
<1>2. htab_lookup(ht, p, [l |-> l, u |-> u, limit |-> 0]) \in S
  BY <1>1, LookupAnswered
<1>3. ASSUME NEW sol \in S
      PROVE  /\ sol.slvndx # INFEASIBLE
             /\ \A k \in DOMAIN Solvers[sol.s][sol.slvndx].parts :
                  htab_lookup(ht, Solvers[sol.s][sol.slvndx].parts[k],
                              [l |-> sol.l, u |-> sol.u, limit |-> 0]) \in S
  <2>1. sol \in Solutions(ht) /\ sol.slvndx # INFEASIBLE
    BY <1>1
  <2>2. AllAnswered(Solutions(ht), sol.s, sol.slvndx, sol.l, sol.u)
    BY <2>1 DEF SoundSolutions, Supported
  <2>3. sol \in Stored
    BY <2>1, IrredundantIs
  <2>4. sol.s \in Problems /\ sol.slvndx \in DOMAIN Solvers[sol.s]
    BY <2>1, <2>3, StoredIs
  <2>5. Solvers[sol.s][sol.slvndx].parts \in Seq(Problems)
    BY <2>4, SolversAre
  <2>6. ASSUME NEW k \in DOMAIN Solvers[sol.s][sol.slvndx].parts
        PROVE  htab_lookup(ht, Solvers[sol.s][sol.slvndx].parts[k],
                           [l |-> sol.l, u |-> sol.u, limit |-> 0]) \in S
    <3>1. PICK q \in Problems : q = Solvers[sol.s][sol.slvndx].parts[k]
      BY <2>5, <2>6
    <3>2. Answered(Solutions(ht), q, sol.l, sol.u)
      BY <2>2, <2>6, <3>1 DEF AllAnswered
    <3>3. PICK m, v : m = sol.l /\ v = sol.u
      OBVIOUS
    <3>4. /\ htab_lookup(ht, q, [l |-> m, u |-> v, limit |-> 0]) \in Solutions(ht)
          /\ htab_lookup(ht, q, [l |-> m, u |-> v, limit |-> 0]).slvndx # INFEASIBLE
      BY <3>2, <3>3, LookupAnswered
    <3> QED  BY <1>1, <3>1, <3>3, <3>4
  <2> QED  BY <2>1, <2>6
<1> QED  BY <1>1, <1>2, <1>3 DEF Replays

--------------------------------------------------------------------------------
(* The theorems *)

(* What the planner does, besides finding what it knows. *)
Wise ==
  /\ CallsInv /\ PlansInv /\ Fresh /\ NoClock /\ NoLie /\ Denials /\ UnblessedTrue /\ RedundancyInv
  /\ SupportInv /\ Promise /\ Remembered

LEMMA WiseInit ==
  ASSUME Bertrand, Init
  PROVE  Wise
<1>1. CallsInv /\ PlansInv
  BY CallsInvInit, PlansInvInit
<1>2. api.at = "idle" /\ stack = <<>> /\ Calls = {} /\ htab_blessed = mkhashtab
      /\ htab_unblessed = mkhashtab /\ api.result = NULL /\ api.try = 0 /\ wisdom_state = "NORMAL"
  BY DEF Init, PlannerInit, Idle, Calls
<1>3. Solutions(mkhashtab) = {}
  BY StoredIs, MkhashtabIs DEF IsTable
<1>4. Known = {} /\ Irredundant(htab_blessed)
  BY <1>2, <1>3, MkhashtabSpare DEF Known, Blessed
<1>5. Fresh /\ NoClock
  BY <1>2 DEF Fresh, NoClock
<1>6. NoLie /\ UnblessedTrue
  BY <1>2, <1>3, <1>4 DEF NoLie, UnblessedTrue
<1>7. Denials
  BY <1>2 DEF Denials, Believing
<1>8. RedundancyInv
  BY <1>2, <1>4 DEF RedundancyInv
<1>9. SupportInv
  <2>1. Blessed = {} /\ ~At("part") /\ ~Back
    BY <1>2, <1>4 DEF Known, At, Back
  <2> QED  BY <1>2, <1>4, <2>1 DEF SupportInv, SoundSolutions
<1>10. Promise /\ Remembered
  BY <1>2 DEF Promise, Remembered
<1> QED  BY <1>1, <1>5, <1>6, <1>7, <1>8, <1>9, <1>10 DEF Wise

LEMMA WiseNext ==
  ASSUME Bertrand, PlannerInv, Types, Wise, [Next]_vars
  PROVE  Wise'
<1>1. /\ CallsInv /\ PlansInv /\ Fresh /\ NoClock /\ NoLie /\ Denials /\ UnblessedTrue /\ RedundancyInv
      /\ SupportInv /\ Promise /\ Remembered
  BY DEF Wise
<1>2. CallsInv' /\ PlansInv'
  BY ONLY PlannerInv, Types, [Next]_vars, <1>1, CallsInvNext, PlansInvNext
<1>3. Fresh' /\ NoClock'
  BY ONLY Bertrand, PlannerInv, Types, [Next]_vars, <1>1, FreshNext, NoClockNext
<1>4. NoLie' /\ Denials'
  BY ONLY Bertrand, PlannerInv, Types, [Next]_vars, <1>1, NoLieNext, DenialsNext
<1>5. UnblessedTrue' /\ RedundancyInv'
  BY ONLY Bertrand, PlannerInv, Types, [Next]_vars, <1>1, UnblessedTrueNext, RedundancyNext
<1>6. SupportInv'
  BY ONLY Bertrand, PlannerInv, Types, [Next]_vars, <1>1, SupportNext
<1>7. Promise' /\ Remembered'
  BY ONLY PlannerInv, Types, [Next]_vars, <1>1, PromiseNext, RememberedNext
<1> QED  BY <1>2, <1>3, <1>4, <1>5, <1>6, <1>7 DEF Wise

LEMMA Wisely ==
  ASSUME Bertrand
  PROVE  Spec => [](PlannerInv /\ Types /\ Wise)
<1>1. Init => Types /\ Wise
  BY TypesInit, WiseInit
<1>2. PlannerInv /\ Types /\ [Next]_vars => Types'
  BY TypesNext
<1>3. PlannerInv /\ Types /\ Wise /\ [Next]_vars => Wise'
  BY WiseNext
<1> QED  BY <1>1, <1>2, <1>3, PlannerInvariance, PTL DEF Spec

(* No solution that is kept makes another one useless, if no file says that a *)
(* problem cannot be planned that can be.                                     *)
THEOREM NoneKeptIsUseless ==
  ASSUME Bertrand, FilesTrue
  PROVE  Spec => []KeptIrredundant
<1>1. Wise => KeptIrredundant
  BY DEF Wise, RedundancyInv, KeptIrredundant
<1> QED  BY <1>1, Wisely, PTL

(* However time ran out and whatever wisdom was read: a call of apiplan.c's   *)
(* mkplan gives a plan that obeys what was asked for, with all its parts, or  *)
(* there is none, unless nothing but wisdom may be used, or time ran out once *)
(* more after bogus wisdom had been forgotten.                               *)
THEOREM WhoAsksGetsAPlan ==
  ASSUME Bertrand
  PROVE  Spec => []PlanIfAny
<1>1. Wise => PlanIfAny
  <2> SUFFICES ASSUME Wise, Planned
               PROVE  IF pln = NULL
                      THEN \/ api.at = "only" \/ ~Plannable(api.p, api.l)
                           \/ api.try = 3 /\ timed_out
                      ELSE Obeys(pln, api.p, api.l)
    BY DEF PlanIfAny
  <2>1. CallsInv /\ PlansInv /\ NoClock /\ Denials /\ SupportInv
    BY DEF Wise
  <2>2. api.at # "idle" /\ stack = <<>> /\ Calls = {}
    BY DEF Planned, Back, Calls
  <2>3. /\ api.try \in 1 .. 4 /\ (api.at = "only" => api.try = 4)
        /\ wisdom_state \in {Base, "BOGUS"}
    BY <2>1, <2>2 DEF CallsInv, Trust
  <2>4. pln # NULL => Obeys(pln, api.p, api.l)
    BY <2>1, <2>2 DEF PlansInv
  <2>5. ASSUME pln = NULL, api.at # "only" PROVE ~Plannable(api.p, api.l) \/ (api.try = 3 /\ timed_out)
    <3>1. api.try # 4
      BY <2>1, <2>2, <2>5 DEF SupportInv
    <3>2. wisdom_state = Base
      BY <2>3, <3>1 DEF Planned
    <3>3. api.try # 1
      BY <2>5, <3>2 DEF Planned, Base
    <3>4. api.try \in {2, 3} /\ wisdom_state # "BOGUS"
      BY <2>3, <2>5, <3>1, <3>2, <3>3 DEF Base
    <3>5. timed_out => api.try = 3
      BY <2>1, <2>2, <3>4 DEF NoClock
    <3> QED  BY <2>1, <2>2, <2>5, <3>4, <3>5 DEF Denials, Believing
  <2> QED  BY <2>4, <2>5
<1> QED  BY <1>1, Wisely, PTL

(* When all wisdom has been forgotten, what is planned afresh never turns out *)
(* bogus, so the last resort of apiplan.c's mkplan (apiplan.c:73-80) is never *)
(* needed, whatever the problems and their solvers are. *)
THEOREM PlannedAfreshIsSound ==
  ASSUME Bertrand
  PROVE  Spec => []AfreshIsSound
<1>1. Wise => AfreshIsSound
  BY DEF Wise, SupportInv, AfreshIsSound
<1> QED  BY <1>1, Wisely, PTL

(* If the files have all that is needed to follow their solutions, so has the *)
(* wisdom that is kept, and a file written of it again; it turns out bogus    *)
(* only when nothing else may be used. *)
WisdomSound ==
  SoundSolutions(Blessed) /\ (wisdom_state = "BOGUS" => api.at \in {"idle", "only"})

THEOREM WisdomStaysSound ==
  ASSUME Bertrand, FilesSound
  PROVE  Spec => []WisdomSound
<1>1. Wise => WisdomSound
  BY DEF Wise, SupportInv, Sound, WisdomSound
<1> QED  BY <1>1, Wisely, PTL

(* Then a plan that was made without a time limit can be created again by     *)
(* following what is kept, with all its parts and without a search. *)
THEOREM PlansCanBeReconstructed ==
  ASSUME Bertrand, FilesSound
  PROVE  Spec => []Reconstructible
<1>1. Types /\ Wise => Reconstructible
  <2> SUFFICES ASSUME Types, Wise, api.at = "idle", api.result # NULL, api.limit = 0
               PROVE  Replays(htab_blessed, api.p,
                              [l |-> api.l, u |-> Levels[api.used] \cup api.l, limit |-> 0])
    BY DEF Reconstructible
  <2>1. api.p \in Problems /\ Answered(Blessed, api.p, api.l, Levels[api.used] \cup api.l)
    BY DEF Wise, Remembered
  <2>2. SoundSolutions(Solutions(htab_blessed)) /\ IsTable(htab_blessed, Stored)
    BY DEF Wise, SupportInv, Sound, Blessed, Types, Tables
  <2>3. PICK ht, p, l, u : ht = htab_blessed /\ p = api.p /\ l = api.l /\ u = Levels[api.used] \cup api.l
    OBVIOUS
  <2>4. Replays(ht, p, [l |-> l, u |-> u, limit |-> 0])
    BY <2>1, <2>2, <2>3, SoundReplays DEF Blessed
  <2> QED  BY <2>3, <2>4
<1> QED  BY <1>1, Wisely, PTL
================================================================================
