-------------------------------- MODULE Planner ---------------------------------
(***************************************************************************)
(* FFTW's planner (kernel/planner.c, api/apiplan.c).  A call of the API    *)
(* plans a problem at increasing patience until the time limit, then       *)
(* creates the plan again from the solutions that were found, which keeps  *)
(* those it needs (they are blessed) and forgets the others.  mkplan looks *)
(* a problem up and follows the solution found, trusting the table for all *)
(* its parts, or tries the solvers in turn, each of which may plan parts   *)
(* of the problem.  Wisdom read from a file goes into the blessed table.   *)
(*                                                                         *)
(* Which solver is the fastest, and when the time limit is over, may turn  *)
(* out either way whenever the code looks.  A solver is applicable unless  *)
(* a flag in l forbids it, and plans its parts with the flags it was given *)
(* itself; FFTW's twenty flags are three.  The hooks for MPI are not       *)
(* installed.                                                              *)
(***************************************************************************)
EXTENDS SolutionTable

CONSTANTS
  Solvers,   \* for each problem its solvers: the flags that forbid it, and its parts
  Levels,    \* the flags u of FFTW_ESTIMATE, FFTW_MEASURE, ... in this order
  Hard,      \* the values of l the API can ask for
  Relax,     \* relax_tab
  Files,     \* wisdom files: sequences of solutions
  Limits     \* the impatience values of time limits; 0 for none

\* How much the planner trusts the tables (wisdom_state_t).
Wisdom == {"NORMAL", "ONLY", "BOGUS", "IGNORE_INFEASIBLE", "IGNORE_ALL"}

ASSUME NullAssumption == NULL \notin Wisdom

Problems == Signatures
Flags    == (UNION {Levels[p] : p \in DOMAIN Levels}) \cup (UNION Hard)

\* What the tables hold: a solver of the problem for any time limit (a file where it
\* is not is refused), or the answer that there is none within the limit.
Stored ==
  {sol \in [s : Problems, l : SUBSET Flags, u : SUBSET Flags, limit : Limits \cup {0},
            slvndx : Nat \cup {INFEASIBLE}] :
     sol.slvndx # INFEASIBLE => sol.slvndx \in DOMAIN Solvers[sol.s] /\ sol.limit = 0}

Estimate(u) == "ESTIMATE" \in u

\* Does some solver of p plan q as a part?
IsPart(q, p) ==
  \E s \in DOMAIN Solvers[p] : \E k \in DOMAIN Solvers[p][s].parts : Solvers[p][s].parts[k] = q

\* Plans consist of decisions for a solver of a problem.
Decisions == UNION {{p} \X DOMAIN Solvers[p] : p \in Problems}

ASSUME PlannerAssumption ==
  /\ Solvers \in [Problems -> Seq([forbidden : SUBSET Flags, parts : Seq(Problems)])]
  /\ \A p \in Problems : INFEASIBLE \notin DOMAIN Solvers[p]
  /\ Levels # <<>> /\ Levels \in Seq(SUBSET Flags) /\ Estimate(Levels[1])
  /\ Relax \in Seq(SUBSET Flags)
  /\ Files \subseteq Seq(Stored)
  /\ Limits \subseteq Nat
  /\ NULL \notin Stored /\ \A x \in (SUBSET Flags) \cup (SUBSET Decisions) : x # NULL

\* The recursion of mkplan ends: in any set of problems there is one without parts in it.
ASSUME PartsAssumption ==
  \A S \in (SUBSET Problems) \ {{}} : \E p \in S : \A part \in S : ~IsPart(part, p)

VARIABLES
  htab_blessed, htab_unblessed,
  wisdom_state, timed_out, need_timeout_check,
  stack,  \* the calls of mkplan, the innermost last
  pln,    \* what the last mkplan returned
  api     \* the call of the API

vars == <<htab_blessed, htab_unblessed, wisdom_state, timed_out, need_timeout_check, stack, pln, api>>
tables == <<htab_blessed, htab_unblessed>>
clock  == <<timed_out, need_timeout_check>>

\* A call of mkplan for p under the planner's flags.
Frame(p, l, u, limit, bless) ==
  [p |-> p, flags |-> [l |-> l, u |-> u, limit |-> IF Estimate(u) THEN 0 ELSE limit, bless |-> bless],
   at |-> "lookup", sol |-> NULL, x |-> u, last_x |-> NULL, i |-> 1, owisdom |-> NULL,
   s |-> 0, parts |-> <<>>, got |-> NULL, best |-> NULL, slvndx |-> INFEASIBLE]

Top == Last(stack)
At(at) == stack # <<>> /\ Top.at = at
Become(f) == stack' = Append(Front(stack), f)

Return(plan) == stack' = Front(stack) /\ pln' = plan

wisdom_is_bogus == wisdom_state' = "BOGUS" /\ Return(NULL)

\* skip_search: sol is inserted unless wisdom is ignored.
Finish(plan, sol, bless, wisdom) ==
  /\ IF wisdom \notin {"NORMAL", "ONLY"} THEN UNCHANGED tables
     ELSE IF bless
     THEN htab_blessed' = htab_insert(htab_blessed, sol) /\ UNCHANGED htab_unblessed
     ELSE htab_unblessed' = htab_insert(htab_unblessed, sol) /\ UNCHANGED htab_blessed
  /\ Return(plan)

hlookup(p, flags) ==
  LET blessed == htab_lookup(htab_blessed, p, flags)
  IN  IF blessed # NULL THEN blessed ELSE htab_lookup(htab_unblessed, p, flags)

-----------------------------------------------------------------------------
(***************************************************************************)
(* mkplan: the beginning.                                                  *)
(***************************************************************************)
\* The solver in f.s is invoked with the flags in f.sol, nothing planned yet.
Invoke(f) == [f EXCEPT !.at = "solve", !.parts = <<>>, !.got = NULL]

Lookup ==
  /\ At("lookup")
  /\ IF wisdom_state = "BOGUS" THEN wisdom_is_bogus /\ UNCHANGED <<tables, timed_out>>
     ELSE LET sol    == hlookup(Top.p, Top.flags)
              search == IF wisdom_state = "ONLY" THEN wisdom_is_bogus
                        ELSE Become([Top EXCEPT !.at = "relax"]) /\ UNCHANGED <<wisdom_state, pln>>
          IN  /\ timed_out' = FALSE
              /\ IF wisdom_state = "IGNORE_ALL" \/ sol = NULL THEN search
                 ELSE IF sol.slvndx # INFEASIBLE
                 THEN /\ wisdom_state' = "ONLY"
                      /\ Become(Invoke([Top EXCEPT !.sol = sol, !.s = sol.slvndx,
                                                   !.owisdom = wisdom_state]))
                      /\ UNCHANGED pln
                 ELSE IF wisdom_state = "IGNORE_INFEASIBLE" THEN search
                 ELSE Return(NULL) /\ UNCHANGED wisdom_state
              /\ UNCHANGED tables
  /\ UNCHANGED <<need_timeout_check, api>>

-----------------------------------------------------------------------------
(***************************************************************************)
(* invoke_solver: the solver plans the parts of the problem one after the  *)
(* other, with the flags of the solution, and gives up with the first that *)
(* has no plan.                                                            *)
(***************************************************************************)
Solver == Solvers[Top.p][Top.s]

\* The plan the solver makes of those of the parts, as the set of all decisions in it.
MakePlan == {<<Top.p, Top.s>>} \cup UNION {Top.parts[k] : k \in DOMAIN Top.parts}

\* Mutant of Solve: the parts of a plan are not blessed.
SolveUnblessed ==
  /\ At("solve")
  /\ IF Solver.forbidden \cap Top.sol.l # {} THEN Become([Top EXCEPT !.at = "got"])
     ELSE IF Len(Top.parts) = Len(Solver.parts)
     THEN Become([Top EXCEPT !.at = "got", !.got = MakePlan])
     ELSE stack' = Append(Append(Front(stack), [Top EXCEPT !.at = "part"]),
                          Frame(Solver.parts[Len(Top.parts) + 1], Top.sol.l, Top.sol.u, 0, FALSE))
  /\ UNCHANGED <<tables, wisdom_state, clock, pln, api>>

Solve ==
  /\ At("solve")
  /\ IF Solver.forbidden \cap Top.sol.l # {} THEN Become([Top EXCEPT !.at = "got"])
     ELSE IF Len(Top.parts) = Len(Solver.parts)
     THEN Become([Top EXCEPT !.at = "got", !.got = MakePlan])
     ELSE stack' = Append(Append(Front(stack), [Top EXCEPT !.at = "part"]),
                          Frame(Solver.parts[Len(Top.parts) + 1], Top.sol.l, Top.sol.u, 0,
                                Top.flags.bless))
  /\ UNCHANGED <<tables, wisdom_state, clock, pln, api>>

Part ==
  /\ At("part")
  /\ Become(IF pln = NULL THEN [Top EXCEPT !.at = "got"]
            ELSE [Top EXCEPT !.at = "solve", !.parts = Append(@, pln)])
  /\ UNCHANGED <<tables, wisdom_state, clock, pln, api>>

\* Back in mkplan with the plan the solution led to.
Replayed ==
  /\ At("got") /\ Top.owisdom # NULL
  /\ IF wisdom_state = "BOGUS" \/ Top.got = NULL THEN wisdom_is_bogus /\ UNCHANGED tables
     ELSE /\ wisdom_state' = Top.owisdom
          /\ Finish(Top.got, Top.sol, Top.flags.bless, Top.owisdom)
  /\ UNCHANGED <<clock, api>>

-----------------------------------------------------------------------------
(***************************************************************************)
(* search and search0.                                                     *)
(***************************************************************************)
\* timeout_p returns late: the clock need not be monotonic.
timeout_p(late) ==
  IF Estimate(Top.flags.u) THEN ~late /\ need_timeout_check' = FALSE /\ UNCHANGED timed_out
  ELSE /\ timed_out => late
       /\ late => timed_out \/ api.limit # 0
       /\ timed_out' = late /\ need_timeout_check' = late

\* With the impatience flags x, or with none but l if that is left.
Search ==
  /\ At("relax")
  /\ LET l == Top.flags.l
         x == IF Top.i > Len(Relax) THEN l
              ELSE IF l \subseteq Top.x \ Relax[Top.i] THEN Top.x \ Relax[Top.i] ELSE Top.x
     IN  IF x # Top.last_x
         THEN Become([Top EXCEPT !.at = "search0", !.x = x, !.last_x = x, !.i = @ + 1,
                !.sol = [s |-> Top.p, l |-> x, u |-> Top.flags.u, limit |-> Top.flags.limit,
                         slvndx |-> INFEASIBLE]])
         ELSE IF Top.i > Len(Relax) THEN Become([Top EXCEPT !.at = "searched"])
         ELSE Become([Top EXCEPT !.i = @ + 1])
  /\ UNCHANGED <<tables, wisdom_state, clock, pln, api>>

\* Where search goes on after search0.
Searched(f) ==
  [f EXCEPT !.at = IF f.best # NULL \/ f.i > Len(Relax) + 1 THEN "searched" ELSE "relax"]

NextSolver(f) ==
  IF f.s < Len(Solvers[f.p]) THEN Invoke([f EXCEPT !.s = @ + 1]) ELSE Searched(f)

Search0 ==
  /\ At("search0")
  /\ \E late \in BOOLEAN :
       /\ timeout_p(late)
       /\ Become(IF late THEN Searched(Top) ELSE NextSolver([Top EXCEPT !.s = 0]))
  /\ UNCHANGED <<tables, wisdom_state, pln, api>>

\* Mutant of TimeIsUp: the best plan so far is kept.
TimeIsUpWithBest ==
  /\ At("got") /\ Top.owisdom = NULL
  /\ need_timeout_check /\ timeout_p(TRUE)
  /\ Become(Searched(Top))
  /\ UNCHANGED <<tables, wisdom_state, pln, api>>

\* A solver has been tried, but time is up: all plans are destroyed.
TimeIsUp ==
  /\ At("got") /\ Top.owisdom = NULL
  /\ need_timeout_check /\ timeout_p(TRUE)
  /\ Become(Searched([Top EXCEPT !.best = NULL]))
  /\ UNCHANGED <<tables, wisdom_state, pln, api>>

\* Its plan is compared with the best so far: unless they are estimated, both
\* are measured.  A solver may know that nothing better will come.
Compare ==
  /\ At("got") /\ Top.owisdom = NULL
  /\ need_timeout_check /\ timed_out => Estimate(Top.flags.u)
  /\ \E better, prune \in BOOLEAN :
       /\ better => Top.got # NULL
       /\ Top.got # NULL /\ Top.best = NULL => better
       /\ prune => Top.got # NULL /\ Estimate(Top.flags.u) /\ Top.s < Len(Solvers[Top.p])
       /\ LET f == IF better THEN [Top EXCEPT !.best = Top.got, !.slvndx = Top.s] ELSE Top
          IN  Become(IF prune THEN Searched(f) ELSE NextSolver(f))
  /\ need_timeout_check' = (Top.got # NULL /\ Top.best # NULL /\ ~Estimate(Top.flags.u))
  /\ UNCHANGED <<tables, wisdom_state, timed_out, pln, api>>

\* Back in mkplan with the result of the search.
Conclude ==
  /\ At("searched")
  /\ IF wisdom_state = "BOGUS" THEN wisdom_is_bogus /\ UNCHANGED tables
     ELSE /\ IF timed_out /\ Top.flags.limit = 0 THEN Return(NULL) /\ UNCHANGED tables
             ELSE Finish(Top.best,
                    [Top.sol EXCEPT !.slvndx = IF Top.best = NULL THEN INFEASIBLE ELSE Top.slvndx,
                                    !.limit = IF timed_out THEN @ ELSE 0],
                    Top.flags.bless \/ timed_out, wisdom_state)
          /\ UNCHANGED wisdom_state
  /\ UNCHANGED <<clock, api>>

mkplan ==
  Lookup \/ Solve \/ Part \/ Replayed \/ Search \/ Search0 \/ TimeIsUp \/ Compare \/ Conclude

PlannerInit ==
  /\ htab_blessed = mkhashtab /\ htab_unblessed = mkhashtab
  /\ wisdom_state = "NORMAL" /\ timed_out = FALSE /\ need_timeout_check = TRUE
  /\ stack = <<>> /\ pln = NULL
================================================================================
