-------------------------------- MODULE ApiPlan ---------------------------------
(***************************************************************************)
(* The API around FFTW's planner: mkapiplan (api/apiplan.c), reading a     *)
(* wisdom file and forgetting wisdom.  One thread plans at a time.         *)
(***************************************************************************)
EXTENDS Planner

CONSTANT MaxCalls  \* bound: plans made between two calls that forget all wisdom

\* api is [at, ...] with
\*   at      "plan" or "recreate" while a plan is made, "only" while it is
\*           looked for with FFTW_WISDOM_ONLY, else "idle"
\*   p, l    what the user asks for
\*   pat, pat_max   the level being planned and the last, indices of Levels
\*   try     which of the calls of mkplan0 in mkplan is running, 4 the last
\*   pln     the plan of the last level that had one
\*   used    flags_used_for_planning, as an index of Levels
\*   result  what the user got
\*   calls   counts the plans made since wisdom was forgotten
Idle == [at |-> "idle", p |-> NULL, l |-> {}, pat |-> 0, pat_max |-> 0, try |-> 0, limit |-> 0,
         pln |-> NULL, used |-> 0, result |-> NULL, calls |-> 0]

Init == PlannerInit /\ api = Idle

\* mkplan0 at a level, as the try-th call.
mkplan0(a, level, wisdom, try) ==
  /\ api' = [a EXCEPT !.try = try]
  /\ wisdom_state' = wisdom
  /\ stack' = <<Frame(a.p, a.l, Levels[level] \cup a.l, a.limit, a.at = "recreate")>>

Start ==
  /\ api.at = "idle" /\ api.calls < MaxCalls
  /\ \E p \in Problems, l \in Hard, limit \in Limits, pat_max \in DOMAIN Levels :
       LET a == [Idle EXCEPT !.p = p, !.l = l, !.limit = limit, !.pat_max = pat_max,
                             !.calls = api.calls + 1]
           pat == IF limit # 0 THEN 1 ELSE pat_max
       IN  \/ mkplan0([a EXCEPT !.at = "plan", !.pat = pat], pat, "NORMAL", 1)
           \/ mkplan0([a EXCEPT !.at = "only", !.pat = pat_max], pat_max, "ONLY", 4)
  /\ UNCHANGED <<tables, clock, pln>>

-----------------------------------------------------------------------------
(***************************************************************************)
(* apiplan.c's mkplan: up to four calls of mkplan0.                        *)
(***************************************************************************)
Level == IF api.at = "recreate" THEN api.used ELSE api.pat

Back == api.at # "idle" /\ stack = <<>>

\* After "no" under a time limit, or if wisdom claims there is no plan.
TryEstimator ==
  /\ Back /\ api.try = 1 /\ wisdom_state = "NORMAL" /\ pln = NULL
  /\ mkplan0(api, 1, "IGNORE_INFEASIBLE", 2)
  /\ UNCHANGED <<tables, clock, pln>>

ForgetEverything == htab_blessed' = mkhashtab /\ htab_unblessed' = mkhashtab

\* Mutant of TryAgain: what is known of other problems is kept.
TryKeeping ==
  /\ Back /\ api.try # 4 /\ wisdom_state = "BOGUS"
  /\ IF api.try = 3 THEN mkplan0(api, 1, "IGNORE_ALL", 4) ELSE mkplan0(api, Level, "NORMAL", 3)
  /\ UNCHANGED <<tables, clock, pln>>

\* Mutant of TryAgain: the wisdom that was bogus is tried until it is not.
TryUntilSound ==
  /\ Back /\ api.try # 4 /\ wisdom_state = "BOGUS"
  /\ mkplan0(api, Level, "NORMAL", 1)
  /\ UNCHANGED <<tables, clock, pln>>

\* If the wisdom is bogus, everything is forgotten; at last no wisdom is used.
TryAgain ==
  /\ Back /\ api.try # 4 /\ wisdom_state = "BOGUS"
  /\ ForgetEverything
  /\ IF api.try = 3 THEN mkplan0(api, 1, "IGNORE_ALL", 4) ELSE mkplan0(api, Level, "NORMAL", 3)
  /\ UNCHANGED <<clock, pln>>

\* mkplan returns.
Planned ==
  /\ Back
  /\ ~(api.try = 1 /\ wisdom_state = "NORMAL" /\ pln = NULL)
  /\ api.try = 4 \/ wisdom_state # "BOGUS"

-----------------------------------------------------------------------------
(***************************************************************************)
(* mkapiplan.                                                              *)
(***************************************************************************)
LevelDone == IF pln = NULL THEN api ELSE [api EXCEPT !.pln = pln, !.used = api.pat]

NextLevel ==
  /\ Planned /\ api.at = "plan" /\ pln # NULL /\ api.pat < api.pat_max
  /\ mkplan0([LevelDone EXCEPT !.pat = @ + 1], api.pat + 1, "NORMAL", 1)
  /\ UNCHANGED <<tables, clock, pln>>

Recreate ==
  /\ Planned /\ api.at \in {"plan", "only"}
  /\ pln = NULL \/ api.pat = api.pat_max
  /\ LevelDone.pln # NULL
  /\ mkplan0([LevelDone EXCEPT !.at = "recreate"], LevelDone.used, "NORMAL", 1)
  /\ UNCHANGED <<tables, clock, pln>>

\* Without a plan, or with the plan created again, which is given to the user.
End ==
  /\ Planned
  /\ api.at = "recreate" \/ LevelDone.pln = NULL
  /\ htab_unblessed' = mkhashtab
  /\ api' = [api EXCEPT !.at = "idle", !.result = IF api.at = "recreate" THEN pln ELSE NULL]
  /\ UNCHANGED <<htab_blessed, wisdom_state, clock, stack, pln>>

-----------------------------------------------------------------------------
\* imprt: the solutions of a file that do better than what is known are inserted.
imprt(ht, file) ==
  LET read[i \in 0 .. Len(file)] ==
        IF i = 0 THEN ht
        ELSE IF htab_lookup(read[i - 1], file[i].s, file[i]) = NULL
             THEN htab_insert(read[i - 1], file[i]) ELSE read[i - 1]
  IN  read[Len(file)]

\* The other table is empty now.  A file that is refused leaves the table as it was.
Import ==
  /\ api.at = "idle" /\ api.calls < MaxCalls
  /\ \E file \in Files : htab_blessed' = imprt(htab_blessed, file)
  /\ api' = [Idle EXCEPT !.calls = api.calls]
  /\ UNCHANGED <<htab_unblessed, wisdom_state, clock, stack, pln>>

\* fftw_forget_wisdom.
Forget ==
  /\ api.at = "idle"
  /\ ForgetEverything /\ api' = Idle
  /\ UNCHANGED <<wisdom_state, clock, stack, pln>>

Call == TryEstimator \/ TryAgain \/ NextLevel \/ Recreate \/ End

Next == Start \/ mkplan \/ Call \/ Import \/ Forget

Spec == Init /\ [][Next]_vars

\* A call that is under way goes on.  This is WF_vars(mkplan \/ Call): while the
\* API is not idle one of them is enabled and every change is a step of theirs.
FairSpec == Spec /\ ([]<>(api.at = "idle") \/ []<><<TRUE>>_vars)

-----------------------------------------------------------------------------
(* Properties *)

\* What check() asserts of the tables (planner.c:995-1034): whatever was inserted,
\* killed and moved, they are not full and a search finds every solution for its
\* problem.  A solver is never recorded as the answer to an impatient question only
\* (planner.c:57).
TablesSound ==
  \A ht \in {htab_blessed, htab_unblessed} :
    /\ Counted(ht) /\ Finds(ht)
    /\ \A sol \in Solutions(ht) : sol.slvndx # INFEASIBLE => sol.limit = 0

\* No solution of the table that is kept makes another of it useless
\* (planner.c:1023-1024), unless a file says that a problem cannot be planned that can.
KeptIrredundant == Irredundant(htab_blessed)

\* The assertion at planner.c:370 and its comment, "It is an error to insert an
\* element that is subsumed by an existing entry", at every insertion.
AlwaysIrredundant == Irredundant(htab_blessed) /\ Irredundant(htab_unblessed)

\* The assertions about time of planner.c:501, 513 and 715.
TimeIsNoticed ==
  /\ timed_out => need_timeout_check
  /\ At("searched") /\ wisdom_state # "BOGUS" /\ timed_out => Top.best = NULL

\* Can the problems in S be planned with solvers allowed under l, each of parts in S?
CanMake(S, l) ==
  \A p \in S : \E n \in DOMAIN Solvers[p] :
    /\ Solvers[p][n].forbidden \cap l = {}
    /\ \A k \in DOMAIN Solvers[p][n].parts : Solvers[p][n].parts[k] \in S

Plannable(p, l) == \E S \in SUBSET Problems : p \in S /\ CanMake(S, l)

\* The problems that are planned in a plan.
Planning(plan) == {decision[1] : decision \in plan}

\* Is plan one for p, with all its parts, in which every solver is allowed under l?
Obeys(plan, p, l) ==
  /\ p \in Planning(plan)
  /\ \A decision \in plan :
       LET solver == Solvers[decision[1]][decision[2]]
       IN  /\ decision \in Decisions /\ solver.forbidden \cap l = {}
           /\ \A k \in DOMAIN solver.parts : solver.parts[k] \in Planning(plan)

\* Do solutions of a table, followed without a search, make a plan for p?
Replays(ht, p, flags) ==
  \E S \in SUBSET Solutions(ht) :
    /\ htab_lookup(ht, p, flags) \in S
    /\ \A sol \in S : /\ sol.slvndx # INFEASIBLE
                      /\ \A k \in DOMAIN Solvers[sol.s][sol.slvndx].parts :
                           htab_lookup(ht, Solvers[sol.s][sol.slvndx].parts[k],
                                       [l |-> sol.l, u |-> sol.u, limit |-> 0]) \in S

\* The user gets a plan if there is any, unless only wisdom may be used, and
\* every solver in it is allowed by what was asked for (ifftw.h:605-613),
\* however time ran out and whatever wisdom was read.  In particular a plan can
\* be created again, which mkapiplan does not test (apiplan.c:146-149).  But
\* when bogus wisdom has been forgotten the estimator is not asked any more,
\* should time run out then (apiplan.c:65-71).
PlanIfAny ==
  Planned =>
    IF pln = NULL
    THEN \/ api.at = "only" \/ ~Plannable(api.p, api.l)
         \/ api.try = 3 /\ timed_out
    ELSE Obeys(pln, api.p, api.l)

\* When a problem was planned without running out of time, the wisdom kept is
\* enough to create a plan again without a search (apiplan.c:166).
Reconstructible ==
  api.at = "idle" /\ api.result # NULL /\ api.limit = 0 =>
    Replays(htab_blessed, api.p, [l |-> api.l, u |-> Levels[api.used] \cup api.l, limit |-> 0])

\* What a plan is made of afresh, after all wisdom was forgotten, never turns
\* out to be bogus: the call of mkplan0 that ignores it is never needed
\* (apiplan.c:73-80), whatever else the planning had put into the tables.
AfreshIsSound == api.try = 3 => wisdom_state # "BOGUS"

\* Every call of the API ends.
PlanningEnds == api.at # "idle" ~> api.at = "idle"
================================================================================
