----------------------------- MODULE PlanLifecycle -----------------------------
(***************************************************************************)
(* The life of FFTW's plans in a round of localization.cpp (and, as its    *)
(* only round, of Cross Correlation.cpp): the calls of the API             *)
(* (api/apiplan.c, api/the-planner.c) as the program makes them, each taken *)
(* apart into what it does to the plan objects and their shared tables     *)
(* (module Twiddles).                                                      *)
(***************************************************************************)
EXTENDS Twiddles

CONSTANTS
  Trees,   \* for each plan of the program, the objects of its tree
  Wanted,  \* what each of them asks for
  Scratch, \* objects that a search makes on the way
  Measure  \* does a search measure (FFTW_MEASURE) or estimate?

\* No object is part of two plans: each solver allocates its plan
\* (kernel/plan.c, fftw_mkplan).
ASSUME LifecycleAssumption ==
  /\ Trees \in Seq(SUBSET (Users \ Scratch)) /\ Trees # <<>>
  /\ \A j, l \in DOMAIN Trees : j # l => Trees[j] \cap Trees[l] = {}
  /\ \A j \in DOMAIN Trees : \A u \in Trees[j] : Wanted[u] \in Requests
  /\ Scratch \subseteq Users
  /\ {"AWAKE_ZERO", "AWAKE_SINCOS"} \subseteq Awakeness

VARIABLES
  pc,      \* where the program, or the call it is in, is
  k,       \* the plan the program is at
  tried,   \* the candidates this search has made, and those it has timed
  planner, \* is there a planner, with its solvers?
  slv      \* the plans whose solvers are still there

callVars == <<pc, k, tried, planner, slv>>
allVars  == <<vars, callVars>>

All(S, w) == \A u \in S : wakefulness[u] = w

LifecycleInit ==
  /\ Init
  /\ pc = "plan" /\ k = 1 /\ tried = {}
  /\ planner = FALSE /\ slv = {}

\* The program goes on to the same statement for the next plan, or, after the
\* last, to the statement "then".
Proceed(then) ==
  IF k < Len(Trees) THEN k' = k + 1 /\ UNCHANGED pc ELSE k' = 1 /\ pc' = then

--------------------------------------------------------------------------------
(* fftw_plan_dft_r2c_1d, fftw_plan_dft_c2r_1d: mkapiplan *)

the_planner ==
  /\ pc = "plan" /\ pc' = "search"
  /\ planner' = TRUE /\ tried' = {}
  /\ UNCHANGED <<vars, k, slv>>

\* Mutant of measure_execution_time: it starts over, for ever.
measure_start_over(s) ==
  /\ Measure
  /\ Awake(s, "AWAKE_ZERO") \/ Sleep(s)
  /\ UNCHANGED tried

\* measure_execution_time: a candidate is woken with zeros, run, and put to
\* sleep again.
measure_execution_time(s) ==
  /\ Measure
  /\ \/ /\ <<s, "timed">> \notin tried
        /\ Awake(s, "AWAKE_ZERO")
        /\ tried' = tried \cup {<<s, "timed">>}
     \/ Sleep(s) /\ UNCHANGED tried

\* A solver makes a candidate; it is evaluated; all but the best, and any
\* that are only parts of others, are destroyed.
Search(s) ==
  /\ pc = "search"
  /\ \/ /\ <<s, "made">> \notin tried
        /\ \E q \in Requests : mkplan(s, q)
        /\ tried' = tried \cup {<<s, "made">>}
     \/ measure_execution_time(s)
     \/ plan_destroy(s) /\ UNCHANGED tried
  /\ UNCHANGED <<pc, k, planner, slv>>

\* The search has found its best plan, which sleeps.
SearchDone ==
  /\ pc = "search" /\ pc' = "make"
  /\ \A s \in Scratch : wakefulness[s] \in {"SLEEPY", "none"}
  /\ UNCHANGED <<vars, k, tried, planner, slv>>

\* The plan is made again, from wisdom, ...
Make(u) ==
  /\ pc = "make"
  /\ mkplan(u, Wanted[u])
  /\ slv' = slv \cup {k}
  /\ UNCHANGED <<pc, k, tried, planner>>

\* ... woken as a whole, ...
Wake(u) ==
  /\ pc = "wake" \/ (pc = "make" /\ All(Trees[k], "SLEEPY"))
  /\ Awake(u, "AWAKE_SINCOS")
  /\ pc' = "wake"
  /\ UNCHANGED <<k, tried, planner, slv>>

\* ... and the one the search found is destroyed.
Drop(s) ==
  /\ pc = "wake" /\ All(Trees[k], "AWAKE_SINCOS")
  /\ plan_destroy(s)
  /\ UNCHANGED callVars

Planned ==
  /\ pc = "wake" /\ All(Trees[k], "AWAKE_SINCOS") /\ All(Scratch, "none")
  /\ IF k < Len(Trees) THEN k' = k + 1 /\ pc' = "plan" ELSE k' = 1 /\ pc' = "execute"
  /\ UNCHANGED <<vars, tried, planner, slv>>

--------------------------------------------------------------------------------
\* fftw_execute
Execute ==
  /\ pc = "execute"
  /\ Proceed("destroy")
  /\ UNCHANGED <<vars, tried, planner, slv>>

(* fftw_destroy_plan *)

\* The tree is put to sleep, ...
DestroyAwake(u) ==
  /\ pc = "destroy"
  /\ Sleep(u)
  /\ UNCHANGED callVars

\* ... and destroyed.
DestroyInternal(u) ==
  /\ pc = "destroy" /\ \A v \in Trees[k] : wakefulness[v] \notin Awakeness
  /\ plan_destroy(u)
  /\ UNCHANGED callVars

\* Mutant of Destroyed: the program forgets the last plan.
DestroyedButLast ==
  /\ pc = "destroy" /\ All(Trees[k], "none")
  /\ IF k + 1 < Len(Trees) THEN k' = k + 1 /\ UNCHANGED pc ELSE k' = 1 /\ pc' = "cleanup"
  /\ UNCHANGED <<vars, tried, planner, slv>>

Destroyed ==
  /\ pc = "destroy" /\ All(Trees[k], "none")
  /\ Proceed("cleanup")
  /\ UNCHANGED <<vars, tried, planner, slv>>

\* fftw_cleanup: the planner goes, and with it the solvers that the plans
\* still point to; the round ends.
Cleanup ==
  /\ pc = "cleanup" /\ pc' = "plan"
  /\ planner' = FALSE /\ slv' = {}
  /\ UNCHANGED <<vars, k, tried>>

LifecycleNext ==
  \/ the_planner \/ SearchDone \/ Planned \/ Execute \/ Destroyed \/ Cleanup
  \/ \E s \in Scratch : Search(s) \/ Drop(s)
  \/ \E u \in Trees[k] : Make(u) \/ Wake(u) \/ DestroyAwake(u) \/ DestroyInternal(u)

LifecycleSpec == LifecycleInit /\ [][LifecycleNext]_allVars /\ WF_allVars(LifecycleNext)

--------------------------------------------------------------------------------
(* Properties *)

\* A plan is executed, and taken apart, with its solvers in place, and is
\* executed with real factors of its own request in all its parts: the program
\* cleans up only after its plans, and no measurement is left in them.
ExecutesWhole ==
  /\ pc = "execute" => k \in slv /\ \A u \in Trees[k] :
       Reads(u) = Needed("AWAKE_SINCOS", Wanted[u])
  /\ pc = "destroy" => k \in slv

\* A round begins with nothing left of the one before: no planner, no plan,
\* no table.
RoundLeavesNothing ==
  pc = "plan" /\ k = 1 => /\ ~planner /\ slv = {}
                          /\ All(Users, "none") /\ Live = {}

\* Rounds follow each other: no call waits for ever.
RoundsGoOn == []<>(pc = "cleanup")
================================================================================
