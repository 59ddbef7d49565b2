-------------------------------- MODULE MCApiPlan -------------------------------
(* A problem with a part, and the flags that matter to their solvers. *)
EXTENDS ApiPlan

CONSTANTS whole, part

MCSignatures == {whole, part}

\* Both are searched for in the same slots.
MCWords == whole :> <<4, 1>> @@ part :> <<4, 1>>

\* The solvers of the part are ugly, and one destroys its input.  So does the
\* first solver of the whole; neither of its solvers is for estimates.
MCSolvers ==
  whole :> <<[forbidden |-> {"ESTIMATE", "NO_DESTROY_INPUT"}, parts |-> <<part, part>>],
             [forbidden |-> {"ESTIMATE", "NO_UGLY"}, parts |-> <<part>>]>>
  @@ part :> <<[forbidden |-> {"NO_UGLY"}, parts |-> <<>>],
               [forbidden |-> {"NO_UGLY"}, parts |-> <<>>],
               [forbidden |-> {"NO_UGLY", "NO_DESTROY_INPUT"}, parts |-> <<>>]>>

MCLevels == <<{"ESTIMATE", "NO_UGLY"}, {"NO_UGLY"}, {}>>
MCHard   == {{}, {"NO_DESTROY_INPUT"}}
MCRelax  == <<{}, {"NO_UGLY"}>>

\* A file saved after an estimate, and after another plan that lacks its part.
MCFiles ==
  {<<[s |-> part, l |-> {"ESTIMATE"}, u |-> {"ESTIMATE", "NO_UGLY"}, limit |-> 0, slvndx |-> 1],
     [s |-> whole, l |-> {}, u |-> {"ESTIMATE", "NO_UGLY"}, limit |-> 0, slvndx |-> 2],
     [s |-> whole, l |-> {"NO_DESTROY_INPUT"}, u |-> {"NO_UGLY", "NO_DESTROY_INPUT"},
      limit |-> 0, slvndx |-> 2]>>}
================================================================================
