------------------------------ MODULE MCRunner ------------------------------
(***************************************************************************)
(* Finite instance of Runner: step lists that end with an effect, with a   *)
(* settle, with a wait, and one with no effect at all.                     *)
(***************************************************************************)
EXTENDS Runner

MCMaxPolls == 4
MCMaxWork == 2
MCResetSteps == <<"effect">>
MCPrograms == {<<"effect">>, <<"effect", "settle", "wait">>, <<"wait">>,
               <<"settle", "effect", "effect">>}
=============================================================================
