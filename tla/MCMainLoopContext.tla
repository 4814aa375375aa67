-------------------------- MODULE MCMainLoopContext --------------------------
(***************************************************************************)
(* An instance of MainLoopContext for TLC.  Nothing distinguishes the      *)
(* nodes of the lists from each other, nor the sources.                    *)
(***************************************************************************)
EXTENDS MainLoopContext, TLC

Symmetry == Permutations(Subscriptions) \cup Permutations(Sources)
==============================================================================
