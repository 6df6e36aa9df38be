----------------------------- MODULE MCPauseRules -----------------------------
(***************************************************************************)
(* The pause rules with the constants of a small instance.                 *)
(***************************************************************************)
EXTENDS PauseRules, TLC

CONSTANTS timer, request

MCCycle == {timer, request}
MCResults == {-1, 1}

\* The two threads do the same.
Symmetry == Permutations(MCCycle)
===============================================================================
