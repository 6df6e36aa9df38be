---------------------------- MODULE MCJobQueue ----------------------------
(* Model values and symmetry for the runs of JobQueue.                     *)
EXTENDS JobQueue, TLC

\* Worker slots and API threads are interchangeable; jobs are ordered and are
\* not.  Used by the safety runs only.
Symmetry == Permutations(Workers) \cup Permutations(Apis) \cup Permutations(Scopes)
=============================================================================
