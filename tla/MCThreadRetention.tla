-------------------------- MODULE MCThreadRetention --------------------------
(* Model values for ThreadRetention. *)
EXTENDS ThreadRetention, TLC

CONSTANTS x1, x2, x3, t1, t2

MCThreads == {x1, x2, x3}
MCTurns   == {t1, t2}

\* Threads and turns are interchangeable.
Symmetry == Permutations(MCThreads) \cup Permutations(MCTurns)
=============================================================================
