--------------------------- MODULE MCTaskExecutor ---------------------------
(* Values for model checking TaskExecutor.                                 *)
EXTENDS TaskExecutor, TLC

CONSTANTS t1, t2, t3, s1, s2

OneTask == {t1}
TwoTasks == {t1, t2}
ThreeTasks == {t1, t2, t3}
OneStopper == {s1}
TwoStoppers == {s1, s2}

\* Tasks and stoppers are interchangeable (used for safety only).
Symmetry == Permutations(Tasks) \cup Permutations(Stoppers)
=============================================================================
