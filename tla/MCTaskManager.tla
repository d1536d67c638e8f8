--------------------------- MODULE MCTaskManager ---------------------------
(* Instances of TaskManager for TLC.                                       *)
EXTENDS TaskManager, TLC

CONSTANTS m1, m2, w1, w2, w3, t1, t2

OneManager  == {m1}
TwoManagers == {m1, m2}
TwoWorkers   == {w1, w2}
ThreeWorkers == {w1, w2, w3}
OneTask  == {t1}
TwoTasks == {t1, t2}
Nobody   == {}
Everybody   == {"workers", "managers"}

\* Workers, tasks and managers are interchangeable in the safety runs.
Symmetry == Permutations(Workers) \cup Permutations(Tasks) \cup Permutations(Managers)
=============================================================================
