---------------------------- MODULE MCTimerTasks ----------------------------
(* TLC instance of TimerTasks.  The firings and the tasks are interchangeable *)
(* in every safety property, so their permutations are a symmetry.            *)
EXTENDS TimerTasks, TLC

Symmetry == Permutations(Run) \cup Permutations(Task)
=============================================================================
