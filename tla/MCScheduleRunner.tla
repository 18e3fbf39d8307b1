--------------------------- MODULE MCScheduleRunner ---------------------------
(* Instances of ScheduleRunner for TLC.                                      *)
EXTENDS ScheduleRunner, TLC

\* Runs are interchangeable, and so are the processes of each kind.
Symmetry == Permutations(Deliveries) \cup Permutations(Workers) \cup Permutations(Sweepers)
=============================================================================
