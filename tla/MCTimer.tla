------------------------------ MODULE MCTimer ------------------------------
(* Instances of Timer for TLC.                                             *)
EXTENDS Timer, TLC

\* Nothing in Timer tells two timers or two threads apart.
Symmetry == Permutations(Id) \cup Permutations(Threads)
=============================================================================
