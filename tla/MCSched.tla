------------------------------ MODULE MCSched ------------------------------
(* Instances of Sched for TLC.                                             *)
EXTENDS Sched

CONSTANTS t1, t2, t3

MCTask == {idle, sbush, t1, t2, t3}

Symmetry == Permutations({t1, t2, t3})

MCTask4 == {idle, sbush, t1, t2}

MCSleepOne == {1}

MCSleepTwo == {2}

MCSleepArgs == {0, 2}
=============================================================================
