------------------------------ MODULE MCMemory ------------------------------
(* A small instance of Memory: the tasks are sbush and two more.           *)
EXTENDS Memory, TLC

CONSTANTS t1, t2, heap

MCTask == {sbush, t1, t2}
MCOnePage == {heap}
MCAligned == {FALSE}
MCVal == {0, 1}
MCTableFrames == {1}
MCWalkFrames == {0, 1}
TaskSymmetry == Permutations({t1, t2})
=============================================================================
