---------------------------- MODULE MCLinkedList ----------------------------
(* An instance of LinkedList for TLC.                                      *)
EXTENDS LinkedList

CONSTANTS n1, n2, n3, n4, runQueue, waitQueue

MCNode == {n1, n2, n3, n4}

MCHeads == {runQueue, waitQueue}
=============================================================================
