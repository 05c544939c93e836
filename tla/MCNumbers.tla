----------------------------- MODULE MCNumbers -----------------------------
(* An int has 8 bits and a uint64_t 10, so that the largest one needs as   *)
(* many decimal digits as numArr has cells, like 2^64 - 1 in the code.     *)
EXTENDS Numbers

MCInts == {-127, -100, -99, -10, -9, -1, 0, 1, 7, 8, 9, 10, 15, 16, 63, 64, 99, 100,
           119, 127}
MCStray == {0, 3}
=============================================================================
