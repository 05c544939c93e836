------------------------------- MODULE MCBrk -------------------------------
(* Two tasks, pages of four bytes, requests from one byte to two pages,     *)
(* whole pages and not.                                                    *)
EXTENDS Brk

CONSTANTS t1, t2

MCTask == {t1, t2}
MCSizes == {1, 3, 4, 5, 8}
=============================================================================
