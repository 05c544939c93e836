----------------------------- MODULE MCContext -----------------------------
(* Context with three of the fifteen registers.                            *)
EXTENDS Context, TLC

CONSTANTS t1, t2

MCTask == {t1, t2}
MCGPR == <<"rax", "rbx", "r15">>
MCVal == 0..3 \cup 100..103 \cup 200..203
MCResults == {1}
MCUserState ==
  {[r \in Registers |-> IF r = "pc" THEN b ELSE b + (CHOOSE i \in 1..N : GPR[i] = r)] :
     b \in {100, 200}}
=============================================================================
