------------------------------ MODULE MCShell ------------------------------
(* A shell and two children at a time, two pipes, a script of one line.    *)
EXTENDS Shell

CONSTANTS sbush, c1, c2, f1, p1, p2, a, b, prog

MCTask == {sbush, c1, c2}
MCFile == {f1}
MCPipe == {p1, p2}
MCStart == [f \in File |-> 10]
MCSize == [f \in File |-> 1]
MCBuffer == [p \in Pipe |-> IF p = p1 THEN 40 ELSE 50]
MCChunks == {<<a>>}
MCProgram == {prog}
L(cmds, amp) == [cmds |-> cmds, amp |-> amp]
MCLines == {L(<<prog>>, FALSE), L(<<prog>>, TRUE), L(<<prog, Missing>>, FALSE),
            L(<<prog, prog, prog>>, FALSE), L(<<Null, prog>>, FALSE)}
MCScript == [f \in File |-> <<L(<<prog>>, FALSE)>>]
=============================================================================
