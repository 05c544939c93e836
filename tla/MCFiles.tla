------------------------------ MODULE MCFiles ------------------------------
(* Two tasks, one file, one pipe.   Descriptors 3 and up; the programs     *)
(* redirect descriptor 0 and 1 to the ends of a pipe.                      *)
EXTENDS Files

CONSTANTS t1, t2, f1, p1, a, b

MCTask == {t1, t2}
MCFile == {f1}
MCPipe == {p1}
MCStart == [f \in File |-> 10]
MCSize == [f \in File |-> 2]
MCBuffer == [p \in Pipe |-> 40]

(* What printf("%d") writes when its buffer still holds a longer number.   *)
StaleTail == {<<a>>, <<b, NUL, a>>}

(* Bound: a behaviour is about one file descriptor of each task or about   *)
(* the pipe.                                                               *)
FilesOrPipe ==
  IF pipes = {} THEN \A t \in Task : fd_cnt[t] <= 3
  ELSE \A t \in Task, i \in FD : fd[t][i].path \notin File /\ fd[t][i].offset_read = 0

PipeDups == {<<0, 3>>, <<1, 4>>}
=============================================================================
