------------------------------- MODULE Shell -------------------------------
(***************************************************************************)
(* The shell, bin/sbush/sbush.c, on top of the descriptors and pipes of    *)
(* module Files: the lines it is given or reads from a script, the stages  *)
(* of a pipeline, background jobs, and the waitpid() that keeps the stages *)
(* in order.                                                               *)
(*                                                                         *)
(* Every step of the shell and of a child that makes a system call is the  *)
(* action of Files for that call.  A line is the sequence of its commands  *)
(* (what parseCmd() splits at the bars) and whether it ends in "&".  A     *)
(* program reads its input once, writes at most once, and exits; it reads  *)
(* the keyboard and writes to the screen unless it was redirected.         *)
(*                                                                         *)
(* waitpid() and the wake-up in sys_exit() are reduced to what the shell   *)
(* sees of them (module Sched has the queues).  That a blocked task goes   *)
(* on with its registers is assumed here (module Context).                 *)
(***************************************************************************)
EXTENDS Files

CONSTANTS
  Program,       \* the programs along PATH
  Missing,       \* a name that is not found there
  Null,          \* an empty command, as between two bars
  Lines,         \* the lines a user may enter
  MaxBack,       \* bound: background jobs at a time
  Script         \* the lines of each file, one for each byte of it

shell == first

Cmd == Program \cup {Missing, Null}

ASSUME ShellAssumption ==
  /\ Lines \subseteq [cmds : Seq(Cmd), amp : BOOLEAN]
  /\ \A l \in Lines : l.cmds # <<>> /\ (l.amp => Len(l.cmds) = 1)
  /\ \A f \in File : /\ Len(Script[f]) = Size[f]
                     /\ \A k \in 1..Size[f] : Script[f][k] \in Lines

VARIABLES
  pc,        \* where the shell is
  line,      \* the line it executes
  i,         \* the command of it that is next, or runs
  pfd,       \* pfd: the descriptors of the last pipe
  childpid,  \* the child it has forked last
  script,    \* the descriptor of the script it reads, 0 when interactive
  role,      \* what each child is
  sent,      \* what the commands of this line wrote to the pipe, not yet read
  early,     \* a waitpid() ended before the child that it was for
  screen     \* who has written on the screen: command, number of commands

shellVars == <<pc, line, i, pfd, childpid, script, early>>
svars == <<vars, shellVars, role, sent, screen>>

Idle == [pc |-> "none", prog |-> Null, at |-> 0, cnt |-> 0, fds |-> <<0, 0>>,
         amp |-> FALSE, got |-> <<>>, due |-> <<>>]

NoLine == [cmds |-> <<>>, amp |-> FALSE]

ShellInit ==
  /\ Init
  /\ pc = "prompt" /\ line = NoLine /\ i = 1
  /\ pfd = <<0, 0>> /\ childpid = shell /\ script = 0
  /\ role = [t \in Task |-> Idle]
  /\ sent = <<>> /\ early = FALSE /\ screen = {}

-----------------------------------------------------------------------------
(* The bounds of the model leave room for the pipe or job of line l; an    *)
(* empty first command makes no pipe, and the one before is used again     *)
(* (the first time there is none, and the children are redirected to       *)
(* descriptor 0: left out).                                                *)
Fits(l) ==
  /\ Len(l.cmds) > 1 =>
       IF l.cmds[1] = Null THEN pfd # <<0, 0>>
       ELSE fd_cnt[shell] + 2 \in FD /\ pipes # Pipe
  /\ l.amp => Cardinality({t \in Task : role[t].amp}) < MaxBack

Starts(l) ==
  /\ line' = l /\ i' = 1 /\ pc' = "stage"
  /\ sent' = <<>> /\ screen' = {}
  /\ early' = (early /\ alive # {shell})
  /\ UNCHANGED <<pfd, childpid, role>>

(* main(): a line from the keyboard, given to execLine().                  *)
main(l) ==
  /\ pc = "prompt" /\ script = 0 /\ Fits(l)
  /\ Starts(l)
  /\ UNCHANGED <<vars, script>>

(* execCmd() of "sbh": execShell() opens the script.                       *)
execShell(f) ==
  /\ pc = "prompt" /\ script = 0
  /\ sys_open(shell, f)
  /\ script' = fd_cnt'[shell]
  /\ UNCHANGED <<pc, line, i, pfd, childpid, early, role, sent, screen>>

(* The loop of execShell(): the next line, until read() returns 0.  The    *)
(* script stays open.                                                      *)
execShell_read ==
  LET f == fd[shell][script].path
      k == fd[shell][script].offset_read - Start[f] + 1
  IN  /\ pc = "prompt" /\ script # 0
      /\ sys_read(shell, script, 1)
      /\ \/ /\ last'.res > 0 /\ Fits(Script[f][k])
            /\ Starts(Script[f][k]) /\ UNCHANGED script
         \/ /\ last'.res = 0
            /\ script' = 0
            /\ UNCHANGED <<pc, line, i, pfd, childpid, early, role, sent, screen>>

(* execCmd() of "exit".                                                    *)
execCmd_exit ==
  /\ pc = "prompt" /\ script = 0
  /\ sys_exit(shell)
  /\ pc' = "gone"
  /\ UNCHANGED <<line, i, pfd, childpid, script, early, role, sent, screen>>

-----------------------------------------------------------------------------
Pipeline == Len(line.cmds) > 1

(* "Invalid null command."                                                 *)
execLine_null ==
  /\ pc = "stage" /\ i <= Len(line.cmds) /\ line.cmds[i] = Null
  /\ i' = i + 1
  /\ UNCHANGED <<vars, pc, line, pfd, childpid, script, early, role, sent, screen>>

(* The end of execLine(); its local variables are gone.                    *)
execLine_end ==
  /\ pc = "stage" /\ i > Len(line.cmds)
  /\ pc' = "prompt" /\ line' = NoLine /\ i' = 1 /\ childpid' = shell
  /\ sent' = <<>> /\ screen' = {}
  /\ UNCHANGED <<vars, pfd, script, early, role>>

(* execute_pipe_cmd(): the first command makes the pipe of the line.       *)
execute_pipe_cmd_pipe ==
  /\ pc = "stage" /\ Pipeline /\ i = 1 /\ line.cmds[1] # Null
  /\ sys_pipe(shell, CHOOSE p \in Pipe : p \notin pipes)
  /\ pfd' = <<fd_cnt'[shell] - 1, fd_cnt'[shell]>>
  /\ pc' = "fork"
  /\ UNCHANGED <<line, i, childpid, script, early, role, sent, screen>>

(* Mutants: the shell waits for pipelines only, or for other commands only.*)
AfterFork_pipes_only == IF Pipeline THEN "wait" ELSE "next"

AfterFork_not_pipes == IF line.amp \/ Pipeline THEN "next" ELSE "wait"

AfterFork == IF line.amp THEN "next" ELSE "wait"

(* fork() in execBin() and execute_pipe_cmd(); the child has the shell's   *)
(* memory.                                                                 *)
execute_fork ==
  LET c == CHOOSE t \in Task : t \notin alive IN
  /\ alive # Task
  /\ \/ pc = "fork"
     \/ pc = "stage" /\ i <= Len(line.cmds) /\ line.cmds[i] # Null
                     /\ (Pipeline => i > 1)
  /\ sys_fork(shell, c)
  /\ role' = [role EXCEPT ![c] =
                [Idle EXCEPT !.pc = IF Pipeline THEN "dup" ELSE "exec",
                             !.prog = line.cmds[i], !.at = i, !.cnt = Len(line.cmds),
                             !.fds = pfd, !.amp = line.amp]]
  /\ childpid' = c /\ pc' = AfterFork
  /\ UNCHANGED <<line, i, pfd, script, early, sent, screen>>

(* Mutant: sys_waitpid() blocks without looking for the child.             *)
Blocks_always == TRUE

Blocks == childpid \in alive

(* sys_waitpid(): returns at once if the child is gone.                    *)
execute_wait ==
  /\ pc \in {"wait", "next"}
  /\ \/ pc = "wait" /\ Blocks /\ pc' = "waiting" /\ UNCHANGED i
     \/ ~(pc = "wait" /\ Blocks) /\ pc' = "stage" /\ i' = i + 1
  /\ UNCHANGED <<vars, line, pfd, childpid, script, early, role, sent, screen>>

-----------------------------------------------------------------------------
Goes(t, to) == role' = [role EXCEPT ![t].pc = to]

(* Mutant: a command in the middle is redirected like the last one.        *)
Redirections_two(r) ==
  IF r.at = 1 THEN <<<<1, r.fds[2]>>>>
  ELSE <<<<0, r.fds[1]>>, <<r.fds[2], 1>>>>

(* The calls of dup2() that a child of a pipeline makes.                   *)
Redirections(r) ==
  CASE r.at = 1               -> <<<<1, r.fds[2]>>>>
    [] r.at > 1 /\ r.at = r.cnt -> <<<<0, r.fds[1]>>, <<r.fds[2], 1>>>>
    [] OTHER                  -> <<<<0, r.fds[1]>>, <<1, r.fds[2]>>>>

child_dup2(t) ==
  LET r == role[t]
      d == Redirections(r)
      n == IF r.pc = "dup" THEN 1 ELSE 2
  IN  /\ r.pc \in {"dup", "dup again"}
      /\ sys_dup2(t, d[n][1], d[n][2])
      /\ Goes(t, IF n < Len(d) THEN "dup again" ELSE "exec")
      /\ UNCHANGED <<shellVars, sent, screen>>

(* execve() along PATH; a child whose program is not found exits.          *)
child_execve(t) ==
  /\ role[t].pc = "exec" /\ role[t].prog # Missing
  /\ sys_execve(t)
  /\ Goes(t, "read")
  /\ UNCHANGED <<shellVars, sent, screen>>

(* What the program reads; got is what it gets and due what it should.     *)
child_read(t) ==
  LET p == CHOOSE q \in Target(t, 0) : TRUE
  IN  /\ role[t].pc = "read"
      /\ \/ /\ Redirected(t, 0)
            /\ sys_read_pipe(t, 0)
            /\ role' = [role EXCEPT ![t].pc = "write", ![t].got = strcpy(buf[p]),
                                    ![t].due = sent]
            /\ sent' = <<>>
         \/ /\ ~Redirected(t, 0)
            /\ Goes(t, "write")
            /\ UNCHANGED <<vars, sent>>
      /\ UNCHANGED <<shellVars, screen>>

(* Writing to the pipe, or by sys_write() to the screen.                   *)
child_write(t) ==
  /\ role[t].pc = "write"
  /\ Goes(t, "exit")
  /\ \/ \E c \in Chunks : /\ sys_write_pipe(t, 1, c)
                          /\ sent' = sent \o Text(c)
                          /\ UNCHANGED screen
     \/ /\ ~Redirected(t, 1)
        /\ screen' = screen \cup {<<role[t].at, role[t].cnt>>}
        /\ UNCHANGED <<vars, sent>>
  /\ UNCHANGED shellVars

(* The wake-up of the parent in sys_exit(): whichever child exits ends the *)
(* waitpid().                                                              *)
Wakes(t) ==
  IF pc = "waiting"
  THEN pc' = "stage" /\ i' = i + 1 /\ early' = (early \/ t # childpid)
  ELSE UNCHANGED <<pc, i, early>>

child_exit(t) ==
  /\ \/ role[t].pc \in {"write", "exit"}
     \/ role[t].pc = "exec" /\ role[t].prog = Missing
  /\ sys_exit(t)
  /\ Wakes(t)
  /\ role' = [role EXCEPT ![t] = Idle]
  /\ UNCHANGED <<line, pfd, childpid, script, sent, screen>>

-----------------------------------------------------------------------------
ShellStep ==
  \/ execShell_read \/ execLine_null \/ execLine_end \/ execute_pipe_cmd_pipe
  \/ execute_fork \/ execute_wait

ChildStep(t) ==
  t # shell /\ (\/ child_dup2(t) \/ child_execve(t) \/ child_read(t)
                \/ child_write(t) \/ child_exit(t))

ShellNext ==
  \/ \E l \in Lines : main(l)
  \/ \E f \in File : execShell(f)
  \/ execCmd_exit
  \/ ShellStep
  \/ \E t \in Task : ChildStep(t)

(* The timer gives every runnable task its turn (run sched_fair), so the   *)
(* shell and the children go on; a user need not enter anything, and a     *)
(* program may write or not.                                               *)
ShellSpec ==
  /\ ShellInit /\ [][ShellNext]_svars
  /\ WF_svars(ShellStep)
  /\ \A t \in Task : WF_svars(ChildStep(t))

-----------------------------------------------------------------------------
(* A command of a pipeline reads when the commands before it are done, and *)
(* gets exactly what they have written in this line and nothing of another *)
(* line, unless a background job's exit ended a waitpid() too early, a     *)
(* read was interrupted, or the line began with a bar.                     *)
PipelineDelivers ==
  ~early /\ torn = {} /\ ~(Pipeline /\ line.cmds[1] = Null) =>
    \A t \in alive \ {shell} :
      /\ role[t].got = role[t].due
      /\ role[t].cnt > 1 /\ role[t].pc = "write" =>
           \A u \in alive \ {shell, t} : role[u].amp \/ role[u].at > role[t].at

(* While a line is executed only its last command, or one without a pipe,  *)
(* writes on the screen: every other command's output goes to the pipe.    *)
OnlyLastOnScreen == \A w \in screen : w[1] = w[2]

(* Between two lines no foreground command is still running, unless a      *)
(* background job's exit ended a waitpid() too early.                      *)
PromptAfterForeground ==
  pc = "prompt" /\ ~early => \A t \in alive \ {shell} : role[t].amp

(* The shell comes back to its prompt after every line, however the        *)
(* children, the wake-ups and a background job's exit interleave: no       *)
(* wake-up is lost between fork() and waitpid().                           *)
PromptReturns == pc = "stage" ~> pc = "prompt"
=============================================================================
