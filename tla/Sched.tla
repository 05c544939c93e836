------------------------------- MODULE Sched -------------------------------
(***************************************************************************)
(* The process scheduler of sbnix: sys/sched.c, the parts of sys/fork.c,   *)
(* sys/process.c and sys/main.c that create tasks and queue them, and the  *)
(* scheduling part of the timer interrupt (sys/timer.c).                   *)
(*                                                                         *)
(* runQueue and waitQueue are circular doubly linked lists in the code     *)
(* (include/sys/list.h); here they are sequences, first entry first.       *)
(* Module LinkedList shows that the list.h operations implement the        *)
(* sequence operations used here.  The running task is the LAST entry of   *)
(* runQueue and the next one to run is the first.                          *)
(*                                                                         *)
(* System calls enter through an interrupt gate and run with interrupts    *)
(* off, so each one is a single step.  The loop of awake() also runs with  *)
(* interrupts off, but it is modelled one iteration per step, because      *)
(* whether it ends is one of the questions; while it runs (cursor # NULL)  *)
(* nothing else can happen.                                                *)
(***************************************************************************)
EXTENDS Integers, SequencesExt

CONSTANTS
  Task,          \* the task_struct blocks kmalloc() can hand out
  idle, sbush,   \* the two tasks queued by start()
  NULL,          \* no cursor: awake() is not running
  RunHead,       \* &runQueue, the list head node itself
  WaitHead,      \* &waitQueue
  NR_TASKS,      \* limit on queued tasks
  PidMod,        \* avail_pid is a uint16_t: 65536 in the code
  MaxPid,        \* bound on avail_pid; none when it is at least PidMod
  SleepArgs      \* the arguments programs pass to sleep()

ASSUME SchedAssumption ==
  /\ idle \in Task /\ sbush \in Task /\ idle # sbush
  /\ NULL \notin Task /\ RunHead \notin Task /\ WaitHead \notin Task
  /\ NULL # RunHead /\ NULL # WaitHead /\ RunHead # WaitHead
  /\ NR_TASKS \in Nat /\ NR_TASKS >= 2
  /\ PidMod \in Nat /\ PidMod > 2
  /\ MaxPid \in Nat /\ MaxPid >= 2
  /\ SleepArgs \subseteq Nat

VARIABLES
  runQueue, waitQueue,    \* the two queues
  task,                   \* task_struct of each block: the fields used here
  num_task, avail_pid,    \* sched.c's counter and the last pid handed out
  scan_flag,              \* a task spins in scank()
  cursor                  \* loop variable of awake(), or NULL

queues == <<runQueue, waitQueue>>
vars   == <<queues, task, num_task, avail_pid, scan_flag, cursor>>

-----------------------------------------------------------------------------
(* The fields of task_struct the scheduler uses, and wait_pid, the child   *)
(* that the task waits for in waitpid() (0: it waits for none), which the  *)
(* code keeps on the kernel stack.                                         *)
TaskStruct ==
  [pid : Nat, ppid : Nat, is_sleep : BOOLEAN, sleep_time : Int, wait_pid : Nat]

(* memset(process, 0, ...) of a new block.  A block that is on no queue is *)
(* never read, so it is kept zeroed here.                                  *)
Zeroed ==
  [pid |-> 0, ppid |-> 0, is_sleep |-> FALSE, sleep_time |-> 0, wait_pid |-> 0]

(* The sequence operations come from SequencesExt: Cons is list_add,       *)
(* Append list_add_tail, RemoveAt list_del, Front deletes the last entry.  *)

Queued == ToSet(runQueue) \cup ToSet(waitQueue)

getCurrentTask == Last(runQueue)

(* Mutant: list_move where the code has list_move_tail.                    *)
schedule_to_head(q) == q

(* schedule(): the first entry is moved to the tail and switched to.       *)
schedule(q) == IF q = <<>> THEN q ELSE Append(Tail(q), Head(q))

(* Mutant: the search of awakepid() skips the first entry.                 *)
Waiter_skips_first(p) ==
  SelectInSubSeq(waitQueue, 2, Len(waitQueue), LAMBDA t : task[t].pid = p)

(* Mutant: awakepid() compares ppid.                                       *)
Waiter_by_ppid(p) == SelectInSeq(waitQueue, LAMBDA t : task[t].ppid = p)

(* Mutants: awakepid() unlinks without adding, or adds without unlinking.  *)
awakepid_run_forgets(p, q) == q

awakepid_wait_keeps(p) == waitQueue

(* awakepid(p): the first entry of waitQueue with pid p goes to the head   *)
(* of the run queue, here q, and its waitpid() is over.  Nothing happens   *)
(* when there is none.                                                     *)
Waiter(p) == SelectInSeq(waitQueue, LAMBDA t : task[t].pid = p)

awakepid_run(p, q) ==
  IF Waiter(p) = 0 THEN q ELSE Cons(waitQueue[Waiter(p)], q)

awakepid_wait(p) ==
  IF Waiter(p) = 0 THEN waitQueue ELSE RemoveAt(waitQueue, Waiter(p))

awakepid_task(p, f) ==
  IF Waiter(p) = 0 THEN f
  ELSE [f EXCEPT ![waitQueue[Waiter(p)]].wait_pid = 0]

-----------------------------------------------------------------------------
(* start(): idle and then sbush are created and added at the tail;         *)
(* init_process() enters the last one.                                     *)
Init ==
  /\ runQueue = <<idle, sbush>>
  /\ waitQueue = <<>>
  /\ task = [t \in Task |-> CASE t = idle  -> [Zeroed EXCEPT !.pid = 1]
                             [] t = sbush -> [Zeroed EXCEPT !.pid = 2]
                             [] OTHER     -> Zeroed]
  /\ num_task = 2
  /\ avail_pid = 2
  /\ scan_flag = FALSE
  /\ cursor = NULL

(* The current task runs user code with interrupts on and may make a       *)
(* system call.  bin/idle makes none, and a task inside scank() spins.     *)
UserMode(c) ==
  /\ cursor = NULL
  /\ ~scan_flag
  /\ runQueue # <<>>
  /\ c = getCurrentTask
  /\ c # idle

(* A task_struct that is on no queue: fresh memory for kmalloc().          *)
Fresh(t) == t \in Task \ Queued

(* Mutants: avail_pid++ for ++avail_pid, and > for the + 1 > of the limit. *)
NextPid_post == avail_pid

Full_off_by_one == num_task > NR_TASKS

NextPid == (avail_pid + 1) % PidMod

Full == num_task + 1 > NR_TASKS

(* Mutant: sys_exit() deletes getNextTask() in place of the current task.  *)
ExitFrom_next(q, p) ==
  /\ runQueue' = schedule(Tail(awakepid_run(p, q)))
  /\ waitQueue' = awakepid_wait(p)
  /\ UNCHANGED <<scan_flag, cursor>>

(* sys_exit() of c once the run queue is q: wake the parent p, delete c    *)
(* from the tail, switch to the next task.                                 *)
ExitFrom(q, p) ==
  /\ runQueue' = schedule(Front(awakepid_run(p, q)))
  /\ waitQueue' = awakepid_wait(p)
  /\ UNCHANGED <<scan_flag, cursor>>

(* sys_exit(), also reached from segfault() and OOM().                     *)
sys_exit(c) ==
  /\ UserMode(c)
  /\ ExitFrom(runQueue, task[c].ppid)
  /\ task' = [awakepid_task(task[c].ppid, task) EXCEPT ![c] = Zeroed]
  /\ num_task' = num_task - 1
  /\ UNCHANGED avail_pid

(* sys_fork(): the child is pushed on the run queue unless NR_TASKS tasks  *)
(* are queued; the result of addTasktoQueueHead() is ignored, and the pid  *)
(* is taken and returned in either case.                                   *)
sys_fork(c, child) ==
  /\ UserMode(c)
  /\ Fresh(child)
  /\ avail_pid < MaxPid
  /\ avail_pid' = NextPid
  /\ IF Full
     THEN UNCHANGED <<runQueue, task, num_task>>
     ELSE /\ runQueue' = Cons(child, runQueue)
          /\ task' = [task EXCEPT ![child] =
                        [Zeroed EXCEPT !.pid = NextPid,
                                       !.ppid = task[c].pid]]
          /\ num_task' = num_task + 1
  /\ UNCHANGED <<waitQueue, scan_flag, cursor>>

(* sys_execve() of an existing binary: a new task takes over the caller's  *)
(* pid and ppid, is pushed on the run queue if there is room, and the      *)
(* caller, its own ppid now 0, exits.  (A missing binary returns -1.)      *)
sys_execve(c, new) ==
  /\ UserMode(c)
  /\ Fresh(new)
  /\ IF Full
     THEN /\ ExitFrom(runQueue, 0)
          /\ task' = [awakepid_task(0, task) EXCEPT ![c] = Zeroed]
          /\ num_task' = num_task - 1
     ELSE /\ ExitFrom(Cons(new, runQueue), 0)
          /\ task' = [awakepid_task(0, task) EXCEPT
                        ![c] = Zeroed,
                        ![new] = [Zeroed EXCEPT !.pid = task[c].pid,
                                                !.ppid = task[c].ppid]]
          /\ UNCHANGED num_task
  /\ UNCHANGED avail_pid

(* sys_execve() when elf_load() runs out of memory: create_process() has   *)
(* taken a pid, and allocate() calls OOM(), which ends the caller.         *)
sys_execve_OOM(c) ==
  /\ UserMode(c)
  /\ avail_pid < MaxPid
  /\ avail_pid' = NextPid
  /\ ExitFrom(runQueue, task[c].ppid)
  /\ task' = [awakepid_task(task[c].ppid, task) EXCEPT ![c] = Zeroed]
  /\ num_task' = num_task - 1

(* The caller leaves the tail of the run queue for the head of waitQueue,  *)
(* and the next task runs.                                                 *)
BlockCurrent(c) ==
  /\ runQueue' = schedule(Front(runQueue))
  /\ waitQueue' = Cons(c, waitQueue)

sys_sleep(c, seconds) ==
  /\ UserMode(c)
  /\ BlockCurrent(c)
  /\ task' = [task EXCEPT ![c].is_sleep = TRUE, ![c].sleep_time = seconds]
  /\ UNCHANGED <<num_task, avail_pid, scan_flag, cursor>>

(* sys_waitpid(p): any queued task with pid p will do, the caller itself   *)
(* included; otherwise -1 is returned at once.                             *)
sys_waitpid(c, p) ==
  /\ UserMode(c)
  /\ IF \E t \in Queued : task[t].pid = p
     THEN /\ BlockCurrent(c)
          /\ task' = [task EXCEPT ![c].wait_pid =
                        IF \E t \in Queued : task[t].pid = p /\ task[t].ppid = task[c].pid
                        THEN p ELSE 0]
     ELSE UNCHANGED <<queues, task>>
  /\ UNCHANGED <<num_task, avail_pid, scan_flag, cursor>>

(* scank() raises scan_flag and spins with interrupts on; the Enter key    *)
(* (kb_handler) clears it.                                                 *)
scank(c) ==
  /\ UserMode(c)
  /\ scan_flag' = TRUE
  /\ UNCHANGED <<queues, task, num_task, avail_pid, cursor>>

kb_enter ==
  /\ cursor = NULL
  /\ scan_flag
  /\ scan_flag' = FALSE
  /\ UNCHANGED <<queues, task, num_task, avail_pid, cursor>>

-----------------------------------------------------------------------------
(* Mutant: the scan_flag test of call_timer() is missing.                  *)
ScheduleUnlessScanning_always ==
  /\ runQueue' = schedule(runQueue)
  /\ UNCHANGED <<waitQueue, task, num_task, avail_pid, scan_flag>>

(* The timer interrupt, every 18th clock: awake(), then schedule() unless  *)
(* a scan is in progress.                                                  *)
ScheduleUnlessScanning ==
  /\ runQueue' = IF scan_flag THEN runQueue ELSE schedule(runQueue)
  /\ UNCHANGED <<waitQueue, task, num_task, avail_pid, scan_flag>>

(* awake() does nothing for an empty or a singular wait queue.             *)
call_timer ==
  /\ cursor = NULL
  /\ IF Len(waitQueue) <= 1
     THEN ScheduleUnlessScanning /\ UNCHANGED cursor
     ELSE /\ cursor' = Head(waitQueue)
          /\ UNCHANGED <<queues, task, num_task, avail_pid, scan_flag>>

(* list_next_entry(): the following entry of the queue t is on, or that    *)
(* queue's head node.                                                      *)
NextIn(q, t, head) ==
  IF t = Last(q) THEN head ELSE q[SelectInSeq(q, LAMBDA x : x = t) + 1]

(* Mutant: the last entry is followed by the first one.                    *)
NextEntry_no_head(t) ==
  IF t \in ToSet(waitQueue) THEN NextIn(waitQueue, t, Head(waitQueue))
                              ELSE NextIn(runQueue, t, Head(runQueue))

NextEntry(t) ==
  IF t \in ToSet(waitQueue) THEN NextIn(waitQueue, t, WaitHead)
                              ELSE NextIn(runQueue, t, RunHead)

(* list_move(&t->tasks, &runQueue), from whichever queue t is on.          *)
MoveToRun(t) ==
  IF t \in ToSet(waitQueue)
  THEN /\ runQueue' = Cons(t, runQueue)
       /\ waitQueue' = RemoveFirst(waitQueue, t)
  ELSE /\ runQueue' = Cons(t, RemoveFirst(runQueue, t))
       /\ UNCHANGED waitQueue

(* One iteration of awake()'s loop.  A sleeper that expires is moved and   *)
(* the walk goes on from its NEW place, at the head of the run queue.      *)
Expires(t) == task[t].is_sleep /\ task[t].sleep_time - 1 <= 0

(* Mutant: the time is compared and not counted down.                      *)
awake_step_no_count ==
  /\ cursor \in Task
  /\ IF Expires(cursor)
     THEN /\ task' = [task EXCEPT ![cursor].is_sleep = FALSE, ![cursor].wait_pid = 0]
          /\ MoveToRun(cursor)
          /\ cursor' = IF Len(runQueue') = 1 THEN RunHead ELSE runQueue'[2]
     ELSE cursor' = NextEntry(cursor) /\ UNCHANGED <<queues, task>>
  /\ UNCHANGED <<num_task, avail_pid, scan_flag>>

awake_step ==
  /\ cursor \in Task
  /\ IF Expires(cursor)
     THEN /\ task' = [task EXCEPT ![cursor].is_sleep = FALSE,
                                  ![cursor].sleep_time = @ - 1,
                                  ![cursor].wait_pid = 0]
          /\ MoveToRun(cursor)
          /\ cursor' = IF Len(runQueue') = 1 THEN RunHead ELSE runQueue'[2]
     ELSE /\ task' = IF task[cursor].is_sleep
                     THEN [task EXCEPT ![cursor].sleep_time = @ - 1] ELSE task
          /\ cursor' = NextEntry(cursor)
          /\ UNCHANGED queues
  /\ UNCHANGED <<num_task, avail_pid, scan_flag>>

(* The walk is back at &waitQueue: awake() returns.                        *)
awake_end ==
  /\ cursor = WaitHead
  /\ cursor' = NULL
  /\ ScheduleUnlessScanning

(* The walk has run into &runQueue, which is no task_struct: is_sleep and  *)
(* sleep_time are read from unrelated kernel memory.  The walk goes on     *)
(* along the run queue, or list_move(&runQueue, &runQueue) ties the head   *)
(* to itself.                                                              *)
awake_stray ==
  /\ cursor = RunHead
  /\ \/ /\ cursor' = IF runQueue = <<>> THEN RunHead ELSE Head(runQueue)
        /\ UNCHANGED runQueue
     \/ /\ cursor' = RunHead
        /\ runQueue' = <<>>
  /\ UNCHANGED <<waitQueue, task, num_task, avail_pid, scan_flag>>

Syscall ==
  \E c \in Task :
    \/ sys_exit(c)
    \/ \E t \in Task : sys_fork(c, t)
    \/ \E t \in Task : sys_execve(c, t)
    \/ sys_execve_OOM(c)
    \/ \E s \in SleepArgs : sys_sleep(c, s)
    \/ \E p \in 0..MaxPid : sys_waitpid(c, p)
    \/ scank(c)

Interrupt ==
  \/ kb_enter
  \/ call_timer
  \/ awake_step
  \/ awake_end
  \/ awake_stray

Next == Syscall \/ Interrupt

Spec == Init /\ [][Next]_vars

(* The timer chip keeps interrupting, and a loop of the kernel keeps       *)
(* running; nothing is assumed of user programs or of the keyboard.        *)
FairSpec ==
  /\ Spec
  /\ WF_vars(call_timer)
  /\ WF_vars(awake_step \/ awake_end \/ awake_stray)

-----------------------------------------------------------------------------
(* Properties.                                                             *)

TypeOK ==
  /\ runQueue \in Seq(Task) /\ waitQueue \in Seq(Task)
  /\ task \in [Task -> TaskStruct]
  /\ num_task \in Nat /\ avail_pid \in Nat
  /\ scan_flag \in BOOLEAN
  /\ cursor \in Task \cup {NULL, RunHead, WaitHead}

(* awake() has followed a task it moved and walks the run queue, with      *)
(* interrupts off, looking for &waitQueue.                                 *)
Strayed == cursor = RunHead \/ cursor \in ToSet(runQueue)

(* A task is on at most one queue, and there only once: fork, execve, exit,*)
(* sleep, waitpid and both wake-ups never link an entry twice.             *)
QueuedOnce ==
  /\ IsInjective(runQueue)
  /\ IsInjective(waitQueue)
  /\ ToSet(runQueue) \cap ToSet(waitQueue) = {}

(* num_task, which decides whether fork and execve may queue a task, is    *)
(* the number of queued tasks and stays within NR_TASKS.                   *)
NumTaskExact ==
  cursor # RunHead =>
    /\ num_task = Len(runQueue) + Len(waitQueue)
    /\ num_task <= NR_TASKS

(* The idle task is always runnable, so schedule() never returns to        *)
(* sys_exit() of a deleted task or to sys_sleep() of a task already moved  *)
(* to the wait queue, and getCurrentTask() is always a task.               *)
IdleRunnable == cursor # RunHead => idle \in ToSet(runQueue)

(* While avail_pid has not wrapped, queued tasks have different pids, all  *)
(* handed out: waitpid() and awakepid() cannot pick the wrong task.        *)
PidsUnique ==
  MaxPid < PidMod =>
    /\ \A t \in Queued : task[t].pid \in 1..avail_pid
    /\ \A t, u \in Queued : task[t].pid = task[u].pid => t = u

(* Task t waits in waitpid() for its child u.                              *)
Awaits(t, u) ==
  /\ t \in ToSet(waitQueue) /\ u \in Queued
  /\ task[t].wait_pid = task[u].pid /\ task[u].ppid = task[t].pid

(* A parent cannot miss its child's exit: the child it waits for leaves    *)
(* the queues only by waking it, or hands its pid to the program that      *)
(* execve() starts, unless execve() finds the queue full, avail_pid has    *)
(* wrapped or awake() has strayed.                                         *)
StillServed(t) == t \in ToSet(runQueue) \/ \E u \in Task : Awaits(t, u)

NoLostWakeup ==
  [][/\ MaxPid < PidMod
     /\ ~Strayed
     /\ Full => \A c, n \in Task : ~sys_execve(c, n)
     => \A t, u \in Task : Awaits(t, u) => StillServed(t)']_vars

(* Only the running task leaves the queues: an exit never unlinks anybody  *)
(* else, and no runnable or waiting task disappears.                       *)
OnlyCurrentDies ==
  [][\A t \in Queued : t \notin Queued' => t = getCurrentTask \/ Strayed]_vars

(* A task is taken off the wait queue only when its sleep is over or when  *)
(* one of its own children exits: no exit of a stranger, no tick and no    *)
(* execve ends a waitpid() or a sleep(), while pids have not wrapped.      *)
HasReason(t) ==
  \/ cursor = t /\ task[t].is_sleep /\ task[t].sleep_time <= 1
  \/ task[getCurrentTask].ppid = task[t].pid /\ getCurrentTask \notin Queued'

WokenForReason ==
  [][MaxPid < PidMod =>
       \A t \in ToSet(waitQueue) : t \in ToSet(runQueue)' => HasReason(t)]_vars

(* "We disable scheduler while performing scan": whatever the timer does,  *)
(* the task inside scank() stays the current one.                          *)
ScanPinsCurrent ==
  [][scan_flag /\ ~Strayed => getCurrentTask' = getCurrentTask]_vars

(* Round robin: once programs stop reading the keyboard, every runnable    *)
(* task gets the CPU again, although forked children and woken parents are *)
(* queued in front of it, unless awake() never returns.                    *)
EventuallyRuns ==
  <>[](~scan_flag) =>
    \A t \in Task :
      t \in ToSet(runQueue) ~> (Strayed \/ (runQueue # <<>> /\ getCurrentTask = t))

(* awake() returns, with interrupts off until then, unless it has moved a  *)
(* task: the walk along waitQueue meets every entry and then its head.     *)
WalkEnds == (cursor # NULL) ~> (cursor = NULL \/ Strayed)

(* A sleep ends, as long as the sleeper is not alone on the wait queue,    *)
(* where awake() looks at nobody, and awake() has not strayed.             *)
SleepEndsInCompany ==
  \A t \in Task :
    (t \in ToSet(waitQueue) /\ task[t].is_sleep)
      ~> (t \in ToSet(runQueue) \/ waitQueue = <<t>> \/ Strayed)

-----------------------------------------------------------------------------
(* timer.c: "Wake any sleeping processes from wait queue", after which     *)
(* the handler schedules: awake() returns.                                 *)
AwakeReturns == (cursor # NULL) ~> (cursor = NULL)
=============================================================================
