---------------------------- MODULE SchedProofs ----------------------------
(***************************************************************************)
(* Proofs about Sched, for any number of tasks, any limits and any sleep   *)
(* times.  The inductive invariant says of each queue that it has no       *)
(* repetition, that the two are disjoint, that a walk of awake() stands on *)
(* a queued task, and that num_task is exact and idle is runnable unless a *)
(* stray walk has tied &runQueue to itself.                                *)
(***************************************************************************)
EXTENDS Sched, QueueLemmas

(* Two queues without repetition and without a common entry.               *)
Pair(q, w) ==
  /\ q \in Queue(Task) /\ w \in Queue(Task)
  /\ ToSet(q) \cap ToSet(w) = {}

CursorQueued == cursor \in Task => cursor \in Queued

Lost == cursor = RunHead /\ runQueue = <<>>

Counted ==
  ~Lost => /\ num_task = Len(runQueue) + Len(waitQueue)
           /\ num_task <= NR_TASKS
           /\ idle \in ToSet(runQueue)

IInv == TypeOK /\ Pair(runQueue, waitQueue) /\ CursorQueued /\ Counted

-----------------------------------------------------------------------------
(* The queue operations of sched.c.                                        *)

LEMMA ScheduleFacts ==
  ASSUME NEW q \in Queue(Task)
  PROVE  /\ schedule(q) \in Queue(Task)
         /\ ToSet(schedule(q)) = ToSet(q)
         /\ Len(schedule(q)) = Len(q)
<1>1. CASE q = <<>>
  BY <1>1 DEF schedule
<1>2. CASE q # <<>>
  BY <1>2, RotateQueue, SMTT(60) DEF schedule
<1> QED
  BY <1>1, <1>2

LEMMA WaiterPlace ==
  ASSUME TypeOK, waitQueue \in Queue(Task), NEW p
  PROVE  Waiter(p) = 0 \/ (Waiter(p) \in 1..Len(waitQueue) /\ task[waitQueue[Waiter(p)]].pid = p)
<1> DEFINE I == {i \in 1..Len(waitQueue) : task[waitQueue[i]].pid = p}
<1>1. Waiter(p) = IF I # {} THEN Min(I) ELSE 0
  BY DEF Waiter, SelectInSeq
<1>2. I \subseteq Nat
  BY QueueEntries
<1>3. ASSUME I # {}
      PROVE  Min(I) \in I
  <2> HIDE DEF I
  <2> QED
    BY <1>2, <1>3, MinOfNats, Zenon
<1> QED
  BY <1>1, <1>3

(* awakepid() moves one entry from waitQueue to the head of q, or nothing. *)
LEMMA WakeFacts ==
  ASSUME TypeOK, NEW q, Pair(q, waitQueue), NEW p
  PROVE  /\ Pair(awakepid_run(p, q), awakepid_wait(p))
         /\ ToSet(awakepid_run(p, q)) \cup ToSet(awakepid_wait(p))
              = ToSet(q) \cup ToSet(waitQueue)
         /\ ToSet(q) \subseteq ToSet(awakepid_run(p, q))
         /\ Len(awakepid_run(p, q)) + Len(awakepid_wait(p)) = Len(q) + Len(waitQueue)
         /\ q # <<>> => /\ awakepid_run(p, q) # <<>>
                        /\ Last(awakepid_run(p, q)) = Last(q)
<1> DEFINE i == Waiter(p)
           t == waitQueue[i]
<1>1. /\ q \in Queue(Task) /\ waitQueue \in Queue(Task)
      /\ ToSet(q) \cap ToSet(waitQueue) = {}
  BY DEF Pair
<1>2. CASE i = 0
  BY <1>1, <1>2 DEF awakepid_run, awakepid_wait, Pair
<1>3. CASE i # 0
  <2>1. i \in 1..Len(waitQueue)
    BY <1>1, <1>3, WaiterPlace
  <2>2. awakepid_run(p, q) = Cons(t, q) /\ awakepid_wait(p) = RemoveAt(waitQueue, i)
    BY <1>3 DEF awakepid_run, awakepid_wait
  <2> HIDE DEF i
  <2>3. t \in Task /\ t \in ToSet(waitQueue) /\ Len(waitQueue) \in Nat /\ Len(q) \in Nat
    BY <1>1, <2>1, QueueEntries
  <2>4. /\ RemoveAt(waitQueue, i) \in Queue(Task)
        /\ ToSet(RemoveAt(waitQueue, i)) = ToSet(waitQueue) \ {t}
        /\ Len(RemoveAt(waitQueue, i)) = Len(waitQueue) - 1
    BY <1>1, <2>1, RemoveAtQueue
  <2> HIDE DEF t
  <2>5. t \notin ToSet(q)
    BY <1>1, <2>3
  <2>6. /\ Cons(t, q) \in Queue(Task)
        /\ ToSet(Cons(t, q)) = ToSet(q) \cup {t}
        /\ Len(Cons(t, q)) = Len(q) + 1
        /\ q # <<>> => Last(Cons(t, q)) = Last(q)
    BY <1>1, <2>3, <2>5, ConsQueue
  <2>7. Cons(t, q) # <<>>
    BY <2>3, <2>6, QueueEntries
  <2> QED
    BY <1>1, <2>2, <2>3, <2>4, <2>6, <2>7, SMTT(60) DEF Pair
<1> QED
  BY <1>2, <1>3

LEMMA WakeTask ==
  ASSUME TypeOK, waitQueue \in Queue(Task), NEW p, NEW f \in [Task -> TaskStruct]
  PROVE  /\ awakepid_task(p, f) \in [Task -> TaskStruct]
         /\ \A t \in Task : /\ awakepid_task(p, f)[t].pid = f[t].pid
                            /\ awakepid_task(p, f)[t].ppid = f[t].ppid
<1>1. CASE Waiter(p) = 0
  BY <1>1 DEF awakepid_task
<1>2. CASE Waiter(p) # 0
  <2>1. waitQueue[Waiter(p)] \in Task
    BY <1>2, WaiterPlace, QueueEntries
  <2> DEFINE w == waitQueue[Waiter(p)]
  <2>2. awakepid_task(p, f) = [f EXCEPT ![w].wait_pid = 0]
    BY <1>2 DEF awakepid_task
  <2> HIDE DEF w
  <2> QED
    BY <2>1, <2>2 DEF TaskStruct, w
<1> QED
  BY <1>1, <1>2

(* Deleting the entry at the tail of q and switching to the next one.      *)
LEMMA DropLast ==
  ASSUME NEW q \in Queue(Task), q # <<>>
  PROVE  /\ schedule(Front(q)) \in Queue(Task)
         /\ ToSet(schedule(Front(q))) = ToSet(q) \ {Last(q)}
         /\ Len(schedule(Front(q))) = Len(q) - 1
BY FrontQueue, ScheduleFacts

(* sys_exit() of c, the last entry of q, leaves everybody else queued.     *)
LEMMA ExitFacts ==
  ASSUME TypeOK, NEW q, Pair(q, waitQueue), q # <<>>, NEW p, ExitFrom(q, p)
  PROVE  /\ Pair(runQueue', waitQueue')
         /\ ToSet(runQueue') \cup ToSet(waitQueue')
              = (ToSet(q) \cup ToSet(waitQueue)) \ {Last(q)}
         /\ ToSet(q) \ {Last(q)} \subseteq ToSet(runQueue')
         /\ Len(runQueue') + Len(waitQueue') = Len(q) + Len(waitQueue) - 1
<1> DEFINE r == awakepid_run(p, q)
           w == awakepid_wait(p)
<1>1. /\ Pair(r, w)
      /\ ToSet(r) \cup ToSet(w) = ToSet(q) \cup ToSet(waitQueue)
      /\ ToSet(q) \subseteq ToSet(r)
      /\ Len(r) + Len(w) = Len(q) + Len(waitQueue)
      /\ r # <<>> /\ Last(r) = Last(q)
  BY WakeFacts
<1>2. runQueue' = schedule(Front(r)) /\ waitQueue' = w
  BY DEF ExitFrom
<1> HIDE DEF r, w
<1>3. r \in Queue(Task) /\ w \in Queue(Task) /\ ToSet(r) \cap ToSet(w) = {}
  BY <1>1 DEF Pair
<1>4. /\ runQueue' \in Queue(Task)
      /\ ToSet(runQueue') = ToSet(r) \ {Last(q)}
      /\ Len(runQueue') = Len(r) - 1
  BY <1>1, <1>2, <1>3, DropLast
<1>5. Last(q) \in ToSet(r) /\ Len(r) \in Nat /\ Len(w) \in Nat
  BY <1>1, <1>3, FrontQueue, QueueEntries, Zenon
<1>6. Pair(runQueue', waitQueue')
  BY <1>2, <1>3, <1>4 DEF Pair
<1> QED
  BY <1>1, <1>2, <1>3, <1>4, <1>5, <1>6

-----------------------------------------------------------------------------
(* The inductive invariant.                                                *)

LEMMA ZeroedType ==
  /\ Zeroed \in TaskStruct
  /\ \A p \in Nat : [Zeroed EXCEPT !.pid = p] \in TaskStruct
  /\ \A p, pp \in Nat : [Zeroed EXCEPT !.pid = p, !.ppid = pp] \in TaskStruct
<1>1. Zeroed \in TaskStruct
  BY DEF Zeroed, TaskStruct
<1>2. ASSUME NEW p \in Nat
      PROVE  [Zeroed EXCEPT !.pid = p] \in TaskStruct
  BY <1>1 DEF TaskStruct
<1>3. ASSUME NEW p \in Nat, NEW pp \in Nat
      PROVE  [Zeroed EXCEPT !.pid = p, !.ppid = pp] \in TaskStruct
  BY <1>1, Zenon DEF TaskStruct
<1> QED
  BY <1>1, <1>2, <1>3, Zenon

LEMMA InitIInv == Init => IInv
<1> SUFFICES ASSUME Init
             PROVE  IInv
  OBVIOUS
<1>1. /\ runQueue \in Seq(Task) /\ waitQueue \in Seq(Task)
      /\ Len(runQueue) = 2 /\ runQueue[1] = idle /\ runQueue[2] = sbush
      /\ Len(waitQueue) = 0
  BY SchedAssumption DEF Init
<1>2. \A i \in 1..2 : i = 1 \/ i = 2
  OBVIOUS
<1>3. /\ runQueue \in Queue(Task) /\ ToSet(runQueue) = {runQueue[i] : i \in 1..2}
      /\ waitQueue \in Queue(Task) /\ ToSet(waitQueue) = {}
  <2>1. \A i, j \in 1..2 : runQueue[i] = runQueue[j] => i = j
    BY <1>1, <1>2, SchedAssumption
  <2>2. \A i, j \in 1..0 : waitQueue[i] = waitQueue[j] => i = j
    OBVIOUS
  <2>3. runQueue \in Queue(Task) /\ ToSet(runQueue) = {runQueue[i] : i \in 1..2}
    BY <1>1, <2>1, MakeQueue
  <2>4. waitQueue \in Queue(Task)
    BY <1>1, <2>2, MakeQueue, Zenon
  <2>5. ToSet(waitQueue) = {}
    BY <1>1, <2>4, QueueEntries
  <2> QED
    BY <2>3, <2>4, <2>5
<1>4. idle \in ToSet(runQueue)
  BY <1>1, <1>3
<1>5. TypeOK
  <2>1. task \in [Task -> TaskStruct]
    <3>1. \A t \in Task : task[t] \in TaskStruct
      BY ZeroedType, Zenon DEF Init
    <3>2. task = [t \in Task |-> task[t]]
      BY DEF Init
    <3> QED
      BY <3>1, <3>2
  <2> QED
    BY <1>1, <2>1, Zenon DEF Init, TypeOK
<1> QED
  BY <1>1, <1>3, <1>4, <1>5, SchedAssumption
     DEF Init, IInv, Pair, CursorQueued, Counted

(* What holds whenever a program makes a system call.                      *)
LEMMA UserFacts ==
  ASSUME IInv, NEW c, UserMode(c)
  PROVE  /\ cursor = NULL /\ runQueue # <<>> /\ c = Last(runQueue)
         /\ c \in ToSet(runQueue) /\ c \in Task /\ c # idle
         /\ runQueue \in Queue(Task) /\ waitQueue \in Queue(Task)
         /\ ToSet(runQueue) \cap ToSet(waitQueue) = {}
         /\ Len(runQueue) \in Nat /\ Len(waitQueue) \in Nat
         /\ num_task = Len(runQueue) + Len(waitQueue)
         /\ num_task <= NR_TASKS
         /\ idle \in ToSet(runQueue)
<1>1. /\ cursor = NULL /\ runQueue # <<>> /\ c = Last(runQueue) /\ c # idle
      /\ runQueue \in Queue(Task) /\ waitQueue \in Queue(Task)
      /\ ToSet(runQueue) \cap ToSet(waitQueue) = {}
  BY DEF UserMode, getCurrentTask, IInv, Pair
<1>2. c \in ToSet(runQueue)
  BY <1>1, FrontQueue, Zenon
<1>3. Len(runQueue) \in Nat /\ Len(waitQueue) \in Nat /\ c \in Task
  BY <1>1, <1>2, QueueEntries
<1>4. ~Lost
  BY <1>1 DEF Lost
<1> QED
  BY <1>1, <1>2, <1>3, <1>4 DEF IInv, Counted

(* A step that leaves the cursor at NULL and the queues counted.           *)
LEMMA MakeIInv ==
  ASSUME Pair(runQueue', waitQueue'),
         cursor' = NULL, scan_flag' \in BOOLEAN,
         task' \in [Task -> TaskStruct], num_task' \in Nat, avail_pid' \in Nat,
         num_task' = Len(runQueue') + Len(waitQueue'), num_task' <= NR_TASKS,
         idle \in ToSet(runQueue')
  PROVE  IInv'
<1>1. runQueue' \in Seq(Task) /\ waitQueue' \in Seq(Task)
  BY DEF Pair, Queue
<1>2. TypeOK'
  BY <1>1 DEF TypeOK
<1>3. CursorQueued'
  BY SchedAssumption DEF CursorQueued
<1> QED
  BY <1>2, <1>3 DEF IInv, Pair, Counted

LEMMA PidInRange ==
  ASSUME avail_pid \in Nat
  PROVE  NextPid \in Nat
BY SchedAssumption DEF NextPid

(* sys_exit(), and execve() of a program that does not fit in memory.      *)
LEMMA ExitStep ==
  ASSUME IInv, NEW c, UserMode(c), NEW p, ExitFrom(runQueue, p),
         task' \in [Task -> TaskStruct], num_task' = num_task - 1, avail_pid' \in Nat
  PROVE  IInv'
<1>1. /\ cursor = NULL /\ runQueue # <<>> /\ c = Last(runQueue)
      /\ c \in ToSet(runQueue) /\ c \in Task /\ c # idle
      /\ Len(runQueue) \in Nat /\ Len(waitQueue) \in Nat
      /\ num_task = Len(runQueue) + Len(waitQueue)
      /\ num_task <= NR_TASKS /\ idle \in ToSet(runQueue)
  BY UserFacts
<1>2. TypeOK /\ Pair(runQueue, waitQueue)
  BY DEF IInv
<1>3. /\ Pair(runQueue', waitQueue')
      /\ ToSet(runQueue) \ {c} \subseteq ToSet(runQueue')
      /\ Len(runQueue') + Len(waitQueue') = Len(runQueue) + Len(waitQueue) - 1
  BY <1>1, <1>2, ExitFacts
<1>4. Len(runQueue') \in Nat /\ Len(waitQueue') \in Nat
  BY <1>3, QueueEntries DEF Pair
<1>5. cursor' = NULL /\ scan_flag' \in BOOLEAN
  BY <1>1, <1>2 DEF ExitFrom, TypeOK
<1>6. /\ num_task' = Len(runQueue') + Len(waitQueue')
      /\ num_task' \in Nat /\ num_task' <= NR_TASKS
  BY <1>1, <1>3, <1>4, SchedAssumption
<1>7. idle \in ToSet(runQueue')
  BY <1>1, <1>3
<1> QED
  BY <1>3, <1>5, <1>6, <1>7, MakeIInv, SMTT(60)

LEMMA sys_exitIInv ==
  ASSUME IInv, NEW c \in Task, sys_exit(c)
  PROVE  IInv'
<1>1. TypeOK /\ waitQueue \in Queue(Task) /\ task \in [Task -> TaskStruct]
  BY DEF IInv, Pair, TypeOK
<1>2. awakepid_task(task[c].ppid, task) \in [Task -> TaskStruct]
  BY <1>1, WakeTask, Zenon
<1>3. task' \in [Task -> TaskStruct]
  BY <1>2, ZeroedType, Zenon DEF sys_exit
<1>4. avail_pid' \in Nat
  BY <1>1 DEF sys_exit, TypeOK
<1> QED
  BY <1>3, <1>4, ExitStep DEF sys_exit

LEMMA sys_execve_OOMIInv ==
  ASSUME IInv, NEW c \in Task, sys_execve_OOM(c)
  PROVE  IInv'
<1>1. TypeOK /\ waitQueue \in Queue(Task) /\ task \in [Task -> TaskStruct]
  BY DEF IInv, Pair, TypeOK
<1>2. awakepid_task(task[c].ppid, task) \in [Task -> TaskStruct]
  BY <1>1, WakeTask
<1>3. task' \in [Task -> TaskStruct]
  BY <1>2, ZeroedType, Zenon DEF sys_execve_OOM
<1>4. avail_pid' \in Nat
  BY <1>1, PidInRange DEF sys_execve_OOM, TypeOK
<1> QED
  BY <1>3, <1>4, ExitStep, ZenonT(60) DEF sys_execve_OOM

LEMMA sys_forkIInv ==
  ASSUME IInv, NEW c \in Task, NEW child \in Task, sys_fork(c, child)
  PROVE  IInv'
<1>1. /\ UserMode(c) /\ TypeOK /\ Pair(runQueue, waitQueue)
      /\ cursor' = cursor /\ scan_flag' = scan_flag /\ waitQueue' = waitQueue
      /\ avail_pid' = NextPid
      /\ child \notin ToSet(runQueue) /\ child \notin ToSet(waitQueue)
  BY DEF IInv, sys_fork, Fresh, Queued
<1>2. /\ cursor = NULL
      /\ runQueue \in Queue(Task) /\ waitQueue \in Queue(Task)
      /\ ToSet(runQueue) \cap ToSet(waitQueue) = {}
      /\ Len(runQueue) \in Nat /\ Len(waitQueue) \in Nat
      /\ num_task = Len(runQueue) + Len(waitQueue)
      /\ num_task <= NR_TASKS /\ idle \in ToSet(runQueue)
  BY <1>1, UserFacts
<1>3. scan_flag' \in BOOLEAN /\ avail_pid' \in Nat /\ NextPid \in Nat
  BY <1>1, PidInRange DEF TypeOK
<1>4. task' \in [Task -> TaskStruct]
  <2>1. task \in [Task -> TaskStruct] /\ task[c].pid \in Nat
    BY <1>1, Zenon DEF TypeOK, TaskStruct
  <2>2. [Zeroed EXCEPT !.pid = NextPid, !.ppid = task[c].pid] \in TaskStruct
    BY <1>3, <2>1, ZeroedType, Zenon
  <2> QED
    BY <2>1, <2>2 DEF sys_fork
<1>5. CASE Full
  <2>1. runQueue' = runQueue /\ num_task' = num_task
    BY <1>5 DEF sys_fork
  <2> QED
    BY <1>1, <1>2, <1>3, <1>4, <2>1, MakeIInv, SMTT(60)
<1>6. CASE ~Full
  <2>1. runQueue' = Cons(child, runQueue) /\ num_task' = num_task + 1
    BY <1>6 DEF sys_fork
  <2>2. /\ runQueue' \in Queue(Task)
        /\ ToSet(runQueue') = ToSet(runQueue) \cup {child}
        /\ Len(runQueue') = Len(runQueue) + 1
    BY <1>1, <1>2, <2>1, ConsQueue, SMTT(60)
  <2>3. Pair(runQueue', waitQueue') /\ idle \in ToSet(runQueue')
    BY <1>1, <1>2, <2>2, SMTT(60) DEF Pair
  <2>4. /\ num_task' = Len(runQueue') + Len(waitQueue')
        /\ num_task' \in Nat /\ num_task' <= NR_TASKS
    BY <1>1, <1>2, <1>6, <2>1, <2>2, SchedAssumption, SMTT(60) DEF Full
  <2> QED
    BY <1>1, <1>2, <1>3, <1>4, <2>3, <2>4, MakeIInv, ZenonT(60)
<1> QED
  BY <1>5, <1>6

LEMMA sys_execveIInv ==
  ASSUME IInv, NEW c \in Task, NEW new \in Task, sys_execve(c, new)
  PROVE  IInv'
<1>1. /\ UserMode(c) /\ TypeOK /\ Pair(runQueue, waitQueue)
      /\ avail_pid' = avail_pid /\ avail_pid \in Nat
      /\ new \notin ToSet(runQueue) /\ new \notin ToSet(waitQueue)
      /\ task \in [Task -> TaskStruct]
  BY DEF IInv, sys_execve, Fresh, Queued, TypeOK
<1>2. /\ cursor = NULL /\ runQueue # <<>> /\ c = Last(runQueue) /\ c # idle
      /\ runQueue \in Queue(Task) /\ waitQueue \in Queue(Task)
      /\ ToSet(runQueue) \cap ToSet(waitQueue) = {}
      /\ Len(runQueue) \in Nat /\ Len(waitQueue) \in Nat
      /\ num_task = Len(runQueue) + Len(waitQueue)
      /\ num_task <= NR_TASKS /\ idle \in ToSet(runQueue)
  BY <1>1, UserFacts
<1>3. awakepid_task(0, task) \in [Task -> TaskStruct]
  BY <1>1, <1>2, WakeTask
<1>4. CASE Full
  <2>1. task' = [awakepid_task(0, task) EXCEPT ![c] = Zeroed]
    BY <1>4, Zenon DEF sys_execve
  <2>2. task' \in [Task -> TaskStruct]
    BY <1>3, <2>1, ZeroedType, Zenon
  <2>3. ExitFrom(runQueue, 0) /\ num_task' = num_task - 1
    BY <1>4 DEF sys_execve
  <2> QED
    BY <1>1, <2>2, <2>3, ExitStep, SMTT(60)
<1>5. CASE ~Full
  <2> DEFINE q == Cons(new, runQueue)
             rec == [Zeroed EXCEPT !.pid = task[c].pid, !.ppid = task[c].ppid]
  <2>1. /\ ExitFrom(q, 0) /\ num_task' = num_task
        /\ task' = [awakepid_task(0, task) EXCEPT ![c] = Zeroed, ![new] = rec]
    BY <1>5, Zenon DEF sys_execve
  <2>2. rec \in TaskStruct
    <3>1. task[c].pid \in Nat /\ task[c].ppid \in Nat
      BY <1>1, Zenon DEF TaskStruct
    <3> QED
      BY <3>1, ZeroedType, Zenon
  <2> HIDE DEF rec
  <2>3. task' \in [Task -> TaskStruct]
    BY <1>3, <2>1, <2>2, ZeroedType, ZenonT(60)
  <2>4. /\ q \in Queue(Task) /\ ToSet(q) = ToSet(runQueue) \cup {new}
        /\ Len(q) = Len(runQueue) + 1 /\ Last(q) = c
    BY <1>1, <1>2, ConsQueue, SMTT(60)
  <2>5. Pair(q, waitQueue) /\ q # <<>>
    BY <1>1, <1>2, <2>4, QueueEntries, SMTT(60) DEF Pair
  <2> HIDE DEF q
  <2>6. /\ Pair(runQueue', waitQueue')
        /\ ToSet(q) \ {c} \subseteq ToSet(runQueue')
        /\ Len(runQueue') + Len(waitQueue') = Len(q) + Len(waitQueue) - 1
    BY <1>1, <2>1, <2>4, <2>5, ExitFacts, SMTT(60)
  <2>7. idle \in ToSet(runQueue')
    BY <1>2, <2>4, <2>6, SMTT(60)
  <2>8. num_task' = Len(runQueue') + Len(waitQueue') /\ num_task' \in Nat
    BY <1>2, <2>1, <2>4, <2>6, SMTT(60)
  <2>9. cursor' = NULL /\ scan_flag' \in BOOLEAN
    BY <1>1, <1>2, <2>1 DEF ExitFrom, TypeOK
  <2> QED
    BY <1>1, <1>2, <2>1, <2>3, <2>6, <2>7, <2>8, <2>9, MakeIInv, SMTT(60)
<1> QED
  BY <1>4, <1>5

(* The caller moves from the tail of runQueue to the head of waitQueue.    *)
LEMMA BlockFacts ==
  ASSUME IInv, NEW c \in Task, UserMode(c), BlockCurrent(c),
         cursor' = cursor, scan_flag' = scan_flag,
         num_task' = num_task, avail_pid' = avail_pid,
         task' \in [Task -> TaskStruct]
  PROVE  /\ IInv'
         /\ ToSet(runQueue') = ToSet(runQueue) \ {c}
         /\ ToSet(waitQueue') = ToSet(waitQueue) \cup {c}
<1>1. /\ cursor = NULL /\ runQueue # <<>> /\ c = Last(runQueue) /\ c # idle
      /\ c \in ToSet(runQueue)
      /\ runQueue \in Queue(Task) /\ waitQueue \in Queue(Task)
      /\ ToSet(runQueue) \cap ToSet(waitQueue) = {}
      /\ Len(runQueue) \in Nat /\ Len(waitQueue) \in Nat
      /\ num_task = Len(runQueue) + Len(waitQueue)
      /\ num_task <= NR_TASKS /\ idle \in ToSet(runQueue)
  BY UserFacts
<1>2. /\ runQueue' \in Queue(Task)
      /\ ToSet(runQueue') = ToSet(runQueue) \ {c}
      /\ Len(runQueue') = Len(runQueue) - 1
  BY <1>1, DropLast DEF BlockCurrent
<1>3. /\ waitQueue' \in Queue(Task)
      /\ ToSet(waitQueue') = ToSet(waitQueue) \cup {c}
      /\ Len(waitQueue') = Len(waitQueue) + 1
  BY <1>1, ConsQueue DEF BlockCurrent
<1>4. Pair(runQueue', waitQueue') /\ idle \in ToSet(runQueue')
  BY <1>1, <1>2, <1>3, SMTT(60) DEF Pair
<1>5. num_task' = Len(runQueue') + Len(waitQueue') /\ num_task' \in Nat
  BY <1>1, <1>2, <1>3, SMTT(60)
<1>6. cursor' = NULL /\ scan_flag' \in BOOLEAN /\ avail_pid' \in Nat
  BY <1>1 DEF IInv, TypeOK
<1> QED
  BY <1>1, <1>2, <1>3, <1>4, <1>5, <1>6, MakeIInv, ZenonT(60)

LEMMA sys_sleepIInv ==
  ASSUME IInv, NEW c \in Task, NEW s \in SleepArgs, sys_sleep(c, s)
  PROVE  IInv'
<1>1. task \in [Task -> TaskStruct] /\ s \in Int
  BY SchedAssumption DEF IInv, TypeOK
<1>2. task' \in [Task -> TaskStruct]
  BY <1>1, Zenon DEF sys_sleep, TaskStruct
<1> QED
  BY <1>2, BlockFacts DEF sys_sleep

LEMMA sys_waitpidIInv ==
  ASSUME IInv, NEW c \in Task, NEW p \in Nat, sys_waitpid(c, p)
  PROVE  IInv'
<1>1. task \in [Task -> TaskStruct]
  BY DEF IInv, TypeOK
<1>2. CASE \E t \in Queued : task[t].pid = p
  <2>1. BlockCurrent(c) /\ \E k \in {0, p} : task' = [task EXCEPT ![c].wait_pid = k]
    BY <1>2 DEF sys_waitpid
  <2>2. task' \in [Task -> TaskStruct]
    BY <1>1, <2>1 DEF TaskStruct
  <2> QED
    BY <2>1, <2>2, BlockFacts, SMTT(60) DEF sys_waitpid
<1>3. CASE ~\E t \in Queued : task[t].pid = p
  <2>1. UNCHANGED vars
    BY <1>3 DEF sys_waitpid, vars, queues
  <2> QED
    BY <2>1 DEF vars, queues, IInv, TypeOK, Pair, CursorQueued, Queued, Counted, Lost
<1> QED
  BY <1>2, <1>3

LEMMA ScanIInv ==
  ASSUME IInv, (\E c \in Task : scank(c)) \/ kb_enter
  PROVE  IInv'
<1>1. UNCHANGED <<queues, task, num_task, avail_pid, cursor>> /\ scan_flag' \in BOOLEAN
  BY Zenon DEF scank, kb_enter
<1> QED
  BY <1>1 DEF queues, IInv, TypeOK, Pair, CursorQueued, Queued, Counted, Lost

(* A timer step that schedules, or not, and ends outside awake().          *)
LEMMA TimerSchedules ==
  ASSUME IInv, cursor # RunHead, cursor' = NULL, ScheduleUnlessScanning
  PROVE  IInv'
<1>1. /\ runQueue \in Queue(Task) /\ waitQueue' = waitQueue
      /\ task' = task /\ num_task' = num_task /\ avail_pid' = avail_pid
      /\ scan_flag' = scan_flag /\ TypeOK /\ Pair(runQueue, waitQueue)
  BY DEF IInv, Pair, ScheduleUnlessScanning
<1>2. /\ runQueue' \in Queue(Task) /\ ToSet(runQueue') = ToSet(runQueue)
      /\ Len(runQueue') = Len(runQueue)
  BY <1>1, ScheduleFacts DEF ScheduleUnlessScanning
<1>3. /\ num_task = Len(runQueue) + Len(waitQueue)
      /\ num_task <= NR_TASKS /\ idle \in ToSet(runQueue)
  BY DEF IInv, Counted, Lost
<1>4. Pair(runQueue', waitQueue')
  BY <1>1, <1>2 DEF Pair
<1> QED
  BY <1>1, <1>2, <1>3, <1>4, MakeIInv, SMTT(60) DEF TypeOK

LEMMA call_timerIInv ==
  ASSUME IInv, call_timer
  PROVE  IInv'
<1>1. cursor = NULL /\ waitQueue \in Queue(Task)
  BY DEF IInv, Pair, call_timer
<1>2. CASE Len(waitQueue) <= 1
  BY <1>1, <1>2, TimerSchedules, SchedAssumption, SMTT(60) DEF call_timer
<1>3. CASE ~(Len(waitQueue) <= 1)
  <2>1. /\ cursor' = Head(waitQueue)
        /\ UNCHANGED <<queues, task, num_task, avail_pid, scan_flag>>
    BY <1>3 DEF call_timer
  <2>2. waitQueue # <<>> /\ waitQueue \in Seq(Task) /\ Len(waitQueue) \in Nat
    BY <1>1, <1>3, QueueEntries
  <2>3. Head(waitQueue) = waitQueue[1] /\ 1 \in 1..Len(waitQueue)
    BY <1>3, <2>2
  <2>4. Head(waitQueue) \in ToSet(waitQueue) /\ Head(waitQueue) \in Task
    BY <1>1, <2>3, QueueEntries, SMTT(60)
  <2>5. TypeOK' /\ Pair(runQueue', waitQueue') /\ CursorQueued'
    BY <2>1, <2>4 DEF IInv, TypeOK, Pair, queues, CursorQueued, Queued
  <2>6. ~Lost
    BY <1>1, SchedAssumption DEF Lost
  <2> QED
    BY <2>1, <2>5, <2>6, SMTT(60) DEF IInv, Pair, Counted, queues
<1> QED
  BY <1>2, <1>3

(* list_next_entry() of a queued task: the next one or the list head.      *)
LEMMA NextInFacts ==
  ASSUME NEW q \in Queue(Task), NEW t \in ToSet(q), NEW head
  PROVE  NextIn(q, t, head) = head \/ NextIn(q, t, head) \in ToSet(q)
<1> DEFINE i == SelectInSeq(q, LAMBDA x : x = t)
<1>1. i \in 1..Len(q) /\ q[i] = t
  BY SelectEntry, Zenon
<1>2. NextIn(q, t, head) = IF t = Last(q) THEN head ELSE q[i + 1]
  BY DEF NextIn
<1> HIDE DEF i
<1>3. Len(q) \in Nat /\ \A j \in 1..Len(q) : q[j] \in ToSet(q)
  BY QueueEntries
<1>4. t # Last(q) => i + 1 \in 1..Len(q)
  BY <1>1, <1>3 DEF Last
<1> QED
  BY <1>2, <1>3, <1>4

LEMMA awake_stepIInv ==
  ASSUME IInv, awake_step
  PROVE  IInv'
<1>1. /\ cursor \in Task /\ cursor \in Queued /\ TypeOK
      /\ runQueue \in Queue(Task) /\ waitQueue \in Queue(Task)
      /\ ToSet(runQueue) \cap ToSet(waitQueue) = {}
      /\ Pair(runQueue, waitQueue)
      /\ num_task' = num_task /\ avail_pid' = avail_pid /\ scan_flag' = scan_flag
  BY DEF IInv, Pair, CursorQueued, awake_step
<1>2. /\ num_task = Len(runQueue) + Len(waitQueue)
      /\ num_task <= NR_TASKS /\ idle \in ToSet(runQueue)
  BY <1>1, SchedAssumption DEF IInv, Counted, Lost
<1>3. Len(runQueue) \in Nat /\ Len(waitQueue) \in Nat
  BY <1>1, QueueEntries
<1>4. task \in [Task -> TaskStruct] /\ task[cursor].sleep_time - 1 \in Int
  BY <1>1 DEF TypeOK, TaskStruct
<1>5. task' \in [Task -> TaskStruct]
  <2>1. CASE Expires(cursor)
    BY <1>1, <1>4, <2>1 DEF awake_step, TaskStruct
  <2>2. CASE ~Expires(cursor)
    BY <1>1, <1>4, <2>2, SMTT(60) DEF awake_step, TaskStruct
  <2> QED
    BY <2>1, <2>2
<1>6. CASE Expires(cursor)
  <2>1. /\ Pair(runQueue', waitQueue')
        /\ cursor \in ToSet(runQueue')
        /\ idle \in ToSet(runQueue')
        /\ Len(runQueue') + Len(waitQueue') = Len(runQueue) + Len(waitQueue)
    <3>1. MoveToRun(cursor)
      BY <1>6 DEF awake_step
    <3>2. CASE cursor \in ToSet(waitQueue)
      <4>1. /\ runQueue' = Cons(cursor, runQueue)
            /\ waitQueue' = RemoveFirst(waitQueue, cursor)
        BY <3>1, <3>2 DEF MoveToRun
      <4>2. /\ runQueue' \in Queue(Task) /\ Len(runQueue') = Len(runQueue) + 1
            /\ ToSet(runQueue') = ToSet(runQueue) \cup {cursor}
        BY <1>1, <3>2, <4>1, ConsQueue, SMTT(60)
      <4>3. /\ waitQueue' \in Queue(Task) /\ Len(waitQueue') = Len(waitQueue) - 1
            /\ ToSet(waitQueue') = ToSet(waitQueue) \ {cursor}
        BY <1>1, <3>2, <4>1, RemoveFirstQueue, SMTT(60)
      <4> QED
        BY <1>1, <1>2, <1>3, <4>2, <4>3, SMTT(60) DEF Pair
    <3>3. CASE cursor \notin ToSet(waitQueue)
      <4> DEFINE r == RemoveFirst(runQueue, cursor)
      <4>1. runQueue' = Cons(cursor, r) /\ waitQueue' = waitQueue
        BY <3>1, <3>3 DEF MoveToRun
      <4>2. cursor \in ToSet(runQueue)
        BY <1>1, <3>3 DEF Queued
      <4>3. /\ r \in Queue(Task) /\ Len(r) = Len(runQueue) - 1
            /\ ToSet(r) = ToSet(runQueue) \ {cursor}
        BY <1>1, <4>2, RemoveFirstQueue
      <4> HIDE DEF r
      <4>4. cursor \notin ToSet(r)
        BY <4>3
      <4>5. /\ runQueue' \in Queue(Task) /\ Len(runQueue') = Len(r) + 1
            /\ ToSet(runQueue') = ToSet(r) \cup {cursor}
        BY <1>1, <4>1, <4>3, <4>4, ConsQueue, SMTT(60)
      <4> QED
        BY <1>1, <1>2, <1>3, <4>1, <4>2, <4>3, <4>5, SMTT(60) DEF Pair
    <3> QED
      BY <3>2, <3>3
  <2>2. cursor' = RunHead \/ (cursor' \in Task /\ cursor' \in ToSet(runQueue'))
    <3>1. /\ Len(runQueue') \in Nat /\ Len(runQueue') # 0
          /\ \A i \in 1..Len(runQueue') : runQueue'[i] \in Task /\ runQueue'[i] \in ToSet(runQueue')
      BY <2>1, QueueEntries DEF Pair
    <3>2. Len(runQueue') # 1 => 2 \in 1..Len(runQueue')
      BY <3>1, SMTT(60)
    <3>3. cursor' = IF Len(runQueue') = 1 THEN RunHead ELSE runQueue'[2]
      BY <1>6 DEF awake_step
    <3> QED
      BY <3>1, <3>2, <3>3, SMTT(60)
  <2>3. TypeOK'
    BY <1>1, <1>5, <2>1, <2>2, SMTT(60) DEF TypeOK, Pair, Queue
  <2>4. CursorQueued'
    BY <2>2, SchedAssumption DEF CursorQueued, Queued
  <2> QED
    BY <1>1, <1>2, <2>1, <2>3, <2>4, SMTT(60) DEF IInv, Pair, Counted
<1>7. CASE ~Expires(cursor)
  <2>1. cursor' = NextEntry(cursor) /\ runQueue' = runQueue /\ waitQueue' = waitQueue
    BY <1>7 DEF awake_step, queues
  <2>2. cursor' \in {RunHead, WaitHead} \/ cursor' \in Queued
    <3>1. CASE cursor \in ToSet(waitQueue)
      BY <1>1, <2>1, <3>1, NextInFacts, SMTT(60) DEF NextEntry, Queued
    <3>2. CASE cursor \notin ToSet(waitQueue)
      <4>1. cursor \in ToSet(runQueue)
        BY <1>1, <3>2 DEF Queued
      <4> QED
        BY <1>1, <2>1, <3>2, <4>1, NextInFacts, SMTT(60) DEF NextEntry, Queued
    <3> QED
      BY <3>1, <3>2
  <2>3. Queued \subseteq Task
    BY <1>1, QueueEntries DEF Queued
  <2>4. TypeOK'
    BY <1>1, <1>5, <2>1, <2>2, <2>3, SMTT(60) DEF TypeOK
  <2>5. CursorQueued'
    BY <2>1, <2>2, SchedAssumption, SMTT(60) DEF CursorQueued, Queued
  <2> QED
    BY <1>1, <1>2, <2>1, <2>4, <2>5, SMTT(60) DEF IInv, Pair, Counted
<1> QED
  BY <1>6, <1>7

LEMMA awake_endIInv ==
  ASSUME IInv, awake_end
  PROVE  IInv'
BY TimerSchedules, SchedAssumption DEF awake_end

LEMMA awake_strayIInv ==
  ASSUME IInv, awake_stray
  PROVE  IInv'
<1>1. /\ cursor = RunHead /\ waitQueue' = waitQueue
      /\ task' = task /\ num_task' = num_task /\ avail_pid' = avail_pid
      /\ scan_flag' = scan_flag /\ TypeOK
      /\ runQueue \in Queue(Task) /\ waitQueue \in Queue(Task)
      /\ ToSet(runQueue) \cap ToSet(waitQueue) = {}
  BY DEF awake_stray, IInv, Pair
<1>2. CASE runQueue = <<>> /\ runQueue' = <<>> /\ cursor' = RunHead
  BY <1>1, <1>2, SchedAssumption, SMTT(60)
     DEF IInv, Pair, TypeOK, CursorQueued, Counted, Lost
<1>3. CASE runQueue # <<>> /\ runQueue' = runQueue /\ cursor' = Head(runQueue)
  <2>1. Head(runQueue) = runQueue[1] /\ 1 \in 1..Len(runQueue)
    BY <1>1, <1>3, QueueEntries, SMTT(60)
  <2>2. Head(runQueue) \in Task /\ Head(runQueue) \in ToSet(runQueue)
    BY <1>1, <2>1, QueueEntries, SMTT(60)
  <2> QED
    BY <1>1, <1>3, <2>2, SchedAssumption, SMTT(60)
       DEF IInv, Pair, TypeOK, CursorQueued, Queued, Counted, Lost
<1>4. CASE runQueue' = <<>> /\ cursor' = RunHead
  <2>1. <<>> \in Queue(Task) /\ ToSet(<<>>) = {} /\ <<>> \in Seq(Task)
    BY DEF Queue, IsInjective, ToSet
  <2> QED
    BY <1>1, <1>4, <2>1, SchedAssumption, ZenonT(60)
       DEF IInv, Pair, TypeOK, CursorQueued, Counted, Lost
<1> QED
  BY <1>2, <1>3, <1>4, SMTT(60) DEF awake_stray

LEMMA NextIInv == IInv /\ [Next]_vars => IInv'
<1> SUFFICES ASSUME IInv, [Next]_vars
             PROVE  IInv'
  OBVIOUS
<1>1. CASE UNCHANGED vars
  BY <1>1 DEF vars, queues, IInv, TypeOK, Pair, CursorQueued, Queued, Counted, Lost
<1>2. CASE Syscall
  <2>1. 0..MaxPid \subseteq Nat
    BY SchedAssumption
  <2> QED
    BY <1>2, <2>1, sys_exitIInv, sys_forkIInv, sys_execveIInv, sys_execve_OOMIInv,
       sys_sleepIInv, sys_waitpidIInv, ScanIInv, SMTT(60) DEF Syscall
<1>3. CASE Interrupt
  BY <1>3, ScanIInv, call_timerIInv, awake_stepIInv, awake_endIInv, awake_strayIInv, SMTT(60)
     DEF Interrupt
<1> QED
  BY <1>1, <1>2, <1>3, SMTT(60) DEF Next

-----------------------------------------------------------------------------
(* Every variable keeps its type: num_task and avail_pid stay natural      *)
(* numbers and awake()'s cursor is a task or one of the two list heads.    *)
THEOREM TypeCorrect == Spec => []TypeOK
<1>1. IInv => TypeOK
  BY SMTT(60) DEF IInv
<1> QED
  BY <1>1, InitIInv, NextIInv, PTL DEF Spec

(* No task is ever linked twice, whatever fork, execve, exit, sleep,       *)
(* waitpid and the wake-ups do.                                            *)
THEOREM QueuedOnceCorrect == Spec => []QueuedOnce
<1>1. IInv => QueuedOnce
  BY SMTT(60) DEF IInv, Pair, Queue, QueuedOnce
<1> QED
  BY <1>1, InitIInv, NextIInv, PTL DEF Spec

(* num_task counts the queued tasks and never exceeds NR_TASKS.            *)
THEOREM NumTaskCorrect == Spec => []NumTaskExact
<1>1. IInv => NumTaskExact
  BY SMTT(60) DEF IInv, Counted, Lost, NumTaskExact
<1> QED
  BY <1>1, InitIInv, NextIInv, PTL DEF Spec

(* The run queue always has the idle task, so schedule() always switches.  *)
THEOREM IdleCorrect == Spec => []IdleRunnable
<1>1. IInv => IdleRunnable
  BY DEF IInv, Counted, Lost, IdleRunnable
<1> QED
  BY <1>1, InitIInv, NextIInv, PTL DEF Spec

-----------------------------------------------------------------------------
(* Who is queued after a step, and with which pid.                         *)

(* A step that queues nobody and renames nobody.                           *)
Keeps == /\ Queued' \subseteq Queued
         /\ \A t \in Queued' : task'[t].pid = task[t].pid

LEMMA QueuedTasks ==
  ASSUME IInv
  PROVE  Queued \subseteq Task
BY QueueEntries DEF IInv, Pair, Queued

LEMMA ExitKeeps ==
  ASSUME IInv, NEW c \in Task, UserMode(c), NEW p, ExitFrom(runQueue, p),
         task' = [awakepid_task(p, task) EXCEPT ![c] = Zeroed]
  PROVE  Keeps /\ Queued \ {c} \subseteq Queued' /\ c = getCurrentTask
<1>1. runQueue # <<>> /\ c = Last(runQueue) /\ waitQueue \in Queue(Task)
  BY UserFacts
<1>2. TypeOK /\ Pair(runQueue, waitQueue) /\ task \in [Task -> TaskStruct]
  BY DEF IInv, TypeOK
<1>3. ToSet(runQueue') \cup ToSet(waitQueue') = (ToSet(runQueue) \cup ToSet(waitQueue)) \ {c}
  BY <1>1, <1>2, ExitFacts, SMTT(60)
<1>4. Queued' = Queued \ {c}
  BY <1>3 DEF Queued
<1>5. /\ awakepid_task(p, task) \in [Task -> TaskStruct]
      /\ \A t \in Task : awakepid_task(p, task)[t].pid = task[t].pid
  BY <1>1, <1>2, WakeTask, SMTT(60)
<1>6. \A t \in Task : t # c => task'[t].pid = task[t].pid
  BY <1>5
<1> QED
  BY <1>1, <1>4, <1>6, QueuedTasks, ZenonT(60) DEF Keeps, getCurrentTask

LEMMA BlockKeeps ==
  ASSUME IInv, NEW c \in Task, (\E s \in SleepArgs : sys_sleep(c, s)) \/
                               (\E p \in 0..MaxPid : sys_waitpid(c, p))
  PROVE  Keeps /\ Queued \subseteq Queued'
<1>1. task \in [Task -> TaskStruct] /\ SleepArgs \subseteq Int /\ 0..MaxPid \subseteq Nat
  BY SchedAssumption DEF IInv, TypeOK
<1>2. Queued \subseteq Task
  BY QueuedTasks
<1>3. ASSUME NEW s \in SleepArgs, sys_sleep(c, s)
      PROVE  Keeps /\ Queued \subseteq Queued'
  <2>1. /\ task' \in [Task -> TaskStruct]
        /\ \A t \in Task : task'[t].pid = task[t].pid
    BY <1>1, <1>3, ZenonT(60) DEF sys_sleep, TaskStruct
  <2>2. /\ ToSet(runQueue') = ToSet(runQueue) \ {c}
        /\ ToSet(waitQueue') = ToSet(waitQueue) \cup {c}
        /\ c \in ToSet(runQueue)
    BY <1>3, <2>1, BlockFacts, UserFacts, ZenonT(60) DEF sys_sleep
  <2>3. Queued' = Queued
    BY <2>2 DEF Queued
  <2> QED
    BY <1>2, <2>1, <2>3, ZenonT(60) DEF Keeps
<1>4. ASSUME NEW p \in 0..MaxPid, sys_waitpid(c, p)
      PROVE  Keeps /\ Queued \subseteq Queued'
  <2>1. CASE \E t \in Queued : task[t].pid = p
    <3>1. BlockCurrent(c) /\ \E k \in {0, p} : task' = [task EXCEPT ![c].wait_pid = k]
      BY <1>4, <2>1 DEF sys_waitpid
    <3>2. /\ task' \in [Task -> TaskStruct]
          /\ \A t \in Task : task'[t].pid = task[t].pid
      BY <1>1, <3>1 DEF TaskStruct
    <3>3. /\ ToSet(runQueue') = ToSet(runQueue) \ {c}
          /\ ToSet(waitQueue') = ToSet(waitQueue) \cup {c}
          /\ c \in ToSet(runQueue)
      BY <1>4, <3>1, <3>2, BlockFacts, UserFacts, SMTT(60) DEF sys_waitpid
    <3>4. Queued' = Queued
      BY <3>3 DEF Queued
    <3> QED
      BY <1>2, <3>2, <3>4, SMTT(60) DEF Keeps
  <2>2. CASE ~\E t \in Queued : task[t].pid = p
    BY <1>4, <2>2 DEF sys_waitpid, queues, Queued, Keeps
  <2> QED
    BY <2>1, <2>2
<1> QED
  BY <1>3, <1>4

LEMMA InterruptKeeps ==
  ASSUME IInv, Interrupt \/ \E c \in Task : scank(c)
  PROVE  Keeps /\ (Queued \subseteq Queued' \/ Strayed)
<1>1. /\ task \in [Task -> TaskStruct] /\ Pair(runQueue, waitQueue)
      /\ runQueue \in Queue(Task) /\ waitQueue \in Queue(Task)
  BY DEF IInv, TypeOK, Pair
<1>2. CASE kb_enter \/ \E c \in Task : scank(c)
  BY <1>2 DEF kb_enter, scank, queues, Queued, Keeps
<1>3. ASSUME ScheduleUnlessScanning
      PROVE  Keeps /\ Queued \subseteq Queued'
  <2>1. ToSet(runQueue') = ToSet(runQueue) /\ waitQueue' = waitQueue /\ task' = task
    BY <1>1, <1>3, ScheduleFacts, SMTT(60) DEF ScheduleUnlessScanning
  <2> QED
    BY <2>1 DEF Queued, Keeps
<1>4. CASE call_timer
  BY <1>3, <1>4 DEF call_timer, queues, Queued, Keeps
<1>5. CASE awake_end
  BY <1>3, <1>5 DEF awake_end
<1>6. CASE awake_stray
  <2>1. /\ runQueue' = runQueue \/ runQueue' = <<>>
        /\ waitQueue' = waitQueue /\ task' = task /\ cursor = RunHead
    BY <1>6 DEF awake_stray
  <2>2. ToSet(<<>>) = {}
    BY DEF ToSet
  <2> QED
    BY <2>1, <2>2 DEF Queued, Keeps, Strayed
<1>7. CASE awake_step
  <2>1. cursor \in Task /\ cursor \in Queued
    BY <1>7 DEF awake_step, IInv, CursorQueued
  <2>2. \A t \in Task : task'[t].pid = task[t].pid
    <3>1. CASE Expires(cursor)
      BY <1>1, <1>7, <2>1, <3>1, SMTT(60) DEF awake_step, TaskStruct
    <3>2. CASE ~Expires(cursor)
      BY <1>1, <1>7, <2>1, <3>2, SMTT(60) DEF awake_step, TaskStruct
    <3> QED
      BY <3>1, <3>2
  <2>3. Queued' = Queued
    <3>1. CASE ~Expires(cursor)
      BY <1>7, <3>1 DEF awake_step, queues, Queued
    <3>2. CASE Expires(cursor) /\ cursor \in ToSet(waitQueue)
      <4>1. /\ runQueue' = Cons(cursor, runQueue)
            /\ waitQueue' = RemoveFirst(waitQueue, cursor)
        BY <1>7, <3>2 DEF awake_step, MoveToRun
      <4>2. ToSet(runQueue') = ToSet(runQueue) \cup {cursor}
        BY <1>1, <2>1, <3>2, <4>1, ConsQueue, SMTT(60) DEF Pair
      <4>3. ToSet(waitQueue') = ToSet(waitQueue) \ {cursor}
        BY <1>1, <3>2, <4>1, RemoveFirstQueue, SMTT(60)
      <4> QED
        BY <2>1, <4>2, <4>3 DEF Queued
    <3>3. CASE Expires(cursor) /\ cursor \notin ToSet(waitQueue)
      <4> DEFINE r == RemoveFirst(runQueue, cursor)
      <4>1. runQueue' = Cons(cursor, r) /\ waitQueue' = waitQueue
        BY <1>7, <3>3 DEF awake_step, MoveToRun
      <4>2. r \in Queue(Task) /\ ToSet(r) = ToSet(runQueue) \ {cursor}
        BY <1>1, <2>1, <3>3, RemoveFirstQueue, SMTT(60) DEF Queued
      <4> HIDE DEF r
      <4>3. cursor \notin ToSet(r)
        BY <4>2
      <4>4. ToSet(runQueue') = ToSet(r) \cup {cursor}
        BY <2>1, <4>1, <4>2, <4>3, ConsQueue, SMTT(60)
      <4> QED
        BY <2>1, <3>3, <4>1, <4>2, <4>4, SMTT(60) DEF Queued
    <3> QED
      BY <3>1, <3>2, <3>3, SMTT(60)
  <2> QED
    BY <2>2, <2>3, QueuedTasks, SMTT(60) DEF Keeps
<1> QED
  BY <1>2, <1>4, <1>5, <1>6, <1>7, SMTT(60) DEF Interrupt

(* fork: the child, with the next pid, is queued or nobody is.             *)
LEMMA ForkPids ==
  ASSUME IInv, NEW c \in Task, NEW child \in Task, sys_fork(c, child)
  PROVE  \/ Queued' = Queued /\ task' = task
         \/ /\ Queued' = Queued \cup {child} /\ child \notin Queued
            /\ task'[child].pid = NextPid
            /\ \A t \in Queued : task'[t].pid = task[t].pid
<1>1. /\ runQueue \in Queue(Task) /\ waitQueue' = waitQueue
      /\ child \notin Queued /\ task \in [Task -> TaskStruct]
  BY DEF IInv, Pair, TypeOK, sys_fork, Fresh
<1>2. CASE Full
  BY <1>1, <1>2 DEF sys_fork, Queued
<1>3. CASE ~Full
  <2> DEFINE rec == [Zeroed EXCEPT !.pid = NextPid, !.ppid = task[c].pid]
  <2>1. runQueue' = Cons(child, runQueue) /\ task' = [task EXCEPT ![child] = rec]
    BY <1>3 DEF sys_fork
  <2>2. rec.pid = NextPid
    BY DEF Zeroed
  <2> HIDE DEF rec
  <2>3. ToSet(runQueue') = ToSet(runQueue) \cup {child}
    BY <1>1, <2>1, ConsQueue, SMTT(60) DEF Queued
  <2>4. Queued' = Queued \cup {child}
    BY <1>1, <2>3 DEF Queued
  <2>5. task'[child].pid = NextPid
    BY <1>1, <2>1, <2>2
  <2>6. \A t \in Queued : task'[t].pid = task[t].pid
    BY <1>1, <2>1, QueuedTasks, SMTT(60)
  <2> QED
    BY <1>1, <2>4, <2>5, <2>6, SMTT(60)
<1> QED
  BY <1>2, <1>3

(* execve: the new task, with the caller's pid, replaces the caller.       *)
LEMMA ExecvePids ==
  ASSUME IInv, NEW c \in Task, NEW new \in Task, sys_execve(c, new)
  PROVE  /\ c = getCurrentTask /\ c \in Queued
         /\ \/ Keeps /\ Queued \ {c} \subseteq Queued'
            \/ /\ Queued' = (Queued \cup {new}) \ {c} /\ new \notin Queued
               /\ task'[new].pid = task[c].pid
               /\ \A t \in Queued \ {c} : task'[t].pid = task[t].pid
<1>1. /\ UserMode(c) /\ TypeOK /\ Pair(runQueue, waitQueue) /\ new \notin Queued
      /\ task \in [Task -> TaskStruct] /\ waitQueue \in Queue(Task)
  BY DEF IInv, Pair, TypeOK, sys_execve, Fresh
<1>2. /\ c = Last(runQueue) /\ runQueue # <<>> /\ runQueue \in Queue(Task)
      /\ c \in ToSet(runQueue) /\ ToSet(runQueue) \cap ToSet(waitQueue) = {}
      /\ Len(runQueue) \in Nat
  BY <1>1, UserFacts
<1>3. c = getCurrentTask /\ c \in Queued
  BY <1>2, SMTT(60) DEF getCurrentTask, Queued
<1>4. CASE Full
  <2>1. /\ ExitFrom(runQueue, 0)
        /\ task' = [awakepid_task(0, task) EXCEPT ![c] = Zeroed]
    BY <1>4, SMTT(60) DEF sys_execve
  <2> QED
    BY <1>1, <1>3, <2>1, ExitKeeps, SMTT(60)
<1>5. CASE ~Full
  <2> DEFINE q == Cons(new, runQueue)
             rec == [Zeroed EXCEPT !.pid = task[c].pid, !.ppid = task[c].ppid]
             f == awakepid_task(0, task)
  <2>1. ExitFrom(q, 0) /\ task' = [f EXCEPT ![c] = Zeroed, ![new] = rec]
    BY <1>5 DEF sys_execve
  <2>2. rec.pid = task[c].pid
    BY DEF Zeroed
  <2> HIDE DEF rec
  <2>3. /\ q \in Queue(Task) /\ ToSet(q) = ToSet(runQueue) \cup {new}
        /\ Last(q) = c /\ Len(q) = Len(runQueue) + 1
    BY <1>1, <1>2, ConsQueue, SMTT(60) DEF Queued
  <2>4. Pair(q, waitQueue) /\ q # <<>>
    BY <1>1, <1>2, <2>3, QueueEntries, SMTT(60) DEF Pair, Queued
  <2> HIDE DEF q
  <2>5. ToSet(runQueue') \cup ToSet(waitQueue') = (ToSet(q) \cup ToSet(waitQueue)) \ {c}
    BY <1>1, <2>1, <2>3, <2>4, ExitFacts, SMTT(60)
  <2>6. Queued' = (Queued \cup {new}) \ {c}
    BY <2>3, <2>5 DEF Queued
  <2>7. f \in [Task -> TaskStruct] /\ \A t \in Task : f[t].pid = task[t].pid
    BY <1>1, WakeTask, SMTT(60)
  <2> HIDE DEF f
  <2>8. task'[new].pid = task[c].pid
    BY <2>1, <2>2, <2>7, ZenonT(60)
  <2>9. ASSUME NEW t \in Queued \ {c}
        PROVE  task'[t].pid = task[t].pid
    <3>1. t \in Task /\ t # new
      BY <1>1, QueuedTasks
    <3> QED
      BY <2>1, <2>7, <3>1, SMTT(60)
  <2> QED
    BY <1>1, <1>3, <2>6, <2>8, <2>9, SMTT(60)
<1> QED
  BY <1>4, <1>5

(* Only the running task leaves the queues, unless a stray walk of awake() *)
(* ties up the run queue: no system call and no interrupt loses anybody.   *)
THEOREM OnlyCurrentDiesCorrect == Spec => OnlyCurrentDies
<1>1. ASSUME IInv, [Next]_vars
      PROVE  [\A t \in Queued : t \notin Queued' => t = getCurrentTask \/ Strayed]_vars
  <2>1. CASE UNCHANGED vars
    BY <2>1
  <2>2. CASE Syscall
    <3>1. ASSUME NEW c \in Task, sys_exit(c) \/ sys_execve_OOM(c)
          PROVE  \A t \in Queued : t \notin Queued' => t = getCurrentTask
      BY <1>1, <3>1, ExitKeeps, SMTT(60) DEF sys_exit, sys_execve_OOM
    <3>2. ASSUME NEW c \in Task, NEW t \in Task, sys_fork(c, t)
          PROVE  Queued \subseteq Queued'
      BY <1>1, <3>2, ForkPids, SMTT(60)
    <3>3. ASSUME NEW c \in Task, NEW n \in Task, sys_execve(c, n)
          PROVE  \A t \in Queued : t \notin Queued' => t = getCurrentTask
      BY <1>1, <3>3, ExecvePids, SMTT(60)
    <3>4. ASSUME NEW c \in Task, (\E s \in SleepArgs : sys_sleep(c, s)) \/
                                 (\E p \in 0..MaxPid : sys_waitpid(c, p))
          PROVE  Queued \subseteq Queued'
      BY <1>1, <3>4, BlockKeeps, SMTT(60)
    <3>5. ASSUME NEW c \in Task, scank(c)
          PROVE  Queued \subseteq Queued' \/ Strayed
      BY <1>1, <3>5, InterruptKeeps, SMTT(60)
    <3> QED
      BY <2>2, <3>1, <3>2, <3>3, <3>4, <3>5, SMTT(60) DEF Syscall
  <2>3. CASE Interrupt
    BY <1>1, <2>3, InterruptKeeps, ZenonT(60)
  <2> QED
    BY <1>1, <2>1, <2>2, <2>3, ZenonT(60) DEF Next
<1> QED
  BY <1>1, InitIInv, NextIInv, PTL DEF Spec, OnlyCurrentDies

-----------------------------------------------------------------------------
(* Pids, while avail_pid does not wrap around.                             *)

PidInv ==
  /\ avail_pid <= MaxPid
  /\ \A t \in Queued : task[t].pid \in 1..avail_pid
  /\ \A t, u \in Queued : task[t].pid = task[u].pid => t = u

LEMMA InitPidInv == Init => PidInv
<1> SUFFICES ASSUME Init
             PROVE  PidInv
  OBVIOUS
<1>1. runQueue = <<idle, sbush>> /\ waitQueue = <<>>
  BY DEF Init
<1>2. \A t \in Queued : t = idle \/ t = sbush
  BY <1>1 DEF Queued, ToSet
<1>3. /\ task[idle].pid = 1 /\ task[sbush].pid = 2 /\ avail_pid = 2
  BY SchedAssumption DEF Init, Zeroed
<1> QED
  BY <1>2, <1>3, SchedAssumption, SMTT(60) DEF PidInv

LEMMA KeepsPidInv ==
  ASSUME IInv, PidInv, Keeps, avail_pid' \in Nat,
         avail_pid' >= avail_pid, avail_pid' <= MaxPid
  PROVE  PidInv'
<1>1. avail_pid \in Nat
  BY DEF IInv, TypeOK
<1> QED
  BY <1>1 DEF PidInv, Keeps

(* ++avail_pid, below the bound, is avail_pid + 1.                         *)
LEMMA NextPidIsNew ==
  ASSUME IInv, avail_pid < MaxPid, MaxPid < PidMod
  PROVE  NextPid = avail_pid + 1 /\ avail_pid \in Nat /\ NextPid <= MaxPid
<1>1. avail_pid \in Nat /\ avail_pid + 1 < PidMod
  BY SchedAssumption DEF IInv, TypeOK
<1> QED
  BY <1>1, SchedAssumption DEF NextPid

LEMMA NextPidInv == MaxPid < PidMod /\ IInv /\ PidInv /\ [Next]_vars => PidInv'
<1> SUFFICES ASSUME MaxPid < PidMod, IInv, PidInv, [Next]_vars
             PROVE  PidInv'
  OBVIOUS
<1>1. avail_pid \in Nat /\ avail_pid <= MaxPid
  BY DEF IInv, TypeOK, PidInv
<1>2. ASSUME Keeps, avail_pid' = avail_pid
      PROVE  PidInv'
  BY <1>1, <1>2, KeepsPidInv, SMTT(60)
<1>3. CASE UNCHANGED vars
  <2>1. Keeps
    BY <1>3 DEF vars, queues, Keeps, Queued
  <2> QED
    BY <1>2, <1>3, <2>1, SMTT(60) DEF vars
<1>4. ASSUME NEW c \in Task, sys_exit(c)
      PROVE  PidInv'
  BY <1>2, <1>4, ExitKeeps, SMTT(60) DEF sys_exit
<1>5. ASSUME NEW c \in Task, sys_execve_OOM(c)
      PROVE  PidInv'
  <2>1. Keeps
    BY <1>5, ExitKeeps DEF sys_execve_OOM
  <2>2. avail_pid' = avail_pid + 1 /\ avail_pid' <= MaxPid
    BY <1>5, NextPidIsNew DEF sys_execve_OOM
  <2> QED
    BY <1>1, <2>1, <2>2, KeepsPidInv, SMTT(60)
<1>6. ASSUME NEW c \in Task, NEW child \in Task, sys_fork(c, child)
      PROVE  PidInv'
  <2>1. avail_pid' = avail_pid + 1 /\ avail_pid' <= MaxPid /\ NextPid = avail_pid + 1
    BY <1>6, NextPidIsNew DEF sys_fork
  <2>2. CASE Queued' = Queued /\ task' = task
    BY <1>1, <2>1, <2>2, KeepsPidInv, SMTT(60) DEF Keeps
  <2>3. CASE /\ Queued' = Queued \cup {child} /\ child \notin Queued
             /\ task'[child].pid = NextPid
             /\ \A t \in Queued : task'[t].pid = task[t].pid
    <3>1. \A t \in Queued : task'[t].pid \in 1..avail_pid
      BY <2>3 DEF PidInv
    <3>2. \A t \in Queued' : task'[t].pid \in 1..avail_pid'
      BY <1>1, <2>1, <2>3, <3>1, SMTT(60)
    <3>3. task'[child].pid \notin 1..avail_pid
      BY <1>1, <2>1, <2>3, SMTT(60)
    <3>4. \A t, u \in Queued' : task'[t].pid = task'[u].pid => t = u
      BY <2>3, <3>1, <3>3, SMTT(60) DEF PidInv
    <3> QED
      BY <2>1, <3>2, <3>4, SMTT(60) DEF PidInv
  <2> QED
    BY <1>6, <2>2, <2>3, ForkPids, SMTT(60)
<1>7. ASSUME NEW c \in Task, NEW new \in Task, sys_execve(c, new)
      PROVE  PidInv'
  <2>1. avail_pid' = avail_pid
    BY <1>7 DEF sys_execve
  <2>2. CASE Keeps
    BY <1>2, <2>1, <2>2, SMTT(60)
  <2>3. CASE /\ Queued' = (Queued \cup {new}) \ {c} /\ new \notin Queued /\ c \in Queued
             /\ task'[new].pid = task[c].pid
             /\ \A t \in Queued \ {c} : task'[t].pid = task[t].pid
    BY <2>1, <2>3, SMTT(60) DEF PidInv
  <2> QED
    BY <1>7, <2>2, <2>3, ExecvePids, SMTT(60)
<1>8. ASSUME NEW c \in Task, (\E s \in SleepArgs : sys_sleep(c, s)) \/
                             (\E p \in 0..MaxPid : sys_waitpid(c, p))
      PROVE  PidInv'
  BY <1>2, <1>8, BlockKeeps, SMTT(60) DEF sys_sleep, sys_waitpid
<1>9. ASSUME Interrupt \/ \E c \in Task : scank(c)
      PROVE  PidInv'
  <2>1. avail_pid' = avail_pid
    BY <1>9 DEF Interrupt, scank, kb_enter, call_timer, awake_step, awake_end,
                awake_stray, ScheduleUnlessScanning
  <2> QED
    BY <1>2, <1>9, <2>1, InterruptKeeps, ZenonT(60)
<1> QED
  BY <1>3, <1>4, <1>5, <1>6, <1>7, <1>8, <1>9, SMTT(60) DEF Next, Syscall

(* As long as the 16-bit avail_pid has not wrapped around, no two queued   *)
(* tasks share a pid, through any sequence of fork, execve and exit.       *)
THEOREM PidsUniqueCorrect == Spec => []PidsUnique
<1>1. CASE MaxPid < PidMod
  <2>1. PidInv => PidsUnique
    BY DEF PidInv, PidsUnique
  <2>2. IInv /\ PidInv /\ [Next]_vars => IInv' /\ PidInv'
    BY <1>1, NextIInv, NextPidInv, SMTT(60)
  <2> QED
    BY <2>1, <2>2, InitIInv, InitPidInv, PTL DEF Spec
<1>2. CASE ~(MaxPid < PidMod)
  <2>1. PidsUnique
    BY <1>2, SMTT(60) DEF PidsUnique
  <2> QED
    BY <2>1, PTL
<1> QED
  BY <1>1, <1>2

-----------------------------------------------------------------------------
(* Parents and children.                                                   *)

(* A step after which whoever waited still waits for the same, or runs.    *)
LEMMA WaitersKept ==
  ASSUME IInv, Queued \subseteq Queued',
         \A x \in Queued : /\ task'[x].pid = task[x].pid
                           /\ task'[x].ppid = task[x].ppid,
         \A x \in ToSet(waitQueue) : x \in ToSet(waitQueue') =>
                                       task'[x].wait_pid = task[x].wait_pid
  PROVE  \A t, u \in Task : Awaits(t, u) => StillServed(t)'
<1> TAKE t, u \in Task
<1> HAVE Awaits(t, u)
<1>1. t \in ToSet(waitQueue) /\ t \in Queued /\ u \in Queued
  BY DEF Awaits, Queued
<1>2. CASE t \in ToSet(runQueue')
  BY <1>2, SMTT(60) DEF StillServed
<1>3. CASE t \in ToSet(waitQueue')
  <2>1. Awaits(t, u)'
    BY <1>1, <1>3, SMTT(60) DEF Awaits
  <2> QED
    BY <2>1, SMTT(60) DEF StillServed
<1> QED
  BY <1>1, <1>2, <1>3, SMTT(60) DEF Queued

(* awakepid(p) finds a waiting task with pid p when there is one.          *)
LEMMA WaiterFound ==
  ASSUME IInv, PidInv, NEW t \in ToSet(waitQueue)
  PROVE  /\ Waiter(task[t].pid) # 0
         /\ waitQueue[Waiter(task[t].pid)] = t
<1> DEFINE p == task[t].pid
           I == {i \in 1..Len(waitQueue) : task[waitQueue[i]].pid = p}
<1>1. TypeOK /\ waitQueue \in Queue(Task)
  BY DEF IInv, Pair
<1>2. I \subseteq Nat /\ I # {}
  BY <1>1, QueueEntries, SMTT(60)
<1>3. Waiter(p) = Min(I)
  BY <1>2 DEF Waiter, SelectInSeq
<1>4. Min(I) \in I
  <2> HIDE DEF I
  <2> QED
    BY <1>2, MinOfNats, ZenonT(60)
<1>5. Waiter(p) \in 1..Len(waitQueue) /\ task[waitQueue[Waiter(p)]].pid = p
  BY <1>3, <1>4, ZenonT(60)
<1> HIDE DEF p, I
<1>6. waitQueue[Waiter(p)] \in Queued /\ t \in Queued /\ Len(waitQueue) \in Nat
  BY <1>1, <1>5, QueueEntries, SMTT(60) DEF Queued
<1>7. waitQueue[Waiter(p)] = t
  BY <1>5, <1>6 DEF PidInv, p
<1> QED
  BY <1>5, <1>6, <1>7, SMTT(60) DEF p

(* Nobody has pid 0: the awakepid(0) of an execve wakes nobody.            *)
LEMMA NobodyIsZero ==
  ASSUME IInv, PidInv
  PROVE  Waiter(0) = 0
<1>1. TypeOK /\ waitQueue \in Queue(Task) /\ avail_pid \in Nat
  BY DEF IInv, Pair, TypeOK
<1>2. ASSUME Waiter(0) # 0
      PROVE  FALSE
  <2>1. /\ Waiter(0) \in 1..Len(waitQueue)
        /\ task[waitQueue[Waiter(0)]].pid = 0
    BY <1>1, <1>2, WaiterPlace, SMTT(60)
  <2>2. waitQueue[Waiter(0)] \in Queued
    BY <1>1, <2>1, QueueEntries, ZenonT(60) DEF Queued
  <2> QED
    BY <1>1, <2>1, <2>2, SMTT(60) DEF PidInv
<1> QED
  BY <1>2

(* The woken task is no longer on the wait queue, and only its waitpid()   *)
(* is over.                                                                *)
LEMMA WakeWaits ==
  ASSUME TypeOK, waitQueue \in Queue(Task), NEW p, NEW f \in [Task -> TaskStruct]
  PROVE  /\ ToSet(awakepid_wait(p)) \subseteq ToSet(waitQueue)
         /\ \A x \in ToSet(awakepid_wait(p)) :
              awakepid_task(p, f)[x].wait_pid = f[x].wait_pid
<1>1. CASE Waiter(p) = 0
  BY <1>1 DEF awakepid_wait, awakepid_task
<1>2. CASE Waiter(p) # 0
  <2> DEFINE i == Waiter(p)
             w == waitQueue[i]
  <2>1. i \in 1..Len(waitQueue)
    BY <1>2, WaiterPlace
  <2>2. /\ awakepid_wait(p) = RemoveAt(waitQueue, i)
        /\ awakepid_task(p, f) = [f EXCEPT ![w].wait_pid = 0]
    BY <1>2 DEF awakepid_wait, awakepid_task
  <2> HIDE DEF i
  <2>3. ToSet(RemoveAt(waitQueue, i)) = ToSet(waitQueue) \ {w}
    BY <2>1, RemoveAtQueue, SMTT(60)
  <2>4. \A x \in ToSet(waitQueue) : x \in Task
    BY QueueEntries
  <2> HIDE DEF w
  <2> QED
    BY <2>2, <2>3, <2>4, SMTT(60)
<1> QED
  BY <1>1, <1>2, SMTT(60)

(* The child's exit: its parent, if it waits, is made runnable.            *)
LEMMA ExitServes ==
  ASSUME IInv, PidInv, NEW c \in Task, UserMode(c),
         ExitFrom(runQueue, task[c].ppid),
         task' = [awakepid_task(task[c].ppid, task) EXCEPT ![c] = Zeroed]
  PROVE  \A t, u \in Task : Awaits(t, u) => StillServed(t)'
<1> TAKE t, u \in Task
<1> HAVE Awaits(t, u)
<1> DEFINE p == task[c].ppid
           f == awakepid_task(p, task)
<1>1. /\ TypeOK /\ Pair(runQueue, waitQueue) /\ task \in [Task -> TaskStruct]
      /\ waitQueue \in Queue(Task) /\ runQueue \in Queue(Task)
      /\ runQueue # <<>> /\ c = Last(runQueue) /\ c \in ToSet(runQueue)
      /\ ToSet(runQueue) \cap ToSet(waitQueue) = {}
  BY UserFacts, ZenonT(60) DEF IInv, TypeOK
<1>2. t \in ToSet(waitQueue) /\ t # c /\ u \in Queued /\ t \in Queued
  BY <1>1, SMTT(60) DEF Awaits, Queued
<1>3. Queued \ {c} \subseteq Queued'
  BY ExitKeeps
<1>4. CASE u = c
  <2>1. task[c].ppid = task[t].pid
    BY <1>4, SMTT(60) DEF Awaits
  <2>2. Waiter(p) # 0 /\ waitQueue[Waiter(p)] = t
    BY <1>2, <2>1, WaiterFound, SMTT(60)
  <2>3. awakepid_run(p, runQueue) = Cons(t, runQueue)
    BY <2>2 DEF awakepid_run
  <2>4. /\ Cons(t, runQueue) \in Queue(Task)
        /\ ToSet(Cons(t, runQueue)) = ToSet(runQueue) \cup {t}
        /\ Len(Cons(t, runQueue)) = Len(runQueue) + 1
        /\ Last(Cons(t, runQueue)) = c
    BY <1>1, <1>2, ConsQueue, SMTT(60)
  <2>5. Cons(t, runQueue) # <<>>
    BY <1>1, <2>4, QueueEntries, SMTT(60)
  <2>6. ToSet(runQueue') = ToSet(Cons(t, runQueue)) \ {c}
    BY <2>3, <2>4, <2>5, DropLast, SMTT(60) DEF ExitFrom
  <2>7. t \in ToSet(runQueue')
    BY <1>2, <2>4, <2>6, SMTT(60)
  <2> QED
    BY <2>7, SMTT(60) DEF StillServed
<1>5. CASE u # c
  <2>1. /\ f \in [Task -> TaskStruct]
        /\ \A x \in Task : f[x].pid = task[x].pid /\ f[x].ppid = task[x].ppid
        /\ \A x \in ToSet(awakepid_wait(p)) : f[x].wait_pid = task[x].wait_pid
    BY <1>1, WakeTask, WakeWaits, SMTT(60)
  <2>2. waitQueue' = awakepid_wait(p) /\ task' = [f EXCEPT ![c] = Zeroed]
    BY SMTT(60) DEF ExitFrom
  <2> HIDE DEF f, p
  <2>3. task'[t] = f[t] /\ task'[u] = f[u]
    BY <1>2, <1>5, <2>1, <2>2, SMTT(60)
  <2>4. t \in Queued' /\ u \in Queued'
    BY <1>2, <1>3, <1>5, SMTT(60)
  <2>5. CASE t \in ToSet(runQueue')
    BY <2>5 DEF StillServed
  <2>6. CASE t \in ToSet(waitQueue')
    <3>1. task'[t].wait_pid = task[t].wait_pid
      BY <2>1, <2>2, <2>3, <2>6, ZenonT(60)
    <3>2. Awaits(t, u)'
      BY <2>1, <2>3, <2>4, <2>6, <3>1, SMTT(60) DEF Awaits
    <3> QED
      BY <3>2, SMTT(60) DEF StillServed
  <2> QED
    BY <2>4, <2>5, <2>6, ZenonT(60) DEF Queued
<1> QED
  BY <1>4, <1>5

(* execve with room on the queue: the program takes over pid and ppid.     *)
LEMMA ExecveServes ==
  ASSUME IInv, PidInv, NEW c \in Task, NEW new \in Task, sys_execve(c, new), ~Full
  PROVE  \A t, u \in Task : Awaits(t, u) => StillServed(t)'
<1> TAKE t, u \in Task
<1> HAVE Awaits(t, u)
<1> DEFINE q == Cons(new, runQueue)
           rec == [Zeroed EXCEPT !.pid = task[c].pid, !.ppid = task[c].ppid]
<1>1. /\ UserMode(c) /\ new \notin Queued /\ task \in [Task -> TaskStruct]
      /\ c = Last(runQueue) /\ c \in ToSet(runQueue) /\ runQueue # <<>>
      /\ ToSet(runQueue) \cap ToSet(waitQueue) = {} /\ Waiter(0) = 0
      /\ runQueue \in Queue(Task)
  BY UserFacts, NobodyIsZero DEF IInv, TypeOK, sys_execve, Fresh
<1>2. /\ runQueue' = schedule(Front(q)) /\ waitQueue' = waitQueue
      /\ task' = [task EXCEPT ![c] = Zeroed, ![new] = rec]
  BY <1>1 DEF sys_execve, ExitFrom, awakepid_run, awakepid_wait, awakepid_task
<1>3. rec.pid = task[c].pid /\ rec.ppid = task[c].ppid
  BY DEF Zeroed
<1> HIDE DEF rec
<1>4. /\ q \in Queue(Task) /\ ToSet(q) = ToSet(runQueue) \cup {new} /\ Last(q) = c
      /\ Len(q) = Len(runQueue) + 1
  BY <1>1, ConsQueue, SMTT(60) DEF Queued
<1>5. q # <<>>
  BY <1>1, <1>4, QueueEntries, SMTT(60)
<1> HIDE DEF q
<1>6. ToSet(runQueue') = ToSet(q) \ {c}
  BY <1>2, <1>4, <1>5, DropLast, ZenonT(60)
<1>7. t \in ToSet(waitQueue) /\ u \in Queued /\ t # c /\ t # new /\ u # new
  BY <1>1 DEF Awaits, Queued
<1>8. new # c
  BY <1>1 DEF Queued
<1>9. CASE u = c
  <2>1. /\ task'[t] = task[t] /\ task'[new] = rec
        /\ new \in Queued' /\ t \in ToSet(waitQueue')
    BY <1>1, <1>2, <1>4, <1>6, <1>7, <1>8, SMTT(60) DEF Queued
  <2>2. Awaits(t, new)'
    BY <1>3, <1>9, <2>1, SMTT(60) DEF Awaits
  <2> QED
    BY <2>2 DEF StillServed
<1>10. CASE u # c
  <2>1. /\ task'[t] = task[t] /\ task'[u] = task[u]
        /\ u \in Queued' /\ t \in ToSet(waitQueue')
    BY <1>1, <1>2, <1>4, <1>6, <1>7, <1>10, SMTT(60) DEF Queued
  <2>2. Awaits(t, u)'
    BY <2>1, SMTT(60) DEF Awaits
  <2> QED
    BY <2>2, SMTT(60) DEF StillServed
<1> QED
  BY <1>9, <1>10

LEMMA ForkServes ==
  ASSUME IInv, NEW c \in Task, NEW child \in Task, sys_fork(c, child)
  PROVE  \A t, u \in Task : Awaits(t, u) => StillServed(t)'
<1>1. /\ task \in [Task -> TaskStruct] /\ child \notin Queued /\ Queued \subseteq Task
      /\ waitQueue' = waitQueue
  BY QueuedTasks DEF IInv, TypeOK, sys_fork, Fresh
<1>2. Queued \subseteq Queued'
  BY ForkPids
<1>3. \A x \in Queued : task'[x] = task[x]
  BY <1>1 DEF sys_fork
<1>4. ToSet(waitQueue) \subseteq Queued
  BY DEF Queued
<1> QED
  BY <1>2, <1>3, <1>4, WaitersKept, SMTT(60)

(* Only the caller's task_struct changes, and it was not waiting.          *)
LEMMA BlockServes ==
  ASSUME IInv, NEW c \in Task, (\E s \in SleepArgs : sys_sleep(c, s)) \/
                               (\E p \in 0..MaxPid : sys_waitpid(c, p))
  PROVE  \A t, u \in Task : Awaits(t, u) => StillServed(t)'
<1>1. UserMode(c) /\ task \in [Task -> TaskStruct] /\ Queued \subseteq Task
  BY QueuedTasks DEF IInv, TypeOK, sys_sleep, sys_waitpid
<1>2. c \notin ToSet(waitQueue)
  BY <1>1, UserFacts, SMTT(60)
<1>3. Queued \subseteq Queued'
  BY BlockKeeps, SMTT(60)
<1>4. /\ \A x \in Task : task'[x].pid = task[x].pid /\ task'[x].ppid = task[x].ppid
      /\ \A x \in Task : x # c => task'[x] = task[x]
  <2>1. ASSUME NEW s \in SleepArgs, sys_sleep(c, s)
        PROVE  <1>4!:
    BY <1>1, <2>1, ZenonT(60) DEF sys_sleep, TaskStruct
  <2>2. ASSUME NEW p \in 0..MaxPid, sys_waitpid(c, p)
        PROVE  <1>4!:
    <3>1. task' = task \/ \E k \in {0, p} : task' = [task EXCEPT ![c].wait_pid = k]
      BY <2>2 DEF sys_waitpid
    <3> QED
      BY <1>1, <3>1, SMTT(60) DEF TaskStruct
  <2> QED
    BY <2>1, <2>2
<1>5. ToSet(waitQueue) \subseteq Queued
  BY DEF Queued
<1> QED
  BY <1>1, <1>2, <1>3, <1>4, <1>5, WaitersKept, SMTT(60)

(* The timer's awake() and schedule(), and the keyboard.                   *)
LEMMA InterruptServes ==
  ASSUME IInv, Interrupt \/ \E c \in Task : scank(c), ~Strayed
  PROVE  \A t, u \in Task : Awaits(t, u) => StillServed(t)'
<1>1. /\ task \in [Task -> TaskStruct] /\ Queued \subseteq Task
      /\ waitQueue \in Queue(Task)
  BY QueuedTasks DEF IInv, TypeOK, Pair
<1>2. Queued \subseteq Queued'
  BY InterruptKeeps, SMTT(60)
<1>3. CASE task' = task
  BY <1>2, <1>3, WaitersKept, SMTT(60)
<1>4. CASE awake_step
  <2>1. cursor \in Task /\ cursor \in ToSet(waitQueue)
    BY <1>4, SMTT(60) DEF awake_step, IInv, CursorQueued, Strayed, Queued
  <2>2. /\ \A x \in Task : task'[x].pid = task[x].pid /\ task'[x].ppid = task[x].ppid
        /\ \A x \in Task : x # cursor => task'[x] = task[x]
        /\ ~Expires(cursor) => task'[cursor].wait_pid = task[cursor].wait_pid
    <3>1. CASE Expires(cursor)
      BY <1>1, <1>4, <2>1, <3>1, SMTT(60) DEF awake_step, TaskStruct
    <3>2. CASE ~Expires(cursor)
      BY <1>1, <1>4, <2>1, <3>2, SMTT(60) DEF awake_step, TaskStruct
    <3> QED
      BY <3>1, <3>2, SMTT(60)
  <2>3. Expires(cursor) => cursor \notin ToSet(waitQueue')
    BY <1>1, <1>4, <2>1, RemoveFirstQueue, SMTT(60) DEF awake_step, MoveToRun
  <2>4. ToSet(waitQueue) \subseteq Queued
    BY DEF Queued
  <2> QED
    BY <1>1, <1>2, <2>2, <2>3, <2>4, WaitersKept, ZenonT(60)
<1>5. task' = task \/ awake_step
  BY DEF Interrupt, scank, kb_enter, call_timer, awake_end, awake_stray,
         ScheduleUnlessScanning
<1> QED
  BY <1>3, <1>4, <1>5, ZenonT(60)

(* The exit of a child reaches the parent that waits for it, through any   *)
(* interleaving of fork, execve, sleep, waitpid, exit and the timer.       *)
THEOREM NoLostWakeupCorrect == Spec => NoLostWakeup
<1> DEFINE Quiet == /\ MaxPid < PidMod
                    /\ ~Strayed
                    /\ Full => \A c, n \in Task : ~sys_execve(c, n)
           Serves == \A t, u \in Task : Awaits(t, u) => StillServed(t)'
<1>1. ASSUME MaxPid < PidMod, IInv, PidInv, [Next]_vars
      PROVE  [Quiet => Serves]_vars
  <2> SUFFICES ASSUME Next, Quiet
               PROVE  Serves
    BY <1>1, SMTT(60)
  <2>1. ASSUME NEW c \in Task, sys_exit(c) \/ sys_execve_OOM(c)
        PROVE  Serves
    BY <1>1, <2>1, ExitServes, SMTT(60) DEF sys_exit, sys_execve_OOM
  <2>2. ASSUME NEW c \in Task, NEW t \in Task, sys_fork(c, t)
        PROVE  Serves
    BY <1>1, <2>2, ForkServes, SMTT(60)
  <2>3. ASSUME NEW c \in Task, NEW t \in Task, sys_execve(c, t)
        PROVE  Serves
    BY <1>1, <2>3, ExecveServes, SMTT(60)
  <2>4. ASSUME NEW c \in Task, (\E s \in SleepArgs : sys_sleep(c, s)) \/
                               (\E p \in 0..MaxPid : sys_waitpid(c, p))
        PROVE  Serves
    BY <1>1, <2>4, BlockServes, SMTT(60)
  <2>5. ASSUME Interrupt \/ \E c \in Task : scank(c)
        PROVE  Serves
    BY <1>1, <2>5, InterruptServes, SMTT(60)
  <2> HIDE DEF Serves, Quiet
  <2> QED
    BY <2>1, <2>2, <2>3, <2>4, <2>5, ZenonT(60) DEF Next, Syscall
<1>2. CASE MaxPid < PidMod
  <2>1. IInv /\ PidInv /\ [Next]_vars => IInv' /\ PidInv'
    BY <1>2, NextIInv, NextPidInv
  <2>2. IInv /\ PidInv /\ [Next]_vars => [Quiet => Serves]_vars
    BY <1>1, <1>2, SMTT(60)
  <2> QED
    BY <2>1, <2>2, InitIInv, InitPidInv, PTL DEF Spec, NoLostWakeup
<1>3. CASE ~(MaxPid < PidMod)
  <2>1. [Quiet => Serves]_vars
    BY <1>3, SMTT(60)
  <2> QED
    BY <2>1, PTL DEF NoLostWakeup
<1> QED
  BY <1>2, <1>3, SMTT(60)

-----------------------------------------------------------------------------
(* Who is woken.                                                           *)

(* A step that makes nobody runnable who was waiting.                      *)
WakesNobody == ToSet(runQueue') \cap ToSet(waitQueue) = {}

Reasons == \A t \in ToSet(waitQueue) : t \in ToSet(runQueue') => HasReason(t)

LEMMA ExitReasons ==
  ASSUME IInv, NEW c \in Task, UserMode(c),
         ExitFrom(runQueue, task[c].ppid),
         task' = [awakepid_task(task[c].ppid, task) EXCEPT ![c] = Zeroed]
  PROVE  Reasons
<1> SUFFICES ASSUME NEW t \in ToSet(waitQueue), t \in ToSet(runQueue')
             PROVE  HasReason(t)
  BY DEF Reasons
<1> DEFINE p == task[c].ppid
           i == Waiter(p)
<1>1. /\ TypeOK /\ Pair(runQueue, waitQueue) /\ runQueue # <<>> /\ c = Last(runQueue)
      /\ waitQueue \in Queue(Task) /\ runQueue \in Queue(Task)
      /\ ToSet(runQueue) \cap ToSet(waitQueue) = {}
  BY UserFacts DEF IInv
<1>2. getCurrentTask = c /\ c \notin Queued'
  <2>1. ToSet(runQueue') \cup ToSet(waitQueue') = (ToSet(runQueue) \cup ToSet(waitQueue)) \ {c}
    BY <1>1, ExitFacts, SMTT(60)
  <2> QED
    BY <1>1, <2>1, ZenonT(60) DEF getCurrentTask, Queued
<1>3. runQueue' = schedule(Front(awakepid_run(p, runQueue)))
  BY DEF ExitFrom
<1>4. CASE i = 0
  <2>1. runQueue' = schedule(Front(runQueue))
    BY <1>3, <1>4, ZenonT(60) DEF awakepid_run
  <2>2. ToSet(runQueue') \subseteq ToSet(runQueue)
    BY <1>1, <2>1, DropLast, ZenonT(60)
  <2> QED
    BY <1>1, <2>2, SMTT(60)
<1>5. CASE i # 0
  <2> DEFINE w == waitQueue[i]
  <2>1. i \in 1..Len(waitQueue) /\ task[w].pid = p
    BY <1>1, <1>5, WaiterPlace, ZenonT(60)
  <2>2. w \in Task /\ w \in ToSet(waitQueue)
    BY <1>1, <2>1, QueueEntries, SMTT(60)
  <2>3. runQueue' = schedule(Front(Cons(w, runQueue)))
    BY <1>3, <1>5, ZenonT(60) DEF awakepid_run
  <2> HIDE DEF w, i
  <2>4. /\ Cons(w, runQueue) \in Queue(Task)
        /\ ToSet(Cons(w, runQueue)) = ToSet(runQueue) \cup {w}
        /\ Len(Cons(w, runQueue)) = Len(runQueue) + 1
    BY <1>1, <2>2, ConsQueue, SMTT(60)
  <2>5. Cons(w, runQueue) # <<>>
    BY <1>1, <2>4, QueueEntries, ZenonT(60)
  <2>6. ToSet(runQueue') \subseteq ToSet(runQueue) \cup {w}
    BY <2>3, <2>4, <2>5, DropLast, ZenonT(60)
  <2>7. t = w
    BY <1>1, <2>6, SMTT(60)
  <2> QED
    BY <1>2, <2>1, <2>7, ZenonT(60) DEF HasReason
<1> QED
  BY <1>4, <1>5, SMTT(60)

(* execve wakes nobody: no task has pid 0.                                 *)
LEMMA ExecveWakesNobody ==
  ASSUME IInv, PidInv, NEW c \in Task, NEW new \in Task, sys_execve(c, new)
  PROVE  WakesNobody
<1>1. /\ new \notin ToSet(runQueue) /\ new \notin ToSet(waitQueue)
      /\ runQueue # <<>> /\ runQueue \in Queue(Task)
      /\ ToSet(runQueue) \cap ToSet(waitQueue) = {} /\ Waiter(0) = 0
  BY UserFacts, NobodyIsZero, SMTT(60) DEF sys_execve, Fresh, Queued
<1>2. CASE Full
  <2>1. runQueue' = schedule(Front(runQueue))
    BY <1>1, <1>2, SMTT(60) DEF sys_execve, ExitFrom, awakepid_run
  <2>2. ToSet(runQueue') \subseteq ToSet(runQueue)
    BY <1>1, <2>1, DropLast, SMTT(60)
  <2> QED
    BY <1>1, <2>2, SMTT(60) DEF WakesNobody
<1>3. CASE ~Full
  <2>1. runQueue' = schedule(Front(Cons(new, runQueue)))
    BY <1>1, <1>3, SMTT(60) DEF sys_execve, ExitFrom, awakepid_run
  <2>2. /\ Cons(new, runQueue) \in Queue(Task)
        /\ ToSet(Cons(new, runQueue)) = ToSet(runQueue) \cup {new}
        /\ Len(Cons(new, runQueue)) = Len(runQueue) + 1
    BY <1>1, ConsQueue, SMTT(60)
  <2>3. Cons(new, runQueue) # <<>>
    BY <1>1, <2>2, QueueEntries, SMTT(60)
  <2>4. ToSet(runQueue') \subseteq ToSet(runQueue) \cup {new}
    BY <2>1, <2>2, <2>3, DropLast, ZenonT(60)
  <2> QED
    BY <1>1, <2>4, SMTT(60) DEF WakesNobody
<1> QED
  BY <1>2, <1>3, SMTT(60)

LEMMA OthersWakeNobody ==
  ASSUME IInv, NEW c \in Task,
         \/ \E t \in Task : sys_fork(c, t)
         \/ \E s \in SleepArgs : sys_sleep(c, s)
         \/ \E p \in 0..MaxPid : sys_waitpid(c, p)
         \/ scank(c)
  PROVE  WakesNobody
<1>1. /\ UserMode(c) /\ runQueue # <<>> /\ runQueue \in Queue(Task)
      /\ ToSet(runQueue) \cap ToSet(waitQueue) = {}
  BY UserFacts DEF sys_fork, sys_sleep, sys_waitpid, scank
<1>2. CASE runQueue' = runQueue
  BY <1>1, <1>2, SMTT(60) DEF WakesNobody
<1>3. CASE BlockCurrent(c)
  <2>1. ToSet(runQueue') \subseteq ToSet(runQueue)
    BY <1>1, <1>3, DropLast, SMTT(60) DEF BlockCurrent
  <2> QED
    BY <1>1, <2>1, SMTT(60) DEF WakesNobody
<1>4. ASSUME NEW t \in Task, Fresh(t), runQueue' = Cons(t, runQueue)
      PROVE  WakesNobody
  <2>1. t \notin ToSet(runQueue) /\ t \notin ToSet(waitQueue)
    BY <1>4, SMTT(60) DEF Fresh, Queued
  <2>2. ToSet(runQueue') = ToSet(runQueue) \cup {t}
    BY <1>1, <1>4, <2>1, ConsQueue, SMTT(60)
  <2> QED
    BY <1>1, <2>1, <2>2, SMTT(60) DEF WakesNobody
<1> QED
  BY <1>2, <1>3, <1>4, SMTT(60) DEF sys_fork, sys_sleep, sys_waitpid, scank, queues

LEMMA InterruptReasons ==
  ASSUME IInv, Interrupt
  PROVE  Reasons
<1>1. /\ runQueue \in Queue(Task) /\ waitQueue \in Queue(Task)
      /\ ToSet(runQueue) \cap ToSet(waitQueue) = {} /\ task \in [Task -> TaskStruct]
  BY DEF IInv, Pair, TypeOK
<1>2. CASE ToSet(runQueue') \subseteq ToSet(runQueue)
  BY <1>1, <1>2, SMTT(60) DEF Reasons
<1>3. ASSUME ScheduleUnlessScanning
      PROVE  ToSet(runQueue') \subseteq ToSet(runQueue)
  BY <1>1, <1>3, ScheduleFacts, SMTT(60) DEF ScheduleUnlessScanning
<1>4. CASE kb_enter \/ call_timer \/ awake_end \/ awake_stray
  <2>1. runQueue' = runQueue \/ runQueue' = <<>> \/ ScheduleUnlessScanning
    BY <1>4 DEF kb_enter, call_timer, awake_end, awake_stray, queues
  <2>2. ToSet(<<>>) = {}
    BY DEF ToSet
  <2> QED
    BY <1>2, <1>3, <2>1, <2>2, ZenonT(60)
<1>5. CASE awake_step
  <2>1. cursor \in Task /\ cursor \in Queued
    BY <1>5 DEF awake_step, IInv, CursorQueued
  <2>2. CASE ~Expires(cursor)
    BY <1>2, <1>5, <2>2, ZenonT(60) DEF awake_step, queues
  <2>3. CASE Expires(cursor) /\ cursor \in ToSet(waitQueue)
    <3>1. ToSet(runQueue') = ToSet(runQueue) \cup {cursor}
      BY <1>1, <1>5, <2>1, <2>3, ConsQueue, SMTT(60) DEF awake_step, MoveToRun
    <3>2. task[cursor].is_sleep /\ task[cursor].sleep_time <= 1
      <4>1. task[cursor].sleep_time \in Int
        BY <1>1, <2>1, SMTT(60) DEF TaskStruct
      <4> QED
        BY <2>3, <4>1, SMTT(60) DEF Expires
    <3> QED
      BY <1>1, <3>1, <3>2, SMTT(60) DEF Reasons, HasReason
  <2>4. CASE Expires(cursor) /\ cursor \notin ToSet(waitQueue)
    <3> DEFINE r == RemoveFirst(runQueue, cursor)
    <3>1. runQueue' = Cons(cursor, r)
      BY <1>5, <2>4, SMTT(60) DEF awake_step, MoveToRun
    <3>2. r \in Queue(Task) /\ ToSet(r) = ToSet(runQueue) \ {cursor} /\ cursor \in ToSet(runQueue)
      BY <1>1, <2>1, <2>4, RemoveFirstQueue, ZenonT(60) DEF Queued
    <3> HIDE DEF r
    <3>3. cursor \notin ToSet(r)
      BY <3>2, SMTT(60)
    <3>4. ToSet(runQueue') = ToSet(r) \cup {cursor}
      BY <2>1, <3>1, <3>2, <3>3, ConsQueue, SMTT(60)
    <3> QED
      BY <1>2, <3>2, <3>4, SMTT(60)
  <2> QED
    BY <2>2, <2>3, <2>4, SMTT(60)
<1> QED
  BY <1>4, <1>5, SMTT(60) DEF Interrupt

(* waitpid() and sleep() end only for a reason: an own child that exits,   *)
(* or a sleep that is over.                                                *)
THEOREM WokenForReasonCorrect == Spec => WokenForReason
<1> DEFINE A == MaxPid < PidMod =>
                  \A t \in ToSet(waitQueue) : t \in ToSet(runQueue)' => HasReason(t)
<1>1. ASSUME MaxPid < PidMod, IInv, PidInv, [Next]_vars
      PROVE  [A]_vars
  <2>1. WakesNobody => Reasons
    BY DEF WakesNobody, Reasons
  <2>2. Next => Reasons
    <3>1. ASSUME NEW c \in Task, sys_exit(c) \/ sys_execve_OOM(c)
          PROVE  Reasons
      BY <1>1, <3>1, ExitReasons, ZenonT(60) DEF sys_exit, sys_execve_OOM
    <3>2. ASSUME NEW c \in Task, NEW n \in Task, sys_execve(c, n)
          PROVE  Reasons
      BY <1>1, <2>1, <3>2, ExecveWakesNobody, ZenonT(60)
    <3>3. ASSUME NEW c \in Task, \/ \E t \in Task : sys_fork(c, t)
                                 \/ \E s \in SleepArgs : sys_sleep(c, s)
                                 \/ \E p \in 0..MaxPid : sys_waitpid(c, p)
                                 \/ scank(c)
          PROVE  Reasons
      BY <1>1, <2>1, <3>3, OthersWakeNobody, ZenonT(60)
    <3> QED
      BY <1>1, <3>1, <3>2, <3>3, InterruptReasons, SMTT(60) DEF Next, Syscall
  <2>3. Reasons => A
    BY DEF Reasons
  <2> QED
    BY <1>1, <2>2, <2>3, SMTT(60)
<1>2. CASE MaxPid < PidMod
  <2>1. IInv /\ PidInv /\ [Next]_vars => IInv' /\ PidInv'
    BY <1>2, NextIInv, NextPidInv
  <2>2. IInv /\ PidInv /\ [Next]_vars => [A]_vars
    BY <1>1, <1>2, SMTT(60)
  <2> QED
    BY <2>1, <2>2, InitIInv, InitPidInv, PTL DEF Spec, WokenForReason
<1>3. CASE ~(MaxPid < PidMod)
  <2>1. [A]_vars
    BY <1>3
  <2> QED
    BY <2>1, PTL DEF WokenForReason
<1> QED
  BY <1>2, <1>3
=============================================================================
