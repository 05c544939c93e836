------------------------------ MODULE Context ------------------------------
(***************************************************************************)
(* Saving and restoring a task's registers: the interrupt and system call  *)
(* entries of sys/irq.s and sys/macro.s, the context switch sys_yield() of *)
(* sys/sched.c, and the kernel stacks that sys_fork() and create_process() *)
(* build by hand.                                                          *)
(*                                                                         *)
(* sys_yield() never saves a stack pointer: a task always resumes from the *)
(* same place of its kernel stack, &kstack[STACK_OFFSET], where kernel_rsp *)
(* has pointed since its creation.  Slot k here is kstack[STACK_OFFSET+k]; *)
(* slots 0..N-1 are the registers sys_yield() pops, and slot N stands for  *)
(* the five words of the frame that iretq pops ("pc").                     *)
(* Which task runs next is left open here; it is the subject of Sched.     *)
(***************************************************************************)
EXTENDS Integers, Sequences, Functions

CONSTANTS
  Task, first,    \* the tasks, and the one that runs first
  GPR,            \* the general registers in the order they are pushed
  Val,            \* register contents
  Results,        \* results of system calls
  ReturnAddr,     \* the address that "call syscall_handler" pushes
  Entry,          \* an ELF entry point
  UserState       \* the register contents user code computes

N == Len(GPR)

Registers == Range(GPR) \cup {"pc"}

ASSUME ContextAssumption ==
  /\ first \in Task
  /\ GPR \in Seq(STRING) /\ N >= 2
  /\ GPR[1] = "rax" /\ GPR[2] = "rbx" /\ "pc" \notin Range(GPR)
  /\ \A i, j \in 1..N : GPR[i] = GPR[j] => i = j
  /\ Results \subseteq Val /\ {0, ReturnAddr, Entry} \subseteq Val
  /\ UserState \subseteq [Registers -> Val]

VARIABLES
  cur,      \* the running task
  alive,    \* the tasks that exist
  u,        \* the running task's registers, as user code left or finds them
  inread,   \* it is inside sys_read(), which runs with interrupts on
  kstack,   \* the top of every task's kernel stack
  due,      \* history: the registers a task must find when it runs again
  left      \* history: how it left the CPU

vars == <<cur, alive, u, inread, kstack, due, left>>

-----------------------------------------------------------------------------
(* Mutant: handler_irq0 pushes the registers the way handler_idt128 does.  *)
push_registers_as_syscall(s) ==
  [k \in 0..N |-> IF k = N THEN s["pc"]
                  ELSE IF k = 0 THEN ReturnAddr ELSE s[GPR[N - k + 1]]]

(* An interrupt in user mode: the iretq frame, then all registers.         *)
push_registers(s) == [k \in 0..N |-> IF k = N THEN s["pc"] ELSE s[GPR[N - k]]]

(* Mutant: handler_idt128 pushes the registers in the other order.         *)
handler_idt128_reversed(s) ==
  [k \in 0..N |-> IF k = N THEN s["pc"]
                  ELSE IF k = 0 THEN ReturnAddr ELSE s[GPR[k + 1]]]

(* int $128: the iretq frame, all registers but rax, the return address.   *)
handler_idt128(s) ==
  [k \in 0..N |-> IF k = N THEN s["pc"]
                  ELSE IF k = 0 THEN ReturnAddr ELSE s[GPR[N - k + 1]]]

(* The switch to a task with kernel stack ks: pops, then iretq.            *)
sys_yield(ks) ==
  [r \in Registers |-> IF r = "pc" THEN ks[N]
                       ELSE ks[N - (CHOOSE i \in 1..N : GPR[i] = r)]]

(* The stack sys_fork() builds from the caller's, which is one slot off.   *)
fork_frame(ks) ==
  [k \in 0..N |-> IF k = N THEN ks[N] ELSE IF k = N - 1 THEN 0 ELSE ks[k + 1]]

(* The stack of create_process(): cleared, with an entry point.            *)
new_frame == [k \in 0..N |-> IF k = N THEN Entry ELSE 0]

NewState == [r \in Registers |-> IF r = "pc" THEN Entry ELSE 0]

-----------------------------------------------------------------------------
Init ==
  /\ cur = first /\ alive = {first}
  /\ u = NewState
  /\ inread = FALSE
  /\ kstack = [t \in Task |-> new_frame]
  /\ due = [t \in Task |-> NewState]
  /\ left = [t \in Task |-> "new"]

UserMode == ~inread

(* The CPU goes to t, with the kernel stacks ks.                           *)
SwitchTo(t, ks) ==
  /\ kstack' = ks
  /\ cur' = t
  /\ u' = sys_yield(ks[t])
  /\ inread' = FALSE

Leaves(s, how) ==
  /\ due' = [due EXCEPT ![cur] = s]
  /\ left' = [left EXCEPT ![cur] = how]

user_code(s) ==
  /\ UserMode
  /\ u' = s
  /\ UNCHANGED <<cur, alive, inread, kstack, due, left>>

(* handler_irq0, with a switch to t.  In sys_read() the interrupt finds    *)
(* the CPU in kernel mode: its frame goes further down the stack, and the  *)
(* rest of sys_read(), with result res, is never resumed.                  *)
timer_user(t) ==
  /\ UserMode
  /\ SwitchTo(t, [kstack EXCEPT ![cur] = push_registers(u)])
  /\ Leaves(u, "preempted")
  /\ UNCHANGED alive

timer_in_read(t, res) ==
  /\ inread
  /\ SwitchTo(t, kstack)
  /\ Leaves([u EXCEPT !["rax"] = res], "in read")
  /\ UNCHANGED alive

(* A system call that returns at once pops what it pushed.                 *)
syscall_returns(res) ==
  /\ UserMode
  /\ kstack' = [kstack EXCEPT ![cur] = handler_idt128(u)]
  /\ u' = [u EXCEPT !["rax"] = res]
  /\ UNCHANGED <<cur, alive, inread, due, left>>

sys_read ==
  /\ UserMode
  /\ kstack' = [kstack EXCEPT ![cur] = handler_idt128(u)]
  /\ inread' = TRUE
  /\ UNCHANGED <<cur, alive, u, due, left>>

sys_read_returns(res) ==
  /\ inread
  /\ inread' = FALSE
  /\ u' = [u EXCEPT !["rax"] = res]
  /\ UNCHANGED <<cur, alive, kstack, due, left>>

(* sys_sleep() and sys_waitpid(), whose result is to be res.               *)
syscall_blocks(t, res) ==
  /\ UserMode
  /\ SwitchTo(t, [kstack EXCEPT ![cur] = handler_idt128(u)])
  /\ Leaves([u EXCEPT !["rax"] = res], "blocked")
  /\ UNCHANGED alive

sys_fork(c, pid) ==
  /\ UserMode /\ c \notin alive
  /\ alive' = alive \cup {c}
  /\ kstack' = [kstack EXCEPT ![cur] = handler_idt128(u),
                              ![c] = fork_frame(handler_idt128(u))]
  /\ due' = [due EXCEPT ![c] = [u EXCEPT !["rax"] = 0]]
  /\ left' = [left EXCEPT ![c] = "forked"]
  /\ u' = [u EXCEPT !["rax"] = pid]
  /\ UNCHANGED <<cur, inread>>

(* sys_execve(): c is created and queued, cur exits, and t is next.        *)
sys_execve(c, t) ==
  /\ UserMode /\ c \notin alive
  /\ alive' = (alive \ {cur}) \cup {c}
  /\ t \in alive'
  /\ SwitchTo(t, [kstack EXCEPT ![cur] = handler_idt128(u), ![c] = new_frame])
  /\ due' = [due EXCEPT ![c] = NewState]
  /\ left' = [left EXCEPT ![c] = "new"]

sys_exit(t) ==
  /\ UserMode /\ t # cur
  /\ alive' = alive \ {cur}
  /\ SwitchTo(t, [kstack EXCEPT ![cur] = handler_idt128(u)])
  /\ UNCHANGED <<due, left>>

Next ==
  \/ \E s \in UserState : user_code(s)
  \/ sys_read
  \/ \E t \in alive : timer_user(t) \/ sys_exit(t)
  \/ \E res \in Results : syscall_returns(res) \/ sys_read_returns(res)
  \/ \E t \in alive, res \in Results : timer_in_read(t, res) \/ syscall_blocks(t, res)
  \/ \E c, t \in Task : sys_execve(c, t)
  \/ \E c \in Task, pid \in Results : sys_fork(c, pid)

Spec == Init /\ [][Next]_vars

-----------------------------------------------------------------------------
TypeOK ==
  /\ cur \in Task /\ alive \subseteq Task /\ cur \in alive
  /\ u \in [Registers -> Val]
  /\ inread \in BOOLEAN
  /\ kstack \in [Task -> [0..N -> Val]]
  /\ due \in [Task -> [Registers -> Val]]
  /\ left \in [Task -> {"new", "preempted", "in read", "blocked", "forked"}]

(* The tasks that wait for the CPU, with the registers they will get.      *)
Waiting(how) == {t \in alive \ {cur} : left[t] \in how}

(* A task preempted by the timer finds every register as it was, whatever  *)
(* ran in between; a forked child finds its parent's registers and 0 in    *)
(* rax, although the parent entered the kernel with another stack layout;  *)
(* a new program finds cleared registers and its entry point.              *)
RegistersRestored ==
  \A t \in Waiting({"new", "preempted", "forked"}) : sys_yield(kstack[t]) = due[t]

(* A task that blocked in a system call, or was preempted inside read(),   *)
(* is resumed from a frame with the layout of a system call.  It finds in  *)
(* every register but the last the value it had in the next one, and goes  *)
(* on at its own instruction: nothing is lost beyond that, no value of     *)
(* another task or of the kernel gets in.                                  *)
ShiftedByOne ==
  \A t \in Waiting({"blocked", "in read"}) :
    /\ \A i \in 1..(N - 1) : sys_yield(kstack[t])[GPR[i]] = due[t][GPR[i + 1]]
    /\ sys_yield(kstack[t])["pc"] = due[t]["pc"]
=============================================================================
