-------------------------------- MODULE Brk --------------------------------
(***************************************************************************)
(* The heap of a task: sys_brk() of sys/malloc.c, malloc() of libc, the    *)
(* rounding functions of sys/memory.c and what fork makes of the heap.     *)
(* Addresses are unsigned and wrap at W (2^64 in the code); a page has     *)
(* PAGE bytes (4096).                                                      *)
(***************************************************************************)
EXTENDS Integers, FiniteSets

CONSTANTS
  Task, first,   \* the tasks, and the one that exists at first
  PAGE, W,       \* bytes of a page, bytes of the address space
  BUMP_PTR,      \* where the heap of a new process starts
  END_LIMIT,     \* end of physical memory, used as a limit for addresses
  MaxBreak,      \* bound: programs ask for no break above this
  Sizes          \* the sizes malloc() is called with

ASSUME BrkAssumption ==
  /\ first \in Task
  /\ PAGE \in Nat /\ PAGE > 1 /\ W \in Nat /\ W % PAGE = 0
  /\ BUMP_PTR \in 0..(W - 1) /\ BUMP_PTR % PAGE = 0
  /\ END_LIMIT \in 1..BUMP_PTR
  /\ MaxBreak \in BUMP_PTR..(W - 1) /\ Sizes \subseteq 1..MaxBreak

VARIABLES
  alive,      \* the tasks that exist
  bump_ptr,   \* heap.bump_ptr of each task
  rem_size,   \* heap.rem_size
  mapped,     \* the heap pages that are present
  last        \* the last sys_brk(): the old break, the pages it mapped

vars == <<alive, bump_ptr, rem_size, mapped, last>>

Page == 0..((W \div PAGE) - 1)

-----------------------------------------------------------------------------
page_roundoff_4096(addr) ==
  IF addr % PAGE = 0 THEN addr
  ELSE LET up == (addr - (addr % PAGE)) + PAGE
       IN  IF up >= END_LIMIT THEN 0 ELSE up

(* The value of an expression of type uint64_t.                            *)
uint64(x) == x % W

(* The number of pages sys_brk() allocates.  The test is on size.          *)
blk_cnt(size, less_mem) ==
  (less_mem \div PAGE) + (IF size % PAGE > 0 THEN 1 ELSE 0)

(* Mutant: the new pages start at the break.                               *)
logical_from_break(t) == bump_ptr[t]

(* Where sys_brk() maps its first new page.                                *)
logical(t) == uint64(bump_ptr[t] + rem_size[t])

(* Mutant: the loop counts down before it maps a page.                     *)
Fresh_one_less(a, n) == {((a \div PAGE) + i) % (W \div PAGE) : i \in 0..(n - 2)}

(* The pages mapped from address a on.                                     *)
Fresh(a, n) == {((a \div PAGE) + i) % (W \div PAGE) : i \in 0..(n - 1)}

-----------------------------------------------------------------------------
Init ==
  /\ alive = {first}
  /\ bump_ptr = [t \in Task |-> BUMP_PTR]
  /\ rem_size = [t \in Task |-> 0]
  /\ mapped = [t \in Task |-> {}]
  /\ last = [old |-> 0, fresh |-> {}]

(* sys_brk(0) reports the break.                                           *)
sys_brk_query(t) ==
  /\ t \in alive
  /\ last' = [old |-> bump_ptr[t], fresh |-> {}]
  /\ UNCHANGED <<alive, bump_ptr, rem_size, mapped>>

(* sys_brk(addr) for a break above the old one (no caller asks for a lower *)
(* one).  The entry of a page is written whether mem_allocate() has a      *)
(* frame or not (then it holds frame 0), and the result is the same.       *)
sys_brk(t, addr) ==
  LET size  == uint64(addr - bump_ptr[t])
      less  == uint64(size - rem_size[t])
      cnt   == IF rem_size[t] > size THEN 0 ELSE blk_cnt(size, less)
      fresh == Fresh(logical(t), cnt)
  IN  /\ t \in alive
      /\ addr > bump_ptr[t] /\ addr <= MaxBreak
      /\ mapped' = [mapped EXCEPT ![t] = @ \cup fresh]
      /\ rem_size' = [rem_size EXCEPT ![t] = uint64(@ + cnt * PAGE - size)]
      /\ bump_ptr' = [bump_ptr EXCEPT ![t] = uint64(@ + size)]
      /\ last' = [old |-> bump_ptr[t], fresh |-> fresh]
      /\ UNCHANGED alive

(* malloc(size): sys_brk(0), then sys_brk() of the result plus size.       *)
malloc(t, size) == sys_brk(t, bump_ptr[t] + size)

(* A page of the heap is touched for the first time (page_fault()).        *)
demand_page(t, p) ==
  /\ t \in alive
  /\ p \notin mapped[t] /\ p * PAGE < bump_ptr[t] /\ p * PAGE >= BUMP_PTR
  /\ mapped' = [mapped EXCEPT ![t] = @ \cup {p}]
  /\ UNCHANGED <<alive, bump_ptr, rem_size, last>>

(* Mutant: the child inherits rem_size but rounds its break.               *)
sys_fork_keeps_rem(t, c) ==
  /\ t \in alive /\ c \notin alive
  /\ alive' = alive \cup {c}
  /\ bump_ptr' = [bump_ptr EXCEPT ![c] = page_roundoff_4096(bump_ptr[t])]
  /\ rem_size' = [rem_size EXCEPT ![c] = rem_size[t]]
  /\ mapped' = [mapped EXCEPT ![c] = mapped[t]]
  /\ UNCHANGED last

(* sys_fork(): the pages are shared copy-on-write, the break is rounded,   *)
(* rem_size is that of a cleared task_struct.                              *)
sys_fork(t, c) ==
  /\ t \in alive /\ c \notin alive
  /\ alive' = alive \cup {c}
  /\ bump_ptr' = [bump_ptr EXCEPT ![c] = page_roundoff_4096(bump_ptr[t])]
  /\ rem_size' = [rem_size EXCEPT ![c] = 0]
  /\ mapped' = [mapped EXCEPT ![c] = mapped[t]]
  /\ UNCHANGED last

Next ==
  \E t \in Task :
    \/ sys_brk_query(t)
    \/ \E size \in Sizes : malloc(t, size)
    \/ \E p \in Page : demand_page(t, p)
    \/ \E c \in Task : sys_fork(t, c)

Spec == Init /\ [][Next]_vars

-----------------------------------------------------------------------------
(* Wherever the counters have wrapped, bump_ptr + rem_size is the end of   *)
(* a page, so that the pages sys_brk() maps never start in the middle of   *)
(* memory it has handed out.                                               *)
EndAligned == \A t \in alive : ((bump_ptr[t] + rem_size[t]) % W) % PAGE = 0

(* sys_brk() maps fresh, empty pages: none of them may hold bytes below    *)
(* the old break, which malloc() has already given to the program.         *)
BrkKeepsData == \A p \in last.fresh : p * PAGE >= last.old

(* malloc.c: "required memory to be allocated = requested - remaining":    *)
(* what remains is at most a page and is backed, so that a request it      *)
(* covers needs no page of its own.  A request of whole pages that is      *)
(* larger than what remains may get one page too few; then rem_size has    *)
(* gone below zero, and wrapped, and the heap grows by page faults alone.  *)
RemIsBacked ==
  \A t \in alive :
    \/ rem_size[t] > W - MaxBreak
    \/ /\ rem_size[t] <= PAGE
       /\ \A p \in Page :
            p * PAGE >= bump_ptr[t] /\ p * PAGE < bump_ptr[t] + rem_size[t] => p \in mapped[t]
=============================================================================
