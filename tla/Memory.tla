------------------------------- MODULE Memory -------------------------------
(***************************************************************************)
(* User address spaces: copy-on-write fork (sys/cow.c), the page fault     *)
(* handler (sys/pagefault.c), and the calls that map pages (sys/memory.c,  *)
(* sys/malloc.c, sys/elf.c), on top of the frame allocator of Frames.      *)
(*                                                                         *)
(* A page table is a function from user pages to entries.  The four levels *)
(* of tables are not modelled; the frames they take are (TableFrames and   *)
(* WalkFrames).                                                            *)
(* Every handler runs with interrupts off and is one step; between a fault *)
(* and the repeated instruction other tasks may run.                       *)
(*                                                                         *)
(* Kernel structures and page tables are allocated only while memory       *)
(* lasts: after a failure the code clears and links frames it does not own.*)
(***************************************************************************)
EXTENDS Frames

CONSTANTS
  Task,          \* the tasks that can ever exist
  sbush,         \* the first one; idle, which never stores, is left out
  VPage,         \* user pages
  LowPage,       \* the pages below INITIAL_MEM
  PageZero,      \* the page at address 0, if it is one of VPage
  Unaligned,     \* may a parent's break be unaligned when it forks?
  Val,           \* contents of a page
  zero,          \* what memory holds at boot
  NoPage,        \* an entry that is not present
  TS,            \* frames of a task_struct: 10 in the code
  TableFrames,   \* frames that tables, mm_struct and vma list of a task take
  WalkFrames,    \* frames that walk_pages() takes for tables: 0 to 3
  WP             \* CR0.WP: kernel writes respect read-only entries

ASSUME MemoryAssumption ==
  /\ sbush \in Task
  /\ LowPage \subseteq VPage
  /\ PageZero \in VPage => PageZero \in LowPage
  /\ IsFiniteSet(Task) /\ IsFiniteSet(VPage)
  /\ Unaligned \subseteq BOOLEAN
  /\ zero \in Val /\ NoPage \notin Val
  /\ TS \in Nat \ {0}
  /\ TableFrames \subseteq Nat
  /\ WP \in BOOLEAN
  /\ NoPage \notin [frame : Frame, w : BOOLEAN]

ASSUME WalkAssumption == WalkFrames \subseteq Nat

VARIABLES
  memmap,   \* the frame table
  mem,      \* content of every frame
  live,     \* the tasks that are queued
  pt,       \* page tables: task -> page -> entry
  tstruct,  \* first frame of the task_struct of each task; 0: not yet created
  lowheap   \* tasks whose heap starts at address 0

vars == <<memmap, mem, live, pt, tstruct, lowheap>>

Entry == [frame : Frame, w : BOOLEAN]

Present(t, v) == pt[t][v] # NoPage

(* The value of an entry as the code stores it: address and flag bits.     *)
pte(e) == e.frame * PAGE_SIZE + (IF e.w THEN PAGE_PERM ELSE PAGE_PERM - PAGE_WRITE)

-----------------------------------------------------------------------------
(* create_process(), from the memmap m: task_struct (kmalloc), n frames of *)
(* kernel structures, then one frame for every page of S (the stack, by    *)
(* kmalloc_user_space(), and the segments, by allocate()).                 *)
Structs(m, n) == mem_allocate(m, TS + n)

Pages(m, n, S) == Taken(Structs(m, n), Cardinality(S))

Enough(m, k) == Cardinality(Avail(m)) >= k

Placements(S, F) == {g \in [S -> F] : \A u, v \in S : g[u] = g[v] => u = v}

Placed(S, g) ==
  [v \in VPage |-> IF v \in S THEN [frame |-> g[v], w |-> TRUE] ELSE NoPage]

(* start() has created the first task, and memory was enough for that.     *)
Init ==
  \E n \in TableFrames, S \in SUBSET (VPage \ LowPage), img \in Val :
    LET F == Pages(init_memmap, n, S) IN
    /\ Enough(init_memmap, TS + n + Cardinality(S))
    /\ memmap = mem_allocate(Structs(init_memmap, n), Cardinality(S))
    /\ tstruct = [t \in Task |-> IF t = sbush THEN mem_allocate_addr(init_memmap) ELSE 0]
    /\ \E g \in Placements(S, F) :
         pt = [t \in Task |-> Placed(IF t = sbush THEN S ELSE {}, g)]
    /\ mem = [f \in Frame |-> IF f \in F THEN img ELSE zero]
    /\ live = {sbush}
    /\ lowheap = {}

(* A task_struct block not used so far: none is ever freed.                *)
Unborn(c) == tstruct[c] = 0

(* sys_execve(): the caller exits, the new task is queued if there is room.*)
sys_execve(t, c, n, S, img, room) ==
  LET F == Pages(memmap, n, S) IN
  /\ t \in live /\ Unborn(c)
  /\ Enough(memmap, TS + n + Cardinality(S))
  /\ memmap' = mem_allocate(Structs(memmap, n), Cardinality(S))
  /\ tstruct' = [tstruct EXCEPT ![c] = mem_allocate_addr(memmap)]
  /\ \E g \in Placements(S, F) : pt' = [pt EXCEPT ![c] = Placed(S, g)]
  /\ mem' = [f \in Frame |-> IF f \in F THEN img ELSE mem[f]]
  /\ live' = (live \ {t}) \cup (IF room THEN {c} ELSE {})
  /\ UNCHANGED lowheap

(* Mutants: the write bit is left in place, the reference is not counted.  *)
Shared_writable(t) == pt[t]

cow_walk_pages_marks_only(m, t) ==
  [f \in Frame |-> IF f \in {pt[t][v].frame : v \in {u \in VPage : Present(t, u)}}
                   THEN [m[f] EXCEPT !.cow_flag = TRUE]
                   ELSE m[f]]

(* cow_walk_pages(): every present entry of the parent becomes read-only   *)
(* and is copied to the child; the frames behind them are counted once     *)
(* more and marked.                                                        *)
Shared(t) == [v \in VPage |-> IF Present(t, v) THEN [pt[t][v] EXCEPT !.w = FALSE]
                                               ELSE NoPage]

FramesOf(t) == {pt[t][v].frame : v \in {u \in VPage : Present(t, u)}}

cow_walk_pages(m, t) ==
  [f \in Frame |-> IF f \in FramesOf(t)
                   THEN [m[f] EXCEPT !.ref_cnt = @ + 1, !.cow_flag = TRUE]
                   ELSE m[f]]

(* The child's break is page_roundoff_4096() of the parent's, which is 0   *)
(* for an unaligned address in the heap area: it is above END_LIMIT.       *)
sys_fork(t, c, n, room, unaligned) ==
  /\ t \in live /\ Unborn(c)
  /\ Enough(memmap, TS + n)
  /\ memmap' = cow_walk_pages(Structs(memmap, n), t)
  /\ tstruct' = [tstruct EXCEPT ![c] = mem_allocate_addr(memmap)]
  /\ pt' = [pt EXCEPT ![t] = Shared(t), ![c] = Shared(t)]
  /\ live' = live \cup (IF room THEN {c} ELSE {})
  /\ lowheap' = IF unaligned \/ t \in lowheap THEN lowheap \cup {c} ELSE lowheap
  /\ UNCHANGED mem

(* sys_exit(), also from segfault(): nothing is freed or counted down.     *)
sys_exit(t) ==
  /\ t \in live
  /\ live' = live \ {t}
  /\ UNCHANGED <<memmap, mem, pt, tstruct, lowheap>>

-----------------------------------------------------------------------------
(* page_fault() for a page that is not present: walk_pages(), then a frame.*)
demand_page(t, v, n) ==
  LET m == mem_allocate(memmap, n)
  IN  /\ t \in live /\ ~Present(t, v)
      /\ v \notin LowPage
      /\ Enough(memmap, n)
      /\ pt' = [pt EXCEPT ![t][v] = [frame |-> mem_allocate_addr(m), w |-> TRUE]]
      /\ memmap' = mem_allocate(m, 1)
      /\ UNCHANGED <<mem, live, tstruct, lowheap>>

(* Mutant: the test of page_fault() is <= 2.                               *)
LastUser_or_two(e) == e.ref_cnt <= 2

(* page_fault() for a write to a read-only page: a page that is not shared *)
(* any more is made writable, a shared one is copied.  (In the remaining   *)
(* cases segfault() exits, which is sys_exit().)                           *)
LastUser(e) == e.ref_cnt = 1

WriteFault(t, v) == t \in live /\ Present(t, v) /\ ~pt[t][v].w

cow_reuse(t, v) ==
  LET e == memmap[pt[t][v].frame] IN
  /\ WriteFault(t, v)
  /\ e.cow_flag /\ LastUser(e)
  /\ pt' = [pt EXCEPT ![t][v].w = TRUE]
  /\ UNCHANGED <<memmap, mem, live, tstruct, lowheap>>

(* map_kernel(), one page: it does nothing for logical address 0.          *)
map_kernel(t, v, g) ==
  IF v = PageZero THEN pt ELSE [pt EXCEPT ![t][v] = [frame |-> g, w |-> TRUE]]

cow_copy(t, v) ==
  LET f == pt[t][v].frame
      m == [memmap EXCEPT ![f].ref_cnt = @ - 1]
      g == mem_allocate_addr(m)
  IN  /\ WriteFault(t, v)
      /\ memmap[f].cow_flag /\ ~LastUser(memmap[f])
      /\ memmap' = mem_allocate(m, 1)
      /\ mem' = [mem EXCEPT ![g] = mem[f]]
      /\ pt' = map_kernel(t, v, g)
      /\ UNCHANGED <<live, tstruct, lowheap>>

(* sys_brk(), one page: a frame, then walk_pages(); whatever was mapped    *)
(* there is passed to mem_free().                                          *)
sys_brk(t, v, n) ==
  LET g == mem_allocate_addr(memmap)
      m == mem_allocate(mem_allocate(memmap, 1), n)
  IN  /\ t \in live
      /\ v \in LowPage => t \in lowheap
      /\ Enough(mem_allocate(memmap, 1), n)
      /\ memmap' = IF Present(t, v) THEN mem_free(m, pte(pt[t][v])) ELSE m
      /\ pt' = [pt EXCEPT ![t][v] = [frame |-> g, w |-> TRUE]]
      /\ UNCHANGED <<mem, live, tstruct, lowheap>>

(* A store by user code, and one by the kernel into the task's buffer      *)
(* (sys_read(), sys_getcwd(), ...), which may ignore a read-only entry.    *)
Writes(t, v, x) ==
  /\ t \in live /\ Present(t, v)
  /\ mem' = [mem EXCEPT ![pt[t][v].frame] = x]
  /\ UNCHANGED <<memmap, live, pt, tstruct, lowheap>>

user_store(t, v, x) == Writes(t, v, x) /\ pt[t][v].w

kernel_store(t, v, x) == Writes(t, v, x) /\ (pt[t][v].w \/ ~WP)

Next ==
  \E t \in Task :
    \/ sys_exit(t)
    \/ \E c \in Task, n \in TableFrames, room \in BOOLEAN :
         \/ \E unaligned \in Unaligned : sys_fork(t, c, n, room, unaligned)
         \/ \E S \in SUBSET (VPage \ LowPage), img \in Val :
              sys_execve(t, c, n, S, img, room)
    \/ \E v \in VPage :
         \/ \E n \in WalkFrames : demand_page(t, v, n) \/ sys_brk(t, v, n)
         \/ cow_reuse(t, v)
         \/ cow_copy(t, v)
         \/ \E x \in Val : user_store(t, v, x) \/ kernel_store(t, v, x)

Spec == Init /\ [][Next]_vars

-----------------------------------------------------------------------------
TypeOK ==
  /\ memmap \in [Frame -> memory_map]
  /\ mem \in [Frame -> Val]
  /\ live \subseteq Task
  /\ pt \in [Task -> [VPage -> Entry \cup {NoPage}]]
  /\ tstruct \in [Task -> Frame]
  /\ lowheap \subseteq Task

(* No call of mem_allocate() has failed so far.                            *)
MemoryLeft == Avail(memmap) # {}

Mappers(f) == {x \in Task \X VPage : Present(x[1], x[2]) /\ pt[x[1]][x[2]].frame = f}

(* While memory lasts, a page that a task can write is in no other page    *)
(* table and at no other address: what cow_walk_pages() shares stays       *)
(* read-only until page_fault() has given the writer a frame of its own.   *)
WritablePrivate ==
  MemoryLeft =>
    \A t \in Task, v \in VPage :
      Present(t, v) /\ pt[t][v].w => Mappers(pt[t][v].frame) = {<<t, v>>}

(* The ref_cnt that page_fault() trusts when it makes a page writable in   *)
(* place never falls below the number of entries that map the frame.       *)
RefCntCovers ==
  MemoryLeft => \A f \in Frame : Cardinality(Mappers(f)) <= memmap[f].ref_cnt

(* kmalloc() takes single frames and returns the first: a task_struct is   *)
(* TS adjacent frames that no page table maps and no other task_struct     *)
(* overlaps, although kmalloc() never checks that they are adjacent.       *)
Block(t) == IF tstruct[t] = 0 THEN {} ELSE tstruct[t]..(tstruct[t] + TS - 1)

TaskStructsPrivate ==
  MemoryLeft =>
    /\ \A t \in Task : Block(t) \subseteq Frame \ Avail(memmap)
    /\ \A t \in Task : \A f \in Block(t) : Mappers(f) = {}
    /\ \A t, u \in Task : t # u => Block(t) \cap Block(u) = {}

-----------------------------------------------------------------------------
(* While memory lasts every task sees private memory: stores of one task,  *)
(* by itself or by the kernel on its behalf, faults, forks and exits never *)
(* change what another task reads, a fork hands over the parent's          *)
(* contents, and a copy-on-write fault changes nothing for anybody.        *)
View ==
  [t \in Task |-> [v \in VPage |->
     IF t \in live /\ Present(t, v) THEN mem[pt[t][v].frame] ELSE NoPage]]

Private == INSTANCE PrivateMemory WITH view <- View, oom <- ~MemoryLeft

MemoryIsPrivate == Private!Spec
=============================================================================
