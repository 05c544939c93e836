------------------------------- MODULE Frames -------------------------------
(***************************************************************************)
(* The physical page allocator of sys/memory.c.  memmap has one entry per  *)
(* 4096-byte frame; frame i is at address 4096 * i.  The functions are     *)
(* operators from a memmap m to the memmap they leave and to their result. *)
(***************************************************************************)
EXTENDS Integers, FiniteSets

CONSTANTS
  MAX_MEM,    \* number of entries of memmap
  physfree    \* address of the first byte not used by the kernel image

ASSUME FramesAssumption ==
  /\ MAX_MEM \in Nat \ {0}
  /\ physfree \in Nat \ {0}

PAGE_SIZE == 4096
PAGE_PERM == 7       \* present, writable, user
PAGE_WRITE == 2

Frame == 0..(MAX_MEM - 1)

(* struct memory_map; addr is not kept, it never changes.                  *)
memory_map == [ref_cnt : Nat, res_flag : {"AVAIL", "BUSY"}, cow_flag : BOOLEAN]

init_memmap ==
  [i \in Frame |-> IF i * PAGE_SIZE < physfree
                   THEN [ref_cnt |-> 1, res_flag |-> "BUSY", cow_flag |-> FALSE]
                   ELSE [ref_cnt |-> 0, res_flag |-> "AVAIL", cow_flag |-> FALSE]]

Avail(m) == {i \in Frame : m[i].res_flag = "AVAIL"}

(* mem_allocate(): the first AVAIL frame, or address 0.                    *)
mem_allocate_addr(m) ==
  IF Avail(m) = {} THEN 0
  ELSE CHOOSE i \in Avail(m) : \A j \in Avail(m) : i <= j

(* What n calls of mem_allocate() take: the n lowest AVAIL frames.         *)
Taken(m, n) ==
  LET A == Avail(m) IN {i \in A : Cardinality({j \in A : j < i}) < n}

mem_allocate(m, n) ==
  LET T == Taken(m, n)
  IN  [i \in Frame |-> IF i \in T
                       THEN [m[i] EXCEPT !.ref_cnt = @ + 1, !.res_flag = "BUSY"]
                       ELSE m[i]]

(* Mutant: the permission bits of a page table entry are masked.           *)
mem_free_masks(m, addr) ==
  [i \in Frame |-> IF i = addr \div PAGE_SIZE
                   THEN [m[i] EXCEPT !.res_flag = "AVAIL"] ELSE m[i]]

(* mem_free(): the frame at exactly this address.  (The first branch of    *)
(* the code is a shortcut with the same effect.)                           *)
mem_free(m, addr) ==
  [i \in Frame |-> IF i * PAGE_SIZE = addr
                   THEN [m[i] EXCEPT !.res_flag = "AVAIL"] ELSE m[i]]
=============================================================================
