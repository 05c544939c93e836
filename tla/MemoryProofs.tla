---------------------------- MODULE MemoryProofs ----------------------------
(***************************************************************************)
(* Proofs about Memory, for any tasks, pages and amount of memory.  They   *)
(* assume that the page at address 0 is never mapped (PageZero \notin      *)
(* VPage): with it the properties fail, see README.                        *)
(*                                                                         *)
(* The argument rests on the allocator.  mem_free() is always called with  *)
(* an entry whose flag bits are set and finds no frame at that address, so *)
(* no frame is ever given back and the AVAIL frames are an upper interval  *)
(* of memory.  What mem_allocate() returns has then never been mapped, and *)
(* kmalloc(), which never checks it, gets adjacent frames.                 *)
(***************************************************************************)
EXTENDS Memory, FiniteSetTheorems, TLAPS

USE FramesAssumption

-----------------------------------------------------------------------------
(* The allocator, when the AVAIL frames are k..(MAX_MEM - 1).              *)
Suffix(m, k) == k \in 1..MAX_MEM /\ Avail(m) = k..(MAX_MEM - 1)

LEMMA TakenSuffix ==
  ASSUME NEW m, NEW k, Suffix(m, k), NEW n \in Nat
  PROVE  Taken(m, n) = {i \in k..(MAX_MEM - 1) : i < k + n}
  <1>1. ASSUME NEW i \in k..(MAX_MEM - 1)
        PROVE  Cardinality({j \in Avail(m) : j < i}) = i - k
    <2>1. {j \in Avail(m) : j < i} = k..(i - 1)
      BY DEF Suffix
    <2>2. k \in Int /\ i \in Int /\ i - 1 \in Int /\ k <= i
      BY DEF Suffix
    <2>3. Cardinality(k..(i - 1)) = IF k > i - 1 THEN 0 ELSE (i - 1) - k + 1
      BY <2>2, FS_Interval
    <2>4. (IF k > i - 1 THEN 0 ELSE (i - 1) - k + 1) = i - k
      BY <2>2
    <2>5. Cardinality(k..(i - 1)) = i - k
      BY <2>3, <2>4
    <2> QED
      BY <2>1, <2>5, Zenon
  <1> QED
    BY <1>1 DEF Taken, Suffix

LEMMA AddrSuffix ==
  ASSUME NEW m, NEW k, Suffix(m, k)
  PROVE  mem_allocate_addr(m) = IF k < MAX_MEM THEN k ELSE 0
  <1>1. CASE k < MAX_MEM
    <2>1. k \in Avail(m) /\ Avail(m) # {} /\ (\A j \in Avail(m) : k <= j)
      BY <1>1 DEF Suffix
    <2>2. \A i \in Avail(m) : (\A j \in Avail(m) : i <= j) => i = k
      BY <2>1 DEF Suffix
    <2> QED
      BY <1>1, <2>1, <2>2 DEF mem_allocate_addr
  <1>2. CASE ~(k < MAX_MEM)
    <2>1. Avail(m) = {}
      BY <1>2 DEF Suffix
    <2> QED
      BY <1>2, <2>1 DEF mem_allocate_addr
  <1> QED
    BY <1>1, <1>2

LEMMA EnoughSuffix ==
  ASSUME NEW m, NEW k, Suffix(m, k), NEW n \in Nat, Enough(m, n)
  PROVE  k + n <= MAX_MEM
  <1>1. k \in Int /\ MAX_MEM - 1 \in Int
    BY DEF Suffix
  <1>2. Cardinality(k..(MAX_MEM - 1)) = IF k > MAX_MEM - 1 THEN 0 ELSE (MAX_MEM - 1) - k + 1
    BY <1>1, FS_Interval
  <1> QED
    BY <1>1, <1>2 DEF Enough, Suffix

(* What n calls of mem_allocate() leave.                                   *)
LEMMA AllocSuffix ==
  ASSUME NEW m \in [Frame -> memory_map], NEW k, Suffix(m, k), NEW n \in Nat
  PROVE  /\ mem_allocate(m, n) \in [Frame -> memory_map]
         /\ Avail(mem_allocate(m, n)) = {i \in k..(MAX_MEM - 1) : i >= k + n}
         /\ \A i \in Frame :
              IF k <= i /\ i < k + n
              THEN /\ mem_allocate(m, n)[i].ref_cnt = m[i].ref_cnt + 1
                   /\ mem_allocate(m, n)[i].cow_flag = m[i].cow_flag
              ELSE mem_allocate(m, n)[i] = m[i]
  <1> DEFINE T == {i \in k..(MAX_MEM - 1) : i < k + n}
             a == mem_allocate(m, n)
  <1>1. a = [i \in Frame |-> IF i \in T THEN [m[i] EXCEPT !.ref_cnt = @ + 1, !.res_flag = "BUSY"]
                             ELSE m[i]]
    BY TakenSuffix, ZenonT(60) DEF mem_allocate
  <1>2. k \in Nat /\ k >= 1 /\ MAX_MEM \in Nat
    BY DEF Suffix
  <1>3. \A i \in Frame : i \in T <=> k <= i /\ i < k + n
    BY <1>2 DEF Frame
  <1> HIDE DEF a, T
  <1> SUFFICES /\ a \in [Frame -> memory_map]
               /\ Avail(a) = {i \in k..(MAX_MEM - 1) : i >= k + n}
               /\ \A i \in Frame : IF k <= i /\ i < k + n
                                   THEN a[i].ref_cnt = m[i].ref_cnt + 1 /\ a[i].cow_flag = m[i].cow_flag
                                   ELSE a[i] = m[i]
    BY DEF a
  <1>4. \A i \in Frame : i \in T =>
          /\ a[i].ref_cnt = m[i].ref_cnt + 1 /\ a[i].res_flag = "BUSY"
          /\ a[i].cow_flag = m[i].cow_flag /\ a[i] \in memory_map
    <2> SUFFICES ASSUME NEW i \in Frame, i \in T
                 PROVE  /\ a[i].ref_cnt = m[i].ref_cnt + 1 /\ a[i].res_flag = "BUSY"
                        /\ a[i].cow_flag = m[i].cow_flag /\ a[i] \in memory_map
      OBVIOUS
    <2>1. a[i] = [m[i] EXCEPT !.ref_cnt = @ + 1, !.res_flag = "BUSY"]
      BY <1>1, Zenon
    <2> DEFINE e == m[i]
    <2>2. e \in [ref_cnt : Nat, res_flag : {"AVAIL", "BUSY"}, cow_flag : BOOLEAN]
      BY DEF memory_map
    <2>3. a[i] = [e EXCEPT !.ref_cnt = e.ref_cnt + 1, !.res_flag = "BUSY"]
      BY <2>1
    <2> HIDE DEF e
    <2>4. a[i].ref_cnt = e.ref_cnt + 1 /\ a[i].res_flag = "BUSY" /\ a[i].cow_flag = e.cow_flag
      BY <2>2, <2>3
    <2>5. a[i] \in memory_map
      <3>1. e.ref_cnt + 1 \in Nat
        BY <2>2
      <3> QED
        BY <2>2, <2>3, <3>1, Zenon DEF memory_map
    <2> QED
      BY <2>4, <2>5 DEF e
  <1>5. \A i \in Frame : i \notin T => a[i] = m[i]
    BY <1>1, Zenon
  <1>6. a \in [Frame -> memory_map]
    BY <1>1, <1>4, <1>5, Zenon
  <1>7. \A i \in Frame : m[i].res_flag = "AVAIL" <=> i \in k..(MAX_MEM - 1)
    BY DEF Suffix, Avail
  <1>8. \A i \in Frame : a[i].res_flag = "AVAIL" <=> i \in k..(MAX_MEM - 1) /\ i \notin T
    BY <1>4, <1>5, <1>7
  <1>9. Avail(a) = {i \in k..(MAX_MEM - 1) : i >= k + n}
    BY <1>2, <1>3, <1>8 DEF Avail, Frame
  <1> QED
    BY <1>3, <1>4, <1>5, <1>6, <1>9

(* mem_free() of a page table entry does nothing.                          *)
LEMMA FreeIsNothing ==
  ASSUME NEW m \in [Frame -> memory_map], NEW e \in Entry
  PROVE  mem_free(m, pte(e)) = m
  <1>1. pte(e) = e.frame * 4096 + 7 \/ pte(e) = e.frame * 4096 + 5
    BY DEF pte, PAGE_SIZE, PAGE_PERM, PAGE_WRITE
  <1>2. e.frame \in Int /\ \A i \in Frame : i \in Int
    BY DEF Entry, Frame
  <1>3. \A i \in Frame : i * PAGE_SIZE # pte(e)
    BY <1>1, <1>2 DEF PAGE_SIZE
  <1> QED
    BY <1>3 DEF mem_free

-----------------------------------------------------------------------------
(* The inductive invariant, over explicit values: m for memmap, M for mem, *)
(* L for live, p for pt and ts for tstruct, so that Init and execve share  *)
(* one lemma (Init is an execve by nobody in a machine without tasks).     *)
Maps(p, t, v, f) == p[t][v] # NoPage /\ p[t][v].frame = f

MappersIn(p, f) == {x \in Task \X VPage : Maps(p, x[1], x[2], f)}

BlockIn(ts, t) == IF ts[t] = 0 THEN {} ELSE ts[t]..(ts[t] + TS - 1)

TypeGood(m, M, L, p, ts) ==
  /\ m \in [Frame -> memory_map]
  /\ M \in [Frame -> Val]
  /\ L \subseteq Task
  /\ p \in [Task -> [VPage -> Entry \cup {NoPage}]]
  /\ ts \in [Task -> Frame]

(* A frame that can still be handed out was never used.                    *)
Unused(m, M, p) ==
  /\ \A f \in Avail(m) : m[f].ref_cnt = 0 /\ M[f] = zero
  /\ \A f \in Avail(m), t \in Task, v \in VPage : ~Maps(p, t, v, f)

(* Frame 0 is mapped only by a failed mem_allocate(), and never shared.    *)
FrameZero(m, p) ==
  /\ ~m[0].cow_flag
  /\ \A t \in Task, v \in VPage : Maps(p, t, v, 0) => Avail(m) = {}

Counted(m, p) ==
  \A f \in Frame \ {0} : Cardinality(MappersIn(p, f)) <= m[f].ref_cnt

Sole(p) ==
  \A f \in Frame \ {0}, t \in Task, u \in Task, v \in VPage, x \in VPage :
    Maps(p, t, v, f) /\ p[t][v].w /\ Maps(p, u, x, f) => u = t /\ x = v

(* No task maps a frame twice: cow_walk_pages() counts it once.            *)
Once(p) ==
  \A f \in Frame \ {0}, t \in Task, v \in VPage, x \in VPage :
    Maps(p, t, v, f) /\ Maps(p, t, x, f) => x = v

Born(L, p, ts) ==
  /\ \A t \in L : ts[t] # 0
  /\ \A t \in Task, v \in VPage : ts[t] = 0 => p[t][v] = NoPage

Blocks(m, p, ts) ==
  /\ \A t \in Task : BlockIn(ts, t) \subseteq Frame \ Avail(m)
  /\ \A t \in Task, u \in Task, v \in VPage : \A f \in BlockIn(ts, t) : ~Maps(p, u, v, f)
  /\ \A t \in Task, u \in Task : t # u => BlockIn(ts, t) \cap BlockIn(ts, u) = {}

Good(m, M, L, p, ts) ==
  /\ TypeGood(m, M, L, p, ts)
  /\ \E k : Suffix(m, k)
  /\ Unused(m, M, p)
  /\ FrameZero(m, p)
  /\ Counted(m, p)
  /\ Sole(p)
  /\ Once(p)
  /\ Born(L, p, ts)
  /\ Blocks(m, p, ts)

IInv == Good(memmap, mem, live, pt, tstruct) /\ lowheap \subseteq Task

-----------------------------------------------------------------------------
(* Sets of mappings.                                                       *)
LEMMA Sizes == TS \in Nat \ {0} /\ TableFrames \subseteq Nat /\ WalkFrames \subseteq Nat
  BY MemoryAssumption, WalkAssumption

LEMMA Finite == IsFiniteSet(Task) /\ IsFiniteSet(VPage)
  BY MemoryAssumption

(* A count that stays covered when the reference count only grows.         *)
LEMMA CoverGrows ==
  ASSUME NEW n \in Nat, NEW r \in Nat, NEW s \in Nat, n <= r, s >= r
  PROVE  n <= s
  OBVIOUS

(* A mapping and a reference given up together.                            *)
LEMMA CoverDrops ==
  ASSUME NEW n \in Nat, NEW r \in Nat, NEW o, NEW s, n <= r, o = n - 1, s = r - 1
  PROVE  o <= s
  OBVIOUS

LEMMA Absent == NoPage \notin [frame : Frame, w : BOOLEAN]
  BY MemoryAssumption

LEMMA InMappers ==
  ASSUME NEW p, NEW f, NEW t \in Task, NEW v \in VPage
  PROVE  <<t, v>> \in MappersIn(p, f) <=> Maps(p, t, v, f)
  <1>1. <<t, v>> \in Task \X VPage /\ <<t, v>>[1] = t /\ <<t, v>>[2] = v
    OBVIOUS
  <1> QED
    BY <1>1 DEF MappersIn

LEMMA SamePairs ==
  ASSUME NEW A \in SUBSET (Task \X VPage), NEW B \in SUBSET (Task \X VPage),
         \A t \in Task, v \in VPage : <<t, v>> \in A <=> <<t, v>> \in B
  PROVE  A = B
  <1>1. \A x \in Task \X VPage : x = <<x[1], x[2]>> /\ x[1] \in Task /\ x[2] \in VPage
    OBVIOUS
  <1>2. \A x \in Task \X VPage : x \in A <=> x \in B
    BY <1>1
  <1> QED
    BY <1>2

LEMMA FiniteMappers ==
  ASSUME NEW p, NEW f
  PROVE  /\ MappersIn(p, f) \in SUBSET (Task \X VPage)
         /\ IsFiniteSet(MappersIn(p, f))
         /\ Cardinality(MappersIn(p, f)) \in Nat
  <1>1. MappersIn(p, f) \in SUBSET (Task \X VPage)
    BY DEF MappersIn
  <1>2. IsFiniteSet(Task \X VPage)
    BY Finite, FS_Product
  <1>3. IsFiniteSet(MappersIn(p, f))
    BY <1>1, <1>2, FS_Subset
  <1> QED
    BY <1>1, <1>3, FS_CardinalityType

(* A frame with at most one mapping has only the one we know of.           *)
LEMMA OnlyMapper ==
  ASSUME NEW p, NEW f, NEW t \in Task, NEW v \in VPage, Maps(p, t, v, f)
  PROVE  /\ Cardinality(MappersIn(p, f)) >= 1
         /\ Cardinality(MappersIn(p, f) \ {<<t, v>>}) = Cardinality(MappersIn(p, f)) - 1
         /\ IsFiniteSet(MappersIn(p, f) \ {<<t, v>>})
  <1> DEFINE A == MappersIn(p, f)
             B == A \ {<<t, v>>}
  <1>1. <<t, v>> \in A
    BY InMappers
  <1>2. IsFiniteSet(A) /\ Cardinality(A) \in Nat
    BY FiniteMappers
  <1> HIDE DEF A
  <1>3. IsFiniteSet(B) /\ Cardinality(B) = Cardinality(A) - 1
    BY <1>1, <1>2, FS_RemoveElement
  <1>4. Cardinality(B) \in Nat
    BY <1>3, FS_CardinalityType
  <1> QED
    BY <1>2, <1>3, <1>4 DEF A

-----------------------------------------------------------------------------
(* A page of a task gets the frame mem_allocate() returns: demand_page(),  *)
(* sys_brk() and, with m1 the memmap after the old frame was counted down, *)
(* cow_copy().                                                             *)
AfterRemap(m1, M1, L, p, ts, t, v) ==
  Good(mem_allocate(m1, 1), M1, L,
       [p EXCEPT ![t][v] = [frame |-> mem_allocate_addr(m1), w |-> TRUE]], ts)

LEMMA RemapGood ==
  ASSUME NEW m, NEW M, NEW L, NEW p, NEW ts, Good(m, M, L, p, ts),
         NEW t \in L, NEW v \in VPage,
         NEW m1 \in [Frame -> memory_map],
         \A f \in Frame : m1[f].res_flag = m[f].res_flag /\ m1[f].cow_flag = m[f].cow_flag,
         \A f \in Avail(m) : m1[f].ref_cnt = 0,
         \A f \in Frame \ {0} : Cardinality(MappersIn(p, f) \ {<<t, v>>}) <= m1[f].ref_cnt,
         NEW M1 \in [Frame -> Val],
         \A f \in Frame : f # mem_allocate_addr(m1) => M1[f] = M[f]
  PROVE  AfterRemap(m1, M1, L, p, ts, t, v)
  <1> DEFINE g == mem_allocate_addr(m1)
             e == [frame |-> g, w |-> TRUE]
             q == [p EXCEPT ![t][v] = e]
             a == mem_allocate(m1, 1)
  <1>0. TypeGood(m, M, L, p, ts) /\ t \in Task
    BY DEF Good, TypeGood
  <1>1. PICK k : Suffix(m, k)
    BY DEF Good
  <1>2. Avail(m1) = Avail(m)
    BY DEF Avail
  <1>3. Suffix(m1, k) /\ k \in Nat /\ k >= 1 /\ k <= MAX_MEM
    BY <1>1, <1>2 DEF Suffix
  <1>4. g = IF k < MAX_MEM THEN k ELSE 0
    BY <1>3, AddrSuffix
  <1>5. g \in Frame
    BY <1>3, <1>4 DEF Frame
  <1>6. /\ a \in [Frame -> memory_map]
        /\ Avail(a) = {i \in k..(MAX_MEM - 1) : i >= k + 1}
        /\ \A i \in Frame : IF k <= i /\ i < k + 1
                            THEN a[i].ref_cnt = m1[i].ref_cnt + 1 /\ a[i].cow_flag = m1[i].cow_flag
                            ELSE a[i] = m1[i]
    BY <1>3, AllocSuffix
  <1> HIDE DEF g, a
  <1>7. Avail(a) = Avail(m) \ {g} /\ (g # 0 => g \in Avail(m)) /\ (g = 0 => Avail(m) = {})
    BY <1>1, <1>3, <1>4, <1>6 DEF Suffix
  <1>8. \A i \in Frame : i # 0 /\ i = g => a[i].ref_cnt = 1 /\ a[i].cow_flag = m[i].cow_flag
    BY <1>3, <1>4, <1>6, <1>7
  <1>9. \A i \in Frame : i # g => a[i] = m1[i]
    <2>1. \A i \in Frame : i \in Nat /\ i < MAX_MEM
      BY DEF Frame
    <2>2. \A i \in Frame : i # g => ~(k <= i /\ i < k + 1)
      BY <2>1, <1>3, <1>4
    <2> QED
      BY <2>2, <1>6
  <1>10. e \in Entry /\ e # NoPage /\ e.frame = g /\ e.w = TRUE
    <2>1. e \in [frame : Frame, w : BOOLEAN]
      BY <1>5, Zenon
    <2>2. e # NoPage
      BY Absent, <2>1, Zenon
    <2>3. e.frame = g /\ e.w = TRUE
      BY Zenon
    <2> QED
      BY <2>1, <2>2, <2>3 DEF Entry
  <1> HIDE DEF e
  <1>11. /\ q \in [Task -> [VPage -> Entry \cup {NoPage}]]
         /\ \A u \in Task, x \in VPage : q[u][x] = IF u = t /\ x = v THEN e ELSE p[u][x]
    BY <1>0, <1>10 DEF TypeGood
  <1> HIDE DEF q
  <1>12. \A u \in Task, x \in VPage, f \in Frame :
           Maps(q, u, x, f) <=> IF u = t /\ x = v THEN f = g ELSE Maps(p, u, x, f)
    BY <1>10, <1>11 DEF Maps
  <1>13. TypeGood(a, M1, L, q, ts)
    BY <1>0, <1>6, <1>11 DEF TypeGood
  <1>14. \E j : Suffix(a, j)
    <2>1. CASE k < MAX_MEM
      <3>1. Suffix(a, k + 1)
        BY <1>3, <1>6, <2>1 DEF Suffix
      <3> QED
        BY <3>1
    <2>2. CASE ~(k < MAX_MEM)
      <3>1. Suffix(a, k)
        BY <1>3, <1>6, <2>2 DEF Suffix
      <3> QED
        BY <3>1
    <2> QED
      BY <2>1, <2>2
  <1>15. Avail(a) \subseteq Frame /\ Avail(m) \subseteq Frame
    BY DEF Avail
  <1>16. Unused(a, M1, q)
    <2>1. \A f \in Avail(a) : a[f].ref_cnt = 0 /\ M1[f] = zero
      BY <1>7, <1>9, <1>15 DEF Good, Unused, g
    <2>2. \A f \in Avail(a), u \in Task, x \in VPage : ~Maps(q, u, x, f)
      BY <1>7, <1>12, <1>15 DEF Good, Unused
    <2> QED
      BY <2>1, <2>2 DEF Unused
  <1>17. 0 \in Frame
    BY DEF Frame
  <1>18. FrameZero(a, q)
    <2>1. ~a[0].cow_flag
      <3>1. 0 # g \/ k >= MAX_MEM
        BY <1>3, <1>4
      <3>2. a[0] = m1[0]
        BY <1>3, <1>6, <1>17
      <3> QED
        BY <3>2, <1>17 DEF Good, FrameZero
    <2>2. \A u \in Task, x \in VPage : Maps(q, u, x, 0) => Avail(a) = {}
      BY <1>7, <1>12, <1>17 DEF Good, FrameZero
    <2> QED
      BY <2>1, <2>2 DEF FrameZero
  <1>19. Counted(a, q)
    <2> SUFFICES ASSUME NEW f \in Frame \ {0}
                 PROVE  Cardinality(MappersIn(q, f)) <= a[f].ref_cnt
      BY DEF Counted
    <2>1. CASE f = g
      <3>1. \A u \in Task, x \in VPage : Maps(q, u, x, f) <=> u = t /\ x = v
        BY <1>7, <1>12, <2>1 DEF Good, Unused
      <3>2. \A u \in Task, x \in VPage : <<u, x>> \in MappersIn(q, f) <=> <<u, x>> \in {<<t, v>>}
        BY <3>1, InMappers, Zenon
      <3>3. {<<t, v>>} \in SUBSET (Task \X VPage)
        BY <1>0
      <3>4. MappersIn(q, f) = {<<t, v>>}
        BY <3>2, <3>3, FiniteMappers, SamePairs
      <3>5. Cardinality({<<t, v>>}) = 1
        BY FS_Singleton, Zenon
      <3> QED
        BY <3>4, <3>5, <1>8, <2>1, SMTT(60)
    <2>2. CASE f # g
      <3>1. \A u \in Task, x \in VPage : Maps(q, u, x, f) <=> Maps(p, u, x, f) /\ ~(u = t /\ x = v)
        BY <1>12, <2>2
      <3>2. \A u \in Task, x \in VPage :
              <<u, x>> \in MappersIn(q, f) <=> <<u, x>> \in MappersIn(p, f) \ {<<t, v>>}
        BY <3>1, InMappers
      <3>3. MappersIn(p, f) \ {<<t, v>>} \in SUBSET (Task \X VPage)
        BY FiniteMappers
      <3>4. MappersIn(q, f) = MappersIn(p, f) \ {<<t, v>>}
        BY <3>2, <3>3, FiniteMappers, SamePairs
      <3> QED
        BY <3>4, <1>9, <2>2
    <2> QED
      BY <2>1, <2>2
  <1>20. Sole(q)
    <2>1. \A f \in Frame \ {0}, u \in Task, x \in VPage : f = g => ~Maps(p, u, x, f)
      BY <1>7 DEF Good, Unused
    <2> QED
      BY <2>1, <1>11, <1>12, SMTT(60) DEF Good, Sole
  <1>21. Once(q)
    <2>1. \A f \in Frame \ {0}, u \in Task, x \in VPage : f = g => ~Maps(p, u, x, f)
      BY <1>7 DEF Good, Unused
    <2> QED
      BY <2>1, <1>12 DEF Good, Once
  <1>22. Born(L, q, ts)
    BY <1>11, SMTT(60) DEF Good, Born
  <1>23. Blocks(a, q, ts)
    <2>1. \A u \in Task : BlockIn(ts, u) \subseteq Frame \ Avail(a)
      BY <1>7, SMTT(60) DEF Good, Blocks
    <2>2. \A u \in Task : \A f \in BlockIn(ts, u) : f \in Frame /\ f # g
      <3>1. \A u \in Task : 0 \notin BlockIn(ts, u)
        BY <1>0, SMTT(60) DEF BlockIn, TypeGood, Frame
      <3> QED
        BY <3>1, <1>7 DEF Good, Blocks
    <2>3. \A u \in Task, w \in Task, x \in VPage : \A f \in BlockIn(ts, u) : ~Maps(q, w, x, f)
      BY <2>2, <1>12, SMTT(60) DEF Good, Blocks
    <2> QED
      BY <2>1, <2>3, SMTT(60) DEF Good, Blocks
  <1> QED
    BY <1>13, <1>14, <1>16, <1>18, <1>19, <1>20, <1>21, <1>22, <1>23 DEF AfterRemap, Good, a, q, e, g

(* The same, with the hypotheses about m1 and M1 in one.                   *)
Remappable(m, M, p, t, v, m1, M1) ==
  /\ m1 \in [Frame -> memory_map]
  /\ \A f \in Frame : m1[f].res_flag = m[f].res_flag /\ m1[f].cow_flag = m[f].cow_flag
  /\ \A f \in Avail(m) : m1[f].ref_cnt = 0
  /\ \A f \in Frame \ {0} : Cardinality(MappersIn(p, f) \ {<<t, v>>}) <= m1[f].ref_cnt
  /\ M1 \in [Frame -> Val]
  /\ \A f \in Frame : f # mem_allocate_addr(m1) => M1[f] = M[f]

LEMMA RemapIfGood ==
  ASSUME NEW m, NEW M, NEW L, NEW p, NEW ts, Good(m, M, L, p, ts),
         NEW t \in L, NEW v \in VPage, NEW m1, NEW M1, Remappable(m, M, p, t, v, m1, M1)
  PROVE  AfterRemap(m1, M1, L, p, ts, t, v)
  BY RemapGood, SMTT(30) DEF Remappable

-----------------------------------------------------------------------------
(* The task_struct of a new task c is at the first AVAIL frames: nothing   *)
(* maps them and no other task_struct overlaps them.                       *)
FreshBlock(m, a, k, ts, ts1, c) ==
  /\ mem_allocate_addr(m) = k
  /\ ts1 \in [Task -> Frame]
  /\ \A t \in Task : ts1[t] = IF t = c THEN k ELSE ts[t]
  /\ BlockIn(ts1, c) = k..(k + TS - 1)
  /\ BlockIn(ts1, c) \subseteq Avail(m)
  /\ \A t \in Task : t # c => BlockIn(ts1, t) = BlockIn(ts, t)
  /\ \A t \in Task : BlockIn(ts1, t) \subseteq Frame \ Avail(a)
  /\ \A t \in Task, u \in Task : t # u => BlockIn(ts1, t) \cap BlockIn(ts1, u) = {}

LEMMA NewBlock ==
  ASSUME NEW m, NEW p, NEW ts \in [Task -> Frame], Blocks(m, p, ts),
         NEW k, Suffix(m, k), NEW c \in Task, ts[c] = 0, k + TS <= MAX_MEM,
         NEW a, Avail(a) \subseteq Avail(m), \A i \in Avail(a) : i >= k + TS
  PROVE  FreshBlock(m, a, k, ts, [ts EXCEPT ![c] = k], c)
  <1> DEFINE ts1 == [ts EXCEPT ![c] = k]
  <1>1. k \in Nat /\ k >= 1 /\ k < MAX_MEM /\ Avail(m) = k..(MAX_MEM - 1)
    BY Sizes DEF Suffix
  <1>2. mem_allocate_addr(m) = k
    BY <1>1, AddrSuffix
  <1>3. ts \in [Task -> Frame] /\ k \in Frame
    BY <1>1 DEF Frame
  <1>4. ts1 \in [Task -> Frame] /\ \A t \in Task : ts1[t] = IF t = c THEN k ELSE ts[t]
    BY <1>3
  <1> HIDE DEF ts1
  <1>5. BlockIn(ts1, c) = k..(k + TS - 1)
    BY <1>1, <1>4 DEF BlockIn
  <1>6. BlockIn(ts1, c) \subseteq Avail(m)
    BY Sizes, <1>1, <1>5
  <1>7. \A t \in Task : t # c => BlockIn(ts1, t) = BlockIn(ts, t)
    BY <1>4 DEF BlockIn
  <1>8. \A t \in Task : t # c => BlockIn(ts, t) \subseteq Frame \ Avail(m)
    BY DEF Blocks
  <1>9. \A i \in BlockIn(ts1, c) : i \in Frame /\ i \notin Avail(a)
    BY Sizes, <1>1, <1>5 DEF Frame
  <1>10. \A t \in Task : BlockIn(ts1, t) \subseteq Frame \ Avail(a)
    BY <1>7, <1>8, <1>9
  <1>11. \A t \in Task, u \in Task : t # u => BlockIn(ts1, t) \cap BlockIn(ts1, u) = {}
    <2>1. \A t \in Task : t # c => BlockIn(ts1, t) \cap BlockIn(ts1, c) = {}
      BY <1>6, <1>7, <1>8
    <2>2. \A t \in Task, u \in Task : t # u /\ t # c /\ u # c => BlockIn(ts1, t) \cap BlockIn(ts1, u) = {}
      BY <1>7 DEF Blocks
    <2> QED
      BY <2>1, <2>2
  <1> QED
    BY <1>2, <1>4, <1>5, <1>6, <1>7, <1>10, <1>11, Zenon DEF ts1, FreshBlock

(* sys_execve(), and the creation of the first task.                       *)
AfterExec(m, M, L1, p, ts, c, n, S, img, g) ==
  Good(mem_allocate(Structs(m, n), Cardinality(S)),
       [f \in Frame |-> IF f \in Pages(m, n, S) THEN img ELSE M[f]],
       L1, [p EXCEPT ![c] = Placed(S, g)], [ts EXCEPT ![c] = mem_allocate_addr(m)])

LEMMA ExecGood ==
  ASSUME NEW m, NEW M, NEW L, NEW p, NEW ts, Good(m, M, L, p, ts),
         NEW c \in Task, ts[c] = 0, NEW n \in TableFrames, NEW S \in SUBSET VPage,
         NEW img \in Val, NEW g \in Placements(S, Pages(m, n, S)),
         Enough(m, TS + n + Cardinality(S)),
         NEW L1 \in SUBSET (L \cup {c})
  PROVE  /\ AfterExec(m, M, L1, p, ts, c, n, S, img, g)
         /\ Pages(m, n, S) \subseteq Avail(m)
  <1> DEFINE a1 == Structs(m, n)
             a == mem_allocate(a1, Cardinality(S))
             F == Pages(m, n, S)
             M1 == [f \in Frame |-> IF f \in F THEN img ELSE M[f]]
             q == [p EXCEPT ![c] = Placed(S, g)]
             s == Cardinality(S)
  <1>0. TypeGood(m, M, L, p, ts) /\ n \in Nat
    BY Sizes DEF Good
  <1>1. s \in Nat
    <2>1. IsFiniteSet(S)
      BY Finite, FS_Subset
    <2> QED
      BY <2>1, FS_CardinalityType
  <1> HIDE DEF s
  <1>2. PICK k : Suffix(m, k)
    BY DEF Good
  <1>3. k \in Nat /\ k >= 1 /\ Avail(m) = k..(MAX_MEM - 1) /\ k + (TS + n + s) <= MAX_MEM
    <2>1. TS + n + s \in Nat
      BY Sizes, <1>0, <1>1
    <2>2. k + (TS + n + s) <= MAX_MEM
      BY <1>2, <2>1, EnoughSuffix DEF s
    <2> QED
      BY <1>2, <2>2 DEF Suffix
  <1> DEFINE k1 == k + TS + n
  <1>4. k1 \in Nat /\ k1 >= 1 /\ k1 + s <= MAX_MEM /\ k + TS <= k1
    BY Sizes, <1>0, <1>1, <1>3
  <1>5. TS + n \in Nat /\ m \in [Frame -> memory_map]
    BY Sizes, <1>0 DEF TypeGood
  <1>6. /\ a1 \in [Frame -> memory_map]
        /\ Avail(a1) = {i \in k..(MAX_MEM - 1) : i >= k + (TS + n)}
        /\ \A i \in Frame : IF k <= i /\ i < k + (TS + n)
                            THEN a1[i].ref_cnt = m[i].ref_cnt + 1 /\ a1[i].cow_flag = m[i].cow_flag
                            ELSE a1[i] = m[i]
    BY <1>2, <1>5, AllocSuffix DEF Structs
  <1>7. Suffix(a1, k1)
    <2>1. Avail(a1) = k1..(MAX_MEM - 1)
      BY Sizes, <1>0, <1>3, <1>4, <1>6, SMTT(60)
    <2> QED
      BY <2>1, <1>1, <1>4 DEF Suffix
  <1> HIDE DEF a1
  <1>8. /\ a \in [Frame -> memory_map]
        /\ Avail(a) = {i \in k1..(MAX_MEM - 1) : i >= k1 + s}
        /\ \A i \in Frame : IF k1 <= i /\ i < k1 + s
                            THEN a[i].ref_cnt = a1[i].ref_cnt + 1 /\ a[i].cow_flag = a1[i].cow_flag
                            ELSE a[i] = a1[i]
    BY <1>1, <1>6, <1>7, AllocSuffix DEF s
  <1>9. F = {i \in k1..(MAX_MEM - 1) : i < k1 + s}
    BY <1>1, <1>7, TakenSuffix, SMTT(60) DEF Pages, s, a1
  <1> HIDE DEF a, F
  <1>10. Suffix(a, k1 + s)
    BY <1>1, <1>4, <1>8, SMTT(60) DEF Suffix
  <1> HIDE DEF k1
  <1>11. F \subseteq Avail(m) /\ Avail(a) \subseteq Avail(m) /\ F \cap Avail(a) = {} /\ F \subseteq Frame
         /\ 0 \notin F /\ \A i \in Avail(a) : i >= k + TS
    BY Sizes, <1>1, <1>3, <1>4, <1>8, <1>9 DEF Frame
  <1>12. Avail(m) \subseteq Frame /\ Avail(a) \subseteq Frame /\ 0 \in Frame
    BY SMTT(60) DEF Avail, Frame
  <1>13. \A i \in Frame : /\ a[i].cow_flag = m[i].cow_flag
                          /\ a[i].ref_cnt >= m[i].ref_cnt
                          /\ a[i].ref_cnt \in Nat
                          /\ i \in F => a[i].ref_cnt >= 1
                          /\ i \in Avail(a) => a[i].ref_cnt = m[i].ref_cnt
    <2> SUFFICES ASSUME NEW i \in Frame
                 PROVE  /\ a[i].cow_flag = m[i].cow_flag
                        /\ a[i].ref_cnt >= m[i].ref_cnt
                        /\ a[i].ref_cnt \in Nat
                        /\ i \in F => a[i].ref_cnt >= 1
                        /\ i \in Avail(a) => a[i].ref_cnt = m[i].ref_cnt
      OBVIOUS
    <2>1. m[i].ref_cnt \in Nat /\ a1[i].ref_cnt \in Nat /\ a[i].ref_cnt \in Nat
      BY <1>5, <1>6, <1>8, SMTT(60) DEF memory_map
    <2>2. a1[i].cow_flag = m[i].cow_flag /\ a1[i].ref_cnt >= m[i].ref_cnt
      BY <1>6, <2>1
    <2>3. a[i].cow_flag = a1[i].cow_flag /\ a[i].ref_cnt >= a1[i].ref_cnt
      BY <1>8, <2>1
    <2>4. i \in F => a[i].ref_cnt >= 1
      BY <1>8, <1>9, <2>1, SMTT(60)
    <2>5. i \in Avail(a) => a[i].ref_cnt = a1[i].ref_cnt /\ a1[i].ref_cnt = m[i].ref_cnt
      <3> SUFFICES ASSUME i \in Avail(a) PROVE a[i].ref_cnt = a1[i].ref_cnt /\ a1[i].ref_cnt = m[i].ref_cnt
        BY SMTT(60)
      <3>1. ~(k1 <= i /\ i < k1 + s) /\ ~(k <= i /\ i < k + (TS + n))
        BY Sizes, <1>0, <1>1, <1>3, <1>4, <1>8 DEF k1
      <3> QED
        BY <3>1, <1>6, <1>8, SMTT(60)
    <2> QED
      BY <2>1, <2>2, <2>3, <2>4, <2>5, SMTT(60)
  <1>14. g \in [S -> F] /\ \A u \in S, v \in S : g[u] = g[v] => u = v
    BY ZenonT(60) DEF Placements, F
  <1>15. \A v \in VPage :
           IF v \in S
           THEN /\ Placed(S, g)[v] \in Entry /\ Placed(S, g)[v] # NoPage
                /\ Placed(S, g)[v].frame = g[v]
           ELSE Placed(S, g)[v] = NoPage
    <2> SUFFICES ASSUME NEW v \in VPage
                 PROVE  IF v \in S
                        THEN /\ Placed(S, g)[v] \in Entry /\ Placed(S, g)[v] # NoPage
                             /\ Placed(S, g)[v].frame = g[v]
                        ELSE Placed(S, g)[v] = NoPage
      OBVIOUS
    <2>1. CASE v \in S
      <3>1. Placed(S, g)[v] = [frame |-> g[v], w |-> TRUE]
        BY <2>1 DEF Placed
      <3>2. g[v] \in Frame
        BY <1>11, <1>14, <2>1
      <3>3. [frame |-> g[v], w |-> TRUE] \in [frame : Frame, w : BOOLEAN]
        BY <3>2, Zenon
      <3>4. [frame |-> g[v], w |-> TRUE] # NoPage
        BY Absent, <3>3, Zenon
      <3> QED
        BY <2>1, <3>1, <3>3, <3>4 DEF Entry
    <2>2. CASE v \notin S
      BY <2>2 DEF Placed
    <2> QED
      BY <2>1, <2>2, SMTT(60)
  <1>16. Placed(S, g) \in [VPage -> Entry \cup {NoPage}]
    BY <1>15 DEF Placed
  <1>17. /\ q \in [Task -> [VPage -> Entry \cup {NoPage}]]
         /\ \A u \in Task, x \in VPage : q[u][x] = IF u = c THEN Placed(S, g)[x] ELSE p[u][x]
    BY <1>0, <1>16, ZenonT(60) DEF TypeGood
  <1> HIDE DEF q
  <1>18. \A u \in Task, x \in VPage, f \in Frame :
           Maps(q, u, x, f) <=> IF u = c THEN x \in S /\ g[x] = f ELSE Maps(p, u, x, f)
    BY <1>15, <1>17 DEF Maps
  <1>19. M1 \in [Frame -> Val] /\ \A f \in Frame : M1[f] = IF f \in F THEN img ELSE M[f]
    BY <1>0, ZenonT(60) DEF TypeGood
  <1> HIDE DEF M1
  <1>20. \A u \in Task, x \in VPage : \A f \in Avail(m) : ~Maps(p, u, x, f)
    BY DEF Good, Unused
  <1>21. \A x \in S : g[x] \in F /\ g[x] \in Frame
    BY <1>11, <1>14
  <1>22. Avail(m) # {}
    <2>1. k <= MAX_MEM - 1
      BY Sizes, <1>0, <1>1, <1>3
    <2>2. k \in Avail(m)
      BY <2>1, <1>3
    <2> QED
      BY <2>2, Zenon
  <1> DEFINE ts1 == [ts EXCEPT ![c] = k]
  <1>23. k + TS <= MAX_MEM
    BY Sizes, <1>0, <1>1, <1>3
  <1>24. Avail(a) \subseteq Avail(m) /\ \A i \in Avail(a) : i >= k + TS
    BY <1>11
  <1>25. ts \in [Task -> Frame] /\ Blocks(m, p, ts)
    BY <1>0 DEF Good, TypeGood
  <1>26. FreshBlock(m, a, k, ts, ts1, c)
    BY <1>2, <1>23, <1>24, <1>25, NewBlock, Zenon
  <1> HIDE DEF ts1
  <1>27. /\ mem_allocate_addr(m) = k
         /\ ts1 \in [Task -> Frame]
         /\ \A t \in Task : ts1[t] = IF t = c THEN k ELSE ts[t]
         /\ BlockIn(ts1, c) = k..(k + TS - 1)
         /\ BlockIn(ts1, c) \subseteq Avail(m)
         /\ \A t \in Task : t # c => BlockIn(ts1, t) = BlockIn(ts, t)
         /\ \A t \in Task : BlockIn(ts1, t) \subseteq Frame \ Avail(a)
         /\ \A t \in Task, u \in Task : t # u => BlockIn(ts1, t) \cap BlockIn(ts1, u) = {}
    BY <1>26, ZenonT(60) DEF FreshBlock
  <1>30. TypeGood(a, M1, L1, q, ts1)
    BY <1>0, <1>8, <1>17, <1>19, <1>27, ZenonT(60) DEF TypeGood
  <1>31. Unused(a, M1, q)
    <2>1. \A f \in Avail(a) : a[f].ref_cnt = 0 /\ M1[f] = zero
      BY <1>11, <1>12, <1>13, <1>19, Zenon DEF Good, Unused
    <2>2. \A f \in Avail(a), u \in Task, x \in VPage : ~Maps(q, u, x, f)
      BY <1>11, <1>12, <1>18, <1>20, <1>21
    <2> QED
      BY <2>1, <2>2 DEF Unused
  <1>32. FrameZero(a, q)
    <2>1. \A u \in Task, x \in VPage : ~Maps(q, u, x, 0)
      BY <1>11, <1>12, <1>18, <1>21, <1>22, ZenonT(60) DEF Good, FrameZero
    <2> QED
      BY <2>1, <1>12, <1>13, Zenon DEF Good, FrameZero
  <1>33. Counted(a, q)
    <2> SUFFICES ASSUME NEW f \in Frame \ {0}
                 PROVE  Cardinality(MappersIn(q, f)) <= a[f].ref_cnt
      BY DEF Counted
    <2>1. CASE \E x \in S : g[x] = f
      <3>1. PICK v \in S : g[v] = f
        BY <2>1
      <3>2. \A u \in Task, x \in VPage : Maps(q, u, x, f) <=> u = c /\ x = v
        BY <1>11, <1>14, <1>18, <1>20, <1>21, <3>1
      <3>3. \A u \in Task, x \in VPage : <<u, x>> \in MappersIn(q, f) <=> <<u, x>> \in {<<c, v>>}
        BY <3>2, InMappers
      <3>4. {<<c, v>>} \in SUBSET (Task \X VPage)
        BY SMTT(60)
      <3>5. MappersIn(q, f) = {<<c, v>>}
        BY <3>3, <3>4, FiniteMappers, SamePairs
      <3>6. Cardinality({<<c, v>>}) = 1
        BY FS_Singleton, Zenon
      <3>7. a[f].ref_cnt >= 1
        BY <1>13, <1>21, <3>1, Zenon
      <3> QED
        BY <3>5, <3>6, <3>7
    <2>2. CASE ~\E x \in S : g[x] = f
      <3>1. \A x \in VPage : ~Maps(p, c, x, f)
        BY Zenon DEF Good, Born, Maps
      <3>2. \A u \in Task, x \in VPage : Maps(q, u, x, f) <=> Maps(p, u, x, f)
        BY <1>18, <2>2, <3>1
      <3>3. \A u \in Task, x \in VPage : <<u, x>> \in MappersIn(q, f) <=> <<u, x>> \in MappersIn(p, f)
        BY <3>2, InMappers
      <3>4. MappersIn(q, f) = MappersIn(p, f)
        <4>1. MappersIn(q, f) \in SUBSET (Task \X VPage) /\ MappersIn(p, f) \in SUBSET (Task \X VPage)
          BY FiniteMappers, ZenonT(60)
        <4> QED
          BY <3>3, <4>1, SamePairs, Zenon
      <3>5. Cardinality(MappersIn(p, f)) <= m[f].ref_cnt /\ Cardinality(MappersIn(p, f)) \in Nat
        BY FiniteMappers DEF Good, Counted
      <3>6. m[f].ref_cnt \in Nat
        BY <1>5, ZenonT(60) DEF memory_map
      <3> QED
        BY <3>4, <3>5, <3>6, <1>13, CoverGrows, Zenon
    <2> QED
      BY <2>1, <2>2, SMTT(60)
  <1>34. Sole(q)
    <2>1. \A f \in Frame \ {0}, u \in Task, x \in VPage, v \in VPage :
            Maps(q, c, v, f) /\ Maps(q, u, x, f) => u = c /\ x = v
      BY <1>11, <1>14, <1>18, <1>20, <1>21, SMTT(60)
    <2>2. \A u \in Task, x \in VPage : u # c => q[u][x] = p[u][x]
      BY <1>17
    <2>3. \A f \in Frame \ {0}, t \in Task, u \in Task, v \in VPage, x \in VPage :
            t # c /\ u # c /\ Maps(q, t, v, f) /\ q[t][v].w /\ Maps(q, u, x, f) => u = t /\ x = v
      <3> SUFFICES ASSUME NEW f \in Frame \ {0}, NEW t \in Task, NEW u \in Task,
                          NEW v \in VPage, NEW x \in VPage, t # c, u # c,
                          Maps(q, t, v, f), q[t][v].w, Maps(q, u, x, f)
                   PROVE  u = t /\ x = v
        BY Zenon
      <3>1. Maps(p, t, v, f) /\ Maps(p, u, x, f) /\ p[t][v].w
        BY <2>2, Zenon DEF Maps
      <3>2. Sole(p)
        BY Zenon DEF Good
      <3> QED
        BY <3>1, <3>2, Zenon DEF Sole
    <2> QED
      BY <2>1, <2>3 DEF Sole
  <1>35. Once(q)
    <2>1. \A f \in Frame \ {0}, x \in VPage, v \in VPage :
            Maps(q, c, v, f) /\ Maps(q, c, x, f) => x = v
      BY <1>14, <1>18, SMTT(60)
    <2> QED
      BY <2>1, <1>18 DEF Good, Once
  <1>36. Born(L1, q, ts1)
    <2>1. L \subseteq Task /\ k # 0
      BY <1>0, <1>3 DEF TypeGood
    <2>2. \A t \in L1 : ts1[t] # 0
      BY <2>1, <1>27 DEF Good, Born
    <2>3. \A t \in Task, v \in VPage : ts1[t] = 0 => q[t][v] = NoPage
      BY <2>1, <1>17, <1>27 DEF Good, Born
    <2> QED
      BY <2>2, <2>3 DEF Born
  <1>37. Blocks(a, q, ts1)
    <2>1. \A u \in Task, x \in VPage : \A f \in BlockIn(ts1, c) : ~Maps(q, u, x, f)
      <3>1. \A f \in BlockIn(ts1, c) : f \notin F
        BY Sizes, <1>0, <1>1, <1>3, <1>4, <1>9, <1>27, SMTT(60) DEF k1
      <3> QED
        BY <3>1, <1>12, <1>18, <1>20, <1>21, <1>27, SMTT(60)
    <2>2. \A t \in Task, u \in Task, x \in VPage : t # c =>
            \A f \in BlockIn(ts1, t) : ~Maps(q, u, x, f)
      <3>1. \A t \in Task : t # c => \A f \in BlockIn(ts1, t) : f \in Frame /\ f \notin F
        BY <1>11, <1>27 DEF Good, Blocks
      <3>2. \A t \in Task, u \in Task, x \in VPage : t # c =>
              \A f \in BlockIn(ts1, t) : ~Maps(p, u, x, f)
        BY <1>27 DEF Good, Blocks
      <3> QED
        BY <3>1, <3>2, <1>18, <1>21, SMTT(60)
    <2> QED
      BY <2>1, <2>2, <1>27, ZenonT(60) DEF Blocks
  <1>38. Good(a, M1, L1, q, ts1)
    BY <1>10, <1>30, <1>31, <1>32, <1>33, <1>34, <1>35, <1>36, <1>37 DEF Good
  <1> QED
    BY <1>11, <1>27, <1>38 DEF AfterExec, a, a1, M1, q, ts1, F, s

(* sys_fork(), with cow_walk_pages() over the parent's table.              *)
SharedIn(p, t) == [v \in VPage |-> IF p[t][v] # NoPage THEN [p[t][v] EXCEPT !.w = FALSE] ELSE NoPage]

FramesIn(p, t) == {p[t][v].frame : v \in {u \in VPage : p[t][u] # NoPage}}

WalkIn(m, p, t) ==
  [f \in Frame |-> IF f \in FramesIn(p, t)
                   THEN [m[f] EXCEPT !.ref_cnt = @ + 1, !.cow_flag = TRUE]
                   ELSE m[f]]

LEMMA SharedEntry ==
  ASSUME NEW e \in Entry
  PROVE  /\ [e EXCEPT !.w = FALSE] \in Entry
         /\ [e EXCEPT !.w = FALSE].frame = e.frame
         /\ ~[e EXCEPT !.w = FALSE].w
         /\ [e EXCEPT !.w = FALSE] # NoPage
  <1>1. [e EXCEPT !.w = FALSE] \in Entry
    BY Zenon DEF Entry
  <1>2. [e EXCEPT !.w = FALSE].frame = e.frame /\ ~[e EXCEPT !.w = FALSE].w
    BY Zenon DEF Entry
  <1> QED
    BY Absent, <1>1, <1>2, Zenon DEF Entry

LEMMA WalkEntry ==
  ASSUME NEW e \in memory_map
  PROVE  /\ [e EXCEPT !.ref_cnt = @ + 1, !.cow_flag = TRUE] \in memory_map
         /\ [e EXCEPT !.ref_cnt = @ + 1, !.cow_flag = TRUE].ref_cnt = e.ref_cnt + 1
         /\ [e EXCEPT !.ref_cnt = @ + 1, !.cow_flag = TRUE].res_flag = e.res_flag
  <1>1. e.ref_cnt + 1 \in Nat
    BY DEF memory_map
  <1> QED
    BY <1>1, Zenon DEF memory_map

AfterFork(m, M, L1, p, ts, t, c, n) ==
  Good(WalkIn(Structs(m, n), p, t), M, L1,
       [p EXCEPT ![t] = SharedIn(p, t), ![c] = SharedIn(p, t)],
       [ts EXCEPT ![c] = mem_allocate_addr(m)])

LEMMA ForkGood ==
  ASSUME NEW m, NEW M, NEW L, NEW p, NEW ts, Good(m, M, L, p, ts),
         NEW t \in L, NEW c \in Task, ts[c] = 0, NEW n \in TableFrames,
         Enough(m, TS + n),
         NEW L1 \in SUBSET (L \cup {c})
  PROVE  AfterFork(m, M, L1, p, ts, t, c, n)
  <1> DEFINE a1 == Structs(m, n)
             a == WalkIn(a1, p, t)
             F == FramesIn(p, t)
             q == [p EXCEPT ![t] = SharedIn(p, t), ![c] = SharedIn(p, t)]
  <1>0. TypeGood(m, M, L, p, ts) /\ n \in Nat /\ TS + n \in Nat /\ t \in Task
    BY Sizes, SMTT(60) DEF Good, TypeGood
  <1>1. t # c
    BY DEF Good, Born
  <1>2. PICK k : Suffix(m, k)
    BY DEF Good
  <1> DEFINE ts1 == [ts EXCEPT ![c] = k]
             k1 == k + (TS + n)
  <1>3. k \in Nat /\ k >= 1 /\ Avail(m) = k..(MAX_MEM - 1) /\ k1 <= MAX_MEM
    <2>1. k + (TS + n) <= MAX_MEM
      BY <1>0, <1>2, EnoughSuffix
    <2> QED
      BY <1>2, <2>1 DEF Suffix
  <1>4. m \in [Frame -> memory_map]
    BY <1>0 DEF TypeGood
  <1>5. /\ a1 \in [Frame -> memory_map]
        /\ Avail(a1) = {i \in k..(MAX_MEM - 1) : i >= k + (TS + n)}
        /\ \A i \in Frame : IF k <= i /\ i < k + (TS + n)
                            THEN a1[i].ref_cnt = m[i].ref_cnt + 1 /\ a1[i].cow_flag = m[i].cow_flag
                            ELSE a1[i] = m[i]
    BY <1>0, <1>2, <1>4, AllocSuffix DEF Structs
  <1> HIDE DEF a1
  <1>6. Avail(a1) = k1..(MAX_MEM - 1)
    BY <1>0, <1>3, <1>5
  <1>7. \A i \in Frame : /\ i \in F => a[i] = [a1[i] EXCEPT !.ref_cnt = @ + 1, !.cow_flag = TRUE]
                         /\ i \notin F => a[i] = a1[i]
    BY DEF WalkIn
  <1>8. a \in [Frame -> memory_map]
    <2>1. \A i \in Frame : a[i] \in memory_map
      <3> SUFFICES ASSUME NEW i \in Frame PROVE a[i] \in memory_map
        OBVIOUS
      <3>1. a1[i] \in memory_map
        BY <1>5
      <3>2. [a1[i] EXCEPT !.ref_cnt = @ + 1, !.cow_flag = TRUE] \in memory_map
        BY <3>1, WalkEntry, Zenon
      <3> HIDE DEF a, F
      <3> QED
        BY <3>1, <3>2, <1>7, Zenon
    <2> QED
      BY <2>1, Zenon DEF WalkIn
  <1> HIDE DEF a, F
  <1>9. \A i \in Frame : /\ a[i].res_flag = a1[i].res_flag
                         /\ i \in F => a[i].ref_cnt = a1[i].ref_cnt + 1
                         /\ i \notin F => a[i].ref_cnt = a1[i].ref_cnt /\ a[i].cow_flag = a1[i].cow_flag
    BY <1>5, <1>7, WalkEntry, Zenon
  <1>10. Avail(a) = k1..(MAX_MEM - 1)
    BY <1>6, <1>9 DEF Avail
  <1>11. Suffix(a, k1)
    BY <1>0, <1>3, <1>10 DEF Suffix
  <1>12. Avail(a) \subseteq Avail(m) /\ \A i \in Avail(a) : i >= k + TS
    BY Sizes, <1>0, <1>3, <1>10
  <1>13. Avail(m) \subseteq Frame /\ Avail(a) \subseteq Frame /\ 0 \in Frame
    BY DEF Avail, Frame
  <1>14. Avail(m) # {}
    <2>1. k \in Avail(m)
      BY Sizes, <1>0, <1>3
    <2> QED
      BY <2>1, Zenon
  <1>15. k + TS <= MAX_MEM
    BY Sizes, <1>0, <1>3
  <1>16. ts \in [Task -> Frame] /\ Blocks(m, p, ts)
    BY <1>0 DEF Good, TypeGood
  <1>17. FreshBlock(m, a, k, ts, ts1, c)
    BY <1>2, <1>12, <1>15, <1>16, NewBlock, Zenon
  <1> HIDE DEF ts1, k1
  <1>18. /\ mem_allocate_addr(m) = k
         /\ ts1 \in [Task -> Frame]
         /\ \A u \in Task : ts1[u] = IF u = c THEN k ELSE ts[u]
         /\ BlockIn(ts1, c) \subseteq Avail(m)
         /\ \A u \in Task : u # c => BlockIn(ts1, u) = BlockIn(ts, u)
         /\ \A u \in Task : BlockIn(ts1, u) \subseteq Frame \ Avail(a)
         /\ \A u \in Task, x \in Task : u # x => BlockIn(ts1, u) \cap BlockIn(ts1, x) = {}
    BY <1>17, Zenon DEF FreshBlock
  <1>19. p \in [Task -> [VPage -> Entry \cup {NoPage}]]
    BY <1>0, Zenon DEF TypeGood
  <1>20. \A x \in VPage :
           IF p[t][x] # NoPage
           THEN /\ SharedIn(p, t)[x] \in Entry /\ SharedIn(p, t)[x] # NoPage
                /\ SharedIn(p, t)[x].frame = p[t][x].frame /\ ~SharedIn(p, t)[x].w
           ELSE SharedIn(p, t)[x] = NoPage
    <2> SUFFICES ASSUME NEW x \in VPage
                 PROVE  IF p[t][x] # NoPage
                        THEN /\ SharedIn(p, t)[x] \in Entry /\ SharedIn(p, t)[x] # NoPage
                             /\ SharedIn(p, t)[x].frame = p[t][x].frame /\ ~SharedIn(p, t)[x].w
                        ELSE SharedIn(p, t)[x] = NoPage
      OBVIOUS
    <2>1. CASE p[t][x] # NoPage
      <3>1. p[t][x] \in Entry
        BY <1>0, <1>19, <2>1
      <3>2. SharedIn(p, t)[x] = [p[t][x] EXCEPT !.w = FALSE]
        BY <2>1 DEF SharedIn
      <3> QED
        BY <2>1, <3>1, <3>2, SharedEntry
    <2>2. CASE p[t][x] = NoPage
      BY <2>2 DEF SharedIn
    <2> QED
      BY <2>1, <2>2, ZenonT(60)
  <1>21. SharedIn(p, t) \in [VPage -> Entry \cup {NoPage}]
    BY <1>20 DEF SharedIn
  <1>22. /\ q \in [Task -> [VPage -> Entry \cup {NoPage}]]
         /\ \A u \in Task : q[u] = IF u = t \/ u = c THEN SharedIn(p, t) ELSE p[u]
    BY <1>0, <1>1, <1>19, <1>21, Zenon
  <1> HIDE DEF q
  <1>23. \A u \in Task, x \in VPage, f \in Frame :
           Maps(q, u, x, f) <=> IF u = c THEN Maps(p, t, x, f) ELSE Maps(p, u, x, f)
    BY <1>0, <1>20, <1>22, ZenonT(60) DEF Maps
  <1>24. \A u \in Task, x \in VPage : u = t \/ u = c => q[u][x] = NoPage \/ ~q[u][x].w
    BY <1>20, <1>22
  <1>25. \A f \in Frame : f \in F <=> \E x \in VPage : Maps(p, t, x, f)
    BY DEF F, FramesIn, Maps
  <1>26. \A u \in Task, x \in VPage : \A f \in Avail(m) : ~Maps(p, u, x, f)
    BY Zenon DEF Good, Unused
  <1>30. TypeGood(a, M, L1, q, ts1)
    BY <1>0, <1>8, <1>18, <1>22, Zenon DEF TypeGood
  <1>31. Unused(a, M, q)
    <2>1. \A f \in Avail(a), u \in Task, x \in VPage : ~Maps(q, u, x, f)
      BY <1>0, <1>12, <1>13, <1>23, <1>26
    <2>2. \A f \in Avail(a) : a[f].ref_cnt = 0 /\ M[f] = zero
      <3> SUFFICES ASSUME NEW f \in Avail(a) PROVE a[f].ref_cnt = 0 /\ M[f] = zero
        OBVIOUS
      <3>1. f \in Frame /\ f \in Avail(m) /\ f \notin F
        BY <1>0, <1>12, <1>13, <1>25, <1>26
      <3>2. ~(k <= f /\ f < k + (TS + n))
        BY <1>0, <1>3, <1>10 DEF k1
      <3>3. a[f].ref_cnt = m[f].ref_cnt
        BY <3>1, <3>2, <1>5, <1>9
      <3> QED
        BY <3>1, <3>3, ZenonT(60) DEF Good, Unused
    <2> QED
      BY <2>1, <2>2, Zenon DEF Unused
  <1>32. FrameZero(a, q)
    <2>1. \A u \in Task, x \in VPage : ~Maps(p, u, x, 0)
      BY <1>14 DEF Good, FrameZero
    <2>2. 0 \notin F
      BY <2>1, <1>0, <1>13, <1>25
    <2>3. a1[0].cow_flag = m[0].cow_flag
      BY <1>5, <1>13
    <2>4. ~a[0].cow_flag
      BY <2>2, <2>3, <1>9, <1>13, ZenonT(60) DEF Good, FrameZero
    <2> QED
      BY <2>1, <2>4, <1>0, <1>13, <1>23 DEF FrameZero
  <1>33. Counted(a, q)
    <2> SUFFICES ASSUME NEW f \in Frame \ {0}
                 PROVE  Cardinality(MappersIn(q, f)) <= a[f].ref_cnt
      BY DEF Counted
    <2>1. Cardinality(MappersIn(p, f)) <= m[f].ref_cnt /\ Cardinality(MappersIn(p, f)) \in Nat
          /\ IsFiniteSet(MappersIn(p, f))
      BY FiniteMappers, Zenon DEF Good, Counted
    <2>2. m[f].ref_cnt \in Nat /\ a1[f].ref_cnt \in Nat /\ a1[f].ref_cnt >= m[f].ref_cnt
      BY <1>4, <1>5 DEF memory_map
    <2>3. \A x \in VPage : ~Maps(p, c, x, f)
      BY Zenon DEF Good, Born, Maps
    <2>4. MappersIn(q, f) \in SUBSET (Task \X VPage) /\ MappersIn(p, f) \in SUBSET (Task \X VPage)
      BY FiniteMappers, ZenonT(60)
    <2>5. CASE f \in F
      <3>1. PICK v \in VPage : Maps(p, t, v, f)
        BY <1>25, <2>5
      <3>2. \A x \in VPage : Maps(p, t, x, f) <=> x = v
        BY <1>0, <3>1 DEF Good, Once
      <3>3. \A u \in Task, x \in VPage : Maps(q, u, x, f) <=> Maps(p, u, x, f) \/ (u = c /\ x = v)
        BY <1>23, <2>3, <3>2
      <3>4. \A u \in Task, x \in VPage :
              <<u, x>> \in MappersIn(q, f) <=> <<u, x>> \in MappersIn(p, f) \cup {<<c, v>>}
        BY <3>3, InMappers, Zenon
      <3>5. MappersIn(p, f) \cup {<<c, v>>} \in SUBSET (Task \X VPage)
        BY <2>4
      <3>6. MappersIn(q, f) = MappersIn(p, f) \cup {<<c, v>>}
        BY <2>4, <3>4, <3>5, SamePairs
      <3>7. <<c, v>> \notin MappersIn(p, f)
        BY <2>3, InMappers, Zenon
      <3>8. Cardinality(MappersIn(p, f) \cup {<<c, v>>}) = Cardinality(MappersIn(p, f)) + 1
        BY <2>1, <3>7, FS_AddElement, ZenonT(60)
      <3> QED
        BY <1>9, <2>1, <2>2, <2>5, <3>6, <3>8
    <2>6. CASE f \notin F
      <3>1. \A u \in Task, x \in VPage : Maps(q, u, x, f) <=> Maps(p, u, x, f)
        BY <1>23, <1>25, <2>3, <2>6
      <3>2. \A u \in Task, x \in VPage : <<u, x>> \in MappersIn(q, f) <=> <<u, x>> \in MappersIn(p, f)
        BY <3>1, InMappers, Zenon
      <3>3. MappersIn(q, f) = MappersIn(p, f)
        BY <2>4, <3>2, SamePairs, ZenonT(60)
      <3> QED
        BY <1>9, <2>1, <2>2, <2>6, <3>3, SMTT(60)
    <2> QED
      BY <2>5, <2>6
  <1>34. Sole(q)
    <2> SUFFICES ASSUME NEW f \in Frame \ {0}, NEW u1 \in Task, NEW u2 \in Task,
                        NEW x1 \in VPage, NEW x2 \in VPage,
                        Maps(q, u1, x1, f), q[u1][x1].w, Maps(q, u2, x2, f)
                 PROVE  u2 = u1 /\ x2 = x1
      BY SMTT(60) DEF Sole
    <2>1. u1 # t /\ u1 # c
      BY <1>24 DEF Maps
    <2>2. Maps(p, u1, x1, f) /\ p[u1][x1].w
      BY <1>22, <1>23, <2>1
    <2>3. CASE u2 = c
      <3>1. Maps(p, t, x2, f)
        BY <1>23, <2>3
      <3> QED
        BY <1>0, <2>1, <2>2, <3>1, ZenonT(60) DEF Good, Sole
    <2>4. CASE u2 # c
      <3>1. Maps(p, u2, x2, f)
        BY <1>23, <2>4, Zenon
      <3>2. Sole(p)
        BY Zenon DEF Good
      <3> QED
        BY <2>2, <3>1, <3>2, Zenon DEF Sole
    <2> QED
      BY <2>3, <2>4, ZenonT(60)
  <1>35. Once(q)
    <2> SUFFICES ASSUME NEW f \in Frame \ {0}, NEW u \in Task, NEW x1 \in VPage, NEW x2 \in VPage,
                        Maps(q, u, x1, f), Maps(q, u, x2, f)
                 PROVE  x2 = x1
      BY Zenon DEF Once
    <2>1. Once(p)
      BY Zenon DEF Good
    <2>2. CASE u = c
      <3>1. Maps(p, t, x1, f) /\ Maps(p, t, x2, f)
        BY <1>23, <2>2, Zenon
      <3> QED
        BY <1>0, <2>1, <3>1, Zenon DEF Once
    <2>3. CASE u # c
      <3>1. Maps(p, u, x1, f) /\ Maps(p, u, x2, f)
        BY <1>23, <2>3, Zenon
      <3> QED
        BY <2>1, <3>1, Zenon DEF Once
    <2> QED
      BY <2>2, <2>3, Zenon
  <1>36. Born(L1, q, ts1)
    <2>1. L \subseteq Task /\ k # 0
      BY <1>0, <1>3 DEF TypeGood
    <2>2. \A u \in L1 : ts1[u] # 0
      BY <2>1, <1>18, SMTT(60) DEF Good, Born
    <2>3. \A u \in Task, v \in VPage : ts1[u] = 0 => q[u][v] = NoPage
      <3>1. ts[t] # 0
        BY Zenon DEF Good, Born
      <3> QED
        BY <2>1, <3>1, <1>18, <1>22 DEF Good, Born
    <2> QED
      BY <2>2, <2>3 DEF Born
  <1>37. Blocks(a, q, ts1)
    <2>1. \A u \in Task, x \in VPage : \A f \in BlockIn(ts1, c) : ~Maps(q, u, x, f)
      BY <1>0, <1>13, <1>18, <1>23, <1>26, SMTT(60)
    <2>2. \A y \in Task, u \in Task, x \in VPage : y # c =>
            \A f \in BlockIn(ts1, y) : ~Maps(q, u, x, f)
      <3>1. \A y \in Task, u \in Task, x \in VPage : y # c =>
              \A f \in BlockIn(ts1, y) : ~Maps(p, u, x, f) /\ f \in Frame
        BY <1>18 DEF Good, Blocks
      <3> QED
        BY <3>1, <1>0, <1>23, SMTT(60)
    <2> QED
      BY <2>1, <2>2, <1>18, SMTT(60) DEF Blocks
  <1>38. Good(a, M, L1, q, ts1)
    BY <1>11, <1>30, <1>31, <1>32, <1>33, <1>34, <1>35, <1>36, <1>37 DEF Good
  <1> QED
    BY <1>18, <1>38, Zenon DEF AfterFork, a, a1, q, ts1

-----------------------------------------------------------------------------
(* Boot: create_process() for the first task, in a machine without tasks.  *)
LEMMA InitSuffix == \E k : Suffix(init_memmap, k)
  <1> DEFINE d == (physfree - 1) \div 4096
             k == IF d + 1 <= MAX_MEM THEN d + 1 ELSE MAX_MEM
  <1>1. d \in Nat /\ d * 4096 <= physfree - 1 /\ physfree - 1 < (d + 1) * 4096
    OBVIOUS
  <1> HIDE DEF d
  <1>2. k \in 1..MAX_MEM
    BY <1>1
  <1>3. \A i \in Frame : i \in Nat /\ i < MAX_MEM
    BY DEF Frame
  <1>4. \A i \in Frame : i * 4096 < physfree <=> i <= d
    BY <1>1, <1>3
  <1>5. \A i \in Frame : init_memmap[i].res_flag = "AVAIL" <=> ~(i * 4096 < physfree)
    BY DEF init_memmap, PAGE_SIZE
  <1>6. \A i \in Frame : init_memmap[i].res_flag = "AVAIL" <=> k <= i
    BY <1>1, <1>3, <1>4, <1>5
  <1>7. Avail(init_memmap) = k..(MAX_MEM - 1)
    BY <1>2, <1>6 DEF Avail, Frame
  <1>8. Suffix(init_memmap, k)
    BY <1>2, <1>7 DEF Suffix
  <1> QED
    BY <1>8

LEMMA BlankGood ==
  Good(init_memmap, [f \in Frame |-> zero], {},
       [t \in Task |-> [v \in VPage |-> NoPage]], [t \in Task |-> 0])
  <1> DEFINE M == [f \in Frame |-> zero]
             p == [t \in Task |-> [v \in VPage |-> NoPage]]
             ts == [t \in Task |-> 0]
  <1>1. 0 \in Frame
    BY DEF Frame
  <1>2. init_memmap \in [Frame -> memory_map]
    BY DEF init_memmap, memory_map
  <1>3. TypeGood(init_memmap, M, {}, p, ts)
    BY MemoryAssumption, <1>1, <1>2 DEF TypeGood
  <1>4. \A t \in Task, v \in VPage, f \in Frame : ~Maps(p, t, v, f)
    BY DEF Maps
  <1>5. \A t \in Task : BlockIn(ts, t) = {}
    BY DEF BlockIn
  <1>6. \A f \in Frame : init_memmap[f].ref_cnt \in Nat /\ ~init_memmap[f].cow_flag
    BY DEF init_memmap
  <1>7. \A f \in Avail(init_memmap) : f \in Frame /\ init_memmap[f].ref_cnt = 0
    BY DEF init_memmap, Avail
  <1>8. \A f \in Frame : Cardinality(MappersIn(p, f)) = 0
    <2> SUFFICES ASSUME NEW f \in Frame PROVE Cardinality(MappersIn(p, f)) = 0
      OBVIOUS
    <2>1. \A t \in Task, v \in VPage : <<t, v>> \in MappersIn(p, f) <=> <<t, v>> \in {}
      BY <1>4, InMappers
    <2>2. MappersIn(p, f) \in SUBSET (Task \X VPage) /\ {} \in SUBSET (Task \X VPage)
      BY FiniteMappers
    <2>3. MappersIn(p, f) = {}
      BY <2>1, <2>2, SamePairs
    <2> QED
      BY <2>3, FS_EmptySet
  <1>9. Born({}, p, ts)
    BY DEF Born
  <1> HIDE DEF M, p, ts
  <1>10. \A f \in Frame : M[f] = zero
    BY SMTT(60) DEF M
  <1>11. Unused(init_memmap, M, p)
    BY <1>4, <1>7, <1>10 DEF Unused
  <1>12. FrameZero(init_memmap, p)
    BY <1>1, <1>4, <1>6 DEF FrameZero
  <1>13. Counted(init_memmap, p)
    BY <1>6, <1>8 DEF Counted
  <1>14. Sole(p) /\ Once(p)
    BY <1>4 DEF Sole, Once
  <1>15. Blocks(init_memmap, p, ts)
    BY <1>5 DEF Blocks
  <1> QED
    BY <1>3, <1>9, <1>11, <1>12, <1>13, <1>14, <1>15, InitSuffix DEF Good, M, p, ts

LEMMA InitIInv == Init => IInv
  <1> SUFFICES ASSUME Init PROVE IInv
    OBVIOUS
  <1>1. PICK n \in TableFrames, S \in SUBSET (VPage \ LowPage), img \in Val :
          /\ Enough(init_memmap, TS + n + Cardinality(S))
          /\ memmap = mem_allocate(Structs(init_memmap, n), Cardinality(S))
          /\ tstruct = [t \in Task |-> IF t = sbush THEN mem_allocate_addr(init_memmap) ELSE 0]
          /\ \E g \in Placements(S, Pages(init_memmap, n, S)) :
               pt = [t \in Task |-> Placed(IF t = sbush THEN S ELSE {}, g)]
          /\ mem = [f \in Frame |-> IF f \in Pages(init_memmap, n, S) THEN img ELSE zero]
          /\ live = {sbush}
          /\ lowheap = {}
    BY DEF Init
  <1>2. PICK g \in Placements(S, Pages(init_memmap, n, S)) :
          pt = [t \in Task |-> Placed(IF t = sbush THEN S ELSE {}, g)]
    BY <1>1
  <1> DEFINE M == [f \in Frame |-> zero]
             p == [t \in Task |-> [v \in VPage |-> NoPage]]
             ts == [t \in Task |-> 0]
  <1>3. pt = [p EXCEPT ![sbush] = Placed(S, g)]
    BY <1>2, Zenon DEF Placed
  <1>4. tstruct = [ts EXCEPT ![sbush] = mem_allocate_addr(init_memmap)]
    BY <1>1
  <1>5. mem = [f \in Frame |-> IF f \in Pages(init_memmap, n, S) THEN img ELSE M[f]]
    BY <1>1
  <1>6. S \in SUBSET VPage /\ ts[sbush] = 0 /\ {sbush} \in SUBSET ({} \cup {sbush})
    BY MemoryAssumption
  <1>7. Good(init_memmap, M, {}, p, ts)
    BY BlankGood
  <1> HIDE DEF M, p, ts
  <1>8. AfterExec(init_memmap, M, {sbush}, p, ts, sbush, n, S, img, g)
    BY MemoryAssumption, <1>1, <1>6, <1>7, ExecGood, Zenon
  <1> QED
    BY <1>1, <1>3, <1>4, <1>5, <1>8, Zenon DEF IInv, AfterExec

-----------------------------------------------------------------------------
(* The state predicates of Memory, in terms of the operators above.        *)
LEMMA SameNames ==
  /\ \A f : Mappers(f) = MappersIn(pt, f)
  /\ \A t \in Task, v \in VPage : Present(t, v) <=> pt[t][v] # NoPage
  /\ \A t \in Task : Block(t) = BlockIn(tstruct, t)
  /\ \A t \in Task : Shared(t) = SharedIn(pt, t)
  /\ \A t \in Task : \A m : cow_walk_pages(m, t) = WalkIn(m, pt, t)
  BY DEF Mappers, MappersIn, Maps, Present, Block, BlockIn, Shared, SharedIn,
         cow_walk_pages, WalkIn, FramesOf, FramesIn

-----------------------------------------------------------------------------
(* One lemma per action.                                                   *)
LEMMA ExitStep ==
  ASSUME IInv, NEW t \in Task, sys_exit(t)
  PROVE  IInv'
  <1>1. Good(memmap, mem, live, pt, tstruct) /\ lowheap \subseteq Task
    BY DEF IInv
  <1>2. live' \subseteq live
    BY DEF sys_exit
  <1>3. Good(memmap, mem, live', pt, tstruct)
    BY <1>1, <1>2 DEF Good, TypeGood, Born
  <1> QED
    BY <1>1, <1>3 DEF IInv, sys_exit

LEMMA ForkStep ==
  ASSUME IInv, NEW t \in Task, NEW c \in Task, NEW n \in TableFrames,
         NEW room \in BOOLEAN, NEW unaligned \in BOOLEAN,
         sys_fork(t, c, n, room, unaligned)
  PROVE  IInv'
  <1>1. Good(memmap, mem, live, pt, tstruct) /\ lowheap \subseteq Task
    BY DEF IInv
  <1>2. t \in live /\ tstruct[c] = 0 /\ Enough(memmap, TS + n) /\ live' \in SUBSET (live \cup {c})
    BY DEF sys_fork, Unborn
  <1>3. AfterFork(memmap, mem, live', pt, tstruct, t, c, n)
    BY <1>1, <1>2, ForkGood
  <1>4. /\ memmap' = WalkIn(Structs(memmap, n), pt, t)
        /\ pt' = [pt EXCEPT ![t] = SharedIn(pt, t), ![c] = SharedIn(pt, t)]
        /\ tstruct' = [tstruct EXCEPT ![c] = mem_allocate_addr(memmap)]
        /\ mem' = mem
    BY SameNames, Zenon DEF sys_fork
  <1>5. lowheap' \subseteq Task
    BY <1>1, SMTT(60) DEF sys_fork
  <1> QED
    BY <1>3, <1>4, <1>5 DEF IInv, AfterFork

LEMMA ExecStep ==
  ASSUME IInv, NEW t \in Task, NEW c \in Task, NEW n \in TableFrames,
         NEW S \in SUBSET (VPage \ LowPage), NEW img \in Val, NEW room \in BOOLEAN,
         sys_execve(t, c, n, S, img, room)
  PROVE  IInv'
  <1>1. Good(memmap, mem, live, pt, tstruct) /\ lowheap \subseteq Task
    BY DEF IInv
  <1>2. PICK g \in Placements(S, Pages(memmap, n, S)) : pt' = [pt EXCEPT ![c] = Placed(S, g)]
    BY Zenon DEF sys_execve
  <1>3. /\ tstruct[c] = 0 /\ Enough(memmap, TS + n + Cardinality(S))
        /\ live' \in SUBSET (live \cup {c}) /\ S \in SUBSET VPage
    BY SMTT(60) DEF sys_execve, Unborn
  <1>4. AfterExec(memmap, mem, live', pt, tstruct, c, n, S, img, g)
    BY <1>1, <1>3, ExecGood, SMTT(60)
  <1>5. /\ memmap' = mem_allocate(Structs(memmap, n), Cardinality(S))
        /\ tstruct' = [tstruct EXCEPT ![c] = mem_allocate_addr(memmap)]
        /\ mem' = [f \in Frame |-> IF f \in Pages(memmap, n, S) THEN img ELSE mem[f]]
        /\ lowheap' = lowheap
    BY DEF sys_execve
  <1> QED
    BY <1>1, <1>2, <1>4, <1>5 DEF IInv, AfterExec

LEMMA LeqTrans == \A i, j, l \in Nat : i <= j /\ j <= l => i <= l
  OBVIOUS

(* A frame may lose a mapping without its count falling too low.           *)
LEMMA FewerMappers ==
  ASSUME NEW m, NEW M, NEW L, NEW p, NEW ts, Good(m, M, L, p, ts),
         NEW t, NEW v
  PROVE  \A f \in Frame \ {0} : Cardinality(MappersIn(p, f) \ {<<t, v>>}) <= m[f].ref_cnt
  <1> SUFFICES ASSUME NEW f \in Frame \ {0}
               PROVE  Cardinality(MappersIn(p, f) \ {<<t, v>>}) <= m[f].ref_cnt
    OBVIOUS
  <1>1. IsFiniteSet(MappersIn(p, f))
    BY FiniteMappers
  <1>2. /\ IsFiniteSet(MappersIn(p, f) \ {<<t, v>>})
        /\ Cardinality(MappersIn(p, f) \ {<<t, v>>}) <= Cardinality(MappersIn(p, f))
    BY <1>1, FS_Subset
  <1>3. /\ Cardinality(MappersIn(p, f)) <= m[f].ref_cnt
        /\ m[f].ref_cnt \in Nat
    BY DEF Good, Counted, TypeGood, memory_map
  <1>4. /\ Cardinality(MappersIn(p, f)) \in Nat
        /\ Cardinality(MappersIn(p, f) \ {<<t, v>>}) \in Nat
    BY <1>1, <1>2, FS_CardinalityType, SMTT(60)
  <1> QED
    BY <1>2, <1>3, <1>4, LeqTrans, ZenonT(60)

(* A page is mapped anew: demand_page() and sys_brk().                     *)
LEMMA MapGood ==
  ASSUME NEW m, NEW M, NEW L, NEW p, NEW ts, Good(m, M, L, p, ts),
         NEW t \in L, NEW v \in VPage
  PROVE  AfterRemap(m, M, L, p, ts, t, v)
  <1>1. m \in [Frame -> memory_map] /\ M \in [Frame -> Val]
    BY DEF Good, TypeGood
  <1>2. \A f \in Avail(m) : m[f].ref_cnt = 0
    BY Zenon DEF Good, Unused
  <1>3. \A f \in Frame \ {0} : Cardinality(MappersIn(p, f) \ {<<t, v>>}) <= m[f].ref_cnt
    BY FewerMappers, ZenonT(60)
  <1> QED
    BY <1>1, <1>2, <1>3, RemapGood

(* walk_pages() takes n frames for tables, which no page table entry of a  *)
(* user page refers to.                                                    *)
AfterWalk(m, M, L, p, ts, n) == Good(mem_allocate(m, n), M, L, p, ts)

LEMMA WalkGood ==
  ASSUME NEW m, NEW M, NEW L, NEW p, NEW ts, Good(m, M, L, p, ts),
         NEW n \in Nat, Enough(m, n)
  PROVE  AfterWalk(m, M, L, p, ts, n)
  <1> DEFINE a == mem_allocate(m, n)
  <1>1. TypeGood(m, M, L, p, ts)
    BY DEF Good
  <1>2. PICK k : Suffix(m, k)
    BY DEF Good
  <1>3. k + n <= MAX_MEM /\ k \in Nat /\ k >= 1
    <2>1. k + n <= MAX_MEM
      BY <1>2, EnoughSuffix
    <2> QED
      BY <1>2, <2>1 DEF Suffix
  <1>4. /\ a \in [Frame -> memory_map]
        /\ Avail(a) = {i \in k..(MAX_MEM - 1) : i >= k + n}
        /\ \A i \in Frame : IF k <= i /\ i < k + n
                            THEN a[i].ref_cnt = m[i].ref_cnt + 1 /\ a[i].cow_flag = m[i].cow_flag
                            ELSE a[i] = m[i]
    BY <1>1, <1>2, AllocSuffix DEF TypeGood
  <1> HIDE DEF a
  <1>5. Avail(a) = (k + n)..(MAX_MEM - 1) /\ Avail(a) \subseteq Avail(m)
    BY <1>2, <1>3, <1>4 DEF Suffix
  <1>6. Suffix(a, k + n)
    BY <1>3, <1>5 DEF Suffix
  <1>7. \A f \in Frame : m[f].ref_cnt \in Nat
    BY <1>1, SMTT(60) DEF TypeGood, memory_map
  <1>8. \A f \in Frame : a[f].ref_cnt >= m[f].ref_cnt /\ a[f].cow_flag = m[f].cow_flag
    <2> SUFFICES ASSUME NEW f \in Frame
                 PROVE  a[f].ref_cnt >= m[f].ref_cnt /\ a[f].cow_flag = m[f].cow_flag
      OBVIOUS
    <2>1. CASE k <= f /\ f < k + n
      <3>1. a[f].ref_cnt = m[f].ref_cnt + 1 /\ a[f].cow_flag = m[f].cow_flag
        BY <1>4, <2>1, Zenon
      <3>2. m[f].ref_cnt \in Nat
        BY <1>7
      <3> QED
        BY <3>1, <3>2
    <2>2. CASE ~(k <= f /\ f < k + n)
      <3>1. a[f] = m[f]
        BY <1>4, <2>2, ZenonT(60)
      <3>2. m[f].ref_cnt \in Nat
        BY <1>7
      <3> QED
        BY <3>1, <3>2
    <2> QED
      BY <2>1, <2>2, SMTT(60)
  <1>9. \A f \in Avail(a) : a[f] = m[f]
    <2>1. \A f \in Avail(a) : f \in Frame /\ ~(k <= f /\ f < k + n)
      BY <1>3, <1>5 DEF Frame
    <2> QED
      BY <2>1, <1>4
  <1>10. TypeGood(a, M, L, p, ts)
    BY <1>1, <1>4 DEF TypeGood
  <1>11. Unused(a, M, p)
    BY <1>5, <1>9, Zenon DEF Good, Unused
  <1>12. FrameZero(a, p)
    <2>1. 0 \in Frame
      BY SMTT(60) DEF Frame
    <2> QED
      BY <2>1, <1>5, <1>8, Zenon DEF Good, FrameZero
  <1>13. Counted(a, p)
    <2> SUFFICES ASSUME NEW f \in Frame \ {0}
                 PROVE  Cardinality(MappersIn(p, f)) <= a[f].ref_cnt
      BY DEF Counted
    <2>1. Cardinality(MappersIn(p, f)) <= m[f].ref_cnt /\ Cardinality(MappersIn(p, f)) \in Nat
      BY FiniteMappers, Zenon DEF Good, Counted
    <2>2. a[f].ref_cnt \in Nat
      BY <1>4 DEF memory_map
    <2> QED
      BY <2>1, <2>2, <1>7, <1>8, SMTT(60)
  <1>14. Blocks(a, p, ts)
    BY <1>5, Zenon DEF Good, Blocks
  <1> QED
    BY <1>6, <1>10, <1>11, <1>12, <1>13, <1>14, SMTT(60) DEF AfterWalk, Good, a

LEMMA DemandStep ==
  ASSUME IInv, NEW t \in Task, NEW v \in VPage, NEW n \in WalkFrames, demand_page(t, v, n)
  PROVE  IInv'
  <1> DEFINE m == mem_allocate(memmap, n)
  <1>1. Good(memmap, mem, live, pt, tstruct) /\ lowheap \subseteq Task
    BY DEF IInv
  <1>2. n \in Nat /\ Enough(memmap, n) /\ t \in live
    BY WalkAssumption DEF demand_page
  <1>3. AfterWalk(memmap, mem, live, pt, tstruct, n)
    BY <1>1, <1>2, WalkGood
  <1>4. Good(m, mem, live, pt, tstruct)
    BY <1>3 DEF AfterWalk
  <1>5. /\ pt' = [pt EXCEPT ![t][v] = [frame |-> mem_allocate_addr(m), w |-> TRUE]]
        /\ memmap' = mem_allocate(m, 1)
        /\ UNCHANGED <<mem, live, tstruct, lowheap>>
    BY DEF demand_page
  <1> HIDE DEF m
  <1>6. AfterRemap(m, mem, live, pt, tstruct, t, v)
    BY <1>2, <1>4, MapGood
  <1> QED
    BY <1>1, <1>5, <1>6 DEF IInv, AfterRemap

LEMMA BrkStep ==
  ASSUME IInv, NEW t \in Task, NEW v \in VPage, NEW n \in WalkFrames, sys_brk(t, v, n)
  PROVE  IInv'
  <1> DEFINE m == mem_allocate(memmap, 1)
             a == mem_allocate(m, n)
             q == [pt EXCEPT ![t][v] = [frame |-> mem_allocate_addr(memmap), w |-> TRUE]]
  <1>1. Good(memmap, mem, live, pt, tstruct) /\ lowheap \subseteq Task
    BY DEF IInv
  <1>2. n \in Nat /\ Enough(m, n) /\ t \in live
    BY WalkAssumption DEF sys_brk
  <1>3. /\ memmap' = IF Present(t, v) THEN mem_free(a, pte(pt[t][v])) ELSE a
        /\ pt' = q
        /\ UNCHANGED <<mem, live, tstruct, lowheap>>
    BY DEF sys_brk
  <1>4. AfterRemap(memmap, mem, live, pt, tstruct, t, v)
    BY <1>1, <1>2, MapGood
  <1>5. Good(m, mem, live, q, tstruct)
    BY <1>4 DEF AfterRemap
  <1> HIDE DEF m, q
  <1>6. AfterWalk(m, mem, live, q, tstruct, n)
    BY <1>2, <1>5, WalkGood
  <1>7. Good(a, mem, live, q, tstruct)
    BY <1>6 DEF AfterWalk
  <1> HIDE DEF a
  <1>8. Present(t, v) => pt[t][v] \in Entry
    BY <1>1 DEF Good, TypeGood, Present
  <1>9. a \in [Frame -> memory_map]
    BY <1>7 DEF Good, TypeGood
  <1>10. Present(t, v) => mem_free(a, pte(pt[t][v])) = a
    BY <1>8, <1>9, FreeIsNothing
  <1> QED
    BY <1>1, <1>3, <1>7, <1>10 DEF IInv

(* What is known of a frame that page_fault() finds marked copy-on-write.  *)
LEMMA CowFrame ==
  ASSUME IInv, NEW t \in Task, NEW v \in VPage, WriteFault(t, v),
         memmap[pt[t][v].frame].cow_flag
  PROVE  /\ pt[t][v] \in Entry /\ pt[t][v] # NoPage /\ t \in live
         /\ pt[t][v].frame \in Frame \ {0} /\ pt[t][v].frame \notin Avail(memmap)
         /\ Maps(pt, t, v, pt[t][v].frame)
         /\ memmap[pt[t][v].frame] \in memory_map
         /\ memmap[pt[t][v].frame].ref_cnt \in Nat
         /\ memmap[pt[t][v].frame].ref_cnt >= 1
         /\ Cardinality(MappersIn(pt, pt[t][v].frame)) <= memmap[pt[t][v].frame].ref_cnt
  <1>1. Good(memmap, mem, live, pt, tstruct)
    BY DEF IInv
  <1>2. TypeGood(memmap, mem, live, pt, tstruct)
    BY <1>1, Zenon DEF Good
  <1>3. pt[t][v] \in Entry /\ pt[t][v] # NoPage /\ t \in live
    BY <1>2, SMTT(60) DEF WriteFault, Present, TypeGood
  <1> DEFINE f == pt[t][v].frame
  <1>4. f \in Frame
    BY <1>3 DEF Entry
  <1>5. f # 0
    BY <1>1, Zenon DEF Good, FrameZero
  <1>6. Maps(pt, t, v, f)
    BY <1>3 DEF Maps
  <1> HIDE DEF f
  <1>7. f \notin Avail(memmap)
    BY <1>1, <1>6, Zenon DEF Good, Unused
  <1>8. memmap[f] \in memory_map /\ memmap[f].ref_cnt \in Nat
    BY <1>2, <1>4 DEF TypeGood, memory_map
  <1>9. Cardinality(MappersIn(pt, f)) <= memmap[f].ref_cnt
    BY <1>1, <1>4, <1>5, ZenonT(60) DEF Good, Counted
  <1>10. Cardinality(MappersIn(pt, f)) >= 1 /\ Cardinality(MappersIn(pt, f)) \in Nat
    BY <1>6, OnlyMapper, FiniteMappers, ZenonT(60)
  <1>11. memmap[f].ref_cnt >= 1
    BY <1>8, <1>9, <1>10
  <1> QED
    BY <1>3, <1>4, <1>5, <1>6, <1>7, <1>8, <1>9, <1>11, ZenonT(60) DEF f

LEMMA CopyStep ==
  ASSUME PageZero \notin VPage, IInv, NEW t \in Task, NEW v \in VPage, cow_copy(t, v)
  PROVE  IInv'
  <1> DEFINE f == pt[t][v].frame
             m == [memmap EXCEPT ![f].ref_cnt = @ - 1]
             g == mem_allocate_addr(m)
  <1>1. Good(memmap, mem, live, pt, tstruct) /\ lowheap \subseteq Task
    BY DEF IInv
  <1>2. TypeGood(memmap, mem, live, pt, tstruct)
    BY <1>1 DEF Good
  <1>3. /\ t \in live /\ f \in Frame \ {0} /\ f \notin Avail(memmap) /\ Maps(pt, t, v, f)
        /\ memmap[f] \in memory_map /\ memmap[f].ref_cnt \in Nat /\ memmap[f].ref_cnt >= 1
        /\ Cardinality(MappersIn(pt, f)) <= memmap[f].ref_cnt
    BY CowFrame, ZenonT(60) DEF cow_copy
  <1>4. /\ memmap' = mem_allocate(m, 1)
        /\ mem' = [mem EXCEPT ![g] = mem[f]]
        /\ pt' = [pt EXCEPT ![t][v] = [frame |-> g, w |-> TRUE]]
        /\ UNCHANGED <<live, tstruct, lowheap>>
    BY DEF cow_copy, map_kernel
  <1> HIDE DEF f
  <1>5. memmap \in [Frame -> memory_map] /\ mem \in [Frame -> Val]
    BY <1>2 DEF TypeGood
  <1>6. /\ [memmap[f] EXCEPT !.ref_cnt = @ - 1] \in memory_map
        /\ [memmap[f] EXCEPT !.ref_cnt = @ - 1].ref_cnt = memmap[f].ref_cnt - 1
        /\ [memmap[f] EXCEPT !.ref_cnt = @ - 1].res_flag = memmap[f].res_flag
        /\ [memmap[f] EXCEPT !.ref_cnt = @ - 1].cow_flag = memmap[f].cow_flag
    <2>1. memmap[f].ref_cnt - 1 \in Nat
      BY <1>3
    <2> QED
      BY <1>3, <2>1, ZenonT(60) DEF memory_map
  <1>7. \A i \in Frame : m[i] = IF i = f THEN [memmap[f] EXCEPT !.ref_cnt = @ - 1] ELSE memmap[i]
    BY <1>5
  <1>8. m \in [Frame -> memory_map]
    BY <1>5, <1>6, Zenon
  <1> HIDE DEF m
  <1>9. \A i \in Frame : m[i].res_flag = memmap[i].res_flag /\ m[i].cow_flag = memmap[i].cow_flag
    BY <1>6, <1>7, Zenon
  <1>10. \A i \in Avail(memmap) : m[i].ref_cnt = 0
    <2>1. \A i \in Avail(memmap) : i \in Frame /\ i # f
      BY <1>3 DEF Avail
    <2> QED
      BY <2>1, <1>1, <1>7, SMTT(60) DEF Good, Unused
  <1>11. \A i \in Frame \ {0} : Cardinality(MappersIn(pt, i) \ {<<t, v>>}) <= m[i].ref_cnt
    <2> SUFFICES ASSUME NEW i \in Frame \ {0}
                 PROVE  Cardinality(MappersIn(pt, i) \ {<<t, v>>}) <= m[i].ref_cnt
      BY Zenon
    <2>1. CASE i = f
      <3>1. Cardinality(MappersIn(pt, f) \ {<<t, v>>}) = Cardinality(MappersIn(pt, f)) - 1
        BY <1>3, OnlyMapper
      <3>2. Cardinality(MappersIn(pt, f)) \in Nat
        BY FiniteMappers
      <3>3. m[f].ref_cnt = memmap[f].ref_cnt - 1
        BY <1>3, <1>6, <1>7, Zenon
      <3> QED
        <4>1. /\ Cardinality(MappersIn(pt, f)) <= memmap[f].ref_cnt
              /\ memmap[f].ref_cnt \in Nat
          BY <1>3, ZenonT(60)
        <4>2. Cardinality(MappersIn(pt, f) \ {<<t, v>>}) <= m[f].ref_cnt
          BY <3>1, <3>2, <3>3, <4>1, CoverDrops, SMTT(60)
        <4> QED
          BY <2>1, <4>2, Zenon
    <2>2. CASE i # f
      <3>1. m[i] = memmap[i]
        BY <1>7, <2>2
      <3> QED
        BY <1>1, <3>1, FewerMappers, Zenon
    <2> QED
      BY <2>1, <2>2, SMTT(60)
  <1> HIDE DEF g
  <1>12. mem' \in [Frame -> Val] /\ \A i \in Frame : i # g => mem'[i] = mem[i]
    BY <1>3, <1>4, <1>5, Zenon
  <1>13. \A i \in Frame : i # mem_allocate_addr(m) => mem'[i] = mem[i]
    BY <1>12 DEF g
  <1>14. /\ Good(memmap, mem, live, pt, tstruct)
         /\ t \in live
         /\ mem' \in [Frame -> Val]
    BY <1>1, <1>3, <1>12, Zenon
  <1>15. AfterRemap(m, mem', live, pt, tstruct, t, v)
    <2>1. Remappable(memmap, mem, pt, t, v, m, mem')
      BY <1>8, <1>9, <1>10, <1>11, <1>13, <1>14, Zenon DEF Remappable
    <2> QED
      BY <1>14, <2>1, RemapIfGood, Zenon
  <1> QED
    BY <1>1, <1>4, <1>15 DEF IInv, AfterRemap, g

LEMMA ReuseStep ==
  ASSUME IInv, NEW t \in Task, NEW v \in VPage, cow_reuse(t, v)
  PROVE  IInv'
  <1> DEFINE f == pt[t][v].frame
             e == [pt[t][v] EXCEPT !.w = TRUE]
  <1>1. Good(memmap, mem, live, pt, tstruct) /\ lowheap \subseteq Task
    BY DEF IInv
  <1>2. TypeGood(memmap, mem, live, pt, tstruct)
    BY <1>1 DEF Good
  <1>3. /\ f \in Frame \ {0} /\ Maps(pt, t, v, f) /\ pt[t][v] \in Entry
        /\ Cardinality(MappersIn(pt, f)) <= memmap[f].ref_cnt
    BY CowFrame DEF cow_reuse
  <1>4. memmap[f].ref_cnt = 1 /\ pt' = [pt EXCEPT ![t][v].w = TRUE]
        /\ UNCHANGED <<memmap, mem, live, tstruct, lowheap>>
    BY DEF cow_reuse, LastUser
  <1>5. e \in Entry /\ e # NoPage /\ e.frame = f
    <2>1. e \in Entry /\ e.frame = f
      BY <1>3, Zenon DEF Entry
    <2> QED
      BY Absent, <2>1, Zenon DEF Entry
  <1>6. /\ pt' \in [Task -> [VPage -> Entry \cup {NoPage}]]
        /\ \A u \in Task, x \in VPage : pt'[u][x] = IF u = t /\ x = v THEN e ELSE pt[u][x]
    <2>1. pt' = [pt EXCEPT ![t][v] = e]
      BY <1>4, SMTT(60)
    <2> HIDE DEF e
    <2> QED
      BY <1>2, <1>5, <2>1 DEF TypeGood
  <1> HIDE DEF f, e
  <1>7. \A u \in Task, x \in VPage, i \in Frame : Maps(pt', u, x, i) <=> Maps(pt, u, x, i)
    BY <1>3, <1>5, <1>6 DEF Maps
  <1>8. \A u \in Task, x \in VPage : Maps(pt, u, x, f) => u = t /\ x = v
    <2>1. Cardinality(MappersIn(pt, f) \ {<<t, v>>}) = Cardinality(MappersIn(pt, f)) - 1
          /\ IsFiniteSet(MappersIn(pt, f) \ {<<t, v>>})
      BY <1>3, OnlyMapper
    <2>2. Cardinality(MappersIn(pt, f)) \in Nat
      BY FiniteMappers
    <2>3. Cardinality(MappersIn(pt, f) \ {<<t, v>>}) \in Nat
      BY <2>1, FS_CardinalityType
    <2>4. Cardinality(MappersIn(pt, f) \ {<<t, v>>}) = 0
      BY <1>3, <1>4, <2>1, <2>2, <2>3
    <2>5. MappersIn(pt, f) \ {<<t, v>>} = {}
      BY <2>1, <2>4, FS_EmptySet
    <2>6. \A u \in Task, x \in VPage : <<u, x>> \in MappersIn(pt, f) => <<u, x>> = <<t, v>>
      BY <2>5
    <2> QED
      BY <2>6, InMappers, ZenonT(60)
  <1>9. TypeGood(memmap, mem, live, pt', tstruct)
    BY <1>2, <1>6, SMTT(60) DEF TypeGood
  <1>10. 0 \in Frame /\ Avail(memmap) \subseteq Frame
    BY DEF Frame, Avail
  <1>11. Unused(memmap, mem, pt') /\ FrameZero(memmap, pt')
    BY <1>1, <1>7, <1>10, Zenon DEF Good, Unused, FrameZero
  <1>12. Counted(memmap, pt')
    <2>1. \A i \in Frame : MappersIn(pt', i) = MappersIn(pt, i)
      <3> SUFFICES ASSUME NEW i \in Frame PROVE MappersIn(pt', i) = MappersIn(pt, i)
        OBVIOUS
      <3>1. MappersIn(pt', i) \in SUBSET (Task \X VPage) /\ MappersIn(pt, i) \in SUBSET (Task \X VPage)
        BY FiniteMappers
      <3>2. \A u \in Task, x \in VPage : <<u, x>> \in MappersIn(pt', i) <=> <<u, x>> \in MappersIn(pt, i)
        BY <1>7, InMappers, Zenon
      <3> QED
        BY <3>1, <3>2, SamePairs
    <2> QED
      BY <1>1, <2>1, Zenon DEF Good, Counted
  <1>13. Sole(pt')
    <2> SUFFICES ASSUME NEW i \in Frame \ {0}, NEW u1 \in Task, NEW u2 \in Task,
                        NEW x1 \in VPage, NEW x2 \in VPage,
                        Maps(pt', u1, x1, i), pt'[u1][x1].w, Maps(pt', u2, x2, i)
                 PROVE  u2 = u1 /\ x2 = x1
      BY DEF Sole
    <2>1. Maps(pt, u1, x1, i) /\ Maps(pt, u2, x2, i)
      BY <1>7
    <2>2. CASE u1 = t /\ x1 = v
      <3>1. i = f
        BY <2>1, <2>2, SMTT(60) DEF Maps, f
      <3> QED
        BY <1>8, <2>1, <2>2, <3>1, SMTT(60)
    <2>3. CASE ~(u1 = t /\ x1 = v)
      <3>1. pt[u1][x1].w
        BY <1>6, <2>3
      <3> QED
        BY <1>1, <2>1, <3>1 DEF Good, Sole
    <2> QED
      BY <2>2, <2>3
  <1>14. Once(pt')
    BY <1>1, <1>7 DEF Good, Once
  <1>15. Born(live, pt', tstruct)
    BY <1>1, <1>3, <1>6, ZenonT(60) DEF Good, Born, Maps
  <1>16. Blocks(memmap, pt', tstruct)
    <2>1. \A u \in Task : \A i \in BlockIn(tstruct, u) : i \in Frame
      BY <1>1 DEF Good, Blocks
    <2> QED
      BY <1>1, <1>7, <2>1 DEF Good, Blocks
  <1>17. Good(memmap, mem, live, pt', tstruct)
    BY <1>1, <1>9, <1>11, <1>12, <1>13, <1>14, <1>15, <1>16, SMTT(60) DEF Good
  <1> QED
    BY <1>1, <1>4, <1>17 DEF IInv

LEMMA StoreStep ==
  ASSUME IInv, NEW t \in Task, NEW v \in VPage, NEW x \in Val, Writes(t, v, x)
  PROVE  IInv'
  <1>1. Good(memmap, mem, live, pt, tstruct) /\ lowheap \subseteq Task
    BY DEF IInv
  <1> DEFINE f == pt[t][v].frame
  <1>2. mem' = [mem EXCEPT ![f] = x] /\ Maps(pt, t, v, f)
        /\ UNCHANGED <<memmap, live, pt, tstruct, lowheap>>
    BY DEF Writes, Present, Maps
  <1> HIDE DEF f
  <1>3. TypeGood(memmap, mem', live, pt, tstruct)
    BY <1>1, <1>2, Zenon DEF Good, TypeGood
  <1>4. \A i \in Avail(memmap) : i # f
    BY <1>1, <1>2, Zenon DEF Good, Unused
  <1>5. Unused(memmap, mem', pt)
    BY <1>1, <1>2, <1>4 DEF Good, TypeGood, Unused, Avail
  <1>6. Good(memmap, mem', live, pt, tstruct)
    BY <1>1, <1>3, <1>5 DEF Good
  <1> QED
    BY <1>1, <1>2, <1>6 DEF IInv

LEMMA StepIInv ==
  ASSUME PageZero \notin VPage, IInv, [Next]_vars
  PROVE  IInv'
  <1>1. CASE UNCHANGED vars
    BY <1>1, SMTT(60) DEF IInv, vars
  <1>2. CASE Next
    <2>1. PICK t \in Task :
            \/ sys_exit(t)
            \/ \E c \in Task, n \in TableFrames, room \in BOOLEAN :
                 \/ \E unaligned \in Unaligned : sys_fork(t, c, n, room, unaligned)
                 \/ \E S \in SUBSET (VPage \ LowPage), img \in Val :
                      sys_execve(t, c, n, S, img, room)
            \/ \E v \in VPage :
                 \/ \E n \in WalkFrames : demand_page(t, v, n) \/ sys_brk(t, v, n)
                 \/ cow_reuse(t, v)
                 \/ cow_copy(t, v)
                 \/ \E x \in Val : user_store(t, v, x) \/ kernel_store(t, v, x)
      BY <1>2 DEF Next
    <2>2. CASE sys_exit(t)
      BY <2>2, ExitStep
    <2>3. ASSUME NEW c \in Task, NEW n \in TableFrames, NEW room \in BOOLEAN,
                 NEW unaligned \in Unaligned, sys_fork(t, c, n, room, unaligned)
          PROVE  IInv'
      <3>1. unaligned \in BOOLEAN
        BY MemoryAssumption
      <3> QED
        BY <2>3, <3>1, ForkStep
    <2>4. ASSUME NEW c \in Task, NEW n \in TableFrames, NEW room \in BOOLEAN,
                 NEW S \in SUBSET (VPage \ LowPage), NEW img \in Val,
                 sys_execve(t, c, n, S, img, room)
          PROVE  IInv'
      BY <2>4, ExecStep
    <2>5. ASSUME NEW v \in VPage, NEW n \in WalkFrames, demand_page(t, v, n) PROVE IInv'
      BY <2>5, DemandStep
    <2>6. ASSUME NEW v \in VPage, cow_reuse(t, v) PROVE IInv'
      BY <2>6, ReuseStep
    <2>7. ASSUME NEW v \in VPage, cow_copy(t, v) PROVE IInv'
      BY <2>7, CopyStep
    <2>8. ASSUME NEW v \in VPage, NEW n \in WalkFrames, sys_brk(t, v, n) PROVE IInv'
      BY <2>8, BrkStep
    <2>9. ASSUME NEW v \in VPage, NEW x \in Val, user_store(t, v, x) \/ kernel_store(t, v, x)
          PROVE  IInv'
      BY <2>9, StoreStep DEF user_store, kernel_store
    <2> QED
      BY <2>1, <2>2, <2>3, <2>4, <2>5, <2>6, <2>7, <2>8, <2>9, ZenonT(60)
  <1> QED
    BY <1>1, <1>2

(* What the invariant says about the properties of Memory.                 *)
LEMMA IInvTypeOK == IInv => TypeOK
  BY DEF IInv, Good, TypeGood, TypeOK

LEMMA IInvWritable == IInv => WritablePrivate
  <1> SUFFICES ASSUME IInv, MemoryLeft, NEW t \in Task, NEW v \in VPage,
                      Present(t, v), pt[t][v].w
               PROVE  Mappers(pt[t][v].frame) = {<<t, v>>}
    BY DEF WritablePrivate
  <1> DEFINE f == pt[t][v].frame
  <1>1. Good(memmap, mem, live, pt, tstruct)
    BY DEF IInv
  <1>2. Maps(pt, t, v, f) /\ f \in Frame
    BY <1>1 DEF Present, Maps, Good, TypeGood, Entry
  <1> HIDE DEF f
  <1>3. f # 0
    BY <1>1, <1>2, SMTT(60) DEF Good, FrameZero, MemoryLeft
  <1>4. \A u \in Task, x \in VPage : Maps(pt, u, x, f) <=> u = t /\ x = v
    BY <1>1, <1>2, <1>3 DEF Good, Sole
  <1>5. \A u \in Task, x \in VPage : <<u, x>> \in MappersIn(pt, f) <=> <<u, x>> \in {<<t, v>>}
    BY <1>4, InMappers, ZenonT(60)
  <1>6. {<<t, v>>} \in SUBSET (Task \X VPage) /\ MappersIn(pt, f) \in SUBSET (Task \X VPage)
    BY FiniteMappers, SMTT(60)
  <1>7. MappersIn(pt, f) = {<<t, v>>}
    BY <1>5, <1>6, SamePairs
  <1> QED
    BY <1>7, SameNames DEF f

LEMMA IInvCovers == IInv => RefCntCovers
  <1> SUFFICES ASSUME IInv, MemoryLeft, NEW f \in Frame
               PROVE  Cardinality(MappersIn(pt, f)) <= memmap[f].ref_cnt
    BY SameNames, Zenon DEF RefCntCovers
  <1>1. Good(memmap, mem, live, pt, tstruct)
    BY DEF IInv
  <1>2. CASE f # 0
    BY <1>1, <1>2, Zenon DEF Good, Counted
  <1>3. CASE f = 0
    <2>1. \A u \in Task, x \in VPage : <<u, x>> \in MappersIn(pt, f) <=> <<u, x>> \in {}
      BY <1>1, <1>3, InMappers, Zenon DEF Good, FrameZero, MemoryLeft
    <2>2. {} \in SUBSET (Task \X VPage) /\ MappersIn(pt, f) \in SUBSET (Task \X VPage)
      BY FiniteMappers
    <2>3. MappersIn(pt, f) = {}
      BY <2>1, <2>2, SamePairs
    <2>4. Cardinality(MappersIn(pt, f)) = 0
      BY <2>3, FS_EmptySet
    <2>5. memmap[f].ref_cnt \in Nat
      BY <1>1 DEF Good, TypeGood, memory_map
    <2> QED
      BY <2>4, <2>5
  <1> QED
    BY <1>2, <1>3

LEMMA IInvStructs == IInv => TaskStructsPrivate
  <1> SUFFICES ASSUME IInv, NEW t \in Task, NEW f \in Block(t) PROVE Mappers(f) = {}
    BY SameNames DEF TaskStructsPrivate, IInv, Good, Blocks
  <1>1. f \in BlockIn(tstruct, t)
    BY SameNames
  <1>2. \A u \in Task, x \in VPage : <<u, x>> \in MappersIn(pt, f) <=> <<u, x>> \in {}
    BY <1>1, InMappers, Zenon DEF IInv, Good, Blocks
  <1>3. {} \in SUBSET (Task \X VPage) /\ MappersIn(pt, f) \in SUBSET (Task \X VPage)
    BY FiniteMappers
  <1>4. MappersIn(pt, f) = {}
    BY <1>2, <1>3, SamePairs
  <1> QED
    BY <1>4, SameNames, ZenonT(60)

-----------------------------------------------------------------------------
(* IInv is an invariant of every machine that never maps the page at       *)
(* address 0, whatever its tasks, pages and amount of memory.              *)
THEOREM SpecIInv ==
  ASSUME PageZero \notin VPage
  PROVE  Spec => []IInv
  <1>1. Init => IInv
    BY InitIInv
  <1>2. IInv /\ [Next]_vars => IInv'
    BY StepIInv
  <1> QED
    BY <1>1, <1>2, PTL DEF Spec

(* Every table keeps its type; in particular page_fault() never counts a   *)
(* ref_cnt below 0.                                                        *)
THEOREM TypeCorrect ==
  ASSUME PageZero \notin VPage
  PROVE  Spec => []TypeOK
  BY SpecIInv, IInvTypeOK, PTL

(* Copy-on-write works: while memory lasts, a page that cow_walk_pages()   *)
(* shared becomes writable only for a task that is its one mapper.         *)
THEOREM Writable ==
  ASSUME PageZero \notin VPage
  PROVE  Spec => []WritablePrivate
  BY SpecIInv, IInvWritable, PTL

(* The ref_cnt that page_fault() trusts covers all page table entries.     *)
THEOREM Covers ==
  ASSUME PageZero \notin VPage
  PROVE  Spec => []RefCntCovers
  BY SpecIInv, IInvCovers, PTL

(* What kmalloc() hands out for a task_struct is adjacent and private.     *)
THEOREM Structures ==
  ASSUME PageZero \notin VPage
  PROVE  Spec => []TaskStructsPrivate
  BY SpecIInv, IInvStructs, PTL
=============================================================================
