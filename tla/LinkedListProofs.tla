-------------------------- MODULE LinkedListProofs --------------------------
(***************************************************************************)
(* Proofs about LinkedList, for any set of entries and any set of heads.   *)
(*                                                                         *)
(* A move is an unlinking followed by an addition, so everything rests on  *)
(* two pairs of lemmas: what __list_del_entry and list_add / list_add_tail *)
(* do to the ring they work on, and that they leave other rings alone.     *)
(***************************************************************************)
EXTENDS LinkedList, QueueLemmas

Links == [next : [Cell -> Cell \cup {NULL}], prev : [Cell -> Cell \cup {NULL}]]

(* The entries of q are pairwise different.                                *)
Distinct(q) == \A i, j \in 1..Len(q) : q[i] = q[j] => i = j

Occurs(t, q) == \E i \in 1..Len(q) : q[i] = t

-----------------------------------------------------------------------------
(* Places on a ring.                                                       *)

(* Every place holds a cell; the entries sit at 1..Len(q), the head at     *)
(* 0 and Len(q) + 1; no cell is at two places but the head.                *)
LEMMA AtPlaces ==
  ASSUME NEW h \in Heads, NEW q \in Seq(Node), Distinct(q)
  PROVE  /\ Len(q) \in Nat
         /\ \A i \in Int : At(h, q, i) \in Cell
         /\ At(h, q, 0) = h
         /\ At(h, q, Len(q) + 1) = h
         /\ \A i \in 1..Len(q) : At(h, q, i) = q[i] /\ At(h, q, i) \in Node
         /\ \A i, j \in 0..Len(q) : At(h, q, i) = At(h, q, j) => i = j
         /\ \A i, j \in 1..Len(q) + 1 : At(h, q, i) = At(h, q, j) => i = j
<1>1. Len(q) \in Nat /\ \A i \in 1..Len(q) : q[i] \in Node
  BY LenProperties, ElementOfSeq
<1>2. \A n \in Node : n # h
  BY ListAssumption
<1>3. \A i \in Int : At(h, q, i) \in Cell
  BY <1>1 DEF At, Cell
<1>4. At(h, q, 0) = h /\ At(h, q, Len(q) + 1) = h
  BY <1>1 DEF At
<1>5. \A i \in 1..Len(q) : At(h, q, i) = q[i] /\ At(h, q, i) \in Node
  BY <1>1 DEF At
<1>6. ASSUME NEW i \in 0..Len(q), NEW j \in 0..Len(q), At(h, q, i) = At(h, q, j)
      PROVE  i = j
  BY <1>1, <1>2, <1>6 DEF At, Distinct
<1>7. ASSUME NEW i \in 1..Len(q) + 1, NEW j \in 1..Len(q) + 1,
             At(h, q, i) = At(h, q, j)
      PROVE  i = j
  BY <1>1, <1>2, <1>7 DEF At, Distinct
<1> QED
  BY <1>1, <1>3, <1>4, <1>5, <1>6, <1>7

(* Where the places go under the three sequence operations.                *)
LEMMA ConsAt ==
  ASSUME NEW h \in Heads, NEW q \in Seq(Node), NEW t \in Node
  PROVE  /\ At(h, Cons(t, q), 0) = h
         /\ At(h, Cons(t, q), 1) = t
         /\ \A i \in 1..Len(q) + 1 : At(h, Cons(t, q), i + 1) = At(h, q, i)
<1>1. /\ Len(q) \in Nat
      /\ Len(Cons(t, q)) = Len(q) + 1
      /\ Cons(t, q)[1] = t
      /\ \A i \in 1..Len(q) : Cons(t, q)[i + 1] = q[i]
  BY ConsEntries, LenProperties
<1> DEFINE c == Cons(t, q)
<1> HIDE DEF c
<1>2. Len(c) = Len(q) + 1 /\ c[1] = t /\ \A i \in 1..Len(q) : c[i + 1] = q[i]
  BY <1>1 DEF c
<1>3. At(h, c, 0) = h /\ At(h, c, 1) = t
  BY <1>1, <1>2 DEF At
<1>4. ASSUME NEW i \in 1..Len(q) + 1
      PROVE  At(h, c, i + 1) = At(h, q, i)
  <2>1. CASE i = Len(q) + 1
    BY <1>1, <1>2, <2>1 DEF At
  <2>2. CASE i # Len(q) + 1
    BY <1>1, <1>2, <2>2 DEF At
  <2> QED
    BY <2>1, <2>2
<1> QED
  BY <1>3, <1>4 DEF c

LEMMA AppendAt ==
  ASSUME NEW h \in Heads, NEW q \in Seq(Node), NEW t \in Node
  PROVE  /\ \A i \in 0..Len(q) : At(h, Append(q, t), i) = At(h, q, i)
         /\ At(h, Append(q, t), Len(q) + 1) = t
         /\ At(h, Append(q, t), Len(q) + 2) = h
<1> DEFINE c == Append(q, t)
<1>1. /\ Len(q) \in Nat
      /\ Len(c) = Len(q) + 1
      /\ \A i \in 1..Len(q) : c[i] = q[i]
      /\ c[Len(q) + 1] = t
  BY AppendProperties, LenProperties
<1> HIDE DEF c
<1>2. /\ \A i \in 0..Len(q) : At(h, c, i) = At(h, q, i)
      /\ At(h, c, Len(q) + 1) = t
      /\ At(h, c, Len(q) + 2) = h
  BY <1>1 DEF At
<1> QED
  BY <1>2 DEF c

LEMMA RemoveAtAt ==
  ASSUME NEW h \in Heads, NEW q \in Seq(Node), NEW i \in 1..Len(q)
  PROVE  \A j \in 0..Len(q) : At(h, RemoveAt(q, i), j) =
                                IF j < i THEN At(h, q, j) ELSE At(h, q, j + 1)
<1> DEFINE c == RemoveAt(q, i)
<1>1. /\ Len(q) \in Nat
      /\ Len(c) = Len(q) - 1
      /\ \A j \in 1..Len(q) - 1 : c[j] = IF j < i THEN q[j] ELSE q[j + 1]
  BY RemoveAtEntries, LenProperties
<1> HIDE DEF c
<1>2. ASSUME NEW j \in 0..Len(q)
      PROVE  At(h, c, j) = IF j < i THEN At(h, q, j) ELSE At(h, q, j + 1)
  BY <1>1 DEF At
<1> QED
  BY <1>2 DEF c

-----------------------------------------------------------------------------
(* The pointer operations.                                                 *)

(* What __list_add writes, cell by cell.                                   *)
LEMMA AddWrites ==
  ASSUME NEW k \in Links, NEW t \in Node, NEW p \in Cell, NEW n \in Cell
  PROVE  /\ list_add_(k, t, p, n) \in Links
         /\ \A c \in Cell : list_add_(k, t, p, n).next[c] =
              IF c = p THEN t ELSE IF c = t THEN n ELSE k.next[c]
         /\ \A c \in Cell : list_add_(k, t, p, n).prev[c] =
              IF c = t THEN p ELSE IF c = n THEN t ELSE k.prev[c]
BY DEF Links, list_add_, Cell

(* What __list_del writes.                                                 *)
LEMMA DelWrites ==
  ASSUME NEW k \in Links, NEW p \in Cell, NEW n \in Cell
  PROVE  /\ list_del_(k, p, n) \in Links
         /\ \A c \in Cell :
              list_del_(k, p, n).next[c] = IF c = p THEN n ELSE k.next[c]
         /\ \A c \in Cell :
              list_del_(k, p, n).prev[c] = IF c = n THEN p ELSE k.prev[c]
BY DEF Links, list_del_, Cell

(* list_add() prepends to the ring of its head.                            *)
LEMMA AddRing ==
  ASSUME NEW k \in Links, NEW h \in Heads, NEW q \in Seq(Node), NEW t \in Node,
         Distinct(q), ~Occurs(t, q), Ring(k, h, q)
  PROVE  /\ k.next[h] = At(h, q, 1)
         /\ list_add(k, t, h) \in Links
         /\ Ring(list_add(k, t, h), h, Cons(t, q))
<1> DEFINE A(i) == At(h, q, i)
           B(i) == At(h, Cons(t, q), i)
           x == A(1)
           m == list_add(k, t, h)
<1>1. /\ Len(q) \in Nat
      /\ \A i \in Int : A(i) \in Cell
      /\ A(0) = h
      /\ A(Len(q) + 1) = h
      /\ \A i, j \in 0..Len(q) : A(i) = A(j) => i = j
      /\ \A i, j \in 1..Len(q) + 1 : A(i) = A(j) => i = j
  BY AtPlaces
<1>2. \A i \in Int : A(i) # t
  BY <1>1, ListAssumption DEF At, Occurs
<1>3. \A i \in 0..Len(q) : k.next[A(i)] = A(i + 1) /\ k.prev[A(i + 1)] = A(i)
  BY DEF Ring
<1>4. B(0) = h /\ B(1) = t /\ \A i \in 1..Len(q) + 1 : B(i + 1) = A(i)
  BY ConsAt
<1>5. Len(Cons(t, q)) = Len(q) + 1
  BY ConsEntries
<1> HIDE DEF A, B
<1>6. k.next[h] = x /\ x \in Cell /\ h \in Cell
  BY <1>1, <1>3 DEF Cell
<1> HIDE DEF x
<1>7. m = list_add_(k, t, h, x)
  BY <1>6 DEF list_add
<1> HIDE DEF m
<1>8. /\ m \in Links
      /\ \A c \in Cell : m.next[c] =
           IF c = h THEN t ELSE IF c = t THEN x ELSE k.next[c]
      /\ \A c \in Cell : m.prev[c] =
           IF c = t THEN h ELSE IF c = x THEN t ELSE k.prev[c]
  BY <1>6, <1>7, AddWrites, SMTT(60)
<1>9. ASSUME NEW i \in 0..Len(q) + 1
      PROVE  m.next[B(i)] = B(i + 1) /\ m.prev[B(i + 1)] = B(i)
  <2>1. CASE i = 0
    BY <1>4, <1>6, <1>8, <2>1, SMTT(60) DEF Cell
  <2>2. CASE i = 1
    <3>1. B(1) = t /\ B(2) = x /\ t # h /\ t # x
      BY <1>1, <1>2, <1>4 DEF x
    <3> QED
      BY <1>6, <1>8, <2>2, <3>1, SMTT(60) DEF Cell
  <2>3. CASE i >= 2
    <3>1. i - 1 \in 1..Len(q) /\ (i - 1) + 1 = i
      BY <1>1, <2>3
    <3>2. B(i) = A(i - 1) /\ B(i + 1) = A(i)
      BY <1>1, <1>4, <3>1, SMTT(60)
    <3>3. A(i - 1) # h /\ A(i) # x
      BY <1>1, <2>3, <3>1 DEF x
    <3>4. A(i - 1) # t /\ A(i) # t /\ A(i - 1) \in Cell /\ A(i) \in Cell
      BY <1>1, <1>2, <3>1, SMTT(60)
    <3>5. k.next[A(i - 1)] = A(i) /\ k.prev[A(i)] = A(i - 1)
      BY <1>1, <1>3, <3>1, SMTT(60)
    <3> QED
      BY <1>8, <3>2, <3>3, <3>4, <3>5, SMTT(60)
  <2> QED
    BY <1>1, <2>1, <2>2, <2>3
<1>10. Ring(m, h, Cons(t, q))
  BY <1>5, <1>9 DEF Ring, B
<1> QED
  BY <1>6, <1>8, <1>10 DEF m, x, A

(* list_add_tail() appends to it.                                          *)
LEMMA AddTailRing ==
  ASSUME NEW k \in Links, NEW h \in Heads, NEW q \in Seq(Node), NEW t \in Node,
         Distinct(q), ~Occurs(t, q), Ring(k, h, q)
  PROVE  /\ k.prev[h] = At(h, q, Len(q))
         /\ list_add_tail(k, t, h) \in Links
         /\ Ring(list_add_tail(k, t, h), h, Append(q, t))
<1> DEFINE A(i) == At(h, q, i)
           B(i) == At(h, Append(q, t), i)
           n == Len(q)
           x == A(n)
           m == list_add_tail(k, t, h)
<1>1. /\ n \in Nat
      /\ \A i \in Int : A(i) \in Cell
      /\ A(0) = h
      /\ A(n + 1) = h
      /\ \A i, j \in 0..n : A(i) = A(j) => i = j
      /\ \A i, j \in 1..n + 1 : A(i) = A(j) => i = j
  BY AtPlaces
<1>2. \A i \in Int : A(i) # t
  BY <1>1, ListAssumption DEF At, Occurs
<1>3. \A i \in 0..n : k.next[A(i)] = A(i + 1) /\ k.prev[A(i + 1)] = A(i)
  BY DEF Ring
<1>4. (\A i \in 0..n : B(i) = A(i)) /\ B(n + 1) = t /\ B(n + 2) = h
  BY AppendAt
<1>5. Len(Append(q, t)) = n + 1
  BY AppendProperties
<1> HIDE DEF A, B
<1>6. k.prev[h] = x /\ x \in Cell /\ h \in Cell
  BY <1>1, <1>3 DEF Cell
<1> HIDE DEF x
<1>7. m = list_add_(k, t, x, h)
  BY <1>6 DEF list_add_tail
<1> HIDE DEF m
<1>8. /\ m \in Links
      /\ \A c \in Cell : m.next[c] =
           IF c = x THEN t ELSE IF c = t THEN h ELSE k.next[c]
      /\ \A c \in Cell : m.prev[c] =
           IF c = t THEN x ELSE IF c = h THEN t ELSE k.prev[c]
  BY <1>6, <1>7, AddWrites, SMTT(60)
<1>9. ASSUME NEW i \in 0..n + 1
      PROVE  m.next[B(i)] = B(i + 1) /\ m.prev[B(i + 1)] = B(i)
  <2>1. CASE i = n + 1
    <3>1. B(i) = t /\ B(i + 1) = h /\ t # x /\ t # h
      BY <1>1, <1>2, <1>4, <2>1, SMTT(60) DEF x
    <3> QED
      BY <1>6, <1>8, <3>1, SMTT(60) DEF Cell
  <2>2. CASE i = n
    <3>1. B(i) = x /\ B(i + 1) = t
      BY <1>1, <1>4, <2>2 DEF x
    <3> QED
      BY <1>6, <1>8, <3>1 DEF Cell
  <2>3. CASE i < n
    <3>1. B(i) = A(i) /\ B(i + 1) = A(i + 1) /\ i \in 0..n /\ i + 1 \in 1..n
      BY <1>1, <1>4, <2>3
    <3>2. A(i) # x /\ A(i + 1) # h
      BY <1>1, <2>3, <3>1 DEF x
    <3>3. A(i) # t /\ A(i + 1) # t /\ A(i) \in Cell /\ A(i + 1) \in Cell
      BY <1>1, <1>2, <3>1
    <3> QED
      BY <1>3, <1>8, <3>1, <3>2, <3>3, SMTT(60)
  <2> QED
    BY <1>1, <2>1, <2>2, <2>3, SMTT(60)
<1>10. Ring(m, h, Append(q, t))
  BY <1>5, <1>9 DEF Ring, B
<1> QED
  BY <1>6, <1>8, <1>10, SMTT(60) DEF m, x, A

(* __list_del_entry() closes the ring around the entry at place i.         *)
LEMMA DelRing ==
  ASSUME NEW k \in Links, NEW h \in Heads, NEW q \in Seq(Node),
         NEW i \in 1..Len(q), Distinct(q), Ring(k, h, q)
  PROVE  /\ k.prev[q[i]] = At(h, q, i - 1)
         /\ k.next[q[i]] = At(h, q, i + 1)
         /\ list_del_entry(k, q[i]) \in Links
         /\ Ring(list_del_entry(k, q[i]), h, RemoveAt(q, i))
<1> DEFINE A(j) == At(h, q, j)
           B(j) == At(h, RemoveAt(q, i), j)
           n == Len(q)
           m == list_del_entry(k, q[i])
<1>1. /\ n \in Nat
      /\ \A j \in Int : A(j) \in Cell
      /\ \A j \in 1..n : A(j) = q[j]
      /\ \A u, v \in 0..n : A(u) = A(v) => u = v
      /\ \A u, v \in 1..n + 1 : A(u) = A(v) => u = v
  BY AtPlaces
<1>2. \A j \in 0..n : k.next[A(j)] = A(j + 1) /\ k.prev[A(j + 1)] = A(j)
  BY DEF Ring
<1>3. \A j \in 0..n : B(j) = IF j < i THEN A(j) ELSE A(j + 1)
  BY RemoveAtAt
<1>4. Len(RemoveAt(q, i)) = n - 1
  BY RemoveAtEntries
<1> HIDE DEF A, B
<1>5. i - 1 \in 0..n /\ i \in 1..n /\ (i - 1) + 1 = i
  BY <1>1
<1>6. k.prev[q[i]] = A(i - 1) /\ k.next[q[i]] = A(i + 1)
  BY <1>1, <1>2, <1>5, SMTT(60)
<1>7. m = list_del_(k, A(i - 1), A(i + 1))
  BY <1>6 DEF list_del_entry
<1> HIDE DEF m
<1>8. /\ m \in Links
      /\ \A c \in Cell : m.next[c] = IF c = A(i - 1) THEN A(i + 1) ELSE k.next[c]
      /\ \A c \in Cell : m.prev[c] = IF c = A(i + 1) THEN A(i - 1) ELSE k.prev[c]
  <2> DEFINE x == A(i - 1)
             y == A(i + 1)
  <2>1. x \in Cell /\ y \in Cell
    BY <1>1, <1>5
  <2>2. m = list_del_(k, x, y)
    BY <1>7
  <2> HIDE DEF x, y
  <2>3. /\ list_del_(k, x, y) \in Links
        /\ \A c \in Cell : list_del_(k, x, y).next[c] = IF c = x THEN y ELSE k.next[c]
        /\ \A c \in Cell : list_del_(k, x, y).prev[c] = IF c = y THEN x ELSE k.prev[c]
    BY <2>1, DelWrites
  <2> QED
    BY <2>2, <2>3 DEF x, y
<1>9. ASSUME NEW j \in 0..n - 1
      PROVE  m.next[B(j)] = B(j + 1) /\ m.prev[B(j + 1)] = B(j)
  <2>1. CASE j = i - 1
    <3>1. B(j) = A(i - 1) /\ B(j + 1) = A(i + 1)
      BY <1>1, <1>3, <1>5, <2>1, SMTT(60)
    <3> QED
      BY <1>1, <1>5, <1>8, <3>1, SMTT(60)
  <2>2. CASE j < i - 1
    <3>1. B(j) = A(j) /\ B(j + 1) = A(j + 1) /\ j \in 0..n
      BY <1>1, <1>3, <1>5, <2>2
    <3>2. A(j) # A(i - 1) /\ A(j + 1) # A(i + 1)
      BY <1>1, <1>5, <2>2
    <3> QED
      BY <1>1, <1>2, <1>8, <3>1, <3>2, SMTT(60)
  <2>3. CASE j > i - 1
    <3>1. B(j) = A(j + 1) /\ B(j + 1) = A(j + 2) /\ j + 1 \in 0..n
      BY <1>1, <1>3, <1>5, <2>3, SMTT(60)
    <3>2. A(j + 1) # A(i - 1) /\ A(j + 2) # A(i + 1)
      BY <1>1, <1>5, <2>3
    <3>3. k.next[A(j + 1)] = A(j + 2) /\ k.prev[A(j + 2)] = A(j + 1)
      BY <1>1, <1>2, <3>1
    <3> QED
      BY <1>1, <1>8, <3>1, <3>2, <3>3, SMTT(60)
  <2> QED
    BY <1>1, <1>5, <2>1, <2>2, <2>3, SMTT(60)
<1>10. Ring(m, h, RemoveAt(q, i))
  BY <1>4, <1>9 DEF Ring, B
<1> QED
  BY <1>6, <1>8, <1>10 DEF m, A

(* A ring none of whose cells is written stays as it is.                   *)
LEMMA FrameRing ==
  ASSUME NEW k, NEW m, NEW g \in Heads, NEW p \in Seq(Node), Ring(k, g, p),
         \A c \in Cell : c = g \/ Occurs(c, p) =>
           m.next[c] = k.next[c] /\ m.prev[c] = k.prev[c]
  PROVE  Ring(m, g, p)
<1>1. Len(p) \in Nat /\ \A i \in 1..Len(p) : p[i] \in Node
  BY LenProperties, ElementOfSeq
<1>2. \A i \in Int : At(g, p, i) \in Cell /\ (At(g, p, i) = g \/ Occurs(At(g, p, i), p))
  BY <1>1 DEF At, Occurs, Cell
<1>3. ASSUME NEW i \in 0..Len(p)
      PROVE  /\ m.next[At(g, p, i)] = At(g, p, i + 1)
             /\ m.prev[At(g, p, i + 1)] = At(g, p, i)
  <2>1. i \in Int /\ i + 1 \in Int
    BY <1>1
  <2> QED
    BY <1>2, <2>1 DEF Ring
<1> QED
  BY <1>3 DEF Ring

-----------------------------------------------------------------------------
(* The inductive invariant, of any pointers k and contents qs.             *)

DisjointQ(qs) ==
  \A g, h \in Heads : \A i \in 1..Len(qs[g]), j \in 1..Len(qs[h]) :
    qs[g][i] = qs[h][j] => g = h /\ i = j

Good(k, qs) ==
  /\ k \in Links
  /\ qs \in [Heads -> Seq(Node)]
  /\ DisjointQ(qs)
  /\ \A h \in Heads : Ring(k, h, qs[h])

Absent(t, qs) == \A h \in Heads : ~Occurs(t, qs[h])

(* Replacing the ring of h by one whose entries are in no other queue.     *)
LEMMA ReplaceRing ==
  ASSUME NEW k, NEW qs, Good(k, qs), NEW h \in Heads, NEW m \in Links,
         NEW c \in Seq(Node), Distinct(c), Ring(m, h, c),
         \A g \in Heads \ {h} : Ring(m, g, qs[g]),
         \A x : Occurs(x, c) => \A g \in Heads \ {h} : ~Occurs(x, qs[g])
  PROVE  Good(m, [qs EXCEPT ![h] = c])
<1> DEFINE rs == [qs EXCEPT ![h] = c]
<1>1. /\ rs \in [Heads -> Seq(Node)] /\ rs[h] = c
      /\ \A g \in Heads \ {h} : rs[g] = qs[g]
  BY DEF Good
<1>2. \A f, g \in Heads : \A i \in 1..Len(qs[f]), j \in 1..Len(qs[g]) :
        qs[f][i] = qs[g][j] => f = g /\ i = j
  BY DEF Good, DisjointQ
<1> HIDE DEF rs
<1>3. ASSUME NEW f \in Heads, NEW g \in Heads,
             NEW i \in 1..Len(rs[f]), NEW j \in 1..Len(rs[g]), rs[f][i] = rs[g][j]
      PROVE  f = g /\ i = j
  <2>1. CASE f = h /\ g = h
    BY <1>1, <1>3, <2>1 DEF Distinct
  <2>2. CASE f = h /\ g # h
    <3>1. c[i] = qs[g][j] /\ i \in 1..Len(c) /\ j \in 1..Len(qs[g])
      BY <1>1, <1>3, <2>2, SMTT(60)
    <3>2. Occurs(c[i], c) /\ Occurs(c[i], qs[g])
      BY <3>1 DEF Occurs
    <3> QED
      BY <2>2, <3>2
  <2>3. CASE f # h /\ g = h
    <3>1. c[j] = qs[f][i] /\ j \in 1..Len(c) /\ i \in 1..Len(qs[f])
      BY <1>1, <1>3, <2>3, SMTT(60)
    <3>2. Occurs(c[j], c) /\ Occurs(c[j], qs[f])
      BY <3>1 DEF Occurs
    <3> QED
      BY <2>3, <3>2
  <2>4. CASE f # h /\ g # h
    <3>1. rs[f] = qs[f] /\ rs[g] = qs[g]
      BY <1>1, <2>4
    <3> QED
      BY <1>2, <1>3, <3>1
  <2> QED
    BY <2>1, <2>2, <2>3, <2>4, SMTT(60)
<1>4. DisjointQ(rs)
  BY <1>3 DEF DisjointQ
<1> QED
  BY <1>1, <1>4 DEF Good, rs

(* Writes to h, to entries of its queue and to an entry of no queue leave  *)
(* the other rings alone.                                                  *)
LEMMA OtherRings ==
  ASSUME NEW k, NEW qs, Good(k, qs), NEW h \in Heads, NEW m, NEW t,
         \A g \in Heads \ {h} : t # g /\ ~Occurs(t, qs[g]),
         \A x \in Cell : x # h /\ x # t /\ ~Occurs(x, qs[h]) =>
           m.next[x] = k.next[x] /\ m.prev[x] = k.prev[x]
  PROVE  \A g \in Heads \ {h} : Ring(m, g, qs[g])
<1> SUFFICES ASSUME NEW g \in Heads \ {h}
             PROVE  Ring(m, g, qs[g])
  OBVIOUS
<1>1. Ring(k, g, qs[g]) /\ qs[g] \in Seq(Node) /\ qs[h] \in Seq(Node)
  BY DEF Good
<1>2. /\ \A j \in 1..Len(qs[g]) : qs[g][j] \in Node
      /\ \A j \in 1..Len(qs[h]) : qs[h][j] \in Node
  BY <1>1, ElementOfSeq
<1>3. ASSUME NEW x, x = g \/ Occurs(x, qs[g])
      PROVE  x # h /\ x # t /\ ~Occurs(x, qs[h])
  BY <1>2, <1>3, ListAssumption, SMTT(60) DEF Occurs, Good, DisjointQ
<1>4. \A x \in Cell : x = g \/ Occurs(x, qs[g]) =>
        m.next[x] = k.next[x] /\ m.prev[x] = k.prev[x]
  BY <1>3
<1> QED
  BY <1>1, <1>4, FrameRing, Zenon

(* The entries left by the three sequence operations.                      *)
LEMMA ConsDistinct ==
  ASSUME NEW q \in Seq(Node), Distinct(q), NEW t \in Node, ~Occurs(t, q)
  PROVE  /\ Distinct(Cons(t, q))
         /\ \A x : Occurs(x, Cons(t, q)) => x = t \/ Occurs(x, q)
<1> DEFINE c == Cons(t, q)
<1>1. /\ Len(q) \in Nat /\ Len(c) = Len(q) + 1 /\ c[1] = t
      /\ \A i \in 1..Len(q) : c[i + 1] = q[i]
  BY ConsEntries, LenProperties
<1> HIDE DEF c
<1>2. ASSUME NEW j \in 1..Len(c)
      PROVE  \/ c[j] = t /\ j = 1
             \/ j - 1 \in 1..Len(q) /\ c[j] = q[j - 1]
  <2>1. j = 1 \/ (j - 1 \in 1..Len(q) /\ (j - 1) + 1 = j)
    BY <1>1
  <2> QED
    BY <1>1, <2>1
<1>3. ASSUME NEW i \in 1..Len(c), NEW j \in 1..Len(c), c[i] = c[j]
      PROVE  i = j
  <2>1. i \in Int /\ j \in Int
    BY <1>1
  <2>2. CASE i = 1
    BY <1>2, <1>3, <2>2, SMTT(60) DEF Occurs
  <2>3. CASE j = 1
    BY <1>2, <1>3, <2>3, SMTT(60) DEF Occurs
  <2>4. CASE i # 1 /\ j # 1
    <3>1. i - 1 \in 1..Len(q) /\ j - 1 \in 1..Len(q) /\ q[i - 1] = q[j - 1]
      BY <1>2, <1>3, <2>4, SMTT(60)
    <3>2. i - 1 = j - 1
      BY <3>1 DEF Distinct
    <3> QED
      BY <2>1, <3>2
  <2> QED
    BY <2>2, <2>3, <2>4
<1>4. ASSUME NEW x, Occurs(x, c)
      PROVE  x = t \/ Occurs(x, q)
  BY <1>2, <1>4 DEF Occurs
<1> QED
  BY <1>3, <1>4, SMTT(60) DEF Distinct, c

LEMMA AppendDistinct ==
  ASSUME NEW q \in Seq(Node), Distinct(q), NEW t \in Node, ~Occurs(t, q)
  PROVE  /\ Distinct(Append(q, t))
         /\ \A x : Occurs(x, Append(q, t)) => x = t \/ Occurs(x, q)
<1> DEFINE c == Append(q, t)
<1>1. /\ Len(q) \in Nat /\ Len(c) = Len(q) + 1 /\ c[Len(q) + 1] = t
      /\ \A i \in 1..Len(q) : c[i] = q[i]
  BY AppendProperties, LenProperties
<1> HIDE DEF c
<1>2. \A i \in 1..Len(c) : i \in 1..Len(q) \/ i = Len(q) + 1
  BY <1>1
<1>3. ASSUME NEW i \in 1..Len(c), NEW j \in 1..Len(c), c[i] = c[j]
      PROVE  i = j
  BY <1>1, <1>2, <1>3, SMTT(60) DEF Distinct, Occurs
<1>4. ASSUME NEW x, Occurs(x, c)
      PROVE  x = t \/ Occurs(x, q)
  BY <1>1, <1>2, <1>4, SMTT(60) DEF Occurs
<1> QED
  BY <1>3, <1>4 DEF Distinct, c

LEMMA RemoveAtDistinct ==
  ASSUME NEW q \in Seq(Node), Distinct(q), NEW i \in 1..Len(q)
  PROVE  /\ Distinct(RemoveAt(q, i))
         /\ \A x : Occurs(x, RemoveAt(q, i)) => x # q[i] /\ Occurs(x, q)
<1> DEFINE c == RemoveAt(q, i)
<1>1. /\ Len(q) \in Nat /\ Len(c) = Len(q) - 1
      /\ \A j \in 1..Len(q) - 1 : c[j] = IF j < i THEN q[j] ELSE q[j + 1]
  BY RemoveAtEntries, LenProperties
<1> HIDE DEF c
<1>2. ASSUME NEW j \in 1..Len(c)
      PROVE  \/ j < i /\ c[j] = q[j] /\ j \in 1..Len(q)
             \/ j >= i /\ c[j] = q[j + 1] /\ j + 1 \in 1..Len(q)
  BY <1>1
<1>3. ASSUME NEW u \in 1..Len(c), NEW v \in 1..Len(c), c[u] = c[v]
      PROVE  u = v
  <2>1. u \in Int /\ v \in Int /\ i \in Int
    BY <1>1
  <2> DEFINE from(j) == IF j < i THEN j ELSE j + 1
  <2>2. /\ from(u) \in 1..Len(q) /\ c[u] = q[from(u)]
        /\ from(v) \in 1..Len(q) /\ c[v] = q[from(v)]
    BY <1>2, <2>1
  <2>3. from(u) = from(v)
    BY <1>3, <2>2, Zenon DEF Distinct
  <2> QED
    BY <2>1, <2>3
<1>4. ASSUME NEW x, Occurs(x, c)
      PROVE  x # q[i] /\ Occurs(x, q)
  <2>1. PICK j \in 1..Len(c) : c[j] = x
    BY <1>4 DEF Occurs
  <2>2. PICK u \in 1..Len(q) : x = q[u] /\ u # i
    BY <1>1, <1>2, <2>1, SMTT(60)
  <2> QED
    BY <2>2 DEF Distinct, Occurs
<1> QED
  BY <1>3, <1>4 DEF Distinct, c

-----------------------------------------------------------------------------
(* The three elementary operations keep the pointers in step.              *)

LEMMA LinkHead ==
  ASSUME NEW k, NEW qs, Good(k, qs), NEW h \in Heads, NEW t \in Node, Absent(t, qs)
  PROVE  Good(list_add(k, t, h), [qs EXCEPT ![h] = Cons(t, @)])
<1> DEFINE m == list_add(k, t, h)
           q == qs[h]
           x == At(h, q, 1)
<1>1. k \in Links /\ q \in Seq(Node) /\ Distinct(q) /\ ~Occurs(t, q) /\ Ring(k, h, q)
  BY DEF Good, DisjointQ, Distinct, Absent
<1>2. k.next[h] = x /\ m \in Links /\ Ring(m, h, Cons(t, q))
  BY <1>1, AddRing, SMTT(60)
<1>3. /\ Cons(t, q) \in Seq(Node) /\ Distinct(Cons(t, q))
      /\ \A y : Occurs(y, Cons(t, q)) => y = t \/ Occurs(y, q)
  BY <1>1, ConsEntries, ConsDistinct, SMTT(60)
<1>4. h \in Cell /\ x \in Cell /\ (x = h \/ Occurs(x, q))
  BY <1>1, AtPlaces, SMTT(60) DEF Cell, At, Occurs
<1>5. m = list_add_(k, t, h, x)
  BY <1>2 DEF list_add
<1>6. \A y \in Cell : y # h /\ y # t /\ ~Occurs(y, q) =>
        m.next[y] = k.next[y] /\ m.prev[y] = k.prev[y]
  <2> HIDE DEF x, m
  <2> QED
    BY <1>1, <1>4, <1>5, AddWrites, SMTT(60)
<1>7. \A g \in Heads \ {h} : t # g /\ ~Occurs(t, qs[g])
  BY ListAssumption DEF Absent
<1>8. \A g \in Heads \ {h} : Ring(m, g, qs[g])
  <2> HIDE DEF m
  <2> QED
    BY <1>6, <1>7, OtherRings, SMTT(60)
<1>9. \A y : Occurs(y, Cons(t, q)) => \A g \in Heads \ {h} : ~Occurs(y, qs[g])
  BY <1>3, Zenon DEF Good, DisjointQ, Absent, Occurs
<1> HIDE DEF m
<1>10. Good(m, [qs EXCEPT ![h] = Cons(t, q)])
  BY <1>2, <1>3, <1>8, <1>9, ReplaceRing, SMTT(60)
<1> QED
  BY <1>10 DEF m

LEMMA LinkTail ==
  ASSUME NEW k, NEW qs, Good(k, qs), NEW h \in Heads, NEW t \in Node, Absent(t, qs)
  PROVE  Good(list_add_tail(k, t, h), [qs EXCEPT ![h] = Append(@, t)])
<1> DEFINE m == list_add_tail(k, t, h)
           q == qs[h]
           x == At(h, q, Len(q))
<1>1. k \in Links /\ q \in Seq(Node) /\ Distinct(q) /\ ~Occurs(t, q) /\ Ring(k, h, q)
  BY DEF Good, DisjointQ, Distinct, Absent
<1>2. k.prev[h] = x /\ m \in Links /\ Ring(m, h, Append(q, t))
  BY <1>1, AddTailRing, SMTT(60)
<1>3. /\ Append(q, t) \in Seq(Node) /\ Distinct(Append(q, t))
      /\ \A y : Occurs(y, Append(q, t)) => y = t \/ Occurs(y, q)
  BY <1>1, AppendProperties, AppendDistinct, SMTT(60)
<1>4. h \in Cell /\ x \in Cell /\ (x = h \/ Occurs(x, q))
  BY <1>1, AtPlaces DEF Cell, At, Occurs
<1>5. m = list_add_(k, t, x, h)
  BY <1>2 DEF list_add_tail
<1>6. \A y \in Cell : y # h /\ y # t /\ ~Occurs(y, q) =>
        m.next[y] = k.next[y] /\ m.prev[y] = k.prev[y]
  <2> HIDE DEF x, m
  <2> QED
    BY <1>1, <1>4, <1>5, AddWrites, SMTT(60)
<1>7. \A g \in Heads \ {h} : t # g /\ ~Occurs(t, qs[g])
  BY ListAssumption DEF Absent
<1>8. \A g \in Heads \ {h} : Ring(m, g, qs[g])
  <2> HIDE DEF m
  <2> QED
    BY <1>6, <1>7, OtherRings
<1>9. \A y : Occurs(y, Append(q, t)) => \A g \in Heads \ {h} : ~Occurs(y, qs[g])
  BY <1>3 DEF Good, DisjointQ, Absent, Occurs
<1> HIDE DEF m
<1>10. Good(m, [qs EXCEPT ![h] = Append(q, t)])
  BY <1>2, <1>3, <1>8, <1>9, ReplaceRing, ZenonT(60)
<1> QED
  BY <1>10 DEF m

LEMMA Unlink ==
  ASSUME NEW k, NEW qs, Good(k, qs), NEW h \in Heads, NEW i \in 1..Len(qs[h])
  PROVE  /\ qs[h][i] \in Node
         /\ Good(list_del_entry(k, qs[h][i]), [qs EXCEPT ![h] = RemoveAt(@, i)])
         /\ Absent(qs[h][i], [qs EXCEPT ![h] = RemoveAt(@, i)])
<1> DEFINE q == qs[h]
           e == q[i]
           m == list_del_entry(k, e)
           x == At(h, q, i - 1)
           y == At(h, q, i + 1)
           c == RemoveAt(q, i)
<1>1. /\ k \in Links /\ q \in Seq(Node) /\ Distinct(q) /\ Ring(k, h, q)
      /\ qs \in [Heads -> Seq(Node)]
  BY DEF Good, DisjointQ, Distinct
<1>2. k.prev[e] = x /\ k.next[e] = y /\ m \in Links /\ Ring(m, h, c)
  BY <1>1, DelRing
<1>3. /\ c \in Seq(Node) /\ Distinct(c)
      /\ \A z : Occurs(z, c) => z # e /\ Occurs(z, q)
  BY <1>1, RemoveAtEntries, RemoveAtDistinct, SMTT(60)
<1>4. /\ i \in Int /\ e \in Node
      /\ x \in Cell /\ (x = h \/ Occurs(x, q))
      /\ y \in Cell /\ (y = h \/ Occurs(y, q))
  <2>1. i \in Int /\ Len(q) \in Nat /\ e \in Node
    BY <1>1, ElementOfSeq, LenProperties, SMTT(60)
  <2> QED
    BY <1>1, <2>1, AtPlaces DEF Cell, At, Occurs
<1>5. m = list_del_(k, x, y)
  BY <1>2 DEF list_del_entry
<1>6. \A z \in Cell : z # h /\ z # e /\ ~Occurs(z, q) =>
        m.next[z] = k.next[z] /\ m.prev[z] = k.prev[z]
  <2> HIDE DEF x, y, m
  <2>1. /\ \A z \in Cell : list_del_(k, x, y).next[z] = IF z = x THEN y ELSE k.next[z]
        /\ \A z \in Cell : list_del_(k, x, y).prev[z] = IF z = y THEN x ELSE k.prev[z]
    BY <1>1, <1>4, DelWrites
  <2> QED
    BY <1>4, <1>5, <2>1, SMTT(60)
<1>7. \A g \in Heads \ {h} : e # g /\ ~Occurs(e, qs[g])
  BY <1>4, ListAssumption DEF Good, DisjointQ, Occurs
<1>8. ASSUME NEW g \in Heads \ {h}
      PROVE  Ring(m, g, qs[g])
  <2>1. Ring(k, g, qs[g]) /\ qs[g] \in Seq(Node)
    BY DEF Good
  <2>2. /\ \A j \in 1..Len(qs[g]) : qs[g][j] \in Node
        /\ \A j \in 1..Len(q) : q[j] \in Node
    BY <1>1, <2>1, ElementOfSeq, SMTT(60)
  <2>3. ASSUME NEW z, z = g \/ Occurs(z, qs[g])
        PROVE  z # h /\ z # e /\ ~Occurs(z, q)
    BY <1>7, <2>2, <2>3, ListAssumption, SMTT(60) DEF Occurs, Good, DisjointQ
  <2> HIDE DEF m, e, q
  <2>4. \A z \in Cell : z = g \/ Occurs(z, qs[g]) =>
          m.next[z] = k.next[z] /\ m.prev[z] = k.prev[z]
    BY <1>6, <2>3
  <2> QED
    BY <2>1, <2>4, FrameRing, Zenon
<1>9. \A z : Occurs(z, c) => \A g \in Heads \ {h} : ~Occurs(z, qs[g])
  <2> HIDE DEF c
  <2> QED
    BY <1>3, ZenonT(60) DEF Good, DisjointQ, Occurs
<1> HIDE DEF m, c
<1>10. Good(m, [qs EXCEPT ![h] = c])
  BY <1>2, <1>3, <1>8, <1>9, ReplaceRing
<1>11. Absent(e, [qs EXCEPT ![h] = c])
  BY <1>1, <1>3, <1>7, SMTT(60) DEF Absent
<1> QED
  BY <1>4, <1>10, <1>11, SMTT(60) DEF m, c

-----------------------------------------------------------------------------
(* The invariant of the specification.                                     *)

IInv == Good(l, queue)

LEMMA InitGood == Init => IInv
<1> SUFFICES ASSUME Init
             PROVE  IInv
  OBVIOUS
<1>1. l \in Links /\ queue \in [Heads -> Seq(Node)]
  BY DEF Init, Links, Cell
<1>2. \A h \in Heads : queue[h] = <<>> /\ Len(queue[h]) = 0
  BY DEF Init
<1>3. \A h \in Heads : l.next[h] = h /\ l.prev[h] = h
  BY DEF Init, Cell
<1>4. \A h \in Heads : Ring(l, h, queue[h])
  BY <1>2, <1>3 DEF Ring, At
<1> QED
  BY <1>1, <1>2, <1>4, SMTT(60) DEF IInv, Good, DisjointQ

LEMMA LinkedOccurs ==
  ASSUME queue \in [Heads -> Seq(Node)], NEW t
  PROVE  Linked(t) <=> ~Absent(t, queue)
<1>1. \A h \in Heads : DOMAIN queue[h] = 1..Len(queue[h])
  BY LenProperties
<1> QED
  BY <1>1 DEF Linked, Absent, Occurs, ToSet

LEMMA AddHeadGood ==
  ASSUME IInv, NEW t \in Node, NEW h \in Heads, AddHead(t, h)
  PROVE  IInv'
<1>1. Good(l, queue) /\ Absent(t, queue)
  BY LinkedOccurs DEF IInv, Good, AddHead
<1>2. Good(list_add(l, t, h), [queue EXCEPT ![h] = Cons(t, @)])
  BY <1>1, LinkHead
<1> QED
  BY <1>2 DEF AddHead, IInv

LEMMA AddTailGood ==
  ASSUME IInv, NEW t \in Node, NEW h \in Heads, AddTail(t, h)
  PROVE  IInv'
<1>1. Good(l, queue) /\ Absent(t, queue)
  BY LinkedOccurs DEF IInv, Good, AddTail
<1>2. Good(list_add_tail(l, t, h), [queue EXCEPT ![h] = Append(@, t)])
  BY <1>1, LinkTail
<1> QED
  BY <1>2 DEF AddTail, IInv

(* list_del() is __list_del_entry() and two writes to a cell of no ring.   *)
LEMMA DeleteGood ==
  ASSUME IInv, NEW h \in Heads, NEW i \in 1..Len(queue[h]), Delete(h, i)
  PROVE  IInv'
<1> DEFINE e == queue[h][i]
           m == list_del_entry(l, e)
           d == list_del(l, e)
           rs == [queue EXCEPT ![h] = RemoveAt(@, i)]
<1>1. e \in Node /\ Good(m, rs) /\ Absent(e, rs)
  BY Unlink DEF IInv
<1>2. d = [next |-> [m.next EXCEPT ![e] = NULL], prev |-> [m.prev EXCEPT ![e] = NULL]]
  BY DEF list_del
<1> HIDE DEF m, d, rs, e
<1>3. /\ d \in Links
      /\ \A x \in Cell : x # e => d.next[x] = m.next[x] /\ d.prev[x] = m.prev[x]
  BY <1>1, <1>2 DEF Good, Links, Cell
<1>4. ASSUME NEW g \in Heads
      PROVE  Ring(d, g, rs[g])
  <2>1. g # e /\ ~Occurs(e, rs[g]) /\ rs[g] \in Seq(Node) /\ Ring(m, g, rs[g])
    BY <1>1, ListAssumption, SMTT(60) DEF Absent, Good
  <2>2. \A x \in Cell : x = g \/ Occurs(x, rs[g]) =>
          d.next[x] = m.next[x] /\ d.prev[x] = m.prev[x]
    BY <1>3, <2>1, SMTT(60)
  <2> QED
    BY <2>1, <2>2, FrameRing, Zenon
<1>5. Good(d, rs)
  BY <1>1, <1>3, <1>4, SMTT(60) DEF Good
<1> QED
  BY <1>5 DEF Delete, IInv, d, rs, e

LEMMA MoveGood ==
  ASSUME IInv, NEW h \in Heads, NEW i \in 1..Len(queue[h]), NEW g \in Heads,
         Move(h, i, g)
  PROVE  IInv'
<1> DEFINE e == queue[h][i]
           m == list_del_entry(l, e)
           rs == [queue EXCEPT ![h] = RemoveAt(@, i)]
<1>1. e \in Node /\ Good(m, rs) /\ Absent(e, rs)
  BY Unlink DEF IInv
<1>2. l' = list_add(m, e, g) /\ queue' = [rs EXCEPT ![g] = Cons(e, @)]
  BY DEF Move, list_move
<1> HIDE DEF m, rs, e
<1>3. Good(list_add(m, e, g), [rs EXCEPT ![g] = Cons(e, @)])
  BY <1>1, LinkHead, SMTT(60)
<1> QED
  BY <1>2, <1>3 DEF IInv

LEMMA MoveTailGood ==
  ASSUME IInv, NEW h \in Heads, NEW i \in 1..Len(queue[h]), NEW g \in Heads,
         MoveTail(h, i, g)
  PROVE  IInv'
<1> DEFINE e == queue[h][i]
           m == list_del_entry(l, e)
           rs == [queue EXCEPT ![h] = RemoveAt(@, i)]
<1>1. e \in Node /\ Good(m, rs) /\ Absent(e, rs)
  BY Unlink DEF IInv
<1>2. l' = list_add_tail(m, e, g) /\ queue' = [rs EXCEPT ![g] = Append(@, e)]
  BY DEF MoveTail, list_move_tail
<1> HIDE DEF m, rs, e
<1>3. Good(list_add_tail(m, e, g), [rs EXCEPT ![g] = Append(@, e)])
  BY <1>1, LinkTail
<1> QED
  BY <1>2, <1>3, SMTT(60) DEF IInv

LEMMA NextGood == IInv /\ [Next]_vars => IInv'
<1> SUFFICES ASSUME IInv, [Next]_vars
             PROVE  IInv'
  OBVIOUS
<1>1. CASE UNCHANGED vars
  BY <1>1 DEF vars, IInv
<1>2. CASE Next
  BY <1>2, AddHeadGood, AddTailGood, DeleteGood, MoveGood, MoveTailGood, SMTT(60) DEF Next
<1> QED
  BY <1>1, <1>2

(* Reading the heads of closed rings.                                      *)
LEMMA GoodReads == IInv => ReadsAgree
<1> SUFFICES ASSUME IInv, NEW h \in Heads
             PROVE  /\ list_empty(l, h) <=> queue[h] = <<>>
                    /\ list_is_singular(l, h) <=> Len(queue[h]) = 1
                    /\ queue[h] # <<>> => /\ getNextTask(l, h) = Head(queue[h])
                                          /\ getCurrentTask(l, h) = Last(queue[h])
  BY DEF ReadsAgree
<1> DEFINE q == queue[h]
           n == Len(q)
           A(i) == At(h, q, i)
<1>1. q \in Seq(Node) /\ Distinct(q) /\ Ring(l, h, q)
  BY DEF IInv, Good, DisjointQ, Distinct
<1>2. /\ n \in Nat
      /\ q = <<>> <=> n = 0
      /\ n # 0 => Head(q) = q[1]
  BY <1>1, LenProperties, EmptySeq, SMTT(60)
<1>3. /\ A(0) = h /\ A(n + 1) = h
      /\ \A i \in 1..n : A(i) = q[i] /\ A(i) \in Node
      /\ \A i, j \in 1..n + 1 : A(i) = A(j) => i = j
  BY <1>1, AtPlaces, SMTT(60)
<1>4. l.next[h] = A(1) /\ l.prev[h] = A(n)
  <2>1. \A i \in 0..n : l.next[A(i)] = A(i + 1) /\ l.prev[A(i + 1)] = A(i)
    BY <1>1, SMTT(60) DEF Ring
  <2> HIDE DEF A, q
  <2> QED
    BY <1>2, <1>3, <2>1, SMTT(60)
<1> HIDE DEF A, q
<1>5. CASE n = 0
  BY <1>2, <1>3, <1>4, <1>5, SMTT(60) DEF list_empty, list_is_singular, q
<1>6. CASE n > 0
  <2>1. A(1) = q[1] /\ A(n) = q[n] /\ A(1) # h /\ (A(1) = A(n) <=> n = 1)
    <3>1. 1 \in 1..n /\ n \in 1..n /\ 1 \in 1..n + 1 /\ n \in 1..n + 1
      BY <1>2, <1>6
    <3>2. A(1) = A(n) <=> n = 1
      BY <1>3, <3>1, ZenonT(60)
    <3> QED
      BY <1>3, <3>1, <3>2, ListAssumption, SMTT(60)
  <2> QED
    BY <1>2, <1>4, <1>6, <2>1, SMTT(60)
       DEF list_empty, list_is_singular, getNextTask, getCurrentTask, Last, q
<1> QED
  BY <1>2, <1>5, <1>6, SMTT(60)

(* The list.h operations implement the sequence operations: in every       *)
(* reachable state each queue is a closed ring spelling its sequence.      *)
THEOREM RingsCorrect == Spec => []Rings
<1>1. IInv => Rings
  BY DEF IInv, Good, Rings
<1> QED
  BY <1>1, InitGood, NextGood, PTL DEF Spec

(* The heads read by schedule(), awake() and getCurrentTask() tell the     *)
(* truth about the queues.                                                 *)
THEOREM ReadsCorrect == Spec => []ReadsAgree
  BY InitGood, NextGood, GoodReads, PTL DEF Spec

(* All pointers stay within the cells, or NULL in an unlinked entry.       *)
THEOREM TypeCorrect == Spec => []TypeOK
<1>1. IInv => TypeOK
  BY DEF IInv, Good, TypeOK, Links
<1> QED
  BY <1>1, InitGood, NextGood, PTL DEF Spec
=============================================================================
