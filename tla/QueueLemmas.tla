---------------------------- MODULE QueueLemmas ----------------------------
(***************************************************************************)
(* Facts about the sequence operators that model the kernel's queues, for  *)
(* the proofs of LinkedListProofs and SchedProofs.                         *)
(***************************************************************************)
EXTENDS Integers, SequencesExt, SequenceTheorems, WellFoundedInduction, TLAPS

-----------------------------------------------------------------------------
(* The sequence operators, entry by entry.                                 *)

(* list_add's counterpart: Cons shifts every entry up by one.              *)
LEMMA ConsEntries ==
  ASSUME NEW S, NEW q \in Seq(S), NEW t \in S
  PROVE  /\ Cons(t, q) \in Seq(S)
         /\ Len(Cons(t, q)) = Len(q) + 1
         /\ Cons(t, q)[1] = t
         /\ \A i \in 1..Len(q) : Cons(t, q)[i + 1] = q[i]
<1>1. /\ <<t>> \in Seq(S) /\ Len(<<t>>) = 1 /\ <<t>>[1] = t
  OBVIOUS
<1>2. /\ <<t>> \o q \in Seq(S)
      /\ Len(<<t>> \o q) = 1 + Len(q)
      /\ \A i \in 1..1 + Len(q) :
           (<<t>> \o q)[i] = IF i <= 1 THEN <<t>>[i] ELSE q[i - 1]
  BY <1>1, ConcatProperties
<1>3. Len(q) \in Nat
  BY LenProperties
<1>4. (<<t>> \o q)[1] = t
  BY <1>1, <1>2, <1>3
<1>5. ASSUME NEW i \in 1..Len(q)
      PROVE  (<<t>> \o q)[i + 1] = q[i]
  BY <1>2, <1>3
<1> QED
  BY <1>2, <1>3, <1>4, <1>5 DEF Cons

(* list_del's counterpart: RemoveAt closes the gap at i.                   *)
LEMMA RemoveAtEntries ==
  ASSUME NEW S, NEW q \in Seq(S), NEW i \in 1..Len(q)
  PROVE  /\ RemoveAt(q, i) \in Seq(S)
         /\ Len(RemoveAt(q, i)) = Len(q) - 1
         /\ \A j \in 1..Len(q) - 1 :
              RemoveAt(q, i)[j] = IF j < i THEN q[j] ELSE q[j + 1]
<1> DEFINE a == SubSeq(q, 1, i - 1)
           b == SubSeq(q, i + 1, Len(q))
<1>1. /\ Len(q) \in Nat
      /\ \A j \in 1..Len(q) : q[j] \in S
  BY LenProperties, ElementOfSeq
<1>2. /\ a \in Seq(S)
      /\ Len(a) = i - 1
      /\ \A j \in 1..i - 1 : a[j] = q[j]
  <2>1. /\ a \in Seq(S)
        /\ Len(a) = IF 1 <= i - 1 THEN i - 1 - 1 + 1 ELSE 0
        /\ \A j \in 1..i - 1 - 1 + 1 : a[j] = q[1 + j - 1]
    BY <1>1, SubSeqProperties
  <2> QED
    BY <1>1, <2>1
<1>3. /\ b \in Seq(S)
      /\ Len(b) = Len(q) - i
      /\ \A j \in 1..Len(q) - i : b[j] = q[i + j]
  <2>1. /\ b \in Seq(S)
        /\ Len(b) = IF i + 1 <= Len(q) THEN Len(q) - (i + 1) + 1 ELSE 0
        /\ \A j \in 1..Len(q) - (i + 1) + 1 : b[j] = q[i + 1 + j - 1]
    BY <1>1, SubSeqProperties
  <2> QED
    BY <1>1, <2>1
<1> HIDE DEF a, b
<1>4. /\ a \o b \in Seq(S)
      /\ Len(a \o b) = Len(a) + Len(b)
      /\ \A j \in 1..Len(a) + Len(b) :
           (a \o b)[j] = IF j <= Len(a) THEN a[j] ELSE b[j - Len(a)]
  BY <1>2, <1>3, ConcatProperties, Zenon
<1>5. ASSUME NEW j \in 1..Len(q) - 1
      PROVE  (a \o b)[j] = IF j < i THEN q[j] ELSE q[j + 1]
  <2>1. CASE j < i
    BY <1>1, <1>2, <1>3, <1>4, <2>1
  <2>2. CASE j >= i
    <3>1. (a \o b)[j] = b[j - (i - 1)]
      BY <1>1, <1>2, <1>3, <1>4, <2>2
    <3>2. j - (i - 1) \in 1..Len(q) - i /\ i + (j - (i - 1)) = j + 1
      BY <1>1, <2>2
    <3> QED
      BY <1>1, <1>3, <2>2, <3>1, <3>2
  <2>3. j < i \/ j >= i
    BY <1>1
  <2> QED
    BY <2>1, <2>2, <2>3, Zenon
<1>6. RemoveAt(q, i) = a \o b
  BY DEF RemoveAt, a, b
<1>7. Len(a) + Len(b) = Len(q) - 1
  BY <1>1, <1>2, <1>3
<1> QED
  BY <1>4, <1>5, <1>6, <1>7

-----------------------------------------------------------------------------
(* Queues without repetition, and the set of their entries.                *)

Queue(S) == {q \in Seq(S) : IsInjective(q)}

(* The entries of a queue, by their places.                                *)
LEMMA QueueEntries ==
  ASSUME NEW S, NEW q \in Queue(S)
  PROVE  /\ q \in Seq(S) /\ Len(q) \in Nat
         /\ \A i \in 1..Len(q) : q[i] \in S /\ q[i] \in ToSet(q)
         /\ \A x \in ToSet(q) : x \in S /\ \E i \in 1..Len(q) : q[i] = x
         /\ \A i, j \in 1..Len(q) : q[i] = q[j] => i = j
         /\ q = <<>> <=> Len(q) = 0
         /\ q = <<>> <=> ToSet(q) = {}
<1>1. q \in Seq(S) /\ DOMAIN q = 1..Len(q) /\ Len(q) \in Nat
  BY LenProperties DEF Queue
<1>2. \A i \in 1..Len(q) : q[i] \in S
  BY <1>1, ElementOfSeq
<1>3. q = <<>> <=> Len(q) = 0
  BY <1>1, EmptySeq
<1>4. Len(q) # 0 => 1 \in 1..Len(q)
  BY <1>1
<1>5. /\ \A i \in 1..Len(q) : q[i] \in ToSet(q)
      /\ \A x \in ToSet(q) : \E i \in 1..Len(q) : q[i] = x
  BY <1>1 DEF ToSet
<1>6. \A i, j \in 1..Len(q) : q[i] = q[j] => i = j
  BY <1>1 DEF Queue, IsInjective
<1>7. Len(q) = 0 => 1..Len(q) = {}
  OBVIOUS
<1>8. q = <<>> <=> ToSet(q) = {}
  BY <1>3, <1>4, <1>5, <1>7
<1> QED
  BY <1>1, <1>2, <1>3, <1>5, <1>6, <1>8

(* A sequence given entry by entry is a queue.                             *)
LEMMA MakeQueue ==
  ASSUME NEW S, NEW c \in Seq(S),
         \A i, j \in 1..Len(c) : c[i] = c[j] => i = j
  PROVE  c \in Queue(S) /\ ToSet(c) = {c[i] : i \in 1..Len(c)}
<1>1. DOMAIN c = 1..Len(c)
  BY LenProperties
<1> QED
  BY <1>1 DEF Queue, IsInjective, ToSet

(* list_add() of a new entry.                                              *)
LEMMA ConsQueue ==
  ASSUME NEW S, NEW q \in Queue(S), NEW t \in S, t \notin ToSet(q)
  PROVE  /\ Cons(t, q) \in Queue(S)
         /\ ToSet(Cons(t, q)) = ToSet(q) \cup {t}
         /\ Len(Cons(t, q)) = Len(q) + 1
         /\ Head(Cons(t, q)) = t
         /\ q # <<>> => Last(Cons(t, q)) = Last(q)
<1> DEFINE c == Cons(t, q)
<1>1. /\ q \in Seq(S) /\ Len(q) \in Nat
      /\ \A i \in 1..Len(q) : q[i] \in ToSet(q)
      /\ \A x \in ToSet(q) : \E i \in 1..Len(q) : q[i] = x
      /\ \A i, j \in 1..Len(q) : q[i] = q[j] => i = j
      /\ q = <<>> <=> Len(q) = 0
  BY QueueEntries
<1>2. /\ c \in Seq(S) /\ Len(c) = Len(q) + 1 /\ c[1] = t
      /\ \A i \in 1..Len(q) : c[i + 1] = q[i]
  BY <1>1, ConsEntries
<1>3. Head(c) = c[1]
  BY <1>1, <1>2
<1> HIDE DEF c
<1>4. ASSUME NEW j \in 1..Len(c), j # 1
      PROVE  j - 1 \in 1..Len(q) /\ c[j] = q[j - 1]
  <2>1. j - 1 \in 1..Len(q) /\ (j - 1) + 1 = j
    BY <1>1, <1>2, <1>4
  <2> QED
    BY <1>2, <2>1
<1>5. ASSUME NEW i \in 1..Len(c), NEW j \in 1..Len(c), c[i] = c[j]
      PROVE  i = j
  <2>1. i \in Int /\ j \in Int
    BY <1>1, <1>2
  <2>2. CASE i = 1 \/ j = 1
    <3>1. \A u \in 1..Len(c) : u # 1 => c[u] \in ToSet(q)
      BY <1>1, <1>4
    <3> QED
      BY <1>2, <1>5, <2>2, <3>1
  <2>3. CASE i # 1 /\ j # 1
    <3>1. i - 1 = j - 1
      BY <1>1, <1>4, <1>5, <2>3
    <3> QED
      BY <2>1, <3>1
  <2> QED
    BY <2>2, <2>3
<1>6. c \in Queue(S) /\ ToSet(c) = {c[i] : i \in 1..Len(c)}
  BY <1>2, <1>5, MakeQueue
<1>7. ASSUME NEW x
      PROVE  x \in ToSet(c) <=> x \in ToSet(q) \cup {t}
  <2>1. ASSUME x \in ToSet(c)
        PROVE  x \in ToSet(q) \cup {t}
    BY <1>1, <1>2, <1>4, <1>6, <2>1, SMTT(60)
  <2>2. ASSUME x \in ToSet(q)
        PROVE  x \in ToSet(c)
    <3>1. PICK i \in 1..Len(q) : q[i] = x
      BY <1>1, <2>2
    <3>2. i + 1 \in 1..Len(c)
      BY <1>1, <1>2
    <3> QED
      BY <1>2, <1>6, <3>1, <3>2
  <2>3. 1 \in 1..Len(c)
    BY <1>1, <1>2
  <2> QED
    BY <1>2, <1>6, <2>1, <2>2, <2>3
<1>8. ASSUME q # <<>>
      PROVE  Last(c) = Last(q)
  <2>1. Len(q) \in 1..Len(q)
    BY <1>1, <1>8
  <2> QED
    BY <1>2, <2>1 DEF Last
<1> QED
  BY <1>2, <1>3, <1>6, <1>7, <1>8 DEF c

(* list_del() of the entry at place i.                                     *)
LEMMA RemoveAtQueue ==
  ASSUME NEW S, NEW q \in Queue(S), NEW i \in 1..Len(q)
  PROVE  /\ RemoveAt(q, i) \in Queue(S)
         /\ ToSet(RemoveAt(q, i)) = ToSet(q) \ {q[i]}
         /\ Len(RemoveAt(q, i)) = Len(q) - 1
<1> DEFINE c == RemoveAt(q, i)
           from(j) == IF j < i THEN j ELSE j + 1
<1>1. /\ q \in Seq(S) /\ Len(q) \in Nat
      /\ \A j \in 1..Len(q) : q[j] \in ToSet(q)
      /\ \A x \in ToSet(q) : \E j \in 1..Len(q) : q[j] = x
      /\ \A u, v \in 1..Len(q) : q[u] = q[v] => u = v
  BY QueueEntries
<1>2. /\ c \in Seq(S) /\ Len(c) = Len(q) - 1
      /\ \A j \in 1..Len(q) - 1 : c[j] = IF j < i THEN q[j] ELSE q[j + 1]
  BY <1>1, RemoveAtEntries
<1> HIDE DEF c
<1>3. ASSUME NEW j \in 1..Len(c)
      PROVE  from(j) \in 1..Len(q) /\ from(j) # i /\ c[j] = q[from(j)]
  BY <1>1, <1>2
<1>4. ASSUME NEW u \in 1..Len(c), NEW v \in 1..Len(c), c[u] = c[v]
      PROVE  u = v
  <2>1. from(u) = from(v)
    BY <1>1, <1>3, <1>4, SMTT(60)
  <2> QED
    BY <1>1, <1>2, <2>1
<1>5. c \in Queue(S) /\ ToSet(c) = {c[j] : j \in 1..Len(c)}
  BY <1>2, <1>4, MakeQueue
<1>6. ASSUME NEW x
      PROVE  x \in ToSet(c) <=> x \in ToSet(q) \ {q[i]}
  <2>1. ASSUME x \in ToSet(c)
        PROVE  x \in ToSet(q) \ {q[i]}
    <3>1. PICK j \in 1..Len(c) : x = c[j]
      BY <1>5, <2>1
    <3> QED
      BY <1>1, <1>3, <3>1, SMTT(60)
  <2>2. ASSUME x \in ToSet(q), x # q[i]
        PROVE  x \in ToSet(c)
    <3>1. PICK j \in 1..Len(q) : q[j] = x
      BY <1>1, <2>2
    <3>2. CASE j < i
      <4>1. j \in 1..Len(c) /\ c[j] = x
        BY <1>1, <1>2, <3>1, <3>2
      <4> QED
        BY <1>5, <4>1
    <3>3. CASE j > i
      <4>1. j - 1 \in 1..Len(q) - 1 /\ ~(j - 1 < i) /\ (j - 1) + 1 = j
        BY <1>1, <3>3
      <4>2. c[j - 1] = x
        BY <1>2, <3>1, <4>1
      <4> QED
        BY <1>2, <1>5, <4>1, <4>2, SMTT(60)
    <3>4. j < i \/ j > i
      BY <1>1, <2>2, <3>1
    <3> QED
      BY <3>2, <3>3, <3>4
  <2> QED
    BY <2>1, <2>2
<1> QED
  BY <1>2, <1>5, <1>6 DEF c

(* Deleting the last entry, the running task.                              *)
LEMMA FrontQueue ==
  ASSUME NEW S, NEW q \in Queue(S), q # <<>>
  PROVE  /\ Last(q) \in ToSet(q)
         /\ Front(q) \in Queue(S)
         /\ ToSet(Front(q)) = ToSet(q) \ {Last(q)}
         /\ Len(Front(q)) = Len(q) - 1
<1>1. /\ q \in Seq(S) /\ Len(q) \in Nat \ {0} /\ Len(q) \in 1..Len(q)
      /\ \A j \in 1..Len(q) : q[j] \in ToSet(q) /\ q[j] \in S
  BY QueueEntries
<1> DEFINE a == SubSeq(q, 1, Len(q) - 1)
<1>2. a \in Seq(S)
  BY <1>1, SubSeqProperties
<1>3. SubSeq(q, Len(q) + 1, Len(q)) = <<>>
  BY <1>1, SubSeqEmpty
<1>4. a \o <<>> = a
  <2> HIDE DEF a
  <2> QED
    BY <1>2, ConcatEmptySeq
<1>5. Front(q) = RemoveAt(q, Len(q))
  BY <1>3, <1>4 DEF Front, RemoveAt
<1>6. ASSUME NEW i \in 1..Len(q)
      PROVE  /\ RemoveAt(q, i) \in Queue(S)
             /\ ToSet(RemoveAt(q, i)) = ToSet(q) \ {q[i]}
             /\ Len(RemoveAt(q, i)) = Len(q) - 1
  BY RemoveAtQueue, SMTT(60)
<1> QED
  BY <1>1, <1>5, <1>6, Zenon DEF Last

(* list_move_tail() of the first entry.                                    *)
LEMMA RotateQueue ==
  ASSUME NEW S, NEW q \in Queue(S), q # <<>>
  PROVE  /\ Append(Tail(q), Head(q)) \in Queue(S)
         /\ ToSet(Append(Tail(q), Head(q))) = ToSet(q)
         /\ Len(Append(Tail(q), Head(q))) = Len(q)
<1> DEFINE c == Append(Tail(q), Head(q))
           n == Len(q)
           from(j) == IF j < n THEN j + 1 ELSE 1
<1>1. /\ q \in Seq(S) /\ n \in Nat /\ n # 0
      /\ \A j \in 1..n : q[j] \in ToSet(q)
      /\ \A x \in ToSet(q) : \E j \in 1..n : q[j] = x
      /\ \A u, v \in 1..n : q[u] = q[v] => u = v
  BY QueueEntries
<1>2. /\ Head(q) \in S /\ Head(q) = q[1]
      /\ Tail(q) \in Seq(S) /\ Len(Tail(q)) = n - 1
      /\ \A j \in 1..n - 1 : Tail(q)[j] = q[j + 1]
  BY <1>1, HeadTailProperties
<1>3. /\ c \in Seq(S) /\ Len(c) = n
      /\ \A j \in 1..n - 1 : c[j] = q[j + 1]
      /\ c[n] = q[1]
  <2> DEFINE a == Tail(q)
             e == Head(q)
  <2> HIDE DEF a, e
  <2>1. /\ Append(a, e) \in Seq(S)
        /\ Len(Append(a, e)) = Len(a) + 1
        /\ \A j \in 1..Len(a) : Append(a, e)[j] = a[j]
        /\ Append(a, e)[Len(a) + 1] = e
    BY <1>2, AppendProperties DEF a, e
  <2> QED
    BY <1>1, <1>2, <2>1 DEF a, e
<1> HIDE DEF c
<1>4. ASSUME NEW j \in 1..Len(c)
      PROVE  from(j) \in 1..n /\ c[j] = q[from(j)]
  BY <1>1, <1>3
<1>5. ASSUME NEW u \in 1..Len(c), NEW v \in 1..Len(c), c[u] = c[v]
      PROVE  u = v
  <2>1. from(u) = from(v)
    BY <1>1, <1>4, <1>5
  <2> QED
    BY <1>1, <1>3, <2>1
<1>6. c \in Queue(S) /\ ToSet(c) = {c[j] : j \in 1..Len(c)}
  BY <1>3, <1>5, MakeQueue
<1>7. ASSUME NEW x
      PROVE  x \in ToSet(c) <=> x \in ToSet(q)
  <2>1. ASSUME x \in ToSet(c)
        PROVE  x \in ToSet(q)
    BY <1>1, <1>4, <1>6, <2>1, SMTT(60)
  <2>2. ASSUME x \in ToSet(q)
        PROVE  x \in ToSet(c)
    <3>1. PICK j \in 1..n : q[j] = x
      BY <1>1, <2>2
    <3>2. CASE j = 1
      <4>1. n \in 1..Len(c) /\ c[n] = x
        BY <1>1, <1>3, <3>1, <3>2
      <4> QED
        BY <1>6, <4>1
    <3>3. CASE j # 1
      <4>1. j - 1 \in 1..n - 1 /\ (j - 1) + 1 = j
        BY <1>1, <3>3
      <4>2. j - 1 \in 1..Len(c) /\ c[j - 1] = x
        BY <1>1, <1>3, <3>1, <4>1
      <4> QED
        BY <1>6, <4>2
    <3> QED
      BY <3>2, <3>3
  <2> QED
    BY <2>1, <2>2
<1> QED
  BY <1>3, <1>6, <1>7 DEF c

-----------------------------------------------------------------------------
(* Searching a queue.                                                      *)

(* A non-empty set of naturals has a least element, and Min is that.       *)
LEMMA MinOfNats ==
  ASSUME NEW I, I \subseteq Nat, I # {}
  PROVE  Min(I) \in I /\ \A j \in I : Min(I) <= j
<1> DEFINE R == OpToRel(<, Nat)
<1>1. IsWellFoundedOn(R, Nat)
  BY NatLessThanWellFounded
<1>2. \A y, x \in Nat : y < x => <<y, x>> \in R
  BY DEF OpToRel
<1> HIDE DEF R
<1>3. PICK x \in I : \A y \in I : ~ (<<y, x>> \in R)
  BY <1>1, WFMin, Zenon
<1>4. ASSUME NEW y \in I
      PROVE  x <= y
  <2>1. x \in Nat /\ y \in Nat
    OBVIOUS
  <2>2. ~(y < x)
    BY <1>2, <1>3, <2>1, Zenon
  <2> QED
    BY <2>1, <2>2
<1> QED
  BY <1>4, Zenon DEF Min

(* SelectInSeq() of the entries equal to t, as used by list_next_entry()   *)
(* and list_move(): the place of t.                                        *)
LEMMA SelectEntry ==
  ASSUME NEW S, NEW q \in Queue(S), NEW t \in ToSet(q)
  PROVE  /\ SelectInSeq(q, LAMBDA x : x = t) \in 1..Len(q)
         /\ q[SelectInSeq(q, LAMBDA x : x = t)] = t
<1> DEFINE I == {i \in 1..Len(q) : q[i] = t}
<1>1. I \subseteq Nat /\ I # {}
  BY QueueEntries
<1>2. Min(I) \in I
  <2> HIDE DEF I
  <2> QED
    BY <1>1, MinOfNats, Zenon
<1>3. SelectInSeq(q, LAMBDA x : x = t) = Min(I)
  BY <1>1 DEF SelectInSeq
<1> QED
  BY <1>2, <1>3

(* list_del() of the entry t.                                              *)
LEMMA RemoveFirstQueue ==
  ASSUME NEW S, NEW q \in Queue(S), NEW t \in ToSet(q)
  PROVE  /\ RemoveFirst(q, t) \in Queue(S)
         /\ ToSet(RemoveFirst(q, t)) = ToSet(q) \ {t}
         /\ Len(RemoveFirst(q, t)) = Len(q) - 1
<1> DEFINE i == SelectInSeq(q, LAMBDA x : x = t)
<1>1. i \in 1..Len(q) /\ q[i] = t
  BY SelectEntry, Zenon
<1>2. RemoveFirst(q, t) = RemoveAt(q, i)
  BY <1>1 DEF RemoveFirst
<1> HIDE DEF i
<1> QED
  BY <1>1, <1>2, RemoveAtQueue
=============================================================================
