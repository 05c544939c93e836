----------------------------- MODULE LinkedList -----------------------------
(***************************************************************************)
(* The circular doubly linked lists of include/sys/list.h, as sys/sched.c  *)
(* uses them: one list_head per queue, one embedded in each task_struct.   *)
(*                                                                         *)
(* l holds every next and prev pointer.  Each list.h function is an        *)
(* operator from l to l that makes the same writes.  queue is a history    *)
(* variable: the sequence each operation is meant to leave in the queue.   *)
(* That the pointers always spell these sequences is what module Sched     *)
(* relies on when it works with sequences.                                 *)
(***************************************************************************)
EXTENDS Integers, SequencesExt

CONSTANTS
  Node,    \* the list_head embedded in each task_struct
  Heads,   \* the list heads: &runQueue and &waitQueue
  NULL     \* (void *) 0

ASSUME ListAssumption == Node \cap Heads = {} /\ NULL \notin Node \cup Heads

VARIABLES
  l,       \* [next, prev]: the pointers of all cells
  queue    \* history: the intended content of each list

vars == <<l, queue>>

Cell == Node \cup Heads

-----------------------------------------------------------------------------
(* Mutants: a forgotten write.                                             *)
list_add__no_back_link(k, new, prv, nxt) ==
  [next |-> [k.next EXCEPT ![new] = nxt, ![prv] = new],
   prev |-> [k.prev EXCEPT ![new] = prv]]

list_del__no_back_link(k, prv, nxt) ==
  [next |-> [k.next EXCEPT ![prv] = nxt], prev |-> k.prev]

(* __list_add(new, prev, next)                                             *)
list_add_(k, new, prv, nxt) ==
  [next |-> [k.next EXCEPT ![new] = nxt, ![prv] = new],
   prev |-> [k.prev EXCEPT ![nxt] = new, ![new] = prv]]

list_add(k, new, head) == list_add_(k, new, head, k.next[head])

list_add_tail(k, new, head) == list_add_(k, new, k.prev[head], head)

(* __list_del(prev, next) and __list_del_entry(entry)                      *)
list_del_(k, prv, nxt) ==
  [next |-> [k.next EXCEPT ![prv] = nxt],
   prev |-> [k.prev EXCEPT ![nxt] = prv]]

list_del_entry(k, entry) == list_del_(k, k.prev[entry], k.next[entry])

list_del(k, entry) ==
  LET m == list_del_entry(k, entry)
  IN  [next |-> [m.next EXCEPT ![entry] = NULL],
       prev |-> [m.prev EXCEPT ![entry] = NULL]]

list_move(k, entry, head) == list_add(list_del_entry(k, entry), entry, head)

list_move_tail(k, entry, head) ==
  list_add_tail(list_del_entry(k, entry), entry, head)

list_empty(k, head) == k.next[head] = head

list_is_singular(k, head) == ~list_empty(k, head) /\ k.next[head] = k.prev[head]

(* getNextTask() and getCurrentTask() of the queue at head.                *)
getNextTask(k, head) == k.next[head]

getCurrentTask(k, head) == k.prev[head]

-----------------------------------------------------------------------------
(* LIST_HEAD of both queues; the cells of blocks not yet queued are zero.  *)
Init ==
  /\ l = [next |-> [c \in Cell |-> IF c \in Heads THEN c ELSE NULL],
          prev |-> [c \in Cell |-> IF c \in Heads THEN c ELSE NULL]]
  /\ queue = [h \in Heads |-> <<>>]

Linked(t) == \E h \in Heads : t \in ToSet(queue[h])

(* addTasktoQueueHead() and addTasktoQueue(): a new task is linked.        *)
AddHead(t, h) ==
  /\ ~Linked(t)
  /\ l' = list_add(l, t, h)
  /\ queue' = [queue EXCEPT ![h] = Cons(t, @)]

AddTail(t, h) ==
  /\ ~Linked(t)
  /\ l' = list_add_tail(l, t, h)
  /\ queue' = [queue EXCEPT ![h] = Append(@, t)]

(* sys_exit(): the entry at place i of queue h is unlinked.                *)
Delete(h, i) ==
  /\ l' = list_del(l, queue[h][i])
  /\ queue' = [queue EXCEPT ![h] = RemoveAt(@, i)]

(* sys_sleep(), sys_waitpid(), awake() and awakepid(): the entry at place  *)
(* i of queue h goes to the head of queue g, possibly the same queue.      *)
Move(h, i, g) ==
  /\ l' = list_move(l, queue[h][i], g)
  /\ queue' = [[queue EXCEPT ![h] = RemoveAt(@, i)] EXCEPT ![g] = Cons(queue[h][i], @)]

(* schedule(): list_move_tail(), possibly of the only entry of the queue.  *)
MoveTail(h, i, g) ==
  /\ l' = list_move_tail(l, queue[h][i], g)
  /\ queue' = [[queue EXCEPT ![h] = RemoveAt(@, i)] EXCEPT ![g] = Append(@, queue[h][i])]

Next ==
  \/ \E t \in Node, h \in Heads : AddHead(t, h) \/ AddTail(t, h)
  \/ \E h \in Heads : \E i \in 1..Len(queue[h]) :
       \/ Delete(h, i)
       \/ \E g \in Heads : Move(h, i, g) \/ MoveTail(h, i, g)

Spec == Init /\ [][Next]_vars

-----------------------------------------------------------------------------
TypeOK ==
  /\ l \in [next : [Cell -> Cell \cup {NULL}], prev : [Cell -> Cell \cup {NULL}]]
  /\ queue \in [Heads -> Seq(Node)]

(* No entry is in two places, so that unlinking it in one place is enough. *)
Disjoint ==
  \A g, h \in Heads : \A i \in 1..Len(queue[g]), j \in 1..Len(queue[h]) :
    queue[g][i] = queue[h][j] => g = h /\ i = j

(* Place i of the ring of head h with content q: h at both ends.           *)
At(h, q, i) == IF i \in 1..Len(q) THEN q[i] ELSE h

(* The pointers of the ring of h spell q in both directions.               *)
Ring(k, h, q) ==
  \A i \in 0..Len(q) : /\ k.next[At(h, q, i)] = At(h, q, i + 1)
                       /\ k.prev[At(h, q, i + 1)] = At(h, q, i)

(* Whatever is added, deleted or moved, from whichever place, also within  *)
(* one queue and when the queue has one entry, every queue is a closed     *)
(* ring in both directions that holds exactly the intended sequence.       *)
Rings == \A h \in Heads : Ring(l, h, queue[h])

(* What schedule(), awake() and getCurrentTask() read off the heads is     *)
(* what the sequences say: emptiness, the singular test by comparing the   *)
(* two pointers of the head, first and last entry.                         *)
ReadsAgree ==
  \A h \in Heads :
    /\ list_empty(l, h) <=> queue[h] = <<>>
    /\ list_is_singular(l, h) <=> Len(queue[h]) = 1
    /\ queue[h] # <<>> => /\ getNextTask(l, h) = Head(queue[h])
                          /\ getCurrentTask(l, h) = Last(queue[h])
=============================================================================
