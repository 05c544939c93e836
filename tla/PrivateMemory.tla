---------------------------- MODULE PrivateMemory ----------------------------
(***************************************************************************)
(* What programs may expect of their memory: every task has pages of its   *)
(* own, a fork copies them, and nobody else's store ever shows.  The       *)
(* promise ends when memory is exhausted (oom).                            *)
(***************************************************************************)
CONSTANTS Task, VPage, Val, zero, NoPage

VARIABLES
  live,    \* the tasks that exist
  view,    \* what each live task reads at each of its pages
  oom      \* memory is exhausted

vars == <<live, view, oom>>

Blank == [v \in VPage |-> NoPage]

Init ==
  /\ \E t \in Task, p \in [VPage -> Val \cup {NoPage}] :
       /\ live = {t}
       /\ view = [u \in Task |-> IF u = t THEN p ELSE Blank]
  /\ oom \in BOOLEAN

Exit(t) ==
  /\ t \in live
  /\ live' = live \ {t}
  /\ view' = [view EXCEPT ![t] = Blank]

Fork(t, c) ==
  /\ t \in live /\ c \notin live
  /\ live' = live \cup {c}
  /\ view' = [view EXCEPT ![c] = view[t]]

(* t makes way for c, which starts with pages p.                           *)
Exec(t, c, p) ==
  /\ t \in live /\ c \notin live
  /\ live' = (live \ {t}) \cup {c}
  /\ view' = [view EXCEPT ![t] = Blank, ![c] = p]

(* A page is mapped, or mapped anew by brk().                              *)
Map(t, v) ==
  /\ t \in live
  /\ view' = [view EXCEPT ![t][v] = zero]
  /\ UNCHANGED live

Store(t, v, x) ==
  /\ t \in live /\ view[t][v] # NoPage
  /\ view' = [view EXCEPT ![t][v] = x]
  /\ UNCHANGED live

Step ==
  \E t \in Task :
    \/ Exit(t)
    \/ \E c \in Task : \/ Fork(t, c)
                       \/ \E p \in [VPage -> Val \cup {NoPage}] : Exec(t, c, p)
    \/ \E v \in VPage : Map(t, v) \/ \E x \in Val : Store(t, v, x)

Next == oom' \/ (~oom /\ ~oom' /\ (Step \/ UNCHANGED <<live, view>>))

Spec == Init /\ [][Next]_vars
=============================================================================
