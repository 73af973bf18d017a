-------------------------------- MODULE TailQ --------------------------------
(***************************************************************************)
(* The tail queue macros of include/toolbox/queue.h, at the level of their *)
(* pointers.  A queue is a record of tqh_first, tqh_last and, for each      *)
(* element, tqe_next and tqe_prev.  tqh_last and tqe_prev are addresses of  *)
(* a `next' cell: the cell of element e is written e, the one of the head   *)
(* is HEAD.  Null ends the queue.                                           *)
(***************************************************************************)
EXTENDS Integers, Sequences, FiniteSets
CONSTANTS Elems, Null, HEAD

TailQAssumption == IsFiniteSet(Elems) /\ Null \notin Elems /\ HEAD \notin Elems

\* *cell = v
StoreAt(q, cell, v) ==
  IF cell = HEAD THEN [q EXCEPT !.first = v] ELSE [q EXCEPT !.next[cell] = v]

\* The fields of an element that is in no queue are never read.
TAILQ_INIT ==
  [first |-> Null, last |-> HEAD,
   next |-> [e \in Elems |-> Null], prev |-> [e \in Elems |-> HEAD]]

\* The element after e, or the end of the queue, is told that `cell' now
\* points to it.
SetPrev(q, e, cell) ==
  IF e # Null THEN [q EXCEPT !.prev[e] = cell] ELSE [q EXCEPT !.last = cell]

TAILQ_INSERT_HEAD(q, e) ==
  [SetPrev(q, q.first, e) EXCEPT !.next[e] = q.first, !.first = e, !.prev[e] = HEAD]

TAILQ_INSERT_TAIL(q, e) ==
  [StoreAt([q EXCEPT !.next[e] = Null, !.prev[e] = q.last], q.last, e) EXCEPT !.last = e]

TAILQ_INSERT_BEFORE(q, l, e) ==
  [StoreAt([q EXCEPT !.prev[e] = q.prev[l], !.next[e] = l], q.prev[l], e)
     EXCEPT !.prev[l] = e]

\* Mutant: tqh_last still points into the removed element.
REMOVE_NoLast(q, e) ==
  StoreAt(IF q.next[e] # Null THEN [q EXCEPT !.prev[q.next[e]] = q.prev[e]] ELSE q,
          q.prev[e], q.next[e])

TAILQ_REMOVE(q, e) ==
  StoreAt(SetPrev(q, q.next[e], q.prev[e]), q.prev[e], q.next[e])

\* The owner of a cell seen as a queue head: its second field.
LastOf(q, cell) == IF cell = HEAD THEN q.last ELSE q.prev[cell]
Deref(q, cell) == IF cell = HEAD THEN q.first ELSE q.next[cell]
TAILQ_LAST(q) == Deref(q, LastOf(q, q.last))
TAILQ_PREV(q, e) == Deref(q, LastOf(q, q.prev[e]))

\* The elements the forward and the backward loop have met when they end, or
\* after MaxWalk rounds: enough for the links of a queue, and for TLC to see
\* links that go round in a circle.
MaxWalk == Cardinality(Elems) + 1
TAILQ_FOREACH(q) ==
  LET met[n \in 0..MaxWalk] ==
        IF n = 0 THEN <<>>
        ELSE LET s == met[n - 1]
                 e == IF s = <<>> THEN q.first ELSE q.next[s[Len(s)]]
             IN  IF e = Null THEN s ELSE Append(s, e)
  IN  met[MaxWalk]
TAILQ_FOREACH_REVERSE(q) ==
  LET met[n \in 0..MaxWalk] ==
        IF n = 0 THEN <<>>
        ELSE LET s == met[n - 1]
                 e == IF s = <<>> THEN TAILQ_LAST(q) ELSE TAILQ_PREV(q, s[Len(s)])
             IN  IF e = Null THEN s ELSE Append(s, e)
  IN  met[MaxWalk]
=============================================================================
