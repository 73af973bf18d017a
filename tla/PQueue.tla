------------------------------- MODULE PQueue -------------------------------
(***************************************************************************)
(* The fixed-length priority queue of srcs/toolbox/pqueue.c: a binary heap *)
(* in an array, one action per turn of the two sifting loops.              *)
(***************************************************************************)
EXTENDS Integers, FiniteSets

CONSTANTS Items,    \* the (key, val) pairs that may be pushed
          Key,      \* the key, or priority, of each
          NItems,   \* pq->nitems
          NULL      \* the null pointer; also the zeroed, unused slots

QueueAssumption ==
  /\ NItems \in Nat /\ NItems >= 2
  /\ NULL \notin Items /\ Key \in [Items -> Int]

VARIABLES q,        \* pq->q; slot 0 is never used
          nelems,   \* pq->nelems
          pc,       \* idle, up (in bubble_up), down (in bubble_down)
          k,        \* the index that bubble_up or bubble_down is at
          pqRet     \* value of the last call

pqVars == <<q, nelems, pc, k, pqRet>>

(* u_pq_create *)
PQueueInit ==
  /\ q = [i \in 1..NItems |-> NULL]
  /\ nelems = 0 /\ pc = "idle" /\ k = 0 /\ pqRet = 0

(* pq_item_comp *)
Comp(i, j) == Key[q[i]] < Key[q[j]]

(* Mutant: the swap overwrites one item.                                   *)
SwapLosesItem(i, j) == [q EXCEPT ![i] = q[j]]

(* pq_item_swap *)
Swap(i, j) == [q EXCEPT ![i] = q[j], ![j] = q[i]]

(* u_pq_full *)
Full == nelems = NItems

(* u_pq_push; the sift starts at the new element *)
Push(e) ==
  /\ pc = "idle" /\ ~Full
  /\ nelems' = nelems + 1
  /\ q' = [q EXCEPT ![nelems + 1] = e]
  /\ pc' = "up" /\ k' = nelems + 1
  /\ UNCHANGED pqRet

PushFull ==
  /\ pc = "idle" /\ Full
  /\ pqRet' = -2
  /\ UNCHANGED <<q, nelems, pc, k>>

(* bubble_up, one turn *)
BubbleUp ==
  /\ pc = "up"
  /\ k > 1 /\ Comp(k \div 2, k)
  /\ q' = Swap(k, k \div 2)
  /\ k' = k \div 2
  /\ UNCHANGED <<nelems, pc, pqRet>>

(* bubble_up ends; u_pq_push returns 0 *)
BubbleUpEnd ==
  /\ pc = "up"
  /\ ~(k > 1 /\ Comp(k \div 2, k))
  /\ pc' = "idle" /\ k' = 0 /\ pqRet' = 0
  /\ UNCHANGED <<q, nelems>>

(* u_pq_delmax: exchange top and bottom, sift the rest down *)
DelMax ==
  /\ pc = "idle" /\ nelems > 0
  /\ q' = Swap(1, nelems)
  /\ pc' = "down" /\ k' = 1
  /\ UNCHANGED <<nelems, pqRet>>

DelMaxEmpty ==
  /\ pc = "idle" /\ nelems = 0
  /\ pqRet' = NULL
  /\ UNCHANGED <<q, nelems, pc, k>>

(* Mutant: the right child is never looked at.                             *)
LeftChild == 2 * k

(* The higher child of k in the heap of nelems - 1 items.                  *)
Child == IF 2 * k < nelems - 1 /\ Comp(2 * k, 2 * k + 1) THEN 2 * k + 1 ELSE 2 * k

Sinks == 2 * k <= nelems - 1 /\ Comp(k, Child)

(* bubble_down, one turn *)
BubbleDown ==
  /\ pc = "down"
  /\ Sinks
  /\ q' = Swap(k, Child)
  /\ k' = Child
  /\ UNCHANGED <<nelems, pc, pqRet>>

(* bubble_down ends; u_pq_delmax gives up the last slot *)
BubbleDownEnd ==
  /\ pc = "down"
  /\ ~Sinks
  /\ nelems' = nelems - 1
  /\ pqRet' = q[nelems]
  /\ pc' = "idle" /\ k' = 0
  /\ UNCHANGED q

(* u_pq_peekmax; "on an empty queue the result is unpredictable" *)
PeekMax ==
  /\ pc = "idle" /\ nelems > 0
  /\ pqRet' = q[1]
  /\ UNCHANGED <<q, nelems, pc, k>>

Sift == BubbleUp \/ BubbleUpEnd \/ BubbleDown \/ BubbleDownEnd

PQueueNext ==
  \/ \E e \in Items : Push(e)
  \/ PushFull \/ DelMax \/ DelMaxEmpty \/ PeekMax
  \/ Sift

PQueueSpec == PQueueInit /\ [][PQueueNext]_pqVars

-----------------------------------------------------------------------------
PQueueTypeOK ==
  /\ q \in [1..NItems -> Items \cup {NULL}]
  /\ nelems \in 0..NItems
  /\ \A i \in 1..nelems : q[i] \in Items
  /\ pc \in {"idle", "up", "down"}
  /\ k \in 0..NItems
  /\ pqRet \in {0, -2, NULL} \cup Items

(* The heap of n items is in order at i: the item is no higher than its    *)
(* parent.                                                                 *)
Ordered(i) == Key[q[i]] <= Key[q[i \div 2]]

(* Between calls the array is a heap; while an item moves up, only the     *)
(* item and its parent may be out of order; while one moves down, only the *)
(* item and its children, and the evicted item is no lower than any.       *)
HeapOrder ==
  /\ pc = "idle" => \A i \in 2..nelems : Ordered(i)
  /\ pc = "up" => \A i \in 2..nelems : i # k => Ordered(i)
  /\ pc = "down" => \A i \in 2..(nelems - 1) : i \div 2 # k => Ordered(i)

(* ... and the grandparent of a displaced item is in order with its        *)
(* grandchildren, which is what lets the next turn leave it alone.         *)
HeapBridge ==
  /\ (pc = "up" /\ k > 1) =>
       \A i \in 2..nelems : i \div 2 = k => Key[q[i]] <= Key[q[k \div 2]]
  /\ (pc = "down" /\ k > 1) =>
       \A i \in 2..(nelems - 1) : i \div 2 = k => Key[q[i]] <= Key[q[k \div 2]]

(* Between calls the array is a heap, and while an item is sifted it is    *)
(* out of order in one place only.                                         *)
PQueueIsHeap == PQueueTypeOK /\ HeapOrder /\ HeapBridge

(* The queue is a bag from which the highest goes first: the items in the  *)
(* array are the bag of PQueueBag, and a call that is sifting has not      *)
(* happened yet.                                                           *)
Held == IF pc = "up" THEN {i \in 1..nelems : i # k} ELSE 1..nelems

HeldTotal == IF pc = "up" THEN nelems - 1 ELSE nelems

Contents == [e \in Items |-> Cardinality({i \in Held : q[i] = e})]

Bag == INSTANCE PQueueBag WITH bag <- Contents, total <- HeldTotal, ret <- pqRet

BagStep == [Bag!Next]_(Bag!bagVars)
PQueueIsBag == Bag!Init /\ [][~UNCHANGED pqVars => BagStep]_pqVars
=============================================================================
