----------------------------- MODULE PQueueBag -----------------------------
(***************************************************************************)
(* What a priority queue of srcs/toolbox/pqueue.c promises: a bag of items *)
(* of bounded size, from which an item of the highest key is evicted.      *)
(***************************************************************************)
EXTENDS Integers

CONSTANTS Items, Key, NItems, NULL

VARIABLES bag,   \* how many times each item is in the queue
          total, \* how many items are in the queue
          ret    \* value of the last call

Init == bag = [e \in Items |-> 0] /\ total = 0 /\ ret = 0

Push(e) ==
  \/ /\ total < NItems
     /\ bag' = [bag EXCEPT ![e] = @ + 1] /\ total' = total + 1 /\ ret' = 0
  \/ total = NItems /\ UNCHANGED <<bag, total>> /\ ret' = -2

IsMax(e) == bag[e] > 0 /\ \A f \in Items : bag[f] > 0 => Key[f] <= Key[e]

DelMax ==
  \/ \E e \in Items :
       /\ IsMax(e)
       /\ bag' = [bag EXCEPT ![e] = @ - 1] /\ total' = total - 1 /\ ret' = e
  \/ total = 0 /\ UNCHANGED <<bag, total>> /\ ret' = NULL

PeekMax == \E e \in Items : IsMax(e) /\ UNCHANGED <<bag, total>> /\ ret' = e

Next == (\E e \in Items : Push(e)) \/ DelMax \/ PeekMax

bagVars == <<bag, total, ret>>
Spec == Init /\ [][Next]_bagVars
=============================================================================
