------------------------------ MODULE MCCache ------------------------------
(* Small instances of the cache: five objects, two of them under one key.  *)
EXTENDS HMapCache

FiveObjs == 1..5
FiveKeys == [o \in FiveObjs |-> IF o = 5 THEN 1 ELSE o]
FivePrio == [o \in FiveObjs |-> o % 3]

(* A client that deletes from a cache.                                     *)
DeletingClient == {[policy |-> "FIFO", calls |-> {"del"}, uses |-> 1]}
=============================================================================
