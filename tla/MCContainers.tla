---------------------------- MODULE MCContainers ----------------------------
(***************************************************************************)
(* Small instances of the containers, side by side: Init chooses the one   *)
(* that moves, the others stay in one initial state.  They share nothing,  *)
(* so a behaviour of this module is a behaviour of one of them.            *)
(***************************************************************************)
EXTENDS Ring, PQueue, HMapOwner, HMapCache, HMapTable, ListArray

CONSTANTS
  low, mid1, mid2, high,  \* items of the priority queue; two share a key
  BstKeys, MaxNodes, MaxDeletes

VARIABLES
  which,                                            \* the container that moves
  root, attr, live, pushed, deletes, lost           \* binary search tree

treeVars == <<root, attr, live, pushed, deletes, lost>>

FourItems == {low, mid1, mid2, high}
FourKeys == [e \in FourItems |-> IF e = low THEN 1 ELSE IF e = high THEN 3 ELSE 2]

\* The primes are scaled down from 13, 19, 29, ...; keys 4, 9 and 14 collide
\* in the last list of the first.  Chained maps with every call, and linearly
\* probed ones without deletions.
HashMod(key, n) == key % n
TableCalls(chain, no_overwrite, ops) == [chain |-> chain, no_overwrite |-> no_overwrite, ops |-> ops]
TableClients == {TableCalls(TRUE, FALSE, {"put", "get", "del"}),
                 TableCalls(TRUE, TRUE, {"put", "get", "del", "clear"}),
                 TableCalls(FALSE, FALSE, {"put", "get"})}
SmallPrimes == <<5, 7, 17>>

\* Five objects, the fifth under the key of the first.
FiveObjs == 1..5
FiveKeys == <<1, 2, 3, 4, 1>>
FivePrio == <<1, 2, 0, 1, 2>>
CacheCalls(p, d, n) == [policy |-> p, calls |-> d, uses |-> n]
SixClients == {CacheCalls(p, {}, 2) : p \in {"FIFO", "LRU", "LFU", "CUSTOM"}}
              \cup {CacheCalls("LRU", {"del"}, 1), CacheCalls("LRU", {"clear"}, 1)}

TwoSizes == [char |-> 1, wide |-> 2]

B == INSTANCE Bst

ASSUME ContainersAssumption ==
  /\ QueueAssumption /\ TableAssumption /\ CacheAssumption
  /\ TailQAssumption /\ ArrayAssumption

-----------------------------------------------------------------------------
ContainersInit ==
  /\ which \in {"ring", "pqueue", "table", "cache", "owner", "list", "array", "bst"}
  /\ Init /\ (which # "ring" => opts = {})
  /\ PQueueInit
  /\ TableInit /\ (which # "table" => tableClient = TableCalls(FALSE, FALSE, {"put", "get"}) /\ osize = 1)
  /\ CacheInit /\ (which # "cache" => cacheClient = CacheCalls("FIFO", {}, 2))
  /\ OwnInit
  /\ ListInit
  /\ ArrayInit
  /\ B!BstInit

\* Every container but the chosen one is parked.
Others ==
  /\ which # "ring" => UNCHANGED vars
  /\ which # "pqueue" => UNCHANGED pqVars
  /\ which # "table" => UNCHANGED tableVars
  /\ which # "cache" => UNCHANGED cacheVars
  /\ which # "owner" => UNCHANGED ownVars
  /\ which # "list" => UNCHANGED listVars
  /\ which # "array" => UNCHANGED arrayVars
  /\ which # "bst" => UNCHANGED treeVars

ContainersNext ==
  /\ \/ which = "ring" /\ Next
     \/ which = "pqueue" /\ PQueueNext
     \/ which = "table" /\ TableNext
     \/ which = "cache" /\ CacheNext
     \/ which = "owner" /\ OwnNext
     \/ which = "list" /\ ListNext
     \/ which = "array" /\ ArrayNext
     \/ which = "bst" /\ B!BstNext
  /\ UNCHANGED which
  /\ Others

ContainersVars ==
  <<which, vars, pqVars, tableVars, cacheVars, ownVars, listVars, arrayVars, treeVars>>
ContainersSpec == ContainersInit /\ [][ContainersNext]_ContainersVars

-----------------------------------------------------------------------------
(* The properties of each, while it moves; those of Ring, PQueue,          *)
(* HMapOwner, HMapCache, HMapTable and ListArray are stated there.         *)

(* The tree holds what was pushed, in order, finds the n-th, and releases  *)
(* each private copy once (Bst).                                           *)
BstSound == which = "bst" => B!BstContents /\ B!BstOrderStatistics /\ B!BstCopies

(* "Evict the first node matching the supplied key" (bst.c:219): every     *)
(* other node stays in the tree (Bst).                                     *)
DeletesNoOther == which = "bst" => B!BstKeepsAll

(* u_bst_count counts "the number of nodes actually stored" (bst.c:281).   *)
CountIsNumber == which = "bst" => B!BstCounts
=============================================================================
