----------------------------- MODULE HMapTable -----------------------------
(***************************************************************************)
(* The hash map of srcs/toolbox/hmap.c with policy U_HMAP_PCY_NONE: the    *)
(* array of lists, chained or linearly probed, and the resizing that       *)
(* u_hmap_put does when the map fills up.  Keys are numbers, in the order  *)
(* of f_comp.                                                              *)
(***************************************************************************)
EXTENDS Integers, Sequences, SequencesExt

CONSTANTS Keys, Vals, None,
          Sizes,         \* sizes the caller may ask for
          Primes,        \* the table of __next_prime
          Hash(_, _),    \* f_hash (key, size)
          Clients        \* [chain, no_overwrite, ops]: type and option of the
                         \* map, and the calls that the client makes

TableAssumption ==
  /\ Keys \subseteq Nat /\ None \notin Vals
  /\ Clients \subseteq [chain : BOOLEAN, no_overwrite : BOOLEAN, ops : SUBSET {"put", "get", "del", "clear"}]
  (* the table of primes is ascending, and its first is 13                 *)
  /\ Primes \in Seq(Nat)
  /\ \A i \in DOMAIN Primes : Primes[i] > 4
  /\ \A i, j \in DOMAIN Primes : i < j => Primes[i] < Primes[j]
  /\ \A k \in Keys, i \in DOMAIN Primes : Hash(k, Primes[i]) \in 0..(Primes[i] - 1)
  (* u_hmap_new refuses a size beyond the last prime                       *)
  /\ Sizes \subseteq Nat
  /\ \A n \in Sizes : \E i \in DOMAIN Primes : n <= Primes[i]

VARIABLES tableClient,  \* opts->type, opts->options and the program that uses it
          hmap,         \* the lists, one for each index of the array
          size,         \* number of lists
          osize,        \* opts->size
          px,           \* where __next_prime starts
          tableSz,      \* sz, number of elements, as u_hmap_count gives it
          tableRet      \* return code and value of the last call

tableVars == <<tableClient, hmap, size, osize, px, tableSz, tableRet>>

Chain == tableClient.chain               \* U_HMAP_TYPE_CHAIN, else LINEAR
NoOverwrite == tableClient.no_overwrite  \* U_HMAP_OPTS_NO_OVERWRITE
Calls(op) == op \in tableClient.ops

Obj == [key : Keys, val : Vals]

-----------------------------------------------------------------------------
(* __next_prime: the first prime from index from on that is at least n; 0  *)
(* stands for the error "hmap size limit exceeded".                        *)
PrimeIndex(n, from) ==
  LET ok == {i \in from..Len(Primes) : Primes[i] >= n}
  IN IF ok = {} THEN 0 ELSE Min(ok)

Threshold(n) == (3 * n) \div 4     \* U_HMAP_RATE_FULL
ResizeRate == 3                    \* U_HMAP_RATE_RESIZE

EmptyTable(n) == [i \in 0..(n - 1) |-> <<>>]

(* u_hmap_new *)
TableInit ==
  /\ tableClient \in Clients
  /\ osize \in Sizes
  /\ px = PrimeIndex(osize, 1)
  /\ size = Primes[px]
  /\ hmap = EmptyTable(size)
  /\ tableSz = 0
  /\ tableRet = <<"ERR_NONE", None>>

-----------------------------------------------------------------------------
(* The slots that linear probing visits, in order: all but the one before  *)
(* the first.                                                              *)
Probe(k, n) == [i \in 1..(n - 1) |-> (Hash(k, n) + i - 1) % n]

(* Positions <<list, index>> in table t of n lists where a loop of         *)
(* u_hmap_put or of __get finds key k: a chain is searched up to the first *)
(* larger key, a probe sequence to its end.                                *)
Found(t, n, k) ==
  IF Chain
  THEN {<<Hash(k, n), i>> : i \in {j \in DOMAIN t[Hash(k, n)] :
          /\ t[Hash(k, n)][j].key = k
          /\ \A l \in 1..(j - 1) : t[Hash(k, n)][l].key < k}}
  ELSE {<<Probe(k, n)[i], 1>> : i \in {j \in DOMAIN Probe(k, n) :
          LET p == Probe(k, n)
          IN /\ t[p[j]] # <<>> /\ t[p[j]][1].key = k
             /\ \A l \in 1..(j - 1) : t[p[l]] = <<>> \/ t[p[l]][1].key # k}}

(* __get, and the object that it finds *)
Lookup(k) == Found(hmap, size, k)
ObjUnder(k) == LET p == CHOOSE x \in Lookup(k) : TRUE IN hmap[p[1]][p[2]]

(* What put would overwrite: a probe also stops at the first empty slot.   *)
Present(t, n, k) ==
  IF Chain THEN Found(t, n, k)
  ELSE {f \in Found(t, n, k) :
          LET p == Probe(k, n)
          IN \A l \in DOMAIN p : (\A m \in 1..l : p[m] # f[1]) => t[p[l]] # <<>>}

(* Mutant: a new element goes to the head of its chain.                    *)
InsertAtHead(t, n, o) ==
  [t EXCEPT ![Hash(o.key, n)] = <<o>> \o @]

(* Insertion of a new key: in order in its chain, or in the first empty    *)
(* slot; if there is none the object stays out.                            *)
InsertNew(t, n, o) ==
  IF Chain
  THEN LET b == Hash(o.key, n)
           after == {i \in 1..Len(t[b]) : t[b][i].key > o.key}
       IN [t EXCEPT ![b] = InsertAt(@, Min(after \cup {Len(@) + 1}), o)]
  ELSE LET p == Probe(o.key, n)
           empty == {i \in DOMAIN p : t[p[i]] = <<>>}
       IN IF empty = {} THEN t ELSE [t EXCEPT ![p[Min(empty)]] = <<o>>]

\* The objects of a table, list by list.
Objects(t, n) ==
  LET rows[b \in 0..n] == IF b = 0 THEN <<>> ELSE rows[b - 1] \o t[b - 1]
  IN rows[n]

(* Mutant: the elements are not rehashed, their lists just moved over.     *)
CopyLists(n) == [i \in 0..(n - 1) |-> IF i < size THEN hmap[i] ELSE <<>>]

(* u_hmap_copy into a new table of n lists.                                *)
TableCopy(n) ==
  LET objs == Objects(hmap, size)
      copied[i \in 0..Len(objs)] == IF i = 0 THEN EmptyTable(n) ELSE InsertNew(copied[i - 1], n, objs[i])
  IN copied[Len(objs)]

(* __resize: opts->size, not the size of the array, is tripled, and        *)
(* u_hmap_new looks for a prime again from the start of the table.         *)
Resize ==
  LET i == PrimeIndex(ResizeRate * osize, px)
  IN /\ i # 0
     /\ osize' = Primes[i]
     /\ size' = Primes[PrimeIndex(Primes[i], 1)]
     /\ px' = PrimeIndex(Primes[i], 1)

(* The count of the new map after u_hmap_copy.                             *)
CopiedCount == Len(Objects(hmap, size))

(* hmap->sz >= hmap->threshold *)
Crowded == tableSz >= Threshold(size)

-----------------------------------------------------------------------------
(* u_hmap_put on table t of n lists holding count elements                 *)
PutIn(t, n, count, o) ==
  LET f == Present(t, n, o.key)
      inserted == InsertNew(t, n, o)
  IN IF f # {}
     THEN IF NoOverwrite
          THEN /\ tableRet' = <<"ERR_EXISTS", None>>
               /\ hmap' = t /\ tableSz' = count
          ELSE /\ tableRet' = <<"ERR_NONE", None>>
               /\ hmap' = LET p == CHOOSE x \in f : TRUE
                          IN [t EXCEPT ![p[1]][p[2]] = o]
               /\ tableSz' = count
     ELSE IF inserted = t
          THEN tableRet' = <<"ERR_FAIL", None>> /\ hmap' = t /\ tableSz' = count
          ELSE tableRet' = <<"ERR_NONE", None>> /\ hmap' = inserted /\ tableSz' = count + 1

(* u_hmap_put: resize first if the threshold is reached.                   *)
TablePut(k, v) ==
  /\ Calls("put")
  /\ \/ /\ ~Crowded
        /\ PutIn(hmap, size, tableSz, [key |-> k, val |-> v])
        /\ UNCHANGED <<tableClient, size, osize, px>>
     \/ /\ Crowded
        /\ Resize
        /\ UNCHANGED tableClient
        /\ PutIn(TableCopy(size'), size', CopiedCount, [key |-> k, val |-> v])

(* The table of primes is exhausted.                                       *)
PutLimit ==
  /\ Calls("put")
  /\ Crowded
  /\ PrimeIndex(ResizeRate * osize, px) = 0
  /\ tableRet' = <<"ERR_FAIL", None>>
  /\ UNCHANGED <<tableClient, hmap, size, osize, px, tableSz>>

(* u_hmap_get *)
TableGet(k) ==
  /\ Calls("get")
  /\ tableRet' = IF Lookup(k) = {} THEN <<"ERR_FAIL", None>> ELSE <<"ERR_NONE", ObjUnder(k).val>>
  /\ UNCHANGED <<tableClient, hmap, size, osize, px, tableSz>>

(* u_hmap_del *)
TableDel(k) ==
  /\ Calls("del")
  /\ IF Lookup(k) = {}
     THEN tableRet' = <<"ERR_FAIL", None>> /\ UNCHANGED <<hmap, tableSz>>
     ELSE LET p == CHOOSE x \in Lookup(k) : TRUE
          IN /\ tableRet' = <<"ERR_NONE", None>>
             /\ hmap' = [hmap EXCEPT ![p[1]] = RemoveAt(@, p[2])]
             /\ tableSz' = tableSz - 1
  /\ UNCHANGED <<tableClient, size, osize, px>>

(* u_hmap_clear: the lists are emptied, sz is left as it was.              *)
TableClear ==
  /\ Calls("clear")
  /\ hmap' = EmptyTable(size)
  /\ tableRet' = <<"ERR_NONE", None>>
  /\ UNCHANGED <<tableClient, size, osize, px, tableSz>>

TableNext ==
  \/ \E k \in Keys : TableGet(k) \/ TableDel(k) \/ \E v \in Vals : TablePut(k, v)
  \/ PutLimit
  \/ TableClear

TableSpec == TableInit /\ [][TableNext]_tableVars

-----------------------------------------------------------------------------
TableTypeOK ==
  /\ tableClient \in Clients
  /\ size \in {Primes[i] : i \in DOMAIN Primes}
  /\ hmap \in [0..(size - 1) -> Seq(Obj)]
  /\ osize \in Nat /\ px \in DOMAIN Primes /\ tableSz \in Int
  /\ tableRet \in {"ERR_NONE", "ERR_FAIL", "ERR_EXISTS"} \X (Vals \cup {None})

(* Each key is stored once, in its own list, and chains are in order,      *)
(* which is what lets __get stop at the first larger key.                  *)
WellPlaced ==
  /\ \A b \in DOMAIN hmap :
       IF Chain
       THEN /\ \A i \in DOMAIN hmap[b] : Hash(hmap[b][i].key, size) = b
            /\ \A i, j \in DOMAIN hmap[b] : i < j => hmap[b][i].key < hmap[b][j].key
       ELSE Len(hmap[b]) <= 1

(* Whatever is stored is found by __get under its key, at its own place:   *)
(* no element is hidden by another, by a hole left by a deletion, or by a  *)
(* resize.                                                                 *)
Findable ==
  \A b \in DOMAIN hmap : \A i \in DOMAIN hmap[b] :
    Lookup(hmap[b][i].key) = {<<b, i>>}

(* "Count the number of elements currently stored in hmap" (hmap.c:1051):  *)
(* sz is right across insertions, deletions and resizes, as long as        *)
(* u_hmap_clear, which leaves it alone, is not called.                     *)
CountRight == ~Calls("clear") => tableSz = Len(Objects(hmap, size))

(* "Count the number of elements currently stored in hmap" (hmap.c:1051),  *)
(* whatever the client calls, u_hmap_clear too.                            *)
CountAsStored == tableSz = Len(Objects(hmap, size))

(* The hash map of type U_HMAP_PCY_NONE keeps what it is made of: each     *)
(* element is in its place, is found by __get and is counted, whatever is  *)
(* put, overwritten, deleted or copied to a larger table.                  *)
TableSound == TableTypeOK /\ WellPlaced /\ Findable /\ CountRight

(* What __get finds under each key is the dictionary of HMapDict.          *)
DictOf == [k \in Keys |-> IF Lookup(k) = {} THEN None ELSE ObjUnder(k).val]
Dict == INSTANCE HMapDict WITH no_overwrite <- NoOverwrite, ret <- tableRet, dict <- DictOf

(* The map implements a dictionary: every call does to it what the         *)
(* dictionary does, resizing included.                                     *)
DictStep == [tableVars' # tableVars => Dict!Next]_(Dict!dictVars)
TableIsDict == Dict!Init /\ [][DictStep]_tableVars

(* "Values are not overwritten if a value already exists in the hmap for a *)
(* given key" (hmap.c:341): a put never leaves two values under one key.   *)
OneValuePerKey ==
  LET o == Objects(hmap, size)
  IN \A i, j \in DOMAIN o : o[i].key = o[j].key => i = j
=============================================================================
