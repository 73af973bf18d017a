----------------------------- MODULE HMapCache -----------------------------
(***************************************************************************)
(* The hash map of srcs/toolbox/hmap.c used as a cache: at most max        *)
(* elements, and a policy queue that tells which one to discard.  The      *)
(* table is of type U_HMAP_TYPE_CHAIN, owns its data                       *)
(* (U_HMAP_OPTS_OWNSDATA), overwrites, and is represented by the set of    *)
(* objects it holds: HMapTable shows that each is found under its key.     *)
(***************************************************************************)
EXTENDS Integers, Sequences, SequencesExt

CONSTANTS Objs,         \* objects that u_hmap_o_new may hand out
          KeyOf,        \* obj->key
          Prio,         \* what f_pcy_cmp compares, for the custom policy
          MaxElems,     \* opts->max
          CacheClients  \* [policy, calls, uses]: opts->policy, which of
                        \* u_hmap_del and u_hmap_clear the client calls, and, a
                        \* bound, how often it looks one object up

CacheAssumption ==
  /\ KeyOf \in [Objs -> Nat] /\ Prio \in [Objs -> Nat]
  /\ MaxElems \in Nat \ {0}
  /\ CacheClients \subseteq [policy : {"FIFO", "LRU", "LFU", "CUSTOM"},
                            calls : SUBSET {"del", "clear"}, uses : Nat]
  (* the push of the custom policy reads every ho->val of the queue: it is *)
  (* only asked for by clients that delete nothing                         *)
  /\ \A c \in CacheClients : "del" \in c.calls => c.policy # "CUSTOM"

VARIABLES cacheClient, \* the discard policy and the program that uses the map
          held,        \* objects in the table
          queue,       \* pcy.queue, front first: [ho, count]
          cacheSz,     \* number of elements, as u_hmap_count gives it
          cacheFault,  \* a freed object, or a null entry, was dereferenced
          arrival,     \* history: objects held, oldest insertion first
          access,      \* history: objects held, least recently used first
          uses         \* history: number of lookups since the insertion

cacheVars == <<cacheClient, held, queue, cacheSz, cacheFault, arrival, access, uses>>
history == <<arrival, access, uses>>

Entry == [ho : Objs, count : Nat]

Policy == cacheClient.policy
Deletes == "del" \in cacheClient.calls
Clears == "clear" \in cacheClient.calls

(* u_hmap_new *)
CacheInit ==
  /\ cacheClient \in CacheClients
  /\ held = {} /\ queue = <<>> /\ cacheSz = 0 /\ cacheFault = FALSE
  /\ arrival = <<>> /\ access = <<>>
  /\ uses = [o \in Objs |-> 0]

Drop(s, o) ==
  IF \E i \in DOMAIN s : s[i] = o THEN RemoveAt(s, CHOOSE i \in DOMAIN s : s[i] = o) ELSE s

\* The object o comes last; gone, if it is another, was there and goes.
Remember(o, gone) ==
  /\ arrival' = Append(Drop(arrival, gone), o)
  /\ access' = Append(Drop(access, gone), o)
  /\ uses' = [uses EXCEPT ![o] = 0]

\* obj->pqe # NULL
Queued(q, o) == \E i \in DOMAIN q : q[i].ho = o

\* __queue_del removes the entry that obj->pqe refers to.
Without(q, o) == RemoveAt(q, CHOOSE i \in DOMAIN q : q[i].ho = o)

-----------------------------------------------------------------------------
\* The first of the positions l of q, the end of q if there is none.
First(q, l) == Min(l \cup {Len(q) + 1})

(* pcy.push of an object without a queue entry: __queue_push and           *)
(* __queue_push_count insert at the head, __queue_push_cmp before the      *)
(* first entry of no higher priority.                                      *)
PushNew(q, o) ==
  LET e == [ho |-> o, count |-> 0]
  IN IF Policy = "CUSTOM"
     THEN InsertAt(q, First(q, {l \in 1 .. Len(q) : Prio[o] >= Prio[q[l].ho]}), e)
     ELSE <<e>> \o q

(* pcy.push of the entry at i: to the head (LRU), or, its count            *)
(* incremented, before the first larger count (LFU).                       *)
PushAgain(q, i) ==
  IF Policy = "LFU"
  THEN LET e == [q[i] EXCEPT !.count = @ + 1]
           j == First(q, {l \in (i + 1) .. Len(q) : e.count < q[l].count})
       IN InsertAt(RemoveAt(q, i), j - 1, e)
  ELSE <<q[i]>> \o RemoveAt(q, i)

(* pcy.pop: __queue_pop_front for LFU, __queue_pop_back for the others.    *)
Victim(q) == IF Policy = "LFU" THEN q[1] ELSE q[Len(q)]
Popped(q) == IF Policy = "LFU" THEN Tail(q) ELSE Front(q)

SameKey(o) == {p \in held : KeyOf[p] = KeyOf[o]}

Fresh(o) == o \notin held /\ ~Queued(queue, o)

-----------------------------------------------------------------------------

(* Mutant: one element too few.                                            *)
HasRoomEarly == cacheSz < MaxElems - 1

(* sz < opts->max *)
HasRoom == cacheSz < MaxElems

(* u_hmap_put of an object under a new key, with room left.                *)
PutRoom(o) ==
  /\ ~cacheFault /\ Fresh(o)
  /\ SameKey(o) = {} /\ HasRoom
  /\ held' = held \cup {o}
  /\ queue' = PushNew(queue, o)
  /\ cacheSz' = cacheSz + 1
  /\ Remember(o, o)
  /\ UNCHANGED <<cacheClient, cacheFault>>

(* ... in a full cache: the new object is in the table already when        *)
(* pcy.pop looks the victim's key up in it and deletes what it finds.      *)
PutFull(o) ==
  LET v == Victim(queue).ho
  IN /\ ~cacheFault /\ Fresh(o)
     /\ SameKey(o) = {} /\ ~HasRoom
     /\ queue # <<>>
     /\ v \in held
     /\ \E p \in SameKey(v) :
          /\ held' = (held \cup {o}) \ {p}
          /\ Remember(o, p)
     /\ queue' = PushNew(Popped(queue), o)
     /\ cacheSz' = cacheSz
     /\ UNCHANGED <<cacheClient, cacheFault>>

(* ... in a cache that was emptied without resetting sz: there is nothing  *)
(* to pop, the put fails and leaves the object in the table.               *)
PutStranded(o) ==
  /\ ~cacheFault /\ Fresh(o)
  /\ SameKey(o) = {} /\ ~HasRoom
  /\ queue = <<>>
  /\ held' = held \cup {o}
  /\ Remember(o, o)
  /\ UNCHANGED <<cacheClient, queue, cacheSz, cacheFault>>

(* The entry to be popped refers to an object that was freed.              *)
PutFault(o) ==
  /\ ~cacheFault /\ Fresh(o)
  /\ SameKey(o) = {} /\ ~HasRoom
  /\ queue # <<>>
  /\ Victim(queue).ho \notin held
  /\ cacheFault' = TRUE
  /\ UNCHANGED <<cacheClient, held, queue, cacheSz, history>>

(* Mutant: the old object's queue entry is left behind.                    *)
PutOverKeepsEntry(o) ==
  /\ ~cacheFault /\ Fresh(o)
  /\ \E p \in SameKey(o) :
       /\ held' = (held \ {p}) \cup {o}
       /\ queue' = PushNew(queue, o)
       /\ Remember(o, p)
  /\ UNCHANGED <<cacheClient, cacheSz, cacheFault>>

(* __o_overwrite: the old object's queue entry goes with it.               *)
PutOver(o) ==
  /\ ~cacheFault /\ Fresh(o)
  /\ \E p \in SameKey(o) :
       /\ Queued(queue, p)
       /\ held' = (held \ {p}) \cup {o}
       /\ queue' = PushNew(Without(queue, p), o)
       /\ Remember(o, p)
  /\ UNCHANGED <<cacheClient, cacheSz, cacheFault>>

(* ... but __queue_del of an object that has none is a null dereference.   *)
PutOverFault(o) ==
  /\ ~cacheFault /\ Fresh(o)
  /\ \E p \in SameKey(o) : ~Queued(queue, p)
  /\ cacheFault' = TRUE
  /\ UNCHANGED <<cacheClient, held, queue, cacheSz, history>>

(* u_hmap_get of a key that is held: LRU and LFU push the entry again.     *)
CacheGet(o) ==
  /\ ~cacheFault /\ o \in held
  /\ uses[o] < cacheClient.uses
  /\ queue' = IF Policy \in {"LRU", "LFU"}
              THEN IF Queued(queue, o)
                   THEN PushAgain(queue, CHOOSE i \in DOMAIN queue : queue[i].ho = o)
                   ELSE PushNew(queue, o)
              ELSE queue
  /\ access' = Append(Drop(access, o), o)
  /\ uses' = [uses EXCEPT ![o] = @ + 1]
  /\ UNCHANGED <<cacheClient, held, cacheSz, cacheFault, arrival>>

(* u_hmap_del: the object is freed, its queue entry stays behind.          *)
CacheDel(o) ==
  /\ Deletes
  /\ ~cacheFault /\ o \in held
  /\ held' = held \ {o}
  /\ cacheSz' = cacheSz - 1
  /\ arrival' = Drop(arrival, o) /\ access' = Drop(access, o)
  /\ UNCHANGED <<cacheClient, queue, cacheFault, uses>>

(* u_hmap_clear: table and queue are emptied, sz is left as it was.        *)
CacheClear ==
  /\ Clears
  /\ ~cacheFault /\ held # {}
  /\ held' = {} /\ queue' = <<>>
  /\ arrival' = <<>> /\ access' = <<>>
  /\ UNCHANGED <<cacheClient, cacheSz, cacheFault, uses>>

CacheNext ==
  \/ \E o \in Objs : \/ PutRoom(o) \/ PutFull(o) \/ PutStranded(o) \/ PutFault(o)
                     \/ PutOver(o) \/ PutOverFault(o)
                     \/ CacheGet(o) \/ CacheDel(o)
  \/ CacheClear

CacheSpec == CacheInit /\ [][CacheNext]_cacheVars

-----------------------------------------------------------------------------
CacheTypeOK ==
  /\ cacheClient \in CacheClients
  /\ held \subseteq Objs
  /\ queue \in Seq(Entry)
  /\ cacheSz \in Int /\ cacheFault \in BOOLEAN
  /\ arrival \in Seq(Objs) /\ access \in Seq(Objs)
  /\ uses \in [Objs -> Nat]

(* "reference to hmap object" (hmap.c:31): without deletions every entry   *)
(* refers to a held object, and, as long as the map is not cleared, every  *)
(* held object has one entry.                                              *)
QueueMatches ==
  /\ Deletes \/ \A i \in DOMAIN queue : queue[i].ho \in held
  /\ Clears \/ \A o \in held : Queued(queue, o)
  /\ \A i, j \in DOMAIN queue : queue[i].ho = queue[j].ho => i = j

(* The cache never outgrows opts->max and, as long as it is not cleared,   *)
(* counts what it holds.                                                   *)
Bounded ==
  /\ cacheSz <= MaxElems
  /\ Clears \/ cacheSz = Len(arrival)
  /\ \A o, p \in held : KeyOf[o] = KeyOf[p] => o = p

(* The object that would be discarded next is the one the policy says:     *)
(* "discard entry inserted longest ago", "least recently used (accessed)", *)
(* "least frequently used (accessed)" (hmap.h:73-79), or the one that the  *)
(* comparison function ranks lowest.  (Without deletions and clearing.)    *)
RightVictim ==
  (queue # <<>> /\ ~Deletes /\ ~Clears) =>
    LET v == Victim(queue).ho
    IN /\ Policy = "FIFO" => v = arrival[1]
       /\ Policy = "LRU" => v = access[1]
       /\ Policy = "LFU" => \A o \in held : uses[v] <= uses[o]
       /\ Policy = "CUSTOM" => \A o \in held : Prio[v] <= Prio[o]

(* The policy queue mirrors the table, the bound holds, and what a put     *)
(* discards is the object that the policy names.                           *)
CacheSound == CacheTypeOK /\ QueueMatches /\ Bounded /\ RightVictim

(* An object leaves the cache only because it is overwritten, deleted or   *)
(* cleared, or because the cache is full and it is the one object that the *)
(* policy names: what a put discards is never more than that.              *)
DiscardsOne ==
  [][\A o \in held \ held' :
       \/ \E p \in held' \ held : KeyOf[p] = KeyOf[o]
       \/ queue # <<>> /\ o = Victim(queue).ho /\ cacheSz = MaxElems
       \/ Deletes /\ cacheSz' < cacheSz
       \/ Clears /\ held' = {}]_cacheVars

(* A queue entry is a "reference to hmap object" (hmap.c:31): what it      *)
(* refers to exists when pcy.pop dereferences it.                          *)
NoUseAfterFree == ~cacheFault

(* opts->max is the "maximum number of elements in hmap" (hmap.c:67),      *)
(* whatever the client calls, u_hmap_clear too.                            *)
WithinMax == Cardinality(held) <= MaxElems
=============================================================================
