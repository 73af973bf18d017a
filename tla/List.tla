-------------------------------- MODULE List --------------------------------
(***************************************************************************)
(* The linked list of srcs/toolbox/list.c, over the tail queue macros.     *)
(* Elems are the items the allocator may return; a pointer stored in the   *)
(* list is one of Ptrs.  `items' is what the list should hold.             *)
(***************************************************************************)
EXTENDS TailQ, SequencesExt

CONSTANTS Ptrs, MaxCount

VARIABLES
  head,    \* list->head
  ptr,     \* item->ptr
  count,   \* list->count
  it,      \* the iterator of u_list_first and u_list_next: the next item
  items,   \* history: the pointers the list should hold, in order
  trip     \* history of a traversal: what it met, the current item, and what
           \* was in the list when it began

listVars == <<head, ptr, count, it, items, trip>>

Linked == ToSet(TAILQ_FOREACH(head))
FreeItems == Elems \ Linked
NewItem == CHOOSE e \in FreeItems : TRUE
NoTrip == [seen |-> <<>>, at |-> Null, all |-> <<>>]

\* The item the loop `if (n-- == 0) break' stops at, Null past the end.
NthItem(n) ==
  LET w == TAILQ_FOREACH(head) IN IF n < Len(w) THEN w[n + 1] ELSE Null
GetN(n) == IF n > count \/ NthItem(n) = Null THEN Null ELSE ptr[NthItem(n)]

\* TAILQ_REMOVE and u_free: the fields of a freed item have no value.
Unlink(q, e) == [TAILQ_REMOVE(q, e) EXCEPT !.next[e] = Null, !.prev[e] = HEAD]

ListInit ==
  /\ head = TAILQ_INIT /\ ptr = [e \in Elems |-> Null] /\ count = 0
  /\ it = Null /\ items = <<>> /\ trip = NoTrip

\* count is exact: the list was not emptied by u_list_clear.
Exact == count = Len(items)

\* Inserting before a position past the end writes through Null (undefined
\* behaviour): only a list that was cleared can get there.  A traversal goes
\* on over what is appended.
ListInsert(p, n) ==
  /\ FreeItems # {} /\ count < MaxCount /\ n <= count
  /\ n = count \/ (Exact /\ trip = NoTrip)
  /\ Len(trip.seen) < MaxCount
  /\ head' = IF n = 0 THEN TAILQ_INSERT_HEAD(head, NewItem)
             ELSE IF n = count THEN TAILQ_INSERT_TAIL(head, NewItem)
             ELSE TAILQ_INSERT_BEFORE(head, NthItem(n), NewItem)
  /\ ptr' = [ptr EXCEPT ![NewItem] = p]
  /\ count' = count + 1
  /\ items' = IF n = count THEN Append(items, p) ELSE InsertAt(items, n + 1, p)
  /\ UNCHANGED <<it, trip>>

Add(p) == ListInsert(p, count)

ListDel(p) ==
  /\ trip = NoTrip \/ (trip.at # Null /\ ptr[trip.at] = p)
  /\ \E i \in DOMAIN items :
       /\ items[i] = p /\ \A j \in 1..(i - 1) : items[j] # p
       /\ head' = Unlink(head, TAILQ_FOREACH(head)[i])
       /\ items' = RemoveAt(items, i)
       /\ trip' = IF trip # NoTrip THEN [trip EXCEPT !.at = Null] ELSE trip
  /\ count' = count - 1
  /\ UNCHANGED <<ptr, it>>

DelN(n) ==
  /\ trip = NoTrip /\ Exact /\ n < count
  /\ head' = Unlink(head, NthItem(n))
  /\ count' = count - 1
  /\ items' = RemoveAt(items, n + 1)
  /\ UNCHANGED <<ptr, it, trip>>

\* The loop of u_list_clear: the first item is removed until there is none.
Cleared(q) ==
  LET left[n \in 0..MaxWalk] ==
        IF n = 0 THEN q
        ELSE LET r == left[n - 1] IN IF r.first = Null THEN r ELSE Unlink(r, r.first)
  IN  left[MaxWalk]

\* Every item is removed; the counter is not touched.
ListClear ==
  /\ trip = NoTrip
  /\ head' = Cleared(head)
  /\ items' = <<>>
  /\ UNCHANGED <<ptr, count, it, trip>>

\* u_list_free clears the list; the next one starts from u_list_create.
ListFree ==
  /\ trip = NoTrip
  /\ head' = TAILQ_INIT /\ count' = 0 /\ items' = <<>>
  /\ UNCHANGED <<ptr, it, trip>>

\* The iterator is moved on before the item is handed out.
After(e) == IF e = Null THEN Null ELSE head.next[e]

ListFirst ==
  /\ trip = NoTrip /\ items # <<>>
  /\ it' = After(head.first)
  /\ trip' = [seen |-> <<ptr[head.first]>>, at |-> head.first, all |-> items]
  /\ UNCHANGED <<head, ptr, count, items>>

NextItem ==
  /\ trip # NoTrip
  /\ it' = After(it)
  /\ trip' = IF it = Null THEN NoTrip
             ELSE [trip EXCEPT !.seen = Append(@, ptr[it]), !.at = it]
  /\ UNCHANGED <<head, ptr, count, items>>

ListNext ==
  \/ \E p \in Ptrs : Add(p) \/ ListDel(p) \/ \E n \in 0..Cardinality(Elems) : ListInsert(p, n)
  \/ \E n \in 0..Cardinality(Elems) : DelN(n)
  \/ ListClear \/ ListFree \/ ListFirst \/ NextItem

-----------------------------------------------------------------------------
(* Through any sequence of insertions, removals and traversals the links   *)
(* of the tail queue (tqe_next forwards, tqe_prev and tqh_last backwards)  *)
(* spell the sequence of pointers the calls asked for, and every index     *)
(* within an exact count finds its pointer (u_list_insert, u_list_del,     *)
(* u_list_del_n, u_list_clear, u_list_get_n).                              *)
ListIsSequence ==
  /\ [i \in DOMAIN TAILQ_FOREACH(head) |-> ptr[TAILQ_FOREACH(head)[i]]] = items
  /\ TAILQ_FOREACH_REVERSE(head) = Reverse(TAILQ_FOREACH(head))
  /\ Exact => \A n \in 0..count :
       GetN(n) = IF n < count THEN items[n + 1] ELSE Null

(* A traversal with u_list_first and u_list_next whose body may delete the *)
(* current element and append others meets every element that was there    *)
(* when it began, once each and in order: the iterator never rests on an   *)
(* item that was freed.                                                    *)
TraversalSafe ==
  trip # NoTrip =>
    /\ it # Null => it \in Linked
    /\ IsPrefix(trip.seen, trip.all)
       \/ (Len(trip.seen) > Len(trip.all) /\ IsPrefix(trip.all, trip.seen))
    /\ it = Null => Len(trip.seen) >= Len(trip.all)
=============================================================================
