------------------------------ MODULE JsonTree ------------------------------
(***************************************************************************)
(* Trees of JSON values in srcs/toolbox/json.c: building, removing,        *)
(* freeing, and the index u_json_index builds over a tree.  A node keeps   *)
(* the sibling pointer TAILQ_REMOVE leaves in it.  Keys and names are      *)
(* sequences of characters: a fully qualified name runs a key after a dot, *)
(* and a position in brackets, together.                                   *)
(***************************************************************************)
EXTENDS Integers, Sequences

LOCAL INSTANCE SequencesExt

CONSTANTS
  JNodes,      \* what u_json_new may return, in the order it does
  Keys,        \* keys of the values of an object
  FqnSz,       \* U_JSON_FQN_SZ
  MaxIndexed,  \* calls of u_json_index
  RemoveAny    \* whether the client removes a value that has later siblings

VARIABLES
  jn,       \* the nodes
  jmap,     \* the hmap of each index: name to node; absent once freed
  indexed   \* calls of u_json_index so far

treeVars == <<jn, jmap, indexed>>

NoNode == 0
NoMap == 0

\* The fields of a u_json_t; walks is a history: how often it was indexed.
Blank0 == [st |-> "unused", type |-> "unknown", key |-> <<>>, parent |-> NoNode, next |-> NoNode,
           kids |-> <<>>, count |-> 0, icur |-> 0, fqn |-> <<>>, map |-> NoMap, walks |-> 0]

Live(n) == jn[n].st = "live"
IsContainer(n) == jn[n].type \in {"array", "object"}
Roots == {n \in JNodes : Live(n) /\ jn[n].parent = NoNode}

TreeInit == jn = [n \in JNodes |-> Blank0] /\ jmap = <<>> /\ indexed = 0

-----------------------------------------------------------------------------
(* u_json_new_container and u_json_new_atom, after u_json_new.             *)
JsonNew(n) == [Blank0 EXCEPT !.st = "live"]
NewContainer(n, type, key) ==
  /\ jn[n].st = "unused" /\ \A m \in JNodes : m < n => jn[m].st # "unused"
  /\ jn' = [jn EXCEPT ![n] = [JsonNew(n) EXCEPT !.type = type, !.key = key]]
  /\ UNCHANGED <<jmap, indexed>>
NewAtom(n, key) ==
  /\ jn[n].st = "unused" /\ \A m \in JNodes : m < n => jn[m].st # "unused"
  /\ jn' = [jn EXCEPT ![n] = [JsonNew(n) EXCEPT !.type = "number", !.key = key]]
  /\ UNCHANGED <<jmap, indexed>>

RECURSIVE RootOf(_)
RootOf(n) == IF jn[n].parent = NoNode THEN n ELSE RootOf(jn[n].parent)

\* Mutant: the count of an array is not kept.
AddNoCount(head, n) ==
  /\ Live(head) /\ IsContainer(head) /\ jn[head].map = NoMap
  /\ n \in Roots /\ n # RootOf(head) /\ jn[n].map = NoMap
  /\ jn' = [m \in JNodes |->
              CASE m = head -> [jn[m] EXCEPT !.kids = Append(@, n)]
                [] m = n    -> [jn[m] EXCEPT !.parent = head, !.next = NoNode]
                [] m # head /\ jn[head].kids # <<>> /\ m = Last(jn[head].kids) -> [jn[m] EXCEPT !.next = n]
                [] OTHER    -> jn[m]]
  /\ UNCHANGED <<jmap, indexed>>

\* The client adds the root of another tree, not indexed.
Add(head, n) ==
  /\ Live(head) /\ IsContainer(head) /\ jn[head].map = NoMap
  /\ n \in Roots /\ n # RootOf(head) /\ jn[n].map = NoMap
  /\ jn' = [m \in JNodes |->
              CASE m = head -> [jn[m] EXCEPT !.kids = Append(@, n),
                                             !.count = IF jn[m].type = "array" THEN @ + 1 ELSE @]
                [] m = n    -> [jn[m] EXCEPT !.parent = head, !.next = NoNode]
                [] m # head /\ jn[head].kids # <<>> /\ m = Last(jn[head].kids) -> [jn[m] EXCEPT !.next = n]
                [] OTHER    -> jn[m]]
  /\ UNCHANGED <<jmap, indexed>>

\* u_json_walk: the nodes it reaches, from n: its children, then the nodes
\* its sibling pointer leads to.
RECURSIVE Walk(_)
Walk(n) ==
  IF n = NoNode THEN <<>>
  ELSE <<n>> \o Walk(IF jn[n].kids = <<>> THEN NoNode ELSE Head(jn[n].kids)) \o Walk(jn[n].next)

Freed(ns) == [m \in JNodes |-> IF m \in ns THEN [Blank0 EXCEPT !.st = "gone"] ELSE jn[m]]
DropMap(g) == [h \in DOMAIN jmap |-> IF h = g THEN {} ELSE jmap[h]]

\* u_json_free of a root.
JsonFree(n) ==
  /\ n \in Roots
  /\ jn' = Freed(ToSet(Walk(n)))
  /\ jmap' = DropMap(jn[n].map)
  /\ UNCHANGED indexed

\* The count and the list of the parent are put right; then the node is
\* freed, its sibling pointer still set.
JsonRemove(n) ==
  LET p == jn[n].parent IN
  /\ Live(n) /\ p # NoNode /\ jn[n].map = NoMap
  /\ RemoveAny \/ jn[n].next = NoNode
  /\ LET after == Freed(ToSet(Walk(n)))
         i == CHOOSE j \in DOMAIN jn[p].kids : jn[p].kids[j] = n
     IN  jn' = [m \in JNodes |->
                  CASE m = p -> [after[m] EXCEPT !.kids = RemoveAt(jn[p].kids, i),
                                                 !.count = IF jn[p].type = "array" THEN @ - 1 ELSE @]
                    [] i > 1 /\ m = jn[p].kids[i - 1] -> [after[m] EXCEPT !.next = jn[n].next]
                    [] OTHER -> after[m]]
  /\ UNCHANGED <<jmap, indexed>>

-----------------------------------------------------------------------------
(* The index.                                                              *)
\* u_snprintf into a name cuts what does not fit, and nobody looks.
Cut(name) == SubSeq(name, 1, IF Len(name) < FqnSz THEN Len(name) ELSE FqnSz - 1)
InArray(fqn, i) == fqn \o <<"[", <<"0", "1", "2", "3", "4", "5", "6", "7", "8", "9">>[i + 1], "]">>
InObject(fqn, key) == fqn \o <<".">> \o key

\* u_json_do_index names a node and enters it in the map, which does not
\* overwrite an entry.  f holds the nodes, h the map.  The counter of an array
\* is set to 0 only if it is in another array.
DoIndex(fh, n) ==
  LET f == fh[1]
      h == fh[2]
      p == f[n].parent
      g == indexed + 1
      inArray == p # NoNode /\ f[p].type = "array"
      name == CASE p = NoNode -> <<".">>
                [] inArray    -> Cut(InArray(f[p].fqn, f[p].icur))
                [] OTHER      -> Cut(InObject(f[p].fqn, f[n].key))
  IN  <<[m \in JNodes |->
           CASE m = n -> [f[m] EXCEPT !.fqn = name, !.map = g, !.walks = @ + 1,
                                      !.icur = IF inArray /\ f[m].type = "array" THEN 0 ELSE @]
             [] m = p /\ inArray -> [f[m] EXCEPT !.icur = @ + 1]
             [] OTHER -> f[m]],
        IF \E e \in h : e.name = name THEN h ELSE h \cup {[name |-> name, node |-> n]}>>

Index(n) ==
  /\ n \in Roots /\ jn[n].map = NoMap /\ indexed < MaxIndexed
  /\ LET fh == FoldLeft(DoIndex, <<[jn EXCEPT ![n].icur = 0], {}>>, Walk(n))
     IN  jn' = fh[1] /\ jmap' = Append(jmap, fh[2])
  /\ indexed' = indexed + 1

\* Only the root forgets the map.
Unindex(n) ==
  /\ n \in Roots /\ jn[n].map # NoMap
  /\ jn' = [jn EXCEPT ![n].map = NoMap]
  /\ jmap' = DropMap(jn[n].map)
  /\ UNCHANGED indexed

-----------------------------------------------------------------------------
(* Lookups.                                                                *)
MapGet(g, name) ==
  LET hits == {e \in jmap[g] : e.name = name}
  IN  IF hits = {} THEN NoNode ELSE (CHOOSE e \in hits : TRUE).node

CacheGet(n, name) ==
  IF jn[n].parent = NoNode \/ MapGet(jn[n].map, name) # NoNode THEN MapGet(jn[n].map, name)
  ELSE MapGet(jn[n].map, Cut(jn[n].fqn \o name))

\* The children, as the iterator gives them.
ChildFirst(n) == IF jn[n].kids = <<>> THEN NoNode ELSE Head(jn[n].kids)
ItNext(n) == jn[n].next
RECURSIVE Iterated(_)
Iterated(n) == IF n = NoNode THEN <<>> ELSE <<n>> \o Iterated(ItNext(n))

\* The n-th child: by name if the array has a map, else from the nearer end.
\* (Nothing is found in a map that was freed: reading it is undefined.)
ArrayGetNth(n, i) ==
  CASE i >= jn[n].count     -> NoNode
    [] i < jn[n].count /\ jn[n].map # NoMap -> CacheGet(n, Cut(InArray(jn[n].fqn, i)))
    [] OTHER                -> IF i > jn[n].count \div 2
                               THEN Reverse(jn[n].kids)[jn[n].count - i]
                               ELSE jn[n].kids[i + 1]

\* The root has its map, and so no node of the tree can be changed.
Frozen(n) == jn[RootOf(n)].map # NoMap

\* u_json_cache_set_tv, called on a leaf with a name that gives a leaf (only
\* the node it is called on is checked not to be a container).
CacheSetTv(n, m) ==
  /\ Live(n) /\ Live(m) /\ ~IsContainer(n) /\ Frozen(n) /\ RootOf(m) = RootOf(n)
  /\ LET res == CacheGet(n, jn[m].fqn)
     IN  /\ ~IsContainer(res)
         /\ jn' = [jn EXCEPT ![res].type = IF @ = "null" THEN "number" ELSE "null"]
  /\ UNCHANGED <<jmap, indexed>>

-----------------------------------------------------------------------------
TreeNext ==
  \/ \E n \in JNodes, t \in {"array", "object"}, k \in Keys : NewContainer(n, t, k)
  \/ \E n \in JNodes, k \in Keys : NewAtom(n, k)
  \/ \E h, n \in JNodes : Add(h, n) \/ CacheSetTv(h, n)
  \/ \E n \in JNodes : JsonFree(n) \/ JsonRemove(n) \/ Index(n) \/ Unindex(n)

TreeSpec == TreeInit /\ [][TreeNext]_treeVars

\* Where a node is, as keys and positions from the root; and the name that
\* a tree whose positions were counted from 0 gives it.
Place(n) ==
  LET p == jn[n].parent
      i == CHOOSE j \in DOMAIN jn[p].kids : jn[p].kids[j] = n
  IN  IF jn[p].type = "array" THEN [nth |-> i - 1] ELSE [key |-> jn[n].key]
RECURSIVE Path(_), NameOf(_)
Path(n) == IF jn[n].parent = NoNode THEN <<>> ELSE Append(Path(jn[n].parent), Place(n))
NameOf(n) ==
  LET p == jn[n].parent IN
  CASE p = NoNode                         -> <<".">>
    [] p # NoNode /\ jn[p].type = "array" -> InArray(NameOf(p), Place(n).nth)
    [] OTHER                              -> InObject(NameOf(p), jn[n].key)
Short(name) == Len(name) < FqnSz - 1

\* No array whose counter is never set back was indexed before.
CountedFromZero(n) ==
  \A a \in JNodes : Live(a) /\ RootOf(a) = RootOf(n) /\ jn[a].type = "array" =>
    jn[a].parent = NoNode \/ jn[jn[a].parent].type = "array" \/ jn[a].walks <= 1

(* Every value is found by its place: by the iterator in its turn; in an   *)
(* array of a tree that was never indexed by its number                    *)
(* (u_json_array_get_nth); and in an indexed tree by its fully qualified   *)
(* name, or by its number in its array, which give it or a value of the    *)
(* same name.  The last holds as long as the name fits its buffer with     *)
(* room, and no array under an object was indexed before: see              *)
(* NamesByPosition, NthUnindexed and NamesUnique for what these leave out. *)
FoundByPlace ==
  \A n \in JNodes : Live(n) =>
    /\ Iterated(ChildFirst(n)) = jn[n].kids
    /\ jn[n].type = "array" => jn[n].count = Len(jn[n].kids)
    /\ jn[n].type = "array" /\ jn[n].map = NoMap =>
         \A i \in DOMAIN jn[n].kids : ArrayGetNth(n, i - 1) = jn[n].kids[i]
    /\ Frozen(n) /\ CountedFromZero(n) /\ Short(NameOf(n)) =>
         LET p == jn[n].parent
             hits == {CacheGet(RootOf(n), NameOf(n))}
                       \cup IF p # NoNode /\ jn[p].type = "array" THEN {ArrayGetNth(p, Place(n).nth)} ELSE {}
         IN  \A hit \in hits : hit # NoNode /\ Live(hit) /\ NameOf(hit) = NameOf(n)

(* What a live value refers to is live: u_json_remove and u_json_free take *)
(* a value out of its container before they give its memory back.          *)
NoFreedChild ==
  \A n \in JNodes : Live(n) =>
    /\ \A i \in DOMAIN jn[n].kids : Live(jn[n].kids[i]) /\ jn[jn[n].kids[i]].parent = n
    /\ jn[n].next # NoNode => Live(jn[n].next)

-----------------------------------------------------------------------------
(* What the comments of json.c say of the index.                           *)

(* "[i] is used to access the i-th value in the parent array" (json.c:160) *)
(* in a tree that is indexed, whatever was done to it before.              *)
NamesByPosition ==
  \A n \in JNodes : Live(n) /\ Frozen(n) /\ Short(NameOf(n)) => CacheGet(RootOf(n), NameOf(n)) # NoNode

(* u_json_unindex removes "the whole cacheing machinery" (json.c:708):     *)
(* then arrays give their n-th value again.                                *)
NthUnindexed ==
  \A n \in JNodes : Live(n) /\ ~Frozen(n) /\ jn[n].type = "array" =>
    \A i \in DOMAIN jn[n].kids : ArrayGetNth(n, i - 1) = jn[n].kids[i]

(* The names are "unique (and unambiguous -- provided that no anonymous    *)
(* key is embedded into the JSON object)" (json.c:154).                    *)
NamesUnique ==
  \A n \in JNodes : Live(n) /\ Frozen(n) /\ CountedFromZero(n) =>
    LET hit == CacheGet(RootOf(n), NameOf(n)) IN hit # NoNode => Path(hit) = Path(n)

(* ".k" accesses the value stored under the key "k", and ".I2[0][0]" one   *)
(* below it, from the root (json.c:158-163).                               *)
KeysFromRoot ==
  \A n \in JNodes : Live(n) /\ Frozen(n) /\ jn[n].parent # NoNode =>
    LET p == jn[n].parent
    IN  jn[p].parent = NoNode /\ jn[p].type = "object" => CacheGet(p, <<".">> \o jn[n].key) # NoNode
=============================================================================
