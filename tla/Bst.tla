--------------------------------- MODULE Bst ---------------------------------
(***************************************************************************)
(* The binary search tree of srcs/toolbox/bst.c.  A tree is Nil or a record *)
(* of a key, the counter the code keeps in nelem, and two subtrees; the     *)
(* value of a node plays no part in the structure and is left out.  Keys    *)
(* are numbers, compared by <.  `live' counts the private copies of keys    *)
(* and values the tree has allocated and not released.                      *)
(***************************************************************************)
EXTENDS Integers, Sequences, FiniteSets, SequencesExt, FiniteSetsExt

CONSTANTS BstKeys, MaxNodes, MaxDeletes

VARIABLES
  root,    \* bst->root
  attr,    \* opts, keytype, valtype, and which destructors are set
  live,    \* private copies allocated by u_bst_assign and not yet freed
  pushed,  \* history: the keys pushed and not deleted, in order, sorted
  deletes, \* history: how many deletions removed a node
  lost     \* history: how many nodes fell off the tree and were not released

bstVars == <<root, attr, live, pushed, deletes, lost>>

Nil == [nil |-> TRUE]
SizeMod == 2 ^ 16   \* stands for the 2^64 of size_t
Node(k, n, l, r) == [key |-> k, nelem |-> n, left |-> l, right |-> r]
Weight(t) == IF t = Nil THEN 0 ELSE t.nelem

RotateLeft(p) ==
  LET q == p.right
      n == (p.nelem - (Weight(q.right) + 1)) % SizeMod
  IN  Node(q.key, p.nelem, Node(p.key, n, p.left, q.left), q.right)

RotateRight(p) ==
  LET q == p.left
      n == (p.nelem - (Weight(q.left) + 1)) % SizeMod
  IN  Node(q.key, p.nelem, q.left, Node(p.key, n, q.right, p.right))

RECURSIVE NodePush(_, _), PushTop(_, _), PromoteNth(_, _), NodeDelete(_, _),
          NodeSearch(_, _), NodeForeach(_), FindNth(_, _), NodeBalance(_)

\* Mutant: equal keys and smaller ones go to the right.
NodePushRight(t, k) ==
  IF t = Nil THEN Node(k, 1, Nil, Nil)
  ELSE Node(t.key, t.nelem + 1, t.left, NodePush(t.right, k))

NodePush(t, k) ==
  IF t = Nil THEN Node(k, 1, Nil, Nil)
  ELSE IF k < t.key THEN Node(t.key, t.nelem + 1, NodePush(t.left, k), t.right)
  ELSE Node(t.key, t.nelem + 1, t.left, NodePush(t.right, k))

PushTop(t, k) ==
  IF t = Nil THEN Node(k, 1, Nil, Nil)
  ELSE IF k < t.key
       THEN RotateRight(Node(t.key, t.nelem + 1, PushTop(t.left, k), t.right))
       ELSE RotateLeft(Node(t.key, t.nelem + 1, t.left, PushTop(t.right, k)))

\* The loop of the default insertion: the same walk as NodePush.
PushBottom(t, k) == NodePush(t, k)

\* Only the root decides at random; below it the walk is the plain one.
PushRand(t, k, top) == IF t # Nil /\ top THEN PushTop(t, k) ELSE NodePush(t, k)

PromoteNth(t, n) ==
  LET w == Weight(t.left)
  IN  IF w > n THEN RotateRight(Node(t.key, t.nelem, PromoteNth(t.left, n), t.right))
      ELSE IF w < n
      THEN RotateLeft(Node(t.key, t.nelem, t.left, PromoteNth(t.right, n - (w + 1))))
      ELSE t

JoinLR(l, r) == IF r = Nil THEN l ELSE [PromoteNth(r, 0) EXCEPT !.left = l]

NodeSearch(t, k) ==
  IF t = Nil \/ (t # Nil /\ t.key = k) THEN t
  ELSE NodeSearch(IF k > t.key THEN t.right ELSE t.left, k)

\* Every node on the way back up is decremented, the one that took the
\* deleted node's place included.
NodeDelete(t, k) ==
  LET found == NodeSearch(t, k) # Nil
      s == IF t = Nil THEN Nil
           ELSE IF k < t.key THEN [t EXCEPT !.left = NodeDelete(t.left, k)]
           ELSE IF k > t.key THEN [t EXCEPT !.right = NodeDelete(t.right, k)]
           ELSE JoinLR(t.left, t.right)
  IN  IF s = Nil \/ ~found THEN s ELSE [s EXCEPT !.nelem = (@ - 1) % SizeMod]

NodeForeach(t) ==
  IF t = Nil THEN <<>> ELSE NodeForeach(t.left) \o <<t.key>> \o NodeForeach(t.right)

FindNth(t, n) ==
  IF t = Nil THEN Nil
  ELSE LET w == Weight(t.left)
       IN  IF w > n THEN FindNth(t.left, n)
           ELSE IF w < n THEN FindNth(t.right, n - (w + 1)) ELSE t

NodeBalance(t) ==
  IF t = Nil \/ Weight(t) < 2 THEN t
  ELSE LET p == PromoteNth(t, t.nelem \div 2)
       IN  Node(p.key, p.nelem, NodeBalance(p.left), NodeBalance(p.right))

-----------------------------------------------------------------------------
(* What the tree copies and what it releases with a node.                  *)
NewAttr(opts) == [opts |-> opts, keytype |-> "string", valtype |-> "ptr",
                  keyfree |-> TRUE, valfree |-> FALSE]
SetKeyattr(a, kt) == [a EXCEPT !.keytype = kt, !.keyfree = @ \/ kt = "opaque"]

SetValattr(a, vt) == [a EXCEPT !.valtype = vt, !.valfree = @ \/ vt = "opaque"]
SetValfree(a) == [a EXCEPT !.valfree = TRUE]

Copies(type) == IF type = "ptr" THEN 0 ELSE 1
NodeNew == Copies(attr.keytype) + Copies(attr.valtype)
NodeDoFree == (IF attr.keyfree THEN 1 ELSE 0) + (IF attr.valfree THEN 1 ELSE 0)

Empty == root = Nil
Count == Weight(root)

BstInit ==
  /\ root = Nil /\ attr = NewAttr("none") /\ live = 0
  /\ pushed = <<>> /\ deletes = 0 /\ lost = 0

\* A new tree with the attributes the client gives it.  Copied strings are
\* used with a destructor, which u_bst_set_valattr does not set by itself,
\* and keys are never bare pointers, which the default destructor would free.
Create(opts, kt, vt) ==
  /\ Empty
  /\ attr' = LET a == SetValattr(SetKeyattr(NewAttr(opts), kt), vt)
             IN  IF vt = "string" THEN SetValfree(a) ELSE a
  /\ live' = 0 /\ pushed' = <<>> /\ deletes' = 0 /\ lost' = 0
  /\ UNCHANGED root

Push(k) ==
  /\ attr.opts # "freed" /\ Len(pushed) < MaxNodes
  /\ attr.opts = "none"       => root' = PushBottom(root, k)
  /\ attr.opts = "top"        => root' = PushTop(root, k)
  /\ attr.opts = "randomized" => \E top \in BOOLEAN : root' = PushRand(root, k, top)
  /\ live' = live + NodeNew
  /\ pushed' = SortSeq(Append(pushed, k), <)
  /\ UNCHANGED <<attr, deletes, lost>>

RECURSIVE TreeSize(_), Height(_), CountsRight(_)
TreeSize(t) == IF t = Nil THEN 0 ELSE 1 + TreeSize(t.left) + TreeSize(t.right)
Height(t) == IF t = Nil THEN 0 ELSE 1 + Max({Height(t.left), Height(t.right)})
CountsRight(t) ==
  t # Nil => t.nelem = TreeSize(t) /\ CountsRight(t.left) /\ CountsRight(t.right)

Delete(k) ==
  /\ deletes < MaxDeletes
  /\ NodeSearch(root, k) # Nil
  /\ root' = NodeDelete(root, k)
  /\ live' = live - NodeDoFree
  /\ pushed' = RemoveAt(pushed, CHOOSE i \in DOMAIN pushed : pushed[i] = k)
  /\ deletes' = deletes + 1
  /\ lost' = lost + TreeSize(root) - (TreeSize(root') + 1)
  /\ UNCHANGED attr

\* With wrong counters the promotion walks off the tree (undefined
\* behaviour), so it is asked for only while they are right.
Balance ==
  /\ CountsRight(root)
  /\ root' = NodeBalance(root)
  /\ UNCHANGED <<attr, live, pushed, deletes, lost>>

NodeFree(t) == TreeSize(t) * NodeDoFree

\* A freed tree is not used again; Create makes another.
BstFree ==
  /\ root' = Nil /\ live' = live - NodeFree(root) /\ pushed' = <<>> /\ deletes' = 0
  /\ attr' = [attr EXCEPT !.opts = "freed"]
  /\ UNCHANGED lost

BstNext ==
  \/ \E o \in {"none", "top", "randomized"}, kt \in {"string", "opaque"},
        vt \in {"string", "opaque", "ptr"} : Create(o, kt, vt)
  \/ \E k \in BstKeys : Push(k) \/ Delete(k)
  \/ Balance \/ BstFree

-----------------------------------------------------------------------------
(* Whatever the way nodes were inserted, deleted and rotated, a traversal  *)
(* meets keys that were pushed and not deleted, in order and none twice,   *)
(* and a search finds a key iff the traversal meets it (u_bst_push,        *)
(* u_bst_delete, u_bst_foreach, u_bst_search).  It meets all of them as    *)
(* long as no more than one was deleted: a deletion leaves wrong counters  *)
(* (bst.c:889), and the next one, led by them, may drop a subtree: see     *)
(* BstKeepsAll.                                                            *)
BstContents ==
  LET met == NodeForeach(root)
      Times(k, s) == Cardinality({i \in DOMAIN s : s[i] = k})
  IN  /\ \A i \in 1 .. Len(met) - 1 : met[i] <= met[i + 1]
      /\ \A k \in BstKeys :
           Times(k, met) <= Times(k, pushed) /\ (NodeSearch(root, k) # Nil <=> k \in Range(met))
      /\ deletes <= 1 => met = pushed

(* "Evict the first node matching the supplied key" (bst.c:219), and no    *)
(* other: what was pushed and not deleted is met and found.                *)
BstKeepsAll == NodeForeach(root) = pushed

(* "Count the number of nodes actually stored in the supplied bst"         *)
(* (bst.c:281), after whatever pushes and deletions.                       *)
BstCounts == Count = TreeSize(root)

(* Until a node is deleted every counter is the size of its subtree, so    *)
(* u_bst_find_nth returns the n-th key in order (nothing past the end) and *)
(* u_bst_balance gives the same keys in a tree of the least height.        *)
BstOrderStatistics ==
  deletes = 0 =>
    /\ CountsRight(root) /\ Count = Len(pushed)
    /\ \A n \in 0..MaxNodes :
         LET t == FindNth(root, n)
         IN  IF n < Len(pushed) THEN t # Nil /\ t.key = pushed[n + 1] ELSE t = Nil
    /\ LET b == NodeBalance(root)
       IN  NodeForeach(b) = pushed /\ CountsRight(b) /\ 2 * TreeSize(b) + 1 >= 2 ^ Height(b)

(* The private copies of keys and values still allocated are those of the  *)
(* nodes in the tree and of those that deletions dropped: each is released *)
(* once, with its node (u_bst_node_do_free), and never before.             *)
BstCopies == live = (TreeSize(root) + lost) * NodeNew
=============================================================================
