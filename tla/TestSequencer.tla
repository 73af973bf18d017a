--------------------------- MODULE TestSequencer ---------------------------
(***************************************************************************)
(* The sequencer of the unit test framework (srcs/toolbox/test.c): one     *)
(* list head TO (the test suites of a test, or the test cases of a suite), *)
(* the registration calls that fill it and the ranking loop that orders    *)
(* it.  Identifiers stand for the objects that bear them: "Test object     *)
(* identifier: MUST be unique" (test.c:85).                                *)
(***************************************************************************)
EXTENDS Naturals, Sequences, FiniteSets

CONSTANTS Ids,      \* identifiers of test suites (or of test cases)
          NULL,     \* the null pointer of td->upref
          MaxDeps   \* bound: length of one object's dependency list

ASSUME NullAssumption == NULL \notin Ids
ASSUME MaxDepsAssumption == MaxDeps \in Nat

VARIABLES objs,       \* TO.objs, the list in its LIST_FOREACH order
          deps,       \* to->deps: list of [id, upref], head first
          sequenced,  \* to->sequenced
          rank,       \* to->rank
          currank,    \* TO.currank
          pc          \* where u_test_run is: register, sequence, ok or loop

vars == <<objs, deps, sequenced, rank, currank, pc>>

Dep == [id : Ids, upref : Ids \cup {NULL}]

InList(x) == \E i \in DOMAIN objs : objs[i] = x

DepIds(x) == {deps[x][k].id : k \in DOMAIN deps[x]}

-----------------------------------------------------------------------------

(* u_test_obj_init *)
Init ==
  /\ objs = <<>>
  /\ deps = [x \in Ids |-> <<>>]
  /\ sequenced = [x \in Ids |-> FALSE]
  /\ rank = [x \in Ids |-> 0]
  /\ currank = 0
  /\ pc = "register"

(* u_test_case_add, u_test_suite_add: LIST_INSERT_HEAD *)
Add(x) ==
  /\ pc = "register"
  /\ ~InList(x)
  /\ objs' = <<x>> \o objs
  /\ UNCHANGED <<deps, sequenced, rank, currank, pc>>

(* u_test_obj_dep_add.  The list is searched for the object's own id, not  *)
(* for the id of the dependency being added.                               *)
DepAdd(x, d) ==
  deps' = IF x \in DepIds(x) THEN deps
          ELSE [deps EXCEPT ![x] = <<[id |-> d, upref |-> NULL]>> \o @]

(* u_test_suite_dep_register, u_test_case_dep_register *)
DepRegister(x, d) ==
  /\ pc = "register"
  /\ Len(deps[x]) < MaxDeps
  /\ DepAdd(x, d)
  /\ UNCHANGED <<objs, sequenced, rank, currank, pc>>

(* u_test_obj_depends_on; an object that is not in the list is an error,   *)
(* and a dependency that is already recorded is left alone.                *)
DependsOn(x, d) ==
  /\ pc = "register"
  /\ InList(x)
  /\ d \notin DepIds(x)
  /\ Len(deps[x]) < MaxDeps
  /\ DepAdd(x, d)
  /\ UNCHANGED <<objs, sequenced, rank, currank, pc>>

(* u_test_run calls u_test_sequencer *)
Start ==
  /\ pc = "register"
  /\ pc' = "sequence"
  /\ UNCHANGED <<objs, deps, sequenced, rank, currank>>

-----------------------------------------------------------------------------
(* Mutant: only the head of the list is examined.                          *)
DryHeadOnly(x) == \A k \in DOMAIN deps[x] : k = 1 => deps[x][k].upref # NULL

(* u_test_dep_dry: no unresolved dependency *)
Dry(x) == \A k \in DOMAIN deps[x] : deps[x][k].upref # NULL

Pickable(x) == ~sequenced[x] /\ Dry(x)

(* u_test_obj_pick_top returns the first such object of the list *)
Top(x) ==
  \E i \in DOMAIN objs :
    /\ objs[i] = x
    /\ Pickable(x)
    /\ \A j \in 1..(i - 1) : ~Pickable(objs[j])

(* Mutant: the depth is overwritten instead of raised.                     *)
ReachedLast(x) == rank[x]

(* U_MAX(to->rank, to->parent->currank), recorded by pick_top *)
Reached(x) == IF rank[x] > currank THEN rank[x] ELSE currank

(* Mutant: only the head of the dependency list is compared.               *)
MatchHeadOnly(x, k, id) == k = 1 /\ deps[x][k].id = id

(* The record that the inner loop of u_test_obj_evict_id stops at.         *)
FirstMatch(x, k, id) ==
  /\ deps[x][k].id = id
  /\ \A j \in 1..(k - 1) : deps[x][j].id # id

(* One turn of the loop of u_test_obj_sequencer: pick_top and evict_id.    *)
Sequence(x) ==
  /\ pc = "sequence"
  /\ Top(x)
  /\ currank' = Reached(x)
  /\ rank' = [y \in Ids |-> IF InList(y) /\ x \in DepIds(y)
                            THEN currank' + 1 ELSE rank[y]]
  /\ deps' = [y \in Ids |->
                IF InList(y)
                THEN [k \in DOMAIN deps[y] |->
                        IF FirstMatch(y, k, x)
                        THEN [id |-> x, upref |-> x]
                        ELSE deps[y][k]]
                ELSE deps[y]]
  /\ sequenced' = [sequenced EXCEPT ![x] = TRUE]
  /\ UNCHANGED <<objs, pc>>

AllSequenced == \A i \in DOMAIN objs : sequenced[objs[i]]

(* pick_top returned NULL: look for an object that is not sequenced *)
Finish ==
  /\ pc = "sequence"
  /\ \A i \in DOMAIN objs : ~Pickable(objs[i])
  /\ pc' = IF AllSequenced THEN "ok" ELSE "loop"
  /\ UNCHANGED <<objs, deps, sequenced, rank, currank>>

Register == \E x \in Ids : \/ Add(x)
                           \/ \E d \in Ids : DepRegister(x, d) \/ DependsOn(x, d)

Sequencer == (\E x \in Ids : Sequence(x)) \/ Finish

Next == Register \/ Start \/ Sequencer

Spec == Init /\ [][Next]_vars

-----------------------------------------------------------------------------
TypeOK ==
  /\ objs \in Seq(Ids)
  /\ deps \in [Ids -> Seq(Dep)]
  /\ sequenced \in [Ids -> BOOLEAN]
  /\ rank \in [Ids -> Nat]
  /\ currank \in Nat
  /\ pc \in {"register", "sequence", "ok", "loop"}

(* What u_test_obj_scheduler needs of a sequence that succeeded: every     *)
(* dependency names an object of the list whose rank is strictly lower, so *)
(* that running the ranks in increasing order runs it first.               *)
RankOrder ==
  pc = "ok" => \A x \in Ids : InList(x) =>
    \A k \in DOMAIN deps[x] :
      /\ InList(deps[x][k].id)
      /\ deps[x][k].upref = deps[x][k].id
      /\ rank[deps[x][k].id] < rank[x]

(* The scheduler runs ranks 0..currank: no object may lie beyond.          *)
RankCovered ==
  pc = "ok" => \A x \in Ids : InList(x) => rank[x] <= currank

NoDuplicateDeps ==
  \A x \in Ids : \A j, k \in DOMAIN deps[x] :
    deps[x][j].id = deps[x][k].id => j = k

(* A set of listed objects each of which waits for one of the set or for   *)
(* an object that was never added: a genuine dependency loop.              *)
Stuck(S) ==
  /\ S # {}
  /\ \A x \in S : InList(x) /\ \E d \in DepIds(x) : d \in S \/ ~InList(d)

(* "Test if we got out because of a cycle in deps" (test.c:1083): a loop   *)
(* is reported if there is one, and, when no dependency was registered     *)
(* twice, only then.                                                       *)
LoopExact ==
  /\ (pc = "loop" /\ NoDuplicateDeps) => \E S \in SUBSET Ids : Stuck(S)
  /\ pc = "ok" => ~ \E S \in SUBSET Ids : Stuck(S)

(* Once an object has been picked its rank never moves again: objects      *)
(* ranked against it stay correctly ranked.                                *)
RankFrozen ==
  [][\A x \in Ids : sequenced[x] => sequenced'[x] /\ rank'[x] = rank[x]]_vars

-----------------------------------------------------------------------------
(* Comments of the code that the code does not keep.                       *)

(* test.c:1083-1084 with no proviso.                                       *)
LoopMeansCycle ==
  pc = "loop" => \E S \in SUBSET Ids : Stuck(S)

(* "equally ranking all test objects which are at the same                 *)
(* "dependency-depth"" (test.c:1062-1063).                                 *)
IsDepth(f) ==
  \A x \in Ids :
    IF DepIds(x) = {} THEN f[x] = 0
    ELSE /\ \E d \in DepIds(x) : f[x] = f[d] + 1
         /\ \A d \in DepIds(x) : f[x] >= f[d] + 1

RankIsDepthClass ==
  pc = "ok" => \A f \in [Ids -> 0..Cardinality(Ids)] :
    IsDepth(f) => \A x, y \in Ids :
      (InList(x) /\ InList(y) /\ f[x] = f[y]) => rank[x] = rank[y]
=============================================================================
