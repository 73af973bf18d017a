------------------------ MODULE TestSequencerProofs ------------------------
(***************************************************************************)
(* The ranking of test.c is right for every number of objects and every    *)
(* dependency relation.  RankOrder says something of the end of the loop;  *)
(* the inductive invariant says what holds at each turn: a resolved        *)
(* dependency is sequenced and ranked below the object, and a sequenced    *)
(* object waits for nothing and lies within currank.                       *)
(***************************************************************************)
EXTENDS TestSequencer, TLAPS

(* Before the sequencer starts nothing is sequenced and nothing resolved.  *)
Fresh ==
  pc = "register" => \A x \in Ids :
    /\ ~sequenced[x]
    /\ \A k \in DOMAIN deps[x] : deps[x][k].upref = NULL

(* td->upref is the object that td->id names, sequenced and ranked lower.  *)
Resolved ==
  \A x \in Ids : \A k \in DOMAIN deps[x] :
    deps[x][k].upref # NULL =>
      /\ deps[x][k].upref = deps[x][k].id
      /\ sequenced[deps[x][k].id]
      /\ rank[deps[x][k].id] < rank[x]

(* An object is sequenced once it has no unresolved dependency.            *)
Picked ==
  \A x \in Ids : sequenced[x] => InList(x) /\ Dry(x) /\ rank[x] <= currank

Done == pc = "ok" => AllSequenced

IInv == TypeOK /\ Fresh /\ Resolved /\ Picked /\ Done

-----------------------------------------------------------------------------
(* LIST_INSERT_HEAD on a list of identifiers or of dependency records.     *)
LEMMA InsertHead ==
  ASSUME NEW S, NEW s \in Seq(S), NEW e \in S
  PROVE  /\ <<e>> \o s \in Seq(S)
         /\ \A k \in DOMAIN (<<e>> \o s) :
              (<<e>> \o s)[k] = e \/ \E j \in DOMAIN s : (<<e>> \o s)[k] = s[j]
<1>1. <<e>> \in Seq(S) /\ Len(<<e>>) = 1 /\ <<e>>[1] = e
  OBVIOUS
<1>2. <<e>> \o s \in Seq(S) /\ Len(<<e>> \o s) = 1 + Len(s)
  BY <1>1
<1>3. ASSUME NEW k \in 1..(1 + Len(s))
      PROVE  (<<e>> \o s)[k] = e \/ \E j \in 1..Len(s) : (<<e>> \o s)[k] = s[j]
  <2>1. CASE k = 1
    BY <1>1, <2>1
  <2>2. CASE k # 1
    <3>1. k - 1 \in 1..Len(s) /\ (<<e>> \o s)[k] = s[k - 1]
      BY <1>1, <2>2
    <3>2. QED
      BY <3>1
  <2>3. QED
    BY <2>1, <2>2
<1>4. QED
  BY <1>2, <1>3

(* The empty lists of u_test_new satisfy the invariant.                    *)
LEMMA InitIInv == Init => IInv
BY DEF Init, IInv, TypeOK, Fresh, Resolved, Picked, Done, InList, Dry, Dep

(* Registration leaves the sequencer's state as it was.                    *)
LEMMA AddIInv ==
  ASSUME IInv, NEW x \in Ids, Add(x)
  PROVE  IInv'
<1>1. objs' \in Seq(Ids)
  BY InsertHead DEF IInv, TypeOK, Add
<1>2. TypeOK'
  BY <1>1 DEF IInv, TypeOK, Add
<1>3. Fresh' /\ Resolved' /\ Picked' /\ Done'
  BY DEF IInv, Fresh, Resolved, Picked, Done, Add
<1>4. QED
  BY <1>2, <1>3 DEF IInv

(* u_test_obj_dep_add only touches lists that are not sequenced yet.       *)
LEMMA DepAddIInv ==
  ASSUME IInv, pc = "register", NEW x \in Ids, NEW d \in Ids, DepAdd(x, d),
         UNCHANGED <<objs, sequenced, rank, currank, pc>>
  PROVE  IInv'
<1> DEFINE td == [id |-> d, upref |-> NULL]
           ins == <<td>> \o deps[x]
<1>1. td \in Dep /\ td.upref = NULL
  BY DEF Dep
<1>2. deps[x] \in Seq(Dep)
  BY DEF IInv, TypeOK
<1>3. /\ ins \in Seq(Dep)
      /\ \A k \in DOMAIN ins : ins[k] = td \/ \E j \in DOMAIN deps[x] : ins[k] = deps[x][j]
  BY <1>1, <1>2, InsertHead
<1>4. \A k \in DOMAIN ins : ins[k].upref = NULL
  BY <1>1, <1>3 DEF IInv, Fresh
<1>5. deps' = deps \/ deps' = [deps EXCEPT ![x] = ins]
  BY DEF DepAdd
<1> HIDE DEF td, ins
<1>6. deps' \in [Ids -> Seq(Dep)]
  BY <1>3, <1>5 DEF IInv, TypeOK
<1>7. TypeOK'
  BY <1>6 DEF IInv, TypeOK
<1>8. \A y \in Ids : \A k \in DOMAIN deps'[y] : deps'[y][k].upref = NULL
  BY <1>4, <1>5 DEF IInv, TypeOK, Fresh
<1>9. \A y \in Ids : ~sequenced'[y]
  BY DEF IInv, Fresh
<1>10. Fresh' /\ Resolved' /\ Picked' /\ Done'
  BY <1>8, <1>9 DEF Fresh, Resolved, Picked, Done
<1>11. QED
  BY <1>7, <1>10 DEF IInv

(* What pick_top guarantees of the object it returns: it depends on no     *)
(* object that is still to be sequenced, itself included.                  *)
LEMMA PickTop ==
  ASSUME IInv, NEW x \in Ids, Top(x)
  PROVE  /\ InList(x) /\ ~sequenced[x] /\ Dry(x)
         /\ \A y \in Ids : Dry(y) => x \notin DepIds(y)
<1>1. InList(x) /\ ~sequenced[x] /\ Dry(x)
  BY DEF Top, Pickable, InList
<1>2. ASSUME NEW y \in Ids, Dry(y), NEW k \in DOMAIN deps[y], deps[y][k].id = x
      PROVE  FALSE
  BY <1>1, <1>2 DEF IInv, Resolved, Dry
<1>3. QED
  BY <1>1, <1>2 DEF DepIds

(* One turn of the loop: the ranks of sequenced objects, and of the object *)
(* picked, do not move; every other rank may only become currank + 1.      *)
LEMMA SequenceRanks ==
  ASSUME IInv, NEW x \in Ids, Sequence(x)
  PROVE  /\ currank' \in Nat /\ currank' >= currank /\ currank' >= rank[x]
         /\ rank' \in [Ids -> Nat]
         /\ \A y \in Ids : sequenced[y] \/ y = x => rank'[y] = rank[y]
         /\ \A y \in Ids : rank'[y] = rank[y] \/ rank'[y] = currank' + 1
         /\ \A y \in Ids : InList(y) /\ x \in DepIds(y) => rank'[y] = currank' + 1
<1>1. currank \in Nat /\ rank \in [Ids -> Nat]
  BY DEF IInv, TypeOK
<1>2. currank' \in Nat /\ currank' >= currank /\ currank' >= rank[x]
  BY <1>1 DEF Sequence, Reached
<1>3. \A y \in Ids : rank'[y] = IF InList(y) /\ x \in DepIds(y)
                                THEN currank' + 1 ELSE rank[y]
  BY DEF Sequence
<1>4. rank' \in [Ids -> Nat]
  <2>1. rank' = [y \in Ids |-> IF InList(y) /\ x \in DepIds(y)
                               THEN currank' + 1 ELSE rank[y]]
    BY DEF Sequence
  <2>2. ASSUME NEW y \in Ids
        PROVE  rank'[y] \in Nat
    <3>1. rank[y] \in Nat
      BY <1>1
    <3>2. currank' + 1 \in Nat
      <4>1. PICK c \in Nat : currank' = c
        BY <1>2
      <4>2. QED
        BY <4>1
    <3>3. QED
      BY <1>3, <3>1, <3>2
  <2>3. QED
    BY <2>1, <2>2
<1>5. ASSUME NEW y \in Ids, sequenced[y] \/ y = x
      PROVE  rank'[y] = rank[y]
  <2>1. Top(x)
    BY DEF Sequence
  <2>2. Dry(y)
    BY <1>5, <2>1, PickTop DEF IInv, Picked
  <2>3. x \notin DepIds(y)
    BY <2>1, <2>2, PickTop
  <2>4. QED
    BY <1>3, <2>3
<1>6. QED
  BY <1>2, <1>3, <1>4, <1>5

(* The same turn, seen from the dependency lists: records are resolved and *)
(* never added, removed or renamed.                                        *)
LEMMA SequenceDeps ==
  ASSUME IInv, NEW x \in Ids, Sequence(x)
  PROVE  /\ deps' \in [Ids -> Seq(Dep)]
         /\ \A y \in Ids : DOMAIN deps'[y] = DOMAIN deps[y]
         /\ \A y \in Ids : \A k \in DOMAIN deps[y] :
              /\ deps'[y][k].id = deps[y][k].id
              /\ \/ deps'[y][k].upref = deps[y][k].upref
                 \/ InList(y) /\ deps[y][k].id = x /\ deps'[y][k].upref = x
<1> DEFINE new(y, k) == IF FirstMatch(y, k, x) THEN [id |-> x, upref |-> x]
                        ELSE deps[y][k]
           list(y) == IF InList(y) THEN [k \in DOMAIN deps[y] |-> new(y, k)]
                      ELSE deps[y]
<1>1. deps' = [y \in Ids |-> list(y)]
  BY DEF Sequence
<1>2. ASSUME NEW y \in Ids
      PROVE  deps[y] \in Seq(Dep) /\ DOMAIN deps[y] = 1..Len(deps[y])
  BY DEF IInv, TypeOK
<1>3. ASSUME NEW y \in Ids, NEW k \in DOMAIN deps[y]
      PROVE  /\ new(y, k) \in Dep
             /\ new(y, k).id = deps[y][k].id
             /\ \/ new(y, k) = deps[y][k]
                \/ deps[y][k].id = x /\ new(y, k).upref = x
  <2>1. deps[y][k] \in Dep
    BY <1>2
  <2>2. CASE FirstMatch(y, k, x)
    <3>1. new(y, k) = [id |-> x, upref |-> x] /\ deps[y][k].id = x
      BY <2>2 DEF FirstMatch
    <3>2. QED
      BY <3>1 DEF Dep
  <2>3. CASE ~FirstMatch(y, k, x)
    BY <2>1, <2>3
  <2>4. QED
    BY <2>2, <2>3
<1> HIDE DEF new
<1>4. ASSUME NEW y \in Ids
      PROVE  /\ list(y) \in Seq(Dep)
             /\ DOMAIN list(y) = DOMAIN deps[y]
             /\ \A k \in DOMAIN deps[y] :
                  \/ list(y)[k] = deps[y][k]
                  \/ InList(y) /\ list(y)[k] = new(y, k)
  <2>1. CASE InList(y)
    <3>1. list(y) = [k \in 1..Len(deps[y]) |-> new(y, k)] /\ Len(deps[y]) \in Nat
      BY <1>2, <2>1
    <3>2. \A k \in 1..Len(deps[y]) : new(y, k) \in Dep
      BY <1>2, <1>3
    <3>3. list(y) \in Seq(Dep) /\ DOMAIN list(y) = 1..Len(deps[y])
      BY <3>1, <3>2
    <3>4. QED
      BY <1>2, <2>1, <3>1, <3>3
  <2>2. CASE ~InList(y)
    BY <1>2, <2>2
  <2>3. QED
    BY <2>1, <2>2
<1> HIDE DEF list
<1>5. deps' \in [Ids -> Seq(Dep)]
  BY <1>1, <1>4
<1>6. \A y \in Ids : DOMAIN deps'[y] = DOMAIN deps[y]
  BY <1>1, <1>4
<1>7. ASSUME NEW y \in Ids, NEW k \in DOMAIN deps[y]
      PROVE  /\ deps'[y][k].id = deps[y][k].id
             /\ \/ deps'[y][k].upref = deps[y][k].upref
                \/ InList(y) /\ deps[y][k].id = x /\ deps'[y][k].upref = x
  <2>1. \/ deps'[y][k] = deps[y][k]
        \/ InList(y) /\ deps'[y][k] = new(y, k)
    BY <1>1, <1>4
  <2>2. QED
    BY <1>3, <2>1
<1>8. QED
  BY <1>5, <1>6, <1>7

(* One turn of the sequencer loop keeps the whole invariant.               *)
LEMMA SequenceIInv ==
  ASSUME IInv, NEW x \in Ids, Sequence(x)
  PROVE  IInv'
<1>1. Top(x) /\ pc = "sequence" /\ pc' = pc /\ objs' = objs
      /\ sequenced' = [sequenced EXCEPT ![x] = TRUE]
  BY DEF Sequence
<1>2. /\ sequenced \in [Ids -> BOOLEAN] /\ sequenced' \in [Ids -> BOOLEAN]
      /\ sequenced'[x]
      /\ \A y \in Ids : sequenced[y] => sequenced'[y]
      /\ \A y \in Ids : sequenced'[y] => sequenced[y] \/ y = x
  BY <1>1 DEF IInv, TypeOK
<1>3. /\ currank' \in Nat /\ currank' >= currank /\ currank' >= rank[x]
      /\ rank' \in [Ids -> Nat]
      /\ \A y \in Ids : sequenced[y] \/ y = x => rank'[y] = rank[y]
      /\ \A y \in Ids : rank'[y] = rank[y] \/ rank'[y] = currank' + 1
      /\ \A y \in Ids : InList(y) /\ x \in DepIds(y) => rank'[y] = currank' + 1
  BY SequenceRanks
<1>4. /\ deps' \in [Ids -> Seq(Dep)]
      /\ \A y \in Ids : DOMAIN deps'[y] = DOMAIN deps[y]
      /\ \A y \in Ids : \A k \in DOMAIN deps[y] :
           /\ deps'[y][k].id = deps[y][k].id
           /\ \/ deps'[y][k].upref = deps[y][k].upref
              \/ InList(y) /\ deps[y][k].id = x /\ deps'[y][k].upref = x
  BY SequenceDeps
<1>5. TypeOK'
  BY <1>1, <1>2, <1>3, <1>4 DEF IInv, TypeOK
<1>6. \A y \in Ids : sequenced[y] => rank[y] \in Nat /\ rank[y] <= currank
  BY DEF IInv, TypeOK, Picked
<1>7. Resolved'
  <2> SUFFICES ASSUME NEW y \in Ids, NEW k \in DOMAIN deps'[y],
                      deps'[y][k].upref # NULL
               PROVE  /\ deps'[y][k].upref = deps'[y][k].id
                      /\ sequenced'[deps'[y][k].id]
                      /\ rank'[deps'[y][k].id] < rank'[y]
    BY DEF Resolved
  <2> DEFINE d == deps[y][k].id
  <2>1. k \in DOMAIN deps[y] /\ deps'[y][k].id = d
    BY <1>4
  <2>2. d \in Ids /\ rank[y] \in Nat /\ rank[x] \in Nat /\ currank \in Nat
    <3>1. deps[y][k] \in Dep
      BY <2>1 DEF IInv, TypeOK
    <3>2. QED
      BY <3>1 DEF IInv, TypeOK, Dep
  <2>3. CASE deps'[y][k].upref = deps[y][k].upref
    <3>1. deps[y][k].upref = d /\ sequenced[d] /\ rank[d] < rank[y]
      BY <2>1, <2>3 DEF IInv, Resolved
    <3>2. sequenced'[d] /\ rank'[d] = rank[d] /\ rank[d] \in Nat /\ rank[d] <= currank
      BY <1>2, <1>3, <1>6, <2>2, <3>1
    <3>3. rank'[d] < rank'[y]
      BY <1>3, <2>2, <3>1, <3>2
    <3>4. QED
      BY <2>1, <2>3, <3>1, <3>2, <3>3
  <2>4. CASE InList(y) /\ d = x /\ deps'[y][k].upref = x
    <3>1. x \in DepIds(y)
      BY <2>1, <2>4 DEF DepIds
    <3>2. rank'[y] = currank' + 1 /\ rank'[x] = rank[x]
      BY <1>3, <2>4, <3>1
    <3>3. QED
      BY <1>2, <1>3, <2>1, <2>2, <2>4, <3>2
  <2>5. QED
    BY <1>4, <2>1, <2>3, <2>4
<1>8. Picked'
  <2> SUFFICES ASSUME NEW y \in Ids, sequenced'[y]
               PROVE  InList(y)' /\ Dry(y)' /\ rank'[y] <= currank'
    BY DEF Picked
  <2>1. InList(y) /\ Dry(y)
    BY <1>1, <1>2, PickTop DEF IInv, Picked
  <2>2. InList(y)'
    BY <1>1, <2>1 DEF InList
  <2>3. Dry(y)'
    BY <1>4, <2>1, NullAssumption DEF Dry
  <2>4. rank'[y] <= currank'
    <3>1. rank[y] \in Nat /\ currank \in Nat
      BY DEF IInv, TypeOK
    <3>2. CASE sequenced[y]
      BY <1>3, <1>6, <3>1, <3>2
    <3>3. CASE y = x
      BY <1>3, <3>1, <3>3
    <3>4. QED
      BY <1>2, <3>2, <3>3
  <2>5. QED
    BY <2>2, <2>3, <2>4
<1>9. Fresh' /\ Done'
  BY <1>1 DEF Fresh, Done
<1>10. QED
  BY <1>5, <1>7, <1>8, <1>9 DEF IInv

(* The invariant is inductive.                                             *)
LEMMA NextIInv ==
  ASSUME IInv, [Next]_vars
  PROVE  IInv'
<1>1. CASE \E x \in Ids : Add(x)
  BY <1>1, AddIInv
<1>2. CASE \E x, d \in Ids : DepRegister(x, d)
  BY <1>2, DepAddIInv DEF DepRegister
<1>3. CASE \E x, d \in Ids : DependsOn(x, d)
  BY <1>3, DepAddIInv DEF DependsOn
<1>4. CASE Start
  BY <1>4 DEF IInv, TypeOK, Fresh, Resolved, Picked, Done, Start, InList, Dry
<1>5. CASE \E x \in Ids : Sequence(x)
  BY <1>5, SequenceIInv
<1>6. CASE Finish
  BY <1>6 DEF IInv, TypeOK, Fresh, Resolved, Picked, Done, Finish, InList, Dry,
              AllSequenced
<1>7. CASE UNCHANGED vars
  BY <1>7 DEF IInv, TypeOK, Fresh, Resolved, Picked, Done, vars, InList, Dry,
              AllSequenced
<1>8. QED
  BY <1>1, <1>2, <1>3, <1>4, <1>5, <1>6, <1>7 DEF Next, Register, Sequencer

(* The invariant holds in every reachable state.                           *)
LEMMA SpecIInv == Spec => []IInv
<1>1. Init => IInv
  BY InitIInv
<1>2. IInv /\ [Next]_vars => IInv'
  BY NextIInv
<1>3. QED
  BY <1>1, <1>2, PTL DEF Spec

-----------------------------------------------------------------------------
(* The lists, ranks and flags of the sequencer keep their types.           *)
THEOREM TypeCorrect == Spec => []TypeOK
<1>1. IInv => TypeOK
  BY DEF IInv
<1>2. QED
  BY <1>1, SpecIInv, PTL

(* Whatever the dependencies, if u_test_sequencer succeeds every           *)
(* dependency is an object of the list, resolved and of a lower rank.      *)
THEOREM RanksOrdered == Spec => []RankOrder
<1>1. IInv => RankOrder
  <2> SUFFICES ASSUME IInv, pc = "ok", NEW x \in Ids, InList(x),
                      NEW k \in DOMAIN deps[x]
               PROVE  /\ InList(deps[x][k].id)
                      /\ deps[x][k].upref = deps[x][k].id
                      /\ rank[deps[x][k].id] < rank[x]
    BY DEF RankOrder
  <2>1. sequenced[x]
    BY DEF IInv, Done, AllSequenced, InList
  <2>2. deps[x][k].upref # NULL
    BY <2>1 DEF IInv, Picked, Dry
  <2>3. /\ deps[x][k].upref = deps[x][k].id
        /\ sequenced[deps[x][k].id]
        /\ rank[deps[x][k].id] < rank[x]
    BY <2>2 DEF IInv, Resolved
  <2>4. deps[x][k].id \in Ids
    <3>1. deps[x][k] \in Dep
      BY DEF IInv, TypeOK
    <3>2. QED
      BY <3>1 DEF Dep
  <2>5. QED
    BY <2>3, <2>4 DEF IInv, Picked
<1>2. QED
  BY <1>1, SpecIInv, PTL

(* ... and the scheduler, which runs ranks 0..currank, misses none.        *)
THEOREM RanksCovered == Spec => []RankCovered
<1>1. IInv => RankCovered
  BY DEF IInv, Done, AllSequenced, Picked, RankCovered, InList
<1>2. QED
  BY <1>1, SpecIInv, PTL

(* Once an object has been picked neither its rank nor its being sequenced *)
(* ever changes.                                                           *)
THEOREM RanksFrozen == Spec => RankFrozen
<1> DEFINE A == \A x \in Ids : sequenced[x] => sequenced'[x] /\ rank'[x] = rank[x]
<1>1. IInv /\ [Next]_vars => [A]_vars
  <2> SUFFICES ASSUME IInv, Next, NEW x \in Ids, sequenced[x]
               PROVE  sequenced'[x] /\ rank'[x] = rank[x]
    OBVIOUS
  <2>1. CASE \E y \in Ids : Sequence(y)
    <3> PICK y \in Ids : Sequence(y)
      BY <2>1
    <3>1. rank'[x] = rank[x]
      BY SequenceRanks
    <3>2. sequenced'[x]
      BY DEF Sequence, IInv, TypeOK
    <3>3. QED
      BY <3>1, <3>2
  <2>2. CASE Register \/ Start \/ Finish
    BY <2>2 DEF Register, Add, DepRegister, DependsOn, Start, Finish
  <2>3. QED
    BY <2>1, <2>2 DEF Next, Sequencer
<1>2. QED
  BY <1>1, SpecIInv, PTL DEF Spec, RankFrozen

-----------------------------------------------------------------------------
(* The verdict on loops rests on three more facts: a record left           *)
(* unresolved names an object still to be sequenced (if none is registered *)
(* twice), no object of a loop is ever sequenced, and when the loop of the *)
(* sequencer gives up nothing can be picked.                               *)
Distinct(x) ==
  \A j, k \in DOMAIN deps[x] : deps[x][j].id = deps[x][k].id => j = k

Unresolved ==
  \A x \in Ids : InList(x) /\ Distinct(x) =>
    \A k \in DOMAIN deps[x] : deps[x][k].upref = NULL => ~sequenced[deps[x][k].id]

LoopUntouched ==
  \A S \in SUBSET Ids : Stuck(S) => \A x \in S : ~sequenced[x]

GaveUp ==
  pc = "loop" => ~AllSequenced /\ \A i \in DOMAIN objs : ~Pickable(objs[i])

LoopInv == Unresolved /\ LoopUntouched /\ GaveUp

(* u_test_obj_evict_id resolves the first record of each list that names   *)
(* the object picked.                                                      *)
LEMMA SequenceResolves ==
  ASSUME NEW x \in Ids, Sequence(x), NEW y \in Ids, InList(y),
         NEW k \in DOMAIN deps[y], FirstMatch(y, k, x)
  PROVE  deps'[y][k].upref = x
BY DEF Sequence

(* Whether objects are in a loop depends only on the list and on what the  *)
(* records name.                                                           *)
LEMMA StuckStays ==
  ASSUME NEW S \in SUBSET Ids, objs' = objs,
         \A y \in Ids : DepIds(y)' = DepIds(y)
  PROVE  Stuck(S)' <=> Stuck(S)
BY DEF Stuck, InList

(* A suite that is sequenced leaves the loops as they are.                 *)
LEMMA SequenceLoopInv ==
  ASSUME IInv, LoopInv, NEW x \in Ids, Sequence(x)
  PROVE  LoopInv'
<1>1. /\ Top(x) /\ pc' = "sequence" /\ objs' = objs
      /\ sequenced' = [sequenced EXCEPT ![x] = TRUE]
  BY DEF Sequence
<1>2. \A y \in Ids : sequenced'[y] => sequenced[y] \/ y = x
  BY <1>1 DEF IInv, TypeOK
<1>3. /\ \A y \in Ids : DOMAIN deps'[y] = DOMAIN deps[y]
      /\ \A y \in Ids : \A k \in DOMAIN deps[y] :
           /\ deps'[y][k].id = deps[y][k].id
           /\ \/ deps'[y][k].upref = deps[y][k].upref
              \/ InList(y) /\ deps[y][k].id = x /\ deps'[y][k].upref = x
  BY SequenceDeps
<1>4. \A y \in Ids : \A k \in DOMAIN deps[y] :
        k \in Nat /\ 1..(k - 1) \subseteq DOMAIN deps[y] /\ deps[y][k].id \in Ids
  <2> SUFFICES ASSUME NEW y \in Ids, NEW k \in DOMAIN deps[y]
               PROVE  k \in Nat /\ 1..(k - 1) \subseteq DOMAIN deps[y] /\ deps[y][k].id \in Ids
    OBVIOUS
  <2>1. deps[y] \in Seq(Dep)
    BY DEF IInv, TypeOK
  <2>2. DOMAIN deps[y] = 1..Len(deps[y]) /\ Len(deps[y]) \in Nat /\ deps[y][k] \in Dep
    BY <2>1
  <2>3. QED
    BY <2>2 DEF Dep
<1>5. Unresolved'
  <2> SUFFICES ASSUME NEW y \in Ids, InList(y)', Distinct(y)',
                      NEW k \in DOMAIN deps'[y], deps'[y][k].upref = NULL
               PROVE  ~sequenced'[deps'[y][k].id]
    BY DEF Unresolved
  <2>1. k \in DOMAIN deps[y] /\ deps'[y][k].id = deps[y][k].id
    BY <1>3
  <2>2. InList(y) /\ Distinct(y)
    BY <1>1, <1>3 DEF InList, Distinct
  <2>3. deps[y][k].id # x
    <3>1. SUFFICES ASSUME deps[y][k].id = x
                   PROVE  FALSE
      OBVIOUS
    <3>2. FirstMatch(y, k, x)
      <4>1. \A j \in 1..(k - 1) : j \in DOMAIN deps[y] /\ j # k
        BY <1>4, <2>1
      <4>2. QED
        BY <2>1, <2>2, <3>1, <4>1 DEF FirstMatch, Distinct
    <3>3. QED
      BY <2>1, <2>2, <3>2, SequenceResolves, NullAssumption
  <2>4. deps[y][k].upref = NULL
    BY <1>3, <2>1, <2>3
  <2>5. ~sequenced[deps[y][k].id]
    BY <2>1, <2>2, <2>4 DEF LoopInv, Unresolved
  <2>6. QED
    BY <1>2, <1>4, <2>1, <2>3, <2>5
<1>6. LoopUntouched'
  <2> SUFFICES ASSUME NEW S \in SUBSET Ids, Stuck(S)'
               PROVE  \A y \in S : ~sequenced'[y]
    BY DEF LoopUntouched
  <2>1. Stuck(S)
    BY <1>1, <1>3, StuckStays DEF DepIds
  <2>2. \A y \in S : ~sequenced[y]
    BY <2>1 DEF LoopInv, LoopUntouched
  <2>3. x \notin S
    <3>1. SUFFICES ASSUME x \in S
                   PROVE  FALSE
      OBVIOUS
    <3>2. PICK d \in DepIds(x) : d \in S \/ ~InList(d)
      BY <2>1, <3>1 DEF Stuck
    <3>3. sequenced[d] /\ d \in Ids
      BY <1>1, <1>4, <3>2, PickTop DEF DepIds, Dry, IInv, Resolved
    <3>4. QED
      BY <2>2, <3>2, <3>3 DEF IInv, Picked
  <2>4. QED
    BY <1>2, <2>2, <2>3
<1>7. GaveUp'
  BY <1>1 DEF GaveUp
<1>8. QED
  BY <1>5, <1>6, <1>7 DEF LoopInv

(* So the loops are known all along.                                       *)
LEMMA SpecLoopInv == Spec => []LoopInv
<1>1. Init => LoopInv
  BY DEF Init, LoopInv, Unresolved, LoopUntouched, GaveUp
<1>2. ASSUME IInv, LoopInv, [Next]_vars, IInv'
      PROVE  LoopInv'
  <2>1. CASE Register
    <3>1. pc' = "register"
      BY <2>1 DEF Register, Add, DepRegister, DependsOn
    <3>2. \A y \in Ids : ~sequenced'[y]
      BY <1>2, <3>1 DEF IInv, Fresh
    <3>3. Unresolved'
      <4> SUFFICES ASSUME NEW y \in Ids, NEW k \in DOMAIN deps'[y]
                   PROVE  ~sequenced'[deps'[y][k].id]
        BY DEF Unresolved
      <4>1. deps'[y] \in Seq(Dep)
        BY <1>2 DEF IInv, TypeOK
      <4>2. deps'[y][k] \in Dep
        BY <4>1
      <4>3. QED
        BY <3>2, <4>2 DEF Dep
    <3>4. QED
      BY <3>1, <3>2, <3>3 DEF LoopInv, LoopUntouched, GaveUp
  <2>2. CASE Start \/ Finish \/ UNCHANGED vars
    <3>1. UNCHANGED <<objs, deps, sequenced>> /\ GaveUp'
      BY <1>2, <2>2 DEF Start, Finish, vars, LoopInv, GaveUp, AllSequenced, Pickable, Dry
    <3>2. Unresolved'
      BY <1>2, <3>1 DEF LoopInv, Unresolved, InList, Distinct
    <3>3. LoopUntouched'
      BY <1>2, <3>1, StuckStays DEF LoopInv, LoopUntouched, DepIds
    <3>4. QED
      BY <3>1, <3>2, <3>3 DEF LoopInv
  <2>3. CASE \E x \in Ids : Sequence(x)
    BY <1>2, <2>3, SequenceLoopInv
  <2>4. QED
    BY <1>2, <2>1, <2>2, <2>3 DEF Next, Sequencer
<1>3. QED
  BY <1>1, <1>2, SpecIInv, PTL DEF Spec

(* u_test_sequencer reports a loop if there is one and, when no dependency *)
(* was registered twice, only then, whatever the dependencies.             *)
THEOREM LoopsReported == Spec => []LoopExact
<1>1. ASSUME IInv, LoopInv, pc = "loop", NoDuplicateDeps
      PROVE  \E S \in SUBSET Ids : Stuck(S)
  <2> DEFINE S == {x \in Ids : InList(x) /\ ~sequenced[x]}
  <2>1. S # {}
    <3>1. PICK i \in DOMAIN objs : ~sequenced[objs[i]]
      BY <1>1 DEF LoopInv, GaveUp, AllSequenced
    <3>2. objs[i] \in Ids
      BY <1>1 DEF IInv, TypeOK
    <3>3. QED
      BY <3>1, <3>2 DEF InList
  <2>2. ASSUME NEW x \in S
        PROVE  \E d \in DepIds(x) : d \in S \/ ~InList(d)
    <3>1. ~Dry(x)
      BY <1>1 DEF LoopInv, GaveUp, Pickable, InList
    <3>2. PICK k \in DOMAIN deps[x] : deps[x][k].upref = NULL
      BY <3>1 DEF Dry
    <3>3. deps[x][k].id \in Ids
      <4>1. deps[x][k] \in Dep
        BY <1>1 DEF IInv, TypeOK
      <4>2. QED
        BY <4>1 DEF Dep
    <3>4. ~sequenced[deps[x][k].id]
      BY <1>1, <3>2 DEF LoopInv, Unresolved, NoDuplicateDeps, Distinct
    <3>5. QED
      BY <3>3, <3>4 DEF DepIds
  <2>3. Stuck(S)
    BY <2>1, <2>2 DEF Stuck
  <2>4. QED
    BY <2>3
<1>2. ASSUME IInv, LoopInv, pc = "ok", NEW S \in SUBSET Ids, Stuck(S)
      PROVE  FALSE
  BY <1>2 DEF IInv, Done, AllSequenced, LoopInv, LoopUntouched, Stuck, InList
<1>3. IInv /\ LoopInv => LoopExact
  BY <1>1, <1>2 DEF LoopExact
<1>4. QED
  BY <1>3, SpecIInv, SpecLoopInv, PTL

(* An object is added only if it is not in the list: none is there twice.  *)
ObjsOnce == \A i, j \in DOMAIN objs : objs[i] = objs[j] => i = j

(* So no suite is in the list twice.                                       *)
LEMMA ListedOnce == Spec => []ObjsOnce
<1>1. Init => ObjsOnce
  BY DEF Init, ObjsOnce
<1>2. ASSUME IInv, ObjsOnce, [Next]_vars
      PROVE  ObjsOnce'
  <2>1. CASE \E x \in Ids : Add(x)
    <3> PICK x \in Ids : Add(x)
      BY <2>1
    <3>1. objs \in Seq(Ids) /\ objs' = <<x>> \o objs /\ \A i \in DOMAIN objs : objs[i] # x
      BY <1>2 DEF IInv, TypeOK, Add, InList
    <3>2. /\ Len(objs) \in Nat /\ DOMAIN objs = 1..Len(objs) /\ DOMAIN objs' = 1..(1 + Len(objs))
          /\ objs'[1] = x
          /\ \A i \in 2..(1 + Len(objs)) : i - 1 \in DOMAIN objs /\ objs'[i] = objs[i - 1]
      BY <3>1
    <3> SUFFICES ASSUME NEW i \in DOMAIN objs', NEW j \in DOMAIN objs', objs'[i] = objs'[j]
                 PROVE  i = j
      BY DEF ObjsOnce
    <3>3. CASE i = 1 \/ j = 1
      BY <3>1, <3>2, <3>3
    <3>4. CASE i # 1 /\ j # 1
      <4>1. i - 1 = j - 1
        BY <1>2, <3>2, <3>4, SMTT(30) DEF ObjsOnce
      <4>2. QED
        BY <3>2, <4>1
    <3>5. QED
      BY <3>3, <3>4
  <2>2. CASE UNCHANGED objs
    BY <1>2, <2>2 DEF ObjsOnce
  <2>3. QED
    BY <1>2, <2>1, <2>2 DEF Next, Register, Sequencer, DepRegister, DependsOn, Start,
                            Sequence, Finish, vars
<1>3. QED
  BY <1>1, <1>2, SpecIInv, PTL DEF Spec

-----------------------------------------------------------------------------
(* What a scheduler may rely on once the list is sequenced.                *)
Base == IInv /\ RankOrder /\ RankCovered /\ ObjsOnce

(* All of it always holds.                                                 *)
LEMMA SpecBase == Spec => []Base
BY SpecIInv, RanksOrdered, RanksCovered, ListedOnce, PTL DEF Base

(* What a scheduler needs to know of the list.                             *)
LEMMA ListFacts ==
  ASSUME Base
  PROVE  /\ Len(objs) \in Nat /\ DOMAIN objs = 1..Len(objs)
         /\ objs # <<>> => Len(objs) > 0
         /\ \A i \in DOMAIN objs : objs[i] \in Ids /\ InList(objs[i])
         /\ \A i, j \in DOMAIN objs : objs[i] = objs[j] => i = j
         /\ rank \in [Ids -> Nat] /\ currank \in Nat
<1>1. objs \in Seq(Ids)
  BY DEF Base, IInv, TypeOK
<1>2. Len(objs) \in Nat /\ DOMAIN objs = 1..Len(objs) /\ \A i \in DOMAIN objs : objs[i] \in Ids
  BY <1>1
<1>3. objs # <<>> => Len(objs) > 0
  BY <1>1
<1>4. QED
  BY <1>2, <1>3 DEF Base, IInv, TypeOK, ObjsOnce, InList

(* The dependencies of a listed object are resolved, listed, and of lower  *)
(* rank.                                                                   *)
LEMMA DepsListed ==
  ASSUME Base, pc = "ok", NEW x \in Ids, InList(x)
  PROVE  /\ \A d \in DepIds(x) : d \in Ids /\ InList(d) /\ rank[d] < rank[x]
         /\ \A k \in DOMAIN deps[x] : deps[x][k].upref = deps[x][k].id /\ deps[x][k].upref # NULL
<1>1. \A k \in DOMAIN deps[x] :
        /\ deps[x][k].id \in Ids /\ InList(deps[x][k].id)
        /\ deps[x][k].upref = deps[x][k].id
        /\ rank[deps[x][k].id] < rank[x]
  <2> SUFFICES ASSUME NEW k \in DOMAIN deps[x]
               PROVE  deps[x][k].id \in Ids
    BY DEF Base, RankOrder
  <2>1. deps[x][k] \in Dep
    BY DEF Base, IInv, TypeOK
  <2>2. QED
    BY <2>1 DEF Dep
<1>2. \A k \in DOMAIN deps[x] : deps[x][k].upref # NULL
  BY <1>1, NullAssumption
<1>3. QED
  BY <1>1, <1>2 DEF DepIds

(* The list, the ranks and the dependencies stay while a scheduler runs.   *)
LEMMA FrozenList ==
  ASSUME UNCHANGED vars
  PROVE  /\ UNCHANGED <<objs, deps, rank, currank, pc>>
         /\ \A x : InList(x)' <=> InList(x)
         /\ \A x : DepIds(x)' = DepIds(x)
BY DEF vars, InList, DepIds
=============================================================================
