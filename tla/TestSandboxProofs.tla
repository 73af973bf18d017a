------------------------- MODULE TestSandboxProofs -------------------------
(***************************************************************************)
(* The sandboxed scheduler of test.c, for every list of cases, every       *)
(* dependency relation that the sequencer accepts, every chunk size, and   *)
(* any failure of fork and any signal.  The list, the ranks and the        *)
(* dependencies are those of TestSequencer, whose theorems are used here.  *)
(***************************************************************************)
EXTENDS TestSandbox, TestSequencerProofs, FiniteSetTheorems

(* Some case that x depends on did not succeed.                            *)
Failed(x) == \E d \in DepIds(x) : status[d] # "SUCCESS"

(* What the control state says by itself.                                  *)
Stage ==
  /\ spc # "idle" => pc = "ok"
  /\ spc = "idle" => /\ r = 0 /\ to = 0 /\ tptr = 0
                     /\ \A x \in Ids : status[x] = "SUCCESS" /\ child[x] = "none"
  /\ spc \in {"rank", "scan", "reap"} => objs # <<>>
  /\ spc = "reap" => to = 0
  /\ spc \in {"rank", "done", "exit"} => Spawned = {}

(* A suite that ends without an interruption has gone through every rank.  *)
Complete ==
  spc = "done" \/ (spc = "suite" /\ ~g_interrupted) =>
    Spawned = {} /\ \A x \in Ids : InList(x) => rank[x] < r

Counted == spc # "exit" => IsFiniteSet(Spawned) /\ nchildren = Cardinality(Spawned)

(* The live cases are of the rank at hand, and no rank above it was        *)
(* touched.                                                                *)
Placed ==
  \A x \in Ids :
    /\ child[x] # "none" => InList(x) /\ rank[x] = r /\ status[x] = "SUCCESS"
    /\ status[x] # "SUCCESS" => InList(x) /\ rank[x] <= r
    /\ spc = "rank" /\ rank[x] = r => status[x] = "SUCCESS"

(* A case that was skipped had a reason, one that was run had none.        *)
Judged ==
  \A x \in Ids :
    /\ status[x] = "SKIPPED" => Failed(x)
    /\ status[x] \in {"FAILURE", "ABORTED"} \/ child[x] # "none" => ~Failed(x)

(* The cases of this rank from the cursor, or from the point of restart,   *)
(* on are still to be started or were skipped: a restart never comes back  *)
(* to a case that was started.                                             *)
Ahead ==
  spc \in {"scan", "reap"} =>
    \A i \in DOMAIN objs :
      rank[objs[i]] = r /\ ((to # 0 /\ to <= i) \/ (tptr # 0 /\ tptr <= i)) =>
        child[objs[i]] = "none" /\ status[objs[i]] \in {"SUCCESS", "SKIPPED"}

(* The cases that the cursor has passed, of this rank and those before,    *)
(* were skipped if they had to be and have had their turn if not.          *)
Settled(x) == IF Failed(x) THEN status[x] = "SKIPPED" ELSE x \in ran \cup unstarted
Passed(i) == IF to # 0 THEN i < to ELSE tptr = 0 \/ i < tptr
Behind ==
  /\ \A x \in Ids : InList(x) /\ rank[x] < r => Settled(x)
  /\ spc \in {"scan", "reap"} =>
       \A i \in DOMAIN objs : rank[objs[i]] = r /\ Passed(i) => Settled(objs[i])

SInv == /\ SandboxTypeOK /\ Stage /\ Complete /\ Counted
        /\ Placed /\ Judged /\ Ahead /\ Behind

-----------------------------------------------------------------------------
(* What the sequencer leaves to the scheduler.                             *)
LEMMA SandboxBase == SandboxSpec => []Base
<1>1. SandboxInit => Init
  BY DEF SandboxInit
<1>2. [SandboxNext]_allvars => [Next]_vars
  BY DEF SandboxNext, SandboxStep, allvars
<1>3. SandboxSpec => Spec
  BY <1>1, <1>2, PTL DEF SandboxSpec, Spec
<1>4. QED
  BY <1>3, SpecBase, PTL

(* u_test_dep_failed, which follows upref, finds the dependencies that     *)
(* failed.                                                                 *)
LEMMA DepFacts ==
  ASSUME Base, pc = "ok", NEW x \in Ids, InList(x)
  PROVE  /\ \A d \in DepIds(x) : d \in Ids /\ InList(d) /\ rank[d] < rank[x]
         /\ DepFailed(x) <=> Failed(x)
<1>1. \A k \in DOMAIN deps[x] : deps[x][k].upref = deps[x][k].id /\ deps[x][k].upref # NULL
  BY DepsListed
<1>2. QED
  BY <1>1, DepsListed DEF DepIds, DepFailed, Failed

(* Cases change their verdict only while their rank is at hand, so what a  *)
(* case of this rank or of one before depends on is settled.               *)
VerdictMoves ==
  \A x \in Ids : status'[x] = status[x] \/ (status[x] = "SUCCESS" /\ rank[x] = r)

(* What a suite depends on is of lower rank: its verdict is settled before *)
(* the suite is looked at.                                                 *)
LEMMA FailedStays ==
  ASSUME Base, SandboxTypeOK, pc = "ok", UNCHANGED vars, VerdictMoves,
         NEW x \in Ids, InList(x), rank[x] <= r
  PROVE  Failed(x)' <=> Failed(x)
<1>1. \A d \in DepIds(x) : d \in Ids /\ rank[d] < rank[x]
  BY DepFacts
<1>2. rank \in [Ids -> Nat] /\ r \in Nat
  BY ListFacts DEF SandboxTypeOK
<1>3. \A d \in DepIds(x) : status'[d] = status[d]
  <2> SUFFICES ASSUME NEW d \in DepIds(x)
               PROVE  status'[d] = status[d]
    OBVIOUS
  <2>1. rank[d] \in Nat /\ rank[x] \in Nat /\ rank[d] # r
    BY <1>1, <1>2
  <2>2. QED
    BY <1>1, <2>1 DEF VerdictMoves
<1>4. QED
  BY <1>3, FrozenList DEF Failed

-----------------------------------------------------------------------------
(* The steps that move the cursor and leave cases and verdicts alone.      *)
LEMMA QuietStep ==
  ASSUME Base, SInv, UNCHANGED vars, UNCHANGED <<status, child, ran, unstarted, r>>
  PROVE  /\ \A x : Failed(x)' <=> Failed(x)
         /\ \A x : Settled(x)' <=> Settled(x)
         /\ Spawned' = Spawned
         /\ Judged'
         /\ (spc' = "rank" => spc = "rank") => Placed'
         /\ \A x \in Ids : InList(x)' /\ rank'[x] < r' => Settled(x)'
<1>1. /\ UNCHANGED rank
      /\ \A x : InList(x)' <=> InList(x)
      /\ \A x : DepIds(x)' = DepIds(x)
  BY FrozenList
<1>2. \A x : Failed(x)' <=> Failed(x)
  BY <1>1 DEF Failed
<1>3. Spawned' = Spawned
  BY DEF Spawned
<1>4. Judged'
  BY <1>2 DEF SInv, Judged
<1>5. (spc' = "rank" => spc = "rank") => Placed'
  BY <1>1 DEF SInv, Placed
<1>6. \A x : Settled(x)' <=> Settled(x)
  BY <1>2 DEF Settled
<1>7. QED
  BY <1>1, <1>2, <1>3, <1>4, <1>5, <1>6 DEF SInv, Behind

(* A verdict that is in stays in.                                          *)
LEMMA SettledStays ==
  ASSUME NEW x, Settled(x), Failed(x)' <=> Failed(x), status'[x] = status[x] \/ ~Failed(x),
         ran \subseteq ran', unstarted \subseteq unstarted'
  PROVE  Settled(x)'
BY DEF Settled

(* The start of the scheduler.                                             *)
LEMMA StartSInv ==
  ASSUME Base, SInv, UNCHANGED vars, SchedStart
  PROVE  SInv'
<1>1. /\ pc = "ok" /\ spc = "idle" /\ nchildren' = 0
      /\ spc' = IF objs = <<>> THEN "suite" ELSE "rank"
      /\ UNCHANGED <<ran, unstarted, max_parallel, status, child, parallel, r, to, tptr, g_interrupted>>
  BY DEF SchedStart
<1>2. UNCHANGED <<objs, deps, rank, currank, pc>> /\ \A x : InList(x)' <=> InList(x)
  BY FrozenList
<1>3. SandboxTypeOK'
  BY <1>1, <1>2 DEF SInv, SandboxTypeOK
<1>4. r = 0 /\ \A x \in Ids : status[x] = "SUCCESS" /\ child[x] = "none"
  BY <1>1 DEF SInv, Stage
<1>5. Spawned' = {}
  BY <1>1, <1>4 DEF Spawned
<1>6. Stage' /\ Counted'
  BY <1>1, <1>2, <1>5, FS_EmptySet DEF Stage, Counted
<1>7. Complete'
  BY <1>1, <1>2, <1>5 DEF Complete, InList
<1>8. Placed'
  BY <1>1, <1>4 DEF Placed
<1>9. Judged' /\ Ahead' /\ Behind'
  BY <1>1, <1>2, QuietStep DEF Ahead, Behind
<1>10. QED
  BY <1>3, <1>6, <1>7, <1>8, <1>9 DEF SInv

(* The loop over ranks.                                                    *)
LEMMA RankLoopSInv ==
  ASSUME Base, SInv, UNCHANGED vars, RankLoop
  PROVE  SInv'
<1>1. /\ spc = "rank"
      /\ \/ spc' = "scan" /\ tptr' = 1 /\ to' = 1
         \/ /\ ~(r <= currank /\ ~g_interrupted)
            /\ spc' = "suite" /\ UNCHANGED <<tptr, to>>
      /\ UNCHANGED <<ran, unstarted, max_parallel, status, child, nchildren, parallel, r, g_interrupted>>
  BY DEF RankLoop
<1>2. UNCHANGED <<objs, deps, rank, currank, pc>> /\ \A x : InList(x)' <=> InList(x)
  BY FrozenList
<1>3. pc = "ok" /\ objs # <<>> /\ Spawned = {}
  BY <1>1 DEF SInv, Stage
<1>4. Len(objs) \in Nat /\ 1 \in 0..Len(objs) /\ DOMAIN objs = 1..Len(objs)
  BY <1>3, ListFacts
<1>5. SandboxTypeOK'
  BY <1>1, <1>2, <1>4 DEF SInv, SandboxTypeOK
<1>6. Spawned' = {} /\ Judged' /\ Placed'
  BY <1>1, <1>3, QuietStep
<1>7. Stage' /\ Counted'
  BY <1>1, <1>2, <1>3, <1>6 DEF SInv, Stage, Counted
<1>8. Complete'
  <2> SUFFICES ASSUME spc' = "suite", ~g_interrupted', NEW x \in Ids, InList(x)'
               PROVE  rank'[x] < r'
    BY <1>1, <1>6 DEF Complete
  <2>1. ~(r <= currank) /\ r \in Nat /\ currank \in Nat /\ rank[x] \in Nat
    BY <1>1, ListFacts DEF SInv, SandboxTypeOK
  <2>2. rank[x] <= currank
    BY <1>2, <1>3 DEF Base, RankCovered
  <2>3. QED
    BY <1>1, <1>2, <2>1, <2>2
<1>9. Ahead'
  <2> SUFFICES ASSUME NEW i \in DOMAIN objs, rank[objs[i]] = r
               PROVE  child[objs[i]] = "none" /\ status[objs[i]] \in {"SUCCESS", "SKIPPED"}
    BY <1>1, <1>2 DEF Ahead
  <2>1. objs[i] \in Ids
    BY ListFacts
  <2>2. QED
    BY <1>1, <1>3, <2>1 DEF SInv, Placed, Spawned
<1>10. Behind'
  BY <1>1, <1>2, <1>4, QuietStep DEF Behind, Passed
<1>11. QED
  BY <1>5, <1>6, <1>7, <1>8, <1>9, <1>10 DEF SInv

(* The cursor stands on a case of the list, and moves on to the next one   *)
(* or off the end.                                                         *)
LEMMA CursorFacts ==
  ASSUME Base, SInv, Scanning
  PROVE  /\ pc = "ok" /\ spc = "scan"
         /\ to \in DOMAIN objs /\ to \in Nat /\ objs[to] \in Ids /\ InList(objs[to])
         /\ ListNext(to) \in 0..Len(objs)
         /\ \/ to < Len(objs) /\ ListNext(to) = to + 1
            \/ to = Len(objs) /\ ListNext(to) = 0
<1>1. to \in 0..Len(objs) /\ to # 0 /\ spc = "scan"
  BY DEF SInv, SandboxTypeOK, Scanning
<1>2. Len(objs) \in Nat /\ DOMAIN objs = 1..Len(objs)
  BY ListFacts
<1>3. to \in DOMAIN objs /\ to \in Nat
  BY <1>1, <1>2
<1>4. QED
  BY <1>1, <1>2, <1>3, ListFacts DEF ListNext, SInv, Stage

(* A suite of another rank.                                                *)
LEMMA ScanOtherSInv ==
  ASSUME Base, SInv, UNCHANGED vars, ScanOther
  PROVE  SInv'
<1>1. /\ Scanning /\ rank[objs[to]] # r /\ tptr' = 0 /\ to' = ListNext(to)
      /\ UNCHANGED <<ran, unstarted, max_parallel, status, child, nchildren, parallel, r, g_interrupted, spc>>
  BY DEF ScanOther
<1>2. UNCHANGED <<objs, deps, rank, currank, pc>> /\ \A x : InList(x)' <=> InList(x)
  BY FrozenList
<1>3. /\ pc = "ok" /\ spc = "scan" /\ to \in DOMAIN objs /\ to \in Nat
      /\ ListNext(to) \in 0..Len(objs) /\ Len(objs) \in Nat /\ DOMAIN objs = 1..Len(objs)
      /\ (to < Len(objs) /\ ListNext(to) = to + 1) \/ (to = Len(objs) /\ ListNext(to) = 0)
  BY <1>1, CursorFacts, ListFacts
<1>4. SandboxTypeOK'
  BY <1>1, <1>2, <1>3 DEF SInv, SandboxTypeOK
<1>5. Spawned' = Spawned /\ Judged' /\ Placed' /\ \A x : Settled(x)' <=> Settled(x)
  BY <1>1, QuietStep
<1>6. Stage' /\ Counted' /\ Complete'
  BY <1>1, <1>2, <1>3, <1>5 DEF SInv, Stage, Counted, Complete
<1>7. Ahead'
  BY <1>1, <1>2, <1>3 DEF SInv, Ahead
<1>8. ASSUME NEW i \in DOMAIN objs, Passed(i)'
      PROVE  i < to \/ i = to
  BY <1>1, <1>3, <1>8 DEF Passed
<1>9. Behind'
  <2>1. ASSUME NEW i \in DOMAIN objs, rank[objs[i]] = r, Passed(i)'
        PROVE  Settled(objs[i])
    <3>1. i < to
      BY <1>1, <1>8, <2>1
    <3>2. Passed(i)
      BY <1>3, <3>1 DEF Passed
    <3>3. QED
      BY <1>3, <2>1, <3>2 DEF SInv, Behind
  <2>2. QED
    BY <1>1, <1>2, <1>5, <2>1, QuietStep DEF Behind
<1>10. QED
  BY <1>4, <1>5, <1>6, <1>7, <1>9 DEF SInv

(* The end of the list, from where children are waited for.                *)
LEMMA ScanEndSInv ==
  ASSUME Base, SInv, UNCHANGED vars, ScanEnd
  PROVE  SInv'
<1>1. /\ spc = "scan" /\ to = 0 /\ spc' = "reap"
      /\ UNCHANGED <<ran, unstarted, max_parallel, status, child, nchildren, parallel, r, to, tptr,
                     g_interrupted>>
  BY DEF ScanEnd
<1>2. UNCHANGED <<objs, deps, rank, currank, pc>> /\ \A x : InList(x)' <=> InList(x)
  BY FrozenList
<1>3. Spawned' = Spawned /\ Judged' /\ Placed' /\ \A x : Failed(x)' <=> Failed(x)
  BY <1>1, QuietStep
<1>4. SandboxTypeOK' /\ Stage'
  BY <1>1, <1>2 DEF SInv, SandboxTypeOK, Stage
<1>5. Counted' /\ Complete' /\ Ahead'
  BY <1>1, <1>2, <1>3 DEF SInv, Counted, Complete, Ahead
<1>6. Behind'
  BY <1>1, <1>2, <1>3, QuietStep DEF SInv, Behind, Passed
<1>7. QED
  BY <1>3, <1>4, <1>5, <1>6 DEF SInv

(* The end of the waiting.                                                 *)
LEMMA ReapEndSInv ==
  ASSUME Base, SInv, UNCHANGED vars, ReapEnd
  PROVE  SInv'
<1>1. /\ spc = "reap" /\ nchildren = 0
      /\ UNCHANGED <<ran, unstarted, max_parallel, status, child, nchildren, tptr, g_interrupted>>
  BY DEF ReapEnd, AllReaped
<1>2. UNCHANGED <<objs, deps, rank, currank, pc>> /\ \A x : InList(x)' <=> InList(x)
  BY FrozenList
<1>3. Spawned = {} /\ pc = "ok" /\ to = 0 /\ objs # <<>>
  BY <1>1, FS_EmptySet DEF SInv, Counted, Stage
<1>4. \A x \in Ids : child[x] = "none"
  BY <1>3 DEF Spawned
<1>5. CASE tptr # 0 /\ parallel' = 0 /\ to' = tptr /\ spc' = "scan" /\ UNCHANGED r
  <2>1. Spawned' = Spawned /\ Judged' /\ Placed' /\ \A x : Failed(x)' <=> Failed(x)
    BY <1>1, <1>5, QuietStep
  <2>2. SandboxTypeOK' /\ Stage' /\ Counted' /\ Complete'
    BY <1>1, <1>2, <1>3, <1>5, <2>1 DEF SInv, SandboxTypeOK, Stage, Counted, Complete
  <2>3. Ahead'
    BY <1>1, <1>2, <1>5 DEF SInv, Ahead
  <2>4. Behind'
    BY <1>1, <1>2, <1>3, <1>5, <2>1, QuietStep DEF SInv, Behind, Passed
  <2>5. QED
    BY <2>1, <2>2, <2>3, <2>4 DEF SInv
<1>6. CASE tptr = 0 /\ r' = r + 1 /\ spc' = "rank" /\ UNCHANGED <<parallel, to>>
  <2>1. r \in Nat /\ r' \in Nat /\ rank \in [Ids -> Nat]
    BY <1>6, ListFacts DEF SInv, SandboxTypeOK
  <2>2. Spawned' = {} /\ (\A x : Failed(x)' <=> Failed(x)) /\ \A x : Settled(x)' <=> Settled(x)
    BY <1>1, <1>2, <1>3, FrozenList DEF Spawned, Failed, Settled
  <2>3. SandboxTypeOK'
    BY <1>1, <1>2, <1>6, <2>1 DEF SInv, SandboxTypeOK
  <2>4. Stage' /\ Counted' /\ Complete' /\ Ahead'
    BY <1>1, <1>2, <1>3, <1>6, <2>2, FS_EmptySet DEF SInv, Stage, Counted, Complete, Ahead
  <2>5. Placed'
    <3> SUFFICES ASSUME NEW x \in Ids
                 PROVE  /\ status[x] # "SUCCESS" => InList(x) /\ rank[x] <= r + 1
                        /\ rank[x] = r + 1 => status[x] = "SUCCESS"
      BY <1>1, <1>2, <1>4, <1>6 DEF Placed
    <3>1. rank[x] \in Nat /\ (status[x] # "SUCCESS" => InList(x) /\ rank[x] <= r)
      BY <2>1 DEF SInv, Placed
    <3>2. QED
      BY <2>1, <3>1
  <2>6. Judged'
    BY <1>1, <2>2 DEF SInv, Judged
  <2>7. Behind'
    <3> SUFFICES ASSUME NEW x \in Ids, InList(x), rank[x] < r + 1
                 PROVE  Settled(x)
      BY <1>1, <1>2, <1>6, <2>2 DEF Behind
    <3>1. CASE rank[x] < r
      BY <3>1 DEF SInv, Behind
    <3>2. CASE rank[x] = r
      <4>1. PICK i \in DOMAIN objs : objs[i] = x
        BY DEF InList
      <4>2. QED
        BY <1>1, <1>3, <1>6, <3>2, <4>1 DEF SInv, Behind, Passed
    <3>3. QED
      BY <2>1, <3>1, <3>2
  <2>8. QED
    BY <2>3, <2>4, <2>5, <2>6, <2>7 DEF SInv
<1>7. QED
  BY <1>5, <1>6 DEF ReapEnd

(* The steps that give a verdict or start a case.                          *)
LEMMA ScanSkipSInv ==
  ASSUME Base, SInv, UNCHANGED vars, ScanSkip
  PROVE  SInv' /\ VerdictMoves
<1>0. PICK x \in Ids : x = objs[to]
  BY CursorFacts DEF ScanSkip, ScanRun
<1>1. /\ Scanning /\ rank[x] = r /\ DepFailed(x)
      /\ status' = [status EXCEPT ![x] = "SKIPPED"] /\ to' = ListNext(to)
      /\ UNCHANGED <<ran, unstarted, max_parallel, child, nchildren, parallel, r, tptr, g_interrupted, spc>>
  BY <1>0 DEF ScanSkip
<1>2. UNCHANGED <<objs, deps, rank, currank, pc>> /\ \A y : InList(y)' <=> InList(y)
  BY FrozenList
<1>3. /\ pc = "ok" /\ spc = "scan" /\ to \in DOMAIN objs /\ to \in Nat /\ x \in Ids /\ InList(x)
      /\ ListNext(to) \in 0..Len(objs) /\ Len(objs) \in Nat /\ DOMAIN objs = 1..Len(objs)
      /\ (to < Len(objs) /\ ListNext(to) = to + 1) \/ (to = Len(objs) /\ ListNext(to) = 0)
      /\ to # 0
  BY <1>0, <1>1, CursorFacts, ListFacts DEF Scanning
<1>4. SandboxTypeOK'
  BY <1>1, <1>2, <1>3 DEF SInv, SandboxTypeOK, Statuses
<1>5. child[x] = "none" /\ status[x] \in {"SUCCESS", "SKIPPED"}
  BY <1>0, <1>1, <1>3 DEF SInv, Ahead
<1>6. /\ status \in [Ids -> Statuses] /\ status'[x] = "SKIPPED"
      /\ \A y \in Ids : y # x => status'[y] = status[y]
  BY <1>1, <1>3 DEF SInv, SandboxTypeOK
<1>7. VerdictMoves
  <2> SUFFICES ASSUME NEW y \in Ids
               PROVE  status'[y] = status[y] \/ (status[y] = "SUCCESS" /\ rank[y] = r)
    BY DEF VerdictMoves
  <2>1. CASE y = x
    BY <1>1, <1>5, <1>6, <2>1
  <2>2. CASE y # x
    BY <1>6, <2>2
  <2>3. QED
    BY <2>1, <2>2
<1>8. /\ r \in Nat /\ rank \in [Ids -> Nat] /\ SandboxTypeOK
      /\ \A y \in Ids : InList(y) /\ rank[y] <= r => (Failed(y)' <=> Failed(y))
  <2>1. r \in Nat /\ rank \in [Ids -> Nat] /\ SandboxTypeOK
    BY ListFacts DEF SInv, SandboxTypeOK
  <2>2. QED
    BY <1>3, <1>7, <2>1, FailedStays
<1>9. Failed(x) /\ Failed(x)'
  BY <1>1, <1>3, <1>8, DepFacts
<1>10. Spawned' = Spawned
  BY <1>1 DEF Spawned
<1>11. Stage' /\ Counted' /\ Complete'
  BY <1>1, <1>2, <1>3, <1>10 DEF SInv, Stage, Counted, Complete
<1>12. Placed'
  <2> SUFFICES ASSUME NEW y \in Ids
               PROVE  /\ child[y] # "none" => InList(y) /\ rank[y] = r /\ status'[y] = "SUCCESS"
                      /\ status'[y] # "SUCCESS" => InList(y) /\ rank[y] <= r
    BY <1>1, <1>2, <1>3 DEF Placed
  <2>1. CASE y = x
    BY <1>1, <1>3, <1>5, <1>8, <2>1
  <2>2. CASE y # x
    BY <1>6, <2>2 DEF SInv, Placed
  <2>3. QED
    BY <2>1, <2>2
<1>13. Judged'
  <2> SUFFICES ASSUME NEW y \in Ids
               PROVE  /\ status'[y] = "SKIPPED" => Failed(y)'
                      /\ status'[y] \in {"FAILURE", "ABORTED"} \/ child[y] # "none" => ~Failed(y)'
    BY <1>1, <1>2 DEF Judged
  <2>1. CASE y = x
    BY <1>5, <1>6, <1>9, <2>1
  <2>2. CASE y # x /\ (status[y] # "SUCCESS" \/ child[y] # "none")
    <3>1. InList(y) /\ rank[y] <= r
      BY <1>8, <2>2 DEF SInv, Placed
    <3>2. QED
      BY <1>6, <1>8, <2>2, <3>1 DEF SInv, Judged
  <2>3. CASE y # x /\ status[y] = "SUCCESS" /\ child[y] = "none"
    BY <1>6, <2>3
  <2>4. QED
    BY <2>1, <2>2, <2>3
<1>14. Ahead'
  <2> SUFFICES ASSUME NEW i \in DOMAIN objs, rank[objs[i]] = r,
                      (to' # 0 /\ to' <= i) \/ (tptr # 0 /\ tptr <= i)
               PROVE  child[objs[i]] = "none" /\ status'[objs[i]] \in {"SUCCESS", "SKIPPED"}
    BY <1>1, <1>2 DEF Ahead
  <2>1. (to # 0 /\ to <= i) \/ (tptr # 0 /\ tptr <= i)
    BY <1>1, <1>3
  <2>2. child[objs[i]] = "none" /\ status[objs[i]] \in {"SUCCESS", "SKIPPED"} /\ objs[i] \in Ids
    BY <1>3, <2>1, ListFacts DEF SInv, Ahead
  <2>3. QED
    BY <1>6, <2>2
<1>15. ASSUME NEW y \in Ids, InList(y), rank[y] <= r, y # x, Settled(y)
       PROVE  Settled(y)'
  BY <1>1, <1>6, <1>8, <1>15, SettledStays
<1>16. Settled(x)'
  BY <1>6, <1>9 DEF Settled
<1>17. Behind'
  <2>1. ASSUME NEW y \in Ids, InList(y), rank[y] < r
        PROVE  Settled(y)'
    <3>1. rank[y] <= r /\ y # x
      BY <1>1, <1>8, <2>1
    <3>2. QED
      BY <1>15, <2>1, <3>1 DEF SInv, Behind
  <2>2. ASSUME NEW i \in DOMAIN objs, NEW y \in Ids, y = objs[i], rank[y] = r, Passed(i)'
        PROVE  Settled(y)'
    <3>1. InList(y) /\ rank[y] <= r
      BY <1>8, <2>2, ListFacts
    <3>2. CASE y = x
      BY <1>16, <3>2
    <3>3. CASE y # x
      <4>1. i # to
        BY <1>0, <2>2, <3>3
      <4>2. i < to
        BY <1>1, <1>3, <2>2, <4>1 DEF Passed
      <4>3. Settled(y)
        BY <1>3, <2>2, <4>2 DEF SInv, Behind, Passed
      <4>4. QED
        BY <1>15, <3>1, <3>3, <4>3
    <3>4. QED
      BY <3>2, <3>3
  <2>3. QED
    BY <1>1, <1>2, <2>1, <2>2, ListFacts DEF Behind
<1>18. QED
  BY <1>4, <1>7, <1>11, <1>12, <1>13, <1>14, <1>17 DEF SInv

(* A suite that is started, skipped, or cannot be.                         *)
LEMMA ScanRunSInv ==
  ASSUME Base, SInv, UNCHANGED vars, ScanRun
  PROVE  /\ SInv' /\ UNCHANGED status
         /\ \A x \in Ids : child'[x] # child[x] =>
              InList(x) /\ rank[x] = r /\ pc = "ok" /\ ~Failed(x)
<1>0. PICK x \in Ids : x = objs[to]
  BY CursorFacts DEF ScanSkip, ScanRun
<1>1. /\ Scanning /\ rank[x] = r /\ ~DepFailed(x) /\ CaseExec(x) /\ parallel' = parallel + 1
      /\ \/ tptr' = ListNext(to) /\ to' = 0
         \/ tptr' = 0 /\ to' = ListNext(to)
      /\ UNCHANGED <<max_parallel, status, r, g_interrupted, spc>>
  BY <1>0 DEF ScanRun, ResumeAt
<1>2. /\ UNCHANGED <<objs, deps, rank, currank, pc>>
      /\ \A y : InList(y)' <=> InList(y)
      /\ \A y : DepIds(y)' = DepIds(y)
  BY FrozenList
<1>3. /\ pc = "ok" /\ spc = "scan" /\ to \in DOMAIN objs /\ to \in Nat /\ x \in Ids /\ InList(x)
      /\ ListNext(to) \in 0..Len(objs) /\ Len(objs) \in Nat /\ DOMAIN objs = 1..Len(objs)
      /\ (to < Len(objs) /\ ListNext(to) = to + 1) \/ (to = Len(objs) /\ ListNext(to) = 0)
      /\ to # 0
  BY <1>0, <1>1, CursorFacts, ListFacts DEF Scanning
<1>4. /\ status' = status /\ r' = r /\ spc' # "rank"
      /\ \A y : Failed(y)' <=> Failed(y)
  <2>1. status' = status /\ r' = r /\ spc' # "rank"
    BY <1>1, <1>3
  <2>2. QED
    BY <1>2, <2>1 DEF Failed
<1>5. child[x] = "none" /\ status[x] \in {"SUCCESS", "SKIPPED"}
  BY <1>0, <1>1, <1>3 DEF SInv, Ahead
<1>6. ~Failed(x) /\ status[x] = "SUCCESS"
  BY <1>1, <1>3, <1>5, DepFacts DEF SInv, Judged
<1>7. SandboxTypeOK /\ child \in [Ids -> Outcomes \cup {"none", "running"}]
      /\ nchildren \in Nat /\ parallel \in Nat /\ ran \subseteq Ids /\ unstarted \subseteq Ids
  BY DEF SInv, SandboxTypeOK
<1>8. \/ /\ child' = [child EXCEPT ![x] = "running"] /\ nchildren' = nchildren + 1
         /\ ran' = ran \cup {x} /\ UNCHANGED unstarted
      \/ unstarted' = unstarted \cup {x} /\ UNCHANGED <<child, nchildren, ran>>
  BY <1>1 DEF CaseExec
<1>9. /\ child' \in [Ids -> Outcomes \cup {"none", "running"}] /\ nchildren' \in Nat
      /\ ran' \subseteq Ids /\ unstarted' \subseteq Ids /\ parallel' \in Nat
      /\ ran \subseteq ran' /\ unstarted \subseteq unstarted' /\ x \in ran' \cup unstarted'
      /\ \A y \in Ids : y # x => child'[y] = child[y]
  BY <1>1, <1>3, <1>7, <1>8
<1>10. SandboxTypeOK'
  BY <1>1, <1>2, <1>3, <1>9 DEF SInv, SandboxTypeOK
<1>11. Counted'
  <2>1. IsFiniteSet(Spawned) /\ nchildren = Cardinality(Spawned) /\ x \notin Spawned
    BY <1>3, <1>5 DEF SInv, Counted, Spawned
  <2>2. CASE UNCHANGED <<child, nchildren, ran>>
    <3>1. Spawned' = Spawned
      BY <2>2 DEF Spawned
    <3>2. QED
      BY <2>1, <2>2, <3>1 DEF Counted
  <2>3. CASE child' = [child EXCEPT ![x] = "running"] /\ nchildren' = nchildren + 1
    <3>1. Spawned' = Spawned \cup {x}
      BY <1>3, <1>7, <2>3 DEF Spawned
    <3>2. QED
      BY <2>1, <2>3, <3>1, FS_AddElement DEF Counted
  <2>4. QED
    BY <1>8, <2>2, <2>3
<1>12. Stage' /\ Complete'
  BY <1>1, <1>2, <1>3 DEF SInv, Stage, Complete
<1>13. Placed' /\ Judged'
  <2> SUFFICES ASSUME NEW y \in Ids
               PROVE  /\ child'[y] # "none" =>
                           InList(y) /\ rank[y] = r /\ status[y] = "SUCCESS" /\ ~Failed(y)
                      /\ status[y] # "SUCCESS" => InList(y) /\ rank[y] <= r
                      /\ status[y] = "SKIPPED" => Failed(y)
                      /\ status[y] \in {"FAILURE", "ABORTED"} => ~Failed(y)
    BY <1>2, <1>4 DEF Placed, Judged
  <2>1. CASE y = x
    BY <1>1, <1>3, <1>6, <2>1
  <2>2. CASE y # x
    BY <1>9, <2>2 DEF SInv, Placed, Judged
  <2>3. QED
    BY <2>1, <2>2
<1>14. Ahead'
  <2> SUFFICES ASSUME NEW i \in DOMAIN objs, rank[objs[i]] = r,
                      (to' # 0 /\ to' <= i) \/ (tptr' # 0 /\ tptr' <= i)
               PROVE  child'[objs[i]] = "none" /\ status[objs[i]] \in {"SUCCESS", "SKIPPED"}
    BY <1>1, <1>2 DEF Ahead
  <2>1. to < i
    BY <1>1, <1>3
  <2>2. objs[i] # x /\ objs[i] \in Ids
    BY <1>0, <1>3, <2>1, ListFacts
  <2>3. to <= i
    BY <1>3, <2>1
  <2>4. QED
    BY <1>3, <1>9, <2>2, <2>3 DEF SInv, Ahead
<1>15. \A y : Settled(y) => Settled(y)'
  BY <1>4, <1>9, SettledStays
<1>16. Behind'
  <2>1. ASSUME NEW i \in DOMAIN objs, NEW y \in Ids, y = objs[i], rank[y] = r, Passed(i)'
        PROVE  Settled(y)'
    <3>1. CASE i = to
      BY <1>0, <1>4, <1>6, <1>9, <2>1, <3>1 DEF Settled
    <3>2. CASE i # to
      <4>1. i < to
        BY <1>1, <1>3, <2>1, <3>2 DEF Passed
      <4>2. Settled(y)
        BY <1>3, <2>1, <4>1 DEF SInv, Behind, Passed
      <4>3. QED
        BY <1>15, <4>2
    <3>3. QED
      BY <3>1, <3>2
  <2>2. ASSUME NEW y \in Ids, InList(y), rank[y] < r
        PROVE  Settled(y)'
    BY <1>15, <2>2 DEF SInv, Behind
  <2>3. QED
    BY <1>1, <1>2, <1>4, <2>1, <2>2, ListFacts DEF Behind
<1>17. QED
  BY <1>1, <1>3, <1>6, <1>9, <1>10, <1>11, <1>12, <1>13, <1>14, <1>16 DEF SInv

(* A child that is reaped.                                                 *)
LEMMA ReapSInv ==
  ASSUME Base, SInv, UNCHANGED vars, NEW x \in Ids, Reap(x)
  PROVE  SInv' /\ VerdictMoves
<1>1. /\ spc = "reap" /\ nchildren > 0 /\ child[x] \in Outcomes
      /\ child' = [child EXCEPT ![x] = "none"]
      /\ status' = [status EXCEPT ![x] = child[x]]
      /\ nchildren' = nchildren - 1
      /\ UNCHANGED <<ran, unstarted, max_parallel, parallel, r, to, tptr, g_interrupted, spc>>
  BY DEF Reap
<1>2. /\ UNCHANGED <<objs, deps, rank, currank, pc>>
      /\ \A y : InList(y)' <=> InList(y)
  BY FrozenList
<1>3. pc = "ok" /\ child[x] # "none"
  BY <1>1 DEF SInv, Stage, Outcomes
<1>4. InList(x) /\ rank[x] = r /\ status[x] = "SUCCESS" /\ ~Failed(x)
  BY <1>3 DEF SInv, Placed, Judged
<1>5. /\ status \in [Ids -> Statuses] /\ child \in [Ids -> Outcomes \cup {"none", "running"}]
      /\ status'[x] = child[x] /\ child'[x] = "none"
      /\ \A y \in Ids : y # x => status'[y] = status[y] /\ child'[y] = child[y]
      /\ SandboxTypeOK /\ r \in Nat /\ rank \in [Ids -> Nat]
  BY <1>1, ListFacts DEF SInv, SandboxTypeOK
<1>6. VerdictMoves
  <2> SUFFICES ASSUME NEW y \in Ids
               PROVE  status'[y] = status[y] \/ (status[y] = "SUCCESS" /\ rank[y] = r)
    BY DEF VerdictMoves
  <2>1. QED
    BY <1>4, <1>5
<1>7. \A y \in Ids : InList(y) /\ rank[y] <= r => (Failed(y)' <=> Failed(y))
  BY <1>3, <1>5, <1>6, FailedStays
<1>8. Spawned' = Spawned \ {x} /\ x \in Spawned
  BY <1>3, <1>5 DEF Spawned
<1>9. Counted' /\ nchildren' \in Nat
  <2>1. IsFiniteSet(Spawned) /\ nchildren = Cardinality(Spawned) /\ nchildren \in Nat
    BY <1>1, <1>5 DEF SInv, Counted, SandboxTypeOK
  <2>2. IsFiniteSet(Spawned') /\ nchildren' = Cardinality(Spawned')
    BY <1>1, <1>8, <2>1, FS_RemoveElement
  <2>3. QED
    BY <1>1, <2>1, <2>2 DEF Counted
<1>10. SandboxTypeOK'
  BY <1>1, <1>2, <1>5, <1>9 DEF SandboxTypeOK, Statuses
<1>11. Stage' /\ Complete'
  BY <1>1, <1>2 DEF SInv, Stage, Complete
<1>12. Placed'
  <2> SUFFICES ASSUME NEW y \in Ids
               PROVE  /\ child'[y] # "none" => InList(y) /\ rank[y] = r /\ status'[y] = "SUCCESS"
                      /\ status'[y] # "SUCCESS" => InList(y) /\ rank[y] <= r
    BY <1>1, <1>2 DEF Placed
  <2>1. CASE y = x
    BY <1>4, <1>5, <2>1
  <2>2. CASE y # x
    BY <1>5, <2>2 DEF SInv, Placed
  <2>3. QED
    BY <2>1, <2>2
<1>13. Judged'
  <2> SUFFICES ASSUME NEW y \in Ids, status'[y] # "SUCCESS" \/ child'[y] # "none"
               PROVE  /\ status'[y] = "SKIPPED" => Failed(y)'
                      /\ status'[y] \in {"FAILURE", "ABORTED"} \/ child'[y] # "none" => ~Failed(y)'
    BY DEF Judged
  <2>1. CASE y = x
    BY <1>1, <1>4, <1>5, <1>7, <2>1 DEF Outcomes
  <2>2. CASE y # x
    <3>1. status'[y] = status[y] /\ child'[y] = child[y]
      BY <1>5, <2>2
    <3>2. InList(y) /\ rank[y] <= r
      BY <1>5, <3>1 DEF SInv, Placed
    <3>3. QED
      BY <1>7, <3>1, <3>2 DEF SInv, Judged
  <2>3. QED
    BY <2>1, <2>2
<1>14. \A i \in DOMAIN objs : rank[objs[i]] = r /\ tptr # 0 /\ tptr <= i => objs[i] # x
  BY <1>1, <1>3 DEF SInv, Ahead
<1>15. Ahead'
  <2> SUFFICES ASSUME NEW i \in DOMAIN objs, NEW y \in Ids, y = objs[i], rank[y] = r,
                      (to # 0 /\ to <= i) \/ (tptr # 0 /\ tptr <= i)
               PROVE  child'[y] = "none" /\ status'[y] \in {"SUCCESS", "SKIPPED"}
    BY <1>1, <1>2, ListFacts DEF Ahead
  <2>1. to = 0
    BY <1>1 DEF SInv, Stage
  <2>2. y # x
    BY <1>14, <2>1
  <2>3. QED
    BY <1>1, <1>5, <2>2 DEF SInv, Ahead
<1>16. ASSUME NEW y \in Ids, InList(y), rank[y] <= r, Settled(y)
       PROVE  Settled(y)'
  BY <1>1, <1>4, <1>5, <1>7, <1>16, SettledStays
<1>17. Behind'
  <2>1. ASSUME NEW y \in Ids, InList(y), rank[y] < r
        PROVE  Settled(y)'
    <3>1. rank[y] <= r
      BY <1>5, <2>1
    <3>2. QED
      BY <1>16, <2>1, <3>1 DEF SInv, Behind
  <2>2. ASSUME NEW i \in DOMAIN objs, NEW y \in Ids, y = objs[i], rank[y] = r, Passed(i)'
        PROVE  Settled(y)'
    <3>1. rank[y] <= r /\ InList(y) /\ Passed(i)
      BY <1>1, <1>5, <2>2, ListFacts DEF Passed
    <3>2. QED
      BY <1>1, <1>16, <2>2, <3>1 DEF SInv, Behind
  <2>3. QED
    BY <1>1, <1>2, <2>1, <2>2, ListFacts DEF Behind
<1>18. QED
  BY <1>6, <1>9, <1>10, <1>11, <1>12, <1>13, <1>15, <1>17 DEF SInv

(* The end of a suite, a signal, and a child that ends.                    *)
LEMMA SuiteEndSInv ==
  ASSUME Base, SInv, UNCHANGED vars, SuiteEnd
  PROVE  SInv'
<1>1. /\ spc = "suite"
      /\ \/ g_interrupted /\ spc' = "exit" /\ child' = [x \in Ids |-> "none"]
         \/ ~g_interrupted /\ spc' = "done" /\ UNCHANGED child
      /\ UNCHANGED <<ran, unstarted, max_parallel, status, nchildren, parallel, r, to, tptr, g_interrupted>>
  BY DEF SuiteEnd, Killed
<1>2. /\ UNCHANGED <<objs, deps, rank, currank, pc>>
      /\ \A x : InList(x)' <=> InList(x)
      /\ \A x : DepIds(x)' = DepIds(x)
  BY FrozenList
<1>3. (\A x : Failed(x)' <=> Failed(x)) /\ \A x : Settled(x)' <=> Settled(x)
  BY <1>1, <1>2 DEF Failed, Settled
<1>4. \A x \in Ids : child'[x] = "none"
  BY <1>1 DEF SInv, Complete, Spawned
<1>5. Spawned' = {} /\ (spc' = "done" => Spawned = {})
  BY <1>1, <1>4 DEF Spawned, SInv, Complete
<1>6. SandboxTypeOK'
  BY <1>1, <1>2 DEF SInv, SandboxTypeOK
<1>7. Stage' /\ Counted' /\ Complete'
  BY <1>1, <1>2, <1>5 DEF SInv, Stage, Counted, Complete
<1>8. Placed' /\ Judged' /\ Ahead'
  BY <1>1, <1>2, <1>3, <1>4 DEF SInv, Placed, Judged, Ahead
<1>9. Behind'
  BY <1>1, <1>2, <1>3 DEF SInv, Behind
<1>10. QED
  BY <1>6, <1>7, <1>8, <1>9 DEF SInv

(* An interrupt.                                                           *)
LEMMA SignalSInv ==
  ASSUME Base, SInv, UNCHANGED vars, Interrupt \/ ReapInterrupted
  PROVE  SInv'
<1>1. /\ g_interrupted' = TRUE /\ spc \notin {"idle", "done", "exit"}
      /\ spc' = spc \/ (spc = "reap" /\ spc' = "suite")
      /\ UNCHANGED <<ran, unstarted, max_parallel, status, child, nchildren, parallel, r, to, tptr>>
  BY DEF Interrupt, ReapInterrupted
<1>2. /\ UNCHANGED <<objs, deps, rank, currank, pc>>
      /\ \A x : InList(x)' <=> InList(x)
  BY FrozenList
<1>3. Spawned' = Spawned /\ Judged' /\ Placed' /\ \A x : Failed(x)' <=> Failed(x)
  BY <1>1, QuietStep
<1>4. SandboxTypeOK' /\ Stage' /\ Counted' /\ Complete' /\ Ahead'
  BY <1>1, <1>2, <1>3 DEF SInv, SandboxTypeOK, Stage, Counted, Complete, Ahead
<1>5. Behind'
  BY <1>1, <1>2, <1>3, QuietStep DEF SInv, Behind, Passed
<1>6. QED
  BY <1>3, <1>4, <1>5 DEF SInv

(* A child that ends by itself.                                            *)
LEMMA ChildEndsSInv ==
  ASSUME Base, SInv, UNCHANGED vars, NEW x \in Ids, ChildEnds(x)
  PROVE  SInv'
<1>1. /\ child[x] = "running" /\ spc \notin {"done", "exit"}
      /\ \E o \in Outcomes : child' = [child EXCEPT ![x] = o]
      /\ UNCHANGED <<ran, unstarted, max_parallel, status, nchildren, parallel, r, to, tptr, g_interrupted, spc>>
  BY DEF ChildEnds
<1>2. /\ UNCHANGED <<objs, deps, rank, currank, pc>>
      /\ \A y : InList(y)' <=> InList(y)
      /\ \A y : DepIds(y)' = DepIds(y)
  BY FrozenList
<1>3. (\A y : Failed(y)' <=> Failed(y)) /\ \A y : Settled(y)' <=> Settled(y)
  BY <1>1, <1>2 DEF Failed, Settled
<1>4. /\ child' \in [Ids -> Outcomes \cup {"none", "running"}]
      /\ \A y \in Ids : child'[y] = "none" <=> child[y] = "none"
  BY <1>1 DEF SInv, SandboxTypeOK, Outcomes
<1>5. Spawned' = Spawned
  BY <1>4 DEF Spawned
<1>6. SandboxTypeOK' /\ Stage' /\ Counted' /\ Complete'
  BY <1>1, <1>2, <1>4, <1>5 DEF SInv, SandboxTypeOK, Stage, Counted, Complete
<1>7. Placed' /\ Judged'
  BY <1>1, <1>2, <1>3, <1>4 DEF SInv, Placed, Judged
<1>8. Ahead'
  BY <1>1, <1>2, <1>4, ListFacts DEF SInv, Ahead
<1>9. Behind'
  BY <1>1, <1>2, <1>3, ListFacts DEF SInv, Behind, Passed
<1>10. QED
  BY <1>6, <1>7, <1>8, <1>9 DEF SInv

(* While cases are registered and sequenced the scheduler has not begun.   *)
LEMMA SequencerSInv ==
  ASSUME SInv, Next, UNCHANGED svars, IInv'
  PROVE  SInv'
<1>1. /\ spc = "idle" /\ UNCHANGED <<max_parallel, status, child, nchildren, parallel, r, to,
                                      tptr, g_interrupted, ran, unstarted, spc>>
  BY DEF svars, SInv, Stage, Next, Register, Add, DepRegister, DependsOn, Start, Sequencer,
         Sequence, Finish
<1>2. r = 0 /\ to = 0 /\ tptr = 0 /\ \A x \in Ids : status[x] = "SUCCESS" /\ child[x] = "none"
  BY <1>1 DEF SInv, Stage
<1>3. Spawned' = Spawned
  BY <1>1 DEF Spawned
<1>4. rank' \in [Ids -> Nat] /\ objs' \in Seq(Ids)
  BY DEF IInv, TypeOK
<1>5. to' \in 0..Len(objs') /\ tptr' \in 0..Len(objs')
  BY <1>1, <1>2, <1>4
<1>6. SandboxTypeOK' /\ Stage' /\ Complete' /\ Counted'
  BY <1>1, <1>2, <1>3, <1>5 DEF SInv, SandboxTypeOK, Stage, Complete, Counted
<1>7. Placed' /\ Judged' /\ Ahead'
  BY <1>1, <1>2 DEF Placed, Judged, Ahead
<1>8. Behind'
  BY <1>1, <1>2, <1>4 DEF Behind
<1>9. QED
  BY <1>6, <1>7, <1>8 DEF SInv

(* Nothing runs at first.                                                  *)
LEMMA InitSInv == SandboxInit => SInv
<1> SUFFICES ASSUME SandboxInit
             PROVE  SInv
  OBVIOUS
<1>1. /\ objs = <<>> /\ status = [x \in Ids |-> "SUCCESS"] /\ child = [x \in Ids |-> "none"]
      /\ nchildren = 0 /\ parallel = 0 /\ r = 0 /\ to = 0 /\ tptr = 0 /\ g_interrupted = FALSE
      /\ ran = {} /\ unstarted = {} /\ spc = "idle" /\ max_parallel \in Parallelism
      /\ rank = [x \in Ids |-> 0]
  BY DEF SandboxInit, SchedInit, Init
<1>2. Spawned = {}
  BY <1>1 DEF Spawned
<1>3. SandboxTypeOK
  <2>1. Len(objs) = 0
    BY <1>1
  <2>2. to \in 0..Len(objs) /\ tptr \in 0..Len(objs)
    BY <1>1, <2>1
  <2>3. /\ status \in [Ids -> Statuses]
        /\ child \in [Ids -> Outcomes \cup {"none", "running"}]
    BY <1>1 DEF Statuses, Outcomes
  <2>4. QED
    BY <1>1, <2>2, <2>3 DEF SandboxTypeOK
<1>4. Stage /\ Complete /\ Counted
  BY <1>1, <1>2, FS_EmptySet DEF Stage, Complete, Counted
<1>5. Placed /\ Judged /\ Ahead /\ Behind
  BY <1>1 DEF Placed, Judged, Ahead, Behind
<1>6. QED
  BY <1>3, <1>4, <1>5 DEF SInv

(* Every step keeps the invariant.                                         *)
LEMMA NextSInv == Base /\ Base' /\ SInv /\ [SandboxNext]_allvars => SInv'
<1> SUFFICES ASSUME Base, Base', SInv, [SandboxNext]_allvars
             PROVE  SInv'
  OBVIOUS
<1>1. CASE Next /\ UNCHANGED svars
  BY <1>1, SequencerSInv DEF Base
<1>2. CASE SandboxStep /\ UNCHANGED vars
  <2>1. CASE Scheduler
    BY <1>2, <2>1, StartSInv, RankLoopSInv, ScanOtherSInv, ScanSkipSInv, ScanRunSInv,
       ScanEndSInv, ReapSInv, ReapEndSInv, SuiteEndSInv DEF Scheduler
  <2>2. CASE ReapInterrupted \/ Interrupt
    BY <1>2, <2>2, SignalSInv
  <2>3. CASE \E x \in Ids : ChildEnds(x)
    BY <1>2, <2>3, ChildEndsSInv
  <2>4. QED
    BY <1>2, <2>1, <2>2, <2>3 DEF SandboxStep
<1>3. CASE UNCHANGED allvars
  <2>1. /\ UNCHANGED <<objs, deps, rank, currank, pc>>
        /\ UNCHANGED <<max_parallel, status, child, nchildren, parallel, r, to, tptr,
                       g_interrupted, ran, unstarted, spc>>
    BY <1>3 DEF allvars, vars, svars
  <2>2. \A x : InList(x)' <=> InList(x)
    BY <2>1 DEF InList
  <2>3. UNCHANGED vars
    BY <1>3 DEF allvars
  <2>4. (\A x : Failed(x)' <=> Failed(x)) /\ \A x : Settled(x)' <=> Settled(x)
    BY <2>1, <2>3, FrozenList DEF Failed, Settled
  <2>5. Spawned' = Spawned
    BY <2>1 DEF Spawned
  <2>6. SandboxTypeOK' /\ Stage' /\ Complete' /\ Counted'
    BY <2>1, <2>2, <2>5 DEF SInv, SandboxTypeOK, Stage, Complete, Counted
  <2>7. Placed' /\ Judged' /\ Ahead'
    BY <2>1, <2>2, <2>4 DEF SInv, Placed, Judged, Ahead
  <2>8. Behind'
    BY <2>1, <2>2, <2>4 DEF SInv, Behind, Passed
  <2>9. QED
    BY <2>6, <2>7, <2>8 DEF SInv
<1>4. QED
  BY <1>1, <1>2, <1>3 DEF SandboxNext

(* So it always holds.                                                     *)
LEMMA SpecSInv == SandboxSpec => [](Base /\ SInv)
<1>1. SandboxInit => SInv
  BY InitSInv
<1>2. Base /\ Base' /\ SInv /\ [SandboxNext]_allvars => SInv'
  BY NextSInv
<1>3. QED
  BY <1>1, <1>2, SandboxBase, PTL DEF SandboxSpec

-----------------------------------------------------------------------------
(* The variables of u_test_obj_scheduler and of u_test_cases_reap keep     *)
(* their types: in particular the cursor and the point of restart are      *)
(* always positions of the list, or NULL.                                  *)
THEOREM SchedulerTyped == SandboxSpec => []SandboxTypeOK
<1>1. SInv => SandboxTypeOK
  BY DEF SInv
<1>2. QED
  BY <1>1, SpecSInv, PTL

(* The counter that ends the loop of u_test_cases_reap is the number of    *)
(* live children, whatever fork and signals do, and the children that run  *)
(* side by side are of one rank.                                           *)
THEOREM ReaperCounts == SandboxSpec => []ChildrenCounted
<1>1. SInv => ChildrenCounted
  BY DEF SInv, Counted, Placed, ChildrenCounted, Spawned
<1>2. QED
  BY <1>1, SpecSInv, PTL

(* u_test_obj_scheduler ends having collected every child, and has skipped *)
(* exactly the cases that had to be and given all others their turn,       *)
(* unless it was interrupted, and then u_test_bail_out collects every      *)
(* child.                                                                  *)
THEOREM VerdictsExact == SandboxSpec => []Verdicts
<1>1. Base /\ SInv => Verdicts
  <2> SUFFICES ASSUME Base, SInv
               PROVE  Verdicts
    OBVIOUS
  <2>1. spc \in {"done", "exit"} => Spawned = {}
    BY DEF SInv, Stage
  <2>2. ASSUME spc = "done", NEW x \in Ids, InList(x)
        PROVE  IF Failed(x) THEN status[x] = "SKIPPED"
               ELSE status[x] # "SKIPPED" /\ x \in ran \cup unstarted
    BY <2>2 DEF SInv, Complete, Judged, Behind, Settled
  <2>3. QED
    BY <2>1, <2>2 DEF Verdicts, Spawned, Failed
<1>2. QED
  BY <1>1, SpecSInv, PTL

(* When u_test_obj_scheduler starts a case, each case that it depends on   *)
(* has had its turn and stands as succeeded: it was run and collected, or  *)
(* could not be started.  A verdict other than success is final.           *)
THEOREM DepsBeforeStart == SandboxSpec => StartsAfterDeps
<1> DEFINE A == \A x \in Ids :
       /\ child[x] = "none" /\ child'[x] = "running" =>
            \A d \in DepIds(x) :
              /\ d \in ran \/ d \in unstarted
              /\ child[d] = "none" /\ status[d] = "SUCCESS" /\ rank[d] < r
       /\ spc # "idle" /\ status[x] # "SUCCESS" => status'[x] = status[x]
<1>1. Base /\ SInv /\ [SandboxNext]_allvars => [A]_allvars
  <2> SUFFICES ASSUME Base, SInv, SandboxNext, NEW x \in Ids
               PROVE  /\ child[x] = "none" /\ child'[x] = "running" =>
                           \A d \in DepIds(x) :
                             /\ d \in ran \/ d \in unstarted
                             /\ child[d] = "none" /\ status[d] = "SUCCESS" /\ rank[d] < r
                      /\ spc # "idle" /\ status[x] # "SUCCESS" => status'[x] = status[x]
    BY DEF A
  <2>1. CASE ScanRun /\ UNCHANGED vars
    <3>1. /\ UNCHANGED status
          /\ child'[x] # child[x] => InList(x) /\ rank[x] = r /\ pc = "ok" /\ ~Failed(x)
      BY <2>1, ScanRunSInv
    <3>2. ASSUME child'[x] # child[x], NEW d \in DepIds(x)
          PROVE  /\ d \in ran \/ d \in unstarted
                 /\ child[d] = "none" /\ status[d] = "SUCCESS" /\ rank[d] < r
      <4>1. d \in Ids /\ InList(d) /\ rank[d] < rank[x] /\ status[d] = "SUCCESS" /\ rank[x] = r
        BY <3>1, <3>2, DepFacts DEF Failed
      <4>2. rank[d] \in Nat /\ r \in Nat
        BY <4>1, ListFacts DEF SInv, SandboxTypeOK
      <4>3. Settled(d)
        BY <4>1, <4>2 DEF SInv, Behind
      <4>4. QED
        BY <4>1, <4>2, <4>3 DEF SInv, Placed, Settled
    <3>3. QED
      BY <3>1, <3>2
  <2>2. CASE (ScanSkip \/ \E y \in Ids : Reap(y)) /\ UNCHANGED vars
    <3>1. VerdictMoves
      BY <2>2, ScanSkipSInv, ReapSInv
    <3>2. child'[x] # "running" \/ child'[x] = child[x]
      BY <2>2 DEF ScanSkip, Reap, SInv, SandboxTypeOK
    <3>3. QED
      BY <3>1, <3>2 DEF VerdictMoves
  <2>3. CASE (\E y \in Ids : ChildEnds(y)) /\ UNCHANGED vars
    BY <2>3 DEF ChildEnds, Outcomes, SInv, SandboxTypeOK
  <2>4. CASE SuiteEnd /\ UNCHANGED vars
    BY <2>4 DEF SuiteEnd, Killed
  <2>5. CASE UNCHANGED <<status, child>>
    BY <2>5
  <2>6. QED
    BY <2>1, <2>2, <2>3, <2>4, <2>5
       DEF SandboxNext, svars, SandboxStep, Scheduler, SchedStart, RankLoop, ScanOther, ScanEnd,
           ReapEnd, ReapInterrupted, Interrupt
<1>2. QED
  BY <1>1, SpecSInv, PTL DEF SandboxSpec, StartsAfterDeps
=============================================================================
