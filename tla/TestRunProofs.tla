--------------------------- MODULE TestRunProofs ---------------------------
(***************************************************************************)
(* A whole test run, for every set of suites and of cases, whatever the    *)
(* verdicts of the cases and whenever a signal arrives.  The list, the     *)
(* ranks and the dependencies are those of TestSequencer, whose theorems   *)
(* are used here.                                                          *)
(***************************************************************************)
EXTENDS TestRun, TestSequencerProofs

(* Some suite that s depends on did not succeed.                           *)
Failed(s) == \E d \in DepIds(s) : status[d] # "SUCCESS"

Running == rpc \in {"rank", "scan", "suite", "report"}

(* The types of the variables of u_test_run, those of the sequencer aside. *)
OwnTypes ==
  /\ status \in [Ids -> {"SUCCESS", "FAILURE", "SKIPPED"}]
  /\ cstatus \in [Cases -> Returned]
  /\ todo \subseteq Cases /\ executed \subseteq Cases
  /\ r \in Nat /\ to \in 0..Len(objs)
  /\ g_interrupted \in BOOLEAN
  /\ ret \in {NULL, 0, 1}
  /\ rpc \in {"idle", "rank", "scan", "suite", "report", "end"}

(* Nothing of this suite has happened yet.                                 *)
Unstarted(s) ==
  /\ status[s] = "SUCCESS"
  /\ \A c \in CasesOf(s) : cstatus[c] = "SUCCESS" /\ c \notin executed

(* The suite was skipped with all its cases, or all its cases were run and *)
(* its verdict sums up theirs.                                             *)
Settled(s) ==
  IF Failed(s)
  THEN status[s] = "SKIPPED" /\ \A c \in CasesOf(s) : cstatus[c] = "SKIPPED" /\ c \notin executed
  ELSE /\ CasesOf(s) \ NoFunc \subseteq executed
       /\ status[s] = "SUCCESS" => \A c \in CasesOf(s) : cstatus[c] = "SUCCESS"

(* The suites that the two loops of u_test_obj_scheduler have gone past.   *)
Past(i) ==
  \/ rank[objs[i]] < r
  \/ rank[objs[i]] = r /\ rpc \in {"scan", "suite"} /\ (to = 0 \/ i < to)

(* What the control state says by itself.                                  *)
Stage ==
  /\ rpc # "idle" => pc \in {"ok", "loop"}
  /\ Running \/ (rpc = "end" /\ ret = 0) => pc = "ok"
  /\ rpc = "idle" => r = 0 /\ to = 0 /\ executed = {} /\ \A s \in Ids : Unstarted(s)
  /\ rpc \in {"rank", "report"} => to = 0
  /\ rpc \in {"scan", "suite"} => objs # <<>>
  /\ rpc = "report" /\ ~g_interrupted => \A i \in DOMAIN objs : rank[objs[i]] < r

(* The suite whose cases are being run.                                    *)
Current ==
  rpc = "suite" =>
    /\ to # 0 /\ rank[objs[to]] = r
    /\ status[objs[to]] = "SUCCESS" /\ ~Failed(objs[to])
    /\ todo \subseteq CasesOf(objs[to])
    /\ \A c \in todo : cstatus[c] = "SUCCESS" /\ c \notin executed
    /\ ~g_interrupted => (CasesOf(objs[to]) \ todo) \ NoFunc \subseteq executed

Progress ==
  Running => \A i \in DOMAIN objs :
    IF Past(i) THEN Settled(objs[i]) ELSE Unstarted(objs[i]) \/ (rpc = "suite" /\ i = to)

(* A case that was run is of a suite that the loop over ranks has reached.  *)
Entered == \A c \in executed : InList(SuiteOf[c]) /\ rank[SuiteOf[c]] <= r

RInv == /\ OwnTypes /\ Stage /\ Current /\ Progress /\ Entered
        /\ SuiteOrder /\ ZeroMeansSuccess

-----------------------------------------------------------------------------
(* A run does not touch the list of suites.                                *)
LEMMA RunBase == RunSpec => []Base
<1>1. RunInit => Init
  BY DEF RunInit
<1>2. [RunNext]_allvars => [Next]_vars
  BY DEF RunNext, allvars
<1>3. RunSpec => Spec
  BY <1>1, <1>2, PTL DEF RunSpec, Spec
<1>4. QED
  BY <1>3, SpecBase, PTL

(* u_test_dep_failed, which follows upref, finds the dependencies that     *)
(* failed.                                                                 *)
LEMMA DepFailedIs ==
  ASSUME Base, pc = "ok", NEW s \in Ids, InList(s)
  PROVE  DepFailed(s) <=> Failed(s)
BY DepsListed DEF DepIds, DepFailed, Failed

(* What a suite depends on is of lower rank: its verdict is settled before *)
(* the suite is looked at.                                                 *)
LEMMA FailedStays ==
  ASSUME Base, OwnTypes, pc = "ok", UNCHANGED vars,
         \A x \in Ids : status'[x] = status[x] \/ rank[x] = r,
         NEW s \in Ids, InList(s), rank[s] <= r
  PROVE  Failed(s)' <=> Failed(s)
<1>1. rank \in [Ids -> Nat] /\ r \in Nat
  BY ListFacts DEF OwnTypes
<1>2. \A d \in DepIds(s) : status'[d] = status[d]
  <2> SUFFICES ASSUME NEW d \in DepIds(s)
               PROVE  status'[d] = status[d]
    OBVIOUS
  <2>1. d \in Ids /\ rank[d] < rank[s]
    BY DepsListed
  <2>2. rank[d] \in Nat /\ rank[s] \in Nat /\ rank[d] # r
    BY <1>1, <2>1
  <2>3. QED
    BY <2>1, <2>2
<1>3. QED
  BY <1>2, FrozenList DEF Failed

(* A step that leaves a suite and its cases alone.                         *)
LEMMA LeftAlone ==
  ASSUME NEW s, status'[s] = status[s],
         \A c \in CasesOf(s) : cstatus'[c] = cstatus[c] /\ (c \in executed' <=> c \in executed)
  PROVE  /\ Unstarted(s)' <=> Unstarted(s)
         /\ (Failed(s)' <=> Failed(s)) => (Settled(s)' <=> Settled(s))
BY DEF Unstarted, Settled, CasesOf

(* The steps that move the control and leave suites and cases alone.       *)
LEMMA QuietStep ==
  ASSUME Base, RInv, UNCHANGED vars, UNCHANGED <<status, cstatus, executed>>
  PROVE  /\ \A s : Failed(s)' <=> Failed(s)
         /\ \A s : Unstarted(s)' <=> Unstarted(s)
         /\ \A s : Settled(s)' <=> Settled(s)
         /\ SuiteOrder'
         /\ r' = r \/ r' = r + 1 => Entered'
<1>1. UNCHANGED rank /\ (\A s : DepIds(s)' = DepIds(s)) /\ \A s : InList(s)' <=> InList(s)
  BY FrozenList
<1>2. \A s : Failed(s)' <=> Failed(s)
  BY <1>1 DEF Failed
<1>3. SuiteOrder'
  BY <1>1 DEF RInv, SuiteOrder
<1>4. ASSUME r' = r \/ r' = r + 1, NEW c \in executed
      PROVE  InList(SuiteOf[c]) /\ rank[SuiteOf[c]] <= r'
  <2>1. SuiteOf[c] \in Ids /\ r \in Nat /\ rank[SuiteOf[c]] \in Nat
    BY ListFacts, RunAssumption DEF RInv, OwnTypes
  <2>2. QED
    BY <1>4, <2>1 DEF RInv, Entered
<1>5. r' = r \/ r' = r + 1 => Entered'
  BY <1>1, <1>4 DEF Entered
<1>6. QED
  BY <1>2, <1>3, <1>5, LeftAlone

(* The cursor is on a suite of the list.                                   *)
LEMMA CursorFacts ==
  ASSUME Base, RInv, rpc \in {"scan", "suite"}, to # 0
  PROVE  /\ pc = "ok"
         /\ to \in DOMAIN objs /\ to \in Nat /\ objs[to] \in Ids /\ InList(objs[to])
         /\ ListNext(to) \in 0..Len(objs)
         /\ \A i \in DOMAIN objs : ListNext(to) = 0 \/ i < ListNext(to) <=> i <= to
<1>1. pc = "ok" /\ to \in 0..Len(objs) /\ Len(objs) \in Nat /\ DOMAIN objs = 1..Len(objs)
  BY ListFacts DEF RInv, Stage, Running, OwnTypes
<1>2. to \in DOMAIN objs /\ to \in Nat
  BY <1>1
<1>3. objs[to] \in Ids /\ InList(objs[to])
  BY <1>2, ListFacts
<1>4. QED
  BY <1>1, <1>2, <1>3 DEF ListNext

-----------------------------------------------------------------------------
(* The start of a run, and a dependency loop that ends it.                 *)
LEMMA StartRInv ==
  ASSUME Base, RInv, UNCHANGED vars, RunStart
  PROVE  RInv'
<1>1. /\ rpc = "idle" /\ pc \in {"ok", "loop"}
      /\ \/ pc = "ok" /\ rpc' = "rank" /\ UNCHANGED ret
         \/ pc = "loop" /\ rpc' = "end" /\ ret' = 1
      /\ UNCHANGED <<status, cstatus, todo, executed, r, to, g_interrupted>>
  BY DEF RunStart
<1>2. UNCHANGED <<objs, deps, rank, currank, pc>> /\ \A x : InList(x)' <=> InList(x)
  BY FrozenList
<1>3. OwnTypes' /\ Current'
  BY <1>1, <1>2 DEF RInv, OwnTypes, Current
<1>4. r = 0 /\ to = 0 /\ \A s \in Ids : Unstarted(s)
  BY <1>1 DEF RInv, Stage
<1>5. Stage'
  BY <1>1, <1>2, <1>4 DEF Stage, Running
<1>6. Progress'
  BY <1>1, <1>2, <1>4, QuietStep, ListFacts DEF Progress, Past, Running
<1>7. ZeroMeansSuccess'
  BY <1>1 DEF ZeroMeansSuccess
<1>8. QED
  BY <1>1, <1>3, <1>5, <1>6, <1>7, QuietStep DEF RInv

(* The loop over ranks.                                                    *)
LEMMA RankLoopRInv ==
  ASSUME Base, RInv, UNCHANGED vars, RankLoop
  PROVE  RInv'
<1>1. /\ rpc = "rank"
      /\ \/ RanksLeft /\ rpc' = "scan" /\ to' = 1
         \/ ~RanksLeft /\ rpc' = "report" /\ UNCHANGED to
      /\ UNCHANGED <<status, cstatus, todo, executed, r, g_interrupted, ret>>
  BY DEF RankLoop
<1>2. UNCHANGED <<objs, deps, rank, currank, pc>> /\ \A x : InList(x)' <=> InList(x)
  BY FrozenList
<1>3. pc = "ok" /\ to = 0
  BY <1>1 DEF RInv, Stage, Running
<1>4. to' \in 0..Len(objs)
  BY <1>1, <1>3, ListFacts DEF RanksLeft
<1>5. OwnTypes'
  BY <1>1, <1>2, <1>4 DEF RInv, OwnTypes
<1>6. ASSUME rpc' = "report", ~g_interrupted, NEW i \in DOMAIN objs
      PROVE  rank[objs[i]] < r
  <2>1. ~(r <= currank)
    BY <1>1, <1>6, ListFacts DEF RanksLeft
  <2>2. objs[i] \in Ids /\ InList(objs[i]) /\ rank[objs[i]] \in Nat /\ currank \in Nat /\ r \in Nat
    BY <1>6, ListFacts DEF RInv, OwnTypes
  <2>3. rank[objs[i]] <= currank
    BY <1>3, <2>2 DEF Base, RankCovered
  <2>4. QED
    BY <2>1, <2>2, <2>3
<1>7. Stage'
  BY <1>1, <1>2, <1>3, <1>6 DEF RInv, Stage, Running, RanksLeft
<1>8. Current' /\ ZeroMeansSuccess'
  BY <1>1 DEF Current, ZeroMeansSuccess
<1>9. \A i \in DOMAIN objs : Past(i)' <=> Past(i)
  BY <1>1, <1>2, ListFacts DEF Past
<1>10. Progress'
  BY <1>1, <1>2, <1>9, QuietStep DEF RInv, Progress, Running
<1>11. QED
  BY <1>1, <1>5, <1>7, <1>8, <1>10, QuietStep DEF RInv

(* A suite of another rank.                                                *)
LEMMA SuiteOtherRInv ==
  ASSUME Base, RInv, UNCHANGED vars, SuiteOther
  PROVE  RInv'
<1>1. /\ rpc = "scan" /\ to # 0 /\ rank[objs[to]] # r /\ to' = ListNext(to)
      /\ UNCHANGED <<status, cstatus, todo, executed, r, g_interrupted, ret, rpc>>
  BY DEF SuiteOther
<1>2. UNCHANGED <<objs, deps, rank, currank, pc>> /\ \A x : InList(x)' <=> InList(x)
  BY FrozenList
<1>3. OwnTypes'
  BY <1>1, <1>2, CursorFacts DEF RInv, OwnTypes
<1>4. Stage' /\ Current' /\ ZeroMeansSuccess'
  BY <1>1, <1>2 DEF RInv, Stage, Running, Current, ZeroMeansSuccess
<1>5. ASSUME NEW i \in DOMAIN objs
      PROVE  Past(i)' <=> Past(i)
  <2>1. i \in Nat /\ to \in Nat /\ (to' = 0 \/ i < to' <=> i <= to)
    BY <1>1, CursorFacts, ListFacts
  <2>2. rank[objs[i]] = r => i # to
    BY <1>1
  <2>3. QED
    BY <1>1, <1>2, <2>1, <2>2 DEF Past
<1>6. Progress'
  BY <1>1, <1>2, <1>5, QuietStep DEF RInv, Progress, Running
<1>7. QED
  BY <1>1, <1>3, <1>4, <1>6, QuietStep DEF RInv

(* A suite of this rank that runs.                                         *)
LEMMA SuiteEnterRInv ==
  ASSUME Base, RInv, UNCHANGED vars, SuiteEnter
  PROVE  RInv'
<1>1. /\ rpc = "scan" /\ to # 0 /\ rank[objs[to]] = r /\ ~DepFailed(objs[to])
      /\ todo' = IF g_interrupted THEN {} ELSE CasesOf(objs[to])
      /\ rpc' = "suite"
      /\ UNCHANGED <<status, cstatus, executed, r, to, g_interrupted, ret>>
  BY DEF SuiteEnter
<1>2. UNCHANGED <<objs, deps, rank, currank, pc>> /\ \A x : InList(x)' <=> InList(x)
  BY FrozenList
<1>3. OwnTypes'
  BY <1>1, <1>2 DEF RInv, OwnTypes, CasesOf
<1>4. Stage' /\ ZeroMeansSuccess'
  BY <1>1, <1>2 DEF RInv, Stage, Running, ZeroMeansSuccess
<1>5. \A i \in DOMAIN objs : Past(i)' <=> Past(i)
  BY <1>1, <1>2 DEF Past
<1>6. Progress'
  BY <1>1, <1>2, <1>5, QuietStep DEF RInv, Progress, Running
<1>7. PICK x \in Ids : x = objs[to]
  BY <1>1, CursorFacts
<1>8. ~Past(to) /\ to \in DOMAIN objs /\ InList(x) /\ pc = "ok"
  BY <1>1, <1>7, CursorFacts DEF Past, RInv, OwnTypes
<1>9. Unstarted(x) /\ ~Failed(x)
  BY <1>1, <1>7, <1>8, DepFailedIs DEF RInv, Progress, Running
<1>10. Current'
  BY <1>1, <1>2, <1>7, <1>9, QuietStep DEF Current, Unstarted, CasesOf
<1>11. QED
  BY <1>1, <1>3, <1>4, <1>6, <1>10, QuietStep DEF RInv

(* The end of a rank.                                                      *)
LEMMA RankEndRInv ==
  ASSUME Base, RInv, UNCHANGED vars, RankEnd
  PROVE  RInv'
<1>1. /\ rpc = "scan" /\ to = 0 /\ r' = r + 1 /\ rpc' = "rank"
      /\ UNCHANGED <<status, cstatus, todo, executed, to, g_interrupted, ret>>
  BY DEF RankEnd
<1>2. UNCHANGED <<objs, deps, rank, currank, pc>> /\ \A x : InList(x)' <=> InList(x)
  BY FrozenList
<1>3. OwnTypes' /\ Current' /\ ZeroMeansSuccess'
  BY <1>1, <1>2 DEF RInv, OwnTypes, Current, ZeroMeansSuccess
<1>4. Stage'
  BY <1>1, <1>2 DEF RInv, Stage, Running
<1>5. ASSUME NEW i \in DOMAIN objs
      PROVE  Past(i)' <=> Past(i)
  <2>1. rank[objs[i]] \in Nat /\ r \in Nat
    BY ListFacts DEF RInv, OwnTypes
  <2>2. QED
    BY <1>1, <1>2, <2>1 DEF Past
<1>6. Progress'
  BY <1>1, <1>2, <1>5, QuietStep DEF RInv, Progress, Running
<1>7. QED
  BY <1>1, <1>3, <1>4, <1>6, QuietStep DEF RInv

(* The report, which sets the exit status.                                 *)
LEMMA ReportRInv ==
  ASSUME Base, RInv, UNCHANGED vars, Report
  PROVE  RInv'
<1>1. /\ rpc = "report" /\ rpc' = "end" /\ ret' \in {0, 1} /\ (ret' = 0 => AllPass)
      /\ UNCHANGED <<status, cstatus, todo, executed, r, to, g_interrupted>>
  BY DEF Report, ReporterFails
<1>2. UNCHANGED <<objs, deps, rank, currank, pc>> /\ \A x : InList(x)' <=> InList(x)
  BY FrozenList
<1>3. OwnTypes' /\ Stage' /\ Current' /\ Progress'
  BY <1>1, <1>2 DEF RInv, OwnTypes, Stage, Running, Current, Progress
<1>4. ASSUME ret' = 0, NEW c \in Cases, InList(SuiteOf[c])
      PROVE  cstatus[c] = "SUCCESS" /\ (~g_interrupted /\ c \notin NoFunc => c \in executed)
  <2>1. PICK i \in DOMAIN objs : objs[i] = SuiteOf[c]
    BY <1>4 DEF InList
  <2>2. c \in CasesOf(objs[i]) /\ status[objs[i]] = "SUCCESS"
    BY <1>1, <1>4, <2>1 DEF CasesOf, AllPass
  <2>3. IF Past(i) THEN Settled(objs[i]) ELSE Unstarted(objs[i])
    BY <1>1 DEF RInv, Progress, Running
  <2>4. ~g_interrupted => Past(i)
    BY <1>1 DEF RInv, Stage, Past
  <2>5. QED
    BY <2>2, <2>3, <2>4 DEF Settled, Unstarted
<1>5. ZeroMeansSuccess'
  BY <1>1, <1>2, <1>4 DEF ZeroMeansSuccess
<1>6. QED
  BY <1>1, <1>3, <1>5, QuietStep DEF RInv

(* An interruption, and the way out that follows it.                       *)
LEMMA SignalRInv ==
  ASSUME Base, RInv, UNCHANGED vars, Interrupt \/ BailOut
  PROVE  RInv'
<1>1. /\ rpc # "end" /\ g_interrupted' = TRUE
      /\ \/ rpc' = rpc /\ UNCHANGED ret
         \/ rpc' = "end" /\ rpc = "suite" /\ ret' = 1
      /\ UNCHANGED <<status, cstatus, todo, executed, r, to>>
  BY DEF Interrupt, BailOut, RInv, OwnTypes
<1>2. UNCHANGED <<objs, deps, rank, currank, pc>> /\ \A x : InList(x)' <=> InList(x)
  BY FrozenList
<1>3. OwnTypes' /\ Stage' /\ ZeroMeansSuccess'
  BY <1>1, <1>2, QuietStep DEF RInv, OwnTypes, Stage, Running, ZeroMeansSuccess
<1>4. Current'
  BY <1>1, <1>2, QuietStep DEF RInv, Current
<1>5. Progress'
  BY <1>1, <1>2, QuietStep DEF RInv, Progress, Past, Running
<1>6. QED
  BY <1>1, <1>3, <1>4, <1>5, QuietStep DEF RInv

-----------------------------------------------------------------------------
(* The steps that change a suite or a case.                                *)
LEMMA SuiteSkipRInv ==
  ASSUME Base, RInv, UNCHANGED vars, SuiteSkip
  PROVE  RInv'
<1>0. PICK x \in Ids : x = objs[to]
  BY CursorFacts DEF SuiteSkip
<1>1. /\ rpc = "scan" /\ to # 0 /\ rank[x] = r /\ DepFailed(x)
      /\ status' = [status EXCEPT ![x] = "SKIPPED"]
      /\ cstatus' = [c \in Cases |-> IF SuiteOf[c] = x THEN "SKIPPED" ELSE cstatus[c]]
      /\ to' = ListNext(to)
      /\ UNCHANGED <<todo, executed, r, g_interrupted, ret, rpc>>
  BY <1>0 DEF SuiteSkip, UpdateAllStatus
<1>2. /\ UNCHANGED <<objs, deps, rank, currank, pc>>
      /\ \A s : InList(s)' <=> InList(s)
      /\ \A s : DepIds(s)' = DepIds(s)
  BY FrozenList
<1>3. /\ pc = "ok" /\ to \in DOMAIN objs /\ InList(x)
      /\ to' \in 0..Len(objs)
      /\ \A i \in DOMAIN objs : to' = 0 \/ i < to' <=> i <= to
  BY <1>0, <1>1, CursorFacts
<1>4. OwnTypes'
  BY <1>1, <1>2, <1>3 DEF RInv, OwnTypes, Returned
<1>5. Stage' /\ Current' /\ ZeroMeansSuccess'
  BY <1>1, <1>2 DEF RInv, Stage, Running, Current, ZeroMeansSuccess
<1>6. Failed(x) /\ Unstarted(x)
  <2>1. ~Past(to)
    BY <1>0, <1>1, <1>3 DEF Past, RInv, OwnTypes
  <2>2. QED
    BY <1>0, <1>1, <1>3, <2>1, DepFailedIs DEF RInv, Progress, Running
<1>7. /\ \A s \in Ids \ {x} : status'[s] = status[s]
      /\ status'[x] = "SKIPPED"
      /\ \A c \in Cases : SuiteOf[c] # x => cstatus'[c] = cstatus[c]
      /\ \A c \in CasesOf(x) : cstatus'[c] = "SKIPPED"
  BY <1>1 DEF RInv, OwnTypes, CasesOf
<1>8. ASSUME NEW s \in Ids, InList(s), rank[s] <= r
      PROVE  Failed(s)' <=> Failed(s)
  BY <1>1, <1>3, <1>7, <1>8, FailedStays DEF RInv
<1>9. ASSUME NEW s \in Ids, s # x
      PROVE  /\ Unstarted(s)' <=> Unstarted(s)
             /\ (Failed(s)' <=> Failed(s)) => (Settled(s)' <=> Settled(s))
  BY <1>1, <1>7, <1>9, LeftAlone DEF CasesOf
<1>10. Settled(x)'
  <2>1. Failed(x)'
    BY <1>1, <1>3, <1>6, <1>8, ListFacts DEF RInv, OwnTypes
  <2>2. QED
    BY <1>1, <1>6, <1>7, <2>1 DEF Settled, Unstarted, CasesOf
<1>11. ASSUME NEW i \in DOMAIN objs
       PROVE  /\ Past(i)' <=> Past(i) \/ i = to
              /\ Past(i) => rank[objs[i]] <= r
  <2>1. i \in Nat /\ to \in Nat /\ rank[objs[i]] \in Nat /\ r \in Nat
    BY <1>3, ListFacts DEF RInv, OwnTypes
  <2>2. QED
    BY <1>0, <1>1, <1>2, <1>3, <2>1 DEF Past
<1>12. Progress'
  <2> SUFFICES ASSUME NEW i \in DOMAIN objs
               PROVE  IF Past(i)' THEN Settled(objs[i])' ELSE Unstarted(objs[i])'
    BY <1>2 DEF Progress
  <2>1. CASE i = to
    BY <1>0, <1>2, <1>10, <1>11, <2>1
  <2>2. CASE i # to
    <3>1. PICK s \in Ids : s = objs[i] /\ InList(s) /\ s # x
      BY <1>0, <1>3, <2>2, ListFacts
    <3>2. IF Past(i) THEN Settled(s) ELSE Unstarted(s)
      BY <1>1, <3>1 DEF RInv, Progress, Running
    <3>3. IF Past(i)' THEN Settled(s)' ELSE Unstarted(s)'
      BY <1>8, <1>9, <1>11, <2>2, <3>1, <3>2
    <3>4. QED
      BY <1>2, <3>1, <3>3
  <2>3. QED
    BY <2>1, <2>2
<1>13. SuiteOrder'
  <2> SUFFICES ASSUME NEW c \in executed, NEW s \in DepIds(SuiteOf[c]), NEW e \in CasesOf(s)
               PROVE  (e \notin NoFunc => e \in executed) /\ cstatus'[e] = "SUCCESS"
    BY <1>1, <1>2 DEF SuiteOrder, CasesOf
  <2>1. (e \notin NoFunc => e \in executed) /\ cstatus[e] = "SUCCESS" /\ e \in Cases
    BY DEF RInv, SuiteOrder, CasesOf
  <2>2. PICK y \in Ids : y = SuiteOf[c] /\ InList(y) /\ rank[y] <= r
    BY RunAssumption DEF RInv, OwnTypes, Entered
  <2>3. s \in Ids /\ rank[s] < rank[y] /\ rank \in [Ids -> Nat] /\ r \in Nat
    BY <1>3, <2>2, DepsListed, ListFacts DEF RInv, OwnTypes
  <2>4. rank[s] \in Nat /\ rank[y] \in Nat
    BY <2>2, <2>3
  <2>5. s # x
    BY <1>1, <2>2, <2>3, <2>4
  <2>6. QED
    BY <1>7, <2>1, <2>5 DEF CasesOf
<1>14. Entered'
  BY <1>1, <1>2 DEF RInv, Entered
<1>15. QED
  BY <1>4, <1>5, <1>12, <1>13, <1>14 DEF RInv

(* A test case.                                                            *)
LEMMA CaseExecRInv ==
  ASSUME Base, RInv, UNCHANGED vars, NEW c \in Cases, CaseExec(c)
  PROVE  RInv'
<1>1. /\ rpc = "suite" /\ c \in todo
      /\ todo' = todo \ {c} /\ executed \subseteq executed'
      /\ \A e \in executed' : e \in executed \/ (e = c /\ c \notin NoFunc)
      /\ c \notin NoFunc => c \in executed'
      /\ \/ cstatus' = cstatus
         \/ \E v \in Returned : cstatus' = [cstatus EXCEPT ![c] = v]
      /\ UNCHANGED <<status, r, to, g_interrupted, ret, rpc>>
  BY DEF CaseExec
<1>2. /\ UNCHANGED <<objs, deps, rank, currank, pc>>
      /\ \A s : InList(s)' <=> InList(s)
      /\ \A s : DepIds(s)' = DepIds(s)
  BY FrozenList
<1>3. to # 0 /\ rank[objs[to]] = r /\ ~Failed(objs[to]) /\ c \in CasesOf(objs[to]) /\ c \notin executed
  BY <1>1 DEF RInv, Current
<1>4. PICK x \in Ids : x = objs[to] /\ InList(x) /\ pc = "ok" /\ to \in DOMAIN objs
  BY <1>1, <1>3, CursorFacts
<1>5. SuiteOf[c] = x /\ rank[x] = r /\ ~Failed(x)
  BY <1>3, <1>4 DEF CasesOf
<1>6. OwnTypes'
  BY <1>1, <1>2 DEF RInv, OwnTypes
<1>7. Stage' /\ ZeroMeansSuccess'
  BY <1>1, <1>2 DEF RInv, Stage, Running, ZeroMeansSuccess
<1>8. /\ \A e \in Cases \ {c} : cstatus'[e] = cstatus[e] /\ (e \in executed' <=> e \in executed)
      /\ \A s : Failed(s)' <=> Failed(s)
  BY <1>1, <1>2 DEF RInv, OwnTypes, Failed
<1>9. Current'
  BY <1>1, <1>2, <1>8 DEF RInv, Current, CasesOf
<1>10. ASSUME NEW s \in Ids, s # x
       PROVE  (Unstarted(s)' <=> Unstarted(s)) /\ (Settled(s)' <=> Settled(s))
  <2>1. \A e \in CasesOf(s) : cstatus'[e] = cstatus[e] /\ (e \in executed' <=> e \in executed)
    BY <1>5, <1>8, <1>10 DEF CasesOf
  <2>2. QED
    BY <1>1, <1>8, <2>1, LeftAlone
<1>11. \A i \in DOMAIN objs : Past(i)' <=> Past(i)
  BY <1>1, <1>2 DEF Past
<1>12. ~Past(to)
  BY <1>1, <1>3, <1>4 DEF Past, RInv, OwnTypes
<1>13. Progress'
  <2> SUFFICES ASSUME NEW i \in DOMAIN objs, i # to
               PROVE  IF Past(i)' THEN Settled(objs[i])' ELSE Unstarted(objs[i])'
    BY <1>1, <1>2, <1>11, <1>12 DEF Progress
  <2>1. PICK s \in Ids : s = objs[i] /\ s # x
    BY <1>4, ListFacts
  <2>2. IF Past(i) THEN Settled(s) ELSE Unstarted(s)
    BY <1>1, <2>1 DEF RInv, Progress, Running
  <2>3. IF Past(i)' THEN Settled(s)' ELSE Unstarted(s)'
    BY <1>10, <1>11, <2>1, <2>2
  <2>4. QED
    BY <1>2, <2>1, <2>3
<1>14. ASSUME NEW s \in DepIds(x)
       PROVE  CasesOf(s) \ NoFunc \subseteq executed /\ \A e \in CasesOf(s) : cstatus[e] = "SUCCESS"
  <2>1. s \in Ids /\ InList(s) /\ rank[s] < r
    BY <1>4, <1>5, DepsListed
  <2>2. PICK i \in DOMAIN objs : objs[i] = s
    BY <2>1 DEF InList
  <2>3. Settled(s) /\ status[s] = "SUCCESS"
    BY <1>1, <1>5, <2>1, <2>2 DEF RInv, Progress, Running, Past, Failed
  <2>4. QED
    BY <2>3 DEF Settled
<1>15. ASSUME NEW k \in executed'
       PROVE  SuiteOf[k] \in Ids /\ InList(SuiteOf[k]) /\ rank[SuiteOf[k]] <= r
  <2>1. r \in Nat
    BY DEF RInv, OwnTypes
  <2>2. QED
    BY <1>1, <1>4, <1>5, <2>1, RunAssumption DEF RInv, OwnTypes, Entered
<1>16. ASSUME NEW y \in Ids, InList(y), rank[y] <= r, NEW s \in DepIds(y)
       PROVE  s # x
  <2>1. s \in Ids /\ rank[s] < rank[y] /\ rank \in [Ids -> Nat] /\ r \in Nat
    BY <1>4, <1>16, DepsListed, ListFacts DEF RInv, OwnTypes
  <2>2. rank[s] \in Nat /\ rank[y] \in Nat
    BY <2>1
  <2>3. QED
    BY <1>5, <1>16, <2>1, <2>2
<1>17. SuiteOrder'
  <2> SUFFICES ASSUME NEW k \in executed', NEW s \in DepIds(SuiteOf[k]), NEW e \in CasesOf(s)
               PROVE  (e \notin NoFunc => e \in executed') /\ cstatus'[e] = "SUCCESS"
    BY <1>2 DEF SuiteOrder, CasesOf
  <2>1. (e \notin NoFunc => e \in executed) /\ cstatus[e] = "SUCCESS" /\ e \in Cases
    BY <1>1, <1>5, <1>14 DEF RInv, SuiteOrder, CasesOf
  <2>2. SuiteOf[k] \in Ids /\ s \in DepIds(SuiteOf[k]) /\ InList(SuiteOf[k]) /\ rank[SuiteOf[k]] <= r
    BY <1>15
  <2>3. s # x
    BY <2>2, <1>16
  <2>4. e # c
    BY <1>5, <2>3 DEF CasesOf
  <2>5. QED
    BY <1>1, <1>8, <2>1, <2>4
<1>18. QED
  BY <1>1, <1>2, <1>6, <1>7, <1>9, <1>13, <1>17, <1>15 DEF RInv, Entered

(* The end of a suite.                                                     *)
LEMMA SuiteEndRInv ==
  ASSUME Base, RInv, UNCHANGED vars, SuiteEnd
  PROVE  RInv'
<1>0. rpc = "suite" /\ to # 0
  BY DEF SuiteEnd, RInv, Current
<1>1. PICK x \in Ids : x = objs[to]
  BY <1>0, CursorFacts
<1>2. /\ todo = {} /\ ~g_interrupted
      /\ status' = [status EXCEPT ![x] = SuiteVerdict(x)]
      /\ to' = ListNext(to) /\ rpc' = "scan"
      /\ UNCHANGED <<cstatus, todo, executed, r, g_interrupted, ret>>
  BY <1>1 DEF SuiteEnd
<1>3. /\ UNCHANGED <<objs, deps, rank, currank, pc>>
      /\ \A s : InList(s)' <=> InList(s)
      /\ \A s : DepIds(s)' = DepIds(s)
  BY FrozenList
<1>4. /\ pc = "ok" /\ to \in DOMAIN objs /\ InList(x)
      /\ to' \in 0..Len(objs)
      /\ \A i \in DOMAIN objs : to' = 0 \/ i < to' <=> i <= to
  BY <1>0, <1>1, <1>2, CursorFacts
<1>5. rank[x] = r /\ status[x] = "SUCCESS" /\ ~Failed(x) /\ CasesOf(x) \ NoFunc \subseteq executed
  BY <1>0, <1>1, <1>2 DEF RInv, Current
<1>6. /\ SuiteVerdict(x) \in {"SUCCESS", "FAILURE"}
      /\ SuiteVerdict(x) = "SUCCESS" => \A c \in CasesOf(x) : cstatus[c] = "SUCCESS"
  BY <1>5 DEF SuiteVerdict
<1>7. OwnTypes'
  BY <1>2, <1>3, <1>4, <1>6 DEF RInv, OwnTypes
<1>8. Stage' /\ Current' /\ ZeroMeansSuccess' /\ SuiteOrder' /\ Entered'
  BY <1>0, <1>2, <1>3 DEF RInv, Stage, Running, Current, ZeroMeansSuccess, SuiteOrder, Entered
<1>9. (\A s \in Ids \ {x} : status'[s] = status[s]) /\ status'[x] = SuiteVerdict(x)
  BY <1>2 DEF RInv, OwnTypes
<1>10. ASSUME NEW s \in Ids, InList(s), rank[s] <= r
       PROVE  Failed(s)' <=> Failed(s)
  BY <1>4, <1>5, <1>9, <1>10, FailedStays DEF RInv
<1>11. ASSUME NEW s \in Ids, s # x
       PROVE  /\ Unstarted(s)' <=> Unstarted(s)
              /\ (Failed(s)' <=> Failed(s)) => (Settled(s)' <=> Settled(s))
  BY <1>2, <1>9, <1>11, LeftAlone
<1>12. Settled(x)'
  <2>1. ~Failed(x)'
    BY <1>4, <1>5, <1>10, ListFacts DEF RInv, OwnTypes
  <2>2. QED
    BY <1>2, <1>5, <1>6, <1>9, <2>1 DEF Settled
<1>13. ASSUME NEW i \in DOMAIN objs
       PROVE  /\ Past(i)' <=> Past(i) \/ i = to
              /\ Past(i) => rank[objs[i]] <= r
  <2>1. i \in Nat /\ to \in Nat /\ rank[objs[i]] \in Nat /\ r \in Nat
    BY <1>4, ListFacts DEF RInv, OwnTypes
  <2>2. QED
    BY <1>0, <1>1, <1>2, <1>3, <1>4, <1>5, <2>1 DEF Past
<1>14. Progress'
  <2> SUFFICES ASSUME NEW i \in DOMAIN objs
               PROVE  IF Past(i)' THEN Settled(objs[i])' ELSE Unstarted(objs[i])'
    BY <1>3 DEF Progress
  <2>1. CASE i = to
    BY <1>1, <1>3, <1>12, <1>13, <2>1
  <2>2. CASE i # to
    <3>1. PICK s \in Ids : s = objs[i] /\ InList(s) /\ s # x
      BY <1>1, <1>4, <2>2, ListFacts
    <3>2. IF Past(i) THEN Settled(s) ELSE Unstarted(s)
      BY <1>0, <2>2, <3>1 DEF RInv, Progress, Running
    <3>3. IF Past(i)' THEN Settled(s)' ELSE Unstarted(s)'
      BY <1>10, <1>11, <1>13, <2>2, <3>1, <3>2
    <3>4. QED
      BY <1>3, <3>1, <3>3
  <2>3. QED
    BY <2>1, <2>2
<1>15. QED
  BY <1>7, <1>8, <1>14 DEF RInv

(* While suites are registered and sequenced the run has not begun, and    *)
(* once it has ended nothing is registered any more.                       *)
LEMMA SequencerRInv ==
  ASSUME RInv, Next, UNCHANGED rvars, IInv'
  PROVE  RInv'
<1>1. /\ rpc = "idle"
      /\ UNCHANGED <<status, cstatus, todo, executed, r, to, g_interrupted, ret, rpc>>
  BY DEF rvars, RInv, Stage, Next, Register, Add, DepRegister, DependsOn, Start, Sequencer,
         Sequence, Finish
<1>2. r = 0 /\ to = 0 /\ executed = {} /\ \A s \in Ids : Unstarted(s)
  BY <1>1 DEF RInv, Stage
<1>3. to' \in 0..Len(objs')
  BY <1>1, <1>2 DEF IInv, TypeOK
<1>4. /\ OwnTypes' /\ Current' /\ Progress'
      /\ Entered' /\ ZeroMeansSuccess' /\ SuiteOrder'
  BY <1>1, <1>2, <1>3
     DEF RInv, OwnTypes, Current, Progress, Running, Entered, ZeroMeansSuccess, SuiteOrder
<1>5. Stage'
  BY <1>1, <1>2 DEF Stage, Running, Unstarted
<1>6. QED
  BY <1>4, <1>5 DEF RInv

(* Nothing has run at first.                                               *)
LEMMA InitRInv == RunInit => RInv
<1> SUFFICES ASSUME RunInit
             PROVE  RInv
  OBVIOUS
<1>1. /\ objs = <<>> /\ rpc = "idle" /\ pc = "register" /\ r = 0 /\ to = 0
      /\ todo = {} /\ executed = {} /\ g_interrupted = FALSE /\ ret = NULL
      /\ status = [s \in Ids |-> "SUCCESS"] /\ cstatus = [c \in Cases |-> "SUCCESS"]
  BY DEF RunInit, Init
<1>2. OwnTypes
  <2>1. to \in 0..Len(objs)
    BY <1>1
  <2>2. /\ status \in [Ids -> {"SUCCESS", "FAILURE", "SKIPPED"}]
        /\ cstatus \in [Cases -> Returned]
    BY <1>1 DEF Returned
  <2>3. QED
    BY <1>1, <2>1, <2>2 DEF OwnTypes
<1>3. \A s \in Ids : Unstarted(s)
  BY <1>1 DEF Unstarted, CasesOf
<1>4. QED
  BY <1>1, <1>2, <1>3 DEF RInv, Stage, Running, Current, Progress, Entered, SuiteOrder, ZeroMeansSuccess

(* Every step keeps the invariant.                                         *)
LEMMA NextRInv == Base /\ Base' /\ RInv /\ [RunNext]_allvars => RInv'
<1> SUFFICES ASSUME Base, Base', RInv, [RunNext]_allvars
             PROVE  RInv'
  OBVIOUS
<1>1. CASE Next /\ UNCHANGED rvars
  BY <1>1, SequencerRInv DEF Base
<1>2. CASE RunStep /\ UNCHANGED vars
  BY <1>2, StartRInv, RankLoopRInv, SuiteOtherRInv, SuiteSkipRInv, SuiteEnterRInv, CaseExecRInv,
     SignalRInv, SuiteEndRInv, RankEndRInv, ReportRInv DEF RunStep
<1>3. CASE Interrupt /\ UNCHANGED vars
  BY <1>3, SignalRInv
<1>4. CASE UNCHANGED allvars
  <2>1. /\ UNCHANGED <<objs, deps, rank, currank, pc>> /\ UNCHANGED vars
        /\ UNCHANGED <<status, cstatus, todo, executed, r, to, g_interrupted, ret, rpc>>
    BY <1>4 DEF allvars, vars, rvars
  <2>2. \A s : InList(s)' <=> InList(s)
    BY <2>1, FrozenList
  <2>3. OwnTypes' /\ Stage' /\ ZeroMeansSuccess'
    BY <2>1, <2>2, QuietStep DEF RInv, OwnTypes, Stage, Running, ZeroMeansSuccess
  <2>4. Current'
    BY <2>1, QuietStep DEF RInv, Current
  <2>5. Progress'
    BY <2>1, QuietStep DEF RInv, Progress, Past, Running
  <2>6. QED
    BY <2>1, <2>3, <2>4, <2>5, QuietStep DEF RInv
<1>5. QED
  BY <1>1, <1>2, <1>3, <1>4 DEF RunNext

(* So it always holds.                                                     *)
LEMMA SpecRInv == RunSpec => [](Base /\ RInv)
<1>1. RunInit => RInv
  BY InitRInv
<1>2. Base /\ Base' /\ RInv /\ [RunNext]_allvars => RInv'
  BY NextRInv
<1>3. QED
  BY <1>1, <1>2, RunBase, PTL DEF RunSpec

-----------------------------------------------------------------------------
(* The variables of u_test_run and of the sequencer keep their types: in   *)
(* particular the cursor stays inside the list of suites.                  *)
THEOREM RunTyped == RunSpec => []RunTypeOK
<1>1. Base /\ RInv => RunTypeOK
  BY DEF RInv, OwnTypes, Base, IInv, RunTypeOK
<1>2. QED
  BY <1>1, SpecRInv, PTL

(* u_test_suite_scheduler never runs a case before those of the suites     *)
(* that its suite depends on have all been run and succeeded.              *)
THEOREM SuitesInOrder == RunSpec => []SuiteOrder
<1>1. RInv => SuiteOrder
  BY DEF RInv
<1>2. QED
  BY <1>1, SpecRInv, PTL

(* When u_test_run returns 0 every case of a listed suite succeeded, and   *)
(* unless a signal came, every one of them was run.                        *)
THEOREM ZeroIsSuccess == RunSpec => []ZeroMeansSuccess
<1>1. RInv => ZeroMeansSuccess
  BY DEF RInv
<1>2. QED
  BY <1>1, SpecRInv, PTL

(* A suite is skipped with all its cases exactly when a suite that it      *)
(* depends on did not succeed; the cases of the others are all run.        *)
THEOREM SkippedAsAWhole == RunSpec => []SkippedWhole
<1>1. Base /\ RInv => SkippedWhole
  <2> SUFFICES ASSUME Base, RInv, rpc = "report", ~g_interrupted, NEW s \in Ids, InList(s)
               PROVE  Settled(s)
    BY DEF SkippedWhole, Settled, Failed
  <2>1. PICK i \in DOMAIN objs : objs[i] = s
    BY DEF InList
  <2>2. Past(i)
    BY DEF RInv, Stage, Past
  <2>3. QED
    BY <2>1, <2>2 DEF RInv, Progress, Running
<1>2. QED
  BY <1>1, SpecRInv, PTL
=============================================================================
