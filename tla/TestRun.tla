------------------------------ MODULE TestRun ------------------------------
(***************************************************************************)
(* u_test_run of test.c above the level of one suite: the suites, once     *)
(* sequenced, are run one by one by the simple scheduler, their verdicts   *)
(* summed up and turned into the exit code.  Test cases are not sandboxed  *)
(* (-s, or no fork(2)): each runs inside the calling process, and the      *)
(* cases of a suite are independent of each other (TestSandbox has the     *)
(* dependencies between cases).                                            *)
(***************************************************************************)
EXTENDS TestSequencer

CONSTANTS Cases,          \* test cases of all the suites
          SuiteOf,        \* the suite that each case was added to
          NoFunc,         \* the cases registered with a NULL function
          SignalsArrive,  \* whether SIGINT, SIGTERM or SIGQUIT may be received
          ReportMayFail   \* whether the report file can fail to open

ASSUME RunAssumption ==
  /\ SuiteOf \in [Cases -> Ids]
  /\ NoFunc \subseteq Cases
  /\ SignalsArrive \in BOOLEAN
  /\ ReportMayFail \in BOOLEAN

VARIABLES status,        \* to->status of the suites
          cstatus,       \* to->status of the cases
          todo,          \* cases of the current suite still to be run
          executed,      \* history: the cases whose function was called
          r,             \* rank being scheduled
          to,            \* position of the cursor in the list of suites
          g_interrupted, \* set by the signal handler
          ret,           \* return value of u_test_run, or exit status
          rpc            \* control of u_test_run after the sequencer

rvars == <<status, cstatus, todo, executed, r, to, g_interrupted, ret, rpc>>

CasesOf(s) == {c \in Cases : SuiteOf[c] = s}

(* Mutant: the cursor walks off the end of the list.                       *)
ListNextPast(i) == i + 1

(* LIST_NEXT, as a position *)
ListNext(i) == IF i < Len(objs) THEN i + 1 ELSE 0

RunInit ==
  /\ Init
  /\ status = [s \in Ids |-> "SUCCESS"]
  /\ cstatus = [c \in Cases |-> "SUCCESS"]
  /\ todo = {} /\ executed = {}
  /\ r = 0 /\ to = 0
  /\ g_interrupted = FALSE
  /\ ret = NULL
  /\ rpc = "idle"

-----------------------------------------------------------------------------
(* con_err_if (u_test_sequencer(t)): a loop ends the run with an error.    *)
RunStart ==
  /\ rpc = "idle" /\ pc \in {"ok", "loop"}
  /\ IF pc = "ok" THEN rpc' = "rank" /\ UNCHANGED ret
                  ELSE rpc' = "end" /\ ret' = 1
  /\ UNCHANGED <<status, cstatus, todo, executed, r, to, g_interrupted>>

(* r <= h->currank && !g_interrupted; an empty list goes straight out *)
RanksLeft == objs # <<>> /\ r <= currank /\ ~g_interrupted

(* u_test_obj_scheduler on the suites: the outer loop over the ranks.      *)
RankLoop ==
  /\ rpc = "rank"
  /\ IF RanksLeft
     THEN rpc' = "scan" /\ to' = 1
     ELSE rpc' = "report" /\ UNCHANGED to
  /\ UNCHANGED <<status, cstatus, todo, executed, r, g_interrupted, ret>>

(* Mutant: a skipped suite does not count as a failed dependency.          *)
DepFailedNotSkipped(s) ==
  \E k \in DOMAIN deps[s] :
    deps[s][k].upref # NULL /\ status[deps[s][k].upref] = "FAILURE"

(* u_test_dep_failed *)
DepFailed(s) ==
  \E k \in DOMAIN deps[s] :
    deps[s][k].upref # NULL /\ status[deps[s][k].upref] # "SUCCESS"

(* Mutant: the cases of a skipped suite keep their status.                 *)
UpdateAllNone(s) == cstatus

(* u_test_suite_update_all_status (ts, U_TEST_SKIPPED) *)
UpdateAllStatus(s) ==
  [c \in Cases |-> IF SuiteOf[c] = s THEN "SKIPPED" ELSE cstatus[c]]

(* The suite under the cursor is of another rank, is skipped with all its  *)
(* cases, or is entered by u_test_suite_scheduler.  Its cases are all of   *)
(* rank 0: their loop is not entered at all if g_interrupted is set.       *)
SuiteOther ==
  /\ rpc = "scan" /\ to # 0
  /\ rank[objs[to]] # r
  /\ to' = ListNext(to)
  /\ UNCHANGED <<status, cstatus, todo, executed, r, g_interrupted, ret, rpc>>

SuiteSkip ==
  /\ rpc = "scan" /\ to # 0
  /\ rank[objs[to]] = r
  /\ DepFailed(objs[to])
  /\ status' = [status EXCEPT ![objs[to]] = "SKIPPED"]
  /\ cstatus' = UpdateAllStatus(objs[to])
  /\ to' = ListNext(to)
  /\ UNCHANGED <<todo, executed, r, g_interrupted, ret, rpc>>

SuiteEnter ==
  /\ rpc = "scan" /\ to # 0
  /\ rank[objs[to]] = r
  /\ ~DepFailed(objs[to])
  /\ todo' = IF g_interrupted THEN {} ELSE CasesOf(objs[to])
  /\ rpc' = "suite"
  /\ UNCHANGED <<status, cstatus, executed, r, to, g_interrupted, ret>>

(* What a test function may return: one of the two verdicts, the value of  *)
(* U_TEST_SKIPPED, or any other integer.  All are recorded as they are.    *)
Returned == {"SUCCESS", "FAILURE", "SKIPPED", "OTHER"}

(* u_test_case_exec, not sandboxed: the function returns its verdict.  A   *)
(* case without a function is gone through and left as it was.             *)
CaseExec(c) ==
  /\ rpc = "suite" /\ c \in todo
  /\ todo' = todo \ {c}
  /\ \/ c \in NoFunc /\ UNCHANGED <<cstatus, executed>>
     \/ /\ c \notin NoFunc
        /\ \E v \in Returned : cstatus' = [cstatus EXCEPT ![c] = v]
        /\ executed' = executed \cup {c}
  /\ UNCHANGED <<status, r, to, g_interrupted, ret, rpc>>

(* u_test_bail_out exits with 1, whatever the verdicts.                    *)
BailOut ==
  /\ rpc = "suite" /\ todo = {}
  /\ g_interrupted
  /\ rpc' = "end" /\ ret' = 1
  /\ UNCHANGED <<status, cstatus, todo, executed, r, to, g_interrupted>>

(* Mutant: only a verdict of U_TEST_FAILURE fails the suite.               *)
SuiteVerdictFailure(s) ==
  IF \E c \in CasesOf(s) : cstatus[c] = "FAILURE" THEN "FAILURE" ELSE status[s]

(* "If any of our test cases failed, set the overall status to FAILURE"    *)
SuiteVerdict(s) ==
  IF \E c \in CasesOf(s) : cstatus[c] # "SUCCESS" THEN "FAILURE" ELSE status[s]

SuiteEnd ==
  /\ rpc = "suite" /\ todo = {}
  /\ ~g_interrupted
  /\ status' = [status EXCEPT ![objs[to]] = SuiteVerdict(objs[to])]
  /\ to' = ListNext(to)
  /\ rpc' = "scan"
  /\ UNCHANGED <<cstatus, todo, executed, r, g_interrupted, ret>>

(* Mutant: the rank is not incremented.                                    *)
RankEndStays ==
  /\ rpc = "scan" /\ to = 0
  /\ rpc' = "rank"
  /\ UNCHANGED <<status, cstatus, todo, executed, r, to, g_interrupted, ret>>

(* The list is exhausted: ++r, and the condition of the for loop again.    *)
RankEnd ==
  /\ rpc = "scan" /\ to = 0
  /\ r' = r + 1
  /\ rpc' = "rank"
  /\ UNCHANGED <<status, cstatus, todo, executed, to, g_interrupted, ret>>

(* u_test_syn_update: syn.total == syn.pass *)
AllPass == \A i \in DOMAIN objs : status[objs[i]] = "SUCCESS"

(* u_test_reporter: the file cannot be opened or written.                  *)
ReporterFails == ReportMayFail /\ ret' = 1

(* u_test_scheduler's synopsis, u_test_reporter and the return value.      *)
Report ==
  /\ rpc = "report"
  /\ ret' = (IF AllPass THEN 0 ELSE 1) \/ ReporterFails
  /\ rpc' = "end"
  /\ UNCHANGED <<status, cstatus, todo, executed, r, to, g_interrupted>>

(* u_test_interrupted; the handler is installed before the sequencer runs. *)
Interrupt ==
  /\ SignalsArrive
  /\ pc # "register" /\ rpc # "end"
  /\ ~g_interrupted
  /\ g_interrupted' = TRUE
  /\ UNCHANGED <<status, cstatus, todo, executed, r, to, ret, rpc>>

RunStep == \/ RunStart \/ RankLoop \/ SuiteOther \/ SuiteSkip \/ SuiteEnter
           \/ (\E c \in Cases : CaseExec(c))
           \/ BailOut \/ SuiteEnd \/ RankEnd \/ Report

RunNext == \/ Next /\ UNCHANGED rvars
           \/ (RunStep \/ Interrupt) /\ UNCHANGED vars

allvars == <<vars, rvars>>

RunSpec == RunInit /\ [][RunNext]_allvars

(* One thread of control, and test functions that return.                  *)
FairRunSpec ==
  /\ RunSpec
  /\ WF_allvars(Sequencer /\ UNCHANGED rvars)
  /\ WF_allvars(RunStep /\ UNCHANGED vars)

-----------------------------------------------------------------------------
(* The types of the state of u_test_run, sequencer included.               *)
RunTypeOK ==
  /\ TypeOK
  /\ status \in [Ids -> {"SUCCESS", "FAILURE", "SKIPPED"}]
  /\ cstatus \in [Cases -> Returned]
  /\ todo \subseteq Cases /\ executed \subseteq Cases
  /\ r \in Nat /\ to \in 0..Len(objs)
  /\ g_interrupted \in BOOLEAN
  /\ ret \in {NULL, 0, 1}
  /\ rpc \in {"idle", "rank", "scan", "suite", "report", "end"}

(* No case runs before every case of every suite that its suite depends on *)
(* has run, unless it has no function to run, and stands as succeeded.     *)
SuiteOrder ==
  \A c \in executed : \A s \in DepIds(SuiteOf[c]) :
    /\ CasesOf(s) \ NoFunc \subseteq executed
    /\ \A e \in CasesOf(s) : cstatus[e] = "SUCCESS"

(* Failure is contained: a suite is skipped exactly when one of the suites *)
(* it depends on did not succeed, and then none of its cases was run; else *)
(* each of them was that has a function.                                   *)
SkippedWhole ==
  rpc = "report" /\ ~g_interrupted => \A s \in Ids : InList(s) =>
    IF \E d \in DepIds(s) : status[d] # "SUCCESS"
    THEN /\ \A c \in CasesOf(s) : cstatus[c] = "SKIPPED" /\ c \notin executed
    ELSE CasesOf(s) \ NoFunc \subseteq executed

(* u_test_run always comes to an end, the ranking loop of the sequencer    *)
(* included.                                                               *)
RunEnds == (pc = "sequence") ~> (rpc = "end")

(* "It ... will return when all tests have been executed or an error       *)
(* occurred ... 0 on success" (test.c:308-316): 0 means that no case of a  *)
(* listed suite failed or was skipped and, if no signal was received, that *)
(* every case with a function was run and returned U_TEST_SUCCESS.  A case *)
(* without one stands as passed (test.c:1530).                             *)
ZeroMeansSuccess ==
  (rpc = "end" /\ ret = 0) => \A c \in Cases : InList(SuiteOf[c]) =>
    /\ cstatus[c] = "SUCCESS"
    /\ ~g_interrupted /\ c \notin NoFunc => c \in executed

(* That every case that can be was run, with no proviso about signals, as  *)
(* the documentation has it.                                               *)
ZeroMeansAllExecutedAlways ==
  (rpc = "end" /\ ret = 0) => \A c \in Cases \ NoFunc :
    InList(SuiteOf[c]) => c \in executed
=============================================================================
