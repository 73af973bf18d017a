---------------------------- MODULE TestSandbox ----------------------------
(***************************************************************************)
(* The sandboxed scheduler of test.c: the test cases of one suite, once    *)
(* sequenced, run in forked children, chunk by chunk, while the user may   *)
(* interrupt the run.  The list of the sequencer is the list of cases.     *)
(***************************************************************************)
EXTENDS TestSequencer

CONSTANTS Parallelism,   \* values the -p option may give max_parallel
          StartMayFail,  \* whether fork(2) may return -1, or a case be
                         \* registered with a NULL function
          SignalsArrive  \* whether SIGINT, SIGTERM or SIGQUIT may be received

ASSUME SandboxAssumption ==
  /\ Parallelism \subseteq Nat
  /\ StartMayFail \in BOOLEAN
  /\ SignalsArrive \in BOOLEAN

VARIABLES max_parallel,  \* u_test_t.max_parallel
          status,        \* to->status
          child,         \* the process behind tc->pid: none while pid is -1
          nchildren,     \* TO.nchildren
          parallel,      \* cases started in the current chunk
          r,             \* rank being scheduled
          to,            \* position of the list cursor
          tptr,          \* position to restart from, 0 for NULL
          g_interrupted, \* set by the signal handler
          ran,           \* history: cases whose function was entered
          unstarted,     \* history: cases that had their turn in vain
          spc            \* control of the scheduler

svars == <<max_parallel, status, child, nchildren, parallel, r, to, tptr,
           g_interrupted, ran, unstarted, spc>>

Outcomes == {"SUCCESS", "FAILURE", "ABORTED"}   \* exit codes; signalled
Statuses == Outcomes \cup {"SKIPPED"}

(* Mutant: the cursor walks off the end of the list.                       *)
ListNextPast(i) == i + 1

(* LIST_NEXT, as a position *)
ListNext(i) == IF i < Len(objs) THEN i + 1 ELSE 0

SchedInit ==
  /\ max_parallel \in Parallelism
  /\ status = [x \in Ids |-> "SUCCESS"]
  /\ child = [x \in Ids |-> "none"]
  /\ nchildren = 0 /\ parallel = 0 /\ r = 0 /\ to = 0 /\ tptr = 0
  /\ g_interrupted = FALSE
  /\ ran = {} /\ unstarted = {}
  /\ spc = "idle"

SandboxInit == Init /\ SchedInit

-----------------------------------------------------------------------------
(* Entry of u_test_obj_scheduler: an empty list goes straight out.         *)
SchedStart ==
  /\ pc = "ok" /\ spc = "idle"
  /\ nchildren' = 0
  /\ spc' = IF objs = <<>> THEN "suite" ELSE "rank"
  /\ UNCHANGED <<ran, unstarted, max_parallel, status, child, parallel, r, to, tptr,
                 g_interrupted>>

(* for (r = 0; r <= h->currank && !g_interrupted; ++r) *)
RankLoop ==
  /\ spc = "rank"
  /\ IF r <= currank /\ ~g_interrupted
     THEN spc' = "scan" /\ tptr' = 1 /\ to' = 1
     ELSE spc' = "suite" /\ UNCHANGED <<tptr, to>>
  /\ UNCHANGED <<ran, unstarted, max_parallel, status, child, nchildren, parallel, r,
                 g_interrupted>>

(* Mutant: an aborted dependency does not count as failed.                 *)
DepFailedNotAborted(x) ==
  \E k \in DOMAIN deps[x] :
    /\ deps[x][k].upref # NULL
    /\ status[deps[x][k].upref] \in {"FAILURE", "SKIPPED"}

(* u_test_dep_failed *)
DepFailed(x) ==
  \E k \in DOMAIN deps[x] :
    deps[x][k].upref # NULL /\ status[deps[x][k].upref] # "SUCCESS"

(* The for loop under resched, one list element at a time.                 *)
Scanning == spc = "scan" /\ to # 0

(* An element of another rank. *)
ScanOther ==
  /\ Scanning
  /\ rank[objs[to]] # r
  /\ tptr' = 0
  /\ to' = ListNext(to)
  /\ UNCHANGED <<ran, unstarted, max_parallel, status, child, nchildren, parallel, r,
                 g_interrupted, spc>>

(* A failed dependency: continue jumps over the reset of tptr.             *)
ScanSkip ==
  /\ Scanning
  /\ rank[objs[to]] = r
  /\ DepFailed(objs[to])
  /\ status' = [status EXCEPT ![objs[to]] = "SKIPPED"]
  /\ to' = ListNext(to)
  /\ UNCHANGED <<ran, unstarted, max_parallel, child, nchildren, parallel, r, tptr,
                 g_interrupted, spc>>

(* Mutant: a child is counted even when fork failed.                       *)
CaseExecCountsFailure(x) ==
  /\ nchildren' = nchildren + 1
  /\ \/ /\ child' = [child EXCEPT ![x] = "running"]
        /\ ran' = ran \cup {x} /\ UNCHANGED unstarted
     \/ /\ StartMayFail
        /\ unstarted' = unstarted \cup {x} /\ UNCHANGED <<child, ran>>

(* u_test_case_exec: fork, or fail to and leave the case as it was, with   *)
(* its initial status U_TEST_SUCCESS; a case without a function is left as *)
(* it was too.                                                             *)
CaseExec(x) ==
  \/ /\ child' = [child EXCEPT ![x] = "running"]
     /\ nchildren' = nchildren + 1
     /\ ran' = ran \cup {x} /\ UNCHANGED unstarted
  \/ /\ StartMayFail
     /\ unstarted' = unstarted \cup {x}
     /\ UNCHANGED <<child, nchildren, ran>>

(* Mutant: the scan is resumed at the case that was just started.          *)
ResumeAtSame == to

(* tptr = LIST_NEXT (to, links): where the scan goes on after the reaping  *)
ResumeAt == ListNext(to)

(* The case is scheduled, and counted whether or not fork worked.          *)
ScanRun ==
  /\ Scanning
  /\ rank[objs[to]] = r
  /\ ~DepFailed(objs[to])
  /\ CaseExec(objs[to])
  /\ parallel' = parallel + 1
  /\ IF parallel' = max_parallel
     THEN tptr' = ResumeAt /\ to' = 0
     ELSE tptr' = 0 /\ to' = ListNext(to)
  /\ UNCHANGED <<max_parallel, status, r, g_interrupted, spc>>

(* Loop exhausted, or goto reap.                                           *)
ScanEnd ==
  /\ spc = "scan" /\ to = 0
  /\ spc' = "reap"
  /\ UNCHANGED <<ran, unstarted, max_parallel, status, child, nchildren, parallel, r, to,
                 tptr, g_interrupted>>

-----------------------------------------------------------------------------
(* u_test_cases_reap: wait3 returns a terminated child, whose status is    *)
(* WEXITSTATUS, or ABORTED for a signal.                                   *)
Reap(x) ==
  /\ spc = "reap" /\ nchildren > 0
  /\ child[x] \in Outcomes
  /\ child' = [child EXCEPT ![x] = "none"]
  /\ status' = [status EXCEPT ![x] = child[x]]
  /\ nchildren' = nchildren - 1
  /\ UNCHANGED <<ran, unstarted, max_parallel, parallel, r, to, tptr, g_interrupted, spc>>

(* wait3 fails with EINTR: the reaper returns an error with children left, *)
(* the scheduler returns it to u_test_suite_scheduler.                     *)
ReapInterrupted ==
  /\ SignalsArrive
  /\ spc = "reap" /\ nchildren > 0
  /\ \A x \in Ids : child[x] \notin Outcomes
  /\ g_interrupted' = TRUE
  /\ spc' = "suite"
  /\ UNCHANGED <<ran, unstarted, max_parallel, status, child, nchildren, parallel, r, to, tptr>>

(* Mutant: the reaper goes on while children are left.                     *)
AllReapedEarly == nchildren <= 1

AllReaped == nchildren = 0

(* All reaped: restart the scan if tptr was set, else go to the next rank. *)
ReapEnd ==
  /\ spc = "reap" /\ AllReaped
  /\ IF tptr # 0
     THEN parallel' = 0 /\ to' = tptr /\ spc' = "scan" /\ UNCHANGED r
     ELSE r' = r + 1 /\ spc' = "rank" /\ UNCHANGED <<parallel, to>>
  /\ UNCHANGED <<ran, unstarted, max_parallel, status, child, nchildren, tptr, g_interrupted>>

(* SIGKILL to every child that still has a pid, then waitpid for them all. *)
Killed == [x \in Ids |-> "none"]

(* u_test_suite_scheduler after its cases: u_test_bail_out if interrupted, *)
(* which kills and collects every child and exits.                         *)
SuiteEnd ==
  /\ spc = "suite"
  /\ IF g_interrupted
     THEN spc' = "exit" /\ child' = Killed
     ELSE spc' = "done" /\ UNCHANGED child
  /\ UNCHANGED <<ran, unstarted, max_parallel, status, nchildren, parallel, r, to, tptr,
                 g_interrupted>>

-----------------------------------------------------------------------------
(* External: a child ends its test function or is killed by a signal.      *)
ChildEnds(x) ==
  /\ child[x] = "running"
  /\ spc \notin {"done", "exit"}
  /\ \E o \in Outcomes : child' = [child EXCEPT ![x] = o]
  /\ UNCHANGED <<ran, unstarted, max_parallel, status, nchildren, parallel, r, to, tptr,
                 g_interrupted, spc>>

(* u_test_interrupted, at any point where wait3 is not blocked.            *)
Interrupt ==
  /\ SignalsArrive
  /\ spc \notin {"idle", "done", "exit"}
  /\ ~g_interrupted
  /\ g_interrupted' = TRUE
  /\ UNCHANGED <<ran, unstarted, max_parallel, status, child, nchildren, parallel, r, to, tptr,
                 spc>>

Scheduler ==
  \/ SchedStart \/ RankLoop \/ ScanOther \/ ScanSkip \/ ScanRun \/ ScanEnd
  \/ (\E x \in Ids : Reap(x)) \/ ReapEnd \/ SuiteEnd

SandboxStep == Scheduler \/ ReapInterrupted \/ Interrupt
               \/ \E x \in Ids : ChildEnds(x)

SandboxNext == \/ Next /\ UNCHANGED svars
               \/ SandboxStep /\ UNCHANGED vars

allvars == <<vars, svars>>

SandboxSpec == SandboxInit /\ [][SandboxNext]_allvars

(* The parent process is scheduled by the kernel; test functions return.   *)
Fairness ==
  /\ WF_allvars(Sequencer /\ UNCHANGED svars)
  /\ WF_allvars(Scheduler /\ UNCHANGED vars)
  /\ \A x \in Ids : WF_allvars(ChildEnds(x) /\ UNCHANGED vars)

FairSandboxSpec == SandboxSpec /\ Fairness

-----------------------------------------------------------------------------
(* The types of the state of the scheduler and the reaper.                 *)
SandboxTypeOK ==
  /\ max_parallel \in Parallelism
  /\ status \in [Ids -> Statuses]
  /\ child \in [Ids -> Outcomes \cup {"none", "running"}]
  /\ nchildren \in Nat /\ parallel \in Nat /\ r \in Nat
  /\ to \in 0..Len(objs) /\ tptr \in 0..Len(objs)
  /\ g_interrupted \in BOOLEAN
  /\ ran \subseteq Ids /\ unstarted \subseteq Ids
  /\ spc \in {"idle", "rank", "scan", "reap", "suite", "done", "exit"}

Spawned == {x \in Ids : child[x] # "none"}

(* nchildren, on which the reaper's loop turns, counts the live pids; the  *)
(* cases that run side by side have the rank of the cursor, so none of     *)
(* them depends on another.                                                *)
ChildrenCounted ==
  /\ spc # "exit" => nchildren = Cardinality(Spawned)
  /\ \A x \in Spawned : rank[x] = r

(* When a case is started, each case that it depends on has had its turn   *)
(* in an earlier rank and stands as succeeded: it was run, collected and   *)
(* had returned U_TEST_SUCCESS or, for want of a function or of a process, *)
(* could not be started at all, which the scheduler does not tell from a   *)
(* success (test.c:1552).  And a verdict is final: once collected or       *)
(* skipped, a case is neither run again nor given another status.          *)
StartsAfterDeps ==
  [][\A x \in Ids :
       /\ child[x] = "none" /\ child'[x] = "running" =>
            \A d \in DepIds(x) :
              /\ d \in ran \/ d \in unstarted
              /\ child[d] = "none" /\ status[d] = "SUCCESS" /\ rank[d] < r
       /\ spc # "idle" /\ status[x] # "SUCCESS" => status'[x] = status[x]]_allvars

(* No child is left behind, not even when the framework bails out.  A run  *)
(* that was not interrupted has collected every child, has forgotten no    *)
(* case, and skipped one exactly when one of its dependencies did not      *)
(* succeed: what stands as passed was run, or could not be started.        *)
Verdicts ==
  /\ spc \in {"done", "exit"} => \A x \in Ids : child[x] # "running"
  /\ spc = "done" =>
       /\ Spawned = {}
       /\ \A x \in Ids : InList(x) =>
            IF \E d \in DepIds(x) : status[d] # "SUCCESS"
            THEN status[x] = "SKIPPED"
            ELSE status[x] # "SKIPPED" /\ x \in ran \cup unstarted

(* The scan was restarted at a case from which on every case of the list   *)
(* is to be skipped: tptr is never unset (test.c:1274), so that the loop   *)
(* goes on for ever, and no signal ends it.                                *)
SkippedTail ==
  /\ spc = "scan" /\ tptr # 0 /\ to = tptr
  /\ \A i \in tptr..Len(objs) : rank[objs[i]] = r /\ DepFailed(objs[i])

(* The scheduler gets to the end of the suite, whatever fork, the children *)
(* and the signals do, unless it restarts before a tail of such cases.     *)
SandboxEndsOrSticks == (spc = "rank") ~> (spc \in {"done", "exit"} \/ SkippedTail)

(* "will return when all tests have been executed or an error occurred"    *)
(* (test.c:309), with no proviso.                                          *)
SandboxEnds == (spc = "rank") ~> (spc \in {"done", "exit"})

(* "Max # of test cases executed in parallel" (test.c:125).                *)
ParallelBounded == max_parallel # 0 => Cardinality(Spawned) <= max_parallel

(* U_TEST_SUCCESS means "All test assertions got right" (test.h:43): every *)
(* case that is counted as passed was run.                                 *)
PassedWereRun ==
  spc = "done" => \A x \in Ids :
    (InList(x) /\ status[x] = "SUCCESS") => x \in ran
=============================================================================
