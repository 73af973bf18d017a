----------------------------- MODULE MCSandbox -----------------------------
(* Small instances of the sandboxed scheduler.                             *)
EXTENDS TestSandbox

CONSTANTS a, b, c, d

FourCases == {a, b, c, d}

(* The suites that registration calls leave, up to the names of the cases: *)
(* the list is a, b, c, d, and each case may depend on one case.           *)
Registered(choice) ==
  /\ objs = <<a, b, c, d>>
  /\ deps = [x \in Ids |-> IF choice[x] = NULL THEN <<>>
                           ELSE <<[id |-> choice[x], upref |-> NULL]>>]
  /\ sequenced = [x \in Ids |-> FALSE]
  /\ rank = [x \in Ids |-> 0]
  /\ currank = 0
  /\ pc = "sequence"
  /\ SchedInit

FourInit == \E choice \in [Ids -> Ids \cup {NULL}] : Registered(choice)

(* c depends on b, and d on a.                                             *)
SkipTailInit ==
  Registered([x \in Ids |-> IF x = c THEN b ELSE IF x = d THEN a ELSE NULL])

FourSpec     == FourInit /\ [][SandboxNext]_allvars /\ Fairness
SkipTailSpec == SkipTailInit /\ [][SandboxNext]_allvars /\ Fairness
=============================================================================
