------------------------------- MODULE MCRun -------------------------------
(* Small instances of a whole test run.                                    *)
EXTENDS TestRun

CONSTANTS a, b, c, a1, a2, b1, c1, c2

ThreeSuites == {a, b, c}
FiveCases   == {a1, a2, b1, c1, c2}
CaseSuite   == [x \in FiveCases |-> IF x \in {a1, a2} THEN a
                                    ELSE IF x = b1 THEN b ELSE c]
=============================================================================
