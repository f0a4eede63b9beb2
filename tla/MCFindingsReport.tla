--------------------------- MODULE MCFindingsReport ---------------------------
(* Instances of FindingsReport for TLC.                                    *)
EXTENDS FindingsReport

CONSTANTS r1, r2

TwoRefs == {r1, r2}

\* Four findings with every status, or three with every status and severity.
Mixed ==
    {f \in [ref: TwoRefs, status: Statuses, severity: {"Critical", "Info"}] :
        f.ref = r1 => f.severity = "Critical"}
Lists(n, S) == UNION {[1..m -> S] : m \in 0..n}

SmallInputs == Lists(3, Mixed) \cup
    [1..4 -> {f \in Mixed : f.status \in {"Failed", "Degraded", "Unknown"}
                            /\ f.severity = "Critical"}]
=============================================================================
