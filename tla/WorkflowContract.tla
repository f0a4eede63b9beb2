--------------------------- MODULE WorkflowContract ---------------------------
(***************************************************************************)
(* What docs/workflows-and-actions.md and the types in api/v1alpha1 promise *)
(* of a remediation workflow, seen from the status recorded for it: steps   *)
(* are decided when the steps they depend on are, by their runCondition,    *)
(* once and for all, and the verdict is passed when all are decided.  There *)
(* is no order of visits here, no Run that is cut off and no lost write;    *)
(* WorkflowRunner implements this specification in spite of them.  Of the   *)
(* runConditions it has what the code makes of them: to an OnFailure step   *)
(* a skipped dependency is a failed one, which the docs do not say.         *)
(***************************************************************************)
EXTENDS WorkflowGraph

VARIABLES
    workflow,    \* the steps
    outcome,     \* name -> what is recorded of the step
    verdict      \* "Succeeded", "Failed", or "none" so far

vars == <<workflow, outcome, verdict>>

Decided == {"Succeeded", "Failed", "Skipped"}

\* Did a dependency not succeed?  A skipped one has not.
SomeDepBad(out, step) == \E d \in DepsOf(step) : out[d] \in {"Failed", "Skipped"}

\* Is the step to run, now that all of its dependencies are decided?
IsToRun(out, step) ==
    \/ step.runCondition = "Always"
    \/ step.runCondition = "OnFailure" /\ (DepsOf(step) = {} \/ SomeDepBad(out, step))
    \/ step.runCondition \in {"unset", "OnSuccess"} /\ ~SomeDepBad(out, step)

\* A step with a runCondition the runner does not know is never decided.
Decision(out, step) ==
    IF ~IsToRun(out, step) THEN "Skipped"
    ELSE IF step.complete THEN "Succeeded" ELSE "Failed"

\* Whatever is decided follows from decided dependencies.
Coherent(w, out) ==
    \A s \in DOMAIN w : out[w[s].name] \in Decided =>
        /\ w[s].runCondition # "unknown"
        /\ \A d \in DepsOf(w[s]) : out[d] \in Decided
        /\ out[w[s].name] = Decision(out, w[s])

AllDecided(w, out) == \A s \in DOMAIN w : out[w[s].name] \in Decided

VerdictOn(w, out) ==
    IF \E s \in DOMAIN w : out[w[s].name] = "Failed" THEN "Failed" ELSE "Succeeded"

Init ==
    /\ verdict = "none"
    /\ \A n \in DOMAIN outcome : outcome[n] \notin Decided

\* A Run is recorded: more steps are decided, and none is decided again.
Record ==
    /\ verdict = "none"
    /\ \A n \in DOMAIN outcome :
          outcome[n] \in Decided => outcome'[n] = outcome[n]
    /\ Coherent(workflow, outcome')
    /\ UNCHANGED <<workflow, verdict>>

\* The verdict is passed.
Conclude ==
    /\ verdict = "none"
    /\ AllDecided(workflow, outcome)
    /\ verdict' = VerdictOn(workflow, outcome)
    /\ UNCHANGED <<workflow, outcome>>

\* A workflow that cannot be put in order fails, with nothing done.
Refuse ==
    /\ verdict = "none"
    /\ ~Sortable(workflow)
    /\ verdict' = "Failed"
    /\ UNCHANGED <<workflow, outcome>>

Next == Record \/ Conclude \/ Refuse

Spec == Init /\ [][Next]_vars
=============================================================================
