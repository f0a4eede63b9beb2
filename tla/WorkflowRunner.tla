---------------------------- MODULE WorkflowRunner ----------------------------
(***************************************************************************)
(* WorkflowRunner.Run (internal/remediation/remediation.go): one walk over *)
(* the sorted steps of a remediation workflow per call, one action per     *)
(* step, on the WorkflowExecutionStatus that the caller keeps in the       *)
(* policy's status.activeWorkflows between the calls.                      *)
(*                                                                         *)
(* Run "is designed to be called by the reconciler loop"; nothing in the   *)
(* repository calls it yet.  The caller here is the least such a loop      *)
(* does: it calls Run on the status it has, writes the status back, and    *)
(* may lose it - a conflict, a crash during Run - and call Run again on    *)
(* the old one.  In EditedSpec users change the workflow between calls.    *)
(*                                                                         *)
(* Of topologicalSort only its result matters here (TopologicalSort shows  *)
(* that it returns exactly such orders).  Messages and times are left out, *)
(* and of a step's action only whether executeStep accepts its arguments.  *)
(***************************************************************************)
EXTENDS WorkflowGraph

CONSTANTS
    Names,       \* names steps may have or depend on
    Workflows,   \* the workflows a policy may have
    MaxLosses,   \* bound on lost statuses
    MaxEdits,    \* bound on changes of the workflow
    MaxRuns      \* where counting the executions of a step stops

Conditions == {"unset", "OnSuccess", "OnFailure", "Always", "unknown"}

\* `complete' says that the action has the arguments it needs.
Step == [name: Names, dependsOn: Seq(Names), runCondition: Conditions,
         complete: BOOLEAN]

ASSUME RunnerAssumption ==
    /\ Workflows \subseteq Seq(Step)
    /\ MaxLosses \in Nat
    /\ MaxEdits \in Nat
    /\ MaxRuns \in Nat
    /\ MaxRuns > MaxLosses + 1

Settled  == {"Succeeded", "Failed", "Skipped"}
Verdicts == {"Succeeded", "Failed"}

\* A workflow's execution status.  A step is "untracked" while it has no entry
\* in the list of step statuses.
Status == [state: {"new", "Running"} \cup Verdicts,
           steps: [Names -> Settled \cup {"untracked", "Pending"}]]

VARIABLES
    workflow,    \* the workflow in the policy
    saved,       \* its execution status as recorded
    state,       \* the one Run works on
    pc,          \* "idle" between calls, "loop" in Run, "returned" before the save
    sortedSteps, \* what topologicalSort returned
    visited,     \* steps of it the loop is done with
    allComplete, \* Run's local of that name
    anyFailed,   \* Run's local of that name
    ran,         \* history: how often each step's action was executed
    losses,      \* statuses lost so far
    edits        \* changes of the workflow so far

locals == <<sortedSteps, visited, allComplete, anyFailed>>
vars == <<workflow, saved, state, pc, sortedSteps, visited, allComplete,
          anyFailed, ran, losses, edits>>

New == [state |-> "new", steps |-> [n \in Names |-> "untracked"]]

Init ==
    /\ workflow \in Workflows
    /\ saved = New
    /\ state = New
    /\ pc = "idle"
    /\ sortedSteps = <<>>
    /\ visited = 0
    /\ allComplete = TRUE
    /\ anyFailed = FALSE
    /\ ran = [n \in Names |-> 0]
    /\ losses = 0
    /\ edits = 0

-----------------------------------------------------------------------------
(* Run's helpers.                                                          *)

\* Mutant: the steps are walked in the order they are written in.
SortsAsWritten(w) == {w}

\* Every order topologicalSort may return.
Sorts(w) ==
    {o \in [1..Len(w) -> {w[s] : s \in DOMAIN w}] :
        IsTopologicalOrder(w, [p \in 1..Len(w) |-> o[p].name])}

\* A step without an entry counts as pending.
GetStepState(name) ==
    IF state.steps[name] = "untracked" THEN "Pending" ELSE state.steps[name]

\* A step without an entry does not get one.
SetStepStatus(name, st) ==
    state' = IF state.steps[name] = "untracked" THEN state
             ELSE [state EXCEPT !.steps[name] = st]

step == sortedSteps[visited + 1]

InLoop == pc = "loop" /\ visited < Len(sortedSteps)

DepStates == {GetStepState(d) : d \in DepsOf(step)}

\* Mutant: a dependency that failed need not be waited for.
DepsSatisfiedEarly == "Pending" \notin DepStates \/ "Failed" \in DepStates

DepsSatisfied == "Pending" \notin DepStates

AnyDepFailed == DepStates \cap {"Failed", "Skipped"} # {}

\* Mutant: OnFailure steps without dependencies are skipped.
ShouldRunStrict ==
    \/ step.runCondition = "Always"
    \/ step.runCondition = "OnFailure" /\ AnyDepFailed
    \/ step.runCondition \in {"unset", "OnSuccess"} /\ ~AnyDepFailed

\* The branches of the switch that set shouldRun.
ShouldRun ==
    \/ step.runCondition = "Always"
    \/ step.runCondition = "OnFailure" /\ (AnyDepFailed \/ step.dependsOn = <<>>)
    \/ step.runCondition \in {"unset", "OnSuccess"} /\ ~AnyDepFailed

Unsettled ==
    /\ InLoop
    /\ GetStepState(step.name) \notin Settled

\* The loop goes on with the next step.
Continue ==
    /\ visited' = visited + 1
    /\ UNCHANGED <<workflow, saved, pc, sortedSteps, losses, edits>>

-----------------------------------------------------------------------------
(* Run.                                                                    *)

\* The workflow is validated before anything else.
Refuse ==
    /\ pc = "idle"
    /\ ~Sortable(workflow)
    /\ state' = [state EXCEPT !.state = "Failed"]
    /\ pc' = "returned"
    /\ UNCHANGED <<workflow, saved, locals, ran, losses, edits>>

\* Nothing is done for a workflow with a verdict.
AlreadyTerminal ==
    /\ pc = "idle"
    /\ Sortable(workflow)
    /\ state.state \in Verdicts
    /\ pc' = "returned"
    /\ UNCHANGED <<workflow, saved, state, locals, ran, losses, edits>>

\* Mutant: every Run starts over.
BeginAnew ==
    /\ pc = "idle"
    /\ state.state \notin Verdicts
    /\ sortedSteps' \in Sorts(workflow)
    /\ state' = [state |-> "Running",
                 steps |-> [n \in Names |->
                    IF n \in StepNames(workflow) THEN "Pending" ELSE "untracked"]]
    /\ pc' = "loop"
    /\ visited' = 0
    /\ allComplete' = TRUE
    /\ anyFailed' = FALSE
    /\ UNCHANGED <<workflow, saved, ran, losses, edits>>

\* Run sorts the steps and, if there are none yet, makes their entries.
Begin ==
    /\ pc = "idle"
    /\ Sortable(workflow)
    /\ state.state \notin Verdicts
    /\ sortedSteps' \in Sorts(workflow)
    /\ state' = [state |-> "Running",
                 steps |-> [n \in Names |->
                    IF /\ \A m \in Names : state.steps[m] = "untracked"
                       /\ n \in StepNames(workflow)
                    THEN "Pending" ELSE state.steps[n]]]
    /\ pc' = "loop"
    /\ visited' = 0
    /\ allComplete' = TRUE
    /\ anyFailed' = FALSE
    /\ UNCHANGED <<workflow, saved, ran, losses, edits>>

\* Mutant: a failure counts in the Run it happens in only.
PassForgetful ==
    /\ InLoop
    /\ GetStepState(step.name) \in Settled
    /\ Continue
    /\ UNCHANGED <<state, allComplete, anyFailed, ran>>

\* The step was settled in an earlier Run.
Pass ==
    /\ InLoop
    /\ GetStepState(step.name) \in Settled
    /\ anyFailed' = (anyFailed \/ GetStepState(step.name) = "Failed")
    /\ Continue
    /\ UNCHANGED <<state, allComplete, ran>>

\* A dependency is pending.
Wait ==
    /\ Unsettled
    /\ ~DepsSatisfied
    /\ allComplete' = FALSE
    /\ Continue
    /\ UNCHANGED <<state, anyFailed, ran>>

\* No case of the switch knows the step's runCondition.
LeavePending ==
    /\ Unsettled
    /\ DepsSatisfied
    /\ step.runCondition = "unknown"
    /\ allComplete' = FALSE
    /\ Continue
    /\ UNCHANGED <<state, anyFailed, ran>>

\* Mutant: the skipped step is not recorded.
SkipSilently ==
    /\ Unsettled
    /\ DepsSatisfied
    /\ step.runCondition # "unknown"
    /\ ~ShouldRun
    /\ allComplete' = FALSE
    /\ Continue
    /\ UNCHANGED <<state, anyFailed, ran>>

\* The outcome of the dependencies is not the one the step is for.
Skip ==
    /\ Unsettled
    /\ DepsSatisfied
    /\ step.runCondition # "unknown"
    /\ ~ShouldRun
    /\ SetStepStatus(step.name, "Skipped")
    /\ allComplete' = FALSE
    /\ Continue
    /\ UNCHANGED <<anyFailed, ran>>

\* The action is executed; it fails if its arguments are incomplete.
Execute ==
    /\ Unsettled
    /\ DepsSatisfied
    /\ ShouldRun
    /\ ran' = [ran EXCEPT ![step.name] = IF @ < MaxRuns THEN @ + 1 ELSE @]
    /\ SetStepStatus(step.name, IF step.complete THEN "Succeeded" ELSE "Failed")
    /\ anyFailed' = (anyFailed \/ ~step.complete)
    /\ allComplete' = FALSE
    /\ Continue

\* The loop is over: a Run that found every step settled passes the verdict.
EndRun ==
    /\ pc = "loop"
    /\ visited = Len(sortedSteps)
    /\ pc' = "returned"
    /\ state' = IF ~allComplete THEN state
                ELSE [state EXCEPT !.state =
                        IF anyFailed THEN "Failed" ELSE "Succeeded"]
    /\ UNCHANGED <<workflow, saved, locals, ran, losses, edits>>

-----------------------------------------------------------------------------
(* The caller.                                                             *)

\* The caller is back in its own loop, and Run's locals are gone.
Rest ==
    /\ pc' = "idle"
    /\ sortedSteps' = <<>>
    /\ visited' = 0
    /\ allComplete' = TRUE
    /\ anyFailed' = FALSE
    /\ UNCHANGED <<workflow, ran, edits>>

\* The status is recorded.
Save ==
    /\ pc = "returned"
    /\ saved' = state
    /\ Rest
    /\ UNCHANGED <<state, losses>>

\* The status is lost, with the process or to a conflict; what the actions
\* did to the cluster is not.
Lose ==
    /\ pc # "idle"
    /\ losses < MaxLosses
    /\ losses' = losses + 1
    /\ state' = saved
    /\ Rest
    /\ UNCHANGED saved

\* A user changes the workflow.
EditWorkflow ==
    /\ pc = "idle"
    /\ edits < MaxEdits
    /\ edits' = edits + 1
    /\ workflow' \in Workflows
    /\ UNCHANGED <<saved, state, pc, locals, ran, losses>>

Run ==
    \/ Refuse \/ AlreadyTerminal \/ Begin
    \/ Pass \/ Wait \/ LeavePending \/ Skip \/ Execute
    \/ EndRun

Next == Run \/ Save \/ Lose

Spec == Init /\ [][Next]_vars

\* The reconciler loop comes back: Run is called, returns, and is called again.
FairSpec == Spec /\ WF_vars(Run \/ Save)

EditedSpec == Init /\ [][Next \/ EditWorkflow]_vars

-----------------------------------------------------------------------------
(* Properties.                                                             *)

\* Every variable stays in its type.
TypeOK ==
    /\ workflow \in Workflows
    /\ saved \in Status
    /\ state \in Status
    /\ pc \in {"idle", "loop", "returned"}
    /\ sortedSteps \in Seq(Step)
    /\ visited \in 0..Len(sortedSteps)
    /\ allComplete \in BOOLEAN
    /\ anyFailed \in BOOLEAN
    /\ ran \in [Names -> 0..MaxRuns]
    /\ losses \in 0..MaxLosses
    /\ edits \in 0..MaxEdits

Contract == INSTANCE WorkflowContract WITH
    outcome <- saved.steps,
    verdict <- IF saved.state \in Verdicts THEN saved.state ELSE "none"

\* At every moment of every Run what is settled follows, by the steps'
\* runConditions, from dependencies that were settled before: the walk never
\* settles a step ahead of one it depends on, and never on an outcome that is
\* revised later, whatever order it was given and however often it was cut off.
StatusIsCoherent == Contract!Coherent(workflow, state.steps)

\* A workflow succeeds only when all of its steps are settled and none has
\* failed - in whichever Run - and fails only if one has or it has no order.
VerdictJustified ==
    /\ state.state = "Succeeded" =>
          \A s \in DOMAIN workflow :
             state.steps[workflow[s].name] \in {"Succeeded", "Skipped"}
    /\ state.state = "Failed" =>
          \/ ~Sortable(workflow)
          \/ \E s \in DOMAIN workflow : state.steps[workflow[s].name] = "Failed"

\* An action is executed again only if a status was lost since, once for each
\* loss: remediation is at least once, and exactly once when nothing is lost.
ReexecutionOnlyAfterLoss == \A n \in Names : ran[n] <= 1 + losses

\* A step recorded as settled is never recorded as anything else, not even if
\* the workflow is changed under it.
SettledStays ==
    [][\A n \in Names :
          saved.steps[n] \in Settled => saved'.steps[n] = saved.steps[n]]_vars

\* A Run that comes back without a verdict has found steps that were not settled,
\* and has settled all that it can: what it leaves has a runCondition it does not
\* know, or depends on what it leaves.  So "Wait for dependencies"
\* (remediation.go:187) puts nothing off, whatever the order, the outcomes and the
\* losses before, and two Runs are enough.
RunsGoAllTheWay ==
    pc = "returned" /\ state.state \notin Verdicts =>
        /\ \E s \in DOMAIN workflow : saved.steps[workflow[s].name] \notin Settled
        /\ \A s \in DOMAIN workflow :
              \/ state.steps[workflow[s].name] \in Settled
              \/ workflow[s].runCondition = "unknown"
              \/ \E d \in DepsOf(workflow[s]) : state.steps[d] \notin Settled

\* A workflow whose runConditions the runner knows comes to a verdict.
WorkflowEnds ==
    (\A s \in DOMAIN workflow : workflow[s].runCondition # "unknown")
        ~> saved.state \in Verdicts

\* Seen from the recorded status a workflow is decided step by step, each once,
\* and in one stroke at the end: lost statuses and repeated Runs do not show.
ImplementsContract == Contract!Spec

\* "OnFailure: Runs if ANY dependency fails" (docs/workflows-and-actions.md).
OnFailureOnlyAfterFailure ==
    \A s \in DOMAIN workflow :
        (/\ losses = 0
         /\ workflow[s].runCondition = "OnFailure"
         /\ workflow[s].dependsOn # <<>>
         /\ ran[workflow[s].name] > 0)
            => \E d \in DepsOf(workflow[s]) : state.steps[d] = "Failed"

\* activeWorkflows shows "the exact state of each step" (docs/srepolicy-crd.md):
\* a step that was executed is not shown as pending, or not at all.
ExecutedIsTracked ==
    losses = 0 => \A n \in Names : ran[n] > 0 => state.steps[n] \in Settled

\* "Already terminal" (remediation.go:121): a verdict is final.
VerdictIsFinal ==
    [][saved.state \in Verdicts => saved'.state = saved.state]_vars

-----------------------------------------------------------------------------
(* The inductive invariant behind the safety properties.                   *)

\* What is recorded of a step is still so in the status Run works on.
OutcomesKept ==
    \A n \in Names : saved.steps[n] \in Settled => state.steps[n] = saved.steps[n]

\* Entries are made for all the steps at once.
TrackedTogether(status) ==
    \/ \A n \in Names : status.steps[n] = "untracked"
    \/ \A n \in Names : status.steps[n] = "untracked" <=> n \notin StepNames(workflow)

\* Validation fails, or all steps are settled and one has failed or none.
VerdictFollows(status) ==
    status.state \in Verdicts =>
        \/ ~Sortable(workflow)
        \/ /\ Contract!AllDecided(workflow, status.steps)
           /\ status.state = Contract!VerdictOn(workflow, status.steps)

\* What holds of the recorded status and of the one Run works on.
Sane(status) ==
    /\ TrackedTogether(status)
    /\ Contract!Coherent(workflow, status.steps)
    /\ ~Sortable(workflow) => status.state \in {"new", "Failed"}
    /\ VerdictFollows(status)

\* Between Runs, and once there is a verdict, there is one status.
OneStatus == pc = "idle" \/ saved.state \in Verdicts => state = saved

\* In a Run every step has an entry, and the order is one of topologicalSort's.
LoopIsSorted ==
    pc = "loop" =>
        /\ Sortable(workflow)
        /\ sortedSteps \in Sorts(workflow)
        /\ state.state = "Running"
        /\ \A n \in StepNames(workflow) : state.steps[n] # "untracked"

\* What the loop's two flags say of the steps behind it.
FlagsSoFar ==
    pc = "loop" /\ allComplete =>
        \A p \in 1..visited :
           LET st == state.steps[sortedSteps[p].name]
           IN  st \in Settled /\ (st = "Failed" => anyFailed)

FailureSeen ==
    pc = "loop" /\ anyFailed =>
        \E s \in DOMAIN workflow : state.steps[workflow[s].name] = "Failed"

\* A Run that has only found settled steps has changed nothing, nor has one
\* that passes the verdict.
NothingNewSoFar ==
    pc = "loop" /\ allComplete =>
        \/ state.steps = saved.steps
        \/ /\ visited = 0
           /\ Len(workflow) > 0
           /\ \A n \in Names : state.steps[n] \notin Settled

VerdictAlone == state.state \in Verdicts => state.steps = saved.steps

\* The executions that are not on record were lost.
RunsAccounted ==
    \A n \in Names :
        ran[n] <= losses + (IF state.steps[n] \in Settled THEN 1 ELSE 0)

\* What the walk has left behind it stays as it is.
LeftForGood ==
    pc = "loop" =>
        \A p \in 1..visited :
           \/ state.steps[sortedSteps[p].name] \in Settled
           \/ sortedSteps[p].runCondition = "unknown"
           \/ \E d \in DepsOf(sortedSteps[p]) : state.steps[d] \notin Settled

\* A Run that has settled something, or waited, had something to settle.
HadToSettle ==
    pc = "loop" /\ ~allComplete =>
        \E s \in DOMAIN workflow : saved.steps[workflow[s].name] \notin Settled

\* Without an order there is a verdict.
ReturnedInOrder ==
    pc = "returned" /\ state.state \notin Verdicts => Sortable(workflow)

Progress ==
    /\ LeftForGood
    /\ HadToSettle
    /\ ReturnedInOrder
    /\ RunsGoAllTheWay

IInv ==
    /\ TypeOK
    /\ OutcomesKept
    /\ Sane(saved)
    /\ Sane(state)
    /\ OneStatus
    /\ LoopIsSorted
    /\ FlagsSoFar
    /\ FailureSeen
    /\ NothingNewSoFar
    /\ VerdictAlone
    /\ RunsAccounted

=============================================================================
