-------------------------- MODULE WorkflowRunnerProofs --------------------------
(* Proofs about module WorkflowRunner, for workflows of any length with any  *)
(* names, dependencies and runConditions, and for any bounds.                *)
EXTENDS WorkflowRunner, TLAPS

-----------------------------------------------------------------------------
(* Workflows and orders.                                                     *)

\* A sequence of steps is a function with steps as its values.
LEMMA WorkflowType ==
    ASSUME NEW w \in Workflows
    PROVE  /\ w \in Seq(Step)
           /\ Len(w) \in Nat /\ DOMAIN w = 1..Len(w)
           /\ \A s \in DOMAIN w : w[s] \in Step
BY RunnerAssumption

\* A step's fields, and when it depends on nothing.
LEMMA StepFields ==
    ASSUME NEW st \in Step
    PROVE  /\ st.name \in Names
           /\ st.runCondition \in Conditions
           /\ st.complete \in BOOLEAN
           /\ DepsOf(st) \subseteq Names
           /\ st.dependsOn = <<>> <=> DepsOf(st) = {}
<1>1. /\ st.name \in Names /\ st.runCondition \in Conditions /\ st.complete \in BOOLEAN
      /\ st.dependsOn \in Seq(Names)
  BY DEF Step
<1>2. Len(st.dependsOn) \in Nat /\ DOMAIN st.dependsOn = 1..Len(st.dependsOn)
  BY <1>1
<1>3. DepsOf(st) \subseteq Names
  BY <1>1 DEF DepsOf
<1>4. st.dependsOn = <<>> => DepsOf(st) = {}
  BY <1>2 DEF DepsOf
<1>5. st.dependsOn # <<>> => 1 \in DOMAIN st.dependsOn
  BY <1>1, <1>2
<1>6. st.dependsOn # <<>> => DepsOf(st) # {}
  BY <1>5 DEF DepsOf
<1> QED
  BY <1>1, <1>3, <1>4, <1>6

\* What is sorted is the workflow's steps, all of them.
LEMMA SortedSteps ==
    ASSUME NEW w \in Workflows, NEW o \in Sorts(w)
    PROVE  /\ o \in Seq(Step) /\ Len(o) = Len(w) /\ DOMAIN o = 1..Len(w)
           /\ \A p \in 1..Len(w) : \E s \in DOMAIN w : o[p] = w[s]
           /\ \A s \in DOMAIN w : \E p \in 1..Len(w) : o[p].name = w[s].name
<1>1. /\ w \in Seq(Step) /\ Len(w) \in Nat
      /\ \A s \in DOMAIN w : w[s] \in Step
  BY WorkflowType
<1>2. /\ o \in [1..Len(w) -> {w[s] : s \in DOMAIN w}]
      /\ IsTopologicalOrder(w, [p \in 1..Len(w) |-> o[p].name])
  BY DEF Sorts
<1>3. o \in [1..Len(w) -> Step]
  BY <1>1, <1>2
<1>4. o \in Seq(Step) /\ Len(o) = Len(w)
  BY <1>1, <1>3
<1>5. \A p \in 1..Len(w) : \E s \in DOMAIN w : o[p] = w[s]
  BY <1>2
<1>6. {o[p].name : p \in 1..Len(w)} = StepNames(w)
  BY <1>2 DEF IsTopologicalOrder
<1>7. \A s \in DOMAIN w : w[s].name \in StepNames(w)
  BY DEF StepNames
<1>8. \A s \in DOMAIN w : \E p \in 1..Len(w) : o[p].name = w[s].name
  BY <1>6, <1>7
<1> QED
  BY <1>3, <1>4, <1>5, <1>8

-----------------------------------------------------------------------------
(* Types and recorded outcomes, also while the workflow is edited.           *)

\* The step at hand is a step of the order.
LEMMA StepAtHand ==
    ASSUME TypeOK, InLoop
    PROVE  /\ step \in Step
           /\ visited + 1 \in 1..Len(sortedSteps)
           /\ visited + 1 \in Nat
<1>1. /\ sortedSteps \in Seq(Step) /\ Len(sortedSteps) \in Nat
      /\ visited \in 0..Len(sortedSteps) /\ visited < Len(sortedSteps)
  BY DEF TypeOK, InLoop
<1>2. visited + 1 \in 1..Len(sortedSteps)
  BY <1>1
<1> QED
  BY <1>1, <1>2 DEF step

\* What is settled was not before.
LEMMA StatusSet ==
    ASSUME TypeOK, Unsettled, NEW outcome \in Settled, SetStepStatus(step.name, outcome)
    PROVE  /\ state' \in Status
           /\ state'.state = state.state
           /\ state.steps[step.name] \notin Settled
           /\ \A n \in Names : n # step.name => state'.steps[n] = state.steps[n]
           /\ state.steps[step.name] # "untracked" => state'.steps[step.name] = outcome
           /\ state.steps[step.name] = "untracked" => state' = state
<1>1. step.name \in Names
  BY StepAtHand, StepFields DEF Unsettled
<1>2. state.steps[step.name] \notin Settled
  BY DEF Unsettled, GetStepState, Settled
<1>3. /\ state \in Status /\ state.steps \in [Names -> Settled \cup {"untracked", "Pending"}]
  BY DEF TypeOK, Status
<1>4. CASE state.steps[step.name] = "untracked"
  BY <1>2, <1>3, <1>4 DEF SetStepStatus
<1>5. CASE state.steps[step.name] # "untracked"
  <2>1. state' = [state EXCEPT !.steps = [state.steps EXCEPT ![step.name] = outcome]]
    BY <1>5 DEF SetStepStatus
  <2>2. [state.steps EXCEPT ![step.name] = outcome] \in [Names -> Settled \cup {"untracked", "Pending"}]
    BY <1>1, <1>3
  <2>3. state' \in Status /\ state'.state = state.state
        /\ state'.steps = [state.steps EXCEPT ![step.name] = outcome]
    BY <1>3, <2>1, <2>2 DEF Status
  <2> QED
    BY <1>1, <1>2, <1>3, <1>5, <2>3
<1> QED
  BY <1>4, <1>5

\* The state Run begins with: nothing settled is touched.
LEMMA BegunStatus ==
    ASSUME TypeOK, Begin
    PROVE  /\ state' \in Status /\ state'.state = "Running"
           /\ \A n \in Names : state.steps[n] # "untracked" => state'.steps[n] = state.steps[n]
           /\ \A n \in Names : state.steps[n] = "untracked" =>
                 state'.steps[n] = IF /\ \A m \in Names : state.steps[m] = "untracked"
                                      /\ n \in StepNames(workflow)
                                   THEN "Pending" ELSE "untracked"
<1> DEFINE begun == [n \in Names |->
                        IF /\ \A m \in Names : state.steps[m] = "untracked"
                           /\ n \in StepNames(workflow)
                        THEN "Pending" ELSE state.steps[n]]
<1>1. state' = [state |-> "Running", steps |-> begun]
  BY DEF Begin
<1>2. state.steps \in [Names -> Settled \cup {"untracked", "Pending"}]
  BY DEF TypeOK, Status
<1>3. begun \in [Names -> Settled \cup {"untracked", "Pending"}]
  BY <1>2
<1>4. state' \in Status /\ state'.state = "Running" /\ state'.steps = begun
  BY <1>1, <1>3 DEF Status
<1> QED
  BY <1>2, <1>4

\* Types and recorded outcomes survive every step of a Run and of the caller, and
\* changes of the workflow.
LEMMA KeptWhenEdited ==
    ASSUME TypeOK, OutcomesKept, [Next \/ EditWorkflow]_vars
    PROVE  TypeOK' /\ OutcomesKept'
<1> USE DEF TypeOK, OutcomesKept
<1>1. CASE Refuse
  <2>1. state' = [state EXCEPT !.state = "Failed"] /\ state \in Status
    BY <1>1 DEF Refuse
  <2>2. state' \in Status /\ state'.steps = state.steps
    BY <2>1 DEF Status, Verdicts
  <2> QED
    BY <1>1, <2>2 DEF Refuse, locals
<1>2. CASE AlreadyTerminal
  BY <1>2 DEF AlreadyTerminal, locals
<1>3. CASE Begin
  <2>1. /\ state' \in Status
        /\ \A n \in Names : state.steps[n] # "untracked" => state'.steps[n] = state.steps[n]
    BY <1>3, BegunStatus
  <2>2. sortedSteps' \in Seq(Step) /\ Len(sortedSteps') \in Nat
    BY <1>3, SortedSteps, WorkflowType DEF Begin
  <2>3. visited' \in 0..Len(sortedSteps') /\ allComplete' \in BOOLEAN /\ anyFailed' \in BOOLEAN
    <3>1. visited' = 0 /\ allComplete' = TRUE /\ anyFailed' = FALSE
      BY <1>3 DEF Begin
    <3> HIDE DEF TypeOK, OutcomesKept
    <3>2. visited' \in 0..Len(sortedSteps')
      BY <2>2, <3>1
    <3>3. allComplete' \in BOOLEAN /\ anyFailed' \in BOOLEAN
      BY <3>1, Zenon
    <3> QED
      BY <3>2, <3>3
  <2>4. TypeOK'
    <3>1. pc' = "loop" /\ UNCHANGED <<workflow, saved, ran, losses, edits>>
      BY <1>3 DEF Begin
    <3> QED
      BY <2>1, <2>2, <2>3, <3>1
  <2>5. OutcomesKept'
    BY <1>3, <2>1 DEF Begin, Settled
  <2> QED
    BY <2>4, <2>5
<1>4. ASSUME InLoop, Continue, allComplete' \in BOOLEAN, anyFailed' \in BOOLEAN,
             ran' \in [Names -> 0..MaxRuns], state' \in Status,
             \A n \in Names : state.steps[n] \in Settled => state'.steps[n] = state.steps[n]
      PROVE  TypeOK' /\ OutcomesKept'
  <2>1. visited + 1 \in 0..Len(sortedSteps)
    BY <1>4, StepAtHand
  <2>2. TypeOK'
    BY <1>4, <2>1 DEF Continue, InLoop
  <2>3. OutcomesKept'
    BY <1>4 DEF Continue
  <2> QED
    BY <2>2, <2>3
<1>5. CASE Pass
  BY <1>4, <1>5 DEF Pass
<1>6. CASE Wait
  BY <1>4, <1>6 DEF Wait, Unsettled
<1>7. CASE LeavePending
  BY <1>4, <1>7 DEF LeavePending, Unsettled
<1>8. CASE Skip
  <2>1. "Skipped" \in Settled
    BY DEF Settled
  <2>2. /\ state' \in Status
        /\ \A n \in Names : state.steps[n] \in Settled => state'.steps[n] = state.steps[n]
    BY <1>8, <2>1, StatusSet DEF Skip
  <2> QED
    BY <1>4, <1>8, <2>2 DEF Skip, Unsettled
<1>9. CASE Execute
  <2> DEFINE outcome == IF step.complete THEN "Succeeded" ELSE "Failed"
  <2>1. outcome \in Settled
    BY DEF Settled
  <2>2. SetStepStatus(step.name, outcome) /\ Unsettled
    BY <1>9 DEF Execute
  <2> HIDE DEF outcome
  <2>3. /\ state' \in Status
        /\ \A n \in Names : state.steps[n] \in Settled => state'.steps[n] = state.steps[n]
    BY <2>1, <2>2, StatusSet
  <2>4. step \in Step /\ step.complete \in BOOLEAN
    BY <1>9, StepAtHand, StepFields DEF Execute, Unsettled
  <2>5. anyFailed' \in BOOLEAN
    BY <1>9, <2>4 DEF Execute
  <2>6. ran' \in [Names -> 0..MaxRuns]
    <3>1. step.name \in Names
      BY <2>4, StepFields
    <3>2. ran[step.name] \in 0..MaxRuns /\ MaxRuns \in Nat
      BY <3>1, RunnerAssumption
    <3>3. (IF ran[step.name] < MaxRuns THEN ran[step.name] + 1 ELSE ran[step.name]) \in 0..MaxRuns
      BY <3>2
    <3> HIDE DEF TypeOK
    <3>4. ran \in [Names -> 0..MaxRuns]
      BY DEF TypeOK
    <3>5. ran' = [ran EXCEPT ![step.name] =
                    IF ran[step.name] < MaxRuns THEN ran[step.name] + 1 ELSE ran[step.name]]
      BY <1>9 DEF Execute
    <3> QED
      BY <3>1, <3>3, <3>4, <3>5
  <2> QED
    BY <1>4, <1>9, <2>3, <2>5, <2>6 DEF Execute, Unsettled
<1>10. CASE EndRun
  <2>1. state' \in Status /\ state'.steps = state.steps
    BY <1>10 DEF EndRun, Status, Verdicts
  <2> QED
    BY <1>10, <2>1 DEF EndRun, locals
<1>11. ASSUME Rest
       PROVE  /\ sortedSteps' \in Seq(Step) /\ visited' \in 0..Len(sortedSteps')
              /\ allComplete' \in BOOLEAN /\ anyFailed' \in BOOLEAN
              /\ workflow' = workflow /\ ran' = ran /\ edits' = edits /\ pc' = "idle"
  <2>1. sortedSteps' = <<>> /\ visited' = 0
    BY <1>11 DEF Rest
  <2>2. sortedSteps' \in Seq(Step) /\ visited' \in 0..Len(sortedSteps')
    BY <2>1
  <2> QED
    BY <1>11, <2>2 DEF Rest
<1>12. CASE Save
  <2>1. saved' = state /\ state' = state /\ losses' = losses
    BY <1>12 DEF Save
  <2> QED
    BY <1>11, <1>12, <2>1 DEF Save
<1>13. CASE Lose
  <2>1. losses' \in 0..MaxLosses
    BY <1>13, RunnerAssumption DEF Lose
  <2>2. saved' = saved /\ state' = saved
    BY <1>13 DEF Lose
  <2> QED
    BY <1>11, <1>13, <2>1, <2>2 DEF Lose
<1>14. CASE EditWorkflow
  <2>1. edits' \in 0..MaxEdits
    BY <1>14, RunnerAssumption DEF EditWorkflow
  <2> QED
    BY <1>14, <2>1 DEF EditWorkflow, locals
<1>15. CASE UNCHANGED vars
  BY <1>15 DEF vars
<1> QED
  BY <1>1, <1>2, <1>3, <1>5, <1>6, <1>7, <1>8, <1>9, <1>10, <1>12, <1>13, <1>14, <1>15
     DEF Next, Run

\* At the start.
LEMMA KeptInitially == Init => TypeOK /\ OutcomesKept
<1> SUFFICES ASSUME Init
             PROVE  TypeOK /\ OutcomesKept
  OBVIOUS
<1>1. New \in Status
  BY DEF New, Status
<1>2. saved = New /\ state = New /\ sortedSteps = <<>>
  BY DEF Init
<1>3. sortedSteps \in Seq(Step) /\ visited \in 0..Len(sortedSteps)
  BY <1>2 DEF Init
<1>4. /\ ran \in [Names -> 0..MaxRuns]
      /\ losses \in 0..MaxLosses /\ edits \in 0..MaxEdits
  BY RunnerAssumption DEF Init
<1>5. TypeOK
  BY <1>1, <1>2, <1>3, <1>4 DEF Init, TypeOK
<1> QED
  BY <1>2, <1>5 DEF OutcomesKept

\* A recorded outcome is never revised, also if users change the workflow
\* (remediation.go:162-168).
THEOREM OutcomesAreFinal == EditedSpec => SettledStays
<1> DEFINE Final == \A n \in Names :
                        saved.steps[n] \in Settled => saved'.steps[n] = saved.steps[n]
<1>1. ASSUME OutcomesKept, [Next \/ EditWorkflow]_vars
      PROVE  Final
  <2>1. CASE Save
    BY <1>1, <2>1 DEF Save, OutcomesKept
  <2>2. CASE ~Save
    <3>1. saved' = saved
      BY <1>1, <2>2 DEF Next, Run, Refuse, AlreadyTerminal, Begin, Pass, Wait, LeavePending,
            Skip, Execute, Continue, EndRun, Lose, EditWorkflow, vars
    <3> QED
      BY <3>1
  <2> QED
    BY <2>1, <2>2
<1>2. OutcomesKept /\ [Next \/ EditWorkflow]_vars => [Final]_vars
  BY <1>1
<1>3. TypeOK /\ OutcomesKept /\ [Next \/ EditWorkflow]_vars => TypeOK' /\ OutcomesKept'
  BY KeptWhenEdited
<1> QED
  BY <1>2, <1>3, KeptInitially, PTL DEF EditedSpec, SettledStays

-----------------------------------------------------------------------------
(* Outcomes and verdicts.                                                    *)

\* A decision rests on the outcomes of the dependencies only.
LEMMA DecisionAgrees ==
    ASSUME NEW st, NEW old, NEW new, \A d \in DepsOf(st) : new[d] = old[d]
    PROVE  Contract!Decision(new, st) = Contract!Decision(old, st)
BY DEF Contract!Decision, Contract!IsToRun, Contract!SomeDepBad, Contract!DepsOf, DepsOf

\* Two statuses with the same outcomes settled are as coherent.
LEMMA CoherenceAgrees ==
    ASSUME workflow \in Workflows, NEW old, NEW new, Contract!Coherent(workflow, old),
           \A n \in Names : new[n] \in Settled <=> old[n] \in Settled,
           \A n \in Names : old[n] \in Settled => new[n] = old[n]
    PROVE  Contract!Coherent(workflow, new)
<1> SUFFICES ASSUME NEW s \in DOMAIN workflow, new[workflow[s].name] \in Settled
             PROVE  /\ workflow[s].runCondition # "unknown"
                    /\ \A d \in DepsOf(workflow[s]) : new[d] \in Settled
                    /\ new[workflow[s].name] = Contract!Decision(new, workflow[s])
  BY DEF Contract!Coherent, Contract!Decided, Settled, Contract!DepsOf, DepsOf
<1>1. workflow[s].name \in Names /\ DepsOf(workflow[s]) \subseteq Names
  BY WorkflowType, StepFields
<1>2. old[workflow[s].name] \in Settled
  BY <1>1
<1>3. /\ workflow[s].runCondition # "unknown"
      /\ \A d \in DepsOf(workflow[s]) : old[d] \in Settled
      /\ old[workflow[s].name] = Contract!Decision(old, workflow[s])
  BY <1>2 DEF Contract!Coherent, Contract!Decided, Settled, Contract!DepsOf, DepsOf
<1>4. \A d \in DepsOf(workflow[s]) : new[d] = old[d]
  BY <1>1, <1>3
<1> QED
  BY <1>1, <1>2, <1>3, <1>4, DecisionAgrees

\* The step at hand is the only one of its name, and one of the workflow's.
LEMMA StepOfWorkflow ==
    ASSUME TypeOK, LoopIsSorted, InLoop
    PROVE  /\ step \in Step /\ step.name \in StepNames(workflow)
           /\ state.steps[step.name] # "untracked"
           /\ \E s \in DOMAIN workflow : step = workflow[s]
           /\ \A s \in DOMAIN workflow : workflow[s].name = step.name => workflow[s] = step
<1>1. Sortable(workflow) /\ sortedSteps \in Sorts(workflow) /\ workflow \in Workflows
  BY DEF LoopIsSorted, InLoop, TypeOK
<1>2. visited + 1 \in 1..Len(workflow)
  BY <1>1, StepAtHand, SortedSteps
<1>3. PICK s \in DOMAIN workflow : step = workflow[s]
  BY <1>1, <1>2, SortedSteps DEF step
<1>4. UniqueNames(workflow)
  BY <1>1 DEF Sortable
<1>5. step.name \in StepNames(workflow)
  BY <1>3 DEF StepNames
<1>6. state.steps[step.name] # "untracked"
  BY <1>5 DEF LoopIsSorted, InLoop
<1>7. \A t \in DOMAIN workflow : workflow[t].name = step.name => workflow[t] = step
  BY <1>3, <1>4 DEF UniqueNames
<1> QED
  BY <1>3, <1>5, <1>6, <1>7, StepAtHand

\* The runner's switch is the contract's rule, once the dependencies are settled.
LEMMA RuleFollowed ==
    ASSUME TypeOK, InLoop, DepsSatisfied
    PROVE  /\ \A d \in DepsOf(step) : state.steps[d] \in Settled
           /\ ShouldRun <=> Contract!IsToRun(state.steps, step)
<1>1. step \in Step /\ DepsOf(step) \subseteq Names
  BY StepAtHand, StepFields
<1>2. state.steps \in [Names -> Settled \cup {"untracked", "Pending"}]
  BY DEF TypeOK, Status
<1>3. \A d \in DepsOf(step) : GetStepState(d) # "Pending"
  BY DEF DepsSatisfied, DepStates
<1>4. \A d \in DepsOf(step) : state.steps[d] \in Settled /\ GetStepState(d) = state.steps[d]
  BY <1>1, <1>2, <1>3 DEF GetStepState
<1>5. AnyDepFailed <=> \E d \in DepsOf(step) : GetStepState(d) \in {"Failed", "Skipped"}
  BY DEF AnyDepFailed, DepStates
<1>6. AnyDepFailed <=> Contract!SomeDepBad(state.steps, step)
  BY <1>4, <1>5 DEF Contract!SomeDepBad, Contract!DepsOf, DepsOf
<1>7. step.dependsOn = <<>> <=> Contract!DepsOf(step) = {}
  BY <1>1, StepFields DEF Contract!DepsOf, DepsOf
<1> HIDE DEF step, AnyDepFailed
<1>8. ShouldRun <=> Contract!IsToRun(state.steps, step)
  BY <1>6, <1>7 DEF ShouldRun, Contract!IsToRun
<1> QED
  BY <1>4, <1>8

\* A step that is settled by the rule leaves the status sane.
LEMMA SettledSanely ==
    ASSUME IInv, Unsettled, DepsSatisfied, step.runCondition # "unknown", workflow' = workflow,
           NEW outcome \in Settled, outcome = Contract!Decision(state.steps, step),
           SetStepStatus(step.name, outcome)
    PROVE  /\ Sane(state)' /\ state' \in Status /\ state'.state = "Running"
           /\ state.steps[step.name] \notin Settled
           /\ state'.steps[step.name] = outcome
           /\ \A n \in Names : n # step.name => state'.steps[n] = state.steps[n]
           /\ \A n \in StepNames(workflow) : state'.steps[n] # "untracked"
<1>1. TypeOK /\ InLoop /\ LoopIsSorted /\ Sortable(workflow) /\ state.state = "Running"
      /\ workflow \in Workflows
  BY DEF IInv, Unsettled, LoopIsSorted, InLoop, TypeOK
<1>2. /\ step \in Step /\ step.name \in StepNames(workflow) /\ step.name \in Names
      /\ state.steps[step.name] # "untracked"
      /\ \A s \in DOMAIN workflow : workflow[s].name = step.name => workflow[s] = step
  BY <1>1, StepOfWorkflow, StepFields
<1>3. /\ state' \in Status /\ state'.state = "Running"
      /\ state.steps[step.name] \notin Settled
      /\ state'.steps[step.name] = outcome
      /\ \A n \in Names : n # step.name => state'.steps[n] = state.steps[n]
  BY <1>1, <1>2, StatusSet
<1>4. \A d \in DepsOf(step) : state.steps[d] \in Settled
  BY <1>1, RuleFollowed
<1>5. DepsOf(step) \subseteq Names
  BY <1>2, StepFields
<1>6. \A d \in DepsOf(step) : d # step.name /\ state'.steps[d] = state.steps[d]
  BY <1>3, <1>4, <1>5
<1> DEFINE name == step.name
           st == step
<1>7. st.runCondition # "unknown" /\ outcome = Contract!Decision(state.steps, st)
  OBVIOUS
<1>8. /\ name \in Names /\ st.name = name
      /\ state.steps[name] \notin Settled /\ state'.steps[name] = outcome
      /\ \A n \in Names : n # name => state'.steps[n] = state.steps[n]
      /\ \A d \in DepsOf(st) : state.steps[d] \in Settled /\ state'.steps[d] = state.steps[d]
      /\ \A s \in DOMAIN workflow : workflow[s].name = name => workflow[s] = st
  BY <1>2, <1>3, <1>4, <1>6
<1>9. state.steps[name] # "untracked" /\ name \in StepNames(workflow)
  BY <1>2
<1> HIDE DEF name, st
<1>10. Contract!Coherent(workflow, state.steps)
  BY DEF IInv, Sane
<1>11. Contract!Coherent(workflow, state'.steps)
  <2> SUFFICES ASSUME NEW s \in DOMAIN workflow, state'.steps[workflow[s].name] \in Settled
               PROVE  /\ workflow[s].runCondition # "unknown"
                      /\ \A d \in DepsOf(workflow[s]) : state'.steps[d] \in Settled
                      /\ state'.steps[workflow[s].name] = Contract!Decision(state'.steps, workflow[s])
    BY DEF Contract!Coherent, Contract!Decided, Settled, Contract!DepsOf, DepsOf
  <2>1. workflow[s].name \in Names /\ DepsOf(workflow[s]) \subseteq Names
    BY <1>1, WorkflowType, StepFields
  <2>2. CASE workflow[s].name = name
    <3>1. workflow[s] = st
      BY <1>8, <2>2
    <3>2. Contract!Decision(state'.steps, st) = Contract!Decision(state.steps, st)
      BY <1>8, DecisionAgrees
    <3> QED
      BY <1>7, <1>8, <2>2, <3>1, <3>2
  <2>3. CASE workflow[s].name # name
    <3>1. state'.steps[workflow[s].name] = state.steps[workflow[s].name]
      BY <1>8, <2>1, <2>3
    <3>2. /\ workflow[s].runCondition # "unknown"
          /\ \A d \in DepsOf(workflow[s]) : state.steps[d] \in Settled
          /\ state.steps[workflow[s].name] = Contract!Decision(state.steps, workflow[s])
      BY <1>10, <3>1
         DEF Contract!Coherent, Contract!Decided, Settled, Contract!DepsOf, DepsOf
    <3>3. \A d \in DepsOf(workflow[s]) : state'.steps[d] = state.steps[d]
      BY <1>8, <2>1, <3>2
    <3>4. Contract!Decision(state'.steps, workflow[s]) = Contract!Decision(state.steps, workflow[s])
      BY <3>3, DecisionAgrees
    <3> QED
      BY <3>1, <3>2, <3>3, <3>4
  <2> QED
    BY <2>2, <2>3
<1>12. \A n \in StepNames(workflow) : n \in Names
  BY <1>1, WorkflowType, StepFields DEF StepNames
<1>13. \A n \in StepNames(workflow) : state.steps[n] # "untracked"
  BY <1>1 DEF LoopIsSorted, InLoop
<1>14. \A n \in Names : state'.steps[n] = "untracked" <=> state.steps[n] = "untracked"
  BY <1>8, <1>9 DEF Settled
<1>15. TrackedTogether(state)'
  BY <1>9, <1>12, <1>13, <1>14 DEF IInv, Sane, TrackedTogether
<1>16. Sane(state)'
  BY <1>1, <1>3, <1>11, <1>15 DEF Sane, VerdictFollows, Verdicts
<1> QED
  BY <1>3, <1>12, <1>13, <1>14, <1>16

-----------------------------------------------------------------------------
(* The inductive invariant.                                                  *)

\* It holds at the start.
LEMMA Initially == Init => IInv
<1> SUFFICES ASSUME Init
             PROVE  IInv
  OBVIOUS
<1>1. TypeOK /\ OutcomesKept /\ workflow \in Workflows
  BY KeptInitially DEF TypeOK
<1>2. saved = New /\ state = New /\ pc = "idle"
  BY DEF Init
<1>3. New.state = "new" /\ \A n \in Names : New.steps[n] = "untracked"
  BY DEF New
<1>4. \A s \in DOMAIN workflow : workflow[s].name \in Names
  BY <1>1, WorkflowType, StepFields
<1> HIDE DEF New
<1>5. Contract!Coherent(workflow, New.steps)
  BY <1>3, <1>4 DEF Contract!Coherent, Contract!Decided
<1>6. TrackedTogether(New) /\ VerdictFollows(New)
  BY <1>3 DEF TrackedTogether, VerdictFollows, Verdicts
<1>7. Sane(saved) /\ Sane(state)
  BY <1>2, <1>3, <1>5, <1>6 DEF Sane
<1>8. RunsAccounted
  <2>1. \A n \in Names : ran[n] = 0 /\ losses = 0 /\ state.steps[n] = "untracked"
    BY <1>2, <1>3 DEF Init
  <2> QED
    BY <2>1 DEF RunsAccounted, Settled
<1> QED
  BY <1>1, <1>2, <1>3, <1>7, <1>8
     DEF IInv, OneStatus, LoopIsSorted, FlagsSoFar, FailureSeen, NothingNewSoFar, VerdictAlone,
         Verdicts

\* A status that is left alone, with the workflow, stays sane.
LEMMA SavedStaysSane ==
    ASSUME Sane(saved), UNCHANGED <<workflow, saved>>
    PROVE  Sane(saved)'
BY DEF Sane, TrackedTogether, VerdictFollows

\* The same of the status Run works on.
LEMMA StateStaysSane ==
    ASSUME Sane(state), UNCHANGED <<workflow, state>>
    PROVE  Sane(state)'
BY DEF Sane, TrackedTogether, VerdictFollows

\* A new verdict on a status that is otherwise left alone.
LEMMA NewVerdictSane ==
    ASSUME Sane(state), workflow' = workflow, state'.steps = state.steps,
           ~Sortable(workflow) => state'.state = "Failed",
           VerdictFollows(state)'
    PROVE  Sane(state)'
BY DEF Sane, TrackedTogether

\* While Run walks there is no verdict on record.
LEMMA NoVerdictInLoop ==
    ASSUME IInv, pc = "loop"
    PROVE  saved.state \notin Verdicts /\ state.state = "Running"
BY DEF IInv, LoopIsSorted, OneStatus, Verdicts

\* A workflow that has no order fails.
LEMMA RefuseKeeps ==
    ASSUME IInv, Refuse, TypeOK', OutcomesKept'
    PROVE  IInv'
<1>1. /\ pc = "idle" /\ pc' = "returned" /\ ~Sortable(workflow)
      /\ state' = [state EXCEPT !.state = "Failed"]
      /\ UNCHANGED <<workflow, saved, ran, losses>>
  BY DEF Refuse
<1>2. state \in Status /\ state = saved
  BY <1>1 DEF IInv, TypeOK, OneStatus
<1>3. state'.state = "Failed" /\ state'.steps = state.steps
  BY <1>1, <1>2 DEF Status
<1>4. VerdictFollows(state)'
  BY <1>1 DEF VerdictFollows
<1>5. Sane(saved)' /\ Sane(state)'
  BY <1>1, <1>3, <1>4, SavedStaysSane, NewVerdictSane DEF IInv
<1>6. OneStatus'
  <2>1. saved.state \in Verdicts => saved.state = "Failed"
    BY <1>1 DEF IInv, Sane, Verdicts
  <2>2. saved.state = "Failed" => state' = state
    BY <1>1, <1>2 DEF Status
  <2> QED
    BY <1>1, <1>2, <2>1, <2>2 DEF OneStatus
<1>7. RunsAccounted' /\ VerdictAlone'
  BY <1>1, <1>2, <1>3 DEF IInv, RunsAccounted, VerdictAlone
<1> QED
  BY <1>1, <1>5, <1>6, <1>7
     DEF IInv, LoopIsSorted, FlagsSoFar, FailureSeen, NothingNewSoFar

\* There is a verdict.
LEMMA AlreadyTerminalKeeps ==
    ASSUME IInv, AlreadyTerminal, TypeOK', OutcomesKept'
    PROVE  IInv'
<1>1. /\ pc = "idle" /\ pc' = "returned"
      /\ UNCHANGED <<workflow, saved, state, ran, losses>>
  BY DEF AlreadyTerminal
<1>2. Sane(saved)' /\ Sane(state)'
  BY <1>1, SavedStaysSane, StateStaysSane DEF IInv
<1> QED
  BY <1>1, <1>2
     DEF IInv, OneStatus, LoopIsSorted, FlagsSoFar, FailureSeen, NothingNewSoFar, VerdictAlone,
         RunsAccounted

\* Run sorts the steps and makes their entries.
LEMMA BeginKeeps ==
    ASSUME IInv, Begin, TypeOK', OutcomesKept'
    PROVE  IInv'
<1>1. /\ pc = "idle" /\ pc' = "loop" /\ Sortable(workflow)
      /\ state.state \notin Verdicts
      /\ sortedSteps' \in Sorts(workflow) /\ visited' = 0
      /\ anyFailed' = FALSE
      /\ UNCHANGED <<workflow, saved, ran, losses>>
  BY DEF Begin
<1>2. /\ TypeOK /\ state \in Status /\ state = saved /\ workflow \in Workflows
      /\ TrackedTogether(state) /\ Contract!Coherent(workflow, state.steps)
  BY <1>1 DEF IInv, TypeOK, OneStatus, Sane
<1>3. /\ state' \in Status /\ state'.state = "Running"
      /\ \A n \in Names : state.steps[n] # "untracked" => state'.steps[n] = state.steps[n]
      /\ \A n \in Names : state.steps[n] = "untracked" =>
            state'.steps[n] = IF /\ \A m \in Names : state.steps[m] = "untracked"
                                 /\ n \in StepNames(workflow)
                              THEN "Pending" ELSE "untracked"
  BY <1>2, BegunStatus
<1>4. \A n \in Names : /\ state'.steps[n] \in Settled <=> state.steps[n] \in Settled
                       /\ state.steps[n] \in Settled => state'.steps[n] = state.steps[n]
  BY <1>3 DEF Settled
<1>5. \A n \in StepNames(workflow) : n \in Names
  BY <1>2, WorkflowType, StepFields DEF StepNames
<1>6. /\ \A n \in Names : n \in StepNames(workflow) => state'.steps[n] # "untracked"
      /\ TrackedTogether(state')
  <2>1. CASE \A n \in Names : state.steps[n] = "untracked"
    BY <1>3, <2>1 DEF TrackedTogether
  <2>2. CASE ~\A n \in Names : state.steps[n] = "untracked"
    <3>1. \A n \in Names : state'.steps[n] = state.steps[n]
      BY <1>3, <2>2
    <3>2. \A n \in Names : state.steps[n] = "untracked" <=> n \notin StepNames(workflow)
      BY <1>2, <2>2 DEF TrackedTogether
    <3> QED
      BY <3>1, <3>2 DEF TrackedTogether
  <2> QED
    BY <2>1, <2>2
<1>7. Contract!Coherent(workflow, state'.steps)
  BY <1>2, <1>4, CoherenceAgrees
<1>8. Sane(state)'
  <2>1. TrackedTogether(state)'
    BY <1>1, <1>6 DEF TrackedTogether
  <2> QED
    BY <1>1, <1>3, <1>7, <2>1 DEF Sane, VerdictFollows, Verdicts
<1>9. Sane(saved)'
  BY <1>1, SavedStaysSane DEF IInv
<1>10. OneStatus' /\ VerdictAlone'
  BY <1>1, <1>2, <1>3 DEF OneStatus, VerdictAlone, Verdicts
<1>11. LoopIsSorted'
  BY <1>1, <1>3, <1>5, <1>6 DEF LoopIsSorted
<1>12. FlagsSoFar' /\ FailureSeen'
  <2>1. \A p \in 1..visited' : FALSE
    BY <1>1
  <2> QED
    BY <1>1, <2>1 DEF FlagsSoFar, FailureSeen
<1>13. NothingNewSoFar'
  <2>1. /\ state.steps \in [Names -> Settled \cup {"untracked", "Pending"}]
        /\ state'.steps \in [Names -> Settled \cup {"untracked", "Pending"}]
    BY <1>2, <1>3 DEF Status
  <2>2. CASE \A n \in Names : state'.steps[n] = state.steps[n]
    <3>1. state'.steps = state.steps
      BY <2>1, <2>2
    <3> QED
      BY <1>1, <1>2, <3>1 DEF NothingNewSoFar
  <2>3. CASE ~\A n \in Names : state'.steps[n] = state.steps[n]
    <3>1. PICK n \in Names : state'.steps[n] # state.steps[n]
      BY <2>3
    <3>2. (\A m \in Names : state.steps[m] = "untracked") /\ n \in StepNames(workflow)
      BY <1>3, <3>1
    <3>3. Len(workflow) > 0
      BY <1>2, <3>2, WorkflowType DEF StepNames
    <3>4. \A m \in Names : state'.steps[m] \notin Settled
      BY <1>4, <3>2 DEF Settled
    <3> QED
      BY <1>1, <3>3, <3>4 DEF NothingNewSoFar
  <2> QED
    BY <2>2, <2>3
<1>14. RunsAccounted'
  BY <1>1, <1>4 DEF IInv, RunsAccounted
<1> QED
  BY <1>8, <1>9, <1>10, <1>11, <1>12, <1>13, <1>14 DEF IInv

\* A visit that leaves the status alone.
LEMMA VisitKeeps ==
    ASSUME IInv, InLoop, Continue, TypeOK', OutcomesKept', UNCHANGED <<state, ran>>,
           FlagsSoFar', FailureSeen', NothingNewSoFar'
    PROVE  IInv'
<1>1. /\ pc = "loop" /\ pc' = "loop"
      /\ UNCHANGED <<workflow, saved, sortedSteps, losses>>
  BY DEF InLoop, Continue
<1>2. Sane(saved)' /\ Sane(state)'
  BY <1>1, SavedStaysSane, StateStaysSane DEF IInv
<1>3. LoopIsSorted'
  BY <1>1 DEF IInv, LoopIsSorted
<1>4. OneStatus' /\ VerdictAlone' /\ RunsAccounted'
  BY <1>1 DEF IInv, OneStatus, VerdictAlone, RunsAccounted
<1> QED
  BY <1>2, <1>3, <1>4 DEF IInv

\* The step was settled in an earlier Run.
LEMMA PassKeeps ==
    ASSUME IInv, Pass, TypeOK', OutcomesKept'
    PROVE  IInv'
<1>1. /\ InLoop /\ Continue /\ UNCHANGED <<state, ran>>
      /\ pc = "loop" /\ pc' = "loop" /\ visited' = visited + 1
      /\ allComplete' = allComplete
      /\ UNCHANGED <<workflow, saved, sortedSteps>>
  BY DEF Pass, InLoop, Continue
<1>2. TypeOK /\ LoopIsSorted /\ visited \in Nat
  BY DEF IInv, TypeOK
<1>3. step.name \in Names /\ (\E s \in DOMAIN workflow : step = workflow[s])
  BY <1>1, <1>2, StepOfWorkflow, StepFields
<1>4. state.steps[step.name] \in Settled /\ GetStepState(step.name) = state.steps[step.name]
  BY DEF Pass, GetStepState, Settled
<1>5. anyFailed' <=> anyFailed \/ state.steps[step.name] = "Failed"
  BY <1>4 DEF Pass
<1>6. FlagsSoFar'
  <2> SUFFICES ASSUME allComplete, NEW p \in 1..(visited + 1)
               PROVE  /\ state.steps[sortedSteps[p].name] \in Settled
                      /\ state.steps[sortedSteps[p].name] = "Failed" => anyFailed'
    BY <1>1 DEF FlagsSoFar
  <2>1. CASE p = visited + 1
    BY <1>4, <1>5, <2>1 DEF step
  <2>2. CASE p # visited + 1
    <3>1. p \in 1..visited
      BY <1>2, <2>2
    <3> QED
      BY <1>1, <1>5, <3>1 DEF IInv, FlagsSoFar
  <2> QED
    BY <2>1, <2>2
<1>7. FailureSeen'
  BY <1>1, <1>3, <1>5 DEF IInv, FailureSeen
<1>8. NothingNewSoFar'
  BY <1>1, <1>3, <1>4 DEF IInv, NothingNewSoFar
<1> QED
  BY <1>1, <1>6, <1>7, <1>8, VisitKeeps

\* The step stays pending.
LEMMA PendingKeeps ==
    ASSUME IInv, Wait \/ LeavePending, TypeOK', OutcomesKept'
    PROVE  IInv'
<1>1. /\ InLoop /\ Continue /\ UNCHANGED <<state, ran, anyFailed>>
      /\ pc = "loop" /\ allComplete' = FALSE /\ workflow' = workflow
  BY DEF Wait, LeavePending, Unsettled, InLoop, Continue
<1>2. FlagsSoFar' /\ NothingNewSoFar'
  BY <1>1 DEF FlagsSoFar, NothingNewSoFar
<1>3. FailureSeen'
  BY <1>1 DEF IInv, FailureSeen
<1> QED
  BY <1>1, <1>2, <1>3, VisitKeeps

\* A visit that settles the step.
LEMMA SettleKeeps ==
    ASSUME IInv, Unsettled, DepsSatisfied, step.runCondition # "unknown",
           NEW outcome \in Settled, outcome = Contract!Decision(state.steps, step),
           SetStepStatus(step.name, outcome), Continue, allComplete' = FALSE,
           anyFailed' => anyFailed \/ outcome = "Failed",
           TypeOK', OutcomesKept',
           \A n \in Names : n # step.name => ran'[n] = ran[n],
           ran'[step.name] <= ran[step.name] + 1
    PROVE  IInv'
<1>1. /\ InLoop /\ pc = "loop" /\ pc' = "loop"
      /\ UNCHANGED <<workflow, saved, sortedSteps, losses>>
  BY DEF Unsettled, InLoop, Continue
<1>2. /\ Sane(state)' /\ state' \in Status /\ state'.state = "Running"
      /\ state.steps[step.name] \notin Settled
      /\ state'.steps[step.name] = outcome
      /\ \A n \in Names : n # step.name => state'.steps[n] = state.steps[n]
      /\ \A n \in StepNames(workflow) : state'.steps[n] # "untracked"
  BY <1>1, SettledSanely
<1>3. /\ TypeOK /\ LoopIsSorted /\ workflow \in Workflows
      /\ ran \in [Names -> 0..MaxRuns] /\ losses \in Nat /\ MaxRuns \in Nat
      /\ ran' \in [Names -> 0..MaxRuns]
  BY RunnerAssumption DEF IInv, TypeOK
<1>4. /\ step.name \in Names
      /\ \E s \in DOMAIN workflow : step = workflow[s]
      /\ \A s \in DOMAIN workflow : workflow[s].name \in Names
  BY <1>1, <1>3, StepOfWorkflow, StepFields, WorkflowType
<1> DEFINE name == step.name
<1>5. /\ name \in Names
      /\ state.steps[name] \notin Settled /\ state'.steps[name] = outcome
      /\ \A n \in Names : n # name => state'.steps[n] = state.steps[n]
      /\ \A n \in Names : n # name => ran'[n] = ran[n]
      /\ ran'[name] <= ran[name] + 1
      /\ \E s \in DOMAIN workflow : name = workflow[s].name
  BY <1>2, <1>4
<1> HIDE DEF name
<1>6. Sane(saved)'
  BY <1>1, SavedStaysSane DEF IInv
<1>7. OneStatus' /\ VerdictAlone'
  BY <1>1, <1>2, NoVerdictInLoop DEF OneStatus, VerdictAlone, Verdicts
<1>8. LoopIsSorted'
  BY <1>1, <1>2, <1>3 DEF LoopIsSorted
<1>9. FlagsSoFar' /\ NothingNewSoFar'
  BY DEF FlagsSoFar, NothingNewSoFar
<1>10. FailureSeen'
  <2> SUFFICES ASSUME anyFailed'
               PROVE  \E s \in DOMAIN workflow : state'.steps[workflow[s].name] = "Failed"
    BY <1>1 DEF FailureSeen
  <2>1. CASE outcome = "Failed"
    BY <1>5, <2>1
  <2>2. CASE outcome # "Failed"
    <3>1. PICK s \in DOMAIN workflow : state.steps[workflow[s].name] = "Failed"
      BY <1>1, <2>2 DEF IInv, FailureSeen
    <3>2. workflow[s].name # name /\ workflow[s].name \in Names
      BY <1>4, <1>5, <3>1 DEF Settled
    <3> QED
      BY <1>5, <3>1, <3>2
  <2> QED
    BY <2>1, <2>2
<1>11. RunsAccounted'
  <2> SUFFICES ASSUME NEW n \in Names
               PROVE  ran'[n] <= losses + (IF state'.steps[n] \in Settled THEN 1 ELSE 0)
    BY <1>1 DEF RunsAccounted
  <2>1. ran[n] <= losses + (IF state.steps[n] \in Settled THEN 1 ELSE 0)
    BY DEF IInv, RunsAccounted
  <2>2. CASE n = name
    <3>1. ran[name] \in Int /\ ran'[name] \in Int
      BY <1>3, <1>5
    <3>2. ran[name] <= losses
      BY <1>3, <1>5, <2>1, <2>2
    <3> QED
      BY <1>3, <1>5, <2>2, <3>1, <3>2
  <2>3. CASE n # name
    BY <1>5, <2>1, <2>3
  <2> QED
    BY <2>2, <2>3
<1> QED
  BY <1>2, <1>6, <1>7, <1>8, <1>9, <1>10, <1>11 DEF IInv

\* The outcome of the dependencies is not the one the step is for.
LEMMA SkipKeeps ==
    ASSUME IInv, Skip, TypeOK', OutcomesKept'
    PROVE  IInv'
<1>1. /\ Unsettled /\ DepsSatisfied /\ step.runCondition # "unknown" /\ ~ShouldRun
      /\ SetStepStatus(step.name, "Skipped")
      /\ Continue /\ allComplete' = FALSE /\ UNCHANGED <<anyFailed, ran>>
  BY DEF Skip
<1>2. TypeOK /\ InLoop
  BY <1>1 DEF IInv, Unsettled
<1>3. "Skipped" = Contract!Decision(state.steps, step)
  BY <1>1, <1>2, RuleFollowed DEF Contract!Decision
<1>4. "Skipped" \in Settled
  BY DEF Settled
<1>5. ran'[step.name] <= ran[step.name] + 1
  <2>1. step.name \in Names /\ ran \in [Names -> 0..MaxRuns] /\ MaxRuns \in Nat
    BY <1>2, StepAtHand, StepFields, RunnerAssumption DEF TypeOK
  <2>2. ran[step.name] \in Int
    BY <2>1
  <2> QED
    BY <1>1, <2>2
<1> HIDE DEF step
<1> QED
  BY <1>1, <1>3, <1>4, <1>5, SettleKeeps

\* The action is executed.
LEMMA ExecuteKeeps ==
    ASSUME IInv, Execute, TypeOK', OutcomesKept'
    PROVE  IInv'
<1> DEFINE outcome == IF step.complete THEN "Succeeded" ELSE "Failed"
<1>1. /\ Unsettled /\ DepsSatisfied /\ ShouldRun
      /\ SetStepStatus(step.name, outcome)
      /\ Continue /\ allComplete' = FALSE
      /\ anyFailed' = (anyFailed \/ ~step.complete)
      /\ ran' = [ran EXCEPT ![step.name] =
                   IF ran[step.name] < MaxRuns THEN ran[step.name] + 1 ELSE ran[step.name]]
  BY DEF Execute
<1>2. TypeOK /\ InLoop
  BY <1>1 DEF IInv, Unsettled
<1>3. outcome = Contract!Decision(state.steps, step)
  BY <1>1, <1>2, RuleFollowed DEF Contract!Decision
<1>4. outcome \in Settled
  BY DEF Settled
<1>5. step.runCondition # "unknown"
  BY <1>1 DEF ShouldRun
<1>6. anyFailed' => anyFailed \/ outcome = "Failed"
  BY <1>1
<1>7. step.name \in Names /\ ran \in [Names -> 0..MaxRuns] /\ MaxRuns \in Nat
  BY <1>2, StepAtHand, StepFields, RunnerAssumption DEF TypeOK
<1> HIDE DEF step, outcome
<1>8. ran[step.name] \in Int
  BY <1>7
<1>9. ran'[step.name] <= ran[step.name] + 1
  BY <1>1, <1>7, <1>8
<1>10. \A n \in Names : n # step.name => ran'[n] = ran[n]
  BY <1>1, <1>7
<1> QED
  BY <1>1, <1>3, <1>4, <1>5, <1>6, <1>9, <1>10, SettleKeeps

\* The loop is over.
LEMMA EndRunKeeps ==
    ASSUME IInv, EndRun, TypeOK', OutcomesKept'
    PROVE  IInv'
<1>1. /\ pc = "loop" /\ pc' = "returned" /\ visited = Len(sortedSteps)
      /\ UNCHANGED <<workflow, saved, ran, losses>>
  BY DEF EndRun
<1>2. /\ state \in Status /\ workflow \in Workflows
      /\ Sortable(workflow) /\ sortedSteps \in Sorts(workflow)
      /\ saved.state \notin Verdicts /\ state.state = "Running"
  BY <1>1, NoVerdictInLoop DEF IInv, TypeOK, LoopIsSorted
<1>3. state'.steps = state.steps
  BY <1>2 DEF EndRun, Status
<1>4. VerdictFollows(state)' /\ VerdictAlone'
  <2>1. CASE ~allComplete
    <3>1. state' = state
      BY <2>1 DEF EndRun
    <3> QED
      BY <1>2, <3>1 DEF VerdictFollows, VerdictAlone, Verdicts
  <2>2. CASE allComplete
    <3>1. state'.state = IF anyFailed THEN "Failed" ELSE "Succeeded"
      BY <1>2, <2>2 DEF EndRun, Status
    <3>2. \A s \in DOMAIN workflow :
             /\ state.steps[workflow[s].name] \in Settled
             /\ state.steps[workflow[s].name] = "Failed" => anyFailed
      <4> SUFFICES ASSUME NEW s \in DOMAIN workflow
                   PROVE  /\ state.steps[workflow[s].name] \in Settled
                          /\ state.steps[workflow[s].name] = "Failed" => anyFailed
        OBVIOUS
      <4>1. PICK p \in 1..Len(workflow) : sortedSteps[p].name = workflow[s].name
        BY <1>2, SortedSteps
      <4>2. p \in 1..visited
        BY <1>1, <1>2, SortedSteps
      <4> QED
        BY <1>1, <2>2, <4>1, <4>2 DEF IInv, FlagsSoFar
    <3>3. anyFailed <=> \E s \in DOMAIN workflow : state.steps[workflow[s].name] = "Failed"
      BY <1>1, <3>2 DEF IInv, FailureSeen
    <3>4. Contract!AllDecided(workflow, state.steps)
      BY <3>2 DEF Contract!AllDecided, Contract!Decided, Settled
    <3>5. state'.state = Contract!VerdictOn(workflow, state.steps)
      BY <3>1, <3>3 DEF Contract!VerdictOn
    <3>6. VerdictFollows(state)'
      BY <1>1, <1>3, <3>4, <3>5 DEF VerdictFollows
    <3>7. state.steps = saved.steps
      <4>1. visited = Len(workflow) /\ Len(workflow) \in Nat
        BY <1>1, <1>2, SortedSteps, WorkflowType
      <4> QED
        BY <1>1, <2>2, <4>1 DEF IInv, NothingNewSoFar
    <3>8. VerdictAlone'
      BY <1>1, <1>3, <3>7 DEF VerdictAlone
    <3> QED
      BY <3>6, <3>8
  <2> QED
    BY <2>1, <2>2
<1>5. Sane(saved)' /\ Sane(state)'
  BY <1>1, <1>2, <1>3, <1>4, SavedStaysSane, NewVerdictSane DEF IInv
<1>6. OneStatus'
  BY <1>1, <1>2 DEF OneStatus
<1>7. RunsAccounted'
  BY <1>1, <1>3 DEF IInv, RunsAccounted
<1> QED
  BY <1>1, <1>4, <1>5, <1>6, <1>7
     DEF IInv, LoopIsSorted, FlagsSoFar, FailureSeen, NothingNewSoFar

\* The status is recorded, or lost.
LEMMA RestKeeps ==
    ASSUME IInv, Save \/ Lose, TypeOK', OutcomesKept'
    PROVE  IInv'
<1>1. /\ saved' = state' /\ (state' = state \/ state' = saved) /\ pc' = "idle"
      /\ UNCHANGED <<workflow, ran>>
  BY DEF Save, Lose, Rest
<1>2. Sane(state') /\ Sane(saved')
  BY <1>1 DEF IInv
<1>3. Sane(saved)' /\ Sane(state)'
  BY <1>1, <1>2 DEF Sane, TrackedTogether, VerdictFollows
<1>4. RunsAccounted'
  <2>1. CASE Save
    BY <1>1, <2>1 DEF Save, IInv, RunsAccounted
  <2>2. CASE Lose
    <3>1. losses' = losses + 1 /\ losses \in Nat
      BY <2>2, RunnerAssumption DEF Lose, IInv, TypeOK
    <3>2. \A n \in Names : ran[n] \in Int
      BY RunnerAssumption DEF IInv, TypeOK
    <3> QED
      BY <1>1, <3>1, <3>2 DEF IInv, RunsAccounted
  <2> QED
    BY <2>1, <2>2
<1> QED
  BY <1>1, <1>3, <1>4
     DEF IInv, OneStatus, LoopIsSorted, FlagsSoFar, FailureSeen, NothingNewSoFar, VerdictAlone

\* Every step keeps the invariant.
LEMMA Inductive == IInv /\ [Next]_vars => IInv'
<1> SUFFICES ASSUME IInv, [Next]_vars
             PROVE  IInv'
  OBVIOUS
<1>1. TypeOK' /\ OutcomesKept'
  BY KeptWhenEdited DEF IInv
<1>2. CASE UNCHANGED vars
  <2>1. UNCHANGED <<workflow, saved, state, pc, sortedSteps, visited, allComplete, anyFailed,
                    ran, losses>>
    BY <1>2 DEF vars
  <2>2. Sane(saved)' /\ Sane(state)'
    BY <2>1, SavedStaysSane, StateStaysSane DEF IInv
  <2> QED
    BY <1>1, <2>1, <2>2
       DEF IInv, OneStatus, LoopIsSorted, FlagsSoFar, FailureSeen, NothingNewSoFar, VerdictAlone,
           RunsAccounted
<1> QED
  BY <1>1, <1>2, RefuseKeeps, AlreadyTerminalKeeps, BeginKeeps, PassKeeps, PendingKeeps,
     SkipKeeps, ExecuteKeeps, EndRunKeeps, RestKeeps
     DEF Next, Run

-----------------------------------------------------------------------------
(* The theorems.                                                             *)

\* The invariant holds throughout, for Run with whatever statuses are lost between
\* its calls (remediation.go:103-236).
THEOREM Invariance == Spec => []IInv
BY Initially, Inductive, PTL DEF Spec

\* What is settled follows by the steps' runConditions from dependencies that were
\* settled before, at every moment of every Run (remediation.go:158-223).
THEOREM StatusCoherent == Spec => []StatusIsCoherent
<1>1. IInv => StatusIsCoherent
  BY DEF IInv, Sane, StatusIsCoherent
<1> QED
  BY <1>1, Invariance, PTL

\* A workflow succeeds only when all of its steps are settled and none has failed,
\* and fails only if one has or it has no order (remediation.go:110-118, 226-233).
THEOREM VerdictIsJustified == Spec => []VerdictJustified
<1>1. ASSUME IInv
      PROVE  VerdictJustified
  <2>1. Sane(state)
    BY <1>1 DEF IInv
  <2>2. ASSUME state.state = "Succeeded", NEW s \in DOMAIN workflow
        PROVE  state.steps[workflow[s].name] \in {"Succeeded", "Skipped"}
    <3>1. /\ Contract!AllDecided(workflow, state.steps)
          /\ Contract!VerdictOn(workflow, state.steps) = "Succeeded"
      BY <2>1, <2>2 DEF Sane, VerdictFollows, Verdicts
    <3>2. state.steps[workflow[s].name] # "Failed"
      BY <3>1 DEF Contract!VerdictOn
    <3> QED
      BY <3>1, <3>2 DEF Contract!AllDecided, Contract!Decided
  <2>3. ASSUME state.state = "Failed", Sortable(workflow)
        PROVE  \E s \in DOMAIN workflow : state.steps[workflow[s].name] = "Failed"
    <3>1. Contract!VerdictOn(workflow, state.steps) = "Failed"
      BY <2>1, <2>3 DEF Sane, VerdictFollows, Verdicts
    <3> QED
      BY <3>1 DEF Contract!VerdictOn
  <2> QED
    BY <2>2, <2>3 DEF VerdictJustified
<1> QED
  BY <1>1, Invariance, PTL

\* An action is executed once, and once more for each status that was lost
\* (remediation.go:201-223).
THEOREM ReexecutionBounded == Spec => []ReexecutionOnlyAfterLoss
<1>1. ASSUME IInv, NEW n \in Names
      PROVE  ran[n] <= 1 + losses
  <2>1. ran[n] <= losses + (IF state.steps[n] \in Settled THEN 1 ELSE 0)
    BY <1>1 DEF IInv, RunsAccounted
  <2>2. ran[n] \in Int /\ losses \in Int
    BY <1>1, RunnerAssumption DEF IInv, TypeOK
  <2> QED
    BY <2>1, <2>2
<1>2. IInv => ReexecutionOnlyAfterLoss
  BY <1>1 DEF ReexecutionOnlyAfterLoss
<1> QED
  BY <1>2, Invariance, PTL

\* Seen from the recorded status the workflow is decided step by step, each once, and
\* its verdict is passed once, when all are: cut-off Runs and lost statuses do not
\* show (remediation.go:103-236, docs/workflows-and-actions.md).
THEOREM Refinement == Spec => ImplementsContract
<1>1. Init => Contract!Init
  <2> SUFFICES ASSUME Init
               PROVE  Contract!Init
    OBVIOUS
  <2>1. saved.state = "new" /\ saved.steps = [n \in Names |-> "untracked"]
    BY DEF Init, New
  <2> QED
    BY <2>1 DEF Contract!Init, Contract!Decided, Verdicts
<1>2. ASSUME IInv, [Next]_vars
      PROVE  [Contract!Next]_(Contract!vars)
  <2>1. CASE ~Save
    <3>1. saved' = saved /\ workflow' = workflow
      BY <1>2, <2>1 DEF Next, Run, Refuse, AlreadyTerminal, Begin, Pass, Wait, LeavePending,
            Skip, Execute, Continue, EndRun, Lose, Rest, vars
    <3> QED
      BY <3>1 DEF Contract!vars
  <2>2. CASE Save
    <3>1. saved' = state /\ workflow' = workflow
      BY <2>2 DEF Save, Rest
    <3>2. CASE saved.state \in Verdicts
      <4>1. saved' = saved
        BY <1>2, <3>1, <3>2 DEF IInv, OneStatus
      <4> QED
        BY <3>1, <4>1 DEF Contract!vars
    <3>3. CASE saved.state \notin Verdicts /\ state.state \notin Verdicts
      <4>1. saved.steps \in [Names -> Settled \cup {"untracked", "Pending"}]
        BY <1>2 DEF IInv, TypeOK, Status
      <4>2. \A n \in DOMAIN saved.steps :
               saved.steps[n] \in Contract!Decided => saved'.steps[n] = saved.steps[n]
        BY <1>2, <3>1, <4>1 DEF IInv, OutcomesKept, Contract!Decided, Settled
      <4>3. Contract!Coherent(workflow, saved'.steps)
        BY <1>2, <3>1 DEF IInv, Sane
      <4>4. Contract!Record
        BY <3>1, <3>3, <4>2, <4>3 DEF Contract!Record
      <4> QED
        BY <4>4 DEF Contract!Next
    <3>4. CASE saved.state \notin Verdicts /\ state.state \in Verdicts
      <4>1. saved'.steps = saved.steps
        BY <1>2, <3>1, <3>4 DEF IInv, VerdictAlone
      <4>2. CASE ~Sortable(workflow)
        <5>1. saved'.state = "Failed"
          BY <1>2, <3>1, <3>4, <4>2 DEF IInv, Sane, Verdicts
        <5>2. ~Contract!Sortable(workflow)
          BY <4>2 DEF Sortable, UniqueNames, KnownDeps, HasCycle, StepNames, DepsOf,
                Contract!Sortable, Contract!UniqueNames, Contract!KnownDeps, Contract!HasCycle,
                Contract!StepNames, Contract!DepsOf
        <5>3. Contract!Refuse
          BY <3>1, <3>4, <4>1, <5>1, <5>2 DEF Contract!Refuse, Verdicts
        <5> QED
          BY <5>3 DEF Contract!Next
      <4>3. CASE Sortable(workflow)
        <5>1. /\ Contract!AllDecided(workflow, saved.steps)
              /\ saved'.state = Contract!VerdictOn(workflow, saved.steps)
          BY <1>2, <3>1, <3>4, <4>1, <4>3 DEF IInv, Sane, VerdictFollows
        <5>2. Contract!Conclude
          BY <3>1, <3>4, <4>1, <5>1 DEF Contract!Conclude
        <5> QED
          BY <5>2 DEF Contract!Next
      <4> QED
        BY <4>2, <4>3
    <3> QED
      BY <3>2, <3>3, <3>4
  <2> QED
    BY <2>1, <2>2
<1>3. IInv /\ [Next]_vars => [Contract!Next]_(Contract!vars)
  BY <1>2
<1> QED
  BY <1>1, <1>3, Invariance, PTL DEF Spec, ImplementsContract, Contract!Spec

-----------------------------------------------------------------------------
(* How far a Run goes.                                                       *)

\* The steps behind the walk are others than the one at hand, and none of them
\* depends on it.
LEMMA NoneBehindWaits ==
    ASSUME TypeOK, LoopIsSorted, InLoop, NEW p \in 1..visited
    PROVE  /\ sortedSteps[p] \in Step
           /\ sortedSteps[p].name # step.name
           /\ step.name \notin DepsOf(sortedSteps[p])
<1>1. /\ workflow \in Workflows /\ sortedSteps \in Sorts(workflow)
      /\ visited \in Nat /\ visited + 1 \in 1..Len(workflow)
  BY StepAtHand, SortedSteps DEF LoopIsSorted, InLoop, TypeOK
<1>2. p \in 1..Len(workflow) /\ p # visited + 1 /\ Len(workflow) \in Nat
  BY <1>1, WorkflowType
<1> DEFINE order == [q \in 1..Len(workflow) |-> sortedSteps[q].name]
<1>3. /\ \A q, r \in 1..Len(workflow) : order[q] = order[r] => q = r
      /\ \A q \in 1..Len(workflow), i \in DOMAIN workflow :
            workflow[i].name = order[q] =>
                \A d \in DepsOf(workflow[i]) : \E r \in 1..(q - 1) : order[r] = d
  BY <1>1 DEF Sorts, IsTopologicalOrder
<1>4. PICK i \in DOMAIN workflow : sortedSteps[p] = workflow[i]
  BY <1>1, <1>2, SortedSteps
<1>5. sortedSteps[p].name # step.name
  BY <1>1, <1>2, <1>3 DEF step
<1>6. ASSUME step.name \in DepsOf(sortedSteps[p])
      PROVE  FALSE
  <2>1. PICK r \in 1..(p - 1) : order[r] = step.name
    <3>1. workflow[i].name = order[p] /\ step.name \in DepsOf(workflow[i])
      BY <1>2, <1>4, <1>6
    <3> HIDE DEF order
    <3> QED
      BY <1>2, <1>3, <3>1
  <2>2. r \in 1..Len(workflow) /\ r # visited + 1
    BY <1>1, <1>2
  <2> QED
    BY <1>1, <1>3, <2>1, <2>2 DEF step
<1>7. sortedSteps[p] \in Step
  BY <1>1, <1>4, WorkflowType
<1> QED
  BY <1>5, <1>6, <1>7

\* A turn that settles its step, or has a reason to leave it, leaves it for good.
LEMMA TurnLeaves ==
    ASSUME TypeOK, LoopIsSorted, LeftForGood, InLoop, Continue,
           \A n \in Names : n # step.name => state'.steps[n] = state.steps[n],
           \/ state'.steps[step.name] \in Settled
           \/ state' = state /\ step.runCondition = "unknown"
           \/ state' = state /\ \E d \in DepsOf(step) : state.steps[d] \notin Settled
    PROVE  LeftForGood'
<1>1. /\ pc = "loop" /\ visited \in Nat /\ visited' = visited + 1
      /\ sortedSteps' = sortedSteps
  BY DEF InLoop, Continue, TypeOK
<1>2. ASSUME NEW p \in 1..visited'
      PROVE  \/ state'.steps[sortedSteps[p].name] \in Settled
             \/ sortedSteps[p].runCondition = "unknown"
             \/ \E d \in DepsOf(sortedSteps[p]) : state'.steps[d] \notin Settled
  <2>1. CASE p = visited + 1
    BY <2>1 DEF step
  <2>2. CASE p # visited + 1
    <3>1. p \in 1..visited
      BY <1>1, <2>2
    <3>2. \/ state.steps[sortedSteps[p].name] \in Settled
          \/ sortedSteps[p].runCondition = "unknown"
          \/ \E d \in DepsOf(sortedSteps[p]) : state.steps[d] \notin Settled
      BY <1>1, <3>1 DEF LeftForGood
    <3>3. /\ sortedSteps[p].name \in Names /\ DepsOf(sortedSteps[p]) \subseteq Names
          /\ sortedSteps[p].name # step.name /\ step.name \notin DepsOf(sortedSteps[p])
      BY <3>1, NoneBehindWaits, StepFields
    <3> QED
      BY <3>2, <3>3
  <2> QED
    BY <2>1, <2>2
<1> QED
  BY <1>1, <1>2 DEF LeftForGood

\* A step that is not settled in a Run is not settled on record.
LEMMA UnsettledOnRecord ==
    ASSUME IInv, Unsettled
    PROVE  \E s \in DOMAIN workflow : saved.steps[workflow[s].name] \notin Settled
<1>1. /\ step \in Step /\ state.steps[step.name] # "untracked"
      /\ \E s \in DOMAIN workflow : step = workflow[s]
  BY StepOfWorkflow DEF IInv, Unsettled
<1>2. step.name \in Names
  BY <1>1, StepFields
<1>3. state.steps[step.name] \notin Settled
  BY <1>1 DEF Unsettled, GetStepState
<1>4. saved.steps[step.name] \notin Settled
  BY <1>2, <1>3 DEF IInv, OutcomesKept
<1> QED
  BY <1>1, <1>4

\* What is settled now, and what was, is told by the turn.
LEMMA TurnProgress ==
    ASSUME IInv, LeftForGood, HadToSettle, Pass \/ Wait \/ LeavePending \/ Skip \/ Execute
    PROVE  LeftForGood' /\ HadToSettle' /\ pc' = "loop"
<1>1. /\ InLoop /\ Continue /\ TypeOK /\ LoopIsSorted
      /\ pc' = "loop" /\ workflow' = workflow /\ saved' = saved
  BY DEF IInv, Pass, Wait, LeavePending, Skip, Execute, Unsettled, InLoop, Continue
<1>2. /\ step \in Step /\ step.name \in Names /\ DepsOf(step) \subseteq Names
      /\ state.steps[step.name] # "untracked"
  BY <1>1, StepOfWorkflow, StepFields
<1>3. CASE Pass
  <2>1. state' = state /\ state.steps[step.name] \in Settled
    BY <1>2, <1>3 DEF Pass, GetStepState
  <2>2. allComplete' = allComplete
    BY <1>3 DEF Pass
  <2> QED
    BY <1>1, <2>1, <2>2, TurnLeaves DEF HadToSettle, InLoop
<1>4. CASE ~Pass
  <2>1. Unsettled
    BY <1>4 DEF Wait, LeavePending, Skip, Execute
  <2>2. HadToSettle'
    BY <1>1, <2>1, UnsettledOnRecord DEF HadToSettle
  <2>3. CASE Wait
    <3>1. state' = state /\ "Pending" \in DepStates
      BY <2>3 DEF Wait, DepsSatisfied
    <3>2. PICK d \in DepsOf(step) : GetStepState(d) = "Pending"
      BY <3>1 DEF DepStates
    <3>3. state.steps[d] \notin Settled
      BY <3>2 DEF GetStepState, Settled
    <3> QED
      BY <1>1, <2>2, <3>1, <3>2, <3>3, TurnLeaves
  <2>4. CASE LeavePending
    BY <1>1, <2>2, <2>4, TurnLeaves DEF LeavePending
  <2>5. CASE Skip \/ Execute
    <3>1. PICK outcome \in Settled : SetStepStatus(step.name, outcome)
      BY <2>5 DEF Skip, Execute, Settled
    <3>2. /\ \A n \in Names : n # step.name => state'.steps[n] = state.steps[n]
          /\ state'.steps[step.name] = outcome
      BY <1>1, <1>2, <2>1, <3>1, StatusSet
    <3> QED
      BY <1>1, <2>2, <3>1, <3>2, TurnLeaves
  <2> QED
    BY <1>4, <2>3, <2>4, <2>5
<1> QED
  BY <1>3, <1>4

\* A Run that ends without a verdict has seen every step.
LEMMA EndProgress ==
    ASSUME IInv, LeftForGood, HadToSettle, EndRun
    PROVE  RunsGoAllTheWay'
<1>1. /\ pc = "loop" /\ visited = Len(sortedSteps)
      /\ UNCHANGED <<workflow, saved>>
      /\ workflow \in Workflows /\ sortedSteps \in Sorts(workflow) /\ Sortable(workflow)
  BY DEF EndRun, IInv, TypeOK, LoopIsSorted
<1>2. CASE allComplete
  <2>1. state'.state \in Verdicts
    BY <1>2 DEF EndRun, IInv, TypeOK, Status, Verdicts
  <2> QED
    BY <2>1 DEF RunsGoAllTheWay
<1>3. CASE ~allComplete
  <2>1. state' = state
    BY <1>3 DEF EndRun
  <2>2. \E s \in DOMAIN workflow : saved.steps[workflow[s].name] \notin Settled
    BY <1>1, <1>3 DEF HadToSettle
  <2>3. ASSUME NEW s \in DOMAIN workflow
        PROVE  \/ state.steps[workflow[s].name] \in Settled
               \/ workflow[s].runCondition = "unknown"
               \/ \E d \in DepsOf(workflow[s]) : state.steps[d] \notin Settled
    <3>1. PICK p \in 1..Len(workflow) : sortedSteps[p].name = workflow[s].name
      BY <1>1, SortedSteps
    <3>2. PICK t \in DOMAIN workflow : sortedSteps[p] = workflow[t]
      BY <1>1, SortedSteps
    <3>3. sortedSteps[p] = workflow[s]
      BY <1>1, <3>1, <3>2 DEF Sortable, UniqueNames
    <3>4. p \in 1..visited
      BY <1>1, SortedSteps
    <3> QED
      BY <1>1, <3>3, <3>4 DEF LeftForGood
  <2> QED
    BY <1>1, <2>1, <2>2, <2>3 DEF RunsGoAllTheWay
<1> QED
  BY <1>2, <1>3

\* Every step keeps the facts.
LEMMA ProgressKept == IInv /\ Progress /\ [Next]_vars => Progress'
<1> SUFFICES ASSUME IInv, Progress, [Next]_vars
             PROVE  Progress'
  OBVIOUS
<1> USE DEF Progress
<1>1. CASE UNCHANGED vars
  BY <1>1 DEF vars, locals, LeftForGood, HadToSettle, ReturnedInOrder, RunsGoAllTheWay
<1>2. CASE Refuse \/ AlreadyTerminal
  <2>1. pc' = "returned" /\ state'.state \in Verdicts
    BY <1>2 DEF Refuse, AlreadyTerminal, IInv, TypeOK, Status, Verdicts
  <2> QED
    BY <2>1 DEF LeftForGood, HadToSettle, ReturnedInOrder, RunsGoAllTheWay
<1>3. CASE Begin
  BY <1>3 DEF Begin, LeftForGood, HadToSettle, ReturnedInOrder, RunsGoAllTheWay
<1>4. CASE Pass \/ Wait \/ LeavePending \/ Skip \/ Execute
  BY <1>4, TurnProgress DEF ReturnedInOrder, RunsGoAllTheWay
<1>5. CASE EndRun
  <2>1. pc' = "returned" /\ Sortable(workflow) /\ workflow' = workflow
    BY <1>5 DEF EndRun, IInv, LoopIsSorted
  <2> QED
    BY <1>5, <2>1, EndProgress DEF LeftForGood, HadToSettle, ReturnedInOrder
<1>6. CASE Save \/ Lose
  <2>1. pc' = "idle"
    BY <1>6 DEF Save, Lose, Rest
  <2> QED
    BY <2>1 DEF LeftForGood, HadToSettle, ReturnedInOrder, RunsGoAllTheWay
<1> QED
  BY <1>1, <1>2, <1>3, <1>4, <1>5, <1>6 DEF Next, Run

\* The facts hold throughout.
LEMMA ProgressInvariance == Spec => []Progress
<1>1. Init => Progress
  BY DEF Init, Progress, LeftForGood, HadToSettle, ReturnedInOrder, RunsGoAllTheWay
<1> QED
  BY <1>1, Invariance, ProgressKept, PTL DEF Spec

\* A Run that comes back without a verdict has found steps to settle, and leaves
\* only those that no Run can settle (remediation.go:158-233).
THEOREM RunsAreThorough == Spec => []RunsGoAllTheWay
<1>1. Progress => RunsGoAllTheWay
  BY DEF Progress
<1> QED
  BY <1>1, ProgressInvariance, PTL

\* Is every runCondition of the workflow known to the runner?
ConditionsKnown == \A s \in DOMAIN workflow : workflow[s].runCondition # "unknown"

AllSettled(status) == \A s \in DOMAIN workflow : status.steps[workflow[s].name] \in Settled

\* One Run settles all steps of a workflow whose runConditions are known: a step it
\* left would wait for another one, and that is a cycle.  The next Run then passes
\* the verdict.
THEOREM TwoRunsAreEnough ==
    Spec => [](pc = "returned" /\ state.state \notin Verdicts =>
                  /\ ~AllSettled(saved)
                  /\ ConditionsKnown => AllSettled(state))
<1>1. ASSUME Progress, pc = "returned", state.state \notin Verdicts
      PROVE  ~AllSettled(saved) /\ (ConditionsKnown => AllSettled(state))
  <2>1. ~AllSettled(saved)
    BY <1>1 DEF Progress, RunsGoAllTheWay, AllSettled
  <2>2. ASSUME ConditionsKnown, ~AllSettled(state)
        PROVE  FALSE
    <3> DEFINE left == {n \in StepNames(workflow) : state.steps[n] \notin Settled}
    <3>1. left # {}
      BY <2>2 DEF AllSettled, StepNames
    <3>2. Sortable(workflow)
      BY <1>1 DEF Progress, ReturnedInOrder
    <3>3. ASSUME NEW n \in left
          PROVE  \E i \in DOMAIN workflow :
                    workflow[i].name = n /\ DepsOf(workflow[i]) \cap left # {}
      <4>1. PICK i \in DOMAIN workflow : workflow[i].name = n
        BY <3>3 DEF StepNames
      <4>2. PICK d \in DepsOf(workflow[i]) : state.steps[d] \notin Settled
        BY <1>1, <2>2, <3>3, <4>1 DEF Progress, RunsGoAllTheWay, ConditionsKnown
      <4>3. d \in StepNames(workflow)
        BY <3>2 DEF Sortable, KnownDeps
      <4> QED
        BY <4>1, <4>2, <4>3
    <3> HIDE DEF left
    <3>4. left \in SUBSET StepNames(workflow)
      BY DEF left
    <3> QED
      BY <3>1, <3>2, <3>3, <3>4 DEF Sortable, HasCycle
  <2> QED
    BY <2>1, <2>2
<1> QED
  BY <1>1, ProgressInvariance, PTL

=============================================================================
