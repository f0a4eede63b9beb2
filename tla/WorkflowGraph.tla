---------------------------- MODULE WorkflowGraph ----------------------------
(***************************************************************************)
(* A remediation workflow (RemediationWorkflow in                          *)
(* api/v1alpha1/srepolicy_types.go) as a graph of steps, and what it means *)
(* to put its steps in order.  This is the reference that TopologicalSort  *)
(* is checked against, and all that WorkflowRunner knows of the order.     *)
(*                                                                         *)
(* A workflow is a sequence of steps; of a step, `name' and `dependsOn'    *)
(* matter here.                                                            *)
(***************************************************************************)
EXTENDS Integers, Sequences

StepNames(steps) == {steps[i].name : i \in DOMAIN steps}

\* The names a step waits for.
DepsOf(step) == {step.dependsOn[j] : j \in DOMAIN step.dependsOn}

UniqueNames(steps) ==
    \A i, j \in DOMAIN steps : steps[i].name = steps[j].name => i = j

KnownDeps(steps) ==
    \A i \in DOMAIN steps : DepsOf(steps[i]) \subseteq StepNames(steps)

\* Some steps wait for each other: each of them for another of them.
HasCycle(steps) ==
    \E S \in SUBSET StepNames(steps) :
        /\ S # {}
        /\ \A n \in S : \E i \in DOMAIN steps :
              steps[i].name = n /\ DepsOf(steps[i]) \cap S # {}

Sortable(steps) ==
    UniqueNames(steps) /\ KnownDeps(steps) /\ ~HasCycle(steps)

\* order lists every step once, each behind the steps it depends on.
IsTopologicalOrder(steps, order) ==
    /\ Len(order) = Len(steps)
    /\ \A p, q \in DOMAIN order : order[p] = order[q] => p = q
    /\ {order[p] : p \in DOMAIN order} = StepNames(steps)
    /\ \A p \in DOMAIN order, i \in DOMAIN steps :
          steps[i].name = order[p] =>
              \A d \in DepsOf(steps[i]) : \E q \in 1..(p - 1) : order[q] = d
=============================================================================
