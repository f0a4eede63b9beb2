---------------------------- MODULE FindingsReport ----------------------------
(***************************************************************************)
(* The end of a check cycle (Reconcile in srepolicy_controller.go): the    *)
(* findings of all collectors are sorted if there are too many for the     *)
(* policy's status, cut to the cap, counted, turned into a phase and       *)
(* announced as events.  sortFindingsByPriority is an insertion sort, here *)
(* one action per turn of its loops; the rest is one action per statement. *)
(*                                                                         *)
(* The input is any list of CheckResults.  The collectors themselves are   *)
(* stubs in this repository, except for the log collector.  Of a finding   *)
(* only what the report looks at is kept.                                  *)
(***************************************************************************)
EXTENDS Integers, Sequences, FiniteSets, Functions

CONSTANTS
    Refs,                \* resources findings are about
    Inputs,              \* the lists of findings to report
    MaxStatusFindings    \* the cap, 500 in the code

Statuses   == {"Failed", "Degraded", "Unknown", "Healthy"}
Severities == {"Critical", "Warning", "Info"}

Finding == [ref: Refs, status: Statuses, severity: Severities]

ASSUME ReportAssumption ==
    /\ Inputs \subseteq Seq(Finding)
    /\ MaxStatusFindings \in Nat \ {0}

VARIABLES
    collected,        \* what the collectors found
    allFindings,      \* the same list, sorted in place when it is capped
    pc,               \* the statement Reconcile is at
    outer,            \* the insertion sort's i, from 1 as allFindings is here
    inner,            \* its j
    statusFindings,   \* what goes into the status
    counts,           \* healthy, degraded and failed resources
    phase,            \* the phase the cycle ends with
    events            \* events emitted

vars == <<collected, allFindings, pc, outer, inner, statusFindings, counts,
          phase, events>>

Init ==
    /\ collected \in Inputs
    /\ allFindings = collected
    /\ pc = "cap"
    /\ outer = 0
    /\ inner = 0
    /\ statusFindings = <<>>
    /\ counts = [healthy |-> 0, degraded |-> 0, failed |-> 0]
    /\ phase = "none"
    /\ events = 0

-----------------------------------------------------------------------------
(* sortFindingsByPriority.                                                 *)

statusRank ==
    [s \in Statuses |-> CASE s = "Failed" -> 0 [] s = "Degraded" -> 1
                          [] s = "Unknown" -> 2 [] s = "Healthy" -> 3]

severityRank ==
    [s \in Severities |-> CASE s = "Critical" -> 0 [] s = "Warning" -> 1
                            [] s = "Info" -> 2]

\* Mutant: the severity outweighs the status.
RankBySeverity(f) == severityRank[f.severity] * 10 + statusRank[f.status]

Rank(f) == statusRank[f.status] * 10 + severityRank[f.severity]

\* Mutant: equal findings change places.
OutOfOrderLoosely(p) == Rank(allFindings[p - 1]) >= Rank(allFindings[p])

OutOfOrder(p) == Rank(allFindings[p - 1]) > Rank(allFindings[p])

\* The finding at j is less urgent than the one before it no longer.
Swap ==
    /\ pc = "sort"
    /\ inner > 1
    /\ OutOfOrder(inner)
    /\ allFindings' = [allFindings EXCEPT ![inner - 1] = allFindings[inner],
                                          ![inner] = allFindings[inner - 1]]
    /\ inner' = inner - 1
    /\ UNCHANGED <<collected, pc, outer, statusFindings, counts, phase, events>>

\* It is in its place: on to the next one, if there is one.
NextOuter ==
    /\ pc = "sort"
    /\ inner > 1 => ~OutOfOrder(inner)
    /\ outer' = outer + 1
    /\ inner' = outer + 1
    /\ pc' = IF outer < Len(allFindings) THEN "sort" ELSE "capped"
    /\ UNCHANGED <<collected, allFindings, statusFindings, counts, phase, events>>

-----------------------------------------------------------------------------
(* Reconcile.                                                              *)

\* Few enough findings are reported as they came.
ReportAll ==
    /\ pc = "cap"
    /\ Len(allFindings) <= MaxStatusFindings
    /\ statusFindings' = allFindings
    /\ pc' = "count"
    /\ UNCHANGED <<collected, allFindings, outer, inner, counts, phase, events>>

\* Mutant: the cap is put on the list as it came.
StartSortTooLate ==
    /\ pc = "cap"
    /\ Len(allFindings) > MaxStatusFindings
    /\ pc' = "capped"
    /\ UNCHANGED <<collected, allFindings, outer, inner, statusFindings, counts,
                   phase, events>>

StartSort ==
    /\ pc = "cap"
    /\ Len(allFindings) > MaxStatusFindings
    /\ pc' = "sort"
    /\ outer' = 2
    /\ inner' = 2
    /\ UNCHANGED <<collected, allFindings, statusFindings, counts, phase, events>>

\* The most urgent ones are kept.
Cap ==
    /\ pc = "capped"
    /\ statusFindings' = SubSeq(allFindings, 1, MaxStatusFindings)
    /\ pc' = "count"
    /\ UNCHANGED <<collected, allFindings, outer, inner, counts, phase, events>>

\* Is the finding the first about its resource?  Later ones do not count.
FirstOfResource(p) ==
    \A q \in 1..(p - 1) : allFindings[q].ref # allFindings[p].ref

CountOf(status) ==
    Cardinality({p \in DOMAIN allFindings :
                    FirstOfResource(p) /\ allFindings[p].status = status})

\* countBySeverity, over all the findings.
CountBySeverity ==
    /\ pc = "count"
    /\ counts' = [healthy  |-> CountOf("Healthy"),
                  degraded |-> CountOf("Degraded"),
                  failed   |-> CountOf("Failed")]
    /\ phase' = IF CountOf("Failed") > 0 THEN "Degraded" ELSE "Active"
    /\ pc' = "events"
    /\ UNCHANGED <<collected, allFindings, outer, inner, statusFindings, events>>

\* emitEvents: one for every finding that is not healthy, unless switched off.
EmitEvents ==
    /\ pc = "events"
    /\ \/ events' = Cardinality({p \in DOMAIN allFindings :
                                   allFindings[p].status # "Healthy"})
       \/ UNCHANGED events
    /\ pc' = "done"
    /\ UNCHANGED <<collected, allFindings, outer, inner, statusFindings, counts, phase>>

Terminated == pc = "done" /\ UNCHANGED vars

Next ==
    \/ ReportAll \/ StartSort \/ Swap \/ NextOuter \/ Cap
    \/ CountBySeverity \/ EmitEvents
    \/ Terminated

Spec == Init /\ [][Next]_vars

-----------------------------------------------------------------------------
(* Properties.                                                             *)

\* Every variable stays in its type.
TypeOK ==
    /\ collected \in Seq(Finding)
    /\ allFindings \in Seq(Finding)
    /\ Len(allFindings) = Len(collected)
    /\ pc \in {"cap", "sort", "capped", "count", "events", "done"}
    /\ outer \in 0..(Len(collected) + 1)
    /\ inner \in 0..outer
    /\ statusFindings \in Seq(Finding)
    /\ counts \in [healthy: Nat, degraded: Nat, failed: Nat]
    /\ phase \in {"none", "Active", "Degraded"}
    /\ events \in 0..Len(collected)

\* Where a stable sort puts the p-th finding collected.
Place(p) ==
    Cardinality({q \in DOMAIN collected :
        \/ Rank(collected[q]) < Rank(collected[p])
        \/ Rank(collected[q]) = Rank(collected[p]) /\ q <= p})

\* sortFindingsByPriority is a stable sort: no finding is lost or doubled by
\* the swaps, and equally urgent ones stay in the order they were found in.
SortIsStable ==
    pc = "capped" => \A p \in DOMAIN collected : allFindings[Place(p)] = collected[p]

\* "Keep the most severe findings first" (srepolicy_controller.go:228): what is
\* left out of the status is no more urgent than anything in it, Failed before
\* Degraded before Unknown before Healthy.
CapKeepsTheWorst ==
    pc = "done" =>
        \A f \in {collected[p] : p \in DOMAIN collected} :
            \A p \in DOMAIN statusFindings :
                statusRank[f.status] < statusRank[statusFindings[p].status]
                    => \E q \in DOMAIN statusFindings : statusFindings[q] = f

\* Whoever reads phase Degraded finds a failed resource in the status, however
\* many findings had to be left out of it.
DegradedHasEvidence ==
    pc = "done" /\ phase = "Degraded" =>
        \E p \in DOMAIN statusFindings : statusFindings[p].status = "Failed"

\* When the findings are capped no failure can be hidden behind an earlier and
\* milder finding about the same resource: the sort puts it first.  (When they
\* are not capped it can: countBySeverity looks at the first only.)
CappedFailureShows ==
    pc = "done" /\ Len(collected) > MaxStatusFindings
            /\ (\E p \in DOMAIN collected : collected[p].status = "Failed")
        => phase = "Degraded"

\* Kubernetes Events are "Bounded by `maxStatusFindings`"
\* (docs/production-guide.md:101).
EventsBounded == events <= MaxStatusFindings

-----------------------------------------------------------------------------
(* The inductive invariant behind them.                                    *)

\* Does a stable sort put the p-th finding collected before the q-th?
Precedes(p, q) ==
    \/ Rank(collected[p]) < Rank(collected[q])
    \/ Rank(collected[p]) = Rank(collected[q]) /\ p < q

\* o tells of each finding in the list as which one it was collected.
Arranges(o) ==
    /\ o \in Bijection(DOMAIN collected, DOMAIN collected)
    /\ \A p \in DOMAIN collected : allFindings[p] = collected[o[p]]

Sorted(o) == \A p, q \in DOMAIN collected : p < q => Precedes(o[p], o[q])

\* Up to `outer' all but the finding on its way down are in order, and those it
\* has passed come after it.  The rest are as they were collected.
SortedSoFar(o) ==
    /\ o[inner] = outer
    /\ \A p \in DOMAIN collected :
          /\ p > outer => o[p] = p
          /\ p <= outer => o[p] <= outer
          /\ inner < p /\ p <= outer => Precedes(o[inner], o[p])
    /\ \A p, q \in (1..outer) \ {inner} : p < q => Precedes(o[p], o[q])

SortHolds ==
    /\ pc = "cap" => allFindings = collected
    /\ pc = "sort" =>
          /\ Len(collected) > MaxStatusFindings
          /\ 2 <= outer /\ outer <= Len(collected) /\ 1 <= inner
          /\ \E o \in [DOMAIN collected -> DOMAIN collected] :
                Arranges(o) /\ SortedSoFar(o)
    /\ pc = "capped" => Len(collected) > MaxStatusFindings
    /\ pc \notin {"cap", "sort"} =>
          IF Len(collected) <= MaxStatusFindings THEN allFindings = collected
          ELSE \E o \in [DOMAIN collected -> DOMAIN collected] : Arranges(o) /\ Sorted(o)

StatusHolds ==
    pc \in {"count", "events", "done"} =>
        statusFindings = IF Len(collected) <= MaxStatusFindings THEN allFindings
                         ELSE SubSeq(allFindings, 1, MaxStatusFindings)

PhaseFollows ==
    pc \in {"events", "done"} =>
        phase = IF CountOf("Failed") > 0 THEN "Degraded" ELSE "Active"

IInv == TypeOK /\ SortHolds /\ StatusHolds /\ PhaseFollows

=============================================================================
