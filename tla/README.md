# TLA+ models of the SRE operator

This directory holds TLA+ specifications of the operator in this repository,
TLC configurations that model-check them on small instances, and proofs, checked
by TLAPS, that carry the most important results over to every instance.
Paths below are relative to the repository, `controller.go` stands for
`internal/controller/srepolicy_controller.go`, `remediation.go` for
`internal/remediation/remediation.go`, `client.go` for
`internal/prometheus/client.go`, `telemetry.go` for
`internal/telemetry/telemetry.go`, `logcollector.go` for
`internal/diagnostics/logcollector.go`.

1. [The system](#the-system)
2. [Modules](#modules)
3. [Runs](#runs)
4. [Proofs](#proofs)
5. [Divergences](#divergences)
6. [Not modelled](#not-modelled)
7. [Plan](#plan)

## The system

The operator is one Go process with one controller-runtime controller. For each
`SREPolicy` it runs check cycles, writes what it found into the policy's status,
keeps log summaries in ConfigMaps, and exports findings over OTLP.
`SREGlobalConfig` holds what all policies share: Prometheus, observability,
retention.

| Component | State it keeps | Operations | Module |
|---|---|---|---|
| Policy lifecycle, `Reconcile` (controller.go:76-284, 614-635) | the policy in the API server, the informer's copy, the work queue and its timers, the copy a call works on | Get, early returns, finalizer on and off, pause, cycle, status write; requeue | `Reconciler` against `PolicyContract` |
| Workflow runner, `Run` (remediation.go:107-246) | `WorkflowExecutionStatus`, recorded by its caller | validate, initialise, walk over the sorted steps, verdict | `WorkflowRunner` against `WorkflowContract` |
| `topologicalSort` (remediation.go:248-298) | maps and queue of one call | Kahn's algorithm | `TopologicalSort` against `WorkflowGraph` |
| Findings report (controller.go:228-268, 720-760) | the findings of one cycle | sort, cap, count, phase, events | `FindingsReport` |
| ConfigMap retention (controller.go:534-553, 659-697) | ConfigMaps of a namespace, seen through the informer | create, list, sort, delete | `Retention` |
| Prometheus client (client.go, controller.go:388-494) | client and rebuild key in the reconciler, bearer token in the client | build, reuse, refresh the token, request | `PromClient` |
| Telemetry (telemetry.go, controller.go:104-137) | the Provider and the endpoint it was made for | open a tracer, replace the Provider, export | `Observability` |
| Remediation actions and alert dispatch (remediation.go) | none | `executeStep`, `Apply`; `Dispatch` is a stub | as *complete or not* in `WorkflowRunner` |
| Log collector (logcollector.go, controller.go:496-612) | entries and errors of one call | list pods, read logs, filter, make findings | `LogCollector` |
| Conditions and DeepCopy (controller.go, `zz_generated.deepcopy.go`) | `status.conditions`, a slice shared with the informer's copy | `setCondition` | `Conditions` |
| Checkers, OCP checks, alert watcher, metric checker, aggregator | none | stubs that return nil | none |
| Start-up (`main.go`) | what the reconciler is built from | | the constant `Wirings` of `Reconciler` |

How they interact: `Reconcile` reads the policy and the global configuration
from the informer cache, never from the API server, and writes with the
`resourceVersion` it read. Watch events and timers put the policy in the work
queue; the controller's one worker takes it out. In a cycle `Reconcile`
replaces the Provider if it must, calls the collectors one after the other
(among them `runLogCollection`, which creates a ConfigMap and rotates the old
ones, and `runPrometheusChecks`, which builds or reuses the Prometheus client),
exports each finding through the Provider, reports, and writes the status. The
Provider and the Prometheus client outlive the cycle and are shared by all
policies. The workflow runner has no caller yet: its comment says that it is
"designed to be called by the reconciler loop".

What makes the system hard, and what the modules are therefore about:

- the cache lags: every decision may be about a version of the policy that has
  been paused, edited, deleted or deleted and created again;
- writes are refused as conflicts, or fail before or after they took effect,
  and nothing retries them but the next call;
- the process dies at any point and takes queue, timers and clients with it;
- a policy that is in no queue, on no timer and in no event is never looked at
  again;
- `Run` works on a status that may be lost after its actions were executed, and
  on a workflow that users change;
- Go's map order, `sort.Slice` and one-second timestamps leave orders open;
- clients and Providers are reused by a key that need not have all of what they
  were built from, and tokens are rotated under them;
- lists longer than a cap lose findings;
- pods are visited once for each selector they match and write on meanwhile;
  lists, requests and streams fail, hang or end early, each on its own;
- `DeepCopyInto` copies the status shallowly, so that `setCondition` writes into
  the informer's cache, also for a cycle whose status is never stored.

What makes each component correct:

- *Policy lifecycle*: no check cycle without the finalizer's hold; none while a
  pause is acknowledged; a status that speaks of the generation it names; no
  policy forgotten; deletion released, pauses acknowledged, policies checked.
- *Sort*: it returns an order exactly for the workflows that have one, and ends.
- *Runner*: outcomes follow from settled dependencies by the `runCondition`s,
  once and for all; the verdict follows from them; no action twice unless a
  status was lost; every workflow ends.
- *Report*: nothing lost by the sort, the worst findings kept, the phase backed
  by what is kept.
- *Retention*: no more copies than allowed, the newest ones kept.
- *Log collector*: each finding goes back to a line that was written, once; what
  was read in full is in the findings, whatever failed around it; it ends.
- *Conditions*: a stored status is of one cycle and never goes back, although
  the cache runs ahead of it.
- *Prometheus client* and *Telemetry*: whatever is sent goes where the
  configuration of the cycle says, with a token that is current; connections
  are not thrown away without a change.

`PROJECT.json` lists the hazards one by one, each at its line and with the
properties that would catch it.

## Modules

A comment in front of each definition says what it stands for; definitions keep
the names of the code where they can. A definition that starts with "Mutant:"
is not part of any model: it is a wrong version of the definition below it, by
which each property was seen to fail.

**PolicyContract.** What the policy's owner may rely on, without cache, queue,
conflict or crash: cycles run only for a policy that is held, the hold is let go
only between cycles, a recorded pause stops cycles at once.

**Reconciler.** One policy name. `api` is the API server's version, `watch` the
versions the informer has not heard of, `cache` the informer's; `queued` and
`armed` are the work queue and its delayed adds; `pc`, `snap` and `fresh` are a
running call of `Reconcile`, its copy and whether that copy's `resourceVersion`
is still current. `Route` is the early returns in their order; after it each
path is one action that ends in `Update`, the write with all its outcomes:
committed, refused, failed before or after taking effect. A write that changes
nothing is no new version. Users create, edit, touch and delete, other
controllers hold the object with a finalizer of theirs, `Crash` and `Restart`
take the process down and up with a fresh list. `wired` says whether the
reconciler has a Provider: without one `Panic` takes the place of `OpenTracer`.
`quiet` is history. The policies of an operator do not interact here: they share
the worker, whose fairness is assumed for each.

**WorkflowGraph, TopologicalSort.** The reference (`Sortable`,
`IsTopologicalOrder`) and the algorithm, one action per turn of each loop. Maps
are functions with the zero value for absent keys, `known` is the key set of
`inDegree`, the seeds are queued in any order (`Bijection`). A repeated name
shares one entry of the maps, as in the code.

**WorkflowContract, WorkflowRunner.** `saved` is the recorded status, `state` the
one `Run` works on. One action per branch of the loop: `Pass`, `Wait`,
`LeavePending`, `Skip`, `Execute`; before it `Refuse`, `AlreadyTerminal`,
`Begin`, after it `EndRun`. The order walked is *any* topological order of the
steps (`Sorts`), which includes all that `topologicalSort` returns by
`SortSound`. The caller is external: it records the status (`Save`) or loses it
(`Lose`: conflict or crash, with whatever `Run` had done by then), and calls
again. A running step is never visible: the code sets `Running` and the outcome
within one call, and the status in between is not recorded, so `Execute` is one
step. In `EditedSpec` users replace the workflow between calls. The contract
sees only what is recorded: steps decided by the rules, each once, and the
verdict. Where the docs and the code differ on the rules (a skipped dependency, to
an `OnFailure` step) it has the code's.

**FindingsReport.** From the list of all findings to status, counts, phase and
events; the insertion sort turn by turn. Any list of findings may come in.

**Retention.** The copies with their numbers and one-second stamps, the informer
behind them, a rotation with its list, its deletes one by one, failures and
restarts. `gap` is the least number of seconds between copies, chosen once.

**PromClient.** The configuration, the token files, the reconciler's client and
key, the requests. `builtFor` and `api` are history. Since the watcher and the metric
checker are stubs, the requests made are calls of the client's own methods
(`FiringAlerts`, `QueryInstant`) in any number and order.

**Observability.** The Provider as where its tracer and logger send to, the
endpoint recorded for it, the number of Providers made, the configuration a cycle
fetched, reachability of the endpoints. It starts from a Provider that exports
nothing. `named` is history: the endpoints that configurations with some signal
on have named since the process started, without repetitions in a row. An
endpoint that comes back is dialled again, and `named` has it again.

**LogCollector.** One call of `runLogCollection`: the guards (`Wanted`), the
selectors in their order (`TargetsOf`), a list for each, its pods in any order,
their containers, a request for the tail of each log, and the filter line by
line. A list fails (`ListFails`), a request fails (`OpenFails`), a stream is cut
(`Cut`: timeout, broken connection or a line longer than the scanner's buffer;
what had arrived of the last line may count as one). `Write` lets containers go
on all the while. A line is a value of which the constants say what the code
computes: whether it is significant, urgent, and what its first 80 bytes are.
`ToCheckResults` goes turn by turn as well: an entry (`ReportEntry`) has a
finding unless its key was seen, and the errors follow (`ReportErrors`).

**Conditions.** Several policies, one worker, several cycles. `stored` is the API
server's version of each policy, `cached` the informer's object, `policy` the
copy of the call in progress, and `shared` says whether that copy's slice of
conditions still is the informer's. `SetCondition` changes a condition that is
there in place, and thereby in the cache; appending one leaves the cache as it
is and may or may not move the copy's slice elsewhere (Go's `append`). An event
replaces the informer's object and so ends the sharing. A cycle is its number,
which stands for all it stamps. What `Reconciler` is about (finalizers,
deletion, queue) is left out here.

The `MC*` modules give the constants their values; the `.cfg` files name them.

## Runs

All with `tlc -workers 2 -config X.cfg M`.

| Run (cfg) | What it shows | Distinct states |
|---|---|---|
| `reconciler` (MCReconciler) | the safety properties and `ImplementsContract` of `Reconciler`, wired with a Provider or not | 671,827 |
| `reconciler_live` (MCReconcilerLive) | deletions are released, active policies checked, pauses acknowledged | 115,889 |
| `reconciler_as_shipped` (MCReconcilerShipped) | **violation**: as main.go builds it, no cycle ever ends | |
| `toposort` (MCTopologicalSort) | orders are right, refusals are justified, each step leaves less to do, the sort ends | 17,735 |
| `runner` (MCWorkflowRunner) | coherence, verdicts, at-least-once, one `Run` settles all it can, `ImplementsContract`, termination | 171,426 |
| `runner_edited` (MCWorkflowRunnerEdited) | a recorded outcome is never revised, even if the workflow is changed | 33,346 |
| `report` (MCFindingsReport) | stable sort, the worst kept, Degraded backed by a finding in the status, failures never cut away | 31,057 |
| `retention` (MCRetention) | copies that went made room, copies are bounded, the last ones stay | 555,862 |
| `prom_client` (MCPromClient) | requests to each API go where it is configured, authorised once they have been, with the current token if none is configured; the pool is kept | 396,882 |
| `observability` (MCObservability) | records go to the configured endpoint or nowhere; no more Providers are made than the endpoint changes | 1,879,944 |
| `log_collector` (MCLogCollector) | findings are real, distinct and bounded, nothing read is lost, selectors are accounted for, each step leaves less to do, the collection ends | 210,004 |
| `conditions` (MCConditions) | a stored status is of one cycle, only phantoms in the cache, conditions never go back | 2,245,394 |

**Bounds.** `Reconciler`: five user steps (two in a row against a call in
progress, and enough to create, pause, delete and create again), two events of
lag when a user acts, two faults, so that a lost reply can be followed by a
crash. The reconciler's own writes are not bounded; generations are, by the
edits. The liveness run has four user steps and one fault, since it checks
cycles in the graph. `TopologicalSort`: every workflow of at most two steps with
any list of at most two dependencies on them or on a name that is no step
(repetitions, self-loops, duplicate names), and every workflow of three distinct
steps with up to two distinct dependencies each, which has all the graphs with
cycles of length one to three, diamonds excepted; the proof covers the rest.
`WorkflowRunner`: all workflows of three steps whose dependencies point
to earlier ones (in the order a, b, c), every `runCondition` where it can matter, each step
succeeding or failing, and workflows with no order or no steps; one lost status,
wherever in the Run. `MaxRuns` is where counting stops, above what
`ReexecutionOnlyAfterLoss` allows. `FindingsReport`: cap 2 with up to four
findings on two resources. `Retention`: two copies kept, six created, so that a
rotation has three to delete after failures. `PromClient`: one URL and the
default, one reference and none, two versions of each token. `Observability`:
two endpoints and none; four changes of the endpoint in a process's life, so that
it alternates and comes back, with restarts and changes of the signals without a
bound. `LogCollector`: a pod that two selectors find, and an
operator's that has failed and so has an init container to read; logs of at most
two lines, with two errors that begin alike; one significant line kept of each
stream, so that the limit bites; calls with each guard closed, without a
namespace, of one, and of all and one (which lists a pod four times).
`Conditions`: two policies and two endpoints, interchangeable; three cycles, so
that a cycle can start from the phantoms of one whose write failed and leave
its own, and one change by a user, of a policy or of the endpoint; events,
failed writes and restarts without a bound.

`CHECK_DEADLOCK FALSE` is set for `Reconciler` (a deleted policy with all edits
used up leaves nothing to do), `Retention` (all copies created) and `Conditions`
(all cycles and edits used up); elsewhere deadlock is checked, and terminated
algorithms stutter explicitly.

**Fairness.** `Reconciler`: weak fairness of the worker, of the delivery of
events, of timers and of the restart. The queue's worker goroutine runs whenever
something is queued, the reflector keeps reading its watch, a delayed add fires
once, and the kubelet restarts a container that exits; that is all
controller-runtime and Kubernetes promise, and none of it is about a particular
outcome: conflicts need no fairness because an outdated copy is outdated only as
long as events are undelivered, and faults are finite. Users and faults have no
fairness. `TopologicalSort`: the function goes on. `WorkflowRunner`: `Run` is
called, goes on, and its status is recorded unless it is lost, which it is
finitely often. `LogCollector`: weak fairness of `Step`, the steps that the
process takes by itself or a timeout makes it take. Opening a stream and
receiving a line are not among them: the API server and the kubelet may answer
nothing at all, and `CollectionEnds` then rests on the timeout of each container
alone (logcollector.go:246). A list is among them: `List` reads the informer's
cache, but the first one of pods starts that informer and waits for it to sync,
with no timeout but the cycle's context; that it does sync is assumed. No other module states a liveness property.

**Refinement.** `Reconciler!ImplementsContract` maps the policy to `none`, `open`
or `held` and forgets the cache: seen from the API server the operator behaves
as if it read the policy there at the moment it acts.
`WorkflowRunner!ImplementsContract` maps only the recorded status. Both are
checked as properties of TLC runs and proved.

## Proofs

`tlapm M.tla` checks every obligation of the proof module `M` with Z3, Zenon and
LS4, for `M` one of `ReconcilerProofs`, `TopologicalSortProofs`,
`WorkflowRunnerProofs`, `FindingsReportProofs`, `RetentionProofs`,
`ConditionsProofs`, `LogCollectorProofs`, `SharedClientsProofs` (`PromClient` and
`Observability`). The assumptions are those declared with the constants: bounds
are naturals, lag at least one, `Wirings` a non-empty set of Booleans; names
and pods finite, workflows sequences of steps; a container is of one pod and has a name of
its own in it, as the API server sees to; values that stand for "none" are none
of the others. TLC evaluates them in the runs above. Each component has one `Invariance`, the inductive
invariant `IInv` of its module (`OTelInvariance` and `OTelIInv` for
`Observability`, whose names are none of `PromClient`'s). Each of them, and
`Progress` of the runner, may be added to its run as one more INVARIANT, which is
how they were found. Every safety and action property of a passing run is proved, for
every value of the constants that the assumptions allow.

**ReconcilerProofs.** `Invariance` proves `IInv`; its conjuncts are needed for
this argument:

- `CacheCatchesUp`: the last undelivered event is the API server's version, so
  an empty `watch` means an exact cache;
- `FreshIsCurrent`: a copy whose `resourceVersion` is good *is* the API server's
  version. So every committed write is computed from the version it replaces,
  although the decision to make it was taken on a cached one;
- `RoutedBySnap`: a call is where the early returns sent its copy, since nothing
  changes the copy on the way;
- `HeldInAnyView`: whoever sees the finalizer on a policy that is not under
  deletion, in any version still around (API server, cache, events, copy), is
  right about the hold. `FinalizerHeldDuringScan` follows with `RoutedBySnap`,
  but is not inductive without the old versions: a cycle could start from one;
- `PausedInEveryView`: a Paused status is committed only from a current copy,
  when no event is left, so that no version without the pause is around, and
  none comes before a user lifts it. `QuietAfterPause` follows;
- `StatusSpeaksOfItsGeneration` and `NeverForgotten` are inductive with these.

Each action has a lemma; the steps all users and all writes have in common are
`UserEffect`, `UpdateEffect`, `UserSafe` and `UpdateSafe`. From `Invariance`
follow `TypeCorrectness`, `FinalizerHolds`, `PauseRespected`, `StatusTruthful`,
`WakeupComes`, the action property `ObservedMonotone` and, action by action, the
`Refinement` of `PolicyContract`.

**TopologicalSortProofs.** `Invariance` proves `IInv` for workflows of any length
and any finite set of names. Its heart is `InDegreeCounts`: `inDegree[n]` is the
number of edges into `n` that no sorted step has relaxed yet, where an edge is a
*place* in `graph`, so that repeated dependencies count as often as they are
linked. `LinkedInGraph` and `GraphIsLinked` tie the edges to the workflow,
`QueuedIsReady` says that queue and result hold exactly the known names without
open edges, each once, `SortedIsOrdered` is what is wanted of the result.
`SortSound` then counts: a result as long as the workflow has all names, and no
name twice. `RefusalJustified` takes the names that were not sorted when the
queue ran empty: each has an open edge, from one of the same names, and that is
a cycle. `NotFoundNeverReturned` shows that the branch at remediation.go:278-281
is dead: only names of steps get into the queue. `SortComesToAnEnd` proves `LessAndLessToDo`: `StillToDo` is a tuple - the
loop the sort is in, the steps to enter, the dependencies to link, the names not
sorted, the neighbours to relax - and every step makes it smaller, by the order of
the dictionary. That needs `QueuedIsReady` for `Pop`, since only a name that was
never queued before makes the fourth part smaller. By `ToDoCounted` its parts are
natural numbers, so there is no infinite descent.

**WorkflowRunnerProofs.** `OutcomesAreFinal` proves `SettledStays` for
`EditedSpec` (of recorded outcomes: a step added later has none, see Divergences), from two facts that survive any change of the workflow: what is
recorded as settled is so in the status `Run` works on (`OutcomesKept`), and
`Run` settles only what is pending. The others are about workflows that stay as
they are. `Sane` says of both statuses, the recorded one and the one at work,
that decisions were coherent and a verdict follows from them; `LoopIsSorted` and
`FlagsSoFar` carry the verdict: at the end of the loop `allComplete` speaks of
every step, since the order walked has every step. `NothingNewSoFar` is needed
for `Refinement`: a `Run` that comes to a verdict has not decided any step, so
that to the contract a recorded status either decides steps or gives the
verdict. `RunsAccounted` is `ReexecutionOnlyAfterLoss` made inductive: the
executions of a step are the lost ones and at most one more.

`RunsAreThorough` is about how far a `Run` gets. `LeftForGood`: what the walk has
passed and left pending waits for something it has left too, or has an unknown
runCondition; it stays so, because the order is topological and what the step
depends on is never touched again. `HadToSettle`: as long as nothing says that all
is complete, something recorded was not. `ReturnedInOrder` carries both past
the end of the loop. From it `TwoRunsAreEnough`: steps that are left although
their runConditions are known all wait for one another, which is a cycle, and a
workflow with a cycle is refused. So the first recorded `Run` settles everything,
the next passes the verdict, and "Wait for dependencies" (remediation.go:187)
never puts anything off.

**FindingsReportProofs.** The invariant has a witness: an arrangement `o` that tells
of each finding in the list as which one it was collected. `SortedSoFar(o)` is
the state of the insertion sort between two swaps. At the end `o` is ordered by
severity and then by position (`Sorted`), and `SortCorrect` shows that the only
such arrangement is the reference `Place`: the findings that precede one in the
list are, by `o`, just those counted by `Place`, so that the two sets have the
same cardinality. `WorstAreKept`, `DegradedIsShown` and `FailureIsShown` follow
because a prefix of a sorted list has whatever is worse than what it has.

**RetentionProofs.** `VersionsLag` relates every version the informer has or will
have to the copies that exist: a version misses at most one copy for each event
behind it. So a list misses at most `MaxLag + 1` copies (`ListedSoon`), and what
a rotation spares is bounded (`FewAreSpared`), which gives `BoundRestored` if
none of its deletes fails. `DoomedMadeRoom` says that each copy about to be deleted
came, in the sorted list, before `MaxCopies` others, which are no older; since a
copy once created keeps its stamp, that stays so, and `DeletionMadeRoom` follows. With `Spaced`, which says that stamps order the
copies as their numbers do, `LastAreKept` follows from it.

**ConditionsProofs.** `SharedIsCopied` says what the copy and the informer's object
have in common while the slice is shared: version, pause, and the conditions
that the cycle has not come to yet. It lives on `Pending`, since the others may
have been appended to the copy alone. `CycleSoFar` follows a cycle through the
fields it sets, `CurrentCopy` what a copy has whose write will be accepted.
`PausedIsExact` is what makes a pause harmless: no cycle runs on a version with
the pause, so such a version has no phantoms, and the status a pause stores
brings none. From this `StatusOfOneCycle`, `PhantomsAtMost` and
`ConditionsMonotone`.

**LogCollectorProofs.** `Invariance` proves `IInv` while containers write on, for
any pods, namespaces, selectors, logs and limits. Three arguments meet in it.

- *Bounded*: a container may be read once for each selector its pod matches, a
  namespace listed twice counting twice. `VisitsSoFar` are the places in
  `TargetsOf(spec)` at which that has happened, `OnHand` what the stream at hand
  has contributed; `EntriesAreBounded` says that a container has at most
  `MaxErrLinesPerContainer` entries for each of the first, and the second. It is
  inductive because `VisitsLeft` keeps a container from coming twice in one list:
  containers of different pods differ, a pod is in `todo` or its containers are in
  `containers`, and there each is once. With `TargetsLeft`, a container that is
  due has not used up the place at hand, and one that is opened has. The last turn
  of a stream, cut or not, adds one entry at most and `AtLimit` guards it.
- *Real and distinct*: logs only grow (`FromLog` survives `Write`), a stream is of
  its container's lines (`StreamSoFar`), so entries are of lines that were written
  (`EntriesAreReal`). `FindingsSoFar` ties `seen`, the findings and the entries
  that were gone through together in both directions: a key is seen exactly if a
  finding has it, and every finding is one of an entry. `FindingsAreCounted`
  carries the bound from entries to findings. `FindingsSound` follows.
- *Nothing lost*: `ScannedIsKept` says that whatever was scanned and matched has
  an entry; `count` is the number of such lines, so that a stream given up at the
  limit has been kept up to its `MaxErrLinesPerContainer`-th match, which is what
  `HeardIsKept` asks. Entries are never removed, and each has a finding by itself
  or by its key: `NothingIsLost`.

`DoneIsAccounted` and `ErrorsAreReported` give `SelectorsAccounted`: a selector
leaves `targets` only listed or with an error, and errors are findings at the end.
`ComesToAnEnd` proves `LessAndLessToDo`, with a tuple `StillToDo` as for the sort:
the part of the collection, selectors, lists, pods, containers, the stream, its
lines. A stream ends where the log ended when it was opened, so what a container
writes meanwhile adds nothing; `Write` is a step that leaves the tuple as it is.
Here the set of pods is assumed to be finite. `ToDoCounted` says that all parts
are natural numbers.

The lemma of each action is split by what the action can disturb (`...Aside`
lemmas say of whole groups of conjuncts that they do not look there).

**SharedClientsProofs.** Small invariants: the client's fields
and key belong to the specification it was built for (`SendsAsBuilt`,
`PollsWithItsKey`), the Provider to the endpoint recorded for it (in `TypeOK`),
and what is sent was sent by this cycle with what it fetched (`SentByClient`,
`ProviderIsCurrent`, `ExportedByProvider`). `MadeInTurn` gives `ProvidersAreBounded`:
the endpoint of the Provider has a place in `named` with a number above that of
the Providers made, and what a cycle has fetched is there at that place or a later one,
although the configuration may have changed again since; a Provider for another
endpoint therefore comes with a later place. `NamedLast` is what a cycle that
starts needs for this.

**Only model-checked**: all liveness (`DeletionReleased`, `EveryPolicyScanned`,
`PauseAcknowledged`, `SortEnds`, `WorkflowEnds`, `CollectionEnds`), which is beyond
the prover. Of three of them the part that is safety is proved: each step of the
sort and of a collection leaves less to do (`SortComesToAnEnd`, `ComesToAnEnd`), and
a workflow has its verdict after two recorded Runs (`TwoRunsAreEnough`). What remains
is that the process takes a step when it can, and that the walk of one `Run`
ends.

## Divergences

Places where a document, a comment or a message of the repository says one thing
and the code does another. The first is a run of `PROJECT.json`; for the others
TLC prints the counterexample to the property under the configuration named.

| Statement | What the code does | Configuration, property |
|---|---|---|
| README.md:11 "Automated Health Checks" | main.go:66-71 builds the reconciler without its `Telemetry`; `r.Telemetry.Tracer()` (controller.go:104) then panics on the first policy that is neither paused nor under deletion, and again after each restart | MCReconcilerShipped, `EveryPolicyScanned` |
| docs/workflows-and-actions.md:17 "`OnFailure`: Runs if ANY dependency fails" | a skipped dependency counts as failed (remediation.go:181): behind a step that succeeds, the second of two chained `OnFailure` steps runs | MCWorkflowRunnerCascade, `OnFailureOnlyAfterFailure` |
| api/v1alpha1/srepolicy_types.go:64 "steps that must succeed before this step runs" | so for `OnSuccess` only; an `OnFailure` step runs because one did not | MCWorkflowRunnerCascade, `OnFailureOnlyAfterFailure` |
| client.go:105-106 "if non-empty, reads the bearer token from this path instead of the default service-account token" | `get` reads the service account's token before each request (client.go:287) and keeps it | MCPromClientToken, `ConfiguredTokenUsed` |
| controller.go:412-413 "Only rebuild when the spec (URL / TLS / token) changes" | the key has no part for the token | MCPromClientKey, `BuiltForSpec` |
| remediation.go:294 "cycle detected in remediation workflow" | said of repeated names and missing dependencies too | MCTopologicalSortError, `CycleMeansCycle` |
| docs/srepolicy-crd.md:43 "showing the exact state ... of each step" | a step added to a workflow that has started gets no entry; it is executed in each Run and never shown | MCWorkflowRunnerTracked, `ExecutedIsTracked` |
| remediation.go:121 "Already terminal" | validation comes before that check: a change that breaks the order turns Succeeded into Failed | MCWorkflowRunnerFinal, `VerdictIsFinal` |
| docs/production-guide.md:101 events "Bounded by `maxStatusFindings`" | `emitEvents` gets all findings, not the capped ones | MCFindingsReportEvents, `EventsBounded` |
| controller.go:683 "oldest first" | of copies of one second any may be deleted | MCRetentionTies, `OldestFirst` |
| telemetry.go:72 "natively pushes a structured log to the OTLP log exporter" | if logs are enabled after the endpoint was dialled there is no logger, and records are dropped until the endpoint changes | MCObservabilityLogs, `RecordsArePushed` |
| docs/production-guide.md:21 "OTel tracing wraps every check" | the cycle that dials an endpoint opened its tracer before; so do all cycles if tracing is enabled later | MCObservabilityTraces, `ChecksAreTraced` |
| controller.go:132 "OTel endpoint reachable" | nothing was contacted: exporters dial lazily | MCObservabilityHealthy, `HealthyMeansReachable` |
| docs/production-guide.md:45 "Calls per reconcile cycle (default: every 60 seconds)" | the controller's own status write is an event like any other (controller.go:653 filters nothing), and the next cycle starts at once, as long as a cycle changes the status; `lastScanTime` alone does, once a second | MCReconcilerInterval, `CyclesAreTimed` |
| docs/production-guide.md:33 "DeepCopy methods implemented" | `DeepCopyInto` copies the status as it is: what a cycle sets in place is in the cache although its status was refused, and the next status may store it | MCConditionsPhantom, `OnlyFinishedCyclesSpeak` |
| controller.go:132 "OTel endpoint reachable", a condition of the policy | if the status of the cycle that dials is not stored, no policy has the condition while the Provider is in use | MCConditionsOTel, `OTelOnRecord` |
| logcollector.go:67 "Errors lists any pods where log collection itself failed" | a request for logs that fails is logged and left out of `Errors` | MCLogCollectorErrors, `ErrorsListsFailures` |
| logcollector.go:33 "kept in the report", of `MaxErrLinesPerContainer` | the limit is per stream: a container whose pod matches two selectors has twice as many | MCLogCollectorLimit, `LimitPerContainer` |

One more is for the day the OCP checks are implemented: a checker that fails
counts as healthy (controller.go:378), and the condition then says "All
ClusterOperators, ClusterVersion, and MCPs healthy" (controller.go:166).

Two statements have no code to check them against: the cool-down guard and the
max attempt guard (docs/production-guide.md:24-25). And with the collectors of
this repository no finding is ever `Failed` (the log collector reports Degraded
and Unknown), so that the phase `Degraded` is not reachable yet;
`FindingsReport` takes any finding the types allow.

## Not modelled

- *Stubs and I/O*: checkers, OCP checks, alert watcher, metric checker,
  diagnostics aggregator, flags, probes, HTTP decoding, formatting of reports
  and of the log summary, the text of log lines.
- *API types and generated code*: declarations; `DeepCopyInto` is in `Conditions`
  for what it does not copy.
- *Real time*: intervals and their minimum of 30 seconds, backoff, HTTP timeouts.
  A timer that is armed may fire at any moment, and a stream may time out at any
  moment.
- *The phase Error* (controller.go:152-155): `runBuiltInChecks` never returns an
  error, so that path is dead.
- *Several replicas*: leader election is off unless asked for (main.go:37). With
  two operators acting on one policy none of the single-worker arguments above
  hold.
- *A user who strips the operator's finalizer by hand*: Kubernetes allows it, and
  then nothing holds the policy during a cycle.
- *Status fields* other than phase and `observedGeneration` in `Reconciler`, and
  other than phase, conditions, `lastScanTime` and `firingAlertCount` in
  `Conditions`; whatever `SREGlobalConfig` says that no code reads
  (`maxConfigMapAgeDays`).
- *Metrics*: `UpdateStatus`, `RecordCheckRun` and `RecordRemediation` are empty, and
  nothing here uses the process-wide providers that `NewProvider` sets too.
- *Pods that come and go* during one log collection: they may be missing from a
  list or their streams may fail, which `ListFails` and `OpenFails` have.
- *Provider shutdown*: a replaced Provider is never shut down, so its exporters
  and its goroutines leak; `ProvidersBounded` bounds how many. What is lost of
  the last batch is not modelled.

Where a model allows more than the code, the properties it passes hold of the
code a fortiori: `WorkflowRunner` walks any topological order; in
`FindingsReport` any list comes in; in `PromClient` any sequence of requests is
made; in `Observability` any exporter may fail to be made.

## Plan

Order of the work, most important behaviour first. All of it is done.

1. `PolicyContract`, `Reconciler`, `ReconcilerProofs`: lifecycle of a policy.
2. `WorkflowGraph`, `TopologicalSort`, `TopologicalSortProofs`: validation.
3. `WorkflowContract`, `WorkflowRunner`: execution; instantiates `WorkflowGraph`
   for the order.
4. `FindingsReport`: the end of a cycle.
5. `Retention`: ConfigMaps.
6. `PromClient`, `Observability`: what outlives a cycle.
7. `LogCollector`: pods and namespaces, some of which fail.
8. `Conditions`: a status that shares its slice with the informer's copy.
9. Rate: the controller's own status write as an event that starts the next
   cycle. The code bounds nothing here, so there is no contract to implement;
   `CyclesAreTimed` has the counterexample.
10. Proofs of 3 to 8.

What would come next needs code that is not there yet: the checkers and the
alert watcher, whose findings are free in `FindingsReport` and `Conditions`; the
caller of `Run`, which is the least its comment calls for; `Dispatch`.
