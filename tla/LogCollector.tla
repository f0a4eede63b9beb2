----------------------------- MODULE LogCollector -----------------------------
(***************************************************************************)
(* One collection of pod logs: runLogCollection of                         *)
(* srepolicy_controller.go and LogCollector of                             *)
(* internal/diagnostics/logcollector.go, from the guards that may skip it  *)
(* to the findings it contributes to the cycle.                            *)
(*                                                                         *)
(* Pods are listed selector by selector, so that a pod may be visited more *)
(* than once; their containers write on while they are read.  A list may   *)
(* fail, a stream may not open, hang until its timeout, or end early.      *)
(*                                                                         *)
(* A line is a value of Lines; what the code computes of its text is given *)
(* by the constants.  The clock, the ConfigMap (module Retention) and the  *)
(* export of the summary (module Observability) are left out.              *)
(***************************************************************************)
EXTENDS Integers, Sequences, FiniteSets, Functions

CONSTANTS
    Lines,             \* lines that containers write
    Significant,       \* lines that match an error pattern
    Urgent,            \* lines classifyLogSeverity finds critical
    Prefix,            \* line -> its first 80 bytes
    Beginnings,        \* line -> what is left of it if the stream is cut in it
    Pods,              \* pods: namespace, selectors they match, containers
    AllNamespaces,     \* the empty namespace, which lists every namespace
    VMSelectors,       \* selectors of virtual machine pods, in order
    OperatorTargets,   \* namespaces and selectors of operator pods, in order
    Calls,             \* specs the collection may be called with
    Logs,              \* logs the containers may have when it is called
    MaxLogLen,         \* bound on the lines of a container
    TailLines,         \* lines fetched of a container (200)
    MaxErrLinesPerContainer  \* significant lines kept of one stream (50)

ContainersOf(p) == Range(p.containers) \cup Range(p.initContainers)

Containers == UNION {ContainersOf(p) : p \in Pods}

\* The resource that the findings about errors of the collection name.
ErrorRef == "log-collector/error"

ASSUME LinesAssumption ==
    /\ Significant \subseteq Lines /\ Urgent \subseteq Lines
    /\ DOMAIN Prefix = Lines
    /\ Beginnings \in [Lines -> SUBSET Lines]
    /\ Logs \subseteq [Containers -> Seq(Lines)]

\* There are finitely many pods; a container is of one, and has a name of its own
\* in it.
ASSUME PodsAssumption ==
    /\ IsFiniteSet(Pods)
    /\ \A p \in Pods :
          /\ p.containers \in Seq(Containers) /\ p.initContainers \in Seq(Containers)
          /\ IsInjective(p.containers \o p.initContainers)
    /\ \A p, q \in Pods : p # q => ContainersOf(p) \cap ContainersOf(q) = {}
    /\ ErrorRef \notin Containers

IsList(s) == s \in Seq(Range(s))

ASSUME ListsAssumption ==
    /\ IsList(VMSelectors) /\ IsList(OperatorTargets)
    /\ \A s \in Calls : IsList(s.targetNamespaces)

ASSUME BoundsAssumption ==
    /\ MaxLogLen \in Nat
    /\ TailLines \in Nat \ {0}
    /\ MaxErrLinesPerContainer \in Nat \ {0}

VARIABLES
    log,        \* container -> the lines it has written
    spec,       \* the call: the policy's log collection and what it depends on
    pc,         \* where the collection is
    targets,    \* selectors still to be listed, the one at hand first
    todo,       \* pods of its list not visited yet
    containers, \* containers of the pod at hand not read yet
    stream,     \* what the request for the logs of the first of them returned
    scanned,    \* lines of it the scanner has returned
    count,      \* lines of it that were kept
    entries,    \* VMPodLogs and then OperatorLogs
    errors,     \* the collection's Errors
    reported,   \* entries that ToCheckResults has gone through
    seen,       \* keys of those it has reported
    results,    \* the findings it makes
    listed,     \* history: selectors whose pods were listed
    heard       \* history: <<container, stream>> of those that were not cut

collection == <<entries, errors>>
findings == <<reported, seen, results>>
history == <<listed, heard>>
reading == <<containers, stream, scanned, count>>
vars == <<log, spec, pc, targets, todo, containers, stream, scanned, count,
          entries, errors, reported, seen, results, listed, heard>>

-----------------------------------------------------------------------------
(* The pods, the API server and the clock.                                 *)

Write ==
    /\ pc # "done"
    /\ \E c \in Containers, l \in Lines :
          /\ Len(log[c]) < MaxLogLen
          /\ log' = [log EXCEPT ![c] = Append(@, l)]
    /\ UNCHANGED <<spec, pc, targets, todo, reading, collection, findings, history>>

\* The pods a list returns.  (The cache may lag behind; which pods there are
\* does not change here.)
Listed(t) ==
    {p \in Pods : t.selector \in p.labels /\ t.ns \in {p.ns, AllNamespaces}}

\* The end of a log that a request may be answered with: at most TailLines
\* lines, and fewer if the others are older than sinceSeconds.
Tails(lines) ==
    {SubSeq(lines, Len(lines) - k + 1, Len(lines)) :
        k \in 0..(IF Len(lines) < TailLines THEN Len(lines) ELSE TailLines)}

-----------------------------------------------------------------------------
(* runLogCollection and Collect.                                           *)

\* The guards: collection is off, there is no client for logs, or it waits
\* for an alert and none fires.
Wanted(s) == s.enabled /\ s.kubeClient /\ (s.onAlertOnly => s.firing)

\* Every namespace with every selector for virtual machine pods, as by two nested
\* loops, then the operators' pods.
TargetsOf(s) ==
    LET m == Len(VMSelectors)
        ofVMs == [i \in 1..(Len(s.targetNamespaces) * m) |->
                    [vm |-> TRUE,
                     ns |-> s.targetNamespaces[((i - 1) \div m) + 1],
                     selector |-> VMSelectors[((i - 1) % m) + 1]]]
    IN  (IF s.vmPodLogs THEN ofVMs ELSE <<>>)
            \o (IF s.operatorLogs THEN OperatorTargets ELSE <<>>)

Start ==
    /\ pc = "start"
    /\ pc' = IF Wanted(spec) THEN "list" ELSE "done"
    /\ targets' = IF Wanted(spec) THEN TargetsOf(spec) ELSE <<>>
    /\ UNCHANGED <<log, spec, todo, reading, collection, findings, history>>

-----------------------------------------------------------------------------
(* collectVMPodLogs and collectOperatorLogs.                               *)

ListPods ==
    /\ pc = "list"
    /\ targets # <<>>
    /\ todo' = Listed(Head(targets))
    /\ listed' = listed \cup {Head(targets)}
    /\ pc' = "pods"
    /\ UNCHANGED <<log, spec, targets, reading, collection, findings, heard>>

\* Mutant: the rest of the selectors is given up.
ListFailsForGood ==
    /\ pc = "list"
    /\ targets # <<>>
    /\ errors' = Append(errors, Head(targets))
    /\ targets' = <<>>
    /\ UNCHANGED <<log, spec, pc, todo, reading, entries, findings, history>>

\* Mutant: a list that fails is asked for again.
ListFailsAgain ==
    /\ pc = "list"
    /\ targets # <<>>
    /\ errors' = Append(errors, Head(targets))
    /\ UNCHANGED <<log, spec, pc, targets, todo, reading, entries, findings, history>>

\* A namespace of operators may not exist, which is no error.
ListFails ==
    /\ pc = "list"
    /\ targets # <<>>
    /\ errors' = IF Head(targets).vm THEN Append(errors, Head(targets)) ELSE errors
    /\ targets' = Tail(targets)
    /\ UNCHANGED <<log, spec, pc, todo, reading, entries, findings, history>>

EndList ==
    /\ pc = "pods"
    /\ todo = {}
    /\ targets' = Tail(targets)
    /\ pc' = "list"
    /\ UNCHANGED <<log, spec, todo, reading, collection, findings, history>>

\* collectPodLogs: the pod's containers, and those that initialise it if the
\* pod has failed.
VisitPod ==
    /\ pc = "pods"
    /\ \E p \in todo :
          /\ todo' = todo \ {p}
          /\ containers' = p.containers \o (IF p.failed THEN p.initContainers ELSE <<>>)
    /\ pc' = "open"
    /\ UNCHANGED <<log, spec, targets, stream, scanned, count, collection, findings, history>>

EndPod ==
    /\ pc = "open"
    /\ containers = <<>>
    /\ pc' = "pods"
    /\ UNCHANGED <<log, spec, targets, todo, reading, collection, findings, history>>

\* The stream holds what the container has written when the request is served.
Open ==
    /\ pc = "open"
    /\ containers # <<>>
    /\ stream' \in Tails(log[Head(containers)])
    /\ pc' = "scan"
    /\ UNCHANGED <<log, spec, targets, todo, containers, scanned, count,
                   collection, findings, history>>

\* The container may not be running yet, or the request times out: no error,
\* and no entry in Errors.
OpenFails ==
    /\ pc = "open"
    /\ containers # <<>>
    /\ containers' = Tail(containers)
    /\ UNCHANGED <<log, spec, pc, targets, todo, stream, scanned, count,
                   collection, findings, history>>

-----------------------------------------------------------------------------
(* filterLogLines.                                                         *)

\* What is kept of a line that the scanner returns.
Kept(l) ==
    IF l \in Significant
      THEN <<[container |-> Head(containers), line |-> l]>>
      ELSE <<>>

AtLimit == count >= MaxErrLinesPerContainer

ScanLine ==
    /\ pc = "scan"
    /\ ~AtLimit
    /\ scanned < Len(stream)
    /\ LET kept == Kept(stream[scanned + 1])
       IN  /\ entries' = entries \o kept
           /\ count' = count + Len(kept)
    /\ scanned' = scanned + 1
    /\ UNCHANGED <<log, spec, pc, targets, todo, containers, stream, errors,
                   findings, history>>

\* On to the next container.
Close ==
    /\ containers' = Tail(containers)
    /\ stream' = <<>>
    /\ scanned' = 0
    /\ count' = 0
    /\ pc' = "open"
    /\ UNCHANGED <<log, spec, targets, todo, errors, findings, listed>>

EndStream ==
    /\ pc = "scan"
    /\ AtLimit \/ scanned = Len(stream)
    /\ heard' = heard \cup {<<Head(containers), stream>>}
    /\ UNCHANGED entries
    /\ Close

\* Mutant: a stream that hangs is waited for.
CutNever ==
    /\ pc = "scan"
    /\ ~AtLimit
    /\ scanned = Len(stream)
    /\ UNCHANGED <<entries, heard>>
    /\ Close

\* The timeout strikes, the connection breaks, or a line is longer than the
\* scanner's buffer: nobody looks at scanner.Err().  What has arrived of the
\* line at hand may count as a line.
Cut ==
    /\ pc = "scan"
    /\ ~AtLimit
    /\ \/ UNCHANGED entries
       \/ /\ scanned < Len(stream)
          /\ \E l \in Beginnings[stream[scanned + 1]] : entries' = entries \o Kept(l)
    /\ UNCHANGED heard
    /\ Close

-----------------------------------------------------------------------------
(* ToCheckResults.                                                         *)

EndCollect ==
    /\ pc = "list"
    /\ targets = <<>>
    /\ pc' = "report"
    /\ UNCHANGED <<log, spec, targets, todo, reading, collection, findings, history>>

Key(e) == <<e.container, Prefix[e.line]>>

LogFinding(e) ==
    [ref |-> e.container, status |-> "Degraded", line |-> e.line,
     severity |-> IF e.line \in Urgent THEN "Critical" ELSE "Warning"]

ErrorFinding(target) ==
    [ref |-> ErrorRef, status |-> "Unknown", target |-> target,
     severity |-> "Warning"]

Fresh(e) == Key(e) \notin seen

\* Mutant: a line is near-identical to any with its beginning.
ReportEntryOnce ==
    /\ pc = "report"
    /\ reported < Len(entries)
    /\ LET e == entries[reported + 1]
       IN  IF \A f \in seen : f[2] # Key(e)[2]
             THEN /\ seen' = seen \cup {Key(e)}
                  /\ results' = Append(results, LogFinding(e))
             ELSE UNCHANGED <<seen, results>>
    /\ reported' = reported + 1
    /\ UNCHANGED <<log, spec, pc, targets, todo, reading, collection, history>>

\* Mutant: what was reported in an earlier turn is forgotten.
ReportEntryAll ==
    /\ pc = "report"
    /\ reported < Len(entries)
    /\ LET e == entries[reported + 1]
       IN  /\ seen' = {Key(e)}
           /\ results' = Append(results, LogFinding(e))
    /\ reported' = reported + 1
    /\ UNCHANGED <<log, spec, pc, targets, todo, reading, collection, history>>

\* One turn of the loop over the entries.
ReportEntry ==
    /\ pc = "report"
    /\ reported < Len(entries)
    /\ LET e == entries[reported + 1]
       IN  IF Fresh(e)
             THEN /\ seen' = seen \cup {Key(e)}
                  /\ results' = Append(results, LogFinding(e))
             ELSE UNCHANGED <<seen, results>>
    /\ reported' = reported + 1
    /\ UNCHANGED <<log, spec, pc, targets, todo, reading, collection, history>>

\* The loop over the errors.
ReportErrors ==
    /\ pc = "report"
    /\ reported = Len(entries)
    /\ results' = results \o [i \in DOMAIN errors |-> ErrorFinding(errors[i])]
    /\ pc' = "done"
    /\ UNCHANGED <<log, spec, targets, todo, reading, collection, reported, seen,
                   history>>

Terminated == pc = "done" /\ UNCHANGED vars

-----------------------------------------------------------------------------
Init ==
    /\ log \in Logs
    /\ spec \in Calls
    /\ pc = "start"
    /\ targets = <<>>
    /\ todo = {}
    /\ containers = <<>>
    /\ stream = <<>>
    /\ scanned = 0
    /\ count = 0
    /\ entries = <<>>
    /\ errors = <<>>
    /\ reported = 0
    /\ seen = {}
    /\ results = <<>>
    /\ listed = {}
    /\ heard = {}

\* What the process does by itself, or a timeout makes it do.
Step ==
    \/ Start \/ ListPods \/ ListFails \/ EndList \/ VisitPod \/ EndPod
    \/ OpenFails \/ EndStream \/ Cut \/ EndCollect
    \/ ReportEntry \/ ReportErrors

Next == Write \/ Step \/ Open \/ ScanLine \/ Terminated

Spec == Init /\ [][Next]_vars

\* Nothing is assumed of containers, streams and the API server.
FairSpec == Spec /\ WF_vars(Step)

-----------------------------------------------------------------------------
(* Properties.                                                             *)

\* What the findings say of the container c.
Reported(c) == {i \in DOMAIN results : results[i].ref = c}

\* Every finding about a container goes back to a line that this container
\* wrote, or to the part of one that had arrived when its stream was cut; and
\* what is left of it matches a pattern.
Real(c) ==
    \A i \in Reported(c) :
        /\ results[i].line \in Significant
        /\ \E l \in Range(log[c]) : results[i].line \in {l} \cup Beginnings[l]

\* No two findings about a container begin alike.
Distinct(c) ==
    \A i, j \in Reported(c) : Prefix[results[i].line] = Prefix[results[j].line] => i = j

\* The selectors of this call that the container's pod matches.
Visits(c) ==
    {i \in DOMAIN TargetsOf(spec) :
        \E p \in Listed(TargetsOf(spec)[i]) :
            c \in ContainersOf(p)}

\* No more findings than the limit for each selector its pod matches.
Bounded(c) ==
    Cardinality(Reported(c)) <= MaxErrLinesPerContainer * Cardinality(Visits(c))

\* The findings about a container are real, "near-identical lines from the same
\* container" are one, and the collection is "intentionally bounded"
\* (logcollector.go:333, :5): although its pod may match several selectors, be
\* in a namespace listed twice, and write on between two visits, and although
\* its streams may be cut within a line.
FindingsAreSound == \A c \in Containers : Real(c) /\ Distinct(c) /\ Bounded(c)

\* Is the p-th line of a stream among the first significant ones, up to the
\* limit?
AmongFirst(lines, p) ==
    /\ lines[p] \in Significant
    /\ Cardinality({q \in 1..p : lines[q] \in Significant}) <= MaxErrLinesPerContainer

\* Whatever lists, requests and streams failed around it, and however often its
\* pod was visited, a stream that was not cut has its first significant lines in
\* the findings, each by itself or by a near-identical one of its container.
NothingLost ==
    pc = "done" =>
        \A h \in heard : \A p \in DOMAIN h[2] :
            AmongFirst(h[2], p) =>
                \E i \in Reported(h[1]) : Prefix[results[i].line] = Prefix[h[2][p]]

\* "Every check failure is logged and skipped, never blocks the cycle"
\* (docs/production-guide.md:26): of a collection that ran, each selector for
\* virtual machine pods was listed or has a finding that says that it was not.
SelectorsAccountedFor ==
    pc = "done" /\ Wanted(spec) =>
        \A t \in Range(TargetsOf(spec)) :
            \/ t \in listed
            \/ ~t.vm
            \/ ErrorFinding(t) \in Range(results)

\* What a collection has still to do, the weightier part first: its stages,
\* selectors, lists, pods, containers, requests, and lines or entries.
StillToDo ==
    <<CASE pc = "start" -> 3 [] pc = "report" -> 1 [] pc = "done" -> 0 [] OTHER -> 2,
      Len(targets),
      IF pc = "list" THEN 1 ELSE 0,
      Cardinality(todo),
      Len(containers),
      CASE pc = "open" -> 2 [] pc = "scan" -> 1 [] OTHER -> 0,
      IF pc = "report" THEN Len(entries) - reported ELSE Len(stream) - scanned>>

\* The order of the dictionary.
Less(x, y) == \E i \in 1..7 : x[i] < y[i] /\ \A j \in 1..(i - 1) : x[j] = y[j]

\* Every step leaves less to do, also one that fails, hangs or is cut off; and
\* what the containers write meanwhile never adds to it: nothing is tried again,
\* and no stream is followed.
LessAndLessToDo ==
    [][IF log' = log THEN Less(StillToDo', StillToDo) ELSE StillToDo' = StillToDo]_vars

\* A collection ends, and lets the only worker go on with the next policy,
\* whichever requests and streams hang.
CollectionEnds == <>(pc = "done")

\* "Errors lists any pods where log collection itself failed"
\* (logcollector.go:67).
ErrorsListsFailures == [][OpenFails => errors' # errors]_vars

\* "maxLogLinesPerContainer kept in the report" (logcollector.go:33), over all
\* visits of a container.
LimitPerContainer ==
    \A c \in Containers : Cardinality(Reported(c)) <= MaxErrLinesPerContainer

-----------------------------------------------------------------------------
(* The inductive invariant behind the safety properties.                   *)

Entry == [container: Containers, line: Lines]
Target == Range(TargetsOf(spec))
LogFindings ==
    [ref: Containers, status: {"Degraded"}, line: Lines, severity: {"Critical", "Warning"}]

\* Every variable stays in its type.
TypeOK ==
    /\ log \in [Containers -> Seq(Lines)]
    /\ spec \in Calls
    /\ pc \in {"start", "list", "pods", "open", "scan", "report", "done"}
    /\ targets \in Seq(Target)
    /\ todo \subseteq Pods
    /\ containers \in Seq(Containers)
    /\ stream \in Seq(Lines)
    /\ scanned \in 0..Len(stream)
    /\ count \in 0..MaxErrLinesPerContainer
    /\ entries \in Seq(Entry)
    /\ errors \in Seq(Target)
    /\ reported \in 0..Len(entries)
    /\ seen \subseteq {Key(e) : e \in Entry}
    /\ results \in Seq(LogFindings \cup {ErrorFinding(t) : t \in Target})
    /\ listed \subseteq Target
    /\ heard \subseteq Containers \X Seq(Lines)

InList == pc \in {"pods", "open", "scan"}

\* The number of selectors done with.
Position == Len(TargetsOf(spec)) - Len(targets)

\* The selectors still to be listed are the last ones.
TargetsLeft ==
    /\ Len(targets) <= Len(TargetsOf(spec))
    /\ \A j \in 1..Len(targets) : targets[j] = TargetsOf(spec)[Position + j]
    /\ pc \in {"start", "report", "done"} => targets = <<>>
    /\ pc \notin {"start", "done"} => Wanted(spec)
    /\ InList => targets # <<>> /\ Head(targets) \in listed

\* Pods still to be visited and containers still to be read are of the list at
\* hand, and each will be read once.
VisitsLeft ==
    /\ InList => todo \subseteq Listed(Head(targets))
    /\ pc \notin {"open", "scan"} => containers = <<>>
    /\ ~InList => todo = {}
    /\ pc = "scan" => containers # <<>>
    /\ IsInjective(containers)
    /\ containers # <<>> =>
          \E p \in Listed(Head(targets)) \ todo : Range(containers) \subseteq ContainersOf(p)

\* A stream is made of lines of its container, and the count is right.
StreamSoFar ==
    /\ pc # "scan" => stream = <<>> /\ count = 0
    /\ pc = "scan" => Range(stream) \subseteq Range(log[Head(containers)])
    /\ count = Cardinality({q \in 1..scanned : stream[q] \in Significant})

FromLog(c, line) ==
    /\ line \in Significant
    /\ \E l \in Range(log[c]) : line \in {l} \cup Beginnings[l]

\* Entries go back to lines that were written.
EntriesAreReal == \A i \in DOMAIN entries : FromLog(entries[i].container, entries[i].line)

IsKept(c, line) == \E i \in DOMAIN entries : entries[i] = [container |-> c, line |-> line]

\* Whatever was scanned and is significant has an entry.
ScannedIsKept ==
    \A p \in 1..scanned : stream[p] \in Significant => IsKept(Head(containers), stream[p])

\* So has what a stream that was not cut counts for.
HeardIsKept ==
    \A h \in heard : \A p \in DOMAIN h[2] : AmongFirst(h[2], p) => IsKept(h[1], h[2][p])

EntriesOf(c) == {i \in DOMAIN entries : entries[i].container = c}

\* The container is still to be read for the selector at hand.
IsDue(c) ==
    /\ InList
    /\ c \in Range(containers) \/ \E p \in todo : c \in ContainersOf(p)

\* The visits that have been made of the container.
VisitsSoFar(c) ==
    {i \in Visits(c) : i <= Position \/ (InList /\ ~IsDue(c) /\ i = Position + 1)}

OnHand(c) == IF pc = "scan" /\ Head(containers) = c THEN count ELSE 0

EntriesAreBounded ==
    \A c \in Containers :
        Cardinality(EntriesOf(c)) <=
            MaxErrLinesPerContainer * Cardinality(VisitsSoFar(c)) + OnHand(c)

\* There is nothing before the collection has started.
NothingYet == pc = "start" => entries = <<>> /\ errors = <<>>

\* The findings are those of the entries gone through, one for each key.
FindingsSoFar ==
    /\ pc \notin {"report", "done"} => reported = 0 /\ results = <<>>
    /\ pc = "done" => reported = Len(entries)
    /\ pc # "done" => \A i \in DOMAIN results : results[i].ref \in Containers
    /\ \A i \in DOMAIN results : results[i].ref \in Containers =>
          /\ <<results[i].ref, Prefix[results[i].line]>> \in seen
          /\ \E k \in 1..reported : results[i] = LogFinding(entries[k])
    /\ \A key \in seen : \E i \in DOMAIN results :
          results[i].ref \in Containers /\ key = <<results[i].ref, Prefix[results[i].line]>>
    /\ \A k \in 1..reported : Key(entries[k]) \in seen

FindingsAreDistinct == \A c \in Containers : Distinct(c)

\* A container has no more findings than entries.
FindingsAreCounted ==
    \A c \in Containers :
        Cardinality(Reported(c)) <= Cardinality({k \in EntriesOf(c) : k <= reported})

\* A selector that was done with was listed, or its failure is on record.
DoneIsAccounted ==
    pc # "start" /\ Wanted(spec) =>
        \A i \in 1..Position :
            LET t == TargetsOf(spec)[i]
            IN  t \in listed \/ ~t.vm \/ t \in Range(errors)

ErrorsAreReported ==
    pc = "done" => \A t \in Range(errors) : ErrorFinding(t) \in Range(results)

IInv ==
    /\ TypeOK
    /\ TargetsLeft
    /\ VisitsLeft
    /\ StreamSoFar
    /\ EntriesAreReal
    /\ ScannedIsKept
    /\ HeardIsKept
    /\ EntriesAreBounded
    /\ NothingYet
    /\ FindingsSoFar
    /\ FindingsAreDistinct
    /\ FindingsAreCounted
    /\ DoneIsAccounted
    /\ ErrorsAreReported

=============================================================================
