--------------------------- MODULE TopologicalSort ---------------------------
(***************************************************************************)
(* WorkflowRunner.topologicalSort (internal/remediation/remediation.go):   *)
(* Kahn's algorithm, one action per turn of its loops.                     *)
(*                                                                         *)
(* Go's maps are functions over all names that can occur; a key that is    *)
(* not in the map has the zero value, and `known' is the set of keys       *)
(* inDegree really has.  The queue is seeded by ranging over a map, so the *)
(* order of the seeds is arbitrary.                                        *)
(***************************************************************************)
EXTENDS WorkflowGraph, FiniteSets, Functions

CONSTANTS
    Names,       \* names steps may have or depend on
    Workflows    \* the workflows to sort

Step == [name: Names, dependsOn: Seq(Names)]

ASSUME NamesAssumption == IsFiniteSet(Names)

ASSUME WorkflowsAssumption == Workflows \subseteq Seq(Step)

VARIABLES
    steps,       \* the argument
    pc,          \* the loop topologicalSort is in
    entered,     \* steps the first loop has entered
    linked,      \* dependencies of the last of them it has linked
    graph,       \* name -> names of the steps that depend on it
    inDegree,    \* name -> dependencies not sorted yet
    known,       \* the keys of inDegree
    queue,       \* names whose dependencies are all sorted
    sorted,      \* the result, as names
    relaxed,     \* neighbours of the last sorted step done with
    result       \* "none" until the function returns

built == <<entered, linked, graph, known>>
vars == <<steps, pc, entered, linked, graph, inDegree, known,
          queue, sorted, relaxed, result>>

Results == {"none", "sorted", "notFound", "cycle"}

Init ==
    /\ steps \in Workflows
    /\ pc = "build"
    /\ entered = 0
    /\ linked = 0
    /\ graph = [n \in Names |-> <<>>]
    /\ inDegree = [n \in Names |-> 0]
    /\ known = {}
    /\ queue = <<>>
    /\ sorted = <<>>
    /\ relaxed = 0
    /\ result = "none"

-----------------------------------------------------------------------------
(* Building the maps.                                                      *)

\* Has the step entered last dependencies to link yet?
InStep == entered > 0 /\ linked < Len(steps[entered].dependsOn)

\* The next step of the workflow gets its entries in stepMap and inDegree.
EnterStep ==
    /\ pc = "build"
    /\ ~InStep
    /\ entered < Len(steps)
    /\ entered' = entered + 1
    /\ linked' = 0
    /\ known' = known \cup {steps[entered + 1].name}
    /\ UNCHANGED <<steps, pc, graph, inDegree, queue, sorted, relaxed, result>>

\* One of its dependencies: an edge, and one more to wait for.
Link ==
    /\ pc = "build"
    /\ InStep
    /\ linked' = linked + 1
    /\ LET name == steps[entered].name
           dep  == steps[entered].dependsOn[linked + 1]
       IN  /\ graph' = [graph EXCEPT ![dep] = Append(@, name)]
           /\ inDegree' = [inDegree EXCEPT ![name] = @ + 1]
    /\ UNCHANGED <<steps, pc, entered, known, queue, sorted, relaxed, result>>

Sources == {n \in known : inDegree[n] = 0}

\* The queue starts with the steps that wait for nothing, in map order.
SeedQueue ==
    /\ pc = "build"
    /\ ~InStep
    /\ entered = Len(steps)
    /\ pc' = "pop"
    /\ queue' \in Bijection(1..Cardinality(Sources), Sources)
    /\ UNCHANGED <<steps, built, inDegree, sorted, relaxed, result>>

-----------------------------------------------------------------------------
(* Sorting.                                                                *)

\* The head of the queue is sorted; one that is no step would end the sort.
Pop ==
    /\ pc = "pop"
    /\ queue # <<>>
    /\ queue' = Tail(queue)
    /\ relaxed' = 0
    /\ IF Head(queue) \in StepNames(steps)
         THEN /\ sorted' = Append(sorted, Head(queue))
              /\ pc' = "relax"
              /\ UNCHANGED result
         ELSE /\ result' = "notFound"
              /\ pc' = "done"
              /\ UNCHANGED sorted
    /\ UNCHANGED <<steps, built, inDegree>>

curr == sorted[Len(sorted)]

\* Mutant: a neighbour is queued whenever it is relaxed.
RelaxEager ==
    /\ pc = "relax"
    /\ relaxed < Len(graph[curr])
    /\ relaxed' = relaxed + 1
    /\ LET neighbor == graph[curr][relaxed + 1]
       IN  /\ inDegree' = [inDegree EXCEPT ![neighbor] = @ - 1]
           /\ queue' = Append(queue, neighbor)
    /\ UNCHANGED <<steps, pc, built, sorted, result>>

\* Mutant: the neighbour's degree is looked at before it is decremented.
RelaxLate ==
    /\ pc = "relax"
    /\ relaxed < Len(graph[curr])
    /\ relaxed' = relaxed + 1
    /\ LET neighbor == graph[curr][relaxed + 1]
       IN  /\ inDegree' = [inDegree EXCEPT ![neighbor] = @ - 1]
           /\ queue' = IF inDegree[neighbor] = 0
                         THEN Append(queue, neighbor) ELSE queue
    /\ UNCHANGED <<steps, pc, built, sorted, result>>

\* One neighbour of it has one dependency less to wait for.
Relax ==
    /\ pc = "relax"
    /\ relaxed < Len(graph[curr])
    /\ relaxed' = relaxed + 1
    /\ LET neighbor == graph[curr][relaxed + 1]
       IN  /\ inDegree' = [inDegree EXCEPT ![neighbor] = @ - 1]
           /\ queue' = IF inDegree[neighbor] = 1
                         THEN Append(queue, neighbor) ELSE queue
    /\ UNCHANGED <<steps, pc, built, sorted, result>>

NextHead ==
    /\ pc = "relax"
    /\ relaxed = Len(graph[curr])
    /\ pc' = "pop"
    /\ UNCHANGED <<steps, built, inDegree, queue, sorted, relaxed, result>>

\* Mutant: as many steps as there are names are enough.
ReturnByNames ==
    /\ pc = "pop"
    /\ queue = <<>>
    /\ pc' = "done"
    /\ result' = IF Len(sorted) = Cardinality(known) THEN "sorted" ELSE "cycle"
    /\ UNCHANGED <<steps, built, inDegree, queue, sorted, relaxed>>

\* Mutant: the loop runs until every step is sorted.
ReturnWhenComplete ==
    /\ pc = "pop"
    /\ queue = <<>>
    /\ IF Len(sorted) = Len(steps)
         THEN pc' = "done" /\ result' = "sorted"
         ELSE UNCHANGED <<pc, result>>
    /\ UNCHANGED <<steps, built, inDegree, queue, sorted, relaxed>>

\* The queue is empty.  Unless every step was sorted there is a cycle, or so
\* the error says.
Return ==
    /\ pc = "pop"
    /\ queue = <<>>
    /\ pc' = "done"
    /\ result' = IF Len(sorted) = Len(steps) THEN "sorted" ELSE "cycle"
    /\ UNCHANGED <<steps, built, inDegree, queue, sorted, relaxed>>

Terminated == pc = "done" /\ UNCHANGED vars

Next ==
    \/ EnterStep \/ Link \/ SeedQueue
    \/ Pop \/ Relax \/ NextHead \/ Return
    \/ Terminated

Spec == Init /\ [][Next]_vars

\* A function that is called runs on.
FairSpec == Spec /\ WF_vars(Next)

-----------------------------------------------------------------------------
(* Properties.                                                             *)

\* Every variable stays in its type.
TypeOK ==
    /\ steps \in Seq(Step)
    /\ pc \in {"build", "pop", "relax", "done"}
    /\ entered \in 0..Len(steps)
    /\ linked \in Nat
    /\ graph \in [Names -> Seq(Names)]
    /\ inDegree \in [Names -> Int]
    /\ known \in SUBSET Names
    /\ queue \in Seq(Names)
    /\ sorted \in Seq(Names)
    /\ relaxed \in Nat
    /\ result \in Results

\* What topologicalSort returns without an error lists every step of the
\* workflow once and behind all the steps it depends on, whatever order the
\* map range seeded the queue in.
SortedIsSound == result = "sorted" => IsTopologicalOrder(steps, sorted)

\* topologicalSort refuses a workflow only if it cannot be ordered: a name is
\* used twice, a dependency is missing, or there is a cycle.
RefusalIsJustified == result \in {"notFound", "cycle"} => ~Sortable(steps)

\* The error "dependency %q not found in steps" (remediation.go:280) is never
\* returned: only names of steps get into the queue.
NotFoundIsDead == result # "notFound"

\* What the sort has still to do, the weightier part first: loops, steps to enter
\* and dependencies to link, names to sort and neighbours to relax.
StillToDo ==
    <<CASE pc = "build" -> 2 [] pc = "done" -> 0 [] OTHER -> 1,
      Len(steps) - entered,
      IF InStep THEN Len(steps[entered].dependsOn) - linked ELSE 0,
      Cardinality(known \ {sorted[q] : q \in DOMAIN sorted}),
      IF pc = "relax" THEN 1 + Len(graph[curr]) - relaxed ELSE 0>>

\* The order of the dictionary.
Less(s, t) == \E i \in 1..5 : s[i] < t[i] /\ \A j \in 1..(i - 1) : s[j] = t[j]

\* Every turn of every loop leaves less to do: no name is queued again, although
\* the queue grows while it is walked, and steps may repeat names and wait for
\* each other.
LessAndLessToDo == [][Less(StillToDo', StillToDo)]_vars

\* The sort comes to an end, on cyclic workflows too.
SortEnds == <>(result # "none")

\* "cycle detected in remediation workflow" (remediation.go:294) is what
\* topologicalSort says of a workflow that has a cycle.
CycleMeansCycle == result = "cycle" => HasCycle(steps)

-----------------------------------------------------------------------------
(* The inductive invariant behind the safety properties.                   *)

\* Edges are places in graph: the p-th neighbour of d.
Edges == UNION {{d} \X DOMAIN graph[d] : d \in Names}

\* Has the dependency not been taken off yet?  Of the step being relaxed those
\* behind `relaxed' have not, of the other sorted ones all have.
OpenAt(d, p) ==
    \/ \A q \in DOMAIN sorted : sorted[q] # d
    \/ pc = "relax" /\ d = curr /\ p > relaxed

OpenEdges(n) == {e \in Edges : OpenAt(e[1], e[2]) /\ graph[e[1]][e[2]] = n}

\* inDegree counts the dependencies that are still open.
InDegreeCounts ==
    \A n \in Names :
        IsFiniteSet(OpenEdges(n)) /\ inDegree[n] = Cardinality(OpenEdges(n))

\* The dependencies linked so far are in graph.
LinkedInGraph ==
    \A s \in 1..entered : \A m \in DOMAIN steps[s].dependsOn :
        (s < entered \/ m <= linked) =>
            \E p \in DOMAIN graph[steps[s].dependsOn[m]] :
                graph[steps[s].dependsOn[m]][p] = steps[s].name

\* Only such dependencies are.
GraphIsLinked ==
    \A d \in Names : \A p \in DOMAIN graph[d] :
        \E s \in 1..entered :
            steps[s].name = graph[d][p] /\ d \in DepsOf(steps[s])

\* Names are entered with their steps; the queue starts when all are.
KnownIsEntered ==
    /\ known = {steps[s].name : s \in 1..entered}
    /\ linked <= IF entered = 0 THEN 0 ELSE Len(steps[entered].dependsOn)
    /\ pc # "build" => entered = Len(steps) /\ ~InStep

\* Sorted and queued steps are the ones with no open dependency, each once.
QueuedIsReady ==
    IF pc = "build"
      THEN queue = <<>> /\ sorted = <<>>
      ELSE /\ \A p, q \in DOMAIN queue : queue[p] = queue[q] => p = q
           /\ \A p, q \in DOMAIN sorted : sorted[p] = sorted[q] => p = q
           /\ \A p \in DOMAIN queue, q \in DOMAIN sorted : queue[p] # sorted[q]
           /\ \A n \in Names :
                 (n \in known /\ inDegree[n] = 0) <=>
                    \/ \E p \in DOMAIN queue : queue[p] = n
                    \/ \E q \in DOMAIN sorted : sorted[q] = n

\* A sorted step is behind everything it depends on.
SortedIsOrdered ==
    \A p \in DOMAIN sorted, s \in DOMAIN steps :
        steps[s].name = sorted[p] =>
            \A d \in DepsOf(steps[s]) : \E q \in 1..(p - 1) : sorted[q] = d

\* What the last loop leaves behind.
Verdict ==
    /\ pc = "relax" => sorted # <<>> /\ relaxed <= Len(graph[curr])
    /\ pc # "done" => result = "none"
    /\ result # "notFound"
    /\ pc = "done" => /\ queue = <<>>
                      /\ result = IF Len(sorted) = Len(steps)
                                    THEN "sorted" ELSE "cycle"

IInv ==
    /\ TypeOK
    /\ InDegreeCounts
    /\ LinkedInGraph
    /\ GraphIsLinked
    /\ KnownIsEntered
    /\ QueuedIsReady
    /\ SortedIsOrdered
    /\ Verdict

=============================================================================
