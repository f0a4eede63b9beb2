------------------------ MODULE TopologicalSortProofs ------------------------
(***************************************************************************)
(* topologicalSort is correct for workflows of every size: what it returns *)
(* is a topological order, and what it refuses has none.                   *)
(*                                                                         *)
(* The heart of the proof is InDegreeCounts: inDegree[n] is the number of  *)
(* edges into n whose other end has not been taken off yet.  Each action   *)
(* either leaves OpenEdges as they are, adds one (Link) or removes one     *)
(* (Relax); everything else is read off from that.                         *)
(***************************************************************************)
EXTENDS TopologicalSort, FiniteSetTheorems, TLAPS

-----------------------------------------------------------------------------
(* Edges.                                                                  *)

\* An edge is a place in graph.
LEMMA EdgesDef ==
    \A e : e \in Edges <=> \E d \in Names : \E p \in DOMAIN graph[d] : e = <<d, p>>
BY DEF Edges

\* An edge is open into n.
LEMMA OpenEdgesDef ==
    ASSUME NEW n, NEW d, NEW p
    PROVE  <<d, p>> \in OpenEdges(n) <=>
              /\ d \in Names /\ p \in DOMAIN graph[d]
              /\ OpenAt(d, p) /\ graph[d][p] = n
<1>1. <<d, p>> \in Edges <=> d \in Names /\ p \in DOMAIN graph[d]
  BY EdgesDef
<1>2. QED
  BY <1>1 DEF OpenEdges

\* Steps that neither build the graph nor move the sort along leave the open
\* edges alone.
LEMMA SameOpenEdges ==
    ASSUME graph' = graph,
           \A d \in Names : \A p \in DOMAIN graph[d] : OpenAt(d, p)' <=> OpenAt(d, p),
           NEW n
    PROVE  OpenEdges(n)' = OpenEdges(n)
<1>1. Edges' = Edges
  BY DEF Edges
<1>2. \A e \in Edges : OpenAt(e[1], e[2])' <=> OpenAt(e[1], e[2])
  BY EdgesDef
<1>3. QED
  BY <1>1, <1>2 DEF OpenEdges

\* The degrees count the open edges as long as neither changes.
LEMMA CountsKept ==
    ASSUME InDegreeCounts, inDegree' = inDegree,
           \A n \in Names : OpenEdges(n)' = OpenEdges(n)
    PROVE  InDegreeCounts'
BY DEF InDegreeCounts
-----------------------------------------------------------------------------
(* The initial state.                                                      *)

\* A step has a name and a list of dependencies.
LEMMA StepType ==
    ASSUME TypeOK, NEW s \in DOMAIN steps
    PROVE  /\ steps[s].name \in Names
           /\ steps[s].dependsOn \in Seq(Names)
           /\ DOMAIN steps[s].dependsOn = 1..Len(steps[s].dependsOn)
           /\ Len(steps[s].dependsOn) \in Nat
           /\ \A m \in DOMAIN steps[s].dependsOn : steps[s].dependsOn[m] \in Names
<1>1. steps[s] \in Step
  BY DEF TypeOK
<1>2. steps[s].name \in Names /\ steps[s].dependsOn \in Seq(Names)
  BY <1>1 DEF Step
<1>3. QED
  BY <1>2

\* The invariant holds at the start.
LEMMA InitInvariant == Init => IInv
<1> SUFFICES ASSUME Init PROVE IInv
  OBVIOUS
<1>0. /\ pc = "build" /\ entered = 0 /\ linked = 0 /\ known = {}
      /\ queue = <<>> /\ sorted = <<>> /\ relaxed = 0 /\ result = "none"
      /\ steps \in Seq(Step)
  BY WorkflowsAssumption, Zenon DEF Init
<1>g. graph = [n \in Names |-> <<>>] /\ inDegree = [n \in Names |-> 0]
  BY Zenon DEF Init
<1>d. \A d \in Names : DOMAIN graph[d] = {}
  BY <1>g
<1>s. DOMAIN sorted = {}
  BY <1>0
<1>1. TypeOK
  <2>1. steps \in Seq(Step) /\ Len(steps) \in Nat
    BY <1>0
  <2>2. entered \in 0..Len(steps)
    BY <1>0, <2>1
  <2>3. graph \in [Names -> Seq(Names)] /\ inDegree \in [Names -> Int]
    BY <1>g
  <2>4. queue \in Seq(Names) /\ sorted \in Seq(Names)
    BY <1>0
  <2>5. QED
    BY <1>0, <2>1, <2>2, <2>3, <2>4 DEF TypeOK, Results
<1>2. \A n : OpenEdges(n) = {}
  <2>1. Edges = {}
    BY <1>d, EdgesDef
  <2>2. QED
    BY <2>1 DEF OpenEdges
<1>3. InDegreeCounts
  BY <1>2, <1>g, FS_EmptySet DEF InDegreeCounts
<1>4. LinkedInGraph /\ GraphIsLinked /\ KnownIsEntered
  <2>2. LinkedInGraph
    BY <1>0 DEF LinkedInGraph
  <2>3. GraphIsLinked
    BY <1>d DEF GraphIsLinked
  <2>4. KnownIsEntered
    BY <1>0 DEF KnownIsEntered
  <2>5. QED
    BY <2>2, <2>3, <2>4
<1>5. QueuedIsReady /\ SortedIsOrdered /\ Verdict
  BY <1>0, <1>s DEF QueuedIsReady, SortedIsOrdered, Verdict
<1>6. QED
  BY <1>1, <1>3, <1>4, <1>5 DEF IInv

-----------------------------------------------------------------------------
(* Building the maps.                                                      *)

\* While the maps are built nothing is sorted, so every edge is open.
LEMMA AllOpenWhileBuilding ==
    ASSUME sorted = <<>>, NEW d, NEW p
    PROVE  OpenAt(d, p)
BY DEF OpenAt

\* EnterStep keeps the invariant.
LEMMA EnterStepInvariant == IInv /\ EnterStep => IInv'
<1> SUFFICES ASSUME IInv, EnterStep PROVE IInv'
  OBVIOUS
<1>1. /\ pc = "build" /\ ~InStep /\ entered < Len(steps)
      /\ entered' = entered + 1 /\ linked' = 0
      /\ known' = known \cup {steps[entered + 1].name}
      /\ UNCHANGED <<steps, pc, graph, inDegree, queue, sorted, relaxed, result>>
  BY DEF EnterStep
<1>2. TypeOK /\ entered \in Nat /\ Len(steps) \in Nat /\ entered + 1 \in DOMAIN steps
      /\ DOMAIN steps = 1..Len(steps)
  BY <1>1 DEF IInv, TypeOK
<1>3. steps[entered + 1].name \in Names /\ Len(steps[entered + 1].dependsOn) \in Nat
  BY <1>2, StepType
<1>4. TypeOK'
  BY <1>1, <1>2, <1>3 DEF TypeOK
<1>5. InDegreeCounts'
  <2>1. \A n \in Names : OpenEdges(n)' = OpenEdges(n)
    BY <1>1, SameOpenEdges DEF OpenAt, curr
  <2>2. QED
    BY <1>1, <2>1, CountsKept DEF IInv
<1>6. LinkedInGraph'
  <2> SUFFICES ASSUME NEW s \in 1..(entered + 1), NEW m \in DOMAIN steps[s].dependsOn,
                      s < entered + 1 \/ m <= 0
               PROVE  \E p \in DOMAIN graph[steps[s].dependsOn[m]] :
                          graph[steps[s].dependsOn[m]][p] = steps[s].name
    BY <1>1 DEF LinkedInGraph
  <2>1. s \in DOMAIN steps /\ m \in 1..Len(steps[s].dependsOn)
    BY <1>2, StepType
  <2>2. s \in 1..entered
    BY <1>2, <2>1
  <2>3. s < entered \/ m <= linked
    <3>1. CASE s < entered
      BY <3>1
    <3>2. CASE s = entered
      <4>1. entered > 0 /\ m \in Nat /\ Len(steps[entered].dependsOn) \in Nat
            /\ m <= Len(steps[entered].dependsOn)
        BY <1>2, <2>1, <2>2, <3>2, StepType
      <4>2. linked \in Nat /\ ~(linked < Len(steps[entered].dependsOn))
        BY <1>1, <4>1 DEF InStep, IInv, TypeOK
      <4>3. QED
        BY <4>1, <4>2
    <3>3. QED
      BY <1>2, <2>2, <3>1, <3>2
  <2>4. QED
    BY <2>2, <2>3 DEF IInv, LinkedInGraph
<1>7. GraphIsLinked'
  BY <1>1, <1>2 DEF IInv, GraphIsLinked
<1>8. KnownIsEntered'
  BY <1>1, <1>2, <1>3 DEF IInv, KnownIsEntered
<1>9. QueuedIsReady' /\ SortedIsOrdered' /\ Verdict'
  BY <1>1 DEF IInv, QueuedIsReady, SortedIsOrdered, Verdict, curr
<1>10. QED
  BY <1>4, <1>5, <1>6, <1>7, <1>8, <1>9 DEF IInv

\* Link keeps the invariant.
LEMMA LinkInvariant == IInv /\ Link => IInv'
<1> SUFFICES ASSUME IInv, Link PROVE IInv'
  OBVIOUS
<1> DEFINE name == steps[entered].name
           dep  == steps[entered].dependsOn[linked + 1]
<1>1. /\ pc = "build" /\ entered > 0 /\ linked < Len(steps[entered].dependsOn)
      /\ linked' = linked + 1
      /\ graph' = [graph EXCEPT ![dep] = Append(@, name)]
      /\ inDegree' = [inDegree EXCEPT ![name] = @ + 1]
      /\ UNCHANGED <<steps, pc, entered, known, queue, sorted, relaxed, result>>
  BY DEF Link, InStep
<1>t. /\ TypeOK /\ entered \in 0..Len(steps) /\ linked \in Nat /\ steps \in Seq(Step)
      /\ graph \in [Names -> Seq(Names)] /\ inDegree \in [Names -> Int]
  BY DEF IInv, TypeOK
<1>2. /\ entered \in 1..Len(steps) /\ DOMAIN steps = 1..Len(steps)
      /\ TypeOK /\ linked \in Nat /\ steps \in Seq(Step)
      /\ graph \in [Names -> Seq(Names)] /\ inDegree \in [Names -> Int]
  BY <1>1, <1>t
<1>3. /\ name \in Names /\ linked + 1 \in DOMAIN steps[entered].dependsOn
      /\ dep \in Names /\ dep \in DepsOf(steps[entered])
  <2>1. entered \in DOMAIN steps
    BY <1>2
  <2>2. /\ steps[entered].name \in Names
        /\ DOMAIN steps[entered].dependsOn = 1..Len(steps[entered].dependsOn)
        /\ Len(steps[entered].dependsOn) \in Nat
        /\ \A m \in DOMAIN steps[entered].dependsOn : steps[entered].dependsOn[m] \in Names
    BY <1>2, <2>1, StepType
  <2>3. linked + 1 \in DOMAIN steps[entered].dependsOn
    BY <1>1, <1>2, <2>2
  <2>4. dep \in Names /\ name \in Names
    BY <2>2, <2>3
  <2>5. dep \in DepsOf(steps[entered])
    BY <2>3 DEF DepsOf
  <2>6. QED
    BY <2>3, <2>4, <2>5
<1> HIDE DEF name, dep
<1>4. /\ \A d \in Names : d # dep => graph'[d] = graph[d]
      /\ graph[dep] \in Seq(Names) /\ graph'[dep] = Append(graph[dep], name)
      /\ DOMAIN graph'[dep] = 1..(Len(graph[dep]) + 1)
      /\ DOMAIN graph[dep] = 1..Len(graph[dep])
      /\ graph'[dep][Len(graph[dep]) + 1] = name
      /\ \A p \in 1..Len(graph[dep]) : graph'[dep][p] = graph[dep][p]
  BY <1>1, <1>2, <1>3
<1>5. graph' \in [Names -> Seq(Names)] /\ inDegree' \in [Names -> Int]
  <2>1. Append(graph[dep], name) \in Seq(Names)
    BY <1>3, <1>4
  <2>2. graph' \in [Names -> Seq(Names)]
    BY <1>1, <1>2, <2>1
  <2>3. inDegree' \in [Names -> Int]
    <3>1. inDegree' = [inDegree EXCEPT ![name] = @ + 1]
      BY <1>1
    <3>2. inDegree \in [Names -> Int] /\ name \in Names
      BY <1>2, <1>3
    <3>3. QED
      BY <3>1, <3>2
  <2>4. QED
    BY <2>2, <2>3
<1>6. TypeOK'
  <2>1. linked' \in Nat
    BY <1>1, <1>2
  <2>2. QED
    BY <1>1, <1>2, <1>5, <2>1 DEF TypeOK
<1>7. InDegreeCounts'
  <2>1. sorted = <<>> /\ sorted' = <<>>
    BY <1>1 DEF IInv, QueuedIsReady
  <2>2. ASSUME NEW n \in Names, n # name
        PROVE  OpenEdges(n)' = OpenEdges(n)
    <3>1. ASSUME NEW e
          PROVE  e \in OpenEdges(n)' <=> e \in OpenEdges(n)
      <4>1. e \in OpenEdges(n) <=>
              \E d \in Names : \E p \in DOMAIN graph[d] : e = <<d, p>> /\ graph[d][p] = n
        BY <2>1, EdgesDef, AllOpenWhileBuilding DEF OpenEdges
      <4>2. e \in OpenEdges(n)' <=>
              \E d \in Names : \E p \in DOMAIN graph'[d] : e = <<d, p>> /\ graph'[d][p] = n
        BY <2>1, EdgesDef, AllOpenWhileBuilding DEF OpenEdges, OpenAt, Edges
      <4>3. ASSUME NEW d \in Names, NEW p
            PROVE  p \in DOMAIN graph'[d] /\ graph'[d][p] = n
                     <=> p \in DOMAIN graph[d] /\ graph[d][p] = n
        <5>1. CASE d # dep
          BY <1>4, <5>1
        <5>2. CASE d = dep /\ p \in 1..Len(graph[dep])
          <6>1. p \in 1..(Len(graph[dep]) + 1)
            BY <5>2
          <6>2. QED
            BY <1>4, <5>2, <6>1
        <5>3. CASE d = dep /\ p \notin 1..Len(graph[dep])
          <6>1. p \in 1..(Len(graph[dep]) + 1) => p = Len(graph[dep]) + 1
            BY <1>4, <5>3
          <6>2. QED
            BY <1>4, <2>2, <5>3, <6>1
        <5>4. QED
          BY <5>1, <5>2, <5>3
      <4>4. QED
        BY <4>1, <4>2, <4>3
    <3>2. QED
      BY <3>1
  <2>3. /\ OpenEdges(name)' = OpenEdges(name) \cup {<<dep, Len(graph[dep]) + 1>>}
        /\ <<dep, Len(graph[dep]) + 1>> \notin OpenEdges(name)
    <3>1. ASSUME NEW e
          PROVE  e \in OpenEdges(name)' <=>
                    e \in OpenEdges(name) \/ e = <<dep, Len(graph[dep]) + 1>>
      <4>1. e \in OpenEdges(name) <=>
              \E d \in Names : \E p \in DOMAIN graph[d] : e = <<d, p>> /\ graph[d][p] = name
        BY <2>1, EdgesDef, AllOpenWhileBuilding DEF OpenEdges
      <4>2. e \in OpenEdges(name)' <=>
              \E d \in Names : \E p \in DOMAIN graph'[d] : e = <<d, p>> /\ graph'[d][p] = name
        BY <1>1, <2>1, EdgesDef, AllOpenWhileBuilding DEF OpenEdges, OpenAt, Edges, name
      <4> DEFINE new == <<dep, Len(graph[dep]) + 1>>
      <4>3. ASSUME e \in OpenEdges(name)
            PROVE  e \in OpenEdges(name)'
        <5>1. PICK d \in Names : \E p \in DOMAIN graph[d] : e = <<d, p>> /\ graph[d][p] = name
          BY <4>1, <4>3
        <5>2. PICK p \in DOMAIN graph[d] : e = <<d, p>> /\ graph[d][p] = name
          BY <5>1
        <5>3. p \in DOMAIN graph'[d] /\ graph'[d][p] = name
          <6>1. CASE d # dep
            BY <1>4, <5>2, <6>1
          <6>2. CASE d = dep
            <7>1. p \in 1..Len(graph[dep]) /\ p \in 1..(Len(graph[dep]) + 1)
              BY <1>4, <5>2, <6>2
            <7>2. QED
              BY <1>4, <5>2, <6>2, <7>1
          <6>3. QED
            BY <6>1, <6>2
        <5>4. QED
          BY <4>2, <5>2, <5>3
      <4>4. ASSUME e = new
            PROVE  e \in OpenEdges(name)'
        BY <1>3, <1>4, <4>2, <4>4
      <4>5. ASSUME e \in OpenEdges(name)', e # new
            PROVE  e \in OpenEdges(name)
        <5>1. PICK d \in Names : \E p \in DOMAIN graph'[d] : e = <<d, p>> /\ graph'[d][p] = name
          BY <4>2, <4>5
        <5>2. PICK p \in DOMAIN graph'[d] : e = <<d, p>> /\ graph'[d][p] = name
          BY <5>1
        <5>3. CASE d # dep
          BY <1>4, <4>1, <5>2, <5>3
        <5>4. CASE d = dep
          <6>1. p \in 1..Len(graph[dep])
            BY <1>4, <4>5, <5>2, <5>4
          <6>2. QED
            BY <1>3, <1>4, <4>1, <5>2, <5>4, <6>1
        <5>5. QED
          BY <5>3, <5>4
      <4>6. QED
        BY <4>3, <4>4, <4>5
    <3>2. <<dep, Len(graph[dep]) + 1>> \notin OpenEdges(name)
      BY <1>4, OpenEdgesDef
    <3>3. QED
      BY <3>1, <3>2
  <2>4. /\ IsFiniteSet(OpenEdges(name)')
        /\ inDegree'[name] = Cardinality(OpenEdges(name)')
    <3>1. IsFiniteSet(OpenEdges(name)) /\ inDegree[name] = Cardinality(OpenEdges(name))
      BY <1>3 DEF IInv, InDegreeCounts
    <3>2. /\ IsFiniteSet(OpenEdges(name)')
          /\ Cardinality(OpenEdges(name)') = Cardinality(OpenEdges(name)) + 1
      BY <2>3, <3>1, FS_AddElement
    <3>3. inDegree'[name] = inDegree[name] + 1
      BY <1>1, <1>2, <1>3
    <3>4. QED
      BY <3>1, <3>2, <3>3
  <2>5. ASSUME NEW n \in Names, n # name
        PROVE  IsFiniteSet(OpenEdges(n)') /\ inDegree'[n] = Cardinality(OpenEdges(n)')
    <3>1. inDegree'[n] = inDegree[n]
      BY <1>1, <1>2, <2>5
    <3>2. QED
      BY <2>2, <2>5, <3>1 DEF IInv, InDegreeCounts
  <2>6. \A n \in Names : IsFiniteSet(OpenEdges(n)') /\ inDegree'[n] = Cardinality(OpenEdges(n)')
    <3>1. name' = name
      BY <1>1 DEF name
    <3>2. QED
      BY <2>4, <2>5, <3>1
  <2>7. QED
    BY <2>6 DEF InDegreeCounts
<1>8. LinkedInGraph'
  <2> SUFFICES ASSUME NEW s \in 1..entered, NEW m \in DOMAIN steps[s].dependsOn,
                      s < entered \/ m <= linked + 1
               PROVE  \E p \in DOMAIN graph'[steps[s].dependsOn[m]] :
                          graph'[steps[s].dependsOn[m]][p] = steps[s].name
    BY <1>1 DEF LinkedInGraph
  <2> DEFINE d == steps[s].dependsOn[m]
  <2>0. s \in DOMAIN steps
    BY <1>2
  <2>1. s \in DOMAIN steps /\ m \in Nat /\ d \in Names
    BY <1>2, <2>0, StepType
  <2>2. CASE s < entered \/ m <= linked
    <3>1. PICK p \in DOMAIN graph[d] : graph[d][p] = steps[s].name
      BY <2>2 DEF IInv, LinkedInGraph
    <3> HIDE DEF d
    <3>2. p \in DOMAIN graph'[d] /\ graph'[d][p] = steps[s].name
      <4>1. CASE d # dep
        <5>1. graph'[d] = graph[d]
          BY <1>4, <2>1, <4>1
        <5>2. QED
          BY <3>1, <5>1
      <4>2. CASE d = dep
        <5>1. p \in 1..Len(graph[dep]) /\ graph[dep][p] = steps[s].name
          BY <1>4, <3>1, <4>2
        <5>2. p \in 1..(Len(graph[dep]) + 1)
          BY <5>1
        <5>3. p \in DOMAIN graph'[dep] /\ graph'[dep][p] = graph[dep][p]
          BY <1>4, <5>1, <5>2
        <5>4. QED
          BY <4>2, <5>1, <5>3
      <4>3. QED
        BY <4>1, <4>2
    <3>3. QED
      BY <3>2 DEF d
  <2>3. CASE ~(s < entered \/ m <= linked)
    <3>1. s = entered /\ m = linked + 1
      BY <1>2, <2>1, <2>3
    <3>2. d = dep /\ steps[s].name = name
      BY <3>1 DEF dep, name
    <3>3. QED
      BY <1>2, <1>4, <3>2
  <2>4. QED
    BY <2>2, <2>3
<1>9. GraphIsLinked'
  <2> SUFFICES ASSUME NEW d \in Names, NEW p \in DOMAIN graph'[d]
               PROVE  \E s \in 1..entered :
                          steps[s].name = graph'[d][p] /\ d \in DepsOf(steps[s])
    BY <1>1 DEF GraphIsLinked
  <2>1. CASE d = dep /\ p = Len(graph[dep]) + 1
    <3>1. entered \in 1..entered
      BY <1>2
    <3>2. graph'[d][p] = name
      BY <1>4, <2>1
    <3>3. steps[entered].name = graph'[d][p] /\ d \in DepsOf(steps[entered])
      BY <1>3, <2>1, <3>2 DEF name
    <3>4. QED
      BY <3>1, <3>3
  <2>2. CASE ~(d = dep /\ p = Len(graph[dep]) + 1)
    <3>1. p \in DOMAIN graph[d] /\ graph'[d][p] = graph[d][p]
      <4>1. CASE d # dep
        BY <1>4, <4>1
      <4>2. CASE d = dep
        <5>1. p \in 1..(Len(graph[dep]) + 1) /\ p # Len(graph[dep]) + 1
          BY <1>4, <2>2, <4>2
        <5>2. p \in 1..Len(graph[dep])
          BY <1>4, <5>1
        <5>3. QED
          BY <1>4, <4>2, <5>2
      <4>3. QED
        BY <4>1, <4>2
    <3>2. QED
      BY <3>1 DEF IInv, GraphIsLinked
  <2>3. QED
    BY <2>1, <2>2
<1>10. KnownIsEntered'
  BY <1>1, <1>2, StepType DEF IInv, KnownIsEntered, InStep
<1>11. QueuedIsReady' /\ SortedIsOrdered' /\ Verdict'
  <2>1. queue = <<>> /\ sorted = <<>>
    BY <1>1 DEF IInv, QueuedIsReady
  <2>2. QED
    BY <1>1, <2>1 DEF IInv, QueuedIsReady, SortedIsOrdered, Verdict
<1>12. QED
  BY <1>6, <1>7, <1>8, <1>9, <1>10, <1>11 DEF IInv

\* SeedQueue keeps the invariant.
LEMMA SeedQueueInvariant == IInv /\ SeedQueue => IInv'
<1> SUFFICES ASSUME IInv, SeedQueue PROVE IInv'
  OBVIOUS
<1>1. /\ pc = "build" /\ ~InStep /\ entered = Len(steps) /\ pc' = "pop"
      /\ queue' \in Bijection(1..Cardinality(Sources), Sources)
      /\ UNCHANGED <<steps, entered, linked, graph, known, inDegree, sorted, relaxed, result>>
  BY DEF SeedQueue, built
<1>2. TypeOK /\ sorted = <<>>
  BY <1>1 DEF IInv, QueuedIsReady
<1>3. Sources \subseteq Names /\ Cardinality(Sources) \in Nat
  <2>1. Sources \subseteq Names
    BY <1>2 DEF Sources, TypeOK
  <2>2. QED
    BY <2>1, NamesAssumption, FS_Subset, FS_CardinalityType
<1>4. /\ queue' \in [1..Cardinality(Sources) -> Sources]
      /\ \A p, q \in 1..Cardinality(Sources) : queue'[p] = queue'[q] => p = q
      /\ \A n \in Sources : \E p \in 1..Cardinality(Sources) : queue'[p] = n
  BY <1>1 DEF Bijection, Injection, Surjection, IsInjective
<1>5. queue' \in Seq(Names) /\ DOMAIN queue' = 1..Cardinality(Sources)
  BY <1>3, <1>4
<1>6. TypeOK'
  BY <1>1, <1>2, <1>5 DEF TypeOK
<1>7. InDegreeCounts'
  <2>1. \A n \in Names : OpenEdges(n)' = OpenEdges(n)
    BY <1>1, <1>2, SameOpenEdges DEF OpenAt
  <2>2. QED
    BY <1>1, <2>1, CountsKept DEF IInv
<1>8. LinkedInGraph' /\ GraphIsLinked' /\ KnownIsEntered'
  BY <1>1 DEF IInv, LinkedInGraph, GraphIsLinked, KnownIsEntered, InStep
<1>9. QueuedIsReady'
  BY <1>1, <1>2, <1>4, <1>5 DEF QueuedIsReady, Sources
<1>10. SortedIsOrdered' /\ Verdict'
  BY <1>1, <1>2 DEF IInv, SortedIsOrdered, Verdict
<1>11. QED
  BY <1>6, <1>7, <1>8, <1>9, <1>10 DEF IInv
-----------------------------------------------------------------------------
(* Sorting.                                                                *)

\* What it means that the queue loses its head and the result gains it.
LEMMA PopEffect ==
    ASSUME TypeOK, queue # <<>>,
           queue' = Tail(queue), sorted' = Append(sorted, Head(queue))
    PROVE  /\ Head(queue) = queue[1] /\ Head(queue) \in Names
           /\ queue' \in Seq(Names) /\ sorted' \in Seq(Names)
           /\ DOMAIN queue = 1..Len(queue) /\ Len(queue) \in Nat \ {0}
           /\ DOMAIN queue' = 1..(Len(queue) - 1)
           /\ \A p \in DOMAIN queue' : p + 1 \in DOMAIN queue /\ queue'[p] = queue[p + 1]
           /\ DOMAIN sorted = 1..Len(sorted) /\ Len(sorted) \in Nat
           /\ Len(sorted') = Len(sorted) + 1
           /\ DOMAIN sorted' = 1..(Len(sorted) + 1)
           /\ sorted'[Len(sorted) + 1] = Head(queue)
           /\ \A q \in DOMAIN sorted : sorted'[q] = sorted[q]
<1>1. queue \in Seq(Names) /\ sorted \in Seq(Names)
  BY DEF TypeOK
<1>2. Head(queue) = queue[1] /\ Head(queue) \in Names
  BY <1>1
<1>3. /\ queue' \in Seq(Names)
      /\ DOMAIN queue = 1..Len(queue) /\ Len(queue) \in Nat \ {0}
      /\ DOMAIN queue' = 1..(Len(queue) - 1)
      /\ \A p \in DOMAIN queue' : p + 1 \in DOMAIN queue /\ queue'[p] = queue[p + 1]
  BY <1>1
<1>4. /\ sorted' \in Seq(Names)
      /\ DOMAIN sorted = 1..Len(sorted) /\ Len(sorted) \in Nat
      /\ Len(sorted') = Len(sorted) + 1
      /\ DOMAIN sorted' = 1..(Len(sorted) + 1)
      /\ sorted'[Len(sorted) + 1] = Head(queue)
      /\ \A q \in DOMAIN sorted : sorted'[q] = sorted[q]
  BY <1>1, <1>2
<1>5. QED
  BY <1>2, <1>3, <1>4

\* Pop keeps the invariant.
LEMMA PopInvariant == IInv /\ Pop => IInv'
<1> SUFFICES ASSUME IInv, Pop PROVE IInv'
  OBVIOUS
<1> DEFINE h == Head(queue)
<1>1. /\ pc = "pop" /\ queue # <<>> /\ queue' = Tail(queue) /\ relaxed' = 0
      /\ UNCHANGED <<steps, entered, linked, graph, known, inDegree>>
  BY DEF Pop, built
<1>2. TypeOK /\ entered = Len(steps) /\ steps \in Seq(Step) /\ graph \in [Names -> Seq(Names)]
  BY <1>1 DEF IInv, TypeOK, KnownIsEntered
<1>3. h = queue[1] /\ 1 \in DOMAIN queue /\ h \in Names
  BY <1>1, <1>2 DEF TypeOK
<1>4. h \in known /\ inDegree[h] = 0
  BY <1>1, <1>3 DEF IInv, QueuedIsReady
<1>5. h \in StepNames(steps)
  BY <1>2, <1>4 DEF IInv, KnownIsEntered, StepNames
<1>6. sorted' = Append(sorted, h) /\ pc' = "relax" /\ result' = result
  BY <1>5 DEF Pop
<1>7. /\ queue' \in Seq(Names) /\ sorted' \in Seq(Names)
      /\ DOMAIN queue = 1..Len(queue) /\ Len(queue) \in Nat \ {0}
      /\ DOMAIN queue' = 1..(Len(queue) - 1)
      /\ \A p \in DOMAIN queue' : p + 1 \in DOMAIN queue /\ queue'[p] = queue[p + 1]
      /\ DOMAIN sorted = 1..Len(sorted) /\ Len(sorted) \in Nat
      /\ Len(sorted') = Len(sorted) + 1
      /\ DOMAIN sorted' = 1..(Len(sorted) + 1)
      /\ sorted'[Len(sorted) + 1] = h
      /\ \A q \in DOMAIN sorted : sorted'[q] = sorted[q]
  BY <1>1, <1>2, <1>6, PopEffect
<1>h. \A q \in DOMAIN sorted : sorted[q] # h
  BY <1>1, <1>3 DEF IInv, QueuedIsReady
<1>c. curr' = h
  BY <1>7 DEF curr
<1> HIDE DEF h
<1>8. TypeOK'
  BY <1>1, <1>2, <1>6, <1>7 DEF TypeOK
<1>9. InDegreeCounts'
  <2>1. ASSUME NEW d \in Names, NEW p \in DOMAIN graph[d]
        PROVE  OpenAt(d, p)' <=> OpenAt(d, p)
    <3>1. p > 0
      BY <1>2
    <3>2. CASE d = h
      BY <1>1, <1>6, <1>c, <1>h, <3>1, <3>2 DEF OpenAt
    <3>3. CASE d # h
      <4>1. (\A q \in DOMAIN sorted' : sorted'[q] # d) <=> (\A q \in DOMAIN sorted : sorted[q] # d)
        <5>1. ASSUME \A q \in DOMAIN sorted' : sorted'[q] # d
              PROVE  \A q \in DOMAIN sorted : sorted[q] # d
          BY <1>7, <5>1
        <5>2. ASSUME \A q \in DOMAIN sorted : sorted[q] # d, NEW q \in DOMAIN sorted'
              PROVE  sorted'[q] # d
          BY <1>7, <3>3, <5>2
        <5>3. QED
          BY <5>1, <5>2
      <4>2. QED
        BY <1>1, <1>c, <3>3, <4>1 DEF OpenAt
    <3>4. QED
      BY <3>2, <3>3
  <2>2. \A n \in Names : OpenEdges(n)' = OpenEdges(n)
    BY <1>1, <2>1, SameOpenEdges
  <2>3. QED
    BY <1>1, <2>2, CountsKept DEF IInv
<1>10. LinkedInGraph' /\ GraphIsLinked' /\ KnownIsEntered'
  BY <1>1, <1>6 DEF IInv, LinkedInGraph, GraphIsLinked, KnownIsEntered, InStep
<1>11. QueuedIsReady'
  <2>1. \A p, q \in DOMAIN queue' : queue'[p] = queue'[q] => p = q
    BY <1>1, <1>7 DEF IInv, QueuedIsReady
  <2>2. \A p, q \in DOMAIN sorted' : sorted'[p] = sorted'[q] => p = q
    BY <1>1, <1>7, <1>h DEF IInv, QueuedIsReady
  <2>3. ASSUME NEW p \in DOMAIN queue', NEW q \in DOMAIN sorted'
        PROVE  queue'[p] # sorted'[q]
    <3>1. p + 1 \in DOMAIN queue /\ queue'[p] = queue[p + 1] /\ p + 1 # 1
      BY <1>7
    <3>2. queue[p + 1] # h
      BY <1>1, <1>3, <3>1 DEF IInv, QueuedIsReady
    <3>3. CASE q \in DOMAIN sorted
      BY <1>1, <1>7, <3>1, <3>3 DEF IInv, QueuedIsReady
    <3>4. CASE q \notin DOMAIN sorted
      BY <1>7, <3>1, <3>2, <3>4
    <3>5. QED
      BY <3>3, <3>4
  <2>4. ASSUME NEW n \in Names
        PROVE  (\/ \E p \in DOMAIN queue' : queue'[p] = n
                \/ \E q \in DOMAIN sorted' : sorted'[q] = n)
               <=> (\/ \E p \in DOMAIN queue : queue[p] = n
                    \/ \E q \in DOMAIN sorted : sorted[q] = n)
    <3>1. ASSUME NEW p \in DOMAIN queue, queue[p] = n
          PROVE  \/ \E r \in DOMAIN queue' : queue'[r] = n
                 \/ \E q \in DOMAIN sorted' : sorted'[q] = n
      <4>1. CASE p = 1
        BY <1>3, <1>7, <3>1, <4>1
      <4>2. CASE p # 1
        <5>1. p - 1 \in DOMAIN queue' /\ (p - 1) + 1 = p
          BY <1>7, <4>2
        <5>2. queue'[p - 1] = n
          BY <1>7, <3>1, <5>1
        <5>3. QED
          BY <5>1, <5>2
      <4>3. QED
        BY <4>1, <4>2
    <3>2. ASSUME NEW q \in DOMAIN sorted, sorted[q] = n
          PROVE  \E r \in DOMAIN sorted' : sorted'[r] = n
      BY <1>7, <3>2
    <3>3. ASSUME NEW p \in DOMAIN queue', queue'[p] = n
          PROVE  \E r \in DOMAIN queue : queue[r] = n
      BY <1>7, <3>3
    <3>4. ASSUME NEW q \in DOMAIN sorted', sorted'[q] = n
          PROVE  \/ \E r \in DOMAIN queue : queue[r] = n
                 \/ \E r \in DOMAIN sorted : sorted[r] = n
      BY <1>3, <1>7, <3>4
    <3>5. QED
      BY <3>1, <3>2, <3>3, <3>4
  <2>5. \A n \in Names : (n \in known' /\ inDegree'[n] = 0) <=>
            \/ \E p \in DOMAIN queue' : queue'[p] = n
            \/ \E q \in DOMAIN sorted' : sorted'[q] = n
    BY <1>1, <2>4 DEF IInv, QueuedIsReady
  <2>6. QED
    BY <1>6, <2>1, <2>2, <2>3, <2>5 DEF QueuedIsReady
<1>12. SortedIsOrdered'
  <2> SUFFICES ASSUME NEW p \in DOMAIN sorted', NEW s \in DOMAIN steps,
                      steps[s].name = sorted'[p], NEW d \in DepsOf(steps[s])
               PROVE  \E q \in 1..(p - 1) : sorted'[q] = d
    BY <1>1 DEF SortedIsOrdered
  <2>1. CASE p \in DOMAIN sorted
    <3>1. PICK q \in 1..(p - 1) : sorted[q] = d
      BY <1>7, <2>1 DEF IInv, SortedIsOrdered
    <3>2. q \in DOMAIN sorted
      BY <1>7, <2>1, <3>1
    <3>3. QED
      BY <1>7, <3>1, <3>2
  <2>2. CASE p \notin DOMAIN sorted
    <3>1. p = Len(sorted) + 1 /\ steps[s].name = h
      BY <1>7, <2>2
    <3>2. PICK m \in DOMAIN steps[s].dependsOn : steps[s].dependsOn[m] = d
      BY DEF DepsOf
    <3>3. s \in 1..entered /\ d \in Names /\ m \in Nat
      BY <1>2, <3>2, StepType
    <3>4. s < entered \/ m <= linked
      <4>1. CASE s < entered
        BY <4>1
      <4>2. CASE s = entered
        <5>1. entered > 0 /\ ~InStep
          BY <1>1, <1>2, <3>3, <4>2 DEF IInv, KnownIsEntered
        <5>2. linked >= Len(steps[entered].dependsOn)
          BY <1>2, <4>2, <5>1, StepType DEF InStep, TypeOK
        <5>3. m <= Len(steps[entered].dependsOn)
          BY <1>2, <3>2, <4>2, StepType
        <5>4. QED
          BY <1>2, <3>3, <4>2, <5>2, <5>3, StepType DEF TypeOK
      <4>3. QED
        BY <1>2, <3>3, <4>1, <4>2
    <3>5. PICK r \in DOMAIN graph[d] : graph[d][r] = h
      BY <3>1, <3>2, <3>3, <3>4 DEF IInv, LinkedInGraph
    <3>6. OpenEdges(h) = {}
      BY <1>3, <1>4, FS_EmptySet DEF IInv, InDegreeCounts
    <3>7. ~OpenAt(d, r)
      BY <3>3, <3>5, <3>6, OpenEdgesDef
    <3>8. PICK q \in DOMAIN sorted : sorted[q] = d
      BY <3>7 DEF OpenAt
    <3>9. q \in 1..(p - 1) /\ sorted'[q] = d
      BY <1>7, <3>1, <3>8
    <3>10. QED
      BY <3>9
  <2>3. QED
    BY <2>1, <2>2
<1>13. Verdict'
  <2>1. sorted' # <<>>
    BY <1>7
  <2>2. Len(graph[h]) >= 0
    BY <1>2, <1>3
  <2>3. QED
    BY <1>1, <1>6, <1>c, <2>1, <2>2 DEF IInv, Verdict
<1>14. QED
  BY <1>8, <1>9, <1>10, <1>11, <1>12, <1>13 DEF IInv

\* While a step is relaxed it is the last one sorted.
LEMMA CurrIsSorted ==
    ASSUME IInv, pc = "relax"
    PROVE  /\ curr \in Names
           /\ \E q \in DOMAIN sorted : sorted[q] = curr
           /\ graph[curr] \in Seq(Names)
           /\ DOMAIN graph[curr] = 1..Len(graph[curr])
           /\ Len(graph[curr]) \in Nat /\ relaxed \in Nat
           /\ relaxed <= Len(graph[curr])
<1>1. sorted \in Seq(Names) /\ sorted # <<>> /\ graph \in [Names -> Seq(Names)]
      /\ relaxed \in Nat /\ relaxed <= Len(graph[curr])
  BY DEF IInv, TypeOK, Verdict
<1>2. Len(sorted) \in DOMAIN sorted /\ curr \in Names
  BY <1>1 DEF curr
<1>3. graph[curr] \in Seq(Names)
  BY <1>1, <1>2
<1>4. QED
  BY <1>1, <1>2, <1>3 DEF curr

\* Relax keeps the invariant.
LEMMA RelaxInvariant == IInv /\ Relax => IInv'
<1> SUFFICES ASSUME IInv, Relax PROVE IInv'
  OBVIOUS
<1> DEFINE c == curr
           e == <<curr, relaxed + 1>>
           neighbor == graph[curr][relaxed + 1]
<1>1. /\ pc = "relax" /\ relaxed < Len(graph[curr]) /\ relaxed' = relaxed + 1
      /\ inDegree' = [inDegree EXCEPT ![neighbor] = @ - 1]
      /\ queue' = IF inDegree[neighbor] = 1 THEN Append(queue, neighbor) ELSE queue
      /\ UNCHANGED <<steps, pc, entered, linked, graph, known, sorted, result>>
  BY DEF Relax, built
<1>2. /\ c \in Names
      /\ \E q \in DOMAIN sorted : sorted[q] = c
      /\ graph[c] \in Seq(Names)
      /\ DOMAIN graph[c] = 1..Len(graph[c])
      /\ Len(graph[c]) \in Nat /\ relaxed \in Nat
  BY <1>1, CurrIsSorted
<1>3. /\ relaxed + 1 \in DOMAIN graph[c] /\ neighbor \in Names
  BY <1>1, <1>2
<1>c. c' = c
  BY <1>1 DEF curr
<1>n. /\ neighbor = graph[c][relaxed + 1] /\ e = <<c, relaxed + 1>> /\ c = curr
      /\ curr' = curr /\ c' = curr' /\ sorted' = sorted /\ graph' = graph /\ pc' = "relax"
      /\ result' = result
  BY <1>1 DEF curr
<1> HIDE DEF c, e, neighbor
<1>t. inDegree \in [Names -> Int] /\ queue \in Seq(Names)
  BY DEF IInv, TypeOK
<1>4. TypeOK'
  <2>1. inDegree' \in [Names -> Int] /\ queue' \in Seq(Names)
    BY <1>1, <1>3, <1>t
  <2>2. relaxed' \in Nat
    BY <1>1, <1>2
  <2>3. QED
    BY <1>1, <2>1, <2>2 DEF IInv, TypeOK
\* The edge e, and no other, is closed.
<1>5. ASSUME NEW d \in Names, NEW p \in DOMAIN graph[d]
      PROVE  OpenAt(d, p)' <=> OpenAt(d, p) /\ <<d, p>> # e
  <2>1. CASE d = c
    <3>1. p \in Nat
      BY <1>2, <2>1
    <3>2. OpenAt(d, p) <=> p > relaxed
      BY <1>1, <1>2, <1>n, <2>1 DEF OpenAt
    <3>3. OpenAt(d, p)' <=> p > relaxed + 1
      <4>1. \E q \in DOMAIN sorted' : sorted'[q] = d
        BY <1>2, <1>n, <2>1
      <4>2. d = curr'
        BY <1>n, <2>1
      <4>3. QED
        BY <1>1, <1>n, <4>1, <4>2 DEF OpenAt
    <3>4. QED
      BY <1>2, <1>n, <2>1, <3>1, <3>2, <3>3
  <2>2. CASE d # c
    <3>1. d # curr /\ d # curr' /\ <<d, p>> # e
      BY <1>n, <2>2
    <3>2. QED
      BY <1>n, <3>1 DEF OpenAt
  <2>3. QED
    BY <2>1, <2>2
<1>6. ASSUME NEW n
      PROVE  OpenEdges(n)' = OpenEdges(n) \ {e}
  <2>1. ASSUME NEW x
        PROVE  x \in OpenEdges(n)' <=> x \in OpenEdges(n) /\ x # e
    <3>1. x \in Edges' <=> x \in Edges
      BY <1>1 DEF Edges
    <3>2. CASE x \in Edges
      <4>1. PICK d \in Names : \E p \in DOMAIN graph[d] : x = <<d, p>>
        BY <3>2, EdgesDef
      <4>2. PICK p \in DOMAIN graph[d] : x = <<d, p>>
        BY <4>1
      <4>3. x[1] = d /\ x[2] = p
        BY <4>2
      <4>4. QED
        BY <1>1, <1>5, <3>1, <3>2, <4>2, <4>3 DEF OpenEdges
    <3>3. CASE x \notin Edges
      BY <3>1, <3>3 DEF OpenEdges
    <3>4. QED
      BY <3>2, <3>3
  <2>2. QED
    BY <2>1
<1>7. e \in OpenEdges(neighbor) /\ \A n : n # neighbor => e \notin OpenEdges(n)
  <2>1. OpenAt(c, relaxed + 1)
    BY <1>1, <1>2, <1>n DEF OpenAt
  <2>2. QED
    BY <1>2, <1>3, <1>n, <2>1, OpenEdgesDef
<1>8. \A n \in Names : IsFiniteSet(OpenEdges(n)) /\ inDegree[n] = Cardinality(OpenEdges(n))
  BY DEF IInv, InDegreeCounts
<1>9. /\ IsFiniteSet(OpenEdges(neighbor) \ {e})
      /\ inDegree'[neighbor] = Cardinality(OpenEdges(neighbor) \ {e})
      /\ inDegree'[neighbor] = inDegree[neighbor] - 1
      /\ inDegree[neighbor] >= 1
  <2>1. /\ IsFiniteSet(OpenEdges(neighbor) \ {e})
        /\ Cardinality(OpenEdges(neighbor) \ {e}) = Cardinality(OpenEdges(neighbor)) - 1
    BY <1>3, <1>7, <1>8, FS_RemoveElement
  <2>2. Cardinality(OpenEdges(neighbor) \ {e}) \in Nat
    BY <2>1, FS_CardinalityType
  <2>3. inDegree'[neighbor] = inDegree[neighbor] - 1
    BY <1>1, <1>3, <1>t
  <2>4. inDegree[neighbor] = Cardinality(OpenEdges(neighbor)) /\ inDegree[neighbor] \in Int
    BY <1>3, <1>8, <1>t
  <2>5. QED
    BY <2>1, <2>2, <2>3, <2>4
<1>10. \A n \in Names : n # neighbor => inDegree'[n] = inDegree[n]
  BY <1>1, <1>3, <1>t
<1>11. InDegreeCounts'
  <2>1. ASSUME NEW n \in Names
        PROVE  IsFiniteSet(OpenEdges(n)') /\ inDegree'[n] = Cardinality(OpenEdges(n)')
    <3>1. CASE n = neighbor
      BY <1>6, <1>9, <3>1
    <3>2. CASE n # neighbor
      <4>1. OpenEdges(n)' = OpenEdges(n)
        BY <1>6, <1>7, <3>2
      <4>2. QED
        BY <1>8, <1>10, <3>2, <4>1
    <3>3. QED
      BY <3>1, <3>2
  <2>2. QED
    BY <2>1 DEF InDegreeCounts
<1>12. LinkedInGraph' /\ GraphIsLinked' /\ KnownIsEntered'
  BY <1>1 DEF IInv, LinkedInGraph, GraphIsLinked, KnownIsEntered, InStep
<1>13. neighbor \in known
  <2>1. \E s \in 1..entered : steps[s].name = graph[c][relaxed + 1]
    BY <1>2, <1>3 DEF IInv, GraphIsLinked
  <2>2. QED
    BY <1>n, <2>1 DEF IInv, KnownIsEntered
<1>14. QueuedIsReady'
  <2>1. /\ \A p, q \in DOMAIN queue : queue[p] = queue[q] => p = q
        /\ \A p, q \in DOMAIN sorted : sorted[p] = sorted[q] => p = q
        /\ \A p \in DOMAIN queue, q \in DOMAIN sorted : queue[p] # sorted[q]
        /\ \A n \in Names :
              (n \in known /\ inDegree[n] = 0) <=>
                 \/ \E p \in DOMAIN queue : queue[p] = n
                 \/ \E q \in DOMAIN sorted : sorted[q] = n
    BY <1>1 DEF IInv, QueuedIsReady
  <2>2. /\ \A p \in DOMAIN queue : queue[p] # neighbor
        /\ \A q \in DOMAIN sorted : sorted[q] # neighbor
    BY <1>3, <1>9, <2>1
  <2>3. CASE inDegree[neighbor] = 1
    <3>1. /\ queue' = Append(queue, neighbor)
          /\ DOMAIN queue = 1..Len(queue) /\ Len(queue) \in Nat
          /\ DOMAIN queue' = 1..(Len(queue) + 1)
          /\ queue'[Len(queue) + 1] = neighbor
          /\ \A p \in DOMAIN queue : queue'[p] = queue[p] /\ p \in DOMAIN queue'
      BY <1>1, <1>3, <1>t, <2>3
    <3>2. \A p, q \in DOMAIN queue' : queue'[p] = queue'[q] => p = q
      BY <2>1, <2>2, <3>1
    <3>3. \A p \in DOMAIN queue', q \in DOMAIN sorted : queue'[p] # sorted[q]
      BY <2>1, <2>2, <3>1
    <3>4. ASSUME NEW n \in Names
          PROVE  (n \in known /\ inDegree'[n] = 0) <=>
                    \/ \E p \in DOMAIN queue' : queue'[p] = n
                    \/ \E q \in DOMAIN sorted : sorted[q] = n
      <4>1. CASE n = neighbor
        BY <1>9, <1>13, <2>3, <3>1, <4>1
      <4>2. CASE n # neighbor
        <5>1. (\E p \in DOMAIN queue' : queue'[p] = n) <=> (\E p \in DOMAIN queue : queue[p] = n)
          BY <3>1, <4>2
        <5>2. QED
          BY <1>10, <2>1, <4>2, <5>1
      <4>3. QED
        BY <4>1, <4>2
    <3>5. QED
      BY <1>1, <2>1, <3>2, <3>3, <3>4 DEF QueuedIsReady
  <2>4. CASE inDegree[neighbor] # 1
    <3>1. queue' = queue /\ inDegree'[neighbor] # 0 /\ inDegree[neighbor] # 0
      BY <1>1, <1>3, <1>9, <1>t, <2>4
    <3>2. \A n \in Names : (inDegree'[n] = 0) <=> (inDegree[n] = 0)
      BY <1>10, <3>1
    <3>3. QED
      BY <1>1, <2>1, <3>1, <3>2 DEF QueuedIsReady
  <2>5. QED
    BY <2>3, <2>4
<1>15. SortedIsOrdered'
  BY <1>1 DEF IInv, SortedIsOrdered
<1>16. Verdict'
  <2>1. relaxed' <= Len(graph[c])
    BY <1>1, <1>2, <1>n
  <2>2. QED
    <3>1. /\ sorted # <<>> /\ result = "none"
      BY <1>1 DEF IInv, Verdict
    <3>2. relaxed' <= Len(graph'[curr'])
      BY <1>n, <2>1
    <3>3. QED
      BY <1>n, <3>1, <3>2 DEF Verdict
<1>17. QED
  BY <1>4, <1>11, <1>12, <1>14, <1>15, <1>16 DEF IInv

\* NextHead keeps the invariant.
LEMMA NextHeadInvariant == IInv /\ NextHead => IInv'
<1> SUFFICES ASSUME IInv, NextHead PROVE IInv'
  OBVIOUS
<1>1. /\ pc = "relax" /\ relaxed = Len(graph[curr]) /\ pc' = "pop"
      /\ UNCHANGED <<steps, entered, linked, graph, known, inDegree, queue, sorted,
                      relaxed, result>>
  BY DEF NextHead, built
<1>2. /\ \E q \in DOMAIN sorted : sorted[q] = curr
      /\ DOMAIN graph[curr] = 1..Len(graph[curr]) /\ Len(graph[curr]) \in Nat
  BY <1>1, CurrIsSorted
<1>3. ASSUME NEW d \in Names, NEW p \in DOMAIN graph[d]
      PROVE  OpenAt(d, p)' <=> OpenAt(d, p)
  BY <1>1, <1>2 DEF OpenAt
<1>4. \A n \in Names : OpenEdges(n)' = OpenEdges(n)
  BY <1>1, <1>3, SameOpenEdges
<1>5. InDegreeCounts'
  BY <1>1, <1>4, CountsKept DEF IInv
<1>6. TypeOK'
  BY <1>1 DEF IInv, TypeOK
<1>7. LinkedInGraph' /\ GraphIsLinked' /\ KnownIsEntered'
  BY <1>1 DEF IInv, LinkedInGraph, GraphIsLinked, KnownIsEntered, InStep
<1>8. QueuedIsReady' /\ SortedIsOrdered' /\ Verdict'
  BY <1>1 DEF IInv, QueuedIsReady, SortedIsOrdered, Verdict
<1>9. QED
  BY <1>5, <1>6, <1>7, <1>8 DEF IInv

\* Return keeps the invariant.
LEMMA ReturnInvariant == IInv /\ Return => IInv'
<1> SUFFICES ASSUME IInv, Return PROVE IInv'
  OBVIOUS
<1>1. /\ pc = "pop" /\ queue = <<>> /\ pc' = "done"
      /\ result' = IF Len(sorted) = Len(steps) THEN "sorted" ELSE "cycle"
      /\ UNCHANGED <<steps, entered, linked, graph, known, inDegree, queue, sorted, relaxed>>
  BY DEF Return, built
<1>2. \A n \in Names : OpenEdges(n)' = OpenEdges(n)
  BY <1>1, SameOpenEdges DEF OpenAt, curr
<1>3. InDegreeCounts'
  BY <1>1, <1>2, CountsKept DEF IInv
<1>4. TypeOK'
  BY <1>1 DEF IInv, TypeOK, Results
<1>5. LinkedInGraph' /\ GraphIsLinked' /\ KnownIsEntered'
  BY <1>1 DEF IInv, LinkedInGraph, GraphIsLinked, KnownIsEntered, InStep
<1>6. QueuedIsReady' /\ SortedIsOrdered' /\ Verdict'
  BY <1>1 DEF IInv, QueuedIsReady, SortedIsOrdered, Verdict
<1>7. QED
  BY <1>3, <1>4, <1>5, <1>6 DEF IInv

\* A stutter keeps the invariant.
LEMMA StutterInvariant == IInv /\ UNCHANGED vars => IInv'
<1> SUFFICES ASSUME IInv, UNCHANGED vars PROVE IInv'
  OBVIOUS
<1>1. UNCHANGED <<steps, pc, entered, linked, graph, inDegree, known, queue,
                  sorted, relaxed, result>>
  BY DEF vars
<1>2. \A n \in Names : OpenEdges(n)' = OpenEdges(n)
  BY <1>1, SameOpenEdges DEF OpenAt, curr
<1>3. InDegreeCounts'
  BY <1>1, <1>2, CountsKept DEF IInv
<1>4. QED
  BY <1>1, <1>3 DEF IInv, TypeOK, LinkedInGraph, GraphIsLinked, KnownIsEntered,
     InStep, QueuedIsReady, SortedIsOrdered, Verdict, curr

\* Every step keeps the invariant.
LEMMA NextInvariant == IInv /\ [Next]_vars => IInv'
<1> SUFFICES ASSUME IInv, [Next]_vars PROVE IInv'
  OBVIOUS
<1>1. CASE EnterStep
  BY <1>1, EnterStepInvariant
<1>2. CASE Link
  BY <1>2, LinkInvariant
<1>3. CASE SeedQueue
  BY <1>3, SeedQueueInvariant
<1>4. CASE Pop
  BY <1>4, PopInvariant
<1>5. CASE Relax
  BY <1>5, RelaxInvariant
<1>6. CASE NextHead
  BY <1>6, NextHeadInvariant
<1>7. CASE Return
  BY <1>7, ReturnInvariant
<1>8. CASE Terminated \/ UNCHANGED vars
  BY <1>8, StutterInvariant DEF Terminated
<1>9. QED
  BY <1>1, <1>2, <1>3, <1>4, <1>5, <1>6, <1>7, <1>8 DEF Next

-----------------------------------------------------------------------------
(* What the invariant says of the function's result.                       *)

\* A function that has returned left the queue empty: the sorted names are
\* distinct, and they are the steps that wait for nothing any more.
LEMMA WhenDone ==
    ASSUME IInv, pc = "done"
    PROVE  /\ steps \in Seq(Step) /\ sorted \in Seq(Names)
           /\ known = StepNames(steps) /\ known \subseteq Names
           /\ DOMAIN steps = 1..Len(steps) /\ Len(steps) \in Nat
           /\ DOMAIN sorted = 1..Len(sorted) /\ Len(sorted) \in Nat
           /\ entered = Len(steps)
           /\ \A p, q \in DOMAIN sorted : sorted[p] = sorted[q] => p = q
           /\ \A n \in Names : (n \in known /\ inDegree[n] = 0) <=>
                                 \E q \in DOMAIN sorted : sorted[q] = n
           /\ \A q \in DOMAIN sorted : sorted[q] \in known
<1>1. /\ steps \in Seq(Step) /\ sorted \in Seq(Names) /\ known \subseteq Names
  BY DEF IInv, TypeOK
<1>2. /\ DOMAIN steps = 1..Len(steps) /\ Len(steps) \in Nat
      /\ DOMAIN sorted = 1..Len(sorted) /\ Len(sorted) \in Nat
  BY <1>1
<1>3. entered = Len(steps) /\ known = StepNames(steps)
  BY <1>2 DEF IInv, KnownIsEntered, StepNames
<1>4. queue = <<>>
  BY DEF IInv, Verdict
<1>5. /\ \A p, q \in DOMAIN sorted : sorted[p] = sorted[q] => p = q
      /\ \A n \in Names : (n \in known /\ inDegree[n] = 0) <=>
                            \E q \in DOMAIN sorted : sorted[q] = n
  BY <1>4 DEF IInv, QueuedIsReady
<1>6. \A q \in DOMAIN sorted : sorted[q] \in Names
  BY <1>1, <1>2
<1>7. \A q \in DOMAIN sorted : sorted[q] \in known
  BY <1>5, <1>6
<1>8. QED
  BY <1>1, <1>2, <1>3, <1>5, <1>7

\* There are no more names than steps, and as many if they are distinct.
LEMMA NamesCounted ==
    ASSUME NEW w \in Seq(Step)
    PROVE  /\ IsFiniteSet(StepNames(w))
           /\ Cardinality(StepNames(w)) <= Len(w)
           /\ UniqueNames(w) => Cardinality(StepNames(w)) = Len(w)
<1> DEFINE name == [s \in 1..Len(w) |-> w[s].name]
<1>1. DOMAIN w = 1..Len(w) /\ Len(w) \in Nat
  OBVIOUS
<1>2. name \in Surjection(1..Len(w), StepNames(w))
  BY <1>1 DEF Surjection, StepNames
<1>3. IsFiniteSet(1..Len(w)) /\ Cardinality(1..Len(w)) = Len(w)
  <2> DEFINE n == Len(w)
  <2>1. 1 \in Int /\ n \in Int /\ n \in Nat
    BY <1>1
  <2> HIDE DEF n
  <2>2. IsFiniteSet(1..n) /\ Cardinality(1..n) = IF 1 > n THEN 0 ELSE n - 1 + 1
    BY <2>1, FS_Interval
  <2>3. Cardinality(1..n) = n
    BY <2>1, <2>2
  <2>4. QED
    BY <2>2, <2>3 DEF n
<1>4. UniqueNames(w) => name \in Injection(1..Len(w), StepNames(w))
  BY <1>1, <1>2 DEF UniqueNames, Injection, IsInjective, Surjection
<1> HIDE DEF name
<1>5. QED
  BY <1>2, <1>3, <1>4, FS_Surjection

\* A result is as long as the workflow has names only if it has all of them.
LEMMA SortedCounted ==
    ASSUME IInv, pc = "done"
    PROVE  /\ Len(sorted) <= Cardinality(StepNames(steps))
           /\ Len(sorted) = Cardinality(StepNames(steps)) <=>
                 StepNames(steps) = {sorted[p] : p \in DOMAIN sorted}
<1>1. IsFiniteSet(StepNames(steps))
  BY WhenDone, NamesCounted
<1>2. sorted \in [1..Len(sorted) -> StepNames(steps)]
  <2>1. sorted = [p \in 1..Len(sorted) |-> sorted[p]]
    BY WhenDone
  <2>2. QED
    BY <2>1, WhenDone
<1>3. sorted \in Injection(1..Len(sorted), StepNames(steps))
  BY <1>2, WhenDone DEF Injection, IsInjective
<1>4. Cardinality(1..Len(sorted)) = Len(sorted)
  <2> DEFINE n == Len(sorted)
  <2>1. n \in Nat
    BY WhenDone
  <2> HIDE DEF n
  <2>2. Cardinality(1..n) = IF 1 > n THEN 0 ELSE n - 1 + 1
    <3>1. 1 \in Int /\ n \in Int
      BY <2>1
    <3>2. QED
      BY <3>1, FS_Interval
  <2>3. Cardinality(1..n) = n
    BY <2>1, <2>2
  <2>4. QED
    BY <2>3 DEF n
<1>5. /\ Len(sorted) <= Cardinality(StepNames(steps))
      /\ Len(sorted) = Cardinality(StepNames(steps)) <=>
            sorted \in Surjection(1..Len(sorted), StepNames(steps))
  BY <1>1, <1>3, <1>4, FS_Injection
<1>6. sorted \in Surjection(1..Len(sorted), StepNames(steps)) <=>
         StepNames(steps) = {sorted[p] : p \in DOMAIN sorted}
  <2> DEFINE S == StepNames(steps)
  <2>1. DOMAIN sorted = 1..Len(sorted)
    BY WhenDone
  <2>2. \A p \in 1..Len(sorted) : sorted[p] \in S
    BY <1>2
  <2>3. sorted \in Surjection(1..Len(sorted), S) <=>
          \A t \in S : \E p \in 1..Len(sorted) : sorted[p] = t
    <3> HIDE DEF S
    <3> QED
      BY <1>2 DEF Surjection, S
  <2> HIDE DEF S
  <2>4. S = {sorted[p] : p \in DOMAIN sorted} <=>
          \A t \in S : \E p \in 1..Len(sorted) : sorted[p] = t
    BY <2>1, <2>2
  <2>5. QED
    BY <2>3, <2>4 DEF S
<1>7. QED
  BY <1>5, <1>6

\* A result that satisfies the invariant is an order.
LEMMA SoundWhenDone == IInv => SortedIsSound
<1> SUFFICES ASSUME IInv, result = "sorted" PROVE IsTopologicalOrder(steps, sorted)
  BY DEF SortedIsSound
<1>1. pc = "done"
  BY DEF IInv, Verdict
<1>2. Len(sorted) = Len(steps)
  BY <1>1 DEF IInv, Verdict
<1>3. Len(sorted) = Cardinality(StepNames(steps))
  BY <1>1, <1>2, WhenDone, NamesCounted, SortedCounted, FS_CardinalityType
<1>4. StepNames(steps) = {sorted[p] : p \in DOMAIN sorted}
  BY <1>1, <1>3, SortedCounted
<1>5. QED
  BY <1>1, <1>2, <1>4, WhenDone DEF IsTopologicalOrder, IInv, SortedIsOrdered

\* A refusal that satisfies the invariant leaves a cycle or a name that is missing.
LEMMA JustifiedWhenDone == IInv => RefusalIsJustified
<1> SUFFICES ASSUME IInv, result \in {"notFound", "cycle"}, Sortable(steps) PROVE FALSE
  BY DEF RefusalIsJustified
<1>1. pc = "done" /\ Len(sorted) # Len(steps)
  BY DEF IInv, Verdict
<1> DEFINE S == StepNames(steps) \ {sorted[p] : p \in DOMAIN sorted}
<1>2. CASE S = {}
  <2>1. \A p \in DOMAIN sorted : sorted[p] \in StepNames(steps)
    BY <1>1, WhenDone
  <2>2. StepNames(steps) = {sorted[p] : p \in DOMAIN sorted}
    BY <1>2, <2>1
  <2>3. Len(sorted) = Len(steps)
    BY <1>1, <2>2, WhenDone, NamesCounted, SortedCounted DEF Sortable
  <2>4. QED
    BY <1>1, <2>3
<1>3. CASE S # {}
  <2>1. ASSUME NEW n \in S
        PROVE  \E s \in DOMAIN steps :
                  steps[s].name = n /\ DepsOf(steps[s]) \cap S # {}
    <3>1. n \in Names /\ inDegree[n] # 0
      <4>1. n \in known /\ \A q \in DOMAIN sorted : sorted[q] # n
        BY <1>1, WhenDone
      <4>2. n \in Names
        BY <1>1, <4>1, WhenDone
      <4>3. QED
        BY <1>1, <4>1, <4>2, WhenDone
    <3>2. OpenEdges(n) # {}
      BY <3>1, FS_EmptySet DEF IInv, InDegreeCounts
    <3>3. PICK x \in Edges : OpenAt(x[1], x[2]) /\ graph[x[1]][x[2]] = n
      BY <3>2 DEF OpenEdges
    <3>4. PICK d \in Names : \E p \in DOMAIN graph[d] : x = <<d, p>>
      BY <3>3, EdgesDef
    <3>5. PICK p \in DOMAIN graph[d] : x = <<d, p>>
      BY <3>4
    <3>6. OpenAt(d, p) /\ graph[d][p] = n
      BY <3>3, <3>5
    <3>7. PICK s \in 1..entered : steps[s].name = n /\ d \in DepsOf(steps[s])
      BY <3>6 DEF IInv, GraphIsLinked
    <3>8. s \in DOMAIN steps
      BY <1>1, WhenDone
    <3>9. d \in S
      BY <1>1, <3>6, <3>7, <3>8 DEF OpenAt, Sortable, KnownDeps
    <3>10. QED
      BY <3>7, <3>8, <3>9
  <2>2. HasCycle(steps)
    BY <1>3, <2>1 DEF HasCycle
  <2>3. QED
    BY <2>2 DEF Sortable
<1>4. QED
  BY <1>2, <1>3

-----------------------------------------------------------------------------
(* The theorems.                                                           *)

\* The invariant holds of topologicalSort on every workflow.
THEOREM Invariance == Spec => []IInv
<1>1. QED
  BY InitInvariant, NextInvariant, PTL DEF Spec

\* TypeOK, for workflows of every size.
THEOREM TypeCorrectness == Spec => []TypeOK
<1>1. IInv => TypeOK
  BY DEF IInv
<1>2. QED
  BY <1>1, Invariance, PTL

\* SortedIsSound, for workflows of every size: what topologicalSort returns is
\* a topological order of all the steps.
THEOREM SortSound == Spec => []SortedIsSound
<1>1. QED
  BY SoundWhenDone, Invariance, PTL

\* RefusalIsJustified, for workflows of every size: what topologicalSort
\* refuses has no topological order.
THEOREM RefusalJustified == Spec => []RefusalIsJustified
<1>1. QED
  BY JustifiedWhenDone, Invariance, PTL

\* NotFoundIsDead, for workflows of every size: the branch that returns
\* "not found in steps" is never taken.
THEOREM NotFoundNeverReturned == Spec => []NotFoundIsDead
<1>1. IInv => NotFoundIsDead
  BY DEF IInv, Verdict, NotFoundIsDead
<1>2. QED
  BY <1>1, Invariance, PTL

-----------------------------------------------------------------------------
(* What there is still to do.                                              *)

\* The names that are not sorted yet can be counted.
LEMMA ToSortIsFinite ==
    ASSUME IInv
    PROVE  /\ IsFiniteSet(known \ {sorted[q] : q \in DOMAIN sorted})
           /\ Cardinality(known \ {sorted[q] : q \in DOMAIN sorted}) \in Nat
BY NamesAssumption, FS_Subset, FS_CardinalityType DEF IInv, TypeOK

\* What there is to do is counted in natural numbers, so that there is no
\* infinite sequence of smaller and smaller ones.
LEMMA ToDoIsCounted ==
    ASSUME IInv
    PROVE  StillToDo \in [1..5 -> Nat]
<1>1. entered \in 0..Len(steps) /\ Len(steps) \in Nat /\ linked \in Nat /\ relaxed \in Nat
  BY DEF IInv, TypeOK
<1>2. Len(steps) - entered \in Nat
  BY <1>1
<1>3. (IF InStep THEN Len(steps[entered].dependsOn) - linked ELSE 0) \in Nat
  <2>1. CASE InStep
    <3>1. entered \in DOMAIN steps
      BY <1>1, <2>1 DEF InStep, IInv, TypeOK
    <3>2. Len(steps[entered].dependsOn) \in Nat
      BY <3>1, StepType DEF IInv
    <3> QED
      BY <1>1, <2>1, <3>2 DEF InStep
  <2> QED
    BY <2>1
<1>4. (IF pc = "relax" THEN 1 + Len(graph[curr]) - relaxed ELSE 0) \in Nat
  <2>1. CASE pc = "relax"
    <3>1. Len(graph[curr]) \in Nat /\ relaxed <= Len(graph[curr])
      BY <2>1, CurrIsSorted DEF IInv, Verdict
    <3> QED
      BY <1>1, <2>1, <3>1
  <2> QED
    BY <2>1
<1> DEFINE loops     == CASE pc = "build" -> 2 [] pc = "done" -> 0 [] OTHER -> 1
           toEnter   == Len(steps) - entered
           toLink    == IF InStep THEN Len(steps[entered].dependsOn) - linked ELSE 0
           toSort    == Cardinality(known \ {sorted[q] : q \in DOMAIN sorted})
           neighbors == IF pc = "relax" THEN 1 + Len(graph[curr]) - relaxed ELSE 0
<1>5. StillToDo = <<loops, toEnter, toLink, toSort, neighbors>>
  BY DEF StillToDo
<1>6. loops \in Nat
  OBVIOUS
<1>7. toSort \in Nat
  BY ToSortIsFinite
<1>8. toEnter \in Nat /\ toLink \in Nat /\ neighbors \in Nat
  BY <1>2, <1>3, <1>4
<1> HIDE DEF loops, toEnter, toLink, toSort, neighbors
<1>9. <<loops, toEnter, toLink, toSort, neighbors>> \in [1..5 -> Nat]
  BY <1>6, <1>7, <1>8
<1> QED
  BY <1>5, <1>9

\* The order goes by the first place that differs.
LEMMA LessAt ==
    ASSUME NEW x, NEW y, NEW i \in 1..5, x[i] < y[i], \A j \in 1..(i - 1) : x[j] = y[j]
    PROVE  Less(x, y)
BY DEF Less

\* Building the maps leaves less to build.
LEMMA BuildLeavesLess ==
    ASSUME IInv, EnterStep \/ Link \/ SeedQueue
    PROVE  Less(StillToDo', StillToDo)
<1>1. entered \in Nat /\ Len(steps) \in Nat /\ linked \in Nat
  BY DEF IInv, TypeOK
<1> DEFINE x == StillToDo'
           y == StillToDo
<1>2. CASE EnterStep
  <2>1. pc' = pc /\ steps' = steps /\ entered' = entered + 1
    BY <1>2 DEF EnterStep
  <2>2. x[1] = y[1] /\ x[2] < y[2]
    BY <1>1, <2>1 DEF StillToDo
  <2> QED
    BY <2>2, LessAt
<1>3. CASE Link
  <2>1. /\ pc' = pc /\ steps' = steps /\ entered' = entered /\ linked' = linked + 1
        /\ InStep
    BY <1>3 DEF Link
  <2>2. entered \in DOMAIN steps
    BY <2>1 DEF InStep, IInv, TypeOK
  <2>3. Len(steps[entered].dependsOn) \in Nat
    BY <2>2, StepType DEF IInv
  <2>4. x[1] = y[1] /\ x[2] = y[2]
    BY <2>1 DEF StillToDo
  <2>5. x[3] < y[3]
    BY <1>1, <2>1, <2>3 DEF StillToDo, InStep
  <2> QED
    BY <2>4, <2>5, LessAt
<1>4. CASE SeedQueue
  <2>1. pc = "build" /\ pc' = "pop"
    BY <1>4 DEF SeedQueue
  <2>2. x[1] < y[1]
    BY <2>1 DEF StillToDo
  <2> QED
    BY <2>2, LessAt
<1> QED
  BY <1>2, <1>3, <1>4

\* A name that is taken from the queue was not sorted before, and is now.
LEMMA PopLeavesLess ==
    ASSUME IInv, Pop
    PROVE  Less(StillToDo', StillToDo)
<1> DEFINE h    == Head(queue)
           Open == known \ {sorted[q] : q \in DOMAIN sorted}
           x    == StillToDo'
           y    == StillToDo
<1>1. /\ pc = "pop" /\ queue # <<>> /\ queue' = Tail(queue)
      /\ UNCHANGED <<steps, entered, linked, known>>
  BY DEF Pop, built
<1>2. TypeOK /\ entered = Len(steps) /\ steps \in Seq(Step)
  BY <1>1 DEF IInv, TypeOK, KnownIsEntered
<1>3. h = queue[1] /\ 1 \in DOMAIN queue /\ h \in Names
  BY <1>1, <1>2 DEF TypeOK
<1>4. h \in known /\ \A q \in DOMAIN sorted : sorted[q] # h
  BY <1>1, <1>3 DEF IInv, QueuedIsReady
<1>5. h \in StepNames(steps)
  BY <1>2, <1>4 DEF IInv, KnownIsEntered, StepNames
<1>6. sorted' = Append(sorted, h) /\ pc' = "relax"
  BY <1>5 DEF Pop
<1>7. /\ DOMAIN sorted = 1..Len(sorted) /\ Len(sorted) \in Nat
      /\ DOMAIN sorted' = 1..(Len(sorted) + 1)
      /\ sorted'[Len(sorted) + 1] = h
      /\ \A q \in DOMAIN sorted : sorted'[q] = sorted[q]
  BY <1>1, <1>2, <1>6, PopEffect
<1>8. h \in Open
  BY <1>4
<1> HIDE DEF h
<1>9. Open' = Open \ {h}
  <2>1. \A n : (\E q \in DOMAIN sorted' : n = sorted'[q])
                  <=> n = h \/ \E q \in DOMAIN sorted : n = sorted[q]
    <3>1. ASSUME NEW n, n = h
          PROVE  \E q \in DOMAIN sorted' : n = sorted'[q]
      BY <1>7, <3>1
    <3>2. ASSUME NEW n, NEW q \in DOMAIN sorted, n = sorted[q]
          PROVE  \E r \in DOMAIN sorted' : n = sorted'[r]
      BY <1>7, <3>2
    <3>3. ASSUME NEW n, NEW q \in DOMAIN sorted', n = sorted'[q]
          PROVE  n = h \/ \E r \in DOMAIN sorted : n = sorted[r]
      BY <1>7, <3>3
    <3> QED
      BY <3>1, <3>2, <3>3
  <2> QED
    BY <1>1, <2>1
<1>10. IsFiniteSet(Open) /\ Cardinality(Open) \in Nat
  BY ToSortIsFinite
<1>11. Cardinality(Open') < Cardinality(Open)
  <2> HIDE DEF Open
  <2>1. Cardinality(Open \ {h}) = Cardinality(Open) - 1
    BY <1>8, <1>10, FS_RemoveElement
  <2> QED
    BY <1>9, <1>10, <2>1
<1>12. x[1] = y[1] /\ x[2] = y[2] /\ x[3] = y[3] /\ x[4] < y[4]
  BY <1>1, <1>6, <1>11 DEF StillToDo, InStep
<1> QED
  BY <1>12, LessAt

\* Going through the neighbours of a name leaves less of them.
LEMMA RelaxLeavesLess ==
    ASSUME IInv, Relax \/ NextHead
    PROVE  Less(StillToDo', StillToDo)
<1> DEFINE x == StillToDo'
           y == StillToDo
<1>1. pc = "relax" /\ UNCHANGED <<steps, entered, linked, known, graph, sorted>>
  BY DEF Relax, NextHead, built
<1>2. Len(graph[curr]) \in Nat /\ relaxed \in Nat /\ relaxed <= Len(graph[curr])
  BY <1>1, CurrIsSorted DEF IInv, TypeOK, Verdict
<1>3. x[2] = y[2] /\ x[3] = y[3] /\ x[4] = y[4]
  BY <1>1 DEF StillToDo, InStep
<1>4. pc' \in {"relax", "pop"}
  BY <1>1 DEF Relax, NextHead
<1>5. x[1] = y[1]
  BY <1>1, <1>4 DEF StillToDo
<1>6. x[5] < y[5]
  <2>1. curr' = curr
    BY <1>1 DEF curr
  <2>2. y[5] = 1 + Len(graph[curr]) - relaxed
    BY <1>1 DEF StillToDo
  <2>3. CASE Relax
    <3>1. pc' = "relax" /\ relaxed' = relaxed + 1
      BY <1>1, <2>3 DEF Relax
    <3>2. x[5] = 1 + Len(graph[curr]) - (relaxed + 1)
      BY <1>1, <2>1, <3>1 DEF StillToDo
    <3> QED
      BY <1>2, <2>2, <3>2
  <2>4. CASE NextHead
    <3>1. x[5] = 0
      BY <2>4 DEF NextHead, StillToDo
    <3> QED
      BY <1>2, <2>2, <3>1
  <2> QED
    BY <2>3, <2>4
<1> QED
  BY <1>3, <1>5, <1>6, LessAt

\* Every turn of a loop leaves less to do, however the steps depend on each
\* other (remediation.go:244-296).
THEOREM SortComesToAnEnd == Spec => LessAndLessToDo
<1>1. ASSUME IInv, [Next]_vars
      PROVE  [Less(StillToDo', StillToDo)]_vars
  <2>1. CASE EnterStep \/ Link \/ SeedQueue
    BY <1>1, <2>1, BuildLeavesLess
  <2>2. CASE Pop
    BY <1>1, <2>2, PopLeavesLess
  <2>3. CASE Relax \/ NextHead
    BY <1>1, <2>3, RelaxLeavesLess
  <2>4. CASE Return
    <3>1. StillToDo'[1] < StillToDo[1]
      BY <2>4 DEF Return, StillToDo
    <3>2. Less(StillToDo', StillToDo)
      BY <3>1, LessAt
    <3> QED
      BY <3>2
  <2>5. CASE Terminated \/ UNCHANGED vars
    BY <2>5 DEF Terminated
  <2> QED
    BY <1>1, <2>1, <2>2, <2>3, <2>4, <2>5 DEF Next
<1>2. IInv /\ [Next]_vars => [Less(StillToDo', StillToDo)]_vars
  BY <1>1
<1> QED
  BY <1>2, Invariance, PTL DEF Spec, LessAndLessToDo

\* What there is to do is counted in natural numbers at every moment, so that
\* SortComesToAnEnd speaks of a well-founded order.
THEOREM ToDoCounted == Spec => [](StillToDo \in [1..5 -> Nat])
<1>1. QED
  BY ToDoIsCounted, Invariance, PTL
=============================================================================
