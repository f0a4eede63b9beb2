-------------------------- MODULE MCTopologicalSort --------------------------
(* Instances of TopologicalSort for TLC.                                   *)
EXTENDS TopologicalSort, TLC

CONSTANTS a, b, c, x

NamesABCX == {a, b, c, x}

UpTo(n, S) == UNION {[1..m -> S] : m \in 0..n}

\* Every workflow of at most two steps called a or b, their dependencies any
\* list of at most two of a, b and x, which is no step's name: repeated names,
\* repeated and missing dependencies and self-loops are all among them.
Small == UpTo(2, [name: {a, b}, dependsOn: UpTo(2, {a, b, x})])

\* Every workflow of the three steps a, b and c without repeated dependencies.
Lists == {l \in UpTo(2, {a, b, c}) : Len(l) = 2 => l[1] # l[2]}
Triples ==
    {<<[name |-> a, dependsOn |-> l1], [name |-> b, dependsOn |-> l2],
       [name |-> c, dependsOn |-> l3]>> : l1, l2, l3 \in Lists}

SmallWorkflows == Small \cup Triples
=============================================================================
