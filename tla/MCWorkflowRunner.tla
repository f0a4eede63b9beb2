--------------------------- MODULE MCWorkflowRunner ---------------------------
(* Instances of WorkflowRunner for TLC.                                    *)
EXTENDS WorkflowRunner

CONSTANTS a, b, c

NamesABC == {a, b, c}

S(n, deps, cond, ok) ==
    [name |-> n, dependsOn |-> deps, runCondition |-> cond, complete |-> ok]

\* Every workflow of three steps with dependencies among the ones before them,
\* every branch of the switch behind the first of them, and each step able to
\* succeed or fail; b before a, so that the runner has something to sort.
Conds == {"unset", "OnFailure", "Always"}
Chains ==
    {<<S(b, db, cb, kb), S(a, <<>>, ca, ka), S(c, dc, cc, kc)>> :
        ca \in {"unset", "OnFailure"}, cb, cc \in Conds \cup {"unknown"},
        ka, kb, kc \in BOOLEAN,
        db \in {<<>>, <<a>>}, dc \in {<<a>>, <<b>>, <<a, b>>}}

\* Workflows that cannot be put in order, and one without a step.
Odd == {<<>>,
        <<S(a, <<b>>, "unset", TRUE), S(b, <<a>>, "unset", TRUE)>>,
        <<S(a, <<>>, "unset", TRUE), S(a, <<>>, "unset", TRUE)>>,
        <<S(a, <<c>>, "unset", TRUE)>>}

AllWorkflows == Chains \cup Odd

\* Workflows a user turns into each other: a step added, removed, made to
\* depend on another one, or made to wait for itself.
Edited ==
    {<<S(a, <<>>, "unset", k)>> : k \in BOOLEAN} \cup
    {<<S(a, <<>>, "unset", TRUE), S(b, d, r, k)>> :
        d \in {<<>>, <<a>>}, r \in Conds, k \in BOOLEAN} \cup
    {<<S(a, <<c>>, "OnFailure", k), S(b, <<a>>, "Always", TRUE), S(c, <<>>, "unset", l)>> :
        k, l \in BOOLEAN} \cup
    {<<S(a, <<a>>, "unset", TRUE)>>}

\* A chain in which nothing fails.
Cascade == {<<S(a, <<>>, "unset", TRUE), S(b, <<a>>, "OnFailure", TRUE),
              S(c, <<b>>, "OnFailure", TRUE)>>}
=============================================================================
