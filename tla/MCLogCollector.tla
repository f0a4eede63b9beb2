---------------------------- MODULE MCLogCollector ----------------------------
(* Instances of LogCollector for TLC.                                      *)
EXTENDS LogCollector, TLC

CONSTANTS a, launcher, operator, setup   \* a namespace and three containers

\* Two errors that begin alike, the second a panic; an error that is cut short
\* is "half" of it; and a line without any.
MCLines       == {"err", "panic", "half", "info"}
MCSignificant == {"err", "panic", "half"}
MCUrgent      == {"panic"}
MCPrefix      == [l \in MCLines |->
                    CASE l \in {"err", "panic"} -> "e" [] l = "half" -> "h" [] l = "info" -> "i"]
MCBeginnings  == [l \in MCLines |-> IF l \in {"err", "panic"} THEN {"half"} ELSE {}]

\* A pod that matches two selectors, and an operator's that has failed.
MCPods ==
    {[ns |-> a, labels |-> {"virt-launcher", "importer"}, failed |-> FALSE,
      containers |-> <<launcher>>, initContainers |-> <<>>],
     [ns |-> a, labels |-> {"virt-operator"}, failed |-> TRUE,
      containers |-> <<operator>>, initContainers |-> <<setup>>]}

MCVMSelectors == <<"virt-launcher", "importer">>
MCOperatorTargets == <<[vm |-> FALSE, ns |-> a, selector |-> "virt-operator"]>>

Call(namespaces, vm, op) ==
    [enabled |-> TRUE, kubeClient |-> TRUE, onAlertOnly |-> FALSE, firing |-> FALSE,
     targetNamespaces |-> namespaces, vmPodLogs |-> vm, operatorLogs |-> op]

\* Collections with any guard closed, without a namespace, of one namespace,
\* of all of them, and of one and all.
MCCalls ==
    {Call(<<a>>, TRUE, TRUE), Call(<<AllNamespaces, a>>, TRUE, FALSE),
     Call(<<>>, TRUE, TRUE),
     [Call(<<a>>, TRUE, TRUE) EXCEPT !.enabled = FALSE],
     [Call(<<a>>, TRUE, TRUE) EXCEPT !.kubeClient = FALSE],
     [Call(<<a>>, TRUE, TRUE) EXCEPT !.onAlertOnly = TRUE]}

MCLogs ==
    {(launcher :> l) @@ (operator :> <<"err", "half">>) @@ (setup :> <<"info", "err">>) :
        l \in {<<"err", "panic">>, <<"err">>, <<"info">>, <<>>}}
=============================================================================
