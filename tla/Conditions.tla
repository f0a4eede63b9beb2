------------------------------ MODULE Conditions ------------------------------
(***************************************************************************)
(* The conditions of a policy's status over several check cycles:          *)
(* setCondition and its callers in Reconcile, runPrometheusChecks and      *)
(* updatePhase (srepolicy_controller.go).                                  *)
(*                                                                         *)
(* Get returns a copy of the informer's object, but DeepCopyInto           *)
(* (zz_generated.deepcopy.go) copies the status as it is: the slice of     *)
(* conditions is the informer's.  A condition that is set in place is set  *)
(* in the cache too, whether or not the status is stored in the end.       *)
(*                                                                         *)
(* A cycle is known by its number, which stands for the time of whatever   *)
(* it sets.  Other than in Reconciler there are several policies, which    *)
(* share the endpoint that the Provider was made for; deletion and         *)
(* finalizers are left out.  The checks of this repository are             *)
(* placeholders: they may answer whatever Reconcile provides for.          *)
(***************************************************************************)
EXTENDS Integers

CONSTANTS
    Policies,   \* names of policies
    Endpoints,  \* what otelEndpoint may be
    NoConfig,   \* no global configuration; also an endpoint not set yet
    MaxCycles,  \* bound on check cycles
    MaxEdits    \* bound on what users change

ASSUME BoundsAssumption == MaxCycles \in Nat /\ MaxEdits \in Nat

ASSUME NamesAssumption == NoConfig \notin Endpoints

Types == {"OTelHealthy", "OCPClusterHealthy", "PrometheusHealthy", "Ready"}

\* A condition's status and the cycle that set it, 0 if the condition is not there.
Condition == [ok: BOOLEAN, cycle: Nat]
NotThere == [ok |-> FALSE, cycle |-> 0]

\* resourceVersion; paused and alert triggers of the spec; of the status the
\* phase, conditions, lastScanTime and whether firingAlertCount is positive.
Object == [version: Nat, paused: BOOLEAN, triggers: BOOLEAN,
           phase: {"none", "Paused", "Active"}, conditions: [Types -> Condition],
           scan: Nat, firing: BOOLEAN]

VARIABLES
    stored,   \* the policies in the API server
    cached,   \* the informer's copies of them
    config,   \* the endpoint in the global configuration
    edits,    \* number of changes by users
    cycles,   \* number of cycles so far; the one in progress is the last
    pc,       \* where the call of Reconcile in progress is
    name,     \* the policy it is for
    policy,   \* its copy
    shared,   \* is the copy's slice of conditions the informer's?
    fetched,  \* the global configuration it got
    lastOTelEndpoint,
    finished  \* history: cycles whose status was stored

users == <<config, edits>>
vars == <<stored, cached, config, edits, cycles, pc, name, policy, shared,
          fetched, lastOTelEndpoint, finished>>

NewPolicy ==
    [version |-> 1, paused |-> FALSE, triggers |-> TRUE, phase |-> "none",
     conditions |-> [t \in Types |-> NotThere], scan |-> 0, firing |-> FALSE]

-----------------------------------------------------------------------------
(* Users, the informer and the process.                                    *)

\* A change of a policy's spec.
Edit(p) ==
    /\ edits < MaxEdits
    /\ edits' = edits + 1
    /\ \E paused, triggers \in BOOLEAN :
          stored' = [stored EXCEPT ![p].version = @ + 1, ![p].paused = paused,
                                   ![p].triggers = triggers]
    /\ UNCHANGED <<cached, config, cycles, pc, name, policy, shared, fetched,
                   lastOTelEndpoint, finished>>

EditConfig ==
    /\ edits < MaxEdits
    /\ edits' = edits + 1
    /\ config' \in Endpoints \cup {NoConfig}
    /\ UNCHANGED <<stored, cached, cycles, pc, name, policy, shared, fetched,
                   lastOTelEndpoint, finished>>

\* An event, or a list after a broken watch, replaces the informer's object.
DeliverEvent(p) ==
    /\ cached[p] # stored[p]
    /\ cached' = [cached EXCEPT ![p] = stored[p]]
    /\ shared' = (shared /\ p # name)
    /\ UNCHANGED <<stored, users, cycles, pc, name, policy, fetched,
                   lastOTelEndpoint, finished>>

\* The call ends, or the process: the copy is dropped.
Return ==
    /\ pc' = "idle"
    /\ policy' = NewPolicy
    /\ shared' = FALSE
    /\ fetched' = NoConfig
    /\ UNCHANGED name

Restart ==
    /\ cached' = stored
    /\ lastOTelEndpoint' = NoConfig
    /\ Return
    /\ UNCHANGED <<stored, users, cycles, finished>>

-----------------------------------------------------------------------------
(* Reconcile.                                                              *)

\* Get and the early return for paused policies.
Begin(p) ==
    /\ pc = "idle"
    /\ name' = p
    /\ shared' = TRUE
    /\ IF cached[p].paused
         THEN /\ policy' = [cached[p] EXCEPT !.phase = "Paused"]
              /\ pc' = "write"
              /\ UNCHANGED cycles
         ELSE /\ cycles < MaxCycles
              /\ cycles' = cycles + 1
              /\ policy' = cached[p]
              /\ pc' = "otel"
    /\ UNCHANGED <<stored, cached, users, fetched, lastOTelEndpoint, finished>>

\* The object obj with a condition set by the cycle in progress.
With(obj, type, ok) ==
    [obj EXCEPT !.conditions[type] = [ok |-> ok, cycle |-> cycles]]

\* setCondition on the call's copy, other fields of which may be set as well.  A
\* condition that is there is changed in place; appending one leaves the
\* informer's slice as long as it was, and may or may not move the copy's to
\* an array of its own.
SetCondition(copy, type, ok) ==
    /\ policy' = With(copy, type, ok)
    /\ IF copy.conditions[type] = NotThere
         THEN /\ shared' \in {FALSE, shared}
              /\ UNCHANGED cached
         ELSE /\ cached' = IF shared
                             THEN [cached EXCEPT ![name] = With(@, type, ok)]
                             ELSE cached
              /\ UNCHANGED shared

\* A failed Get of the configuration counts as none.  NewProvider never fails.
ReconcileOTel ==
    /\ pc = "otel"
    /\ fetched' \in {config, NoConfig}
    /\ IF fetched' \notin {NoConfig, lastOTelEndpoint}
         THEN /\ lastOTelEndpoint' = fetched'
              /\ SetCondition(policy, "OTelHealthy", TRUE)
         ELSE UNCHANGED <<lastOTelEndpoint, policy, shared, cached>>
    /\ pc' = "ocp"
    /\ UNCHANGED <<stored, users, cycles, name, finished>>

OCPClusterChecks ==
    /\ pc = "ocp"
    /\ \E healthy \in BOOLEAN : SetCondition(policy, "OCPClusterHealthy", healthy)
    /\ pc' = "prometheus"
    /\ UNCHANGED <<stored, users, cycles, name, fetched, lastOTelEndpoint, finished>>

Polls == policy.triggers /\ fetched # NoConfig

\* Mutant: the number of firing alerts is set where they are polled.
SkipPrometheusKeepsCount ==
    /\ pc = "prometheus"
    /\ ~Polls
    /\ pc' = "end"
    /\ UNCHANGED <<stored, cached, users, cycles, name, policy, shared, fetched,
                   lastOTelEndpoint, finished>>

\* No alert is firing for a cycle that does not poll; the condition stays.
SkipPrometheus ==
    /\ pc = "prometheus"
    /\ ~Polls
    /\ policy' = [policy EXCEPT !.firing = FALSE]
    /\ pc' = "end"
    /\ UNCHANGED <<stored, cached, users, cycles, name, shared, fetched,
                   lastOTelEndpoint, finished>>

PollAlerts ==
    /\ pc = "prometheus"
    /\ Polls
    /\ \E reachable, firing \in BOOLEAN :
          /\ firing => reachable
          /\ SetCondition([policy EXCEPT !.firing = firing], "PrometheusHealthy", reachable)
    /\ pc' = "end"
    /\ UNCHANGED <<stored, users, cycles, name, fetched, lastOTelEndpoint, finished>>

Complete(obj) == [obj EXCEPT !.scan = cycles, !.phase = "Active"]

\* Mutant: lastScanTime is set through the pointer the status has for it.
EndCycleInPlace ==
    /\ pc = "end"
    /\ policy' = With(Complete(policy), "Ready", TRUE)
    /\ cached' = IF shared THEN [cached EXCEPT ![name].scan = cycles] ELSE cached
    /\ pc' = "write"
    /\ UNCHANGED <<stored, users, cycles, name, shared, fetched,
                   lastOTelEndpoint, finished>>

EndCycle ==
    /\ pc = "end"
    /\ SetCondition(Complete(policy), "Ready", TRUE)
    /\ pc' = "write"
    /\ UNCHANGED <<stored, users, cycles, name, fetched, lastOTelEndpoint, finished>>

\* Mutant: resourceVersion is not sent along.
AcceptsAny == TRUE

Accepts == policy.version = stored[name].version

\* Status().Update: only the status is stored, and only a change makes a new
\* version.  Whether the reply arrives makes no difference here.
Update ==
    /\ pc = "write"
    /\ Accepts
    /\ LET new == [stored[name] EXCEPT
                     !.phase = policy.phase, !.conditions = policy.conditions,
                     !.scan = policy.scan, !.firing = policy.firing]
       IN  stored' = IF new = stored[name] THEN stored
                     ELSE [stored EXCEPT ![name] = [new EXCEPT !.version = @ + 1]]
    /\ finished' = IF policy.phase = "Active" THEN finished \cup {policy.scan} ELSE finished
    /\ Return
    /\ UNCHANGED <<cached, users, cycles, lastOTelEndpoint>>

\* A conflict, or a request that fails.
UpdateFails ==
    /\ pc = "write"
    /\ Return
    /\ UNCHANGED <<stored, cached, users, cycles, lastOTelEndpoint, finished>>

-----------------------------------------------------------------------------
Init ==
    /\ stored = [p \in Policies |-> NewPolicy]
    /\ cached = stored
    /\ config \in Endpoints
    /\ edits = 0
    /\ cycles = 0
    /\ pc = "idle"
    /\ name \in Policies
    /\ policy = NewPolicy
    /\ shared = FALSE
    /\ fetched = NoConfig
    /\ lastOTelEndpoint = NoConfig
    /\ finished = {}

Reconcile ==
    \/ \E p \in Policies : Begin(p)
    \/ ReconcileOTel \/ OCPClusterChecks \/ SkipPrometheus \/ PollAlerts
    \/ EndCycle \/ Update \/ UpdateFails

Next ==
    \/ \E p \in Policies : Edit(p) \/ DeliverEvent(p)
    \/ EditConfig \/ Restart
    \/ Reconcile

Spec == Init /\ [][Next]_vars

-----------------------------------------------------------------------------
(* Properties.                                                             *)

\* What a stored status says is of one cycle: nothing in it is newer than the
\* scan, Ready and OCPClusterHealthy are of the scan itself, and alerts are
\* firing only if that scan could ask for them.  So it is although conditions
\* of cycles that failed linger in the cache, a pause stores what the cache
\* has, and every cycle sets the status one field after the other.
OneCycle(obj) ==
    /\ \A t \in Types : obj.conditions[t].cycle <= obj.scan
    /\ \A t \in {"OCPClusterHealthy", "Ready"} : obj.conditions[t].cycle = obj.scan
    /\ obj.firing => obj.conditions["PrometheusHealthy"] = [ok |-> TRUE, cycle |-> obj.scan]

StatusIsOneCycle == \A p \in Policies : OneCycle(stored[p])

\* The cache may show conditions that were never stored, but in nothing else does
\* it differ from the version it claims to be; they are newer than that version's
\* scan, and of conditions that it has (zz_generated.deepcopy.go:8).
PhantomsOnly(p) ==
    LET c == cached[p]
        s == stored[p]
    IN  c.version = s.version =>
          /\ [c EXCEPT !.conditions = s.conditions] = s
          /\ \A t \in Types :
                \/ c.conditions[t] = s.conditions[t]
                \/ s.conditions[t] # NotThere /\ c.conditions[t].cycle > s.scan

CacheHasPhantomsOnly == \A p \in Policies : PhantomsOnly(p)

\* A stored condition is never replaced by an older one and never lost, whatever
\* copy the cycle started with (srepolicy_controller.go:628).
ConditionsNeverGoBack ==
    [][\A p \in Policies, t \in Types :
          stored'[p].conditions[t].cycle >= stored[p].conditions[t].cycle]_vars

\* "DeepCopy methods implemented" (docs/production-guide.md:33): what a cycle
\* found is in the status only if its status was stored.
OnlyFinishedCyclesSpeak ==
    \A p \in Policies, t \in Types :
        stored[p].conditions[t] # NotThere => stored[p].conditions[t].cycle \in finished

\* "OTel endpoint reachable" (srepolicy_controller.go:132): the Provider that is
\* in use is on record with some policy.
OTelOnRecord ==
    pc = "idle" /\ lastOTelEndpoint # NoConfig =>
        \E p \in Policies : stored[p].conditions["OTelHealthy"] # NotThere

-----------------------------------------------------------------------------
(* The inductive invariant behind the safety properties.                   *)

Checking == {"otel", "ocp", "prometheus", "end"}

\* Every variable stays in its type.
TypeOK ==
    /\ stored \in [Policies -> Object]
    /\ cached \in [Policies -> Object]
    /\ config \in Endpoints \cup {NoConfig}
    /\ edits \in Nat
    /\ cycles \in Nat
    /\ pc \in {"idle", "write"} \cup Checking
    /\ name \in Policies
    /\ policy \in Object
    /\ shared \in BOOLEAN
    /\ fetched \in Endpoints \cup {NoConfig}
    /\ lastOTelEndpoint \in Endpoints \cup {NoConfig}
    /\ finished \subseteq Nat

\* Nothing is of a cycle to come, and no copy of a version to come.
PastOnly ==
    \A p \in Policies :
        /\ stored[p].scan <= cycles
        /\ cached[p].version <= stored[p].version
        /\ \A t \in Types : cached[p].conditions[t].cycle <= cycles

\* A paused policy has no phantoms: no cycle runs on a version with the pause.
PausedIsExact ==
    \A p \in Policies :
        cached[p].version = stored[p].version /\ cached[p].paused =>
            cached[p].conditions = stored[p].conditions

\* The conditions that the cycle in progress has not come to yet.
Pending ==
    CASE pc = "otel" -> Types
      [] pc = "ocp" -> {"OCPClusterHealthy", "PrometheusHealthy", "Ready"}
      [] pc = "prometheus" -> {"PrometheusHealthy", "Ready"}
      [] pc = "end" -> {"Ready"}
      [] OTHER -> {}

\* The informer's object that the copy shares its slice with is the one Get returned.
SharedIsCopied ==
    pc # "idle" /\ shared =>
        /\ cached[name].version = policy.version
        /\ cached[name].paused = policy.paused
        /\ \A t \in Pending : policy.conditions[t] = cached[name].conditions[t]

\* What the copy of a cycle has of this cycle, by the time it comes to pc.
CycleSoFar ==
    pc # "idle" /\ ~policy.paused =>
        /\ stored[name].scan < cycles
        /\ \A t \in Types : policy.conditions[t].cycle <= cycles
        /\ pc \in {"prometheus", "end", "write"} =>
              policy.conditions["OCPClusterHealthy"].cycle = cycles
        /\ pc \in {"end", "write"} /\ policy.firing =>
              policy.conditions["PrometheusHealthy"] = [ok |-> TRUE, cycle |-> cycles]
        /\ pc = "write" =>
              policy.scan = cycles /\ policy.conditions["Ready"].cycle = cycles

\* A copy whose write will be accepted: of a pause it has what is stored, and of a
\* cycle no condition that is older.
CurrentCopy ==
    pc # "idle" /\ policy.version = stored[name].version =>
        /\ policy.paused =>
              /\ policy.conditions = stored[name].conditions
              /\ policy.scan = stored[name].scan
              /\ policy.firing = stored[name].firing
        /\ ~policy.paused =>
              \A t \in Types :
                  \/ policy.conditions[t] = stored[name].conditions[t]
                  \/ policy.conditions[t].cycle > stored[name].scan

IInv ==
    /\ TypeOK
    /\ PastOnly
    /\ StatusIsOneCycle
    /\ CacheHasPhantomsOnly
    /\ PausedIsExact
    /\ pc \in Checking => ~policy.paused
    /\ pc # "idle" => policy.version <= stored[name].version
    /\ SharedIsCopied
    /\ CycleSoFar
    /\ CurrentCopy

=============================================================================
