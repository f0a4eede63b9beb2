---------------------------- MODULE Observability ----------------------------
(***************************************************************************)
(* The telemetry Provider (internal/telemetry/telemetry.go), which all     *)
(* policies share, and the part of Reconcile that replaces it when the     *)
(* endpoint of the global configuration changes, exports findings through  *)
(* it, and sets the OTelHealthy condition (srepolicy_controller.go).       *)
(*                                                                         *)
(* Cycles run one at a time, each for some policy.  The configuration and  *)
(* the reachability of an endpoint change at any moment.  The reconciler   *)
(* is given a first Provider that exports nothing; module Reconciler has   *)
(* what happens without one.                                               *)
(*                                                                         *)
(* A Provider that is replaced is never shut down: the process keeps its   *)
(* exporters and batch processors.  The model counts Providers, and keeps  *)
(* the endpoints that were configured as history.                          *)
(*                                                                         *)
(* Left out: what is exported, and the write that stores the condition in  *)
(* the status of the cycle's policy.                                       *)
(*                                                                         *)
(* No name here is one of PromClient's, so that SharedClientsProofs can    *)
(* extend both.                                                            *)
(***************************************************************************)
EXTENDS Naturals, Sequences

CONSTANTS
    Endpoints,       \* what otelEndpoint may be, set
    NoEndpoint,      \* an otelEndpoint that is empty
    NoObservability, \* no global configuration, or one without observability
    Nowhere,         \* where a nil logger or the dummy tracer sends to
    ExportersFail,   \* may an exporter not be made for its endpoint?
    MaxChanges       \* bound on the changes of endpoint in a process's life

NotCalled == "not called"   \* in place of a logger

ASSUME EndpointsAssumption ==
    /\ NoEndpoint \notin Endpoints
    /\ {Nowhere, NotCalled} \cap (Endpoints \cup {NoEndpoint}) = {}
    /\ ExportersFail \in BOOLEAN
    /\ MaxChanges \in Nat

VARIABLES
    observability,    \* spec.observability of the global configuration now
    named,            \* history: the endpoints configured since process start
    reachable,        \* the endpoints that answer
    Telemetry,        \* the reconciler's Provider: where its parts send to
    lastOTelEndpoint, \* the endpoint it was initialised with
    providers,        \* how many were made since process start
    stage,            \* "idle", "fetched" the configuration, or "checking"
    otelConfig,       \* the spec the cycle fetched
    tracer,           \* where the tracer the cycle opened sends to
    healthy,          \* the endpoint this cycle's OTelHealthy = True speaks of
    exported          \* the logger that LogRecord was last called on

config   == <<observability, named, reachable>>
provider == <<Telemetry, lastOTelEndpoint, providers>>
cycle    == <<otelConfig, tracer>>
otelVars == <<config, provider, stage, cycle, healthy, exported>>

Signals == {"tracing", "metrics", "logs"}
ObservabilitySpecs ==
    [otelEndpoint: Endpoints \cup {NoEndpoint}, enabled: SUBSET Signals]
Targets == Endpoints \cup {NoEndpoint, Nowhere}

-----------------------------------------------------------------------------
(* Providers.                                                              *)

NoProvider == [tracer |-> Nowhere, logger |-> Nowhere]

\* NewProvider dials nothing and returns no error.  A signal that is off, and
\* one whose exporter cannot be made, is left without.
NewProviders(s) ==
    LET Exporters(signal) ==
            IF signal \notin s.enabled THEN {Nowhere}
            ELSE {s.otelEndpoint} \cup IF ExportersFail THEN {Nowhere} ELSE {}
    IN  [tracer: Exporters("tracing"), logger: Exporters("logs")]

-----------------------------------------------------------------------------
(* The environment.                                                        *)

\* A configuration calls for a Provider when some signal is on.
WantsProvider(o) == o # NoObservability /\ o.enabled # {}

\* `seq', with the endpoint of `o' if that is another than the last one.
Naming(seq, o) ==
    IF WantsProvider(o) /\ o.otelEndpoint # seq[Len(seq)]
    THEN Append(seq, o.otelEndpoint) ELSE seq

EditObservability ==
    /\ observability' \in ObservabilitySpecs \cup {NoObservability}
    /\ named' = Naming(named, observability')
    /\ Len(named') <= 1 + MaxChanges
    /\ UNCHANGED <<reachable, provider, stage, cycle, healthy, exported>>

Reach ==
    /\ reachable' \in SUBSET Endpoints
    /\ UNCHANGED <<observability, named, provider, stage, cycle, healthy,
                   exported>>

-----------------------------------------------------------------------------
(* A check cycle.                                                          *)

\* Reconcile opens its tracer and then fetches the configuration, where any
\* error counts as none.
StartCycle ==
    /\ stage = "idle"
    /\ tracer' = Telemetry.tracer
    /\ otelConfig' \in {observability, NoObservability}
    /\ stage' = "fetched"
    /\ UNCHANGED <<config, provider, healthy, exported>>

\* Mutant: only tracing is worth a Provider.
EndpointChangedForTracing ==
    /\ otelConfig # NoObservability
    /\ "tracing" \in otelConfig.enabled
    /\ otelConfig.otelEndpoint # lastOTelEndpoint

EndpointChanged ==
    /\ WantsProvider(otelConfig)
    /\ otelConfig.otelEndpoint # lastOTelEndpoint

KeepOTel ==
    /\ stage = "fetched"
    /\ ~EndpointChanged
    /\ stage' = "checking"
    /\ UNCHANGED <<config, provider, cycle, healthy, exported>>

\* Mutant: the endpoint is not recorded.
ReconcileOTelForgetfully ==
    /\ stage = "fetched"
    /\ EndpointChanged
    /\ Telemetry' \in NewProviders(otelConfig)
    /\ providers' = providers + 1
    /\ healthy' = otelConfig.otelEndpoint
    /\ stage' = "checking"
    /\ UNCHANGED <<config, lastOTelEndpoint, cycle, exported>>

\* The condition says "OTel endpoint reachable".
ReconcileOTel ==
    /\ stage = "fetched"
    /\ EndpointChanged
    /\ Telemetry' \in NewProviders(otelConfig)
    /\ providers' = providers + 1
    /\ lastOTelEndpoint' = otelConfig.otelEndpoint
    /\ healthy' = otelConfig.otelEndpoint
    /\ stage' = "checking"
    /\ UNCHANGED <<config, cycle, exported>>

\* LogRecord for a finding, LogSummary for collected logs.
LogRecord ==
    /\ stage = "checking"
    /\ otelConfig # NoObservability
    /\ "logs" \in otelConfig.enabled
    /\ exported' = Telemetry.logger
    /\ UNCHANGED <<config, provider, stage, cycle, healthy>>

FinishCycle ==
    /\ stage = "checking"
    /\ healthy' = Nowhere
    /\ exported' = NotCalled
    /\ stage' = "idle"
    /\ UNCHANGED <<config, provider, cycle>>

RestartProcess ==
    /\ Telemetry' = NoProvider
    /\ lastOTelEndpoint' = NoEndpoint
    /\ providers' = 0
    /\ named' = Naming(<<NoEndpoint>>, observability)
    /\ healthy' = Nowhere
    /\ exported' = NotCalled
    /\ stage' = "idle"
    /\ UNCHANGED <<observability, reachable, cycle>>

OTelInit ==
    /\ observability = NoObservability
    /\ named = <<NoEndpoint>>
    /\ reachable = {}
    /\ Telemetry = NoProvider
    /\ lastOTelEndpoint = NoEndpoint
    /\ providers = 0
    /\ stage = "idle"
    /\ otelConfig = NoObservability
    /\ tracer = Nowhere
    /\ healthy = Nowhere
    /\ exported = NotCalled

OTelNext ==
    \/ EditObservability \/ Reach
    \/ StartCycle \/ KeepOTel \/ ReconcileOTel \/ LogRecord \/ FinishCycle
    \/ RestartProcess

OTelSpec == OTelInit /\ [][OTelNext]_otelVars

-----------------------------------------------------------------------------
(* Properties.                                                             *)

\* Every variable stays in its type, and the Provider sends where the
\* reconciler believes it does.
OTelTypeOK ==
    /\ observability \in ObservabilitySpecs \cup {NoObservability}
    /\ named \in Seq(Endpoints \cup {NoEndpoint}) /\ named # <<>>
    /\ reachable \in SUBSET Endpoints
    /\ Telemetry \in [tracer: {Nowhere, lastOTelEndpoint},
                      logger: {Nowhere, lastOTelEndpoint}]
    /\ lastOTelEndpoint \in Endpoints \cup {NoEndpoint}
    /\ providers \in Nat
    /\ stage \in {"idle", "fetched", "checking"}
    /\ otelConfig \in ObservabilitySpecs \cup {NoObservability}
    /\ tracer \in Targets
    /\ healthy \in Targets
    /\ exported \in Targets \cup {NotCalled}

\* Findings are exported to the endpoint of the configuration the cycle
\* fetched or not at all, never to one that was configured before: through
\* edits between and during cycles, signals that are switched on and off,
\* exporters that cannot be made, and restarts.
RecordsGoWhereConfigured ==
    exported \in Endpoints => exported = otelConfig.otelEndpoint

\* "We only re-dial when the spec actually changes": of the Providers made since
\* the process started, none of which is ever shut down, there are no more than
\* the times that the configuration went to another endpoint.  Signals switched
\* on or off, observability removed and restored, cycles that find no
\* configuration, exporters that cannot be made, and policies that take turns
\* leave no further Provider behind.
ProvidersBounded == providers < Len(named)

\* "LogRecord natively pushes a structured log to the OTLP log exporter": while
\* the configuration names an endpoint, a call of it does not push to nothing.
\* Of interest where no exporter fails.
RecordsArePushed ==
    exported # NotCalled /\ otelConfig.otelEndpoint # NoEndpoint
        => exported # Nowhere

\* "OTel endpoint reachable", the message of the condition: it is set only
\* while the endpoint is.
HealthyMeansReachable ==
    [][healthy' \in Endpoints /\ healthy = Nowhere
          => healthy' \in reachable]_otelVars

\* "OTel tracing wraps every check and remediation with spans": with tracing
\* enabled for an endpoint, the spans of a cycle go there.  Of interest where
\* no exporter fails.
ChecksAreTraced ==
    /\ stage = "checking"
    /\ otelConfig # NoObservability
    /\ otelConfig.otelEndpoint # NoEndpoint
    /\ "tracing" \in otelConfig.enabled
    => tracer = otelConfig.otelEndpoint

-----------------------------------------------------------------------------
(* The inductive invariant behind the safety properties.                   *)

\* Once past reconcileOTel, a cycle that exports anything has the Provider of
\* the endpoint it fetched.
ProviderIsCurrent ==
    stage = "checking" /\ WantsProvider(otelConfig) =>
        lastOTelEndpoint = otelConfig.otelEndpoint

\* What was exported to is the Provider's logger, by a cycle that exports logs.
ExportedByProvider ==
    exported # NotCalled =>
        /\ stage = "checking"
        /\ otelConfig # NoObservability
        /\ "logs" \in otelConfig.enabled
        /\ exported = Telemetry.logger

\* What is configured now was the last to be named.
NamedLast ==
    WantsProvider(observability) =>
        observability.otelEndpoint = named[Len(named)]

\* The Provider's endpoint was named at some point, after as many others as
\* there were Providers, and what a cycle fetched was named no earlier.
MadeInTurn ==
    \E i \in 1..Len(named) :
        /\ lastOTelEndpoint = named[i]
        /\ providers < i
        /\ stage = "fetched" /\ WantsProvider(otelConfig) =>
              \E j \in i..Len(named) : named[j] = otelConfig.otelEndpoint

OTelIInv ==
    /\ OTelTypeOK
    /\ NamedLast
    /\ MadeInTurn
    /\ ProviderIsCurrent
    /\ ExportedByProvider
=============================================================================
