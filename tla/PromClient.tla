------------------------------ MODULE PromClient ------------------------------
(***************************************************************************)
(* The HTTP client for Prometheus and AlertManager.  The reconciler keeps  *)
(* one across check cycles and rebuilds it when the key of the global      *)
(* configuration changes (runPrometheusChecks in srepolicy_controller.go); *)
(* the client keeps a bearer token, read from a mounted file when it is    *)
(* built and again before every request (NewClient and get in              *)
(* internal/prometheus/client.go).                                         *)
(*                                                                         *)
(* A cycle works with the configuration it fetched when it started.        *)
(* Users edit the configuration, and the kubelet rotates, empties and      *)
(* restores the token files, at any moment.                                *)
(*                                                                         *)
(* The watcher and the metric checker that are to poll with the client are *)
(* stubs in this repository; the model polls as the client's methods do.   *)
(*                                                                         *)
(* Left out: the answers, the policies the cycles are of (they share the   *)
(* client, one cycle at a time), and the pause between cycles.             *)
(***************************************************************************)
EXTENDS Naturals

CONSTANTS
    URLs,            \* what a URL of the specification may be, set
    NoURL,           \* a URL that is not set
    DefaultPrometheusURL,
    DefaultAlertManagerURL,
    Refs,            \* what BearerTokenSecretRef may name
    NoRef,           \* a BearerTokenSecretRef that is not set
    NoSpec,          \* no SREGlobalConfig, or one without a prometheus section
    NoClient,        \* the reconciler's promClient before the first NewClient
    MaxVersion       \* bound on the rotations of a token file

ASSUME NamesAssumption ==
    /\ NoURL \notin URLs
    /\ NoRef \notin Refs
    /\ MaxVersion \in Nat \ {0}

VARIABLES
    spec,            \* spec.prometheus of the global configuration now
    files,           \* version of the token in each file; 0: none can be read
    pc,              \* "idle", "fetched", or "polling" with the client
    globalConfig,    \* the spec the running cycle fetched
    promClient,      \* the reconciler's client
    lastPromConfig,  \* and the key of the spec it was built for
    sent             \* the last request of the running cycle

vars == <<spec, files, pc, globalConfig, promClient, lastPromConfig, sent>>

Specs == [PrometheusURL: URLs \cup {NoURL}, AlertManagerURL: URLs \cup {NoURL},
          InsecureSkipVerify: BOOLEAN, ref: Refs \cup {NoRef}]

-----------------------------------------------------------------------------
(* Token files.                                                            *)

ServiceAccount == "serviceaccount"   \* the file of the operator's own token
Paths == Refs \cup {ServiceAccount}

\* A token is known by the file it was in and by its version.  Version 0 is
\* the empty token.
NoToken == [path |-> ServiceAccount, version |-> 0]
Tokens == {NoToken} \cup [path: Paths, version: 1..MaxVersion]

\* readToken: an error reads as the empty token.
ReadToken(path) ==
    IF files[path] = 0 THEN NoToken
    ELSE [path |-> path, version |-> files[path]]

-----------------------------------------------------------------------------
(* The client.                                                             *)

\* `builtFor' is history: the spec the client was made from.
Clients ==
    [prometheusURL: URLs \cup {DefaultPrometheusURL},
     alertManagerURL: URLs \cup {DefaultAlertManagerURL},
     insecure: BOOLEAN, token: Tokens, builtFor: Specs]

ASSUME NoClientAssumption == NoClient \notin Clients

NewClient(s) ==
    [prometheusURL |-> IF s.PrometheusURL = NoURL THEN DefaultPrometheusURL
                       ELSE s.PrometheusURL,
     alertManagerURL |-> IF s.AlertManagerURL = NoURL THEN DefaultAlertManagerURL
                         ELSE s.AlertManagerURL,
     insecure |-> s.InsecureSkipVerify,
     token |-> ReadToken(IF s.ref = NoRef THEN ServiceAccount ELSE s.ref),
     builtFor |-> s]

\* Mutant: the key leaves the TLS switch out.
SpecKeyURLs(s) == <<s.PrometheusURL, s.AlertManagerURL>>

SpecKey(s) == <<s.PrometheusURL, s.AlertManagerURL, s.InsecureSkipVerify>>

\* Mutant: what cannot be read replaces the token all the same.
RefreshedAlways(c) == [c EXCEPT !.token = ReadToken(ServiceAccount)]

\* get first reads the service account's token again, and keeps the token it
\* has if there is none to be read.
Refreshed(c) ==
    IF ReadToken(ServiceAccount) = NoToken THEN c
    ELSE [c EXCEPT !.token = ReadToken(ServiceAccount)]

\* `api' is history: which of the two APIs is asked.
NoRequest == [api |-> "none", url |-> NoURL, insecure |-> FALSE, token |-> NoToken]

-----------------------------------------------------------------------------
(* The environment.                                                        *)

EditConfig ==
    /\ spec' \in Specs \cup {NoSpec}
    /\ UNCHANGED <<files, pc, globalConfig, promClient, lastPromConfig, sent>>

\* A token file gets its next token, or none.  Versions are of the file, so
\* one that is restored after it was empty may have the version it had.
Rotate ==
    /\ \E p \in Paths, v \in 0..MaxVersion :
          /\ v # files[p]
          /\ files' = [files EXCEPT ![p] = v]
    /\ UNCHANGED <<spec, pc, globalConfig, promClient, lastPromConfig, sent>>

-----------------------------------------------------------------------------
(* A check cycle.                                                          *)

\* Reconcile fetches the configuration; any error counts as none.
FetchConfig ==
    /\ pc = "idle"
    /\ globalConfig' \in {spec, NoSpec}
    /\ pc' = "fetched"
    /\ UNCHANGED <<spec, files, promClient, lastPromConfig, sent>>

\* runPrometheusChecks has nothing to do without a configuration, nor for a
\* policy that does not ask for Prometheus.
SkipPrometheusChecks ==
    /\ pc = "fetched"
    /\ pc' = "idle"
    /\ UNCHANGED <<spec, files, globalConfig, promClient, lastPromConfig, sent>>

\* Mutant: the key is not recorded.
RebuildForgetfully ==
    /\ pc = "fetched"
    /\ globalConfig # NoSpec
    /\ \/ promClient = NoClient
       \/ lastPromConfig # SpecKey(globalConfig)
    /\ promClient' = NewClient(globalConfig)
    /\ pc' = "polling"
    /\ UNCHANGED <<spec, files, globalConfig, lastPromConfig, sent>>

Rebuild ==
    /\ pc = "fetched"
    /\ globalConfig # NoSpec
    /\ \/ promClient = NoClient
       \/ lastPromConfig # SpecKey(globalConfig)
    /\ promClient' = NewClient(globalConfig)
    /\ lastPromConfig' = SpecKey(globalConfig)
    /\ pc' = "polling"
    /\ UNCHANGED <<spec, files, globalConfig, sent>>

Reuse ==
    /\ pc = "fetched"
    /\ globalConfig # NoSpec
    /\ promClient # NoClient
    /\ lastPromConfig = SpecKey(globalConfig)
    /\ pc' = "polling"
    /\ UNCHANGED <<spec, files, globalConfig, promClient, lastPromConfig, sent>>

Get(api, url) ==
    /\ pc = "polling"
    /\ promClient' = Refreshed(promClient)
    /\ sent' = [api |-> api, url |-> url, insecure |-> promClient.insecure,
                token |-> promClient'.token]
    /\ UNCHANGED <<spec, files, pc, globalConfig, lastPromConfig>>

\* The watcher polls AlertManager, the metric checker queries Prometheus.
FiringAlerts == pc = "polling" /\ Get("alerts", promClient.alertManagerURL)
QueryInstant == pc = "polling" /\ Get("query", promClient.prometheusURL)

EndCycle ==
    /\ pc = "polling"
    /\ sent' = NoRequest
    /\ pc' = "idle"
    /\ UNCHANGED <<spec, files, globalConfig, promClient, lastPromConfig>>

Restart ==
    /\ pc' = "idle"
    /\ globalConfig' = NoSpec
    /\ promClient' = NoClient
    /\ lastPromConfig' = <<>>
    /\ sent' = NoRequest
    /\ UNCHANGED <<spec, files>>

Init ==
    /\ spec = NoSpec
    /\ files \in [Paths -> 0..MaxVersion]
    /\ pc = "idle"
    /\ globalConfig = NoSpec
    /\ promClient = NoClient
    /\ lastPromConfig = <<>>
    /\ sent = NoRequest

Next ==
    \/ EditConfig \/ Rotate
    \/ FetchConfig \/ SkipPrometheusChecks \/ Rebuild \/ Reuse
    \/ FiringAlerts \/ QueryInstant \/ EndCycle
    \/ Restart

Spec == Init /\ [][Next]_vars

-----------------------------------------------------------------------------
(* Properties.                                                             *)

\* Every variable stays in its type, and the client, once built, in the key.
TypeOK ==
    /\ spec \in Specs \cup {NoSpec}
    /\ files \in [Paths -> 0..MaxVersion]
    /\ pc \in {"idle", "fetched", "polling"}
    /\ globalConfig \in Specs \cup {NoSpec}
    /\ promClient \in Clients \cup {NoClient}
    /\ lastPromConfig = IF promClient = NoClient THEN <<>>
                        ELSE SpecKey(promClient.builtFor)
    /\ sent \in [api: {"none", "alerts", "query"},
                 url: URLs \cup {NoURL, DefaultPrometheusURL, DefaultAlertManagerURL},
                 insecure: BOOLEAN, token: Tokens]

\* However the configuration was edited since the client was built and since
\* the cycle began, a request to either API goes where the configuration the
\* cycle fetched says, with the TLS verification it says.
RequestsGoWhereConfigured ==
    sent # NoRequest =>
        LET fetched == NewClient(globalConfig)
        IN  /\ sent.url = IF sent.api = "alerts" THEN fetched.alertManagerURL
                          ELSE fetched.prometheusURL
            /\ sent.insecure = globalConfig.InsecureSkipVerify

\* Neither the client nor the configuration of the cycle names a token.
WithoutReference == promClient.builtFor.ref = NoRef /\ globalConfig.ref = NoRef

\* The token is rotated, emptied and restored while the client lives: a client
\* that has a token does not go back to sending none, and where no token is
\* configured, a request carries the one the service account's file holds when
\* it is made.  Which token is due where one is configured is
\* ConfiguredTokenUsed's.
RequestsStayAuthorised ==
    [][sent' # NoRequest /\ pc = "polling" =>
          /\ promClient.token # NoToken => sent'.token # NoToken
          /\ WithoutReference /\ files[ServiceAccount] # 0 =>
                sent'.token = ReadToken(ServiceAccount)]_<<sent, promClient>>

\* "Rebuilt only when prometheus spec changes": outside a restart, the client
\* and its connection pool are replaced only for another specification.
PoolKept ==
    [][promClient # NoClient /\ promClient' # NoClient
          /\ pc = "fetched" /\ pc' = "polling"
          /\ globalConfig = promClient.builtFor
       => promClient' = promClient]_vars

\* "Only rebuild when the spec (URL / TLS / token) changes": the client in use
\* is the one the configuration of the cycle calls for.  The key has no part
\* for the token, so a change of bearerTokenSecretRef does not rebuild it.
BuiltForSpec ==
    pc = "polling" => promClient.builtFor = globalConfig

\* "BearerTokenSecretRef if non-empty, reads the bearer token from this path
\* instead of the default service-account token": no request of a client built
\* with a reference carries the service account's token.
ConfiguredTokenUsed ==
    sent # NoRequest /\ promClient.builtFor.ref # NoRef
        => sent.token = NoToken \/ sent.token.path # ServiceAccount

-----------------------------------------------------------------------------
(* The inductive invariant behind the safety properties.                   *)

\* The client sends to what it was built for.
SendsAsBuilt ==
    promClient # NoClient =>
        LET built == NewClient(promClient.builtFor)
        IN  /\ promClient.prometheusURL = built.prometheusURL
            /\ promClient.alertManagerURL = built.alertManagerURL
            /\ promClient.insecure = built.insecure

\* A cycle polls with a client whose key is that of its configuration.
PollsWithItsKey ==
    pc = "polling" =>
        /\ globalConfig # NoSpec
        /\ promClient # NoClient
        /\ lastPromConfig = SpecKey(globalConfig)

\* The last request was made by this cycle, with this client.
SentByClient ==
    sent # NoRequest =>
        /\ pc = "polling"
        /\ sent.url = IF sent.api = "alerts" THEN promClient.alertManagerURL
                      ELSE promClient.prometheusURL
        /\ sent.insecure = promClient.insecure

IInv ==
    /\ TypeOK
    /\ SendsAsBuilt
    /\ PollsWithItsKey
    /\ SentByClient

=============================================================================
