-------------------------- MODULE SharedClientsProofs --------------------------
(***************************************************************************)
(* Proofs about what the check cycles of all policies share: the client    *)
(* for Prometheus and AlertManager (module PromClient), for any URLs,      *)
(* references and versions, and the telemetry Provider (Observability),    *)
(* for any endpoints, whether or not exporters may fail.                   *)
(***************************************************************************)
EXTENDS PromClient, Observability, TLAPS

-----------------------------------------------------------------------------
(* Tokens and clients.                                                      *)

\* What is read from a file is a token; it is the empty one only if nothing can
\* be read.
LEMMA TokenRead ==
    ASSUME files \in [Paths -> 0..MaxVersion], NEW path \in Paths
    PROVE  /\ ReadToken(path) \in Tokens
           /\ files[path] # 0 => ReadToken(path) # NoToken
<1>1. CASE files[path] = 0
  BY <1>1 DEF ReadToken, Tokens
<1>2. CASE files[path] # 0
  <2>1. files[path] \in 1..MaxVersion
    BY <1>2, NamesAssumption
  <2>2. ReadToken(path) = [path |-> path, version |-> files[path]]
    BY <1>2 DEF ReadToken
  <2>3. ReadToken(path).version # NoToken.version
    BY <2>1, <2>2 DEF NoToken
  <2> QED
    BY <2>1, <2>2, <2>3 DEF Tokens
<1> QED
  BY <1>1, <1>2

\* What NewClient makes of a specification.
LEMMA ClientMade ==
    ASSUME files \in [Paths -> 0..MaxVersion], NEW s \in Specs
    PROVE  /\ NewClient(s) \in Clients
           /\ NewClient(s) # NoClient
           /\ NewClient(s).builtFor = s
<1>1. s.PrometheusURL \in URLs \cup {NoURL} /\ s.AlertManagerURL \in URLs \cup {NoURL}
      /\ s.InsecureSkipVerify \in BOOLEAN /\ s.ref \in Refs \cup {NoRef}
  BY DEF Specs
<1>2. ReadToken(IF s.ref = NoRef THEN ServiceAccount ELSE s.ref) \in Tokens
  BY <1>1, TokenRead DEF Paths
<1>3. NewClient(s) \in Clients /\ NewClient(s).builtFor = s
  BY <1>1, <1>2 DEF NewClient, Clients
<1> QED
  BY <1>3, NoClientAssumption

\* A refreshed client differs in its token only: it has the one in the service
\* account's file, or the one it had.
LEMMA ClientRefreshed ==
    ASSUME files \in [Paths -> 0..MaxVersion], NEW c \in Clients
    PROVE  /\ Refreshed(c) \in Clients
           /\ Refreshed(c) # NoClient
           /\ Refreshed(c).prometheusURL = c.prometheusURL
           /\ Refreshed(c).alertManagerURL = c.alertManagerURL
           /\ Refreshed(c).insecure = c.insecure
           /\ Refreshed(c).builtFor = c.builtFor
           /\ Refreshed(c).token = IF ReadToken(ServiceAccount) = NoToken THEN c.token
                                   ELSE ReadToken(ServiceAccount)
<1>1. ReadToken(ServiceAccount) \in Tokens
  BY TokenRead DEF Paths
<1>2. CASE ReadToken(ServiceAccount) = NoToken
  BY <1>2, NoClientAssumption DEF Refreshed
<1>3. CASE ReadToken(ServiceAccount) # NoToken
  <2>1. Refreshed(c) = [c EXCEPT !.token = ReadToken(ServiceAccount)]
    BY <1>3 DEF Refreshed
  <2>2. Refreshed(c) \in Clients
    BY <1>1, <2>1 DEF Clients
  <2> QED
    BY <1>3, <2>1, <2>2, NoClientAssumption DEF Clients
<1> QED
  BY <1>2, <1>3

-----------------------------------------------------------------------------
(* The invariant of the client.                                             *)

\* The invariant holds at the start.
LEMMA Initially == Init => IInv
<1> SUFFICES ASSUME Init
             PROVE  IInv
  OBVIOUS
<1>1. sent \in [api: {"none", "alerts", "query"},
                url: URLs \cup {NoURL, DefaultPrometheusURL, DefaultAlertManagerURL},
                insecure: BOOLEAN, token: Tokens]
  BY DEF Init, NoRequest, Tokens
<1> QED
  BY <1>1 DEF Init, IInv, TypeOK, SendsAsBuilt, PollsWithItsKey, SentByClient

\* A request is sent with the refreshed client.
LEMMA GetKeeps ==
    ASSUME IInv, NEW api \in {"alerts", "query"}, NEW url, Get(api, url),
           url = IF api = "alerts" THEN promClient.alertManagerURL
                 ELSE promClient.prometheusURL
    PROVE  IInv'
<1> USE DEF IInv
<1>1. /\ files \in [Paths -> 0..MaxVersion]
      /\ promClient \in Clients /\ promClient # NoClient
  BY DEF Get, TypeOK, PollsWithItsKey
<1>2. /\ promClient' \in Clients /\ promClient' # NoClient
      /\ promClient'.prometheusURL = promClient.prometheusURL
      /\ promClient'.alertManagerURL = promClient.alertManagerURL
      /\ promClient'.insecure = promClient.insecure
      /\ promClient'.builtFor = promClient.builtFor
  BY <1>1, ClientRefreshed DEF Get
<1>3. /\ sent' \in [api: {"none", "alerts", "query"},
                    url: URLs \cup {NoURL, DefaultPrometheusURL, DefaultAlertManagerURL},
                    insecure: BOOLEAN, token: Tokens]
      /\ sent'.api = api /\ sent'.url = url /\ sent'.insecure = promClient.insecure
  <2>1. promClient'.token \in Tokens /\ promClient.insecure \in BOOLEAN
        /\ promClient.prometheusURL \in URLs \cup {DefaultPrometheusURL}
        /\ promClient.alertManagerURL \in URLs \cup {DefaultAlertManagerURL}
    BY <1>1, <1>2 DEF Clients
  <2> QED
    BY <2>1 DEF Get
<1>4. TypeOK'
  BY <1>1, <1>2, <1>3 DEF Get, TypeOK
<1>5. SendsAsBuilt'
  BY <1>1, <1>2 DEF SendsAsBuilt, NewClient
<1>6. PollsWithItsKey'
  BY <1>2 DEF Get, PollsWithItsKey, SpecKey
<1>7. SentByClient'
  BY <1>2, <1>3 DEF Get, SentByClient
<1> QED
  BY <1>4, <1>5, <1>6, <1>7

\* Every step keeps the invariant.
LEMMA Inductive == IInv /\ [Next]_vars => IInv'
<1> SUFFICES ASSUME IInv, [Next]_vars
             PROVE  IInv'
  OBVIOUS
<1> USE DEF IInv
<1>1. CASE EditConfig
  BY <1>1 DEF EditConfig, TypeOK, SendsAsBuilt, NewClient, PollsWithItsKey, SpecKey, SentByClient
<1>2. CASE Rotate
  <2>1. files' \in [Paths -> 0..MaxVersion]
    BY <1>2 DEF Rotate, TypeOK
  <2> QED
    BY <1>2, <2>1
       DEF Rotate, TypeOK, SendsAsBuilt, NewClient, PollsWithItsKey, SpecKey, SentByClient
<1>3. CASE FetchConfig
  BY <1>3 DEF FetchConfig, TypeOK, SendsAsBuilt, NewClient, PollsWithItsKey, SpecKey, SentByClient
<1>4. CASE SkipPrometheusChecks
  BY <1>4
     DEF SkipPrometheusChecks, TypeOK, SendsAsBuilt, NewClient, PollsWithItsKey, SpecKey, SentByClient
<1>5. CASE Rebuild
  <2>1. globalConfig \in Specs /\ files \in [Paths -> 0..MaxVersion]
    BY <1>5 DEF Rebuild, TypeOK
  <2>2. /\ promClient' = NewClient(globalConfig)
        /\ promClient' \in Clients /\ promClient' # NoClient
        /\ promClient'.builtFor = globalConfig
    BY <1>5, <2>1, ClientMade DEF Rebuild
  <2>3. TypeOK'
    BY <1>5, <2>1, <2>2 DEF Rebuild, TypeOK, SpecKey
  <2>4. SendsAsBuilt'
    BY <2>2 DEF SendsAsBuilt, NewClient
  <2>5. PollsWithItsKey'
    BY <1>5, <2>2 DEF Rebuild, PollsWithItsKey, SpecKey
  <2>6. SentByClient'
    BY <1>5 DEF Rebuild, SentByClient
  <2> QED
    BY <2>3, <2>4, <2>5, <2>6
<1>6. CASE Reuse
  BY <1>6 DEF Reuse, TypeOK, SendsAsBuilt, NewClient, PollsWithItsKey, SpecKey, SentByClient
<1>7. CASE FiringAlerts
  BY <1>7, GetKeeps DEF FiringAlerts
<1>8. CASE QueryInstant
  BY <1>8, GetKeeps DEF QueryInstant
<1>9. CASE EndCycle
  <2>1. NoRequest \in [api: {"none", "alerts", "query"},
                       url: URLs \cup {NoURL, DefaultPrometheusURL, DefaultAlertManagerURL},
                       insecure: BOOLEAN, token: Tokens]
    BY DEF NoRequest, Tokens
  <2> QED
    BY <1>9, <2>1
       DEF EndCycle, TypeOK, SendsAsBuilt, NewClient, PollsWithItsKey, SpecKey, SentByClient
<1>10. CASE Restart
  <2>1. NoRequest \in [api: {"none", "alerts", "query"},
                       url: URLs \cup {NoURL, DefaultPrometheusURL, DefaultAlertManagerURL},
                       insecure: BOOLEAN, token: Tokens]
    BY DEF NoRequest, Tokens
  <2> QED
    BY <1>10, <2>1 DEF Restart, TypeOK, SendsAsBuilt, PollsWithItsKey, SentByClient
<1>11. CASE UNCHANGED vars
  BY <1>11 DEF vars, TypeOK, SendsAsBuilt, NewClient, PollsWithItsKey, SpecKey, SentByClient
<1> QED
  BY <1>1, <1>2, <1>3, <1>4, <1>5, <1>6, <1>7, <1>8, <1>9, <1>10, <1>11 DEF Next

-----------------------------------------------------------------------------
(* The theorems about the client.                                           *)

\* The invariant of the client holds for any URLs, references and versions.
THEOREM Invariance == Spec => []IInv
  BY Initially, Inductive, PTL DEF Spec

\* A request goes where the configuration the cycle fetched says, however the
\* configuration was edited since (srepolicy_controller.go:415-431).
THEOREM RequestsWhereConfigured == Spec => []RequestsGoWhereConfigured
<1>1. IInv => RequestsGoWhereConfigured
  <2> SUFFICES ASSUME IInv, sent # NoRequest
               PROVE  LET fetched == NewClient(globalConfig)
                      IN  /\ sent.url = IF sent.api = "alerts" THEN fetched.alertManagerURL
                                        ELSE fetched.prometheusURL
                          /\ sent.insecure = globalConfig.InsecureSkipVerify
    BY DEF RequestsGoWhereConfigured
  <2>1. /\ pc = "polling" /\ promClient # NoClient
        /\ lastPromConfig = SpecKey(globalConfig)
        /\ sent.url = IF sent.api = "alerts" THEN promClient.alertManagerURL
                      ELSE promClient.prometheusURL
        /\ sent.insecure = promClient.insecure
    BY DEF IInv, SentByClient, PollsWithItsKey
  <2>2. SpecKey(promClient.builtFor) = SpecKey(globalConfig)
    BY <2>1 DEF IInv, TypeOK
  <2>3. /\ promClient.builtFor.PrometheusURL = globalConfig.PrometheusURL
        /\ promClient.builtFor.AlertManagerURL = globalConfig.AlertManagerURL
        /\ promClient.builtFor.InsecureSkipVerify = globalConfig.InsecureSkipVerify
    BY <2>2 DEF SpecKey
  <2> QED
    BY <2>1, <2>3 DEF IInv, SendsAsBuilt, NewClient
<1> QED
  BY <1>1, Invariance, PTL

\* Where no token is configured, a request carries the service account's current
\* one, and a client with a token sends some token (client.go:281-290).
THEOREM RequestsAuthorised == Spec => RequestsStayAuthorised
<1> DEFINE Authorised ==
        sent' # NoRequest /\ pc = "polling" =>
            /\ promClient.token # NoToken => sent'.token # NoToken
            /\ WithoutReference /\ files[ServiceAccount] # 0 =>
                  sent'.token = ReadToken(ServiceAccount)
<1>1. ASSUME IInv, NEW api, NEW url, Get(api, url)
      PROVE  Authorised
  <2>1. files \in [Paths -> 0..MaxVersion] /\ promClient \in Clients
    BY <1>1 DEF IInv, Get, TypeOK, PollsWithItsKey
  <2>2. sent'.token = IF ReadToken(ServiceAccount) = NoToken THEN promClient.token
                      ELSE ReadToken(ServiceAccount)
    BY <1>1, <2>1, ClientRefreshed DEF Get
  <2>3. files[ServiceAccount] # 0 => ReadToken(ServiceAccount) # NoToken
    BY <2>1, TokenRead DEF Paths
  <2> QED
    BY <2>2, <2>3
<1>2. ASSUME IInv, [Next]_vars
      PROVE  [Authorised]_<<sent, promClient>>
  <2>1. CASE FiringAlerts \/ QueryInstant
    BY <1>1, <1>2, <2>1 DEF FiringAlerts, QueryInstant
  <2>2. CASE Rebuild
    BY <2>2 DEF Rebuild
  <2>3. CASE EndCycle \/ Restart
    BY <2>3 DEF EndCycle, Restart
  <2>4. CASE EditConfig \/ Rotate \/ FetchConfig \/ SkipPrometheusChecks \/ Reuse \/ UNCHANGED vars
    BY <2>4 DEF EditConfig, Rotate, FetchConfig, SkipPrometheusChecks, Reuse, vars
  <2> QED
    BY <1>2, <2>1, <2>2, <2>3, <2>4 DEF Next
<1> QED
  BY <1>2, Invariance, PTL DEF Spec, RequestsStayAuthorised

\* The client is replaced for another specification only
\* (srepolicy_controller.go:412-431).
THEOREM PoolIsKept == Spec => PoolKept
<1> DEFINE Kept == promClient # NoClient /\ promClient' # NoClient
                       /\ pc = "fetched" /\ pc' = "polling"
                       /\ globalConfig = promClient.builtFor
                    => promClient' = promClient
<1>1. ASSUME IInv, [Next]_vars
      PROVE  Kept
  <2>1. CASE Rebuild
    BY <1>1, <2>1 DEF Rebuild, IInv, TypeOK
  <2>2. CASE ~Rebuild
    BY <1>1, <2>2
       DEF Next, EditConfig, Rotate, FetchConfig, SkipPrometheusChecks, Reuse,
           FiringAlerts, QueryInstant, Get, EndCycle, Restart, vars
  <2> QED
    BY <2>1, <2>2
<1>2. IInv /\ [Next]_vars => [Kept]_vars
  BY <1>1
<1> QED
  BY <1>2, Invariance, PTL DEF Spec, PoolKept

-----------------------------------------------------------------------------
(* The invariant of the Provider.                                           *)

\* NewProvider's exporters send to the endpoint it is given, or nowhere.
LEMMA NewProvidersType ==
    ASSUME NEW s \in ObservabilitySpecs, NEW p \in NewProviders(s)
    PROVE  p \in [tracer: {Nowhere, s.otelEndpoint},
                  logger: {Nowhere, s.otelEndpoint}]
  BY DEF NewProviders

\* The endpoint that is configured comes to be the last that was named, and
\* those named before stay in their places.
LEMMA NamingAppends ==
    ASSUME NEW seq \in Seq(Endpoints \cup {NoEndpoint}), seq # <<>>,
           NEW o \in ObservabilitySpecs \cup {NoObservability}
    PROVE  /\ Naming(seq, o) \in Seq(Endpoints \cup {NoEndpoint})
           /\ Len(Naming(seq, o)) \in Nat /\ Len(seq) \in Nat
           /\ 1 <= Len(seq) /\ Len(seq) <= Len(Naming(seq, o))
           /\ \A i \in 1..Len(seq) : Naming(seq, o)[i] = seq[i]
           /\ WantsProvider(o) =>
                 Naming(seq, o)[Len(Naming(seq, o))] = o.otelEndpoint
<1>1. CASE WantsProvider(o) /\ o.otelEndpoint # seq[Len(seq)]
  <2>1. o.otelEndpoint \in Endpoints \cup {NoEndpoint}
    BY <1>1 DEF WantsProvider, ObservabilitySpecs
  <2>2. Naming(seq, o) = Append(seq, o.otelEndpoint)
    BY <1>1 DEF Naming
  <2> QED
    BY <2>1, <2>2
<1>2. CASE ~(WantsProvider(o) /\ o.otelEndpoint # seq[Len(seq)])
  <2>1. Naming(seq, o) = seq
    BY <1>2 DEF Naming
  <2> QED
    BY <1>2, <2>1
<1> QED
  BY <1>1, <1>2

\* The invariant holds at the start.
LEMMA OTelInitially == OTelInit => OTelIInv
<1> SUFFICES ASSUME OTelInit
             PROVE  OTelIInv
  OBVIOUS
<1>1. named = <<NoEndpoint>> /\ named # <<>> /\ Len(named) = 1 /\ named[1] = NoEndpoint
      /\ named \in Seq(Endpoints \cup {NoEndpoint})
  BY DEF OTelInit
<1>2. OTelTypeOK
  BY <1>1 DEF OTelInit, OTelTypeOK, NoProvider, Targets
<1>3. NamedLast
  BY DEF OTelInit, NamedLast, WantsProvider
<1>4. MadeInTurn
  BY <1>1 DEF OTelInit, MadeInTurn
<1>5. ProviderIsCurrent /\ ExportedByProvider
  BY DEF OTelInit, ProviderIsCurrent, ExportedByProvider
<1> QED
  BY <1>2, <1>3, <1>4, <1>5 DEF OTelIInv

\* A step that leaves the history and the Provider alone, and in which no cycle
\* comes to have fetched another configuration, keeps their parts.
LEMMA HistoryKept ==
    ASSUME OTelIInv, UNCHANGED <<config, provider>>,
           stage' = "fetched" => stage = "fetched" /\ otelConfig' = otelConfig
    PROVE  NamedLast' /\ MadeInTurn'
<1>1. NamedLast'
  BY DEF OTelIInv, config, NamedLast, WantsProvider
<1>2. MadeInTurn'
  BY DEF OTelIInv, config, provider, MadeInTurn, WantsProvider
<1> QED
  BY <1>1, <1>2

\* A new configuration keeps the history.
LEMMA EditKeepsHistory ==
    ASSUME OTelIInv, EditObservability
    PROVE  NamedLast' /\ MadeInTurn'
<1>1. /\ named \in Seq(Endpoints \cup {NoEndpoint}) /\ named # <<>>
      /\ observability' \in ObservabilitySpecs \cup {NoObservability}
      /\ named' = Naming(named, observability')
  BY DEF OTelIInv, OTelTypeOK, EditObservability
<1>2. /\ Len(named') \in Nat /\ Len(named) \in Nat
      /\ 1 <= Len(named) /\ Len(named) <= Len(named')
      /\ \A i \in 1..Len(named) : named'[i] = named[i]
      /\ WantsProvider(observability') => named'[Len(named')] = observability'.otelEndpoint
  BY <1>1, NamingAppends
<1>3. NamedLast'
  BY <1>2 DEF NamedLast, WantsProvider
<1>4. PICK i \in 1..Len(named) :
          /\ lastOTelEndpoint = named[i]
          /\ providers < i
          /\ stage = "fetched" /\ WantsProvider(otelConfig) =>
                \E j \in i..Len(named) : named[j] = otelConfig.otelEndpoint
  BY DEF OTelIInv, MadeInTurn
<1>5. /\ stage' = stage /\ otelConfig' = otelConfig
      /\ lastOTelEndpoint' = lastOTelEndpoint /\ providers' = providers
  BY DEF EditObservability, cycle, provider
<1>6. i \in 1..Len(named') /\ named'[i] = named[i]
  BY <1>2, <1>4
<1>7. ASSUME stage' = "fetched", WantsProvider(otelConfig')
      PROVE  \E j \in i..Len(named') : named'[j] = otelConfig'.otelEndpoint
  <2>1. PICK j \in i..Len(named) : named[j] = otelConfig.otelEndpoint
    BY <1>4, <1>5, <1>7 DEF WantsProvider
  <2>2. j \in i..Len(named') /\ j \in 1..Len(named)
    BY <1>2, <1>4, <2>1
  <2> QED
    BY <1>2, <1>5, <2>1, <2>2
<1>8. MadeInTurn'
  BY <1>4, <1>5, <1>6, <1>7 DEF MadeInTurn, WantsProvider
<1> QED
  BY <1>3, <1>8

\* A cycle that starts fetches what was named last.
LEMMA StartKeepsHistory ==
    ASSUME OTelIInv, StartCycle
    PROVE  NamedLast' /\ MadeInTurn'
<1>1. UNCHANGED <<observability, named, lastOTelEndpoint, providers>>
  BY DEF StartCycle, config, provider
<1>2. NamedLast'
  BY <1>1 DEF OTelIInv, NamedLast, WantsProvider
<1>3. Len(named) \in Nat
  BY DEF OTelIInv, OTelTypeOK
<1>4. PICK i \in 1..Len(named) : lastOTelEndpoint = named[i] /\ providers < i
  BY DEF OTelIInv, MadeInTurn
<1>5. ASSUME WantsProvider(otelConfig')
      PROVE  \E j \in i..Len(named) : named[j] = otelConfig'.otelEndpoint
  <2>1. otelConfig' = observability
    BY <1>5 DEF StartCycle, WantsProvider
  <2>2. named[Len(named)] = observability.otelEndpoint
    BY <1>5, <2>1 DEF OTelIInv, NamedLast, WantsProvider
  <2>3. Len(named) \in i..Len(named)
    BY <1>3, <1>4
  <2> QED
    BY <2>1, <2>2, <2>3
<1>6. MadeInTurn'
  BY <1>1, <1>4, <1>5 DEF MadeInTurn, WantsProvider
<1> QED
  BY <1>2, <1>6

\* A Provider that is made has an endpoint that was named later than the one
\* before.
LEMMA DialKeepsHistory ==
    ASSUME OTelIInv, ReconcileOTel
    PROVE  NamedLast' /\ MadeInTurn'
<1>1. /\ UNCHANGED <<observability, named>>
      /\ stage = "fetched" /\ stage' = "checking"
      /\ WantsProvider(otelConfig) /\ otelConfig.otelEndpoint # lastOTelEndpoint
      /\ lastOTelEndpoint' = otelConfig.otelEndpoint
      /\ providers' = providers + 1
  BY DEF ReconcileOTel, EndpointChanged, config
<1>2. NamedLast'
  BY <1>1 DEF OTelIInv, NamedLast, WantsProvider
<1>3. Len(named) \in Nat /\ providers \in Nat
  BY DEF OTelIInv, OTelTypeOK
<1>4. PICK i \in 1..Len(named) :
          /\ lastOTelEndpoint = named[i]
          /\ providers < i
          /\ \E j \in i..Len(named) : named[j] = otelConfig.otelEndpoint
  BY <1>1 DEF OTelIInv, MadeInTurn
<1>5. PICK j \in i..Len(named) : named[j] = otelConfig.otelEndpoint
  BY <1>4
<1>6. i # j
  BY <1>1, <1>4, <1>5
<1>7. j \in 1..Len(named) /\ providers + 1 < j
  BY <1>3, <1>4, <1>5, <1>6
<1>8. MadeInTurn'
  BY <1>1, <1>5, <1>7 DEF MadeInTurn
<1> QED
  BY <1>2, <1>8

\* A process that starts has made no Provider.
LEMMA RestartKeepsHistory ==
    ASSUME OTelIInv, RestartProcess
    PROVE  /\ named' \in Seq(Endpoints \cup {NoEndpoint}) /\ named' # <<>>
           /\ NamedLast' /\ MadeInTurn'
<1>1. /\ observability' = observability
      /\ observability \in ObservabilitySpecs \cup {NoObservability}
      /\ named' = Naming(<<NoEndpoint>>, observability)
      /\ stage' = "idle" /\ lastOTelEndpoint' = NoEndpoint /\ providers' = 0
  BY DEF OTelIInv, OTelTypeOK, RestartProcess
<1>2. /\ <<NoEndpoint>> \in Seq(Endpoints \cup {NoEndpoint})
      /\ <<NoEndpoint>> # <<>> /\ Len(<<NoEndpoint>>) = 1 /\ <<NoEndpoint>>[1] = NoEndpoint
  OBVIOUS
<1>3. /\ named' \in Seq(Endpoints \cup {NoEndpoint})
      /\ Len(named') \in Nat /\ 1 <= Len(named') /\ named'[1] = NoEndpoint
      /\ WantsProvider(observability) => named'[Len(named')] = observability.otelEndpoint
  <2> DEFINE first == <<NoEndpoint>>
  <2>1. first \in Seq(Endpoints \cup {NoEndpoint}) /\ first # <<>>
        /\ Len(first) = 1 /\ first[1] = NoEndpoint
    BY <1>2
  <2>2. named' = Naming(first, observability)
    BY <1>1
  <2> HIDE DEF first
  <2>3. /\ Naming(first, observability) \in Seq(Endpoints \cup {NoEndpoint})
        /\ Len(Naming(first, observability)) \in Nat /\ Len(first) \in Nat
        /\ Len(first) <= Len(Naming(first, observability))
        /\ \A i \in 1..Len(first) : Naming(first, observability)[i] = first[i]
        /\ WantsProvider(observability) =>
              Naming(first, observability)[Len(Naming(first, observability))]
                  = observability.otelEndpoint
    BY <1>1, <2>1, NamingAppends
  <2> QED
    BY <2>1, <2>2, <2>3
<1>4. NamedLast'
  BY <1>1, <1>3 DEF NamedLast, WantsProvider
<1>5. MadeInTurn'
  BY <1>1, <1>3 DEF MadeInTurn
<1>6. named' # <<>>
  BY <1>3
<1> QED
  BY <1>3, <1>4, <1>5, <1>6

\* Every step keeps the invariant.
LEMMA OTelInductive == OTelIInv /\ [OTelNext]_otelVars => OTelIInv'
<1> SUFFICES ASSUME OTelIInv, [OTelNext]_otelVars
             PROVE  OTelIInv'
  OBVIOUS
<1>0. OTelTypeOK /\ ProviderIsCurrent /\ ExportedByProvider
  BY DEF OTelIInv
<1>1. CASE EditObservability
  <2>1. named' \in Seq(Endpoints \cup {NoEndpoint}) /\ named' # <<>>
    <3>1. /\ Naming(named, observability') \in Seq(Endpoints \cup {NoEndpoint})
          /\ Len(Naming(named, observability')) # 0
      BY <1>0, <1>1, NamingAppends DEF EditObservability, OTelTypeOK
    <3> QED
      BY <1>1, <3>1 DEF EditObservability
  <2>2. OTelTypeOK'
    BY <1>0, <1>1, <2>1 DEF EditObservability, provider, cycle, OTelTypeOK
  <2>3. ProviderIsCurrent' /\ ExportedByProvider'
    BY <1>0, <1>1
       DEF EditObservability, provider, cycle, ProviderIsCurrent, ExportedByProvider,
           WantsProvider
  <2> QED
    BY <1>1, <2>2, <2>3, EditKeepsHistory DEF OTelIInv
<1>2. CASE Reach
  <2>1. OTelTypeOK' /\ ProviderIsCurrent' /\ ExportedByProvider'
    BY <1>0, <1>2
       DEF Reach, provider, cycle, OTelTypeOK, ProviderIsCurrent, ExportedByProvider,
           WantsProvider
  <2>2. NamedLast'
    BY <1>2 DEF OTelIInv, Reach, NamedLast, WantsProvider
  <2>3. MadeInTurn'
    BY <1>2 DEF OTelIInv, Reach, provider, cycle, MadeInTurn, WantsProvider
  <2> QED
    BY <2>1, <2>2, <2>3 DEF OTelIInv
<1>3. CASE StartCycle
  <2>1. OTelTypeOK'
    BY <1>0, <1>3 DEF StartCycle, config, provider, OTelTypeOK, Targets
  <2>2. exported = NotCalled
    BY <1>0, <1>3 DEF StartCycle, ExportedByProvider
  <2>3. ProviderIsCurrent' /\ ExportedByProvider'
    BY <1>3, <2>2 DEF StartCycle, ProviderIsCurrent, ExportedByProvider
  <2> QED
    BY <1>3, <2>1, <2>3, StartKeepsHistory DEF OTelIInv
<1>4. CASE KeepOTel
  <2>1. OTelTypeOK'
    BY <1>0, <1>4 DEF KeepOTel, config, provider, cycle, OTelTypeOK
  <2>2. ProviderIsCurrent'
    BY <1>4 DEF KeepOTel, provider, cycle, EndpointChanged, ProviderIsCurrent, WantsProvider
  <2>3. ExportedByProvider'
    BY <1>0, <1>4 DEF KeepOTel, ExportedByProvider
  <2>4. NamedLast' /\ MadeInTurn'
    BY <1>4, HistoryKept DEF KeepOTel
  <2> QED
    BY <2>1, <2>2, <2>3, <2>4 DEF OTelIInv
<1>5. CASE ReconcileOTel
  <2>1. /\ otelConfig \in ObservabilitySpecs
        /\ otelConfig.otelEndpoint \in Endpoints \cup {NoEndpoint}
    BY <1>0, <1>5
       DEF ReconcileOTel, EndpointChanged, WantsProvider, OTelTypeOK, ObservabilitySpecs
  <2>2. Telemetry' \in [tracer: {Nowhere, lastOTelEndpoint'},
                        logger: {Nowhere, lastOTelEndpoint'}]
    BY <1>5, <2>1, NewProvidersType DEF ReconcileOTel
  <2>3. OTelTypeOK'
    BY <1>0, <1>5, <2>1, <2>2
       DEF ReconcileOTel, config, cycle, OTelTypeOK, Targets
  <2>4. ProviderIsCurrent'
    BY <1>5 DEF ReconcileOTel, cycle, ProviderIsCurrent, WantsProvider
  <2>5. exported' = NotCalled
    BY <1>0, <1>5 DEF ReconcileOTel, ExportedByProvider
  <2>6. ExportedByProvider'
    BY <2>5 DEF ExportedByProvider
  <2> QED
    BY <1>5, <2>3, <2>4, <2>6, DialKeepsHistory DEF OTelIInv
<1>6. CASE LogRecord
  <2>1. Telemetry.logger \in Targets
    BY <1>0 DEF OTelTypeOK, Targets
  <2>2. OTelTypeOK'
    BY <1>0, <1>6, <2>1 DEF LogRecord, config, provider, cycle, OTelTypeOK
  <2>3. ProviderIsCurrent' /\ ExportedByProvider'
    BY <1>0, <1>6
       DEF LogRecord, provider, cycle, ProviderIsCurrent, ExportedByProvider, WantsProvider
  <2>4. NamedLast' /\ MadeInTurn'
    BY <1>6, HistoryKept DEF LogRecord, cycle
  <2> QED
    BY <2>2, <2>3, <2>4 DEF OTelIInv
<1>7. CASE FinishCycle
  <2>1. OTelTypeOK' /\ ProviderIsCurrent' /\ ExportedByProvider'
    BY <1>0, <1>7
       DEF FinishCycle, config, provider, cycle, OTelTypeOK, Targets,
           ProviderIsCurrent, ExportedByProvider
  <2>2. NamedLast' /\ MadeInTurn'
    BY <1>7, HistoryKept DEF FinishCycle
  <2> QED
    BY <2>1, <2>2 DEF OTelIInv
<1>8. CASE RestartProcess
  <2>1. OTelTypeOK'
    BY <1>0, <1>8, RestartKeepsHistory
       DEF RestartProcess, cycle, OTelTypeOK, Targets, NoProvider
  <2>2. ProviderIsCurrent' /\ ExportedByProvider'
    BY <1>8 DEF RestartProcess, ProviderIsCurrent, ExportedByProvider
  <2> QED
    BY <1>8, <2>1, <2>2, RestartKeepsHistory DEF OTelIInv
<1>9. CASE UNCHANGED otelVars
  <2>1. OTelTypeOK' /\ ProviderIsCurrent' /\ ExportedByProvider'
    BY <1>0, <1>9
       DEF otelVars, config, provider, cycle, OTelTypeOK, ProviderIsCurrent,
           ExportedByProvider, WantsProvider
  <2>2. NamedLast' /\ MadeInTurn'
    BY <1>9, HistoryKept DEF otelVars, cycle
  <2> QED
    BY <2>1, <2>2 DEF OTelIInv
<1> QED
  BY <1>1, <1>2, <1>3, <1>4, <1>5, <1>6, <1>7, <1>8, <1>9 DEF OTelNext

-----------------------------------------------------------------------------
(* The theorems about the Provider.                                         *)

\* The invariant of the Provider holds for any endpoints.
THEOREM OTelInvariance == OTelSpec => []OTelIInv
  BY OTelInitially, OTelInductive, PTL DEF OTelSpec

\* Findings go to the endpoint of the configuration the cycle fetched, or not at
\* all (srepolicy_controller.go:219-224).
THEOREM RecordsWhereConfigured == OTelSpec => []RecordsGoWhereConfigured
<1>1. OTelIInv => RecordsGoWhereConfigured
  <2> SUFFICES ASSUME OTelIInv, exported \in Endpoints
               PROVE  exported = otelConfig.otelEndpoint
    BY DEF RecordsGoWhereConfigured
  <2>1. exported # NotCalled /\ exported # Nowhere
    BY EndpointsAssumption
  <2>2. /\ stage = "checking" /\ WantsProvider(otelConfig)
        /\ exported = Telemetry.logger
    BY <2>1 DEF OTelIInv, ExportedByProvider, WantsProvider
  <2>3. Telemetry.logger = lastOTelEndpoint
    BY <2>1, <2>2 DEF OTelIInv, OTelTypeOK
  <2> QED
    BY <2>2, <2>3 DEF OTelIInv, ProviderIsCurrent
<1> QED
  BY <1>1, OTelInvariance, PTL

\* A process never makes more Providers than the configuration names other
\* endpoints, whatever else is edited between and during cycles
\* (srepolicy_controller.go:122-137).
THEOREM ProvidersAreBounded == OTelSpec => []ProvidersBounded
<1>1. OTelIInv => ProvidersBounded
  <2> SUFFICES ASSUME OTelIInv
               PROVE  providers < Len(named)
    BY DEF ProvidersBounded
  <2>1. Len(named) \in Nat /\ providers \in Nat
    BY DEF OTelIInv, OTelTypeOK
  <2>2. PICK i \in 1..Len(named) : providers < i
    BY DEF OTelIInv, MadeInTurn
  <2> QED
    BY <2>1, <2>2
<1> QED
  BY <1>1, OTelInvariance, PTL
===============================================================================
