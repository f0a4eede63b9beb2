\* Where records go, and how often is dialled, as the configuration changes.
SPECIFICATION OTelSpec
CONSTANTS
    Endpoints = {e1, e2}
    NoEndpoint = NoEndpoint
    NoObservability = NoObservability
    Nowhere = Nowhere
    MaxChanges = 4
    ExportersFail = TRUE
INVARIANTS
    RecordsGoWhereConfigured
    ProvidersBounded
