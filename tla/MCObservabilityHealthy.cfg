\* An endpoint that does not answer.
SPECIFICATION OTelSpec
CONSTANTS
    Endpoints = {e1, e2}
    NoEndpoint = NoEndpoint
    NoObservability = NoObservability
    Nowhere = Nowhere
    MaxChanges = 1
    ExportersFail = FALSE
PROPERTIES
    HealthyMeansReachable
