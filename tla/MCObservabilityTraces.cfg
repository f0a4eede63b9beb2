\* The tracer of the cycle that dials.
SPECIFICATION OTelSpec
CONSTANTS
    Endpoints = {e1, e2}
    NoEndpoint = NoEndpoint
    NoObservability = NoObservability
    Nowhere = Nowhere
    MaxChanges = 1
    ExportersFail = FALSE
INVARIANTS
    ChecksAreTraced
