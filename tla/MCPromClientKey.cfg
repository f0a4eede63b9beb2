\* The rebuild key against the specification.
SPECIFICATION Spec
CONSTANTS
    URLs = {route}
    NoURL = NoURL
    DefaultPrometheusURL = thanos
    DefaultAlertManagerURL = alertmanager
    Refs = {secret}
    NoRef = NoRef
    NoSpec = NoSpec
    NoClient = NoClient
    MaxVersion = 1
INVARIANTS
    BuiltForSpec
