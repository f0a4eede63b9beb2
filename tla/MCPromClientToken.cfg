\* The configured token against the one that is sent.
SPECIFICATION Spec
CONSTANTS
    URLs = {route}
    NoURL = NoURL
    DefaultPrometheusURL = thanos
    DefaultAlertManagerURL = alertmanager
    Refs = {secret}
    NoRef = NoRef
    NoSpec = NoSpec
    NoClient = NoClient
    MaxVersion = 1
INVARIANTS
    ConfiguredTokenUsed
