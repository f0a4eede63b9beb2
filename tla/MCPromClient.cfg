\* Requests over edits of the configuration and rotations of the token.
SPECIFICATION Spec
CONSTANTS
    URLs = {route}
    NoURL = NoURL
    DefaultPrometheusURL = thanos
    DefaultAlertManagerURL = alertmanager
    Refs = {secret}
    NoRef = NoRef
    NoSpec = NoSpec
    NoClient = NoClient
    MaxVersion = 2
INVARIANTS
    RequestsGoWhereConfigured
PROPERTIES
    RequestsStayAuthorised
    PoolKept
