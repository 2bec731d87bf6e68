\* A Java policy and a Collector configuration under one id.
SPECIFICATION FairSpec
CONSTANTS
    Handlers = {h1, h2}
    NoHandler = NoHandler
    PolicyIds = {"p"}
    CollectorIds = {"p"}
    PolicyBodies = {"plain", "spy"}
    CollectorBodies = {"east"}
    Sensitive = {"ssn"}
    CapturesOf <- MCCaptures
    MetricsOf <- MCMetrics
    RulesOf <- MCRules
    ScopeOf <- MCScope
    MaxPoliciesPerSet = 2
    MaxVersions = 4
    MaxRestarts = 0
INVARIANTS
    TypeOK
    LineageSound
PROPERTIES
    ImplementsLifecycle
    RequestsAnswered
