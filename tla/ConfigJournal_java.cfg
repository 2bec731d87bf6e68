\* Three Java policies, of which two may be active, with a restart.
SPECIFICATION Spec
CONSTANTS
    Handlers = {h1, h2}
    NoHandler = NoHandler
    PolicyIds = {"p", "q", "s"}
    CollectorIds = {}
    PolicyBodies = {"spy", "small"}
    CollectorBodies = {}
    Sensitive = {"ssn"}
    CapturesOf <- MCCaptures
    MetricsOf <- MCMetrics
    RulesOf <- MCRules
    ScopeOf <- MCScope
    MaxPoliciesPerSet = 2
    MaxVersions = 2
    MaxRestarts = 1
SYMMETRY HandlerSymmetry
INVARIANTS
    MemoryFollowsJournal
    PublicationsRespectDenylist
    MetricOwnerUnique
    ActivePoliciesCompose
