\* One policy published, published again or deactivated, one agent, a crash.
SPECIFICATION CoverageSpec
CONSTANTS
    Agents = {a1}
    PolicyIds = {p1}
    Slots = {s1}
    NoSlot = NoSlot
    NoSet = NoSet
    Silent = Silent
    None = None
    Unsupported <- NothingUnsupported
    Refused <- NothingRefused
    MaxVersions = 2
    MaxTimeouts = 0
    MaxRestarts = 1
    QueueLimit = 2
ACTION_CONSTRAINTS
    RecordsPersistPromptly
    FadesInSilence
    OneRowAfterCrash
INVARIANTS
    CoverageTypeOK
    AppliedRuns
    RowsTruth
    RemovedIsGone
