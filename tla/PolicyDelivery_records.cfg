\* What the server records of an agent that lacks the schema of one version and rejects another.
SPECIFICATION Spec
CONSTANTS
    Agents = {a}
    PolicyIds = {"p", "q"}
    Slots = {s1}
    NoSlot = NoSlot
    NoSet = NoSet
    Silent = Silent
    Unsupported <- FirstQ
    Refused <- SecondP
    MaxVersions = 2
    MaxTimeouts = 1
    MaxRestarts = 1
INVARIANTS
    TypeOK
    AckedTruth
    QuietTruth
