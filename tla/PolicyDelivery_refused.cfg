\* An agent rejects a set after it acknowledged another one too late.
SPECIFICATION FairSpec
CONSTRAINT OnceAndWithdrawn
CONSTANTS
    Agents = {a}
    PolicyIds = {"p", "q"}
    Slots = {s1}
    NoSlot = NoSlot
    NoSet = NoSet
    Silent = Silent
    Unsupported <- None
    Refused <- FirstQ
    MaxVersions = 2
    MaxTimeouts = 0
    MaxRestarts = 0
PROPERTIES
    Converges
