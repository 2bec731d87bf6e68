\* An agent that takes every policy, on a network that loses messages.
SPECIFICATION FairSpec
CONSTRAINT SecondOnce
CONSTANTS
    Agents = {a}
    PolicyIds = {"p", "q"}
    Slots = {s1}
    NoSlot = NoSlot
    NoSet = NoSet
    Silent = Silent
    Unsupported <- None
    Refused <- None
    MaxVersions = 2
    MaxTimeouts = 0
    MaxRestarts = 0
PROPERTIES
    Converges
    OffersCease
