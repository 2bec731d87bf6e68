\* A policy deactivated; nothing is lost or dropped.
SPECIFICATION LosslessSpec
CONSTANTS
    Agents = {a1}
    PolicyIds = {p1}
    Slots = {s1}
    NoSlot = NoSlot
    NoSet = NoSet
    Silent = Silent
    None = None
    Unsupported <- NothingUnsupported
    Refused <- NothingRefused
    MaxVersions = 2
    MaxTimeouts = 0
    MaxRestarts = 0
    QueueLimit = 12
ACTION_CONSTRAINTS
    RecordsPersistPromptly
    FadesInSilence
INVARIANT
    RemovalSettles
