\* Two agents compete for one place.
SPECIFICATION Spec
CONSTANTS
    Uids = {u, v}
    Requests = {r1, r2}
    Limit = 1
    QueueSize = 2
    OfflineAfter = 0
    Retention = 1
    MaxClock = 3
    MaxPushes = 1
    MaxRestarts = 1
SYMMETRY Symmetry
INVARIANTS
    TypeOK
    RowsSettle
PROPERTIES
    RowsNeverRegress
