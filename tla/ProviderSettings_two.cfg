\* Two administrators, two clients, three changes of the row, restarts at any time.
SPECIFICATION Spec
ACTION_CONSTRAINT TypedAtAnswer
SYMMETRY Symmetry
CONSTANTS
    Admins = {a1, a2}
    Clients = {c1, c2}
    Absent = Absent
    MaxStamp = 3
INVARIANTS
    TypeOK
    ValidatedWasProbed
    SecretStaysWithClient
    MemoryFollowsRow
PROPERTIES
    NoBlindOverwrite
