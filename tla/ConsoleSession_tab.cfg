\* One tab, two users, two sessions, one change on the server.
SPECIFICATION FairSpec
ACTION_CONSTRAINT ProfileFirst
CONSTANTS
    Users = {ana, bob}
    Nobody = nobody
    MaxLogins = 2
    MaxVersion = 2
INVARIANTS
    TypeOK
    DestinationsListed
PROPERTIES
    DraftConfined
    FrozenListStable
    LoadNeverUndoesLogin
    RevokedNoticed
    SettlesOnNewest
