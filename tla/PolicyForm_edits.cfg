\* Every sequence of form edits, JSON edits, loads and publications.
SPECIFICATION Spec
CONSTANTS
    Names = {"a", "b"}
    HttpSlots = {r1, r2}
    HttpMetricSlots = {m1}
    MethodSlots = {w1}
    GlobalSlots = {g1}
    MsgSlots = {k1}
    MsgMetricSlots = {q1}
    Absent = Absent
    HttpCandidates <- FirstHttp
    MsgCandidates <- FirstMsg
    Stored <- OldStored
    Typed <- BrokenTyped
    Unparsable = Unparsable
    Agents = {a1}
    Supports <- NewAgent
CONSTRAINTS
    TypedAsIs
    OneBesideMethods
SYMMETRY SlotSymmetry
INVARIANTS
    TypeOK
    FormKeepsLinks
    FormRulesAccepted
PROPERTIES
    OnlySomeEditsLoseSchema
