\* One account, two emails, two passwords, two requests at a time, two links.
SPECIFICATION Spec
CONSTRAINTS
    OneEditor
    EditorOrPage
    Overlap
SYMMETRY Symmetry
CONSTANTS
    Users = {u1}
    Emails = {e1, e2}
    Passwords = {p1, p2}
    Browsers = {b1}
    Admins = {full, limited}
    Limited = {limited}
    Links = {k1, k2}
    Requests = {r1, r2}
    None = None
    Spent = Spent
    MaxVersion = 3
INVARIANTS
    TypeOK
    UsableLinks
    SessionsEnd
    SavesWhatItSaw
