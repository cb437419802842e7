SPECIFICATION Spec
CONSTANTS
    Sids = {x, y}
    Clients = {c1}
    Roles = {user}
    MaxTime = 2
    MaxMessages = 2
    Absent = Absent
    Base = 2
    KeyWidth = 2
    FracWidth = 2
    MaxN = 1
INVARIANTS
    MostRecentFirst
