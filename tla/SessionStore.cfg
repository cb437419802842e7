SPECIFICATION Spec
CONSTANTS
    Sids = {x, y}
    Clients = {c1}
    Roles = {user}
    MaxTime = 2
    MaxMessages = 2
    Absent = Absent
    Base = 3
    KeyWidth = 4
    FracWidth = 3
    MaxN = 80
SYMMETRY Symmetry
INVARIANTS
    TypeOK
    LogWellFormed
    AckedAppendsSurvive
    DetailNotBehind
    KeysInOrder
PROPERTIES
    ImplementsLog
