SPECIFICATION Spec
CONSTANTS
    Sessions = {s1, s2}
    CanStall = {s1}
    MaxEdits = 1
    MaxFrames = 1
    MaxFails = 1
    MaxDrops = 1
    MaxRestarts = 0
CHECK_DEADLOCK FALSE
INVARIANTS
    TypeOK
    BroadcastReachesAll
    ReadYourEdits
PROPERTIES
    ReplyBeforeNotice
