SPECIFICATION FairSpec
CONSTANTS
    Sessions = {s1, s2}
    CanStall = {s1}
    MaxEdits = 0
    MaxFrames = 1
    MaxFails = 1
    MaxDrops = 1
    MaxRestarts = 1
CHECK_DEADLOCK FALSE
PROPERTIES
    ReplyArrives
    ClosedIsForgotten
