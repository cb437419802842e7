SPECIFICATION FairSpec
CONSTANTS
    Old = old
    New = new
    Requests = {r1, r2}
    Kinds = {"database", "redis", "sockets", "file", "nothing"}
    MaxOutages = 1
    MaxCrashes = 1
CHECK_DEADLOCK FALSE
INVARIANTS
    TypeOK
    NoneLost
    OpenWhileBusy
PROPERTIES
    TermEnds
    UpdateFinishes
