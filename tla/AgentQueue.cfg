SPECIFICATION FairSpec
CONSTANTS
    Entries = {e1, e2, e3}
    Pods = {p1, p2}
    MaxReplicas = 2
    MaxFaults = 1
    MaxRestarts = 1
    None = None
INVARIANTS
    TypeOK
    OneTurnPerEntry
    AckedWasAnswered
PROPERTIES
    QueuedIsAnswered
    ImplementsService
