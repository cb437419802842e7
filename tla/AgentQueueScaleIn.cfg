SPECIFICATION Spec
CONSTANTS
    Entries = {e1, e2}
    Pods = {p1, p2}
    MaxReplicas = 2
    MaxFaults = 0
    MaxRestarts = 0
    None = None
PROPERTIES
    ScaledInWhenProcessed
