SPECIFICATION Spec
CONSTANTS
    Spaces = {"a"}
    Names = {"x"}
    MaxListItems = 1
    MaxObjects = 2
    MaxEvents = 2
    MaxTime = 1
    MaxFails = 1
INVARIANTS
    TypeOK
    EventsAreTheirs
    EventsComplete
