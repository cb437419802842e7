SPECIFICATION Spec
CONSTANTS
    MaxToolIterations = 4
    MaxBlocks = 2
    MaxUnsure = 2
CHECK_DEADLOCK FALSE
INVARIANTS
    TypeOK
    WellFormed
    EffectsInOrder
    AnnouncedUnlessLate
    LimitIsTrue
