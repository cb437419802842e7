SPECIFICATION Spec
CONSTANTS
    Callers = {c1, c2}
    MaxId = 2
    Top = 1
    Guesses = {}
    MaxFailures = 1
    MaxRestarts = 1
    Unset = Unset
SYMMETRY CallerSymmetry
INVARIANTS
    TypeOK
    DeletedOnce
    MarkedWasThere
    ListedStillTrue
PROPERTIES
    ImplementsBoard
