SPECIFICATION Spec
CONSTANTS
    a = a
    b = b
    Kinds = {"contact", "lead"}
    Texts = {a, b}
    Options = {1, 2}
    Changing = {1}
    Queries <- MCQueries
    MaxKey = 2
    MaxVersion = 3
    MaxToken = 2
    MaxCalls = 1
    MaxFailures = 1
    MaxMount = 2
INVARIANTS TypeOK SavedOnce SaveCanReturn
PROPERTIES NoBlindOverwrite
SYMMETRY Symmetry
CONSTRAINT Bounds
CHECK_DEADLOCK FALSE
