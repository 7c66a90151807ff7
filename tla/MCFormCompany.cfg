SPECIFICATION Spec
CONSTANTS
    a = a
    b = b
    Kinds = {"contact"}
    Texts = {a, b}
    Options = {1, 2}
    Changing = {1}
    Queries <- MCQueries
    MaxKey = 2
    MaxVersion = 3
    MaxToken = 2
    MaxCalls = 1
    MaxFailures = 1
    MaxMount = 2
PROPERTY SavedAsChosen
SYMMETRY Symmetry
CHECK_DEADLOCK FALSE
