SPECIFICATION Spec
CONSTANTS
    None = None
    p1 = p1
    p2 = p2
    p3 = p3
    growth = growth
    scale = scale
    w1 = w1
    w2 = w2
    w3 = w3
    l1 = l1
    l2 = l2
    i1 = i1
    i2 = i2
    t1 = t1
    t2 = t2
    People <- MCPeople
    Visitors = {p1, p2}
    Plans <- MCPlans
    Workspaces <- MCWorkspaces
    Links = {l1, l2}
    Invitations <- MCInvitations
    Tabs = {t1, t2}
    Starts <- MCStarts
    Seats <- MCSeats
    MaxTokens = 4
    MaxSteps = 5
    MaxMishaps = 1
INVARIANTS
    TypeOK
    OneCompanyWorkspace
    JoinedByInvitation
    SwitchCanBeRepeated
SYMMETRY MCSymmetry
CHECK_DEADLOCK FALSE
