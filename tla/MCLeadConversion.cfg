SPECIFICATION Spec
CONSTANTS
    olga = olga
    mia = mia
    c0 = c0
    c1 = c1
    k1 = k1
    k2 = k2
    Members = {olga, mia}
    Owner = olga
    Companies = {c0, c1}
    Keys = {k1, k2}
    Client <- MCClient
    Requests = {r1, r2}
    Operations = {"lifecycle", "edit", "stage", "hold", "resolve", "convert"}
    Starts <- MCStarts
    StartCompany <- MCCompany
    MemberStates <- MCMemberStates
    MaxVersions = 2
INVARIANTS TypeOK DealMatchesLead
PROPERTIES ChangesAreCurrent
SYMMETRY Symmetry
