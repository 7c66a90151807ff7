SPECIFICATION Spec
CONSTANTS
    olga = olga
    mia = mia
    c1 = c1
    d1 = d1
    d2 = d2
    k1 = k1
    k2 = k2
    Members = {olga, mia}
    Owner = olga
    Companies = {c1}
    Deals = {d1, d2}
    Stages = {"proposal", "negotiation", "won", "lost"}
    Class <- MCClass
    Keys = {k1, k2}
    Client <- MCClient
    Requests = {r1, r2}
    Operations = {"create", "update", "move", "archive", "restore"}
    Start <- MCStart
    Converted = {d1}
    MemberStates <- MCMemberStates
INVARIANTS TypeOK
PROPERTIES ActsAreCurrent BookSpec
SYMMETRY Symmetry
