SPECIFICATION Spec
CONSTANTS
    olga = olga
    adam = adam
    c1 = c1
    c2 = c2
    c3 = c3
    c4 = c4
    p1 = p1
    p2 = p2
    k1 = k1
    k2 = k2
    sales = sales
    Members = {olga, adam}
    Owner = olga
    Companies = {c1, c2, c3, c4}
    Contacts = {p1, p2}
    Teams = {sales}
    TeamOf <- MCTeamOf
    Mails = {"a", "b"}
    Phones = {"1"}
    Keys = {k1, k2}
    Client <- MCClient
    Requests = {r1, r2}
    Pages = {v1}
    Operations <- MCOperations
    Contents <- MCContents
    Readers = {olga}
    Opened = {p1}
    Listed = {"active"}
    Start <- MCStart
    MemberStates <- MCMemberStates
INVARIANTS TypeOK RowsAgree PagesAreCurrent
PROPERTIES DirectorySpec
SYMMETRY Symmetry
