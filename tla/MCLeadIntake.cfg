SPECIFICATION Spec
CONSTANTS
    olga = olga
    mia = mia
    c1 = c1
    c2 = c2
    c3 = c3
    c4 = c4
    l1 = l1
    l2 = l2
    l3 = l3
    l4 = l4
    k1 = k1
    k2 = k2
    e = e
    p = p
    q = q
    Members = {olga, mia}
    Owner = olga
    Contacts = {c1, c2, c3, c4}
    Leads = {l1, l2, l3, l4}
    Marks = {e, p, q}
    Keys = {k1, k2}
    Client <- MCClient
    Requests = {r1, r2}
    Operations <- MCOperations
    Persons = {{e}}
    Assigned = {olga, mia}
    StartResponsible = mia
    Changing = {c1}
    StartContacts <- MCContacts
    StartLeads <- MCLeads
    MaxVersion = 2
INVARIANTS TypeOK ReviewsMatchLeads
PROPERTIES OffersAllContacts DecisionsAreCurrent
SYMMETRY Symmetry
