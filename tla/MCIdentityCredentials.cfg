SPECIFICATION Spec
CONSTANTS
    Passwords = {p1, p2}
    FirstPassword = p1
    Links = {v1, v2}
    FirstLink = v1
    Resets = {t1, t2}
    Sessions = {s1, s2}
    Requests = {r1, r2}
    Outdated = FALSE
INVARIANTS TypeOK RevokedSessionsStayOut LinksWorkOnce
PROPERTIES ChangesProveThePassword
SYMMETRY Symmetry
