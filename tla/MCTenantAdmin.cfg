SPECIFICATION Spec
CONSTANTS
    olga = olga
    adam = adam
    vera = vera
    uma = uma
    i1 = i1
    Users = {olga, adam, vera, uma}
    Teams = {t1, t2}
    Invitations = {i1, i2}
    Connections = {c1, c2}
    Keys = {k1, k2}
    Operations = {"member_change", "role_change", "transfer", "teams_assign",
                  "team_create", "team_change", "invite_create",
                  "invite_resend", "invite_revoke", "invite_accept"}
    Seats = 3
    Verified = {olga, adam, uma}
    StartMember <- MCMember
    StartInvitation <- MCInvitation
    StartTeams = {t1}
INVARIANTS TypeOK OneActiveOwner SeatLimitRespected AppliedOnce
PROPERTIES MembershipsChangeByRight
CONSTRAINT OneFamily
SYMMETRY Symmetry
