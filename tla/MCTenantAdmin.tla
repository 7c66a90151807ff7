--------------------------- MODULE MCTenantAdmin ---------------------------
(***************************************************************************)
(* Small instances of TenantAdmin: an owner, an administrator, a suspended *)
(* member and a fourth user with an invitation, and one seat that is free. *)
(***************************************************************************)
EXTENDS TenantAdmin, TLC

CONSTANTS olga, adam, vera, uma, i1

Row(status, role, version) ==
    [status |-> status, role |-> role, version |-> version, teams |-> {}]

MCMember == [u \in Users |->
    CASE u = olga -> Row("active", "owner", 1)
      [] u = adam -> Row("active", "admin", 1)
      [] u = vera -> Row("suspended", "member", 2)
      [] u = uma -> Row("absent", "member", 0)]

MCInvitation == [i \in Invitations |->
    [status |-> IF i = i1 THEN "pending" ELSE "absent",
     email |-> uma, role |-> "member", teams |-> StartTeams,
     generation |-> IF i = i1 THEN 1 ELSE 0,
     version |-> IF i = i1 THEN 1 ELSE 0,
     lapsed |-> FALSE, cooling |-> FALSE]]

MemberOperations == {"member_change", "role_change", "transfer", "teams_assign",
                     "team_create", "team_change", "invite_accept"}
InvitationOperations == {"invite_create", "invite_resend", "invite_revoke",
                         "invite_accept", "team_change"}

\* Bound: the commands of a behaviour are of one of these two families.
OneFamily == LET used == {command[k].op : k \in Keys} \ {"none"}
             IN  used \subseteq MemberOperations \/ used \subseteq InvitationOperations

Symmetry == Permutations(Connections) \cup Permutations(Keys)
=============================================================================
