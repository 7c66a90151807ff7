-------------------------- MODULE MCWorkspaceEntry --------------------------
EXTENDS WorkspaceEntry
CONSTANTS p1, p2, p3, growth, scale, w1, w2, w3, l1, l2, i1, i2, t1, t2

MCPeople == {p1, p2, p3}
MCPlans == {growth, scale}
MCWorkspaces == {w1, w2, w3}
MCInvitations == {i1, i2}

Founder(w) == [status |-> "active", plan |-> growth, workspace |-> w]
Free == [by |-> None, plan |-> None]
Nobody == [p \in MCPeople |-> "none"]
Invites(w, p, s) == [to |-> w, of |-> p, status |-> s]

\* p3 has the workspace w2 and invites p1, who has no account yet, and p2.
Newcomer ==
    [account |-> (p1 :> [status |-> "absent", plan |-> None, workspace |-> None]
                  @@ p2 :> Founder(None) @@ p3 :> Founder(w2)),
     workspace |-> (w1 :> Free @@ w2 :> [by |-> p3, plan |-> growth] @@ w3 :> Free),
     member |-> (w1 :> Nobody @@ w2 :> [Nobody EXCEPT ![p3] = "active"] @@ w3 :> Nobody),
     invitation |-> (i1 :> Invites(w2, p1, "pending") @@ i2 :> Invites(w2, p2, "pending")),
     user |-> None, active |-> None]

\* p1 is verified, has a plan and no workspace yet.
Beginner ==
    [Newcomer EXCEPT !.account[p1] = Founder(None), !.user = p1]

\* p1 came by an invitation to a workspace that has no seat left, and has no
\* plan.
Undecided ==
    [Beginner EXCEPT !.account[p1].plan = None, !.account[p3] = Founder(w3),
                     !.workspace = (w1 :> Free @@ w2 :> Free @@ w3 :> [by |-> p3, plan |-> growth]),
                     !.member = (w1 :> Nobody @@ w2 :> Nobody @@ w3 :> [Nobody EXCEPT ![p3] = "active"]),
                     !.invitation = (i1 :> Invites(w3, p1, "pending") @@ i2 :> Invites(w3, p1, "revoked"))]

\* p1 belongs to two workspaces and has invited p2 to the one it created.
Member ==
    [Newcomer EXCEPT !.account[p1] = Founder(w1), !.workspace[w1] = [by |-> p1, plan |-> growth],
                     !.member[w1][p1] = "active", !.member[w2][p1] = "active",
                     !.invitation = (i1 :> Invites(w2, p1, "accepted") @@ i2 :> Invites(w1, p2, "pending")),
                     !.user = p1, !.active = w1]

MCStarts == {Newcomer, Beginner, Undecided, Member}
MCSeats == (w1 :> 2 @@ w2 :> 2 @@ w3 :> 1)
MCSymmetry == Permutations({t1, t2}) \cup Permutations({l1, l2})
=============================================================================
