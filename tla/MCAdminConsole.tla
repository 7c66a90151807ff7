--------------------------- MODULE MCAdminConsole ---------------------------
(* Small instances of AdminConsole: an owner and an administrator, either  *)
(* of whom has the page open, a third member, a team and one to be created,*)
(* and an invitation that is open or has lapsed.                           *)
EXTENDS AdminConsole

CONSTANTS olga, adam, mia, t1, t2, a1, a2, i1, i2, i3

Row(role, status, teams) == [role |-> role, status |-> status, teams |-> teams, version |-> 1]

MCStart(owner, admin, status, lapsed) ==
    [member |-> [m \in Members |-> CASE m = owner -> Row("owner", "active", {})
                                     [] m = admin -> Row("admin", "active", {})
                                     [] OTHER -> Row("member", status, {t1})],
     team |-> [t \in Teams |-> [status |-> IF t = t1 THEN "active" ELSE "absent",
                                version |-> IF t = t1 THEN 1 ELSE 0]],
     invitation |-> [i \in Invitations |->
        [status |-> IF i = i1 THEN "pending" ELSE "absent", address |-> a1, role |-> "member",
         version |-> IF i = i1 THEN 1 ELSE 0, lapsed |-> (i = i1 /\ lapsed), cooling |-> FALSE]]]

MCStarts == {MCStart(olga, adam, "active", FALSE), MCStart(adam, olga, "suspended", TRUE)}

MCMaxClicks == [p \in Pages |-> IF p \in {"invitations", "transfer"} THEN 3 ELSE 2]

(* One draft is given teams; the boxes of two people are ticked or cleared,*)
(* those of the new team only by adding one.                               *)
Short == /\ \A d \in DOMAIN drafts : drafts[d].teams # {} => d = 1
         /\ Cardinality(dirty[t1]) + 2 * Cardinality(dirty[t2]) <= 2
=============================================================================
