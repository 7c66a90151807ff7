-------------------------- MODULE MCCustomerGraph --------------------------
(***************************************************************************)
(* A small instance of CustomerGraph: two managers, four companies of     *)
(* which one is above another, and two contacts.                           *)
(***************************************************************************)
EXTENDS CustomerGraph, TLC

CONSTANTS olga, adam, c1, c2, c3, c4, p1, p2, k1, k2, sales

MCTeamOf == [m \in Members |-> {sales}]

\* Each of the two sends one command.
MCClient == [k \in Keys |-> IF k = k1 THEN olga ELSE adam]

MCOperations == [k \in Keys |-> {"editCompany"} \cup
    IF k = k1 THEN {"createCompany", "createContact", "editContact", "affiliate", "restore"}
              ELSE {"archive"}]

Company(parent, mail) ==
    [NoRecord EXCEPT !.life = "active", !.version = 1, !.link = parent, !.mail = mail]

\* c2 belongs to c3, and p1 works for c1.
MCStart == [x \in Records |->
    CASE x = c1 -> Company(None, "a")
      [] x = c2 -> Company(c3, None)
      [] x = c3 -> Company(None, None)
      [] x = c4 -> NoRecord
      [] x = p1 -> [NoRecord EXCEPT !.life = "active", !.version = 1, !.link = c1,
                                    !.mail = "a", !.phone = "1"]
      [] x = p2 -> NoRecord]

Content(profile, link, mail, secondary, phone, responsible, T) ==
    [profile |-> profile, link |-> link, mail |-> mail, secondary |-> secondary,
     phone |-> phone, responsible |-> responsible, teams |-> T]

MCContents == {Content(TRUE, c1, "a", None, None, adam, {}),
               Content(TRUE, c2, None, None, None, None, {}),
               Content(FALSE, None, "b", None, None, None, {}),
               Content(TRUE, None, "b", "a", "1", adam, {sales})}

\* adam is suspended.
MCMemberStates == [active : {FALSE}, role : {"admin"}]

Symmetry == Permutations(Requests)
=============================================================================
