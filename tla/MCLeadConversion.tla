-------------------------- MODULE MCLeadConversion --------------------------
(***************************************************************************)
(* Small instances of LeadConversion: the workspace's owner, a member who  *)
(* owns the lead, one company of the inquiry's name and one still to come. *)
(***************************************************************************)
EXTENDS LeadConversion, TLC

CONSTANTS olga, mia, c0, c1, k1, k2

\* Each of the two sends one command.
MCClient == [k \in Keys |-> IF k = k1 THEN olga ELSE mia]

MCCompany == [c \in Companies |->
    IF c = c0 THEN [status |-> "active", version |-> 1]
    ELSE [status |-> "absent", version |-> 0]]

\* The lead is qualified; its review is pending, or linked it to the company.
MCStarts ==
    {[lead |-> [lifecycle |-> "qualified", version |-> 3, owner |-> mia, company |-> c],
      review |-> [state |-> IF c = c0 THEN "resolved" ELSE "pending",
                  version |-> 1, company |-> c]] : c \in {c0, "none"}}

\* mia is suspended and restored.
MCMemberStates == [active : BOOLEAN, role : {"member"}]

Symmetry == Permutations(Requests)
=============================================================================
