---------------------------- MODULE MCLeadIntake ----------------------------
(***************************************************************************)
(* A small instance of LeadIntake: two leads under review, of persons that *)
(* share a mark with each other and with a contact each, and room for more.*)
(***************************************************************************)
EXTENDS LeadIntake, TLC

CONSTANTS olga, mia, c1, c2, c3, c4, l1, l2, l3, l4, k1, k2, e, p, q

\* Each of the two sends one command.
MCClient == [k \in Keys |-> IF k = k1 THEN olga ELSE mia]

MCOperations == [k \in Keys |->
    IF k = k1 THEN {"resolve", "create", "edit"} ELSE {"resolve", "hold", "inquiry"}]

\* The owner fills in a form and decides about its lead.
MCOwner == [k \in Keys |-> olga]

MCForms == [k \in Keys |-> IF k = k1 THEN {"create"} ELSE {"resolve"}]

MCContacts == [c \in Contacts |-> CASE c = c1 -> {p} [] c = c2 -> {q} [] OTHER -> {}]

MCLeads == [l \in Leads |-> CASE l = l1 -> {e, p} [] l = l2 -> {e, q} [] OTHER -> {}]

Symmetry == Permutations(Requests) \cup Permutations({c3, c4}) \cup Permutations({l3, l4})
=============================================================================
