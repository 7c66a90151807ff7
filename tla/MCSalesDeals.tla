---------------------------- MODULE MCSalesDeals ----------------------------
(***************************************************************************)
(* A small instance of SalesDeals: the workspace's owner, the member who   *)
(* is responsible for a deal that a conversion has made, and room for one  *)
(* deal more.                                                              *)
(***************************************************************************)
EXTENDS SalesDeals, TLC

CONSTANTS olga, mia, c1, d1, d2, k1, k2

\* Each of the two sends one command.
MCClient == [k \in Keys |-> IF k = k1 THEN olga ELSE mia]

MCClass == [proposal |-> "open", negotiation |-> "open", won |-> "won", lost |-> "lost"]

MCStart == [d \in Deals |->
    IF d = d1 THEN [life |-> "active", stage |-> "proposal", version |-> 1,
                    company |-> c1, responsible |-> mia]
    ELSE NoDeal]

\* mia is suspended, restored and made an administrator.
MCMemberStates == [active : {TRUE}, role : {"member", "admin"}]
                    \cup [active : {FALSE}, role : {"member"}]

Symmetry == Permutations(Requests)
=============================================================================
