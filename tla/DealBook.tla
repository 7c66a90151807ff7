------------------------------ MODULE DealBook ------------------------------
(***************************************************************************)
(* What the deals of a workspace promise to the boards, to the pages of    *)
(* the leads and to who works with them: a change is made all at once, to  *)
(* the deal as it is, because of a command whose member has the right to   *)
(* it at that moment, and once for a command, unless it opens a deal; a    *)
(* deal that is won or lost keeps its stage; every stage it got is in its  *)
(* history, with the version it got it at; and a lead that was converted   *)
(* has the outcome of its deal.  There are no requests, locks or stored    *)
(* outcomes here, and no version that a change could miss.                 *)
(***************************************************************************)
EXTENDS Naturals, Sequences

CONSTANTS Members, Owner, Companies, Deals, Stages, Class, Start, Converted, MemberStates, None,
          Keys, Client  \* one key per command, and whose command it is

VARIABLES deal,     \* the deals, each with its customer and its version
          history,  \* the stages a deal got, with where it came from
          outcome,  \* of the leads, named by their deals
          carried,  \* how often each command was carried out
          company, member

book == <<deal, history, outcome, carried>>
others == <<company, member>>
vars == <<book, others>>

Outcomes == [d \in Converted |-> Class[deal[d].stage]]
Active(d) == deal[d].life = "active"

Manages(a) == member[a].active /\ member[a].role \in {"owner", "admin"}
Advances(a, d) == Manages(a) \/ (member[a].active /\ deal[d].responsible = a)

Entry(s, t, v) == [from |-> s, to |-> t, version |-> v]

Init == /\ deal = Start
        /\ history = [d \in Deals |-> IF Start[d].life = "absent" THEN << >>
                                      ELSE <<Entry(None, Start[d].stage, 1)>>]
        /\ outcome = Outcomes
        /\ carried = [k \in Keys |-> 0]
        /\ company = [c \in Companies |-> "active"]
        /\ member = [m \in Members |->
                       [active |-> TRUE, role |-> IF m = Owner THEN "owner" ELSE "member"]]

CarriesOut(k) == carried' = [carried EXCEPT ![k] = @ + 1] /\ UNCHANGED others

\* Deal d becomes the row, and its lead follows.
Becomes(d, row) == deal' = [deal EXCEPT ![d] = row] /\ outcome' = Outcomes'

Changes(k, d, row) == /\ carried[k] = 0
                      /\ Becomes(d, [row EXCEPT !.version = deal[d].version + 1])

Notes(d, entry) == history' = [history EXCEPT ![d] = Append(@, entry)]

Available(c, m) == company[c] = "active" /\ member[m].active

Open(k, d, s, c, m) ==
    /\ Manages(Client[k])
    /\ deal[d].life = "absent" /\ Class[s] = "open" /\ Available(c, m)
    /\ Becomes(d, [life |-> "active", stage |-> s, version |-> 1, company |-> c,
                   responsible |-> m])
    /\ Notes(d, Entry(None, s, 1))

Assign(k, d, c, m) ==
    /\ Manages(Client[k])
    /\ Active(d) /\ Available(c, m)
    /\ Changes(k, d, [deal[d] EXCEPT !.company = c, !.responsible = m])
    /\ UNCHANGED history

Advance(k, d, s) ==
    /\ Advances(Client[k], d)
    /\ Active(d) /\ Class[deal[d].stage] = "open" /\ s # deal[d].stage
    /\ Changes(k, d, [deal[d] EXCEPT !.stage = s])
    /\ Notes(d, Entry(deal[d].stage, s, deal[d].version + 1))

Shelve(k, d) ==
    /\ Manages(Client[k])
    /\ Active(d) /\ Changes(k, d, [deal[d] EXCEPT !.life = "archived"])
    /\ UNCHANGED history

Restore(k, d) ==
    /\ Manages(Client[k])
    /\ deal[d].life = "archived" /\ Changes(k, d, [deal[d] EXCEPT !.life = "active"])
    /\ UNCHANGED history

MemberChanges(m) ==
    /\ m # Owner
    /\ \E row \in MemberStates : member' = [member EXCEPT ![m] = row]
    /\ UNCHANGED <<book, company>>

CompanyChanges(c) ==
    /\ company' = [company EXCEPT ![c] = IF @ = "active" THEN "archived" ELSE "active"]
    /\ UNCHANGED <<book, member>>

Commands(k, d) ==
    \/ \E s \in Stages, c \in Companies, m \in Members : Open(k, d, s, c, m)
    \/ \E c \in Companies, m \in Members : Assign(k, d, c, m)
    \/ \E s \in Stages : Advance(k, d, s)
    \/ Shelve(k, d) \/ Restore(k, d)

Next == \/ \E k \in Keys : CarriesOut(k) /\ \E d \in Deals : Commands(k, d)
        \/ \E m \in Members : MemberChanges(m)
        \/ \E c \in Companies : CompanyChanges(c)

Spec == Init /\ [][Next]_vars
=============================================================================
