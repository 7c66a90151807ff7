------------------------- MODULE CustomerDirectory -------------------------
(***************************************************************************)
(* What the directory of companies and contacts promises to the forms and  *)
(* pages: a record changes all at once and one version at a time, because  *)
(* of a command that was not carried out before, and the member whose      *)
(* command it is manages records at that moment; it is assigned to who is  *)
(* active and linked to a company that is active at that moment; a new     *)
(* parent does not lead back to its company; addresses and affiliations    *)
(* are those of the record.  There are no requests, walks or locks here.   *)
(***************************************************************************)
EXTENDS Naturals

CONSTANTS Members, Owner, Companies, Contacts, Teams, None, Start, MemberStates,
          Keys, Client  \* one key per command, and whose command it is

Records == Companies \cup Contacts

VARIABLES row,        \* the records, each with its version
          addresses,  \* under which a record is found first
          affiliated, \* the companies a contact works for
          teams, member,
          done        \* the commands carried out

vars == <<row, addresses, affiliated, teams, member, done>>

Link(c) == {c} \ {None}
Addresses == [x \in Records |-> Link(row[x].mail)]
Employers == [p \in Contacts |-> Link(row[p].link)]

Init == /\ row = [x \in Records |-> Start[x]]
        /\ addresses = Addresses /\ affiliated = Employers
        /\ teams = [x \in Records |-> {}]
        /\ member = [m \in Members |->
                       [active |-> TRUE, role |-> IF m = Owner THEN "owner" ELSE "admin"]]
        /\ done = {}

Manages(m) == member[m].active /\ member[m].role \in {"owner", "admin"}

\* A command is carried out, once, with the right its member has by now.
CarriesOut(k) == /\ k \notin done /\ Manages(Client[k])
                 /\ done' = done \cup {k}

\* Record x gets its new row and the teams T.
Becomes(x, T) == /\ row' = [row EXCEPT ![x] = row'[x]]
                 /\ teams' = [teams EXCEPT ![x] = T]
                 /\ addresses' = Addresses' /\ affiliated' = Employers'
                 /\ UNCHANGED member

\* Who is responsible, and the company linked to, can be so.
Assignable(m) == \A a \in Link(m) : member[a].active
Linkable(c) == c = None \/ (c \in Companies /\ row[c].life = "active")

\* From company c upwards one does not come to x.
Closed(S) == \A c \in S : Link(row[c].link) \subseteq S
Apart(x, c) == c = None \/ \E S \in SUBSET Companies : c \in S /\ x \notin S /\ Closed(S)

Create(x) == LET new == row'[x] IN
    /\ row[x].life = "absent" /\ new.life = "active" /\ new.version = 1
    /\ Assignable(new.responsible) /\ Linkable(new.link)
    /\ \E T \in SUBSET Teams : Becomes(x, T)

Edit(x) == LET old == row[x]
               new == row'[x] IN
    /\ old.life = "active" /\ new.life = "active" /\ new.version = old.version + 1
    /\ Assignable(new.responsible)
    /\ new.link # old.link => x \in Companies /\ Linkable(new.link) /\ Apart(x, new.link)
    /\ \E T \in SUBSET Teams : Becomes(x, T)

Employ(p) == \E c \in Companies \cup {None} :
    /\ row[p].life = "active" /\ Linkable(c)
    /\ row'[p] = [row[p] EXCEPT !.link = c, !.version = @ + 1]
    /\ Becomes(p, teams[p])

Turn(x, from, to) ==
    /\ row[x].life = from
    /\ row'[x] = [row[x] EXCEPT !.life = to, !.version = @ + 1]
    /\ Becomes(x, teams[x])

Archive(x) == Turn(x, "active", "archived")
Restore(x) == Turn(x, "archived", "active")

MemberChanges(m) ==
    /\ m # Owner
    /\ \E new \in MemberStates : member' = [member EXCEPT ![m] = new]
    /\ UNCHANGED <<row, addresses, affiliated, teams, done>>

Changes == \/ \E x \in Records : Create(x) \/ Edit(x) \/ Archive(x) \/ Restore(x)
           \/ \E p \in Contacts : Employ(p)

\* Nothing changes but as some command is carried out.
Next == \/ (\E k \in Keys : CarriesOut(k)) /\ Changes
        \/ \E m \in Members : MemberChanges(m)

Spec == Init /\ [][Next]_vars
=============================================================================
