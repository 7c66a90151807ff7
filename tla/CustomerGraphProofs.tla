------------------------ MODULE CustomerGraphProofs ------------------------
(***************************************************************************)
(* Proofs about CustomerGraph, for any members, companies and contacts,    *)
(* commands, requests and pages.                                           *)
(*                                                                         *)
(* Knows says what a request that got so far in its plan has read and is   *)
(* still so: the row of its record, and the parents of all companies above *)
(* the one it links to, because it holds the locks of these rows.  The     *)
(* updates therefore find the version they ask for, the rows of different  *)
(* tables change together, and what is above the new parent at the commit  *)
(* is what was compared before.  Every change of a record raises its       *)
(* version, so that a page whose version is still that of the row has read *)
(* nothing older and nothing newer.                                        *)
(*                                                                         *)
(* Vouches says the same of the key, of the members and of the company it  *)
(* links to: at its commit the command is not yet carried out, and the     *)
(* member who sent it still manages records.  With that every commit is a  *)
(* step of CustomerDirectory.                                              *)
(***************************************************************************)
EXTENDS CustomerGraph, SequenceTheorems, TLAPS

Ops == {"createCompany", "createContact", "editCompany", "editContact", "affiliate",
        "archive", "restore"}

\* Commands of the clients, whatever the contents.
Commands ==
    {in \in [op : Ops, actor : Members, record : Records \cup {None}, version : Nat,
             profile : BOOLEAN, link : Companies \cup {None}, linkVersion : Nat,
             mail : Mails \cup {None}, secondary : Mails \cup {None},
             phone : Phones \cup {None}, responsible : Members \cup {None},
             teams : SUBSET Teams] :
       /\ in.op \in {"createCompany", "createContact"} <=> in.record = None
       /\ in.op = "editCompany" => in.record \in Companies
       /\ in.op \in {"editContact", "affiliate"} => in.record \in Contacts
       /\ in.op \in {"createCompany", "editCompany"} => in.phone = None
       /\ in.op \in {"editContact", "archive", "restore"} => in.link = None
       /\ ~in.profile /\ in.op = "editCompany" => in.link = None}

\* The parents a walk has noted.
Walks == UNION {[S -> Companies \cup {None}] : S \in SUBSET Companies}

SeenRows == [receipt : BOOLEAN, row : ContactRows, responsible : BOOLEAN, walked : Walks,
             linked : BOOLEAN, member : MemberRows]

PageTypes ==
    [phase : {"idle", "listed", "opened", "detailed", "fenced", "filled", "list", "detail"},
     reader : Members \cup {None}, rows : UNION {[S -> ContactRows] : S \in SUBSET Records},
     teams : SUBSET Teams, affiliated : SUBSET Companies]

RowsTyped ==
    /\ \A x \in Records : row[x] \in IF x \in Companies THEN CompanyRows ELSE ContactRows
    /\ row = [x \in Records |-> row[x]]
    /\ points \in [Records -> SUBSET Points]
    /\ affiliated \in [Contacts -> SUBSET Companies]
    /\ teams \in [Records -> SUBSET Teams]
    /\ member \in [Members -> MemberRows]
    /\ receipts \subseteq Keys

LocalTyped ==
    /\ request \in [Requests -> Keys \cup {None}]
    /\ step \in [Requests -> 0 .. 7]
    /\ held = [r \in Requests |-> held[r]]
    /\ seen \in [Requests -> SeenRows]
    /\ \A r \in Requests : ~Running(r) => held[r] = {} /\ seen[r] = NothingSeen

SentTyped == sent \in [Keys -> Commands \cup {NoCommand}]

PagesTyped == page \in [Pages -> PageTypes]

OneHolder == \A r, q \in Requests : r # q => held[r] \cap held[q] = {}

\* The walk met all companies above the new parent, and not the company.
WalkedUp(walk, x) == /\ x \notin DOMAIN walk
                     /\ \A c \in DOMAIN walk : Link(walk[c]) \subseteq DOMAIN walk

\* What request r has read and is still so.
Knows(r) ==
    Running(r) =>
      LET in == Cmd(r)
          got == seen[r] IN
      /\ in # NoCommand /\ step[r] > 0
      /\ ~got.receipt /\ step[r] > 2 /\ in.record # None
           => <<"record", in.record>> \in held[r] /\ got.row = row[in.record]
      /\ ~got.receipt /\ in.op = "editCompany" /\ in.link # None =>
           /\ step[r] > 4 => WalkedUp(got.walked, in.record)
           /\ step[r] > 5 /\ got.linked =>
                /\ in.link \in DOMAIN got.walked
                /\ \A c \in DOMAIN got.walked :
                     /\ <<"record", c>> \in held[r]
                     /\ row[c].life = "active" /\ row[c].link = got.walked[c]

\* Commands name records that are there.
SentSound == \A k \in Keys :
    sent[k] # NoCommand =>
      /\ sent[k].record # None => row[sent[k].record].life # "absent"
      /\ sent[k].link # None => row[sent[k].link].life # "absent"

\* No row refers to a company that is not there.
RowsSound == \A x \in Records :
    /\ row[x].life = "absent" => row[x] = NoRecord
    /\ \A c \in Link(row[x].link) : row[c].life # "absent"

\* The secondary address of a contact is not its primary one as well.
SecondaryApart == \A x \in Records : \A q \in points[x] :
    q.usage = "email_secondary" => ~q.primary

\* A page has the version of a record of now or before, and with the version
\* of now the rows of now.
Reads(v, x) ==
    LET read == page[v].rows[x] IN
    /\ read.version <= row[x].version
    /\ read.version = row[x].version =>
         /\ read = row[x]
         /\ page[v].phase \in {"detailed", "fenced", "filled", "detail"}
              => page[v].teams = teams[x]
         /\ page[v].phase = "detail" /\ x \in Contacts => page[v].affiliated = affiliated[x]

PagesSound == \A v \in Pages :
    /\ page[v].phase \in {"opened", "detailed", "fenced", "filled", "detail"}
         => \E x \in Records : OnPage(v) = {x}
    /\ \A x \in OnPage(v) : Reads(v, x) /\ row[x].life # "absent"

IInv == /\ RowsTyped /\ LocalTyped /\ SentTyped /\ PagesTyped
        /\ OneHolder
        /\ \A r \in Requests : Knows(r)
        /\ SentSound /\ RowsSound /\ SecondaryApart /\ PagesSound
        /\ RowsAgree /\ NoParentCycle
-----------------------------------------------------------------------------
(* The companies above a company. *)

LEMMA LinkParts == \A c : (c = None => Link(c) = {}) /\ (c # None => Link(c) = {c})
  BY DEF Link

\* What is above a company is closed upwards and lies in every such set.
LEMMA AboveParts ==
    ASSUME NEW c \in Companies, NEW rows,
           \A d \in Companies : rows[d].link \in Companies \cup {None}
    PROVE  /\ c \in Above(c, rows) /\ Above(c, rows) \subseteq Companies
           /\ Closed(Above(c, rows), rows)
           /\ \A S \in SUBSET Companies :
                c \in S /\ Closed(S, rows) => Above(c, rows) \subseteq S
<1>1. \A d : d \in Above(c, rows) <=>
        /\ d \in Companies
        /\ \A S \in SUBSET Companies : c \in S /\ Closed(S, rows) => d \in S
  BY DEF Above
<1>2. ASSUME NEW d \in Above(c, rows), NEW e \in Link(rows[d].link)
      PROVE  e \in Above(c, rows)
  <2>1. d \in Companies /\ e \in Companies
    BY <1>1, <1>2, LinkParts
  <2>2. ASSUME NEW S \in SUBSET Companies, c \in S, Closed(S, rows)
        PROVE  e \in S
    <3>1. d \in S
      BY <1>1, <1>2, <2>2
    <3> QED BY <1>2, <2>2, <3>1 DEF Closed
  <2> QED BY <1>1, <2>1, <2>2
<1>3. Closed(Above(c, rows), rows)
  BY <1>2 DEF Closed
<1> QED BY <1>1, <1>3

\* A company gets a parent from a set that is closed upwards without it: no
\* circle is closed.
LEMMA NoNewCycle ==
    ASSUME NEW rows, NEW new, NEW x \in Companies, NEW S \in SUBSET Companies,
           \A c \in Companies : /\ rows[c].link \in Companies \cup {None}
                                /\ new[c].link \in Companies \cup {None}
                                /\ c # x => new[c].link = rows[c].link,
           \A c \in Companies : rows[c].link # None => c \notin Above(rows[c].link, rows),
           Closed(S, rows), x \notin S, Link(new[x].link) \subseteq S
    PROVE  \A c \in Companies : new[c].link # None => c \notin Above(new[c].link, new)
<1> SUFFICES ASSUME NEW c \in Companies, new[c].link # None
             PROVE  c \notin Above(new[c].link, new)
  OBVIOUS
<1> DEFINE p == new[c].link
<1>1. p \in Companies
  OBVIOUS
<1>2. \A T \in SUBSET Companies : p \in T /\ Closed(T, new) => Above(p, new) \subseteq T
  BY <1>1, AboveParts
<1>3. Closed(S, new)
  BY DEF Closed
<1>4. CASE c = x
  BY <1>2, <1>3, <1>4, LinkParts
<1>5. CASE c # x
  <2>1. p = rows[c].link /\ c \notin Above(p, rows)
    BY <1>5
  <2>2. /\ p \in Above(p, rows) /\ Above(p, rows) \subseteq Companies
        /\ Closed(Above(p, rows), rows)
        /\ \A T \in SUBSET Companies : p \in T /\ Closed(T, rows) => Above(p, rows) \subseteq T
    BY <1>1, AboveParts
  <2> DEFINE A == Above(p, rows)
  <2> HIDE DEF p, A
  <2>3. CASE c \in S
    <3>1. p \in S
      BY <2>1, <2>3, LinkParts DEF Closed, p
    <3>2. A \subseteq S /\ x \notin A
      BY <2>2, <3>1 DEF A
    <3>3. Closed(A, new)
      BY <2>2, <3>2 DEF Closed, A
    <3> QED BY <1>2, <2>1, <2>2, <3>3 DEF A, p
  <2>4. CASE c \notin S
    <3>1. Closed(A \cup S, new)
      <4>1. ASSUME NEW d \in A, d # x
            PROVE  Link(new[d].link) \subseteq A
        BY <2>2, <4>1 DEF Closed, A
      <4> QED BY <1>3, <4>1 DEF Closed
    <3>2. c \notin A \cup S /\ p \in A \cup S /\ A \cup S \in SUBSET Companies
      BY <2>1, <2>2, <2>4 DEF A
    <3> QED BY <1>2, <3>1, <3>2 DEF p
  <2> QED BY <2>3, <2>4
<1> QED BY <1>4, <1>5
-----------------------------------------------------------------------------
(* Commands and their plans. *)

\* Rows of both kinds, as one type.
LEMMA RowParts ==
    ASSUME RowsTyped, NEW x \in Records
    PROVE  /\ row[x] \in ContactRows
           /\ x \in Companies => row[x] \in CompanyRows
           /\ row[x].life \in Lives /\ row[x].version \in Nat
           /\ row[x].link \in Companies \cup {None}
  BY DEF RowsTyped, CompanyRows, ContactRows, Records

LEMMA OfferedParts ==
    ASSUME RowsTyped, NEW op \in Ops, NEW m \in Members, NEW in \in Offered(op, m)
    PROVE  /\ in \in Commands
           /\ in.record # None => row[in.record].life # "absent"
           /\ in.link # None => row[in.link].life # "absent"
<1> DEFINE targets == IF op \in {"createCompany", "createContact"} THEN {None} ELSE Targets(op)
<1>1. PICK x \in targets : \E f \in Fields(op, x) : in = Command(op, m, x, f)
  BY DEF Offered
<1>2. PICK f \in Fields(op, x) : in = Command(op, m, x, f)
  BY <1>1
<1>3. /\ x = None <=> op \in {"createCompany", "createContact"}
      /\ x # None => x \in Records /\ row[x].life # "absent"
      /\ op = "editCompany" => x \in Companies
      /\ op \in {"editContact", "affiliate"} => x \in Contacts
  <2>1. CASE op \in {"createCompany", "createContact"}
    BY <1>1, <2>1
  <2>2. CASE op \notin {"createCompany", "createContact"}
    <3>1. x \in Targets(op)
      BY <1>1, <2>2
    <3>2. x \in Records
      BY <3>1 DEF Targets
    <3>3. CASE op = "editCompany"
      BY <3>1, <3>2, <3>3, GraphAssumption DEF Targets
    <3>4. CASE op = "editContact"
      BY <3>1, <3>2, <3>4, GraphAssumption DEF Targets
    <3>5. CASE op = "affiliate"
      BY <3>1, <3>2, <3>5, GraphAssumption DEF Targets
    <3>6. CASE op = "archive"
      BY <3>1, <3>2, <3>6, GraphAssumption DEF Targets
    <3>7. CASE op = "restore"
      BY <3>1, <3>2, <3>7, GraphAssumption DEF Targets
    <3> QED BY <2>2, <3>3, <3>4, <3>5, <3>6, <3>7 DEF Ops
  <2> QED BY <2>1, <2>2
<1> HIDE DEF targets
<1>4. /\ f \in [profile : BOOLEAN, link : Companies \cup {None}, mail : Mails \cup {None},
                secondary : Mails \cup {None}, phone : Phones \cup {None},
                responsible : Members \cup {None}, teams : SUBSET Teams]
      /\ f.link # None => row[f.link].life # "absent"
      /\ op \in {"createCompany", "editCompany"} => f.phone = None
      /\ op \in {"editContact", "archive", "restore"} => f.link = None
      /\ ~f.profile /\ op = "editCompany" => f.link = None
  <2>1. CASE op \in {"archive", "restore"}
    <3>1. f = Unwritten
      BY <2>1 DEF Fields
    <3> QED BY <2>1, <3>1 DEF Unwritten
  <2>2. CASE op = "affiliate"
    <3>1. PICK c \in Selectable(x) \cup {None} : f = [Unwritten EXCEPT !.link = c]
      BY <2>2 DEF Fields
    <3>2. /\ c \in Companies \cup {None} /\ (c # None => row[c].life = "active")
          /\ f = [profile |-> FALSE, link |-> c, mail |-> None, secondary |-> None,
                  phone |-> None, responsible |-> None, teams |-> {}]
      BY <3>1 DEF Selectable, Unwritten
    <3> QED BY <2>2, <3>2
  <2>3. CASE op \in {"createCompany", "createContact", "editCompany", "editContact"}
    <3>1. f \in Contents /\ Fits(op, x, f)
      BY <2>3 DEF Fields
    <3>2. f.link # None => row[f.link].life = "active"
      BY <3>1 DEF Fits, Selectable
    <3> QED BY <2>3, <3>1, <3>2, GraphAssumption DEF Fits
  <2> QED BY <2>1, <2>2, <2>3 DEF Ops
<1>5. /\ x # None => row[x].version \in Nat
      /\ f.link # None => row[f.link].version \in Nat
  BY <1>3, <1>4, RowParts DEF Records
<1>6. in = [op |-> op, actor |-> m, record |-> x,
            version |-> IF x = None THEN 0 ELSE row[x].version,
            profile |-> f.profile, link |-> f.link,
            linkVersion |-> IF f.link = None THEN 0 ELSE row[f.link].version,
            mail |-> f.mail, secondary |-> f.secondary, phone |-> f.phone,
            responsible |-> f.responsible, teams |-> f.teams]
  BY <1>2 DEF Command
<1>7. in \in Commands
  BY <1>3, <1>4, <1>5, <1>6 DEF Commands
<1> QED BY <1>3, <1>4, <1>6, <1>7

LEMMA CommandParts ==
    ASSUME NEW in \in Commands
    PROVE  /\ in.op \in Ops /\ in.actor \in Members /\ in.version \in Nat
           /\ in.record \in Records \cup {None} /\ in.link \in Companies \cup {None}
           /\ in.mail \in Mails \cup {None} /\ in.secondary \in Mails \cup {None}
           /\ in.phone \in Phones \cup {None} /\ in.responsible \in Members \cup {None}
           /\ in.teams \in SUBSET Teams /\ in.profile \in BOOLEAN
           /\ in.op \in {"createCompany", "createContact"} <=> in.record = None
           /\ in.op = "editCompany" => in.record \in Companies
           /\ in.op \in {"editContact", "affiliate"} => in.record \in Contacts
           /\ in.op \in {"createCompany", "editCompany"} => in.phone = None
           /\ in.op \in {"editContact", "archive", "restore"} => in.link = None
           /\ ~in.profile /\ in.op = "editCompany" => in.link = None
  BY DEF Commands

\* A running request has a command of its key, which names records that are there.
LEMMA Busy ==
    ASSUME LocalTyped, SentTyped, SentSound, NEW r \in Requests, Running(r), Knows(r)
    PROVE  /\ request[r] \in Keys /\ Cmd(r) \in Commands
           /\ step[r] \in 1 .. 7
           /\ Cmd(r).record # None =>
                Cmd(r).record \in Records /\ row[Cmd(r).record].life # "absent"
           /\ Cmd(r).link # None => Cmd(r).link \in Companies /\ row[Cmd(r).link].life # "absent"
<1>1. request[r] \in Keys /\ Cmd(r) \in Commands /\ step[r] \in 1 .. 7
  BY DEF LocalTyped, SentTyped, Running, Knows, Cmd
<1>2. Cmd(r) # NoCommand
  BY DEF Knows
<1> QED BY <1>1, <1>2, CommandParts DEF SentSound, Cmd

LockNames == {"key", "record", "assignment", "hierarchy", "ancestors", "company", "actor"}

\* Locks of the links between those before and those of the actor.
LEMMA Joined ==
    ASSUME NEW s \in Seq(LockNames), NEW t \in Seq(LockNames)
    PROVE  LET p == s \o t \o <<"actor">> IN
           /\ p \in Seq(LockNames) /\ Len(p) = Len(s) + Len(t) + 1
           /\ \A i \in 1 .. Len(s) : p[i] = s[i]
           /\ \A i \in 1 .. Len(t) : p[Len(s) + i] = t[i]
           /\ p[Len(s) + Len(t) + 1] = "actor"
<1> DEFINE u == s \o t
           a == <<"actor">>
<1>1. a \in Seq(LockNames) /\ Len(a) = 1 /\ a[1] = "actor"
  BY DEF LockNames
<1>2. /\ u \in Seq(LockNames) /\ Len(u) = Len(s) + Len(t)
      /\ \A i \in 1 .. Len(s) + Len(t) : u[i] = IF i <= Len(s) THEN s[i] ELSE t[i - Len(s)]
  BY ConcatProperties
<1>3. Len(s) \in Nat /\ Len(t) \in Nat
  OBVIOUS
<1> HIDE DEF u, a
<1>9. u \in Seq(LockNames) /\ a \in Seq(LockNames)
  BY <1>1, <1>2
<1>4. /\ u \o a \in Seq(LockNames) /\ Len(u \o a) = Len(u) + Len(a)
      /\ \A i \in 1 .. Len(u) + Len(a) : (u \o a)[i] = IF i <= Len(u) THEN u[i]
                                                       ELSE a[i - Len(u)]
  BY <1>9, ConcatProperties
<1>5. Len(u \o a) = Len(s) + Len(t) + 1
  BY <1>1, <1>2, <1>4
<1>6. ASSUME NEW i \in 1 .. Len(s)
      PROVE  (u \o a)[i] = s[i]
  BY <1>1, <1>2, <1>3, <1>4
<1>7. ASSUME NEW i \in 1 .. Len(t)
      PROVE  (u \o a)[Len(s) + i] = t[i]
  <2>1. Len(s) + i \in 1 .. Len(s) + Len(t) /\ Len(s) + i - Len(s) = i /\ ~(Len(s) + i <= Len(s))
    BY <1>3
  <2> QED BY <1>1, <1>2, <1>4, <2>1
<1>8. (u \o a)[Len(s) + Len(t) + 1] = "actor"
  <2> DEFINE n == Len(s) + Len(t)
  <2>1. n + 1 \in 1 .. n + 1 /\ ~(n + 1 <= n) /\ n + 1 - n = 1
    BY <1>3
  <2> HIDE DEF n
  <2>2. (u \o a)[n + 1] = a[1]
    BY <1>1, <1>2, <1>4, <2>1 DEF n
  <2> QED BY <1>1, <2>2 DEF n
<1> QED BY <1>4, <1>5, <1>6, <1>7, <1>8 DEF u, a

\* The locks of each operation.
LEMMA Plans ==
    ASSUME NEW r \in Requests, Cmd(r) \in Commands
    PROVE  LET p == Plan(r) IN
           /\ p \in Seq(LockNames) /\ p[1] = "key"
           /\ seen[r].receipt => Len(p) = 1
           /\ ~seen[r].receipt =>
                /\ Len(p) \in 3 .. 6
                /\ p[2] = IF Creates(r) THEN "assignment" ELSE "record"
                /\ \A i \in 3 .. Len(p) : /\ p[i] \notin {"key", "record"}
                                          /\ p[i] = "hierarchy" => Cmd(r).link # None
                /\ Cmd(r).op = "editCompany" /\ Cmd(r).link # None =>
                     /\ Len(p) = 6 /\ p[3] = "assignment" /\ p[4] = "hierarchy"
                     /\ p[5] = "ancestors" /\ p[6] = "actor"
<1> DEFINE op == Cmd(r).op
           link == Cmd(r).link
           t == Linking(r)
<1>1. op \in Ops /\ (op = "editContact" => link = None)
  BY CommandParts
<1>2. t = IF link = None THEN << >>
          ELSE IF op = "editCompany" THEN <<"hierarchy", "ancestors">>
          ELSE <<"company">>
  BY DEF Linking
<1>3. /\ t \in Seq(LockNames) /\ Len(t) \in 0 .. 2
      /\ link # None <=> Len(t) > 0
      /\ op # "editCompany" => Len(t) \in 0 .. 1
      /\ Len(t) > 0 => t[1] \in {"hierarchy", "company"}
      /\ Len(t) > 1 => t[1] = "hierarchy" /\ t[2] = "ancestors" /\ op = "editCompany"
      /\ op = "editCompany" /\ link # None => Len(t) = 2
  <2>1. CASE link = None
    <3>1. t = << >>
      BY <1>2, <2>1
    <3> QED BY <2>1, <3>1
  <2>2. CASE link # None /\ op = "editCompany"
    <3>1. t = <<"hierarchy", "ancestors">>
      BY <1>2, <2>2
    <3> QED BY <2>2, <3>1 DEF LockNames
  <2>3. CASE link # None /\ op # "editCompany"
    <3>1. t = <<"company">>
      BY <1>2, <2>3
    <3> QED BY <2>3, <3>1 DEF LockNames
  <2> QED BY <2>1, <2>2, <2>3
<1> HIDE DEF op, link, t
<1>4. CASE seen[r].receipt
  BY <1>4 DEF Plan, LockNames
<1>5. CASE ~seen[r].receipt /\ op \in {"createCompany", "createContact"}
  <2> DEFINE s == <<"key", "assignment">>
             p == s \o t \o <<"actor">>
  <2>1. Plan(r) = p /\ Creates(r)
    BY <1>5 DEF Plan, Creates, op, t
  <2>2. s \in Seq(LockNames) /\ Len(s) = 2 /\ s[1] = "key" /\ s[2] = "assignment"
    BY DEF LockNames
  <2> HIDE DEF s
  <2>6. /\ p \in Seq(LockNames) /\ Len(p) = Len(s) + Len(t) + 1
        /\ \A i \in 1 .. Len(s) : p[i] = s[i]
        /\ \A i \in 1 .. Len(t) : p[Len(s) + i] = t[i]
        /\ p[Len(s) + Len(t) + 1] = "actor"
    BY <1>3, <2>2, Joined
  <2> HIDE DEF p
  <2>3. /\ p \in Seq(LockNames) /\ Len(p) = Len(t) + 3
        /\ p[1] = "key" /\ p[2] = "assignment"
        /\ \A i \in 1 .. Len(t) : p[2 + i] = t[i]
        /\ p[Len(t) + 3] = "actor"
    BY <1>3, <2>2, <2>6
  <2>4. Len(t) \in 0 .. 1
    BY <1>3, <1>5
  <2>5. \A i \in 3 .. Len(p) : /\ p[i] \notin {"key", "record"}
                               /\ p[i] = "hierarchy" => link # None
    <3>1. CASE Len(t) = 0
      BY <2>3, <3>1
    <3>2. CASE Len(t) = 1
      BY <1>3, <2>3, <3>2
    <3> QED BY <2>4, <3>1, <3>2
  <2> QED BY <1>5, <2>1, <2>3, <2>4, <2>5 DEF op, link
<1>6. CASE ~seen[r].receipt /\ op \in {"editCompany", "editContact"}
  <2> DEFINE s == <<"key", "record", "assignment">>
             p == s \o t \o <<"actor">>
  <2>1. Plan(r) = p /\ ~Creates(r)
    BY <1>6 DEF Plan, Creates, op, t
  <2>2. s \in Seq(LockNames) /\ Len(s) = 3 /\ s[1] = "key" /\ s[2] = "record"
        /\ s[3] = "assignment"
    BY DEF LockNames
  <2> HIDE DEF s
  <2>6. /\ p \in Seq(LockNames) /\ Len(p) = Len(s) + Len(t) + 1
        /\ \A i \in 1 .. Len(s) : p[i] = s[i]
        /\ \A i \in 1 .. Len(t) : p[Len(s) + i] = t[i]
        /\ p[Len(s) + Len(t) + 1] = "actor"
    BY <1>3, <2>2, Joined
  <2> HIDE DEF p
  <2>3. /\ p \in Seq(LockNames) /\ Len(p) = Len(t) + 4
        /\ p[1] = "key" /\ p[2] = "record" /\ p[3] = "assignment"
        /\ \A i \in 1 .. Len(t) : p[3 + i] = t[i]
        /\ p[Len(t) + 4] = "actor"
    BY <1>3, <2>2, <2>6
  <2>4. /\ Len(t) \in 0 .. 2
        /\ Len(t) > 0 => p[4] = t[1]
        /\ Len(t) > 1 => p[5] = t[2]
    BY <1>3, <2>3
  <2>5. \A i \in 3 .. Len(p) : /\ p[i] \notin {"key", "record"}
                               /\ p[i] = "hierarchy" => link # None
    <3>1. CASE Len(t) = 0
      BY <2>3, <3>1
    <3>2. CASE Len(t) = 1
      BY <1>3, <2>3, <2>4, <3>2
    <3>3. CASE Len(t) = 2
      BY <1>3, <2>3, <2>4, <3>3
    <3> QED BY <2>4, <3>1, <3>2, <3>3
  <2>7. op = "editCompany" /\ link # None => /\ Len(p) = 6 /\ p[4] = "hierarchy"
                                            /\ p[5] = "ancestors" /\ p[6] = "actor"
    <3> SUFFICES ASSUME op = "editCompany", link # None
                 PROVE  /\ Len(p) = 6 /\ p[4] = "hierarchy"
                        /\ p[5] = "ancestors" /\ p[6] = "actor"
      OBVIOUS
    <3>1. Len(t) = 2
      BY <1>3
    <3>2. t[1] = "hierarchy" /\ t[2] = "ancestors"
      BY <1>3, <3>1
    <3> QED BY <2>3, <2>4, <3>1, <3>2
  <2>8. Len(p) \in 3 .. 6
    BY <2>3, <2>4
  <2> QED BY <1>6, <2>1, <2>3, <2>5, <2>7, <2>8 DEF op, link
<1>7. CASE ~seen[r].receipt /\ op = "affiliate"
  <2> DEFINE s == <<"key", "record">>
             p == s \o t \o <<"actor">>
  <2>1. Plan(r) = p /\ ~Creates(r)
    BY <1>7 DEF Plan, Creates, op, t
  <2>2. s \in Seq(LockNames) /\ Len(s) = 2 /\ s[1] = "key" /\ s[2] = "record"
    BY DEF LockNames
  <2> HIDE DEF s
  <2>6. /\ p \in Seq(LockNames) /\ Len(p) = Len(s) + Len(t) + 1
        /\ \A i \in 1 .. Len(s) : p[i] = s[i]
        /\ \A i \in 1 .. Len(t) : p[Len(s) + i] = t[i]
        /\ p[Len(s) + Len(t) + 1] = "actor"
    BY <1>3, <2>2, Joined
  <2> HIDE DEF p
  <2>3. /\ p \in Seq(LockNames) /\ Len(p) = Len(t) + 3
        /\ p[1] = "key" /\ p[2] = "record"
        /\ \A i \in 1 .. Len(t) : p[2 + i] = t[i]
        /\ p[Len(t) + 3] = "actor"
    BY <1>3, <2>2, <2>6
  <2>4. Len(t) \in 0 .. 1
    BY <1>3, <1>7
  <2>5. \A i \in 3 .. Len(p) : /\ p[i] \notin {"key", "record"}
                               /\ p[i] = "hierarchy" => link # None
    <3>1. CASE Len(t) = 0
      BY <2>3, <3>1
    <3>2. CASE Len(t) = 1
      BY <1>3, <2>3, <3>2
    <3> QED BY <2>4, <3>1, <3>2
  <2> QED BY <1>7, <2>1, <2>3, <2>4, <2>5 DEF op, link
<1>8. CASE ~seen[r].receipt /\ op \in {"archive", "restore"}
  <2>1. Plan(r) = <<"key", "record", "actor">> /\ ~Creates(r)
    BY <1>8 DEF Plan, Creates, op
  <2> QED BY <1>8, <2>1 DEF LockNames, op
<1> QED BY <1>1, <1>4, <1>5, <1>6, <1>7, <1>8 DEF Ops, op, link

\* Where a request stands that has not all its locks.
LEMMA NextLocks ==
    ASSUME IInv, NEW r \in Requests, Running(r), ~Done(r)
    PROVE  /\ step[r] \in 1 .. 6 /\ NextLock(r) \in LockNames
           /\ step[r] = 1 <=> NextLock(r) = "key"
           /\ step[r] > 1 => ~seen[r].receipt
           /\ step[r] = 2 /\ ~Creates(r) => NextLock(r) = "record"
           /\ step[r] > 2 => NextLock(r) # "record"
           /\ NextLock(r) = "record" => ~Creates(r)
           /\ NextLock(r) = "hierarchy" => Cmd(r).link # None
           /\ Cmd(r).op = "editCompany" /\ Cmd(r).link # None =>
                /\ step[r] = 3 => NextLock(r) = "assignment"
                /\ step[r] = 4 => NextLock(r) = "hierarchy"
                /\ step[r] = 5 => NextLock(r) = "ancestors"
                /\ step[r] = 6 => NextLock(r) = "actor"
<1> DEFINE p == Plan(r)
           n == step[r]
<1>1. Cmd(r) \in Commands /\ n \in 1 .. 7
  BY Busy DEF IInv
<1>2. /\ p \in Seq(LockNames) /\ p[1] = "key"
      /\ seen[r].receipt => Len(p) = 1
      /\ ~seen[r].receipt =>
           /\ Len(p) \in 3 .. 6
           /\ p[2] = IF Creates(r) THEN "assignment" ELSE "record"
           /\ \A i \in 3 .. Len(p) : /\ p[i] \notin {"key", "record"}
                                     /\ p[i] = "hierarchy" => Cmd(r).link # None
           /\ Cmd(r).op = "editCompany" /\ Cmd(r).link # None =>
                /\ Len(p) = 6 /\ p[3] = "assignment" /\ p[4] = "hierarchy"
                /\ p[5] = "ancestors" /\ p[6] = "actor"
  BY <1>1, Plans
<1>3. ~(n > Len(p)) /\ NextLock(r) = p[n]
  BY DEF Done, NextLock
<1> HIDE DEF p, n
<1>4. n <= Len(p) /\ Len(p) \in 1 .. 6 /\ p[n] \in LockNames
  BY <1>1, <1>2, <1>3
<1>5. n > 1 => ~seen[r].receipt
  <2> DEFINE m == Len(p)
  <2>1. m \in 1 .. 6 /\ n <= m /\ (seen[r].receipt => m = 1)
    BY <1>2, <1>4
  <2> HIDE DEF m
  <2> QED BY <1>1, <2>1
<1>6. n > 1 => p[n] # "key"
  BY <1>1, <1>2, <1>4, <1>5
<1>7. /\ n > 2 => p[n] # "record"
      /\ p[n] = "record" => ~Creates(r)
      /\ p[n] = "hierarchy" => Cmd(r).link # None
  <2>1. CASE n \in {1, 2}
    BY <1>2, <1>5, <2>1
  <2>2. CASE n \notin {1, 2}
    <3>1. n \in 3 .. Len(p) /\ ~seen[r].receipt
      BY <1>1, <1>4, <1>5, <2>2
    <3> QED BY <1>2, <3>1
  <2> QED BY <2>1, <2>2
<1> QED BY <1>1, <1>2, <1>3, <1>4, <1>5, <1>6, <1>7 DEF n

\* A request at the end of its plan has taken all its locks.
LEMMA AtTheEnd ==
    ASSUME IInv, NEW r \in Requests, Done(r), ~seen[r].receipt
    PROVE  /\ Running(r) /\ step[r] \in 1 .. 7 /\ step[r] > 3
           /\ Cmd(r).op = "editCompany" /\ Cmd(r).link # None => step[r] > 6
<1> DEFINE p == Plan(r)
           n == step[r]
<1>1. Running(r) /\ Cmd(r) \in Commands /\ n \in 1 .. 7
  BY Busy DEF IInv, Done
<1>2. /\ Len(p) \in 3 .. 6
      /\ Cmd(r).op = "editCompany" /\ Cmd(r).link # None => Len(p) = 6
  BY <1>1, Plans
<1>3. n > Len(p)
  BY DEF Done
<1> DEFINE m == Len(p)
<1>4. m \in 3 .. 6 /\ n > m
  BY <1>2, <1>3
<1>5. Cmd(r).op = "editCompany" /\ Cmd(r).link # None => m = 6
  BY <1>2
<1> HIDE DEF p, n, m
<1> QED BY <1>1, <1>4, <1>5 DEF n
-----------------------------------------------------------------------------
(* The steps that write no rows. *)

\* Nothing of request q changes.
Same(q) == /\ request'[q] = request[q] /\ step'[q] = step[q]
           /\ held'[q] = held[q] /\ seen'[q] = seen[q]

\* What a request knows stays so while nobody writes a row it has locked.
LEMMA KnowsKept ==
    ASSUME IInv, NEW q \in Requests, Same(q),
           Running(q) => sent'[request[q]] = sent[request[q]],
           \A x \in Records : row[x].life # "absent" /\ row'[x] # row[x]
                                => <<"record", x>> \notin held[q]
    PROVE  Knows(q)'
<1>1. CASE ~Running(q)
  BY <1>1 DEF Knows, Running, Same
<1>2. CASE Running(q)
  <2> DEFINE in == Cmd(q)
             got == seen[q]
             n == step[q]
  <2>1. /\ in \in Commands
        /\ in.record # None => in.record \in Records /\ row[in.record].life # "absent"
    BY <1>2, Busy DEF IInv
  <2>2. Cmd(q)' = in /\ seen'[q] = got /\ step'[q] = n /\ held'[q] = held[q]
    BY <1>2 DEF Same, Cmd, Running
  <2>3. /\ in # NoCommand /\ n > 0
        /\ ~got.receipt /\ n > 2 /\ in.record # None
             => <<"record", in.record>> \in held[q] /\ got.row = row[in.record]
        /\ ~got.receipt /\ in.op = "editCompany" /\ in.link # None =>
             /\ n > 4 => WalkedUp(got.walked, in.record)
             /\ n > 5 /\ got.linked =>
                  /\ in.link \in DOMAIN got.walked
                  /\ \A c \in DOMAIN got.walked :
                       /\ <<"record", c>> \in held[q]
                       /\ row[c].life = "active" /\ row[c].link = got.walked[c]
    BY <1>2 DEF IInv, Knows
  <2>4. DOMAIN got.walked \subseteq Records
    BY DEF IInv, LocalTyped, SeenRows, Walks, Records
  <2> HIDE DEF in, got, n
  <2>5. ~got.receipt /\ n > 2 /\ in.record # None => got.row = row'[in.record]
    BY <2>1, <2>3
  <2>6. ASSUME ~got.receipt, in.op = "editCompany", in.link # None, n > 5, got.linked,
               NEW c \in DOMAIN got.walked
        PROVE  row'[c] = row[c]
    BY <2>3, <2>4, <2>6
  <2>7. ~got.receipt /\ in.op = "editCompany" /\ in.link # None /\ n > 5 /\ got.linked =>
          \A c \in DOMAIN got.walked : row'[c].life = "active" /\ row'[c].link = got.walked[c]
    BY <2>3, <2>6
  <2> QED BY <2>2, <2>3, <2>5, <2>7 DEF Knows
<1> QED BY <1>1, <1>2

RowsInv == RowsTyped /\ RowsSound /\ SecondaryApart /\ RowsAgree /\ NoParentCycle

LocalInv == LocalTyped /\ OneHolder /\ \A q \in Requests : Knows(q)

LEMMA Parts == IInv <=> RowsInv /\ LocalInv /\ SentTyped /\ SentSound /\ PagesTyped /\ PagesSound
  BY DEF IInv, RowsInv, LocalInv

LEMMA RowsUnchanged ==
    ASSUME IInv, UNCHANGED <<row, points, affiliated, teams, receipts>>,
           member' \in [Members -> MemberRows]
    PROVE  RowsInv'
<1>1. RowsTyped'
  BY DEF IInv, RowsTyped
<1>2. RowsSound' /\ SecondaryApart' /\ RowsAgree'
  BY DEF IInv, RowsSound, SecondaryApart, RowsAgree
<1>3. NoParentCycle'
  BY DEF IInv, NoParentCycle, Chain
<1> QED BY <1>1, <1>2, <1>3 DEF RowsInv

LEMMA PagesUnchanged ==
    ASSUME PagesTyped, PagesSound, UNCHANGED <<row, teams, affiliated, page>>
    PROVE  PagesTyped' /\ PagesSound'
  BY DEF PagesTyped, PagesSound, Reads, OnPage

\* Only the requests' own state and the commands sent change.
LEMMA LocalStep ==
    ASSUME IInv, UNCHANGED <<tables, page>>, LocalInv', SentTyped',
           \A k \in Keys :
             \/ sent'[k] = sent[k]
             \/ /\ sent'[k].record # None => row[sent'[k].record].life # "absent"
                /\ sent'[k].link # None => row[sent'[k].link].life # "absent"
    PROVE  IInv'
<1>1. RowsInv'
  BY RowsUnchanged DEF IInv, tables, RowsTyped
<1>2. PagesTyped' /\ PagesSound'
  BY PagesUnchanged DEF IInv, tables
<1>3. SentSound'
  BY DEF IInv, SentSound, tables
<1> QED BY <1>1, <1>2, <1>3 DEF IInv, RowsInv, LocalInv

LEMMA NothingTyped == NothingSeen \in SeenRows
<1>1. << >> \in Walks
  <2>1. << >> \in [{} -> Companies \cup {None}]
    OBVIOUS
  <2> QED BY <2>1 DEF Walks
<1>2. NoRecord \in ContactRows
  BY DEF NoRecord, ContactRows, Lives
<1> QED BY <1>1, <1>2 DEF NothingSeen, SeenRows, MemberRows

LEMMA AfterClose ==
    ASSUME IInv, NEW r \in Requests, Close(r)
    PROVE  /\ LocalTyped' /\ OneHolder' /\ Knows(r)'
           /\ \A q \in Requests \ {r} : Same(q)
<1>1. /\ request' = [request EXCEPT ![r] = None] /\ step' = [step EXCEPT ![r] = 0]
      /\ held' = [held EXCEPT ![r] = {}] /\ seen' = [seen EXCEPT ![r] = NothingSeen]
  BY DEF Close
<1>2. LocalTyped /\ OneHolder
  BY DEF IInv
<1>3. NothingSeen \in SeenRows
  BY NothingTyped
<1>4. /\ request'[r] = None /\ held'[r] = {} /\ seen'[r] = NothingSeen
      /\ \A q \in Requests \ {r} : Same(q)
  BY <1>1, <1>2 DEF LocalTyped, Same
<1>5. LocalTyped'
  <2>1. /\ request' \in [Requests -> Keys \cup {None}] /\ step' \in [Requests -> 0 .. 7]
        /\ seen' \in [Requests -> SeenRows]
    BY <1>1, <1>2, <1>3 DEF LocalTyped
  <2>2. held' = [q \in Requests |-> held'[q]]
    <3>1. held = [q \in Requests |-> held[q]]
      BY <1>2 DEF LocalTyped
    <3>2. held' = [q \in Requests |-> IF q = r THEN {} ELSE held[q]]
      BY <1>1, <3>1
    <3> QED BY <3>2
  <2>3. ASSUME NEW q \in Requests, request'[q] = None
        PROVE  held'[q] = {} /\ seen'[q] = NothingSeen
    BY <1>2, <1>4, <2>3 DEF LocalTyped, Running, Same
  <2> QED BY <2>1, <2>2, <2>3 DEF LocalTyped, Running
<1>6. OneHolder'
  BY <1>2, <1>4 DEF OneHolder, Same
<1>7. Knows(r)'
  BY <1>4 DEF Knows, Running
<1> QED BY <1>4, <1>5, <1>6, <1>7

LEMMA CloseStep ==
    ASSUME IInv, NEW r \in Requests, Close(r), UNCHANGED <<tables, sent, page>>
    PROVE  IInv'
<1>1. ASSUME NEW q \in Requests, q # r
      PROVE  Knows(q)'
  BY <1>1, AfterClose, KnowsKept DEF tables
<1>2. LocalInv'
  BY <1>1, AfterClose DEF LocalInv
<1> QED BY <1>2, LocalStep DEF IInv, SentTyped

\* A request starts with a command that was made now or before.
LEMMA StartStep ==
    ASSUME IInv, NEW r \in Requests, NEW k \in Keys, request[r] = None,
           request' = [request EXCEPT ![r] = k], step' = [step EXCEPT ![r] = 1],
           UNCHANGED <<tables, held, seen, page>>,
           SentTyped', sent'[k] # NoCommand,
           \A j \in Keys :
             \/ sent'[j] = sent[j]
             \/ /\ sent[j] = NoCommand
                /\ sent'[j].record # None => row[sent'[j].record].life # "absent"
                /\ sent'[j].link # None => row[sent'[j].link].life # "absent"
    PROVE  IInv'
<1>1. LocalTyped /\ OneHolder
  BY DEF IInv
<1>2. held[r] = {} /\ seen[r] = NothingSeen
  BY <1>1 DEF LocalTyped, Running
<1>3. LocalTyped'
  <2>1. /\ request' \in [Requests -> Keys \cup {None}] /\ step' \in [Requests -> 0 .. 7]
        /\ held' = [q \in Requests |-> held'[q]] /\ seen' \in [Requests -> SeenRows]
    BY <1>1 DEF LocalTyped
  <2>2. \A q \in Requests : request'[q] = None => held'[q] = {} /\ seen'[q] = NothingSeen
    BY <1>1, <1>2 DEF LocalTyped, Running
  <2> QED BY <2>1, <2>2 DEF LocalTyped, Running
<1>4. Knows(r)'
  <2>1. request'[r] = k /\ step'[r] = 1
    BY <1>1 DEF LocalTyped
  <2>2. Cmd(r)' # NoCommand
    BY <2>1 DEF Cmd
  <2> QED BY <2>1, <2>2 DEF Knows
<1>5. ASSUME NEW q \in Requests, q # r
      PROVE  Knows(q)'
  <2>1. Same(q)
    BY <1>1, <1>5 DEF LocalTyped, Same
  <2>2. Running(q) => sent[request[q]] # NoCommand /\ request[q] \in Keys
    BY Busy DEF IInv, Knows, Cmd
  <2>3. Running(q) => sent'[request[q]] = sent[request[q]]
    BY <2>2
  <2> QED BY <2>1, <2>3, KnowsKept DEF tables
<1>6. LocalInv'
  BY <1>1, <1>3, <1>4, <1>5 DEF LocalInv, OneHolder
<1> QED BY <1>6, LocalStep

LEMMA SubmitStep ==
    ASSUME IInv, NEW r \in Requests, Submit(r) \/ Repeat(r)
    PROVE  IInv'
<1>1. RowsTyped /\ SentTyped
  BY DEF IInv
<1>2. CASE Submit(r)
  <2>1. PICK k \in Keys :
           \E op \in Operations[k] : \E in \in Offered(op, Client[k]) :
             /\ sent[k] = NoCommand
             /\ sent' = [sent EXCEPT ![k] = in]
             /\ request' = [request EXCEPT ![r] = k]
    BY <1>2 DEF Submit
  <2>7. PICK op \in Operations[k] : \E in \in Offered(op, Client[k]) :
             /\ sent[k] = NoCommand
             /\ sent' = [sent EXCEPT ![k] = in]
             /\ request' = [request EXCEPT ![r] = k]
    BY <2>1
  <2>2. PICK in \in Offered(op, Client[k]) : /\ sent[k] = NoCommand
                                             /\ sent' = [sent EXCEPT ![k] = in]
                                             /\ request' = [request EXCEPT ![r] = k]
    BY <2>7
  <2>3. op \in Ops /\ Client[k] \in Members
    BY GraphAssumption DEF Ops
  <2>4. /\ in \in Commands
        /\ in.record # None => row[in.record].life # "absent"
        /\ in.link # None => row[in.link].life # "absent"
    BY <1>1, <2>3, OfferedParts
  <2>5. in # NoCommand
    BY <2>4, CommandParts DEF NoCommand, Ops
  <2>6. SentTyped' /\ sent'[k] = in /\ \A j \in Keys : sent'[j] = sent[j] \/ j = k
    BY <1>1, <2>2, <2>4 DEF SentTyped
  <2>8. /\ request[r] = None /\ request' = [request EXCEPT ![r] = k]
        /\ step' = [step EXCEPT ![r] = 1] /\ UNCHANGED <<tables, held, seen, page>>
    BY <1>2, <2>2 DEF Submit
  <2>9. \A j \in Keys :
          \/ sent'[j] = sent[j]
          \/ /\ sent[j] = NoCommand
             /\ sent'[j].record # None => row[sent'[j].record].life # "absent"
             /\ sent'[j].link # None => row[sent'[j].link].life # "absent"
    BY <2>2, <2>4, <2>6
  <2> QED BY <2>5, <2>6, <2>8, <2>9, StartStep
<1>3. CASE Repeat(r)
  <2>1. PICK k \in Keys : sent[k] # NoCommand /\ request' = [request EXCEPT ![r] = k]
    BY <1>3 DEF Repeat
  <2>2. SentTyped'
    BY <1>1, <1>3 DEF Repeat, SentTyped
  <2> QED BY <1>3, <2>1, <2>2, StartStep DEF Repeat
<1> QED BY <1>2, <1>3

\* A walk finds a set of companies that is closed upwards without the company.
LEMMA WalkParts ==
    ASSUME IInv, NEW r \in Requests, Running(r), Cmd(r).link # None
    PROVE  Ancestry(r) \in Walks /\ WalkedUp(Ancestry(r), Cmd(r).record)
<1> DEFINE chain == Chain(Cmd(r).link)
<1>1. Cmd(r).link \in Companies
  BY Busy DEF IInv
<1>2. \A c \in Companies : row[c].link \in Companies \cup {None}
  BY RowParts DEF IInv, Records
<1>3. chain \subseteq Companies /\ Closed(chain, row)
  BY <1>1, <1>2, AboveParts DEF Chain
<1>4. CASE Circular(r) \/ \E c \in chain : row[c].life # "active"
  <2>1. Ancestry(r) = << >>
    BY <1>4 DEF Ancestry
  <2>2. << >> \in [{} -> Companies \cup {None}] /\ DOMAIN << >> = {}
    OBVIOUS
  <2> QED BY <2>1, <2>2 DEF Walks, WalkedUp
<1>5. CASE ~(Circular(r) \/ \E c \in chain : row[c].life # "active")
  <2>1. Ancestry(r) = [c \in chain |-> row[c].link]
    BY <1>5 DEF Ancestry
  <2>2. Cmd(r).record \notin chain
    BY <1>5 DEF Circular
  <2> HIDE DEF chain
  <2>3. Ancestry(r) \in [chain -> Companies \cup {None}]
    BY <1>2, <1>3, <2>1
  <2>4. DOMAIN Ancestry(r) = chain /\ \A c \in chain : Ancestry(r)[c] = row[c].link
    BY <2>1
  <2>5. Ancestry(r) \in Walks
    BY <1>3, <2>3 DEF Walks
  <2> QED BY <1>3, <2>2, <2>4, <2>5 DEF WalkedUp, Closed
<1> QED BY <1>4, <1>5

\* What a request reads with a lock is what the tables say.
LEMMA ReadingParts ==
    ASSUME IInv, NEW r \in Requests, Running(r), ~Done(r)
    PROVE  LET got == Reading(r)
               in == Cmd(r)
               n == step[r] IN
           /\ got \in SeenRows
           /\ n > 1 => got.receipt = seen[r].receipt
           /\ n = 2 /\ in.record # None
                => <<"record", in.record>> \in Wanted(r) /\ got.row = row[in.record]
           /\ n > 2 => got.row = seen[r].row
           /\ in.op = "editCompany" /\ in.link # None =>
                /\ n = 4 => WalkedUp(got.walked, in.record)
                /\ n > 4 => got.walked = seen[r].walked
                /\ n = 5 /\ got.linked =>
                     /\ in.link \in DOMAIN got.walked
                     /\ \A c \in DOMAIN got.walked :
                          /\ <<"record", c>> \in Wanted(r)
                          /\ row[c].life = "active" /\ row[c].link = got.walked[c]
                /\ n = 6 => got.linked = seen[r].linked
<1> DEFINE in == Cmd(r)
           n == step[r]
           lock == NextLock(r)
           got == Reading(r)
           Goal == /\ got \in SeenRows
                   /\ lock # "key" => got.receipt = seen[r].receipt
                   /\ IF lock = "record" THEN /\ <<"record", in.record>> \in Wanted(r)
                                              /\ got.row = row[in.record]
                      ELSE got.row = seen[r].row
                   /\ IF lock = "hierarchy"
                      THEN in.link # None => WalkedUp(got.walked, in.record)
                      ELSE got.walked = seen[r].walked
                   /\ lock = "actor" => got.linked = seen[r].linked
                   /\ lock = "ancestors" /\ got.linked =>
                        /\ in.link \in DOMAIN got.walked
                        /\ \A c \in DOMAIN got.walked :
                             /\ <<"record", c>> \in Wanted(r)
                             /\ row[c].life = "active" /\ row[c].link = got.walked[c]
<1>1. in \in Commands /\ seen[r] \in SeenRows /\ lock \in LockNames /\ n \in 1 .. 6
  BY Busy, NextLocks DEF IInv, LocalTyped
<1>2. in.actor \in Members /\ in.op \in Ops
  BY <1>1, CommandParts
<1>3. ASSUME lock = "key"
      PROVE  Goal
  <2> DEFINE b == request[r] \in receipts
  <2>1. got = [seen[r] EXCEPT !.receipt = b] /\ b \in BOOLEAN
    BY <1>3 DEF Reading
  <2> HIDE DEF b, got
  <2>2. got \in SeenRows /\ got.row = seen[r].row /\ got.walked = seen[r].walked
    BY <1>1, <2>1 DEF SeenRows
  <2> QED BY <1>3, <2>2
<1>4. ASSUME lock = "record"
      PROVE  Goal
  <2>1. got = [seen[r] EXCEPT !.row = row[in.record]] /\ Wanted(r) = {<<"record", in.record>>}
    BY <1>4 DEF Reading, Wanted, RecordLocks
  <2>2. row[in.record] \in ContactRows
    <3>1. in.record # None
      BY <1>1, <1>4, NextLocks, CommandParts DEF Creates
    <3>2. in.record \in Records
      BY <3>1, Busy DEF IInv
    <3> QED BY <3>2, RowParts DEF IInv
  <2> HIDE DEF got
  <2>3. /\ got \in SeenRows /\ got.receipt = seen[r].receipt /\ got.row = row[in.record]
        /\ got.walked = seen[r].walked
    BY <1>1, <2>1, <2>2 DEF SeenRows
  <2> QED BY <1>4, <2>1, <2>3
<1>5. ASSUME lock = "assignment"
      PROVE  Goal
  <2> DEFINE b == \A m \in Link(in.responsible) : member[m].active
  <2>1. got = [seen[r] EXCEPT !.responsible = b] /\ b \in BOOLEAN
    BY <1>5 DEF Reading
  <2> HIDE DEF b, got
  <2>2. /\ got \in SeenRows /\ got.row = seen[r].row /\ got.walked = seen[r].walked
        /\ got.receipt = seen[r].receipt
    BY <1>1, <2>1 DEF SeenRows
  <2> QED BY <1>5, <2>2
<1>6. ASSUME lock = "hierarchy"
      PROVE  Goal
  <2>1. got = [seen[r] EXCEPT !.walked = Ancestry(r)]
    BY <1>6 DEF Reading
  <2>2. Ancestry(r) \in Walks /\ WalkedUp(Ancestry(r), in.record)
    BY <1>6, NextLocks, WalkParts
  <2> HIDE DEF got
  <2>3. /\ got \in SeenRows /\ got.row = seen[r].row /\ got.walked = Ancestry(r)
        /\ got.receipt = seen[r].receipt
    BY <1>1, <2>1, <2>2 DEF SeenRows
  <2> QED BY <1>6, <2>2, <2>3
<1>7. ASSUME lock = "ancestors"
      PROVE  Goal
  <2> DEFINE b == Unmoved(r) /\ Available(r)
  <2>1. /\ got = [seen[r] EXCEPT !.linked = b] /\ b \in BOOLEAN
        /\ Wanted(r) = {<<"record", c>> : c \in DOMAIN seen[r].walked}
    BY <1>7 DEF Reading, Wanted, AncestorLocks
  <2>2. b => /\ in.link \in DOMAIN seen[r].walked
             /\ \A c \in DOMAIN seen[r].walked :
                  row[c].life = "active" /\ row[c].link = seen[r].walked[c]
    BY DEF Unmoved
  <2> HIDE DEF b, got
  <2>3. /\ got \in SeenRows /\ got.row = seen[r].row /\ got.walked = seen[r].walked
        /\ got.receipt = seen[r].receipt /\ got.linked = b
    BY <1>1, <2>1 DEF SeenRows
  <2> QED BY <1>7, <2>1, <2>2, <2>3
<1>8. ASSUME lock = "company"
      PROVE  Goal
  <2> DEFINE b == Available(r)
  <2>1. got = [seen[r] EXCEPT !.linked = b] /\ b \in BOOLEAN
    BY <1>8 DEF Reading, Available
  <2> HIDE DEF b, got
  <2>2. /\ got \in SeenRows /\ got.row = seen[r].row /\ got.walked = seen[r].walked
        /\ got.receipt = seen[r].receipt
    BY <1>1, <2>1 DEF SeenRows
  <2> QED BY <1>8, <2>2
<1>9. ASSUME lock = "actor"
      PROVE  Goal
  <2>1. got = [seen[r] EXCEPT !.member = member[in.actor]] /\ member[in.actor] \in MemberRows
    BY <1>2, <1>9 DEF Reading, IInv, RowsTyped
  <2> HIDE DEF got
  <2>2. /\ got \in SeenRows /\ got.row = seen[r].row /\ got.walked = seen[r].walked
        /\ got.receipt = seen[r].receipt /\ got.linked = seen[r].linked
    BY <1>1, <2>1 DEF SeenRows
  <2> QED BY <1>9, <2>2
<1>10. Goal
  <2> HIDE DEF Goal, lock
  <2> QED BY <1>1, <1>3, <1>4, <1>5, <1>6, <1>7, <1>8, <1>9 DEF LockNames
<1>11. /\ n > 1 => lock # "key"
       /\ n = 2 /\ in.record # None => lock = "record"
       /\ n > 2 => lock # "record"
       /\ in.op = "editCompany" /\ in.link # None =>
            /\ n = 4 => lock = "hierarchy"
            /\ n = 5 => lock = "ancestors"
            /\ n = 6 => lock = "actor"
  BY <1>1, NextLocks, CommandParts DEF Creates
<1> HIDE DEF in, n, lock, got
<1>12. n > 4 => n \in {5, 6}
  BY <1>1
<1> QED BY <1>10, <1>11, <1>12 DEF in, n, lock, got

\* A lock is granted to one request, which then knows one thing more.
LEMMA TakeStep ==
    ASSUME IInv, NEW r \in Requests, Take(r)
    PROVE  IInv'
<1> DEFINE in == Cmd(r)
           n == step[r]
           got == Reading(r)
<1>1. /\ Running(r) /\ ~Done(r) /\ \A q \in Requests : ~WaitsFor(r, q)
      /\ held' = [held EXCEPT ![r] = @ \cup Wanted(r)]
      /\ seen' = [seen EXCEPT ![r] = got]
      /\ step' = [step EXCEPT ![r] = n + 1]
      /\ UNCHANGED <<tables, sent, request, page>>
  BY DEF Take
<1>2. LocalTyped /\ OneHolder /\ SentTyped /\ Knows(r)
  BY DEF IInv
<1>3. n \in 1 .. 6 /\ in \in Commands /\ got \in SeenRows
  BY <1>1, Busy, NextLocks, ReadingParts DEF IInv
<1>4. /\ held'[r] = held[r] \cup Wanted(r) /\ seen'[r] = got /\ step'[r] = n + 1
      /\ request'[r] = request[r]
      /\ \A q \in Requests \ {r} : Same(q)
  BY <1>1, <1>2 DEF LocalTyped, Same
<1>5. LocalTyped'
  <2>1. /\ request' \in [Requests -> Keys \cup {None}] /\ step' \in [Requests -> 0 .. 7]
        /\ seen' \in [Requests -> SeenRows]
    BY <1>1, <1>2, <1>3 DEF LocalTyped
  <2>2. held' = [q \in Requests |-> held'[q]]
    <3>1. held = [q \in Requests |-> held[q]]
      BY <1>2 DEF LocalTyped
    <3>2. held' = [q \in Requests |-> IF q = r THEN held[r] \cup Wanted(r) ELSE held[q]]
      BY <1>1, <3>1
    <3> QED BY <3>2
  <2>3. ASSUME NEW q \in Requests, request'[q] = None
        PROVE  held'[q] = {} /\ seen'[q] = NothingSeen
    <3>1. q # r
      BY <1>1, <2>3 DEF Running
    <3> QED BY <1>2, <1>4, <2>3, <3>1 DEF LocalTyped, Running, Same
  <2> QED BY <2>1, <2>2, <2>3 DEF LocalTyped, Running
<1>6. OneHolder'
  <2>1. ASSUME NEW q \in Requests, q # r
        PROVE  Wanted(r) \cap held[q] = {}
    <3>1. CASE Running(q)
      BY <1>1, <2>1, <3>1 DEF WaitsFor
    <3>2. CASE ~Running(q)
      BY <1>2, <3>2 DEF LocalTyped
    <3> QED BY <3>1, <3>2
  <2>2. \A q \in Requests : held'[q] = IF q = r THEN held[r] \cup Wanted(r) ELSE held[q]
    BY <1>4 DEF Same
  <2> QED BY <1>2, <2>1, <2>2 DEF OneHolder
<1>7. Knows(r)'
  <2> DEFINE up == in.op = "editCompany" /\ in.link # None
  <2>1. Cmd(r)' = in /\ UNCHANGED row
    BY <1>1, <1>4 DEF Cmd, tables
  <2>2. /\ in # NoCommand
        /\ ~seen[r].receipt /\ n > 2 /\ in.record # None
             => <<"record", in.record>> \in held[r] /\ seen[r].row = row[in.record]
        /\ ~seen[r].receipt /\ up =>
             /\ n > 4 => WalkedUp(seen[r].walked, in.record)
             /\ n > 5 /\ seen[r].linked =>
                  /\ in.link \in DOMAIN seen[r].walked
                  /\ \A c \in DOMAIN seen[r].walked :
                       /\ <<"record", c>> \in held[r]
                       /\ row[c].life = "active" /\ row[c].link = seen[r].walked[c]
    BY <1>1, <1>2 DEF Knows
  <2>3. /\ n > 1 => got.receipt = seen[r].receipt
        /\ n = 2 /\ in.record # None
             => <<"record", in.record>> \in Wanted(r) /\ got.row = row[in.record]
        /\ n > 2 => got.row = seen[r].row
        /\ up =>
             /\ n = 4 => WalkedUp(got.walked, in.record)
             /\ n > 4 => got.walked = seen[r].walked
             /\ n = 5 /\ got.linked =>
                  /\ in.link \in DOMAIN got.walked
                  /\ \A c \in DOMAIN got.walked :
                       /\ <<"record", c>> \in Wanted(r)
                       /\ row[c].life = "active" /\ row[c].link = got.walked[c]
             /\ n = 6 => got.linked = seen[r].linked
    BY <1>1, ReadingParts
  <2> HIDE DEF in, n, got, up
  <2>4. n \in 1 .. 6
    BY <1>3 DEF n
  <2>5. ~got.receipt /\ n > 1 /\ in.record # None
          => <<"record", in.record>> \in held'[r] /\ got.row = row[in.record]
    BY <1>4, <2>2, <2>3, <2>4
  <2>6. ~got.receipt /\ up /\ n > 3 => WalkedUp(got.walked, in.record)
    BY <2>2, <2>3, <2>4
  <2>7. ASSUME ~got.receipt, up, n > 4, got.linked
        PROVE  /\ in.link \in DOMAIN got.walked
               /\ \A c \in DOMAIN got.walked :
                    /\ <<"record", c>> \in held'[r]
                    /\ row[c].life = "active" /\ row[c].link = got.walked[c]
    <3>1. CASE n = 5
      BY <1>4, <2>3, <2>7, <3>1
    <3>2. CASE n = 6
      <4>1. got.linked = seen[r].linked /\ got.receipt = seen[r].receipt
            /\ got.walked = seen[r].walked
        <5>1. n > 1 /\ n > 4
          BY <3>2
        <5> QED BY <2>3, <2>7, <3>2, <5>1
      <4>2. ~seen[r].receipt /\ seen[r].linked
        BY <2>7, <4>1
      <4> QED BY <1>4, <2>2, <2>7, <3>2, <4>1, <4>2
    <3> QED BY <2>4, <2>7, <3>1, <3>2
  <2>8. step'[r] = n + 1 /\ seen'[r] = got
    BY <1>4 DEF n, got
  <2> QED BY <2>1, <2>2, <2>4, <2>5, <2>6, <2>7, <2>8 DEF Knows, up
<1>8. ASSUME NEW q \in Requests, q # r
      PROVE  Knows(q)'
  BY <1>1, <1>4, <1>8, KnowsKept DEF tables
<1>9. LocalInv'
  BY <1>5, <1>6, <1>7, <1>8 DEF LocalInv
<1>10. SentTyped'
  BY <1>1, <1>2 DEF SentTyped
<1> QED BY <1>1, <1>9, <1>10, LocalStep
-----------------------------------------------------------------------------
(* The commits. *)

\* What a request that is at its commit has read is so.
LEMMA AtCommit ==
    ASSUME IInv, NEW r \in Requests, Done(r), ~seen[r].receipt, Allowed(r)
    PROVE  LET in == Cmd(r) IN
           /\ request[r] \in Keys /\ in \in Commands
           /\ in.link # None => in.link \in Companies /\ row[in.link].life # "absent"
           /\ in.record # None =>
                /\ in.record \in Records /\ <<"record", in.record>> \in held[r]
                /\ row[in.record].life # "absent" /\ row[in.record].version = in.version
           /\ in.op = "editCompany" /\ in.link # None =>
                \E S \in SUBSET Companies : /\ in.link \in S /\ in.record \notin S
                                            /\ Closed(S, row)
<1> DEFINE in == Cmd(r)
           got == seen[r]
           n == step[r]
<1>1. /\ Running(r) /\ n \in 1 .. 7 /\ n > 3 /\ Knows(r)
      /\ in.op = "editCompany" /\ in.link # None => n > 6
  BY AtTheEnd DEF IInv
<1>2. /\ request[r] \in Keys /\ in \in Commands
      /\ in.link # None => in.link \in Companies /\ row[in.link].life # "absent"
      /\ in.record # None => in.record \in Records /\ row[in.record].life # "absent"
  BY <1>1, Busy DEF IInv
<1>3. /\ in.record # None
           => <<"record", in.record>> \in held[r] /\ got.row = row[in.record]
      /\ in.op = "editCompany" /\ in.link # None =>
           /\ WalkedUp(got.walked, in.record)
           /\ got.linked =>
                /\ in.link \in DOMAIN got.walked
                /\ \A c \in DOMAIN got.walked : row[c].link = got.walked[c]
  <2>1. /\ in.record # None /\ n > 2
             => <<"record", in.record>> \in held[r] /\ got.row = row[in.record]
        /\ in.op = "editCompany" /\ in.link # None =>
             /\ n > 4 => WalkedUp(got.walked, in.record)
             /\ n > 5 /\ got.linked =>
                  /\ in.link \in DOMAIN got.walked
                  /\ \A c \in DOMAIN got.walked : row[c].link = got.walked[c]
    BY <1>1 DEF Knows
  <2> HIDE DEF in, got, n
  <2> QED BY <1>1, <2>1
<1>4. in.record # None => in.version = got.row.version
  <2>1. in.op \in Ops /\ (in.record # None => ~Creates(r))
    BY <1>2, CommandParts DEF Creates
  <2>2. CASE in.op \in {"editCompany", "editContact"}
    BY <2>1, <2>2 DEF Allowed, MayEdit, VersionMatches
  <2>3. CASE in.op = "affiliate"
    BY <2>1, <2>3 DEF Allowed, MayAffiliate, VersionMatches
  <2>4. CASE in.op \in {"archive", "restore"}
    BY <2>1, <2>4 DEF Allowed, MayChangeLife, VersionMatches
  <2> QED BY <2>1, <2>2, <2>3, <2>4, <1>2, CommandParts DEF Ops
<1>5. ASSUME in.op = "editCompany", in.link # None
      PROVE  \E S \in SUBSET Companies : /\ in.link \in S /\ in.record \notin S
                                         /\ Closed(S, row)
  <2>1. got.linked
    <3>1. ~Creates(r)
      BY <1>5 DEF Creates
    <3> QED BY <1>5, <3>1 DEF Allowed, MayEdit, LinkAvailable
  <2>2. DOMAIN got.walked \in SUBSET Companies
    BY DEF IInv, LocalTyped, SeenRows, Walks
  <2>3. Closed(DOMAIN got.walked, row)
    BY <1>3, <1>5, <2>1 DEF WalkedUp, Closed
  <2> QED BY <1>3, <1>5, <2>1, <2>2, <2>3 DEF WalkedUp
<1> QED BY <1>2, <1>3, <1>4, <1>5
-----------------------------------------------------------------------------
(* What the commits write. *)

Primaries(pts) == {q.value : q \in {p \in pts : p.kind = "mail" /\ p.primary}}
Numbers(pts) == {q.value : q \in {p \in pts : p.kind = "phone"}}

\* The points and affiliations of record x fit its row.
Fit(x, new, pts, companies) ==
    /\ Primaries(pts) = Link(new.mail)
    /\ Link(new.phone) \subseteq Numbers(pts)
    /\ x \in Contacts => companies = Link(new.link)

LEMMA AgreeMeansFit ==
    RowsAgree <=> \A x \in Records : Fit(x, row[x], points[x], affiliated[x])
  BY DEF RowsAgree, Fit, Primaries, Numbers

LEMMA PrimaryPoint ==
    ASSUME NEW kind, NEW usage, NEW value, NEW q \in Point(kind, usage, value, TRUE)
    PROVE  q.primary
  BY DEF Point

LEMMA OtherPoint ==
    ASSUME NEW kind, NEW usage, NEW value, NEW q \in Point(kind, usage, value, FALSE)
    PROVE  ~q.primary
  BY DEF Point

LEMMA MailPoint ==
    ASSUME NEW usage \in {None, "email_primary", "email_secondary"},
           NEW value \in Mails \cup {None}, NEW primary \in BOOLEAN
    PROVE  Point("mail", usage, value, primary) \in SUBSET Points
  BY DEF Point, Points

LEMMA PhonePoint ==
    ASSUME NEW usage \in {None, "phone_direct"},
           NEW value \in Phones \cup {None}, NEW primary \in BOOLEAN
    PROVE  Point("phone", usage, value, primary) \in SUBSET Points
  BY DEF Point, Points

\* The points of a new record fit its row.
LEMMA NewPointsParts ==
    ASSUME NEW x \in Records, NEW mail \in Mails \cup {None},
           NEW secondary \in Mails \cup {None}, NEW phone \in Phones \cup {None},
           x \in Companies => phone = None
    PROVE  LET pts == NewPoints(x, mail, secondary, phone) IN
           /\ pts \in SUBSET Points
           /\ Primaries(pts) = Link(mail) /\ Link(phone) \subseteq Numbers(pts)
           /\ \A q \in pts : q.usage = "email_secondary" => ~q.primary
<1> DEFINE pts == NewPoints(x, mail, secondary, phone)
<1>1. CASE x \in Companies
  <2>1. pts = Point("mail", None, mail, TRUE)
    BY <1>1 DEF NewPoints
  <2>2. /\ \A q \in pts : /\ q.kind = "mail" /\ q.usage = None
                          /\ q.value = mail /\ mail # None
        /\ mail # None => pts # {}
    <3>1. \A q \in Point("mail", None, mail, TRUE) :
            q.kind = "mail" /\ q.usage = None /\ q.value = mail /\ mail # None
      BY DEF Point
    <3>2. mail # None => Point("mail", None, mail, TRUE) # {}
      BY DEF Point
    <3> QED BY <2>1, <3>1, <3>2
  <2>4. pts \in SUBSET Points
    BY <2>1, MailPoint
  <2>5. \A q \in pts : q.primary
    BY <2>1, PrimaryPoint
  <2> HIDE DEF pts
  <2>3. Primaries(pts) = Link(mail)
    BY <2>2, <2>5, LinkParts DEF Primaries
  <2> QED BY <1>1, <2>2, <2>3, <2>4, LinkParts DEF pts, None
<1>2. CASE x \notin Companies
  <2> DEFINE m == Point("mail", "email_primary", mail, TRUE)
             n == Point("phone", "phone_direct", phone, FALSE)
             s == Point("mail", "email_secondary", secondary, FALSE)
  <2>1. pts = m \cup n \cup s
    BY <1>2 DEF NewPoints
  <2>2. m \in SUBSET Points /\ n \in SUBSET Points /\ s \in SUBSET Points
    BY MailPoint, PhonePoint
  <2>5. /\ \A q \in m : q.kind = "mail" /\ q.usage = "email_primary" /\ q.value = mail
                        /\ mail # None
        /\ mail # None => m # {}
    <3>1. \A q \in m : q.kind = "mail" /\ q.usage = "email_primary" /\ q.value = mail /\ mail # None
      BY DEF Point
    <3>2. mail # None => m # {}
      BY DEF Point
    <3> HIDE DEF m
    <3> QED BY <3>1, <3>2
  <2>6. /\ \A q \in n : q.kind = "phone" /\ q.usage = "phone_direct" /\ q.value = phone
                        /\ phone # None
        /\ phone # None => n # {}
    <3>1. \A q \in n : q.kind = "phone" /\ q.usage = "phone_direct" /\ q.value = phone /\ phone # None
      BY DEF Point
    <3>2. phone # None => n # {}
      BY DEF Point
    <3> HIDE DEF n
    <3> QED BY <3>1, <3>2
  <2>7. /\ \A q \in m : q.primary
        /\ \A q \in n \cup s : ~q.primary
    BY PrimaryPoint, OtherPoint
  <2> HIDE DEF pts, m, n, s
  <2>3. Primaries(pts) = Link(mail)
    <3>1. \A q \in pts : q.kind = "mail" /\ q.primary <=> q \in m
      BY <2>1, <2>5, <2>7
    <3> QED BY <2>1, <2>5, <3>1, LinkParts DEF Primaries
  <2>4. Link(phone) \subseteq Numbers(pts)
    BY <2>1, <2>6, LinkParts DEF Numbers
  <2> QED BY <2>1, <2>2, <2>3, <2>4, <2>5, <2>7 DEF pts
<1> QED BY <1>1, <1>2

LEMMA ReplacedSame ==
    ASSUME NEW pts, NEW kind, NEW value
    PROVE  Replaced(pts, kind, value, value) = pts
  BY DEF Replaced

PrimaryPointOf(kind, value) == Point(kind, None, value, TRUE)

\* An edit exchanges the primary point of one kind.
LEMMA ReplacedParts ==
    ASSUME NEW pts \in SUBSET Points, NEW kind, NEW old, NEW new,
           old # new, PrimaryPointOf(kind, new) \in SUBSET Points,
           NEW to, to = Replaced(pts, kind, old, new)
    PROVE  /\ to \in SUBSET Points
           /\ \A q \in to : q.kind = kind /\ q.primary => q.value = new /\ new # None
           /\ new # None => \E q \in to : q.kind = kind /\ q.primary /\ q.value = new
           /\ \A q \in Points : q.kind # kind => (q \in to <=> q \in pts)
           /\ \A q \in to : q.usage = "email_secondary" => q \in pts
<1> DEFINE one == PrimaryPointOf(kind, new)
           rest == {q \in pts : ~(q.kind = kind /\ q.primary)}
<1>1. \A q \in one : q.kind = kind /\ q.usage = None /\ q.value = new /\ new # None
  BY DEF Point, PrimaryPointOf
<1>2. new # None => one # {}
  BY DEF Point, PrimaryPointOf
<1>3. one \in SUBSET Points /\ \A q \in one : q.primary
  BY PrimaryPoint DEF PrimaryPointOf
<1>4. to = rest \cup one
  BY DEF Replaced, PrimaryPointOf
<1>5. /\ rest \subseteq pts
      /\ \A q \in pts : q \notin rest <=> (q.kind = kind /\ q.primary)
  OBVIOUS
<1>6. None # "email_secondary"
  BY DEF None
<1> HIDE DEF one, rest
<1>7. to \in SUBSET Points
  BY <1>3, <1>4, <1>5
<1>8. \A q \in to : q.kind = kind /\ q.primary => q.value = new /\ new # None
  BY <1>1, <1>4, <1>5
<1>9. new # None => \E q \in to : q.kind = kind /\ q.primary /\ q.value = new
  BY <1>1, <1>2, <1>3, <1>4
<1>10. \A q \in Points : q.kind # kind => (q \in to <=> q \in pts)
  BY <1>1, <1>4, <1>5
<1>11. \A q \in to : q.usage = "email_secondary" => q \in pts
  BY <1>1, <1>4, <1>5, <1>6
<1> QED BY <1>7, <1>8, <1>9, <1>10, <1>11

\* The points after an edit fit the row after it.
LEMMA EditedPointsParts ==
    ASSUME IInv, NEW r \in Requests, Cmd(r) \in Commands, Cmd(r).record \in Records,
           Cmd(r).record \in Companies => Cmd(r).phone = None
    PROVE  /\ EditedPoints(r) \in SUBSET Points
           /\ Primaries(EditedPoints(r)) = Link(Cmd(r).mail)
           /\ Link(Cmd(r).phone) \subseteq Numbers(EditedPoints(r))
           /\ \A q \in EditedPoints(r) : q.usage = "email_secondary" => ~q.primary
<1> DEFINE x == Cmd(r).record
           in == Cmd(r)
           p0 == points[x]
           p1 == Replaced(p0, "mail", row[x].mail, in.mail)
           p2 == Replaced(p1, "phone", row[x].phone, in.phone)
           p3 == EditedPoints(r)
<1>1. /\ in.mail \in Mails \cup {None} /\ in.phone \in Phones \cup {None}
      /\ in.secondary \in Mails \cup {None}
  BY CommandParts
<1>2. /\ p0 \in SUBSET Points
      /\ Primaries(p0) = Link(row[x].mail) /\ Link(row[x].phone) \subseteq Numbers(p0)
      /\ \A q \in p0 : q.usage = "email_secondary" => ~q.primary
  BY AgreeMeansFit DEF IInv, RowsTyped, Fit, SecondaryApart
<1>3. \A q \in Points : /\ q.kind \in {"mail", "phone"} /\ q.primary \in BOOLEAN
                        /\ q.usage = "email_secondary" => q.kind = "mail"
  BY DEF Points, None
<1>4. /\ p1 \in SUBSET Points
      /\ row[x].mail = in.mail => p1 = p0
      /\ row[x].mail # in.mail =>
           /\ \A q \in p1 : q.kind = "mail" /\ q.primary => q.value = in.mail /\ in.mail # None
           /\ in.mail # None => \E q \in p1 : q.kind = "mail" /\ q.primary /\ q.value = in.mail
      /\ \A q \in Points : q.kind # "mail" => (q \in p1 <=> q \in p0)
      /\ \A q \in p1 : q.usage = "email_secondary" => q \in p0
  <2> HIDE DEF x, in, p0
  <2>1. PrimaryPointOf("mail", in.mail) \in SUBSET Points
    BY <1>1, MailPoint DEF PrimaryPointOf
  <2>2. p1 = Replaced(p0, "mail", row[x].mail, in.mail)
    OBVIOUS
  <2> HIDE DEF p1
  <2>3. CASE row[x].mail = in.mail
    BY <1>2, <2>2, <2>3, ReplacedSame
  <2>4. CASE row[x].mail # in.mail
    <3>1. /\ p1 \in SUBSET Points
          /\ \A q \in p1 : q.kind = "mail" /\ q.primary => q.value = in.mail /\ in.mail # None
          /\ in.mail # None => \E q \in p1 : q.kind = "mail" /\ q.primary /\ q.value = in.mail
          /\ \A q \in Points : q.kind # "mail" => (q \in p1 <=> q \in p0)
          /\ \A q \in p1 : q.usage = "email_secondary" => q \in p0
      BY <1>2, <2>1, <2>2, <2>4, ReplacedParts
    <3> QED BY <2>4, <3>1
  <2> QED BY <2>3, <2>4
<1>5. /\ p2 \in SUBSET Points
      /\ row[x].phone = in.phone => p2 = p1
      /\ row[x].phone # in.phone /\ in.phone # None =>
           \E q \in p2 : q.kind = "phone" /\ q.primary /\ q.value = in.phone
      /\ \A q \in Points : q.kind # "phone" => (q \in p2 <=> q \in p1)
      /\ \A q \in p2 : q.usage = "email_secondary" => q \in p1
  <2> HIDE DEF x, in, p1
  <2>1. PrimaryPointOf("phone", in.phone) \in SUBSET Points
    BY <1>1, PhonePoint DEF PrimaryPointOf
  <2>2. p2 = Replaced(p1, "phone", row[x].phone, in.phone)
    OBVIOUS
  <2> HIDE DEF p2
  <2>5. p1 \in SUBSET Points
    BY <1>4
  <2>3. CASE row[x].phone = in.phone
    BY <1>4, <2>2, <2>3, ReplacedSame
  <2>4. CASE row[x].phone # in.phone
    <3>1. p2 \in SUBSET Points
      BY <2>1, <2>2, <2>4, <2>5, ReplacedParts
    <3>2. in.phone # None => \E q \in p2 : q.kind = "phone" /\ q.primary /\ q.value = in.phone
      BY <2>1, <2>2, <2>4, <2>5, ReplacedParts
    <3>3. \A q \in Points : q.kind # "phone" => (q \in p2 <=> q \in p1)
      BY <2>1, <2>2, <2>4, <2>5, ReplacedParts
    <3>4. \A q \in p2 : q.usage = "email_secondary" => q \in p1
      BY <2>1, <2>2, <2>4, <2>5, ReplacedParts
    <3> QED BY <2>4, <3>1, <3>2, <3>3, <3>4
  <2> QED BY <2>3, <2>4
<1>6. Channels(r) = p2
  BY DEF Channels
<1> DEFINE kept == WithoutUsage(p2, "email_secondary")
           second == Point("mail", "email_secondary", in.secondary, FALSE)
<1>7. p3 = p2 \/ p3 = kept \cup second
  BY <1>6 DEF EditedPoints
<1>8. /\ second \in SUBSET Points
      /\ \A q \in second : q.kind = "mail"
      /\ \A q \in second : ~q.primary
  <2>1. \A q \in second : ~q.primary
    BY OtherPoint
  <2>2. second \in SUBSET Points
    BY <1>1, MailPoint
  <2>3. \A q \in second : q.kind = "mail"
    BY DEF Point
  <2> HIDE DEF second
  <2> QED BY <2>1, <2>2, <2>3
<1>9. kept \subseteq p2 /\ \A q \in p2 : q \in kept <=> q.usage # "email_secondary"
  BY DEF WithoutUsage
<1>10. /\ \A q : q \in Primaries(p0) <=> \E z \in p0 : z.kind = "mail" /\ z.primary /\ q = z.value
       /\ \A q : q \in Primaries(p3) <=> \E z \in p3 : z.kind = "mail" /\ z.primary /\ q = z.value
       /\ \A q : q \in Numbers(p0) <=> \E z \in p0 : z.kind = "phone" /\ q = z.value
       /\ \A q : q \in Numbers(p3) <=> \E z \in p3 : z.kind = "phone" /\ q = z.value
  BY DEF Primaries, Numbers
<1> HIDE DEF x, in, p0, p1, p2, p3, kept, second
<1>11. p3 \in SUBSET Points
  BY <1>5, <1>7, <1>8, <1>9
<1>12. \A q \in p2 : q.usage = "email_secondary" => ~q.primary
  BY <1>2, <1>4, <1>5
<1>13. \A q \in p3 : q.usage = "email_secondary" => ~q.primary
  BY <1>7, <1>8, <1>9, <1>12
<1>14. \A q \in Points : q.kind = "mail" /\ q.primary => (q \in p3 <=> q \in p1)
  <2>1. \A q \in Points : q.kind = "mail" => (q \in p2 <=> q \in p1)
    BY <1>5
  <2>2. \A q \in Points : q.kind = "mail" /\ q.primary => (q \in p3 <=> q \in p2)
    BY <1>7, <1>8, <1>9, <1>12
  <2> QED BY <2>1, <2>2
<1>15. Primaries(p3) = Link(in.mail)
  <2>1. CASE row[x].mail = in.mail
    <3>1. \A z : z \in p3 /\ z.kind = "mail" /\ z.primary
               <=> z \in p0 /\ z.kind = "mail" /\ z.primary
      BY <1>2, <1>4, <1>11, <1>14, <2>1
    <3>2. \A q : q \in Primaries(p3) <=> q \in Primaries(p0)
      BY <1>10, <3>1
    <3>3. Primaries(p3) = Primaries(p0)
      BY <3>2
    <3> QED BY <1>2, <2>1, <3>3
  <2>2. CASE row[x].mail # in.mail
    <3>1. \A z \in p3 : z.kind = "mail" /\ z.primary => z.value = in.mail /\ in.mail # None
      BY <1>4, <1>11, <1>14, <2>2
    <3>2. in.mail # None => \E z \in p3 : z.kind = "mail" /\ z.primary /\ z.value = in.mail
      BY <1>4, <1>14, <2>2
    <3>3. \A q : q \in Primaries(p3) <=> q = in.mail /\ in.mail # None
      BY <1>10, <3>1, <3>2
    <3> QED BY <3>3, LinkParts
  <2> QED BY <2>1, <2>2
<1>16. \A q \in p2 : q.kind = "phone" => q \in p3
  BY <1>3, <1>5, <1>7, <1>9
<1>17. Link(in.phone) \subseteq Numbers(p3)
  <2>1. CASE row[x].phone = in.phone
    <3>1. \A q \in p0 : q.kind = "phone" => q \in p3
      BY <1>2, <1>4, <1>5, <1>16, <2>1
    <3> QED BY <1>2, <1>10, <2>1, <3>1
  <2>2. CASE row[x].phone # in.phone
    BY <1>5, <1>10, <1>16, <2>2, LinkParts
  <2> QED BY <2>1, <2>2
<1> QED BY <1>11, <1>13, <1>15, <1>17 DEF in, p3

\* Without new parents there is no new circle.
LEMMA SameLinks ==
    ASSUME NEW rows, NEW new,
           \A c \in Companies : /\ rows[c].link \in Companies \cup {None}
                                /\ new[c].link = rows[c].link,
           \A c \in Companies : rows[c].link # None => c \notin Above(rows[c].link, rows)
    PROVE  \A c \in Companies : new[c].link # None => c \notin Above(new[c].link, new)
<1> SUFFICES ASSUME NEW c \in Companies, new[c].link # None
             PROVE  c \notin Above(new[c].link, new)
  OBVIOUS
<1> DEFINE S == Above(rows[c].link, rows)
<1>1. /\ rows[c].link \in S /\ S \in SUBSET Companies /\ Closed(S, rows) /\ c \notin S
  BY AboveParts
<1>2. Link(new[c].link) \subseteq S
  BY <1>1, LinkParts
<1> HIDE DEF S
<1> QED BY <1>1, <1>2, NoNewCycle

\* A commit writes record x, which is new or locked by it, with a higher
\* version and with points and affiliations that fit.
LEMMA RowsWritten ==
    ASSUME IInv, NEW r \in Requests, Close(r), UNCHANGED <<member, sent, page>>,
           request[r] \in Keys, receipts' = receipts \cup {request[r]},
           NEW x \in Records, NEW new, NEW P \in SUBSET Points, NEW T \in SUBSET Teams,
           NEW A \in SUBSET Companies,
           new \in ContactRows, x \in Companies => new \in CompanyRows,
           row' = [row EXCEPT ![x] = new], points' = [points EXCEPT ![x] = P],
           teams' = [teams EXCEPT ![x] = T],
           affiliated' = [p \in Contacts |-> IF p = x THEN A ELSE affiliated[p]],
           row[x].life = "absent" \/ <<"record", x>> \in held[r],
           new.version > row[x].version, new.life # "absent",
           \A c \in Link(new.link) : row[c].life # "absent",
           \A q \in P : q.usage = "email_secondary" => ~q.primary,
           Fit(x, new, P, A),
           \/ x \notin Companies \/ new.link = row[x].link
           \/ \E S \in SUBSET Companies : /\ x \notin S /\ Closed(S, row)
                                          /\ Link(new.link) \subseteq S
    PROVE  IInv'
<1>1. /\ row' = [y \in Records |-> IF y = x THEN new ELSE row[y]]
      /\ row'[x] = new /\ \A y \in Records : y # x => row'[y] = row[y]
  BY DEF IInv, RowsTyped
<1>2. /\ points' = [y \in Records |-> IF y = x THEN P ELSE points[y]]
      /\ teams' = [y \in Records |-> IF y = x THEN T ELSE teams[y]]
  BY DEF IInv, RowsTyped
<1>3. new.version \in Nat /\ new.link \in Companies \cup {None}
  BY DEF ContactRows
<1>4. RowsTyped'
  <2>1. \A y \in Records : row'[y] \in IF y \in Companies THEN CompanyRows ELSE ContactRows
    BY <1>1 DEF IInv, RowsTyped
  <2>2. row' = [y \in Records |-> row'[y]]
    BY <1>1
  <2>3. /\ points' \in [Records -> SUBSET Points] /\ teams' \in [Records -> SUBSET Teams]
        /\ affiliated' \in [Contacts -> SUBSET Companies]
    BY <1>2 DEF IInv, RowsTyped
  <2>4. member' \in [Members -> MemberRows] /\ receipts' \subseteq Keys
    BY DEF IInv, RowsTyped
  <2> QED BY <2>1, <2>2, <2>3, <2>4 DEF RowsTyped
<1>5. \A y \in Records : row[y].life # "absent" => row'[y].life # "absent"
  BY <1>1
<1>6. RowsSound'
  <2>1. ASSUME NEW y \in Records
        PROVE  /\ row'[y].life = "absent" => row'[y] = NoRecord
               /\ \A c \in Link(row'[y].link) : row'[c].life # "absent"
    <3>1. \A c \in Link(row'[y].link) : c \in Records /\ row[c].life # "absent"
      <4>1. row'[y].link \in Companies \cup {None}
        BY <1>1, <1>3, RowParts DEF IInv
      <4>2. \A c \in Link(row'[y].link) : row[c].life # "absent"
        BY <1>1 DEF IInv, RowsSound
      <4> QED BY <4>1, <4>2, LinkParts DEF Records
    <3>2. row'[y].life = "absent" => row'[y] = NoRecord
      BY <1>1 DEF IInv, RowsSound
    <3> QED BY <1>5, <3>1, <3>2
  <2> QED BY <2>1 DEF RowsSound
<1>7. SecondaryApart'
  BY <1>2 DEF IInv, SecondaryApart
<1>8. RowsAgree'
  <2>1. ASSUME NEW y \in Records
        PROVE  Fit(y, row'[y], points'[y], affiliated'[y])
    <3>1. CASE y = x
      BY <1>1, <1>2, <3>1 DEF Fit
    <3>2. CASE y # x
      <4>1. row'[y] = row[y] /\ points'[y] = points[y]
        BY <1>1, <1>2, <3>2
      <4>2. y \in Contacts => affiliated'[y] = affiliated[y]
        BY <3>2
      <4> QED BY <4>1, <4>2, AgreeMeansFit DEF IInv, Fit
    <3> QED BY <3>1, <3>2
  <2> QED BY <2>1 DEF RowsAgree, Fit, Primaries, Numbers
<1>9. NoParentCycle'
  <2>1. \A c \in Companies : /\ row[c].link \in Companies \cup {None}
                             /\ row'[c].link \in Companies \cup {None}
                             /\ c # x => row'[c].link = row[c].link
    BY <1>1, <1>3, RowParts DEF IInv, Records
  <2>2. \A c \in Companies : row[c].link # None => c \notin Above(row[c].link, row)
    BY DEF IInv, NoParentCycle, Chain
  <2>3. \A c \in Companies : row'[c].link # None => c \notin Above(row'[c].link, row')
    <3>1. CASE x \notin Companies \/ new.link = row[x].link
      <4>1. \A c \in Companies : row'[c].link = row[c].link
        BY <1>1, <2>1, <3>1
      <4> QED BY <2>1, <2>2, <4>1, SameLinks
    <3>2. CASE x \in Companies /\ new.link # row[x].link
      <4>1. PICK S \in SUBSET Companies : x \notin S /\ Closed(S, row) /\ Link(new.link) \subseteq S
        BY <3>2
      <4>2. Link(row'[x].link) \subseteq S
        BY <1>1, <4>1
      <4> QED BY <2>1, <2>2, <3>2, <4>1, <4>2, NoNewCycle
    <3> QED BY <3>1, <3>2
  <2> QED BY <2>3 DEF NoParentCycle, Chain
<1>10. LocalInv'
  <2>1. ASSUME NEW q \in Requests, q # r
        PROVE  Knows(q)'
    <3>1. Same(q)
      BY <2>1, AfterClose
    <3>2. \A y \in Records : row[y].life # "absent" /\ row'[y] # row[y]
                               => <<"record", y>> \notin held[q]
      BY <1>1, <2>1 DEF IInv, OneHolder
    <3> QED BY <3>1, <3>2, KnowsKept
  <2> QED BY <2>1, AfterClose DEF LocalInv
<1>11. SentTyped' /\ SentSound'
  <2>1. \A k \in Keys : sent[k] # NoCommand =>
          /\ sent[k].record # None => sent[k].record \in Records
          /\ sent[k].link # None => sent[k].link \in Records
    BY CommandParts DEF IInv, SentTyped, Records
  <2>2. SentTyped'
    BY DEF IInv, SentTyped
  <2> QED BY <1>5, <2>1, <2>2 DEF IInv, SentSound
<1>12. PagesTyped' /\ PagesSound'
  <2>1. PagesTyped'
    BY DEF IInv, PagesTyped
  <2>2. ASSUME NEW v \in Pages, NEW y \in OnPage(v)
        PROVE  Reads(v, y)' /\ row'[y].life # "absent"
    <3>1. y \in Records /\ page[v].rows[y].version \in Nat
      BY DEF IInv, PagesTyped, PageTypes, OnPage, ContactRows
    <3>2. Reads(v, y) /\ row[y].life # "absent"
      BY DEF IInv, PagesSound
    <3>3. CASE y = x
      <4>1. page[v].rows[y].version <= row[y].version /\ row[y].version \in Nat
        BY <3>1, <3>2, RowParts DEF IInv, Reads
      <4>2. /\ page[v].rows[y].version <= new.version
            /\ page[v].rows[y].version # new.version
        BY <1>3, <3>1, <3>3, <4>1
      <4> QED BY <1>1, <3>3, <4>2 DEF Reads
    <3>4. CASE y # x
      <4>1. row'[y] = row[y] /\ teams'[y] = teams[y]
        BY <1>1, <1>2, <3>1, <3>4
      <4>2. y \in Contacts => affiliated'[y] = affiliated[y]
        BY <3>4
      <4> QED BY <3>2, <4>1, <4>2 DEF Reads
    <3> QED BY <3>3, <3>4
  <2>3. PagesSound'
    <3>1. \A v \in Pages : OnPage(v)' = OnPage(v) /\ page'[v] = page[v]
      BY DEF OnPage
    <3> QED BY <2>2, <3>1 DEF IInv, PagesSound
  <2> QED BY <2>1, <2>3
<1> QED BY <1>4, <1>6, <1>7, <1>8, <1>9, <1>10, <1>11, <1>12 DEF IInv, LocalInv

\* What a commit does besides its writes.
LEMMA CommitParts ==
    ASSUME IInv, NEW r \in Requests, NEW ops, Commit(r, ops)
    PROVE  /\ Close(r) /\ UNCHANGED <<member, sent, page>>
           /\ request[r] \in Keys /\ receipts' = receipts \cup {request[r]}
           /\ Cmd(r).op \in ops /\ Cmd(r) \in Commands
           /\ Cmd(r).link # None => Cmd(r).link \in Companies /\ row[Cmd(r).link].life # "absent"
           /\ Cmd(r).record # None =>
                /\ Cmd(r).record \in Records /\ <<"record", Cmd(r).record>> \in held[r]
                /\ row[Cmd(r).record].life # "absent"
                /\ row[Cmd(r).record].version = Cmd(r).version
           /\ Cmd(r).op = "editCompany" /\ Cmd(r).link # None =>
                \E S \in SUBSET Companies : /\ Cmd(r).link \in S /\ Cmd(r).record \notin S
                                            /\ Closed(S, row)
<1>1. /\ Close(r) /\ UNCHANGED <<member, sent, page>>
      /\ receipts' = receipts \cup {request[r]} /\ Cmd(r).op \in ops
      /\ Done(r) /\ ~seen[r].receipt /\ Allowed(r)
  BY DEF Commit
<1> QED BY <1>1, AtCommit

\* Nothing refers to a new company, and a new company only to companies that
\* are there.
LEMMA InsertedStep ==
    ASSUME IInv, NEW r \in Requests, NEW op \in {"createCompany", "createContact"},
           Commit(r, {op}), NEW x \in Room(r), Inserted(r, x),
           affiliated' = [p \in Contacts |-> IF p = x THEN Link(Cmd(r).link) ELSE affiliated[p]]
    PROVE  IInv'
<1> DEFINE in == Cmd(r)
           new == [life |-> "active", version |-> 1, link |-> in.link, mail |-> in.mail,
                   phone |-> in.phone, responsible |-> in.responsible]
           P == NewPoints(x, in.mail, in.secondary, in.phone)
<1>1. /\ Close(r) /\ UNCHANGED <<member, sent, page>>
      /\ request[r] \in Keys /\ receipts' = receipts \cup {request[r]}
      /\ in.op \in {op} /\ in \in Commands
      /\ in.link # None => in.link \in Companies /\ row[in.link].life # "absent"
  <2> HIDE DEF new, P
  <2> QED BY CommitParts
<1>2. /\ in.link \in Companies \cup {None} /\ in.mail \in Mails \cup {None}
      /\ in.phone \in Phones \cup {None} /\ in.responsible \in Members \cup {None}
      /\ in.secondary \in Mails \cup {None} /\ in.teams \in SUBSET Teams
      /\ op = "createCompany" => in.phone = None
  BY <1>1, CommandParts
<1>3. /\ x \in Records /\ row[x].life = "absent"
      /\ x \in Companies => op = "createCompany"
  BY <1>1, GraphAssumption DEF Room, Records
<1>4. row[x].version = 0
  BY <1>3 DEF IInv, RowsSound, NoRecord
<1>5. new \in ContactRows /\ (x \in Companies => new \in CompanyRows)
  BY <1>2, <1>3 DEF ContactRows, CompanyRows, Lives
<1>6. /\ P \in SUBSET Points
      /\ \A q \in P : q.usage = "email_secondary" => ~q.primary
      /\ Fit(x, new, P, Link(in.link))
  <2> HIDE DEF in
  <2>1. /\ P \in SUBSET Points
        /\ Primaries(P) = Link(in.mail) /\ Link(in.phone) \subseteq Numbers(P)
        /\ \A q \in P : q.usage = "email_secondary" => ~q.primary
    BY <1>2, <1>3, NewPointsParts
  <2> HIDE DEF P
  <2> QED BY <2>1 DEF Fit
<1>7. Link(in.link) \in SUBSET Companies /\ \A c \in Link(in.link) : row[c].life # "absent"
  BY <1>1, <1>2, LinkParts
<1> DEFINE S == {c \in Companies : row[c].life # "absent"}
<1>8. S \in SUBSET Companies /\ x \notin S /\ Closed(S, row) /\ Link(in.link) \subseteq S
  <2>1. ASSUME NEW c \in S, NEW d \in Link(row[c].link)
        PROVE  d \in S
    <3>1. c \in Records /\ row[c].link \in Companies \cup {None}
      BY RowParts DEF IInv, Records
    <3>2. d \in Companies
      BY <2>1, <3>1, LinkParts
    <3> QED BY <2>1, <3>1, <3>2 DEF IInv, RowsSound
  <2> QED BY <1>3, <1>7, <2>1 DEF Closed
<1>9. /\ row' = [row EXCEPT ![x] = new] /\ points' = [points EXCEPT ![x] = P]
      /\ teams' = [teams EXCEPT ![x] = in.teams]
  BY DEF Inserted, AssignedTo
<1>10. new.version > row[x].version /\ new.life # "absent" /\ new.link = in.link
  BY <1>4
<1> HIDE DEF in, new, P, S
<1>11. affiliated' = [p \in Contacts |-> IF p = x THEN Link(in.link) ELSE affiliated[p]]
  BY DEF in
<1>12. \/ x \notin Companies \/ new.link = row[x].link
       \/ \E W \in SUBSET Companies : /\ x \notin W /\ Closed(W, row)
                                      /\ Link(new.link) \subseteq W
  BY <1>8, <1>10
<1>13. row[x].life = "absent" \/ <<"record", x>> \in held[r]
  BY <1>3
<1>14. \A c \in Link(new.link) : row[c].life # "absent"
  BY <1>7, <1>10
<1> QED BY <1>1, <1>2, <1>3, <1>5, <1>6, <1>7, <1>9, <1>10, <1>11, <1>12, <1>13, <1>14,
           RowsWritten

LEMMA CreateStep ==
    ASSUME IInv, NEW r \in Requests, CreateCompany(r) \/ CreateContact(r)
    PROVE  IInv'
<1>1. affiliated \in [Contacts -> SUBSET Companies]
  BY DEF IInv, RowsTyped
<1>2. CASE CreateCompany(r)
  <2>1. PICK x \in Room(r) : Inserted(r, x)
    BY <1>2 DEF CreateCompany
  <2>2. Commit(r, {"createCompany"}) /\ affiliated' = affiliated
    BY <1>2 DEF CreateCompany
  <2>3. x \in Companies
    <3>1. Cmd(r).op \in {"createCompany"}
      BY <2>2, CommitParts
    <3> QED BY <3>1 DEF Room
  <2>4. affiliated' = [p \in Contacts |-> IF p = x THEN Link(Cmd(r).link) ELSE affiliated[p]]
    BY <1>1, <2>2, <2>3, GraphAssumption
  <2> QED BY <2>1, <2>2, <2>4, InsertedStep
<1>3. CASE CreateContact(r)
  <2>1. PICK x \in Room(r) : Inserted(r, x) /\ Affiliate(x, Cmd(r).link)
    BY <1>3 DEF CreateContact
  <2>2. Commit(r, {"createContact"})
    BY <1>3 DEF CreateContact
  <2>4. affiliated' = [p \in Contacts |-> IF p = x THEN Link(Cmd(r).link) ELSE affiliated[p]]
    BY <1>1, <2>1 DEF Affiliate
  <2> QED BY <2>1, <2>2, <2>4, InsertedStep
<1> QED BY <1>2, <1>3

\* The update finds the version the command has, and raises it.
LEMMA WrittenParts ==
    ASSUME NEW r \in Requests, row[Cmd(r).record].version = Cmd(r).version, NEW new,
           Written(r, new), row = [y \in Records |-> row[y]], Cmd(r).record \in Records
    PROVE  row' = [row EXCEPT ![Cmd(r).record] = [new EXCEPT !.version = @ + 1]]
  BY DEF Written

LEMMA EditedStep ==
    ASSUME IInv, NEW r \in Requests, NEW op \in {"editCompany", "editContact"},
           Commit(r, {op}), NEW link, Edited(r, link),
           \/ link = row[Cmd(r).record].link
           \/ op = "editCompany" /\ link = Cmd(r).link
    PROVE  IInv'
<1> DEFINE in == Cmd(r)
           x == Cmd(r).record
           old == row[x]
           new == [life |-> old.life, version |-> old.version + 1, link |-> link,
                   mail |-> in.mail, phone |-> in.phone, responsible |-> in.responsible]
           P == EditedPoints(r)
           A == IF x \in Contacts THEN affiliated[x] ELSE {}
<1>1. /\ Close(r) /\ UNCHANGED <<member, sent, page>>
      /\ request[r] \in Keys /\ receipts' = receipts \cup {request[r]}
      /\ in.op \in {op} /\ in \in Commands
      /\ in.link # None => in.link \in Companies /\ row[in.link].life # "absent"
      /\ x # None => /\ x \in Records /\ <<"record", x>> \in held[r]
                     /\ old.life # "absent" /\ old.version = in.version
      /\ in.op = "editCompany" /\ in.link # None =>
           \E S \in SUBSET Companies : in.link \in S /\ x \notin S /\ Closed(S, row)
  <2> HIDE DEF new, P, A
  <2> QED BY CommitParts
<1>2. /\ in.link \in Companies \cup {None} /\ in.mail \in Mails \cup {None}
      /\ in.phone \in Phones \cup {None} /\ in.responsible \in Members \cup {None}
      /\ in.teams \in SUBSET Teams /\ x # None
      /\ op = "editCompany" => x \in Companies /\ in.phone = None
      /\ op = "editContact" => x \in Contacts
  BY <1>1, CommandParts
<1>3. /\ x \in Records /\ old.life # "absent" /\ old.version = in.version
      /\ old \in ContactRows /\ (x \in Companies => old \in CompanyRows)
      /\ old.life \in Lives /\ old.version \in Nat
      /\ old.link \in Companies \cup {None}
  <2>1. x \in Records
    BY <1>1, <1>2
  <2> QED BY <1>1, <1>2, <2>1, RowParts DEF IInv
<1>4. x \in Companies => op = "editCompany"
  BY <1>2, GraphAssumption
<1>5. link \in Companies \cup {None} /\ \A c \in Link(link) : row[c].life # "absent"
  <2>1. \A c \in Link(old.link) : row[c].life # "absent"
    BY <1>3 DEF IInv, RowsSound
  <2>2. \A c \in Link(in.link) : row[c].life # "absent"
    BY <1>1, <1>2, LinkParts
  <2> QED BY <1>2, <1>3, <2>1, <2>2
<1>6. new \in ContactRows /\ (x \in Companies => new \in CompanyRows)
  BY <1>2, <1>3, <1>4, <1>5 DEF ContactRows, CompanyRows
<1>7. row' = [row EXCEPT ![x] = new]
  <2> DEFINE edit == [old EXCEPT !.mail = in.mail, !.phone = in.phone,
                                 !.responsible = in.responsible, !.link = link]
  <2>1. Written(r, edit)
    BY DEF Edited
  <2>2. row = [y \in Records |-> row[y]]
    BY DEF IInv, RowsTyped
  <2>3. row' = [row EXCEPT ![x] = [edit EXCEPT !.version = @ + 1]]
    <3> HIDE DEF edit
    <3> QED BY <1>3, <2>1, <2>2, WrittenParts
  <2>4. [edit EXCEPT !.version = @ + 1] = new
    <3>1. edit \in [life : {old.life}, version : {old.version}, link : {link},
                    mail : {in.mail}, phone : {in.phone}, responsible : {in.responsible}]
      <4> HIDE DEF old, in
      <4> QED BY <1>3 DEF ContactRows
    <3>2. edit = [life |-> old.life, version |-> old.version, link |-> link, mail |-> in.mail,
                  phone |-> in.phone, responsible |-> in.responsible]
      <4> HIDE DEF edit, old, in
      <4> QED BY <3>1
    <3> HIDE DEF edit
    <3> QED BY <3>2
  <2> QED BY <2>3, <2>4
<1>8. /\ points' = [points EXCEPT ![x] = P] /\ teams' = [teams EXCEPT ![x] = in.teams]
      /\ affiliated' = affiliated
  BY DEF Edited, AssignedTo
<1>9. affiliated' = [p \in Contacts |-> IF p = x THEN A ELSE affiliated[p]]
  BY <1>8 DEF IInv, RowsTyped
<1>10. A \in SUBSET Companies
  BY DEF IInv, RowsTyped
<1>11. /\ P \in SUBSET Points
       /\ \A q \in P : q.usage = "email_secondary" => ~q.primary
       /\ Primaries(P) = Link(in.mail) /\ Link(in.phone) \subseteq Numbers(P)
  BY <1>1, <1>2, <1>3, <1>4, EditedPointsParts
<1>12. Fit(x, new, P, A)
  <2>1. x \in Contacts => A = Link(link)
    <3>1. x \in Contacts => link = old.link
      BY <1>2, GraphAssumption
    <3> QED BY <1>3, <3>1 DEF IInv, RowsAgree
  <2>2. new.mail = in.mail /\ new.phone = in.phone /\ new.link = link
    OBVIOUS
  <2> HIDE DEF new, P, A
  <2> QED BY <1>11, <2>1, <2>2 DEF Fit
<1>13. /\ new.version > old.version /\ new.life # "absent" /\ new.link = link
  BY <1>3
<1>14. <<"record", x>> \in held[r]
  BY <1>1, <1>2
<1>15. \/ x \notin Companies \/ new.link = old.link
       \/ \E S \in SUBSET Companies : /\ x \notin S /\ Closed(S, row)
                                      /\ Link(new.link) \subseteq S
  <2>1. CASE link = old.link
    BY <1>13, <2>1
  <2>2. CASE op = "editCompany" /\ link = in.link /\ in.link = None
    <3>1. {} \in SUBSET Companies /\ x \notin {} /\ Closed({}, row) /\ Link(link) \subseteq {}
      BY <2>2, LinkParts DEF Closed
    <3> QED BY <1>13, <3>1
  <2>3. CASE op = "editCompany" /\ link = in.link /\ in.link # None
    <3>1. PICK S \in SUBSET Companies : in.link \in S /\ x \notin S /\ Closed(S, row)
      BY <1>1, <2>3
    <3>2. Link(link) \subseteq S
      BY <2>3, <3>1, LinkParts
    <3> QED BY <1>13, <3>1, <3>2
  <2> QED BY <2>1, <2>2, <2>3
<1>16. \A c \in Link(new.link) : row[c].life # "absent"
  BY <1>5, <1>13
<1>17. row[x].life = "absent" \/ <<"record", x>> \in held[r]
  BY <1>14
<1> HIDE DEF in, x, old, new, P, A
<1>18. new.version > row[x].version
  BY <1>13 DEF old
<1>19. \/ x \notin Companies \/ new.link = row[x].link
       \/ \E S \in SUBSET Companies : /\ x \notin S /\ Closed(S, row)
                                      /\ Link(new.link) \subseteq S
  BY <1>15 DEF old
<1> QED BY <1>1, <1>2, <1>3, <1>6, <1>7, <1>8, <1>9, <1>10, <1>11, <1>12, <1>13, <1>16,
           <1>17, <1>18, <1>19, RowsWritten

LEMMA EditStep ==
    ASSUME IInv, NEW r \in Requests, EditCompany(r) \/ EditContact(r)
    PROVE  IInv'
<1>1. CASE EditCompany(r)
  <2>1. CASE Cmd(r).profile
    BY <1>1, <2>1, EditedStep DEF EditCompany
  <2>2. CASE ~Cmd(r).profile
    BY <1>1, <2>2, EditedStep DEF EditCompany
  <2> QED BY <2>1, <2>2
<1>2. CASE EditContact(r)
  BY <1>2, EditedStep DEF EditContact
<1> QED BY <1>1, <1>2

LEMMA ChangeLifeStep ==
    ASSUME IInv, NEW r \in Requests, ChangeLife(r)
    PROVE  IInv'
<1> DEFINE in == Cmd(r)
           x == Cmd(r).record
           old == row[x]
           life == IF in.op = "archive" THEN "archived" ELSE "active"
           new == [life |-> life, version |-> old.version + 1, link |-> old.link,
                   mail |-> old.mail, phone |-> old.phone, responsible |-> old.responsible]
           A == IF x \in Contacts THEN affiliated[x] ELSE {}
<1>0. /\ Commit(r, {"archive", "restore"}) /\ Written(r, [old EXCEPT !.life = life])
      /\ UNCHANGED <<points, affiliated, teams>>
  BY DEF ChangeLife
<1>1. /\ Close(r) /\ UNCHANGED <<member, sent, page>>
      /\ request[r] \in Keys /\ receipts' = receipts \cup {request[r]}
      /\ in.op \in {"archive", "restore"} /\ in \in Commands
      /\ x # None => /\ x \in Records /\ <<"record", x>> \in held[r]
                     /\ old.life # "absent" /\ old.version = in.version
  <2> HIDE DEF new, A
  <2> QED BY <1>0, CommitParts
<1>2. x # None
  BY <1>1, CommandParts
<1>3. /\ x \in Records /\ old.life # "absent" /\ old.version = in.version
      /\ old \in ContactRows /\ (x \in Companies => old \in CompanyRows)
      /\ old.version \in Nat /\ old.link \in Companies \cup {None}
      /\ <<"record", x>> \in held[r]
  BY <1>1, <1>2, RowParts DEF IInv
<1>6. new \in ContactRows /\ (x \in Companies => new \in CompanyRows)
  BY <1>3 DEF ContactRows, CompanyRows, Lives
<1>7. row' = [row EXCEPT ![x] = new]
  <2> DEFINE edit == [old EXCEPT !.life = life]
  <2>2. row = [y \in Records |-> row[y]]
    BY DEF IInv, RowsTyped
  <2>3. row' = [row EXCEPT ![x] = [edit EXCEPT !.version = @ + 1]]
    <3>1. Written(r, edit)
      BY <1>0
    <3> HIDE DEF edit
    <3> QED BY <1>3, <2>2, <3>1, WrittenParts
  <2>4. [edit EXCEPT !.version = @ + 1] = new
    <3>1. edit = [life |-> life, version |-> old.version, link |-> old.link,
                  mail |-> old.mail, phone |-> old.phone, responsible |-> old.responsible]
      BY <1>3 DEF ContactRows
    <3> HIDE DEF edit
    <3> QED BY <3>1
  <2> QED BY <2>3, <2>4
<1>8. /\ points' = [points EXCEPT ![x] = points[x]] /\ points[x] \in SUBSET Points
      /\ teams' = [teams EXCEPT ![x] = teams[x]] /\ teams[x] \in SUBSET Teams
  BY <1>0, <1>3 DEF IInv, RowsTyped
<1>9. /\ affiliated' = [p \in Contacts |-> IF p = x THEN A ELSE affiliated[p]]
      /\ A \in SUBSET Companies
  BY <1>0 DEF IInv, RowsTyped
<1>10. \A q \in points[x] : q.usage = "email_secondary" => ~q.primary
  BY <1>3 DEF IInv, SecondaryApart
<1>11. Fit(x, new, points[x], A)
  <2>1. Fit(x, old, points[x], affiliated[x])
    BY <1>3, AgreeMeansFit DEF IInv
  <2>2. new.mail = old.mail /\ new.phone = old.phone /\ new.link = old.link
    OBVIOUS
  <2>3. x \in Contacts => A = affiliated[x]
    OBVIOUS
  <2> HIDE DEF new, A
  <2> QED BY <2>1, <2>2, <2>3 DEF Fit
<1>12. \A c \in Link(new.link) : row[c].life # "absent"
  BY <1>3 DEF IInv, RowsSound
<1>13. new.version > row[x].version /\ new.life # "absent" /\ new.link = row[x].link
  BY <1>3
<1> HIDE DEF in, x, old, new, A
<1> QED BY <1>1, <1>3, <1>6, <1>7, <1>8, <1>9, <1>10, <1>11, <1>12, <1>13, RowsWritten

LEMMA ReplaceAffiliationStep ==
    ASSUME IInv, NEW r \in Requests, ReplaceAffiliation(r)
    PROVE  IInv'
<1> DEFINE in == Cmd(r)
           x == Cmd(r).record
           old == row[x]
           new == [life |-> old.life, version |-> old.version + 1, link |-> in.link,
                   mail |-> old.mail, phone |-> old.phone, responsible |-> old.responsible]
<1>0. /\ Commit(r, {"affiliate"}) /\ Written(r, [old EXCEPT !.link = in.link])
      /\ affiliated' = [affiliated EXCEPT ![x] = Link(in.link)]
      /\ UNCHANGED <<points, teams>>
  BY DEF ReplaceAffiliation, Affiliate
<1>1. /\ Close(r) /\ UNCHANGED <<member, sent, page>>
      /\ request[r] \in Keys /\ receipts' = receipts \cup {request[r]}
      /\ in.op \in {"affiliate"} /\ in \in Commands
      /\ in.link # None => in.link \in Companies /\ row[in.link].life # "absent"
      /\ x # None => /\ x \in Records /\ <<"record", x>> \in held[r]
                     /\ old.life # "absent" /\ old.version = in.version
  <2> HIDE DEF new
  <2> QED BY <1>0, CommitParts
<1>2. x # None /\ x \in Contacts /\ in.link \in Companies \cup {None}
  BY <1>1, CommandParts
<1>3. /\ x \in Records /\ old.life # "absent" /\ old.version = in.version
      /\ old \in ContactRows /\ x \notin Companies
      /\ old.version \in Nat /\ <<"record", x>> \in held[r]
  BY <1>1, <1>2, RowParts, GraphAssumption DEF IInv
<1>6. new \in ContactRows
  BY <1>2, <1>3 DEF ContactRows, Lives
<1>7. row' = [row EXCEPT ![x] = new]
  <2> DEFINE edit == [old EXCEPT !.link = in.link]
  <2>2. row = [y \in Records |-> row[y]]
    BY DEF IInv, RowsTyped
  <2>3. row' = [row EXCEPT ![x] = [edit EXCEPT !.version = @ + 1]]
    <3>1. Written(r, edit)
      BY <1>0
    <3> HIDE DEF edit
    <3> QED BY <1>3, <2>2, <3>1, WrittenParts
  <2>4. [edit EXCEPT !.version = @ + 1] = new
    <3>1. edit = [life |-> old.life, version |-> old.version, link |-> in.link,
                  mail |-> old.mail, phone |-> old.phone, responsible |-> old.responsible]
      BY <1>3 DEF ContactRows
    <3> HIDE DEF edit
    <3> QED BY <3>1
  <2> QED BY <2>3, <2>4
<1>8. /\ points' = [points EXCEPT ![x] = points[x]] /\ points[x] \in SUBSET Points
      /\ teams' = [teams EXCEPT ![x] = teams[x]] /\ teams[x] \in SUBSET Teams
  BY <1>0, <1>3 DEF IInv, RowsTyped
<1>9. affiliated' = [p \in Contacts |-> IF p = x THEN Link(in.link) ELSE affiliated[p]]
  BY <1>0 DEF IInv, RowsTyped
<1>10. Link(in.link) \in SUBSET Companies /\ \A c \in Link(in.link) : row[c].life # "absent"
  BY <1>1, <1>2, LinkParts
<1>11. \A q \in points[x] : q.usage = "email_secondary" => ~q.primary
  BY <1>3 DEF IInv, SecondaryApart
<1>12. Fit(x, new, points[x], Link(in.link))
  <2>1. Fit(x, old, points[x], affiliated[x])
    BY <1>3, AgreeMeansFit DEF IInv
  <2>2. new.mail = old.mail /\ new.phone = old.phone /\ new.link = in.link
    OBVIOUS
  <2> HIDE DEF new
  <2> QED BY <2>1, <2>2 DEF Fit
<1>13. new.version > row[x].version /\ new.life # "absent" /\ new.link = in.link
  BY <1>3
<1> HIDE DEF in, x, old, new
<1>14. \A c \in Link(new.link) : row[c].life # "absent"
  BY <1>10, <1>13
<1> QED BY <1>1, <1>3, <1>6, <1>7, <1>8, <1>9, <1>10, <1>11, <1>12, <1>13, <1>14, RowsWritten
-----------------------------------------------------------------------------
(* The pages, the members, and all steps. *)

\* What Reads says, of a page p.
Shows(p, x) ==
    LET read == p.rows[x] IN
    /\ read.version <= row[x].version
    /\ read.version = row[x].version =>
         /\ read = row[x]
         /\ p.phase \in {"detailed", "fenced", "filled", "detail"} => p.teams = teams[x]
         /\ p.phase = "detail" /\ x \in Contacts => p.affiliated = affiliated[x]

Details == {"opened", "detailed", "fenced", "filled", "detail"}

LEMMA PageParts ==
    ASSUME IInv, NEW v \in Pages
    PROVE  /\ page[v] \in PageTypes /\ OnPage(v) = DOMAIN page[v].rows
           /\ OnPage(v) \subseteq Records
           /\ \A x \in OnPage(v) : Shows(page[v], x) /\ row[x].life # "absent"
           /\ page[v].phase \in Details =>
                Record(v) \in Records /\ OnPage(v) = {Record(v)}
<1>1. page[v] \in PageTypes
  BY DEF IInv, PagesTyped
<1>2. OnPage(v) \subseteq Records
  BY <1>1 DEF OnPage, PageTypes
<1>3. \A x \in OnPage(v) : Shows(page[v], x) /\ row[x].life # "absent"
  BY DEF IInv, PagesSound, Reads, Shows
<1>4. ASSUME page[v].phase \in Details
      PROVE  Record(v) \in Records /\ OnPage(v) = {Record(v)}
  <2>1. PICK x \in Records : OnPage(v) = {x}
    BY <1>4 DEF IInv, PagesSound, Details
  <2>2. Record(v) = x
    BY <2>1 DEF Record
  <2> QED BY <2>1, <2>2
<1> QED BY <1>1, <1>2, <1>3, <1>4 DEF OnPage

LEMMA NoPageParts ==
    NoPage \in PageTypes /\ DOMAIN NoPage.rows = {} /\ NoPage.phase = "idle"
<1>1. << >> \in [{} -> ContactRows] /\ {} \in SUBSET Records
  OBVIOUS
<1>2. << >> \in UNION {[S -> ContactRows] : S \in SUBSET Records}
  BY <1>1
<1> QED BY <1>2 DEF NoPage, PageTypes

LEMMA PageTurned ==
    ASSUME IInv, NEW v \in Pages, NEW new \in PageTypes,
           page' = [page EXCEPT ![v] = new], UNCHANGED <<tables, sent, local>>,
           new.phase \in Details => \E x \in Records : DOMAIN new.rows = {x},
           \A x \in DOMAIN new.rows : Shows(new, x) /\ row[x].life # "absent"
    PROVE  IInv'
<1>1. page'[v] = new /\ \A w \in Pages : w # v => page'[w] = page[w]
  BY DEF IInv, PagesTyped
<1>2. PagesTyped'
  BY DEF IInv, PagesTyped
<1>3. PagesSound'
  <2>1. ASSUME NEW w \in Pages
        PROVE  /\ page'[w].phase \in Details => \E x \in Records : OnPage(w)' = {x}
               /\ \A x \in OnPage(w)' : Reads(w, x)' /\ row'[x].life # "absent"
    <3>1. CASE w = v
      BY <1>1, <3>1 DEF OnPage, Reads, Shows, tables
    <3>2. CASE w # v
      <4>1. page'[w] = page[w] /\ OnPage(w)' = OnPage(w)
        BY <1>1, <3>2 DEF OnPage
      <4> QED BY <4>1 DEF IInv, PagesSound, Details, Reads, tables
    <3> QED BY <3>1, <3>2
  <2> QED BY <2>1 DEF PagesSound, Details
<1>4. RowsInv'
  BY RowsUnchanged DEF IInv, tables, RowsTyped
<1>5. LocalInv'
  <2>1. LocalTyped' /\ OneHolder'
    BY DEF IInv, LocalTyped, OneHolder, Running, local
  <2>2. ASSUME NEW q \in Requests
        PROVE  Knows(q)'
    BY KnowsKept DEF Same, local, tables
  <2> QED BY <2>1, <2>2 DEF LocalInv
<1>6. SentTyped' /\ SentSound'
  BY DEF IInv, SentTyped, SentSound, tables
<1> QED BY <1>2, <1>3, <1>4, <1>5, <1>6, Parts DEF IInv, RowsInv, LocalInv

\* A page that starts shows rows of now.
LEMMA StartedPage ==
    ASSUME IInv, NEW v \in Pages, List(v) \/ Open(v)
    PROVE  IInv'
<1>1. PICK m \in Readers, S \in SUBSET Records, phase \in {"listed", "opened"} :
        /\ page' = [page EXCEPT ![v] = [NoPage EXCEPT !.phase = phase, !.reader = m,
                                                      !.rows = [x \in S |-> row[x]]]]
        /\ \A x \in S : row[x].life # "absent"
        /\ phase = "opened" => \E x \in Records : S = {x}
        /\ UNCHANGED <<tables, sent, local>>
  <2>1. CASE List(v)
    <3>1. PICK m \in Readers, life \in Listed :
            LET S == {x \in Records : row[x].life = life /\ Sees(m, x)} IN
            Turn(v, "idle", [NoPage EXCEPT !.phase = "listed", !.reader = m,
                                           !.rows = [x \in S |-> row[x]]])
      BY <2>1 DEF List
    <3> DEFINE S == {x \in Records : row[x].life = life /\ Sees(m, x)}
    <3>2. \A x \in S : row[x].life # "absent"
      BY GraphAssumption
    <3>3. S \in SUBSET Records
      OBVIOUS
    <3>4. /\ page' = [page EXCEPT ![v] = [NoPage EXCEPT !.phase = "listed", !.reader = m,
                                                        !.rows = [x \in S |-> row[x]]]]
          /\ UNCHANGED <<tables, sent, local>>
      BY <3>1 DEF Turn
    <3> HIDE DEF S
    <3> QED BY <3>2, <3>3, <3>4
  <2>2. CASE Open(v)
    <3>1. PICK m \in Readers, x \in Opened :
            /\ row[x].life # "absent"
            /\ Turn(v, "idle", [NoPage EXCEPT !.phase = "opened", !.reader = m,
                                              !.rows = [y \in {x} |-> row[x]]])
      BY <2>2 DEF Open
    <3>2. x \in Records /\ [y \in {x} |-> row[x]] = [y \in {x} |-> row[y]]
      BY GraphAssumption
    <3>3. /\ page' = [page EXCEPT ![v] = [NoPage EXCEPT !.phase = "opened", !.reader = m,
                                                        !.rows = [y \in {x} |-> row[y]]]]
          /\ UNCHANGED <<tables, sent, local>>
      BY <3>1, <3>2 DEF Turn
    <3>4. {x} \in SUBSET Records /\ \A y \in {x} : row[y].life # "absent"
      BY <3>1, <3>2
    <3> QED BY <3>2, <3>3, <3>4
  <2> QED BY <2>1, <2>2
<1> DEFINE rows == [x \in S |-> row[x]]
           new == [phase |-> phase, reader |-> m, rows |-> rows, teams |-> {}, affiliated |-> {}]
<1>2. page' = [page EXCEPT ![v] = new]
  <2> DEFINE p == [NoPage EXCEPT !.phase = phase, !.reader = m, !.rows = rows]
  <2>1. p \in [phase : {phase}, reader : {m}, rows : {rows}, teams : {{}}, affiliated : {{}}]
    <3> HIDE DEF rows
    <3> QED BY DEF NoPage
  <2>2. p = new
    <3> HIDE DEF p, rows
    <3> QED BY <2>1
  <2>3. page' = [page EXCEPT ![v] = p]
    BY <1>1
  <2> HIDE DEF p, new
  <2> QED BY <2>2, <2>3
<1>3. new \in PageTypes
  <2>1. rows \in [S -> ContactRows]
    BY RowParts DEF IInv
  <2>2. m \in Members
    BY GraphAssumption
  <2> HIDE DEF rows
  <2> QED BY <2>1, <2>2 DEF PageTypes
<1>4. ASSUME NEW x \in S
      PROVE  Shows(new, x) /\ row[x].life # "absent"
  <2>1. row[x].version \in Nat
    BY RowParts DEF IInv
  <2> QED BY <1>1, <2>1 DEF Shows
<1>5. DOMAIN new.rows = S
  OBVIOUS
<1>6. new.phase \in Details => \E x \in Records : S = {x}
  BY <1>1 DEF Details
<1> HIDE DEF new
<1> QED BY <1>1, <1>2, <1>3, <1>4, <1>5, <1>6, PageTurned

\* A page that goes on shows what it has read, and what it reads now.
LEMMA GrownPage ==
    ASSUME IInv, NEW v \in Pages,
           \/ FinishList(v) \/ ReadTeams(v) \/ Fence(v) \/ ReadChannels(v) \/ FinishDetail(v)
           \/ Leave(v)
    PROVE  IInv'
<1> DEFINE p == page[v]
           x == Record(v)
<1>1. /\ p \in PageTypes /\ OnPage(v) = DOMAIN p.rows
      /\ OnPage(v) \subseteq Records
      /\ \A y \in OnPage(v) : Shows(p, y) /\ row[y].life # "absent"
      /\ p.phase \in Details => x \in Records /\ OnPage(v) = {x}
  BY PageParts
<1>2. /\ p.rows \in [OnPage(v) -> ContactRows]
      /\ \A y \in OnPage(v) : p.rows[y] \in ContactRows /\ p.rows[y].version \in Nat
      /\ \A y \in Records : row[y] \in ContactRows /\ row[y].version \in Nat
  <2>1. p.rows \in [OnPage(v) -> ContactRows]
    BY <1>1 DEF PageTypes
  <2>2. \A y \in OnPage(v) : p.rows[y] \in ContactRows
    BY <2>1
  <2>3. \A y \in OnPage(v) : p.rows[y].version \in Nat
    BY <2>2 DEF ContactRows
  <2>4. \A y \in Records : row[y] \in ContactRows /\ row[y].version \in Nat
    BY RowParts DEF IInv
  <2> QED BY <2>1, <2>2, <2>3, <2>4
<1>3. CASE FinishList(v)
  <2> DEFINE new == [p EXCEPT !.phase = "list"]
  <2>1. p.phase = "listed" /\ page' = [page EXCEPT ![v] = new] /\ UNCHANGED <<tables, sent, local>>
    BY <1>3 DEF FinishList, Turn
  <2>2. /\ new \in PageTypes /\ new.phase = "list" /\ new.rows = p.rows
    BY <1>1 DEF PageTypes
  <2> HIDE DEF new
  <2>3. \A y \in DOMAIN new.rows : Shows(new, y)
    BY <1>1, <2>2 DEF Shows
  <2> QED BY <1>1, <2>1, <2>2, <2>3, PageTurned DEF Details
<1>4. CASE ReadTeams(v)
  <2> DEFINE new == [p EXCEPT !.phase = "detailed", !.teams = teams[x]]
  <2>1. p.phase = "opened" /\ page' = [page EXCEPT ![v] = new] /\ UNCHANGED <<tables, sent, local>>
    BY <1>4 DEF ReadTeams, Turn
  <2>2. x \in Records /\ OnPage(v) = {x} /\ teams[x] \in SUBSET Teams
    BY <1>1, <2>1 DEF Details, IInv, RowsTyped
  <2>3. /\ new \in PageTypes /\ new.phase = "detailed" /\ new.rows = p.rows
        /\ new.teams = teams[x]
    BY <1>1, <2>2 DEF PageTypes
  <2> HIDE DEF new
  <2>4. \A y \in DOMAIN new.rows : Shows(new, y)
    BY <1>1, <2>2, <2>3 DEF Shows
  <2> QED BY <1>1, <2>1, <2>2, <2>3, <2>4, PageTurned
<1>5. CASE Fence(v)
  <2> DEFINE rows == [p.rows EXCEPT ![x] = row[x]]
             new == [p EXCEPT !.phase = "fenced", !.rows = rows]
  <2>1. /\ p.phase = "detailed" /\ row[x].version = p.rows[x].version
        /\ page' = [page EXCEPT ![v] = new] /\ UNCHANGED <<tables, sent, local>>
    <3>1. p.phase = "detailed"
      BY <1>5 DEF Fence, Turn
    <3>2. x \in OnPage(v)
      BY <1>1, <3>1 DEF Details
    <3> QED BY <1>5, <3>1, <3>2 DEF Fence, Turn, Fenced
  <2>2. x \in Records /\ OnPage(v) = {x}
    BY <1>1, <2>1 DEF Details
  <2>3. rows = p.rows
    <3>1. p.rows[x] = row[x]
      BY <1>1, <2>1, <2>2 DEF Shows
    <3> QED BY <1>2, <2>2, <3>1
  <2> HIDE DEF rows
  <2>4. /\ new \in PageTypes /\ new.phase = "fenced" /\ new.rows = p.rows
        /\ new.teams = p.teams
    BY <1>1, <2>3 DEF PageTypes
  <2> HIDE DEF new
  <2>5. \A y \in DOMAIN new.rows : Shows(new, y)
    BY <1>1, <2>1, <2>2, <2>4 DEF Shows
  <2> QED BY <1>1, <2>1, <2>2, <2>4, <2>5, PageTurned
<1>6. CASE ReadChannels(v)
  <2> DEFINE new == [p EXCEPT !.phase = "filled", !.rows[x].mail = row[x].mail,
                              !.rows[x].phone = row[x].phone]
             rowNew == [p.rows[x] EXCEPT !.mail = row[x].mail, !.phone = row[x].phone]
             rows == [p.rows EXCEPT ![x] = rowNew]
  <2>1. /\ p.phase = "fenced"
        /\ page' = [page EXCEPT ![v] = new] /\ UNCHANGED <<tables, sent, local>>
    BY <1>6 DEF ReadChannels, Turn
  <2>2. x \in Records /\ OnPage(v) = {x}
    BY <1>1, <2>1 DEF Details
  <2>3. rowNew \in ContactRows /\ rowNew.version = p.rows[x].version
        /\ (p.rows[x] = row[x] => rowNew = row[x])
    <3>1. p.rows[x] \in ContactRows /\ row[x] \in ContactRows
      BY <1>2, <2>2
    <3> QED BY <3>1 DEF ContactRows
  <2> HIDE DEF rowNew
  <2>4. rows \in [{x} -> ContactRows] /\ rows[x] = rowNew
    BY <1>2, <2>2, <2>3
  <2>5. new = [p EXCEPT !.phase = "filled", !.rows = rows]
    BY <1>1, <1>2, <2>2 DEF rowNew, PageTypes
  <2> HIDE DEF rows, new
  <2>6. /\ new \in PageTypes /\ new.phase = "filled" /\ new.rows = rows
        /\ new.teams = p.teams
    BY <1>1, <2>2, <2>4, <2>5 DEF PageTypes
  <2>7. \A y \in DOMAIN new.rows : Shows(new, y) /\ row[y].life # "absent"
    BY <1>1, <2>1, <2>2, <2>3, <2>4, <2>6 DEF Shows
  <2>8. DOMAIN new.rows = {x}
    BY <2>4, <2>6
  <2> QED BY <2>1, <2>2, <2>6, <2>7, <2>8, PageTurned
<1>7. CASE FinishDetail(v)
  <2> DEFINE A == IF x \in Contacts THEN affiliated[x] ELSE {}
             new == [p EXCEPT !.phase = "detail", !.affiliated = A]
  <2>1. p.phase = "filled" /\ page' = [page EXCEPT ![v] = new] /\ UNCHANGED <<tables, sent, local>>
    BY <1>7 DEF FinishDetail, Turn
  <2>2. x \in Records /\ OnPage(v) = {x} /\ A \in SUBSET Companies
    BY <1>1, <2>1 DEF Details, IInv, RowsTyped
  <2>3. x \in Contacts => A = affiliated[x]
    OBVIOUS
  <2> HIDE DEF A
  <2>4. /\ new \in PageTypes /\ new.phase = "detail" /\ new.rows = p.rows
        /\ new.teams = p.teams /\ new.affiliated = A
    BY <1>1, <2>2 DEF PageTypes
  <2> HIDE DEF new
  <2>5. \A y \in DOMAIN new.rows : Shows(new, y)
    BY <1>1, <2>1, <2>2, <2>3, <2>4 DEF Shows
  <2> QED BY <1>1, <2>1, <2>2, <2>4, <2>5, PageTurned
<1>8. CASE Leave(v)
  <2>1. page' = [page EXCEPT ![v] = NoPage] /\ UNCHANGED <<tables, sent, local>>
    BY <1>8 DEF Leave, Turn
  <2>2. NoPage \in PageTypes /\ DOMAIN NoPage.rows = {} /\ NoPage.phase = "idle"
    BY NoPageParts
  <2> QED BY <2>1, <2>2, PageTurned DEF Details
<1> QED BY <1>3, <1>4, <1>5, <1>6, <1>7, <1>8

LEMMA MembershipStep ==
    ASSUME IInv, NEW m \in Members, MembershipChanges(m)
    PROVE  IInv'
<1>1. PICK new \in MemberStates : member' = [member EXCEPT ![m] = new]
  BY DEF MembershipChanges
<1>2. UNCHANGED <<row, points, affiliated, teams, receipts, sent, request, step, held, seen, page>>
  BY DEF MembershipChanges, local
<1>3. member' \in [Members -> MemberRows]
  <2>1. new \in MemberRows
    BY GraphAssumption DEF MemberRows
  <2> QED BY <1>1, <2>1 DEF IInv, RowsTyped
<1>4. RowsInv'
  BY <1>2, <1>3, RowsUnchanged
<1>5. LocalInv'
  <2>1. LocalTyped' /\ OneHolder'
    BY <1>2 DEF IInv, LocalTyped, OneHolder, Running
  <2>2. ASSUME NEW q \in Requests
        PROVE  Knows(q)'
    BY <1>2, KnowsKept DEF Same
  <2> QED BY <2>1, <2>2 DEF LocalInv
<1>6. SentTyped' /\ SentSound'
  BY <1>2 DEF IInv, SentTyped, SentSound
<1>7. PagesTyped' /\ PagesSound'
  BY <1>2, PagesUnchanged DEF IInv
<1> QED BY <1>4, <1>5, <1>6, <1>7 DEF IInv, RowsInv, LocalInv

LEMMA InitHolds == Init => IInv
<1> SUFFICES ASSUME Init PROVE IInv
  OBVIOUS
<1> USE DEF Init
<1>1. \A x \in Records : row[x] = Start[x]
  OBVIOUS
<1>2. ASSUME NEW x \in Records
      PROVE  /\ Start[x] \in IF x \in Companies THEN CompanyRows ELSE ContactRows
             /\ Start[x].link \in Companies \cup {None} /\ Start[x].mail \in Mails \cup {None}
             /\ Start[x].phone \in Phones \cup {None}
             /\ x \in Companies => Start[x].phone = None
             /\ points[x] \in SUBSET Points
             /\ \A q \in points[x] : q.usage = "email_secondary" => ~q.primary
             /\ Primaries(points[x]) = Link(Start[x].mail)
             /\ Link(Start[x].phone) \subseteq Numbers(points[x])
  <2>1. /\ Start[x] \in IF x \in Companies THEN CompanyRows ELSE ContactRows
        /\ Start[x].link \in Companies \cup {None} /\ Start[x].mail \in Mails \cup {None}
        /\ Start[x].phone \in Phones \cup {None}
        /\ x \in Companies => Start[x].phone = None
    <3>1. Start[x] \in IF x \in Companies THEN CompanyRows ELSE ContactRows
      BY StartAssumption
    <3>2. CASE x \in Companies
      BY <3>1, <3>2 DEF CompanyRows
    <3>3. CASE x \notin Companies
      BY <3>1, <3>3 DEF ContactRows
    <3> QED BY <3>2, <3>3
  <2>2. points[x] = NewPoints(x, Start[x].mail, None, Start[x].phone)
    OBVIOUS
  <2> DEFINE mail == Start[x].mail
             phone == Start[x].phone
             pts == points[x]
  <2> HIDE DEF mail, phone, pts
  <2>3. /\ pts \in SUBSET Points
        /\ Primaries(pts) = Link(mail) /\ Link(phone) \subseteq Numbers(pts)
        /\ \A q \in pts : q.usage = "email_secondary" => ~q.primary
    <3>1. pts = NewPoints(x, mail, None, phone)
      BY <2>2 DEF pts, mail, phone
    <3>2. /\ mail \in Mails \cup {None} /\ phone \in Phones \cup {None}
          /\ None \in Mails \cup {None} /\ (x \in Companies => phone = None)
      BY <2>1 DEF mail, phone
    <3> QED BY <3>1, <3>2, NewPointsParts
  <2> QED BY <2>1, <2>3 DEF pts, mail, phone
<1>12. \A x \in Records : Link(Start[x].link) \subseteq Companies
  <2>1. \A x \in Records : Start[x].link \in Companies \cup {None}
    BY <1>2
  <2> QED BY <2>1, LinkParts
<1>3. RowsTyped
  <2>1. points \in [Records -> SUBSET Points]
    BY <1>2
  <2>2. affiliated \in [Contacts -> SUBSET Companies]
    BY <1>12 DEF Records
  <2>3. member \in [Members -> MemberRows]
    BY DEF MemberRows
  <2>4. \A x \in Records : row[x] \in IF x \in Companies THEN CompanyRows ELSE ContactRows
    BY <1>1, <1>2
  <2> QED BY <1>1, <2>1, <2>2, <2>3, <2>4 DEF RowsTyped
<1>4. LocalTyped
  BY NothingTyped DEF LocalTyped, Running
<1>5. SentTyped /\ SentSound
  BY DEF SentTyped, SentSound
<1>6. PagesTyped /\ PagesSound
  <2>1. PagesTyped
    BY NoPageParts DEF PagesTyped
  <2>2. \A v \in Pages : OnPage(v) = {} /\ page[v].phase = "idle"
    BY NoPageParts DEF OnPage
  <2> QED BY <2>1, <2>2 DEF PagesSound
<1>7. OneHolder /\ \A r \in Requests : Knows(r)
  BY DEF OneHolder, Knows, Running
<1>8. RowsSound
  <2>1. ASSUME NEW x \in Records
        PROVE  /\ row[x].life = "absent" => row[x] = NoRecord
               /\ \A c \in Link(row[x].link) : row[c].life # "absent"
    <3>1. \A c \in Link(Start[x].link) : c \in Records
      BY <1>12 DEF Records
    <3> QED BY <1>1, <3>1, StartAssumption
  <2> QED BY <2>1 DEF RowsSound
<1>9. SecondaryApart
  BY <1>2 DEF SecondaryApart
<1>10. RowsAgree
  <2>1. ASSUME NEW x \in Records
        PROVE  Fit(x, row[x], points[x], affiliated[x])
    BY <1>1, <1>2 DEF Fit
  <2> QED BY <2>1, AgreeMeansFit
<1>11. NoParentCycle
  <2>1. \A c \in Companies : /\ Start[c].link \in Companies \cup {None}
                             /\ row[c].link = Start[c].link
    BY <1>1, <1>2 DEF Records
  <2>2. \A c \in Companies : Start[c].link # None => c \notin Above(Start[c].link, Start)
    BY StartAssumption
  <2>3. \A c \in Companies : row[c].link # None => c \notin Above(row[c].link, row)
    BY <2>1, <2>2, SameLinks
  <2> QED BY <2>3 DEF NoParentCycle, Chain
<1> QED BY <1>3, <1>4, <1>5, <1>6, <1>7, <1>8, <1>9, <1>10, <1>11 DEF IInv

LEMMA Stuttering == ASSUME IInv, UNCHANGED vars PROVE IInv'
<1> USE DEF vars, tables, local
<1>1. RowsInv'
  BY RowsUnchanged DEF IInv, RowsTyped
<1>2. LocalInv'
  <2>1. LocalTyped' /\ OneHolder'
    BY DEF IInv, LocalTyped, OneHolder, Running
  <2>2. ASSUME NEW q \in Requests
        PROVE  Knows(q)'
    BY KnowsKept DEF Same
  <2> QED BY <2>1, <2>2 DEF LocalInv
<1>3. SentTyped' /\ SentSound'
  BY DEF IInv, SentTyped, SentSound
<1>4. PagesTyped' /\ PagesSound'
  BY PagesUnchanged DEF IInv
<1> QED BY <1>1, <1>2, <1>3, <1>4 DEF IInv, RowsInv, LocalInv

LEMMA StepKeeps == ASSUME IInv, [Next]_vars PROVE IInv'
<1>1. ASSUME NEW r \in Requests, Submit(r) \/ Repeat(r)
      PROVE  IInv'
  BY <1>1, SubmitStep
<1>2. ASSUME NEW r \in Requests, Take(r)
      PROVE  IInv'
  BY <1>2, TakeStep
<1>3. ASSUME NEW r \in Requests, Replay(r) \/ Refuse(r) \/ Abandon(r) \/ BreakDeadlock(r)
      PROVE  IInv'
  BY <1>3, CloseStep DEF Replay, Refuse, Abandon, BreakDeadlock
<1>4. ASSUME NEW r \in Requests, Effect(r)
      PROVE  IInv'
  BY <1>4, CreateStep, EditStep, ChangeLifeStep, ReplaceAffiliationStep DEF Effect, Links
<1>5. ASSUME NEW v \in Pages, PageStep(v)
      PROVE  IInv'
  BY <1>5, StartedPage, GrownPage DEF PageStep
<1>6. ASSUME NEW m \in Members, MembershipChanges(m)
      PROVE  IInv'
  BY <1>6, MembershipStep
<1>7. CASE UNCHANGED vars
  BY <1>7, Stuttering
<1> QED BY <1>1, <1>2, <1>3, <1>4, <1>5, <1>6, <1>7 DEF Next
-----------------------------------------------------------------------------
THEOREM Invariant == Spec => []IInv
<1>1. Init => IInv
  BY InitHolds
<1>2. IInv /\ [Next]_vars => IInv'
  BY StepKeeps
<1> QED BY <1>1, <1>2, PTL DEF Spec

\* Rows, requests and pages have their types, and a request that is not
\* running holds no locks.
THEOREM TypeCorrect == Spec => []TypeOK
<1>1. IInv => TypeOK
  <2> SUFFICES ASSUME IInv PROVE TypeOK
    OBVIOUS
  <2>1. \A r \in Requests : seen[r].row \in ContactRows /\ seen[r].member \in MemberRows
    BY DEF IInv, LocalTyped, SeenRows
  <2>2. \A v \in Pages : OnPage(v) \subseteq Records
    BY PageParts
  <2> QED BY <2>1, <2>2 DEF IInv, TypeOK, RowsTyped, LocalTyped
<1> QED BY <1>1, Invariant, PTL

\* The hierarchy of companies never closes a circle, whatever parents are set
\* at the same time: a new parent is taken with all that is above it locked,
\* and none of it is the company or has moved (editRoot).
THEOREM NoCircle == Spec => []NoParentCycle
<1>1. IInv => NoParentCycle
  BY DEF IInv
<1> QED BY <1>1, Invariant, PTL

\* Columns, points and affiliations of a record, which several statements
\* write, always agree: the update never misses the version it asks for.
THEOREM RowsAlwaysAgree == Spec => []RowsAgree
<1>1. IInv => RowsAgree
  BY DEF IInv
<1> QED BY <1>1, Invariant, PTL

\* A page with the version a record still has shows the record of now, though
\* it reads in several statements without locks (getCustomerGraph).
THEOREM PagesStayCurrent == Spec => []PagesAreCurrent
<1>1. IInv => PagesAreCurrent
  BY DEF IInv, PagesSound, Reads, PagesAreCurrent
<1> QED BY <1>1, Invariant, PTL
-----------------------------------------------------------------------------
(***************************************************************************)
(* The commands keep the directory.  What a command has found of its key,  *)
(* of its actor, of who shall be responsible and of the company it links   *)
(* to is still so at its commit, because it holds their locks; and the     *)
(* actor is the member whose key it is.                                    *)
(***************************************************************************)

Vouches(r) ==
    Running(r) =>
      LET in == Cmd(r)
          got == seen[r] IN
      /\ ~got.receipt /\ step[r] > 1 =>
           <<"key", request[r]>> \in held[r] /\ request[r] \notin receipts
      /\ got.responsible => \A m \in Link(in.responsible) :
                              <<"member", m>> \in held[r] /\ member[m].active
      /\ got.linked /\ in.link # None =>
           <<"record", in.link>> \in held[r] /\ row[in.link].life = "active"
      /\ got.member.active =>
           <<"member", in.actor>> \in held[r] /\ got.member = member[in.actor]

\* A command is that of the member whose key it has.
Owned == \A k \in Keys : sent[k] # NoCommand => sent[k].actor = Client[k]

VInv == IInv /\ Owned /\ \A r \in Requests : Vouches(r)

LEMMA NothingVouched ==
    ASSUME NEW r \in Requests, seen'[r] = NothingSeen, ~Running(r)' \/ step'[r] = 1
    PROVE  Vouches(r)'
  BY DEF Vouches, NothingSeen

LEMMA VouchKept ==
    ASSUME VInv, NEW q \in Requests, Same(q),
           Running(q) => sent'[request[q]] = sent[request[q]],
           \A x \in Records : row[x].life # "absent" /\ row'[x] # row[x]
                                => <<"record", x>> \notin held[q],
           \A m \in Members : member'[m] # member[m] => <<"member", m>> \notin held[q],
           \A k \in receipts' \ receipts : <<"key", k>> \notin held[q]
    PROVE  Vouches(q)'
<1>1. CASE ~Running(q)
  BY <1>1 DEF Vouches, Running, Same
<1>2. CASE Running(q)
  <2> DEFINE in == Cmd(q)
             got == seen[q]
  <2>1. /\ in \in Commands
        /\ in.link # None => in.link \in Companies /\ row[in.link].life # "absent"
    BY <1>2, Busy DEF VInv, IInv
  <2>2. /\ Cmd(q)' = in /\ seen'[q] = got /\ held'[q] = held[q]
        /\ request'[q] = request[q] /\ step'[q] = step[q]
    BY <1>2 DEF Same, Cmd, Running
  <2>3. /\ got.responsible => \A m \in Link(in.responsible) :
                                <<"member", m>> \in held[q] /\ member[m].active
        /\ got.linked /\ in.link # None =>
             <<"record", in.link>> \in held[q] /\ row[in.link].life = "active"
        /\ got.member.active =>
             <<"member", in.actor>> \in held[q] /\ got.member = member[in.actor]
        /\ ~got.receipt /\ step[q] > 1 =>
             <<"key", request[q]>> \in held[q] /\ request[q] \notin receipts
    BY <1>2 DEF VInv, Vouches
  <2>4. in.actor \in Members /\ Link(in.responsible) \subseteq Members
    BY <2>1, CommandParts, LinkParts
  <2> HIDE DEF in, got
  <2>5. got.linked /\ in.link # None => row'[in.link].life = "active"
    BY <2>1, <2>3 DEF Records
  <2>6. got.responsible => \A m \in Link(in.responsible) : member'[m].active
    BY <2>3, <2>4
  <2>7. got.member.active => member'[in.actor] = member[in.actor]
    BY <2>3, <2>4
  <2>8. ~got.receipt /\ step[q] > 1 => request[q] \notin receipts'
    BY <2>3
  <2> QED BY <2>2, <2>3, <2>5, <2>6, <2>7, <2>8 DEF Vouches
<1> QED BY <1>1, <1>2

\* What a request reads with a lock, it vouches for.
LEMMA VouchTaken ==
    ASSUME VInv, NEW r \in Requests, Take(r)
    PROVE  Vouches(r)'
<1> DEFINE in == Cmd(r)
           got == Reading(r)
           lock == NextLock(r)
           Responsible(g, H) == g.responsible => \A m \in Link(in.responsible) :
                                  <<"member", m>> \in H /\ member[m].active
           Linked(g, H) == g.linked /\ in.link # None =>
                             <<"record", in.link>> \in H /\ row[in.link].life = "active"
           Acts(g, H) == g.member.active =>
                           <<"member", in.actor>> \in H /\ g.member = member[in.actor]
           H2 == held[r] \cup Wanted(r)
           Keyed(g, n, H) == ~g.receipt /\ n > 1 =>
                               <<"key", request[r]>> \in H /\ request[r] \notin receipts
<1>1. Running(r) /\ ~Done(r) /\ UNCHANGED <<tables, sent, request, page>>
  BY DEF Take
<1>2. /\ in \in Commands /\ seen[r] \in SeenRows /\ lock \in LockNames
      /\ step[r] \in 1 .. 6 /\ (step[r] = 1 <=> lock = "key")
  BY <1>1, Busy, NextLocks DEF VInv, IInv, LocalTyped
<1>3. seen'[r] = got /\ held'[r] = H2 /\ step'[r] = step[r] + 1
  BY DEF Take, VInv, IInv, LocalTyped
<1>4. Responsible(seen[r], held[r]) /\ Linked(seen[r], held[r]) /\ Acts(seen[r], held[r])
  BY <1>1 DEF VInv, Vouches
<1>5. Responsible(seen[r], H2) /\ Linked(seen[r], H2) /\ Acts(seen[r], H2)
  BY <1>4
<1>6. Keyed(got, step[r] + 1, H2)
  <2>1. CASE lock = "key"
    <3>1. got = [seen[r] EXCEPT !.receipt = request[r] \in receipts]
          /\ Wanted(r) = {<<"key", request[r]>>}
      BY <2>1 DEF Reading, Wanted
    <3>2. got.receipt = (request[r] \in receipts)
      BY <1>2, <3>1 DEF SeenRows
    <3> QED BY <3>1, <3>2
  <2>2. CASE lock # "key"
    <3>1. got.receipt = seen[r].receipt
      BY <1>2, <2>2 DEF Reading, SeenRows, LockNames
    <3>2. Keyed(seen[r], step[r], held[r])
      BY <1>1 DEF VInv, Vouches
    <3>3. step[r] > 1 /\ held[r] \subseteq H2
      BY <1>2, <2>2
    <3> HIDE DEF got, H2
    <3> QED BY <3>1, <3>2, <3>3
  <2> QED BY <2>1, <2>2
<1>7. /\ Running(r)' => Cmd(r)' = in
      /\ request'[r] = request[r] /\ receipts' = receipts
      /\ row' = row /\ member' = member
  BY <1>1 DEF Cmd, tables
<1>8. ASSUME Responsible(got, H2), Linked(got, H2), Acts(got, H2)
       PROVE  Vouches(r)'
  <2> HIDE DEF got, in, H2
  <2> QED BY <1>3, <1>6, <1>7, <1>8 DEF Vouches
<1>9. CASE lock \in {"key", "record", "hierarchy"}
  <2>1. /\ got.responsible = seen[r].responsible /\ got.linked = seen[r].linked
        /\ got.member = seen[r].member
    BY <1>2, <1>9 DEF Reading, SeenRows
  <2> HIDE DEF got, in, H2
  <2> QED BY <1>5, <1>8, <2>1
<1>10. CASE lock = "assignment"
  <2>1. /\ got = [seen[r] EXCEPT !.responsible =
                    \A m \in Link(in.responsible) : member[m].active]
        /\ Wanted(r) = {<<"member", m>> : m \in Link(in.responsible)}
    BY <1>10 DEF Reading, Wanted
  <2>2. /\ got.responsible => \A m \in Link(in.responsible) : member[m].active
        /\ got.linked = seen[r].linked /\ got.member = seen[r].member
    BY <1>2, <2>1 DEF SeenRows
  <2>3. Responsible(got, H2)
    BY <2>1, <2>2
  <2> HIDE DEF got, in, H2
  <2> QED BY <1>5, <1>8, <2>2, <2>3
<1>11. CASE lock \in {"ancestors", "company"}
  <2>1. /\ got.responsible = seen[r].responsible /\ got.member = seen[r].member
        /\ got.linked => Available(r)
        /\ got.linked /\ lock = "ancestors" => Unmoved(r)
    BY <1>2, <1>11 DEF Reading, SeenRows
  <2>2. got.linked => <<"record", in.link>> \in Wanted(r)
    <3>1. CASE lock = "company"
      BY <3>1 DEF Wanted, CompanyLocks
    <3>2. CASE lock = "ancestors"
      BY <2>1, <3>2 DEF Wanted, AncestorLocks, Unmoved
    <3> QED BY <1>11, <3>1, <3>2
  <2>3. Linked(got, H2)
    BY <2>1, <2>2 DEF Available
  <2> HIDE DEF got, in, H2
  <2> QED BY <1>5, <1>8, <2>1, <2>3
<1>12. CASE lock = "actor"
  <2>1. /\ got.responsible = seen[r].responsible /\ got.linked = seen[r].linked
        /\ got.member = member[in.actor]
        /\ <<"member", in.actor>> \in Wanted(r)
    BY <1>2, <1>12 DEF Reading, SeenRows, Wanted, ActorLocks
  <2>2. Acts(got, H2)
    BY <2>1
  <2> HIDE DEF got, in, H2
  <2> QED BY <1>5, <1>8, <2>1, <2>2
<1> QED BY <1>2, <1>9, <1>10, <1>11, <1>12 DEF LockNames

\* A command is carried out under the lock of its key, and not again.
LEMMA CarriedOut ==
    ASSUME VInv, NEW r \in Requests, NEW ops, Commit(r, ops)
    PROVE  /\ request[r] \in Keys \ receipts /\ receipts' = receipts \cup {request[r]}
           /\ <<"key", request[r]>> \in held[r]
           /\ Cmd(r).actor = Client[request[r]]
<1>1. Done(r) /\ ~seen[r].receipt /\ receipts' = receipts \cup {request[r]}
  BY DEF Commit
<1>2. Running(r) /\ step[r] \in 1 .. 7 /\ step[r] > 3
  BY <1>1, AtTheEnd DEF VInv
<1>3. step[r] > 1
  BY <1>2
<1>4. request[r] \in Keys /\ Cmd(r) # NoCommand
  BY <1>2, Busy DEF VInv, IInv, Knows
<1> QED BY <1>1, <1>2, <1>3, <1>4 DEF VInv, Vouches, Owned, Cmd

\* A commit writes one record, that is new or locked by it.
LEMMA OneRecordWritten ==
    ASSUME IInv, NEW r \in Requests, Effect(r)
    PROVE  /\ Close(r) /\ UNCHANGED <<member, sent, page>>
           /\ \E ops : Commit(r, ops)
           /\ \A x \in Records : row'[x] # row[x] =>
                row[x].life = "absent" \/ <<"record", x>> \in held[r]
<1>1. row = [x \in Records |-> row[x]]
  BY DEF IInv, RowsTyped
<1>2. ASSUME NEW op \in Ops \ {"createCompany", "createContact"}, Commit(r, {op}),
             NEW new, Written(r, new)
      PROVE  \A x \in Records : row'[x] # row[x] => <<"record", x>> \in held[r]
  <2>1. Cmd(r) \in Commands /\ Cmd(r).op \in {op}
    BY <1>2, CommitParts
  <2>2. Cmd(r).record # None
    BY <1>2, <2>1, CommandParts
  <2>3. <<"record", Cmd(r).record>> \in held[r]
    BY <1>2, <2>2, CommitParts
  <2> QED BY <1>1, <1>2, <2>3 DEF Written
<1>3. ASSUME NEW x \in Room(r), Inserted(r, x)
      PROVE  \A y \in Records : row'[y] # row[y] => row[y].life = "absent"
  BY <1>1, <1>3 DEF Room, Inserted
<1>4. CASE CreateCompany(r)
  BY <1>3, <1>4, CommitParts DEF CreateCompany
<1>5. CASE CreateContact(r)
  BY <1>3, <1>5, CommitParts DEF CreateContact
<1>6. CASE EditCompany(r)
  <2>1. Commit(r, {"editCompany"}) /\ \E new : Written(r, new)
    BY <1>6 DEF EditCompany, Edited
  <2>2. "editCompany" \in Ops \ {"createCompany", "createContact"}
    BY DEF Ops
  <2> QED BY <1>2, <2>1, <2>2, CommitParts
<1>7. CASE EditContact(r)
  <2>1. Commit(r, {"editContact"}) /\ \E new : Written(r, new)
    BY <1>7 DEF EditContact, Edited
  <2>2. "editContact" \in Ops \ {"createCompany", "createContact"}
    BY DEF Ops
  <2> QED BY <1>2, <2>1, <2>2, CommitParts
<1>8. CASE ReplaceAffiliation(r)
  <2>1. Commit(r, {"affiliate"}) /\ \E new : Written(r, new)
    BY <1>8 DEF ReplaceAffiliation
  <2>2. "affiliate" \in Ops \ {"createCompany", "createContact"}
    BY DEF Ops
  <2> QED BY <1>2, <2>1, <2>2, CommitParts
<1>9. CASE ChangeLife(r)
  <2>1. Commit(r, {"archive", "restore"}) /\ \E new : Written(r, new)
    BY <1>9 DEF ChangeLife
  <2>2. PICK op \in {"archive", "restore"} : Commit(r, {op})
    BY <2>1 DEF Commit
  <2>3. op \in Ops \ {"createCompany", "createContact"}
    BY <2>2 DEF Ops
  <2> QED BY <1>2, <2>1, <2>2, <2>3, CommitParts
<1>10. \E ops : Commit(r, ops)
  BY DEF Effect, Links, CreateCompany, CreateContact, EditCompany, EditContact,
         ReplaceAffiliation, ChangeLife
<1> QED BY <1>4, <1>5, <1>6, <1>7, <1>8, <1>9, <1>10 DEF Effect, Links

LEMMA OwnedOn ==
    ASSUME VInv, [Next]_vars
    PROVE  Owned'
<1>1. Owned /\ sent \in [Keys -> Commands \cup {NoCommand}]
  BY DEF VInv, IInv, SentTyped
<1>2. ASSUME NEW r \in Requests, Submit(r)
      PROVE  Owned'
  <2>1. PICK k \in Keys :
          \E op \in Operations[k] : \E in \in Offered(op, Client[k]) :
            sent' = [sent EXCEPT ![k] = in]
    BY <1>2 DEF Submit
  <2>2. PICK op \in Operations[k] :
          \E in \in Offered(op, Client[k]) : sent' = [sent EXCEPT ![k] = in]
    BY <2>1
  <2>3. PICK in \in Offered(op, Client[k]) : sent' = [sent EXCEPT ![k] = in]
    BY <2>2
  <2>4. in.actor = Client[k]
    BY DEF Offered, Command
  <2> QED BY <1>1, <2>3, <2>4 DEF Owned
<1>3. CASE UNCHANGED sent
  BY <1>1, <1>3 DEF Owned
<1>4. ASSUME NEW r \in Requests, Effect(r)
      PROVE  UNCHANGED sent
  BY <1>4, OneRecordWritten DEF VInv
<1>5. ASSUME NEW r \in Requests, \/ Repeat(r) \/ Take(r) \/ Replay(r) \/ Refuse(r)
                                \/ Abandon(r) \/ BreakDeadlock(r)
      PROVE  UNCHANGED sent
  BY <1>5 DEF Repeat, Take, Replay, Refuse, Abandon, BreakDeadlock
<1>6. ASSUME NEW v \in Pages, PageStep(v)
      PROVE  UNCHANGED sent
  BY <1>6 DEF PageStep, List, FinishList, Open, ReadTeams, Fence, ReadChannels,
              FinishDetail, Leave, Turn
<1>7. ASSUME NEW m \in Members, MembershipChanges(m)
      PROVE  UNCHANGED sent
  BY <1>7 DEF MembershipChanges
<1> QED BY <1>2, <1>3, <1>4, <1>5, <1>6, <1>7 DEF Next, vars

LEMMA VouchedOn ==
    ASSUME VInv, [Next]_vars
    PROVE  VInv'
<1>1. IInv'
  BY StepKeeps DEF VInv
<1>2. \A q \in Requests : ~Running(q) => held[q] = {} /\ seen[q] = NothingSeen
  BY DEF VInv, IInv, LocalTyped
<1>3. \A q \in Requests : Running(q) => request[q] \in Keys /\ sent[request[q]] # NoCommand
  BY Busy DEF VInv, IInv, Knows, Cmd
<1>4. ASSUME NEW r \in Requests, Submit(r) \/ Repeat(r), NEW q \in Requests
      PROVE  Vouches(q)'
  <2>1. /\ request[r] = None /\ UNCHANGED <<tables, held, seen, page>>
        /\ \E k \in Keys : request' = [request EXCEPT ![r] = k]
        /\ step' = [step EXCEPT ![r] = 1]
        /\ \A k \in Keys : sent[k] # NoCommand => sent'[k] = sent[k]
    BY <1>4 DEF Submit, Repeat, VInv, IInv, SentTyped
  <2>2. CASE q = r
    <3>1. seen'[r] = NothingSeen /\ step'[r] = 1
      BY <1>2, <2>1 DEF Running, VInv, IInv, LocalTyped
    <3> QED BY <2>2, <3>1, NothingVouched
  <2>3. CASE q # r
    <3>1. Same(q)
      BY <2>1, <2>3 DEF Same, VInv, IInv, LocalTyped
    <3> QED BY <1>3, <2>1, <3>1, VouchKept DEF tables
  <2> QED BY <2>2, <2>3
<1>5. ASSUME NEW r \in Requests, Take(r), NEW q \in Requests
      PROVE  Vouches(q)'
  <2>1. CASE q = r
    BY <1>5, <2>1, VouchTaken
  <2>2. CASE q # r
    <3>1. Same(q) /\ UNCHANGED <<tables, sent>>
      BY <1>5, <2>2 DEF Same, Take, VInv, IInv, LocalTyped
    <3> QED BY <3>1, VouchKept DEF tables
  <2> QED BY <2>1, <2>2
<1>6. ASSUME NEW r \in Requests, Close(r), UNCHANGED <<member, sent>>,
             \A x \in Records : row'[x] # row[x] =>
               row[x].life = "absent" \/ <<"record", x>> \in held[r],
             \A k \in receipts' \ receipts : <<"key", k>> \in held[r],
             NEW q \in Requests
      PROVE  Vouches(q)'
  <2>1. CASE q = r
    <3>1. seen'[r] = NothingSeen /\ request'[r] = None
      BY <1>6 DEF Close, VInv, IInv, LocalTyped
    <3> QED BY <2>1, <3>1, NothingVouched DEF Running
  <2>2. CASE q # r
    <3>1. Same(q) /\ held[q] \cap held[r] = {}
      BY <1>6, <2>2, AfterClose DEF VInv, IInv, OneHolder
    <3> QED BY <1>6, <3>1, VouchKept
  <2> QED BY <2>1, <2>2
<1>7. ASSUME NEW r \in Requests, Replay(r) \/ Refuse(r) \/ Abandon(r) \/ BreakDeadlock(r),
             NEW q \in Requests
      PROVE  Vouches(q)'
  <2>1. Close(r) /\ UNCHANGED <<tables, sent>>
    BY <1>7 DEF Replay, Refuse, Abandon, BreakDeadlock
  <2> QED BY <1>6, <2>1 DEF tables
<1>8. ASSUME NEW r \in Requests, Effect(r), NEW q \in Requests
      PROVE  Vouches(q)'
  <2>1. /\ Close(r) /\ UNCHANGED <<member, sent, page>>
        /\ \E ops : Commit(r, ops)
        /\ \A x \in Records : row'[x] # row[x] =>
             row[x].life = "absent" \/ <<"record", x>> \in held[r]
    BY <1>8, OneRecordWritten DEF VInv
  <2>2. PICK ops : Commit(r, ops)
    BY <2>1
  <2>3. \A k \in receipts' \ receipts : <<"key", k>> \in held[r]
    <3>1. /\ receipts' = receipts \cup {request[r]}
          /\ <<"key", request[r]>> \in held[r]
      BY <2>2, CarriedOut
    <3> QED BY <3>1
  <2>4. UNCHANGED <<member, sent>>
    BY <2>1
  <2> QED BY <1>6, <2>1, <2>3, <2>4
<1>9. ASSUME UNCHANGED <<row, sent, receipts, local>>, NEW q \in Requests,
             \A m \in Members : member'[m] # member[m] => <<"member", m>> \notin held[q]
      PROVE  Vouches(q)'
  <2>1. Same(q)
    BY <1>9 DEF Same, local
  <2> QED BY <1>9, <2>1, VouchKept
<1>10. ASSUME NEW v \in Pages, PageStep(v), NEW q \in Requests
       PROVE  Vouches(q)'
  <2>1. UNCHANGED <<tables, sent, local>>
    BY <1>10 DEF PageStep, List, FinishList, Open, ReadTeams, Fence, ReadChannels,
                 FinishDetail, Leave, Turn
  <2> QED BY <1>9, <2>1 DEF tables
<1>11. ASSUME NEW m \in Members, MembershipChanges(m), NEW q \in Requests
       PROVE  Vouches(q)'
  <2>1. /\ \A n \in Members : member'[n] # member[n] => n = m
        /\ <<"member", m>> \notin held[q] /\ UNCHANGED <<row, sent, receipts, local>>
    BY <1>11 DEF MembershipChanges, Free, VInv, IInv, RowsTyped
  <2> QED BY <1>9, <2>1
<1>12. ASSUME UNCHANGED vars, NEW q \in Requests
       PROVE  Vouches(q)'
  BY <1>9, <1>12 DEF vars, tables
<1>13. \A q \in Requests : Vouches(q)'
  BY <1>4, <1>5, <1>7, <1>8, <1>10, <1>11, <1>12 DEF Next
<1> QED BY <1>1, <1>13, OwnedOn DEF VInv

LEMMA AlwaysVouched == Spec => []VInv
<1>1. Init => VInv
  <2>1. ASSUME Init, NEW r \in Requests
        PROVE  Vouches(r)
    BY <2>1 DEF Init, Vouches, Running
  <2>2. Init => Owned
    BY DEF Init, Owned
  <2> QED BY <2>1, <2>2, InitHolds DEF VInv
<1> QED BY <1>1, VouchedOn, PTL DEF Spec

\* The addresses and affiliations are functions of the rows.
Agreed == PrimaryAddresses = Directory!Addresses /\ affiliated = Directory!Employers

LEMMA DirectoryAgrees == IInv => Agreed
<1> SUFFICES ASSUME IInv
             PROVE  Agreed
  OBVIOUS
<1>1. \A x \in Records : Primaries(points[x]) = Link(row[x].mail)
  BY AgreeMeansFit DEF IInv, Fit
<1>2. PrimaryAddresses = [x \in Records |-> Primaries(points[x])]
  BY DEF PrimaryAddresses, Primaries
<1>3. Directory!Addresses = [x \in Records |-> Link(row[x].mail)]
  BY DEF Directory!Addresses, Directory!Records, Directory!Link, Records, Link
<1>4. \A p \in Contacts : affiliated[p] = Link(row[p].link)
  BY DEF IInv, RowsAgree, Records
<1>5. affiliated = [p \in Contacts |-> affiliated[p]]
  BY DEF IInv, RowsTyped
<1>6. Directory!Employers = [p \in Contacts |-> Link(row[p].link)]
  BY DEF Directory!Employers, Directory!Link, Link
<1> QED BY <1>1, <1>2, <1>3, <1>4, <1>5, <1>6 DEF Agreed

\* What a commit finds, in the words of the directory.
LEMMA DirectoryAtCommit ==
    ASSUME VInv, NEW r \in Requests, NEW ops, Commit(r, ops)
    PROVE  /\ request[r] \in Keys /\ Directory!CarriesOut(request[r])
           /\ Cmd(r).op \notin {"affiliate", "archive", "restore"} =>
                Directory!Assignable(Cmd(r).responsible)
           /\ Cmd(r).op \notin {"archive", "restore"} => Directory!Linkable(Cmd(r).link)
           /\ Cmd(r).op \notin {"createCompany", "createContact", "archive", "restore"} =>
                row[Cmd(r).record].life = "active"
           /\ Cmd(r).op \in {"archive", "restore"} =>
                row[Cmd(r).record].life = IF Cmd(r).op = "archive" THEN "active" ELSE "archived"
<1> DEFINE in == Cmd(r)
           got == seen[r]
<1>1. Done(r) /\ ~got.receipt /\ Allowed(r) /\ in.op \in ops
  BY DEF Commit
<1>2. in \in Commands /\ Running(r)
  BY <1>1, CommitParts DEF Done, VInv
<1>3. /\ in.op \in Ops /\ in.actor \in Members /\ in.link \in Companies \cup {None}
      /\ in.op \in {"createCompany", "createContact"} <=> in.record = None
  BY <1>2, CommandParts
<1>4. /\ Manages(got.member)
      /\ in.op \notin {"affiliate", "archive", "restore"} => got.responsible
      /\ in.op \notin {"archive", "restore"} => in.link = None \/ got.linked
      /\ in.op \notin {"createCompany", "createContact", "archive", "restore"} =>
           got.row.life = "active"
      /\ in.op \in {"archive", "restore"} =>
           got.row.life = IF in.op = "archive" THEN "active" ELSE "archived"
  <2>1. CASE in.op \in {"createCompany", "createContact"}
    BY <1>1, <2>1 DEF Allowed, MayCreate, LinkAvailable, Creates
  <2>2. CASE in.op \in {"editCompany", "editContact"}
    BY <1>1, <2>2 DEF Allowed, MayEdit, LinkAvailable, Creates
  <2>3. CASE in.op = "affiliate"
    BY <1>1, <2>3 DEF Allowed, MayAffiliate, LinkAvailable, Creates
  <2>4. CASE in.op \in {"archive", "restore"}
    BY <1>1, <2>4 DEF Allowed, MayChangeLife, Creates
  <2> QED BY <1>3, <2>1, <2>2, <2>3, <2>4 DEF Ops
<1>5. in.record # None => got.row = row[in.record]
  <2>1. step[r] > 3 /\ step[r] \in 1 .. 7
    BY <1>1, AtTheEnd DEF VInv
  <2>2. step[r] > 2
    BY <2>1
  <2> QED BY <1>1, <1>2, <2>2 DEF VInv, IInv, Knows
<1>6. /\ got.responsible => \A m \in Link(in.responsible) : member[m].active
      /\ got.linked /\ in.link # None => row[in.link].life = "active"
      /\ got.member.active => got.member = member[in.actor]
  BY <1>2 DEF VInv, Vouches
<1> HIDE DEF in, got
<1>7. request[r] \in Keys /\ Directory!CarriesOut(request[r])
  <2>1. /\ request[r] \in Keys \ receipts /\ receipts' = receipts \cup {request[r]}
        /\ in.actor = Client[request[r]]
    BY CarriedOut DEF in
  <2>2. member[in.actor].active /\ member[in.actor].role \in {"owner", "admin"}
    BY <1>4, <1>6 DEF Manages
  <2> QED BY <2>1, <2>2 DEF Directory!CarriesOut, Directory!Manages
<1>8. in.op \notin {"affiliate", "archive", "restore"} => Directory!Assignable(in.responsible)
  BY <1>4, <1>6 DEF Directory!Assignable, Directory!Link, Link
<1>9. in.op \notin {"archive", "restore"} => Directory!Linkable(in.link)
  BY <1>3, <1>4, <1>6 DEF Directory!Linkable
<1> QED BY <1>3, <1>4, <1>5, <1>7, <1>8, <1>9 DEF in

\* A commit that writes the row and the teams of one record.
LEMMA Entered ==
    ASSUME IInv, IInv', NEW x \in Records, NEW new, NEW T \in SUBSET Teams,
           row' = [row EXCEPT ![x] = new], teams' = [teams EXCEPT ![x] = T],
           UNCHANGED member
    PROVE  row'[x] = new /\ Directory!Becomes(x, T)
<1>1. row = [y \in Records |-> row[y]]
  BY DEF IInv, RowsTyped
<1>2. row'[x] = new /\ row' = [row EXCEPT ![x] = row'[x]]
  BY <1>1
<1>3. PrimaryAddresses' = Directory!Addresses' /\ affiliated' = Directory!Employers'
  <2>1. Agreed'
    BY DirectoryAgrees, PTL
  <2> QED BY <2>1 DEF Agreed
<1> QED BY <1>2, <1>3 DEF Directory!Becomes

LEMMA CreateEntered ==
    ASSUME VInv, IInv', NEW r \in Requests, CreateCompany(r) \/ CreateContact(r)
    PROVE  Directory!Next
<1> DEFINE in == Cmd(r)
           new == [life |-> "active", version |-> 1, link |-> in.link, mail |-> in.mail,
                   phone |-> in.phone, responsible |-> in.responsible]
<1>1. PICK op \in {"createCompany", "createContact"} :
         Commit(r, {op}) /\ \E x \in Room(r) : Inserted(r, x)
  BY DEF CreateCompany, CreateContact
<1>2. PICK x \in Room(r) : Inserted(r, x)
  BY <1>1
<1>3. in.op = op /\ in \in Commands /\ UNCHANGED member
  <2>1. IInv
    BY DEF VInv
  <2>2. in.op \in {op} /\ in \in Commands /\ UNCHANGED <<member, sent, page>>
    <3> HIDE DEF new
    <3> QED BY <1>1, <2>1, CommitParts
  <2> QED BY <2>2
<1>4. /\ request[r] \in Keys /\ Directory!CarriesOut(request[r])
      /\ Directory!Assignable(in.responsible)
      /\ Directory!Linkable(in.link)
  BY <1>1, <1>3, DirectoryAtCommit
<1>5. in.teams \in SUBSET Teams
  BY <1>3, CommandParts
<1>6. x \in Records /\ row[x].life = "absent"
  BY DEF Room, Records
<1>7. row' = [row EXCEPT ![x] = new] /\ teams' = [teams EXCEPT ![x] = in.teams]
  BY <1>2 DEF Inserted, AssignedTo
<1>8. new.life = "active" /\ new.version = 1 /\ new.link = in.link
      /\ new.responsible = in.responsible
  OBVIOUS
<1> HIDE DEF in, new
<1>9. row'[x] = new /\ Directory!Becomes(x, in.teams)
  BY <1>3, <1>5, <1>6, <1>7, Entered DEF VInv
<1>10. Directory!Create(x)
  BY <1>4, <1>5, <1>6, <1>8, <1>9 DEF Directory!Create
<1> QED BY <1>4, <1>6, <1>10 DEF Directory!Next, Directory!Changes, Directory!Records, Records

LEMMA EditEntered ==
    ASSUME VInv, IInv', NEW r \in Requests, EditCompany(r) \/ EditContact(r)
    PROVE  Directory!Next
<1> DEFINE in == Cmd(r)
           x == Cmd(r).record
           old == row[x]
<1>1. PICK op \in {"editCompany", "editContact"}, link \in {old.link, in.link} :
         /\ Commit(r, {op}) /\ Edited(r, link)
         /\ link = old.link \/ (op = "editCompany" /\ link = in.link)
  <2>1. CASE EditCompany(r)
    <3>1. CASE in.profile
      BY <2>1, <3>1 DEF EditCompany
    <3>2. CASE ~in.profile
      BY <2>1, <3>2 DEF EditCompany
    <3> QED BY <3>1, <3>2
  <2>2. CASE EditContact(r)
    BY <2>2 DEF EditContact
  <2> QED BY <2>1, <2>2
<1>2. /\ in.op = op /\ in \in Commands /\ UNCHANGED member
      /\ x # None => x \in Records /\ old.version = in.version
      /\ in.op = "editCompany" /\ in.link # None =>
           \E S \in SUBSET Companies : in.link \in S /\ x \notin S /\ Closed(S, row)
  <2>1. IInv
    BY DEF VInv
  <2>2. /\ in.op \in {op} /\ in \in Commands /\ UNCHANGED <<member, sent, page>>
        /\ x # None => x \in Records /\ old.version = in.version
        /\ in.op = "editCompany" /\ in.link # None =>
             \E S \in SUBSET Companies : in.link \in S /\ x \notin S /\ Closed(S, row)
    BY <1>1, <2>1, CommitParts
  <2> QED BY <2>2
<1>3. /\ request[r] \in Keys /\ Directory!CarriesOut(request[r])
      /\ Directory!Assignable(in.responsible)
      /\ Directory!Linkable(in.link) /\ old.life = "active"
  BY <1>1, <1>2, DirectoryAtCommit
<1>4. /\ x \in Records /\ in.teams \in SUBSET Teams /\ old.version = in.version
      /\ op = "editCompany" => x \in Companies
  BY <1>2, CommandParts
<1>5. op = "editCompany" => Directory!Apart(x, in.link)
  BY <1>2 DEF Directory!Apart, Directory!Closed, Directory!Link, Closed, Link
<1> DEFINE edit == [old EXCEPT !.mail = in.mail, !.phone = in.phone,
                               !.responsible = in.responsible, !.link = link]
           new == [edit EXCEPT !.version = @ + 1]
<1>6. Written(r, edit) /\ teams' = [teams EXCEPT ![x] = in.teams]
  BY <1>1 DEF Edited, AssignedTo
<1>7. row = [y \in Records |-> row[y]] /\ old \in ContactRows
  BY <1>4, RowParts DEF VInv, IInv, RowsTyped
<1>8. /\ new.life = "active" /\ new.version = old.version + 1 /\ new.link = link
      /\ new.responsible = in.responsible
  <2> HIDE DEF old, in
  <2> QED BY <1>3, <1>7 DEF ContactRows
<1>9. row' = [row EXCEPT ![x] = new]
  <2> HIDE DEF edit
  <2> QED BY <1>4, <1>6, <1>7, WrittenParts
<1> HIDE DEF in, x, old, edit, new
<1>10. row'[x] = new /\ Directory!Becomes(x, in.teams)
  BY <1>2, <1>4, <1>6, <1>9, Entered DEF VInv
<1>11. Directory!Edit(x)
  BY <1>1, <1>3, <1>4, <1>5, <1>8, <1>10 DEF Directory!Edit, old
<1> QED BY <1>3, <1>4, <1>11 DEF Directory!Next, Directory!Changes, Directory!Records, Records

LEMMA LifeEntered ==
    ASSUME VInv, IInv', NEW r \in Requests, ChangeLife(r)
    PROVE  Directory!Next
<1> DEFINE in == Cmd(r)
           x == Cmd(r).record
           old == row[x]
           life == IF in.op = "archive" THEN "archived" ELSE "active"
           edit == [old EXCEPT !.life = life]
           new == [edit EXCEPT !.version = @ + 1]
<1>1. Commit(r, {"archive", "restore"}) /\ Written(r, edit) /\ UNCHANGED teams
  BY DEF ChangeLife
<1>2. /\ in.op \in {"archive", "restore"} /\ in \in Commands /\ UNCHANGED member
      /\ x # None => x \in Records /\ old.version = in.version
  <2>1. IInv
    BY DEF VInv
  <2> HIDE DEF edit, new
  <2> QED BY <1>1, <2>1, CommitParts
<1>3. /\ request[r] \in Keys /\ Directory!CarriesOut(request[r])
      /\ old.life = IF in.op = "archive" THEN "active" ELSE "archived"
  <2> HIDE DEF edit
  <2> QED BY <1>1, <1>2, DirectoryAtCommit
<1>4. x \in Records /\ old.version = in.version
  BY <1>2, CommandParts
<1>5. row = [y \in Records |-> row[y]] /\ old \in ContactRows /\ teams \in [Records -> SUBSET Teams]
  BY <1>4, RowParts DEF VInv, IInv, RowsTyped
<1>6. new = [old EXCEPT !.life = life, !.version = @ + 1]
  <2> HIDE DEF old, life
  <2> QED BY <1>5 DEF ContactRows
<1>7. row' = [row EXCEPT ![x] = new]
  <2> HIDE DEF edit
  <2> QED BY <1>1, <1>4, <1>5, WrittenParts
<1>8. teams' = [teams EXCEPT ![x] = teams[x]] /\ teams[x] \in SUBSET Teams
  BY <1>1, <1>4, <1>5
<1> HIDE DEF new
<1>9. row'[x] = new /\ Directory!Becomes(x, teams[x])
  <2> HIDE DEF in, x, old, life, edit
  <2> QED BY <1>2, <1>4, <1>7, <1>8, Entered DEF VInv
<1>10. CASE in.op = "archive"
  <2>1. Directory!Archive(x)
    BY <1>3, <1>6, <1>9, <1>10 DEF Directory!Archive, Directory!Turn
  <2> QED BY <1>3, <1>4, <2>1 DEF Directory!Next, Directory!Changes, Directory!Records, Records
<1>11. CASE in.op = "restore"
  <2>1. Directory!Restore(x)
    BY <1>3, <1>6, <1>9, <1>11 DEF Directory!Restore, Directory!Turn
  <2> QED BY <1>3, <1>4, <2>1 DEF Directory!Next, Directory!Changes, Directory!Records, Records
<1> QED BY <1>2, <1>10, <1>11

LEMMA AffiliationEntered ==
    ASSUME VInv, IInv', NEW r \in Requests, ReplaceAffiliation(r)
    PROVE  Directory!Next
<1> DEFINE in == Cmd(r)
           x == Cmd(r).record
           old == row[x]
           edit == [old EXCEPT !.link = in.link]
           new == [edit EXCEPT !.version = @ + 1]
<1>1. Commit(r, {"affiliate"}) /\ Written(r, edit) /\ UNCHANGED teams
  BY DEF ReplaceAffiliation
<1>2. /\ in.op = "affiliate" /\ in \in Commands /\ UNCHANGED member
      /\ x # None => x \in Records /\ old.version = in.version
  <2>1. IInv
    BY DEF VInv
  <2>2. /\ in.op \in {"affiliate"} /\ in \in Commands /\ UNCHANGED <<member, sent, page>>
        /\ x # None => x \in Records /\ old.version = in.version
    <3> HIDE DEF edit, new
    <3> QED BY <1>1, <2>1, CommitParts
  <2> QED BY <2>2
<1>3. /\ request[r] \in Keys /\ Directory!CarriesOut(request[r])
      /\ old.life = "active" /\ Directory!Linkable(in.link)
  <2> HIDE DEF edit
  <2> QED BY <1>1, <1>2, DirectoryAtCommit
<1>4. /\ x \in Contacts /\ x \in Records /\ old.version = in.version
      /\ in.link \in Companies \cup {None}
  BY <1>2, CommandParts
<1>5. row = [y \in Records |-> row[y]] /\ old \in ContactRows /\ teams \in [Records -> SUBSET Teams]
  BY <1>4, RowParts DEF VInv, IInv, RowsTyped
<1>6. new = [old EXCEPT !.link = in.link, !.version = @ + 1]
  <2> HIDE DEF old, in
  <2> QED BY <1>5 DEF ContactRows
<1>7. row' = [row EXCEPT ![x] = new]
  <2> HIDE DEF edit
  <2> QED BY <1>1, <1>4, <1>5, WrittenParts
<1>8. teams' = [teams EXCEPT ![x] = teams[x]] /\ teams[x] \in SUBSET Teams
  BY <1>1, <1>4, <1>5
<1> HIDE DEF new
<1>9. row'[x] = new /\ Directory!Becomes(x, teams[x])
  <2> HIDE DEF in, x, old, edit
  <2> QED BY <1>2, <1>4, <1>7, <1>8, Entered DEF VInv
<1>10. Directory!Employ(x)
  BY <1>3, <1>4, <1>6, <1>9 DEF Directory!Employ
<1> QED BY <1>3, <1>4, <1>10 DEF Directory!Next, Directory!Changes

\* The commands implement CustomerDirectory: a change is made at once and once
\* per key, when the member who sent it manages records (revalidateActiveActor:
\* who was suspended or lost the role while the command waited changes nothing),
\* for somebody active, under a company that is active and does not lead back;
\* every other step, the pages included, leaves the directory as it is.
THEOREM RecordsKeepTheDirectory == Spec => DirectorySpec
<1>1. Init => Directory!Init
  <2>1. ASSUME Init
        PROVE  Directory!Init
    <3>1. PrimaryAddresses = Directory!Addresses /\ affiliated = Directory!Employers
      BY <2>1, InitHolds, DirectoryAgrees DEF Agreed
    <3> QED BY <2>1, <3>1 DEF Init, Directory!Init, Directory!Records, Records
  <2> QED BY <2>1
<1>2. ASSUME VInv, IInv', [Next]_vars
      PROVE  [Directory!Next]_(Directory!vars)
  <2>1. ASSUME UNCHANGED tables
        PROVE  UNCHANGED Directory!vars
    BY <2>1 DEF Directory!vars, tables, PrimaryAddresses
  <2>2. CASE UNCHANGED vars
    BY <2>1, <2>2 DEF vars
  <2>3. ASSUME NEW r \in Requests,
               \/ Submit(r) \/ Repeat(r) \/ Take(r) \/ Replay(r)
               \/ Refuse(r) \/ Abandon(r) \/ BreakDeadlock(r)
        PROVE  UNCHANGED Directory!vars
    BY <2>1, <2>3 DEF Submit, Repeat, Take, Replay, Refuse, Abandon, BreakDeadlock
  <2>4. ASSUME NEW r \in Requests, Effect(r)
        PROVE  Directory!Next
    BY <1>2, <2>4, CreateEntered, EditEntered, LifeEntered, AffiliationEntered
       DEF Effect, Links
  <2>5. ASSUME NEW v \in Pages, PageStep(v)
        PROVE  UNCHANGED Directory!vars
    BY <2>1, <2>5 DEF PageStep, List, FinishList, Open, ReadTeams, Fence, ReadChannels,
                      FinishDetail, Leave, Turn
  <2>6. ASSUME NEW m \in Members, MembershipChanges(m)
        PROVE  Directory!Next
    <3>1. Directory!MemberChanges(m)
      BY <2>6 DEF MembershipChanges, Directory!MemberChanges, PrimaryAddresses
    <3> QED BY <3>1 DEF Directory!Next
  <2> QED BY <1>2, <2>2, <2>3, <2>4, <2>5, <2>6 DEF Next
<1> QED BY <1>1, <1>2, AlwaysVouched, PTL DEF Spec, VInv, DirectorySpec, Directory!Spec
=============================================================================
