--------------------------- MODULE CustomerGraph ---------------------------
(***************************************************************************)
(* The companies and contacts of a workspace: creation, edits, archive and *)
(* restore, the hierarchy of companies, the company of a contact, and the  *)
(* pages that show them                                                    *)
(* (src/src/backend/modules/customer-graph).                               *)
(*                                                                         *)
(* The commands have the form of SalesDeals: locks in the order of the     *)
(* statements (Plan), what each lets the command read (Reading), and the   *)
(* effect at the commit.  A page locks nothing, reads in several           *)
(* statements and compares versions at the end.                            *)
(*                                                                         *)
(* A record is a company or a contact.  Its link is the parent company or  *)
(* the contact's company, its mail the domain or the primary e-mail        *)
(* address.  Mobile phones go the way of secondary e-mail addresses, teams *)
(* as responsible parties the way of members; other fields are left out.   *)
(***************************************************************************)
EXTENDS Naturals, Sequences, FiniteSets

CONSTANTS
    Members, Owner,       \* memberships of the workspace; Owner owns it
    Companies, Contacts,  \* identities of records
    Teams, TeamOf,        \* active teams, the teams of a member
    Mails, Phones,        \* domains and addresses, numbers
    Keys, Client,         \* idempotency keys, one per command, and whose they are
    Requests, Pages,      \* commands and pages served at the same time
    Operations,           \* bound: the operations called with each key
    Contents,             \* bound: what they write into a record
    Readers, Opened, Listed, \* bound: who opens pages, of which records and lists
    Start,                \* records at the start
    MemberStates          \* bound: the states administration gives members

Records == Companies \cup Contacts
None == "none"

ASSUME GraphAssumption ==
    /\ Owner \in Members /\ Readers \subseteq Members /\ Opened \subseteq Records
    /\ Listed \subseteq {"active", "archived"}
    /\ Client \in [Keys -> Members]
    /\ TeamOf \in [Members -> SUBSET Teams]
    /\ Companies \cap Contacts = {} /\ None \notin Records
    /\ Operations \in [Keys -> SUBSET {"createCompany", "createContact", "editCompany",
                                       "editContact", "affiliate", "archive", "restore"}]
    /\ MemberStates \subseteq [active : BOOLEAN, role : {"admin", "member"}]
    /\ Contents \subseteq [profile : BOOLEAN, link : Companies \cup {None},
                           mail : Mails \cup {None}, secondary : Mails \cup {None},
                           phone : Phones \cup {None},
                           responsible : Members \cup {None}, teams : SUBSET Teams]

Link(c) == {c} \ {None}

\* A set of companies that has the parent of each of its members.
Closed(S, rows) == \A c \in S : Link(rows[c].link) \subseteq S

\* The least such set with company c: c and all that is above it.
Above(c, rows) ==
    LET sets == {S \in SUBSET Companies : c \in S /\ Closed(S, rows)}
    IN  {d \in Companies : \A S \in sets : d \in S}

VARIABLES
    row,        \* rows of companies and contacts
    points,     \* their active identity and domain points
    affiliated, \* companies of a contact's active affiliations
    teams,      \* rows of visible teams
    member,
    receipts,   \* keys whose outcome is stored
    sent,       \* sent[k]: the command its client made with key k
    request, step, held, seen, \* per request: key, progress, locks, local reads
    page        \* per page: what it has read, and shows when it is done

tables == <<row, points, affiliated, teams, member, receipts>>
local == <<request, step, held, seen>>
vars == <<tables, sent, local, page>>

NoCommand == [op |-> "none"]
NoRecord == [life |-> "absent", version |-> 0, link |-> None, mail |-> None,
             phone |-> None, responsible |-> None]

Lives == {"absent", "active", "archived"}
CompanyRows == [life : Lives, version : Nat, link : Companies \cup {None},
                mail : Mails \cup {None}, phone : {None}, responsible : Members \cup {None}]
ContactRows == [life : Lives, version : Nat, link : Companies \cup {None},
                mail : Mails \cup {None}, phone : Phones \cup {None},
                responsible : Members \cup {None}]
Points == [kind : {"mail"}, usage : {None, "email_primary", "email_secondary"},
           value : Mails, primary : BOOLEAN]
          \cup [kind : {"phone"}, usage : {None, "phone_direct"},
                value : Phones, primary : BOOLEAN]
MemberRows == [active : BOOLEAN, role : {"owner", "admin", "member"}]

\* Records that are there at the start have rows of their kind, refer to
\* companies that are there, and no company is above itself.
ASSUME StartAssumption ==
    /\ \A x \in Records :
         /\ Start[x] \in IF x \in Companies THEN CompanyRows ELSE ContactRows
         /\ Start[x].life = "absent" => Start[x] = NoRecord
         /\ \A c \in Link(Start[x].link) : Start[c].life # "absent"
    /\ \A c \in Companies : Start[c].link # None => c \notin Above(Start[c].link, Start)

Point(kind, usage, value, primary) ==
    IF value = None THEN {}
    ELSE {[kind |-> kind, usage |-> usage, value |-> value, primary |-> primary]}

\* The points a creation inserts.
NewPoints(x, mail, secondary, phone) ==
    IF x \in Companies THEN Point("mail", None, mail, TRUE)
    ELSE Point("mail", "email_primary", mail, TRUE)
         \cup Point("phone", "phone_direct", phone, FALSE)
         \cup Point("mail", "email_secondary", secondary, FALSE)

NothingSeen == [receipt |-> FALSE, row |-> NoRecord, responsible |-> FALSE,
                walked |-> << >>, linked |-> FALSE,
                member |-> [active |-> FALSE, role |-> "member"]]
NoPage == [phase |-> "idle", reader |-> None, rows |-> << >>, teams |-> {}, affiliated |-> {}]

Init == /\ row = [x \in Records |-> Start[x]]
        /\ points = [x \in Records |-> NewPoints(x, Start[x].mail, None, Start[x].phone)]
        /\ affiliated = [p \in Contacts |-> Link(Start[p].link)]
        /\ teams = [x \in Records |-> {}]
        /\ member = [m \in Members |->
                       [active |-> TRUE, role |-> IF m = Owner THEN "owner" ELSE "admin"]]
        /\ receipts = {}
        /\ sent = [k \in Keys |-> NoCommand]
        /\ request = [r \in Requests |-> None]
        /\ step = [r \in Requests |-> 0]
        /\ held = [r \in Requests |-> {}]
        /\ seen = [r \in Requests |-> NothingSeen]
        /\ page = [v \in Pages |-> NoPage]
-----------------------------------------------------------------------------
Running(r) == request[r] # None
Cmd(r) == sent[request[r]]
-----------------------------------------------------------------------------
(* Variants with a plausible bug, for mutation checks. *)
LocksKept(r) == /\ request' = [request EXCEPT ![r] = None]
                /\ step' = [step EXCEPT ![r] = 0]
                /\ UNCHANGED <<held, seen>>

Unlocked(r) == {}

CircleAtTheParent(r) == Cmd(r).link = Cmd(r).record

NoFence(v) == TRUE
-----------------------------------------------------------------------------
Manages(m) == m.active /\ m.role \in {"owner", "admin"}

\* A new parent is checked with all its ancestors, by the transaction that
\* holds the lock of the hierarchy; a company that others refer to alone.
Linking(r) == IF Cmd(r).link = None THEN << >>
              ELSE IF Cmd(r).op = "editCompany" THEN <<"hierarchy", "ancestors">>
              ELSE <<"company">>

\* The locks an operation takes, in the order of its statements; a stored
\* outcome is returned as it is.
Plan(r) ==
    IF seen[r].receipt THEN <<"key">>
    ELSE CASE Cmd(r).op \in {"createCompany", "createContact"} ->
                <<"key", "assignment">> \o Linking(r) \o <<"actor">>
           [] Cmd(r).op \in {"editCompany", "editContact"} ->
                <<"key", "record", "assignment">> \o Linking(r) \o <<"actor">>
           [] Cmd(r).op = "affiliate" -> <<"key", "record">> \o Linking(r) \o <<"actor">>
           [] OTHER -> <<"key", "record", "actor">>

Done(r) == Running(r) /\ step[r] > Len(Plan(r))
NextLock(r) == Plan(r)[step[r]]

\* revalidateActiveActor
ActorLocks(r) == {<<"workspace">>, <<"member", Cmd(r).actor>>}

\* root, for update
RecordLocks(r) == {<<"record", Cmd(r).record>>}

\* Companies that are linked to.
CompanyLocks(r) == {<<"record", Cmd(r).link>>}

AncestorLocks(r) == {<<"record", c>> : c \in DOMAIN seen[r].walked}

Wanted(r) == LET lock == NextLock(r) IN
    CASE lock = "key" -> {<<"key", request[r]>>}
      [] lock = "record" -> RecordLocks(r)
      [] lock = "assignment" -> {<<"member", m>> : m \in Link(Cmd(r).responsible)}
      [] lock = "hierarchy" -> {<<"hierarchy">>}
      [] lock = "ancestors" -> AncestorLocks(r)
      [] lock = "company" -> CompanyLocks(r)
      [] lock = "actor" -> ActorLocks(r)

WaitsFor(r, q) == /\ r # q
                  /\ Running(r) /\ Running(q) /\ ~Done(r)
                  /\ Wanted(r) \cap held[q] # {}

Free(S) == \A r \in Requests : held[r] \cap S = {}

\* The companies from c upwards.
Chain(c) == Above(c, row)

\* The walk meets the company itself, or nothing else than a circle.
Circular(r) == \/ Cmd(r).record \in Chain(Cmd(r).link)
               \/ \A c \in Chain(Cmd(r).link) : row[c].link # None

\* The ancestors a walk has found, each with its parent; none if it failed.
Ancestry(r) == LET chain == Chain(Cmd(r).link) IN
    IF Circular(r) \/ \E c \in chain : row[c].life # "active" THEN << >>
    ELSE [c \in chain |-> row[c].link]

\* The company is active, at the version the client has seen.
Available(r) == LET c == Cmd(r).link IN
    /\ row[c].life = "active"
    /\ Cmd(r).profile => row[c].version = Cmd(r).linkVersion

Unmoved(r) == /\ Cmd(r).link \in DOMAIN seen[r].walked
              /\ \A c \in DOMAIN seen[r].walked :
                   row[c].life = "active" /\ row[c].link = seen[r].walked[c]

\* What a request knows after it has the lock.
Reading(r) == LET lock == NextLock(r) IN
    CASE lock = "key" -> [seen[r] EXCEPT !.receipt = request[r] \in receipts]
      [] lock = "record" -> [seen[r] EXCEPT !.row = row[Cmd(r).record]]
      [] lock = "assignment" ->
           [seen[r] EXCEPT !.responsible =
              \A m \in Link(Cmd(r).responsible) : member[m].active]
      [] lock = "hierarchy" -> [seen[r] EXCEPT !.walked = Ancestry(r)]
      [] lock = "ancestors" -> [seen[r] EXCEPT !.linked = Unmoved(r) /\ Available(r)]
      [] lock = "company" -> [seen[r] EXCEPT !.linked = Available(r)]
      [] lock = "actor" -> [seen[r] EXCEPT !.member = member[Cmd(r).actor]]

\* The transaction ends and its locks are released.
Close(r) == /\ request' = [request EXCEPT ![r] = None]
            /\ step' = [step EXCEPT ![r] = 0]
            /\ held' = [held EXCEPT ![r] = {}]
            /\ seen' = [seen EXCEPT ![r] = NothingSeen]
-----------------------------------------------------------------------------
\* lookupActiveActor, which locks nothing.
Admitted(in) == Manages(member[in.actor])

VersionMatches(r) == Cmd(r).version = seen[r].row.version

LinkAvailable(r) == Cmd(r).link = None \/ seen[r].linked

Creates(r) == Cmd(r).op \in {"createCompany", "createContact"}

\* Bound: there is an identity left for a new record.
Room(r) == {x \in IF Cmd(r).op = "createCompany" THEN Companies ELSE Contacts :
              row[x].life = "absent"}

\* An edit archives the active primary point of a kind and inserts another.
Replaced(pts, kind, old, new) ==
    IF old = new THEN pts
    ELSE {q \in pts : ~(q.kind = kind /\ q.primary)} \cup Point(kind, None, new, TRUE)

WithoutUsage(pts, usage) == {q \in pts : q.usage # usage}

\* contact_identity_points_active_value_uq
Unused(pts, kind, value) == ~\E q \in pts : q.kind = kind /\ q.value = value

Inserts(pts, kind, old, new) ==
    new \notin {old, None} =>
        Unused({q \in pts : ~(q.kind = kind /\ q.primary)}, kind, new)

\* The points after an edit, in the order of its statements.
Channels(r) == LET x == Cmd(r).record IN
    Replaced(Replaced(points[x], "mail", row[x].mail, Cmd(r).mail),
             "phone", row[x].phone, Cmd(r).phone)

EditedPoints(r) ==
    IF Cmd(r).profile /\ Cmd(r).record \in Contacts
    THEN WithoutUsage(Channels(r), "email_secondary")
         \cup Point("mail", "email_secondary", Cmd(r).secondary, FALSE)
    ELSE Channels(r)

PointsFit(r) == LET x == Cmd(r).record IN
    /\ Inserts(points[x], "mail", row[x].mail, Cmd(r).mail)
    /\ Inserts(points[x], "phone", row[x].phone, Cmd(r).phone)
    /\ x \in Contacts /\ Cmd(r).profile =>
         Unused(WithoutUsage(Channels(r), "email_secondary"), "mail", Cmd(r).secondary)

MayCreate(r) == /\ seen[r].responsible /\ LinkAvailable(r)
                /\ Manages(seen[r].member)
                /\ Room(r) # {}
                /\ Cmd(r).mail = None \/ Cmd(r).secondary # Cmd(r).mail

MayEdit(r) == /\ seen[r].row.life = "active" /\ VersionMatches(r)
              /\ seen[r].responsible /\ LinkAvailable(r)
              /\ Manages(seen[r].member)
              /\ PointsFit(r)

MayAffiliate(r) == /\ seen[r].row.life = "active" /\ VersionMatches(r)
                   /\ LinkAvailable(r)
                   /\ Manages(seen[r].member)

MayChangeLife(r) ==
    /\ seen[r].row.life = IF Cmd(r).op = "archive" THEN "active" ELSE "archived"
    /\ VersionMatches(r)
    /\ Manages(seen[r].member)

Allowed(r) == CASE Creates(r) -> MayCreate(r)
                [] Cmd(r).op \in {"editCompany", "editContact"} -> MayEdit(r)
                [] Cmd(r).op = "affiliate" -> MayAffiliate(r)
                [] OTHER -> MayChangeLife(r)
-----------------------------------------------------------------------------
\* Bound: a client makes the commands that the page it sees now allows.  A
\* command of contract 2 has a profile, with the parent of a company and the
\* second address of a contact; one of contract 1 leaves both as they are.
Targets(op) ==
    {x \in Records :
       CASE op = "createCompany" -> FALSE
         [] op = "createContact" -> FALSE
         [] op = "editCompany" -> x \in Companies /\ row[x].life = "active"
         [] op = "editContact" -> x \in Contacts /\ row[x].life = "active"
         [] op = "affiliate" -> x \in Contacts /\ row[x].life = "active"
         [] op = "archive" -> row[x].life = "active"
         [] op = "restore" -> row[x].life = "archived"}

\* getCustomerGraphScreenProfileV1 gives a form with a profile only while the
\* parent and the responsible member are active.
HasForm(x) == /\ x \in Companies /\ row[x].link # None => row[row[x].link].life = "active"
              /\ \A m \in Link(row[x].responsible) : member[m].active

\* Options for a parent leave out what is below the company.
Selectable(x) == {c \in Companies : row[c].life = "active" /\ x \notin Chain(c)}

Unwritten == [profile |-> FALSE, link |-> None, mail |-> None, secondary |-> None,
              phone |-> None, responsible |-> None, teams |-> {}]

Fits(op, x, f) ==
    /\ f.link # None => f.link \in Selectable(x)
    /\ op \in {"createCompany", "editCompany"} => f.secondary = None /\ f.phone = None
    /\ op = "editContact" => f.link = None
    /\ ~f.profile => f.secondary = None /\ (op = "createContact" \/ f.link = None)
    /\ f.profile /\ x # None => HasForm(x)

Fields(op, x) ==
    CASE op \in {"archive", "restore"} -> {Unwritten}
      [] op = "affiliate" ->
           {[Unwritten EXCEPT !.link = c] :
              c \in {f.link : f \in Contents} \cap (Selectable(x) \cup {None})}
      [] OTHER -> {f \in Contents : Fits(op, x, f)}

Command(op, m, x, f) ==
    [op |-> op, actor |-> m, record |-> x,
     version |-> IF x = None THEN 0 ELSE row[x].version,
     profile |-> f.profile, link |-> f.link,
     linkVersion |-> IF f.link = None THEN 0 ELSE row[f.link].version,
     mail |-> f.mail, secondary |-> f.secondary, phone |-> f.phone,
     responsible |-> f.responsible, teams |-> f.teams]

Offered(op, m) ==
    LET targets == IF op \in {"createCompany", "createContact"} THEN {None} ELSE Targets(op)
    IN  UNION {{Command(op, m, x, f) : f \in Fields(op, x)} : x \in targets}

\* A client makes a command and a key for it.
Submit(r) ==
    /\ request[r] = None
    /\ \E k \in {key \in Keys : sent[key] = NoCommand} :
       \E op \in Operations[k] : \E in \in Offered(op, Client[k]) :
         /\ Admitted(in)
         /\ sent' = [sent EXCEPT ![k] = in]
         /\ request' = [request EXCEPT ![r] = k]
    /\ step' = [step EXCEPT ![r] = 1]
    /\ UNCHANGED <<tables, held, seen, page>>

\* It has no answer, or doubts it, and sends the command again.
Repeat(r) ==
    /\ request[r] = None
    /\ \E k \in Keys : /\ sent[k] # NoCommand
                      /\ Admitted(sent[k])
                      /\ request' = [request EXCEPT ![r] = k]
    /\ step' = [step EXCEPT ![r] = 1]
    /\ UNCHANGED <<tables, sent, held, seen, page>>

\* The next lock is granted.
Take(r) ==
    /\ Running(r) /\ ~Done(r)
    /\ \A q \in Requests : ~WaitsFor(r, q)
    /\ held' = [held EXCEPT ![r] = @ \cup Wanted(r)]
    /\ seen' = [seen EXCEPT ![r] = Reading(r)]
    /\ step' = [step EXCEPT ![r] = @ + 1]
    /\ UNCHANGED <<tables, sent, request, page>>

Replay(r) ==
    /\ Done(r) /\ seen[r].receipt
    /\ Close(r)
    /\ UNCHANGED <<tables, sent, page>>

Refuse(r) ==
    /\ Done(r) /\ ~seen[r].receipt /\ ~Allowed(r)
    /\ Close(r)
    /\ UNCHANGED <<tables, sent, page>>

\* An early refusal, a lost connection or a stopped server: roll back.
Abandon(r) ==
    /\ Running(r)
    /\ Close(r)
    /\ UNCHANGED <<tables, sent, page>>

\* PostgreSQL ends one transaction of a cycle of waits.
Cycle(S) == /\ S # {}
            /\ \A q \in S : \E p \in S : WaitsFor(q, p)

BreakDeadlock(r) ==
    /\ \E q \in Requests : WaitsFor(r, q)
    /\ \E S \in SUBSET Requests :
         /\ r \in S /\ Cycle(S)
         /\ \A Q \in SUBSET S : Cycle(Q) => Q = S
    /\ Close(r)
    /\ UNCHANGED <<tables, sent, page>>
-----------------------------------------------------------------------------
\* The command is carried out and its outcome stored.
Commit(r, ops) ==
    /\ Done(r) /\ Cmd(r).op \in ops
    /\ ~seen[r].receipt /\ Allowed(r)
    /\ receipts' = receipts \cup {request[r]}
    /\ Close(r)
    /\ UNCHANGED <<member, sent, page>>

\* "update ... where version=...": nothing looks at how many rows it hit.
Written(r, new) ==
    row' = [row EXCEPT ![Cmd(r).record] =
              IF @.version = Cmd(r).version THEN [new EXCEPT !.version = @ + 1] ELSE @]

\* setTeams
AssignedTo(x, T) == teams' = [teams EXCEPT ![x] = T]

Affiliate(x, c) == affiliated' = [affiliated EXCEPT ![x] = Link(c)]

Inserted(r, x) ==
    /\ row' = [row EXCEPT ![x] =
         [life |-> "active", version |-> 1, link |-> Cmd(r).link, mail |-> Cmd(r).mail,
          phone |-> Cmd(r).phone, responsible |-> Cmd(r).responsible]]
    /\ points' = [points EXCEPT ![x] =
         NewPoints(x, Cmd(r).mail, Cmd(r).secondary, Cmd(r).phone)]
    /\ AssignedTo(x, Cmd(r).teams)

CreateCompany(r) ==
    /\ Commit(r, {"createCompany"})
    /\ \E x \in Room(r) : Inserted(r, x)
    /\ UNCHANGED affiliated

CreateContact(r) ==
    /\ Commit(r, {"createContact"})
    /\ \E x \in Room(r) : Inserted(r, x) /\ Affiliate(x, Cmd(r).link)

\* editRoot.  Only a profile changes the parent of a company, and the company
\* of a contact stays.
Edited(r, link) == LET x == Cmd(r).record IN
    /\ Written(r, [row[x] EXCEPT !.mail = Cmd(r).mail, !.phone = Cmd(r).phone,
                                 !.responsible = Cmd(r).responsible, !.link = link])
    /\ points' = [points EXCEPT ![x] = EditedPoints(r)]
    /\ AssignedTo(x, Cmd(r).teams)
    /\ UNCHANGED affiliated

EditCompany(r) ==
    /\ Commit(r, {"editCompany"})
    /\ Edited(r, IF Cmd(r).profile THEN Cmd(r).link ELSE row[Cmd(r).record].link)

EditContact(r) ==
    /\ Commit(r, {"editContact"})
    /\ Edited(r, row[Cmd(r).record].link)

ChangeLife(r) ==
    /\ Commit(r, {"archive", "restore"})
    /\ Written(r, [row[Cmd(r).record] EXCEPT
                     !.life = IF Cmd(r).op = "archive" THEN "archived" ELSE "active"])
    /\ UNCHANGED <<points, affiliated, teams>>

ReplaceAffiliation(r) ==
    /\ Commit(r, {"affiliate"})
    /\ Affiliate(Cmd(r).record, Cmd(r).link)
    /\ Written(r, [row[Cmd(r).record] EXCEPT !.link = Cmd(r).link])
    /\ UNCHANGED <<points, teams>>

Links(r) == \/ CreateCompany(r) \/ CreateContact(r) \/ EditCompany(r) \/ EditContact(r)
            \/ ReplaceAffiliation(r)

Effect(r) == Links(r) \/ ChangeLife(r)
-----------------------------------------------------------------------------
\* A member sees the records of everyone, its own and those of its teams.
Sees(m, x) == /\ member[m].active
              /\ \/ Manages(member[m])
                 \/ teams[x] = {} \/ row[x].responsible = m
                 \/ teams[x] \cap TeamOf[m] # {}

OnPage(v) == DOMAIN page[v].rows
Record(v) == CHOOSE x \in OnPage(v) : TRUE

Turn(v, from, new) == /\ page[v].phase = from
                      /\ page' = [page EXCEPT ![v] = new]
                      /\ UNCHANGED <<tables, sent, local>>

\* The query of listCustomerGraph.
List(v) ==
    \E m \in Readers, life \in Listed :
      /\ member[m].active
      /\ LET S == {x \in Records : row[x].life = life /\ Sees(m, x)} IN
         Turn(v, "idle", [NoPage EXCEPT !.phase = "listed", !.reader = m,
                                        !.rows = [x \in S |-> row[x]]])

\* getCustomerGraph reads the row, and who may see it.
Open(v) ==
    \E m \in Readers, x \in Opened :
      /\ row[x].life # "absent" /\ Sees(m, x)
      /\ Turn(v, "idle", [NoPage EXCEPT !.phase = "opened", !.reader = m,
                                        !.rows = [y \in {x} |-> row[x]]])

ReadTeams(v) ==
    Turn(v, "opened", [page[v] EXCEPT !.phase = "detailed", !.teams = teams[Record(v)]])

\* The final fence: the records are as they were first read, and the reader
\* may still see them.  A version stands for what is compared with it.  A
\* detail shows the second reading of the row, a list the first.
Fenced(v) == \A x \in OnPage(v) : /\ row[x].version = page[v].rows[x].version
                                  /\ Sees(page[v].reader, x)

FinishList(v) == /\ Fenced(v)
                 /\ Turn(v, "listed", [page[v] EXCEPT !.phase = "list"])

Fence(v) == /\ Fenced(v)
            /\ Turn(v, "detailed", [page[v] EXCEPT !.phase = "fenced",
                                     !.rows[Record(v)] = row[Record(v)]])

\* Channels and affiliations are read after the fence.
ReadChannels(v) ==
    LET x == Record(v) IN
    Turn(v, "fenced", [page[v] EXCEPT !.phase = "filled", !.rows[x].mail = row[x].mail,
                                      !.rows[x].phone = row[x].phone])

FinishDetail(v) ==
    Turn(v, "filled", [page[v] EXCEPT !.phase = "detail",
      !.affiliated = IF Record(v) \in Contacts THEN affiliated[Record(v)] ELSE {}])

\* A page is refused, at the fence or before, or closed.
Leave(v) == /\ page[v].phase # "idle"
            /\ Turn(v, page[v].phase, NoPage)

PageStep(v) == \/ List(v) \/ FinishList(v) \/ Open(v) \/ ReadTeams(v) \/ Fence(v)
               \/ ReadChannels(v) \/ FinishDetail(v) \/ Leave(v)
-----------------------------------------------------------------------------
\* Tenant administration suspends, restores or gives a member another role.
MembershipChanges(m) ==
    /\ m # Owner
    /\ Free({<<"workspace">>, <<"member", m>>})
    /\ \E new \in MemberStates \ {member[m]} : member' = [member EXCEPT ![m] = new]
    /\ UNCHANGED <<row, points, affiliated, teams, receipts, sent, local, page>>

Next == \/ \E r \in Requests : \/ Submit(r) \/ Repeat(r) \/ Take(r) \/ Replay(r)
                              \/ Refuse(r) \/ Abandon(r) \/ BreakDeadlock(r) \/ Effect(r)
        \/ \E v \in Pages : PageStep(v)
        \/ \E m \in Members : MembershipChanges(m)

Spec == Init /\ [][Next]_vars
-----------------------------------------------------------------------------
TypeOK ==
    /\ \A x \in Records : row[x] \in IF x \in Companies THEN CompanyRows ELSE ContactRows
    /\ points \in [Records -> SUBSET Points]
    /\ affiliated \in [Contacts -> SUBSET Companies]
    /\ teams \in [Records -> SUBSET Teams]
    /\ member \in [Members -> MemberRows]
    /\ receipts \subseteq Keys
    /\ request \in [Requests -> Keys \cup {None}]
    /\ step \in [Requests -> 0 .. 7]
    /\ \A r \in Requests : /\ seen[r].row \in CompanyRows \cup ContactRows
                           /\ seen[r].member \in MemberRows
                           /\ ~Running(r) => held[r] = {} /\ seen[r] = NothingSeen
    /\ \A v \in Pages : OnPage(v) \subseteq Records

\* "Hierarchy ... cycle rejection": no company is above itself, whatever
\* parents are set at the same time (screen-forms-01-database-handoff.md).  The
\* directory below has this by its steps, and CustomerGraphProofs states it.
NoParentCycle == \A c \in Companies : row[c].link = None \/ c \notin Chain(row[c].link)

\* The columns of a record agree with its points and affiliations, which are
\* other rows, written by other statements: the domain or e-mail address is
\* that of the primary point, a number has a point, the company is that of
\* the active affiliation.
RowsAgree ==
    \A x \in Records :
      /\ {q.value : q \in {p \in points[x] : p.kind = "mail" /\ p.primary}} = Link(row[x].mail)
      /\ Link(row[x].phone) \subseteq {q.value : q \in {p \in points[x] : p.kind = "phone"}}
      /\ x \in Contacts => affiliated[x] = Link(row[x].link)

\* A page that shows the version a record still has shows what the record
\* still holds, so that an edit under that version overwrites nothing unseen.
PagesAreCurrent ==
    \A v \in Pages : \A x \in OnPage(v) :
      page[v].phase \in {"list", "detail"} /\ page[v].rows[x].version = row[x].version =>
        /\ page[v].rows[x] = row[x]
        /\ page[v].phase = "detail" =>
             /\ page[v].teams = teams[x]
             /\ x \in Contacts => page[v].affiliated = affiliated[x]

\* Whatever runs at the same time, is repeated, lost or ended by a deadlock,
\* companies and contacts keep the promises of CustomerDirectory: a commit is
\* one of its steps, by the member who sent the command, who still manages
\* records then, and nothing else is.
PrimaryAddresses ==
    [x \in Records |-> {q.value : q \in {p \in points[x] : p.kind = "mail" /\ p.primary}}]
Directory == INSTANCE CustomerDirectory WITH addresses <- PrimaryAddresses,
                                             done <- receipts
DirectorySpec == Directory!Spec
=============================================================================
