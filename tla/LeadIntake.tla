----------------------------- MODULE LeadIntake -----------------------------
(***************************************************************************)
(* New leads, the contacts they may belong to, and the decisions about     *)
(* them: inquiries, the lead forms, and identity reviews                   *)
(* (src/src/backend/modules/leads/application/orchestrators,               *)
(* src/src/backend/modules/identity-review).                               *)
(*                                                                         *)
(* The commands have the form of CustomerGraph: locks in the order of the  *)
(* statements (Plan), what each lets the command read (Reading), and the   *)
(* effect at the commit.                                                   *)
(*                                                                         *)
(* A person is known by marks: e-mail addresses and phone numbers.  The    *)
(* contacts that share a mark with a lead are its candidates.  Candidates  *)
(* by name, and the companies of an inquiry, go the way of contacts and    *)
(* are left out; the company of a lead form is chosen by its user.         *)
(***************************************************************************)
EXTENDS Naturals, Sequences, FiniteSets

CONSTANTS
    Members, Owner,      \* memberships of the workspace; Owner owns it
    Contacts, Leads,     \* identities of records
    Marks,
    Keys, Client,        \* idempotency keys, one per command, and whose they are
    Requests,            \* commands served at the same time
    Operations,          \* bound: the operations called with each key
    Persons,             \* bound: the marks of the persons that are entered
    StartContacts,       \* marks of the contacts at the start
    StartLeads,          \* marks of the leads under review at the start
    Assigned,            \* bound: members that are made responsible, or None
    StartResponsible,    \* the member who is responsible for the leads at the start
    Changing,            \* bound: contacts that the customer graph changes
    MaxVersion           \* bound: the version it brings a record to

None == "none"
Earlier == "earlier"

Ops == {"inquiry", "create", "edit", "hold", "resolve"}

ASSUME IntakeAssumption ==
    /\ Owner \in Members
    /\ Client \in [Keys -> Members]
    /\ Operations \in [Keys -> SUBSET Ops]
    /\ Persons \subseteq SUBSET Marks \ {{}}
    /\ StartContacts \in [Contacts -> SUBSET Marks]
    /\ StartLeads \in [Leads -> SUBSET Marks]
    /\ Assigned \subseteq Members \cup {None} /\ StartResponsible \in Members
    /\ Changing \subseteq Contacts /\ MaxVersion \in Nat
    /\ {None, Earlier} \cap (Contacts \cup Keys \cup Members) = {}

VARIABLES
    contact, company, lead,
    review,     \* per lead: the review of its contact
    head,       \* per lead: the last decision of that review
    decided,    \* keys of decisions, which are kept
    receipts,   \* keys of lead forms whose outcome is stored
    member,
    sent,       \* sent[k]: the command its client made with key k
    request, step, held, seen \* per request: key, progress, locks, local reads

graph == <<contact, company>>
tables == <<graph, lead, review, head, decided, receipts, member>>
local == <<request, step, held, seen>>
vars == <<tables, sent, local>>

NoCommand == [op |-> "none"]
NoContact == [life |-> "absent", version |-> 0, marks |-> {}, by |-> None]
NoLead == [made |-> None, form |-> FALSE, marks |-> {}, query |-> {},
           status |-> "not_required", version |-> 0, contact |-> None,
           responsible |-> None]
NoReview == [state |-> "none", version |-> 0, offered |-> {}]
NoDecision == [outcome |-> "none", contact |-> None]
NothingSeen == [receipt |-> FALSE, lead |-> NoLead, review |-> NoReview, found |-> {},
                fresh |-> FALSE, final |-> FALSE,
                assigned |-> FALSE, company |-> FALSE,
                member |-> [active |-> FALSE, role |-> "member"]]

ContactRows == [life : {"absent", "active", "archived"}, version : Nat,
                marks : SUBSET Marks, by : Keys \cup {None}]
LeadRows == [made : Keys \cup {None, Earlier}, form : BOOLEAN, marks : SUBSET Marks,
             query : SUBSET Marks, status : {"not_required", "pending", "resolved"},
             version : Nat, contact : Contacts \cup {None},
             responsible : Members \cup {None}]
Candidates == [contact : Contacts, version : Nat]
ReviewRows == [state : {"none", "pending", "resolved"}, version : Nat,
               offered : SUBSET Candidates]
Decisions == [outcome : {"none", "hold", "resolve"}, contact : Contacts \cup {None}]
MemberRows == [active : BOOLEAN, role : {"owner", "admin", "member"}]

\* findCandidates
Found(marks) == {[contact |-> c, version |-> contact[c].version] :
                   c \in {x \in Contacts : /\ contact[x].life = "active"
                                           /\ contact[x].marks \cap marks # {}}}

\* An inquiry is held for review when there are candidates.
InquiryStatus(found) == IF found = {} THEN "not_required" ELSE "pending"

NewReview(found) == IF found = {} THEN NoReview
                    ELSE [state |-> "pending", version |-> 1, offered |-> found]

Inquiry(key, marks, found, responsible) ==
    [made |-> key, form |-> FALSE, marks |-> marks, query |-> marks,
     status |-> InquiryStatus(found), version |-> 1, contact |-> None,
     responsible |-> responsible]

Held(found) == IF found = {} THEN NoDecision ELSE [NoDecision EXCEPT !.outcome = "hold"]

StartFound(l) == {[contact |-> c, version |-> 1] :
                    c \in {x \in Contacts : StartContacts[x] \cap StartLeads[l] # {}}}

Init == /\ contact = [c \in Contacts |->
              IF StartContacts[c] = {} THEN NoContact
              ELSE [life |-> "active", version |-> 1, marks |-> StartContacts[c], by |-> None]]
        /\ company = [active |-> TRUE, version |-> 1]
        /\ lead = [l \in Leads |-> IF StartLeads[l] = {} THEN NoLead
                                   ELSE Inquiry(Earlier, StartLeads[l], StartFound(l), StartResponsible)]
        /\ review = [l \in Leads |-> NewReview(StartFound(l))]
        /\ head = [l \in Leads |-> Held(StartFound(l))]
        /\ decided = {} /\ receipts = {}
        /\ member = [m \in Members |->
                       [active |-> TRUE, role |-> IF m = Owner THEN "owner" ELSE "member"]]
        /\ sent = [k \in Keys |-> NoCommand]
        /\ request = [r \in Requests |-> None]
        /\ step = [r \in Requests |-> 0]
        /\ held = [r \in Requests |-> {}]
        /\ seen = [r \in Requests |-> NothingSeen]
-----------------------------------------------------------------------------
Running(r) == request[r] # None
Cmd(r) == sent[request[r]]
Manages(m) == m.active /\ m.role \in {"owner", "admin"}
-----------------------------------------------------------------------------
(* Variants with a plausible bug, for mutation checks. *)
LocksKept(r) == /\ request' = [request EXCEPT ![r] = None]
                /\ step' = [step EXCEPT ![r] = 0]
                /\ UNCHANGED <<held, seen>>

Unlocked(r) == {}

AlwaysSummarized(l) == TRUE

NotCompared(r) ==
    /\ Found(IF Cmd(r).op \in {"hold", "resolve"} THEN seen[r].lead.query
             ELSE Cmd(r).marks) = seen[r].found
    /\ Cmd(r).target # None => /\ contact[Cmd(r).target].life = "active"
                               /\ contact[Cmd(r).target].version = Cmd(r).targetVersion
-----------------------------------------------------------------------------
Decides(r) == Cmd(r).op \in {"hold", "resolve"}

\* The locks an operation takes, in the order of its statements.  A stored
\* outcome of a form is returned as it is; of an inquiry or a decision, only
\* to who may still see the lead.
Plan(r) ==
    IF seen[r].receipt
    THEN CASE Cmd(r).op \in {"create", "edit"} -> <<"key">>
           [] Cmd(r).op = "inquiry" -> <<"key", "lead", "actor">>
           [] OTHER -> <<"key", "lead", "review", "actor">>
    ELSE CASE Cmd(r).op = "inquiry" -> <<"key", "marks", "contacts", "actor">>
           [] Cmd(r).op = "create" ->
                <<"key", "assignment", "company", "contacts", "actor">>
           [] Cmd(r).op = "edit" ->
                <<"key", "lead", "assignment", "company", "actor", "review">>
           [] Cmd(r).op = "hold" -> <<"key", "lead", "review", "actor">>
           [] Cmd(r).op = "resolve" ->
                <<"key", "lead", "review", "marks", "contacts", "actor">>

Done(r) == Running(r) /\ step[r] > Len(Plan(r))
NextLock(r) == Plan(r)[step[r]]

\* The lead of the command, or the one that was made with its key.
Target(r) == IF Cmd(r).op = "inquiry" THEN {l \in Leads : lead[l].made = request[r]}
             ELSE {Cmd(r).lead}

\* What the search for candidates looks for.
Searched(r) == IF Decides(r) THEN seen[r].lead.query ELSE Cmd(r).marks

\* contactIdentityLockKeys; a decision takes them only to create a contact.
IdentityLocks(r) == IF Cmd(r).op = "inquiry" \/ Cmd(r).action = "create"
                    THEN {<<"mark", x>> : x \in Searched(r)} ELSE {}

\* lockCandidateSet
CandidateLocks(r) == {<<"contact", c>> : c \in {f.contact : f \in seen[r].found}
                                              \cup ({Cmd(r).target} \ {None})}

LeadLocks(r) == {<<"lead", l>> : l \in Target(r)}

\* lockReferences with the responsible member, and revalidateActiveActor.
ActorLocks(r) ==
    {<<"workspace">>} \cup {<<"member", m>> : m \in
       {Cmd(r).actor, seen[r].lead.responsible, Cmd(r).responsible} \ {None}}

Wanted(r) == LET lock == NextLock(r) IN
    CASE lock = "key" -> {<<"key", request[r]>>}
      [] lock = "lead" -> LeadLocks(r)
      [] lock = "review" -> {<<"review", l>> : l \in Target(r)}
      [] lock = "marks" -> IdentityLocks(r)
      [] lock = "contacts" -> CandidateLocks(r)
      [] lock = "assignment" -> {<<"member", m>> : m \in {Cmd(r).responsible} \ {None}}
      [] lock = "company" -> {<<"company">>}
      [] lock = "actor" -> ActorLocks(r)

WaitsFor(r, q) == /\ r # q
                  /\ Running(r) /\ Running(q) /\ ~Done(r)
                  /\ Wanted(r) \cap held[q] # {}

Free(S) == \A r \in Requests : held[r] \cap S = {}

HasReceipt(r) == CASE Cmd(r).op = "inquiry" -> Target(r) # {}
                   [] Cmd(r).op \in {"create", "edit"} -> request[r] \in receipts
                   [] OTHER -> request[r] \in decided

Current(c, version) == contact[c].life = "active" /\ contact[c].version = version

\* The search is repeated under the locks; a decision compares it with the
\* candidates of the review.
Refreshed(r) ==
    /\ Found(Searched(r)) = seen[r].found
    /\ Decides(r) => seen[r].found = seen[r].review.offered
    /\ Cmd(r).target # None => Current(Cmd(r).target, Cmd(r).targetVersion)

\* validateAssignment
AssignedActive(r) == Cmd(r).responsible # None => member[Cmd(r).responsible].active

\* What a request knows after it has the lock.
Reading(r) == LET lock == NextLock(r) IN
    CASE lock = "key" -> [seen[r] EXCEPT !.receipt = HasReceipt(r)]
      [] lock = "lead" -> [seen[r] EXCEPT !.lead = lead[CHOOSE l \in Target(r) : TRUE]]
      [] lock = "review" -> [seen[r] EXCEPT !.review = review[Cmd(r).lead]]
      [] lock = "marks" -> [seen[r] EXCEPT !.found = Found(Searched(r))]
      [] lock = "contacts" -> [seen[r] EXCEPT !.fresh = Refreshed(r)]
      [] lock = "assignment" ->
           [seen[r] EXCEPT !.assigned = AssignedActive(r)]
      [] lock = "company" ->
           [seen[r] EXCEPT !.company = company = [active |-> TRUE,
                                                  version |-> Cmd(r).companyVersion],
                           !.found = Found(Cmd(r).marks)]
      [] lock = "actor" -> [seen[r] EXCEPT !.member = member[Cmd(r).actor],
                                           !.assigned = AssignedActive(r),
                                           !.final = Refreshed(r)]

\* The transaction ends and its locks are released.
Close(r) == /\ request' = [request EXCEPT ![r] = None]
            /\ step' = [step EXCEPT ![r] = 0]
            /\ held' = [held EXCEPT ![r] = {}]
            /\ seen' = [seen EXCEPT ![r] = NothingSeen]
-----------------------------------------------------------------------------
\* lookupActiveActor, which locks nothing.
Admitted(in) == IF in.op \in {"create", "edit"} THEN Manages(member[in.actor])
                ELSE member[in.actor].active

\* Bound: there is an identity left for a new record.
LeadRoom == {l \in Leads : lead[l].made = None}
ContactRoom == {c \in Contacts : contact[c].life = "absent"}

\* lead_intakes_idempotency_uq: a form's key has made one intake.
IntakeUnused(r) == ~\E l \in Leads : lead[l].made = request[r]

\* screenReviewSummary: one review is resolved, as the lead says, and one of
\* the contact at most is pending.  A lead of a form has a review of its
\* company that is resolved from the beginning.
Summarized(l) ==
    /\ lead[l].form <=> review[l].state # "resolved"
    /\ lead[l].status = "pending" <=> review[l].state = "pending"
    /\ review[l].state = "resolved" =>
         head[l] = [outcome |-> "resolve", contact |-> lead[l].contact]

\* canDiscloseLead; who a lead is visible to besides is left out.
Discloses(m, facts, l) == /\ facts.active
                          /\ Manages(facts) \/ l.responsible = m

MayInquire(r) == /\ seen[r].fresh /\ seen[r].final /\ seen[r].assigned
                 /\ seen[r].member.active
                 /\ Manages(seen[r].member) \/ Cmd(r).responsible \in {None, Cmd(r).actor}
                 /\ LeadRoom # {}

MayCreate(r) == /\ seen[r].assigned /\ seen[r].company /\ seen[r].fresh
                /\ Manages(seen[r].member)
                /\ LeadRoom # {} /\ IntakeUnused(r)

MayEdit(r) == /\ seen[r].lead.version = Cmd(r).leadVersion
              /\ seen[r].assigned /\ seen[r].company
              /\ Manages(seen[r].member)
              /\ Summarized(Cmd(r).lead)

\* lockReview, assertIntakeLeadVersions and assertPendingReviewHead.  The
\* intake of a form has no candidate query; a lead of a form has two reviews
\* when one is pending, and either may be the one that is found.
MayDecide(r) == /\ seen[r].review.state = "pending"
                /\ seen[r].lead.query # {}
                /\ Discloses(Cmd(r).actor, seen[r].member, seen[r].lead)
                /\ seen[r].lead.version = Cmd(r).leadVersion
                /\ seen[r].review.version = Cmd(r).reviewVersion

MayResolve(r) ==
    /\ MayDecide(r)
    /\ seen[r].fresh /\ seen[r].final
    /\ Cmd(r).action = "link" => /\ Manages(seen[r].member)
                                 /\ [contact |-> Cmd(r).target, version |-> Cmd(r).targetVersion]
                                      \in seen[r].review.offered
    /\ Cmd(r).action = "create" => ContactRoom # {}

Allowed(r) == CASE Cmd(r).op = "inquiry" -> MayInquire(r)
                [] Cmd(r).op = "create" -> MayCreate(r)
                [] Cmd(r).op = "edit" -> MayEdit(r)
                [] Cmd(r).op = "hold" -> MayDecide(r)
                [] Cmd(r).op = "resolve" -> MayResolve(r)
-----------------------------------------------------------------------------
\* The page of a review is read under the locks of all that it shows.  It
\* presents its candidates only while all of them are as they were found.
Presented(l) == IF \A f \in review[l].offered : Current(f.contact, f.version)
                THEN review[l].offered ELSE {}

\* Leads of the review queue.
Queue(m) == {l \in Leads : review[l].state = "pending" /\ Discloses(m, member[m], lead[l])}

NewCommand(op, m) ==
    [op |-> op, actor |-> m, lead |-> None, leadVersion |-> 0, reviewVersion |-> 0,
     marks |-> {}, companyVersion |-> 0, responsible |-> None, action |-> None, target |-> None,
     targetVersion |-> 0]

About(op, m, l) == [NewCommand(op, m) EXCEPT
    !.lead = l, !.leadVersion = lead[l].version, !.reviewVersion = review[l].version]

Resolutions(m, l) ==
    {[About("resolve", m, l) EXCEPT !.action = "link", !.target = f.contact,
                                    !.targetVersion = f.version] : f \in Presented(l)}
    \cup {[About("resolve", m, l) EXCEPT !.action = a] : a \in {"create", "dismiss"}}

\* An inquiry about a person, and who is to be responsible.
Asked(in, marks) == {[in EXCEPT !.marks = marks, !.responsible = m] : m \in Assigned}

\* A form that is filled in, with the company and the member it offers.
Filled(in, marks) == {[in EXCEPT !.marks = marks, !.companyVersion = company.version,
                                 !.responsible = m] : m \in Assigned}

\* Bound: a client makes the commands that the page it sees now allows.
Offered(op, m) ==
    CASE op = "inquiry" -> UNION {Asked(NewCommand(op, m), p) : p \in Persons}
      [] op = "create" -> UNION {Filled(NewCommand(op, m), p) : p \in Persons}
      [] op = "edit" -> UNION {Filled(About(op, m, l), p) :
                                 l \in {x \in Leads : lead[x].made # None}, p \in Persons}
      [] op = "hold" -> {About(op, m, l) : l \in Queue(m)}
      [] op = "resolve" -> UNION {Resolutions(m, l) :
                                    l \in {x \in Queue(m) : Presented(x) # {}}}

\* A client makes a command and a key for it.
Submit(r) ==
    /\ request[r] = None
    /\ \E k \in {key \in Keys : sent[key] = NoCommand} :
       \E op \in Operations[k] : \E in \in Offered(op, Client[k]) :
         /\ Admitted(in)
         /\ sent' = [sent EXCEPT ![k] = in]
         /\ request' = [request EXCEPT ![r] = k]
    /\ step' = [step EXCEPT ![r] = 1]
    /\ UNCHANGED <<tables, held, seen>>

\* It has no answer, or doubts it, and sends the command again.
Repeat(r) ==
    /\ request[r] = None
    /\ \E k \in Keys : /\ sent[k] # NoCommand
                      /\ Admitted(sent[k])
                      /\ request' = [request EXCEPT ![r] = k]
    /\ step' = [step EXCEPT ![r] = 1]
    /\ UNCHANGED <<tables, sent, held, seen>>

\* The next lock is granted.
Take(r) ==
    /\ Running(r) /\ ~Done(r)
    /\ \A q \in Requests : ~WaitsFor(r, q)
    /\ held' = [held EXCEPT ![r] = @ \cup Wanted(r)]
    /\ seen' = [seen EXCEPT ![r] = Reading(r)]
    /\ step' = [step EXCEPT ![r] = @ + 1]
    /\ UNCHANGED <<tables, sent, request>>

\* The stored outcome is returned.
MayReplay(r) ==
    \/ Cmd(r).op \in {"create", "edit"}
    \/ Discloses(Cmd(r).actor, seen[r].member, seen[r].lead)

Replay(r) ==
    /\ Done(r) /\ seen[r].receipt /\ MayReplay(r)
    /\ Close(r)
    /\ UNCHANGED <<tables, sent>>

Refuse(r) ==
    /\ Done(r)
    /\ IF seen[r].receipt THEN ~MayReplay(r) ELSE ~Allowed(r)
    /\ Close(r)
    /\ UNCHANGED <<tables, sent>>

\* An early refusal, a lost connection or a stopped server: roll back.
Abandon(r) ==
    /\ Running(r)
    /\ Close(r)
    /\ UNCHANGED <<tables, sent>>

\* PostgreSQL ends one transaction of a cycle of waits.
Cycle(S) == /\ S # {}
            /\ \A q \in S : \E p \in S : WaitsFor(q, p)

BreakDeadlock(r) ==
    /\ \E q \in Requests : WaitsFor(r, q)
    /\ \E S \in SUBSET Requests :
         /\ r \in S /\ Cycle(S)
         /\ \A Q \in SUBSET S : Cycle(Q) => Q = S
    /\ Close(r)
    /\ UNCHANGED <<tables, sent>>
-----------------------------------------------------------------------------
\* The command is carried out and committed.
Commit(r, op) ==
    /\ Done(r) /\ Cmd(r).op = op
    /\ ~seen[r].receipt /\ Allowed(r)
    /\ Close(r)
    /\ UNCHANGED <<company, member, sent>>

Inquire(r) ==
    /\ Commit(r, "inquiry")
    /\ \E l \in LeadRoom :
         /\ lead' = [lead EXCEPT ![l] =
              Inquiry(request[r], Cmd(r).marks, seen[r].found, Cmd(r).responsible)]
         /\ review' = [review EXCEPT ![l] = NewReview(seen[r].found)]
         /\ head' = [head EXCEPT ![l] = Held(seen[r].found)]
    /\ UNCHANGED <<contact, decided, receipts>>

\* createLeadScreenV2 with openExplicitCompanyScreenReview.
Create(r) ==
    /\ Commit(r, "create")
    /\ \E l \in LeadRoom :
         /\ lead' = [lead EXCEPT ![l] =
              [Inquiry(request[r], Cmd(r).marks, seen[r].found, Cmd(r).responsible) EXCEPT
                 !.form = TRUE, !.query = {},
                 !.status = IF seen[r].found = {} THEN "resolved" ELSE "pending"]]
         /\ review' = [review EXCEPT ![l] = NewReview(seen[r].found)]
    /\ receipts' = receipts \cup {request[r]}
    /\ UNCHANGED <<contact, head, decided>>

\* editLeadScreenV2
Edit(r) ==
    /\ Commit(r, "edit")
    /\ lead' = [lead EXCEPT ![Cmd(r).lead].marks = Cmd(r).marks,
                            ![Cmd(r).lead].responsible = Cmd(r).responsible,
                            ![Cmd(r).lead].version = @ + 1]
    /\ receipts' = receipts \cup {request[r]}
    /\ UNCHANGED <<contact, review, head, decided>>

Hold(r) ==
    /\ Commit(r, "hold")
    /\ review' = [review EXCEPT ![Cmd(r).lead].version = @ + 1]
    /\ head' = [head EXCEPT ![Cmd(r).lead] = [outcome |-> "hold", contact |-> None]]
    /\ decided' = decided \cup {request[r]}
    /\ UNCHANGED <<contact, lead, receipts>>

\* createCanonicalContact
NewContact(r) == [life |-> "active", version |-> 1, marks |-> lead[Cmd(r).lead].marks,
                  by |-> request[r]]

Resolved(r, c) == LET l == Cmd(r).lead IN
    /\ lead' = [lead EXCEPT ![l].contact = c, ![l].status = "resolved",
                            ![l].version = @ + 1]
    /\ review' = [review EXCEPT ![l].state = "resolved", ![l].version = @ + 1]
    /\ head' = [head EXCEPT ![l] = [outcome |-> "resolve", contact |-> c]]
    /\ decided' = decided \cup {request[r]}
    /\ UNCHANGED receipts

CreateContact(r) ==
    /\ Commit(r, "resolve") /\ Cmd(r).action = "create"
    /\ \E c \in ContactRoom : /\ contact' = [contact EXCEPT ![c] = NewContact(r)]
                              /\ Resolved(r, c)

\* The contact that is linked, or none when all candidates are dismissed.
LinkContact(r) ==
    /\ Commit(r, "resolve") /\ Cmd(r).action \in {"link", "dismiss"}
    /\ Resolved(r, Cmd(r).target)
    /\ UNCHANGED contact

Effect(r) == \/ Inquire(r) \/ Create(r) \/ Edit(r) \/ Hold(r)
             \/ CreateContact(r) \/ LinkContact(r)
-----------------------------------------------------------------------------
(* Around the commands. *)
others == <<lead, review, head, decided, receipts, sent, local>>

\* The customer graph edits, archives and restores contacts.
ContactChanges(c) ==
    /\ contact[c].life # "absent" /\ contact[c].version < MaxVersion
    /\ Free({<<"contact", c>>})
    /\ \E marks \in Persons, life \in {"active", "archived"} :
         /\ contact[c].life = "archived" => life = "active"
         /\ contact[c].life # life => marks = contact[c].marks
         /\ contact' = [contact EXCEPT ![c].life = life, ![c].marks = marks,
                                       ![c].version = @ + 1]
    /\ UNCHANGED <<company, member, others>>

CompanyChanges ==
    /\ company.version < MaxVersion
    /\ Free({<<"company">>})
    /\ \E active \in BOOLEAN : company' = [active |-> active, version |-> company.version + 1]
    /\ UNCHANGED <<contact, member, others>>

\* Tenant administration suspends a member.
Suspend(m) ==
    /\ m # Owner /\ member[m].active
    /\ Free({<<"workspace">>, <<"member", m>>})
    /\ member' = [member EXCEPT ![m].active = FALSE]
    /\ UNCHANGED <<graph, others>>

\* The receipt of a form lapses.
Expire(k) ==
    /\ k \in receipts
    /\ Free({<<"key", k>>})
    /\ receipts' = receipts \ {k}
    /\ UNCHANGED <<graph, lead, review, head, decided, member, sent, local>>

Next == \/ \E r \in Requests : \/ Submit(r) \/ Repeat(r) \/ Take(r) \/ Replay(r)
                              \/ Refuse(r) \/ Abandon(r) \/ BreakDeadlock(r) \/ Effect(r)
        \/ \E c \in Changing : ContactChanges(c)
        \/ CompanyChanges
        \/ \E m \in Members : Suspend(m)
        \/ \E k \in Keys : Expire(k)

Spec == Init /\ [][Next]_vars
-----------------------------------------------------------------------------
TypeOK ==
    /\ contact \in [Contacts -> ContactRows]
    /\ company \in [active : BOOLEAN, version : Nat]
    /\ lead \in [Leads -> LeadRows]
    /\ \A l \in Leads : /\ review[l].state \in {"none", "pending", "resolved"}
                        /\ review[l].version \in Nat
                        /\ \A f \in review[l].offered : f \in Candidates
    /\ head \in [Leads -> Decisions]
    /\ decided \subseteq Keys /\ receipts \subseteq Keys
    /\ member \in [Members -> MemberRows]
    /\ request \in [Requests -> Keys \cup {None}]
    /\ step \in [Requests -> 0 .. 7]
    /\ \A r \in Requests : /\ seen[r].lead \in LeadRows
                           /\ ~Running(r) => held[r] = {} /\ seen[r] = NothingSeen

\* The columns of a lead, its review, the decision and the query of the
\* intake belong together, whichever commands change them.  A review that is
\* pending searches for what the lead says now: the decision to create a
\* contact locks and searches by the query and copies the lead.  And a key
\* makes one lead and one contact at most, however often it is sent, also
\* after its receipt has lapsed.
ReviewsMatchLeads ==
    /\ \A k \in Keys : /\ Cardinality({l \in Leads : lead[l].made = k}) <= 1
                       /\ Cardinality({c \in Contacts : contact[c].by = k}) <= 1
    /\ \A l \in {x \in Leads : lead[x].made # None} :
         /\ lead[l].status = "pending" <=> review[l].state = "pending"
         /\ review[l].state = "pending" => review[l].offered # {}
         /\ review[l].state = "resolved" =>
              head[l] = [outcome |-> "resolve", contact |-> lead[l].contact]
         /\ review[l].state = "pending" /\ ~lead[l].form =>
              lead[l].query = lead[l].marks /\ head[l].outcome = "hold"

\* "Same-email concurrent creates serialize and re-run candidate detection":
\* a decision that creates a contact, and an inquiry, have put before the user
\* every contact with the e-mail address or number that another decision has
\* made (and nobody has changed) by the moment they commit.
OffersAllContacts ==
    [][\A r \in Requests : CreateContact(r) \/ Inquire(r) =>
         LET marks == IF Decides(r) THEN lead[Cmd(r).lead].marks ELSE Cmd(r).marks
             offered == IF Decides(r) THEN review[Cmd(r).lead].offered ELSE seen[r].found
         IN  {f \in Found(marks) : contact[f.contact].by # None /\ f.version = 1}
               \subseteq offered]_vars

\* Who decides about a lead, or is told again what was decided, may see its
\* candidates at that moment: a form can give the lead to someone else, and
\* the member can be suspended, while the command waits.  And a lead is given a
\* contact, or a company, that is active at the moment of the commit and
\* still what the client has seen.
DecisionsAreCurrent ==
    [][\A r \in Requests :
         /\ CreateContact(r) \/ LinkContact(r) \/ Hold(r) \/ (Replay(r) /\ Decides(r)) =>
              Discloses(Cmd(r).actor, member[Cmd(r).actor], lead[Cmd(r).lead])
         /\ LinkContact(r) /\ Cmd(r).action = "link" =>
              Current(Cmd(r).target, Cmd(r).targetVersion)
         /\ Create(r) \/ Edit(r) =>
              company = [active |-> TRUE, version |-> Cmd(r).companyVersion]]_vars

\* "Owner/Admin may ... view and resolve all Workspace identity reviews": the
\* decision of one who may decide is carried out when the lead, the review and all its
\* candidates are as the page showed them.
HeldLeadsCanBeDecided ==
    \A r \in Requests :
      LET in == Cmd(r) IN
      Done(r) /\ in.op = "resolve" /\ ~seen[r].receipt =>
        \/ ~Discloses(in.actor, seen[r].member, seen[r].lead)
        \/ in.action = "link" /\ ~Manages(seen[r].member)
        \/ lead[in.lead].version # in.leadVersion
        \/ review[in.lead].version # in.reviewVersion
        \/ review[in.lead].offered # Found(lead[in.lead].marks)
        \/ in.action = "create" /\ ContactRoom = {}
        \/ Allowed(r)
=============================================================================
