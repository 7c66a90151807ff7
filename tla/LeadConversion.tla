--------------------------- MODULE LeadConversion ---------------------------
(***************************************************************************)
(* One lead from its intake to a deal: the moves of its lifecycle, its     *)
(* operational edits, the identity review that links it to a company, and  *)
(* its conversion (src/src/backend/modules/leads, identity-review, sales). *)
(*                                                                         *)
(* Commands run at the same time in READ COMMITTED transactions: each      *)
(* takes its locks in the order of its statements (Plan), reads a row when *)
(* it has locked it (Reading), decides on what it has read (seen), and     *)
(* writes at its commit.  Members and companies are changed meanwhile by   *)
(* tenant administration and the customer graph, which lock the row and    *)
(* the workspace.                                                          *)
(*                                                                         *)
(* The company stands for the contact too, which is reviewed and converted *)
(* the same way.  Team visibility, the intake's content and the pipeline   *)
(* only add reasons to refuse; a refusal before the last lock is Abandon.  *)
(***************************************************************************)
EXTENDS Naturals, Sequences, FiniteSets, Functions

CONSTANTS
    Members, Owner,     \* memberships of the workspace; Owner owns it
    Companies,
    Keys, Client,       \* idempotency keys, one per command, and whose they are
    Requests,           \* requests the servers work on at the same time
    Operations,         \* operations the clients call
    Starts,             \* leads with their review, as the intake and the members left them
    StartCompany,
    MemberStates,       \* bounds: the states administration gives members, and
    MaxVersions         \* how far the companies' versions add up

VARIABLES
    lead, review,
    recorded,   \* lead_identity_candidates of the review
    company, member,
    deals,      \* deals with their conversion lineage
    receipts,   \* keys whose outcome is stored
    sent,       \* sent[k]: the command its client made with key k
    request, step, held, seen, \* per request: key, progress, locks, local reads
    effects     \* effects[k]: how often the command of key k took effect

rows == <<lead, review, recorded, company, member, deals, receipts>>
local == <<request, step, held, seen>>
vars == <<rows, sent, local, effects>>

None == "none"
Lifecycles == {"new", "working", "qualified", "disqualified", "converted"}
Owners == Members \cup {None}
Versions == Nat
NoCommand == [op |-> "none"]

Commands ==
    [op : {"lifecycle"}, actor : Members, version : Versions,
       to : Lifecycles \ {"converted"}]
    \cup [op : {"edit"}, actor : Members, version : Versions, owner : Owners]
    \cup [op : {"stage"}, actor : Members, version : Versions]
    \cup [op : {"hold"}, actor : Members, version : Versions, review : Versions]
    \cup [op : {"resolve"}, actor : Members, version : Versions, review : Versions,
            choice : Companies \cup {"create", "dismiss"}]
    \cup [op : {"convert"}, actor : Members, version : Versions, review : Versions,
            owner : Owners, company : Companies, companyVersion : Versions]

LeadRows == [lifecycle : Lifecycles, version : Nat, owner : Owners,
             company : Companies \cup {None}]
ReviewRows == [state : {"pending", "resolved"}, version : Nat,
               company : Companies \cup {None}]
CompanyRows == [status : {"absent", "active", "archived"}, version : Nat]
MemberRows == [active : BOOLEAN, role : {"owner", "admin", "member"}]

\* No lead that is looked at from its intake on is converted already.
ASSUME LeadAssumption ==
    /\ Owner \in Members
    /\ Client \in [Keys -> Members]
    /\ None \notin Members \cup Companies \cup Keys
    /\ Operations \subseteq {"lifecycle", "edit", "stage", "hold", "resolve", "convert"}
    /\ \A start \in Starts : /\ start.lead \in LeadRows /\ start.review \in ReviewRows
                             /\ start.lead.lifecycle # "converted"
    /\ StartCompany \in [Companies -> CompanyRows]
    /\ MemberStates \subseteq MemberRows
    /\ MaxVersions \in Nat

\* The candidates of the review: active companies of the inquiry's name, with
\* their versions.
Candidates == {[id |-> c, version |-> company[c].version] :
                 c \in {d \in Companies : company[d].status = "active"}}

NothingSeen == [receipt |-> FALSE,
                lead |-> [lifecycle |-> "new", version |-> 0, owner |-> None, company |-> None],
                review |-> [state |-> "pending", version |-> 0, company |-> None],
                member |-> [active |-> FALSE, role |-> "member"],
                company |-> [status |-> "absent", version |-> 0],
                candidates |-> {}]

Init == /\ \E start \in Starts : lead = start.lead /\ review = start.review
        /\ company = StartCompany
        /\ recorded = Candidates
        /\ member = [m \in Members |->
                       [active |-> TRUE, role |-> IF m = Owner THEN "owner" ELSE "member"]]
        /\ deals = {}
        /\ receipts = {}
        /\ sent = [k \in Keys |-> NoCommand]
        /\ request = [r \in Requests |-> None]
        /\ step = [r \in Requests |-> 0]
        /\ held = [r \in Requests |-> {}]
        /\ seen = [r \in Requests |-> NothingSeen]
        /\ effects = [k \in Keys |-> 0]
-----------------------------------------------------------------------------
(* Variants with a plausible bug, for mutation checks. *)
LocksKept(r) == /\ request' = [request EXCEPT ![r] = None]
                /\ step' = [step EXCEPT ![r] = 0]
                /\ UNCHANGED <<held, seen>>

LifecycleForgotten(r) == [lead EXCEPT !.version = @ + 1]

SeenBefore(r) == seen[r].candidates
-----------------------------------------------------------------------------
Running(r) == request[r] # None
Cmd(r) == sent[request[r]]
Privileged(m) == m.role \in {"owner", "admin"}
MemberLocks(S) == {<<"member", m>> : m \in S \ {None}}

\* The locks an operation takes, in the order of its statements.
Plan(op) ==
    CASE op \in {"lifecycle", "edit", "stage"} ->
           <<"key", "lead", "actor">>
      [] op = "hold" ->
           <<"key", "intake", "lead", "review", "actor">>
      [] op = "resolve" ->
           <<"key", "intake", "lead", "review", "company", "actor">>
      [] op = "convert" ->
           <<"key", "actor", "lead", "intake", "review", "company", "actor">>

Done(r) == Running(r) /\ step[r] > Len(Plan(Cmd(r).op))
NextLock(r) == Plan(Cmd(r).op)[step[r]]

\* lockReferences (of a conversion, lockAndValidate): the old and new owner.
ReferenceLocks(r) ==
    MemberLocks({seen[r].lead.owner}
                  \cup (IF Cmd(r).op = "edit" THEN {Cmd(r).owner} ELSE {}))

\* revalidateActiveActor, with the references, which are locked just before.
ActorLocks(r) == {<<"workspace">>} \cup MemberLocks({Cmd(r).actor}) \cup ReferenceLocks(r)

Wanted(r) == LET lock == NextLock(r) IN
    CASE lock = "key" -> {<<"key", request[r]>>}
      [] lock = "actor" -> ActorLocks(r)
      [] lock = "company" ->
           {<<"company", c>> : c \in IF Cmd(r).op = "convert"
                                     THEN {seen[r].lead.company} \ {None}
                                     ELSE {d.id : d \in Candidates}}
      [] OTHER -> {<<lock>>}

WaitsFor(r, q) == /\ r # q
                  /\ Running(r) /\ Running(q) /\ ~Done(r)
                  /\ Wanted(r) \cap held[q] # {}

Free(S) == \A r \in Requests : held[r] \cap S = {}

\* The company of the lead, as conversionChoices finds it.
Customer(r) == LET c == seen[r].lead.company IN
               IF c = None THEN NothingSeen.company ELSE company[c]

\* The candidates a resolution finds when it has the locks of its actor.
FinalCandidates(r) == Candidates

\* What a request knows after it has the lock.
Reading(r) == LET lock == NextLock(r) IN
    CASE lock = "key" -> [seen[r] EXCEPT !.receipt = request[r] \in receipts]
      [] lock = "lead" -> [seen[r] EXCEPT !.lead = lead]
      [] lock = "review" -> [seen[r] EXCEPT !.review = review]
      [] lock = "company" ->
           IF Cmd(r).op = "convert" THEN [seen[r] EXCEPT !.company = Customer(r)]
           ELSE [seen[r] EXCEPT !.candidates = Candidates]
      [] lock = "actor" ->
           [seen[r] EXCEPT !.member = member[Cmd(r).actor],
              !.candidates = IF Cmd(r).op = "resolve" THEN FinalCandidates(r) ELSE @]
      [] OTHER -> seen[r]

\* The transaction ends and its locks are released.
Close(r) == /\ request' = [request EXCEPT ![r] = None]
            /\ step' = [step EXCEPT ![r] = 0]
            /\ held' = [held EXCEPT ![r] = {}]
            /\ seen' = [seen EXCEPT ![r] = NothingSeen]
-----------------------------------------------------------------------------
\* isAllowedLifecycleTransition
Successors == [new |-> {"working", "disqualified"},
               working |-> {"qualified", "disqualified"},
               qualified |-> {"working", "disqualified"},
               disqualified |-> {"working"},
               converted |-> {}]

\* The owner and administrators may act on every lead, a member on his own.
MayAct(r) == /\ seen[r].member.active
             /\ Privileged(seen[r].member) \/ seen[r].lead.owner = Cmd(r).actor

\* The version the client saw is the one that was read and, in the WHERE of
\* the update, the one that is stored.
VersionMatches(r) == Cmd(r).version = seen[r].lead.version /\ Cmd(r).version = lead.version

SameLifecycle(r) == Cmd(r).to = seen[r].lead.lifecycle

MayMove(r) ==
    LET from == seen[r].lead.lifecycle IN
    /\ VersionMatches(r) /\ MayAct(r)
    /\ from = "disqualified" => Privileged(seen[r].member)
    /\ \/ SameLifecycle(r)
       \/ /\ Cmd(r).to \in Successors[from]
          /\ Cmd(r).to \in {"working", "qualified"} => seen[r].lead.owner # None

\* An edit that keeps the owner changes the teams or the visibility.
MayEdit(r) ==
    /\ seen[r].member.active /\ Privileged(seen[r].member)
    /\ VersionMatches(r)
    /\ Cmd(r).owner # None => member[Cmd(r).owner].active

\* Both decisions of a review need it pending at the version that was seen.
MayDecide(r) ==
    /\ MayAct(r) /\ VersionMatches(r)
    /\ seen[r].review.state = "pending"
    /\ Cmd(r).review = seen[r].review.version /\ Cmd(r).review = review.version

\* Bound: a company that a review creates is one that is absent.
MayResolve(r) ==
    /\ MayDecide(r)
    /\ seen[r].candidates = recorded
    /\ Cmd(r).choice \in Companies =>
         /\ Privileged(seen[r].member)
         /\ Cmd(r).choice \in {d.id : d \in recorded}
    /\ Cmd(r).choice = "create" => \E c \in Companies : company[c].status = "absent"

\* reasonsFor finds nothing.
Eligible(r) ==
    /\ seen[r].lead.lifecycle = "qualified"
    /\ seen[r].review.state = "resolved"
    /\ seen[r].lead.company # None
    /\ seen[r].review.company = seen[r].lead.company
    /\ seen[r].company.status = "active"
    /\ seen[r].lead.owner # None
    /\ deals = {}

SameCompany(r) == /\ Cmd(r).company = seen[r].lead.company
                  /\ Cmd(r).companyVersion = seen[r].company.version

\* assertCurrentCommand
SamePreview(r) == /\ VersionMatches(r) /\ SameCompany(r)
                  /\ Cmd(r).review = seen[r].review.version
                  /\ Cmd(r).owner = seen[r].lead.owner

MayConvert(r) ==
    /\ MayAct(r) /\ Eligible(r) /\ SamePreview(r)
    /\ member[seen[r].lead.owner].active

Allowed(r) ==
    CASE Cmd(r).op = "lifecycle" -> MayMove(r)
      [] Cmd(r).op = "edit" -> MayEdit(r)
      [] Cmd(r).op = "stage" -> MayAct(r) /\ VersionMatches(r)
      [] Cmd(r).op = "hold" -> MayDecide(r)
      [] Cmd(r).op = "resolve" -> MayResolve(r)
      [] Cmd(r).op = "convert" -> MayConvert(r)
-----------------------------------------------------------------------------
\* Bound: a client makes the commands that the page it sees now allows.
Offered(op, m) ==
    LET leader == member[m].active /\ Privileged(member[m])
        actors == IF leader \/ (member[m].active /\ lead.owner = m) THEN {m} ELSE {}
        leaders == IF leader THEN {m} ELSE {}
        deciders == IF review.state = "pending" THEN actors ELSE {}
    IN  CASE op = "lifecycle" ->
               [op : {op}, actor : actors, version : {lead.version},
                to : (Successors[lead.lifecycle] \cup {lead.lifecycle}) \ {"converted"}]
          [] op = "edit" ->
               [op : {op}, actor : leaders, version : {lead.version}, owner : Owners]
          [] op = "stage" -> [op : {op}, actor : actors, version : {lead.version}]
          [] op = "hold" ->
               [op : {op}, actor : deciders, version : {lead.version},
                review : {review.version}]
          [] op = "resolve" ->
               [op : {op}, actor : deciders, version : {lead.version},
                review : {review.version},
                choice : {"create", "dismiss"}
                           \cup (IF leader THEN {d.id : d \in recorded} ELSE {})]
          [] op = "convert" ->
               IF lead.lifecycle = "qualified" /\ lead.owner # None
               THEN [op : {op}, actor : actors \ deciders, version : {lead.version},
                     review : {review.version}, owner : {lead.owner},
                     company : {lead.company} \ {None},
                     companyVersion : {company[c].version : c \in {lead.company} \ {None}}]
               ELSE {}

\* A client makes a command and a key for it.
Submit(r) ==
    /\ request[r] = None
    /\ \E k \in {key \in Keys : sent[key] = NoCommand}, op \in Operations :
       \E in \in Offered(op, Client[k]) :
         /\ sent' = [sent EXCEPT ![k] = in]
         /\ request' = [request EXCEPT ![r] = k]
    /\ step' = [step EXCEPT ![r] = 1]
    /\ UNCHANGED <<rows, held, seen, effects>>

\* It has no answer, or doubts it, and sends the command again.
Repeat(r) ==
    /\ request[r] = None
    /\ \E k \in Keys : /\ sent[k] # NoCommand
                      /\ request' = [request EXCEPT ![r] = k]
    /\ step' = [step EXCEPT ![r] = 1]
    /\ UNCHANGED <<rows, sent, held, seen, effects>>

\* The next lock is granted.
Take(r) ==
    /\ Running(r) /\ ~Done(r)
    /\ \A q \in Requests : ~WaitsFor(r, q)
    /\ held' = [held EXCEPT ![r] = @ \cup Wanted(r)]
    /\ seen' = [seen EXCEPT ![r] = Reading(r)]
    /\ step' = [step EXCEPT ![r] = @ + 1]
    /\ UNCHANGED <<rows, sent, request, effects>>

\* The stored outcome is returned, or a check fails: nothing is written.
Answer(r) ==
    /\ Done(r)
    /\ seen[r].receipt \/ ~Allowed(r)
    /\ Close(r)
    /\ UNCHANGED <<rows, sent, effects>>

\* An early refusal, a lost connection or a stopped server: roll back.
Abandon(r) ==
    /\ Running(r)
    /\ Close(r)
    /\ UNCHANGED <<rows, sent, effects>>

\* PostgreSQL ends one transaction of a cycle of waits.
Cycle(S) == /\ S # {}
            /\ \A q \in S : \E p \in S : WaitsFor(q, p)

BreakDeadlock(r) ==
    /\ \E q \in Requests : WaitsFor(r, q)
    /\ \E S \in SUBSET Requests :
         /\ r \in S /\ Cycle(S)
         /\ \A Q \in SUBSET S : Cycle(Q) => Q = S
    /\ Close(r)
    /\ UNCHANGED <<rows, sent, effects>>
-----------------------------------------------------------------------------
\* The command is carried out and its outcome stored.
Commit(r, op) ==
    /\ Done(r) /\ Cmd(r).op = op
    /\ ~seen[r].receipt /\ Allowed(r)
    /\ receipts' = receipts \cup {request[r]}
    /\ Close(r)
    /\ UNCHANGED <<sent, recorded, member>>

Counted(r) == effects' = [effects EXCEPT ![request[r]] = @ + 1]

MoveLifecycle(r) ==
    /\ Commit(r, "lifecycle") /\ ~SameLifecycle(r)
    /\ lead' = [lead EXCEPT !.lifecycle = Cmd(r).to, !.version = @ + 1]
    /\ Counted(r)
    /\ UNCHANGED <<review, company, deals>>

KeepLifecycle(r) ==
    /\ Commit(r, "lifecycle") /\ SameLifecycle(r)
    /\ UNCHANGED <<lead, review, company, deals, effects>>

EditOperational(r) ==
    /\ Commit(r, "edit")
    /\ lead' = [lead EXCEPT !.owner = Cmd(r).owner, !.version = @ + 1]
    /\ Counted(r)
    /\ UNCHANGED <<review, company, deals>>

\* A stage is not part of the state; the lead may be in it already.
MoveStage(r) ==
    /\ Commit(r, "stage")
    /\ \/ lead' = [lead EXCEPT !.version = @ + 1] /\ Counted(r)
       \/ UNCHANGED <<lead, effects>>
    /\ UNCHANGED <<review, company, deals>>

Hold(r) ==
    /\ Commit(r, "hold")
    /\ review' = [review EXCEPT !.version = @ + 1]
    /\ Counted(r)
    /\ UNCHANGED <<lead, company, deals>>

\* The lead is linked to a candidate, to a company made for it, or to none.
Resolve(r) ==
    /\ Commit(r, "resolve")
    /\ \E c \in Companies \cup {None} :
         /\ CASE Cmd(r).choice = "dismiss" -> c = None
              [] Cmd(r).choice = "create" -> c # None /\ company[c].status = "absent"
              [] OTHER -> c = Cmd(r).choice
         /\ company' = [d \in Companies |->
              IF d = c /\ Cmd(r).choice = "create" THEN [status |-> "active", version |-> 1]
              ELSE company[d]]
         /\ lead' = [lead EXCEPT !.company = c, !.version = @ + 1]
         /\ review' = [state |-> "resolved", version |-> review.version + 1, company |-> c]
    /\ Counted(r)
    /\ UNCHANGED deals

ConvertedLead(r) == [lead EXCEPT !.lifecycle = "converted", !.version = @ + 1]

Convert(r) ==
    /\ Commit(r, "convert")
    /\ lead' = ConvertedLead(r)
    /\ deals' = deals \cup {[company |-> Cmd(r).company, owner |-> Cmd(r).owner,
                             source |-> Cmd(r).version, by |-> Cmd(r).actor]}
    /\ Counted(r)
    /\ UNCHANGED <<review, company>>

Effect(r) == \/ MoveLifecycle(r) \/ KeepLifecycle(r) \/ EditOperational(r)
             \/ MoveStage(r) \/ Hold(r) \/ Resolve(r) \/ Convert(r)
-----------------------------------------------------------------------------
\* Tenant administration suspends, restores or gives a member another role.
MembershipChanges(m) ==
    /\ m # Owner
    /\ Free({<<"workspace">>, <<"member", m>>})
    /\ \E row \in MemberStates \ {member[m]} :
         member' = [member EXCEPT ![m] = row]
    /\ UNCHANGED <<lead, review, recorded, company, deals, receipts, sent, local, effects>>

\* The customer graph makes, edits, archives or restores a company.
CompanyChanges(c) ==
    /\ Free({<<"workspace">>, <<"company", c>>})
    /\ FoldFunction(+, 0, [d \in Companies |-> company[d].version]) < MaxVersions
    /\ \E status \in {"active", "archived"} :
         /\ company[c].status = "absent" => status = "active"
         /\ company' = [company EXCEPT ![c] = [status |-> status, version |-> @.version + 1]]
    /\ UNCHANGED <<lead, review, recorded, member, deals, receipts, sent, local, effects>>

\* After a day; the rows of decisions are kept.
ReceiptExpires(k) ==
    /\ k \in receipts
    /\ sent[k].op \notin {"hold", "resolve"}
    /\ receipts' = receipts \ {k}
    /\ UNCHANGED <<lead, review, recorded, company, member, deals, sent, local, effects>>

Next == \/ \E r \in Requests : \/ Submit(r) \/ Repeat(r) \/ Take(r) \/ Answer(r)
                              \/ Abandon(r) \/ BreakDeadlock(r) \/ Effect(r)
        \/ \E m \in Members : MembershipChanges(m)
        \/ \E c \in Companies : CompanyChanges(c)
        \/ \E k \in Keys : ReceiptExpires(k)

Spec == Init /\ [][Next]_vars
-----------------------------------------------------------------------------
\* Type invariant.  A command takes effect at most once, however often it is
\* sent and however old the stored outcome is.
TypeOK ==
    /\ lead \in LeadRows
    /\ review \in ReviewRows
    /\ recorded \subseteq [id : Companies, version : Nat]
    /\ company \in [Companies -> CompanyRows]
    /\ member \in [Members -> MemberRows]
    /\ deals \subseteq [company : Companies, owner : Members, source : Nat, by : Members]
    /\ receipts \subseteq Keys
    /\ sent \in [Keys -> Commands \cup {NoCommand}]
    /\ request \in [Requests -> Keys \cup {None}]
    /\ step \in [Requests -> 0 .. 8]
    /\ effects \in [Keys -> 0 .. 1]
    /\ \A r \in Requests : /\ seen[r].lead \in LeadRows
                           /\ seen[r].review \in ReviewRows
                           /\ seen[r].member \in MemberRows
                           /\ seen[r].company \in CompanyRows
                           /\ ~Running(r) => held[r] = {} /\ seen[r] = NothingSeen

\* A lead is converted exactly if there is a deal made from it, there is only
\* one, and it names the company that the review chose and the lead links.
DealMatchesLead ==
    /\ lead.lifecycle = "converted" <=> deals # {}
    /\ Cardinality(deals) <= 1
    /\ \A d \in deals : d.company = lead.company /\ d.company = review.company

\* Every change rests on facts that hold at its commit and not only when the
\* command was sent or its locks were asked for: its member is active and has
\* the right to it; an identity is decided with every candidate on the table,
\* and no company of the name has appeared, changed or gone since the
\* candidates were recorded; a deal is made of the lead, review, owner and
\* company its user saw in the preview.
ChangesAreCurrent ==
    [][\A r \in Requests :
         LET in == Cmd(r)
             m == member[in.actor] IN
         /\ Effect(r) =>
              /\ m.active
              /\ Privileged(m) \/ (in.op # "edit" /\ lead.owner = in.actor)
              /\ lead.lifecycle = "disqualified" /\ lead'.lifecycle = "working" => Privileged(m)
              /\ in.op = "resolve" /\ in.choice \in Companies => Privileged(m)
         /\ Resolve(r) => Candidates = recorded
         /\ Convert(r) =>
              /\ in.version = lead.version /\ in.owner = lead.owner
              /\ in.review = review.version /\ in.company = lead.company
              /\ company[in.company] = [status |-> "active", version |-> in.companyVersion]]_vars
=============================================================================
