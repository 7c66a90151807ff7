----------------------------- MODULE SalesDeals -----------------------------
(***************************************************************************)
(* The deals of a workspace: creation, edits, moves through the stages of  *)
(* the pipeline, archive and restore, and the outcome that a closing deal  *)
(* gives to the lead it was converted from                                 *)
(* (src/src/backend/modules/sales/application/deal.service.ts).            *)
(*                                                                         *)
(* A command is one READ COMMITTED transaction.  It takes its locks in the *)
(* order of its statements (Plan), reads what it decides on when it has    *)
(* the lock (Reading), and writes at its commit.  Tenant administration    *)
(* and the customer graph change members and companies meanwhile.          *)
(*                                                                         *)
(* Contacts are parties like the company and teams are assigned like the   *)
(* responsible member; names, values and dates are not modelled.           *)
(***************************************************************************)
EXTENDS Naturals, Sequences, FiniteSets

CONSTANTS
    Members, Owner,     \* memberships of the workspace; Owner owns it
    Companies,
    Deals,              \* identities of deals
    Stages, Class,      \* active stages of the pipeline, their outcome class
    Keys, Client,       \* idempotency keys, one per command, and whose they are
    Requests,           \* requests the servers work on at the same time
    Operations,         \* operations the clients call
    Start, Converted,   \* deals at the start; those a conversion has made
    MemberStates        \* bound: the states administration gives members

VARIABLES
    deal,       \* rows of deals with their customer company
    history,    \* deal_stage_transitions of each deal
    outcome,    \* status of the lead each converted deal came from
    company, member,
    receipts,   \* keys whose outcome is stored
    lapsed,     \* keys of creations whose stored outcome has expired once
    sent,       \* sent[k]: the command its client made with key k
    request, step, held, seen, \* per request: key, progress, locks, local reads
    effects     \* effects[k]: how often the command of key k took effect

tables == <<deal, history, outcome, company, member, receipts, lapsed>>
local == <<request, step, held, seen>>
vars == <<tables, sent, local, effects>>

None == "none"
NoCommand == [op |-> "none"]
OpenStages == {s \in Stages : Class[s] = "open"}

Commands ==
    [op : {"create"}, actor : Members, stage : Stages,
     company : Companies, responsible : Members]
    \cup [op : {"update"}, actor : Members, deal : Deals, version : Nat,
          company : Companies, responsible : Members]
    \cup [op : {"move"}, actor : Members, deal : Deals, version : Nat, stage : Stages]
    \cup [op : {"archive", "restore"}, actor : Members, deal : Deals, version : Nat]

DealRows == [life : {"absent", "active", "archived"}, stage : Stages \cup {None},
             version : Nat, company : Companies \cup {None},
             responsible : Members \cup {None}]
MemberRows == [active : BOOLEAN, role : {"owner", "admin", "member"}]

ASSUME DealsAssumption ==
    /\ Owner \in Members
    /\ Class \in [Stages -> {"open", "won", "lost"}]
    /\ Client \in [Keys -> Members]
    /\ Operations \subseteq {"create", "update", "move", "archive", "restore"}
    /\ MemberStates \subseteq MemberRows
    /\ Start \in [Deals -> DealRows]
    /\ \A d \in Deals : Start[d].life # "absent"
                          => Start[d].stage \in Stages /\ Start[d].version >= 1
    /\ \A d \in Converted : d \in Deals /\ Start[d].life # "absent"

NoDeal == [life |-> "absent", stage |-> None, version |-> 0,
           company |-> None, responsible |-> None]
Created(s) == [from |-> None, to |-> s, version |-> 1]

NothingSeen == [receipt |-> FALSE, deal |-> NoDeal, company |-> FALSE,
                responsible |-> FALSE, member |-> [active |-> FALSE, role |-> "member"]]

Init == /\ deal = Start
        /\ history = [d \in Deals |->
             IF Start[d].life = "absent" THEN << >> ELSE <<Created(Start[d].stage)>>]
        /\ outcome = [d \in Converted |-> Class[Start[d].stage]]
        /\ company = [c \in Companies |-> "active"]
        /\ member = [m \in Members |->
                       [active |-> TRUE, role |-> IF m = Owner THEN "owner" ELSE "member"]]
        /\ receipts = {}
        /\ lapsed = {}
        /\ sent = [k \in Keys |-> NoCommand]
        /\ request = [r \in Requests |-> None]
        /\ step = [r \in Requests |-> 0]
        /\ held = [r \in Requests |-> {}]
        /\ seen = [r \in Requests |-> NothingSeen]
        /\ effects = [k \in Keys |-> 0]
-----------------------------------------------------------------------------
(* Variants with a plausible bug, for mutation checks. *)
LocksKept(r) == /\ request' = [request EXCEPT ![r] = None]
                /\ step' = [step EXCEPT ![r] = 0]
                /\ UNCHANGED <<held, seen>>

Unlocked(r) == {}

AnyReplay(r) == TRUE

NeverClosed(r) == FALSE
-----------------------------------------------------------------------------
Running(r) == request[r] # None
Cmd(r) == sent[request[r]]
Manages(m) == m.active /\ m.role \in {"owner", "admin"}

\* canTransition
MayTransition(m, row, actor) == m.active /\ (Manages(m) \/ row.responsible = actor)

\* The locks an operation takes, in the order of its statements; a stored
\* outcome is returned as it is, that of a move only to whom may still move.
Plan(r) ==
    IF seen[r].receipt
    THEN IF Cmd(r).op = "move" THEN <<"key", "actor">> ELSE <<"key">>
    ELSE CASE Cmd(r).op = "create" ->
                <<"key", "pipeline", "actor", "company", "responsible">>
           [] Cmd(r).op = "update" ->
                <<"key", "deal", "actor", "company", "responsible">>
           [] Cmd(r).op = "move" -> <<"key", "deal", "actor", "pipeline">>
           [] OTHER -> <<"key", "deal", "actor">>

Done(r) == Running(r) /\ step[r] > Len(Plan(r))
NextLock(r) == Plan(r)[step[r]]

\* revalidateActiveActor
ActorLocks(r) == {<<"workspace">>, <<"member", Cmd(r).actor>>}

\* root, for update
DealLocks(r) == {<<"deal", Cmd(r).deal>>}

Wanted(r) == LET lock == NextLock(r) IN
    CASE lock = "key" -> {<<"key", request[r]>>}
      [] lock = "pipeline" -> {<<"pipeline">>}
      [] lock = "deal" -> DealLocks(r)
      [] lock = "actor" -> ActorLocks(r)
      [] lock = "company" -> {<<"company", Cmd(r).company>>}
      [] lock = "responsible" -> {<<"member", Cmd(r).responsible>>}

WaitsFor(r, q) == /\ r # q
                  /\ Running(r) /\ Running(q) /\ ~Done(r)
                  /\ Wanted(r) \cap held[q] # {}

Free(S) == \A r \in Requests : held[r] \cap S = {}

\* What a request knows after it has the lock.
Reading(r) == LET lock == NextLock(r) IN
    CASE lock = "key" -> [seen[r] EXCEPT !.receipt = request[r] \in receipts]
      [] lock = "deal" -> [seen[r] EXCEPT !.deal = deal[Cmd(r).deal]]
      [] lock = "actor" ->
           [seen[r] EXCEPT !.member = member[Cmd(r).actor],
              !.deal = IF seen[r].receipt THEN deal[Cmd(r).deal] ELSE @]
      [] lock = "company" ->
           [seen[r] EXCEPT !.company = company[Cmd(r).company] = "active"]
      [] lock = "responsible" ->
           [seen[r] EXCEPT !.responsible = member[Cmd(r).responsible].active]
      [] OTHER -> seen[r]

\* The transaction ends and its locks are released.
Close(r) == /\ request' = [request EXCEPT ![r] = None]
            /\ step' = [step EXCEPT ![r] = 0]
            /\ held' = [held EXCEPT ![r] = {}]
            /\ seen' = [seen EXCEPT ![r] = NothingSeen]
-----------------------------------------------------------------------------
\* lookupActiveActor, which locks nothing; every operation but a move is for
\* the owner and administrators.
Admitted(in) == LET m == member[in.actor] IN
                IF in.op = "move" THEN m.active ELSE Manages(m)

VersionMatches(r) == Cmd(r).version = seen[r].deal.version

PartiesAvailable(r) == seen[r].company /\ seen[r].responsible

Terminal(r) == Class[seen[r].deal.stage] # "open"

SameStage(r) == Cmd(r).stage = seen[r].deal.stage

\* Bound: there is an identity left for a new deal.
MayCreate(r) == /\ Class[Cmd(r).stage] = "open"
                /\ Manages(seen[r].member)
                /\ PartiesAvailable(r)
                /\ \E d \in Deals : deal[d].life = "absent"

MayUpdate(r) == /\ seen[r].deal.life = "active"
                /\ VersionMatches(r)
                /\ Manages(seen[r].member)
                /\ PartiesAvailable(r)

MayMove(r) == /\ seen[r].deal.life = "active"
              /\ VersionMatches(r)
              /\ MayTransition(seen[r].member, seen[r].deal, Cmd(r).actor)
              /\ SameStage(r) \/ ~Terminal(r)

MayChangeLife(r) ==
    /\ seen[r].deal.life = IF Cmd(r).op = "archive" THEN "active" ELSE "archived"
    /\ VersionMatches(r)
    /\ Manages(seen[r].member)

Allowed(r) == CASE Cmd(r).op = "create" -> MayCreate(r)
                [] Cmd(r).op = "update" -> MayUpdate(r)
                [] Cmd(r).op = "move" -> MayMove(r)
                [] OTHER -> MayChangeLife(r)

\* authorizeReplay of a move
MayReplay(r) == \/ Cmd(r).op # "move"
                \/ /\ seen[r].deal.life = "active"
                   /\ MayTransition(seen[r].member, seen[r].deal, Cmd(r).actor)
-----------------------------------------------------------------------------
\* Bound: a client makes the commands that the page it sees now allows, a
\* move also of a deal that somebody has just closed.
Offered(op, m) ==
    LET actors == {a \in {m} : Manages(member[a])}
        on(life) == {d \in Deals : deal[d].life = life}
        versions(d) == {deal[d].version}
        customers == {c \in Companies : company[c] = "active"}
        assignees == {a \in Members : member[a].active}
    IN  CASE op = "create" ->
               [op : {op}, actor : actors, stage : OpenStages,
                company : customers, responsible : assignees]
          [] op = "update" ->
               UNION {[op : {op}, actor : actors, deal : {d}, version : versions(d),
                       company : customers, responsible : assignees] : d \in on("active")}
          [] op = "move" ->
               UNION {[op : {op}, deal : {d}, version : versions(d), stage : Stages,
                       actor : {a \in {m} : MayTransition(member[a], deal[d], a)}] :
                      d \in on("active")}
          [] op = "archive" ->
               UNION {[op : {op}, actor : actors, deal : {d}, version : versions(d)] :
                      d \in on("active")}
          [] op = "restore" ->
               UNION {[op : {op}, actor : actors, deal : {d}, version : versions(d)] :
                      d \in on("archived")}

\* A client makes a command and a key for it.
Submit(r) ==
    /\ request[r] = None
    /\ \E k \in {key \in Keys : sent[key] = NoCommand}, op \in Operations :
       \E in \in Offered(op, Client[k]) :
         /\ Admitted(in)
         /\ sent' = [sent EXCEPT ![k] = in]
         /\ request' = [request EXCEPT ![r] = k]
    /\ step' = [step EXCEPT ![r] = 1]
    /\ UNCHANGED <<tables, held, seen, effects>>

\* It has no answer, or doubts it, and sends the command again.
Repeat(r) ==
    /\ request[r] = None
    /\ \E k \in Keys : /\ sent[k] # NoCommand
                      /\ Admitted(sent[k])
                      /\ request' = [request EXCEPT ![r] = k]
    /\ step' = [step EXCEPT ![r] = 1]
    /\ UNCHANGED <<tables, sent, held, seen, effects>>

\* The next lock is granted.
Take(r) ==
    /\ Running(r) /\ ~Done(r)
    /\ \A q \in Requests : ~WaitsFor(r, q)
    /\ held' = [held EXCEPT ![r] = @ \cup Wanted(r)]
    /\ seen' = [seen EXCEPT ![r] = Reading(r)]
    /\ step' = [step EXCEPT ![r] = @ + 1]
    /\ UNCHANGED <<tables, sent, request, effects>>

Replay(r) ==
    /\ Done(r) /\ seen[r].receipt /\ MayReplay(r)
    /\ Close(r)
    /\ UNCHANGED <<tables, sent, effects>>

Refuse(r) ==
    /\ Done(r)
    /\ IF seen[r].receipt THEN ~MayReplay(r) ELSE ~Allowed(r)
    /\ Close(r)
    /\ UNCHANGED <<tables, sent, effects>>

\* An early refusal, a lost connection or a stopped server: roll back.
Abandon(r) ==
    /\ Running(r)
    /\ Close(r)
    /\ UNCHANGED <<tables, sent, effects>>

\* PostgreSQL ends one transaction of a cycle of waits.
Cycle(S) == /\ S # {}
            /\ \A q \in S : \E p \in S : WaitsFor(q, p)

BreakDeadlock(r) ==
    /\ \E q \in Requests : WaitsFor(r, q)
    /\ \E S \in SUBSET Requests :
         /\ r \in S /\ Cycle(S)
         /\ \A Q \in SUBSET S : Cycle(Q) => Q = S
    /\ Close(r)
    /\ UNCHANGED <<tables, sent, effects>>
-----------------------------------------------------------------------------
\* The command is carried out and its outcome stored.
Commit(r, ops) ==
    /\ Done(r) /\ Cmd(r).op \in ops
    /\ ~seen[r].receipt /\ Allowed(r)
    /\ receipts' = receipts \cup {request[r]}
    /\ Close(r)
    /\ UNCHANGED <<company, member, lapsed, sent>>

Counted(r) == effects' = [effects EXCEPT ![request[r]] = @ + 1]

\* "update deals ... where version=...": nothing looks at how many rows it hit.
Written(r, row) ==
    deal' = [deal EXCEPT ![Cmd(r).deal] =
               IF @.version = Cmd(r).version
               THEN [row EXCEPT !.version = row.version + 1] ELSE @]

Recorded(d, entry) == history' = [history EXCEPT ![d] = Append(@, entry)]

Create(r) ==
    /\ Commit(r, {"create"})
    /\ \E d \in Deals :
         /\ deal[d].life = "absent"
         /\ deal' = [deal EXCEPT ![d] =
              [life |-> "active", stage |-> Cmd(r).stage, version |-> 1,
               company |-> Cmd(r).company, responsible |-> Cmd(r).responsible]]
         /\ Recorded(d, Created(Cmd(r).stage))
    /\ Counted(r)
    /\ UNCHANGED outcome

\* setParties does not look at the version of the deal either.
Update(r) ==
    /\ Commit(r, {"update"})
    /\ LET in == Cmd(r)
           row == deal[in.deal]
           hit == row.version = in.version IN
       deal' = [deal EXCEPT ![in.deal] =
          [row EXCEPT !.company = in.company,
                      !.responsible = IF hit THEN in.responsible ELSE row.responsible,
                      !.version = IF hit THEN row.version + 1 ELSE row.version]]
    /\ Counted(r)
    /\ UNCHANGED <<history, outcome>>

\* applyDerivedOutcome; a lead has one deal at most.  Leads whose status was
\* set by hand are left out, no code of the repository does that.
Derived(d, s) ==
    IF d \in Converted /\ Class[s] # "open"
    THEN [outcome EXCEPT ![d] = Class[s]]
    ELSE outcome

Move(r) ==
    /\ Commit(r, {"move"}) /\ ~SameStage(r)
    /\ Written(r, [deal[Cmd(r).deal] EXCEPT !.stage = Cmd(r).stage])
    /\ Recorded(Cmd(r).deal, [from |-> seen[r].deal.stage, to |-> Cmd(r).stage,
                              version |-> seen[r].deal.version + 1])
    /\ outcome' = Derived(Cmd(r).deal, Cmd(r).stage)
    /\ Counted(r)

KeepStage(r) ==
    /\ Commit(r, {"move"}) /\ SameStage(r)
    /\ UNCHANGED <<deal, history, outcome, effects>>

ChangeLife(r) ==
    /\ Commit(r, {"archive", "restore"})
    /\ Written(r, [deal[Cmd(r).deal] EXCEPT
                     !.life = IF Cmd(r).op = "archive" THEN "archived" ELSE "active"])
    /\ Counted(r)
    /\ UNCHANGED <<history, outcome>>

Effect(r) == Create(r) \/ Update(r) \/ Move(r) \/ KeepStage(r) \/ ChangeLife(r)
-----------------------------------------------------------------------------
\* Tenant administration suspends, restores or gives a member another role.
MembershipChanges(m) ==
    /\ m # Owner
    /\ Free({<<"workspace">>, <<"member", m>>})
    /\ \E row \in MemberStates \ {member[m]} :
         member' = [member EXCEPT ![m] = row]
    /\ UNCHANGED <<deal, history, outcome, company, receipts, lapsed, sent, local, effects>>

\* The customer graph archives or restores a company.
CompanyChanges(c) ==
    /\ Free({<<"workspace">>, <<"company", c>>})
    /\ company' = [company EXCEPT ![c] = IF @ = "active" THEN "archived" ELSE "active"]
    /\ UNCHANGED <<deal, history, outcome, member, receipts, lapsed, sent, local, effects>>

\* After a day.
ReceiptExpires(k) ==
    /\ k \in receipts
    /\ receipts' = receipts \ {k}
    /\ lapsed' = IF sent[k].op = "create" THEN lapsed \cup {k} ELSE lapsed
    /\ UNCHANGED <<deal, history, outcome, company, member, sent, local, effects>>

Next == \/ \E r \in Requests : \/ Submit(r) \/ Repeat(r) \/ Take(r) \/ Replay(r)
                              \/ Refuse(r) \/ Abandon(r) \/ BreakDeadlock(r) \/ Effect(r)
        \/ \E m \in Members : MembershipChanges(m)
        \/ \E c \in Companies : CompanyChanges(c)
        \/ \E k \in Keys : ReceiptExpires(k)

Spec == Init /\ [][Next]_vars
-----------------------------------------------------------------------------
\* Type invariant.  A command takes effect once, however often it is sent; only
\* a creation has no version to protect it when its stored outcome has expired.
TypeOK ==
    /\ deal \in [Deals -> DealRows]
    /\ \A d \in Deals : history[d] \in Seq([from : Stages \cup {None}, to : Stages,
                                          version : Nat])
    /\ outcome \in [Converted -> {"open", "won", "lost"}]
    /\ company \in [Companies -> {"active", "archived"}]
    /\ member \in [Members -> MemberRows]
    /\ receipts \subseteq Keys /\ lapsed \subseteq Keys
    /\ sent \in [Keys -> Commands \cup {NoCommand}]
    /\ request \in [Requests -> Keys \cup {None}]
    /\ step \in [Requests -> 0 .. 6]
    /\ effects \in [Keys -> Nat] /\ \A k \in Keys : effects[k] <= 1 \/ k \in lapsed
    /\ \A r \in Requests : /\ seen[r].deal \in DealRows
                           /\ seen[r].member \in MemberRows
                           /\ ~Running(r) => held[r] = {} /\ seen[r] = NothingSeen

\* The rows of a deal agree.  The recorded transitions explain the stage: they
\* lead to it without a gap from the creation, each from the stage the one
\* before it reached and under a later version, and the last one's version
\* has been.  The lead that was converted to the deal has its outcome, at
\* every moment and whatever is done to the deal afterwards.  DealBook has this
\* by its steps, and SalesDealsProofs states it of the deals.
DealRowsAgree ==
    /\ \A d \in Deals : deal[d].life # "absent" =>
        LET h == history[d] IN
        /\ h # << >> /\ h[1].from = None
        /\ \A i \in 2 .. Len(h) : /\ h[i].from = h[i - 1].to
                                 /\ h[i].version > h[i - 1].version
        /\ h[Len(h)].to = deal[d].stage /\ h[Len(h)].version <= deal[d].version
    /\ \A d \in Converted : outcome[d] = Class[deal[d].stage]

\* What is committed or told again rests on what holds at that moment and not
\* when the command was sent: its member has the right to it, the owner and
\* administrators or for a move the member responsible then; the customer and
\* the responsible member a deal is given are active; and "does not release a
\* stored transition outcome after responsibility and visibility revocation"
\* (tests/deals-01-backend.integration.test.ts).
ActsAreCurrent ==
    [][\A r \in Requests :
         LET in == Cmd(r)
             m == member[in.actor] IN
         /\ Effect(r) => \/ Manages(m)
                         \/ in.op = "move" /\ MayTransition(m, deal[in.deal], in.actor)
         /\ Create(r) \/ Update(r) =>
              company[in.company] = "active" /\ member[in.responsible].active
         /\ Replay(r) /\ in.op = "move" =>
              /\ deal[in.deal].life = "active"
              /\ MayTransition(m, deal[in.deal], in.actor)]_vars

\* Whatever is sent, repeated, lost and run at the same time, the deals keep the
\* promises of DealBook: each commit is one of its steps, by the member who sent
\* the command and has the right to it then, or none.
Book == INSTANCE DealBook WITH carried <- effects
BookSpec == Book!Spec
=============================================================================
