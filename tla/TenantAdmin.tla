----------------------------- MODULE TenantAdmin -----------------------------
(***************************************************************************)
(* Memberships, teams and invitations of one workspace                     *)
(* (src/src/server/tenant-admin).  Every command runs in one transaction.  *)
(* Administrators' commands lock the workspace row first and read their    *)
(* own authority again under that lock; an acceptance locks the invitation *)
(* row its token names and then the workspace row.  The code after the     *)
(* workspace lock is one step here: whatever it reads is written only      *)
(* under that lock.                                                        *)
(*                                                                         *)
(* A command is sent under an idempotency key and may be sent again under  *)
(* it, also while an earlier copy still runs.  An e-mail address is named  *)
(* by the user it belongs to, a token by its invitation and generation.    *)
(* Names, the policy text of roles and the session token an ownership      *)
(* transfer rotates are left out.                                          *)
(***************************************************************************)
EXTENDS Naturals, FiniteSets

CONSTANTS
    Users, Teams, Invitations,
    Connections,   \* requests the servers work on at the same time
    Keys,          \* bound: commands sent in a behaviour, each under its key
    Operations,    \* the operations the behaviours use
    Seats,         \* effective_limits.activeSeats of the workspace
    Verified,      \* users whose primary e-mail address is verified
    StartMember,   \* memberships, invitations and active teams at the start
    StartInvitation,
    StartTeams

VARIABLES
    member,      \* member[u]: row of workspace_memberships, with u's teams
    team,        \* team[t]: row of teams
    invitation,  \* invitation[i]: row of workspace_invitations
    mailed,      \* <<i, g>>: the mail with token g of i is in the outbox
    command,     \* command[k]: the command sent under key k
    receipt,     \* receipt[k]: row of idempotency_records
    applied,     \* applied[k]: how often the command took effect
    answer,      \* answer[k]: the last answer to the command
    phase, key, context \* per connection: progress, key, authority at the route

store == <<member, team, invitation, mailed>>
ledger == <<command, receipt, applied, answer>>
wire == <<phase, key, context>>
vars == <<store, ledger, wire>>

AllRoles == {"owner", "admin", "member"}
Memberships == [status : {"absent", "active", "suspended", "removed"},
                role : AllRoles, version : Nat, teams : SUBSET Teams]
TeamRows == [status : {"absent", "active", "archived"}, version : Nat]
InvitationRows ==
    [status : {"absent", "pending", "accepted", "revoked", "expired"},
     email : Users, role : {"admin", "member"}, teams : SUBSET Teams,
     generation : Nat, version : Nat, lapsed : BOOLEAN, cooling : BOOLEAN]

ASSUME StartAssumption ==
    /\ IsFiniteSet(Users)
    /\ Seats \in Nat
    /\ StartMember \in [Users -> Memberships]
    /\ StartInvitation \in [Invitations -> InvitationRows]
    /\ StartTeams \subseteq Teams
    /\ \E u \in Users : /\ StartMember[u].status = "active"
                        /\ \A v \in Users : StartMember[v].role = "owner" <=> v = u
    /\ Cardinality({u \in Users : StartMember[u].status = "active"}) <= Seats

NoCommand == [op |-> "none"]
NoKey == "none"
NoContext == [role |-> "none", version |-> 0]
Contexts == [role : AllRoles, version : Nat] \cup {NoContext}
Receipts == [state : {"none", "live", "expired"}, context : Contexts]

\* A command names what it changes and carries what its sender saw of it.
Commands ==
    [op : {"member_change"}, actor : Users, user : Users,
     status : {"active", "suspended", "removed"}, seen : Memberships]
    \cup [op : {"role_change"}, actor : Users, user : Users,
          role : {"admin", "member"}, seen : Memberships]
    \cup [op : {"teams_assign"}, actor : Users, user : Users,
          teams : SUBSET Teams, seen : Memberships]
    \cup [op : {"transfer"}, actor : Users, user : Users,
          seen : Memberships, actorSeen : Memberships]
    \cup [op : {"team_create"}, actor : Users, team : Teams]
    \cup [op : {"team_change"}, actor : Users, team : Teams,
          status : {"active", "archived"}, seen : TeamRows]
    \cup [op : {"invite_create"}, actor : Users, email : Users,
          role : {"admin", "member"}, teams : SUBSET Teams]
    \cup [op : {"invite_resend", "invite_revoke"}, actor : Users,
          invitation : Invitations, seen : InvitationRows]
    \cup [op : {"invite_accept"}, actor : Users, invitation : Invitations,
          generation : Nat]

Init == /\ member = StartMember
        /\ team = [t \in Teams |-> IF t \in StartTeams
                                   THEN [status |-> "active", version |-> 1]
                                   ELSE [status |-> "absent", version |-> 0]]
        /\ invitation = StartInvitation
        /\ mailed = {<<i, StartInvitation[i].generation>> : i \in
                        {j \in Invitations : StartInvitation[j].status # "absent"}}
        /\ command = [k \in Keys |-> NoCommand]
        /\ receipt = [k \in Keys |-> [state |-> "none", context |-> NoContext]]
        /\ applied = [k \in Keys |-> 0]
        /\ answer = [k \in Keys |-> "none"]
        /\ phase = [c \in Connections |-> "idle"]
        /\ key = [c \in Connections |-> NoKey]
        /\ context = [c \in Connections |-> NoContext]
-----------------------------------------------------------------------------
(* Variants with a plausible bug, for mutation checks. *)
SeatFreeLate == Cardinality({u \in Users : member[u].status = "active"}) <= Seats

AnyToken(i, g) == invitation[i].status # "absent"

DemotionForgotten(row) == row

FreshOnceExpired(k) == receipt[k].state # "live"

KeyKept(c) == /\ phase' = [phase EXCEPT ![c] = "idle"]
              /\ UNCHANGED <<key, context>>

-----------------------------------------------------------------------------
Cmd(c) == command[key[c]]
Active(u) == member[u].status = "active"
Bump(row) == [row EXCEPT !.version = @ + 1]

\* The workspace row lock, and the invitation row lock of an acceptance.
HoldsWorkspace(c) == phase[c] = "locked"
HoldsInvitation(c, i) == /\ phase[c] \in {"invitation", "locked"}
                         /\ Cmd(c).op = "invite_accept"
                         /\ Cmd(c).invitation = i

\* The actor's role as the transaction reads it, under the workspace lock.
Authority(c) == member[Cmd(c).actor].role

Manages(a, b) == \/ a = "owner" /\ b # "owner"
                 \/ a = "admin" /\ b = "member"

Invites(a, b) == \/ a = "owner"
                 \/ a = "admin" /\ b = "member"

Unchanged(row, seen) == row.version = seen.version

SeatFree == Cardinality({u \in Users : Active(u)}) < Seats

TeamsActive(teams) == \A t \in teams : team[t].status = "active"

PendingFor(email) == {i \in Invitations : /\ invitation[i].status = "pending"
                                          /\ invitation[i].email = email}

Renewed(inv) == inv.status = "expired" \/ inv.lapsed

TokenNames(i, g) == /\ invitation[i].status # "absent"
                    /\ invitation[i].generation = g

Mail(i, g) == {<<i, g>>}

Joined(row, inv) == [row EXCEPT !.status = "active", !.role = inv.role,
                                !.teams = inv.teams, !.version = @ + 1]

StepsDown(row) == [Bump(row) EXCEPT !.role = "admin"]

Revocable(inv) == inv.status = "pending"

Receipted(k) == receipt[k].state = "live"

\* The unique index of the receipts also counts those that expired.
Fresh(k) == receipt[k].state = "none"
-----------------------------------------------------------------------------
\* What is checked before the receipt is looked up: the membership of the
\* actor and, in these operations, what it may do.
Admitted(c) ==
    LET cmd == Cmd(c) IN
    /\ Active(cmd.actor)
    /\ cmd.op = "invite_create" => Invites(Authority(c), cmd.role)
    /\ cmd.op \in {"teams_assign", "team_create", "team_change"}
         => Authority(c) \in {"owner", "admin"}
    /\ cmd.op = "transfer" => /\ Authority(c) = "owner"
                              /\ cmd.user # cmd.actor
                              /\ Unchanged(member[cmd.actor], cmd.actorSeen)

Transitions == {<<"active", "suspended">>, <<"active", "removed">>,
                <<"suspended", "active">>, <<"suspended", "removed">>}

MayChangeStatus(c, cmd) ==
    LET row == member[cmd.user] IN
    /\ cmd.user # cmd.actor
    /\ Manages(Authority(c), row.role)
    /\ Unchanged(row, cmd.seen)
    /\ <<row.status, cmd.status>> \in Transitions
    /\ cmd.status = "active" => SeatFree

MayChangeRole(c, cmd) ==
    LET row == member[cmd.user] IN
    /\ cmd.user # cmd.actor
    /\ row.status = "active" /\ row.role # "owner"
    /\ Unchanged(row, cmd.seen)
    /\ Authority(c) = "owner"

MayAssignTeams(c, cmd) ==
    LET row == member[cmd.user] IN
    /\ row.status = "active"
    /\ row.role = "member" \/ Authority(c) = "owner"
    /\ Unchanged(row, cmd.seen)
    /\ TeamsActive(cmd.teams)

MayTransfer(cmd) == /\ Active(cmd.user)
                    /\ Unchanged(member[cmd.user], cmd.seen)

MayChangeTeam(cmd) == /\ team[cmd.team].status # "absent"
                      /\ Unchanged(team[cmd.team], cmd.seen)

MayInvite(cmd) == /\ ~Active(cmd.email)
                  /\ PendingFor(cmd.email) # {} \/ TeamsActive(cmd.teams)

MayResend(c, cmd) ==
    LET inv == invitation[cmd.invitation] IN
    /\ inv.status \in {"pending", "expired"}
    /\ Invites(Authority(c), inv.role)
    /\ Unchanged(inv, cmd.seen)
    /\ IF Renewed(inv)
       THEN PendingFor(inv.email) \subseteq {cmd.invitation}
       ELSE ~inv.cooling

MayRevoke(c, cmd) ==
    LET inv == invitation[cmd.invitation] IN
    /\ Revocable(inv)
    /\ Invites(Authority(c), inv.role)
    /\ Unchanged(inv, cmd.seen)

MayAccept(cmd) ==
    LET inv == invitation[cmd.invitation] IN
    /\ inv.status = "pending" /\ ~inv.lapsed
    /\ inv.email = cmd.actor /\ cmd.actor \in Verified
    /\ TeamsActive(inv.teams)
    /\ Active(cmd.actor) \/ SeatFree

Allowed(c) ==
    LET cmd == Cmd(c) IN
    CASE cmd.op = "member_change" -> MayChangeStatus(c, cmd)
      [] cmd.op = "role_change" -> MayChangeRole(c, cmd)
      [] cmd.op = "teams_assign" -> MayAssignTeams(c, cmd)
      [] cmd.op = "transfer" -> MayTransfer(cmd)
      [] cmd.op = "team_create" -> team[cmd.team].status = "absent"
      [] cmd.op = "team_change" -> MayChangeTeam(cmd)
      [] cmd.op = "invite_create" -> MayInvite(cmd)
      [] cmd.op = "invite_resend" -> MayResend(c, cmd)
      [] cmd.op = "invite_revoke" -> MayRevoke(c, cmd)
      [] cmd.op = "invite_accept" -> MayAccept(cmd)

\* The invitation rows a command locks once it holds the workspace.
Wanted(c) ==
    LET cmd == Cmd(c) IN
    CASE cmd.op \in {"invite_resend", "invite_revoke"} -> {cmd.invitation}
      [] cmd.op = "invite_create" /\ ~Active(cmd.email) -> PendingFor(cmd.email)
      [] OTHER -> {}

WaitsFor(c, d) ==
    /\ HoldsWorkspace(c) /\ Admitted(c) /\ ~Receipted(key[c])
    /\ \E i \in Wanted(c) : HoldsInvitation(d, i)

\* The transaction of c has all its locks and is about to apply its command.
Due(c, op) ==
    /\ HoldsWorkspace(c)
    /\ Cmd(c).op = op
    /\ op # "invite_accept" => Admitted(c)
    /\ Fresh(key[c])
    /\ \A d \in Connections : ~WaitsFor(c, d)
    /\ Allowed(c)

Close(c) == /\ phase' = [phase EXCEPT ![c] = "idle"]
            /\ key' = [key EXCEPT ![c] = NoKey]
            /\ context' = [context EXCEPT ![c] = NoContext]

Answer(c, a) == /\ answer' = [answer EXCEPT ![key[c]] = a]
                /\ Close(c)
                /\ UNCHANGED <<command>>

\* Save the receipt, commit and answer.
Commit(c) ==
    /\ receipt' = [receipt EXCEPT ![key[c]] =
                     [state |-> "live", context |-> context[c]]]
    /\ applied' = [applied EXCEPT ![key[c]] = @ + 1]
    /\ Answer(c, "ok")

\* Roll back, or commit nothing, and answer.
AnswerOnly(c, a) == /\ Answer(c, a)
                    /\ UNCHANGED <<receipt, applied>>
-----------------------------------------------------------------------------
ContextOf(cmd) ==
    IF cmd.op = "invite_accept" THEN NoContext
    ELSE [role |-> member[cmd.actor].role, version |-> member[cmd.actor].version]

\* tenant(): only an active member's administration request is passed on.
Dispatch(c, k, cmd) ==
    /\ phase[c] = "idle"
    /\ cmd.op = "invite_accept" \/ Active(cmd.actor)
    /\ phase' = [phase EXCEPT ![c] = "sent"]
    /\ key' = [key EXCEPT ![c] = k]
    /\ context' = [context EXCEPT ![c] = ContextOf(cmd)]
    /\ UNCHANGED store

\* The commands user a may send about what it sees.
Offers(a) ==
    LET known == {u \in Users : member[u].status # "absent"}
        teams == {t \in Teams : team[t].status # "absent"}
        listed == {i \in Invitations : invitation[i].status # "absent"}
    IN  {[op |-> "member_change", actor |-> a, user |-> u, status |-> s,
          seen |-> member[u]] :
            u \in known, s \in {"active", "suspended", "removed"}}
        \cup {[op |-> "role_change", actor |-> a, user |-> u, role |-> r,
               seen |-> member[u]] : u \in known, r \in {"admin", "member"}}
        \cup {[op |-> "teams_assign", actor |-> a, user |-> u, teams |-> s,
               seen |-> member[u]] : u \in known, s \in SUBSET teams}
        \cup {[op |-> "transfer", actor |-> a, user |-> u, seen |-> member[u],
               actorSeen |-> member[a]] : u \in known}
        \cup {[op |-> "team_create", actor |-> a, team |-> t] : t \in Teams \ teams}
        \cup {[op |-> "team_change", actor |-> a, team |-> t, status |-> s,
               seen |-> team[t]] : t \in teams, s \in {"active", "archived"}}
        \cup {[op |-> "invite_create", actor |-> a, email |-> u, role |-> r,
               teams |-> s] :
                 u \in Users, r \in {"admin", "member"}, s \in SUBSET teams}
        \cup {[op |-> o, actor |-> a, invitation |-> i, seen |-> invitation[i]] :
                 o \in {"invite_resend", "invite_revoke"}, i \in listed}
        \cup {[op |-> "invite_accept", actor |-> a, invitation |-> i,
               generation |-> invitation[i].generation] : i \in listed}

\* A command is sent for the first time, under a fresh key.
Submit(c, k) ==
    /\ command[k] = NoCommand
    /\ \E a \in Users : \E cmd \in Offers(a) :
         /\ cmd.op \in Operations
         /\ Dispatch(c, k, cmd)
         /\ command' = [command EXCEPT ![k] = cmd]
    /\ UNCHANGED <<receipt, applied, answer>>

\* It is sent again: a retry, or a duplicate while the first copy still runs.
Repeat(c, k) ==
    /\ command[k] # NoCommand
    /\ Dispatch(c, k, command[k])
    /\ UNCHANGED ledger

\* recoverOwnerTransfer answers a repeated transfer before all other checks.
RecoverTransfer(c, k) ==
    /\ phase[c] = "idle"
    /\ command[k].op = "transfer"
    /\ Receipted(k)
    /\ answer' = [answer EXCEPT ![k] = "ok"]
    /\ UNCHANGED <<store, wire, command, receipt, applied>>

\* acceptInvitation: the advisory lock of the key, the receipt, and the row
\* that has the token's hash once its lock is granted.
TakeInvitation(c) ==
    LET cmd == Cmd(c) IN
    /\ phase[c] = "sent"
    /\ cmd.op = "invite_accept"
    /\ ~Receipted(key[c])
    /\ \A d \in Connections : ~HoldsInvitation(d, cmd.invitation)
    /\ IF TokenNames(cmd.invitation, cmd.generation)
       THEN /\ phase' = [phase EXCEPT ![c] = "invitation"]
            /\ UNCHANGED <<store, ledger, key, context>>
       ELSE AnswerOnly(c, "refused") /\ UNCHANGED store

ReplayAcceptance(c) ==
    /\ phase[c] = "sent"
    /\ Cmd(c).op = "invite_accept"
    /\ Receipted(key[c])
    /\ AnswerOnly(c, "ok")
    /\ UNCHANGED store

\* select id from workspaces where id = $1 for update
TakeWorkspace(c) ==
    /\ \/ phase[c] = "sent" /\ Cmd(c).op # "invite_accept"
       \/ phase[c] = "invitation"
    /\ \A d \in Connections : ~HoldsWorkspace(d)
    /\ phase' = [phase EXCEPT ![c] = "locked"]
    /\ UNCHANGED <<store, ledger, key, context>>

\* The receipt of the key is found; in some operations the hash covers the
\* route's TenantContext, and then a changed role or version is a conflict.
HashesContext == {"member_change", "team_change", "teams_assign", "invite_revoke"}

SameHash(c) == Cmd(c).op \in HashesContext => receipt[key[c]].context = context[c]

Replay(c) ==
    /\ HoldsWorkspace(c)
    /\ Cmd(c).op # "invite_accept"
    /\ Admitted(c)
    /\ Receipted(key[c])
    /\ AnswerOnly(c, IF ~SameHash(c) THEN "conflict"
                     ELSE IF Cmd(c).op = "transfer" THEN "refused" ELSE "ok")
    /\ UNCHANGED store

ChangeMembership(c) ==
    LET cmd == Cmd(c) IN
    /\ Due(c, "member_change")
    /\ member' = [member EXCEPT ![cmd.user] =
                     [Bump(@) EXCEPT !.status = cmd.status]]
    /\ Commit(c)
    /\ UNCHANGED <<team, invitation, mailed>>

ChangeRole(c) ==
    LET cmd == Cmd(c) IN
    /\ Due(c, "role_change")
    /\ member' = [member EXCEPT ![cmd.user] = [Bump(@) EXCEPT !.role = cmd.role]]
    /\ Commit(c)
    /\ UNCHANGED <<team, invitation, mailed>>

AssignTeams(c) ==
    LET cmd == Cmd(c) IN
    /\ Due(c, "teams_assign")
    /\ member' = [member EXCEPT ![cmd.user] = [Bump(@) EXCEPT !.teams = cmd.teams]]
    /\ Commit(c)
    /\ UNCHANGED <<team, invitation, mailed>>

TransferOwner(c) ==
    LET cmd == Cmd(c) IN
    /\ Due(c, "transfer")
    /\ member' = [member EXCEPT ![cmd.user] = [Bump(@) EXCEPT !.role = "owner"],
                                ![cmd.actor] = StepsDown(@)]
    /\ Commit(c)
    /\ UNCHANGED <<team, invitation, mailed>>

CreateTeam(c) ==
    /\ Due(c, "team_create")
    /\ team' = [team EXCEPT ![Cmd(c).team] = [status |-> "active", version |-> 1]]
    /\ Commit(c)
    /\ UNCHANGED <<member, invitation, mailed>>

ChangeTeam(c) ==
    LET cmd == Cmd(c) IN
    /\ Due(c, "team_change")
    /\ team' = [team EXCEPT ![cmd.team] = [Bump(@) EXCEPT !.status = cmd.status]]
    /\ Commit(c)
    /\ UNCHANGED <<member, invitation, mailed>>

NewInvitation(email, role, teams, generation) ==
    [status |-> "pending", email |-> email, role |-> role, teams |-> teams,
     generation |-> generation, version |-> 1, lapsed |-> FALSE, cooling |-> TRUE]

\* A pending invitation for the address is answered as it is, without a mail.
CreateInvitation(c) ==
    LET cmd == Cmd(c) IN
    /\ Due(c, "invite_create")
    /\ IF PendingFor(cmd.email) # {} THEN UNCHANGED <<invitation, mailed>>
       ELSE \E i \in Invitations :
              /\ invitation[i].status = "absent"
              /\ invitation' = [invitation EXCEPT ![i] =
                                  NewInvitation(cmd.email, cmd.role, cmd.teams, 1)]
              /\ mailed' = mailed \cup Mail(i, 1)
    /\ Commit(c)
    /\ UNCHANGED <<member, team>>

\* An invitation past its time is closed and a new row takes its place; one
\* still pending gets a new token.
ResendInvitation(c) ==
    LET i == Cmd(c).invitation
        inv == invitation[i]
        g == inv.generation + 1 IN
    /\ Due(c, "invite_resend")
    /\ IF Renewed(inv)
       THEN \E j \in Invitations :
              /\ invitation[j].status = "absent"
              /\ invitation' =
                   [invitation EXCEPT
                      ![i] = IF inv.status = "pending"
                             THEN [Bump(@) EXCEPT !.status = "expired"] ELSE @,
                      ![j] = NewInvitation(inv.email, inv.role, inv.teams, g)]
              /\ mailed' = mailed \cup Mail(j, g)
       ELSE /\ invitation' = [invitation EXCEPT ![i] =
                               [Bump(@) EXCEPT !.generation = g, !.cooling = TRUE]]
            /\ mailed' = mailed \cup Mail(i, g)
    /\ Commit(c)
    /\ UNCHANGED <<member, team>>

RevokeInvitation(c) ==
    /\ Due(c, "invite_revoke")
    /\ invitation' = [invitation EXCEPT ![Cmd(c).invitation] =
                        [Bump(@) EXCEPT !.status = "revoked"]]
    /\ Commit(c)
    /\ UNCHANGED <<member, team, mailed>>

\* An active member keeps its membership; any other joins as invited.
AcceptInvitation(c) ==
    LET u == Cmd(c).actor
        i == Cmd(c).invitation
        row == IF Active(u) THEN member[u] ELSE Joined(member[u], invitation[i]) IN
    /\ Due(c, "invite_accept")
    /\ member' = [member EXCEPT ![u] = row]
    /\ invitation' = [invitation EXCEPT ![i] = [Bump(@) EXCEPT !.status = "accepted"]]
    /\ Commit(c)
    /\ UNCHANGED <<team, mailed>>

AcceptedBefore(c) == /\ invitation[Cmd(c).invitation].status = "accepted"
                     /\ invitation[Cmd(c).invitation].email = Cmd(c).actor

\* The invitee comes back with a token it has used: answered from the row.
AcceptAgain(c) ==
    /\ HoldsWorkspace(c)
    /\ Cmd(c).op = "invite_accept"
    /\ AcceptedBefore(c)
    /\ AnswerOnly(c, "ok")
    /\ UNCHANGED <<member, team, invitation, mailed>>

LapsedNow(c) == /\ invitation[Cmd(c).invitation].status = "pending"
                /\ invitation[Cmd(c).invitation].lapsed

\* A token past its time closes the invitation, and that is committed.
ExpireOnAcceptance(c) ==
    /\ HoldsWorkspace(c)
    /\ Cmd(c).op = "invite_accept"
    /\ LapsedNow(c)
    /\ invitation' = [invitation EXCEPT ![Cmd(c).invitation] =
                        [Bump(@) EXCEPT !.status = "expired"]]
    /\ AnswerOnly(c, "refused")
    /\ UNCHANGED <<member, team, mailed>>

\* Some check fails, or the receipt's unique index does because an expired
\* receipt of the key is still there: the transaction rolls back.
Deny(c) ==
    /\ HoldsWorkspace(c)
    /\ \A d \in Connections : ~WaitsFor(c, d)
    /\ IF Cmd(c).op = "invite_accept"
       THEN ~AcceptedBefore(c) /\ ~LapsedNow(c)
       ELSE ~(Admitted(c) /\ Receipted(key[c]))
    /\ ~Due(c, Cmd(c).op)
    /\ AnswerOnly(c, "refused")
    /\ UNCHANGED store

\* A transaction fails for a reason outside the model (rate limit, recent
\* authentication, a lost connection, a crash), or its answer is lost.
Abandon(c) ==
    /\ phase[c] # "idle"
    /\ Close(c)
    /\ UNCHANGED <<store, ledger>>

\* PostgreSQL ends one transaction of a cycle of waits.
BreakDeadlock(c) ==
    /\ \E d \in Connections :
         \/ WaitsFor(c, d) /\ phase[d] = "invitation"
         \/ WaitsFor(d, c) /\ phase[c] = "invitation"
    /\ AnswerOnly(c, "refused")
    /\ UNCHANGED store

\* Time passes: expires_at, the 60 s between two mails, a receipt's 24 h.
Lapse(i) ==
    /\ invitation[i].status = "pending" /\ ~invitation[i].lapsed
    /\ invitation' = [invitation EXCEPT ![i].lapsed = TRUE, ![i].cooling = FALSE]
    /\ UNCHANGED <<member, team, mailed, ledger, wire>>

CoolDown(i) ==
    /\ invitation[i].cooling
    /\ invitation' = [invitation EXCEPT ![i].cooling = FALSE]
    /\ UNCHANGED <<member, team, mailed, ledger, wire>>

ReceiptExpires(k) ==
    /\ Receipted(k)
    /\ receipt' = [receipt EXCEPT ![k].state = "expired"]
    /\ UNCHANGED <<store, wire, command, applied, answer>>

Apply(c) ==
    \/ ChangeMembership(c) \/ ChangeRole(c) \/ AssignTeams(c) \/ TransferOwner(c)
    \/ CreateTeam(c) \/ ChangeTeam(c)
    \/ CreateInvitation(c) \/ ResendInvitation(c) \/ RevokeInvitation(c)
    \/ AcceptInvitation(c) \/ AcceptAgain(c) \/ ExpireOnAcceptance(c)

Conclude(c) == Apply(c) \/ Replay(c) \/ ReplayAcceptance(c) \/ Deny(c)

Next ==
    \/ \E c \in Connections :
         \/ \E k \in Keys : Submit(c, k) \/ Repeat(c, k) \/ RecoverTransfer(c, k)
         \/ TakeInvitation(c) \/ TakeWorkspace(c)
         \/ Conclude(c) \/ Abandon(c) \/ BreakDeadlock(c)
    \/ \E i \in Invitations : Lapse(i) \/ CoolDown(i)
    \/ \E k \in Keys : ReceiptExpires(k)

Spec == Init /\ [][Next]_vars
-----------------------------------------------------------------------------
TypeOK ==
    /\ member \in [Users -> Memberships]
    /\ team \in [Teams -> TeamRows]
    /\ invitation \in [Invitations -> InvitationRows]
    /\ mailed \subseteq Invitations \X Nat
    /\ command \in [Keys -> Commands \cup {NoCommand}]
    /\ receipt \in [Keys -> Receipts]
    /\ applied \in [Keys -> Nat]
    /\ answer \in [Keys -> {"none", "ok", "refused", "conflict"}]
    /\ phase \in [Connections -> {"idle", "sent", "invitation", "locked"}]
    /\ key \in [Connections -> Keys \cup {NoKey}]
    /\ context \in [Connections -> Contexts]
    /\ \A c \in Connections :
         IF phase[c] = "idle" THEN key[c] = NoKey
         ELSE key[c] \in Keys /\ command[key[c]] # NoCommand

\* However transfers, role changes, removals and acceptances interleave, the
\* workspace has exactly one owner, and the owner is active.
OneActiveOwner ==
    \E u \in Users : /\ Active(u)
                     /\ \A v \in Users : member[v].role = "owner" <=> v = u

\* Restorations and acceptances that race for the last seat never take more
\* seats than the plan has.
SeatLimitRespected == Cardinality({u \in Users : Active(u)}) <= Seats

\* However often a command is repeated, also while a copy of it runs and after
\* its receipt expired, it takes effect at most once; and an answer that says
\* it took effect is true.
AppliedOnce ==
    \A k \in Keys : /\ applied[k] <= 1
                    /\ /\ answer[k] = "ok"
                       /\ command[k].op # "invite_accept"
                       => applied[k] = 1

\* What gives a membership to u, or takes or changes it: an acceptance with the
\* last token, which was mailed, of a pending invitation to u, or a command of
\* the owner or of an administrator within its reach.
RightfulChange(u) ==
    \E c \in Connections :
       LET cmd == Cmd(c)
           a == cmd.actor
           inv == invitation[cmd.invitation] IN
       /\ HoldsWorkspace(c) /\ phase'[c] = "idle"
       /\ \/ /\ cmd.op = "invite_accept" /\ a = u /\ ~Active(u)
             /\ inv.status = "pending" /\ inv.email = u /\ ~inv.lapsed
             /\ cmd.generation = inv.generation
             /\ <<cmd.invitation, inv.generation>> \in mailed
             /\ member'[u].role = inv.role /\ member'[u].teams = inv.teams
             /\ invitation'[cmd.invitation].status = "accepted"
          \/ /\ member[u].status = "removed" => member'[u].status = "removed"
             /\ Active(a)
             /\ \/ member[a].role = "owner"
                \/ /\ member[a].role = "admin"
                   /\ member[u].role = "member" /\ member'[u].role = "member"

\* Every change of a membership was somebody's right at the commit, and not
\* only when the route read its context; nobody removed returns but by an
\* invitation.
MembershipsChangeByRight ==
    [][\A u \in Users : member'[u] # member[u] => RightfulChange(u)]_vars
=============================================================================
