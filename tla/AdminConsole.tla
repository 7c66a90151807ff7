---------------------------- MODULE AdminConsole ----------------------------
(***************************************************************************)
(* The pages on which an administrator manages people, teams, invitations  *)
(* and the ownership of a workspace, in conversation with the routes they  *)
(* call.  A page keeps the rows it was rendered with and the versions they *)
(* had; every request carries a version and a fresh idempotency key, so    *)
(* that only the versions protect a click from what happened since.  The   *)
(* routes serve requests in any order, answers come late, in any order or  *)
(* not at all, and the other administrators work at the same time.         *)
(* TenantAdmin takes the same routes apart; here each is one step.         *)
(***************************************************************************)
EXTENDS Naturals, Sequences, FiniteSets, SequencesExt

CONSTANTS
    None,
    Members,         \* memberships of the workspace
    Me,              \* the membership at whose browser the page is open
    Teams,
    Addresses,       \* e-mail addresses that can be invited
    Invitations,
    Pages,           \* "people", "teams", "invitations", "invite", "transfer"
    Starts,          \* the rows of the workspace when the page is rendered
    Seats,           \* active members the plan admits
    Slots,           \* bound: requests on their way at once (naturals)
    MaxClicks,       \* bound: requests the administrator starts on a page
    MaxOthers        \* bound: changes others make meanwhile

VARIABLES
    \* the server
    member, team, invitation, session, recent,
    \* the requests on their way, the cookie, and how much has happened
    calls, cookie, clicks, others, lost,
    \* the page
    page, rows, authority, groups, letters, drafts, dirty, asked, verified,
    busy, stale, notice

tenant == <<member, team, invitation>>
auth   == <<session, recent>>
wire   == <<calls, cookie, clicks, lost>>
lists  == <<rows, authority, groups, letters>>
choices == <<drafts, dirty, verified>>
form   == <<choices, asked>>
banner == <<busy, stale, notice>>
ui     == <<page, lists, form, banner>>
vars   == <<tenant, auth, wire, others, ui>>

Roles == {"owner", "admin", "member"}
MemberRows == [role : Roles, status : {"active", "suspended", "removed"},
               teams : SUBSET Teams, version : Nat]
TeamRows == [status : {"absent", "active", "archived"}, version : Nat]
InvitationRows == [status : {"absent", "pending", "expired", "accepted", "revoked"},
                   address : Addresses, role : {"admin", "member"}, version : Nat,
                   lapsed : BOOLEAN, cooling : BOOLEAN]
\* letter is auxiliary: the invitation, and its version, that the answer named
\* with which the draft was sent.  The page takes only the success from it.
DraftRows == [address : Addresses, role : {"admin", "member"}, teams : SUBSET Teams,
              state : {"ready", "sending", "sent", "error"},
              letter : {None} \cup [id : Invitations, version : Nat]]

NoCall == [at |-> "idle"]
Nothing == [text |-> "", of |-> None, version |-> 0]
Say(text) == [Nothing EXCEPT !.text = text]
Saved(m, v) == [text |-> "saved", of |-> m, version |-> v]

\* A workspace never has two owners: OneActiveOwner of TenantAdmin.
ASSUME ConsoleAssumption ==
    /\ Me \in Members /\ Seats \in Nat /\ MaxClicks \in [Pages -> Nat] /\ MaxOthers \in Nat
    /\ Slots \subseteq Nat /\ IsFiniteSet(Slots) /\ IsFiniteSet(Members)
    /\ \A s \in Starts : /\ s.member \in [Members -> MemberRows]
                         /\ s.team \in [Teams -> TeamRows]
                         /\ s.invitation \in [Invitations -> InvitationRows]
                         /\ \A m, n \in Members : s.member[m].role = "owner"
                                /\ s.member[n].role = "owner" => m = n

\* The page is rendered from the rows of the moment.  Only the owner is shown
\* the transfer, and only to owners and administrators the others.
Init ==
    \E s \in Starts, p \in Pages :
       /\ s.member[Me].role \in IF p = "transfer" THEN {"owner"} ELSE {"owner", "admin"}
       /\ page = p /\ member = s.member /\ team = s.team /\ invitation = s.invitation
       /\ rows = s.member /\ groups = s.team /\ letters = s.invitation
       /\ authority = s.member[Me].role
       /\ session = 0 /\ cookie = 0
       /\ recent \in {FALSE, p = "transfer"} /\ verified \in {FALSE, recent}
       /\ calls = [k \in Slots |-> NoCall] /\ clicks = 0 /\ others = 0 /\ lost = FALSE
       /\ drafts = <<>> /\ dirty = [t \in Teams |-> {}]
       /\ asked = None
       /\ busy = None /\ stale = None /\ notice = Nothing

---------------------------------------------------------------------------
(* Variants with a plausible bug, for mutation checks. *)
VersionsOnly(answer) == [m \in Members |-> [rows[m] EXCEPT !.version = answer[m].version]]

RowsStay(answer) == rows

AnyFor(a) == {i \in Invitations : /\ invitation[i].address = a
                                  /\ invitation[i].status # "absent"}

StaysBusy(kind, then, ends) == [kind |-> kind, then |-> then, ends |-> FALSE]

CookieOfAnyAnswer(k) == /\ calls' = [calls EXCEPT ![k] = [at |-> "idle"]]
                        /\ cookie' = session + 1
                        /\ UNCHANGED <<clicks, lost>>

---------------------------------------------------------------------------
(***************************************************************************)
(* The routes.                                                             *)
(***************************************************************************)
Manages(a, b) == \/ a = "owner" /\ b # "owner"
                 \/ a = "admin" /\ b = "member"
Invites(a, b) == \/ a = "owner"
                 \/ a = "admin" /\ b = "member"
Runs(a) == a \in {"owner", "admin"}

Active(m) == member[m].status = "active"
Joined(a) == \E i \in Invitations : /\ invitation[i].address = a
                                    /\ invitation[i].status = "accepted"
SeatFree == Cardinality({m \in Members : Active(m)})
              + Cardinality({a \in Addresses : Joined(a)}) < Seats
PendingFor(a) == {i \in Invitations : /\ invitation[i].address = a
                                      /\ invitation[i].status = "pending"}
Unused == {i \in Invitations : invitation[i].status = "absent"}

Transitions == {<<"active", "suspended">>, <<"active", "removed">>,
                <<"suspended", "active">>, <<"suspended", "removed">>}

\* What a route answers, checked in the order of the code: "gone" is 404,
\* "changed" 409, "refused" any other error, the rate limits included.
Same(row, q) == row.version = q.version

ChangeRoleVerdict(q) ==
    LET row == member[q.of] IN
    CASE q.of = Me \/ row.status # "active"       -> "gone"
      [] row.role = "owner" \/ ~Same(row, q)      -> "changed"
      [] member[Me].role # "owner"                -> "gone"
      [] OTHER                                    -> "ok"

ChangeStatusVerdict(q) ==
    LET row == member[q.of] IN
    CASE q.of = Me \/ ~Manages(member[Me].role, row.role) -> "gone"
      [] ~Same(row, q)                                    -> "changed"
      [] <<row.status, q.to>> \notin Transitions          -> "refused"
      [] q.to = "active" /\ ~SeatFree                     -> "refused"
      [] OTHER                                            -> "ok"

AssignTeamsVerdict(q) ==
    LET row == member[q.of] IN
    CASE ~Runs(member[Me].role) \/ row.status # "active"        -> "gone"
      [] row.role # "member" /\ member[Me].role # "owner"       -> "gone"
      [] ~Same(row, q)                                          -> "changed"
      [] \E t \in q.to : team[t].status # "active"              -> "gone"
      [] OTHER                                                  -> "ok"

TransferVerdict(q) ==
    CASE member[Me].role # "owner"                              -> "gone"
      [] ~recent                                                -> "refused"
      [] member[Me].version # q.mine                            -> "changed"
      [] ~Active(q.of)                                          -> "gone"
      [] ~Same(member[q.of], q)                                 -> "changed"
      [] OTHER                                                  -> "ok"

CreateTeamVerdict(q) ==
    CASE ~Runs(member[Me].role)                                 -> "gone"
      [] team[q.of].status # "absent"                           -> "changed"
      [] OTHER                                                  -> "ok"

ArchiveTeamVerdict(q) ==
    CASE ~Runs(member[Me].role)                                 -> "gone"
      [] ~Same(team[q.of], q)                                   -> "changed"
      [] OTHER                                                  -> "ok"

CreateInvitationVerdict(q) ==
    CASE ~Invites(member[Me].role, q.role)                      -> "gone"
      [] Joined(q.of)                                           -> "changed"
      [] PendingFor(q.of) # {}                                  -> "ok"
      [] \E t \in q.to : team[t].status # "active"              -> "gone"
      [] OTHER                                                  -> "ok"

ResendVerdict(q) ==
    LET inv == invitation[q.of] IN
    CASE ~Invites(member[Me].role, inv.role)                    -> "gone"
      [] inv.status \notin {"pending", "expired"}               -> "refused"
      [] ~Same(inv, q)                                          -> "changed"
      [] inv.cooling /\ ~inv.lapsed                             -> "refused"
      [] OTHER                                                  -> "ok"

RevokeVerdict(q) ==
    LET inv == invitation[q.of] IN
    CASE ~Invites(member[Me].role, inv.role)                    -> "gone"
      [] inv.status # "pending"                                 -> "refused"
      [] ~Same(inv, q)                                          -> "changed"
      [] OTHER                                                  -> "ok"

ReadVerdict(q) == IF Runs(member[Me].role) THEN "ok" ELSE "gone"

\* Every route first resolves the session and the active membership.
Verdict(call) ==
    LET q == call.req IN
    IF call.cookie # session THEN "refused"
    ELSE IF q.kind # "verify" /\ ~Active(Me) THEN "gone"
    ELSE CASE q.kind = "role"     -> ChangeRoleVerdict(q)
           [] q.kind = "status"   -> ChangeStatusVerdict(q)
           [] q.kind = "assign"   -> AssignTeamsVerdict(q)
           [] q.kind = "transfer" -> TransferVerdict(q)
           [] q.kind = "create"   -> CreateTeamVerdict(q)
           [] q.kind = "archive"  -> ArchiveTeamVerdict(q)
           [] q.kind = "invite"   -> CreateInvitationVerdict(q)
           [] q.kind = "resend"   -> ResendVerdict(q)
           [] q.kind = "revoke"   -> RevokeVerdict(q)
           [] q.kind = "verify"   -> IF q.to = "password" THEN "ok" ELSE "refused"
           [] OTHER               -> ReadVerdict(q)

Takes(k, kinds) == /\ calls[k].at = "sent" /\ calls[k].req.kind \in kinds
                   /\ Verdict(calls[k]) = "ok"

Answer(k, code, body) ==
    /\ calls' = [calls EXCEPT ![k] = [at |-> "answered", req |-> @.req, code |-> code, body |-> body]]
    /\ UNCHANGED <<cookie, clicks, lost, others, ui>>

Refuse(k) ==
    /\ calls[k].at = "sent" /\ Verdict(calls[k]) # "ok"
    /\ Answer(k, Verdict(calls[k]), None)
    /\ UNCHANGED <<tenant, auth>>

ChangeMembership(k) ==
    LET q == calls[k].req IN
    /\ Takes(k, {"role", "status"})
    /\ member' = [member EXCEPT ![q.of].role = IF q.kind = "role" THEN q.to ELSE @,
                                ![q.of].status = IF q.kind = "status" THEN q.to ELSE @,
                                ![q.of].version = @ + 1]
    /\ Answer(k, "ok", None)
    /\ UNCHANGED <<team, invitation, auth>>

AssignTeams(k) ==
    LET q == calls[k].req IN
    /\ Takes(k, {"assign"})
    /\ member' = [member EXCEPT ![q.of].teams = q.to, ![q.of].version = @ + 1]
    /\ Answer(k, "ok", q.version + 1)
    /\ UNCHANGED <<team, invitation, auth>>

\* The session of the former owner gets a new hash in the same transaction;
\* the answer brings the cookie that fits it.
TransferOwner(k) ==
    LET q == calls[k].req IN
    /\ Takes(k, {"transfer"})
    /\ member' = [member EXCEPT ![q.of].role = "owner", ![q.of].version = @ + 1,
                                ![Me].role = "admin", ![Me].version = @ + 1]
    /\ session' = session + 1
    /\ Answer(k, "ok", session')
    /\ UNCHANGED <<team, invitation, recent>>

ChangeTeam(k) ==
    LET q == calls[k].req
        row == [status |-> IF q.kind = "create" THEN "active" ELSE "archived",
                version |-> team[q.of].version + 1] IN
    /\ Takes(k, {"create", "archive"})
    /\ team' = [team EXCEPT ![q.of] = row]
    /\ Answer(k, "ok", row)
    /\ UNCHANGED <<member, invitation, auth>>

NewInvitation(a, role) ==
    [status |-> "pending", address |-> a, role |-> role, version |-> 1,
     lapsed |-> FALSE, cooling |-> TRUE]

\* An address that has a pending invitation is answered with that one, any
\* other with the one that is made for it.
CreateInvitation(k) ==
    LET q == calls[k].req
        Answered(i) == Answer(k, "ok", [id |-> i, version |-> invitation'[i].version]) IN
    /\ Takes(k, {"invite"})
    /\ IF PendingFor(q.of) # {}
       THEN UNCHANGED invitation /\ \E i \in PendingFor(q.of) : Answered(i)
       ELSE \E i \in Unused :
              /\ invitation' = [invitation EXCEPT ![i] = NewInvitation(q.of, q.role)]
              /\ Answered(i)
    /\ UNCHANGED <<member, team, auth>>

\* A lapsed invitation is closed and followed by a new one.
ResendInvitation(k) ==
    LET q == calls[k].req
        old == invitation[q.of]
        again == [old EXCEPT !.version = @ + 1, !.cooling = TRUE] IN
    /\ Takes(k, {"resend"})
    /\ IF old.lapsed
       THEN \E i \in Unused :
              LET new == NewInvitation(old.address, old.role) IN
              /\ invitation' = [invitation EXCEPT ![q.of].status = "expired",
                                                  ![q.of].version = @ + 1, ![i] = new]
              /\ Answer(k, "ok", [id |-> i, row |-> new])
       ELSE /\ invitation' = [invitation EXCEPT ![q.of] = again]
            /\ Answer(k, "ok", [id |-> q.of, row |-> again])
    /\ UNCHANGED <<member, team, auth>>

RevokeInvitation(k) ==
    LET q == calls[k].req
        row == [invitation[q.of] EXCEPT !.status = "revoked", !.version = @ + 1] IN
    /\ Takes(k, {"revoke"})
    /\ invitation' = [invitation EXCEPT ![q.of] = row]
    /\ Answer(k, "ok", [id |-> q.of, row |-> row])
    /\ UNCHANGED <<member, team, auth>>

ConfirmIdentity(k) ==
    /\ Takes(k, {"verify"})
    /\ recent' = TRUE /\ session' = session + 1
    /\ Answer(k, "ok", session')
    /\ UNCHANGED tenant

\* peoplePage lists no teams; the capabilities of a row follow from the role
\* of the reader.
PeoplePage == [rows |-> member, authority |-> member[Me].role]

ReadPage(k) ==
    /\ Takes(k, {"people", "invitations"})
    /\ Answer(k, "ok", IF calls[k].req.kind = "people" THEN PeoplePage ELSE invitation)
    /\ UNCHANGED <<tenant, auth>>

\* The teams page reads the teams and the people side by side.
ReadHalf(k) ==
    /\ Takes(k, {"both"})
    /\ \E half \in {[part |-> "teams", data |-> team], [part |-> "people", data |-> member]} :
          calls' = [calls EXCEPT ![k] = [at |-> "half", req |-> @.req, cookie |-> @.cookie,
                                         body |-> half]]
    /\ UNCHANGED <<tenant, auth, cookie, clicks, lost, others, ui>>

ReadOtherHalf(k) ==
    LET first == calls[k].body IN
    /\ calls[k].at = "half"
    /\ IF Verdict(calls[k]) = "ok"
       THEN Answer(k, "ok", IF first.part = "teams"
                            THEN [teams |-> first.data, people |-> member]
                            ELSE [teams |-> team, people |-> first.data])
       ELSE Answer(k, "gone", None)
    /\ UNCHANGED <<tenant, auth>>

Serve(k) == \/ Refuse(k) \/ ChangeMembership(k) \/ AssignTeams(k) \/ TransferOwner(k)
            \/ ChangeTeam(k) \/ CreateInvitation(k) \/ ResendInvitation(k)
            \/ RevokeInvitation(k) \/ ConfirmIdentity(k) \/ ReadPage(k)
            \/ ReadHalf(k) \/ ReadOtherHalf(k)

---------------------------------------------------------------------------
(***************************************************************************)
(* The others, the clock and the network.                                  *)
(***************************************************************************)
Meanwhile == /\ others < MaxOthers
             /\ others' = others + 1
             /\ UNCHANGED <<wire, ui>>

\* Another administrator changes a membership, that of this one included, or
\* another owner passes the ownership on, to this one too.
OtherMember(m) ==
    /\ Meanwhile
    /\ \E b \in Members \ {Me, m} :
         /\ Active(b)
         /\ \/ /\ Manages(member[b].role, member[m].role)
               /\ \E s \in {"active", "suspended", "removed"} :
                    /\ <<member[m].status, s>> \in Transitions
                    /\ s = "active" => SeatFree
                    /\ member' = [member EXCEPT ![m].status = s, ![m].version = @ + 1]
            \/ /\ member[b].role = "owner" /\ Active(m)
               /\ \E r \in {"admin", "member"} \ {member[m].role} :
                    member' = [member EXCEPT ![m].role = r, ![m].version = @ + 1]
            \/ /\ Runs(member[b].role) /\ Active(m)
               /\ member[m].role = "member" \/ member[b].role = "owner"
               /\ \E T \in SUBSET {t \in Teams : team[t].status = "active"} :
                    /\ T # member[m].teams
                    /\ member' = [member EXCEPT ![m].teams = T, ![m].version = @ + 1]
            \/ /\ member[b].role = "owner" /\ Active(m)
               /\ member' = [member EXCEPT ![m].role = "owner", ![m].version = @ + 1,
                                           ![b].role = "admin", ![b].version = @ + 1]
    /\ UNCHANGED <<team, invitation, auth>>

OtherTeam(t) ==
    /\ Meanwhile
    /\ page \in {"teams", "invite"}     \* bound: of the others, what matters to the page
    /\ team[t].status = "active"
    /\ \E b \in Members \ {Me} : Active(b) /\ Runs(member[b].role)
    /\ team' = [team EXCEPT ![t].status = "archived", ![t].version = @ + 1]
    /\ UNCHANGED <<member, invitation, auth>>

\* Others revoke, accept or resend an invitation, or create one; who accepts one
\* that has lapsed closes it; a moment passes after which it can be sent again;
\* seven days pass.
OtherInvitation(i) ==
    /\ Meanwhile
    /\ page \in {"people", "invitations", "invite"}     \* bound
    /\ \/ /\ invitation[i].status = "pending"
          /\ \E s \in {"revoked", "accepted", "expired"} :
               /\ s = "accepted" => ~invitation[i].lapsed /\ SeatFree
               /\ s = "expired" => invitation[i].lapsed
               /\ invitation' = [invitation EXCEPT ![i].status = s, ![i].version = @ + 1]
       \/ /\ i \in Unused
          /\ \E a \in Addresses :
               /\ PendingFor(a) = {} /\ ~Joined(a)
               /\ invitation' = [invitation EXCEPT ![i] = NewInvitation(a, "member")]
       \/ /\ invitation[i].status = "pending" /\ ~invitation[i].lapsed /\ ~invitation[i].cooling
          /\ invitation' = [invitation EXCEPT ![i].version = @ + 1, ![i].cooling = TRUE]
       \/ /\ invitation[i].status = "pending" /\ invitation[i].cooling
          /\ invitation' = [invitation EXCEPT ![i].cooling = FALSE]
       \/ /\ invitation[i].status = "pending" /\ ~invitation[i].lapsed
          /\ invitation' = [invitation EXCEPT ![i].lapsed = TRUE, ![i].cooling = FALSE]
    /\ UNCHANGED <<member, team, auth>>

ConfirmationAges ==
    /\ Meanwhile /\ recent /\ page = "transfer"     \* bound
    /\ recent' = FALSE
    /\ UNCHANGED <<tenant, session>>

\* The request, or its answer, never arrives: the fetch rejects, no client
\* catches it, and nothing after its await is run.
Lose(k) ==
    /\ calls[k].at # "idle" /\ ~lost     \* bound: one loss
    /\ calls' = [calls EXCEPT ![k] = NoCall]
    /\ lost' = TRUE
    /\ UNCHANGED <<tenant, auth, others, cookie, clicks, ui>>

---------------------------------------------------------------------------
(***************************************************************************)
(* The pages.  A request names the row it is about as it was shown.        *)
(***************************************************************************)
Free == {k \in Slots : calls[k].at = "idle"}
Sent(q) == [at |-> "sent", req |-> q, cookie |-> cookie]
Request(kind, of, to, row) ==
    [kind |-> kind, of |-> of, to |-> to, version |-> row.version, seen |-> row]
Read(kind, then, ends) == [kind |-> kind, then |-> then, ends |-> ends]

Start(q) == /\ Free # {}
            /\ calls' = [calls EXCEPT ![Min(Free)] = Sent(q)]
            /\ UNCHANGED <<cookie, lost>>
Click(q) == clicks < MaxClicks[page] /\ clicks' = clicks + 1 /\ Start(q)

World == <<tenant, auth, others>>

\* An answer is taken up by the page; the page may ask for something next.
Arrived(k, kinds) == calls[k].at = "answered" /\ calls[k].req.kind \in kinds
Close(k) == calls' = [calls EXCEPT ![k] = NoCall] /\ UNCHANGED <<cookie, clicks, lost>>
Follow(k, q) == calls' = [calls EXCEPT ![k] = Sent(q)] /\ UNCHANGED <<cookie, clicks, lost>>

---------------------------------------------------------------------------
(***************************************************************************)
(* People and roles.                                                       *)
(***************************************************************************)
\* The controls the server offers on a row, by the role it was read with.
Offered(m, kind, to) ==
    LET row == rows[m] IN
    /\ m # Me /\ row.role # "owner" /\ row.status # "removed" /\ busy # m
    /\ IF kind = "role"
       THEN authority = "owner" /\ row.status = "active" /\ to # row.role
       ELSE Manages(authority, row.role) /\ <<row.status, to>> \in Transitions

SavePerson(q) ==
    /\ Click(q)
    /\ busy' = q.of /\ notice' = Say("working")
    /\ UNCHANGED <<page, lists, choices, stale>>

\* Becoming a member is saved at once, everything else is asked first.
ChoosePerson(m) ==
    /\ page = "people" /\ asked = None
    /\ \E kind \in {"role", "status"}, to \in {"admin", "member", "active", "suspended", "removed"} :
         /\ kind = "role" <=> to \in {"admin", "member"}
         /\ Offered(m, kind, to)
         /\ LET q == Request(kind, m, to, rows[m]) IN
            IF kind = "role" /\ to = "member"
            THEN SavePerson(q) /\ UNCHANGED asked
            ELSE /\ asked' = q
                 /\ UNCHANGED <<wire, page, lists, choices, banner>>
    /\ UNCHANGED World

ConfirmPerson ==
    /\ page = "people" /\ asked # None
    /\ asked' = None /\ SavePerson(asked)
    /\ UNCHANGED World

\* A change that was accepted is followed by a reload that still holds the row.
ReturnPerson(k) ==
    LET q == calls[k].req IN
    /\ Arrived(k, {"role", "status"})
    /\ CASE calls[k].code = "ok" ->
              /\ Follow(k, Read("people", Saved(q.of, q.version), TRUE))
              /\ UNCHANGED banner
         [] calls[k].code = "gone" ->
              /\ Follow(k, Read("people", Say("denied"), FALSE))
              /\ busy' = None /\ notice' = Say("denied") /\ UNCHANGED stale
         [] calls[k].code = "changed" ->
              /\ Close(k)
              /\ busy' = None /\ stale' = page /\ notice' = Say("changed")
         [] OTHER ->
              /\ Close(k)
              /\ busy' = None /\ notice' = Say("failed") /\ UNCHANGED stale
    /\ UNCHANGED <<World, page, lists, form>>

ReloadPage ==
    /\ page \in {"people", "invitations"} /\ stale = page
    /\ Click(Read(page, Say("latest"), FALSE))
    /\ UNCHANGED <<World, ui>>

\* The rows of the answer, with the teams that were shown before.
Reloaded(answer) == [m \in Members |-> [answer[m] EXCEPT !.teams = rows[m].teams]]

ReturnPeople(k) ==
    LET q == calls[k].req
        body == calls[k].body IN
    /\ Arrived(k, {"people"})
    /\ Close(k)
    /\ busy' = IF q.ends THEN None ELSE busy
    /\ IF calls[k].code = "ok"
       THEN /\ rows' = Reloaded(body.rows) /\ authority' = body.authority
            /\ stale' = None /\ notice' = q.then
       ELSE /\ notice' = Say("unloaded") /\ UNCHANGED <<rows, authority, stale>>
    /\ UNCHANGED <<World, page, groups, letters, form>>

\* Any dialog can be left.
Cancel == /\ asked # None
          /\ asked' = None
          /\ UNCHANGED <<World, wire, page, lists, choices, banner>>

---------------------------------------------------------------------------
(***************************************************************************)
(* Invitations.                                                            *)
(***************************************************************************)
SendLetter(q) == /\ Click(q)
                 /\ notice' = Say("working")
                 /\ UNCHANGED <<page, lists, choices, busy, stale>>

ResendLetter(i) ==
    /\ page = "invitations" /\ asked = None /\ letters[i].status = "pending"
    /\ SendLetter(Request("resend", i, None, letters[i]))
    /\ UNCHANGED <<World, asked>>

AskRevoke(i) ==
    /\ page = "invitations" /\ asked = None /\ letters[i].status = "pending"
    /\ asked' = Request("revoke", i, None, letters[i])
    /\ UNCHANGED <<World, wire, page, lists, choices, banner>>

ConfirmRevoke ==
    /\ page = "invitations" /\ asked # None
    /\ asked' = None /\ SendLetter(asked)
    /\ UNCHANGED World

\* The row takes over the answer, its id included.
ReturnLetter(k) ==
    LET q == calls[k].req
        body == calls[k].body IN
    /\ Arrived(k, {"resend", "revoke"})
    /\ Close(k)
    /\ IF calls[k].code = "ok"
       THEN /\ letters' = [letters EXCEPT ![q.of].status = "absent", ![body.id] = body.row]
            /\ notice' = Say("letter") /\ UNCHANGED stale
       ELSE /\ stale' = IF calls[k].code = "changed" THEN page ELSE stale
            /\ notice' = Say("failed") /\ UNCHANGED letters
    /\ UNCHANGED <<World, page, rows, authority, groups, form, busy>>

ReturnInvitations(k) ==
    /\ Arrived(k, {"invitations"})
    /\ Close(k)
    /\ IF calls[k].code = "ok"
       THEN letters' = calls[k].body /\ stale' = None /\ notice' = calls[k].req.then
       ELSE notice' = Say("unloaded") /\ UNCHANGED <<letters, stale>>
    /\ UNCHANGED <<World, page, rows, authority, groups, form, busy>>

---------------------------------------------------------------------------
(***************************************************************************)
(* Inviting.                                                               *)
(***************************************************************************)
Draft(a, role) == [address |-> a, role |-> role, teams |-> {}, state |-> "ready",
                   letter |-> None]
Listed(a) == \E d \in DOMAIN drafts : drafts[d].address = a
OffersRole(r) == Invites(authority, r)

\* An address that is listed is not listed again; one that is pasted twice
\* at once is.
AddDrafts(a) ==
    /\ page = "invite" /\ ~Listed(a) /\ clicks < MaxClicks[page]
    /\ \E r \in {"admin", "member"}, copies \in {<<1>>, <<1, 2>>} :
         /\ OffersRole(r) /\ Len(drafts) + Len(copies) <= Cardinality(Slots)
         /\ drafts' = drafts \o [c \in DOMAIN copies |-> Draft(a, r)]
    /\ UNCHANGED <<World, wire, page, lists, dirty, verified, asked, banner>>

\* The role can change while the draft is not on its way; teams always.
EditDraft(d) ==
    /\ page = "invite" /\ clicks < MaxClicks[page]
    /\ \/ /\ drafts[d].state \in {"ready", "error"}
          /\ \E r \in {"admin", "member"} \ {drafts[d].role} :
               OffersRole(r) /\ drafts' = [drafts EXCEPT ![d].role = r]
       \/ \E t \in {u \in Teams : groups[u].status = "active"} :
            drafts' = [drafts EXCEPT ![d].teams = IF t \in @ THEN @ \ {t} ELSE @ \cup {t}]
    /\ UNCHANGED <<World, wire, page, lists, dirty, verified, asked, banner>>

Invite(d, draft, batch) ==
    [kind |-> "invite", of |-> draft.address, role |-> draft.role, to |-> draft.teams,
     draft |-> d, batch |-> batch]

\* The n-th of what is due takes the n-th request that is free.
Nth(S, x) == Cardinality({y \in S : y <= x})
ForSlot(due, k) == {d \in due : k \in Free /\ Nth(Free, k) = Nth(due, d)}

SendDrafts(all) ==
    LET due == {d \in DOMAIN all : all[d].state # "sent"} IN
    /\ due # {} /\ Cardinality(due) <= Cardinality(Free) /\ Len(all) <= Cardinality(Slots)
    /\ drafts' = [d \in DOMAIN all |-> IF d \in due THEN [all[d] EXCEPT !.state = "sending"]
                                        ELSE all[d]]
    /\ calls' = [k \in Slots |->
           IF ForSlot(due, k) = {} THEN calls[k]
           ELSE LET d == CHOOSE e \in ForSlot(due, k) : TRUE IN Sent(Invite(d, all[d], TRUE))]
    /\ busy' = due

\* Everything that is not sent goes out together, an address still in the
\* entry field with it, listed or not.
SubmitDrafts ==
    /\ page = "invite" /\ busy = None /\ clicks < MaxClicks[page]
    /\ \/ SendDrafts(drafts)
       \/ \E a \in Addresses, r \in {"admin", "member"} :
            OffersRole(r) /\ SendDrafts(Append(drafts, Draft(a, r)))
    /\ clicks' = clicks + 1
    /\ notice' = Say("working") /\ stale' = None
    /\ UNCHANGED <<World, cookie, lost, page, lists, dirty, verified, asked>>

RetryDraft(d) ==
    /\ page = "invite" /\ drafts[d].state = "error"
    /\ Click(Invite(d, drafts[d], FALSE))
    /\ drafts' = [drafts EXCEPT ![d].state = "sending"]
    /\ UNCHANGED <<World, page, lists, dirty, verified, asked, banner>>

\* The form is busy until every answer of the submission is there.
ReturnDraft(k) ==
    LET q == calls[k].req
        sent == calls[k].code = "ok"
        due == busy \ {q.draft} IN
    /\ Arrived(k, {"invite"})
    /\ Close(k)
    /\ drafts' = [drafts EXCEPT ![q.draft].state = IF sent THEN "sent" ELSE "error",
                                ![q.draft].letter = IF sent THEN calls[k].body ELSE @]
    /\ IF q.batch
       THEN /\ stale' = IF sent THEN stale ELSE page
            /\ busy' = IF due = {} THEN None ELSE due
            /\ notice' = IF due # {} THEN notice
                         ELSE Say(IF stale' = None THEN "invited" ELSE "some")
       ELSE UNCHANGED banner
    /\ UNCHANGED <<World, page, lists, dirty, verified, asked>>

---------------------------------------------------------------------------
(***************************************************************************)
(* The transfer of the ownership.                                          *)
(***************************************************************************)
Verify == /\ page = "transfer" /\ ~verified
          /\ \E word \in {"password", "another"} :
               Click([kind |-> "verify", to |-> word])
          /\ notice' = Say("working")
          /\ UNCHANGED <<World, page, lists, form, busy, stale>>

\* The answer brings a new cookie.
TakesCookie(k) == /\ calls' = [calls EXCEPT ![k] = NoCall]
                  /\ cookie' = IF calls[k].code = "ok" THEN calls[k].body ELSE cookie
                  /\ UNCHANGED <<clicks, lost>>

ReturnVerified(k) ==
    LET ok == calls[k].code = "ok" IN
    /\ Arrived(k, {"verify"})
    /\ TakesCookie(k)
    /\ verified' = (verified \/ ok)
    /\ notice' = Say(IF ok THEN "confirmed" ELSE "unconfirmed")
    /\ UNCHANGED <<World, page, lists, drafts, dirty, asked, busy, stale>>

ChooseSuccessor(m) ==
    /\ page = "transfer" /\ verified /\ asked = None
    /\ m # Me /\ rows[m].status = "active"
    /\ asked' = [kind |-> "transfer", of |-> m, version |-> rows[m].version,
                 seen |-> rows[m], mine |-> rows[Me].version]
    /\ UNCHANGED <<World, wire, page, lists, choices, banner>>

Transfer ==
    /\ page = "transfer" /\ asked # None
    /\ Click(asked) /\ asked' = None /\ notice' = Say("working")
    /\ UNCHANGED <<World, page, lists, choices, busy, stale>>

ReturnTransfer(k) ==
    LET q == calls[k].req IN
    /\ Arrived(k, {"transfer"})
    /\ TakesCookie(k)
    /\ notice' = IF calls[k].code = "ok"
                 THEN [text |-> "transferred", of |-> q.of, version |-> q.version]
                 ELSE Say("unsaved")
    /\ UNCHANGED <<World, page, lists, form, busy, stale>>

---------------------------------------------------------------------------
(***************************************************************************)
(* Teams.                                                                  *)
(***************************************************************************)
CreateTeam(t) ==
    /\ page = "teams" /\ asked = None
    /\ Click([kind |-> "create", of |-> t])
    /\ notice' = Say("working")
    /\ UNCHANGED <<World, page, lists, form, busy, stale>>

\* Removing somebody and deleting a team are asked first.
AskTeam(t) ==
    /\ page = "teams" /\ asked = None /\ groups[t].status = "active" /\ clicks < MaxClicks[page]
    /\ \/ asked' = Request("archive", t, None, groups[t])
       \/ \E m \in Members :
            /\ rows[m].status = "active" /\ rows[m].role # "owner" /\ t \in rows[m].teams
            /\ asked' = Request("remove", t, m, groups[t])
    /\ UNCHANGED <<World, wire, page, lists, choices, banner>>

Toggle(t, m) ==
    /\ rows' = [rows EXCEPT ![m].teams = IF t \in @ THEN @ \ {t} ELSE @ \cup {t}]
    /\ dirty' = [dirty EXCEPT ![t] = @ \cup {m}]
    /\ notice' = Say("toggled")
    /\ UNCHANGED <<page, authority, groups, letters, drafts, verified, busy, stale>>

AddToTeam(t, m) ==
    /\ page = "teams" /\ asked = None /\ groups[t].status = "active" /\ clicks < MaxClicks[page]
    /\ rows[m].status = "active" /\ rows[m].role # "owner" /\ t \notin rows[m].teams
    /\ Toggle(t, m)
    /\ UNCHANGED <<World, wire, asked>>

ConfirmTeam ==
    /\ page = "teams" /\ asked # None
    /\ asked' = None
    /\ IF asked.kind = "archive"
       THEN Click(asked) /\ UNCHANGED <<page, lists, choices, banner>>
       ELSE Toggle(asked.of, asked.to) /\ UNCHANGED wire
    /\ UNCHANGED World

\* The people to save, as they are at the click, are put one after the other.
Assign(t, people) ==
    [kind |-> "assign", of |-> Head(people).id, to |-> Head(people).row.teams,
     version |-> Head(people).row.version, team |-> t, rest |-> Tail(people)]

SaveTeam(t) ==
    LET due == SetToSeq({m \in dirty[t] : rows[m].role # "owner"})
        people == [j \in DOMAIN due |-> [id |-> due[j], row |-> rows[due[j]]]] IN
    /\ page = "teams" /\ asked = None /\ groups[t].status = "active"
    /\ IF people = <<>>
       THEN stale' = None /\ notice' = Say("updated") /\ UNCHANGED wire
       ELSE Click(Assign(t, people)) /\ notice' = Say("working") /\ UNCHANGED stale
    /\ UNCHANGED <<World, page, lists, form, busy>>

ReturnAssigned(k) ==
    LET q == calls[k].req IN
    /\ Arrived(k, {"assign"})
    /\ IF calls[k].code = "ok"
       THEN /\ rows' = [rows EXCEPT ![q.of].version = calls[k].body]
            /\ dirty' = [dirty EXCEPT ![q.team] = @ \ {q.of}]
            /\ IF q.rest = <<>>
               THEN Close(k) /\ stale' = None /\ notice' = Say("updated")
               ELSE Follow(k, Assign(q.team, q.rest)) /\ UNCHANGED <<stale, notice>>
       ELSE /\ Close(k)
            /\ stale' = IF calls[k].code = "changed" THEN q.team ELSE stale
            /\ notice' = Say("failed")
            /\ UNCHANGED <<rows, dirty>>
    /\ UNCHANGED <<World, page, authority, groups, letters, drafts, verified, asked, busy>>

\* A team that could not be created is only told about; one that could not
\* be archived counts as changed, whatever the answer was.
ReturnTeam(k) ==
    LET q == calls[k].req
        ok == calls[k].code = "ok" IN
    /\ Arrived(k, {"create", "archive"})
    /\ Close(k)
    /\ groups' = IF ok THEN [groups EXCEPT ![q.of] = calls[k].body] ELSE groups
    /\ stale' = IF ok \/ q.kind = "create" THEN stale ELSE q.of
    /\ notice' = Say(IF ok THEN q.kind ELSE "failed")
    /\ UNCHANGED <<World, page, rows, authority, letters, form, busy>>

ReloadTeam ==
    /\ page = "teams" /\ asked = None /\ stale # None /\ groups[stale].status = "active"
    /\ Click(Read("both", Say("latest"), FALSE))
    /\ UNCHANGED <<World, ui>>

\* Of the people, the versions are taken and nothing else.
Merged(people) == [m \in Members |-> [rows[m] EXCEPT !.version = people[m].version]]

ReturnBoth(k) ==
    /\ Arrived(k, {"both"})
    /\ Close(k)
    /\ IF calls[k].code = "ok"
       THEN /\ groups' = calls[k].body.teams /\ rows' = Merged(calls[k].body.people)
            /\ stale' = None /\ notice' = calls[k].req.then
       ELSE notice' = Say("unloaded") /\ UNCHANGED <<groups, rows, stale>>
    /\ UNCHANGED <<World, page, authority, letters, form, busy>>

---------------------------------------------------------------------------
Clicks ==
    \/ \E m \in Members : ChoosePerson(m) \/ ChooseSuccessor(m)
    \/ \E i \in Invitations : ResendLetter(i) \/ AskRevoke(i)
    \/ \E a \in Addresses : AddDrafts(a)
    \/ \E d \in DOMAIN drafts : EditDraft(d) \/ RetryDraft(d)
    \/ \E t \in Teams : CreateTeam(t) \/ AskTeam(t) \/ SaveTeam(t)
    \/ \E t \in Teams, m \in Members : AddToTeam(t, m)
    \/ ConfirmPerson \/ ConfirmRevoke \/ ConfirmTeam \/ Cancel
    \/ SubmitDrafts \/ Verify \/ Transfer \/ ReloadPage \/ ReloadTeam

Return(k) ==
    \/ ReturnPerson(k) \/ ReturnPeople(k) \/ ReturnLetter(k) \/ ReturnInvitations(k)
    \/ ReturnDraft(k) \/ ReturnVerified(k) \/ ReturnTransfer(k)
    \/ ReturnAssigned(k) \/ ReturnTeam(k) \/ ReturnBoth(k)

Others ==
    \/ \E m \in Members : OtherMember(m)
    \/ \E t \in Teams : OtherTeam(t)
    \/ \E i \in Invitations : OtherInvitation(i)
    \/ ConfirmationAges

Next == \/ Clicks \/ Others
        \/ \E k \in Slots : Serve(k) \/ Return(k) \/ Lose(k)

\* A request that is not lost is answered, and an answer reaches the page.
Fairness == \A k \in Slots : WF_vars(Serve(k)) /\ WF_vars(Return(k))
Spec == Init /\ [][Next]_vars /\ Fairness

---------------------------------------------------------------------------
\* Type invariant.
TypeOK ==
    /\ member \in [Members -> MemberRows] /\ rows \in [Members -> MemberRows]
    /\ team \in [Teams -> TeamRows] /\ groups \in [Teams -> TeamRows]
    /\ invitation \in [Invitations -> InvitationRows]
    /\ letters \in [Invitations -> InvitationRows]
    /\ session \in Nat /\ cookie \in 0..session /\ recent \in BOOLEAN
    /\ \A k \in Slots : calls[k].at \in {"idle", "sent", "half", "answered"}
    /\ clicks \in 0..MaxClicks[page] /\ others \in 0..MaxOthers /\ lost \in BOOLEAN
    /\ page \in Pages /\ authority \in Roles /\ verified \in BOOLEAN
    /\ drafts \in Seq(DraftRows)
    /\ dirty \in [Teams -> SUBSET Members]
    /\ page = "invite" \/ busy \in Members \cup {None}

\* A change of a membership, of an invitation or of the ownership that a
\* route accepts changes a row that had, at that moment, the role and the
\* status the administrator saw when clicking: a version never stands for
\* another row than the one it was shown with.
ActsOnWhatWasShown ==
    [][\A k \in Slots :
         calls[k].at = "sent" /\ calls'[k].at = "answered" /\ calls'[k].code = "ok" =>
           LET q == calls[k].req IN
           /\ q.kind \in {"role", "status", "transfer"} =>
                /\ member[q.of].role = q.seen.role
                /\ member[q.of].status = q.seen.status
           /\ q.kind \in {"resend", "revoke"} =>
                /\ invitation[q.of].status = q.seen.status
                /\ invitation[q.of].address = q.seen.address]_vars

\* An invitation that was pending for an address when it had a version is so
\* until it gets another.
WasPending(letter, a) ==
    LET row == invitation[letter.id] IN
    /\ row.status # "absent" /\ row.address = a /\ row.version >= letter.version
    /\ row.version = letter.version => row.status = "pending"

\* What the page reports was done, as of the answer: a row said to be changed
\* is shown as it is after the change; who is said to own the workspace got
\* it, and owns it, and this administrator does not, unless that membership
\* was changed again since; an address said to be invited had a pending
\* invitation, and has it unless that was resent or closed since.
SuccessIsShown ==
    /\ notice.text = "saved" => rows[notice.of].version > notice.version
    /\ notice.text = "transferred" =>
         /\ member[notice.of].version > notice.version
         /\ member[notice.of].version = notice.version + 1 =>
              member[notice.of].role = "owner" /\ member[Me].role # "owner"
    /\ \A d \in DOMAIN drafts : drafts[d].state = "sent" =>
          WasPending(drafts[d].letter, drafts[d].address)

\* A row, or the invitation form, that is busy is released again, unless a
\* request or an answer was lost.
BusyEnds == [](busy # None => <>(busy = None \/ lost))
=============================================================================
