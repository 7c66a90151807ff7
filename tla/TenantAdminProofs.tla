-------------------------- MODULE TenantAdminProofs --------------------------
(***************************************************************************)
(* Proofs about TenantAdmin, for any users, teams, invitations, seats and  *)
(* any number of connections and commands, and in the second part about    *)
(* the pages that send its commands, AdminConsole.                         *)
(*                                                                         *)
(* The inductive invariant adds to the properties of the runs what they    *)
(* rest on: a receipt is kept exactly for what took effect, every token    *)
(* there is was mailed, and an acceptance that holds its invitation row    *)
(* holds the row of the token it was sent with.                            *)
(*                                                                         *)
(* Of the pages, ConsoleInv says what they may rely on while others work:  *)
(* a row that still has the version it was shown with is the row that was  *)
(* shown, in the lists, in a dialog, in a request and in an answer alike;  *)
(* an answer tells what holds of a row until its version changes again.    *)
(***************************************************************************)
EXTENDS TenantAdmin, Sequences, FiniteSetTheorems, TLAPS

Statuses == {"active", "suspended", "removed"}

StoreTyped ==
    /\ member \in [Users -> Memberships]
    /\ team \in [Teams -> TeamRows]
    /\ invitation \in [Invitations -> InvitationRows]
    /\ mailed \subseteq Invitations \X Nat

LedgerTyped ==
    /\ command \in [Keys -> Commands \cup {NoCommand}]
    /\ receipt \in [Keys -> Receipts]
    /\ applied \in [Keys -> Nat]
    /\ answer \in [Keys -> {"none", "ok", "refused", "conflict"}]
    /\ phase \in [Connections -> {"idle", "sent", "invitation", "locked"}]
    /\ key \in [Connections -> Keys \cup {NoKey}]
    /\ context \in [Connections -> Contexts]
    /\ \A c \in Connections :
         IF phase[c] = "idle" THEN key[c] = NoKey
         ELSE key[c] \in Keys /\ command[key[c]] # NoCommand

\* A receipt, live or expired, is kept for exactly what took effect.
ReceiptsTell == \A k \in Keys : receipt[k].state = "none" <=> applied[k] = 0

\* The mail with the token of an invitation is in the outbox.
TokensMailed ==
    \A i \in Invitations : invitation[i].status # "absent"
                             => <<i, invitation[i].generation>> \in mailed

\* Who holds the row of an invitation was sent with its last token.
HeldRowsMatch ==
    \A c \in Connections : \A i \in Invitations :
        phase[c] # "idle" /\ HoldsInvitation(c, i) => TokenNames(i, Cmd(c).generation)

LEMMA TypeParts == TypeOK <=> StoreTyped /\ LedgerTyped
  BY DEF TypeOK, StoreTyped, LedgerTyped
-----------------------------------------------------------------------------
(* Commands and rows. *)

LEMMA CommandParts ==
    ASSUME NEW cmd \in Commands
    PROVE  /\ cmd.actor \in Users
           /\ cmd.op \in {"member_change", "role_change", "teams_assign", "transfer",
                          "team_create", "team_change", "invite_create",
                          "invite_resend", "invite_revoke", "invite_accept"}
           /\ cmd.op \in {"member_change", "role_change", "teams_assign", "transfer"}
                => cmd.user \in Users
           /\ cmd.op = "member_change" => cmd.status \in Statuses
           /\ cmd.op = "role_change" => cmd.role \in {"admin", "member"}
           /\ cmd.op = "teams_assign" => cmd.teams \in SUBSET Teams
           /\ cmd.op \in {"team_create", "team_change"} => cmd.team \in Teams
           /\ cmd.op = "team_change" => cmd.status \in {"active", "archived"}
           /\ cmd.op = "invite_create" => /\ cmd.email \in Users
                                          /\ cmd.role \in {"admin", "member"}
                                          /\ cmd.teams \in SUBSET Teams
           /\ cmd.op \in {"invite_resend", "invite_revoke", "invite_accept"}
                => cmd.invitation \in Invitations
           /\ cmd.op = "invite_accept" => cmd.generation \in Nat
  BY DEF Commands, Statuses

LEMMA OffersAreCommands ==
    ASSUME StoreTyped, NEW a \in Users
    PROVE  Offers(a) \subseteq Commands
<1> SUFFICES ASSUME NEW cmd \in Offers(a)
             PROVE  cmd \in Commands
  OBVIOUS
<1> USE DEF StoreTyped
<1>1. ASSUME NEW u \in Users, NEW s \in Statuses,
             cmd = [op |-> "member_change", actor |-> a, user |-> u, status |-> s,
                    seen |-> member[u]]
      PROVE  cmd \in Commands
  BY <1>1 DEF Commands, Statuses
<1>2. ASSUME NEW u \in Users, NEW r \in {"admin", "member"},
             cmd = [op |-> "role_change", actor |-> a, user |-> u, role |-> r,
                    seen |-> member[u]]
      PROVE  cmd \in Commands
  BY <1>2 DEF Commands
<1>3. ASSUME NEW u \in Users, NEW s \in SUBSET Teams,
             cmd = [op |-> "teams_assign", actor |-> a, user |-> u, teams |-> s,
                    seen |-> member[u]]
      PROVE  cmd \in Commands
  BY <1>3 DEF Commands
<1>4. ASSUME NEW u \in Users,
             cmd = [op |-> "transfer", actor |-> a, user |-> u, seen |-> member[u],
                    actorSeen |-> member[a]]
      PROVE  cmd \in Commands
  BY <1>4 DEF Commands
<1>5. ASSUME NEW t \in Teams, cmd = [op |-> "team_create", actor |-> a, team |-> t]
      PROVE  cmd \in Commands
  BY <1>5 DEF Commands
<1>6. ASSUME NEW t \in Teams, NEW s \in {"active", "archived"},
             cmd = [op |-> "team_change", actor |-> a, team |-> t, status |-> s,
                    seen |-> team[t]]
      PROVE  cmd \in Commands
  BY <1>6 DEF Commands
<1>7. ASSUME NEW u \in Users, NEW r \in {"admin", "member"}, NEW s \in SUBSET Teams,
             cmd = [op |-> "invite_create", actor |-> a, email |-> u, role |-> r,
                    teams |-> s]
      PROVE  cmd \in Commands
  BY <1>7 DEF Commands
<1>8. ASSUME NEW o \in {"invite_resend", "invite_revoke"}, NEW i \in Invitations,
             cmd = [op |-> o, actor |-> a, invitation |-> i, seen |-> invitation[i]]
      PROVE  cmd \in Commands
  BY <1>8 DEF Commands
<1>9. ASSUME NEW i \in Invitations,
             cmd = [op |-> "invite_accept", actor |-> a, invitation |-> i,
                    generation |-> invitation[i].generation]
      PROVE  cmd \in Commands
  <2>1. invitation[i].generation \in Nat
    BY DEF InvitationRows
  <2> QED BY <1>9, <2>1 DEF Commands
<1> QED
  BY <1>1, <1>2, <1>3, <1>4, <1>5, <1>6, <1>7, <1>8, <1>9 DEF Offers, Statuses

LEMMA BumpedMembership ==
    ASSUME NEW row \in Memberships
    PROVE  /\ Bump(row) \in Memberships
           /\ Bump(row).status = row.status /\ Bump(row).role = row.role
  BY DEF Memberships, Bump

LEMMA JoinedMembership ==
    ASSUME NEW row \in Memberships, NEW inv \in InvitationRows
    PROVE  /\ Joined(row, inv) \in Memberships
           /\ Joined(row, inv).status = "active"
           /\ Joined(row, inv).role = inv.role
           /\ Joined(row, inv).teams = inv.teams
           /\ inv.role \in {"admin", "member"}
<1>1. inv.role \in {"admin", "member"} /\ inv.teams \in SUBSET Teams
  BY DEF InvitationRows
<1>2. row.version + 1 \in Nat
  BY DEF Memberships
<1> DEFINE r == [row EXCEPT !.status = "active", !.role = inv.role,
                            !.teams = inv.teams, !.version = @ + 1]
<1>3. r.status = "active" /\ r.role = inv.role /\ r.teams = inv.teams
  BY DEF Memberships
<1>4. r \in Memberships
  BY <1>1, <1>2 DEF Memberships, AllRoles
<1>5. Joined(row, inv) = r
  BY DEF Joined
<1> QED BY <1>1, <1>3, <1>4, <1>5

LEMMA StatusChanged ==
    ASSUME NEW row \in Memberships, NEW s \in Statuses
    PROVE  LET r == [Bump(row) EXCEPT !.status = s]
           IN  r \in Memberships /\ r.status = s /\ r.role = row.role
<1>1. Bump(row) \in Memberships /\ Bump(row).role = row.role
  BY BumpedMembership
<1> QED BY <1>1 DEF Memberships, Statuses

LEMMA RoleChanged ==
    ASSUME NEW row \in Memberships, NEW o \in AllRoles
    PROVE  LET r == [Bump(row) EXCEPT !.role = o]
           IN  r \in Memberships /\ r.status = row.status /\ r.role = o
<1>1. Bump(row) \in Memberships /\ Bump(row).status = row.status
  BY BumpedMembership
<1> QED BY <1>1 DEF Memberships

LEMMA TeamsChanged ==
    ASSUME NEW row \in Memberships, NEW t \in SUBSET Teams
    PROVE  LET r == [Bump(row) EXCEPT !.teams = t]
           IN  r \in Memberships /\ r.status = row.status /\ r.role = row.role
<1>1. Bump(row) \in Memberships /\ Bump(row).status = row.status /\ Bump(row).role = row.role
  BY BumpedMembership
<1> QED BY <1>1 DEF Memberships

LEMMA BumpedInvitation ==
    ASSUME NEW inv \in InvitationRows
    PROVE  /\ Bump(inv) \in InvitationRows /\ Bump(inv).status = inv.status
           /\ Bump(inv).generation = inv.generation
  BY DEF InvitationRows, Bump

LEMMA InvitationClosed ==
    ASSUME NEW inv \in InvitationRows, NEW s \in {"accepted", "revoked", "expired"}
    PROVE  LET r == [Bump(inv) EXCEPT !.status = s]
           IN  r \in InvitationRows /\ r.status = s /\ r.generation = inv.generation
  BY BumpedInvitation DEF InvitationRows

LEMMA InvitationRenewed ==
    ASSUME NEW inv \in InvitationRows, NEW g \in Nat
    PROVE  LET r == [Bump(inv) EXCEPT !.generation = g, !.cooling = TRUE]
           IN  r \in InvitationRows /\ r.status = inv.status /\ r.generation = g
  BY BumpedInvitation DEF InvitationRows

LEMMA InvitationParts ==
    ASSUME NEW inv \in InvitationRows
    PROVE  /\ inv.generation \in Nat /\ inv.role \in {"admin", "member"}
           /\ inv.email \in Users /\ inv.teams \in SUBSET Teams
  BY DEF InvitationRows

LEMMA NewRow ==
    ASSUME NEW u \in Users, NEW r \in {"admin", "member"}, NEW s \in SUBSET Teams,
           NEW g \in Nat
    PROVE  /\ NewInvitation(u, r, s, g) \in InvitationRows
           /\ NewInvitation(u, r, s, g).status = "pending"
           /\ NewInvitation(u, r, s, g).generation = g
  BY DEF NewInvitation, InvitationRows
-----------------------------------------------------------------------------
(* What every answer does to the connection and the ledger. *)

\* A connection that is not idle works on a command.
LEMMA Working ==
    ASSUME LedgerTyped, NEW c \in Connections, phase[c] # "idle"
    PROVE  key[c] \in Keys /\ Cmd(c) \in Commands
<1>1. key[c] \in Keys /\ command[key[c]] # NoCommand
  BY DEF LedgerTyped
<1> QED BY <1>1 DEF LedgerTyped, Cmd

LEMMA AnswerTyped ==
    ASSUME LedgerTyped, NEW c \in Connections, phase[c] # "idle",
           NEW a \in {"ok", "refused", "conflict"}, Answer(c, a),
           receipt' \in [Keys -> Receipts], applied' \in [Keys -> Nat]
    PROVE  LedgerTyped'
<1>1. key[c] \in Keys
  BY Working
<1>2. answer' \in [Keys -> {"none", "ok", "refused", "conflict"}]
  BY DEF Answer, LedgerTyped
<1>3. phase' \in [Connections -> {"idle", "sent", "invitation", "locked"}]
      /\ key' \in [Connections -> Keys \cup {NoKey}]
      /\ context' \in [Connections -> Contexts]
  BY DEF Answer, Close, LedgerTyped, Contexts
<1>4. ASSUME NEW d \in Connections
      PROVE  IF phase'[d] = "idle" THEN key'[d] = NoKey
             ELSE key'[d] \in Keys /\ command'[key'[d]] # NoCommand
  <2>1. CASE d = c
    BY <2>1 DEF Answer, Close, LedgerTyped
  <2>2. CASE d # c
    BY <2>2 DEF Answer, Close, LedgerTyped
  <2> QED BY <2>1, <2>2
<1> QED BY <1>2, <1>3, <1>4 DEF Answer, LedgerTyped

LEMMA CommitTyped ==
    ASSUME LedgerTyped, NEW c \in Connections, phase[c] # "idle", Commit(c)
    PROVE  LedgerTyped'
<1>1. key[c] \in Keys
  BY Working
<1>2. receipt' \in [Keys -> Receipts]
  BY DEF Commit, LedgerTyped, Receipts
<1>3. applied' \in [Keys -> Nat]
  BY DEF Commit, LedgerTyped
<1> QED BY <1>2, <1>3, AnswerTyped DEF Commit

LEMMA AnswerOnlyTyped ==
    ASSUME LedgerTyped, NEW c \in Connections, phase[c] # "idle",
           NEW a \in {"ok", "refused", "conflict"}, AnswerOnly(c, a)
    PROVE  LedgerTyped'
<1>1. receipt' \in [Keys -> Receipts] /\ applied' \in [Keys -> Nat]
  BY DEF AnswerOnly, LedgerTyped
<1> QED BY <1>1, AnswerTyped DEF AnswerOnly

LEMMA DispatchTyped ==
    ASSUME StoreTyped, LedgerTyped, NEW c \in Connections, NEW k \in Keys,
           NEW cmd \in Commands, Dispatch(c, k, cmd),
           command' \in [Keys -> Commands \cup {NoCommand}], command'[k] # NoCommand,
           \A j \in Keys : command[j] # NoCommand => command'[j] # NoCommand,
           UNCHANGED <<receipt, applied, answer>>
    PROVE  LedgerTyped'
<1>1. cmd.actor \in Users
  BY CommandParts
<1>2. ContextOf(cmd) \in Contexts
  <2>1. member[cmd.actor].role \in AllRoles /\ member[cmd.actor].version \in Nat
    BY <1>1 DEF StoreTyped, Memberships
  <2> QED BY <2>1 DEF ContextOf, Contexts
<1>3. phase' \in [Connections -> {"idle", "sent", "invitation", "locked"}]
      /\ key' \in [Connections -> Keys \cup {NoKey}]
      /\ context' \in [Connections -> Contexts]
  BY <1>2 DEF Dispatch, LedgerTyped
<1>4. ASSUME NEW d \in Connections
      PROVE  IF phase'[d] = "idle" THEN key'[d] = NoKey
             ELSE key'[d] \in Keys /\ command'[key'[d]] # NoCommand
  <2>1. CASE d = c
    BY <2>1 DEF Dispatch, LedgerTyped
  <2>2. CASE d # c
    BY <2>2 DEF Dispatch, LedgerTyped
  <2> QED BY <2>1, <2>2
<1> QED BY <1>3, <1>4 DEF LedgerTyped

LEMMA NoCommandIsNone == NoCommand \notin Commands
<1> SUFFICES ASSUME NoCommand \in Commands PROVE FALSE
  OBVIOUS
<1>1. NoCommand.op = "none"
  BY DEF NoCommand
<1> QED BY <1>1, CommandParts

LEMMA SubmitTyped ==
    ASSUME StoreTyped, LedgerTyped, NEW c \in Connections, NEW k \in Keys, Submit(c, k)
    PROVE  StoreTyped' /\ LedgerTyped'
<1>1. PICK a \in Users : \E cmd \in Offers(a) :
         Dispatch(c, k, cmd) /\ command' = [command EXCEPT ![k] = cmd]
  BY DEF Submit
<1>2. PICK cmd \in Offers(a) :
         Dispatch(c, k, cmd) /\ command' = [command EXCEPT ![k] = cmd]
  BY <1>1
<1>3. cmd \in Commands
  BY OffersAreCommands
<1>4. command' \in [Keys -> Commands \cup {NoCommand}] /\ command'[k] # NoCommand
      /\ \A j \in Keys : command[j] # NoCommand => command'[j] # NoCommand
  BY <1>2, <1>3, NoCommandIsNone DEF LedgerTyped
<1>5. UNCHANGED <<receipt, applied, answer>>
  BY DEF Submit
<1>6. LedgerTyped'
  BY <1>2, <1>3, <1>4, <1>5, DispatchTyped
<1> QED BY <1>2, <1>6 DEF Dispatch, store, StoreTyped

LEMMA RepeatTyped ==
    ASSUME StoreTyped, LedgerTyped, NEW c \in Connections, NEW k \in Keys, Repeat(c, k)
    PROVE  StoreTyped' /\ LedgerTyped'
<1>1. command[k] \in Commands /\ Dispatch(c, k, command[k])
  BY DEF Repeat, LedgerTyped
<1>2. UNCHANGED <<command, receipt, applied, answer>>
  BY DEF Repeat, ledger
<1>3. LedgerTyped'
  BY <1>1, <1>2, DispatchTyped DEF Repeat, LedgerTyped
<1> QED BY <1>1, <1>3 DEF Dispatch, store, StoreTyped
-----------------------------------------------------------------------------
(* What the commands do to the rows. *)

LEMMA DueCommand ==
    ASSUME LedgerTyped, NEW c \in Connections, NEW op, Due(c, op)
    PROVE  /\ phase[c] # "idle" /\ key[c] \in Keys
           /\ Cmd(c) \in Commands /\ Cmd(c).op = op
           /\ receipt[key[c]].state = "none"
<1>1. phase[c] # "idle"
  BY DEF Due, HoldsWorkspace
<1> QED BY <1>1, Working DEF Due, Fresh

\* The actions that write memberships, and those that write invitations.
ChangesMembers(c) == \/ ChangeMembership(c) \/ ChangeRole(c) \/ AssignTeams(c)
                     \/ TransferOwner(c) \/ AcceptInvitation(c)
ChangesInvitations(c) == \/ CreateInvitation(c) \/ ResendInvitation(c) \/ RevokeInvitation(c)
                         \/ AcceptInvitation(c) \/ ExpireOnAcceptance(c)

\* The owner hands over to somebody else.
LEMMA TransferParts ==
    ASSUME NEW c \in Connections, TransferOwner(c)
    PROVE  /\ Cmd(c).user # Cmd(c).actor
           /\ Active(Cmd(c).user) /\ Active(Cmd(c).actor)
           /\ member[Cmd(c).actor].role = "owner"
  BY DEF TransferOwner, Due, Admitted, Allowed, MayTransfer, Authority

LEMMA MembersTyped ==
    ASSUME StoreTyped, LedgerTyped, NEW c \in Connections, ChangesMembers(c)
    PROVE  /\ member' \in [Users -> Memberships] /\ Commit(c) /\ phase[c] = "locked"
           /\ UNCHANGED team
<1> DEFINE cmd == Cmd(c)
<1>1. CASE ChangeMembership(c)
  <2>1. cmd.user \in Users /\ cmd.status \in Statuses
    BY <1>1, DueCommand, CommandParts DEF ChangeMembership
  <2>2. [Bump(member[cmd.user]) EXCEPT !.status = cmd.status] \in Memberships
    BY <2>1, StatusChanged DEF StoreTyped
  <2> QED BY <1>1, <2>1, <2>2 DEF ChangeMembership, StoreTyped, Due, HoldsWorkspace
<1>2. CASE ChangeRole(c)
  <2>1. cmd.user \in Users /\ cmd.role \in AllRoles
    BY <1>2, DueCommand, CommandParts DEF ChangeRole, AllRoles
  <2>2. [Bump(member[cmd.user]) EXCEPT !.role = cmd.role] \in Memberships
    BY <2>1, RoleChanged DEF StoreTyped
  <2> QED BY <1>2, <2>1, <2>2 DEF ChangeRole, StoreTyped, Due, HoldsWorkspace
<1>3. CASE AssignTeams(c)
  <2>1. cmd.user \in Users /\ cmd.teams \in SUBSET Teams
    BY <1>3, DueCommand, CommandParts DEF AssignTeams
  <2>2. [Bump(member[cmd.user]) EXCEPT !.teams = cmd.teams] \in Memberships
    BY <2>1, TeamsChanged DEF StoreTyped
  <2> QED BY <1>3, <2>1, <2>2 DEF AssignTeams, StoreTyped, Due, HoldsWorkspace
<1>4. CASE TransferOwner(c)
  <2> DEFINE up == [Bump(member[cmd.user]) EXCEPT !.role = "owner"]
             down == StepsDown(member[cmd.actor])
  <2>1. cmd.user \in Users /\ cmd.actor \in Users
    BY <1>4, DueCommand, CommandParts DEF TransferOwner
  <2>2. up \in Memberships /\ down \in Memberships
    BY <2>1, RoleChanged DEF StoreTyped, StepsDown, AllRoles
  <2>3. member' = [member EXCEPT ![cmd.user] = up, ![cmd.actor] = down]
    BY <1>4, <2>1, TransferParts DEF TransferOwner, StoreTyped
  <2> HIDE DEF up, down
  <2>4. member' \in [Users -> Memberships]
    BY <2>1, <2>2, <2>3 DEF StoreTyped
  <2> QED BY <1>4, <2>4 DEF TransferOwner, Due, HoldsWorkspace
<1>5. CASE AcceptInvitation(c)
  <2>1. cmd.actor \in Users /\ cmd.invitation \in Invitations
    BY <1>5, DueCommand, CommandParts DEF AcceptInvitation
  <2>2. Joined(member[cmd.actor], invitation[cmd.invitation]) \in Memberships
    BY <2>1, JoinedMembership DEF StoreTyped
  <2> QED BY <1>5, <2>1, <2>2 DEF AcceptInvitation, StoreTyped, Due, HoldsWorkspace
<1> QED BY <1>1, <1>2, <1>3, <1>4, <1>5 DEF ChangesMembers

LEMMA ResentTyped ==
    ASSUME StoreTyped, LedgerTyped, NEW c \in Connections, ResendInvitation(c)
    PROVE  /\ invitation' \in [Invitations -> InvitationRows]
           /\ mailed' \subseteq Invitations \X Nat
<1> DEFINE i == Cmd(c).invitation
           inv == invitation[i]
           g == inv.generation + 1
<1>1. i \in Invitations /\ inv \in InvitationRows
  BY DueCommand, CommandParts DEF ResendInvitation, StoreTyped
<1>2. g \in Nat /\ inv.email \in Users /\ inv.teams \in SUBSET Teams
      /\ inv.role \in {"admin", "member"}
  BY <1>1, InvitationParts
<1>3. CASE Renewed(inv)
  <2> DEFINE old == IF inv.status = "pending"
                    THEN [Bump(inv) EXCEPT !.status = "expired"] ELSE inv
             new == NewInvitation(inv.email, inv.role, inv.teams, g)
  <2>1. PICK j \in Invitations : /\ invitation' = [invitation EXCEPT ![i] = old, ![j] = new]
                                 /\ mailed' = mailed \cup Mail(j, g)
    BY <1>3 DEF ResendInvitation
  <2>2. old \in InvitationRows /\ new \in InvitationRows
    BY <1>1, <1>2, InvitationClosed, NewRow
  <2> HIDE DEF old, new, g
  <2> QED BY <1>1, <1>2, <2>1, <2>2 DEF StoreTyped, Mail
<1>4. CASE ~Renewed(inv)
  <2>1. [Bump(inv) EXCEPT !.generation = g, !.cooling = TRUE] \in InvitationRows
    BY <1>1, <1>2, InvitationRenewed
  <2> QED BY <1>1, <1>2, <1>4, <2>1 DEF ResendInvitation, StoreTyped, Mail
<1> QED BY <1>3, <1>4

LEMMA InvitationsTyped ==
    ASSUME StoreTyped, LedgerTyped, NEW c \in Connections, ChangesInvitations(c)
    PROVE  /\ invitation' \in [Invitations -> InvitationRows]
           /\ mailed' \subseteq Invitations \X Nat
           /\ phase[c] = "locked" /\ (Commit(c) \/ AnswerOnly(c, "refused"))
           /\ UNCHANGED team
<1> DEFINE cmd == Cmd(c)
<1>1. CASE CreateInvitation(c)
  <2>1. cmd.email \in Users /\ cmd.role \in {"admin", "member"} /\ cmd.teams \in SUBSET Teams
    BY <1>1, DueCommand, CommandParts DEF CreateInvitation
  <2>2. NewInvitation(cmd.email, cmd.role, cmd.teams, 1) \in InvitationRows
    BY <2>1, NewRow
  <2>3. /\ invitation' \in [Invitations -> InvitationRows]
        /\ mailed' \subseteq Invitations \X Nat
    BY <1>1, <2>2 DEF CreateInvitation, StoreTyped, Mail
  <2> QED BY <1>1, <2>3 DEF CreateInvitation, Due, HoldsWorkspace
<1>2. CASE ResendInvitation(c)
  BY <1>2, ResentTyped DEF ResendInvitation, Due, HoldsWorkspace
<1>3. CASE RevokeInvitation(c)
  <2>1. cmd.invitation \in Invitations
    BY <1>3, DueCommand, CommandParts DEF RevokeInvitation
  <2>2. [Bump(invitation[cmd.invitation]) EXCEPT !.status = "revoked"] \in InvitationRows
    BY <2>1, InvitationClosed DEF StoreTyped
  <2> QED BY <1>3, <2>1, <2>2 DEF RevokeInvitation, StoreTyped, Due, HoldsWorkspace
<1>4. CASE AcceptInvitation(c)
  <2>1. cmd.invitation \in Invitations
    BY <1>4, DueCommand, CommandParts DEF AcceptInvitation
  <2>2. [Bump(invitation[cmd.invitation]) EXCEPT !.status = "accepted"] \in InvitationRows
    BY <2>1, InvitationClosed DEF StoreTyped
  <2> QED BY <1>4, <2>1, <2>2 DEF AcceptInvitation, StoreTyped, Due, HoldsWorkspace
<1>5. CASE ExpireOnAcceptance(c)
  <2>1. cmd.invitation \in Invitations
    BY <1>5, Working, CommandParts DEF ExpireOnAcceptance, HoldsWorkspace
  <2>2. [Bump(invitation[cmd.invitation]) EXCEPT !.status = "expired"] \in InvitationRows
    BY <2>1, InvitationClosed DEF StoreTyped
  <2> QED BY <1>5, <2>1, <2>2 DEF ExpireOnAcceptance, StoreTyped, HoldsWorkspace
<1> QED BY <1>1, <1>2, <1>3, <1>4, <1>5 DEF ChangesInvitations

\* Time leaves the status and the token of an invitation as they are.
LEMMA TimePasses ==
    ASSUME invitation \in [Invitations -> InvitationRows],
           NEW i \in Invitations, Lapse(i) \/ CoolDown(i)
    PROVE  /\ invitation' \in [Invitations -> InvitationRows]
           /\ \A j \in Invitations : /\ invitation'[j].status = invitation[j].status
                                    /\ invitation'[j].generation = invitation[j].generation
           /\ mailed' = mailed /\ UNCHANGED <<ledger, wire>>
<1> DEFINE cool == [invitation[i] EXCEPT !.cooling = FALSE]
           lapsed == [invitation[i] EXCEPT !.lapsed = TRUE]
           both == [lapsed EXCEPT !.cooling = FALSE]
<1>1. cool \in InvitationRows /\ cool.status = invitation[i].status
      /\ cool.generation = invitation[i].generation
  BY DEF InvitationRows
<1>2. lapsed \in InvitationRows /\ lapsed.status = invitation[i].status
      /\ lapsed.generation = invitation[i].generation
  BY DEF InvitationRows
<1>3. both \in InvitationRows /\ both.status = invitation[i].status
      /\ both.generation = invitation[i].generation
  <2> HIDE DEF lapsed
  <2> QED BY <1>2 DEF InvitationRows
<1>4. CASE CoolDown(i)
  <2>1. invitation' = [invitation EXCEPT ![i] = cool]
    BY <1>4 DEF CoolDown
  <2> HIDE DEF cool
  <2> QED BY <1>1, <1>4, <2>1 DEF CoolDown
<1>5. CASE Lapse(i)
  <2>1. invitation' = [[invitation EXCEPT ![i] = lapsed] EXCEPT ![i].cooling = FALSE]
    BY <1>5 DEF Lapse
  <2>2. invitation' = [invitation EXCEPT ![i] = both]
    BY <2>1
  <2> HIDE DEF both
  <2> QED BY <1>3, <1>5, <2>2 DEF Lapse
<1> QED BY <1>4, <1>5

\* Every other step leaves members, or invitations and mails, as they are.
LEMMA WhoChangesMembers ==
    ASSUME [Next]_vars, member' # member
    PROVE  \E c \in Connections : ChangesMembers(c)
<1>1. CASE UNCHANGED vars
  BY <1>1 DEF vars, store
<1>2. ASSUME NEW c \in Connections, NEW k \in Keys,
             Submit(c, k) \/ Repeat(c, k) \/ RecoverTransfer(c, k)
      PROVE  member' = member
  BY <1>2 DEF Submit, Repeat, RecoverTransfer, Dispatch, store
<1>3. ASSUME NEW c \in Connections,
             \/ TakeInvitation(c) \/ TakeWorkspace(c) \/ Replay(c) \/ ReplayAcceptance(c)
             \/ Deny(c) \/ Abandon(c) \/ BreakDeadlock(c)
      PROVE  member' = member
  BY <1>3 DEF TakeInvitation, TakeWorkspace, Replay, ReplayAcceptance, Deny, Abandon,
              BreakDeadlock, store
<1>4. ASSUME NEW c \in Connections, Apply(c)
      PROVE  ChangesMembers(c) \/ member' = member
  BY <1>4 DEF Apply, ChangesMembers, CreateTeam, ChangeTeam, CreateInvitation,
              ResendInvitation, RevokeInvitation, AcceptAgain, ExpireOnAcceptance
<1>5. ASSUME NEW i \in Invitations, Lapse(i) \/ CoolDown(i)
      PROVE  member' = member
  BY <1>5 DEF Lapse, CoolDown
<1>6. ASSUME NEW k \in Keys, ReceiptExpires(k)
      PROVE  member' = member
  BY <1>6 DEF ReceiptExpires, store
<1> QED BY <1>1, <1>2, <1>3, <1>4, <1>5, <1>6 DEF Next, Conclude

LEMMA WhoChangesInvitations ==
    ASSUME [Next]_vars, ~UNCHANGED <<invitation, mailed>>
    PROVE  \/ \E c \in Connections : ChangesInvitations(c)
           \/ \E i \in Invitations : Lapse(i) \/ CoolDown(i)
<1>1. CASE UNCHANGED vars
  BY <1>1 DEF vars, store
<1>2. ASSUME NEW c \in Connections, NEW k \in Keys,
             Submit(c, k) \/ Repeat(c, k) \/ RecoverTransfer(c, k)
      PROVE  UNCHANGED <<invitation, mailed>>
  BY <1>2 DEF Submit, Repeat, RecoverTransfer, Dispatch, store
<1>3. ASSUME NEW c \in Connections,
             \/ TakeInvitation(c) \/ TakeWorkspace(c) \/ Replay(c) \/ ReplayAcceptance(c)
             \/ Deny(c) \/ Abandon(c) \/ BreakDeadlock(c)
      PROVE  UNCHANGED <<invitation, mailed>>
  BY <1>3 DEF TakeInvitation, TakeWorkspace, Replay, ReplayAcceptance, Deny, Abandon,
              BreakDeadlock, store
<1>4. ASSUME NEW c \in Connections, Apply(c)
      PROVE  ChangesInvitations(c) \/ UNCHANGED <<invitation, mailed>>
  BY <1>4 DEF Apply, ChangesInvitations, CreateTeam, ChangeTeam, ChangeMembership,
              ChangeRole, AssignTeams, TransferOwner, AcceptAgain
<1>5. ASSUME NEW k \in Keys, ReceiptExpires(k)
      PROVE  UNCHANGED <<invitation, mailed>>
  BY <1>5 DEF ReceiptExpires, store
<1> QED BY <1>1, <1>2, <1>3, <1>4, <1>5 DEF Next, Conclude

LEMMA TeamsTyped ==
    ASSUME StoreTyped, LedgerTyped, NEW c \in Connections, CreateTeam(c) \/ ChangeTeam(c)
    PROVE  team' \in [Teams -> TeamRows]
<1> DEFINE cmd == Cmd(c)
<1>1. CASE CreateTeam(c)
  <2>1. cmd.team \in Teams
    BY <1>1, DueCommand, CommandParts DEF CreateTeam
  <2> QED BY <1>1, <2>1 DEF CreateTeam, StoreTyped, TeamRows
<1>2. CASE ChangeTeam(c)
  <2>1. cmd.team \in Teams /\ cmd.status \in {"active", "archived"}
    BY <1>2, DueCommand, CommandParts DEF ChangeTeam
  <2>2. [Bump(team[cmd.team]) EXCEPT !.status = cmd.status] \in TeamRows
    <3>1. Bump(team[cmd.team]) \in TeamRows
      BY <2>1 DEF StoreTyped, TeamRows, Bump
    <3> QED BY <2>1, <3>1 DEF TeamRows
  <2> QED BY <1>2, <2>1, <2>2 DEF ChangeTeam, StoreTyped
<1> QED BY <1>1, <1>2

\* A command is answered as done only when it is done now, was before by its
\* receipt, or is an acceptance.
Answers(c) ==
    \/ Commit(c) /\ Fresh(key[c])
    \/ \E a \in {"ok", "refused", "conflict"} :
         /\ AnswerOnly(c, a)
         /\ a = "ok" => Receipted(key[c]) \/ Cmd(c).op = "invite_accept"

LEMMA WhoAnswers ==
    ASSUME NEW c \in Connections, Conclude(c) \/ BreakDeadlock(c)
    PROVE  phase[c] # "idle" /\ Answers(c)
<1>1. CASE \/ ChangeMembership(c) \/ ChangeRole(c) \/ AssignTeams(c) \/ TransferOwner(c)
           \/ CreateTeam(c) \/ ChangeTeam(c) \/ CreateInvitation(c)
           \/ ResendInvitation(c) \/ RevokeInvitation(c) \/ AcceptInvitation(c)
  <2>1. Commit(c) /\ \E op : Due(c, op)
    BY <1>1 DEF ChangeMembership, ChangeRole, AssignTeams, TransferOwner, CreateTeam,
                ChangeTeam, CreateInvitation, ResendInvitation, RevokeInvitation,
                AcceptInvitation
  <2> QED BY <2>1 DEF Due, HoldsWorkspace, Answers
<1>2. CASE AcceptAgain(c) \/ ExpireOnAcceptance(c)
  BY <1>2 DEF AcceptAgain, ExpireOnAcceptance, HoldsWorkspace, Answers
<1>3. CASE Replay(c) \/ ReplayAcceptance(c) \/ Deny(c)
  BY <1>3 DEF Replay, ReplayAcceptance, Deny, HoldsWorkspace, Answers
<1>4. CASE BreakDeadlock(c)
  BY <1>4 DEF BreakDeadlock, WaitsFor, HoldsWorkspace, Answers
<1> QED BY <1>1, <1>2, <1>3, <1>4 DEF Conclude, Apply

LEMMA AnswersTyped ==
    ASSUME LedgerTyped, NEW c \in Connections, phase[c] # "idle", Answers(c)
    PROVE  LedgerTyped'
<1>1. CASE Commit(c)
  BY <1>1, CommitTyped
<1>2. ASSUME NEW a \in {"ok", "refused", "conflict"}, AnswerOnly(c, a)
      PROVE  LedgerTyped'
  BY <1>2, AnswerOnlyTyped
<1> QED BY <1>1, <1>2 DEF Answers

LEMMA StepLedgerTyped ==
    ASSUME StoreTyped, LedgerTyped, [Next]_vars
    PROVE  LedgerTyped'
<1>1. CASE UNCHANGED vars
  BY <1>1 DEF vars, ledger, wire, LedgerTyped, Cmd
<1>2. ASSUME NEW c \in Connections, NEW k \in Keys, Submit(c, k) \/ Repeat(c, k)
      PROVE  LedgerTyped'
  BY <1>2, SubmitTyped, RepeatTyped
<1>3. ASSUME NEW c \in Connections, NEW k \in Keys, RecoverTransfer(c, k)
      PROVE  LedgerTyped'
  BY <1>3 DEF RecoverTransfer, wire, LedgerTyped
<1>4. ASSUME NEW c \in Connections, TakeInvitation(c)
      PROVE  LedgerTyped'
  <2>1. CASE AnswerOnly(c, "refused")
    BY <1>4, <2>1, AnswerOnlyTyped DEF TakeInvitation
  <2>2. CASE phase' = [phase EXCEPT ![c] = "invitation"] /\ UNCHANGED <<ledger, key, context>>
    BY <1>4, <2>2 DEF TakeInvitation, ledger, LedgerTyped
  <2> QED BY <1>4, <2>1, <2>2 DEF TakeInvitation
<1>5. ASSUME NEW c \in Connections, TakeWorkspace(c)
      PROVE  LedgerTyped'
  BY <1>5 DEF TakeWorkspace, ledger, LedgerTyped
<1>6. ASSUME NEW c \in Connections, Conclude(c) \/ BreakDeadlock(c)
      PROVE  LedgerTyped'
  BY <1>6, WhoAnswers, AnswersTyped
<1>7. ASSUME NEW c \in Connections, Abandon(c)
      PROVE  LedgerTyped'
  <2>1. phase' \in [Connections -> {"idle", "sent", "invitation", "locked"}]
        /\ key' \in [Connections -> Keys \cup {NoKey}]
        /\ context' \in [Connections -> Contexts]
    BY <1>7 DEF Abandon, Close, LedgerTyped, Contexts
  <2>2. ASSUME NEW d \in Connections
        PROVE  IF phase'[d] = "idle" THEN key'[d] = NoKey
               ELSE key'[d] \in Keys /\ command[key'[d]] # NoCommand
    BY <1>7 DEF Abandon, Close, LedgerTyped
  <2> QED BY <1>7, <2>1, <2>2 DEF Abandon, ledger, LedgerTyped
<1>8. ASSUME NEW i \in Invitations, Lapse(i) \/ CoolDown(i)
      PROVE  LedgerTyped'
  BY <1>8 DEF Lapse, CoolDown, ledger, wire, LedgerTyped
<1>9. ASSUME NEW k \in Keys, ReceiptExpires(k)
      PROVE  LedgerTyped'
  <2>1. receipt' \in [Keys -> Receipts]
    BY <1>9 DEF ReceiptExpires, LedgerTyped, Receipts
  <2> QED BY <1>9, <2>1 DEF ReceiptExpires, wire, LedgerTyped
<1> QED BY <1>1, <1>2, <1>3, <1>4, <1>5, <1>6, <1>7, <1>8, <1>9 DEF Next

LEMMA StepStoreTyped ==
    ASSUME StoreTyped, LedgerTyped, [Next]_vars
    PROVE  StoreTyped'
<1>1. member' \in [Users -> Memberships]
  BY WhoChangesMembers, MembersTyped DEF StoreTyped
<1>2. invitation' \in [Invitations -> InvitationRows] /\ mailed' \subseteq Invitations \X Nat
  <2>1. ASSUME NEW i \in Invitations, Lapse(i) \/ CoolDown(i)
        PROVE  invitation' \in [Invitations -> InvitationRows] /\ mailed' = mailed
    BY <2>1, TimePasses DEF StoreTyped
  <2> QED BY <2>1, WhoChangesInvitations, InvitationsTyped DEF StoreTyped
<1>3. team' \in [Teams -> TeamRows]
  <2>1. CASE UNCHANGED vars
    BY <2>1 DEF vars, store, StoreTyped
  <2>2. ASSUME NEW c \in Connections, NEW k \in Keys,
               Submit(c, k) \/ Repeat(c, k) \/ RecoverTransfer(c, k)
        PROVE  team' = team
    BY <2>2 DEF Submit, Repeat, RecoverTransfer, Dispatch, store
  <2>3. ASSUME NEW c \in Connections,
               \/ TakeInvitation(c) \/ TakeWorkspace(c) \/ Replay(c) \/ ReplayAcceptance(c)
               \/ Deny(c) \/ Abandon(c) \/ BreakDeadlock(c)
        PROVE  team' = team
    BY <2>3 DEF TakeInvitation, TakeWorkspace, Replay, ReplayAcceptance, Deny, Abandon,
                BreakDeadlock, store
  <2>4. ASSUME NEW c \in Connections, Apply(c)
        PROVE  CreateTeam(c) \/ ChangeTeam(c) \/ team' = team
    BY <2>4 DEF Apply, CreateInvitation, ResendInvitation, RevokeInvitation, AcceptAgain,
                ChangeMembership, ChangeRole, AssignTeams, TransferOwner,
                AcceptInvitation, ExpireOnAcceptance
  <2>5. ASSUME NEW i \in Invitations, Lapse(i) \/ CoolDown(i)
        PROVE  team' = team
    BY <2>5 DEF Lapse, CoolDown
  <2>6. ASSUME NEW k \in Keys, ReceiptExpires(k)
        PROVE  team' = team
    BY <2>6 DEF ReceiptExpires, store
  <2> QED BY <2>1, <2>2, <2>3, <2>4, <2>5, <2>6, TeamsTyped DEF Next, Conclude, StoreTyped
<1> QED BY <1>1, <1>2, <1>3 DEF StoreTyped
-----------------------------------------------------------------------------
(* Who may change which membership, and how. *)

SameButFor(us) == \A v \in Users \ us : member'[v] = member[v]

LEMMA StatusEffect ==
    ASSUME StoreTyped, LedgerTyped, NEW c \in Connections, ChangeMembership(c)
    PROVE  LET cmd == Cmd(c) IN
           /\ cmd.user \in Users /\ cmd.op = "member_change" /\ Active(cmd.actor)
           /\ Manages(member[cmd.actor].role, member[cmd.user].role)
           /\ <<member[cmd.user].status, cmd.status>> \in Transitions
           /\ cmd.status = "active" => SeatFree
           /\ SameButFor({cmd.user})
           /\ member'[cmd.user].role = member[cmd.user].role
           /\ member'[cmd.user].status = cmd.status
<1> DEFINE cmd == Cmd(c)
           row == [Bump(member[cmd.user]) EXCEPT !.status = cmd.status]
<1>1. cmd.user \in Users /\ cmd.status \in Statuses /\ cmd.op = "member_change"
  BY DueCommand, CommandParts DEF ChangeMembership
<1>2. Admitted(c) /\ MayChangeStatus(c, cmd)
  BY DEF ChangeMembership, Due, Allowed
<1>3. member' = [member EXCEPT ![cmd.user] = row]
  BY DEF ChangeMembership
<1>4. row.role = member[cmd.user].role /\ row.status = cmd.status
  <2>1. member[cmd.user] \in Memberships
    BY <1>1 DEF StoreTyped
  <2> QED BY <1>1, <2>1, StatusChanged
<1> HIDE DEF row
<1> QED BY <1>1, <1>2, <1>3, <1>4 DEF Admitted, MayChangeStatus, Authority, StoreTyped,
                                     SameButFor

LEMMA RoleEffect ==
    ASSUME StoreTyped, LedgerTyped, NEW c \in Connections, ChangeRole(c)
    PROVE  LET cmd == Cmd(c) IN
           /\ cmd.user \in Users /\ cmd.op = "role_change" /\ Active(cmd.actor)
           /\ member[cmd.actor].role = "owner" /\ member[cmd.user].role # "owner"
           /\ member[cmd.user].status = "active"
           /\ SameButFor({cmd.user})
           /\ member'[cmd.user].role # "owner"
           /\ member'[cmd.user].status = "active"
<1> DEFINE cmd == Cmd(c)
           row == [Bump(member[cmd.user]) EXCEPT !.role = cmd.role]
<1>1. cmd.user \in Users /\ cmd.role \in {"admin", "member"} /\ cmd.op = "role_change"
  BY DueCommand, CommandParts DEF ChangeRole
<1>2. Admitted(c) /\ MayChangeRole(c, cmd)
  BY DEF ChangeRole, Due, Allowed
<1>3. member' = [member EXCEPT ![cmd.user] = row]
  BY DEF ChangeRole
<1>4. row.role = cmd.role /\ row.status = member[cmd.user].status
  <2>1. member[cmd.user] \in Memberships /\ cmd.role \in AllRoles
    BY <1>1 DEF StoreTyped, AllRoles
  <2> QED BY <2>1, RoleChanged
<1> HIDE DEF row
<1> QED BY <1>1, <1>2, <1>3, <1>4 DEF Admitted, MayChangeRole, Authority, StoreTyped,
                                     SameButFor

LEMMA TeamsEffect ==
    ASSUME StoreTyped, LedgerTyped, NEW c \in Connections, AssignTeams(c)
    PROVE  LET cmd == Cmd(c) IN
           /\ cmd.user \in Users /\ cmd.op = "teams_assign" /\ Active(cmd.actor)
           /\ \/ member[cmd.actor].role = "owner"
              \/ member[cmd.actor].role = "admin" /\ member[cmd.user].role = "member"
           /\ member[cmd.user].status = "active"
           /\ SameButFor({cmd.user})
           /\ member'[cmd.user].role = member[cmd.user].role
           /\ member'[cmd.user].status = "active"
<1> DEFINE cmd == Cmd(c)
           row == [Bump(member[cmd.user]) EXCEPT !.teams = cmd.teams]
<1>1. cmd.user \in Users /\ cmd.teams \in SUBSET Teams /\ cmd.op = "teams_assign"
  BY DueCommand, CommandParts DEF AssignTeams
<1>2. Admitted(c) /\ MayAssignTeams(c, cmd)
  BY DEF AssignTeams, Due, Allowed
<1>3. member' = [member EXCEPT ![cmd.user] = row]
  BY DEF AssignTeams
<1>4. row.role = member[cmd.user].role /\ row.status = member[cmd.user].status
  BY <1>1, TeamsChanged DEF StoreTyped
<1> HIDE DEF row
<1> QED BY <1>1, <1>2, <1>3, <1>4 DEF Admitted, MayAssignTeams, Authority, StoreTyped,
                                     SameButFor

LEMMA TransferEffect ==
    ASSUME StoreTyped, LedgerTyped, NEW c \in Connections, TransferOwner(c)
    PROVE  LET cmd == Cmd(c) IN
           /\ cmd.user \in Users /\ cmd.actor \in Users /\ cmd.op = "transfer"
           /\ cmd.user # cmd.actor
           /\ Active(cmd.user) /\ Active(cmd.actor)
           /\ member[cmd.actor].role = "owner"
           /\ SameButFor({cmd.user, cmd.actor})
           /\ member'[cmd.user].role = "owner" /\ member'[cmd.user].status = "active"
           /\ member'[cmd.actor].role = "admin" /\ member'[cmd.actor].status = "active"
<1> DEFINE cmd == Cmd(c)
           up == [Bump(member[cmd.user]) EXCEPT !.role = "owner"]
           down == StepsDown(member[cmd.actor])
<1>1. cmd.user \in Users /\ cmd.actor \in Users /\ cmd.op = "transfer"
  BY DueCommand, CommandParts DEF TransferOwner
<1>2. cmd.user # cmd.actor /\ Active(cmd.user) /\ Active(cmd.actor)
      /\ member[cmd.actor].role = "owner"
  BY TransferParts
<1>3. member' = [member EXCEPT ![cmd.user] = up, ![cmd.actor] = down]
  BY <1>1, <1>2 DEF TransferOwner, StoreTyped
<1>4. up.role = "owner" /\ up.status = "active" /\ down.role = "admin" /\ down.status = "active"
  BY <1>1, <1>2, RoleChanged DEF StoreTyped, StepsDown, AllRoles, Active
<1> HIDE DEF up, down
<1> QED BY <1>1, <1>2, <1>3, <1>4 DEF StoreTyped, SameButFor

LEMMA AcceptEffect ==
    ASSUME StoreTyped, LedgerTyped, NEW c \in Connections, AcceptInvitation(c)
    PROVE  LET cmd == Cmd(c)
               u == cmd.actor
               inv == invitation[cmd.invitation] IN
           /\ u \in Users /\ cmd.invitation \in Invitations /\ cmd.op = "invite_accept"
           /\ inv.status = "pending" /\ inv.email = u /\ ~inv.lapsed
           /\ SameButFor({u})
           /\ Active(u) => member'[u] = member[u]
           /\ ~Active(u) => /\ SeatFree
                            /\ member'[u].status = "active"
                            /\ member'[u].role = inv.role /\ inv.role # "owner"
                            /\ member'[u].teams = inv.teams
           /\ invitation'[cmd.invitation].status = "accepted"
<1> DEFINE cmd == Cmd(c)
           u == cmd.actor
           inv == invitation[cmd.invitation]
           row == IF Active(u) THEN member[u] ELSE Joined(member[u], inv)
           done == [Bump(inv) EXCEPT !.status = "accepted"]
<1>1. u \in Users /\ cmd.invitation \in Invitations /\ cmd.op = "invite_accept"
  BY DueCommand, CommandParts DEF AcceptInvitation
<1>2. MayAccept(cmd)
  BY DEF AcceptInvitation, Due, Allowed
<1>3. member' = [member EXCEPT ![u] = row]
      /\ invitation' = [invitation EXCEPT ![cmd.invitation] = done]
  BY DEF AcceptInvitation
<1>4. done.status = "accepted"
  BY <1>1, InvitationClosed DEF StoreTyped
<1>5. ~Active(u) => /\ row.status = "active" /\ row.role = inv.role /\ inv.role # "owner"
                    /\ row.teams = inv.teams
  <2>1. member[u] \in Memberships /\ inv \in InvitationRows
    BY <1>1 DEF StoreTyped
  <2>2. /\ Joined(member[u], inv).status = "active" /\ Joined(member[u], inv).role = inv.role
        /\ Joined(member[u], inv).teams = inv.teams /\ inv.role \in {"admin", "member"}
    BY <2>1, JoinedMembership
  <2> QED BY <2>2
<1>6. Active(u) => row = member[u]
  OBVIOUS
<1> HIDE DEF row, done
<1> QED BY <1>1, <1>2, <1>3, <1>4, <1>5, <1>6 DEF MayAccept, StoreTyped, SameButFor
-----------------------------------------------------------------------------
(* The owner and the seats. *)

LEMMA OwnerStep ==
    ASSUME StoreTyped, LedgerTyped, OneActiveOwner, NEW c \in Connections, ChangesMembers(c)
    PROVE  OneActiveOwner'
<1> DEFINE cmd == Cmd(c)
<1>1. PICK o \in Users : Active(o) /\ \A v \in Users : member[v].role = "owner" <=> v = o
  BY DEF OneActiveOwner
<1>2. CASE ChangeMembership(c)
  <2>1. cmd.user # o
    BY <1>1, <1>2, StatusEffect DEF Manages
  <2>2. member'[o] = member[o]
    BY <1>1, <1>2, <2>1, StatusEffect DEF SameButFor
  <2>3. \A v \in Users : member'[v].role = member[v].role
    BY <1>2, StatusEffect DEF SameButFor
  <2> QED BY <1>1, <2>2, <2>3 DEF OneActiveOwner, Active
<1>3. CASE ChangeRole(c)
  BY <1>1, <1>3, RoleEffect DEF OneActiveOwner, SameButFor, Active
<1>4. CASE AssignTeams(c)
  BY <1>1, <1>4, TeamsEffect DEF OneActiveOwner, SameButFor, Active
<1>5. CASE TransferOwner(c)
  <2>1. cmd.actor = o
    BY <1>1, <1>5, TransferEffect
  <2>2. \A v \in Users : member'[v].role = "owner" <=> v = cmd.user
    BY <1>1, <1>5, <2>1, TransferEffect DEF SameButFor
  <2> QED BY <1>5, <2>2, TransferEffect DEF OneActiveOwner, Active
<1>6. CASE AcceptInvitation(c)
  BY <1>1, <1>6, AcceptEffect DEF OneActiveOwner, SameButFor, Active
<1> QED BY <1>2, <1>3, <1>4, <1>5, <1>6 DEF ChangesMembers

ActiveUsers == {u \in Users : Active(u)}

LEMMA SeatsStep ==
    ASSUME StoreTyped, LedgerTyped, SeatLimitRespected, NEW c \in Connections,
           ChangesMembers(c)
    PROVE  SeatLimitRespected'
<1> DEFINE cmd == Cmd(c)
<1>1. /\ IsFiniteSet(ActiveUsers) /\ Cardinality(ActiveUsers) \in Nat
      /\ Cardinality(ActiveUsers) <= Seats /\ Seats \in Nat
  <2>1. ActiveUsers \in SUBSET Users
    BY DEF ActiveUsers
  <2>2. IsFiniteSet(ActiveUsers)
    BY <2>1, StartAssumption, FS_Subset
  <2> QED BY <2>2, FS_CardinalityType, StartAssumption DEF SeatLimitRespected, ActiveUsers
<1>2. ASSUME ActiveUsers' \subseteq ActiveUsers
      PROVE  SeatLimitRespected'
  <2>1. Cardinality(ActiveUsers') <= Cardinality(ActiveUsers) /\ IsFiniteSet(ActiveUsers')
    BY <1>1, <1>2, FS_Subset
  <2>2. Cardinality(ActiveUsers') \in Nat
    BY <2>1, FS_CardinalityType
  <2>3. Cardinality(ActiveUsers') <= Seats
    BY <1>1, <2>1, <2>2
  <2> QED BY <2>3 DEF SeatLimitRespected, ActiveUsers
<1>3. ASSUME NEW u \in Users, SeatFree, ActiveUsers' \subseteq ActiveUsers \cup {u}
      PROVE  SeatLimitRespected'
  <2> DEFINE more == ActiveUsers \cup {u}
  <2>1. IsFiniteSet(more) /\ Cardinality(more) <= Cardinality(ActiveUsers) + 1
    <3>1. /\ IsFiniteSet(more)
          /\ Cardinality(more) = IF u \in ActiveUsers THEN Cardinality(ActiveUsers)
                                ELSE Cardinality(ActiveUsers) + 1
      BY <1>1, FS_AddElement
    <3> HIDE DEF more
    <3> QED BY <1>1, <3>1
  <2>2. Cardinality(ActiveUsers) < Seats
    BY <1>3 DEF SeatFree, ActiveUsers
  <2>3. Cardinality(more) \in Nat
    BY <2>1, FS_CardinalityType
  <2>4. IsFiniteSet(ActiveUsers') /\ Cardinality(ActiveUsers') <= Cardinality(more)
    BY <1>3, <2>1, FS_Subset
  <2>5. Cardinality(ActiveUsers') \in Nat
    BY <2>4, FS_CardinalityType
  <2>6. Cardinality(ActiveUsers') <= Seats
    BY <1>1, <2>1, <2>2, <2>3, <2>4, <2>5
  <2> QED BY <2>6 DEF SeatLimitRespected, ActiveUsers
<1>4. CASE ChangeMembership(c)
  <2>1. CASE cmd.status = "active"
    <3>1. ActiveUsers' \subseteq ActiveUsers \cup {cmd.user}
      BY <1>4, StatusEffect DEF ActiveUsers, Active, SameButFor
    <3> QED BY <1>3, <1>4, <2>1, <3>1, StatusEffect
  <2>2. CASE cmd.status # "active"
    <3>1. ActiveUsers' \subseteq ActiveUsers
      BY <1>4, <2>2, StatusEffect DEF ActiveUsers, Active, SameButFor
    <3> QED BY <1>2, <3>1
  <2> QED BY <2>1, <2>2
<1>5. CASE ChangeRole(c)
  BY <1>2, <1>5, RoleEffect DEF ActiveUsers, Active, SameButFor
<1>6. CASE AssignTeams(c)
  BY <1>2, <1>6, TeamsEffect DEF ActiveUsers, Active, SameButFor
<1>7. CASE TransferOwner(c)
  BY <1>2, <1>7, TransferEffect DEF ActiveUsers, Active, SameButFor
<1>8. CASE AcceptInvitation(c)
  <2>1. CASE Active(cmd.actor)
    <3>1. ActiveUsers' \subseteq ActiveUsers
      BY <1>8, <2>1, AcceptEffect DEF ActiveUsers, Active, SameButFor
    <3> QED BY <1>2, <3>1
  <2>2. CASE ~Active(cmd.actor)
    <3>1. ActiveUsers' \subseteq ActiveUsers \cup {cmd.actor}
      BY <1>8, AcceptEffect DEF ActiveUsers, Active, SameButFor
    <3> QED BY <1>3, <1>8, <2>2, <3>1, AcceptEffect
  <2> QED BY <2>1, <2>2
<1> QED BY <1>4, <1>5, <1>6, <1>7, <1>8 DEF ChangesMembers
-----------------------------------------------------------------------------
(* Receipts, tokens and the rows that are held. *)

LEMMA OnceStep ==
    ASSUME LedgerTyped, ReceiptsTell, AppliedOnce, [Next]_vars
    PROVE  ReceiptsTell' /\ AppliedOnce'
<1> USE DEF ReceiptsTell, AppliedOnce
<1>1. CASE UNCHANGED ledger
  BY <1>1 DEF ledger
<1>2. ASSUME NEW c \in Connections, NEW k \in Keys, Submit(c, k)
      PROVE  ReceiptsTell' /\ AppliedOnce'
  <2>1. \A j \in Keys : command'[j] # command[j] => command[j] = NoCommand
    BY <1>2 DEF Submit, LedgerTyped
  <2>2. NoCommand.op # "invite_accept"
    BY DEF NoCommand
  <2>3. UNCHANGED <<receipt, applied, answer>>
    BY <1>2 DEF Submit
  <2>4. ReceiptsTell'
    BY <2>3
  <2>5. ASSUME NEW j \in Keys
        PROVE  /\ applied'[j] <= 1
               /\ answer'[j] = "ok" /\ command'[j].op # "invite_accept" => applied'[j] = 1
    <3>1. CASE command'[j] = command[j]
      BY <2>3, <3>1
    <3>2. CASE command[j] = NoCommand
      BY <2>2, <2>3, <3>2
    <3> QED BY <2>1, <3>1, <3>2
  <2> QED BY <2>4, <2>5
<1>3. ASSUME NEW c \in Connections, NEW k \in Keys, RecoverTransfer(c, k)
      PROVE  ReceiptsTell' /\ AppliedOnce'
  <2>1. applied[k] = 1 /\ answer' = [answer EXCEPT ![k] = "ok"]
        /\ UNCHANGED <<command, receipt, applied>>
    <3>1. applied[k] \in Nat /\ applied[k] <= 1 /\ applied[k] # 0
      BY <1>3 DEF RecoverTransfer, Receipted, LedgerTyped
    <3> QED BY <1>3, <3>1 DEF RecoverTransfer
  <2> QED BY <2>1 DEF LedgerTyped
<1>4. ASSUME NEW c \in Connections, phase[c] # "idle", Answers(c)
      PROVE  ReceiptsTell' /\ AppliedOnce'
  <2>1. key[c] \in Keys /\ command' = command
    BY <1>4, Working DEF Answers, Commit, AnswerOnly, Answer
  <2>2. CASE Commit(c) /\ Fresh(key[c])
    <3> DEFINE k == key[c]
    <3>1. applied[k] = 0
      BY <2>1, <2>2 DEF Fresh
    <3>2. applied' = [applied EXCEPT ![k] = applied[k] + 1]
          /\ receipt' = [receipt EXCEPT ![k] = [state |-> "live", context |-> context[c]]]
          /\ answer' = [answer EXCEPT ![k] = "ok"]
      BY <2>2 DEF Commit, Answer
    <3> QED BY <2>1, <3>1, <3>2 DEF LedgerTyped
  <2>3. ASSUME NEW a \in {"ok", "refused", "conflict"}, AnswerOnly(c, a),
               a = "ok" => Receipted(key[c]) \/ Cmd(c).op = "invite_accept"
        PROVE  ReceiptsTell' /\ AppliedOnce'
    <3>1. a = "ok" => applied[key[c]] = 1 \/ command[key[c]].op = "invite_accept"
      <4>1. applied[key[c]] \in Nat /\ applied[key[c]] <= 1
        BY <2>1 DEF LedgerTyped
      <4>2. Receipted(key[c]) => applied[key[c]] # 0
        BY <2>1 DEF Receipted
      <4> QED BY <2>3, <4>1, <4>2 DEF Cmd
    <3>2. answer' = [answer EXCEPT ![key[c]] = a] /\ UNCHANGED <<receipt, applied>>
      BY <2>3 DEF AnswerOnly, Answer
    <3> QED BY <2>1, <3>1, <3>2 DEF LedgerTyped
  <2> QED BY <1>4, <2>2, <2>3 DEF Answers
<1>5. ASSUME NEW k \in Keys, ReceiptExpires(k)
      PROVE  ReceiptsTell' /\ AppliedOnce'
  <2>1. receipt[k].state = "live" /\ receipt[k] \in Receipts
    BY <1>5 DEF ReceiptExpires, Receipted, LedgerTyped
  <2>2. [receipt[k] EXCEPT !.state = "expired"].state = "expired"
    BY <2>1 DEF Receipts
  <2>3. receipt' = [receipt EXCEPT ![k] = [receipt[k] EXCEPT !.state = "expired"]]
        /\ UNCHANGED <<command, applied, answer>>
    BY <1>5 DEF ReceiptExpires
  <2> QED BY <2>1, <2>2, <2>3 DEF LedgerTyped
<1>6. CASE UNCHANGED vars
  BY <1>1, <1>6 DEF vars
<1>7. ASSUME NEW c \in Connections, NEW k \in Keys, Repeat(c, k)
      PROVE  UNCHANGED ledger
  BY <1>7 DEF Repeat
<1>8. ASSUME NEW c \in Connections, TakeInvitation(c)
      PROVE  UNCHANGED ledger \/ (phase[c] # "idle" /\ Answers(c))
  BY <1>8 DEF TakeInvitation, Answers
<1>9. ASSUME NEW c \in Connections, TakeWorkspace(c) \/ Abandon(c)
      PROVE  UNCHANGED ledger
  BY <1>9 DEF TakeWorkspace, Abandon
<1>10. ASSUME NEW i \in Invitations, Lapse(i) \/ CoolDown(i)
       PROVE  UNCHANGED ledger
  BY <1>10 DEF Lapse, CoolDown
<1> QED
  BY <1>1, <1>2, <1>3, <1>4, <1>5, <1>6, <1>7, <1>8, <1>9, <1>10, WhoAnswers DEF Next

\* A row keeps its token unless nobody holds it, and the new token is mailed.
Mails ==
    /\ mailed \subseteq mailed'
    /\ \A i \in Invitations :
         /\ invitation[i].status # "absent" => invitation'[i].status # "absent"
         /\ invitation'[i].status # "absent" =>
              \/ /\ invitation[i].status # "absent"
                 /\ invitation'[i].generation = invitation[i].generation
              \/ /\ <<i, invitation'[i].generation>> \in mailed'
                 /\ \/ invitation[i].status = "absent"
                    \/ \A d \in Connections : ~HoldsInvitation(d, i)

LEMMA ClosingMails ==
    ASSUME StoreTyped, NEW i \in Invitations, NEW s \in {"accepted", "revoked", "expired"},
           invitation[i].status # "absent",
           invitation' = [invitation EXCEPT ![i] = [Bump(@) EXCEPT !.status = s]],
           mailed' = mailed
    PROVE  Mails
<1> DEFINE row == [Bump(invitation[i]) EXCEPT !.status = s]
<1>1. row.status = s /\ row.generation = invitation[i].generation
  <2>1. invitation[i] \in InvitationRows
    BY DEF StoreTyped
  <2> QED BY <2>1, InvitationClosed
<1>2. invitation' = [invitation EXCEPT ![i] = row]
  OBVIOUS
<1> HIDE DEF row
<1> QED BY <1>1, <1>2 DEF Mails, StoreTyped

LEMMA CreateMails ==
    ASSUME StoreTyped, LedgerTyped, NEW c \in Connections, CreateInvitation(c)
    PROVE  Mails
<1> DEFINE cmd == Cmd(c)
           new == NewInvitation(cmd.email, cmd.role, cmd.teams, 1)
<1>1. CASE UNCHANGED <<invitation, mailed>>
  BY <1>1 DEF Mails
<1>2. ASSUME NEW i \in Invitations, invitation[i].status = "absent",
             invitation' = [invitation EXCEPT ![i] = new], mailed' = mailed \cup Mail(i, 1)
      PROVE  Mails
  <2>1. new.generation = 1 /\ new.status = "pending"
    BY DEF NewInvitation
  <2> HIDE DEF new
  <2> QED BY <1>2, <2>1 DEF Mails, Mail, StoreTyped
<1> QED BY <1>1, <1>2 DEF CreateInvitation

LEMMA ResendMails ==
    ASSUME StoreTyped, LedgerTyped, NEW c \in Connections, ResendInvitation(c)
    PROVE  Mails
<1> DEFINE i == Cmd(c).invitation
           inv == invitation[i]
           g == inv.generation + 1
<1>1. i \in Invitations /\ inv \in InvitationRows /\ Cmd(c).op = "invite_resend"
  BY DueCommand, CommandParts DEF ResendInvitation, StoreTyped
<1>2. inv.status \in {"pending", "expired"}
  BY <1>1 DEF ResendInvitation, Due, Allowed, MayResend
<1>3. \A d \in Connections : ~HoldsInvitation(d, i)
  <2>1. HoldsWorkspace(c) /\ Admitted(c) /\ ~Receipted(key[c])
    BY <1>1 DEF ResendInvitation, Due, Fresh, Receipted
  <2>2. Wanted(c) = {i}
    BY <1>1 DEF Wanted
  <2>3. \A d \in Connections : ~WaitsFor(c, d)
    BY DEF ResendInvitation, Due
  <2> QED BY <2>1, <2>2, <2>3 DEF WaitsFor
<1>4. CASE Renewed(inv)
  <2> DEFINE closed == [Bump(inv) EXCEPT !.status = "expired"]
             old == IF inv.status = "pending" THEN closed ELSE inv
             new == NewInvitation(inv.email, inv.role, inv.teams, g)
  <2>1. PICK j \in Invitations : /\ invitation[j].status = "absent"
                                 /\ invitation' = [invitation EXCEPT ![i] = old, ![j] = new]
                                 /\ mailed' = mailed \cup Mail(j, g)
    BY <1>4 DEF ResendInvitation
  <2>2. closed.status = "expired" /\ closed.generation = inv.generation
    BY <1>1, InvitationClosed
  <2>3. old.status # "absent" /\ old.generation = inv.generation
    BY <1>2, <2>2
  <2>4. new.status = "pending" /\ new.generation = g
    BY DEF NewInvitation
  <2> HIDE DEF old, new, g
  <2> QED BY <1>1, <1>2, <2>1, <2>3, <2>4 DEF Mails, Mail, StoreTyped
<1>5. CASE ~Renewed(inv)
  <2> DEFINE row == [Bump(inv) EXCEPT !.generation = g, !.cooling = TRUE]
  <2>1. invitation' = [invitation EXCEPT ![i] = row] /\ mailed' = mailed \cup Mail(i, g)
    BY <1>5 DEF ResendInvitation
  <2>2. row.status = inv.status /\ row.generation = g
    <3>1. g \in Nat
      BY <1>1, InvitationParts
    <3> HIDE DEF g
    <3> QED BY <1>1, <3>1, InvitationRenewed
  <2> HIDE DEF row, g
  <2> QED BY <1>1, <1>2, <1>3, <2>1, <2>2 DEF Mails, Mail, StoreTyped
<1> QED BY <1>4, <1>5

LEMMA StepMails ==
    ASSUME StoreTyped, LedgerTyped, [Next]_vars
    PROVE  Mails
<1>1. CASE UNCHANGED <<invitation, mailed>>
  BY <1>1 DEF Mails
<1>2. ASSUME NEW i \in Invitations, Lapse(i) \/ CoolDown(i)
      PROVE  Mails
  BY <1>2, TimePasses DEF Mails, StoreTyped
<1>3. ASSUME NEW c \in Connections, RevokeInvitation(c)
      PROVE  Mails
  <2>1. Cmd(c).invitation \in Invitations /\ Cmd(c).op = "invite_revoke"
    BY <1>3, DueCommand, CommandParts DEF RevokeInvitation
  <2>2. invitation[Cmd(c).invitation].status = "pending"
    BY <1>3, <2>1 DEF RevokeInvitation, Due, Allowed, MayRevoke, Revocable
  <2> QED BY <1>3, <2>1, <2>2, ClosingMails DEF RevokeInvitation
<1>4. ASSUME NEW c \in Connections, AcceptInvitation(c)
      PROVE  Mails
  BY <1>4, AcceptEffect, ClosingMails DEF AcceptInvitation
<1>5. ASSUME NEW c \in Connections, ExpireOnAcceptance(c)
      PROVE  Mails
  <2>1. Cmd(c).invitation \in Invitations
    BY <1>5, Working, CommandParts DEF ExpireOnAcceptance, HoldsWorkspace
  <2> QED BY <1>5, <2>1, ClosingMails DEF ExpireOnAcceptance, LapsedNow
<1> QED BY <1>1, <1>2, <1>3, <1>4, <1>5, CreateMails, ResendMails, WhoChangesInvitations
        DEF ChangesInvitations

\* Only TakeInvitation begins to hold a row.
LEMMA WhoHolds ==
    ASSUME LedgerTyped, [Next]_vars, NEW d \in Connections, NEW i \in Invitations,
           phase'[d] # "idle", HoldsInvitation(d, i)'
    PROVE  /\ phase[d] # "idle" /\ Cmd(d)' = Cmd(d)
           /\ \/ HoldsInvitation(d, i)
              \/ /\ UNCHANGED invitation /\ Cmd(d).invitation = i
                 /\ TokenNames(i, Cmd(d).generation)
<1> USE DEF HoldsInvitation, Cmd
<1>1. CASE UNCHANGED <<command, phase, key>>
  BY <1>1
<1>2. ASSUME NEW c \in Connections, Close(c), UNCHANGED command
      PROVE  phase[d] # "idle" /\ Cmd(d)' = Cmd(d) /\ HoldsInvitation(d, i)
  <2>1. d # c
    BY <1>2 DEF Close, LedgerTyped
  <2> QED BY <1>2, <2>1 DEF Close, LedgerTyped
<1>3. ASSUME NEW c \in Connections, phase[c] # "idle", Answers(c)
      PROVE  phase[d] # "idle" /\ Cmd(d)' = Cmd(d) /\ HoldsInvitation(d, i)
  BY <1>2, <1>3 DEF Answers, Commit, AnswerOnly, Answer
<1>4. ASSUME NEW c \in Connections, Abandon(c)
      PROVE  phase[d] # "idle" /\ Cmd(d)' = Cmd(d) /\ HoldsInvitation(d, i)
  BY <1>2, <1>4 DEF Abandon, ledger
<1>5. ASSUME NEW c \in Connections, NEW k \in Keys, Submit(c, k) \/ Repeat(c, k)
      PROVE  phase[d] # "idle" /\ Cmd(d)' = Cmd(d) /\ HoldsInvitation(d, i)
  <2>1. phase' = [phase EXCEPT ![c] = "sent"] /\ key' = [key EXCEPT ![c] = k]
    BY <1>5 DEF Submit, Repeat, Dispatch
  <2>2. d # c
    BY <2>1 DEF LedgerTyped
  <2>3. phase'[d] = phase[d] /\ key'[d] = key[d] /\ phase[d] # "idle"
    BY <2>1, <2>2 DEF LedgerTyped
  <2>4. key[d] \in Keys /\ command[key[d]] # NoCommand
    BY <2>3 DEF LedgerTyped
  <2>5. command'[key[d]] = command[key[d]]
    BY <1>5, <2>4 DEF Submit, Repeat, ledger, LedgerTyped
  <2> QED BY <2>3, <2>5
<1>6. ASSUME NEW c \in Connections, TakeWorkspace(c)
      PROVE  phase[d] # "idle" /\ Cmd(d)' = Cmd(d) /\ HoldsInvitation(d, i)
  <2>1. phase' = [phase EXCEPT ![c] = "locked"] /\ UNCHANGED <<command, key>>
        /\ \/ phase[c] = "sent" /\ Cmd(c).op # "invite_accept"
           \/ phase[c] = "invitation"
    BY <1>6 DEF TakeWorkspace, ledger
  <2>2. CASE d = c
    BY <2>1, <2>2
  <2>3. CASE d # c
    BY <2>1, <2>3 DEF LedgerTyped
  <2> QED BY <2>2, <2>3
<1>7. ASSUME NEW c \in Connections, TakeInvitation(c), ~Answers(c)
      PROVE  /\ phase[d] # "idle" /\ Cmd(d)' = Cmd(d)
             /\ \/ HoldsInvitation(d, i)
                \/ /\ UNCHANGED invitation /\ Cmd(d).invitation = i
                   /\ TokenNames(i, Cmd(d).generation)
  <2>1. /\ phase' = [phase EXCEPT ![c] = "invitation"]
        /\ UNCHANGED <<command, key, invitation>>
        /\ TokenNames(Cmd(c).invitation, Cmd(c).generation) /\ phase[c] = "sent"
    BY <1>7 DEF TakeInvitation, ledger, store, Answers
  <2>2. CASE d = c
    BY <2>1, <2>2
  <2>3. CASE d # c
    BY <2>1, <2>3 DEF LedgerTyped
  <2> QED BY <2>2, <2>3
<1>8. CASE UNCHANGED vars
  BY <1>1, <1>8 DEF vars, ledger, wire
<1>9. ASSUME NEW c \in Connections, NEW k \in Keys, RecoverTransfer(c, k)
      PROVE  UNCHANGED <<command, phase, key>>
  BY <1>9 DEF RecoverTransfer, wire
<1>10. ASSUME NEW j \in Invitations, Lapse(j) \/ CoolDown(j)
       PROVE  UNCHANGED <<command, phase, key>>
  BY <1>10 DEF Lapse, CoolDown, ledger, wire
<1>11. ASSUME NEW k \in Keys, ReceiptExpires(k)
       PROVE  UNCHANGED <<command, phase, key>>
  BY <1>11 DEF ReceiptExpires, wire
<1>12. ASSUME NEW c \in Connections, TakeInvitation(c)
       PROVE  phase[c] # "idle"
  BY <1>12 DEF TakeInvitation
<1> HIDE DEF HoldsInvitation, Cmd
<1> QED BY <1>1, <1>3, <1>4, <1>5, <1>6, <1>7, <1>8, <1>9, <1>10, <1>11, <1>12, WhoAnswers
        DEF Next

LEMMA TokensStep ==
    ASSUME StoreTyped, LedgerTyped, TokensMailed, HeldRowsMatch, [Next]_vars
    PROVE  TokensMailed' /\ HeldRowsMatch'
<1>1. Mails
  BY StepMails
<1>2. TokensMailed'
  BY <1>1 DEF TokensMailed, Mails
<1>3. ASSUME NEW d \in Connections, NEW i \in Invitations,
             phase'[d] # "idle", HoldsInvitation(d, i)'
      PROVE  TokenNames(i, Cmd(d).generation)'
  <2>1. /\ phase[d] # "idle" /\ Cmd(d)' = Cmd(d)
        /\ \/ HoldsInvitation(d, i)
           \/ UNCHANGED invitation /\ TokenNames(i, Cmd(d).generation)
    BY <1>3, WhoHolds
  <2>2. CASE HoldsInvitation(d, i)
    <3>1. TokenNames(i, Cmd(d).generation)
      BY <2>1, <2>2 DEF HeldRowsMatch
    <3> QED BY <1>1, <2>1, <2>2, <3>1 DEF Mails, TokenNames
  <2>3. CASE UNCHANGED invitation /\ TokenNames(i, Cmd(d).generation)
    BY <2>1, <2>3 DEF TokenNames
  <2> QED BY <2>1, <2>2, <2>3
<1> QED BY <1>2, <1>3 DEF HeldRowsMatch
-----------------------------------------------------------------------------
IInv == /\ StoreTyped /\ LedgerTyped
        /\ OneActiveOwner /\ SeatLimitRespected
        /\ ReceiptsTell /\ AppliedOnce
        /\ TokensMailed /\ HeldRowsMatch

LEMMA InitInv == Init => IInv
<1> SUFFICES ASSUME Init PROVE IInv
  OBVIOUS
<1> USE DEF Init
<1>1. StoreTyped
  <2>1. team \in [Teams -> TeamRows]
    BY DEF TeamRows
  <2>2. mailed \subseteq Invitations \X Nat
    BY StartAssumption DEF InvitationRows
  <2> QED BY <2>1, <2>2, StartAssumption DEF StoreTyped
<1>2. LedgerTyped
  BY DEF LedgerTyped, Receipts, Contexts
<1>3. OneActiveOwner
  BY StartAssumption DEF OneActiveOwner, Active
<1>4. SeatLimitRespected
  BY StartAssumption DEF SeatLimitRespected, Active
<1>5. ReceiptsTell /\ AppliedOnce
  BY DEF ReceiptsTell, AppliedOnce
<1>6. TokensMailed
  BY DEF TokensMailed
<1>7. HeldRowsMatch
  BY DEF HeldRowsMatch
<1> QED BY <1>1, <1>2, <1>3, <1>4, <1>5, <1>6, <1>7 DEF IInv

LEMMA NextInv == IInv /\ [Next]_vars => IInv'
<1> SUFFICES ASSUME IInv, [Next]_vars PROVE IInv'
  OBVIOUS
<1> USE DEF IInv
<1>1. StoreTyped' /\ LedgerTyped'
  BY StepStoreTyped, StepLedgerTyped
<1>2. OneActiveOwner' /\ SeatLimitRespected'
  <2>1. CASE member' = member
    BY <2>1 DEF OneActiveOwner, SeatLimitRespected, Active
  <2>2. CASE member' # member
    BY <2>2, WhoChangesMembers, OwnerStep, SeatsStep
  <2> QED BY <2>1, <2>2
<1>3. ReceiptsTell' /\ AppliedOnce'
  BY OnceStep
<1>4. TokensMailed' /\ HeldRowsMatch'
  BY TokensStep
<1> QED BY <1>1, <1>2, <1>3, <1>4

LEMMA AlwaysInv == Spec => []IInv
  BY InitInv, NextInv, PTL DEF Spec

\* Type correctness: no interleaving of commands gives a row, a receipt or a
\* connection another shape, and a connection at work has a command.
THEOREM TypeCorrect == Spec => []TypeOK
<1>1. IInv => TypeOK
  BY TypeParts DEF IInv
<1> QED BY <1>1, AlwaysInv, PTL

\* For any number of users and administrators whose commands interleave, the
\* workspace has exactly one owner, and the owner is active.
THEOREM OwnerIsUnique == Spec => []OneActiveOwner
<1>1. IInv => OneActiveOwner
  BY DEF IInv
<1> QED BY <1>1, AlwaysInv, PTL

\* Whatever the plan's seats, restorations and acceptances together never take
\* more.
THEOREM SeatsSuffice == Spec => []SeatLimitRespected
<1>1. IInv => SeatLimitRespected
  BY DEF IInv
<1> QED BY <1>1, AlwaysInv, PTL

\* However often a command is repeated under its key, it takes effect once at
\* most, and it did when the answer says so.
THEOREM CommandsApplyOnce == Spec => []AppliedOnce
<1>1. IInv => AppliedOnce
  BY DEF IInv
<1> QED BY <1>1, AlwaysInv, PTL

LEMMA RightStep ==
    IInv /\ [Next]_vars => \A u \in Users : member'[u] # member[u] => RightfulChange(u)
<1> SUFFICES ASSUME IInv, [Next]_vars, NEW u \in Users, member'[u] # member[u]
             PROVE  RightfulChange(u)
  OBVIOUS
<1> USE DEF RightfulChange
<1>1. PICK c \in Connections : ChangesMembers(c)
  BY WhoChangesMembers
<1> DEFINE cmd == Cmd(c)
<1>2. HoldsWorkspace(c) /\ phase'[c] = "idle"
  BY <1>1, MembersTyped DEF IInv, HoldsWorkspace, Commit, Answer, Close, LedgerTyped
<1>3. CASE ChangeMembership(c)
  <2>1. u = cmd.user
    BY <1>3, StatusEffect DEF IInv, SameButFor
  <2>2. member[u].status # "removed"
    BY <1>3, <2>1, StatusEffect DEF IInv, Transitions
  <2> QED BY <1>2, <1>3, <2>1, <2>2, StatusEffect DEF IInv, Manages
<1>4. CASE ChangeRole(c)
  <2>1. u = cmd.user
    BY <1>4, RoleEffect DEF IInv, SameButFor
  <2> QED BY <1>2, <1>4, <2>1, RoleEffect DEF IInv
<1>5. CASE AssignTeams(c)
  <2>1. u = cmd.user
    BY <1>5, TeamsEffect DEF IInv, SameButFor
  <2> QED BY <1>2, <1>5, <2>1, TeamsEffect DEF IInv
<1>6. CASE TransferOwner(c)
  <2>1. u \in {cmd.user, cmd.actor}
    BY <1>6, TransferEffect DEF IInv, SameButFor
  <2>2. member[u].status # "removed"
    BY <1>6, <2>1, TransferEffect DEF IInv, Active
  <2> QED BY <1>2, <1>6, <2>2, TransferEffect DEF IInv
<1>7. CASE AcceptInvitation(c)
  <2>1. u = cmd.actor /\ ~Active(u)
    BY <1>7, AcceptEffect DEF IInv, SameButFor
  <2>2. HoldsInvitation(c, cmd.invitation) /\ phase[c] # "idle"
    BY <1>2, <1>7, AcceptEffect DEF IInv, HoldsInvitation, HoldsWorkspace
  <2>3. cmd.invitation \in Invitations
    BY <1>7, AcceptEffect DEF IInv
  <2>4. TokenNames(cmd.invitation, cmd.generation)
    BY <2>2, <2>3 DEF IInv, HeldRowsMatch
  <2>5. <<cmd.invitation, invitation[cmd.invitation].generation>> \in mailed
    BY <2>3, <2>4 DEF IInv, TokensMailed, TokenNames
  <2> QED BY <1>2, <1>7, <2>1, <2>4, <2>5, AcceptEffect DEF IInv, TokenNames
<1> QED BY <1>1, <1>3, <1>4, <1>5, <1>6, <1>7 DEF ChangesMembers

\* Every change of a membership was somebody's right at the commit: of the
\* invited user with the last token, which was mailed, or of an owner or
\* administrator as the transaction itself finds them.
THEOREM ChangesAreRightful == Spec => MembershipsChangeByRight
<1> DEFINE Rightful == \A u \in Users : member'[u] # member[u] => RightfulChange(u)
<1>1. IInv /\ [Next]_vars => [Rightful]_vars
  BY RightStep
<1> HIDE DEF Rightful
<1>2. Spec => [][Rightful]_vars
  BY <1>1, AlwaysInv, PTL DEF Spec
<1> QED BY <1>2 DEF MembershipsChangeByRight, Rightful
-----------------------------------------------------------------------------
(* The pages of an administrator and the routes they call: AdminConsole,   *)
(* for any members, teams, invitations, pages, requests and bounds.        *)
CONSTANTS None, Members, Me, Addresses, Pages, Starts, Slots, MaxClicks, MaxOthers

VARIABLES session, recent, calls, cookie, clicks, others, lost, page, rows, authority, groups,
          letters, drafts, dirty, asked, verified, busy, stale, notice

Console == INSTANCE AdminConsole

\* A row of the list of people as it was read: while it has the version of
\* the membership, it has its role and its status.
Shown(row, m) ==
    /\ row \in Console!MemberRows /\ row.version <= member[m].version
    /\ row.version = member[m].version
         => row.role = member[m].role /\ row.status = member[m].status

\* The same of an invitation that is shown as pending.
ShownLetter(row, i) ==
    /\ row \in Console!InvitationRows
    /\ row.status = "pending" =>
         /\ invitation[i].status # "absent" /\ row.version <= invitation[i].version
         /\ row.version = invitation[i].version
              => invitation[i].status = "pending" /\ invitation[i].address = row.address

\* An address was invited with the letter an answer named.
Invited(letter, a) == /\ letter \in [id : Invitations, version : Nat]
                      /\ Console!WasPending(letter, a)

\* Another member got the workspace in place of the version v of its row, and
\* has it unless the row was changed since.
Owns(m, v) == /\ m \in Members \ {Me} /\ v \in Nat /\ member[m].version > v
              /\ member[m].version = v + 1 => member[m].role = "owner"

Workspace ==
    /\ member \in [Members -> Console!MemberRows] /\ team \in [Teams -> Console!TeamRows]
    /\ invitation \in [Invitations -> Console!InvitationRows]
    /\ session \in Nat /\ recent \in BOOLEAN /\ others \in 0 .. MaxOthers
    /\ \A m, n \in Members : member[m].role = "owner" /\ member[n].role = "owner" => m = n

People == [id : Members, row : Console!MemberRows]

\* What a message of the page says when it is shown.
Told(n) ==
    /\ n.text = "saved" => page = "people" /\ n.of \in Members /\ n.version \in Nat
    /\ n.text = "transferred" => Owns(n.of, n.version)

\* What a request names.
AsksPerson(q) == /\ q.of \in Members /\ Shown(q.seen, q.of) /\ q.version = q.seen.version
AsksLetter(q) == /\ q.of \in Invitations /\ ShownLetter(q.seen, q.of)
                 /\ q.seen.status = "pending" /\ q.version = q.seen.version
Asks(q) ==
    /\ q.kind \in {"role", "status", "transfer", "assign", "create", "archive", "invite",
                   "resend", "revoke", "verify", "people", "invitations", "both"}
    /\ q.kind \in {"role", "status"} => page = "people" /\ AsksPerson(q)
    /\ q.kind = "role" => q.to \in {"admin", "member"}
    /\ q.kind = "status" => q.to \in {"active", "suspended", "removed"}
    /\ q.kind = "transfer" => q.of # Me /\ AsksPerson(q)
    /\ q.kind = "assign" => /\ page = "teams" /\ q.of \in Members /\ q.to \subseteq Teams
                            /\ q.version \in Nat /\ q.team \in Teams /\ q.rest \in Seq(People)
    /\ q.kind \in {"create", "archive"} => q.of \in Teams
    /\ q.kind = "invite" => /\ page = "invite"
                            /\ q.of \in Addresses /\ q.role \in {"admin", "member"}
                            /\ q.draft \in DOMAIN drafts /\ drafts[q.draft].address = q.of
    /\ q.kind \in {"resend", "revoke"} => AsksLetter(q)
    /\ q.kind \in {"people", "invitations", "both"} =>
         /\ q.then.text # "transferred"
         /\ q.then.text = "saved" =>
              /\ q.kind = "people" /\ q.then.of \in Members /\ q.then.version \in Nat
              /\ member[q.then.of].version > q.then.version
    /\ q.kind = "people" => page = "people"
    /\ q.kind = "both" => page = "teams"

\* What the body of an answer says that accepts a request or reads a page.
Tells(q, body) ==
    /\ q.kind \in {"role", "status"} => member[q.of].version > q.version
    /\ q.kind = "transfer" => Owns(q.of, q.version)
    /\ q.kind \in {"transfer", "verify"} => body \in 0 .. session
    /\ q.kind = "assign" => body \in Nat
    /\ q.kind \in {"create", "archive"} => body \in Console!TeamRows
    /\ q.kind = "invite" => Invited(body, q.of)
    /\ q.kind \in {"resend", "revoke"} =>
         body.id \in Invitations /\ ShownLetter(body.row, body.id)
    /\ q.kind = "people" =>
         /\ body.rows \in [Members -> Console!MemberRows] /\ body.authority \in Console!Roles
         /\ \A m \in Members : Shown(body.rows[m], m)
         /\ q.then.text = "saved" => body.rows[q.then.of].version > q.then.version
    /\ q.kind = "invitations" =>
         body \in [Invitations -> Console!InvitationRows]
           /\ \A i \in Invitations : ShownLetter(body[i], i)
    /\ q.kind = "both" => /\ body.teams \in [Teams -> Console!TeamRows]
                          /\ body.people \in [Members -> Console!MemberRows]

Half(body) == /\ body.part \in {"teams", "people"}
              /\ body.part = "teams" => body.data \in [Teams -> Console!TeamRows]
              /\ body.part = "people" => body.data \in [Members -> Console!MemberRows]

CallSound(c) ==
    /\ c.at \in {"idle", "sent", "half", "answered"}
    /\ c.at # "idle" => Asks(c.req)
    /\ c.at = "half" => c.req.kind = "both" /\ Half(c.body)
    /\ c.at = "answered" /\ c.code = "ok" => Tells(c.req, c.body)

Wire == /\ calls = [k \in Slots |-> calls[k]]
        /\ \A c \in {calls[k] : k \in Slots} : CallSound(c)
        /\ cookie \in 0 .. session

\* The lists of the page, and what it asks its user to confirm.
Lists ==
    /\ page \in Pages /\ rows \in [Members -> Console!MemberRows]
         /\ groups \in [Teams -> Console!TeamRows]
    /\ letters \in [Invitations -> Console!InvitationRows] /\ authority \in Console!Roles
    /\ page \in {"people", "transfer"} => \A m \in Members : Shown(rows[m], m)
    /\ \A i \in Invitations : ShownLetter(letters[i], i)

Asked ==
    asked # None =>
      /\ page = "people" => asked.kind \in {"role", "status"} /\ Asks(asked)
      /\ page = "invitations" => asked.kind = "revoke" /\ Asks(asked)
      /\ page = "transfer" => asked.kind = "transfer" /\ Asks(asked)
      /\ page = "teams" => /\ asked.kind \in {"archive", "remove"} /\ asked.of \in Teams
                           /\ asked.kind = "remove" => asked.to \in Members

\* The drafts that were sent have been invited.
Written ==
    /\ drafts \in Seq(Console!DraftRows) /\ dirty \in [Teams -> SUBSET Members]
         /\ verified \in BOOLEAN
    /\ \A d \in DOMAIN drafts : drafts[d].state = "sent" =>
                                   Invited(drafts[d].letter, drafts[d].address)

\* What the page says and what it waits for.
Banner ==
    /\ page = "invite" \/ busy \in Members \cup {None}
    /\ Told(notice)
    /\ notice.text = "saved" => rows[notice.of].version > notice.version

Counts == lost \in BOOLEAN /\ clicks \in 0 .. MaxClicks[page]

\* The inductive invariant of the pages and the routes.
ConsoleInv == Workspace /\ Wire /\ Lists /\ Asked /\ Written /\ Banner /\ Counts
-----------------------------------------------------------------------------
\* What no step of the workspace takes back.
Onward ==
    /\ \A m \in Members : member[m].version <= member'[m].version
    /\ \A m \in Members : \A row : Shown(row, m) => Shown(row, m)'
    /\ \A i \in Invitations : \A row : ShownLetter(row, i) => ShownLetter(row, i)'
    /\ \A letter, a : Invited(letter, a) => Invited(letter, a)'
    /\ \A m, v : Owns(m, v) => Owns(m, v)'
    /\ session <= session'

\* Every request on its way was there before or is sound.
CallsMove ==
    /\ calls' = [k \in Slots |-> calls'[k]]
    /\ \A c \in {calls'[k] : k \in Slots} : c \in {calls[k] : k \in Slots} \/ CallSound(c)'

DraftsStay == \A d \in DOMAIN drafts :
                 d \in DOMAIN drafts' /\ drafts'[d].address = drafts[d].address

LEMMA AsksStays ==
    ASSUME Workspace, Workspace', Onward, DraftsStay, page' = page, NEW q, Asks(q)
    PROVE  Asks(q)'
<1>1. AsksPerson(q) => AsksPerson(q)'
  BY DEF AsksPerson, Onward
<1>2. AsksLetter(q) => AsksLetter(q)'
  BY DEF AsksLetter, Onward
<1>3. q.kind = "people" /\ q.then.text = "saved" => member'[q.then.of].version > q.then.version
  BY DEF Asks, Workspace, Console!MemberRows, Onward
<1>4. q.kind = "invite" => q.draft \in DOMAIN drafts' /\ drafts'[q.draft].address = q.of
  BY DEF Asks, DraftsStay
<1>5. QED
  BY <1>1, <1>2, <1>3, <1>4 DEF Asks

LEMMA TellsStays ==
    ASSUME Workspace, Workspace', Onward, NEW q, NEW body, Asks(q), Tells(q, body)
    PROVE  Tells(q, body)'
<1>1. q.kind \in {"role", "status"} => member'[q.of].version > q.version
  BY DEF Tells, Workspace, Console!MemberRows, Onward, Asks, AsksPerson, Shown
<1>2. q.kind \in {"transfer", "verify"} => body \in 0 .. session'
  BY DEF Tells, Onward, Workspace
<1>3. q.kind \in {"resend", "revoke"} =>
        body.id \in Invitations /\ ShownLetter(body.row, body.id)'
  BY DEF Tells, Onward
<1>4. q.kind = "people" => \A m \in Members : Shown(body.rows[m], m)'
  BY DEF Tells, Onward
<1>5. q.kind = "invitations" => \A i \in Invitations : ShownLetter(body[i], i)'
  BY DEF Tells, Onward
<1>6. /\ q.kind = "transfer" => Owns(q.of, q.version)'
      /\ q.kind = "invite" => Invited(body, q.of)'
  BY DEF Tells, Onward
<1>7. QED
  BY <1>1, <1>2, <1>3, <1>4, <1>5, <1>6 DEF Tells

LEMMA CallStays ==
    ASSUME Workspace, Workspace', Onward, DraftsStay, page' = page, NEW c, CallSound(c)
    PROVE  CallSound(c)'
  BY AsksStays, TellsStays DEF CallSound, Half

\* Memberships change with their versions, invitations with theirs.
LEMMA PeopleOnward ==
    ASSUME Workspace, member' \in [Members -> Console!MemberRows],
           \A m \in Members : member'[m] = member[m] \/ member'[m].version > member[m].version
    PROVE  /\ \A m \in Members : member[m].version <= member'[m].version
           /\ \A m \in Members : \A row : Shown(row, m) => Shown(row, m)'
           /\ \A m, v : Owns(m, v) => Owns(m, v)'
<1> SUFFICES ASSUME NEW m \in Members
             PROVE  /\ member[m].version <= member'[m].version
                    /\ \A row : Shown(row, m) => Shown(row, m)'
                    /\ \A v : Owns(m, v) => Owns(m, v)'
  BY DEF Owns
<1>1. member[m].version \in Nat /\ member'[m].version \in Nat
  BY DEF Workspace, Console!MemberRows
<1>2. ASSUME NEW row, Shown(row, m) PROVE Shown(row, m)'
  <2>1. row.version \in Nat
    BY <1>2 DEF Shown, Console!MemberRows
  <2>2. QED
    BY <1>1, <1>2, <2>1 DEF Shown
<1>3. ASSUME NEW v, Owns(m, v) PROVE Owns(m, v)'
  BY <1>1, <1>3 DEF Owns
<1>4. QED
  BY <1>1, <1>2, <1>3

LEMMA LettersOnward ==
    ASSUME Workspace, invitation' \in [Invitations -> Console!InvitationRows],
           \A i \in Invitations :
             \/ invitation[i].status = "absent" \/ invitation'[i] = invitation[i]
             \/ /\ invitation'[i].status # "absent"
                /\ invitation'[i].address = invitation[i].address
                /\ \/ invitation'[i].version > invitation[i].version
                   \/ /\ invitation'[i].version = invitation[i].version
                      /\ invitation'[i].status = invitation[i].status
    PROVE  /\ \A i \in Invitations : \A row : ShownLetter(row, i) => ShownLetter(row, i)'
           /\ \A letter, a : Invited(letter, a) => Invited(letter, a)'
<1>1. ASSUME NEW i \in Invitations, NEW row, ShownLetter(row, i) PROVE ShownLetter(row, i)'
  <2>1. invitation[i].version \in Nat /\ invitation'[i].version \in Nat
    BY DEF Workspace, Console!InvitationRows
  <2>2. row.version \in Nat
    BY <1>1 DEF ShownLetter, Console!InvitationRows
  <2>3. QED
    BY <1>1, <2>1, <2>2 DEF ShownLetter
<1>2. ASSUME NEW letter, NEW a, Invited(letter, a) PROVE Invited(letter, a)'
  <2>1. letter.id \in Invitations /\ letter.version \in Nat
    BY <1>2 DEF Invited
  <2>2. invitation[letter.id].version \in Nat /\ invitation'[letter.id].version \in Nat
    BY <2>1 DEF Workspace, Console!InvitationRows
  <2>3. QED
    BY <1>2, <2>1, <2>2 DEF Invited, Console!WasPending
<1>3. QED
  BY <1>1, <1>2

LEMMA SameLetters ==
    ASSUME invitation' = invitation
    PROVE  /\ \A i \in Invitations : \A row : ShownLetter(row, i) => ShownLetter(row, i)'
           /\ \A letter, a : Invited(letter, a) => Invited(letter, a)'
  BY DEF ShownLetter, Invited, Console!WasPending

LEMMA SamePeople ==
    ASSUME Workspace, member' = member
    PROVE  /\ \A m \in Members : member[m].version <= member'[m].version
           /\ \A m \in Members : \A row : Shown(row, m) => Shown(row, m)'
           /\ \A m, v : Owns(m, v) => Owns(m, v)'
  BY DEF Workspace, Console!MemberRows, Shown, Owns

LEMMA Unmoved ==
    ASSUME ConsoleInv, UNCHANGED Console!World
    PROVE  Onward /\ Workspace'
<1>1. UNCHANGED <<member, team, invitation, session, recent, others>>
  BY DEF Console!World, Console!tenant, Console!auth
<1>2. Workspace'
  BY <1>1 DEF ConsoleInv, Workspace
<1>3. session \in Nat
  BY DEF ConsoleInv, Workspace
<1>4. QED
  BY <1>1, <1>2, <1>3, SamePeople, SameLetters DEF ConsoleInv, Onward
-----------------------------------------------------------------------------
LEMMA OneCall ==
    ASSUME ConsoleInv, NEW k, NEW c, calls' = [calls EXCEPT ![k] = c], CallSound(c)'
    PROVE  CallsMove
<1>1. calls = [j \in Slots |-> calls[j]]
  BY DEF ConsoleInv, Wire
<1>2. calls' = [j \in Slots |-> calls'[j]]
  BY <1>1
<1>3. ASSUME NEW d \in {calls'[j] : j \in Slots}
      PROVE  d = c \/ d \in {calls[j] : j \in Slots}
  BY <1>1
<1>4. QED
  BY <1>2, <1>3 DEF CallsMove

\* What the workspace goes through leaves the page's state sound.
LEMMA ServerStep ==
    ASSUME ConsoleInv, Workspace', Onward, CallsMove, UNCHANGED <<cookie, clicks, lost,
           Console!ui>>
    PROVE  ConsoleInv'
<1>1. /\ page' = page /\ asked' = asked /\ notice' = notice /\ rows' = rows /\ DraftsStay
      /\ UNCHANGED <<drafts, dirty, verified, busy, letters, groups, authority, clicks, lost>>
  BY DEF Console!ui, Console!lists, Console!form, Console!choices, Console!banner, DraftsStay
<1>2. Wire'
  <2>1. calls' = [k \in Slots |-> calls'[k]]
    BY DEF CallsMove
  <2>2. ASSUME NEW c \in {calls'[k] : k \in Slots} PROVE CallSound(c)'
    BY <1>1, CallStays DEF ConsoleInv, Wire, CallsMove
  <2>3. cookie' \in 0 .. session'
    BY DEF ConsoleInv, Wire, Workspace, Onward
  <2>4. QED
    BY <2>1, <2>2, <2>3 DEF Wire
<1>3. Lists'
  BY <1>1 DEF ConsoleInv, Lists, Onward
<1>4. Asked'
  BY <1>1, AsksStays DEF ConsoleInv, Asked
<1>5. Written'
  BY <1>1 DEF ConsoleInv, Written, Onward
<1>6. Banner'
  BY <1>1 DEF ConsoleInv, Banner, Told, Onward
<1>7. Counts'
  BY <1>1 DEF ConsoleInv, Counts
<1>8. QED
  BY <1>2, <1>3, <1>4, <1>5, <1>6, <1>7 DEF ConsoleInv

LEMMA Opened ==
    ASSUME ConsoleInv, NEW k \in Slots
    PROVE  CallSound(calls[k])
  BY DEF ConsoleInv, Wire

\* An answer of a route, from what it did to the workspace.
LEMMA AnswerStep ==
    ASSUME ConsoleInv, Workspace', Onward, NEW k \in Slots, NEW code, NEW body,
           NEW q, q = calls[k].req, calls[k].at # "idle", Console!Answer(k, code, body),
           code = "ok" => Tells(q, body)'
    PROVE  ConsoleInv'
<1> DEFINE c == [at |-> "answered", req |-> q, code |-> code, body |-> body]
<1>1. /\ calls' = [calls EXCEPT ![k] = c]
      /\ UNCHANGED <<cookie, clicks, lost, Console!ui>>
  BY DEF Console!Answer
<1>2. Asks(q)'
  <2>1. Asks(q)
    BY Opened DEF CallSound
  <2>2. page' = page /\ DraftsStay
    BY <1>1 DEF Console!ui, Console!form, Console!choices, DraftsStay
  <2>3. QED
    BY <2>1, <2>2, AsksStays DEF ConsoleInv
<1>3. code = "ok" => Tells(q, body)'
  OBVIOUS
<1>4. c.at = "answered" /\ c.req = q /\ c.code = code /\ c.body = body
  OBVIOUS
<1> HIDE DEF c
<1>5. CallSound(c)'
  BY <1>2, <1>3, <1>4 DEF CallSound
<1>6. QED
  BY <1>1, <1>5, OneCall, ServerStep

LEMMA RefuseStep ==
    ASSUME ConsoleInv, NEW k \in Slots, Console!Refuse(k) PROVE ConsoleInv'
<1> PICK q : q = calls[k].req
  OBVIOUS
<1>1. /\ Console!Answer(k, Console!Verdict(calls[k]), None) /\ Console!Verdict(calls[k]) # "ok"
      /\ calls[k].at # "idle" /\ UNCHANGED <<Console!tenant, Console!auth>>
  BY DEF Console!Refuse
<1>2. Onward /\ Workspace'
  BY <1>1, Unmoved DEF Console!Answer, Console!World
<1>3. QED
  BY <1>1, <1>2, AnswerStep

\* One membership changes, with its version.
LEMMA MemberStep ==
    ASSUME Console!ConsoleAssumption, Workspace, NEW m \in Members,
           NEW row \in Console!MemberRows,
           member' = [member EXCEPT ![m] = row], row.version = member[m].version + 1,
           row.role = "owner" <=> member[m].role = "owner",
           UNCHANGED <<team, invitation, recent>>, others' \in 0 .. MaxOthers,
           session' = session
    PROVE  Workspace' /\ Onward /\ member'[m] = row
<1>1. /\ member' \in [Members -> Console!MemberRows] /\ member'[m] = row
      /\ \A n \in Members : n # m => member'[n] = member[n]
  BY DEF Workspace
<1>2. member[m].version \in Nat
  BY DEF Workspace, Console!MemberRows
<1>3. \A n \in Members : /\ member'[n] = member[n] \/ member'[n].version > member[n].version
                         /\ member'[n].role = "owner" <=> member[n].role = "owner"
  BY <1>1, <1>2
<1>4. Workspace'
  BY <1>1, <1>3 DEF Workspace
<1>5. session <= session'
  BY DEF Workspace
<1>6. QED
  BY <1>1, <1>3, <1>4, <1>5, PeopleOnward, SameLetters DEF Onward

\* The ownership goes from one member to another, with the versions of both.
LEMMA PassedOn ==
    ASSUME Workspace, NEW b \in Members, NEW m \in Members \ {b}, member[b].role = "owner",
           member' = [member EXCEPT ![m].role = "owner", ![m].version = @ + 1,
                                    ![b].role = "admin", ![b].version = @ + 1],
           UNCHANGED <<team, invitation, recent>>, others' \in 0 .. MaxOthers,
           session' \in Nat, session <= session'
    PROVE  /\ Workspace' /\ Onward /\ member[m].version \in Nat
           /\ member'[m].role = "owner" /\ member'[m].version = member[m].version + 1
<1>1. /\ member[m] \in Console!MemberRows /\ member \in [Members -> Console!MemberRows]
      /\ member[b] \in Console!MemberRows
  BY DEF Workspace
<1> DEFINE next == [role |-> "owner", status |-> member[m].status,
                    teams |-> member[m].teams, version |-> member[m].version + 1]
           last == [role |-> "admin", status |-> member[b].status,
                    teams |-> member[b].teams, version |-> member[b].version + 1]
<1>2. \A n \in Members : n \notin {m, b} => member'[n] = member[n]
  BY <1>1
<1>3. member'[m] = next /\ next \in Console!MemberRows /\ next.version > member[m].version
  <2>1. member'[m] = [member[m] EXCEPT !.role = "owner", !.version = @ + 1]
    BY <1>1 DEF Console!MemberRows
  <2>2. member'[m] = next
    BY <1>1, <2>1 DEF Console!MemberRows
  <2>3. next \in Console!MemberRows /\ next.version > member[m].version
    BY <1>1 DEF Console!MemberRows, Console!Roles
  <2>4. QED
    BY <2>2, <2>3
<1>4. member'[b] = last /\ last \in Console!MemberRows /\ last.version > member[b].version
  <2>1. member'[b] = [member[b] EXCEPT !.role = "admin", !.version = @ + 1]
    BY <1>1 DEF Console!MemberRows
  <2>2. member'[b] = last
    BY <1>1, <2>1 DEF Console!MemberRows
  <2>3. last \in Console!MemberRows /\ last.version > member[b].version
    BY <1>1 DEF Console!MemberRows, Console!Roles
  <2>4. QED
    BY <2>2, <2>3
<1>5. next.role = "owner" /\ last.role = "admin" /\ next.version = member[m].version + 1
  OBVIOUS
<1> HIDE DEF next, last
<1>6. member' \in [Members -> Console!MemberRows]
  <2>1. member' = [n \in Members |-> member'[n]]
    BY <1>1
  <2>2. QED
    BY <1>1, <1>2, <1>3, <1>4, <2>1
<1>7. \A n \in Members : member'[n].role = "owner" => n = m
  BY <1>2, <1>4, <1>5 DEF Workspace
<1>8. Workspace'
  BY <1>6, <1>7 DEF Workspace
<1>9. \A n \in Members : member'[n] = member[n] \/ member'[n].version > member[n].version
  BY <1>2, <1>3, <1>4
<1>10. Onward
  BY <1>6, <1>9, PeopleOnward, SameLetters DEF Onward
<1>11. member[m].version \in Nat
  BY <1>1 DEF Console!MemberRows
<1>12. QED
  BY <1>3, <1>5, <1>8, <1>10, <1>11

LEMMA MembershipStep ==
    ASSUME Console!ConsoleAssumption, ConsoleInv, NEW k \in Slots, Console!ChangeMembership(k)
    PROVE  ConsoleInv'
<1> PICK q : q = calls[k].req
  OBVIOUS
<1>1. /\ Console!Answer(k, "ok", None) /\ q.kind \in {"role", "status"}
      /\ calls[k].at # "idle" /\ Console!Verdict(calls[k]) = "ok"
      /\ member' = [member EXCEPT ![q.of].role = IF q.kind = "role" THEN q.to ELSE @,
                                  ![q.of].status = IF q.kind = "status" THEN q.to ELSE @,
                                  ![q.of].version = @ + 1]
  BY DEF Console!ChangeMembership, Console!Takes
<1>2. UNCHANGED <<team, invitation, session, recent, others>>
  BY DEF Console!ChangeMembership, Console!auth, Console!Answer
<1>3. /\ Asks(q) /\ q.of \in Members /\ member[q.of] \in Console!MemberRows
      /\ member \in [Members -> Console!MemberRows] /\ q.version = q.seen.version
      /\ q.kind = "role" => q.to \in {"admin", "member"}
      /\ q.kind = "status" => q.to \in {"active", "suspended", "removed"}
  BY <1>1, Opened DEF CallSound, Asks, AsksPerson, ConsoleInv, Workspace
<1>4. q.of # Me /\ member[q.of].role # "owner" /\ member[q.of].version = q.version
  BY <1>1, <1>3 DEF Console!Verdict, Console!ChangeRoleVerdict, Console!ChangeStatusVerdict,
     Console!Same, Console!Manages
<1> DEFINE row == [role |-> IF q.kind = "role" THEN q.to ELSE member[q.of].role,
                   status |-> IF q.kind = "status" THEN q.to ELSE member[q.of].status,
                   teams |-> member[q.of].teams, version |-> member[q.of].version + 1]
<1>5. member' = [member EXCEPT ![q.of] = row]
  <2>1. member'[q.of] = [member[q.of] EXCEPT !.role = IF q.kind = "role" THEN q.to ELSE @,
                                             !.status = IF q.kind = "status" THEN q.to ELSE @,
                                             !.version = @ + 1]
    BY <1>1, <1>3 DEF Console!MemberRows
  <2>2. member'[q.of] = row
    BY <1>3, <2>1 DEF Console!MemberRows
  <2>3. QED
    BY <1>1, <1>3, <2>2
<1>6. /\ row \in Console!MemberRows /\ row.version = member[q.of].version + 1
      /\ row.role # "owner"
  BY <1>3, <1>4 DEF Console!MemberRows, Console!Roles
<1> HIDE DEF row
<1>7. Workspace' /\ Onward /\ member'[q.of] = row
  BY <1>2, <1>3, <1>4, <1>5, <1>6, MemberStep DEF ConsoleInv, Workspace
<1>8. Tells(q, None)'
  <2>1. member'[q.of].version > q.version
    BY <1>3, <1>4, <1>6, <1>7 DEF Console!MemberRows
  <2>2. QED
    BY <1>1, <2>1 DEF Tells
<1>9. QED
  BY <1>1, <1>7, <1>8, AnswerStep

LEMMA AssignStep ==
    ASSUME Console!ConsoleAssumption, ConsoleInv, NEW k \in Slots, Console!AssignTeams(k)
    PROVE  ConsoleInv'
<1> PICK q : q = calls[k].req
  OBVIOUS
<1>1. /\ Console!Answer(k, "ok", q.version + 1) /\ q.kind = "assign" /\ calls[k].at # "idle"
      /\ member' = [member EXCEPT ![q.of].teams = q.to, ![q.of].version = @ + 1]
  BY DEF Console!AssignTeams, Console!Takes
<1>2. UNCHANGED <<team, invitation, session, recent, others>>
  BY DEF Console!AssignTeams, Console!auth, Console!Answer
<1>3. /\ q.of \in Members /\ q.to \subseteq Teams /\ q.version \in Nat
      /\ member[q.of] \in Console!MemberRows /\ member \in [Members -> Console!MemberRows]
  BY <1>1, Opened DEF CallSound, Asks, ConsoleInv, Workspace
<1> DEFINE row == [role |-> member[q.of].role, status |-> member[q.of].status,
                   teams |-> q.to, version |-> member[q.of].version + 1]
<1>4. member' = [member EXCEPT ![q.of] = row]
  BY <1>1, <1>3 DEF Console!MemberRows
<1>5. /\ row \in Console!MemberRows /\ row.version = member[q.of].version + 1
      /\ row.role = member[q.of].role
  BY <1>3 DEF Console!MemberRows
<1> HIDE DEF row
<1>6. Workspace' /\ Onward
  BY <1>2, <1>3, <1>4, <1>5, MemberStep DEF ConsoleInv, Workspace
<1>7. Tells(q, q.version + 1)'
  BY <1>1, <1>3 DEF Tells
<1>8. QED
  BY <1>1, <1>6, <1>7, AnswerStep

LEMMA TransferStep ==
    ASSUME Console!ConsoleAssumption, ConsoleInv, NEW k \in Slots, Console!TransferOwner(k)
    PROVE  ConsoleInv'
<1> PICK q : q = calls[k].req
  OBVIOUS
<1>1. /\ Console!Answer(k, "ok", session') /\ q.kind = "transfer" /\ calls[k].at # "idle"
      /\ Console!Verdict(calls[k]) = "ok" /\ session' = session + 1
  BY DEF Console!TransferOwner, Console!Takes
<1>2. UNCHANGED <<team, invitation, recent, others>>
  BY DEF Console!TransferOwner, Console!Answer
<1>3. member' = [member EXCEPT ![q.of].role = "owner", ![q.of].version = @ + 1,
                               ![Me].role = "admin", ![Me].version = @ + 1]
  BY DEF Console!TransferOwner
<1>4. q.of \in Members /\ q.of # Me /\ Me \in Members
  BY <1>1, Opened DEF CallSound, Asks, AsksPerson, Console!ConsoleAssumption
<1>5. member[Me].role = "owner" /\ member[q.of].version = q.version
  BY <1>1, <1>4 DEF Console!Verdict, Console!TransferVerdict, Console!Same
<1>6. session \in Nat /\ others \in 0 .. MaxOthers
  BY DEF ConsoleInv, Workspace
<1>7. /\ Workspace' /\ Onward /\ member[q.of].version \in Nat
      /\ member'[q.of].role = "owner" /\ member'[q.of].version = member[q.of].version + 1
  <2>1. session' \in Nat /\ session <= session' /\ others' \in 0 .. MaxOthers
    BY <1>1, <1>2, <1>6
  <2>2. QED
    BY <1>2, <1>3, <1>4, <1>5, <2>1, PassedOn DEF ConsoleInv
<1>8. Owns(q.of, q.version)'
  BY <1>4, <1>5, <1>7 DEF Owns
<1>9. PICK hash : hash = session'
  OBVIOUS
<1>10. hash \in 0 .. session'
  BY <1>1, <1>6, <1>9
<1>11. Tells(q, hash)'
  BY <1>1, <1>8, <1>10 DEF Tells
<1>12. Console!Answer(k, "ok", hash)
  BY <1>1, <1>9
<1>13. QED
  BY <1>1, <1>7, <1>11, <1>12, AnswerStep

LEMMA TeamStep ==
    ASSUME ConsoleInv, NEW k \in Slots, Console!ChangeTeam(k) PROVE ConsoleInv'
<1> PICK q : q = calls[k].req
  OBVIOUS
<1>1. PICK row : /\ row = [status |-> IF q.kind = "create" THEN "active" ELSE "archived",
                           version |-> team[q.of].version + 1]
                 /\ Console!Answer(k, "ok", row) /\ q.kind \in {"create", "archive"}
                 /\ calls[k].at # "idle" /\ team' = [team EXCEPT ![q.of] = row]
                 /\ UNCHANGED <<member, invitation, session, recent>> /\ others' = others
  BY DEF Console!ChangeTeam, Console!Takes, Console!auth, Console!Answer
<1>2. q.of \in Teams
  BY <1>1, Opened DEF CallSound, Asks
<1>3. row \in Console!TeamRows
  BY <1>1, <1>2 DEF Console!TeamRows, ConsoleInv, Workspace
<1>4. Workspace'
  BY <1>1, <1>3 DEF ConsoleInv, Workspace
<1>5. Onward
  BY <1>1, SamePeople, SameLetters DEF ConsoleInv, Workspace, Onward
<1>6. Tells(q, row)'
  BY <1>1, <1>3 DEF Tells
<1>7. QED
  BY <1>1, <1>4, <1>5, <1>6, AnswerStep

\* Invitations change, with their versions unless they stay what they are.
LEMMA LetterStep ==
    ASSUME Workspace, invitation' \in [Invitations -> Console!InvitationRows],
           UNCHANGED <<member, team, recent, session>>, others' \in 0 .. MaxOthers,
           \A i \in Invitations :
             \/ invitation[i].status = "absent" \/ invitation'[i] = invitation[i]
             \/ /\ invitation'[i].status # "absent"
                /\ invitation'[i].address = invitation[i].address
                /\ \/ invitation'[i].version > invitation[i].version
                   \/ /\ invitation'[i].version = invitation[i].version
                      /\ invitation'[i].status = invitation[i].status
    PROVE  Workspace' /\ Onward
<1>1. Workspace'
  BY DEF Workspace
<1>2. session <= session'
  BY DEF Workspace
<1>3. QED
  BY <1>1, <1>2, LettersOnward, SamePeople DEF Onward

LEMMA CreateStep ==
    ASSUME ConsoleInv, NEW k \in Slots, Console!CreateInvitation(k) PROVE ConsoleInv'
<1> PICK q : q = calls[k].req
  OBVIOUS
<1> DEFINE Answered(i) ==
             Console!Answer(k, "ok", [id |-> i, version |-> invitation'[i].version])
<1>1. /\ q.kind = "invite" /\ calls[k].at # "idle"
      /\ \/ UNCHANGED invitation /\ \E i \in Console!PendingFor(q.of) : Answered(i)
         \/ \E i \in Console!Unused :
              /\ invitation' = [invitation EXCEPT ![i] = Console!NewInvitation(q.of, q.role)]
              /\ Answered(i)
  BY DEF Console!CreateInvitation, Console!Takes
<1>2. PICK i \in Invitations :
        /\ Answered(i)
        /\ \/ i \in Console!PendingFor(q.of) /\ invitation' = invitation
           \/ /\ i \in Console!Unused
              /\ invitation' = [invitation EXCEPT ![i] = Console!NewInvitation(q.of, q.role)]
  BY <1>1 DEF Console!PendingFor, Console!Unused
<1>3. PICK letter : letter = [id |-> i, version |-> invitation'[i].version]
  OBVIOUS
<1>4. Console!Answer(k, "ok", letter)
  BY <1>2, <1>3
<1> HIDE DEF Answered
<1>5. UNCHANGED <<member, team, session, recent, others>>
  BY <1>4 DEF Console!CreateInvitation, Console!auth, Console!Answer
<1>6. /\ q.of \in Addresses /\ q.role \in {"admin", "member"}
      /\ invitation \in [Invitations -> Console!InvitationRows] /\ others \in 0 .. MaxOthers
  BY <1>1, Opened DEF CallSound, Asks, ConsoleInv, Workspace
<1>7. /\ invitation' \in [Invitations -> Console!InvitationRows]
      /\ \A j \in Invitations : invitation[j].status = "absent" \/ invitation'[j] = invitation[j]
      /\ invitation'[i].status = "pending" /\ invitation'[i].address = q.of
  <2>1. CASE i \in Console!PendingFor(q.of) /\ invitation' = invitation
    BY <1>6, <2>1 DEF Console!PendingFor
  <2>2. CASE /\ i \in Console!Unused
             /\ invitation' = [invitation EXCEPT ![i] = Console!NewInvitation(q.of, q.role)]
    <3>1. PICK new : new = Console!NewInvitation(q.of, q.role)
      OBVIOUS
    <3>2. new \in Console!InvitationRows /\ new.status = "pending" /\ new.address = q.of
      BY <1>6, <3>1 DEF Console!NewInvitation, Console!InvitationRows
    <3>3. QED
      BY <1>6, <2>2, <3>1, <3>2 DEF Console!Unused
  <2>3. QED
    BY <1>2, <2>1, <2>2
<1>8. Workspace' /\ Onward
  BY <1>5, <1>6, <1>7, LetterStep DEF ConsoleInv
<1>9. invitation'[i].version \in Nat
  BY <1>7 DEF Console!InvitationRows
<1>10. Invited(letter, q.of)'
  BY <1>3, <1>7, <1>9 DEF Invited, Console!WasPending
<1>11. Tells(q, letter)'
  BY <1>1, <1>10 DEF Tells
<1>12. QED
  BY <1>1, <1>4, <1>8, <1>11, AnswerStep

LEMMA ResendStep ==
    ASSUME ConsoleInv, NEW k \in Slots, Console!ResendInvitation(k) PROVE ConsoleInv'
<1> PICK q : q = calls[k].req
  OBVIOUS
<1> PICK old : old = invitation[q.of]
  OBVIOUS
<1> DEFINE again == [old EXCEPT !.version = @ + 1, !.cooling = TRUE]
           new == Console!NewInvitation(old.address, old.role)
<1>1. /\ q.kind = "resend" /\ calls[k].at # "idle" /\ Console!Verdict(calls[k]) = "ok"
      /\ IF old.lapsed
         THEN \E i \in Console!Unused :
                /\ invitation' = [invitation EXCEPT ![q.of].status = "expired",
                                                    ![q.of].version = @ + 1, ![i] = new]
                /\ Console!Answer(k, "ok", [id |-> i, row |-> new])
         ELSE /\ invitation' = [invitation EXCEPT ![q.of] = again]
              /\ Console!Answer(k, "ok", [id |-> q.of, row |-> again])
  BY DEF Console!ResendInvitation, Console!Takes
<1>2. UNCHANGED <<member, team, session, recent, others>>
  BY DEF Console!ResendInvitation, Console!auth, Console!Answer
<1>3. /\ q.of \in Invitations /\ old \in Console!InvitationRows
      /\ invitation \in [Invitations -> Console!InvitationRows] /\ others \in 0 .. MaxOthers
  BY <1>1, Opened DEF CallSound, Asks, AsksLetter, ConsoleInv, Workspace
<1>4. old.status \in {"pending", "expired"}
  BY <1>1, <1>3 DEF Console!Verdict, Console!ResendVerdict
<1>5. /\ again \in Console!InvitationRows /\ again.version = old.version + 1
      /\ again.status = old.status /\ again.address = old.address
  <2>1. /\ old.status \in {"absent", "pending", "expired", "accepted", "revoked"}
        /\ old.version \in Nat /\ old.version + 1 \in Nat
    BY <1>3 DEF Console!InvitationRows
  <2>2. again.version = old.version + 1 /\ again.status = old.status
    BY <1>3 DEF Console!InvitationRows
  <2>3. again.address = old.address
    BY <1>3 DEF Console!InvitationRows
  <2>4. again \in Console!InvitationRows
    BY <1>3, <2>1 DEF Console!InvitationRows
  <2>5. QED
    BY <2>2, <2>3, <2>4
<1>6. new \in Console!InvitationRows /\ new.address = old.address
  BY <1>3 DEF Console!NewInvitation, Console!InvitationRows
<1> HIDE DEF again, new
<1>7. CASE old.lapsed
  <2>1. PICK i \in Console!Unused :
          /\ invitation' = [invitation EXCEPT ![q.of].status = "expired",
                                              ![q.of].version = @ + 1, ![i] = new]
          /\ Console!Answer(k, "ok", [id |-> i, row |-> new])
    BY <1>1, <1>7
  <2>2. i \in Invitations /\ i # q.of /\ invitation[i].status = "absent"
    BY <1>4 DEF Console!Unused
  <2> DEFINE closed == [old EXCEPT !.status = "expired", !.version = @ + 1]
  <2>3. invitation'[q.of] = closed /\ invitation'[i] = new
    BY <1>3, <2>1, <2>2 DEF Console!InvitationRows
  <2>4. /\ closed \in Console!InvitationRows /\ closed.version = old.version + 1
        /\ closed.status = "expired" /\ closed.address = old.address
    <3>1. old.version \in Nat /\ old.version + 1 \in Nat
      BY <1>3 DEF Console!InvitationRows
    <3>2. closed.version = old.version + 1 /\ closed.status = "expired"
      BY <1>3 DEF Console!InvitationRows
    <3>3. closed.address = old.address
      BY <1>3 DEF Console!InvitationRows
    <3>4. closed \in Console!InvitationRows
      BY <1>3, <3>1 DEF Console!InvitationRows
    <3>5. QED
      BY <3>2, <3>3, <3>4
  <2> HIDE DEF closed
  <2>5. \A j \in Invitations : j \notin {q.of, i} => invitation'[j] = invitation[j]
    BY <1>3, <2>1
  <2>6. invitation' \in [Invitations -> Console!InvitationRows]
    <3>1. invitation' = [j \in Invitations |-> invitation'[j]]
      BY <1>3, <2>1
    <3>2. QED
      BY <1>3, <1>6, <2>3, <2>4, <2>5, <3>1
  <2>7. invitation'[q.of].version > invitation[q.of].version
    BY <1>3, <2>3, <2>4 DEF Console!InvitationRows
  <2>8. Workspace' /\ Onward
    BY <1>2, <1>3, <2>2, <2>3, <2>4, <2>5, <2>6, <2>7, LetterStep DEF ConsoleInv
  <2>9. ShownLetter(new, i)'
    BY <1>6, <2>3 DEF ShownLetter, Console!InvitationRows
  <2> PICK body : body = [id |-> i, row |-> new]
    OBVIOUS
  <2>10. Tells(q, body)'
    BY <1>1, <2>2, <2>9 DEF Tells
  <2>11. QED
    BY <1>1, <2>1, <2>8, <2>10, AnswerStep
<1>8. CASE ~old.lapsed
  <2>1. /\ invitation' = [invitation EXCEPT ![q.of] = again]
        /\ Console!Answer(k, "ok", [id |-> q.of, row |-> again])
    BY <1>1, <1>8
  <2>2. /\ invitation' \in [Invitations -> Console!InvitationRows] /\ invitation'[q.of] = again
        /\ \A j \in Invitations : j # q.of => invitation'[j] = invitation[j]
    BY <1>3, <1>5, <2>1
  <2>3. again.version > old.version
    BY <1>3, <1>5 DEF Console!InvitationRows
  <2>4. Workspace' /\ Onward
    BY <1>2, <1>3, <1>4, <1>5, <2>2, <2>3, LetterStep DEF ConsoleInv
  <2>5. ShownLetter(again, q.of)'
    BY <1>4, <1>5, <2>2 DEF ShownLetter, Console!InvitationRows
  <2> PICK body : body = [id |-> q.of, row |-> again]
    OBVIOUS
  <2>6. Tells(q, body)'
    BY <1>1, <1>3, <2>5 DEF Tells
  <2>7. QED
    BY <1>1, <2>1, <2>4, <2>6, AnswerStep
<1>9. QED
  BY <1>7, <1>8

LEMMA RevokeStep ==
    ASSUME ConsoleInv, NEW k \in Slots, Console!RevokeInvitation(k) PROVE ConsoleInv'
<1> PICK q : q = calls[k].req
  OBVIOUS
<1> PICK old : old = invitation[q.of]
  OBVIOUS
<1> PICK row : row = [old EXCEPT !.status = "revoked", !.version = @ + 1]
  OBVIOUS
<1>1. /\ q.kind = "revoke" /\ calls[k].at # "idle"
      /\ invitation' = [invitation EXCEPT ![q.of] = row]
      /\ Console!Answer(k, "ok", [id |-> q.of, row |-> row])
  BY DEF Console!RevokeInvitation, Console!Takes
<1>2. UNCHANGED <<member, team, session, recent, others>>
  BY DEF Console!RevokeInvitation, Console!auth, Console!Answer
<1>3. /\ q.of \in Invitations /\ old \in Console!InvitationRows
      /\ invitation \in [Invitations -> Console!InvitationRows] /\ others \in 0 .. MaxOthers
  BY <1>1, Opened DEF CallSound, Asks, AsksLetter, ConsoleInv, Workspace
<1>4. old.version \in Nat /\ old.version + 1 \in Nat /\ row.version = old.version + 1
  BY <1>3 DEF Console!InvitationRows
<1>5. row.status = "revoked" /\ row.address = old.address
  BY <1>3 DEF Console!InvitationRows
<1>6. row \in Console!InvitationRows
  BY <1>3, <1>4 DEF Console!InvitationRows
<1>7. /\ invitation' \in [Invitations -> Console!InvitationRows] /\ invitation'[q.of] = row
      /\ \A j \in Invitations : j # q.of => invitation'[j] = invitation[j]
  BY <1>1, <1>3, <1>6
<1>8. Workspace' /\ Onward
  <2>1. row.version > old.version
    BY <1>4
  <2>2. QED
    BY <1>2, <1>3, <1>5, <1>7, <2>1, LetterStep DEF ConsoleInv
<1>9. ShownLetter(row, q.of)'
  BY <1>5, <1>6 DEF ShownLetter
<1> PICK body : body = [id |-> q.of, row |-> row]
  OBVIOUS
<1>10. Tells(q, body)'
  BY <1>1, <1>3, <1>9 DEF Tells
<1>11. QED
  BY <1>1, <1>8, <1>10, AnswerStep

LEMMA ConfirmStep ==
    ASSUME ConsoleInv, NEW k \in Slots, Console!ConfirmIdentity(k) PROVE ConsoleInv'
<1> PICK q : q = calls[k].req
  OBVIOUS
<1> PICK hash : hash = session'
  OBVIOUS
<1>1. /\ q.kind = "verify" /\ calls[k].at # "idle" /\ Console!Answer(k, "ok", hash)
      /\ hash = session + 1 /\ recent' = TRUE
  BY DEF Console!ConfirmIdentity, Console!Takes
<1>2. UNCHANGED <<member, team, invitation, others>>
  BY DEF Console!ConfirmIdentity, Console!tenant, Console!Answer
<1>3. session \in Nat /\ session' \in Nat /\ session <= session' /\ hash \in 0 .. session'
  BY <1>1 DEF ConsoleInv, Workspace
<1>4. Workspace'
  BY <1>1, <1>2, <1>3 DEF ConsoleInv, Workspace
<1>5. Onward
  BY <1>2, <1>3, SamePeople, SameLetters DEF ConsoleInv, Onward
<1>6. Tells(q, hash)'
  BY <1>1, <1>3 DEF Tells
<1>7. QED
  BY <1>1, <1>4, <1>5, <1>6, AnswerStep

LEMMA ReadPageStep ==
    ASSUME Console!ConsoleAssumption, ConsoleInv, NEW k \in Slots, Console!ReadPage(k)
           PROVE ConsoleInv'
<1> PICK q : q = calls[k].req
  OBVIOUS
<1> PICK body : body = IF q.kind = "people" THEN Console!PeoplePage ELSE invitation
  OBVIOUS
<1>1. /\ q.kind \in {"people", "invitations"} /\ calls[k].at # "idle"
      /\ Console!Answer(k, "ok", body) /\ UNCHANGED Console!World
  BY DEF Console!ReadPage, Console!Takes, Console!Answer, Console!World
<1>2. UNCHANGED <<member, invitation>>
  BY <1>1 DEF Console!World, Console!tenant
<1>3. Asks(q)
  BY <1>1, Opened DEF CallSound
<1>4. CASE q.kind = "people"
  <2>1. body.rows = member /\ body.authority = member[Me].role
    BY <1>4 DEF Console!PeoplePage
  <2>2. /\ member \in [Members -> Console!MemberRows] /\ Me \in Members
        /\ \A m \in Members : member[m] \in Console!MemberRows
             /\ member[m].role \in Console!Roles
                              /\ member[m].version \in Nat
    BY DEF ConsoleInv, Workspace, Console!ConsoleAssumption, Console!MemberRows
  <2>3. \A m \in Members : Shown(body.rows[m], m)'
    BY <1>2, <2>1, <2>2 DEF Shown
  <2>4. q.then.text = "saved" => body.rows[q.then.of].version > q.then.version
    BY <1>3, <1>4, <2>1 DEF Asks
  <2>5. body.rows \in [Members -> Console!MemberRows] /\ body.authority \in Console!Roles
    BY <2>1, <2>2
  <2>6. QED
    BY <1>4, <2>3, <2>4, <2>5, <1>1, Unmoved, AnswerStep DEF Tells
<1>5. CASE q.kind = "invitations"
  <2>1. body = invitation /\ invitation \in [Invitations -> Console!InvitationRows]
    BY <1>5 DEF ConsoleInv, Workspace
  <2>2. \A i \in Invitations : ShownLetter(body[i], i)'
    BY <1>2, <2>1 DEF ShownLetter, Console!InvitationRows
  <2>3. Tells(q, body)'
    BY <1>5, <2>1, <2>2 DEF Tells
  <2>4. QED
    BY <1>1, <2>3, Unmoved, AnswerStep
<1>6. QED
  BY <1>1, <1>4, <1>5

LEMMA ReadHalfStep ==
    ASSUME ConsoleInv, NEW k \in Slots, Console!ReadHalf(k) PROVE ConsoleInv'
<1>1. PICK half \in {[part |-> "teams", data |-> team], [part |-> "people", data |-> member]} :
        calls' = [calls EXCEPT ![k] = [at |-> "half", req |-> @.req, cookie |-> @.cookie,
                                       body |-> half]]
  BY DEF Console!ReadHalf
<1>2. /\ UNCHANGED Console!World /\ UNCHANGED <<cookie, clicks, lost, Console!ui>>
      /\ calls[k].req.kind = "both" /\ calls[k].at # "idle"
  BY DEF Console!ReadHalf, Console!Takes, Console!World
<1> PICK c : c = [at |-> "half", req |-> calls[k].req, cookie |-> calls[k].cookie,
                  body |-> half]
  OBVIOUS
<1>3. c.at = "half" /\ c.req = calls[k].req /\ c.body = half
  OBVIOUS
<1>4. calls' = [calls EXCEPT ![k] = c]
  BY <1>1
<1>5. Half(half)
  BY DEF Half, ConsoleInv, Workspace
<1>6. Asks(c.req)'
  <2>1. Asks(c.req) /\ DraftsStay /\ page' = page
    BY <1>2, <1>3, Opened DEF CallSound, Console!ui, Console!form, Console!choices, DraftsStay
  <2>2. QED
    BY <1>2, <2>1, Unmoved, AsksStays DEF ConsoleInv
<1>7. CallSound(c)'
  BY <1>2, <1>3, <1>5, <1>6 DEF CallSound, Half
<1>8. QED
  BY <1>2, <1>4, <1>7, OneCall, Unmoved, ServerStep

LEMMA ReadOtherHalfStep ==
    ASSUME ConsoleInv, NEW k \in Slots, Console!ReadOtherHalf(k) PROVE ConsoleInv'
<1> PICK q : q = calls[k].req
  OBVIOUS
<1> PICK first : first = calls[k].body
  OBVIOUS
<1> PICK body : body = IF first.part = "teams"
                       THEN [teams |-> first.data, people |-> member]
                       ELSE [teams |-> team, people |-> first.data]
  OBVIOUS
<1>1. /\ calls[k].at = "half" /\ UNCHANGED Console!World
      /\ Console!Answer(k, "ok", body) \/ Console!Answer(k, "gone", None)
  BY DEF Console!ReadOtherHalf, Console!Answer, Console!World
<1>2. q.kind = "both" /\ Half(first)
  BY <1>1, Opened DEF CallSound
<1>3. body.teams \in [Teams -> Console!TeamRows]
        /\ body.people \in [Members -> Console!MemberRows]
  BY <1>2 DEF Half, ConsoleInv, Workspace
<1>4. Tells(q, body)'
  BY <1>2, <1>3 DEF Tells
<1>5. QED
  BY <1>1, <1>4, Unmoved, AnswerStep

LEMMA ServeStep ==
    ASSUME Console!ConsoleAssumption, ConsoleInv, NEW k \in Slots, Console!Serve(k)
           PROVE ConsoleInv'
  BY RefuseStep, MembershipStep, AssignStep, TransferStep, TeamStep, CreateStep, ResendStep,
     RevokeStep, ConfirmStep, ReadPageStep, ReadHalfStep, ReadOtherHalfStep DEF Console!Serve
-----------------------------------------------------------------------------
\* The other administrators, the clock and the network.
LEMMA ElsewhereStep ==
    ASSUME ConsoleInv, Workspace', Onward, UNCHANGED <<Console!wire, Console!ui>>
    PROVE  ConsoleInv'
<1>1. calls' = calls /\ UNCHANGED <<cookie, clicks, lost, Console!ui>>
  BY DEF Console!wire
<1>2. CallsMove
  BY <1>1 DEF CallsMove, ConsoleInv, Wire
<1>3. QED
  BY <1>1, <1>2, ServerStep

LEMMA OtherMemberStep ==
    ASSUME Console!ConsoleAssumption, ConsoleInv, NEW m \in Members, Console!OtherMember(m)
    PROVE  ConsoleInv'
<1>1. /\ UNCHANGED <<team, invitation, recent>> /\ session' = session
      /\ UNCHANGED <<Console!wire, Console!ui>> /\ others' \in 0 .. MaxOthers
  BY DEF Console!OtherMember, Console!Meanwhile, Console!auth, ConsoleInv, Workspace,
     Console!ConsoleAssumption
<1>2. /\ member \in [Members -> Console!MemberRows] /\ member[m] \in Console!MemberRows
      /\ member[m].version \in Nat /\ member[m].version + 1 \in Nat
  BY DEF ConsoleInv, Workspace, Console!MemberRows
<1> PICK old : old = member[m]
  OBVIOUS
<1>3. ASSUME NEW row \in Console!MemberRows, member' = [member EXCEPT ![m] = row],
             row.version = old.version + 1, row.role = "owner" <=> old.role = "owner"
      PROVE  ConsoleInv'
  BY <1>1, <1>3, MemberStep, ElsewhereStep DEF ConsoleInv
<1>4. PICK b \in Members \ {Me, m} :
        \/ \E s \in {"active", "suspended", "removed"} :
             member' = [member EXCEPT ![m].status = s, ![m].version = @ + 1]
        \/ /\ member[b].role = "owner"
           /\ \E r \in {"admin", "member"} \ {member[m].role} :
                member' = [member EXCEPT ![m].role = r, ![m].version = @ + 1]
        \/ \E T \in SUBSET {t \in Teams : team[t].status = "active"} :
             member' = [member EXCEPT ![m].teams = T, ![m].version = @ + 1]
        \/ /\ member[b].role = "owner"
           /\ member' = [member EXCEPT ![m].role = "owner", ![m].version = @ + 1,
                                       ![b].role = "admin", ![b].version = @ + 1]
  BY DEF Console!OtherMember
<1>5. CASE \E s \in {"active", "suspended", "removed"} :
             member' = [member EXCEPT ![m].status = s, ![m].version = @ + 1]
  <2>1. PICK s \in {"active", "suspended", "removed"} :
          member' = [member EXCEPT ![m].status = s, ![m].version = @ + 1]
    BY <1>5
  <2>2. PICK row : row = [role |-> old.role, status |-> s, teams |-> old.teams,
                          version |-> old.version + 1]
    OBVIOUS
  <2>3. member' = [member EXCEPT ![m] = row]
    BY <1>2, <2>1, <2>2 DEF Console!MemberRows
  <2>4. row \in Console!MemberRows /\ row.version = old.version + 1 /\ row.role = old.role
    BY <1>2, <2>2 DEF Console!MemberRows
  <2>5. QED
    BY <1>3, <2>3, <2>4
<1>6. CASE /\ member[b].role = "owner"
           /\ \E r \in {"admin", "member"} \ {member[m].role} :
                member' = [member EXCEPT ![m].role = r, ![m].version = @ + 1]
  <2>1. PICK r \in {"admin", "member"} :
          member' = [member EXCEPT ![m].role = r, ![m].version = @ + 1]
    BY <1>6
  <2>2. old.role # "owner"
    BY <1>6 DEF ConsoleInv, Workspace
  <2>3. PICK row : row = [role |-> r, status |-> old.status, teams |-> old.teams,
                          version |-> old.version + 1]
    OBVIOUS
  <2>4. member' = [member EXCEPT ![m] = row]
    BY <1>2, <2>1, <2>3 DEF Console!MemberRows
  <2>5. row \in Console!MemberRows /\ row.version = old.version + 1 /\ row.role # "owner"
    BY <1>2, <2>3 DEF Console!MemberRows, Console!Roles
  <2>6. QED
    BY <1>3, <2>2, <2>4, <2>5
<1>7. CASE \E T \in SUBSET {t \in Teams : team[t].status = "active"} :
             member' = [member EXCEPT ![m].teams = T, ![m].version = @ + 1]
  <2>1. PICK T \in SUBSET Teams :
          member' = [member EXCEPT ![m].teams = T, ![m].version = @ + 1]
    BY <1>7
  <2>2. PICK row : row = [role |-> old.role, status |-> old.status, teams |-> T,
                          version |-> old.version + 1]
    OBVIOUS
  <2>3. member' = [member EXCEPT ![m] = row]
    BY <1>2, <2>1, <2>2 DEF Console!MemberRows
  <2>4. row \in Console!MemberRows /\ row.version = old.version + 1 /\ row.role = old.role
    BY <1>2, <2>2 DEF Console!MemberRows
  <2>5. QED
    BY <1>3, <2>3, <2>4
<1>8. CASE /\ member[b].role = "owner"
           /\ member' = [member EXCEPT ![m].role = "owner", ![m].version = @ + 1,
                                       ![b].role = "admin", ![b].version = @ + 1]
  <2>1. session' \in Nat /\ session <= session'
    BY <1>1 DEF ConsoleInv, Workspace
  <2>2. Workspace' /\ Onward
    BY <1>1, <1>8, <2>1, PassedOn DEF ConsoleInv
  <2>3. QED
    BY <1>1, <2>2, ElsewhereStep
<1>9. QED
  BY <1>4, <1>5, <1>6, <1>7, <1>8

LEMMA OtherTeamStep ==
    ASSUME Console!ConsoleAssumption, ConsoleInv, NEW t \in Teams, Console!OtherTeam(t)
           PROVE ConsoleInv'
<1>1. /\ UNCHANGED <<member, invitation, session, recent>>
           /\ UNCHANGED <<Console!wire, Console!ui>>
      /\ others' \in 0 .. MaxOthers
  BY DEF Console!OtherTeam, Console!Meanwhile, Console!auth, ConsoleInv, Workspace,
     Console!ConsoleAssumption
<1>2. team' = [team EXCEPT ![t].status = "archived", ![t].version = @ + 1]
  BY DEF Console!OtherTeam
<1>3. team[t] \in Console!TeamRows /\ team \in [Teams -> Console!TeamRows]
  BY DEF ConsoleInv, Workspace
<1>4. PICK row : row = [status |-> "archived", version |-> team[t].version + 1]
  OBVIOUS
<1>5. team' = [team EXCEPT ![t] = row] /\ row \in Console!TeamRows
  BY <1>2, <1>3, <1>4 DEF Console!TeamRows
<1>6. Workspace'
  BY <1>1, <1>5 DEF ConsoleInv, Workspace
<1>7. Onward
  BY <1>1, SamePeople, SameLetters DEF ConsoleInv, Workspace, Onward
<1>8. QED
  BY <1>1, <1>6, <1>7, ElsewhereStep

LEMMA OtherInvitationStep ==
    ASSUME Console!ConsoleAssumption, ConsoleInv, NEW i \in Invitations,
           Console!OtherInvitation(i)
    PROVE  ConsoleInv'
<1>1. /\ UNCHANGED <<member, team, recent, session>> /\ UNCHANGED <<Console!wire, Console!ui>>
      /\ others' \in 0 .. MaxOthers
  BY DEF Console!OtherInvitation, Console!Meanwhile, Console!auth, ConsoleInv, Workspace,
     Console!ConsoleAssumption
<1> PICK old : old = invitation[i]
  OBVIOUS
<1>2. /\ invitation \in [Invitations -> Console!InvitationRows]
           /\ old \in Console!InvitationRows
      /\ old.version \in Nat /\ old.version + 1 \in Nat
  BY DEF ConsoleInv, Workspace, Console!InvitationRows
<1>3. ASSUME NEW row \in Console!InvitationRows, invitation' = [invitation EXCEPT ![i] = row],
             \/ old.status = "absent"
             \/ /\ row.status # "absent" /\ row.address = old.address
                /\ \/ row.version > old.version
                   \/ row.version = old.version /\ row.status = old.status
      PROVE  ConsoleInv'
  <2>1. /\ invitation' \in [Invitations -> Console!InvitationRows] /\ invitation'[i] = row
        /\ \A j \in Invitations : j # i => invitation'[j] = invitation[j]
    BY <1>2, <1>3
  <2>2. Workspace' /\ Onward
    BY <1>1, <1>3, <2>1, LetterStep DEF ConsoleInv
  <2>3. QED
    BY <1>1, <2>2, ElsewhereStep
<1>4. \/ /\ old.status = "pending"
         /\ \E s \in {"revoked", "accepted", "expired"} :
              invitation' = [invitation EXCEPT ![i].status = s, ![i].version = @ + 1]
      \/ /\ i \in Console!Unused
         /\ \E a \in Addresses :
              invitation' = [invitation EXCEPT ![i] = Console!NewInvitation(a, "member")]
      \/ /\ old.status = "pending"
         /\ invitation' = [invitation EXCEPT ![i].version = @ + 1, ![i].cooling = TRUE]
      \/ old.status = "pending" /\ invitation' = [invitation EXCEPT ![i].cooling = FALSE]
      \/ /\ old.status = "pending"
         /\ invitation' = [invitation EXCEPT ![i].lapsed = TRUE, ![i].cooling = FALSE]
  BY DEF Console!OtherInvitation
<1>5. ASSUME NEW s \in {"revoked", "accepted", "expired"},
             invitation' = [invitation EXCEPT ![i].status = s, ![i].version = @ + 1]
      PROVE  ConsoleInv'
  <2>1. PICK row : row = [status |-> s, address |-> old.address, role |-> old.role,
                          version |-> old.version + 1, lapsed |-> old.lapsed,
                          cooling |-> old.cooling]
    OBVIOUS
  <2>2. invitation' = [invitation EXCEPT ![i] = row]
    BY <1>2, <1>5, <2>1 DEF Console!InvitationRows
  <2>3. row \in Console!InvitationRows
    BY <1>2, <2>1 DEF Console!InvitationRows
  <2>4. row.status # "absent" /\ row.address = old.address /\ row.version > old.version
    BY <1>2, <2>1
  <2>5. QED
    BY <1>3, <2>2, <2>3, <2>4
<1>6. ASSUME i \in Console!Unused, NEW a \in Addresses,
             invitation' = [invitation EXCEPT ![i] = Console!NewInvitation(a, "member")]
      PROVE  ConsoleInv'
  <2>1. Console!NewInvitation(a, "member") \in Console!InvitationRows
    BY DEF Console!NewInvitation, Console!InvitationRows
  <2>2. old.status = "absent"
    BY <1>6 DEF Console!Unused
  <2>3. QED
    BY <1>3, <1>6, <2>1, <2>2
<1>7. ASSUME old.status = "pending",
             invitation' = [invitation EXCEPT ![i].version = @ + 1, ![i].cooling = TRUE]
      PROVE  ConsoleInv'
  <2>1. PICK row : row = [old EXCEPT !.version = @ + 1, !.cooling = TRUE]
    OBVIOUS
  <2>2. invitation' = [invitation EXCEPT ![i] = row]
    <3>1. invitation'[i] = row
      BY <1>2, <1>7, <2>1
    <3>2. QED
      BY <1>2, <1>7, <3>1
  <2>3. row \in Console!InvitationRows
    BY <1>2, <2>1 DEF Console!InvitationRows
  <2>4. row.status # "absent" /\ row.address = old.address /\ row.version > old.version
    BY <1>2, <1>7, <2>1 DEF Console!InvitationRows
  <2>5. QED
    BY <1>3, <2>2, <2>3, <2>4
<1>8. ASSUME old.status = "pending", invitation' = [invitation EXCEPT ![i].cooling = FALSE]
      PROVE  ConsoleInv'
  <2>1. PICK row : row = [old EXCEPT !.cooling = FALSE]
    OBVIOUS
  <2>2. invitation' = [invitation EXCEPT ![i] = row]
    <3>1. invitation'[i] = row
      BY <1>2, <1>8, <2>1
    <3>2. QED
      BY <1>2, <1>8, <3>1
  <2>3. row \in Console!InvitationRows
    BY <1>2, <2>1 DEF Console!InvitationRows
  <2>4. /\ row.status # "absent" /\ row.address = old.address
        /\ row.version = old.version /\ row.status = old.status
    BY <1>2, <1>8, <2>1 DEF Console!InvitationRows
  <2>5. QED
    BY <1>3, <2>2, <2>3, <2>4
<1>9. ASSUME old.status = "pending",
             invitation' = [invitation EXCEPT ![i].lapsed = TRUE, ![i].cooling = FALSE]
      PROVE  ConsoleInv'
  <2>1. PICK row : row = [old EXCEPT !.lapsed = TRUE, !.cooling = FALSE]
    OBVIOUS
  <2>2. invitation' = [invitation EXCEPT ![i] = row]
    <3>1. invitation'[i] = row
      BY <1>2, <1>9, <2>1
    <3>2. QED
      BY <1>2, <1>9, <3>1
  <2>3. row \in Console!InvitationRows
    BY <1>2, <2>1 DEF Console!InvitationRows
  <2>4. /\ row.status # "absent" /\ row.address = old.address
        /\ row.version = old.version /\ row.status = old.status
    BY <1>2, <1>9, <2>1 DEF Console!InvitationRows
  <2>5. QED
    BY <1>3, <2>2, <2>3, <2>4
<1>10. QED
  BY <1>4, <1>5, <1>6, <1>7, <1>8, <1>9

LEMMA AgesStep ==
    ASSUME Console!ConsoleAssumption, ConsoleInv, Console!ConfirmationAges PROVE ConsoleInv'
<1>1. /\ UNCHANGED <<member, team, invitation, session>>
           /\ UNCHANGED <<Console!wire, Console!ui>>
      /\ others' \in 0 .. MaxOthers /\ recent' = FALSE
  BY DEF Console!ConfirmationAges, Console!Meanwhile, Console!tenant, ConsoleInv, Workspace,
     Console!ConsoleAssumption
<1>2. Workspace'
  BY <1>1 DEF ConsoleInv, Workspace
<1>3. Onward
  BY <1>1, SamePeople, SameLetters DEF ConsoleInv, Workspace, Onward
<1>4. QED
  BY <1>1, <1>2, <1>3, ElsewhereStep
-----------------------------------------------------------------------------
\* A request or an answer that is lost.
LEMMA LoseStep ==
    ASSUME ConsoleInv, NEW k \in Slots, Console!Lose(k) PROVE ConsoleInv'
<1>1. /\ calls' = [calls EXCEPT ![k] = Console!NoCall] /\ lost' = TRUE
      /\ UNCHANGED <<Console!World, cookie, clicks, Console!ui>>
  BY DEF Console!Lose, Console!World
<1>2. /\ UNCHANGED <<page, Console!lists, Console!form, Console!banner, rows, groups, letters,
           authority>>
      /\ UNCHANGED <<asked, drafts, dirty, verified, busy, stale, notice>> /\ DraftsStay
  BY <1>1 DEF Console!ui, Console!lists, Console!form, Console!choices, Console!banner,
     DraftsStay
<1>3. CallsMove
  BY <1>1, OneCall DEF CallSound, Console!NoCall
<1>4. Onward /\ Workspace' /\ session' = session
  BY <1>1, Unmoved DEF Console!World, Console!auth
<1>5. Wire'
  <2>1. ASSUME NEW c \in {calls'[j] : j \in Slots} PROVE CallSound(c)'
    BY <1>2, <1>3, <1>4, CallStays DEF ConsoleInv, Wire, CallsMove
  <2>2. QED
    BY <1>1, <1>3, <1>4, <2>1 DEF ConsoleInv, Wire, CallsMove
<1>6. Lists'
  BY <1>2, <1>4 DEF ConsoleInv, Lists, Onward
<1>7. Asked'
  BY <1>2, <1>4, AsksStays DEF ConsoleInv, Asked
<1>8. Written' /\ Banner'
  BY <1>2, <1>4 DEF ConsoleInv, Written, Banner, Told, Onward
<1>9. Counts'
  BY <1>1, <1>2 DEF ConsoleInv, Counts
<1>10. QED
  BY <1>4, <1>5, <1>6, <1>7, <1>8, <1>9 DEF ConsoleInv
-----------------------------------------------------------------------------
\* What a step of the page leaves to the server, and does to its requests.
PageMoves ==
    /\ UNCHANGED <<Console!World, page>> /\ DraftsStay /\ CallsMove
    /\ cookie' \in 0 .. session /\ Counts'

LEMMA PageStep ==
    ASSUME ConsoleInv, PageMoves, Lists', Asked', Written', Banner' PROVE ConsoleInv'
<1>1. Onward /\ Workspace' /\ session' = session /\ page' = page
  BY Unmoved DEF PageMoves, Console!World, Console!auth
<1>2. ASSUME NEW c \in {calls'[j] : j \in Slots} PROVE CallSound(c)'
  BY <1>1, CallStays DEF ConsoleInv, Wire, CallsMove, PageMoves
<1>3. Wire'
  BY <1>1, <1>2 DEF Wire, CallsMove, PageMoves
<1>4. QED
  BY <1>1, <1>3 DEF ConsoleInv, PageMoves

\* A request is still one of the page after a step of the page.
LEMMA AsksKept ==
    ASSUME ConsoleInv, UNCHANGED <<Console!World, page>>, DraftsStay, NEW q, Asks(q)
    PROVE  Asks(q)'
  BY Unmoved, AsksStays DEF ConsoleInv

LEMMA ClickMoves ==
    ASSUME Console!ConsoleAssumption, ConsoleInv, NEW q, Asks(q)', Console!Click(q),
           page' = page
    PROVE  CallsMove /\ cookie' \in 0 .. session /\ Counts'
<1>1. PICK k, c : k = Console!Min(Console!Free) /\ c = Console!Sent(q)
  OBVIOUS
<1>2. calls' = [calls EXCEPT ![k] = c] /\ UNCHANGED <<cookie, lost>>
  BY <1>1 DEF Console!Click, Console!Start
<1>3. c.at = "sent" /\ c.req = q
  BY <1>1 DEF Console!Sent
<1>4. CallSound(c)'
  BY <1>3 DEF CallSound
<1>5. Counts'
  BY <1>2 DEF Console!Click, ConsoleInv, Counts, Lists, Console!ConsoleAssumption
<1>6. QED
  BY <1>2, <1>4, <1>5, OneCall DEF ConsoleInv, Wire

LEMMA FollowMoves ==
    ASSUME ConsoleInv, NEW k \in Slots, NEW q, Asks(q)', Console!Follow(k, q), page' = page
    PROVE  CallsMove /\ cookie' \in 0 .. session /\ Counts'
<1>1. PICK c : c = Console!Sent(q)
  OBVIOUS
<1>2. calls' = [calls EXCEPT ![k] = c] /\ UNCHANGED <<cookie, clicks, lost>>
  BY <1>1 DEF Console!Follow
<1>3. c.at = "sent" /\ c.req = q
  BY <1>1 DEF Console!Sent
<1>4. CallSound(c)'
  BY <1>3 DEF CallSound
<1>5. QED
  BY <1>2, <1>4, OneCall DEF ConsoleInv, Wire, Counts

LEMMA CloseMoves ==
    ASSUME ConsoleInv, NEW k \in Slots, Console!Close(k), page' = page
    PROVE  CallsMove /\ cookie' \in 0 .. session /\ Counts'
<1>1. calls' = [calls EXCEPT ![k] = Console!NoCall] /\ UNCHANGED <<cookie, clicks, lost>>
  BY DEF Console!Close
<1>2. CallSound(Console!NoCall)'
  BY DEF CallSound, Console!NoCall
<1>3. QED
  BY <1>1, <1>2, OneCall DEF ConsoleInv, Wire, Counts

LEMMA StillMoves ==
    ASSUME ConsoleInv, UNCHANGED <<Console!wire, page>>
    PROVE  CallsMove /\ cookie' \in 0 .. session /\ Counts'
  BY DEF ConsoleInv, Wire, CallsMove, Console!wire, Counts

LEMMA ListsStay ==
    ASSUME ConsoleInv, UNCHANGED <<Console!World, page, Console!lists>> PROVE Lists'
<1>1. UNCHANGED <<page, rows, authority, groups, letters>>
  BY DEF Console!lists
<1>2. QED
  BY <1>1, Unmoved DEF ConsoleInv, Lists, Onward

LEMMA AskedStays ==
    ASSUME ConsoleInv, UNCHANGED <<Console!World, page>>, DraftsStay, asked' \in {asked, None}
    PROVE  Asked'
<1>1. CASE asked' = None
  BY <1>1 DEF Asked
<1>2. CASE asked' = asked
  BY <1>2, AsksKept DEF ConsoleInv, Asked
<1>3. QED
  BY <1>1, <1>2

LEMMA WrittenStays ==
    ASSUME ConsoleInv, UNCHANGED <<Console!World, Console!choices>> PROVE Written' /\ DraftsStay
<1>1. UNCHANGED <<drafts, dirty, verified>>
  BY DEF Console!choices
<1>2. QED
  BY <1>1, Unmoved DEF ConsoleInv, Written, DraftsStay, Onward

Quiet(n) == n.text \notin {"saved", "transferred"}

LEMMA QuietBanner ==
    ASSUME ConsoleInv, page' = page, page = "invite" \/ busy' \in Members \cup {None},
           Quiet(notice')
    PROVE  Banner'
  BY DEF Quiet, Banner, Told

LEMMA SaysQuietly ==
    ASSUME NEW text, text \notin {"saved", "transferred"} PROVE Quiet(Console!Say(text))
  BY DEF Quiet, Console!Say, Console!Nothing

LEMMA BannerStays ==
    ASSUME ConsoleInv, UNCHANGED <<Console!World, page, rows, Console!banner>> PROVE Banner'
<1>1. UNCHANGED <<page, rows, busy, notice>>
  BY DEF Console!banner
<1>2. QED
  BY <1>1, Unmoved DEF ConsoleInv, Banner, Told, Onward

\* A click that sends a request, and changes only what the page says.
LEMMA ClickStep ==
    ASSUME Console!ConsoleAssumption, ConsoleInv, NEW q, Asks(q), Console!Click(q),
           UNCHANGED <<Console!World, page, Console!lists, Console!choices>>,
             asked' \in {asked, None}, Banner'
    PROVE  ConsoleInv'
<1>1. DraftsStay /\ Written'
  BY WrittenStays
<1>2. PageMoves
  BY <1>1, AsksKept, ClickMoves DEF PageMoves
<1>3. QED
  BY <1>1, <1>2, ListsStay, AskedStays, PageStep

\* A click that asks its user to confirm.
LEMMA AskStep ==
    ASSUME ConsoleInv, UNCHANGED <<Console!World, Console!wire, page, Console!lists,
           Console!choices, Console!banner>>, Asked'
    PROVE  ConsoleInv'
<1>1. DraftsStay /\ Written' /\ PageMoves
  BY WrittenStays, StillMoves DEF PageMoves
<1>2. rows' = rows
  BY DEF Console!lists
<1>3. QED
  BY <1>1, <1>2, ListsStay, BannerStays, PageStep

\* An answer that changes only the lists and what the page says.
LEMMA CloseStep ==
    ASSUME ConsoleInv, NEW k \in Slots, Console!Close(k),
           UNCHANGED <<Console!World, page, Console!form>>, Lists', Banner'
    PROVE  ConsoleInv'
<1>1. UNCHANGED <<Console!choices, asked>>
  BY DEF Console!form
<1>2. DraftsStay /\ Written'
  BY <1>1, WrittenStays
<1>3. PageMoves
  BY <1>2, CloseMoves DEF PageMoves
<1>4. QED
  BY <1>1, <1>2, <1>3, AskedStays, PageStep
-----------------------------------------------------------------------------
LEMMA SavePersonStep ==
    ASSUME Console!ConsoleAssumption, ConsoleInv, NEW q, Asks(q), q.of \in Members,
           Console!SavePerson(q),
           UNCHANGED Console!World, asked' \in {asked, None}
    PROVE  ConsoleInv'
<1>1. /\ Console!Click(q) /\ UNCHANGED <<Console!World, page, Console!lists, Console!choices>>
      /\ busy' = q.of /\ notice' = Console!Say("working")
  BY DEF Console!SavePerson
<1>2. Banner'
  BY <1>1, QuietBanner, SaysQuietly
<1>3. QED
  BY <1>1, <1>2, ClickStep

LEMMA ChoosePersonStep ==
    ASSUME Console!ConsoleAssumption, ConsoleInv, NEW m \in Members, Console!ChoosePerson(m)
    PROVE  ConsoleInv'
<1>0. PICK kind \in {"role", "status"},
           to \in {"admin", "member", "active", "suspended", "removed"} :
             /\ kind = "role" <=> to \in {"admin", "member"}
             /\ LET q == Console!Request(kind, m, to, rows[m]) IN
                \/ Console!SavePerson(q) /\ UNCHANGED asked
                \/ asked' = q /\ UNCHANGED <<Console!wire, page, Console!lists,
                     Console!choices, Console!banner>>
  BY DEF Console!ChoosePerson
<1>1. PICK q : /\ q = Console!Request(kind, m, to, rows[m])
               /\ \/ Console!SavePerson(q) /\ UNCHANGED asked
                  \/ asked' = q /\ UNCHANGED <<Console!wire, page, Console!lists,
                       Console!choices, Console!banner>>
  BY <1>0
<1>2. page = "people" /\ UNCHANGED Console!World
  BY DEF Console!ChoosePerson
<1>3. /\ q.kind = kind /\ q.of = m /\ q.to = to
      /\ q.version = rows[m].version /\ q.seen = rows[m]
  BY <1>1 DEF Console!Request
<1>4. Shown(rows[m], m)
  BY <1>2 DEF ConsoleInv, Lists
<1>5. Asks(q)
  BY <1>0, <1>2, <1>3, <1>4 DEF Asks, AsksPerson
<1>6. CASE Console!SavePerson(q) /\ UNCHANGED asked
  BY <1>2, <1>3, <1>5, <1>6, SavePersonStep
<1>7. CASE asked' = q /\ UNCHANGED <<Console!wire, page, Console!lists, Console!choices,
        Console!banner>>
  <2>1. Asks(q)'
    BY <1>2, <1>5, <1>7, AsksKept, WrittenStays
  <2>2. Asked'
    BY <1>2, <1>3, <1>7, <2>1 DEF Asked
  <2>3. QED
    BY <1>2, <1>7, <2>2, AskStep
<1>8. QED
  BY <1>1, <1>6, <1>7

LEMMA ConfirmPersonStep ==
    ASSUME Console!ConsoleAssumption, ConsoleInv, Console!ConfirmPerson PROVE ConsoleInv'
<1>1. PICK q : q = asked
  OBVIOUS
<1>2. /\ Console!SavePerson(q) /\ UNCHANGED Console!World /\ asked' = None
      /\ page = "people" /\ q # None
  BY <1>1 DEF Console!ConfirmPerson
<1>3. Asks(q) /\ q.of \in Members
  BY <1>1, <1>2 DEF ConsoleInv, Asked, Asks, AsksPerson
<1>4. QED
  BY <1>2, <1>3, SavePersonStep

LEMMA ReturnPersonStep ==
    ASSUME ConsoleInv, NEW k \in Slots, Console!ReturnPerson(k) PROVE ConsoleInv'
<1>1. PICK q : q = calls[k].req
  OBVIOUS
<1>2. /\ calls[k].at = "answered" /\ q.kind \in {"role", "status"}
      /\ UNCHANGED <<Console!World, page, Console!lists, Console!form>>
  BY <1>1 DEF Console!ReturnPerson, Console!Arrived
<1>3. CallSound(calls[k])
  BY Opened
<1>4. Asks(q) /\ page = "people" /\ q.of \in Members /\ q.version \in Nat
  BY <1>1, <1>2, <1>3 DEF CallSound, Asks, AsksPerson, Shown, Console!MemberRows
<1>5. /\ UNCHANGED <<Console!choices, asked, rows>> /\ Lists' /\ DraftsStay /\ Written'
      /\ Asked'
  BY <1>2, ListsStay, WrittenStays, AskedStays DEF Console!form, Console!lists
<1>6. ASSUME NEW p, Asks(p), Console!Follow(k, p), Banner' PROVE ConsoleInv'
  <2>1. PageMoves
    BY <1>2, <1>5, <1>6, AsksKept, FollowMoves DEF PageMoves
  <2>2. QED
    BY <1>5, <1>6, <2>1, PageStep
<1>7. CASE calls[k].code = "ok"
  <2>1. PICK p : p = Console!Read("people", Console!Saved(q.of, q.version), TRUE)
    OBVIOUS
  <2>2. Console!Follow(k, p) /\ UNCHANGED Console!banner
    BY <1>1, <1>7, <2>1 DEF Console!ReturnPerson
  <2>3. member[q.of].version > q.version
    BY <1>1, <1>2, <1>3, <1>7 DEF CallSound, Tells
  <2>4. p.kind = "people" /\ p.then = [text |-> "saved", of |-> q.of, version |-> q.version]
    BY <2>1 DEF Console!Read, Console!Saved
  <2>5. p.then.text = "saved" /\ p.then.of = q.of /\ p.then.version = q.version
    BY <2>4
  <2>6. Asks(p)
    BY <1>4, <2>3, <2>4, <2>5 DEF Asks
  <2>7. QED
    BY <1>2, <1>5, <1>6, <2>2, <2>6, BannerStays
<1>8. CASE calls[k].code = "gone"
  <2>1. PICK p : p = Console!Read("people", Console!Say("denied"), FALSE)
    OBVIOUS
  <2>2. Console!Follow(k, p) /\ busy' = None /\ notice' = Console!Say("denied")
    BY <1>8, <2>1 DEF Console!ReturnPerson
  <2>3. p.kind = "people" /\ Quiet(p.then)
    BY <2>1, SaysQuietly DEF Console!Read
  <2>4. Asks(p)
    BY <1>4, <2>3 DEF Asks, Quiet
  <2>5. QED
    BY <1>2, <1>6, <2>2, <2>4, QuietBanner, SaysQuietly
<1>9. CASE calls[k].code \notin {"ok", "gone"}
  <2>1. Console!Close(k) /\ busy' = None /\ notice' \in {Console!Say("changed"),
          Console!Say("failed")}
    BY <1>9 DEF Console!ReturnPerson
  <2>2. Banner'
    BY <1>2, <2>1, QuietBanner, SaysQuietly
  <2>3. QED
    BY <1>2, <1>5, <2>1, <2>2, CloseStep
<1>10. QED
  BY <1>7, <1>8, <1>9

LEMMA ReloadPageStep ==
    ASSUME Console!ConsoleAssumption, ConsoleInv, Console!ReloadPage PROVE ConsoleInv'
<1>1. PICK q : q = Console!Read(page, Console!Say("latest"), FALSE)
  OBVIOUS
<1>2. /\ Console!Click(q) /\ UNCHANGED <<Console!World, Console!ui>>
           /\ page \in {"people", "invitations"}
  BY <1>1 DEF Console!ReloadPage
<1>3. q.kind = page /\ Quiet(q.then)
  BY <1>1, SaysQuietly DEF Console!Read
<1>4. Asks(q)
  BY <1>2, <1>3 DEF Asks, Quiet
<1>5. UNCHANGED <<page, Console!lists, Console!choices, asked, rows, Console!banner>>
  BY <1>2 DEF Console!ui, Console!form, Console!lists
<1>6. QED
  BY <1>2, <1>4, <1>5, ClickStep, BannerStays

LEMMA ReturnPeopleStep ==
    ASSUME ConsoleInv, NEW k \in Slots, Console!ReturnPeople(k) PROVE ConsoleInv'
<1>1. PICK q, body : q = calls[k].req /\ body = calls[k].body
  OBVIOUS
<1>2. /\ calls[k].at = "answered" /\ q.kind = "people" /\ Console!Close(k)
      /\ UNCHANGED <<Console!World, page, groups, letters, Console!form>>
      /\ busy' = IF q.ends THEN None ELSE busy
  BY <1>1 DEF Console!ReturnPeople, Console!Arrived
<1>3. CallSound(calls[k])
  BY Opened
<1>4. Asks(q) /\ page = "people"
  BY <1>1, <1>2, <1>3 DEF CallSound, Asks
<1>5. busy' \in Members \cup {None}
  BY <1>2, <1>4 DEF ConsoleInv, Banner
<1>6. CASE calls[k].code = "ok"
  <2>1. rows' = Console!Reloaded(body.rows) /\ authority' = body.authority /\ notice' = q.then
    BY <1>1, <1>6 DEF Console!ReturnPeople
  <2>2. Tells(q, body)
    BY <1>1, <1>2, <1>3, <1>6 DEF CallSound
  <2>3. ASSUME NEW m \in Members
        PROVE  /\ rows'[m] \in Console!MemberRows /\ rows'[m].role = body.rows[m].role
               /\ rows'[m].status = body.rows[m].status
               /\ rows'[m].version = body.rows[m].version
    <3>1. rows'[m] = [body.rows[m] EXCEPT !.teams = rows[m].teams]
      BY <2>1 DEF Console!Reloaded
    <3>2. body.rows[m] \in Console!MemberRows /\ rows[m].teams \subseteq Teams
      BY <1>2, <2>2 DEF Tells, ConsoleInv, Lists, Console!MemberRows
    <3>3. QED
      BY <3>1, <3>2 DEF Console!MemberRows
  <2>4. rows' \in [Members -> Console!MemberRows]
    BY <2>1, <2>3 DEF Console!Reloaded
  <2>5. \A m \in Members : Shown(rows[m], m)'
    <3>1. \A m \in Members : Shown(body.rows[m], m)
      BY <1>2, <2>2 DEF Tells
    <3>2. UNCHANGED member
      BY <1>2 DEF Console!World, Console!tenant
    <3>3. QED
      BY <2>3, <2>4, <3>1, <3>2 DEF Shown
  <2>6. \A i \in Invitations : ShownLetter(letters[i], i)'
    BY <1>2, Unmoved DEF ConsoleInv, Lists, Onward
  <2>7. Lists'
    <3>1. authority' \in Console!Roles
      BY <1>2, <2>1, <2>2 DEF Tells
    <3>2. letters' \in [Invitations -> Console!InvitationRows]
            /\ groups' \in [Teams -> Console!TeamRows]
      BY <1>2 DEF ConsoleInv, Lists
    <3>3. page' \in Pages /\ letters' = letters
      BY <1>2 DEF ConsoleInv, Lists
    <3>4. QED
      BY <2>4, <2>5, <2>6, <3>1, <3>2, <3>3 DEF Lists
  <2>8. Banner'
    BY <1>2, <1>4, <1>5, <2>1, <2>2, <2>3 DEF Banner, Told, Asks, Tells
  <2>9. QED
    BY <1>2, <2>7, <2>8, CloseStep
<1>7. CASE calls[k].code # "ok"
  <2>1. notice' = Console!Say("unloaded") /\ UNCHANGED Console!lists
    BY <1>2, <1>7 DEF Console!ReturnPeople, Console!lists
  <2>2. QED
    BY <1>2, <1>5, <2>1, CloseStep, ListsStay, QuietBanner, SaysQuietly
<1>8. QED
  BY <1>6, <1>7

LEMMA CancelStep ==
    ASSUME ConsoleInv, Console!Cancel PROVE ConsoleInv'
  BY AskStep DEF Console!Cancel, Asked

-----------------------------------------------------------------------------
\* A request about an invitation that is shown as pending.
LEMMA AsksShownLetter ==
    ASSUME ConsoleInv, NEW i \in Invitations, letters[i].status = "pending",
           NEW kind \in {"resend", "revoke"}, NEW q, q = Console!Request(kind, i, None,
             letters[i])
    PROVE  q.kind = kind /\ Asks(q)
<1>1. q.kind = kind /\ q.of = i /\ q.version = letters[i].version /\ q.seen = letters[i]
  BY DEF Console!Request
<1>2. QED
  BY <1>1 DEF ConsoleInv, Lists, Asks, AsksLetter

LEMMA SendLetterStep ==
    ASSUME Console!ConsoleAssumption, ConsoleInv, NEW q, Asks(q), Console!SendLetter(q),
           page = "invitations",
           UNCHANGED Console!World, asked' \in {asked, None}
    PROVE  ConsoleInv'
<1>1. /\ Console!Click(q) /\ UNCHANGED <<Console!World, page, Console!lists, Console!choices,
           busy>>
      /\ notice' = Console!Say("working")
  BY DEF Console!SendLetter
<1>2. Banner'
  BY <1>1, QuietBanner, SaysQuietly DEF ConsoleInv, Banner
<1>3. QED
  BY <1>1, <1>2, ClickStep

LEMMA LetterClicks ==
    ASSUME Console!ConsoleAssumption, ConsoleInv, NEW i \in Invitations,
           Console!ResendLetter(i) \/ Console!AskRevoke(i)
    PROVE  ConsoleInv'
<1>1. CASE Console!ResendLetter(i)
  <2>1. PICK q : q = Console!Request("resend", i, None, letters[i])
    OBVIOUS
  <2>2. /\ Console!SendLetter(q) /\ page = "invitations" /\ UNCHANGED <<Console!World, asked>>
        /\ letters[i].status = "pending"
    BY <1>1, <2>1 DEF Console!ResendLetter
  <2>3. Asks(q)
    BY <2>1, <2>2, AsksShownLetter
  <2>4. QED
    BY <2>2, <2>3, SendLetterStep
<1>2. CASE Console!AskRevoke(i)
  <2>1. PICK q : q = Console!Request("revoke", i, None, letters[i])
    OBVIOUS
  <2>2. /\ UNCHANGED <<Console!World, Console!wire, page, Console!lists, Console!choices,
             Console!banner>> /\ page = "invitations"
        /\ asked' = q /\ letters[i].status = "pending"
    BY <1>2, <2>1 DEF Console!AskRevoke
  <2>3. q.kind = "revoke" /\ Asks(q)
    BY <2>1, <2>2, AsksShownLetter
  <2>4. Asks(q)'
    BY <2>2, <2>3, AsksKept, WrittenStays
  <2>5. Asked'
    BY <2>2, <2>3, <2>4 DEF Asked
  <2>6. QED
    BY <2>2, <2>5, AskStep
<1>3. QED
  BY <1>1, <1>2

LEMMA ConfirmRevokeStep ==
    ASSUME Console!ConsoleAssumption, ConsoleInv, Console!ConfirmRevoke PROVE ConsoleInv'
<1>1. PICK q : q = asked
  OBVIOUS
<1>2. /\ Console!SendLetter(q) /\ UNCHANGED Console!World /\ asked' = None
      /\ page = "invitations" /\ q # None
  BY <1>1 DEF Console!ConfirmRevoke
<1>3. Asks(q)
  BY <1>1, <1>2 DEF ConsoleInv, Asked
<1>4. QED
  BY <1>2, <1>3, SendLetterStep

LEMMA ReturnLetterStep ==
    ASSUME ConsoleInv, NEW k \in Slots, Console!ReturnLetter(k) PROVE ConsoleInv'
<1>1. PICK q : q = calls[k].req
  OBVIOUS
<1>2. PICK body : body = calls[k].body
  OBVIOUS
<1>3. /\ calls[k].at = "answered" /\ q.kind \in {"resend", "revoke"} /\ Console!Close(k)
      /\ UNCHANGED <<Console!World, page, rows, authority, groups, Console!form, busy>>
      /\ notice' \in {Console!Say("letter"), Console!Say("failed")}
  BY <1>1 DEF Console!ReturnLetter, Console!Arrived
<1>4. CallSound(calls[k])
  BY Opened
<1>5. Banner'
  BY <1>3, QuietBanner, SaysQuietly DEF ConsoleInv, Banner
<1>6. CASE calls[k].code = "ok"
  <2>1. letters' = [letters EXCEPT ![q.of].status = "absent", ![body.id] = body.row]
    BY <1>1, <1>2, <1>6 DEF Console!ReturnLetter
  <2>2. /\ q.of \in Invitations /\ body.id \in Invitations /\ ShownLetter(body.row, body.id)
    BY <1>1, <1>2, <1>3, <1>4, <1>6 DEF CallSound, Asks, AsksLetter, Tells
  <2>3. /\ letters \in [Invitations -> Console!InvitationRows]
             /\ letters[q.of] \in Console!InvitationRows
        /\ \A i \in Invitations : ShownLetter(letters[i], i)
    BY <2>2 DEF ConsoleInv, Lists
  <2>4. PICK gone : gone = [letters[q.of] EXCEPT !.status = "absent"]
    OBVIOUS
  <2>5. gone \in Console!InvitationRows /\ gone.status = "absent"
    BY <2>3, <2>4 DEF Console!InvitationRows
  <2>6. ASSUME NEW i \in Invitations
        PROVE  letters'[i] \in {body.row, gone, letters[i]} /\ ShownLetter(letters'[i], i)
    <3>1. CASE i = body.id
      BY <2>1, <2>2, <2>3, <3>1
    <3>2. CASE i # body.id /\ i = q.of
      <4>1. letters'[i] = gone
        BY <2>1, <2>3, <2>4, <3>2
      <4>2. QED
        BY <2>5, <4>1 DEF ShownLetter
    <3>3. CASE i # body.id /\ i # q.of
      BY <2>1, <2>3, <3>3
    <3>4. QED
      BY <3>1, <3>2, <3>3
  <2>7. letters' \in [Invitations -> Console!InvitationRows]
    <3>1. letters' = [i \in Invitations |-> letters'[i]]
      BY <2>1, <2>3
    <3>2. \A i \in Invitations : letters'[i] \in Console!InvitationRows
      BY <2>6 DEF ShownLetter
    <3>3. QED
      BY <3>1, <3>2
  <2>8. UNCHANGED <<member, invitation>>
    BY <1>3 DEF Console!World, Console!tenant
  <2>9. \A i \in Invitations : ShownLetter(letters[i], i)'
    BY <2>6, <2>8 DEF ShownLetter
  <2>10. page' \in {"people", "transfer"} => \A m \in Members : Shown(rows[m], m)'
    BY <1>3, <2>8 DEF ConsoleInv, Lists, Shown
  <2>11. Lists'
    BY <1>3, <2>7, <2>9, <2>10 DEF ConsoleInv, Lists
  <2>12. QED
    BY <1>3, <1>5, <2>11, CloseStep
<1>7. CASE calls[k].code # "ok"
  <2>1. UNCHANGED Console!lists
    BY <1>3, <1>7 DEF Console!ReturnLetter, Console!lists
  <2>2. QED
    BY <1>3, <1>5, <2>1, ListsStay, CloseStep
<1>8. QED
  BY <1>6, <1>7

LEMMA ReturnInvitationsStep ==
    ASSUME ConsoleInv, NEW k \in Slots, Console!ReturnInvitations(k) PROVE ConsoleInv'
<1>1. PICK q : q = calls[k].req
  OBVIOUS
<1>2. PICK body : body = calls[k].body
  OBVIOUS
<1>3. /\ calls[k].at = "answered" /\ q.kind = "invitations" /\ Console!Close(k)
      /\ UNCHANGED <<Console!World, page, rows, authority, groups, Console!form, busy>>
  BY <1>1 DEF Console!ReturnInvitations, Console!Arrived
<1>4. CallSound(calls[k])
  BY Opened
<1>5. CASE calls[k].code = "ok"
  <2>1. letters' = body /\ notice' = q.then
    BY <1>1, <1>2, <1>5 DEF Console!ReturnInvitations
  <2>2. Asks(q) /\ Tells(q, body)
    BY <1>1, <1>2, <1>3, <1>4, <1>5 DEF CallSound
  <2>3. Quiet(notice')
    BY <1>3, <2>1, <2>2 DEF Asks, Quiet
  <2>4. Banner'
    BY <1>3, <2>3, QuietBanner DEF ConsoleInv, Banner
  <2>5. UNCHANGED <<member, invitation>>
    BY <1>3 DEF Console!World, Console!tenant
  <2>6. /\ letters' \in [Invitations -> Console!InvitationRows]
        /\ \A i \in Invitations : ShownLetter(letters[i], i)'
    BY <1>3, <2>1, <2>2, <2>5 DEF Tells, ShownLetter
  <2>7. page' \in {"people", "transfer"} => \A m \in Members : Shown(rows[m], m)'
    BY <1>3, <2>5 DEF ConsoleInv, Lists, Shown
  <2>8. Lists'
    BY <1>3, <2>6, <2>7 DEF ConsoleInv, Lists
  <2>9. QED
    BY <1>3, <2>4, <2>8, CloseStep
<1>6. CASE calls[k].code # "ok"
  <2>1. notice' = Console!Say("unloaded") /\ UNCHANGED Console!lists
    BY <1>3, <1>6 DEF Console!ReturnInvitations, Console!lists
  <2>2. Banner'
    BY <1>3, <2>1, QuietBanner, SaysQuietly DEF ConsoleInv, Banner
  <2>3. QED
    BY <1>3, <2>1, <2>2, ListsStay, CloseStep
<1>7. QED
  BY <1>5, <1>6
-----------------------------------------------------------------------------
\* A step on the list of drafts that sends nothing.
LEMMA DraftStep ==
    ASSUME ConsoleInv, UNCHANGED <<Console!World, Console!wire, page, Console!lists, dirty,
           verified, asked, Console!banner>>,
           drafts' \in Seq(Console!DraftRows), DraftsStay,
           \A d \in DOMAIN drafts' : drafts'[d].state = "sent" =>
              /\ d \in DOMAIN drafts /\ drafts[d].state = "sent"
              /\ drafts'[d].address = drafts[d].address
              /\ drafts'[d].letter = drafts[d].letter
    PROVE  ConsoleInv'
<1>1. PageMoves
  BY StillMoves DEF PageMoves
<1>2. rows' = rows
  BY DEF Console!lists
<1>3. \A d \in DOMAIN drafts' : drafts'[d].state = "sent" =>
         Invited(drafts'[d].letter, drafts'[d].address)
  BY DEF ConsoleInv, Written
<1>4. UNCHANGED <<invitation>>
  BY DEF Console!World, Console!tenant
<1>5. Written'
  BY <1>3, <1>4 DEF ConsoleInv, Written, Invited, Console!WasPending
<1>6. QED
  BY <1>1, <1>2, <1>5, ListsStay, AskedStays, BannerStays, PageStep

LEMMA AddDraftsStep ==
    ASSUME ConsoleInv, NEW a \in Addresses, Console!AddDrafts(a) PROVE ConsoleInv'
<1>1. PICK r \in {"admin", "member"}, copies \in {<<1>>, <<1, 2>>} :
        drafts' = drafts \o [c \in DOMAIN copies |-> Console!Draft(a, r)]
  BY DEF Console!AddDrafts
<1>2. PICK n \in {1, 2} : DOMAIN copies = 1 .. n
  BY <1>1
<1>3. PICK row : row = Console!Draft(a, r)
  OBVIOUS
<1>4. row \in Console!DraftRows /\ row.state = "ready"
  BY <1>3 DEF Console!Draft, Console!DraftRows
<1>5. PICK more : more = [c \in 1 .. n |-> row]
  OBVIOUS
<1>6. more \in Seq(Console!DraftRows) /\ Len(more) = n
        /\ \A c \in 1 .. n : more[c].state = "ready"
  BY <1>4, <1>5
<1>7. drafts' = drafts \o more /\ drafts \in Seq(Console!DraftRows)
  BY <1>1, <1>2, <1>3, <1>5 DEF ConsoleInv, Written
<1>8. /\ drafts' \in Seq(Console!DraftRows) /\ Len(drafts') = Len(drafts) + n
      /\ \A d \in 1 .. Len(drafts) : drafts'[d] = drafts[d]
      /\ \A d \in Len(drafts) + 1 .. Len(drafts) + n : drafts'[d].state = "ready"
  BY <1>6, <1>7
<1>9. DraftsStay
  BY <1>7, <1>8 DEF DraftsStay
<1>10. \A d \in DOMAIN drafts' : drafts'[d].state = "sent" => d \in DOMAIN drafts
  BY <1>7, <1>8
<1>11. QED
  BY <1>7, <1>8, <1>9, <1>10, DraftStep DEF Console!AddDrafts

LEMMA EditDraftStep ==
    ASSUME ConsoleInv, NEW d \in DOMAIN drafts, Console!EditDraft(d) PROVE ConsoleInv'
<1>1. drafts \in Seq(Console!DraftRows) /\ drafts[d] \in Console!DraftRows
  BY DEF ConsoleInv, Written
<1>2. PICK row : /\ drafts' = [drafts EXCEPT ![d] = row] /\ row \in Console!DraftRows
                 /\ row.address = drafts[d].address /\ row.state = drafts[d].state
                 /\ row.letter = drafts[d].letter
  <2>1. ASSUME NEW r \in {"admin", "member"}, drafts' = [drafts EXCEPT ![d].role = r]
        PROVE  \E row : /\ drafts' = [drafts EXCEPT ![d] = row] /\ row \in Console!DraftRows
                        /\ row.address = drafts[d].address /\ row.state = drafts[d].state
                        /\ row.letter = drafts[d].letter
    <3>1. PICK row : row = [drafts[d] EXCEPT !.role = r]
      OBVIOUS
    <3>2. drafts' = [drafts EXCEPT ![d] = row]
      BY <1>1, <2>1, <3>1
    <3>3. /\ row \in Console!DraftRows /\ row.address = drafts[d].address
          /\ row.state = drafts[d].state /\ row.letter = drafts[d].letter
      BY <1>1, <3>1 DEF Console!DraftRows
    <3>4. QED
      BY <3>2, <3>3
  <2>2. ASSUME NEW t \in Teams,
               drafts' = [drafts EXCEPT ![d].teams = IF t \in @ THEN @ \ {t} ELSE @ \cup {t}]
        PROVE  \E row : /\ drafts' = [drafts EXCEPT ![d] = row] /\ row \in Console!DraftRows
                        /\ row.address = drafts[d].address /\ row.state = drafts[d].state
                        /\ row.letter = drafts[d].letter
    <3>1. PICK row : row = [drafts[d] EXCEPT !.teams = IF t \in @ THEN @ \ {t} ELSE @ \cup {t}]
      OBVIOUS
    <3>2. drafts' = [drafts EXCEPT ![d] = row]
      BY <1>1, <2>2, <3>1
    <3>3. /\ row \in Console!DraftRows /\ row.address = drafts[d].address
          /\ row.state = drafts[d].state /\ row.letter = drafts[d].letter
      BY <1>1, <3>1 DEF Console!DraftRows
    <3>4. QED
      BY <3>2, <3>3
  <2>3. QED
    BY <2>1, <2>2 DEF Console!EditDraft
<1>3. /\ drafts' \in Seq(Console!DraftRows) /\ DOMAIN drafts' = DOMAIN drafts
      /\ \A e \in DOMAIN drafts : /\ drafts'[e].address = drafts[e].address
                                  /\ drafts'[e].state = drafts[e].state
                                  /\ drafts'[e].letter = drafts[e].letter
  BY <1>1, <1>2
<1>4. DraftsStay
  BY <1>3 DEF DraftsStay
<1>5. QED
  BY <1>3, <1>4, DraftStep DEF Console!EditDraft

\* A request for a draft.
LEMMA AsksInvite ==
    ASSUME ConsoleInv, NEW row \in Console!DraftRows, NEW d \in DOMAIN drafts', NEW batch,
           NEW q,
           q = Console!Invite(d, row, batch), page' = "invite", drafts'[d].address = row.address
    PROVE  Asks(q)'
<1>1. /\ q.kind = "invite" /\ q.of = row.address /\ q.role = row.role /\ q.draft = d
  BY DEF Console!Invite
<1>2. row.address \in Addresses /\ row.role \in {"admin", "member"}
  BY DEF Console!DraftRows
<1>3. QED
  BY <1>1, <1>2 DEF Asks

LEMMA RetryDraftStep ==
    ASSUME Console!ConsoleAssumption, ConsoleInv, NEW d \in DOMAIN drafts, Console!RetryDraft(d)
    PROVE  ConsoleInv'
<1>1. drafts \in Seq(Console!DraftRows) /\ drafts[d] \in Console!DraftRows
  BY DEF ConsoleInv, Written
<1>2. PICK old : old = drafts[d]
  OBVIOUS
<1>3. PICK row : row = [old EXCEPT !.state = "sending"]
  OBVIOUS
<1>4. PICK q : q = Console!Invite(d, old, FALSE)
  OBVIOUS
<1>5. /\ Console!Click(q) /\ page = "invite" /\ page' = page
      /\ UNCHANGED <<Console!World, Console!lists, dirty, verified, asked, Console!banner>>
      /\ drafts' = [drafts EXCEPT ![d].state = "sending"]
  BY <1>2, <1>4 DEF Console!RetryDraft
<1>6. row \in Console!DraftRows /\ row.address = old.address /\ row.state = "sending"
  BY <1>1, <1>2, <1>3 DEF Console!DraftRows
<1>7. drafts' = [drafts EXCEPT ![d] = row]
  BY <1>1, <1>2, <1>3, <1>5
<1>8. /\ drafts' \in Seq(Console!DraftRows) /\ DOMAIN drafts' = DOMAIN drafts
           /\ drafts'[d] = row
      /\ \A e \in DOMAIN drafts : e # d => drafts'[e] = drafts[e]
  BY <1>1, <1>6, <1>7
<1>9. DraftsStay
  BY <1>2, <1>6, <1>8 DEF DraftsStay
<1>10. Asks(q)'
  BY <1>1, <1>2, <1>4, <1>5, <1>6, <1>8, AsksInvite
<1>11. PageMoves
  BY <1>5, <1>9, <1>10, ClickMoves DEF PageMoves
<1>12. Written'
  <2>1. invitation' = invitation
    BY <1>5 DEF Console!World, Console!tenant
  <2>2. \A e \in DOMAIN drafts' : drafts'[e].state = "sent" =>
           Invited(drafts'[e].letter, drafts'[e].address)
    BY <1>6, <1>8 DEF ConsoleInv, Written
  <2>3. QED
    BY <1>5, <1>8, <2>1, <2>2 DEF ConsoleInv, Written, Invited, Console!WasPending
<1>13. rows' = rows
  BY <1>5 DEF Console!lists
<1>14. QED
  BY <1>5, <1>9, <1>11, <1>12, <1>13, ListsStay, AskedStays, BannerStays, PageStep

\* Everything that is not sent goes out together.
LEMMA SubmitStep ==
    ASSUME Console!ConsoleAssumption, ConsoleInv, Console!SubmitDrafts PROVE ConsoleInv'
<1>1. PICK all : /\ Console!SendDrafts(all)
                 /\ \/ all = drafts
                    \/ \E a \in Addresses, r \in {"admin", "member"} :
                         all = Append(drafts, Console!Draft(a, r))
  BY DEF Console!SubmitDrafts
<1>2. PICK due : due = {d \in DOMAIN all : all[d].state # "sent"}
  OBVIOUS
<1>3. /\ drafts' = [d \in DOMAIN all |-> IF d \in due THEN [all[d] EXCEPT !.state = "sending"]
                                          ELSE all[d]]
      /\ calls' = [k \in Slots |->
             IF Console!ForSlot(due, k) = {} THEN calls[k]
             ELSE LET d == CHOOSE e \in Console!ForSlot(due, k) : TRUE
                  IN  Console!Sent(Console!Invite(d, all[d], TRUE))]
  BY <1>1, <1>2 DEF Console!SendDrafts
<1>4. /\ page = "invite" /\ clicks < MaxClicks[page] /\ clicks' = clicks + 1
      /\ notice' = Console!Say("working")
      /\ UNCHANGED <<Console!World, cookie, lost, page, Console!lists, dirty, verified, asked>>
  BY DEF Console!SubmitDrafts
<1>5. drafts \in Seq(Console!DraftRows)
  BY DEF ConsoleInv, Written
<1>6. /\ all \in Seq(Console!DraftRows) /\ \A d \in DOMAIN drafts : d \in DOMAIN all
           /\ all[d] = drafts[d]
      /\ \A d \in DOMAIN all : all[d].state = "sent" => d \in DOMAIN drafts
  <2>1. CASE all = drafts
    BY <1>5, <2>1
  <2>2. ASSUME NEW a \in Addresses, NEW r \in {"admin", "member"},
               all = Append(drafts, Console!Draft(a, r))
        PROVE  <1>6!:
    <3>1. PICK row : row = Console!Draft(a, r)
      OBVIOUS
    <3>2. row \in Console!DraftRows /\ row.state = "ready"
      BY <3>1 DEF Console!Draft, Console!DraftRows
    <3>3. all = Append(drafts, row)
      BY <2>2, <3>1
    <3>4. QED
      BY <1>5, <3>2, <3>3
  <2>3. QED
    BY <1>1, <2>1, <2>2
<1>7. drafts' = [d \in DOMAIN all |-> IF d \in due THEN [all[d] EXCEPT !.state = "sending"]
                                      ELSE all[d]]
  BY <1>3
<1>8. ASSUME NEW d \in DOMAIN all
      PROVE  /\ d \in DOMAIN drafts' /\ drafts'[d] \in Console!DraftRows
             /\ drafts'[d].address = all[d].address
             /\ drafts'[d].state = "sent" => drafts'[d] = all[d] /\ all[d].state = "sent"
  <2>1. all[d] \in Console!DraftRows
    BY <1>6
  <2>2. CASE d \in due
    <3>1. PICK row : row = [all[d] EXCEPT !.state = "sending"]
      OBVIOUS
    <3>2. row \in Console!DraftRows /\ row.address = all[d].address /\ row.state = "sending"
      BY <2>1, <3>1 DEF Console!DraftRows
    <3>3. drafts'[d] = row
      BY <1>7, <2>2, <3>1
    <3>4. QED
      BY <1>7, <3>2, <3>3
  <2>3. CASE d \notin due
    BY <1>7, <2>1, <2>3
  <2>4. QED
    BY <2>2, <2>3
<1>9. drafts' \in Seq(Console!DraftRows) /\ DOMAIN drafts' = DOMAIN all
  <2>1. DOMAIN all = 1 .. Len(all) /\ Len(all) \in Nat
    BY <1>6
  <2>2. drafts' = [d \in 1 .. Len(all) |-> drafts'[d]]
    BY <1>7, <2>1
  <2>3. \A d \in 1 .. Len(all) : drafts'[d] \in Console!DraftRows
    BY <1>8, <2>1
  <2>4. drafts' \in [1 .. Len(all) -> Console!DraftRows]
    BY <2>2, <2>3
  <2>5. QED
    BY <1>7, <2>1, <2>4
<1>10. DraftsStay
  BY <1>6, <1>8 DEF DraftsStay
<1>11. Written'
  <2>1. invitation' = invitation
    BY <1>4 DEF Console!World, Console!tenant
  <2>2. ASSUME NEW d \in DOMAIN drafts', drafts'[d].state = "sent"
        PROVE  Invited(drafts'[d].letter, drafts'[d].address)
    <3>1. d \in DOMAIN all /\ all[d].state = "sent" /\ drafts'[d] = all[d]
      BY <1>8, <1>9, <2>2
    <3>2. QED
      BY <1>6, <3>1 DEF ConsoleInv, Written
  <2>3. QED
    BY <1>4, <1>9, <2>1, <2>2 DEF ConsoleInv, Written, Invited, Console!WasPending
<1>12. ASSUME NEW k \in Slots
       PROVE  \/ calls'[k] = calls[k]
              \/ \E d \in due : calls'[k] = Console!Sent(Console!Invite(d, all[d], TRUE))
  <2>1. CASE Console!ForSlot(due, k) = {}
    BY <1>3, <2>1
  <2>2. CASE Console!ForSlot(due, k) # {}
    <3>1. PICK d : d = CHOOSE e \in Console!ForSlot(due, k) : TRUE
      OBVIOUS
    <3>2. d \in due
      BY <2>2, <3>1 DEF Console!ForSlot
    <3>3. calls'[k] = Console!Sent(Console!Invite(d, all[d], TRUE))
      BY <1>3, <2>2, <3>1
    <3>4. QED
      BY <3>2, <3>3
  <2>3. QED
    BY <2>1, <2>2
<1>13. CallsMove
  <2>1. calls' = [k \in Slots |-> calls'[k]]
    BY <1>3
  <2>2. ASSUME NEW k \in Slots, NEW d \in due, calls'[k] = Console!Sent(Console!Invite(d,
               all[d], TRUE)),
               NEW c, c = calls'[k]
        PROVE  CallSound(c)'
    <3>1. PICK q : q = Console!Invite(d, all[d], TRUE)
      OBVIOUS
    <3>2. d \in DOMAIN drafts' /\ all[d] \in Console!DraftRows
            /\ drafts'[d].address = all[d].address
      BY <1>2, <1>6, <1>8
    <3>3. Asks(q)'
      BY <1>4, <3>1, <3>2, AsksInvite
    <3>4. c.at = "sent" /\ c.req = q
      BY <2>2, <3>1 DEF Console!Sent
    <3>5. QED
      BY <3>3, <3>4 DEF CallSound
  <2>3. ASSUME NEW c \in {calls'[k] : k \in Slots}
        PROVE  c \in {calls[k] : k \in Slots} \/ CallSound(c)'
    BY <1>12, <2>2
  <2>4. QED
    BY <2>1, <2>3 DEF CallsMove
<1>14. Counts'
  BY <1>4 DEF ConsoleInv, Counts, Lists, Console!ConsoleAssumption
<1>15. PageMoves
  BY <1>4, <1>10, <1>13, <1>14 DEF PageMoves, ConsoleInv, Wire
<1>16. Banner'
  BY <1>4, QuietBanner, SaysQuietly
<1>17. QED
  BY <1>4, <1>10, <1>11, <1>15, <1>16, ListsStay, AskedStays, PageStep

LEMMA ReturnDraftStep ==
    ASSUME ConsoleInv, NEW k \in Slots, Console!ReturnDraft(k) PROVE ConsoleInv'
<1>1. PICK q : q = calls[k].req
  OBVIOUS
<1>2. PICK state \in {"sent", "error"} : state = IF calls[k].code = "ok" THEN "sent"
        ELSE "error"
  OBVIOUS
<1>0. PICK letter : letter = IF calls[k].code = "ok" THEN calls[k].body
                             ELSE drafts[q.draft].letter
  OBVIOUS
<1>3. /\ calls[k].at = "answered" /\ q.kind = "invite" /\ Console!Close(k)
      /\ drafts' = [drafts EXCEPT ![q.draft].state = state, ![q.draft].letter = letter]
      /\ notice' \in {notice, Console!Say("invited"), Console!Say("some")}
      /\ UNCHANGED <<Console!World, page, Console!lists, dirty, verified, asked>>
  BY <1>0, <1>1, <1>2 DEF Console!ReturnDraft, Console!Arrived, Console!banner
<1>4. CallSound(calls[k])
  BY Opened
<1>5. /\ page = "invite" /\ q.draft \in DOMAIN drafts /\ drafts[q.draft].address = q.of
      /\ state = "sent" => Invited(letter, q.of)
  BY <1>0, <1>1, <1>2, <1>3, <1>4 DEF CallSound, Asks, Tells
<1>6. drafts \in Seq(Console!DraftRows) /\ drafts[q.draft] \in Console!DraftRows
  BY <1>5 DEF ConsoleInv, Written
<1>7. PICK row : row = [drafts[q.draft] EXCEPT !.state = state, !.letter = letter]
  OBVIOUS
<1>8. /\ row \in Console!DraftRows /\ row.address = q.of /\ row.state = state
      /\ row.letter = letter
  <2>1. letter \in {None} \cup [id : Invitations, version : Nat]
    BY <1>0, <1>2, <1>5, <1>6 DEF Console!DraftRows, Invited
  <2>2. QED
    BY <1>5, <1>6, <1>7, <2>1 DEF Console!DraftRows
<1>9. drafts' = [drafts EXCEPT ![q.draft] = row]
  BY <1>3, <1>5, <1>6, <1>7
<1>10. /\ drafts' \in Seq(Console!DraftRows) /\ DOMAIN drafts' = DOMAIN drafts
       /\ drafts'[q.draft] = row
       /\ \A e \in DOMAIN drafts : e # q.draft => drafts'[e] = drafts[e]
  BY <1>5, <1>6, <1>8, <1>9
<1>11. DraftsStay
  BY <1>5, <1>8, <1>10 DEF DraftsStay
<1>12. PageMoves
  BY <1>3, <1>11, CloseMoves DEF PageMoves
<1>13. Written'
  <2>1. invitation' = invitation
    BY <1>3 DEF Console!World, Console!tenant
  <2>2. \A e \in DOMAIN drafts' : drafts'[e].state = "sent" =>
           Invited(drafts'[e].letter, drafts'[e].address)
    BY <1>5, <1>8, <1>10 DEF ConsoleInv, Written
  <2>3. (\A e \in DOMAIN drafts : drafts[e].state = "sent" =>
           Invited(drafts[e].letter, drafts[e].address))'
    BY <2>1, <2>2 DEF Invited, Console!WasPending
  <2>4. /\ drafts' \in Seq(Console!DraftRows)
        /\ dirty' \in [Teams -> SUBSET Members] /\ verified' \in BOOLEAN
    BY <1>3, <1>10 DEF ConsoleInv, Written
  <2>5. QED
    BY <2>3, <2>4 DEF Written
<1>14. Banner'
  <2>1. CASE notice' = notice
    <3>1. UNCHANGED <<member, rows>>
      BY <1>3 DEF Console!World, Console!tenant, Console!lists
    <3>2. QED
      BY <1>3, <1>5, <2>1, <3>1 DEF ConsoleInv, Banner, Told, Owns
  <2>2. CASE notice' \in {Console!Say("invited"), Console!Say("some")}
    BY <1>3, <1>5, <2>2, QuietBanner, SaysQuietly
  <2>3. QED
    BY <1>3, <2>1, <2>2
<1>15. QED
  BY <1>3, <1>11, <1>12, <1>13, <1>14, ListsStay, AskedStays, PageStep
-----------------------------------------------------------------------------
LEMMA VerifyStep ==
    ASSUME Console!ConsoleAssumption, ConsoleInv, Console!Verify PROVE ConsoleInv'
<1>1. PICK word \in {"password", "another"} : Console!Click([kind |-> "verify", to |-> word])
  BY DEF Console!Verify
<1>2. PICK q : q = [kind |-> "verify", to |-> word]
  OBVIOUS
<1>3. /\ Console!Click(q) /\ page = "transfer" /\ notice' = Console!Say("working")
      /\ UNCHANGED <<Console!World, page, Console!lists, Console!form, busy>>
  BY <1>1, <1>2 DEF Console!Verify
<1>4. Asks(q)
  BY <1>2 DEF Asks
<1>5. UNCHANGED <<Console!choices, asked>>
  BY <1>3 DEF Console!form
<1>6. Banner'
  BY <1>3, QuietBanner, SaysQuietly DEF ConsoleInv, Banner
<1>7. QED
  BY <1>3, <1>4, <1>5, <1>6, ClickStep

\* An answer that brings a cookie.
LEMMA CookieMoves ==
    ASSUME ConsoleInv, NEW k \in Slots, Console!TakesCookie(k), calls[k].at = "answered",
           calls[k].req.kind \in {"verify", "transfer"}, page' = page
    PROVE  CallsMove /\ cookie' \in 0 .. session /\ Counts'
<1>1. calls' = [calls EXCEPT ![k] = Console!NoCall] /\ UNCHANGED <<clicks, lost>>
  BY DEF Console!TakesCookie
<1>2. CallSound(Console!NoCall)'
  BY DEF CallSound, Console!NoCall
<1>3. cookie' \in 0 .. session
  BY Opened DEF Console!TakesCookie, CallSound, Tells, ConsoleInv, Wire
<1>4. QED
  BY <1>1, <1>2, <1>3, OneCall DEF ConsoleInv, Counts

LEMMA ReturnVerifiedStep ==
    ASSUME ConsoleInv, NEW k \in Slots, Console!ReturnVerified(k) PROVE ConsoleInv'
<1>1. /\ calls[k].at = "answered" /\ calls[k].req.kind = "verify" /\ Console!TakesCookie(k)
      /\ verified' = (verified \/ calls[k].code = "ok")
      /\ notice' \in {Console!Say("confirmed"), Console!Say("unconfirmed")}
      /\ UNCHANGED <<Console!World, page, Console!lists, drafts, dirty, asked, busy>>
  BY DEF Console!ReturnVerified, Console!Arrived
<1>2. DraftsStay
  BY <1>1 DEF DraftsStay
<1>3. PageMoves
  BY <1>1, <1>2, CookieMoves DEF PageMoves
<1>4. Written'
  <2>1. invitation' = invitation
    BY <1>1 DEF Console!World, Console!tenant
  <2>2. QED
    BY <1>1, <2>1 DEF ConsoleInv, Written, Invited, Console!WasPending
<1>5. Banner'
  BY <1>1, QuietBanner, SaysQuietly DEF ConsoleInv, Banner
<1>6. QED
  BY <1>1, <1>2, <1>3, <1>4, <1>5, ListsStay, AskedStays, PageStep

LEMMA ChooseSuccessorStep ==
    ASSUME ConsoleInv, NEW m \in Members, Console!ChooseSuccessor(m) PROVE ConsoleInv'
<1>1. PICK q : q = [kind |-> "transfer", of |-> m, version |-> rows[m].version,
                    seen |-> rows[m], mine |-> rows[Me].version]
  OBVIOUS
<1>2. /\ page = "transfer" /\ m # Me /\ asked' = q
      /\ UNCHANGED <<Console!World, Console!wire, page, Console!lists, Console!choices,
           Console!banner>>
  BY <1>1 DEF Console!ChooseSuccessor
<1>3. q.kind = "transfer" /\ q.of = m /\ q.version = rows[m].version /\ q.seen = rows[m]
  BY <1>1
<1>4. Shown(rows[m], m)
  BY <1>2 DEF ConsoleInv, Lists
<1>5. Asks(q)
  BY <1>2, <1>3, <1>4 DEF Asks, AsksPerson
<1>6. Asks(q)'
  BY <1>2, <1>5, AsksKept, WrittenStays
<1>7. Asked'
  BY <1>2, <1>3, <1>6 DEF Asked
<1>8. QED
  BY <1>2, <1>7, AskStep

LEMMA TransferClick ==
    ASSUME Console!ConsoleAssumption, ConsoleInv, Console!Transfer PROVE ConsoleInv'
<1>1. PICK q : q = asked
  OBVIOUS
<1>2. /\ Console!Click(q) /\ asked' = None /\ notice' = Console!Say("working")
      /\ UNCHANGED <<Console!World, page, Console!lists, Console!choices, busy>>
      /\ page = "transfer" /\ q # None
  BY <1>1 DEF Console!Transfer
<1>3. Asks(q)
  BY <1>1, <1>2 DEF ConsoleInv, Asked
<1>4. Banner'
  BY <1>2, QuietBanner, SaysQuietly DEF ConsoleInv, Banner
<1>5. QED
  BY <1>2, <1>3, <1>4, ClickStep

LEMMA ReturnTransferStep ==
    ASSUME ConsoleInv, NEW k \in Slots, Console!ReturnTransfer(k) PROVE ConsoleInv'
<1>1. PICK q : q = calls[k].req
  OBVIOUS
<1>2. /\ calls[k].at = "answered" /\ q.kind = "transfer" /\ Console!TakesCookie(k)
      /\ UNCHANGED <<Console!World, page, Console!lists, Console!form, busy>>
      /\ notice' = IF calls[k].code = "ok"
                   THEN [text |-> "transferred", of |-> q.of, version |-> q.version]
                   ELSE Console!Say("unsaved")
  BY <1>1 DEF Console!ReturnTransfer, Console!Arrived
<1>3. UNCHANGED <<Console!choices, asked>>
  BY <1>2 DEF Console!form
<1>4. DraftsStay /\ Written'
  BY <1>2, <1>3, WrittenStays
<1>5. PageMoves
  BY <1>1, <1>2, <1>4, CookieMoves DEF PageMoves
<1>6. Banner'
  <2>1. CASE calls[k].code = "ok"
    <3>1. CallSound(calls[k])
      BY Opened
    <3>2. Owns(q.of, q.version)
      BY <1>1, <1>2, <2>1, <3>1 DEF CallSound, Tells
    <3>3. /\ notice'.text = "transferred" /\ notice'.of = q.of
          /\ notice'.version = q.version
      BY <1>2, <2>1
    <3>4. UNCHANGED member
      BY <1>2 DEF Console!World, Console!tenant
    <3>5. QED
      BY <1>2, <3>2, <3>3, <3>4 DEF ConsoleInv, Banner, Told, Owns
  <2>2. CASE calls[k].code # "ok"
    BY <1>2, <2>2, QuietBanner, SaysQuietly DEF ConsoleInv, Banner
  <2>3. QED
    BY <2>1, <2>2
<1>7. QED
  BY <1>2, <1>3, <1>4, <1>5, <1>6, ListsStay, AskedStays, PageStep

-----------------------------------------------------------------------------
LEMMA CreateTeamStep ==
    ASSUME Console!ConsoleAssumption, ConsoleInv, NEW t \in Teams, Console!CreateTeam(t)
           PROVE ConsoleInv'
<1>1. PICK q : q = [kind |-> "create", of |-> t]
  OBVIOUS
<1>2. /\ Console!Click(q) /\ page = "teams" /\ notice' = Console!Say("working")
      /\ UNCHANGED <<Console!World, page, Console!lists, Console!form, busy>>
  BY <1>1 DEF Console!CreateTeam
<1>3. q.kind = "create" /\ q.of = t
  BY <1>1
<1>4. Asks(q)
  BY <1>3 DEF Asks
<1>5. UNCHANGED <<Console!choices, asked>>
  BY <1>2 DEF Console!form
<1>6. Banner'
  BY <1>2, QuietBanner, SaysQuietly DEF ConsoleInv, Banner
<1>7. QED
  BY <1>2, <1>4, <1>5, <1>6, ClickStep

LEMMA AskTeamStep ==
    ASSUME ConsoleInv, NEW t \in Teams, Console!AskTeam(t) PROVE ConsoleInv'
<1>1. /\ page = "teams" /\ UNCHANGED <<Console!World, Console!wire, page, Console!lists,
           Console!choices, Console!banner>>
      /\ \/ asked' = Console!Request("archive", t, None, groups[t])
         \/ \E m \in Members : asked' = Console!Request("remove", t, m, groups[t])
  BY DEF Console!AskTeam
<1>2. Asked'
  BY <1>1 DEF Asked, Console!Request
<1>3. QED
  BY <1>1, <1>2, AskStep

LEMMA ToggleStep ==
    ASSUME ConsoleInv, NEW t \in Teams, NEW m \in Members, Console!Toggle(t, m), page = "teams",
           UNCHANGED <<Console!World, Console!wire>>, asked' \in {asked, None}
    PROVE  ConsoleInv'
<1>1. /\ rows' = [rows EXCEPT ![m].teams = IF t \in @ THEN @ \ {t} ELSE @ \cup {t}]
      /\ dirty' = [dirty EXCEPT ![t] = @ \cup {m}]
      /\ notice' = Console!Say("toggled")
      /\ UNCHANGED <<page, authority, groups, letters, drafts, verified, busy>>
  BY DEF Console!Toggle
<1>2. UNCHANGED <<member, invitation>>
  BY DEF Console!World, Console!tenant
<1>3. rows \in [Members -> Console!MemberRows] /\ rows[m] \in Console!MemberRows
  BY DEF ConsoleInv, Lists
<1>4. rows' \in [Members -> Console!MemberRows]
  <2>1. PICK row : row = [rows[m] EXCEPT !.teams = IF t \in @ THEN @ \ {t} ELSE @ \cup {t}]
    OBVIOUS
  <2>2. row \in Console!MemberRows
    BY <1>3, <2>1 DEF Console!MemberRows
  <2>3. rows' = [rows EXCEPT ![m] = row]
    BY <1>1, <1>3, <2>1
  <2>4. QED
    BY <1>3, <2>2, <2>3
<1>5. Lists'
  BY <1>1, <1>2, <1>4 DEF ConsoleInv, Lists, ShownLetter
<1>6. Written' /\ DraftsStay
  <2>1. dirty' \in [Teams -> SUBSET Members]
    BY <1>1 DEF ConsoleInv, Written
  <2>2. QED
    BY <1>1, <1>2, <2>1 DEF ConsoleInv, Written, DraftsStay, Invited, Console!WasPending
<1>7. PageMoves
  BY <1>1, <1>6, StillMoves DEF PageMoves
<1>8. Banner'
  BY <1>1, QuietBanner, SaysQuietly DEF ConsoleInv, Banner
<1>9. QED
  BY <1>1, <1>5, <1>6, <1>7, <1>8, AskedStays, PageStep

LEMMA AddToTeamStep ==
    ASSUME ConsoleInv, NEW t \in Teams, NEW m \in Members, Console!AddToTeam(t, m)
           PROVE ConsoleInv'
  BY ToggleStep DEF Console!AddToTeam

LEMMA ConfirmTeamStep ==
    ASSUME Console!ConsoleAssumption, ConsoleInv, Console!ConfirmTeam PROVE ConsoleInv'
<1>1. PICK q : q = asked
  OBVIOUS
<1>2. /\ page = "teams" /\ q # None /\ asked' = None /\ UNCHANGED Console!World
      /\ IF q.kind = "archive"
         THEN Console!Click(q) /\ UNCHANGED <<page, Console!lists, Console!choices,
           Console!banner>>
         ELSE Console!Toggle(q.of, q.to) /\ UNCHANGED Console!wire
  BY <1>1 DEF Console!ConfirmTeam
<1>3. /\ q.kind \in {"archive", "remove"} /\ q.of \in Teams
      /\ q.kind = "remove" => q.to \in Members
  BY <1>1, <1>2 DEF ConsoleInv, Asked
<1>4. CASE q.kind = "archive"
  <2>1. Asks(q)
    BY <1>3, <1>4 DEF Asks
  <2>2. rows' = rows
    BY <1>2, <1>4 DEF Console!lists
  <2>3. QED
    BY <1>2, <1>4, <2>1, <2>2, BannerStays, ClickStep
<1>5. CASE q.kind = "remove"
  BY <1>2, <1>3, <1>5, ToggleStep
<1>6. QED
  BY <1>3, <1>4, <1>5

\* The people of a team, one after the other.
LEMMA SetInSequence ==
    ASSUME NEW S, IsFiniteSet(S) PROVE Console!SetToSeq(S) \in Seq(S)
<1>1. Cardinality(S) \in Nat /\ Console!Cardinality(S) = Cardinality(S)
  BY FS_CardinalityType DEF Cardinality, Console!Cardinality
<1>2. PICK f \in [1 .. Cardinality(S) -> S] : Console!IsInjective(f)
  BY FS_NatBijection, FS_CardinalityType
     DEF ExistsBijection, Bijection, Injection, IsInjective, Console!IsInjective
<1>3. QED
  BY <1>1, <1>2 DEF Console!SetToSeq

\* A request that saves the teams of the first of these people.
LEMMA AsksAssign ==
    ASSUME ConsoleInv, NEW t \in Teams, NEW people \in Seq(People), people # <<>>,
           page = "teams", NEW q, q = Console!Assign(t, people)
    PROVE  Asks(q)
<1>1. PICK first : first = Head(people)
  OBVIOUS
<1>2. first \in People /\ Tail(people) \in Seq(People)
  BY <1>1
<1>3. /\ q.kind = "assign" /\ q.of = first.id /\ q.to = first.row.teams
      /\ q.version = first.row.version /\ q.team = t /\ q.rest = Tail(people)
  BY <1>1 DEF Console!Assign
<1>4. first.id \in Members /\ first.row \in Console!MemberRows
  BY <1>2 DEF People
<1>5. first.row.teams \subseteq Teams /\ first.row.version \in Nat
  BY <1>4 DEF Console!MemberRows
<1>6. QED
  BY <1>2, <1>3, <1>4, <1>5 DEF Asks

LEMMA SaveTeamStep ==
    ASSUME Console!ConsoleAssumption, ConsoleInv, NEW t \in Teams, Console!SaveTeam(t)
           PROVE ConsoleInv'
<1>1. PICK due : due = Console!SetToSeq({m \in dirty[t] : rows[m].role # "owner"})
  OBVIOUS
<1>2. PICK people : people = [j \in DOMAIN due |-> [id |-> due[j], row |-> rows[due[j]]]]
  OBVIOUS
<1>3. /\ page = "teams" /\ UNCHANGED <<Console!World, page, Console!lists, Console!form, busy>>
      /\ IF people = <<>>
         THEN notice' = Console!Say("updated") /\ UNCHANGED Console!wire
         ELSE Console!Click(Console!Assign(t, people)) /\ notice' = Console!Say("working")
  BY <1>1, <1>2 DEF Console!SaveTeam
<1>4. due \in Seq(Members)
  <2>1. PICK S : S = {m \in dirty[t] : rows[m].role # "owner"}
    OBVIOUS
  <2>2. S \subseteq Members
    BY <2>1 DEF ConsoleInv, Written
  <2>3. due \in Seq(S)
    BY <1>1, <2>1, <2>2, FS_Subset, SetInSequence
       DEF Console!ConsoleAssumption, IsFiniteSet, Console!IsFiniteSet
  <2>4. QED
    BY <2>2, <2>3
<1>5. people \in Seq(People)
  <2>1. Len(due) \in Nat /\ DOMAIN due = 1 .. Len(due)
          /\ \A j \in 1 .. Len(due) : due[j] \in Members
    BY <1>4
  <2>2. \A j \in 1 .. Len(due) : rows[due[j]] \in Console!MemberRows
    BY <2>1 DEF ConsoleInv, Lists
  <2>3. \A j \in 1 .. Len(due) : [id |-> due[j], row |-> rows[due[j]]] \in People
    BY <2>1, <2>2 DEF People
  <2>4. people \in [1 .. Len(due) -> People]
    BY <1>2, <2>1, <2>3
  <2>5. QED
    BY <2>1, <2>4
<1>6. UNCHANGED <<Console!choices, asked>> /\ Lists' /\ DraftsStay /\ Written' /\ Asked'
        /\ Banner'
  <2>1. UNCHANGED <<Console!choices, asked>>
    BY <1>3 DEF Console!form
  <2>2. DraftsStay /\ Written' /\ Lists'
    BY <1>3, <2>1, WrittenStays, ListsStay
  <2>3. Banner'
    BY <1>3, QuietBanner, SaysQuietly DEF ConsoleInv, Banner
  <2>4. QED
    BY <1>3, <2>1, <2>2, <2>3, AskedStays
<1>7. CASE people = <<>>
  <2>1. PageMoves
    BY <1>3, <1>6, <1>7, StillMoves DEF PageMoves
  <2>2. QED
    BY <1>6, <2>1, PageStep
<1>8. CASE people # <<>>
  <2>1. PICK q : q = Console!Assign(t, people)
    OBVIOUS
  <2>2. Asks(q)
    BY <1>3, <1>5, <1>8, <2>1, AsksAssign
  <2>3. QED
    BY <1>3, <1>6, <1>8, <2>1, <2>2, ClickStep
<1>9. QED
  BY <1>7, <1>8

LEMMA ReturnAssignedStep ==
    ASSUME ConsoleInv, NEW k \in Slots, Console!ReturnAssigned(k) PROVE ConsoleInv'
<1>1. PICK q : q = calls[k].req
  OBVIOUS
<1>2. PICK body : body = calls[k].body
  OBVIOUS
<1>3. /\ calls[k].at = "answered" /\ q.kind = "assign"
      /\ UNCHANGED <<Console!World, page, authority, groups, letters, drafts, verified, asked,
           busy>>
  BY <1>1 DEF Console!ReturnAssigned, Console!Arrived
<1>4. CallSound(calls[k])
  BY Opened
<1>5. /\ page = "teams" /\ q.of \in Members /\ q.team \in Teams /\ q.rest \in Seq(People)
      /\ calls[k].code = "ok" => body \in Nat
  BY <1>1, <1>2, <1>3, <1>4 DEF CallSound, Asks, Tells
<1>6. UNCHANGED <<member, invitation>> /\ DraftsStay
  BY <1>3 DEF Console!World, Console!tenant, DraftsStay
<1>7. CASE calls[k].code = "ok"
  <2>1. /\ rows' = [rows EXCEPT ![q.of].version = body]
        /\ dirty' = [dirty EXCEPT ![q.team] = @ \ {q.of}]
        /\ IF q.rest = <<>>
           THEN Console!Close(k) /\ notice' = Console!Say("updated")
           ELSE Console!Follow(k, Console!Assign(q.team, q.rest)) /\ UNCHANGED notice
    BY <1>1, <1>2, <1>7 DEF Console!ReturnAssigned
  <2>2. rows' \in [Members -> Console!MemberRows]
    <3>1. rows \in [Members -> Console!MemberRows] /\ rows[q.of] \in Console!MemberRows
      BY <1>5 DEF ConsoleInv, Lists
    <3>2. PICK row : row = [rows[q.of] EXCEPT !.version = body]
      OBVIOUS
    <3>3. row \in Console!MemberRows
      BY <1>5, <1>7, <3>1, <3>2 DEF Console!MemberRows
    <3>4. rows' = [rows EXCEPT ![q.of] = row]
      BY <2>1, <3>1, <3>2
    <3>5. QED
      BY <3>1, <3>3, <3>4
  <2>3. Lists'
    BY <1>3, <1>5, <1>6, <2>2 DEF ConsoleInv, Lists, ShownLetter
  <2>4. Written'
    <3>1. dirty' \in [Teams -> SUBSET Members]
      BY <1>5, <2>1 DEF ConsoleInv, Written
    <3>2. QED
      BY <1>3, <1>6, <3>1 DEF ConsoleInv, Written, Invited, Console!WasPending
  <2>5. CASE q.rest = <<>>
    <3>1. Banner'
      BY <1>3, <2>1, <2>5, QuietBanner, SaysQuietly DEF ConsoleInv, Banner
    <3>2. PageMoves
      BY <1>3, <1>6, <2>1, <2>5, CloseMoves DEF PageMoves
    <3>3. QED
      BY <1>3, <1>6, <2>3, <2>4, <3>1, <3>2, AskedStays, PageStep
  <2>6. CASE q.rest # <<>>
    <3>1. PICK p : p = Console!Assign(q.team, q.rest)
      OBVIOUS
    <3>2. Asks(p)
      BY <1>5, <2>6, <3>1, AsksAssign
    <3>3. PageMoves
      BY <1>3, <1>6, <2>1, <2>6, <3>1, <3>2, AsksKept, FollowMoves DEF PageMoves
    <3>4. Banner'
      BY <1>3, <1>5, <1>6, <2>1, <2>6 DEF ConsoleInv, Banner, Told, Owns
    <3>5. QED
      BY <1>3, <1>6, <2>3, <2>4, <3>3, <3>4, AskedStays, PageStep
  <2>7. QED
    BY <2>5, <2>6
<1>8. CASE calls[k].code # "ok"
  <2>1. Console!Close(k) /\ notice' = Console!Say("failed")
          /\ UNCHANGED <<Console!lists, Console!form>>
    BY <1>3, <1>8 DEF Console!ReturnAssigned, Console!lists, Console!form, Console!choices
  <2>2. Banner'
    BY <1>3, <2>1, QuietBanner, SaysQuietly DEF ConsoleInv, Banner
  <2>3. QED
    BY <1>3, <2>1, <2>2, ListsStay, CloseStep
<1>9. QED
  BY <1>7, <1>8

LEMMA ReturnTeamStep ==
    ASSUME ConsoleInv, NEW k \in Slots, Console!ReturnTeam(k) PROVE ConsoleInv'
<1>1. PICK q : q = calls[k].req
  OBVIOUS
<1>2. PICK body : body = calls[k].body
  OBVIOUS
<1>3. /\ calls[k].at = "answered" /\ q.kind \in {"create", "archive"} /\ Console!Close(k)
      /\ UNCHANGED <<Console!World, page, rows, authority, letters, Console!form, busy>>
      /\ groups' = IF calls[k].code = "ok" THEN [groups EXCEPT ![q.of] = body] ELSE groups
      /\ notice' \in {Console!Say("create"), Console!Say("archive"), Console!Say("failed")}
  BY <1>1, <1>2 DEF Console!ReturnTeam, Console!Arrived
<1>4. CallSound(calls[k])
  BY Opened
<1>5. q.of \in Teams /\ (calls[k].code = "ok" => body \in Console!TeamRows)
  BY <1>1, <1>2, <1>3, <1>4 DEF CallSound, Asks, Tells
<1>6. UNCHANGED <<member, invitation>>
  BY <1>3 DEF Console!World, Console!tenant
<1>7. groups' \in [Teams -> Console!TeamRows]
  BY <1>3, <1>5 DEF ConsoleInv, Lists
<1>8. Lists'
  BY <1>3, <1>6, <1>7 DEF ConsoleInv, Lists, Shown, ShownLetter
<1>9. Banner'
  BY <1>3, QuietBanner, SaysQuietly DEF ConsoleInv, Banner
<1>10. QED
  BY <1>3, <1>8, <1>9, CloseStep

LEMMA ReloadTeamStep ==
    ASSUME Console!ConsoleAssumption, ConsoleInv, Console!ReloadTeam PROVE ConsoleInv'
<1>1. PICK q : q = Console!Read("both", Console!Say("latest"), FALSE)
  OBVIOUS
<1>2. /\ Console!Click(q) /\ UNCHANGED <<Console!World, Console!ui>> /\ page = "teams"
  BY <1>1 DEF Console!ReloadTeam
<1>3. q.kind = "both" /\ Quiet(q.then)
  BY <1>1, SaysQuietly DEF Console!Read
<1>4. Asks(q)
  BY <1>2, <1>3 DEF Asks, Quiet
<1>5. UNCHANGED <<page, Console!lists, Console!choices, asked, rows, Console!banner>>
  BY <1>2 DEF Console!ui, Console!form, Console!lists
<1>6. QED
  BY <1>2, <1>4, <1>5, ClickStep, BannerStays

LEMMA ReturnBothStep ==
    ASSUME ConsoleInv, NEW k \in Slots, Console!ReturnBoth(k) PROVE ConsoleInv'
<1>1. PICK q : q = calls[k].req
  OBVIOUS
<1>2. PICK body : body = calls[k].body
  OBVIOUS
<1>3. /\ calls[k].at = "answered" /\ q.kind = "both" /\ Console!Close(k)
      /\ UNCHANGED <<Console!World, page, authority, letters, Console!form, busy>>
  BY <1>1 DEF Console!ReturnBoth, Console!Arrived
<1>4. CallSound(calls[k])
  BY Opened
<1>5. Asks(q) /\ page = "teams" /\ (calls[k].code = "ok" => Tells(q, body))
  BY <1>1, <1>2, <1>3, <1>4 DEF CallSound, Asks
<1>6. CASE calls[k].code = "ok"
  <2>1. groups' = body.teams /\ rows' = Console!Merged(body.people) /\ notice' = q.then
    BY <1>1, <1>2, <1>6 DEF Console!ReturnBoth
  <2>2. body.teams \in [Teams -> Console!TeamRows]
          /\ body.people \in [Members -> Console!MemberRows]
    BY <1>3, <1>5, <1>6 DEF Tells
  <2>3. rows' \in [Members -> Console!MemberRows]
    <3>1. ASSUME NEW m \in Members
          PROVE  [rows[m] EXCEPT !.version = body.people[m].version] \in Console!MemberRows
      <4>1. rows[m] \in Console!MemberRows /\ body.people[m].version \in Nat
        BY <2>2 DEF ConsoleInv, Lists, Console!MemberRows
      <4>2. QED
        BY <4>1 DEF Console!MemberRows
    <3>2. QED
      BY <2>1, <3>1 DEF Console!Merged
  <2>4. UNCHANGED <<member, invitation>>
    BY <1>3 DEF Console!World, Console!tenant
  <2>5. Lists'
    BY <1>3, <1>5, <2>1, <2>2, <2>3, <2>4 DEF ConsoleInv, Lists, ShownLetter
  <2>6. Quiet(notice')
    BY <1>3, <1>5, <2>1 DEF Asks, Quiet
  <2>7. Banner'
    BY <1>3, <2>6, QuietBanner DEF ConsoleInv, Banner
  <2>8. QED
    BY <1>3, <2>5, <2>7, CloseStep
<1>7. CASE calls[k].code # "ok"
  <2>1. notice' = Console!Say("unloaded") /\ UNCHANGED Console!lists
    BY <1>3, <1>7 DEF Console!ReturnBoth, Console!lists
  <2>2. Banner'
    BY <1>3, <2>1, QuietBanner, SaysQuietly DEF ConsoleInv, Banner
  <2>3. QED
    BY <1>3, <2>1, <2>2, ListsStay, CloseStep
<1>8. QED
  BY <1>6, <1>7
-----------------------------------------------------------------------------
LEMMA ConsoleStarts ==
    ASSUME Console!ConsoleAssumption, Console!Init PROVE ConsoleInv
<1>1. PICK s \in Starts, p \in Pages :
        /\ page = p /\ member = s.member /\ team = s.team /\ invitation = s.invitation
        /\ rows = s.member /\ groups = s.team /\ letters = s.invitation
        /\ authority = s.member[Me].role
        /\ session = 0 /\ cookie = 0
        /\ recent \in {FALSE, p = "transfer"} /\ verified \in {FALSE, recent}
        /\ calls = [k \in Slots |-> Console!NoCall] /\ clicks = 0 /\ others = 0 /\ lost = FALSE
        /\ drafts = <<>> /\ dirty = [t \in Teams |-> {}]
        /\ asked = None
        /\ busy = None /\ stale = None /\ notice = Console!Nothing
  BY DEF Console!Init
<1>2. /\ s.member \in [Members -> Console!MemberRows] /\ s.team \in [Teams -> Console!TeamRows]
      /\ s.invitation \in [Invitations -> Console!InvitationRows]
      /\ \A m, n \in Members : s.member[m].role = "owner" /\ s.member[n].role = "owner" => m = n
      /\ Me \in Members /\ MaxOthers \in Nat /\ MaxClicks[page] \in Nat
  BY <1>1 DEF Console!ConsoleAssumption
<1>0. lost \in BOOLEAN /\ recent \in BOOLEAN /\ verified \in BOOLEAN
  BY <1>1
<1>3. Workspace
  <2>1. /\ member \in [Members -> Console!MemberRows] /\ team \in [Teams -> Console!TeamRows]
        /\ invitation \in [Invitations -> Console!InvitationRows]
    BY <1>1, <1>2
  <2>2. \A m, n \in Members : member[m].role = "owner" /\ member[n].role = "owner" => m = n
    BY <1>1, <1>2
  <2>3. session \in Nat /\ others \in 0 .. MaxOthers
    BY <1>1, <1>2
  <2>4. QED
    BY <1>0, <2>1, <2>2, <2>3 DEF Workspace
<1>4. Wire
  <2>1. CallSound(Console!NoCall)
    BY DEF CallSound, Console!NoCall
  <2>2. QED
    BY <1>1, <2>1 DEF Wire
<1>5. Lists
  <2>1. authority \in Console!Roles
    BY <1>1, <1>2 DEF Console!MemberRows
  <2>2. \A m \in Members : Shown(rows[m], m)
    BY <1>1, <1>2 DEF Shown, Console!MemberRows
  <2>3. \A i \in Invitations : ShownLetter(letters[i], i)
    BY <1>1, <1>2 DEF ShownLetter, Console!InvitationRows
  <2>4. QED
    BY <1>1, <1>2, <2>1, <2>2, <2>3 DEF Lists
<1>6. Asked /\ Counts
  <2>1. clicks \in 0 .. MaxClicks[page] /\ asked = None
    BY <1>1, <1>2
  <2>2. QED
    BY <1>0, <2>1 DEF Asked, Counts
<1>7. Written
  <2>1. drafts \in Seq(Console!DraftRows) /\ DOMAIN drafts = {}
    BY <1>1
  <2>2. dirty \in [Teams -> SUBSET Members]
    BY <1>1
  <2>3. QED
    BY <1>0, <2>1, <2>2 DEF Written
<1>8. Banner
  BY <1>1 DEF Banner, Told, Console!Nothing
<1>9. QED
  BY <1>3, <1>4, <1>5, <1>6, <1>7, <1>8 DEF ConsoleInv

LEMMA ConsoleStutters ==
    ASSUME ConsoleInv, UNCHANGED Console!vars PROVE ConsoleInv'
<1>1. /\ UNCHANGED <<Console!World, page, Console!lists, Console!choices, asked,
           Console!banner, rows, Console!wire>>
  BY DEF Console!vars, Console!ui, Console!form, Console!lists, Console!World
<1>2. Asked'
  BY <1>1, AskedStays, WrittenStays
<1>3. QED
  BY <1>1, <1>2, AskStep

LEMMA ConsoleClicks ==
    ASSUME Console!ConsoleAssumption, ConsoleInv, Console!Clicks PROVE ConsoleInv'
  BY ChoosePersonStep, ChooseSuccessorStep, LetterClicks, AddDraftsStep, EditDraftStep,
     RetryDraftStep, CreateTeamStep, AskTeamStep, SaveTeamStep, AddToTeamStep,
     ConfirmPersonStep, ConfirmRevokeStep, ConfirmTeamStep, CancelStep, SubmitStep,
     VerifyStep, TransferClick, ReloadPageStep, ReloadTeamStep
     DEF Console!Clicks

LEMMA ConsoleReturns ==
    ASSUME ConsoleInv, NEW k \in Slots, Console!Return(k) PROVE ConsoleInv'
  BY ReturnPersonStep, ReturnPeopleStep, ReturnLetterStep, ReturnInvitationsStep,
     ReturnDraftStep, ReturnVerifiedStep, ReturnTransferStep, ReturnAssignedStep,
     ReturnTeamStep, ReturnBothStep
     DEF Console!Return

LEMMA ConsoleSteps ==
    ASSUME Console!ConsoleAssumption, ConsoleInv, [Console!Next]_Console!vars PROVE ConsoleInv'
  BY ConsoleClicks, ConsoleReturns, ServeStep, LoseStep, OtherMemberStep, OtherTeamStep,
     OtherInvitationStep, AgesStep, ConsoleStutters
     DEF Console!Next, Console!Others

\* Every step of the page, of the routes and of the others keeps the invariant:
\* a row that is shown, or named by a request on its way, was so in the workspace
\* at its version, and an answer of success tells of a change that was made.
THEOREM ConsoleInvariant ==
    ASSUME Console!ConsoleAssumption PROVE Console!Spec => []ConsoleInv
<1>1. Console!Init => ConsoleInv
  BY ConsoleStarts
<1>2. ConsoleInv /\ [Console!Next]_Console!vars => ConsoleInv'
  BY ConsoleSteps
<1>3. QED
  BY <1>1, <1>2, PTL DEF Console!Spec

\* Type correctness: whatever is clicked, served, lost or changed by others,
\* pages, requests, banners and rows keep their shapes.
THEOREM ConsoleTypeCorrect ==
    ASSUME Console!ConsoleAssumption PROVE Console!Spec => []Console!TypeOK
<1>1. ConsoleInv => Console!TypeOK
  <2> SUFFICES ASSUME ConsoleInv PROVE Console!TypeOK
    OBVIOUS
  <2>1. \A k \in Slots : calls[k].at \in {"idle", "sent", "half", "answered"}
    BY Opened DEF CallSound
  <2>2. QED
    BY <2>1 DEF ConsoleInv, Workspace, Wire, Lists, Written, Banner, Counts, Console!TypeOK
<1>2. QED
  BY <1>1, ConsoleInvariant, PTL

\* Whatever answers cross, are lost or come late, and whatever others do, a message
\* of success is true as of the answer: the row it names is shown as changed; the new
\* owner got the workspace and is its only owner unless the membership changed again
\* since, a transfer back or further included; and who is said to be invited had a
\* pending invitation, and has it unless that one was resent or closed since.
THEOREM ConsoleSuccessIsShown ==
    ASSUME Console!ConsoleAssumption PROVE Console!Spec => []Console!SuccessIsShown
<1>1. ConsoleInv => Console!SuccessIsShown
  <2> SUFFICES ASSUME ConsoleInv PROVE Console!SuccessIsShown
    OBVIOUS
  <2>1. ASSUME notice.text = "transferred"
        PROVE  /\ member[notice.of].version > notice.version
               /\ member[notice.of].version = notice.version + 1 =>
                    member[notice.of].role = "owner" /\ member[Me].role # "owner"
    BY <2>1 DEF ConsoleInv, Banner, Told, Owns, Workspace, Console!ConsoleAssumption
  <2>2. \A d \in DOMAIN drafts : drafts[d].state = "sent" =>
           Console!WasPending(drafts[d].letter, drafts[d].address)
    BY DEF ConsoleInv, Written, Invited
  <2>3. notice.text = "saved" => rows[notice.of].version > notice.version
    BY DEF ConsoleInv, Banner
  <2>4. QED
    BY <2>1, <2>2, <2>3 DEF Console!SuccessIsShown
<1>2. QED
  BY <1>1, ConsoleInvariant, PTL

\* What a request that is accepted was shown with is what it changes.
AsShown(q) ==
    /\ q.kind \in {"role", "status", "transfer"} =>
         /\ member[q.of].role = q.seen.role
         /\ member[q.of].status = q.seen.status
    /\ q.kind \in {"resend", "revoke"} =>
         /\ invitation[q.of].status = q.seen.status
         /\ invitation[q.of].address = q.seen.address

LEMMA AcceptedAsShown ==
    ASSUME ConsoleInv, NEW c, CallSound(c), c.at # "idle", Console!Verdict(c) = "ok"
    PROVE  AsShown(c.req)
<1>1. PICK q : q = c.req
  OBVIOUS
<1>2. Asks(q)
  BY <1>1 DEF CallSound
<1>3. CASE q.kind \in {"role", "status", "transfer"}
  <2>1. q.version = q.seen.version /\ Shown(q.seen, q.of)
    BY <1>2, <1>3 DEF Asks, AsksPerson
  <2>2. member[q.of].version = q.version
    BY <1>1, <1>3
       DEF Console!Verdict, Console!ChangeRoleVerdict, Console!ChangeStatusVerdict,
         Console!TransferVerdict, Console!Same
  <2>3. QED
    BY <1>1, <1>3, <2>1, <2>2 DEF Shown, AsShown
<1>4. CASE q.kind \in {"resend", "revoke"}
  <2>1. /\ q.version = q.seen.version /\ ShownLetter(q.seen, q.of)
        /\ q.seen.status = "pending"
    BY <1>2, <1>4 DEF Asks, AsksLetter
  <2>2. invitation[q.of].version = q.version
    BY <1>1, <1>4 DEF Console!Verdict, Console!ResendVerdict, Console!RevokeVerdict,
       Console!Same
  <2>3. QED
    BY <1>1, <1>4, <2>1, <2>2 DEF ShownLetter, AsShown
<1>5. QED
  BY <1>1, <1>3, <1>4 DEF AsShown

\* Only the routes answer.
NoAnswer(k) == calls'[k] = calls[k] \/ calls'[k].at \in {"idle", "sent"}

LEMMA OneOrTheOther ==
    ASSUME ConsoleInv, NEW k \in Slots, NEW j, NEW c, calls' = [calls EXCEPT ![j] = c]
    PROVE  calls'[k] = IF k = j THEN c ELSE calls[k]
  BY DEF ConsoleInv, Wire

LEMMA ClicksAskOnly ==
    ASSUME ConsoleInv, NEW k \in Slots, Console!Clicks PROVE NoAnswer(k)
<1>1. \A q : Console!Click(q) => NoAnswer(k)
  <2> SUFFICES ASSUME NEW q, Console!Click(q) PROVE NoAnswer(k)
    OBVIOUS
  <2>1. PICK j : j = Console!Min(Console!Free)
    OBVIOUS
  <2>2. PICK c : c = Console!Sent(q)
    OBVIOUS
  <2>3. calls' = [calls EXCEPT ![j] = c] /\ c.at = "sent"
    BY <2>1, <2>2 DEF Console!Click, Console!Start, Console!Sent
  <2>4. QED
    BY <2>3, OneOrTheOther DEF NoAnswer
<1>2. UNCHANGED Console!wire => NoAnswer(k)
  BY DEF Console!wire, NoAnswer
<1>3. ASSUME Console!SubmitDrafts PROVE NoAnswer(k)
  <2>1. PICK all : Console!SendDrafts(all)
    BY <1>3 DEF Console!SubmitDrafts
  <2>2. PICK due : due = {d \in DOMAIN all : all[d].state # "sent"}
    OBVIOUS
  <2>3. calls' = [i \in Slots |->
            IF Console!ForSlot(due, i) = {} THEN calls[i]
            ELSE LET d == CHOOSE e \in Console!ForSlot(due, i) : TRUE
                  IN  Console!Sent(Console!Invite(d, all[d], TRUE))]
    BY <2>1, <2>2 DEF Console!SendDrafts
  <2>4. PICK d : d = CHOOSE e \in Console!ForSlot(due, k) : TRUE
    OBVIOUS
  <2>5. calls'[k] = IF Console!ForSlot(due, k) = {} THEN calls[k]
          ELSE Console!Sent(Console!Invite(d, all[d], TRUE))
    BY <2>3, <2>4
  <2>6. QED
    BY <2>5 DEF NoAnswer, Console!Sent
<1>4. QED
  BY <1>1, <1>2, <1>3
     DEF Console!Clicks, Console!ChoosePerson, Console!ChooseSuccessor, Console!ResendLetter,
       Console!AskRevoke, Console!AddDrafts, Console!EditDraft,
         Console!RetryDraft, Console!CreateTeam, Console!AskTeam, Console!SaveTeam,
         Console!AddToTeam, Console!ConfirmPerson, Console!ConfirmRevoke,
         Console!ConfirmTeam, Console!Cancel, Console!Verify, Console!Transfer,
         Console!ReloadPage, Console!ReloadTeam, Console!SavePerson, Console!SendLetter

LEMMA ReturnsAskOnly ==
    ASSUME ConsoleInv, NEW k \in Slots, NEW j \in Slots, Console!Return(j) PROVE NoAnswer(k)
<1>1. Console!Close(j) => NoAnswer(k)
  BY OneOrTheOther DEF Console!Close, NoAnswer, Console!NoCall
<1>2. Console!TakesCookie(j) => NoAnswer(k)
  BY OneOrTheOther DEF Console!TakesCookie, NoAnswer, Console!NoCall
<1>3. \A q : Console!Follow(j, q) => NoAnswer(k)
  <2> SUFFICES ASSUME NEW q, Console!Follow(j, q) PROVE NoAnswer(k)
    OBVIOUS
  <2>1. PICK c : c = Console!Sent(q)
    OBVIOUS
  <2>2. calls' = [calls EXCEPT ![j] = c] /\ c.at = "sent"
    BY <2>1 DEF Console!Follow, Console!Sent
  <2>3. QED
    BY <2>2, OneOrTheOther DEF NoAnswer
<1>4. QED
  BY <1>1, <1>2, <1>3
     DEF Console!Return, Console!ReturnPerson, Console!ReturnPeople, Console!ReturnLetter,
       Console!ReturnInvitations, Console!ReturnDraft,
         Console!ReturnVerified, Console!ReturnTransfer, Console!ReturnAssigned,
         Console!ReturnTeam, Console!ReturnBoth

LEMMA ServesAsDecided ==
    ASSUME ConsoleInv, NEW k \in Slots, NEW j \in Slots, Console!Serve(j), calls[k].at = "sent"
    PROVE  \/ calls'[k] = calls[k] \/ calls'[k].at = "half"
           \/ k = j /\ (calls'[k].code = "ok" => Console!Verdict(calls[k]) = "ok")
<1>1. CASE Console!ReadHalf(j)
  <2>1. PICK half : calls' = [calls EXCEPT ![j] = [at |-> "half", req |-> @.req,
                                                   cookie |-> @.cookie, body |-> half]]
    BY <1>1 DEF Console!ReadHalf
  <2>2. PICK c : c = [at |-> "half", req |-> calls[j].req, cookie |-> calls[j].cookie,
                      body |-> half]
    OBVIOUS
  <2>3. calls' = [calls EXCEPT ![j] = c] /\ c.at = "half"
    BY <2>1, <2>2
  <2>4. QED
    BY <2>3, OneOrTheOther
<1>2. ASSUME NEW code, NEW body, Console!Answer(j, code, body)
      PROVE  calls'[k] = calls[k] \/ (k = j /\ calls'[k].code = code)
  <2>1. PICK c : c = [at |-> "answered", req |-> calls[j].req, code |-> code, body |-> body]
    OBVIOUS
  <2>2. calls' = [calls EXCEPT ![j] = c] /\ c.code = code
    BY <1>2, <2>1 DEF Console!Answer
  <2>3. calls'[k] = IF k = j THEN c ELSE calls[k]
    BY <2>2, OneOrTheOther
  <2>4. QED
    BY <2>2, <2>3
<1>3. CASE Console!Refuse(j)
  <2>1. PICK code : code = Console!Verdict(calls[j])
    OBVIOUS
  <2>2. Console!Answer(j, code, None) /\ code # "ok"
    BY <1>3, <2>1 DEF Console!Refuse
  <2>3. QED
    BY <1>2, <2>2
<1>4. CASE Console!ReadOtherHalf(j)
  <2>1. k # j
    BY <1>4 DEF Console!ReadOtherHalf
  <2>2. PICK code, body : Console!Answer(j, code, body)
    BY <1>4 DEF Console!ReadOtherHalf
  <2>3. QED
    BY <1>2, <2>1, <2>2
<1>5. CASE ~Console!ReadHalf(j) /\ ~Console!Refuse(j) /\ ~Console!ReadOtherHalf(j)
  <2>1. Console!Verdict(calls[j]) = "ok"
    BY <1>5 DEF Console!Serve, Console!ChangeMembership, Console!AssignTeams,
       Console!TransferOwner, Console!ChangeTeam,
       Console!CreateInvitation, Console!ResendInvitation, Console!RevokeInvitation,
       Console!ConfirmIdentity, Console!ReadPage, Console!Takes
  <2>2. PICK code, body : Console!Answer(j, code, body)
    <3>1. CASE Console!ChangeMembership(j) \/ Console!AssignTeams(j)
            \/ Console!TransferOwner(j) \/ Console!ConfirmIdentity(j)
      BY <3>1 DEF Console!ChangeMembership, Console!AssignTeams, Console!TransferOwner,
         Console!ConfirmIdentity
    <3>2. CASE Console!ChangeTeam(j) \/ Console!CreateInvitation(j) \/ Console!ReadPage(j)
      BY <3>2 DEF Console!ChangeTeam, Console!CreateInvitation, Console!ReadPage
    <3>3. CASE Console!ResendInvitation(j) \/ Console!RevokeInvitation(j)
      BY <3>3 DEF Console!ResendInvitation, Console!RevokeInvitation
    <3>4. QED
      BY <1>5, <3>1, <3>2, <3>3 DEF Console!Serve
  <2>3. QED
    BY <1>2, <2>1, <2>2
<1>6. QED
  BY <1>1, <1>3, <1>4, <1>5

\* A change of a membership, of an invitation or of the ownership changes a
\* row that was shown as it still is.
THEOREM ConsoleActsOnWhatWasShown ==
    ASSUME Console!ConsoleAssumption PROVE Console!Spec => Console!ActsOnWhatWasShown
<1>1. ConsoleInv /\ [Console!Next]_Console!vars
        => [\A k \in Slots :
              calls[k].at = "sent" /\ calls'[k].at = "answered" /\ calls'[k].code = "ok" =>
                LET q == calls[k].req IN
                /\ q.kind \in {"role", "status", "transfer"} =>
                     /\ member[q.of].role = q.seen.role
                     /\ member[q.of].status = q.seen.status
                /\ q.kind \in {"resend", "revoke"} =>
                     /\ invitation[q.of].status = q.seen.status
                     /\ invitation[q.of].address = q.seen.address]_Console!vars
  <2> SUFFICES ASSUME ConsoleInv, [Console!Next]_Console!vars, NEW k \in Slots,
                      calls[k].at = "sent", calls'[k].at = "answered", calls'[k].code = "ok"
               PROVE  AsShown(calls[k].req)
    BY DEF AsShown
  <2>1. ~NoAnswer(k)
    BY DEF NoAnswer
  <2>2. calls' # calls
    OBVIOUS
  <2>3. PICK j \in Slots : Console!Serve(j)
    <3>1. \A j \in Slots : Console!Lose(j) => NoAnswer(k)
      BY OneOrTheOther DEF Console!Lose, NoAnswer, Console!NoCall
    <3>2. Console!Others => calls' = calls
      BY DEF Console!Others, Console!OtherMember, Console!OtherTeam, Console!OtherInvitation,
         Console!ConfirmationAges, Console!Meanwhile, Console!wire
    <3>3. UNCHANGED Console!vars => calls' = calls
      BY DEF Console!vars, Console!wire
    <3>4. QED
      BY <2>1, <2>2, <3>1, <3>2, <3>3, ClicksAskOnly, ReturnsAskOnly DEF Console!Next
  <2>4. Console!Verdict(calls[k]) = "ok"
    BY <2>1, <2>3, ServesAsDecided DEF NoAnswer
  <2>5. QED
    BY <2>4, Opened, AcceptedAsShown
<1>2. QED
  BY <1>1, ConsoleInvariant, PTL DEF Console!Spec, Console!ActsOnWhatWasShown
==============================================================================
