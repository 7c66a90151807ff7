----------------------------- MODULE EntryProofs -----------------------------
(***************************************************************************)
(* Proofs about WorkspaceEntry, for any people, tabs, workspaces and       *)
(* invitations, and any number of steps.                                   *)
(*                                                                         *)
(* Who owns what rests on the rows alone: an account without a workspace   *)
(* has no receipt of a creation, and one that is not registered has no     *)
(* workspace.  Who joined rests on the browser too: whatever is stored,    *)
(* sent and answered, the intent of a request is an invitation there is.   *)
(*                                                                         *)
(* Who can repeat a switch rests on the keys: every one is one tab's own,  *)
(* and a token that a tab can still get is carried by no cookie and no     *)
(* request, so that nothing ends it before it arrives.                     *)
(***************************************************************************)
EXTENDS WorkspaceEntry, FiniteSetTheorems, TLAPS

AccountFields == {"status", "plan", "workspace"}

RowsTyped ==
    /\ account = [p \in People |-> account[p]]
    /\ \A p \in People : AccountFields \subseteq DOMAIN account[p]
    /\ workspace = [w \in Workspaces |-> workspace[w]]
    /\ member \in [Workspaces -> [People -> {"none", "active", "removed"}]]
    /\ invitation \in [Invitations -> InvitationRows]

\* Nobody has a workspace before an account, and no receipt is for nothing.
NothingBefore ==
    /\ \A p \in People : account[p].status = "absent" => account[p].workspace = None
    /\ \A r \in receipt : r.op = "create" => r.to \in Workspaces

\* The intent among the cookies c.
IntentKnown(c) == "invite" \in DOMAIN c /\ c.invite \in Invitations \cup {None}

\* An answer sets no other intent than none.
Clears(sets) == "invite" \in DOMAIN sets => sets.invite = None

CallKnown(x) ==
    /\ x.at \in {"sent", "answered"} => "cookies" \in DOMAIN x /\ IntentKnown(x.cookies)
    /\ x.at = "answered" => Clears(x.sets)

Intents ==
    /\ IntentKnown(jar)
    /\ call = [t \in Tabs |-> call[t]]
    /\ \A t \in Tabs : CallKnown(call[t])

IInv == RowsTyped /\ NothingBefore /\ Intents /\ OneCompanyWorkspace /\ JoinedByInvitation
-----------------------------------------------------------------------------
(* The cookies. *)

LEMMA Merge ==
    ASSUME NEW f, NEW g
    PROVE  /\ DOMAIN Over(f, g) = (DOMAIN f) \cup (DOMAIN g)
           /\ "invite" \in DOMAIN f => Over(f, g).invite = f.invite
           /\ "invite" \in (DOMAIN g) \ (DOMAIN f) => Over(f, g).invite = g.invite
           /\ "cookies" \in DOMAIN f => Over(f, g).cookies = f.cookies
           /\ "cookies" \in (DOMAIN g) \ (DOMAIN f) => Over(f, g).cookies = g.cookies
           /\ "at" \in DOMAIN f => Over(f, g).at = f.at
           /\ "sets" \in DOMAIN f => Over(f, g).sets = f.sets
  BY DEF Over

LEMMA StoredKnown ==
    ASSUME Intents, NEW t \in Tabs, call[t].at = "answered"
    PROVE  IntentKnown(Stored(t))
<1> DEFINE sets == call[t].sets
<1>1. Clears(sets) /\ IntentKnown(jar)
  BY DEF Intents, CallKnown
<1> HIDE DEF sets
<1>2. IntentKnown(Over(sets, jar))
  <2>1. "invite" \in DOMAIN (Over(sets, jar))
    BY <1>1, Merge DEF IntentKnown
  <2>2. CASE "invite" \in DOMAIN sets
    BY <1>1, <2>1, <2>2, Merge DEF IntentKnown, Clears
  <2>3. CASE "invite" \notin DOMAIN sets
    BY <1>1, <2>1, <2>3, Merge DEF IntentKnown
  <2> QED BY <2>2, <2>3
<1> QED BY <1>2 DEF Stored, sets

LEMMA CallReplaced ==
    ASSUME Intents, NEW t \in Tabs, NEW x, CallKnown(x),
           call' = [call EXCEPT ![t] = x], IntentKnown(jar)'
    PROVE  Intents'
  BY DEF Intents

LEMMA Answered ==
    ASSUME Intents, NEW t \in Tabs, NEW code, NEW body, NEW sets, Clears(sets),
           call[t].at = "sent", Answer(t, code, body, sets)
    PROVE  Intents'
<1> DEFINE top == [at |-> "answered", code |-> code, body |-> body, sets |-> sets]
           new == Over(top, call[t])
<1>1. "cookies" \in DOMAIN call[t] /\ IntentKnown(call[t].cookies)
  BY DEF Intents, CallKnown
<1>2. DOMAIN top = {"at", "code", "body", "sets"} /\ top.at = "answered" /\ top.sets = sets
  OBVIOUS
<1>3. call' = [call EXCEPT ![t] = new] /\ jar' = jar
  BY DEF Answer
<1> HIDE DEF top
<1>4. /\ "cookies" \in DOMAIN new /\ new.cookies = call[t].cookies
      /\ new.at = "answered" /\ new.sets = sets
  <2>1. /\ "cookies" \in DOMAIN call[t] \ DOMAIN top
        /\ "at" \in DOMAIN top /\ "sets" \in DOMAIN top
    BY <1>1, <1>2
  <2>2. "cookies" \in DOMAIN new
    <3>1. DOMAIN new = (DOMAIN top) \cup (DOMAIN call[t])
      BY Merge
    <3> QED BY <2>1, <3>1
  <2>3. new.cookies = call[t].cookies
    BY <2>1, Merge
  <2>4. new.at = top.at /\ new.sets = top.sets
    BY <2>1, Merge
  <2> QED BY <1>2, <2>2, <2>3, <2>4
<1> HIDE DEF new
<1>5. CallKnown(new)
  BY <1>1, <1>4 DEF CallKnown
<1> QED BY <1>3, <1>5, CallReplaced DEF Intents, IntentKnown

\* A tab lands on a page with cookies that are known.
LEMMA Landed ==
    ASSUME NEW t \in Tabs, NEW page, NEW c, IntentKnown(c), Lands(t, page, c)
    PROVE  IntentKnown(jar)'
  BY DEF Lands, IntentKnown

LEMMA LandedOnInvitation ==
    ASSUME NEW t \in Tabs, NEW c, IntentKnown(c), LandsOnInvitation(t, c)
    PROVE  IntentKnown(jar)'
  BY DEF LandsOnInvitation, IntentKnown

LEMMA NoCallKnown ==
    /\ CallKnown(NoCall)
    /\ \A kind, what, key : CallKnown(Asked(kind, what, key))
  BY DEF CallKnown, NoCall, Asked

\* What is done in the browser.
LEMMA BrowserStep ==
    ASSUME Intents, NEW t \in Tabs,
           \/ \E l \in Links : OpenVerification(t, l)
           \/ \E i \in Invitations : OpenInvitation(t, i)
           \/ \E p \in Visitors : Register(t, p) \/ Login(t, p)
           \/ \E name \in {1, 2} : Create(t, name)
           \/ \E w \in Workspaces : Switch(t, w)
           \/ Open(t) \/ Resend(t) \/ SavePlan(t) \/ ReloadOptions(t) \/ Accept(t)
           \/ NotNow(t) \/ Leave(t)
    PROVE  Intents'
<1>1. ASSUME NEW kind, NEW what, NEW key, Requests(t, kind, what, key), jar' = jar
      PROVE  Intents'
  BY <1>1, NoCallKnown, CallReplaced DEF Requests, Intents, IntentKnown
<1>2. ASSUME NEW l \in Links, OpenVerification(t, l)
      PROVE  Intents'
  <2> DEFINE c == [jar EXCEPT !.verify = l]
  <2>1. IntentKnown(c)
    BY DEF Intents, IntentKnown
  <2> HIDE DEF c
  <2>2. LandsOnVerification(t, tab[t].email, c)
    BY <1>2 DEF OpenVerification, c
  <2>3. PICK x : CallKnown(x) /\ call' = [call EXCEPT ![t] = x]
    BY <2>2, NoCallKnown DEF LandsOnVerification
  <2>4. jar' = c
    BY <2>2 DEF LandsOnVerification
  <2> QED BY <2>1, <2>3, <2>4, CallReplaced DEF IntentKnown
<1>3. ASSUME NEW i \in Invitations, OpenInvitation(t, i)
      PROVE  Intents'
  <2> DEFINE c == [jar EXCEPT !.invite = i, !.back = TRUE]
  <2>1. IntentKnown(c)
    BY DEF Intents, IntentKnown
  <2> HIDE DEF c
  <2>2. LandsOnInvitation(t, c) /\ call' = call
    BY <1>3 DEF OpenInvitation, c
  <2> QED BY <2>1, <2>2, LandedOnInvitation DEF Intents
<1>4. ASSUME Open(t)
      PROVE  Intents'
  <2>1. call' = call /\ IntentKnown(jar)
    BY <1>4 DEF Open, Intents
  <2>2. \/ \E page : Lands(t, page, jar)
        \/ LandsOnInvitation(t, jar)
        \/ jar' = jar
    BY <1>4 DEF Open
  <2>3. IntentKnown(jar)'
    BY <2>1, <2>2, Landed, LandedOnInvitation DEF IntentKnown
  <2> QED BY <2>1, <2>3 DEF Intents
<1>5. ASSUME Leave(t)
      PROVE  Intents'
  BY <1>5, NoCallKnown, CallReplaced DEF Leave, Intents, IntentKnown
<1>6. ASSUME NEW p \in Visitors, Register(t, p) \/ Login(t, p)
      PROVE  Intents'
  BY <1>1, <1>6 DEF Register, Login
<1>7. ASSUME NEW name \in {1, 2}, Create(t, name)
      PROVE  Intents'
  BY <1>1, <1>7 DEF Create
<1>8. ASSUME NEW w \in Workspaces, Switch(t, w)
      PROVE  Intents'
  BY <1>1, <1>8 DEF Switch
<1>9. ASSUME Resend(t) \/ SavePlan(t) \/ ReloadOptions(t) \/ Accept(t) \/ NotNow(t)
      PROVE  Intents'
  BY <1>1, <1>9 DEF Resend, SavePlan, ReloadOptions, Accept, NotNow
<1> QED BY <1>2, <1>3, <1>4, <1>5, <1>6, <1>7, <1>8, <1>9

\* A request takes the cookies; what the routes answer clears an intent at most.
LEMMA SendStep ==
    ASSUME Intents, NEW t \in Tabs, Send(t)
    PROVE  Intents'
<1> DEFINE top == [at |-> "sent", cookies |-> jar]
           new == Over(top, call[t])
<1>1. top.at = "sent" /\ top.cookies = jar /\ {"at", "cookies"} \subseteq DOMAIN top
  OBVIOUS
<1>2. call' = [call EXCEPT ![t] = new] /\ jar' = jar
  BY DEF Send
<1> HIDE DEF top
<1>3. new.at = "sent" /\ new.cookies = jar
  BY <1>1, Merge
<1>4. "cookies" \in DOMAIN new
  <2>1. DOMAIN new = (DOMAIN top) \cup (DOMAIN call[t])
    BY Merge
  <2> QED BY <1>1, <2>1
<1> HIDE DEF new
<1>5. CallKnown(new)
  BY <1>3, <1>4 DEF Intents, CallKnown
<1> QED BY <1>2, <1>5, CallReplaced DEF Intents, IntentKnown

LEMMA Clearings ==
    /\ Clears(Keep) /\ Clears(NoInvitation) /\ Clears([verify |-> None])
    /\ \A k : Clears([session |-> k]) /\ Clears([session |-> k, back |-> FALSE])
<1>1. "invite" \notin DOMAIN Keep
  BY DEF Keep
<1> QED BY <1>1 DEF Clears, NoInvitation

LEMMA ServeIntents ==
    ASSUME Intents, NEW t \in Tabs, Serve(t)
    PROVE  Intents'
<1>1. call[t].at = "sent"
  BY DEF Serve, ServeRegister, ServeResend, ServeVerify, ServeLogin, ServePlan, ServeCreate,
         ServeSwitch, ServeOptions, ServeAccept, ServeClear, Taken
<1>2. \E code, body, sets : Clears(sets) /\ Answer(t, code, body, sets)
  <2>1. CASE ServeRegister(t) \/ ServeResend(t) \/ ServeClear(t) \/ ServeOptions(t) \/ ServePlan(t)
    BY <2>1, Clearings DEF ServeRegister, ServeResend, ServeClear, ServeOptions, ServePlan
  <2>2. CASE ServeVerify(t)
    BY <2>2, Clearings DEF ServeVerify
  <2>3. CASE ServeLogin(t)
    BY <2>3, Clearings DEF ServeLogin
  <2>4. CASE ServeCreate(t)
    BY <2>4, Clearings DEF ServeCreate
  <2>5. CASE ServeSwitch(t)
    BY <2>5, Clearings DEF ServeSwitch
  <2>6. CASE ServeAccept(t)
    BY <2>6, Clearings DEF ServeAccept
  <2> QED BY <2>1, <2>2, <2>3, <2>4, <2>5, <2>6 DEF Serve
<1> QED BY <1>1, <1>2, Answered

\* The browser stores what an answer sets.
LEMMA ReturnStep ==
    ASSUME Intents, NEW t \in Tabs, Return(t)
    PROVE  Intents'
<1>1. call[t].at = "answered"
  BY DEF Return, ReturnRegister, ReturnVerify, ReturnLogin, ReturnForm, ReturnSwitch,
         ReturnOptions, ReturnAccept, ReturnElse, Returned
<1>2. IntentKnown(Stored(t)) /\ IntentKnown(jar)
  BY <1>1, StoredKnown DEF Intents
<1>3. IntentKnown(jar)'
  <2>1. \/ \E page : Lands(t, page, Stored(t))
        \/ LandsOnInvitation(t, Stored(t))
        \/ jar' = jar \/ jar' = Stored(t)
    BY DEF Return, ReturnRegister, ReturnVerify, ReturnLogin, ReturnForm, ReturnSwitch,
           ReturnOptions, ReturnAccept, ReturnElse, LandsOnVerification, server
  <2> QED BY <1>2, <2>1, Landed, LandedOnInvitation DEF IntentKnown
<1>4. PICK x : CallKnown(x) /\ call' = [call EXCEPT ![t] = x]
  BY NoCallKnown
     DEF Return, ReturnRegister, ReturnVerify, ReturnLogin, ReturnForm, ReturnSwitch,
         ReturnOptions, ReturnAccept, ReturnElse, LandsOnVerification, Done
<1> QED BY <1>3, <1>4, CallReplaced

LEMMA IntentsKept ==
    ASSUME Intents, Next
    PROVE  Intents'
<1>1. ASSUME NEW t \in Tabs, Lose(t)
      PROVE  Intents'
  BY <1>1, NoCallKnown, CallReplaced DEF Lose, Done, Intents, IntentKnown
<1>2. ASSUME \/ \E i \in Invitations : Revoke(i)
             \/ \E w \in Workspaces, p \in People : RemoveMember(w, p)
      PROVE  Intents'
  BY <1>2 DEF Revoke, RemoveMember, browser, Intents, IntentKnown
<1>3. ASSUME IntentsLapse
      PROVE  Intents'
  <2>1. IntentKnown([Empty EXCEPT !.session = jar.session])
    BY DEF IntentKnown, Empty
  <2>2. jar' = [Empty EXCEPT !.session = jar.session] /\ call' = call
    BY <1>3 DEF IntentsLapse
  <2> QED BY <2>1, <2>2 DEF Intents, IntentKnown
<1> QED BY <1>1, <1>2, <1>3, BrowserStep, SendStep, ServeIntents, ReturnStep DEF Next
-----------------------------------------------------------------------------
(* The rows. *)

Rows == RowsTyped /\ NothingBefore /\ OneCompanyWorkspace /\ JoinedByInvitation

LEMMA NoRowsChange ==
    ASSUME Rows, UNCHANGED <<account, workspace, member, invitation, receipt>>
    PROVE  Rows'
<1>1. RowsTyped'
  BY DEF Rows, RowsTyped
<1>2. NothingBefore' /\ JoinedByInvitation'
  BY DEF Rows, NothingBefore, JoinedByInvitation
<1>3. OneCompanyWorkspace'
  BY DEF Rows, OneCompanyWorkspace, Owned
<1> QED BY <1>1, <1>2, <1>3 DEF Rows

\* A creation or an invitation is what a membership rests on.
LEMMA JoinedKept ==
    ASSUME Rows,
           \A w \in Workspaces, p \in People :
              \/ member'[w][p] = member[w][p]
              \/ workspace'[w].by = p
              \/ \E i \in Invitations : /\ invitation'[i].to = w /\ invitation'[i].of = p
                                        /\ invitation'[i].status = "accepted"
              \/ member[w][p] # "none",
           \A w \in Workspaces : workspace'[w].by = workspace[w].by \/ workspace[w].by = None,
           \A i \in Invitations :
              /\ invitation'[i].to = invitation[i].to /\ invitation'[i].of = invitation[i].of
              /\ invitation[i].status = "accepted" => invitation'[i].status = "accepted"
    PROVE  JoinedByInvitation'
<1> SUFFICES ASSUME NEW w \in Workspaces, NEW p \in People, member'[w][p] # "none"
             PROVE  \/ workspace'[w].by = p
                    \/ \E i \in Invitations : /\ invitation'[i].to = w /\ invitation'[i].of = p
                                              /\ invitation'[i].status = "accepted"
  BY DEF JoinedByInvitation
<1>1. p # None
  BY EntryAssumption
<1>2. CASE member[w][p] # "none"
  BY <1>1, <1>2 DEF Rows, JoinedByInvitation
<1> QED BY <1>2

LEMMA RegisterRows ==
    ASSUME Rows, NEW t \in Tabs, ServeRegister(t)
    PROVE  Rows'
<1> DEFINE q == call[t].what
<1>1. UNCHANGED <<workspace, member, invitation, receipt>>
  BY DEF ServeRegister, logins
<1>2. CASE account' = account
  BY <1>1, <1>2, NoRowsChange
<1>3. CASE /\ account[q.who].status = "absent"
           /\ account' = [account EXCEPT ![q.who].status = "pending", ![q.who].plan = q.plan]
  <2>1. \A p \in People : account'[p].workspace = account[p].workspace
    BY <1>3 DEF Rows, RowsTyped, AccountFields
  <2>2. \A p \in People : /\ account'[p].status = "absent" => account[p].status = "absent"
                          /\ \/ account'[p].plan = account[p].plan
                             \/ account[p].status = "absent"
    BY <1>3 DEF Rows, RowsTyped, AccountFields
  <2>3. RowsTyped'
    BY <1>1, <1>3 DEF Rows, RowsTyped, AccountFields
  <2>4. NothingBefore'
    BY <1>1, <2>1, <2>2 DEF Rows, NothingBefore
  <2>5. OneCompanyWorkspace'
    <3> SUFFICES ASSUME NEW p \in People
                 PROVE  /\ Owned(p)' = {account'[p].workspace} \ {None}
                        /\ \A w \in Owned(p)' : workspace'[w].plan = account'[p].plan
                        /\ \A r \in receipt' : r.op = "create" /\ r.by = p
                                                 => r.to = account'[p].workspace
      BY DEF OneCompanyWorkspace
    <3>1. Owned(p)' = Owned(p)
      BY <1>1 DEF Owned
    <3>2. CASE account[p].status = "absent"
      <4>1. Owned(p) = {}
        BY <3>2 DEF Rows, NothingBefore, OneCompanyWorkspace
      <4> QED BY <1>1, <2>1, <3>1, <4>1 DEF Rows, OneCompanyWorkspace
    <3>3. CASE account[p].status # "absent"
      BY <1>1, <2>1, <2>2, <3>1, <3>3 DEF Rows, OneCompanyWorkspace
    <3> QED BY <3>2, <3>3
  <2>6. JoinedByInvitation'
    BY <1>1 DEF Rows, JoinedByInvitation
  <2> QED BY <2>3, <2>4, <2>5, <2>6 DEF Rows
<1> QED BY <1>2, <1>3 DEF ServeRegister

LEMMA VerifyRows ==
    ASSUME Rows, NEW t \in Tabs, ServeVerify(t)
    PROVE  Rows'
<1>1. UNCHANGED <<workspace, member, invitation, receipt>>
  BY DEF ServeVerify, logins
<1>2. CASE account' = account
  BY <1>1, <1>2, NoRowsChange
<1>3. ASSUME NEW o, account' = [account EXCEPT ![o].status = "active"]
      PROVE  Rows'
  <2>1. \A p \in People : /\ account'[p].workspace = account[p].workspace
                          /\ account'[p].plan = account[p].plan
                          /\ account'[p].status = "absent" => account[p].status = "absent"
    BY <1>3 DEF Rows, RowsTyped, AccountFields
  <2>2. RowsTyped'
    BY <1>1, <1>3 DEF Rows, RowsTyped, AccountFields
  <2>3. NothingBefore' /\ JoinedByInvitation'
    BY <1>1, <2>1 DEF Rows, NothingBefore, JoinedByInvitation
  <2>4. OneCompanyWorkspace'
    BY <1>1, <2>1 DEF Rows, OneCompanyWorkspace, Owned
  <2> QED BY <2>2, <2>3, <2>4 DEF Rows
<1> QED BY <1>2, <1>3 DEF ServeVerify

LEMMA PlanRows ==
    ASSUME Rows, NEW t \in Tabs, ServePlan(t)
    PROVE  Rows'
<1> DEFINE p == Who(call[t].cookies.session)
<1>1. UNCHANGED <<workspace, member, invitation, receipt>>
  BY DEF ServePlan, logins
<1>2. CASE account' = account
  BY <1>1, <1>2, NoRowsChange
<1>3. CASE account[p].workspace = None /\ account' = [account EXCEPT ![p].plan = call[t].what]
  <2>1. \A o \in People : /\ account'[o].workspace = account[o].workspace
                          /\ account'[o].status = account[o].status
                          /\ \/ account'[o].plan = account[o].plan
                             \/ account[o].workspace = None
    BY <1>3 DEF Rows, RowsTyped, AccountFields
  <2>2. RowsTyped'
    BY <1>1, <1>3 DEF Rows, RowsTyped, AccountFields
  <2>3. NothingBefore' /\ JoinedByInvitation'
    BY <1>1, <2>1 DEF Rows, NothingBefore, JoinedByInvitation
  <2>4. OneCompanyWorkspace'
    BY <1>1, <2>1 DEF Rows, OneCompanyWorkspace, Owned
  <2> QED BY <2>2, <2>3, <2>4 DEF Rows
<1> QED BY <1>2, <1>3 DEF ServePlan, PlanOpen

LEMMA CreateRows ==
    ASSUME Rows, NEW t \in Tabs, ServeCreate(t)
    PROVE  Rows'
<1> DEFINE p == Who(call[t].cookies.session)
<1>1. invitation' = invitation
  BY DEF ServeCreate
<1>2. CASE UNCHANGED <<account, workspace, member, session, receipt>>
  BY <1>1, <1>2, NoRowsChange
<1>3. ASSUME p # None, Eligible(p), NEW w \in Workspaces, NEW k, NEW name,
             workspace[w].by = None,
             workspace' = [workspace EXCEPT ![w] = [by |-> p, plan |-> account[p].plan]],
             member' = [member EXCEPT ![w][p] = "active"],
             account' = [account EXCEPT ![p].workspace = w],
             receipt' = receipt \cup {[op |-> "create", by |-> p, key |-> k,
                                       name |-> name, to |-> w]}
      PROVE  Rows'
  <2> DEFINE new == [op |-> "create", by |-> p, key |-> k, name |-> name, to |-> w]
  <2>1. account[p].status = "active" /\ account[p].workspace = None
    BY <1>3 DEF Eligible
  <2>2. w # None
    BY EntryAssumption
  <2> HIDE DEF p
  <2>3. /\ workspace'[w] = [by |-> p, plan |-> account[p].plan]
        /\ \A v \in Workspaces \ {w} : workspace'[v] = workspace[v]
    BY <1>3 DEF Rows, RowsTyped
  <2>4. /\ p \in People => account'[p].workspace = w
        /\ \A o \in People : /\ o # p => account'[o].workspace = account[o].workspace
                             /\ account'[o].plan = account[o].plan
                             /\ account'[o].status = account[o].status
    BY <1>3 DEF Rows, RowsTyped, AccountFields
  <2>5. RowsTyped'
    <3>1. account' = [o \in People |-> account'[o]]
      BY <1>3 DEF Rows, RowsTyped
    <3>2. \A o \in People : AccountFields \subseteq DOMAIN account'[o]
      BY <1>3 DEF Rows, RowsTyped
    <3>3. workspace' = [v \in Workspaces |-> workspace'[v]]
      BY <1>3 DEF Rows, RowsTyped
    <3>4. member' \in [Workspaces -> [People -> {"none", "active", "removed"}]]
      BY <1>3 DEF Rows, RowsTyped
    <3> QED BY <1>1, <3>1, <3>2, <3>3, <3>4 DEF Rows, RowsTyped
  <2>6. NothingBefore'
    <3>1. \A r \in receipt' : r \in receipt \/ r.to = w
      BY <1>3
    <3> QED BY <2>1, <2>4, <3>1 DEF Rows, NothingBefore
  <2>7. JoinedByInvitation'
    <3>1. \A v \in Workspaces, o \in People :
             member'[v][o] = member[v][o] \/ workspace'[v].by = o
      BY <1>3, <2>3 DEF Rows, RowsTyped
    <3>2. \A v \in Workspaces : workspace'[v].by = workspace[v].by \/ workspace[v].by = None
      BY <1>3, <2>3
    <3> QED BY <1>1, <3>1, <3>2, JoinedKept
  <2>8. OneCompanyWorkspace'
    <3> SUFFICES ASSUME NEW o \in People
                 PROVE  /\ Owned(o)' = {account'[o].workspace} \ {None}
                        /\ \A v \in Owned(o)' : workspace'[v].plan = account'[o].plan
                        /\ \A r \in receipt' : r.op = "create" /\ r.by = o
                                                 => r.to = account'[o].workspace
      BY DEF OneCompanyWorkspace
    <3>1. o # None
      BY EntryAssumption
    <3>2. /\ Owned(o) = {account[o].workspace} \ {None}
          /\ \A v \in Owned(o) : workspace[v].plan = account[o].plan
          /\ \A r \in receipt : r.op = "create" /\ r.by = o => r.to = account[o].workspace
      BY DEF Rows, OneCompanyWorkspace
    <3>3. CASE o # p
      <4>1. Owned(o)' = Owned(o) /\ w \notin Owned(o)
        BY <1>3, <2>3, <3>1, <3>3 DEF Owned
      <4>2. \A r \in receipt' : r.by = o => r \in receipt
        BY <1>3, <3>3
      <4>3. \A v \in Owned(o) : workspace'[v] = workspace[v]
        BY <2>3, <4>1 DEF Owned
      <4> QED BY <2>4, <3>2, <3>3, <4>1, <4>2, <4>3
    <3>4. CASE o = p
      <4>1. Owned(o) = {}
        BY <2>1, <3>2, <3>4
      <4>2. Owned(o)' = {w}
        BY <2>3, <3>4, <4>1 DEF Owned
      <4>3. \A r \in receipt : ~(r.op = "create" /\ r.by = o)
        BY <2>1, <3>2, <3>4, EntryAssumption DEF Rows, NothingBefore
      <4>4. \A r \in receipt' : r \in receipt \/ r.to = w
        BY <1>3
      <4> QED BY <2>2, <2>3, <2>4, <3>4, <4>2, <4>3, <4>4
    <3> QED BY <3>3, <3>4
  <2> QED BY <2>5, <2>6, <2>7, <2>8 DEF Rows
<1> QED BY <1>2, <1>3 DEF ServeCreate

LEMMA SwitchRows ==
    ASSUME Rows, NEW t \in Tabs, ServeSwitch(t)
    PROVE  Rows'
<1>1. UNCHANGED <<account, workspace, member, invitation>>
  BY DEF ServeSwitch, rows
<1>2. \A r \in receipt' : r \in receipt \/ r.op = "switch"
  <2>1. \/ receipt' = receipt
        \/ \E by, key, to, token :
             receipt' = receipt \cup {[op |-> "switch", by |-> by, key |-> key, to |-> to,
                                       token |-> token]}
    BY DEF ServeSwitch, logins
  <2> QED BY <2>1
<1>3. RowsTyped' /\ JoinedByInvitation'
  BY <1>1 DEF Rows, RowsTyped, JoinedByInvitation
<1>4. NothingBefore' /\ OneCompanyWorkspace'
  BY <1>1, <1>2 DEF Rows, NothingBefore, OneCompanyWorkspace, Owned
<1> QED BY <1>3, <1>4 DEF Rows

LEMMA AcceptRows ==
    ASSUME Rows, Intents, NEW t \in Tabs, ServeAccept(t)
    PROVE  Rows'
<1> DEFINE i == call[t].cookies.invite
           p == Who(call[t].cookies.session)
           row == invitation[i]
<1>1. UNCHANGED <<account, workspace, receipt>>
  BY DEF ServeAccept, logins
<1>2. CASE UNCHANGED <<member, invitation>>
  BY <1>1, <1>2, NoRowsChange
<1>3. CASE /\ i # None /\ row.status = "pending" /\ row.of = p
           /\ member' = [member EXCEPT ![row.to][p] = "active"]
           /\ invitation' = [invitation EXCEPT ![i].status = "accepted"]
  <2>1. i \in Invitations
    BY <1>3 DEF ServeAccept, Taken, Intents, CallKnown, IntentKnown
  <2> HIDE DEF i, p
  <2>2. /\ row.to \in Workspaces /\ row.of = p /\ row \in InvitationRows
        /\ invitation'[i] = [row EXCEPT !.status = "accepted"]
        /\ \A j \in Invitations \ {i} : invitation'[j] = invitation[j]
    BY <1>3, <2>1 DEF Rows, RowsTyped, InvitationRows
  <2>3. RowsTyped'
    BY <1>1, <1>3, <2>1, <2>2 DEF Rows, RowsTyped, InvitationRows
  <2>4. NothingBefore' /\ OneCompanyWorkspace'
    BY <1>1 DEF Rows, NothingBefore, OneCompanyWorkspace, Owned
  <2>5. JoinedByInvitation'
    <3>1. /\ invitation'[i].to = row.to /\ invitation'[i].of = p
          /\ invitation'[i].status = "accepted"
      BY <2>2 DEF InvitationRows
    <3>2. \A w \in Workspaces, o \in People :
             member'[w][o] = member[w][o] \/ (w = row.to /\ o = p)
      BY <1>3 DEF Rows, RowsTyped
    <3>3. \A j \in Invitations :
             /\ invitation'[j].to = invitation[j].to /\ invitation'[j].of = invitation[j].of
             /\ invitation[j].status = "accepted" => invitation'[j].status = "accepted"
      BY <2>1, <2>2, <3>1
    <3> QED BY <1>1, <2>1, <3>1, <3>2, <3>3, JoinedKept
  <2> QED BY <2>3, <2>4, <2>5 DEF Rows
<1> QED BY <1>2, <1>3 DEF ServeAccept, OfAddress

LEMMA OthersRows ==
    ASSUME Rows,
           \/ \E i \in Invitations : Revoke(i)
           \/ \E w \in Workspaces, p \in People : RemoveMember(w, p)
    PROVE  Rows'
<1>1. UNCHANGED <<account, workspace, receipt>>
  BY DEF Revoke, RemoveMember, logins
<1>2. NothingBefore' /\ OneCompanyWorkspace'
  BY <1>1 DEF Rows, NothingBefore, OneCompanyWorkspace, Owned
<1>3. /\ member' \in [Workspaces -> [People -> {"none", "active", "removed"}]]
      /\ invitation' \in [Invitations -> InvitationRows]
  <2>1. CASE \E i \in Invitations : Revoke(i)
    BY <2>1 DEF Revoke, Rows, RowsTyped, InvitationRows
  <2>2. CASE \E w \in Workspaces, p \in People : RemoveMember(w, p)
    BY <2>2 DEF RemoveMember, Rows, RowsTyped
  <2> QED BY <2>1, <2>2
<1>7. RowsTyped'
  BY <1>1, <1>3 DEF Rows, RowsTyped
<1>4. \A w \in Workspaces, p \in People :
         member'[w][p] = member[w][p] \/ member[w][p] # "none"
  BY DEF Revoke, RemoveMember, Rows, RowsTyped
<1>5. \A j \in Invitations :
         /\ invitation'[j].to = invitation[j].to /\ invitation'[j].of = invitation[j].of
         /\ invitation[j].status = "accepted" => invitation'[j].status = "accepted"
  <2>1. CASE \E i \in Invitations : Revoke(i)
    BY <2>1 DEF Revoke, Rows, RowsTyped, InvitationRows
  <2>2. CASE \E w \in Workspaces, p \in People : RemoveMember(w, p)
    BY <2>2 DEF RemoveMember
  <2> QED BY <2>1, <2>2
<1>6. JoinedByInvitation'
  BY <1>1, <1>4, <1>5, JoinedKept
<1> QED BY <1>2, <1>6, <1>7 DEF Rows

LEMMA RowsKept ==
    ASSUME Rows, Intents, Next
    PROVE  Rows'
<1>1. ASSUME UNCHANGED <<account, workspace, member, invitation, receipt>>
      PROVE  Rows'
  BY <1>1, NoRowsChange
<1>2. ASSUME NEW t \in Tabs,
             \/ \E l \in Links : OpenVerification(t, l)
             \/ \E i \in Invitations : OpenInvitation(t, i)
             \/ \E p \in Visitors : Register(t, p) \/ Login(t, p)
             \/ \E name \in {1, 2} : Create(t, name)
             \/ \E w \in Workspaces : Switch(t, w)
             \/ Open(t) \/ Resend(t) \/ SavePlan(t) \/ ReloadOptions(t) \/ Accept(t)
             \/ NotNow(t) \/ Leave(t) \/ Send(t) \/ Lose(t)
      PROVE  Rows'
  BY <1>1, <1>2 DEF OpenVerification, OpenInvitation, Register, Login, Create, Switch, Open,
     Resend, SavePlan, ReloadOptions, Accept, NotNow, Leave, Send, Lose, server, rows, logins
<1>3. ASSUME NEW t \in Tabs, Return(t)
      PROVE  Rows'
  BY <1>1, <1>3 DEF Return, ReturnRegister, ReturnVerify, ReturnLogin, ReturnForm, ReturnSwitch,
     ReturnOptions, ReturnAccept, ReturnElse, server, rows, logins
<1>4. ASSUME NEW t \in Tabs, Serve(t)
      PROVE  Rows'
  <2>1. CASE ServeResend(t) \/ ServeLogin(t) \/ ServeOptions(t) \/ ServeClear(t)
    BY <1>1, <2>1 DEF ServeResend, ServeLogin, ServeOptions, ServeClear, server, rows, logins
  <2> QED BY <1>4, <2>1, RegisterRows, VerifyRows, PlanRows, CreateRows, SwitchRows,
             AcceptRows DEF Serve
<1>5. ASSUME IntentsLapse
      PROVE  Rows'
  BY <1>1, <1>5 DEF IntentsLapse, server, rows, logins
<1> QED BY <1>2, <1>3, <1>4, <1>5, OthersRows DEF Next
-----------------------------------------------------------------------------
(* The theorems. *)

LEMMA InitInv == Init => IInv
<1> SUFFICES ASSUME NEW s \in Starts,
                    account = s.account, workspace = s.workspace, member = s.member,
                    invitation = s.invitation, jar = [Empty EXCEPT !.session = issued],
                    receipt = {}, call = [t \in Tabs |-> NoCall]
             PROVE  IInv
  BY DEF Init
<1>1. /\ account \in [People -> Accounts] /\ workspace \in [Workspaces -> WorkspaceRows]
      /\ member \in [Workspaces -> [People -> {"none", "active", "removed"}]]
      /\ invitation \in [Invitations -> InvitationRows]
  BY EntryAssumption
<1>2. RowsTyped
  BY <1>1 DEF RowsTyped, Accounts, AccountFields
<1>3. \A p \in People :
         /\ {w \in Workspaces : workspace[w].by = p} = {account[p].workspace} \ {None}
         /\ account[p].workspace # None =>
               workspace[account[p].workspace].plan = account[p].plan /\ account[p].status # "absent"
  BY EntryAssumption
<1>4. NothingBefore
  BY <1>3 DEF NothingBefore
<1>5. OneCompanyWorkspace
  BY <1>3 DEF OneCompanyWorkspace, Owned
<1>6. JoinedByInvitation
  <2>1. \A w \in Workspaces, p \in People :
           s.member[w][p] # "none" =>
              \/ s.workspace[w].by = p
              \/ \E i \in Invitations : s.invitation[i] = [to |-> w, of |-> p, status |-> "accepted"]
    BY EntryAssumption
  <2>2. ASSUME NEW w \in Workspaces, NEW p \in People, member[w][p] # "none",
               workspace[w].by # p
        PROVE  \E i \in Invitations : /\ invitation[i].to = w /\ invitation[i].of = p
                                       /\ invitation[i].status = "accepted"
    <3>1. PICK i \in Invitations : invitation[i] = [to |-> w, of |-> p, status |-> "accepted"]
      BY <2>1, <2>2
    <3> QED BY <3>1
  <2> QED BY <2>2 DEF JoinedByInvitation
<1>7. Intents
  BY NoCallKnown DEF Intents, IntentKnown, Empty
<1> QED BY <1>2, <1>4, <1>5, <1>6, <1>7 DEF IInv

LEMMA NextInv == IInv /\ [Next]_vars => IInv'
<1>1. ASSUME IInv, Next PROVE IInv'
  BY <1>1, RowsKept, IntentsKept DEF IInv, Rows
<1>2. ASSUME IInv, UNCHANGED vars PROVE IInv'
  <2>1. Intents'
    BY <1>2 DEF IInv, Intents, vars, browser
  <2>2. Rows'
    BY <1>2, NoRowsChange DEF IInv, Rows, vars, server, rows, logins
  <2> QED BY <2>1, <2>2 DEF IInv, Rows
<1> QED BY <1>1, <1>2

LEMMA AlwaysInv == Spec => []IInv
  BY InitInv, NextInv, PTL DEF Spec

\* However often, in however many tabs and under whatever keys its creation is
\* submitted and repeated, an account gets one workspace, with its plan.
THEOREM OneEach == Spec => []OneCompanyWorkspace
<1>1. IInv => OneCompanyWorkspace
  BY DEF IInv
<1> QED BY <1>1, AlwaysInv, PTL

\* Whoever sits at the browser and whatever links are opened in it, membership
\* comes from a creation or from an accepted invitation to the own address.
THEOREM OwnInvitations == Spec => []JoinedByInvitation
<1>1. IInv => JoinedByInvitation
  BY DEF IInv
<1> QED BY <1>1, AlwaysInv, PTL
-----------------------------------------------------------------------------
(***************************************************************************)
(* Types, and who can still get a token.  A token is handed out once: it   *)
(* is in an answer, or a tab holds the key under which a receipt keeps it, *)
(* and until the browser stores it nobody sends it, so that no login and   *)
(* no switch ends it.  Afterwards no tab can get it again.                 *)
(***************************************************************************)
TabFields == {"at", "invited", "who", "shown", "keys", "email"}
KeyNames == Workspaces \cup {None}

TabTyped(x) ==
    /\ DOMAIN x = TabFields
    /\ x.at \in Pages /\ x.invited \in BOOLEAN /\ x.email \in People \cup {None}
    /\ x.keys \in [KeyNames -> Nat]
    /\ x.at \in {"ready", "switch", "create"} => x.who # None

\* A request belongs to the page that made it, which waits for the answer.
Fits(x, page) ==
    \/ /\ x.kind = "register" /\ page.at = "register"
       /\ x.what.who \in People /\ x.what.plan \in Plans \cup {None}
    \/ x.kind = "resend" /\ page.at \in {"waiting", "unverified"} /\ x.what \in People
    \/ x.kind = "verify" /\ page.at = "verifying"
    \/ x.kind = "login" /\ page.at = "login" /\ x.what \in People
    \/ x.kind = "plan" /\ page.at = "plans" /\ x.what \in Plans
    \/ x.kind = "create" /\ page.at = "create" /\ x.what \in Nat /\ x.key \in Nat
    \/ /\ x.kind = "switch" /\ page.at = "switch" /\ x.what \in Workspaces
       /\ x.key \in Nat \ {0} /\ page.keys[x.what] = x.key
    \/ x.kind = "options" /\ page.at = "switch"
    \/ x.kind \in {"accept", "clear"} /\ page.at = "accept"

\* The cookies of an answer, when n tokens are issued.
SetsTyped(sets, n) ==
    /\ DOMAIN sets \subseteq {"session", "verify", "invite", "back"}
    /\ "session" \in DOMAIN sets => sets.session \in 1 .. n
    /\ "verify" \in DOMAIN sets => sets.verify = None
    /\ "invite" \in DOMAIN sets => sets.invite = None
    /\ "back" \in DOMAIN sets => sets.back = FALSE

Carrying(x) == x.at \in {"sent", "answered"}

AnswerTyped(x, n) ==
    /\ SetsTyped(x.sets, n)
    /\ x.kind = "login" /\ x.code = "ok" => x.body \in {"accept", "create", "home", "switch"}
    /\ x.kind = "switch" /\ x.code = "ok" => "session" \in DOMAIN x.sets
    /\ "session" \in DOMAIN x.sets => x.kind \in {"login", "switch"}

CallTyped(x, page, n) ==
    /\ x.at \in {"idle", "asked", "sent", "answered"}
    /\ x.at # "idle" => {"kind", "what", "key"} \subseteq DOMAIN x /\ Fits(x, page)
    /\ Carrying(x) => /\ "cookies" \in DOMAIN x
                      /\ x.cookies \in Jars /\ x.cookies.session <= n
    /\ x.at = "answered" => AnswerTyped(x, n)

OneLiveLink == \A l, m \in Links :
    link[l].of = link[m].of /\ link[l].status = "live" /\ link[m].status = "live" => l = m

AccountsTyped ==
    /\ account \in [People -> Accounts] /\ workspace \in [Workspaces -> WorkspaceRows]
    /\ link \in [Links -> LinkRows] /\ OneLiveLink

LoginsTyped ==
    /\ session \in [Tokens -> Sessions] /\ issued \in 0 .. MaxTokens
    /\ receipt \subseteq Receipts
    /\ steps \in Nat /\ left \in BOOLEAN

BrowserTyped ==
    /\ jar \in Jars /\ jar.session <= issued
    /\ tab = [t \in Tabs |-> tab[t]]
    /\ \A t \in Tabs : TabTyped(tab[t]) /\ CallTyped(call[t], tab[t], issued)

Typed == AccountsTyped /\ LoginsTyped /\ BrowserTyped

Switches == {r \in receipt : r.op = "switch"}
Holds(t, key) == \E w \in KeyNames : tab[t].keys[w] = key
Gets(t, k) == /\ call[t].at = "answered" /\ "session" \in DOMAIN call[t].sets
              /\ call[t].sets.session = k
Owes(t, k) == Gets(t, k) \/ \E r \in Switches : r.token = k /\ Holds(t, r.key)
Carries(x, k) == Carrying(x) /\ x.cookies.session = k
Carried(k) == \/ jar.session = k
              \/ \E t \in Tabs : Carries(call[t], k)
              \/ \E r \in Switches : r.by = k

Numbered ==
    /\ \A t \in Tabs, w \in KeyNames : tab[t].keys[w] <= steps
    /\ \A r \in Switches : r.key \in 1 .. steps /\ r.by \in 1 .. issued /\ r.token \in 1 .. issued

KeysOnce == \A t, u \in Tabs : \A v, w \in KeyNames :
    tab[t].keys[v] = tab[u].keys[w] /\ tab[t].keys[v] # 0 => t = u

TokensOnce == \A t \in Tabs, k \in Tokens : Owes(t, k) =>
    session[k].live /\ ~Carried(k) /\ \A u \in Tabs : Owes(u, k) => u = t

\* The tab that asked for the switch of receipt r has its key.
Keeps(t, r) == tab[t].at = "switch" /\ tab[t].keys[r.to] = r.key

Repeatable == \A r \in Switches : r.by = jar.session =>
    session[r.token].live /\ ~Carried(r.token) /\ (left \/ \E t \in Tabs : Keeps(t, r))

Handed == Numbered /\ KeysOnce /\ TokensOnce /\ Repeatable
-----------------------------------------------------------------------------
(* What a tab does. *)

SameKeys(t) == /\ tab'[t].at = "switch"
               /\ \A w \in KeyNames : tab[t].keys[w] # 0 => tab'[t].keys[w] = tab[t].keys[w]

\* A step of tab t that calls no route: the cookies keep their session, and a
\* page with the choice of workspaces its keys; or an answer is stored.
Moves(t) ==
    /\ UNCHANGED <<receipt, issued>> /\ \A k \in Tokens : session'[k].live = session[k].live
    /\ tab' = [tab EXCEPT ![t] = tab'[t]] /\ call' = [call EXCEPT ![t] = call'[t]]
    /\ steps' \in {steps, steps + 1} /\ (left => left')
    /\ \A w \in KeyNames : \/ tab'[t].keys[w] \in {tab[t].keys[w], 0}
                           \/ tab'[t].keys[w] = steps + 1 /\ steps' = steps + 1
    /\ call'[t].at # "answered"
    /\ \/ /\ jar'.session = jar.session
          /\ Carrying(call'[t]) => call'[t].cookies.session = jar.session
          /\ left' \/ tab[t].at # "switch" \/ SameKeys(t)
       \/ /\ Gets(t, jar'.session) /\ ~Carrying(call'[t])
          /\ tab'[t].keys = NoKeys

LEMMA KeyParts ==
    ASSUME Typed, Numbered, NEW t \in Tabs, NEW w \in KeyNames
    PROVE  tab[t].keys[w] \in Nat /\ tab[t].keys[w] <= steps /\ steps \in Nat
  BY DEF Typed, BrowserTyped, LoginsTyped, TabTyped, Numbered

LEMMA SwitchParts ==
    ASSUME Typed, Numbered, NEW r \in Switches
    PROVE  /\ r.to \in Workspaces /\ r.to \in KeyNames /\ r.key \in Nat \ {0}
           /\ r.key <= steps /\ r.token \in Tokens /\ r.by \in Tokens
           /\ r.token <= issued /\ r.by <= issued /\ r.token # 0 /\ r.by # 0
<1>1. r \in Receipts /\ r.op = "switch"
  BY DEF Typed, LoginsTyped, Switches
<1>2. r.to \in Workspaces
  BY <1>1 DEF Receipts
<1>3. r.key \in 1 .. steps /\ r.by \in 1 .. issued /\ r.token \in 1 .. issued
  BY DEF Numbered
<1>4. steps \in Nat /\ issued \in 0 .. MaxTokens /\ MaxTokens \in Nat
  BY EntryAssumption DEF Typed, LoginsTyped
<1> QED BY <1>2, <1>3, <1>4 DEF KeyNames, Tokens

LEMMA GetsToken ==
    ASSUME Typed, NEW t \in Tabs, NEW k, Gets(t, k)
    PROVE  k \in Tokens /\ k <= issued /\ k # 0
<1>1. call[t].sets.session \in 1 .. issued
  BY DEF Typed, BrowserTyped, CallTyped, AnswerTyped, SetsTyped, Gets
<1>2. issued \in 0 .. MaxTokens /\ MaxTokens \in Nat
  BY EntryAssumption DEF Typed, LoginsTyped
<1> QED BY <1>1, <1>2 DEF Gets, Tokens

LEMMA Moved ==
    ASSUME Typed, Intents, Handed, NEW t \in Tabs, Moves(t)
    PROVE  Handed'
<1>1. /\ \A u \in Tabs : u # t => tab'[u] = tab[u] /\ call'[u] = call[u]
      /\ Switches' = Switches
  BY DEF Moves, Typed, BrowserTyped, Intents, Switches
<1>2. Numbered /\ KeysOnce /\ TokensOnce /\ Repeatable
  BY DEF Handed
<1>3. \A u \in Tabs, w \in KeyNames :
         tab'[u].keys[w] \in {tab[u].keys[w], 0} \/ (u = t /\ tab'[u].keys[w] = steps + 1
                                                     /\ steps' = steps + 1)
  BY <1>1 DEF Moves
<1>4. steps \in Nat /\ steps' \in {steps, steps + 1} /\ issued' = issued
  BY DEF Moves, Typed, LoginsTyped
<1>5. Numbered'
  <2>1. ASSUME NEW u \in Tabs, NEW w \in KeyNames
        PROVE  tab'[u].keys[w] <= steps'
    BY <1>2, <1>3, <1>4, KeyParts
  <2>2. ASSUME NEW r \in Switches
        PROVE  r.key \in 1 .. steps' /\ r.by \in 1 .. issued' /\ r.token \in 1 .. issued'
    BY <1>2, <1>4, <2>2 DEF Numbered
  <2> QED BY <1>1, <2>1, <2>2 DEF Numbered
<1>6. KeysOnce'
  <2> SUFFICES ASSUME NEW u1 \in Tabs, NEW u2 \in Tabs, NEW v \in KeyNames, NEW w \in KeyNames,
                      tab'[u1].keys[v] = tab'[u2].keys[w], tab'[u1].keys[v] # 0
               PROVE  u1 = u2
    BY DEF KeysOnce
  <2>1. /\ tab[u1].keys[v] \in Nat /\ tab[u1].keys[v] <= steps
        /\ tab[u2].keys[w] \in Nat /\ tab[u2].keys[w] <= steps
    BY <1>2, KeyParts
  <2>4. /\ \/ tab'[u1].keys[v] \in {tab[u1].keys[v], 0}
           \/ u1 = t /\ tab'[u1].keys[v] = steps + 1
        /\ \/ tab'[u2].keys[w] \in {tab[u2].keys[w], 0}
           \/ u2 = t /\ tab'[u2].keys[w] = steps + 1
    BY <1>3
  <2>5. tab[u1].keys[v] = tab[u2].keys[w] /\ tab[u1].keys[v] # 0 => u1 = u2
    BY <1>2 DEF KeysOnce
  <2> DEFINE a == tab'[u1].keys[v]
             b == tab'[u2].keys[w]
             c == tab[u1].keys[v]
             d == tab[u2].keys[w]
  <2>6. /\ a = b /\ a # 0 /\ c \in Nat /\ d \in Nat /\ c <= steps /\ d <= steps
        /\ a \in {c, 0} \/ (u1 = t /\ a = steps + 1)
        /\ b \in {d, 0} \/ (u2 = t /\ b = steps + 1)
        /\ c = d /\ c # 0 => u1 = u2
    BY <2>1, <2>4, <2>5
  <2> HIDE DEF a, b, c, d
  <2> QED BY <1>4, <2>6
<1>7. ASSUME NEW u \in Tabs, NEW r \in Switches, NEW w \in KeyNames, tab'[u].keys[w] = r.key
      PROVE  tab[u].keys[w] = r.key
  <2>1. r.key \in Nat \ {0} /\ r.key <= steps
    BY <1>2, SwitchParts
  <2> QED BY <1>3, <1>4, <1>7, <2>1
<1>8. ASSUME NEW u \in Tabs, NEW k, Owes(u, k)'
      PROVE  Owes(u, k)
  <2>1. CASE Gets(u, k)'
    BY <1>1, <2>1 DEF Gets, Owes, Moves
  <2>2. CASE \E r \in Switches : r.token = k /\ \E w \in KeyNames : tab'[u].keys[w] = r.key
    BY <1>7, <2>2 DEF Owes, Holds
  <2> QED BY <1>1, <1>8, <2>1, <2>2 DEF Owes, Holds
<1>9. ASSUME NEW k, Carried(k)'
      PROVE  Carried(k) \/ (k = jar'.session /\ Gets(t, k) /\ tab'[t].keys = NoKeys)
  <2>1. CASE jar'.session = k
    BY <2>1 DEF Moves, Carried
  <2>2. CASE \E u \in Tabs : Carries(call'[u], k)
    BY <1>1, <2>2 DEF Moves, Carried, Carries
  <2>3. CASE \E r \in Switches : r.by = k
    BY <2>3 DEF Carried
  <2> QED BY <1>1, <1>9, <2>1, <2>2, <2>3 DEF Carried
<1>10. TokensOnce'
  <2> SUFFICES ASSUME NEW u \in Tabs, NEW k \in Tokens, Owes(u, k)'
               PROVE  /\ session'[k].live /\ ~Carried(k)'
                      /\ \A v \in Tabs : Owes(v, k)' => v = u
    BY DEF TokensOnce
  <2>1. Owes(u, k)
    BY <1>8
  <2>2. session[k].live /\ ~Carried(k) /\ \A v \in Tabs : Owes(v, k) => v = u
    BY <1>2, <2>1 DEF TokensOnce
  <2>3. ASSUME k = jar'.session, Gets(t, k), tab'[t].keys = NoKeys
        PROVE  FALSE
    <3>1. u = t
      BY <2>2, <2>3 DEF Owes
    <3>2. ~Gets(t, k)'
      BY DEF Gets, Moves
    <3>3. PICK r \in Switches : r.token = k /\ \E w \in KeyNames : tab'[t].keys[w] = r.key
      BY <1>1, <3>1, <3>2 DEF Owes, Holds
    <3>4. r.key # 0
      BY <1>2, SwitchParts
    <3> QED BY <2>3, <3>3, <3>4 DEF NoKeys, KeyNames
  <2> QED BY <1>8, <1>9, <2>2, <2>3 DEF Moves
<1>11. Repeatable'
  <2> SUFFICES ASSUME NEW r \in Switches, r.by = jar'.session
               PROVE  /\ session'[r.token].live /\ ~Carried(r.token)'
                      /\ left' \/ \E u \in Tabs : Keeps(u, r)'
    BY <1>1 DEF Repeatable
  <2>1. r.to \in KeyNames /\ r.key # 0 /\ r.token \in Tokens
    BY <1>2, SwitchParts
  <2>2. CASE Gets(t, jar'.session)
    <3>1. jar'.session \in Tokens
      BY <2>2, GetsToken
    <3>2. ~Carried(r.by)
      BY <1>2, <2>2, <3>1 DEF Owes, TokensOnce
    <3> QED BY <3>2 DEF Carried
  <2>3. CASE /\ ~Gets(t, jar'.session) /\ jar'.session = jar.session
             /\ left' \/ tab[t].at # "switch" \/ SameKeys(t)
    <3>1. session[r.token].live /\ ~Carried(r.token) /\ (left \/ \E u \in Tabs : Keeps(u, r))
      BY <1>2, <2>3 DEF Repeatable
    <3>2. ~Carried(r.token)'
      BY <1>9, <2>3, <3>1
    <3>3. ASSUME NEW u \in Tabs, Keeps(u, r), ~left'
          PROVE  Keeps(u, r)'
      <4>1. CASE u # t
        BY <1>1, <3>3, <4>1 DEF Keeps
      <4>2. CASE u = t
        BY <2>1, <2>3, <3>3, <4>2 DEF Keeps, SameKeys
      <4> QED BY <4>1, <4>2
    <3> QED BY <2>1, <3>1, <3>2, <3>3 DEF Moves
  <2> QED BY <2>2, <2>3 DEF Moves
<1> QED BY <1>5, <1>6, <1>10, <1>11 DEF Handed

\* The rows and types beside what a tab does.
Kept(t) ==
    /\ Moves(t)
    /\ TabTyped(tab'[t]) /\ CallTyped(call'[t], tab'[t], issued)
    /\ jar' \in Jars /\ session' \in [Tokens -> Sessions] /\ left' \in BOOLEAN
    /\ UNCHANGED <<account, link, workspace>>

LEMMA KeptStep ==
    ASSUME Typed, Intents, Handed, NEW t \in Tabs, Kept(t)
    PROVE  Typed' /\ Handed'
<1>1. Handed'
  BY Moved DEF Kept
<1>2. AccountsTyped'
  BY DEF Kept, Typed, AccountsTyped, OneLiveLink
<1>3. LoginsTyped'
  BY DEF Kept, Moves, Typed, LoginsTyped
<1>4. BrowserTyped'
  <2>1. jar'.session <= issued
    BY GetsToken DEF Kept, Moves, Typed, BrowserTyped
  <2>2. /\ issued' = issued
        /\ tab' = [tab EXCEPT ![t] = tab'[t]] /\ call' = [call EXCEPT ![t] = call'[t]]
    BY DEF Kept, Moves
  <2>3. ASSUME NEW u \in Tabs
        PROVE  TabTyped(tab'[u]) /\ CallTyped(call'[u], tab'[u], issued)
    BY <2>2, <2>3 DEF Kept, Typed, BrowserTyped, Intents
  <2>4. tab' = [u \in Tabs |-> tab'[u]]
    BY <2>2 DEF Typed, BrowserTyped
  <2> QED BY <2>1, <2>2, <2>3, <2>4 DEF Kept, BrowserTyped
<1> QED BY <1>1, <1>2, <1>3, <1>4 DEF Typed
-----------------------------------------------------------------------------
(* Pages. *)

Guarded == {"ready", "switch", "create"}

PageFor(t, at, p, shown) == [Page(t, at) EXCEPT !.who = p, !.shown = shown]

LEMMA PageTyped ==
    ASSUME Typed, NEW t \in Tabs, NEW at \in Pages
    PROVE  /\ at \notin Guarded => TabTyped(Page(t, at))
           /\ Page(t, at).keys = NoKeys /\ NoKeys \in [KeyNames -> Nat]
           /\ DOMAIN Page(t, at) = TabFields
           /\ Page(t, at).email \in People \cup {None}
           /\ \A p, shown : p # None => /\ TabTyped(PageFor(t, at, p, shown))
                                       /\ PageFor(t, at, p, shown).keys = NoKeys
<1>1. TabTyped(tab[t])
  BY DEF Typed, BrowserTyped
<1>2. NoKeys \in [KeyNames -> Nat]
  BY DEF NoKeys, KeyNames
<1> HIDE DEF NoKeys
<1>3. tab[t].email \in People \cup {None}
  BY <1>1 DEF TabTyped
<1>4. Page(t, at) = [at |-> at, invited |-> FALSE, who |-> None, shown |-> None, keys |-> NoKeys,
                     email |-> tab[t].email]
  BY DEF Page
<1>5. at \notin Guarded => TabTyped(Page(t, at))
  BY <1>2, <1>3, <1>4 DEF TabTyped, TabFields, Guarded
<1>6. ASSUME NEW p, NEW shown, p # None
      PROVE  /\ TabTyped(PageFor(t, at, p, shown))
             /\ PageFor(t, at, p, shown).keys = NoKeys
  BY <1>2, <1>3, <1>4, <1>6 DEF TabTyped, TabFields, PageFor
<1> QED BY <1>2, <1>3, <1>4, <1>5, <1>6 DEF TabFields

LEMMA WhoTyped ==
    ASSUME LoginsTyped, NEW k \in Nat, k <= issued
    PROVE  /\ Who(k) \in People \cup {None}
           /\ Who(k) # None => k \in Tokens /\ k \in 1 .. issued /\ session[k].live
                               /\ session[k].of = Who(k)
<1>1. issued \in 0 .. MaxTokens /\ MaxTokens \in Nat
  BY EntryAssumption DEF LoginsTyped
<1>2. CASE k = 0
  BY <1>2 DEF Who, Live
<1>3. CASE k # 0
  <2>1. k \in Tokens /\ k \in 1 .. issued
    BY <1>1, <1>3 DEF Tokens
  <2>2. session[k].of \in People \cup {None}
    BY <2>1 DEF LoginsTyped, Sessions
  <2> QED BY <2>1, <2>2 DEF Who, Live
<1> QED BY <1>2, <1>3

LEMMA SelectedTyped ==
    ASSUME NEW p, NEW active
    PROVE  Selected(p, active) \in Workspaces \cup {None}
<1>1. Options(p) \subseteq Workspaces
  BY DEF Options
<1>2. ASSUME Cardinality(Options(p)) = 1
      PROVE  (CHOOSE w \in Options(p) : TRUE) \in Workspaces
  <2>1. Options(p) # {}
    BY <1>2, FS_EmptySet
  <2> QED BY <1>1, <2>1
<1> QED BY <1>1, <1>2 DEF Selected

LEMMA LandingTyped ==
    ASSUME NEW page \in {"home", "switch", "ready", "create"}, NEW p, p # None, NEW active
    PROVE  Landing(page, p, active) \in Pages
<1>1. CreatePage(p) \in Pages /\ NoAccess(p) \in Pages
  BY DEF CreatePage, NoAccess, Pages
<1>2. SwitchPage(p) \in Pages
  BY <1>1 DEF SwitchPage, Pages
<1>3. ReadyPage(p, active) \in Pages
  BY <1>1, <1>2 DEF ReadyPage, Pages
<1>4. HomePage(p, active) \in Pages
  BY <1>1, <1>2, <1>3 DEF HomePage, Pages
<1> QED BY <1>1, <1>2, <1>3, <1>4 DEF Landing

\* Tab t has a new page, and the session of the cookies c.
Opens(t, c) ==
    /\ jar' \in Jars /\ jar'.session = c.session
    /\ tab' = [tab EXCEPT ![t] = tab'[t]] /\ TabTyped(tab'[t]) /\ tab'[t].keys = NoKeys
    /\ session' \in [Tokens -> Sessions] /\ \A k \in Tokens : session'[k].live = session[k].live

LEMMA Unmoved ==
    ASSUME Typed, NEW t \in Tabs, NEW x, tab' = [tab EXCEPT ![t] = x]
    PROVE  tab'[t] = x /\ tab' = [tab EXCEPT ![t] = tab'[t]]
  BY DEF Typed, BrowserTyped

LEMMA LandsParts ==
    ASSUME Typed, NEW t \in Tabs, NEW page \in {"home", "switch", "ready", "create"},
           NEW c \in Jars, c.session <= issued, Lands(t, page, c)
    PROVE  Opens(t, c)
<1> DEFINE k == c.session
           p == Who(k)
           a == session[k].active
           at == Landing(page, p, a)
<1>1. LoginsTyped /\ k \in Nat /\ jar' = c
  BY DEF Typed, Jars, Lands
<1>2. CASE p = None
  <2>1. tab' = [tab EXCEPT ![t] = Page(t, "login")] /\ session' = session
    BY <1>2 DEF Lands
  <2>2. "login" \in Pages \ Guarded
    BY DEF Pages, Guarded
  <2>3. TabTyped(Page(t, "login")) /\ Page(t, "login").keys = NoKeys
    BY <2>2, PageTyped
  <2> QED BY <1>1, <2>1, <2>3, Unmoved DEF Opens, LoginsTyped
<1>3. CASE p # None
  <2>1. k \in Tokens
    BY <1>1, <1>3, WhoTyped
  <2>2. at \in Pages
    BY <1>3, LandingTyped
  <2>3. PICK active, shown :
           /\ active = (IF LooksUp(page, p, a) THEN Selected(p, a) ELSE a)
           /\ tab' = [tab EXCEPT ![t] = [Page(t, at) EXCEPT !.who = p, !.shown = shown]]
           /\ session' = [session EXCEPT ![k].active = active]
    BY <1>3 DEF Lands
  <2>4. active \in Workspaces \cup {None}
    BY <1>1, <2>1, <2>3, SelectedTyped DEF LoginsTyped, Sessions
  <2>5. /\ session' \in [Tokens -> Sessions]
        /\ \A j \in Tokens : session'[j].live = session[j].live
    BY <1>1, <2>1, <2>3, <2>4 DEF LoginsTyped, Sessions
  <2> HIDE DEF at, p
  <2> DEFINE x == PageFor(t, at, p, shown)
  <2>6. TabTyped(x) /\ x.keys = NoKeys
    BY <1>3, <2>2, PageTyped
  <2> HIDE DEF x
  <2>7. tab' = [tab EXCEPT ![t] = x]
    BY <2>3 DEF x, PageFor
  <2> QED BY <1>1, <2>5, <2>6, <2>7, Unmoved DEF Opens
<1> QED BY <1>2, <1>3

LEMMA InvitationParts ==
    ASSUME Typed, NEW t \in Tabs, NEW c \in Jars, LandsOnInvitation(t, c)
    PROVE  Opens(t, c)
<1> DEFINE i == c.invite
           x == [Page(t, "accept") EXCEPT !.shown = i, !.who = Who(c.session)]
<1>1. session' = session /\ session \in [Tokens -> Sessions]
  BY DEF LandsOnInvitation, Typed, LoginsTyped
<1>2. {"accept", "gone"} \subseteq Pages \ Guarded
  BY DEF Pages, Guarded
<1>3. CASE jar' = c /\ tab' = [tab EXCEPT ![t] = x]
  <2>1. /\ TabTyped(Page(t, "accept")) /\ DOMAIN Page(t, "accept") = TabFields
        /\ Page(t, "accept").keys = NoKeys
    BY <1>2, PageTyped
  <2>2. TabTyped(x) /\ x.keys = NoKeys
    BY <2>1 DEF TabTyped, Page, TabFields
  <2> HIDE DEF x
  <2> QED BY <1>1, <1>3, <2>2, Unmoved DEF Opens
<1>4. CASE /\ jar' = [c EXCEPT !.invite = None, !.back = IF i = None THEN @ ELSE FALSE]
           /\ tab' = [tab EXCEPT ![t] = Page(t, "gone")]
  <2>1. TabTyped(Page(t, "gone")) /\ Page(t, "gone").keys = NoKeys
    BY <1>2, PageTyped
  <2>2. jar' \in Jars /\ jar'.session = c.session
    BY <1>4 DEF Jars
  <2> QED BY <1>1, <1>4, <2>1, <2>2, Unmoved DEF Opens
<1> QED BY <1>3, <1>4 DEF LandsOnInvitation

LEMMA VerificationParts ==
    ASSUME Typed, NEW t \in Tabs, NEW c \in Jars, NEW email \in People \cup {None},
           LandsOnVerification(t, email, c), session' = session
    PROVE  /\ Opens(t, c)
           /\ \E y : call' = [call EXCEPT ![t] = y] /\ CallTyped(y, tab'[t], issued)
                     /\ y.at \in {"idle", "asked"}
<1>1. session \in [Tokens -> Sessions] /\ link \in [Links -> LinkRows] /\ jar' = c
  BY DEF LandsOnVerification, Typed, LoginsTyped, AccountsTyped
<1>2. {"waiting", "verifying"} \subseteq Pages \ Guarded
  BY DEF Pages, Guarded
<1>3. CASE c.verify = None
  <2> DEFINE x == [Page(t, "waiting") EXCEPT !.email = email]
  <2>1. TabTyped(Page(t, "waiting")) /\ Page(t, "waiting").keys = NoKeys
    BY <1>2, PageTyped
  <2>2. TabTyped(x) /\ x.keys = NoKeys
    BY <2>1 DEF TabTyped, TabFields
  <2>3. tab' = [tab EXCEPT ![t] = x] /\ call' = [call EXCEPT ![t] = NoCall]
    BY <1>3 DEF LandsOnVerification
  <2>4. CallTyped(NoCall, tab'[t], issued) /\ NoCall.at = "idle"
    BY DEF NoCall, CallTyped, Carrying
  <2> HIDE DEF x
  <2> QED BY <1>1, <2>2, <2>3, <2>4, Unmoved DEF Opens
<1>4. CASE c.verify # None
  <2> DEFINE y == Asked("verify", None, 0)
             x == [[Page(t, "verifying") EXCEPT !.email = email] EXCEPT !.invited = link[c.verify].next]
  <2>1. /\ TabTyped(Page(t, "verifying")) /\ Page(t, "verifying").keys = NoKeys
        /\ Page(t, "verifying").at = "verifying"
    BY <1>2, PageTyped DEF Page
  <2>2. c.verify \in Links
    BY <1>4 DEF Jars
  <2>3. link[c.verify].next \in BOOLEAN
    BY <1>1, <2>2 DEF LinkRows
  <2>4. TabTyped(x) /\ x.keys = NoKeys /\ x.at = "verifying"
    BY <2>1, <2>3 DEF TabTyped, TabFields
  <2>5. tab' = [tab EXCEPT ![t] = x] /\ call' = [call EXCEPT ![t] = y]
    BY <1>4 DEF LandsOnVerification
  <2> HIDE DEF x
  <2>6. CallTyped(y, tab'[t], issued) /\ y.at = "asked"
    BY <2>4, <2>5, Unmoved DEF Asked, CallTyped, Carrying, Fits
  <2> QED BY <1>1, <2>4, <2>5, <2>6, Unmoved DEF Opens
<1> QED BY <1>3, <1>4
-----------------------------------------------------------------------------
(* What is done in a tab keeps what it should. *)

\* The tab has a new page, and the request is answered or another is made.
LEMMA Arrives ==
    ASSUME Typed, NEW t \in Tabs, NEW c \in Jars, Opens(t, c), NEW y,
           UNCHANGED <<rows, issued, receipt>>, left' = left, steps' \in {steps, steps + 1},
           call' = [call EXCEPT ![t] = y], call'[t] = y,
           CallTyped(y, tab'[t], issued), y.at \in {"idle", "asked"},
           (c.session = jar.session /\ tab[t].at # "switch") \/ Gets(t, c.session)
    PROVE  Kept(t)
<1>1. \A w \in KeyNames : tab'[t].keys[w] = 0
  BY DEF Opens, NoKeys, KeyNames
<1>2. ~Carrying(call'[t]) /\ call'[t].at # "answered"
  BY DEF Carrying
<1>3. Moves(t)
  BY <1>1, <1>2 DEF Moves, Opens
<1> QED BY <1>3 DEF Kept, Opens, rows, Typed, LoginsTyped

\* The tab keeps its page, and the keys on it.
LEMMA Stays ==
    ASSUME Typed, Intents, NEW t \in Tabs, NEW x, NEW y,
           UNCHANGED server, jar' \in Jars, jar'.session = jar.session,
           steps' \in {steps, steps + 1}, left' \in BOOLEAN, left => left',
           tab' = [tab EXCEPT ![t] = x], call' = [call EXCEPT ![t] = y],
           TabTyped(x), CallTyped(y, x, issued), y.at # "answered",
           Carrying(y) => y.cookies.session = jar.session,
           \A w \in KeyNames :
              \/ x.keys[w] = tab[t].keys[w]
              \/ tab[t].keys[w] = 0 /\ x.keys[w] = steps + 1 /\ steps' = steps + 1,
           tab[t].at = "switch" => x.at = "switch"
    PROVE  Kept(t)
<1>1. tab'[t] = x /\ call'[t] = y
  BY DEF Typed, BrowserTyped, Intents
<1>2. UNCHANGED <<receipt, issued, session, account, link, workspace>>
  BY DEF server, rows, logins
<1>3. tab[t].at # "switch" \/ SameKeys(t)
  BY <1>1 DEF SameKeys
<1>4. tab' = [tab EXCEPT ![t] = tab'[t]] /\ call' = [call EXCEPT ![t] = call'[t]]
  BY <1>1
<1>5. \A w \in KeyNames : \/ tab'[t].keys[w] \in {tab[t].keys[w], 0}
                          \/ tab'[t].keys[w] = steps + 1 /\ steps' = steps + 1
  BY <1>1
<1>6. /\ call'[t].at # "answered"
      /\ Carrying(call'[t]) => call'[t].cookies.session = jar.session
  BY <1>1
<1>7. Moves(t)
  BY <1>2, <1>3, <1>4, <1>5, <1>6 DEF Moves
<1> QED BY <1>1, <1>2, <1>7 DEF Kept, Typed, LoginsTyped

LEMMA TabParts ==
    ASSUME Typed, Intents, NEW t \in Tabs
    PROVE  /\ TabTyped(tab[t]) /\ CallTyped(call[t], tab[t], issued)
           /\ tab = [tab EXCEPT ![t] = tab[t]]
           /\ tab = [u \in Tabs |-> tab[u]] /\ call = [u \in Tabs |-> call[u]]
           /\ jar \in Jars /\ jar.session <= issued /\ jar.session \in Nat
           /\ steps \in Nat /\ left \in BOOLEAN
  BY DEF Typed, BrowserTyped, Intents, Jars, LoginsTyped

LEMMA IdleTyped ==
    ASSUME NEW page, NEW n
    PROVE  CallTyped(NoCall, page, n) /\ NoCall.at = "idle" /\ ~Carrying(NoCall)
  BY DEF NoCall, CallTyped, Carrying

LEMMA AskedTyped ==
    ASSUME NEW page, NEW n, NEW kind, NEW what, NEW key, Fits(Asked(kind, what, key), page)
    PROVE  /\ CallTyped(Asked(kind, what, key), page, n)
           /\ Asked(kind, what, key).at = "asked" /\ ~Carrying(Asked(kind, what, key))
<1> DEFINE y == Asked(kind, what, key)
<1>1. y.at = "asked" /\ DOMAIN y = {"at", "kind", "what", "key"}
  BY DEF Asked
<1> HIDE DEF y
<1>2. Fits(y, page)
  BY DEF y
<1>3. ~Carrying(y) /\ CallTyped(y, page, n)
  BY <1>1, <1>2 DEF CallTyped, Carrying
<1> QED BY <1>1, <1>3 DEF y

LEMMA AsksKept ==
    ASSUME Typed, Intents, NEW t \in Tabs, NEW kind, NEW what, NEW key,
           Requests(t, kind, what, key), Still, UNCHANGED <<server, jar, tab>>,
           Fits(Asked(kind, what, key), tab[t])
    PROVE  Kept(t)
<1> DEFINE y == Asked(kind, what, key)
<1>1. CallTyped(y, tab[t], issued) /\ y.at = "asked" /\ ~Carrying(y)
  BY AskedTyped
<1>2. call' = [call EXCEPT ![t] = y] /\ steps' = steps + 1
  BY DEF Requests, Step
<1> HIDE DEF y
<1>3. tab' = [tab EXCEPT ![t] = tab[t]]
  BY TabParts
<1> QED BY <1>1, <1>2, <1>3, TabParts, Stays DEF Still

LEMMA OpenVerificationKept ==
    ASSUME Typed, Intents, NEW t \in Tabs, NEW l \in Links, OpenVerification(t, l)
    PROVE  Kept(t)
<1> DEFINE c == [jar EXCEPT !.verify = l]
<1>1. c \in Jars /\ c.session = jar.session
  BY TabParts DEF Jars
<1> HIDE DEF c
<1>2. /\ LandsOnVerification(t, tab[t].email, c) /\ steps' = steps + 1 /\ left' = left
      /\ UNCHANGED server /\ tab[t].at # "switch"
  BY DEF OpenVerification, c, Step, Still
<1>3. tab[t].email \in People \cup {None} /\ session' = session
  BY <1>2, TabParts DEF TabTyped, server, logins
<1>4. PICK y : call' = [call EXCEPT ![t] = y] /\ CallTyped(y, tab'[t], issued)
               /\ y.at \in {"idle", "asked"}
  BY <1>1, <1>2, <1>3, VerificationParts
<1>5. call'[t] = y
  BY <1>4, TabParts
<1>6. Opens(t, c)
  BY <1>1, <1>2, <1>3, VerificationParts
<1> QED BY <1>1, <1>2, <1>4, <1>5, <1>6, Arrives DEF server, logins

\* The tab goes to another page while nothing is asked.
LEMMA GoesKept ==
    ASSUME Typed, Intents, NEW t \in Tabs, NEW c \in Jars, Opens(t, c), c.session = jar.session,
           Idle(t), tab[t].at # "switch", Still, steps' = steps + 1,
           UNCHANGED <<rows, issued, receipt, call>>
    PROVE  Kept(t)
<1>1. call' = [call EXCEPT ![t] = call[t]] /\ call'[t] = call[t]
  BY TabParts
<1>2. call[t].at = "idle"
  BY DEF Idle
<1>3. CallTyped(call[t], tab'[t], issued)
  BY <1>2 DEF CallTyped, Carrying
<1> QED BY <1>1, <1>2, <1>3, Arrives DEF Still

LEMMA OpenInvitationKept ==
    ASSUME Typed, Intents, NEW t \in Tabs, NEW i \in Invitations, OpenInvitation(t, i)
    PROVE  Kept(t)
<1> DEFINE c == [jar EXCEPT !.invite = i, !.back = TRUE]
<1>1. c \in Jars /\ c.session = jar.session
  BY TabParts DEF Jars
<1> HIDE DEF c
<1>2. LandsOnInvitation(t, c)
  BY DEF OpenInvitation, c
<1>3. Opens(t, c)
  BY <1>1, <1>2, InvitationParts
<1> QED BY <1>1, <1>3, GoesKept DEF OpenInvitation, Step

LEMMA OpenKept ==
    ASSUME Typed, Intents, NEW t \in Tabs, Open(t)
    PROVE  Kept(t)
<1>1. jar \in Jars /\ jar.session <= issued
  BY TabParts
<1>2. ASSUME NEW at \in {"login", "register", "plans"}, NEW invited \in BOOLEAN,
             tab' = [tab EXCEPT ![t] = [Page(t, at) EXCEPT !.invited = invited]],
             UNCHANGED <<jar, session>>
      PROVE  Opens(t, jar)
  <2>1. TabTyped(Page(t, at)) /\ Page(t, at).keys = NoKeys
    BY <1>2, PageTyped DEF Pages, Guarded
  <2> DEFINE x == [Page(t, at) EXCEPT !.invited = invited]
  <2>2. TabTyped(x) /\ x.keys = NoKeys
    BY <2>1 DEF TabTyped, TabFields
  <2> HIDE DEF x
  <2>3. tab' = [tab EXCEPT ![t] = x]
    BY <1>2 DEF x
  <2> QED BY <1>1, <1>2, <2>2, <2>3, Unmoved DEF Opens, Typed, LoginsTyped
<1>3. ASSUME tab' = [tab EXCEPT ![t] = Page(t, "plans")], UNCHANGED <<jar, session>>
      PROVE  Opens(t, jar)
  <2>1. TabTyped(Page(t, "plans")) /\ Page(t, "plans").keys = NoKeys
    BY <1>3, PageTyped DEF Pages, Guarded
  <2> QED BY <1>1, <1>3, <2>1, Unmoved DEF Opens, Typed, LoginsTyped
<1>4. CASE \E page \in {"home", "switch", "create"} : Lands(t, page, jar)
  <2>1. Opens(t, jar)
    BY <1>1, <1>4, LandsParts
  <2> QED BY <1>1, <2>1, GoesKept DEF Open, Step
<1>5. CASE LandsOnInvitation(t, jar)
  <2>1. Opens(t, jar)
    BY <1>1, <1>5, InvitationParts
  <2> QED BY <1>1, <2>1, GoesKept DEF Open, Step
<1>6. CASE /\ tab' = [tab EXCEPT ![t] = [Page(t, "login") EXCEPT
                         !.invited = tab[t].at = "accept" \/ tab[t].invited]]
           /\ UNCHANGED <<jar, session>>
  <2>1. (tab[t].at = "accept" \/ tab[t].invited) \in BOOLEAN
    BY TabParts DEF TabTyped
  <2>2. Opens(t, jar)
    BY <1>2, <1>6, <2>1
  <2> QED BY <1>1, <2>2, GoesKept DEF Open, Step
<1>7. CASE /\ tab' = [tab EXCEPT ![t] = [Page(t, "register") EXCEPT
                                              !.invited = tab[t].at = "accept"]]
           /\ UNCHANGED <<jar, session>>
  <2>1. (tab[t].at = "accept") \in BOOLEAN
    OBVIOUS
  <2>2. Opens(t, jar)
    BY <1>2, <1>7, <2>1
  <2> QED BY <1>1, <2>2, GoesKept DEF Open, Step
<1>8. CASE tab' = [tab EXCEPT ![t] = Page(t, "plans")] /\ UNCHANGED <<jar, session>>
  <2>1. Opens(t, jar)
    BY <1>3, <1>8
  <2> QED BY <1>1, <2>1, GoesKept DEF Open, Step
<1> QED BY <1>4, <1>5, <1>6, <1>7, <1>8 DEF Open

LEMMA FormsKept ==
    ASSUME Typed, Intents, NEW t \in Tabs,
           \/ \E p \in Visitors : Register(t, p) \/ Login(t, p)
           \/ Resend(t) \/ SavePlan(t) \/ ReloadOptions(t) \/ Accept(t) \/ NotNow(t)
    PROVE  Kept(t)
<1>1. ASSUME NEW p \in Visitors, Register(t, p)
      PROVE  Kept(t)
  <2>1. PICK plan \in Plans :
           Requests(t, "register", [who |-> p, plan |-> IF tab[t].invited THEN None ELSE plan], 0)
    BY <1>1 DEF Register
  <2> DEFINE what == [who |-> p, plan |-> IF tab[t].invited THEN None ELSE plan]
  <2>2. what.who \in People /\ what.plan \in Plans \cup {None} /\ tab[t].at = "register"
    BY <1>1, EntryAssumption DEF Register
  <2> HIDE DEF what
  <2>3. Requests(t, "register", what, 0)
    BY <2>1 DEF what
  <2>4. Fits(Asked("register", what, 0), tab[t])
    BY <2>2 DEF Fits, Asked
  <2> QED BY <1>1, <2>3, <2>4, AsksKept DEF Register
<1>2. ASSUME NEW p \in Visitors, Login(t, p)
      PROVE  Kept(t)
  <2>1. Fits(Asked("login", p, 0), tab[t])
    BY <1>2, EntryAssumption DEF Fits, Asked, Login
  <2> QED BY <1>2, <2>1, AsksKept DEF Login
<1>3. ASSUME Resend(t)
      PROVE  Kept(t)
  <2>1. tab[t].email \in People
    BY <1>3, TabParts DEF Resend, TabTyped
  <2>2. Fits(Asked("resend", tab[t].email, 0), tab[t])
    BY <1>3, <2>1 DEF Fits, Asked, Resend
  <2> QED BY <1>3, <2>2, AsksKept DEF Resend
<1>4. ASSUME SavePlan(t)
      PROVE  Kept(t)
  <2>1. PICK plan \in Plans : Requests(t, "plan", plan, 0)
    BY <1>4 DEF SavePlan
  <2>2. Fits(Asked("plan", plan, 0), tab[t])
    BY <1>4 DEF Fits, Asked, SavePlan
  <2> QED BY <1>4, <2>1, <2>2, AsksKept DEF SavePlan
<1>5. ASSUME ReloadOptions(t)
      PROVE  Kept(t)
  <2>1. Fits(Asked("options", None, 0), tab[t])
    BY <1>5 DEF Fits, Asked, ReloadOptions
  <2> QED BY <1>5, <2>1, AsksKept DEF ReloadOptions
<1>6. ASSUME Accept(t)
      PROVE  Kept(t)
  <2>1. Fits(Asked("accept", None, steps + 1), tab[t])
    BY <1>6 DEF Fits, Asked, Accept
  <2> QED BY <1>6, <2>1, AsksKept DEF Accept
<1>7. ASSUME NotNow(t)
      PROVE  Kept(t)
  <2>1. Fits(Asked("clear", None, 0), tab[t])
    BY <1>7 DEF Fits, Asked, NotNow
  <2> QED BY <1>7, <2>1, AsksKept DEF NotNow
<1> QED BY <1>1, <1>2, <1>3, <1>4, <1>5, <1>6, <1>7

\* A form and a choice keep their key, which is as new as the step otherwise.
LEMMA KeyedKept ==
    ASSUME Typed, Intents, NEW t \in Tabs, NEW kind, NEW what, NEW w \in KeyNames,
           Requests(t, kind, what, Key(t, w)), tab' = [tab EXCEPT ![t].keys[w] = Key(t, w)],
           Still, UNCHANGED <<server, jar>>,
           \/ kind = "create" /\ what \in Nat /\ tab[t].at = "create"
           \/ kind = "switch" /\ what \in Workspaces /\ w = what /\ tab[t].at = "switch"
    PROVE  Kept(t)
<1> DEFINE k == Key(t, w)
           x == [tab[t] EXCEPT !.keys[w] = k]
           y == Asked(kind, what, k)
<1>1. TabTyped(tab[t]) /\ steps \in Nat
  BY TabParts
<1>2. k \in Nat \ {0} /\ (k = tab[t].keys[w] \/ (tab[t].keys[w] = 0 /\ k = steps + 1))
  BY <1>1 DEF Key, TabTyped
<1>3. /\ tab' = [tab EXCEPT ![t] = x] /\ call' = [call EXCEPT ![t] = y] /\ steps' = steps + 1
  BY TabParts DEF Requests, Step
<1> HIDE DEF k
<1>4. /\ DOMAIN x = TabFields /\ x.at = tab[t].at /\ x.invited = tab[t].invited
      /\ x.email = tab[t].email /\ x.who = tab[t].who
      /\ x.keys = [tab[t].keys EXCEPT ![w] = k]
  BY <1>1 DEF TabTyped, TabFields
<1> HIDE DEF x
<1>5. /\ x.keys \in [KeyNames -> Nat] /\ x.keys[w] = k
      /\ \A v \in KeyNames : v # w => x.keys[v] = tab[t].keys[v]
  BY <1>1, <1>2, <1>4 DEF TabTyped
<1>6. TabTyped(x)
  BY <1>1, <1>4, <1>5 DEF TabTyped
<1>7. Fits(y, x)
  BY <1>2, <1>4, <1>5 DEF Fits, Asked
<1>8. CallTyped(y, x, issued) /\ y.at = "asked" /\ ~Carrying(y)
  BY <1>7, AskedTyped
<1>9. \A v \in KeyNames : \/ x.keys[v] = tab[t].keys[v]
                          \/ tab[t].keys[v] = 0 /\ x.keys[v] = steps + 1 /\ steps' = steps + 1
  BY <1>2, <1>3, <1>5
<1> HIDE DEF y
<1>10. UNCHANGED server /\ jar' \in Jars /\ jar'.session = jar.session /\ left' = left
       /\ left \in BOOLEAN
  BY TabParts DEF Still
<1> QED BY <1>3, <1>4, <1>6, <1>8, <1>9, <1>10, Stays

LEMMA LeaveKept ==
    ASSUME Typed, Intents, NEW t \in Tabs, Leave(t)
    PROVE  Kept(t)
<1> DEFINE x == [Blank EXCEPT !.email = tab[t].email]
<1>1. /\ tab' = [tab EXCEPT ![t] = x] /\ call' = [call EXCEPT ![t] = NoCall]
      /\ steps' = steps + 1 /\ left' = TRUE /\ UNCHANGED server /\ jar' = jar
  BY DEF Leave, Step
<1>2. tab[t].email \in People \cup {None}
  BY TabParts DEF TabTyped
<1>3. NoKeys \in [KeyNames -> Nat] /\ \A w \in KeyNames : NoKeys[w] = 0
  BY DEF NoKeys, KeyNames
<1> HIDE DEF NoKeys
<1>4. TabTyped(x) /\ x.keys = NoKeys
  BY <1>2, <1>3 DEF TabTyped, TabFields, Blank, Pages
<1> HIDE DEF x
<1>5. tab'[t] = x /\ call'[t] = NoCall
  BY <1>1, TabParts
<1>6. UNCHANGED <<receipt, issued, session, account, link, workspace>>
  BY <1>1 DEF server, rows, logins
<1>7. Moves(t)
  BY <1>1, <1>3, <1>4, <1>5, <1>6, IdleTyped DEF Moves
<1> QED BY <1>1, <1>4, <1>5, <1>6, <1>7, IdleTyped, TabParts DEF Kept, Typed, LoginsTyped

\* What is under way keeps what it is about.
LEMMA OverParts ==
    ASSUME NEW f, NEW g, "at" \in DOMAIN f,
           {"kind", "what", "key"} \subseteq DOMAIN g \ DOMAIN f
    PROVE  /\ {"at", "kind", "what", "key"} \subseteq DOMAIN Over(f, g)
           /\ Over(f, g).at = f.at /\ Over(f, g).kind = g.kind
           /\ Over(f, g).what = g.what /\ Over(f, g).key = g.key
           /\ "code" \in DOMAIN f => Over(f, g).code = f.code
           /\ "body" \in DOMAIN f => Over(f, g).body = f.body
  BY DEF Over

LEMMA SendKept ==
    ASSUME Typed, Intents, NEW t \in Tabs, Send(t)
    PROVE  Kept(t)
<1> DEFINE top == [at |-> "sent", cookies |-> jar]
           y == Over(top, call[t])
<1>1. /\ call' = [call EXCEPT ![t] = y] /\ UNCHANGED <<server, jar, tab, steps, left>>
      /\ call[t].at = "asked"
  BY DEF Send, bounds
<1>2. top.at = "sent" /\ top.cookies = jar /\ DOMAIN top = {"at", "cookies"}
  OBVIOUS
<1>3. {"kind", "what", "key"} \subseteq DOMAIN call[t] /\ Fits(call[t], tab[t])
  BY <1>1, TabParts DEF CallTyped
<1> HIDE DEF top
<1>4. /\ y.at = "sent" /\ y.cookies = jar /\ y.kind = call[t].kind /\ y.what = call[t].what
      /\ y.key = call[t].key /\ {"at", "cookies", "kind", "what", "key"} \subseteq DOMAIN y
  <2>1. "at" \in DOMAIN top /\ {"kind", "what", "key"} \subseteq DOMAIN call[t] \ DOMAIN top
    BY <1>2, <1>3
  <2>2. /\ y.at = top.at /\ y.kind = call[t].kind /\ y.what = call[t].what
        /\ y.key = call[t].key /\ {"at", "kind", "what", "key"} \subseteq DOMAIN y
    BY <2>1, OverParts
  <2>3. y.cookies = top.cookies /\ DOMAIN y = (DOMAIN top) \cup (DOMAIN call[t])
    BY <1>2, Merge
  <2> QED BY <1>2, <2>2, <2>3
<1> HIDE DEF y
<1>5. Fits(y, tab[t])
  BY <1>3, <1>4 DEF Fits
<1>6. CallTyped(y, tab[t], issued)
  BY <1>4, <1>5, TabParts DEF CallTyped
<1>7. tab' = [tab EXCEPT ![t] = tab[t]]
  BY <1>1, TabParts
<1> QED BY <1>1, <1>4, <1>6, <1>7, TabParts, Stays

LEMMA LoseKept ==
    ASSUME Typed, Intents, NEW t \in Tabs, Lose(t)
    PROVE  Kept(t)
<1>1. /\ call' = [call EXCEPT ![t] = NoCall] /\ UNCHANGED <<server, jar, steps, left>>
      /\ call[t].at # "idle" /\ Fits(call[t], tab[t])
  BY TabParts DEF Lose, Done, Idle, CallTyped
<1>2. CASE tab' = tab
  <2>1. tab' = [tab EXCEPT ![t] = tab[t]]
    BY <1>2, TabParts
  <2> QED BY <1>1, <2>1, TabParts, IdleTyped, Stays
<1>3. CASE call[t].kind = "verify" /\ tab' = [tab EXCEPT ![t].at = "unverified"]
  <2> DEFINE x == [tab[t] EXCEPT !.at = "unverified"]
  <2>1. TabTyped(x) /\ x.keys = tab[t].keys
    BY TabParts DEF TabTyped, TabFields, Pages
  <2>2. tab' = [tab EXCEPT ![t] = x]
    BY <1>3, TabParts
  <2>3. tab[t].at = "verifying"
    BY <1>1, <1>3 DEF Fits
  <2> HIDE DEF x
  <2> QED BY <1>1, <2>1, <2>2, <2>3, TabParts, IdleTyped, Stays
<1>4. CASE call[t].kind = "clear" /\ tab' = [tab EXCEPT ![t] = Page(t, "blank")]
  <2>1. TabTyped(Page(t, "blank")) /\ Page(t, "blank").keys = NoKeys
    BY PageTyped DEF Pages, Guarded
  <2>2. tab[t].at = "accept"
    BY <1>1, <1>4 DEF Fits
  <2>3. tab'[t] = Page(t, "blank") /\ call'[t] = NoCall
    BY <1>1, <1>4, TabParts
  <2>4. Opens(t, jar)
    BY <1>1, <1>4, <2>1, <2>3, TabParts DEF Opens, server, logins, Typed, LoginsTyped
  <2>5. CallTyped(NoCall, tab'[t], issued) /\ NoCall.at = "idle"
    BY IdleTyped
  <2>6. UNCHANGED <<rows, issued, receipt>> /\ steps' \in {steps, steps + 1} /\ left' = left
    BY <1>1 DEF server, logins
  <2> QED BY <1>1, <2>2, <2>3, <2>4, <2>5, <2>6, TabParts, Arrives
<1> QED BY <1>2, <1>3, <1>4 DEF Lose

\* What the browser stores: another session only by a login or a switch.
LEMMA StoredTyped ==
    ASSUME Typed, Intents, NEW t \in Tabs, call[t].at = "answered"
    PROVE  /\ Stored(t) \in Jars /\ Stored(t).session <= issued
           /\ IF "session" \in DOMAIN call[t].sets
              THEN Gets(t, Stored(t).session) /\ call[t].kind \in {"login", "switch"}
              ELSE Stored(t).session = jar.session
<1> DEFINE sets == call[t].sets
           c == Over(sets, jar)
           names == {"session", "verify", "invite", "back"}
<1>1. AnswerTyped(call[t], issued) /\ jar \in Jars /\ jar.session <= issued
  BY TabParts DEF CallTyped
<1>2. SetsTyped(sets, issued)
  BY <1>1 DEF AnswerTyped
<1>3. /\ DOMAIN jar = names /\ jar.session \in Nat /\ jar.verify \in Links \cup {None}
      /\ jar.invite \in Invitations \cup {None} /\ jar.back \in BOOLEAN
  BY <1>1 DEF Jars
<1>4. issued \in Nat /\ Stored(t) = c
  BY DEF Typed, LoginsTyped, Stored
<1> HIDE DEF sets
<1>5. c = [x \in names |-> IF x \in DOMAIN sets THEN sets[x] ELSE jar[x]]
  <2>1. DOMAIN sets \cup DOMAIN jar = names
    BY <1>2, <1>3 DEF SetsTyped
  <2> QED BY <2>1 DEF Over
<1>6. c = [session |-> IF "session" \in DOMAIN sets THEN sets.session ELSE jar.session,
           verify |-> IF "verify" \in DOMAIN sets THEN sets.verify ELSE jar.verify,
           invite |-> IF "invite" \in DOMAIN sets THEN sets.invite ELSE jar.invite,
           back |-> IF "back" \in DOMAIN sets THEN sets.back ELSE jar.back]
  BY <1>5
<1> HIDE DEF c
<1>7. /\ c.session = IF "session" \in DOMAIN sets THEN sets.session ELSE jar.session
      /\ c.session \in Nat /\ c.session <= issued
  BY <1>1, <1>2, <1>3, <1>4, <1>6 DEF SetsTyped
<1>8. c \in Jars
  BY <1>2, <1>3, <1>6, <1>7 DEF SetsTyped, Jars
<1> QED BY <1>1, <1>4, <1>7, <1>8 DEF AnswerTyped, Gets, sets

LEMMA AnswerFits ==
    ASSUME Typed, Intents, NEW t \in Tabs, call[t].at = "answered"
    PROVE  Fits(call[t], tab[t]) /\ AnswerTyped(call[t], issued)
  BY TabParts DEF CallTyped

\* The answer leads to another page.
LEMMA ReturnOpens ==
    ASSUME Typed, Intents, NEW t \in Tabs, call[t].at = "answered", Opens(t, Stored(t)),
           UNCHANGED <<rows, issued, receipt, bounds>>, Done(t),
           tab[t].at # "switch" \/ "session" \in DOMAIN call[t].sets
    PROVE  Kept(t)
<1>1. call' = [call EXCEPT ![t] = NoCall] /\ call'[t] = NoCall
  BY TabParts DEF Done
<1>2. steps' = steps /\ left' = left
  BY DEF bounds
<1>3. CallTyped(NoCall, tab'[t], issued) /\ NoCall.at \in {"idle", "asked"}
  BY IdleTyped
<1> QED BY <1>1, <1>2, <1>3, StoredTyped, TabParts, Arrives

\* What fails leaves the page as it is.
LEMMA ReturnFails ==
    ASSUME Typed, Intents, NEW t \in Tabs, UNCHANGED <<server, jar, tab, bounds>>, Done(t)
    PROVE  Kept(t)
<1>1. /\ call' = [call EXCEPT ![t] = NoCall] /\ tab' = [tab EXCEPT ![t] = tab[t]]
      /\ steps' = steps /\ left' = left
  BY TabParts DEF Done, bounds
<1> QED BY <1>1, TabParts, IdleTyped, Stays

LEMMA ReturnRegisterKept ==
    ASSUME Typed, Intents, NEW t \in Tabs, ReturnRegister(t)
    PROVE  Kept(t)
<1> DEFINE email == call[t].what.who
           c == Stored(t)
<1>1. /\ call[t].at = "answered" /\ call[t].kind = "register"
      /\ LandsOnVerification(t, email, c)
      /\ UNCHANGED <<server, steps, left>>
  BY DEF ReturnRegister, Returned, bounds
<1>2. tab[t].at = "register" /\ email \in People \cup {None}
  BY <1>1, AnswerFits DEF Fits
<1>3. c \in Jars /\ c.session = jar.session
  BY <1>1, StoredTyped
<1> HIDE DEF c, email
<1>4. PICK y : call' = [call EXCEPT ![t] = y] /\ CallTyped(y, tab'[t], issued)
               /\ y.at \in {"idle", "asked"}
  BY <1>1, <1>2, <1>3, VerificationParts DEF server, logins
<1>5. call'[t] = y
  BY <1>4, TabParts
<1>6. Opens(t, c)
  BY <1>1, <1>2, <1>3, VerificationParts DEF server, logins
<1> QED BY <1>1, <1>2, <1>3, <1>4, <1>5, <1>6, Arrives DEF server, logins

\* The page stays and shows what was answered.
LEMMA ReturnShows ==
    ASSUME Typed, Intents, NEW t \in Tabs, call[t].at = "answered",
           call[t].kind \notin {"login", "switch"},
           UNCHANGED <<server, bounds>>, jar' \in {jar, Stored(t)}, Done(t), NEW at, NEW shown,
           tab' = [tab EXCEPT ![t] = [tab[t] EXCEPT !.at = at, !.shown = shown]],
           at \in Pages \ Guarded \/ at = tab[t].at, tab[t].at # "switch" \/ at = "switch"
    PROVE  Kept(t)
<1> DEFINE x == [tab[t] EXCEPT !.at = at, !.shown = shown]
<1>1. TabTyped(x) /\ x.keys = tab[t].keys /\ x.at = at
  BY TabParts DEF TabTyped, TabFields, Guarded
<1>2. jar' \in Jars /\ jar'.session = jar.session
  BY StoredTyped, TabParts
<1>3. call' = [call EXCEPT ![t] = NoCall] /\ steps' = steps /\ left' = left
  BY DEF Done, bounds
<1>4. tab' = [tab EXCEPT ![t] = x]
  OBVIOUS
<1> HIDE DEF x
<1> QED BY <1>1, <1>2, <1>3, <1>4, TabParts, IdleTyped, Stays

LEMMA ReturnVerifyKept ==
    ASSUME Typed, Intents, NEW t \in Tabs, ReturnVerify(t)
    PROVE  Kept(t)
<1> DEFINE at == IF Fails(t) THEN "unverified" ELSE "verified"
<1>1. /\ call[t].at = "answered" /\ call[t].kind = "verify" /\ jar' = Stored(t)
      /\ tab' = [tab EXCEPT ![t].at = at, ![t].shown = call[t].body]
      /\ Done(t) /\ UNCHANGED <<server, bounds>>
  BY DEF ReturnVerify, Returned
<1>2. tab[t].at = "verifying"
  BY <1>1, AnswerFits DEF Fits
<1>3. at \in Pages \ Guarded
  BY DEF Pages, Guarded
<1> HIDE DEF at
<1>4. tab' = [tab EXCEPT ![t] = [tab[t] EXCEPT !.at = at, !.shown = call[t].body]]
  BY <1>1, TabParts
<1> QED BY <1>1, <1>2, <1>3, <1>4, ReturnShows

LEMMA ReturnLoginKept ==
    ASSUME Typed, Intents, NEW t \in Tabs, ReturnLogin(t)
    PROVE  Kept(t)
<1>1. /\ call[t].at = "answered" /\ call[t].kind = "login" /\ Done(t)
      /\ UNCHANGED <<rows, issued, receipt, bounds>>
  BY DEF ReturnLogin, Returned
<1>2. tab[t].at = "login" /\ AnswerTyped(call[t], issued)
  BY <1>1, AnswerFits DEF Fits
<1>3. Stored(t) \in Jars /\ Stored(t).session <= issued
  BY <1>1, StoredTyped
<1>4. CASE Fails(t)
  BY <1>1, <1>4, ReturnFails DEF ReturnLogin, server, logins
<1>5. CASE ~Fails(t) /\ call[t].body = "accept"
  <2>1. Opens(t, Stored(t))
    BY <1>3, <1>5, InvitationParts DEF ReturnLogin
  <2> QED BY <1>1, <1>2, <2>1, ReturnOpens
<1>6. CASE ~Fails(t) /\ call[t].body # "accept"
  <2>1. call[t].body \in {"create", "home", "switch"}
    BY <1>1, <1>2, <1>6 DEF Fails, AnswerTyped
  <2>2. Opens(t, Stored(t))
    BY <1>3, <1>6, <2>1, LandsParts DEF ReturnLogin
  <2> QED BY <1>1, <1>2, <2>2, ReturnOpens
<1> QED BY <1>4, <1>5, <1>6

LEMMA ReturnFormKept ==
    ASSUME Typed, Intents, NEW t \in Tabs, ReturnForm(t)
    PROVE  Kept(t)
<1>1. /\ call[t].at = "answered" /\ call[t].kind \in {"plan", "create"} /\ Done(t)
      /\ UNCHANGED <<rows, issued, receipt, bounds>>
  BY DEF ReturnForm, Returned
<1>2. tab[t].at \in {"plans", "create"}
  BY <1>1, AnswerFits DEF Fits
<1>3. Stored(t) \in Jars /\ Stored(t).session <= issued
  BY <1>1, StoredTyped
<1>4. CASE Fails(t)
  BY <1>1, <1>4, ReturnFails DEF ReturnForm, server, logins
<1>5. CASE ~Fails(t)
  <2>1. Opens(t, Stored(t))
    BY <1>3, <1>5, LandsParts DEF ReturnForm
  <2> QED BY <1>1, <1>2, <2>1, ReturnOpens
<1> QED BY <1>4, <1>5

LEMMA ReturnSwitchKept ==
    ASSUME Typed, Intents, NEW t \in Tabs, ReturnSwitch(t)
    PROVE  Kept(t)
<1>1. /\ call[t].at = "answered" /\ call[t].kind = "switch"
      /\ UNCHANGED <<rows, issued, receipt, bounds>>
  BY DEF ReturnSwitch, Returned
<1>2. tab[t].at = "switch" /\ AnswerTyped(call[t], issued)
  BY <1>1, AnswerFits DEF Fits
<1>3. CASE call[t].code = "ok" /\ Lands(t, "home", Stored(t)) /\ Done(t)
  <2>1. Opens(t, Stored(t))
    BY <1>1, <1>3, StoredTyped, LandsParts
  <2>2. "session" \in DOMAIN call[t].sets
    BY <1>1, <1>2, <1>3 DEF AnswerTyped
  <2> QED BY <1>1, <1>3, <2>1, <2>2, ReturnOpens
<1>4. CASE /\ call' = [call EXCEPT ![t] = Asked("options", None, 0)]
           /\ UNCHANGED <<jar, tab, session>>
  <2> DEFINE y == Asked("options", None, 0)
  <2>1. Fits(y, tab[t])
    BY <1>2 DEF Fits, Asked
  <2>2. CallTyped(y, tab[t], issued) /\ y.at = "asked" /\ ~Carrying(y)
    BY <2>1, AskedTyped
  <2>3. tab' = [tab EXCEPT ![t] = tab[t]] /\ steps' = steps /\ left' = left /\ UNCHANGED server
    BY <1>1, <1>4, TabParts DEF bounds, server, logins
  <2> HIDE DEF y
  <2>4. call' = [call EXCEPT ![t] = y]
    BY <1>4 DEF y
  <2> QED BY <1>4, <2>2, <2>3, <2>4, TabParts, Stays
<1>5. CASE Done(t) /\ UNCHANGED <<jar, tab, session>>
  BY <1>1, <1>5, ReturnFails DEF server, logins
<1> QED BY <1>3, <1>4, <1>5 DEF ReturnSwitch

LEMMA ReturnOptionsKept ==
    ASSUME Typed, Intents, NEW t \in Tabs, ReturnOptions(t)
    PROVE  Kept(t)
<1>1. /\ call[t].at = "answered" /\ call[t].kind = "options" /\ jar' = jar /\ Done(t)
      /\ tab' = IF Fails(t) THEN tab ELSE [tab EXCEPT ![t].shown = call[t].body]
      /\ UNCHANGED <<server, bounds>>
  BY DEF ReturnOptions, Returned
<1>2. tab[t].at = "switch"
  BY <1>1, AnswerFits DEF Fits
<1>3. CASE tab' = tab
  BY <1>1, <1>3, ReturnFails
<1>4. CASE tab' = [tab EXCEPT ![t].shown = call[t].body]
  <2> DEFINE x == [tab[t] EXCEPT !.shown = call[t].body]
  <2>1. TabTyped(x) /\ x.keys = tab[t].keys /\ x.at = tab[t].at
    BY TabParts DEF TabTyped, TabFields
  <2>2. /\ call' = [call EXCEPT ![t] = NoCall] /\ tab' = [tab EXCEPT ![t] = x]
        /\ steps' = steps /\ left' = left
    BY <1>1, <1>4, TabParts DEF Done, bounds
  <2> HIDE DEF x
  <2> QED BY <1>1, <2>1, <2>2, TabParts, IdleTyped, Stays
<1> QED BY <1>1, <1>3, <1>4

LEMMA ReturnAcceptKept ==
    ASSUME Typed, Intents, NEW t \in Tabs, ReturnAccept(t)
    PROVE  Kept(t)
<1> DEFINE x == [Page(t, "joined") EXCEPT !.shown = call[t].body]
<1>1. /\ call[t].at = "answered" /\ call[t].kind = "accept" /\ jar' = Stored(t) /\ Done(t)
      /\ tab' = IF Fails(t) THEN tab ELSE [tab EXCEPT ![t] = x]
      /\ UNCHANGED <<server, bounds>>
  BY DEF ReturnAccept, Returned
<1>2. tab[t].at = "accept" /\ Stored(t) \in Jars /\ Stored(t).session = jar.session
  BY <1>1, AnswerFits, StoredTyped DEF Fits
<1>3. CASE tab' = tab
  <2>1. /\ call' = [call EXCEPT ![t] = NoCall] /\ tab' = [tab EXCEPT ![t] = tab[t]]
        /\ steps' = steps /\ left' = left
    BY <1>1, <1>3, TabParts DEF Done, bounds
  <2> QED BY <1>1, <1>2, <2>1, TabParts, IdleTyped, Stays
<1>4. CASE tab' = [tab EXCEPT ![t] = x]
  <2>1. TabTyped(Page(t, "joined")) /\ Page(t, "joined").keys = NoKeys
    BY PageTyped DEF Pages, Guarded
  <2>2. TabTyped(x) /\ x.keys = NoKeys
    BY <2>1 DEF TabTyped, TabFields
  <2> HIDE DEF x
  <2>3. Opens(t, Stored(t))
    BY <1>1, <1>2, <1>4, <2>2, Unmoved DEF Opens, server, logins, Typed, LoginsTyped
  <2> QED BY <1>1, <1>2, <2>3, ReturnOpens DEF server, logins
<1> QED BY <1>1, <1>3, <1>4

LEMMA ReturnElseKept ==
    ASSUME Typed, Intents, NEW t \in Tabs, ReturnElse(t)
    PROVE  Kept(t)
<1>1. /\ call[t].at = "answered" /\ call[t].kind \in {"resend", "clear"} /\ jar' = Stored(t)
      /\ Done(t) /\ UNCHANGED <<server, bounds>>
      /\ tab' = IF call[t].kind = "resend" THEN [tab EXCEPT ![t].at = "waiting"]
                ELSE [tab EXCEPT ![t] = Page(t, "blank")]
  BY DEF ReturnElse, Returned
<1>2. tab[t].at \in {"waiting", "unverified", "accept"}
  BY <1>1, AnswerFits DEF Fits
<1>3. Stored(t) \in Jars /\ Stored(t).session = jar.session
  BY <1>1, StoredTyped
<1>4. CASE tab' = [tab EXCEPT ![t].at = "waiting"]
  <2> DEFINE x == [tab[t] EXCEPT !.at = "waiting"]
  <2>1. TabTyped(x) /\ x.keys = tab[t].keys
    BY TabParts DEF TabTyped, TabFields, Pages
  <2>2. /\ call' = [call EXCEPT ![t] = NoCall] /\ tab' = [tab EXCEPT ![t] = x]
        /\ steps' = steps /\ left' = left
    BY <1>1, <1>4, TabParts DEF Done, bounds
  <2> HIDE DEF x
  <2> QED BY <1>1, <1>2, <1>3, <2>1, <2>2, TabParts, IdleTyped, Stays
<1>5. CASE tab' = [tab EXCEPT ![t] = Page(t, "blank")]
  <2>1. TabTyped(Page(t, "blank")) /\ Page(t, "blank").keys = NoKeys
    BY PageTyped DEF Pages, Guarded
  <2>2. Opens(t, Stored(t))
    BY <1>1, <1>3, <1>5, <2>1, Unmoved DEF Opens, server, logins, Typed, LoginsTyped
  <2> QED BY <1>1, <1>2, <2>2, ReturnOpens DEF server, logins
<1> QED BY <1>1, <1>4, <1>5

LEMMA ReturnKept ==
    ASSUME Typed, Intents, NEW t \in Tabs, Return(t)
    PROVE  Kept(t)
  BY ReturnRegisterKept, ReturnVerifyKept, ReturnLoginKept, ReturnFormKept, ReturnSwitchKept,
     ReturnOptionsKept, ReturnAcceptKept, ReturnElseKept DEF Return
-----------------------------------------------------------------------------
(* What the routes keep. *)

\* The request of tab t is answered.
Responds(t, sets) ==
    /\ call[t].at = "sent"
    /\ call' = [call EXCEPT ![t] = call'[t]]
    /\ call'[t].at = "answered" /\ call'[t].sets = sets
    /\ {"kind", "what", "key", "cookies"} \subseteq DOMAIN call'[t]
    /\ call'[t].kind = call[t].kind /\ call'[t].what = call[t].what
    /\ call'[t].key = call[t].key /\ call'[t].cookies = call[t].cookies
    /\ UNCHANGED <<jar, tab, steps, left>>

LEMMA AnswerParts ==
    ASSUME Typed, Intents, NEW t \in Tabs, call[t].at = "sent", NEW code, NEW body, NEW sets,
           Answer(t, code, body, sets)
    PROVE  Responds(t, sets) /\ call'[t].code = code /\ call'[t].body = body
<1> DEFINE top == [at |-> "answered", code |-> code, body |-> body, sets |-> sets]
           y == Over(top, call[t])
<1>1. call' = [call EXCEPT ![t] = y] /\ UNCHANGED <<jar, tab, steps, left>>
  BY DEF Answer, bounds
<1>2. /\ DOMAIN top = {"at", "code", "body", "sets"} /\ top.at = "answered"
      /\ top.code = code /\ top.body = body /\ top.sets = sets
  OBVIOUS
<1>3. {"kind", "what", "key", "cookies"} \subseteq DOMAIN call[t]
  BY TabParts DEF CallTyped, Carrying
<1> HIDE DEF top
<1>4. /\ y.at = "answered" /\ y.code = code /\ y.body = body
      /\ y.kind = call[t].kind /\ y.what = call[t].what /\ y.key = call[t].key
  <2>1. "at" \in DOMAIN top /\ {"kind", "what", "key"} \subseteq DOMAIN call[t] \ DOMAIN top
    BY <1>2, <1>3
  <2> QED BY <1>2, <2>1, OverParts
<1>5. /\ y.sets = sets /\ y.cookies = call[t].cookies
      /\ DOMAIN y = (DOMAIN top) \cup (DOMAIN call[t])
  BY <1>2, <1>3, Merge
<1> HIDE DEF y
<1>6. call'[t] = y
  BY <1>1, TabParts
<1> QED BY <1>1, <1>3, <1>4, <1>5, <1>6 DEF Responds

LEMMA RespondedTyped ==
    ASSUME Typed, Intents, NEW t \in Tabs, NEW sets, Responds(t, sets),
           issued' \in Nat, issued <= issued', AnswerTyped(call'[t], issued')
    PROVE  BrowserTyped'
<1>1. issued \in Nat
  BY DEF Typed, LoginsTyped
<1>2. jar' \in Jars /\ jar'.session <= issued' /\ tab' = [u \in Tabs |-> tab'[u]]
  BY <1>1, TabParts DEF Responds
<1>3. ASSUME NEW u \in Tabs, u # t
      PROVE  CallTyped(call'[u], tab[u], issued')
  <2>1. CallTyped(call[u], tab[u], issued) /\ call'[u] = call[u]
    BY <1>3, TabParts DEF Responds
  <2>2. ASSUME Carrying(call[u])
        PROVE  call[u].cookies \in Jars /\ call[u].cookies.session <= issued'
    <3>1. call[u].cookies \in Jars /\ call[u].cookies.session <= issued
      BY <2>1, <2>2 DEF CallTyped
    <3>2. call[u].cookies.session \in Nat
      BY <3>1 DEF Jars
    <3> QED BY <1>1, <3>1, <3>2
  <2>3. ASSUME call[u].at = "answered"
        PROVE  AnswerTyped(call[u], issued')
    BY <1>1, <2>1, <2>3 DEF CallTyped, AnswerTyped, SetsTyped
  <2> QED BY <2>1, <2>2, <2>3 DEF CallTyped
<1>4. CallTyped(call'[t], tab[t], issued')
  <2>1. CallTyped(call[t], tab[t], issued) /\ Carrying(call[t])
    BY TabParts DEF Responds, Carrying
  <2>2. Fits(call'[t], tab[t])
    BY <2>1 DEF Responds, CallTyped, Fits
  <2>3. call[t].cookies \in Jars /\ call[t].cookies.session <= issued
    BY <2>1 DEF CallTyped
  <2>4. call[t].cookies.session \in Nat
    BY <2>3 DEF Jars
  <2> QED BY <1>1, <2>2, <2>3, <2>4 DEF Responds, CallTyped, Carrying
<1>5. \A u \in Tabs : TabTyped(tab[u]) /\ CallTyped(call'[u], tab[u], issued')
  BY <1>3, <1>4, TabParts
<1> QED BY <1>2, <1>5 DEF BrowserTyped, Responds

LEMMA RespondedParts ==
    ASSUME Typed, Intents, NEW t \in Tabs, NEW sets, Responds(t, sets)
    PROVE  /\ \A u \in Tabs : \A key : Holds(u, key)' <=> Holds(u, key)
           /\ \A u \in Tabs : \A k : Gets(u, k)' =>
                 Gets(u, k) \/ (u = t /\ "session" \in DOMAIN sets /\ k = sets.session)
           /\ \A u \in Tabs : \A k : Carries(call'[u], k) => Carries(call[u], k)
           /\ \A u \in Tabs : \A r : Keeps(u, r)' <=> Keeps(u, r)
<1>1. \A u \in Tabs : u # t => call'[u] = call[u]
  BY DEF Responds, Intents
<1> QED BY <1>1 DEF Responds, Holds, Gets, Carries, Carrying, Keeps

\* No token is issued; one that is answered again is owed to this tab.
LEMMA ServedOld ==
    ASSUME Typed, Intents, Handed, NEW t \in Tabs, NEW sets, Responds(t, sets),
           issued' = issued, Switches' = Switches,
           \A k \in Tokens : session'[k].live = session[k].live,
           "session" \in DOMAIN sets => Owes(t, sets.session)
    PROVE  Handed'
<1>1. Numbered /\ KeysOnce /\ TokensOnce /\ Repeatable
  BY DEF Handed
<1>2. ASSUME NEW u \in Tabs, NEW k, Owes(u, k)'
      PROVE  Owes(u, k)
  BY <1>2, RespondedParts DEF Owes
<1>3. ASSUME NEW k, Carried(k)'
      PROVE  Carried(k)
  BY <1>3, RespondedParts DEF Carried, Responds
<1>4. Numbered' /\ KeysOnce'
  BY <1>1 DEF Numbered, KeysOnce, Responds
<1>5. TokensOnce'
  BY <1>1, <1>2, <1>3 DEF TokensOnce
<1>6. Repeatable'
  <2> SUFFICES ASSUME NEW r \in Switches, r.by = jar.session
               PROVE  /\ session'[r.token].live /\ ~Carried(r.token)'
                      /\ left \/ \E u \in Tabs : Keeps(u, r)'
    BY DEF Repeatable, Responds
  <2>1. r.token \in Tokens
    BY <1>1, SwitchParts
  <2> QED BY <1>1, <1>3, <2>1, RespondedParts DEF Repeatable
<1> QED BY <1>4, <1>5, <1>6 DEF Handed

\* A token is issued to tab t, and the one of its request is ended.
LEMMA ServedNew ==
    ASSUME Typed, Intents, Handed, NEW t \in Tabs, NEW sets, Responds(t, sets),
           "session" \in DOMAIN sets, sets.session = issued + 1,
           issued + 1 \in Tokens, issued' = issued + 1, session'[issued + 1].live,
           \A k \in Tokens : k \notin {issued + 1, call[t].cookies.session}
                               => session'[k].live = session[k].live,
           \/ Switches' = Switches
           \/ /\ call[t].kind = "switch" /\ call[t].cookies.session # 0
              /\ \E r : /\ Switches' = Switches \cup {r} /\ r.by = call[t].cookies.session
                        /\ r.token = issued + 1 /\ r.key = call[t].key /\ r.to = call[t].what
    PROVE  Handed'
<1> DEFINE k == issued + 1
           c == call[t].cookies.session
<1>1. Numbered /\ KeysOnce /\ TokensOnce /\ Repeatable
  BY DEF Handed
<1>2. CallTyped(call[t], tab[t], issued) /\ Carrying(call[t])
  BY TabParts DEF Responds, Carrying
<1>3. issued \in Nat /\ c \in Nat /\ c <= issued /\ steps \in Nat
  BY <1>2 DEF Typed, LoginsTyped, CallTyped, Jars
<1>4. Carried(c)
  BY <1>2 DEF Carried, Carries
<1>5. ~Carried(k)
  <2>1. jar.session # k
    BY <1>3, TabParts
  <2>2. ASSUME NEW u \in Tabs, Carries(call[u], k)
        PROVE  FALSE
    <3>1. call[u].cookies \in Jars /\ call[u].cookies.session <= issued
      BY <2>2, TabParts DEF CallTyped, Carries
    <3> QED BY <1>3, <2>2, <3>1 DEF Carries, Jars
  <2>3. \A r \in Switches : r.by # k
    BY <1>1, <1>3, SwitchParts DEF Tokens
  <2> QED BY <2>1, <2>2, <2>3 DEF Carried
<1>6. \A u \in Tabs : ~Owes(u, k)
  <2>1. \A u \in Tabs : ~Gets(u, k)
    BY <1>3, GetsToken DEF Tokens
  <2>2. \A r \in Switches : r.token # k
    BY <1>1, <1>3, SwitchParts DEF Tokens
  <2> QED BY <2>1, <2>2 DEF Owes
<1>7. ASSUME call[t].kind = "switch"
      PROVE  /\ tab[t].at = "switch" /\ call[t].what \in KeyNames
             /\ call[t].key \in 1 .. steps /\ tab[t].keys[call[t].what] = call[t].key
             /\ \A u \in Tabs : Holds(u, call[t].key) => u = t
  <2>1. /\ tab[t].at = "switch" /\ call[t].what \in KeyNames /\ call[t].key \in Nat \ {0}
        /\ tab[t].keys[call[t].what] = call[t].key
    BY <1>2, <1>7 DEF CallTyped, Carrying, Fits, KeyNames
  <2>2. call[t].key <= steps
    BY <1>1, <2>1, KeyParts
  <2>3. \A u \in Tabs : Holds(u, call[t].key) => u = t
    BY <1>1, <2>1 DEF KeysOnce, Holds
  <2> QED BY <1>3, <2>1, <2>2, <2>3
<1>8. ASSUME NEW r \in Switches', r \notin Switches
      PROVE  /\ call[t].kind = "switch" /\ c # 0 /\ r.by = c /\ r.token = k
             /\ r.key = call[t].key /\ r.to = call[t].what
  BY <1>8
<1>9. Switches \subseteq Switches'
  OBVIOUS
<1> HIDE DEF k, c
<1>10. ASSUME NEW u \in Tabs, NEW j, Owes(u, j)'
       PROVE  Owes(u, j) \/ (u = t /\ j = k)
  <2>1. CASE Gets(u, j)'
    BY <2>1, RespondedParts DEF Owes, k
  <2>2. ASSUME NEW r \in Switches', r.token = j, Holds(u, r.key)'
        PROVE  Owes(u, j) \/ (u = t /\ j = k)
    BY <1>7, <1>8, <2>2, RespondedParts DEF Owes
  <2> QED BY <1>10, <2>1, <2>2 DEF Owes
<1>11. ASSUME NEW j, Carried(j)'
       PROVE  Carried(j)
  <2>1. CASE \E r \in Switches' : r.by = j
    BY <1>4, <1>8, <2>1 DEF Carried
  <2> QED BY <1>11, <2>1, RespondedParts DEF Carried, Responds
<1>12. Numbered'
  <2>1. \A u \in Tabs, w \in KeyNames : tab'[u].keys[w] <= steps'
    BY <1>1 DEF Numbered, Responds
  <2>2. ASSUME NEW r \in Switches'
        PROVE  r.key \in 1 .. steps' /\ r.by \in 1 .. issued' /\ r.token \in 1 .. issued'
    <3>1. CASE r \in Switches
      BY <1>1, <1>3, <3>1 DEF Numbered, Responds, k
    <3>2. CASE r \notin Switches
      BY <1>3, <1>7, <1>8, <3>2 DEF Responds, k
    <3> QED BY <3>1, <3>2
  <2> QED BY <2>1, <2>2 DEF Numbered
<1>13. KeysOnce'
  BY <1>1 DEF KeysOnce, Responds
<1>14. ASSUME NEW j \in Tokens, j # k, ~Carried(j), session[j].live
       PROVE  session'[j].live
  BY <1>4, <1>14 DEF k, c
<1>15. TokensOnce'
  <2> SUFFICES ASSUME NEW u \in Tabs, NEW j \in Tokens, Owes(u, j)'
               PROVE  /\ session'[j].live /\ ~Carried(j)'
                      /\ \A v \in Tabs : Owes(v, j)' => v = u
    BY DEF TokensOnce
  <2>1. CASE j = k
    BY <1>5, <1>6, <1>10, <1>11, <2>1 DEF k
  <2>2. CASE j # k
    <3>1. session[j].live /\ ~Carried(j) /\ \A v \in Tabs : Owes(v, j) => v = u
      BY <1>1, <1>10, <2>2 DEF TokensOnce
    <3> QED BY <1>10, <1>11, <1>14, <2>2, <3>1
  <2> QED BY <2>1, <2>2
<1>16. Repeatable'
  <2> SUFFICES ASSUME NEW r \in Switches', r.by = jar.session
               PROVE  /\ session'[r.token].live /\ ~Carried(r.token)'
                      /\ left \/ \E u \in Tabs : Keeps(u, r)'
    BY DEF Repeatable, Responds
  <2>1. CASE r \in Switches
    <3>1. r.token \in Tokens /\ r.token <= issued
      BY <1>1, <2>1, SwitchParts
    <3>2. r.token # k
      BY <1>3, <3>1 DEF k, Tokens
    <3>3. session[r.token].live /\ ~Carried(r.token) /\ (left \/ \E u \in Tabs : Keeps(u, r))
      BY <1>1, <2>1 DEF Repeatable
    <3> QED BY <1>11, <1>14, <3>1, <3>2, <3>3, RespondedParts
  <2>2. CASE r \notin Switches
    <3>1. Keeps(t, r)
      BY <1>7, <1>8, <2>2 DEF Keeps
    <3> QED BY <1>5, <1>8, <1>11, <2>2, <3>1, RespondedParts DEF k
  <2> QED BY <2>1, <2>2
<1> QED BY <1>12, <1>13, <1>15, <1>16 DEF Handed

LEMMA CookiesTyped ==
    ASSUME NEW n
    PROVE  /\ SetsTyped(Keep, n) /\ SetsTyped(NoInvitation, n) /\ SetsTyped([verify |-> None], n)
           /\ "session" \notin DOMAIN Keep /\ "session" \notin DOMAIN NoInvitation
           /\ "session" \notin DOMAIN [verify |-> None]
           /\ \A k \in 1 .. n : SetsTyped([session |-> k], n)
                                /\ SetsTyped([session |-> k, back |-> FALSE], n)
<1>1. DOMAIN Keep = {}
  BY DEF Keep
<1> QED BY <1>1 DEF SetsTyped, NoInvitation

\* An answer without a token.
LEMMA ServedPlain ==
    ASSUME Typed, Intents, Handed, NEW t \in Tabs, call[t].at = "sent",
           NEW code, NEW body, NEW sets \in {Keep, NoInvitation, [verify |-> None]},
           Answer(t, code, body, sets), code # "ok" \/ call[t].kind \notin {"login", "switch"},
           issued' = issued, Switches' = Switches,
           \A k \in Tokens : session'[k].live = session[k].live
    PROVE  BrowserTyped' /\ Handed'
<1>1. /\ Responds(t, sets) /\ call'[t].code = code /\ call'[t].body = body
  BY AnswerParts
<1>2. SetsTyped(sets, issued') /\ "session" \notin DOMAIN sets
  BY CookiesTyped
<1>3. issued \in Nat
  BY DEF Typed, LoginsTyped
<1>4. AnswerTyped(call'[t], issued')
  BY <1>1, <1>2 DEF AnswerTyped, Responds
<1>5. BrowserTyped'
  BY <1>1, <1>3, <1>4, RespondedTyped
<1>6. Handed'
  BY <1>1, <1>2, ServedOld
<1> QED BY <1>5, <1>6

LEMMA CallParts ==
    ASSUME Typed, Intents, NEW t \in Tabs, call[t].at = "sent"
    PROVE  /\ Fits(call[t], tab[t]) /\ call[t].cookies \in Jars
           /\ call[t].cookies.session \in Nat /\ call[t].cookies.session <= issued
           /\ issued \in Nat /\ steps \in Nat /\ left \in BOOLEAN
<1>1. Fits(call[t], tab[t]) /\ call[t].cookies \in Jars /\ call[t].cookies.session <= issued
  BY TabParts DEF CallTyped, Carrying
<1> QED BY <1>1 DEF Jars, Typed, LoginsTyped

\* Types of what an answer leaves alone.
LEMMA LoginsStay ==
    ASSUME Typed, UNCHANGED <<logins, steps, left>>
    PROVE  LoginsTyped' /\ Switches' = Switches /\ issued' = issued
           /\ \A k \in Tokens : session'[k].live = session[k].live
  BY DEF Typed, LoginsTyped, logins, Switches

LEMMA AccountsStay ==
    ASSUME Typed, UNCHANGED <<account, link, workspace>>
    PROVE  AccountsTyped'
  BY DEF Typed, AccountsTyped, OneLiveLink

LEMMA LinksMailed ==
    ASSUME Typed, NEW p \in People, NEW next \in BOOLEAN, Mailed(p, next)
    PROVE  link' \in [Links -> LinkRows] /\ OneLiveLink'
<1>1. link \in [Links -> LinkRows] /\ OneLiveLink
  BY DEF Typed, AccountsTyped
<1>2. PICK l \in Links :
         link' = [k \in Links |->
             IF k = l THEN [status |-> "live", of |-> p, next |-> next]
             ELSE IF link[k].of = p /\ link[k].status = "live"
             THEN [link[k] EXCEPT !.status = "replaced"] ELSE link[k]]
  BY DEF Mailed
<1>3. ASSUME NEW k \in Links
      PROVE  /\ link'[k] \in LinkRows
             /\ link'[k].status = "live" =>
                   k = l \/ (link[k].of # p /\ link[k].status = "live" /\ link'[k] = link[k])
  <2>1. link[k] \in LinkRows
    BY <1>1
  <2>2. CASE k = l
    BY <1>2, <2>2 DEF LinkRows
  <2>3. CASE k # l /\ link[k].of = p /\ link[k].status = "live"
    BY <1>2, <2>1, <2>3 DEF LinkRows
  <2>4. CASE k # l /\ ~(link[k].of = p /\ link[k].status = "live")
    BY <1>2, <2>1, <2>4
  <2> QED BY <2>2, <2>3, <2>4
<1>4. link'[l].of = p
  BY <1>2
<1>5. OneLiveLink'
  BY <1>1, <1>3, <1>4 DEF OneLiveLink
<1>6. link' = [k \in Links |-> link'[k]]
  BY <1>2
<1> QED BY <1>3, <1>5, <1>6

LEMMA RegisterServed ==
    ASSUME Typed, Intents, Handed, NEW t \in Tabs, ServeRegister(t)
    PROVE  Typed' /\ Handed'
<1> DEFINE q == call[t].what
<1>1. /\ call[t].at = "sent" /\ call[t].kind = "register" /\ Answer(t, "ok", None, Keep)
      /\ UNCHANGED <<workspace, logins, steps, left>>
  BY DEF ServeRegister, Taken, Answer, bounds
<1>2. q.who \in People /\ q.plan \in Plans \cup {None}
  BY <1>1, CallParts DEF Fits
<1>3. BrowserTyped' /\ Handed' /\ LoginsTyped'
  BY <1>1, LoginsStay, ServedPlain
<1>4. CASE UNCHANGED <<account, link>>
  BY <1>1, <1>3, <1>4, AccountsStay DEF Typed
<1>5. CASE /\ account' = [account EXCEPT ![q.who].status = "pending", ![q.who].plan = q.plan]
           /\ Mailed(q.who, q.plan = None)
  <2>1. link' \in [Links -> LinkRows] /\ OneLiveLink'
    BY <1>2, <1>5, LinksMailed
  <2>2. account' \in [People -> Accounts]
    BY <1>2, <1>5 DEF Typed, AccountsTyped, Accounts
  <2> QED BY <1>1, <1>3, <2>1, <2>2 DEF Typed, AccountsTyped
<1> QED BY <1>4, <1>5 DEF ServeRegister

LEMMA ResendServed ==
    ASSUME Typed, Intents, Handed, NEW t \in Tabs, ServeResend(t)
    PROVE  Typed' /\ Handed'
<1> DEFINE p == call[t].what
<1>1. /\ call[t].at = "sent" /\ call[t].kind = "resend" /\ Answer(t, "ok", None, Keep)
      /\ UNCHANGED <<account, workspace, logins, steps, left>>
  BY DEF ServeResend, Taken, Answer, bounds
<1>2. p \in People /\ tab[t].invited \in BOOLEAN
  BY <1>1, CallParts, TabParts DEF Fits, TabTyped
<1>3. BrowserTyped' /\ Handed' /\ LoginsTyped'
  BY <1>1, LoginsStay, ServedPlain
<1>4. CASE UNCHANGED link
  BY <1>1, <1>3, <1>4, AccountsStay DEF Typed
<1>5. CASE Mailed(p, tab[t].invited)
  <2>1. link' \in [Links -> LinkRows] /\ OneLiveLink'
    BY <1>2, <1>5, LinksMailed
  <2> QED BY <1>1, <1>3, <2>1 DEF Typed, AccountsTyped
<1> QED BY <1>4, <1>5 DEF ServeResend

LEMMA VerifyServed ==
    ASSUME Typed, Intents, Handed, NEW t \in Tabs, ServeVerify(t)
    PROVE  Typed' /\ Handed'
<1> DEFINE l == call[t].cookies.verify
<1>1. /\ call[t].at = "sent" /\ call[t].kind = "verify"
      /\ \E code, body : Answer(t, code, body, [verify |-> None])
      /\ UNCHANGED <<workspace, logins, steps, left>>
  BY DEF ServeVerify, Taken, Answer, bounds
<1>3. BrowserTyped' /\ Handed' /\ LoginsTyped'
  BY <1>1, LoginsStay, ServedPlain
<1>4. CASE UNCHANGED <<link, account>>
  BY <1>1, <1>3, <1>4, AccountsStay DEF Typed
<1>5. CASE /\ l # None
           /\ link' = [link EXCEPT ![l].status = "consumed"]
           /\ account' = [account EXCEPT ![link[l].of].status = "active"]
  <2>1. l \in Links
    BY <1>1, <1>5, CallParts DEF Jars
  <2>2. /\ link \in [Links -> LinkRows] /\ OneLiveLink /\ account \in [People -> Accounts]
        /\ workspace \in [Workspaces -> WorkspaceRows]
    BY DEF Typed, AccountsTyped
  <2> HIDE DEF l
  <2>3. link[l].of \in People
    BY <2>1, <2>2 DEF LinkRows
  <2>4. account' \in [People -> Accounts]
    BY <1>5, <2>2, <2>3 DEF Accounts
  <2>5. link' \in [Links -> LinkRows]
    BY <1>5, <2>1, <2>2 DEF LinkRows
  <2>6. \A k \in Links : link'[k].status = "live" => link'[k] = link[k]
    BY <1>5, <2>1, <2>2 DEF LinkRows
  <2>7. OneLiveLink'
    BY <2>2, <2>6 DEF OneLiveLink
  <2> QED BY <1>1, <1>3, <2>2, <2>4, <2>5, <2>7 DEF Typed, AccountsTyped
<1> QED BY <1>4, <1>5 DEF ServeVerify

LEMMA PlanServed ==
    ASSUME Typed, Intents, Handed, NEW t \in Tabs, ServePlan(t)
    PROVE  Typed' /\ Handed'
<1> DEFINE p == Who(call[t].cookies.session)
<1>1. /\ call[t].at = "sent" /\ call[t].kind = "plan"
      /\ \E code : Answer(t, code, None, Keep)
      /\ UNCHANGED <<link, workspace, logins, steps, left>>
  BY DEF ServePlan, Taken, Answer, bounds
<1>3. BrowserTyped' /\ Handed' /\ LoginsTyped'
  BY <1>1, LoginsStay, ServedPlain
<1>4. CASE UNCHANGED account
  BY <1>1, <1>3, <1>4, AccountsStay DEF Typed
<1>5. CASE p # None /\ account' = [account EXCEPT ![p].plan = call[t].what]
  <2>1. p \in People
    BY <1>1, <1>5, CallParts, WhoTyped DEF Typed
  <2>2. call[t].what \in Plans
    BY <1>1, CallParts DEF Fits
  <2> HIDE DEF p
  <2>3. account' \in [People -> Accounts]
    BY <1>5, <2>1, <2>2 DEF Typed, AccountsTyped, Accounts
  <2> QED BY <1>1, <1>3, <2>3 DEF Typed, AccountsTyped, OneLiveLink
<1> QED BY <1>4, <1>5 DEF ServePlan

LEMMA AcceptServed ==
    ASSUME Typed, Intents, Handed, NEW t \in Tabs, ServeAccept(t) \/ ServeClear(t)
    PROVE  Typed' /\ Handed'
<1>1. /\ call[t].at = "sent" /\ call[t].kind \in {"accept", "clear"}
      /\ UNCHANGED <<account, link, workspace, logins, steps, left>>
  BY DEF ServeAccept, ServeClear, Taken, Answer, bounds, server, rows
<1>2. \E code, body : \E sets \in {Keep, NoInvitation} : Answer(t, code, body, sets)
  BY DEF ServeAccept, ServeClear
<1>3. BrowserTyped' /\ Handed' /\ LoginsTyped'
  BY <1>1, <1>2, LoginsStay, ServedPlain
<1> QED BY <1>1, <1>3, AccountsStay DEF Typed

\* One more token, in the answer to tab t.
LEMMA TokenSet ==
    ASSUME Typed, issued + 1 \in Tokens, NEW sets,
           sets = [session |-> issued + 1] \/ sets = [session |-> issued + 1, back |-> FALSE]
    PROVE  /\ SetsTyped(sets, issued + 1)
           /\ "session" \in DOMAIN sets /\ sets.session = issued + 1
           /\ issued \in Nat /\ issued + 1 \in 0 .. MaxTokens
<1>1. issued \in Nat /\ MaxTokens \in Nat
  BY EntryAssumption DEF Typed, LoginsTyped
<1>2. issued + 1 \in 1 .. issued + 1
  BY <1>1
<1>3. SetsTyped(sets, issued + 1)
  BY <1>2, CookiesTyped
<1> QED BY <1>1, <1>3 DEF Tokens

LEMMA LoginServed ==
    ASSUME Typed, Intents, Handed, NEW t \in Tabs, ServeLogin(t)
    PROVE  Typed' /\ Handed'
<1> DEFINE p == call[t].what
           c == call[t].cookies.session
           k == issued + 1
           now == Selected(p, None)
<1>1. /\ call[t].at = "sent" /\ call[t].kind = "login"
      /\ UNCHANGED <<account, link, workspace, receipt>> /\ Switches' = Switches
  BY DEF ServeLogin, Taken, rows, Switches
<1>2. p \in People /\ c \in Nat
  BY <1>1, CallParts DEF Fits
<1>3. AccountsTyped'
  BY <1>1, AccountsStay
<1>4. CASE Answer(t, "refused", None, Keep) /\ UNCHANGED <<session, issued>>
  <2>1. UNCHANGED <<logins, steps, left>>
    BY <1>1, <1>4 DEF logins, Answer, bounds
  <2>2. BrowserTyped' /\ Handed' /\ LoginsTyped'
    BY <1>1, <1>4, <2>1, LoginsStay, ServedPlain
  <2> QED BY <1>3, <2>2 DEF Typed
<1>5. ASSUME k \in Tokens, issued' = k,
             session' = [j \in Tokens |->
                  IF j = k THEN [of |-> p, active |-> now, live |-> TRUE]
                  ELSE IF j = c THEN [session[j] EXCEPT !.live = FALSE] ELSE session[j]],
             NEW next \in {"accept", "create", "home", "switch"},
             NEW sets, sets = [session |-> k] \/ sets = [session |-> k, back |-> FALSE],
             Answer(t, "ok", next, sets)
      PROVE  Typed' /\ Handed'
  <2>1. now \in Workspaces \cup {None}
    BY SelectedTyped
  <2> HIDE DEF p, now
  <2>2. /\ session'[k].live
        /\ \A j \in Tokens : j \notin {k, c} => session'[j].live = session[j].live
    BY <1>5
  <2>3. session' \in [Tokens -> Sessions]
    BY <1>2, <1>5, <2>1 DEF Typed, LoginsTyped, Sessions
  <2>4. /\ SetsTyped(sets, k) /\ "session" \in DOMAIN sets /\ sets.session = k
        /\ issued \in Nat /\ k \in 0 .. MaxTokens
    BY <1>5, TokenSet
  <2>5. Responds(t, sets) /\ call'[t].code = "ok" /\ call'[t].body = next
    BY <1>1, <1>5, AnswerParts
  <2>6. AnswerTyped(call'[t], issued')
    BY <1>1, <1>5, <2>4, <2>5 DEF AnswerTyped, Responds
  <2>7. BrowserTyped'
    BY <1>5, <2>4, <2>5, <2>6, RespondedTyped
  <2>8. Handed'
    BY <1>1, <1>5, <2>2, <2>4, <2>5, ServedNew
  <2>9. LoginsTyped'
    BY <1>1, <1>5, <2>3, <2>4, <2>5 DEF Typed, LoginsTyped, Responds
  <2> QED BY <1>3, <2>7, <2>8, <2>9 DEF Typed
<1> QED BY <1>4, <1>5 DEF ServeLogin

LEMMA CreateServed ==
    ASSUME Typed, Intents, Handed, NEW t \in Tabs, ServeCreate(t)
    PROVE  Typed' /\ Handed'
<1> DEFINE q == call[t]
           c == q.cookies.session
           p == Who(c)
<1>1. call[t].at = "sent" /\ call[t].kind = "create" /\ UNCHANGED <<link, issued>>
  BY DEF ServeCreate, Taken
<1>2. /\ q.what \in Nat /\ q.key \in Nat /\ c \in Nat /\ c <= issued
      /\ p # None => p \in People /\ c \in Tokens
  BY <1>1, CallParts, WhoTyped DEF Fits, Typed
<1>3. /\ UNCHANGED <<steps, left>>
      /\ \E code : Answer(t, code, None, Keep)
  BY DEF ServeCreate, Answer, bounds
<1>4. ASSUME Switches' = Switches, \A k \in Tokens : session'[k].live = session[k].live
      PROVE  BrowserTyped' /\ Handed'
  BY <1>1, <1>3, <1>4, ServedPlain
<1>5. CASE UNCHANGED <<account, workspace, session, receipt>>
  <2>1. LoginsTyped' /\ BrowserTyped' /\ Handed'
    BY <1>1, <1>3, <1>4, <1>5, LoginsStay DEF logins
  <2> QED BY <1>1, <1>5, <2>1, AccountsStay DEF Typed
<1>6. ASSUME p # None, NEW w \in Workspaces,
             workspace' = [workspace EXCEPT ![w] = [by |-> p, plan |-> account[p].plan]],
             account' = [account EXCEPT ![p].workspace = w],
             session' = [session EXCEPT ![c].active = w],
             receipt' = receipt \cup {[op |-> "create", by |-> p, key |-> q.key,
                                       name |-> q.what, to |-> w]}
      PROVE  Typed' /\ Handed'
  <2> DEFINE new == [op |-> "create", by |-> p, key |-> q.key, name |-> q.what, to |-> w]
  <2>1. p \in People /\ c \in Tokens
    BY <1>2, <1>6
  <2>2. new \in Receipts /\ new.op # "switch"
    BY <1>2, <2>1 DEF Receipts
  <2>3. receipt' = receipt \cup {new}
    BY <1>6
  <2> HIDE DEF new, p, c
  <2>4. receipt' \subseteq Receipts /\ Switches' = Switches
    BY <2>2, <2>3 DEF Typed, LoginsTyped, Switches
  <2>5. account' \in [People -> Accounts] /\ account[p].plan \in Plans \cup {None}
    BY <1>6, <2>1 DEF Typed, AccountsTyped, Accounts
  <2>6. workspace' \in [Workspaces -> WorkspaceRows]
    BY <1>6, <2>1, <2>5 DEF Typed, AccountsTyped, WorkspaceRows
  <2>7. /\ session' \in [Tokens -> Sessions]
        /\ \A k \in Tokens : session'[k].live = session[k].live
    BY <1>6, <2>1 DEF Typed, LoginsTyped, Sessions
  <2>8. BrowserTyped' /\ Handed'
    BY <1>4, <2>4, <2>7
  <2>9. LoginsTyped'
    BY <1>1, <1>3, <2>4, <2>7 DEF Typed, LoginsTyped
  <2>10. AccountsTyped'
    BY <1>1, <2>5, <2>6 DEF Typed, AccountsTyped, OneLiveLink
  <2> QED BY <2>8, <2>9, <2>10 DEF Typed
<1> QED BY <1>5, <1>6 DEF ServeCreate

LEMMA SwitchServed ==
    ASSUME Typed, Intents, Handed, NEW t \in Tabs, ServeSwitch(t)
    PROVE  Typed' /\ Handed'
<1> DEFINE q == call[t]
           c == q.cookies.session
           p == Who(c)
           k == issued + 1
<1>1. /\ call[t].at = "sent" /\ call[t].kind = "switch"
      /\ UNCHANGED <<account, link, workspace>>
  BY DEF ServeSwitch, Taken, rows
<1>2. /\ q.what \in Workspaces /\ q.key \in Nat \ {0} /\ tab[t].keys[q.what] = q.key
      /\ c \in Nat /\ c <= issued /\ issued \in Nat
      /\ p # None => p \in People /\ c \in Tokens /\ c # 0
  BY <1>1, CallParts, WhoTyped DEF Fits, Typed
<1>3. AccountsTyped'
  BY <1>1, AccountsStay
<1>4. ASSUME NEW code \in {"refused", "gone"}, Answer(t, code, None, Keep), UNCHANGED logins
      PROVE  Typed' /\ Handed'
  <2>1. UNCHANGED <<logins, steps, left>>
    BY <1>4 DEF Answer, bounds
  <2>2. BrowserTyped' /\ Handed' /\ LoginsTyped'
    BY <1>1, <1>4, <2>1, LoginsStay, ServedPlain
  <2> QED BY <1>3, <2>2 DEF Typed
<1>5. ASSUME NEW r \in receipt, r.op = "switch", r.key = q.key,
             Answer(t, "ok", None, [session |-> r.token]), UNCHANGED logins
      PROVE  Typed' /\ Handed'
  <2> DEFINE sets == [session |-> r.token]
  <2>1. r \in Switches
    BY <1>5 DEF Switches
  <2>2. r.token \in Tokens /\ r.token <= issued /\ r.token # 0
    BY <2>1, SwitchParts DEF Handed
  <2>3. Holds(t, r.key)
    BY <1>2, <1>5 DEF Holds, KeyNames
  <2>4. Owes(t, r.token)
    BY <2>1, <2>3 DEF Owes
  <2>5. UNCHANGED <<logins, steps, left>>
    BY <1>5 DEF Answer, bounds
  <2>6. /\ LoginsTyped' /\ Switches' = Switches /\ issued' = issued
        /\ \A j \in Tokens : session'[j].live = session[j].live
    BY <2>5, LoginsStay
  <2>7. "session" \in DOMAIN sets /\ sets.session = r.token
    OBVIOUS
  <2>8. SetsTyped(sets, issued)
    <3>1. r.token \in 1 .. issued
      BY <1>2, <2>2 DEF Tokens
    <3> QED BY <3>1, CookiesTyped
  <2>9. Responds(t, sets)
    BY <1>1, <1>5, AnswerParts
  <2> HIDE DEF sets
  <2>10. AnswerTyped(call'[t], issued')
    BY <1>1, <2>6, <2>7, <2>8, <2>9 DEF AnswerTyped, Responds
  <2>11. BrowserTyped'
    BY <1>2, <2>6, <2>9, <2>10, RespondedTyped
  <2>12. Handed'
    BY <2>4, <2>6, <2>7, <2>9, ServedOld
  <2> QED BY <1>3, <2>6, <2>11, <2>12 DEF Typed
<1>6. ASSUME p # None, k \in Tokens, issued' = k,
             session' = [session EXCEPT ![c].live = FALSE,
                                        ![k] = [of |-> p, active |-> q.what, live |-> TRUE]],
             receipt' = receipt \cup {[op |-> "switch", by |-> c, key |-> q.key,
                                       to |-> q.what, token |-> k]},
             Answer(t, "ok", None, [session |-> k])
      PROVE  Typed' /\ Handed'
  <2> DEFINE new == [op |-> "switch", by |-> c, key |-> q.key, to |-> q.what, token |-> k]
             sets == [session |-> k]
  <2>1. p \in People /\ c \in Tokens /\ c # 0
    BY <1>2, <1>6
  <2>2. /\ new \in Receipts /\ new.op = "switch" /\ new.by = c /\ new.token = k
        /\ new.key = q.key /\ new.to = q.what
    BY <1>2, <1>6, <2>1 DEF Receipts
  <2>3. receipt' = receipt \cup {new}
    BY <1>6
  <2>4. /\ SetsTyped(sets, k) /\ "session" \in DOMAIN sets /\ sets.session = k
        /\ k \in 0 .. MaxTokens
    BY <1>6, TokenSet
  <2>5. Responds(t, sets)
    BY <1>1, <1>6, AnswerParts
  <2> HIDE DEF new, sets, p, c
  <2>6. receipt' \subseteq Receipts /\ Switches' = Switches \cup {new}
    BY <2>2, <2>3 DEF Typed, LoginsTyped, Switches
  <2>7. /\ session' \in [Tokens -> Sessions] /\ session'[k].live
        /\ \A j \in Tokens : j \notin {k, c} => session'[j].live = session[j].live
    BY <1>2, <1>6, <2>1 DEF Typed, LoginsTyped, Sessions
  <2>8. AnswerTyped(call'[t], issued')
    BY <1>1, <1>6, <2>4, <2>5 DEF AnswerTyped, Responds
  <2>9. BrowserTyped'
    BY <1>2, <1>6, <2>5, <2>8, RespondedTyped
  <2>10. Handed'
    BY <1>1, <1>6, <2>1, <2>2, <2>4, <2>5, <2>6, <2>7, ServedNew DEF c
  <2>11. LoginsTyped'
    BY <1>6, <2>4, <2>5, <2>6, <2>7 DEF Typed, LoginsTyped, Responds
  <2> QED BY <1>3, <2>9, <2>10, <2>11 DEF Typed
<1> QED BY <1>4, <1>5, <1>6 DEF ServeSwitch

LEMMA OptionsServed ==
    ASSUME Typed, Intents, Handed, NEW t \in Tabs, ServeOptions(t)
    PROVE  Typed' /\ Handed'
<1> DEFINE k == call[t].cookies.session
           p == Who(k)
<1>1. /\ call[t].at = "sent" /\ call[t].kind = "options"
      /\ UNCHANGED <<account, link, workspace, issued, receipt, steps, left>>
      /\ Switches' = Switches
  BY DEF ServeOptions, Taken, Answer, bounds, rows, Switches
<1>2. \E code, body : Answer(t, code, body, Keep)
  BY DEF ServeOptions
<1>3. p # None => k \in Tokens
  BY <1>1, CallParts, WhoTyped DEF Typed
<1>4. /\ session' \in [Tokens -> Sessions]
      /\ \A j \in Tokens : session'[j].live = session[j].live
  <2>1. CASE UNCHANGED session
    BY <2>1 DEF Typed, LoginsTyped
  <2>2. CASE p # None /\ session' = [session EXCEPT ![k].active = Selected(p, @)]
    <3>1. Selected(p, session[k].active) \in Workspaces \cup {None} /\ k \in Tokens
      BY <1>3, <2>2, SelectedTyped
    <3> HIDE DEF p, k
    <3> QED BY <2>2, <3>1 DEF Typed, LoginsTyped, Sessions
  <2> QED BY <2>1, <2>2 DEF ServeOptions
<1>5. BrowserTyped' /\ Handed'
  BY <1>1, <1>2, <1>4, ServedPlain
<1>6. LoginsTyped'
  BY <1>1, <1>4 DEF Typed, LoginsTyped
<1> QED BY <1>1, <1>5, <1>6, AccountsStay DEF Typed

LEMMA ServeServed ==
    ASSUME Typed, Intents, Handed, NEW t \in Tabs, Serve(t)
    PROVE  Typed' /\ Handed'
  BY RegisterServed, ResendServed, VerifyServed, LoginServed, PlanServed, CreateServed,
     SwitchServed, OptionsServed, AcceptServed DEF Serve
-----------------------------------------------------------------------------
(* Every step. *)

LEMMA NothingMoves ==
    ASSUME Typed, Handed, jar' \in Jars, jar'.session = jar.session,
           UNCHANGED <<account, link, workspace, session, issued, receipt, tab, call, steps, left>>
    PROVE  Typed' /\ Handed'
<1>1. AccountsTyped'
  BY AccountsStay
<1>2. LoginsTyped'
  BY DEF Typed, LoginsTyped
<1>3. BrowserTyped'
  BY DEF Typed, BrowserTyped
<1>4. Numbered' /\ KeysOnce'
  BY DEF Handed, Numbered, KeysOnce, Switches
<1>5. Switches' = Switches
  BY DEF Switches
<1>6. /\ \A t \in Tabs : \A k : Owes(t, k)' <=> Owes(t, k)
      /\ \A k : Carried(k)' <=> Carried(k)
      /\ \A t \in Tabs : \A r : Keeps(t, r)' <=> Keeps(t, r)
  BY <1>5 DEF Owes, Gets, Holds, Carried, Carries, Keeps
<1>7. TokensOnce'
  BY <1>6 DEF Handed, TokensOnce
<1>8. Repeatable'
  BY <1>5, <1>6 DEF Handed, Repeatable
<1> QED BY <1>1, <1>2, <1>3, <1>4, <1>7, <1>8 DEF Typed, Handed

LEMMA OthersServed ==
    ASSUME Typed, Handed,
           \/ \E i \in Invitations : Revoke(i)
           \/ \E w \in Workspaces, p \in People : RemoveMember(w, p)
           \/ IntentsLapse \/ UNCHANGED vars
    PROVE  Typed' /\ Handed'
<1>1. jar \in Jars
  BY DEF Typed, BrowserTyped
<1>2. UNCHANGED <<account, link, workspace, session, issued, receipt, tab, call, steps, left>>
  BY DEF Revoke, RemoveMember, IntentsLapse, vars, server, rows, logins, browser, bounds
<1>3. jar' = jar \/ jar' = [Empty EXCEPT !.session = jar.session]
  BY DEF Revoke, RemoveMember, IntentsLapse, vars, server, rows, logins, browser, bounds
<1>4. jar' \in Jars /\ jar'.session = jar.session
  BY <1>1, <1>3 DEF Jars, Empty
<1> QED BY <1>2, <1>4, NothingMoves

LEMMA TypedNext ==
    ASSUME Typed, Intents, Handed, [Next]_vars
    PROVE  Typed' /\ Handed'
<1>1. ASSUME NEW t \in Tabs, NEW name \in {1, 2}, Create(t, name)
      PROVE  Kept(t)
  <2>1. None \in KeyNames /\ name \in Nat
    BY DEF KeyNames
  <2> QED BY <1>1, <2>1, KeyedKept DEF Create
<1>2. ASSUME NEW t \in Tabs, NEW w \in Workspaces, Switch(t, w)
      PROVE  Kept(t)
  <2>1. w \in KeyNames
    BY DEF KeyNames
  <2> QED BY <1>2, <2>1, KeyedKept DEF Switch
<1>3. ASSUME NEW t \in Tabs, Kept(t)
      PROVE  Typed' /\ Handed'
  BY <1>3, KeptStep
<1>4. ASSUME NEW t \in Tabs,
             \/ \E l \in Links : OpenVerification(t, l)
             \/ \E i \in Invitations : OpenInvitation(t, i)
             \/ \E p \in Visitors : Register(t, p) \/ Login(t, p)
             \/ \E name \in {1, 2} : Create(t, name)
             \/ \E w \in Workspaces : Switch(t, w)
             \/ Open(t) \/ Resend(t) \/ SavePlan(t) \/ ReloadOptions(t) \/ Accept(t)
             \/ NotNow(t) \/ Leave(t)
             \/ Send(t) \/ Return(t) \/ Lose(t)
      PROVE  Kept(t)
  BY <1>1, <1>2, <1>4, OpenVerificationKept, OpenInvitationKept, OpenKept, FormsKept, LeaveKept,
     SendKept, ReturnKept, LoseKept
<1>5. ASSUME NEW t \in Tabs, Serve(t)
      PROVE  Typed' /\ Handed'
  BY <1>5, ServeServed
<1> QED BY <1>3, <1>4, <1>5, OthersServed DEF Next

LEMMA TypedInit == Init => Typed /\ Handed
<1> SUFFICES ASSUME NEW s \in Starts,
                    account = s.account, workspace = s.workspace,
                    link = [l \in Links |-> [status |-> "unused",
                                             of |-> CHOOSE p \in People : TRUE, next |-> FALSE]],
                    session = [k \in Tokens |-> IF k = 1 /\ s.user # None
                                     THEN [of |-> s.user, active |-> s.active, live |-> TRUE]
                                     ELSE NoSession],
                    issued = (IF s.user = None THEN 0 ELSE 1),
                    jar = [Empty EXCEPT !.session = issued], receipt = {},
                    tab = [t \in Tabs |-> Blank], call = [t \in Tabs |-> NoCall],
                    steps = 0, left = FALSE
             PROVE  Typed /\ Handed
  BY DEF Init
<1>1. /\ s.account \in [People -> Accounts] /\ s.workspace \in [Workspaces -> WorkspaceRows]
      /\ s.user \in People \cup {None} /\ s.active \in Workspaces \cup {None}
      /\ People # {} /\ MaxTokens \in Nat \ {0}
  BY EntryAssumption
<1>2. AccountsTyped
  <2>1. (CHOOSE p \in People : TRUE) \in People
    BY <1>1
  <2>2. link \in [Links -> LinkRows] /\ \A l \in Links : link[l].status # "live"
    BY <2>1 DEF LinkRows
  <2> QED BY <1>1, <2>2 DEF AccountsTyped, OneLiveLink
<1>3. issued \in {0, 1} /\ issued \in 0 .. MaxTokens
  BY <1>1
<1>4. LoginsTyped
  <2>1. [of |-> s.user, active |-> s.active, live |-> TRUE] \in Sessions /\ NoSession \in Sessions
    BY <1>1 DEF Sessions, NoSession
  <2>2. session \in [Tokens -> Sessions]
    BY <2>1
  <2> QED BY <1>3, <2>2 DEF LoginsTyped
<1>5. BrowserTyped
  <2>1. jar \in Jars /\ jar.session = issued
    BY <1>3 DEF Jars, Empty
  <2>2. NoKeys \in [KeyNames -> Nat]
    BY DEF NoKeys, KeyNames
  <2> HIDE DEF NoKeys
  <2>3. TabTyped(Blank)
    BY <2>2 DEF Blank, TabTyped, TabFields, Pages
  <2>4. \A t \in Tabs : CallTyped(NoCall, Blank, issued)
    BY IdleTyped
  <2> QED BY <1>3, <2>1, <2>3, <2>4 DEF BrowserTyped
<1>6. Handed
  <2>1. Switches = {}
    BY DEF Switches
  <2>2. \A t \in Tabs : \A w \in KeyNames : tab[t].keys[w] = 0
    BY DEF Blank, NoKeys, KeyNames
  <2>3. \A t \in Tabs : call[t].at = "idle"
    BY IdleTyped
  <2>4. \A t \in Tabs : \A k : ~Owes(t, k)
    BY <2>1, <2>3 DEF Owes, Gets
  <2>5. Numbered /\ KeysOnce
    BY <2>1, <2>2 DEF Numbered, KeysOnce
  <2>6. TokensOnce
    BY <2>4 DEF TokensOnce
  <2>7. Repeatable
    BY <2>1 DEF Repeatable
  <2> QED BY <2>5, <2>6, <2>7 DEF Handed
<1> QED BY <1>2, <1>4, <1>5, <1>6 DEF Typed

LEMMA AlwaysTyped == Spec => [](Typed /\ Handed)
<1>1. Typed /\ Handed /\ IInv /\ [Next]_vars => (Typed /\ Handed)'
  BY TypedNext DEF IInv
<1> QED BY <1>1, TypedInit, AlwaysInv, PTL DEF Spec

LEMMA AtMostOne ==
    ASSUME NEW S, \A x, y \in S : x = y
    PROVE  Cardinality(S) <= 1
<1>1. CASE S = {}
  BY <1>1, FS_EmptySet
<1>2. CASE S # {}
  <2>1. PICK x \in S : S = {x}
    BY <1>2
  <2> QED BY <2>1, FS_Singleton
<1> QED BY <1>1, <1>2

\* Whatever is opened, lost, mailed and served, every variable keeps its type,
\* an address has one live link at most, the browser stores no token that was
\* not issued, and a page for who is signed in is of somebody.
THEOREM TypeCorrect == Spec => []TypeOK
<1>1. IInv /\ Typed => TypeOK
  <2> SUFFICES ASSUME IInv, Typed PROVE TypeOK
    OBVIOUS
  <2>1. \A p \in People :
           Cardinality({l \in Links : link[l].of = p /\ link[l].status = "live"}) <= 1
    <3> TAKE p \in People
    <3>1. \A l, m \in {l \in Links : link[l].of = p /\ link[l].status = "live"} : l = m
      BY DEF Typed, AccountsTyped, OneLiveLink
    <3> QED BY <3>1, AtMostOne
  <2>2. invitation \in [Invitations -> InvitationRows]
    BY DEF IInv, RowsTyped
  <2>3. ASSUME NEW t \in Tabs
        PROVE  /\ tab[t].at \in Pages
               /\ call[t].at \in {"idle", "asked", "sent", "answered"}
               /\ tab[t].at \in {"ready", "switch", "create"} => tab[t].who # None
    BY DEF Typed, BrowserTyped, TabTyped, CallTyped
  <2> QED BY <2>1, <2>2, <2>3 DEF Typed, AccountsTyped, LoginsTyped, BrowserTyped, TypeOK
<1> QED BY <1>1, AlwaysInv, AlwaysTyped, PTL

\* While the browser still has the token that a switch replaced, the new one
\* is alive and, unless a tab was left, the one that asked can still get it:
\* no login, switch or answer of another tab ends it or takes its key away.
THEOREM SwitchesCanBeRepeated == Spec => []SwitchCanBeRepeated
<1>1. Handed => SwitchCanBeRepeated
  BY DEF Handed, Repeatable, Switches, Keeps, SwitchCanBeRepeated
<1> QED BY <1>1, AlwaysTyped, PTL
=============================================================================
