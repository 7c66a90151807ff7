--------------------------- MODULE WorkspaceEntry ---------------------------
(***************************************************************************)
(* The way into a workspace, as a person walks it in one browser: an       *)
(* account is registered, its address verified by a mailed link, a plan    *)
(* chosen, a workspace created or an invitation accepted, and with several *)
(* workspaces one is switched to.  Tabs share the cookies: the session,    *)
(* whose token every login and every switch replaces, and the intents that *)
(* the links from the mails leave behind.  A request takes the cookies     *)
(* when it is sent, its answer may be lost, and meanwhile another tab,     *)
(* perhaps of another person, replaces them.                               *)
(***************************************************************************)
EXTENDS Naturals, FiniteSets, TLC

CONSTANTS
    None,
    People,          \* accounts, each with its address
    Visitors,        \* the people who use this browser
    Plans,
    Workspaces,
    Links,           \* verification links
    Invitations,
    Tabs,
    Starts,          \* the rows of the server when the browser is opened
    Seats,           \* active members each workspace admits
    MaxTokens,       \* bound: session tokens
    MaxSteps,        \* bound: what is done in the browser
    MaxMishaps       \* bound: answers that are lost, and what others do meanwhile

VARIABLES
    \* the server
    account, link, workspace, member, invitation, session, issued, receipt,
    \* the browser
    jar, tab, call, steps, mishaps, left

rows    == <<account, link, workspace, member, invitation>>
logins  == <<session, issued, receipt>>
server  == <<rows, logins>>
browser == <<jar, tab, call>>
bounds  == <<steps, mishaps, left>>
vars    == <<server, browser, bounds>>

Tokens == 1..MaxTokens
Accounts == [status : {"absent", "pending", "active"}, plan : Plans \cup {None},
             workspace : Workspaces \cup {None}]
LinkRows == [status : {"unused", "live", "replaced", "consumed"}, of : People,
             next : BOOLEAN]
WorkspaceRows == [by : People \cup {None}, plan : Plans \cup {None}]
InvitationRows == [to : Workspaces, of : People,
                   status : {"pending", "accepted", "revoked", "expired"}]
Sessions == [of : People \cup {None}, active : Workspaces \cup {None}, live : BOOLEAN]
Receipts == [op : {"create"}, by : People, key : Nat, name : Nat, to : Workspaces]
              \cup [op : {"switch"}, by : Tokens, key : Nat, to : Workspaces, token : Tokens]
Jars == [session : Nat, verify : Links \cup {None}, invite : Invitations \cup {None},
         back : BOOLEAN]
Pages == {"blank", "register", "waiting", "verifying", "verified", "unverified",
          "login", "plans", "create", "ready", "switch", "home", "accept", "gone", "joined"}

\* The record g with the fields of f in it or in place of its own.
Over(f, g) == [x \in DOMAIN f \cup DOMAIN g |-> IF x \in DOMAIN f THEN f[x] ELSE g[x]]

NoSession == [of |-> None, active |-> None, live |-> FALSE]
Empty == [session |-> 0, verify |-> None, invite |-> None, back |-> FALSE]
NoCall == [at |-> "idle"]
NoKeys == [w \in Workspaces \cup {None} |-> 0]
Page(t, at) == [at |-> at, invited |-> FALSE, who |-> None, shown |-> None, keys |-> NoKeys,
                email |-> tab[t].email]
Blank == [at |-> "blank", invited |-> FALSE, who |-> None, shown |-> None, keys |-> NoKeys,
          email |-> None]

ASSUME EntryAssumption ==
    /\ MaxTokens \in Nat \ {0} /\ {MaxSteps, MaxMishaps} \subseteq Nat
    /\ Seats \in [Workspaces -> Nat]
    /\ Visitors \subseteq People /\ People # {}
    /\ None \notin People \cup Plans \cup Workspaces \cup Links \cup Invitations
    /\ \A s \in Starts :
         /\ s.account \in [People -> Accounts]
         /\ s.workspace \in [Workspaces -> WorkspaceRows]
         /\ s.member \in [Workspaces -> [People -> {"none", "active", "removed"}]]
         /\ s.invitation \in [Invitations -> InvitationRows]
         /\ s.user \in People \cup {None} /\ s.active \in Workspaces \cup {None}
         \* A person has the workspace they created, others by invitation.
         /\ \A p \in People :
              LET a == s.account[p] IN
              /\ {w \in Workspaces : s.workspace[w].by = p} = {a.workspace} \ {None}
              /\ a.workspace # None => /\ s.workspace[a.workspace].plan = a.plan
                                       /\ a.status # "absent"
         /\ \A w \in Workspaces, p \in People :
              s.member[w][p] # "none" =>
                 \/ s.workspace[w].by = p
                 \/ \E i \in Invitations : s.invitation[i] = [to |-> w, of |-> p, status |-> "accepted"]

\* Somebody is signed in, or nobody.
Init ==
    \E s \in Starts :
       /\ account = s.account /\ workspace = s.workspace
       /\ member = s.member /\ invitation = s.invitation
       /\ link = [l \in Links |-> [status |-> "unused", of |-> CHOOSE p \in People : TRUE,
                                   next |-> FALSE]]
       /\ session = [k \in Tokens |-> IF k = 1 /\ s.user # None
                                      THEN [of |-> s.user, active |-> s.active, live |-> TRUE]
                                      ELSE NoSession]
       /\ issued = (IF s.user = None THEN 0 ELSE 1)
       /\ jar = [Empty EXCEPT !.session = issued]
       /\ receipt = {}
       /\ tab = [t \in Tabs |-> Blank]
       /\ call = [t \in Tabs |-> NoCall]
       /\ steps = 0 /\ mishaps = 0 /\ left = FALSE

---------------------------------------------------------------------------
(***************************************************************************)
(* What the server finds.                                                  *)
(***************************************************************************)
Live(k) == k # 0 /\ session[k].live
Who(k) == IF Live(k) THEN session[k].of ELSE None
Options(p) == {w \in Workspaces : member[w][p] = "active"}
Owned(p) == {w \in Workspaces : workspace[w].by = p}

\* The workspace that is selected when the options are looked up: the one of
\* the session while the person belongs to it, else the only one there is.
Selected(p, active) ==
    IF active \in Options(p) THEN active
    ELSE IF Cardinality(Options(p)) = 1 THEN CHOOSE w \in Options(p) : TRUE
    ELSE None

(* Where the redirects of the pages end. *)
CreatePage(p) == IF account[p].plan = None THEN "plans" ELSE "create"
NoAccess(p) == IF account[p].workspace = None THEN CreatePage(p) ELSE "login"
SwitchPage(p) == CASE Options(p) = {}               -> NoAccess(p)
                   [] Cardinality(Options(p)) = 1   -> "home"
                   [] OTHER                         -> "switch"
ReadyPage(p, active) == CASE active = None                   -> SwitchPage(p)
                          [] active \notin Options(p)        -> NoAccess(p)
                          [] account[p].workspace # active   -> "home"
                          [] OTHER                           -> "ready"
HomePage(p, active) == CASE active \in Options(p) -> "home"
                         [] Options(p) # {}       -> SwitchPage(p)
                         [] OTHER -> IF account[p].workspace = None THEN CreatePage(p)
                                     ELSE ReadyPage(p, active)
Landing(page, p, active) ==
    CASE p = None        -> "login"
      [] page = "home"   -> HomePage(p, active)
      [] page = "switch" -> SwitchPage(p)
      [] page = "ready"  -> ReadyPage(p, active)
      [] page = "create" -> IF account[p].workspace = None THEN CreatePage(p)
                            ELSE ReadyPage(p, active)

\* Whether the options are looked up on the way, which selects one.
LooksUp(page, p, active) ==
    \/ page = "switch"
    \/ page = "home" /\ (active = None \/ Options(p) # {})
    \/ active = None /\ (page = "ready" \/ account[p].workspace # None)

\* What a page shows; of the workspaces, those that can be chosen.
Shown(at, p, active) ==
    CASE at = "create" -> account[p].plan
      [] at = "switch" -> Options(p) \ {active}
      [] at = "ready"  -> active
      [] OTHER         -> None

\* A tab opens a page of the application with the cookies of the jar c.
Lands(t, page, c) ==
    LET p == Who(c.session)
        k == c.session
        at == Landing(page, p, session[k].active) IN
    /\ jar' = c
    /\ IF p = None
       THEN tab' = [tab EXCEPT ![t] = Page(t, "login")] /\ UNCHANGED session
       ELSE LET active == IF LooksUp(page, p, session[k].active)
                          THEN Selected(p, session[k].active) ELSE session[k].active IN
            /\ tab' = [tab EXCEPT ![t] = [Page(t, at) EXCEPT !.who = p, !.shown = Shown(at, p, active)]]
            /\ session' = [session EXCEPT ![k].active = active]

\* The page of an invitation shows what the intent is for, or ends it.
LandsOnInvitation(t, c) ==
    LET i == c.invite IN
    /\ UNCHANGED session
    /\ IF i # None /\ invitation[i].status = "pending"
       THEN /\ jar' = c
            /\ tab' = [tab EXCEPT ![t] = [Page(t, "accept") EXCEPT !.shown = i,
                                                                !.who = Who(c.session)]]
       ELSE /\ jar' = [c EXCEPT !.invite = None, !.back = IF i = None THEN @ ELSE FALSE]
            /\ tab' = [tab EXCEPT ![t] = Page(t, "gone")]

Asked(kind, what, key) == [at |-> "asked", kind |-> kind, what |-> what, key |-> key]

\* The page of a verification link completes it at once.
LandsOnVerification(t, email, c) ==
    LET at == IF c.verify = None THEN "waiting" ELSE "verifying"
        page == [Page(t, at) EXCEPT !.email = email] IN
    /\ jar' = c
    /\ IF c.verify = None
       THEN /\ tab' = [tab EXCEPT ![t] = page]
            /\ call' = [call EXCEPT ![t] = NoCall]
       ELSE /\ tab' = [tab EXCEPT ![t] = [page EXCEPT !.invited = link[c.verify].next]]
            /\ call' = [call EXCEPT ![t] = Asked("verify", None, 0)]

---------------------------------------------------------------------------
(***************************************************************************)
(* The browser.                                                            *)
(***************************************************************************)
Step == steps < MaxSteps /\ steps' = steps + 1
Meanwhile == mishaps < MaxMishaps /\ mishaps' = mishaps + 1
Still == UNCHANGED <<mishaps, left>>
Idle(t) == call[t].at = "idle"

\* A request is prepared; the cookies are added when it is sent.
Requests(t, kind, what, key) ==
    /\ Idle(t) /\ Step
    /\ call' = [call EXCEPT ![t] = Asked(kind, what, key)]

\* Proxy keeps the token of a mailed link in a cookie of its own and goes on
\* to the clean address; an earlier link of the kind is replaced.
OpenVerification(t, l) ==
    /\ Idle(t) /\ Step /\ tab[t].at # "switch"
    /\ link[l].status # "unused"
    /\ LandsOnVerification(t, tab[t].email, [jar EXCEPT !.verify = l])
    /\ Still /\ UNCHANGED server

OpenInvitation(t, i) ==
    /\ Idle(t) /\ Step /\ tab[t].at # "switch"
    /\ LandsOnInvitation(t, [jar EXCEPT !.invite = i, !.back = TRUE])
    /\ Still /\ UNCHANGED <<rows, issued, receipt, call>>

Open(t) ==
    /\ Idle(t) /\ Step /\ tab[t].at # "switch"
    /\ \/ \E page \in {"home", "switch", "create"} : Lands(t, page, jar)
       \/ LandsOnInvitation(t, jar)
       \/ /\ tab[t].at \in {"blank", "verified", "accept"}
          /\ tab' = [tab EXCEPT ![t] = [Page(t, "login") EXCEPT
                         !.invited = tab[t].at = "accept" \/ tab[t].invited]]
          /\ UNCHANGED <<jar, session>>
       \/ /\ tab[t].at \in {"blank", "accept"}
          /\ tab' = [tab EXCEPT ![t] = [Page(t, "register") EXCEPT !.invited = tab[t].at = "accept"]]
          /\ UNCHANGED <<jar, session>>
       \/ /\ tab[t].at = "create"
          /\ tab' = [tab EXCEPT ![t] = Page(t, "plans")]
          /\ UNCHANGED <<jar, session>>
    /\ Still /\ UNCHANGED <<rows, issued, receipt, call>>

\* Without an invitation a plan comes with the account.
Register(t, p) ==
    /\ tab[t].at = "register"
    /\ \E plan \in Plans :
         Requests(t, "register", [who |-> p, plan |-> IF tab[t].invited THEN None ELSE plan], 0)
    /\ Still /\ UNCHANGED <<server, jar, tab>>

Resend(t) ==
    /\ tab[t].at \in {"waiting", "unverified"} /\ tab[t].email # None
    /\ Requests(t, "resend", tab[t].email, 0)
    /\ Still /\ UNCHANGED <<server, jar, tab>>

Login(t, p) ==
    /\ tab[t].at = "login"
    /\ Requests(t, "login", p, 0)
    /\ Still /\ UNCHANGED <<server, jar, tab>>

SavePlan(t) ==
    /\ tab[t].at = "plans"
    /\ \E plan \in Plans : Requests(t, "plan", plan, 0)
    /\ Still /\ UNCHANGED <<server, jar, tab>>

KeyOfEachTry(t, w) == steps + 1

\* A form, and on the page of the workspaces each choice, keeps its key until
\* it succeeds.
Key(t, w) == IF tab[t].keys[w] # 0 THEN tab[t].keys[w] ELSE steps + 1

Create(t, name) ==
    /\ tab[t].at = "create"
    /\ Requests(t, "create", name, Key(t, None))
    /\ tab' = [tab EXCEPT ![t].keys[None] = Key(t, None)]
    /\ Still /\ UNCHANGED <<server, jar>>

Switch(t, w) ==
    /\ tab[t].at = "switch" /\ w \in tab[t].shown
    /\ Requests(t, "switch", w, Key(t, w))
    /\ tab' = [tab EXCEPT ![t].keys[w] = Key(t, w)]
    /\ Still /\ UNCHANGED <<server, jar>>

ReloadOptions(t) ==
    /\ tab[t].at = "switch"
    /\ Requests(t, "options", None, 0)
    /\ Still /\ UNCHANGED <<server, jar, tab>>

\* The key of an acceptance is new each time.
Accept(t) ==
    /\ tab[t].at = "accept" /\ tab[t].who # None
    /\ Requests(t, "accept", None, steps + 1)
    /\ Still /\ UNCHANGED <<server, jar, tab>>

NotNow(t) ==
    /\ tab[t].at = "accept"
    /\ Requests(t, "clear", None, 0)
    /\ Still /\ UNCHANGED <<server, jar, tab>>

\* The tab is closed or goes elsewhere; what it waited for is dropped.
Leave(t) ==
    /\ tab[t].at \notin {"blank", "gone", "joined", "home", "ready"}
    /\ Step
    /\ tab' = [tab EXCEPT ![t] = [Blank EXCEPT !.email = tab[t].email]]
    /\ call' = [call EXCEPT ![t] = NoCall]
    /\ left' = TRUE
    /\ UNCHANGED <<server, jar, mishaps>>

Send(t) ==
    /\ call[t].at = "asked"
    /\ call' = [call EXCEPT ![t] = Over([at |-> "sent", cookies |-> jar], @)]
    /\ UNCHANGED <<server, jar, tab, bounds>>

---------------------------------------------------------------------------
(***************************************************************************)
(* The routes.                                                             *)
(***************************************************************************)
Taken(t, kind) == call[t].at = "sent" /\ call[t].kind = kind

\* An answer has a code, a body and the cookies it sets.
Answer(t, code, body, sets) ==
    /\ call' = [call EXCEPT ![t] = Over([at |-> "answered", code |-> code, body |-> body,
                                         sets |-> sets], @)]
    /\ UNCHANGED <<jar, tab, bounds>>
Keep == <<>>
NoInvitation == [invite |-> None, back |-> FALSE]

MailedBeside(p, next) ==
    \E l \in Links :
       /\ link[l].status = "unused"
       /\ link' = [link EXCEPT ![l] = [status |-> "live", of |-> p, next |-> next]]

\* The person's earlier links are replaced by a new one.
Mailed(p, next) ==
    \E l \in Links :
       /\ link[l].status = "unused"
       /\ link' = [k \in Links |->
             IF k = l THEN [status |-> "live", of |-> p, next |-> next]
             ELSE IF link[k].of = p /\ link[k].status = "live"
             THEN [link[k] EXCEPT !.status = "replaced"] ELSE link[k]]

\* An address that has an account is answered the same and nothing is done.
ServeRegister(t) ==
    LET q == call[t].what IN
    /\ Taken(t, "register")
    /\ IF account[q.who].status = "absent"
       THEN /\ account' = [account EXCEPT ![q.who].status = "pending", ![q.who].plan = q.plan]
            /\ Mailed(q.who, q.plan = None)
       ELSE UNCHANGED <<account, link>>
    /\ Answer(t, "ok", None, Keep)
    /\ UNCHANGED <<workspace, member, invitation, logins>>

\* Only a link that carried the invitation makes the page ask for another
\* that does.
ServeResend(t) ==
    LET p == call[t].what IN
    /\ Taken(t, "resend")
    /\ IF account[p].status = "pending" THEN Mailed(p, tab[t].invited) ELSE UNCHANGED link
    /\ Answer(t, "ok", None, Keep)
    /\ UNCHANGED <<account, workspace, member, invitation, logins>>

\* Whatever the outcome, the answer clears the intent.
ServeVerify(t) ==
    LET l == call[t].cookies.verify
        good == l # None /\ link[l].status = "live" IN
    /\ Taken(t, "verify")
    /\ IF good
       THEN /\ link' = [link EXCEPT ![l].status = "consumed"]
            /\ account' = [account EXCEPT ![link[l].of].status = "active"]
       ELSE UNCHANGED <<link, account>>
    /\ Answer(t, IF good THEN "ok" ELSE "refused", IF good THEN link[l].of ELSE None,
              [verify |-> None])
    /\ UNCHANGED <<workspace, member, invitation, logins>>

\* The session the browser had is revoked.  Who comes from an invitation goes
\* back to it while the return cookie lasts.
ServeLogin(t) ==
    LET p == call[t].what
        c == call[t].cookies
        k == issued + 1
        back == tab[t].invited /\ c.back
        now == Selected(p, None)
        next == CASE back            -> "accept"
                  [] Options(p) = {} -> "create"
                  [] now # None      -> "home"
                  [] OTHER           -> "switch" IN
    /\ Taken(t, "login")
    /\ IF account[p].status = "active"
       THEN /\ k \in Tokens
            /\ session' = [j \in Tokens |->
                  IF j = k THEN [of |-> p, active |-> now, live |-> TRUE]
                  ELSE IF j = c.session THEN [session[j] EXCEPT !.live = FALSE] ELSE session[j]]
            /\ issued' = k
            /\ Answer(t, "ok", next,
                      IF back THEN [session |-> k, back |-> FALSE] ELSE [session |-> k])
       ELSE Answer(t, "refused", None, Keep) /\ UNCHANGED <<session, issued>>
    /\ UNCHANGED <<rows, receipt>>

PlanOpen(p) == account[p].workspace = None

ServePlan(t) ==
    LET p == Who(call[t].cookies.session) IN
    /\ Taken(t, "plan")
    /\ IF p # None /\ PlanOpen(p)
       THEN /\ account' = [account EXCEPT ![p].plan = call[t].what]
            /\ Answer(t, "ok", None, Keep)
       ELSE Answer(t, "refused", None, Keep) /\ UNCHANGED account
    /\ UNCHANGED <<link, workspace, member, invitation, logins>>

EligibleAgain(p) == account[p].status = "active" /\ account[p].plan # None
Eligible(p) == account[p].status = "active" /\ account[p].workspace = None /\ account[p].plan # None

\* One transaction under the lock of the key and of the person's onboarding.
ServeCreate(t) ==
    LET q == call[t]
        c == q.cookies
        p == Who(c.session)
        old == {r \in receipt : r.op = "create" /\ r.by = p /\ r.key = q.key} IN
    /\ Taken(t, "create")
    /\ CASE p = None -> Answer(t, "refused", None, Keep) /\ UNCHANGED <<account, workspace, member, session, receipt>>
         [] p # None /\ old # {} ->
              /\ \E r \in old : Answer(t, IF r.name = q.what THEN "ok" ELSE "conflict", None, Keep)
              /\ UNCHANGED <<account, workspace, member, session, receipt>>
         [] p # None /\ old = {} /\ ~Eligible(p) ->
              Answer(t, "refused", None, Keep) /\ UNCHANGED <<account, workspace, member, session, receipt>>
         [] p # None /\ old = {} /\ Eligible(p) ->
              \E w \in Workspaces :
                /\ workspace[w].by = None
                /\ workspace' = [workspace EXCEPT ![w] = [by |-> p, plan |-> account[p].plan]]
                /\ member' = [member EXCEPT ![w][p] = "active"]
                /\ account' = [account EXCEPT ![p].workspace = w]
                /\ session' = [session EXCEPT ![c.session].active = w]
                /\ receipt' = receipt \cup {[op |-> "create", by |-> p, key |-> q.key,
                                             name |-> q.what, to |-> w]}
                /\ Answer(t, "ok", None, Keep)
    /\ UNCHANGED <<link, invitation, issued>>

\* The receipt is kept under the token the request came with, which a switch
\* replaces: who repeats it after a lost answer gets the new token.
ServeSwitch(t) ==
    LET q == call[t]
        c == q.cookies
        p == Who(c.session)
        old == {r \in receipt : r.op = "switch" /\ r.by = c.session /\ r.key = q.key}
        k == issued + 1 IN
    /\ Taken(t, "switch")
    /\ CASE old # {} ->
              /\ \E r \in old : Answer(t, "ok", None, [session |-> r.token])
              /\ UNCHANGED logins
         [] old = {} /\ p = None -> Answer(t, "refused", None, Keep) /\ UNCHANGED logins
         [] old = {} /\ p # None /\ q.what \notin Options(p) ->
              Answer(t, "gone", None, Keep) /\ UNCHANGED logins
         [] old = {} /\ p # None /\ q.what \in Options(p) ->
              /\ k \in Tokens
              /\ session' = [session EXCEPT ![c.session].live = FALSE,
                                            ![k] = [of |-> p, active |-> q.what, live |-> TRUE]]
              /\ issued' = k
              /\ receipt' = receipt \cup {[op |-> "switch", by |-> c.session, key |-> q.key,
                                           to |-> q.what, token |-> k]}
              /\ Answer(t, "ok", None, [session |-> k])
    /\ UNCHANGED rows

ServeOptions(t) ==
    LET k == call[t].cookies.session
        p == Who(k) IN
    /\ Taken(t, "options")
    /\ IF p = None THEN Answer(t, "refused", None, Keep) /\ UNCHANGED session
       ELSE /\ session' = [session EXCEPT ![k].active = Selected(p, @)]
            /\ Answer(t, "ok", Options(p) \ {Selected(p, session[k].active)}, Keep)
    /\ UNCHANGED <<rows, issued, receipt>>

SeatFree(w) == Cardinality({p \in People : member[w][p] = "active"}) < Seats[w]
OfAnybody(i, p) == TRUE
OfAddress(i, p) == invitation[i].of = p

\* The intent and the session of the moment decide what is accepted, not what
\* the page shows.  What was accepted before by the same person is answered
\* again as a success.
ServeAccept(t) ==
    LET c == call[t].cookies
        i == c.invite
        p == Who(c.session)
        row == invitation[i]
        code == CASE i = None                                         -> "ended"
                  [] p = None                                         -> "refused"
                  [] row.status = "accepted" /\ OfAddress(i, p)       -> "again"
                  [] row.status # "pending"                           -> "ended"
                  [] ~OfAddress(i, p) \/ account[p].status # "active" -> "ended"
                  [] member[row.to][p] # "active" /\ ~SeatFree(row.to) -> "refused"
                  [] OTHER                                            -> "ok" IN
    /\ Taken(t, "accept")
    /\ IF code = "ok"
       THEN /\ member' = [member EXCEPT ![row.to][p] = "active"]
            /\ invitation' = [invitation EXCEPT ![i].status = "accepted"]
       ELSE UNCHANGED <<member, invitation>>
    /\ Answer(t, IF code = "again" THEN "ok" ELSE code, IF i = None THEN None ELSE row.to,
              IF code = "refused" THEN Keep ELSE NoInvitation)
    /\ UNCHANGED <<account, link, workspace, logins>>

ServeClear(t) ==
    /\ Taken(t, "clear")
    /\ Answer(t, "ok", None, NoInvitation)
    /\ UNCHANGED server

Serve(t) == \/ ServeRegister(t) \/ ServeResend(t) \/ ServeVerify(t) \/ ServeLogin(t)
            \/ ServePlan(t) \/ ServeCreate(t) \/ ServeSwitch(t) \/ ServeOptions(t)
            \/ ServeAccept(t) \/ ServeClear(t)

---------------------------------------------------------------------------
(***************************************************************************)
(* The answers.  The browser stores the cookies, the page does the rest.   *)
(***************************************************************************)
Stored(t) == Over(call[t].sets, jar)
Returned(t, kinds) == call[t].at = "answered" /\ call[t].kind \in kinds
Done(t) == call' = [call EXCEPT ![t] = NoCall]
Fails(t) == call[t].code # "ok"

ReturnRegister(t) ==
    /\ Returned(t, {"register"})
    /\ LandsOnVerification(t, call[t].what.who, Stored(t))
    /\ UNCHANGED <<server, bounds>>

ReturnVerify(t) ==
    /\ Returned(t, {"verify"})
    /\ jar' = Stored(t)
    /\ tab' = [tab EXCEPT ![t].at = IF Fails(t) THEN "unverified" ELSE "verified",
                          ![t].shown = call[t].body]
    /\ Done(t)
    /\ UNCHANGED <<server, bounds>>

ReturnLogin(t) ==
    /\ Returned(t, {"login"})
    /\ Done(t)
    /\ IF Fails(t) THEN UNCHANGED <<jar, tab, session>>
       ELSE IF call[t].body = "accept" THEN LandsOnInvitation(t, Stored(t))
       ELSE Lands(t, call[t].body, Stored(t))
    /\ UNCHANGED <<rows, issued, receipt, bounds>>

\* What fails leaves the form as it is, its key included.
ReturnForm(t) ==
    /\ Returned(t, {"plan", "create"})
    /\ Done(t)
    /\ IF Fails(t) THEN UNCHANGED <<jar, tab, session>>
       ELSE Lands(t, IF call[t].kind = "plan" THEN "create" ELSE "ready", Stored(t))
    /\ UNCHANGED <<rows, issued, receipt, bounds>>

\* A workspace that is gone is followed by a look at those that are left.
ReturnSwitch(t) ==
    /\ Returned(t, {"switch"})
    /\ CASE call[t].code = "ok" -> Lands(t, "home", Stored(t)) /\ Done(t)
         [] call[t].code = "gone" ->
              /\ call' = [call EXCEPT ![t] = Asked("options", None, 0)]
              /\ UNCHANGED <<jar, tab, session>>
         [] OTHER -> Done(t) /\ UNCHANGED <<jar, tab, session>>
    /\ UNCHANGED <<rows, issued, receipt, bounds>>

ReturnOptions(t) ==
    /\ Returned(t, {"options"})
    /\ tab' = IF Fails(t) THEN tab ELSE [tab EXCEPT ![t].shown = call[t].body]
    /\ Done(t)
    /\ UNCHANGED <<server, jar, bounds>>

ReturnAccept(t) ==
    /\ Returned(t, {"accept"})
    /\ jar' = Stored(t)
    /\ tab' = IF Fails(t) THEN tab
              ELSE [tab EXCEPT ![t] = [Page(t, "joined") EXCEPT !.shown = call[t].body]]
    /\ Done(t)
    /\ UNCHANGED <<server, bounds>>

ReturnElse(t) ==
    /\ Returned(t, {"resend", "clear"})
    /\ jar' = Stored(t)
    /\ tab' = IF call[t].kind = "resend" THEN [tab EXCEPT ![t].at = "waiting"]
              ELSE [tab EXCEPT ![t] = Page(t, "blank")]
    /\ Done(t)
    /\ UNCHANGED <<server, bounds>>

Return(t) == \/ ReturnRegister(t) \/ ReturnVerify(t) \/ ReturnLogin(t) \/ ReturnForm(t)
             \/ ReturnSwitch(t) \/ ReturnOptions(t) \/ ReturnAccept(t) \/ ReturnElse(t)

\* The request or its answer is lost: the page stays, except that a link that
\* was not confirmed is called invalid and that leaving an invitation leaves it.
Lose(t) ==
    /\ Meanwhile /\ ~Idle(t)
    /\ Done(t)
    /\ tab' = CASE call[t].kind = "verify" -> [tab EXCEPT ![t].at = "unverified"]
                [] call[t].kind = "clear"  -> [tab EXCEPT ![t] = Page(t, "blank")]
                [] OTHER                   -> tab
    /\ UNCHANGED <<server, jar, steps, left>>

---------------------------------------------------------------------------
(* The others, and time: intents last fifteen minutes. *)

Revoke(i) ==
    /\ Meanwhile /\ invitation[i].status = "pending"
    /\ \E s \in {"revoked", "expired"} : invitation' = [invitation EXCEPT ![i].status = s]
    /\ UNCHANGED <<account, link, workspace, member, logins, browser, steps, left>>

RemoveMember(w, p) ==
    /\ Meanwhile /\ member[w][p] = "active" /\ workspace[w].by # p
    /\ member' = [member EXCEPT ![w][p] = "removed"]
    /\ UNCHANGED <<account, link, workspace, invitation, logins, browser, steps, left>>

IntentsLapse ==
    /\ Meanwhile /\ jar # [Empty EXCEPT !.session = jar.session]
    /\ jar' = [Empty EXCEPT !.session = jar.session]
    /\ UNCHANGED <<server, tab, call, steps, left>>

Next ==
    \/ \E t \in Tabs :
         \/ \E l \in Links : OpenVerification(t, l)
         \/ \E i \in Invitations : OpenInvitation(t, i)
         \/ \E p \in Visitors : Register(t, p) \/ Login(t, p)
         \/ \E name \in {1, 2} : Create(t, name)
         \/ \E w \in Workspaces : Switch(t, w)
         \/ Open(t) \/ Resend(t) \/ SavePlan(t) \/ ReloadOptions(t) \/ Accept(t)
         \/ NotNow(t) \/ Leave(t)
         \/ Send(t) \/ Serve(t) \/ Return(t) \/ Lose(t)
    \/ \E i \in Invitations : Revoke(i)
    \/ \E w \in Workspaces, p \in People : RemoveMember(w, p)
    \/ IntentsLapse

Spec == Init /\ [][Next]_vars

---------------------------------------------------------------------------
\* Type invariant: every variable keeps its type, an account has one live link
\* at most, and only who is signed in sees a page that needs it.
TypeOK ==
    /\ account \in [People -> Accounts] /\ link \in [Links -> LinkRows]
    /\ \A p \in People : Cardinality({l \in Links : link[l].of = p /\ link[l].status = "live"}) <= 1
    /\ workspace \in [Workspaces -> WorkspaceRows]
    /\ invitation \in [Invitations -> InvitationRows]
    /\ session \in [Tokens -> Sessions] /\ issued \in 0..MaxTokens
    /\ receipt \subseteq Receipts
    /\ jar \in Jars /\ jar.session <= issued
    /\ \A t \in Tabs : /\ tab[t].at \in Pages
                       /\ call[t].at \in {"idle", "asked", "sent", "answered"}
                       /\ tab[t].at \in {"ready", "switch", "create"} => tab[t].who # None

\* However often, in however many tabs and under whatever names the creation
\* is submitted and repeated, an account gets one workspace, with the plan
\* its onboarding ends with, and every receipt of the account names it.
OneCompanyWorkspace ==
    \A p \in People :
       /\ Owned(p) = {account[p].workspace} \ {None}
       /\ \A w \in Owned(p) : workspace[w].plan = account[p].plan
       /\ \A r \in receipt : r.op = "create" /\ r.by = p => r.to = account[p].workspace

\* Whoever sits at the browser and whatever links are opened in it, a person
\* belongs to a workspace by having created it or by an invitation to their
\* own address that was accepted.
JoinedByInvitation ==
    \A w \in Workspaces, p \in People :
       member[w][p] # "none" =>
          \/ workspace[w].by = p
          \/ \E i \in Invitations : /\ invitation[i].to = w /\ invitation[i].of = p
                                    /\ invitation[i].status = "accepted"

\* A switch replaces the session's token.  While the browser still has the
\* old one, the new one is alive and the tab that asked for the switch, unless
\* it was left, can still get it: it has the key of the switch, also while the
\* answer is on its way.
SwitchCanBeRepeated ==
    \A r \in receipt : r.op = "switch" /\ r.by = jar.session =>
       /\ session[r.token].live
       /\ left \/ \E t \in Tabs : tab[t].at = "switch" /\ tab[t].keys[r.to] = r.key
=============================================================================
