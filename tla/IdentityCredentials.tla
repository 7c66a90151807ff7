------------------------- MODULE IdentityCredentials -------------------------
(***************************************************************************)
(* The credentials of one account: its e-mail verification, its password,  *)
(* the links mailed for both, and its sessions (src/src/server/identity,   *)
(* src/src/server/security, src/src/server/account).                       *)
(*                                                                         *)
(* Requests run at the same time in READ COMMITTED transactions.  A        *)
(* request takes its locks one after the other, in the order of its        *)
(* statements (Plan), checks what it read under a lock, and takes effect   *)
(* when it commits.  A lock is a row, or the advisory lock "account".  A   *)
(* statement that updates several rows lists those it sees when it starts, *)
(* then waits for them; rows committed later are not in its list.          *)
(*                                                                         *)
(* The lifetimes of links and sessions, the window of recent               *)
(* authentication and rate limits only refuse requests, which Abandon      *)
(* covers.                                                                 *)
(***************************************************************************)
EXTENDS Naturals, Sequences, FiniteSets

CONSTANTS
    Passwords, FirstPassword,
    Links,      \* tokens with purpose email_verification; FirstLink was mailed
    FirstLink,  \* at the registration
    Resets,     \* tokens with purpose password_reset
    Sessions,
    Requests,   \* requests the servers work on at the same time
    Outdated    \* the first hash was made with older Argon2 parameters


VARIABLES
    user,       \* row of users
    credential, \* row of identity_credentials: whose password, how hashed
    token,      \* token[t]: row of identity_tokens
    session,    \* session[s]: row of sessions
    request, step, held, listed, read, \* per request: progress and local reads
    uses,    \* uses[t]: how often token t took effect
    doomed   \* sessions that were logged out or revoked by their user

rows == <<user, credential, token, session>>
local == <<request, step, held, listed, read>>
history == <<uses, doomed>>
vars == <<rows, local, history>>

NoSession == "none"
Tokens == Links \cup Resets
Locks == {"account", "user", "credential"} \cup Tokens \cup Sessions

ASSUME CredentialsAssumption ==
    /\ FirstPassword \in Passwords
    /\ FirstLink \in Links
    /\ Outdated \in BOOLEAN
    /\ Links \cap Resets = {} /\ Tokens \cap Sessions = {}
    /\ NoSession \notin Sessions
    /\ {"account", "user", "credential"} \cap (Tokens \cup Sessions) = {}

Idle == [op |-> "idle"]
Inputs ==
    [op : {"login"}, password : Passwords, session : Sessions \cup {NoSession}]
    \cup [op : {"reset_request", "resend"}]
    \cup [op : {"verify"}, token : Links]
    \cup [op : {"reset"}, token : Resets, new : Passwords]
    \cup [op : {"change"}, session : Sessions, current : Passwords, new : Passwords]
    \cup [op : {"logout", "logout_all"}, session : Sessions]

NothingRead == [version |-> 0, outdated |-> FALSE]

Init == /\ user = [status |-> "pending_verification", version |-> 1]
        /\ credential = [password |-> FirstPassword, outdated |-> Outdated]
        /\ token = [t \in Tokens |-> IF t = FirstLink THEN "live" ELSE "absent"]
        /\ session = [s \in Sessions |-> [state |-> "absent", version |-> 0]]
        /\ request = [r \in Requests |-> Idle]
        /\ step = [r \in Requests |-> 0]
        /\ held = [r \in Requests |-> {}]
        /\ listed = [r \in Requests |-> {}]
        /\ read = [r \in Requests |-> NothingRead]
        /\ uses = [t \in Tokens |-> 0]
        /\ doomed = {}
-----------------------------------------------------------------------------
(* Variants with a plausible bug, for mutation checks. *)
VersionAtCommit(r) == user.version

UsableUntilReplaced(t) == token[t] \in {"live", "consumed"}

LocksKept(r) == /\ request' = [request EXCEPT ![r] = Idle]
                /\ step' = [step EXCEPT ![r] = 0]
                /\ UNCHANGED <<held, listed, read>>
-----------------------------------------------------------------------------
Live(S) == {t \in S : token[t] = "live"}

\* consumed_at is null and replaced_at is null and expires_at > now()
Usable(t) == token[t] = "live"

Pending == user.status = "pending_verification"

Issued == {s \in Sessions : session[s].state # "absent"}

\* A request with the session's cookie is let in.
Resolves(s) == /\ session[s].state = "live"
               /\ session[s].version = user.version
               /\ user.status = "active"

\* The locks an operation takes, in the order of its statements; "session"
\* and "token" stand for the row its input names, "listed" for those its next
\* update found.
Plan(op) ==
    CASE op = "login" -> <<"credential", "session">>
      [] op = "reset_request" -> <<"listed">>
      [] op = "resend" -> <<"user", "listed">>
      [] op = "verify" -> <<"token", "user">>
      [] op = "reset" -> <<"account", "token", "credential", "user", "listed">>
      [] op = "change" ->
           <<"account", "session", "listed", "credential", "user", "listed">>
      [] op = "logout" -> <<"session">>
      [] op = "logout_all" -> <<"user", "listed">>

Op(r) == request[r].op
Running(r) == Op(r) # "idle" /\ step[r] > 0
Done(r) == Running(r) /\ step[r] > Len(Plan(Op(r)))
NextLock(r) == Plan(Op(r))[step[r]]

\* Another variant with a plausible bug: passwords are checked without a lock.
WantedUnserialized(r) == LET lock == NextLock(r) IN
                         CASE lock = "listed" -> listed[r]
                           [] lock = "token" -> {request[r].token}
                           [] lock \in {"account", "session"} -> {}
                           [] OTHER -> {lock}

Wanted(r) == LET lock == NextLock(r) IN
             CASE lock = "listed" -> listed[r]
               [] lock = "token" -> {request[r].token}
               [] lock = "session" -> {request[r].session} \ {NoSession}
               [] OTHER -> {lock}

WaitsFor(r, q) == /\ r # q
                  /\ Running(r) /\ ~Done(r)
                  /\ Wanted(r) \cap held[q] # {}

\* What is checked before the transaction takes a lock.
Admitted(r) ==
    LET in == request[r] IN
    CASE in.op = "login" -> /\ in.password = credential.password
                            /\ user.status = "active"
      [] in.op = "reset_request" -> user.status = "active"
      [] in.op = "reset" -> Usable(in.token)
      [] OTHER -> TRUE

\* What is checked on the row just locked.
Passes(r) ==
    LET in == request[r] IN
    CASE NextLock(r) = "token" -> Usable(in.token)
      [] NextLock(r) = "user" /\ in.op = "resend" -> Pending
      [] NextLock(r) = "session" /\ in.op = "change" ->
           /\ session[in.session].state = "live"
           /\ user.status = "active"
           /\ in.current = credential.password
      [] OTHER -> TRUE

\* The rows the update after this lock finds.
ListedAfter(r) ==
    CASE NextLock(r) = "user" /\ Op(r) = "resend" -> Live(Links)
      [] NextLock(r) = "session" /\ Op(r) = "change" -> Live(Resets)
      [] NextLock(r) = "user" /\ Op(r) \notin {"verify", "resend"} -> Issued
      [] OTHER -> {}

\* The transaction ends and its locks are released.
Close(r) == /\ request' = [request EXCEPT ![r] = Idle]
            /\ step' = [step EXCEPT ![r] = 0]
            /\ held' = [held EXCEPT ![r] = {}]
            /\ listed' = [listed EXCEPT ![r] = {}]
            /\ read' = [read EXCEPT ![r] = NothingRead]

\* The version a new session gets: the one read together with the hash.
SessionVersion(r) == read[r].version

Replaced(r) == Live(held[r] \cap Tokens)
-----------------------------------------------------------------------------
\* Bound: a token or session is left for each request that makes one.
Room(op) ==
    LET free == CASE op = "login" -> Cardinality(Sessions \ Issued)
                  [] op = "reset_request" -> Cardinality({t \in Resets : token[t] = "absent"})
                  [] op = "resend" -> Cardinality({t \in Links : token[t] = "absent"})
    IN  op \in {"login", "reset_request", "resend"}
          => Cardinality({r \in Requests : Op(r) = op}) < free

\* Somebody calls a route; a cookie or a mailed link is what is sent along.
Send(r) ==
    /\ Op(r) = "idle"
    /\ \E in \in Inputs :
         /\ Room(in.op)
         /\ in.op \in {"change", "logout_all"} => Resolves(in.session)
         /\ in.op \in {"login", "logout"}
              => in.session \in Issued \cup {NoSession}
         /\ in.op \in {"verify", "reset"} => token[in.token] # "absent"
         /\ request' = [request EXCEPT ![r] = in]
    /\ UNCHANGED <<rows, history, step, held, listed, read>>

\* The reads before the first lock.
Begin(r) ==
    /\ Op(r) # "idle" /\ step[r] = 0
    /\ Admitted(r)
    /\ step' = [step EXCEPT ![r] = 1]
    /\ listed' = [listed EXCEPT ![r] =
                    IF Op(r) = "reset_request" THEN Live(Resets) ELSE {}]
    /\ read' = [read EXCEPT ![r] =
                  IF Op(r) = "login"
                  THEN [version |-> user.version, outdated |-> credential.outdated]
                  ELSE NothingRead]
    /\ UNCHANGED <<rows, history, request, held>>

\* The next lock is granted and the row read again under it.
Take(r) ==
    /\ Running(r) /\ ~Done(r)
    /\ \A q \in Requests : ~WaitsFor(r, q)
    /\ Passes(r)
    /\ held' = [held EXCEPT ![r] = @ \cup Wanted(r)]
    /\ listed' = [listed EXCEPT ![r] = ListedAfter(r)]
    /\ step' = [step EXCEPT ![r] = @ + 1]
    /\ UNCHANGED <<rows, history, request, read>>

\* A check fails: nothing is written.
Refuse(r) ==
    /\ \/ Op(r) # "idle" /\ step[r] = 0 /\ ~Admitted(r)
       \/ /\ Running(r) /\ ~Done(r)
          /\ \A q \in Requests : ~WaitsFor(r, q)
          /\ ~Passes(r)
    /\ Close(r)
    /\ UNCHANGED <<rows, history>>

\* The connection is lost or the server stops: the transaction rolls back.
Abandon(r) ==
    /\ Op(r) # "idle"
    /\ Close(r)
    /\ UNCHANGED <<rows, history>>

\* PostgreSQL ends one transaction of a cycle of waits.
Cycle(S) == /\ S # {}
            /\ \A q \in S : \E p \in S : WaitsFor(q, p)

BreakDeadlock(r) ==
    /\ \E S \in SUBSET Requests :
         /\ r \in S /\ Cycle(S)
         /\ \A Q \in SUBSET S : Cycle(Q) => Q = S
    /\ Close(r)
    /\ UNCHANGED <<rows, history>>
-----------------------------------------------------------------------------
Ends(r, op) == Done(r) /\ Op(r) = op /\ Close(r)

\* All sessions were revoked after this login had checked the password.
Overtaken(r) == read[r].version # user.version

\* loginPassword: a hash with older parameters is written anew, the session
\* of the browser is revoked, and a session is opened.
LogIn(r) ==
    /\ Ends(r, "login")
    /\ credential' = IF read[r].outdated
                     THEN [password |-> request[r].password, outdated |-> FALSE]
                     ELSE credential
    /\ \E s \in Sessions \ Issued :
         /\ session' = [q \in Sessions |->
              IF q = s THEN [state |-> "live", version |-> SessionVersion(r)]
              ELSE IF q = request[r].session
                   THEN [session[q] EXCEPT !.state = "revoked"]
                   ELSE session[q]]
         /\ doomed' = doomed \cup ({request[r].session} \ {NoSession})
                             \cup (IF Overtaken(r) THEN {s} ELSE {})
    /\ UNCHANGED <<user, token, uses>>

\* issueIdentityToken: the tokens found are replaced, a new one is mailed.
Issue(r, S) ==
    /\ \E t \in S :
         /\ token[t] = "absent"
         /\ token' = [q \in Tokens |-> IF q = t THEN "live"
                                        ELSE IF q \in Replaced(r) THEN "replaced"
                                        ELSE token[q]]
    /\ UNCHANGED <<user, credential, session, history>>

RequestPasswordReset(r) == Ends(r, "reset_request") /\ Issue(r, Resets)

ResendVerification(r) == Ends(r, "resend") /\ Issue(r, Links)

VerifyEmail(r) ==
    /\ Ends(r, "verify")
    /\ token' = [token EXCEPT ![request[r].token] = "consumed"]
    /\ user' = [user EXCEPT !.status = "active"]
    /\ uses' = [uses EXCEPT ![request[r].token] = @ + 1]
    /\ UNCHANGED <<credential, session, doomed>>

\* revokeAllSessions
RevokeAll(r) ==
    /\ user' = [user EXCEPT !.version = @ + 1]
    /\ session' = [s \in Sessions |->
                     IF s \in held[r] THEN [session[s] EXCEPT !.state = "revoked"]
                     ELSE session[s]]
    /\ doomed' = doomed \cup Issued

SetPassword(r) ==
    /\ credential' = [password |-> request[r].new, outdated |-> FALSE]
    /\ RevokeAll(r)

CompletePasswordReset(r) ==
    /\ Ends(r, "reset")
    /\ token' = [token EXCEPT ![request[r].token] = "consumed"]
    /\ uses' = [uses EXCEPT ![request[r].token] = @ + 1]
    /\ SetPassword(r)

ChangePassword(r) ==
    /\ Ends(r, "change")
    /\ token' = [t \in Tokens |-> IF t \in Replaced(r) THEN "replaced" ELSE token[t]]
    /\ SetPassword(r)
    /\ UNCHANGED uses

LogOut(r) ==
    /\ Ends(r, "logout")
    /\ session' = [session EXCEPT ![request[r].session].state = "revoked"]
    /\ doomed' = doomed \cup {request[r].session}
    /\ UNCHANGED <<user, credential, token, uses>>

LogOutAll(r) ==
    /\ Ends(r, "logout_all")
    /\ RevokeAll(r)
    /\ UNCHANGED <<credential, token, uses>>

Commit(r) ==
    \/ LogIn(r) \/ RequestPasswordReset(r) \/ ResendVerification(r)
    \/ VerifyEmail(r) \/ CompletePasswordReset(r) \/ ChangePassword(r)
    \/ LogOut(r) \/ LogOutAll(r)

Proceed(r) == Begin(r) \/ Take(r) \/ Refuse(r) \/ Commit(r)

Next == \E r \in Requests :
          Send(r) \/ Proceed(r) \/ Abandon(r) \/ BreakDeadlock(r)

Spec == Init /\ [][Next]_vars
-----------------------------------------------------------------------------
TypeOK ==
    /\ user \in [status : {"pending_verification", "active"}, version : Nat]
    /\ credential \in [password : Passwords, outdated : BOOLEAN]
    /\ token \in [Tokens -> {"absent", "live", "consumed", "replaced"}]
    /\ session \in [Sessions -> [state : {"absent", "live", "revoked"}, version : Nat]]
    /\ request \in [Requests -> Inputs \cup {Idle}]
    /\ step \in [Requests -> 0 .. 7]
    /\ held \in [Requests -> SUBSET Locks]
    /\ listed \in [Requests -> SUBSET (Tokens \cup Sessions)]
    /\ read \in [Requests -> [version : Nat, outdated : BOOLEAN]]
    /\ uses \in [Tokens -> Nat]
    /\ doomed \subseteq Sessions
    /\ \A r \in Requests : Op(r) = "idle" => step[r] = 0 /\ held[r] = {}

\* No session that its user logged out, or that a password change, a reset or
\* a logout of all devices ended, is let in again; nor is one that a login
\* opens after such an event with the password it had checked before it.
RevokedSessionsStayOut == \A s \in doomed : ~Resolves(s)

\* A mailed link works at most once, also for requests that arrive together;
\* and as long as the address is not verified there is exactly one link that
\* will verify it, and afterwards none, whatever resends and verifications race.
LinksWorkOnce ==
    /\ \A t \in Tokens : uses[t] <= 1
    /\ Cardinality(Live(Links)) = IF Pending THEN 1 ELSE 0

\* A password is changed only by who gave the password that is stored at the
\* commit, so of two changes that start from one password one is refused.
ChangesProveThePassword ==
    [][\A r \in Requests : Done(r) /\ Op(r) = "change" /\ credential' # credential
         => request[r].current = credential.password]_vars
=============================================================================
