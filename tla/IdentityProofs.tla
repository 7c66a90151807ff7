--------------------------- MODULE IdentityProofs ---------------------------
(***************************************************************************)
(* Proofs about IdentityCredentials, for any number of requests, links,    *)
(* sessions and passwords.                                                 *)
(*                                                                         *)
(* What a request read stays true while it holds the lock it read it       *)
(* under, because every commit that would change it holds the same lock    *)
(* and locks have one holder.  Footing says, operation by operation, what  *)
(* a request that got so far in its plan still knows.                      *)
(***************************************************************************)
EXTENDS IdentityCredentials, FiniteSetTheorems, TLAPS

OneHolder == \A r, q \in Requests : r # q => held[r] \cap held[q] = {}

\* Links and resets: the row is locked and has not been used.
Unused(r) == request[r].token \in held[r] /\ token[request[r].token] = "live"

Footing(r) ==
    /\ Op(r) = "idle" => listed[r] = {}
    /\ Op(r) = "verify" => /\ step[r] > 1 => Unused(r)
                           /\ step[r] > 2 => "user" \in held[r]
    /\ Op(r) = "reset" => /\ step[r] > 1 => "account" \in held[r]
                          /\ step[r] > 2 => Unused(r)
    /\ Op(r) = "resend" => /\ step[r] > 1 => "user" \in held[r] /\ Pending
                           /\ step[r] = 2 => listed[r] = Live(Links)
                           /\ step[r] > 2 => Live(Links) \subseteq held[r]
    /\ Op(r) = "change" => /\ step[r] > 1 => "account" \in held[r]
                           /\ step[r] > 2 /\ ~Outdated
                                => request[r].current = credential.password
    /\ Op(r) \in {"reset_request", "change"} => (held[r] \cup listed[r]) \cap Links = {}
    /\ Op(r) \in {"login", "logout"} => request[r].session \in Issued \cup {NoSession}
    /\ read[r].version <= user.version
    /\ ~Outdated => ~read[r].outdated

HashIsCurrent == ~Outdated => ~credential.outdated

VersionsGrow == \A s \in Sessions : session[s].version <= user.version

DoomedAreOld ==
    \A s \in doomed : /\ session[s].state # "absent"
                      /\ session[s].state = "revoked" \/ session[s].version < user.version

UsedAreConsumed ==
    \A t \in Tokens : uses[t] <= 1 /\ (token[t] # "consumed" => uses[t] = 0)

OneLink == IF Pending THEN \E l \in Links : Live(Links) = {l} ELSE Live(Links) = {}

RowsTyped ==
    /\ user \in [status : {"pending_verification", "active"}, version : Nat]
    /\ credential \in [password : Passwords, outdated : BOOLEAN]
    /\ token \in [Tokens -> {"absent", "live", "consumed", "replaced"}]
    /\ session \in [Sessions -> [state : {"absent", "live", "revoked"}, version : Nat]]
    /\ uses \in [Tokens -> Nat]
    /\ doomed \subseteq Sessions

LocalTyped ==
    /\ request \in [Requests -> Inputs \cup {Idle}]
    /\ step \in [Requests -> 0 .. 7]
    /\ held \in [Requests -> SUBSET Locks]
    /\ listed \in [Requests -> SUBSET (Tokens \cup Sessions)]
    /\ read \in [Requests -> [version : Nat, outdated : BOOLEAN]]
    /\ \A r \in Requests : Op(r) = "idle" => step[r] = 0 /\ held[r] = {}

IInv == /\ TypeOK
        /\ OneHolder
        /\ \A r \in Requests : Footing(r)
        /\ HashIsCurrent /\ VersionsGrow /\ DoomedAreOld
        /\ UsedAreConsumed /\ OneLink
-----------------------------------------------------------------------------
LEMMA InputParts ==
    ASSUME NEW in \in Inputs
    PROVE  /\ in.op \in {"login", "reset_request", "resend", "verify", "reset", "change",
                         "logout", "logout_all"}
           /\ in.op = "login" => /\ in.password \in Passwords
                                 /\ in.session \in Sessions \cup {NoSession}
           /\ in.op \in {"verify", "reset"} => in.token \in Tokens
           /\ in.op = "verify" => in.token \in Links
           /\ in.op = "reset" => in.token \in Resets
           /\ in.op \in {"reset", "change"} => in.new \in Passwords
           /\ in.op \in {"change", "logout", "logout_all"} => in.session \in Sessions
  BY DEF Inputs, Tokens

LEMMA Busy ==
    ASSUME TypeOK, NEW r \in Requests, Op(r) # "idle"
    PROVE  request[r] \in Inputs
<1>1. Idle.op = "idle"
  BY DEF Idle
<1> QED BY <1>1 DEF TypeOK, Op

LEMMA Plans ==
    /\ Plan("login") = <<"credential", "session">>
    /\ Plan("reset_request") = <<"listed">>
    /\ Plan("resend") = <<"user", "listed">>
    /\ Plan("verify") = <<"token", "user">>
    /\ Plan("reset") = <<"account", "token", "credential", "user", "listed">>
    /\ Plan("change") = <<"account", "session", "listed", "credential", "user", "listed">>
    /\ Plan("logout") = <<"session">>
    /\ Plan("logout_all") = <<"user", "listed">>
  BY DEF Plan

\* Where a request stands that has not all its locks.
LEMMA NextLocks ==
    ASSUME TypeOK, NEW r \in Requests, Running(r), ~Done(r)
    PROVE  /\ step[r] \in 1 .. 6
           /\ Op(r) = "login" => \/ step[r] = 1 /\ NextLock(r) = "credential"
                                 \/ step[r] = 2 /\ NextLock(r) = "session"
           /\ Op(r) = "reset_request" => step[r] = 1 /\ NextLock(r) = "listed"
           /\ Op(r) = "resend" => \/ step[r] = 1 /\ NextLock(r) = "user"
                                  \/ step[r] = 2 /\ NextLock(r) = "listed"
           /\ Op(r) = "verify" => \/ step[r] = 1 /\ NextLock(r) = "token"
                                  \/ step[r] = 2 /\ NextLock(r) = "user"
           /\ Op(r) = "reset" => \/ step[r] = 1 /\ NextLock(r) = "account"
                                 \/ step[r] = 2 /\ NextLock(r) = "token"
                                 \/ step[r] = 3 /\ NextLock(r) = "credential"
                                 \/ step[r] = 4 /\ NextLock(r) = "user"
                                 \/ step[r] = 5 /\ NextLock(r) = "listed"
           /\ Op(r) = "change" => \/ step[r] = 1 /\ NextLock(r) = "account"
                                  \/ step[r] = 2 /\ NextLock(r) = "session"
                                  \/ step[r] = 3 /\ NextLock(r) = "listed"
                                  \/ step[r] = 4 /\ NextLock(r) = "credential"
                                  \/ step[r] = 5 /\ NextLock(r) = "user"
                                  \/ step[r] = 6 /\ NextLock(r) = "listed"
           /\ Op(r) = "logout" => step[r] = 1 /\ NextLock(r) = "session"
           /\ Op(r) = "logout_all" => \/ step[r] = 1 /\ NextLock(r) = "user"
                                      \/ step[r] = 2 /\ NextLock(r) = "listed"
<1> DEFINE n == step[r]
<1>1. n \in 0 .. 7 /\ n > 0
  BY DEF TypeOK, Running
<1>2. Op(r) \in {"login", "reset_request", "resend", "verify", "reset", "change",
                 "logout", "logout_all"}
  BY Busy, InputParts DEF Running, Op
<1>3. n <= Len(Plan(Op(r))) /\ NextLock(r) = Plan(Op(r))[n]
  <2>1. Len(Plan(Op(r))) \in Nat
    BY <1>2, Plans
  <2> QED BY <1>1, <2>1 DEF Done, NextLock
<1> HIDE DEF n
<1>4. CASE Op(r) = "login"
  BY <1>1, <1>3, <1>4, Plans DEF n
<1>5. CASE Op(r) = "reset_request"
  BY <1>1, <1>3, <1>5, Plans DEF n
<1>6. CASE Op(r) = "resend"
  BY <1>1, <1>3, <1>6, Plans DEF n
<1>7. CASE Op(r) = "verify"
  BY <1>1, <1>3, <1>7, Plans DEF n
<1>8. CASE Op(r) = "reset"
  BY <1>1, <1>3, <1>8, Plans DEF n
<1>9. CASE Op(r) = "change"
  BY <1>1, <1>3, <1>9, Plans DEF n
<1>10. CASE Op(r) = "logout"
  BY <1>1, <1>3, <1>10, Plans DEF n
<1>11. CASE Op(r) = "logout_all"
  BY <1>1, <1>3, <1>11, Plans DEF n
<1> QED BY <1>2, <1>4, <1>5, <1>6, <1>7, <1>8, <1>9, <1>10, <1>11

\* A request that is about to commit has come to the end of its plan.
LEMMA AtTheEnd ==
    ASSUME TypeOK, NEW r \in Requests, Done(r)
    PROVE  /\ request[r] \in Inputs /\ step[r] \in 1 .. 7
           /\ Op(r) \in {"resend", "verify"} => step[r] > 2
           /\ Op(r) \in {"reset"} => step[r] > 5
           /\ Op(r) \in {"change"} => step[r] > 6
<1>1. request[r] \in Inputs /\ step[r] \in 1 .. 7
  BY Busy DEF Done, Running, TypeOK
<1>2. step[r] > Len(Plan(Op(r)))
  BY DEF Done
<1>3. Len(Plan("resend")) = 2 /\ Len(Plan("verify")) = 2 /\ Len(Plan("reset")) = 5
      /\ Len(Plan("change")) = 6
  BY Plans
<1> QED BY <1>1, <1>2, <1>3

LEMMA TypeParts == TypeOK <=> RowsTyped /\ LocalTyped
  BY DEF TypeOK, RowsTyped, LocalTyped
-----------------------------------------------------------------------------
(* The steps that write no rows. *)

\* Nothing of request q changes.
Same(q) == /\ request'[q] = request[q] /\ step'[q] = step[q] /\ held'[q] = held[q]
           /\ listed'[q] = listed[q] /\ read'[q] = read[q]

LEMMA FootingKept ==
    ASSUME UNCHANGED rows, NEW q \in Requests, Same(q), Footing(q)
    PROVE  Footing(q)'
  BY DEF rows, Same, Footing, Op, Unused, Live, Pending, Issued

\* What holds between the requests after a step of r.
LocalInv == LocalTyped /\ OneHolder /\ \A q \in Requests : Footing(q)

LEMMA SendStep ==
    ASSUME IInv, NEW r \in Requests, Send(r)
    PROVE  LocalInv'
<1>1. PICK in \in Inputs :
         /\ in.op \in {"login", "logout"} => in.session \in Issued \cup {NoSession}
         /\ request' = [request EXCEPT ![r] = in]
  BY DEF Send
<1>2. /\ Op(r) = "idle" /\ UNCHANGED rows
      /\ UNCHANGED <<step, held, listed, read>>
  BY DEF Send
<1>3. step[r] = 0 /\ held[r] = {} /\ listed[r] = {}
  BY <1>2 DEF IInv, TypeOK, Footing
<1>4. request'[r] = in
  BY <1>1 DEF IInv, TypeOK
<1>5. Footing(r)'
  BY <1>1, <1>2, <1>3, <1>4 DEF IInv, Footing, Op, rows, Issued
<1>6. ASSUME NEW q \in Requests, q # r
      PROVE  Footing(q)'
  BY <1>1, <1>2, <1>6, FootingKept DEF IInv, Same, TypeOK
<1>7. LocalTyped'
  BY <1>1, <1>2, <1>3 DEF IInv, LocalTyped, TypeOK, Op
<1> QED BY <1>2, <1>5, <1>6, <1>7 DEF LocalInv, IInv, OneHolder

LEMMA BeginStep ==
    ASSUME IInv, NEW r \in Requests, Begin(r)
    PROVE  LocalInv'
<1> DEFINE rows0 == IF Op(r) = "reset_request" THEN Live(Resets) ELSE {}
           read0 == IF Op(r) = "login"
                    THEN [version |-> user.version, outdated |-> credential.outdated]
                    ELSE NothingRead
<1>1. /\ step' = [step EXCEPT ![r] = 1] /\ listed' = [listed EXCEPT ![r] = rows0]
      /\ read' = [read EXCEPT ![r] = read0]
      /\ Op(r) # "idle" /\ UNCHANGED <<request, held>> /\ UNCHANGED rows
  BY DEF Begin
<1>2. rows0 \subseteq Resets /\ rows0 \cap Links = {}
  BY CredentialsAssumption DEF Live
<1>3. /\ read0 \in [version : Nat, outdated : BOOLEAN]
      /\ read0.version <= user.version /\ (~Outdated => ~read0.outdated)
  BY DEF IInv, TypeOK, NothingRead, HashIsCurrent
<1> HIDE DEF rows0, read0
<1>4. LocalTyped'
  BY <1>1, <1>2, <1>3 DEF IInv, LocalTyped, TypeOK, Op, Tokens
<1>5. Footing(r)'
  <2>1. step'[r] = 1 /\ listed'[r] = rows0 /\ read'[r] = read0
    BY <1>1 DEF IInv, TypeOK
  <2> QED BY <1>1, <1>2, <1>3, <2>1 DEF IInv, Footing, Op, rows, Issued
<1>6. ASSUME NEW q \in Requests, q # r
      PROVE  Footing(q)'
  BY <1>1, <1>6, FootingKept DEF IInv, Same, TypeOK
<1> QED BY <1>1, <1>4, <1>5, <1>6 DEF LocalInv, IInv, OneHolder

LEMMA WantedLocks ==
    ASSUME TypeOK, NEW r \in Requests, Running(r), ~Done(r)
    PROVE  /\ Wanted(r) \subseteq Locks
           /\ NextLock(r) = "listed" => Wanted(r) = listed[r]
           /\ NextLock(r) = "token" => Wanted(r) = {request[r].token}
           /\ NextLock(r) = "session" => Wanted(r) = {request[r].session} \ {NoSession}
           /\ NextLock(r) \in {"account", "user", "credential"} => Wanted(r) = {NextLock(r)}
<1>1. request[r] \in Inputs
  BY Busy DEF Running
<1>2. NextLock(r) \in {"listed", "token", "session", "account", "user", "credential"}
  BY <1>1, NextLocks, InputParts DEF Op
<1>3. NextLock(r) = "token" => request[r].token \in Tokens
  BY <1>1, NextLocks, InputParts DEF Op
<1>4. NextLock(r) = "session" => request[r].session \in Sessions \cup {NoSession}
  BY <1>1, NextLocks, InputParts DEF Op
<1>5. listed[r] \subseteq Locks
  BY DEF TypeOK, Locks
<1>6. /\ NextLock(r) = "listed" => Wanted(r) = listed[r]
      /\ NextLock(r) = "token" => Wanted(r) = {request[r].token}
      /\ NextLock(r) = "session" => Wanted(r) = {request[r].session} \ {NoSession}
      /\ NextLock(r) \in {"account", "user", "credential"} => Wanted(r) = {NextLock(r)}
  BY DEF Wanted
<1> QED BY <1>2, <1>3, <1>4, <1>5, <1>6 DEF Locks

LEMMA TakeFooting ==
    ASSUME IInv, NEW r \in Requests, Take(r)
    PROVE  Footing(r)'
<1>1. /\ Running(r) /\ ~Done(r) /\ Passes(r) /\ UNCHANGED <<request, read>>
      /\ UNCHANGED rows
  BY DEF Take
<1>2. /\ held'[r] = held[r] \cup Wanted(r) /\ listed'[r] = ListedAfter(r)
      /\ step'[r] = step[r] + 1
  BY DEF Take, IInv, TypeOK
<1>3. request[r] \in Inputs /\ Op(r)' = Op(r) /\ Op(r) # "idle"
  BY <1>1, Busy DEF Running, Op, IInv
<1>4. TypeOK /\ Footing(r) /\ step[r] \in 1 .. 6
  BY <1>1, NextLocks DEF IInv
<1>5. (Op(r) = "idle")' => listed'[r] = {}
  BY <1>3
<1>6. ASSUME Op(r) = "verify"
      PROVE  /\ step'[r] > 1 => Unused(r)'
             /\ step'[r] > 2 => "user" \in held'[r]
  <2>1. CASE step[r] = 1 /\ NextLock(r) = "token"
    BY <1>1, <1>2, <1>4, <2>1, WantedLocks DEF Passes, Usable, Unused, rows
  <2>2. CASE step[r] = 2 /\ NextLock(r) = "user"
    BY <1>1, <1>2, <1>4, <1>6, <2>2, WantedLocks DEF Footing, Unused, rows
  <2> QED BY <1>1, <1>4, <1>6, <2>1, <2>2, NextLocks
<1>7. ASSUME Op(r) = "reset"
      PROVE  /\ step'[r] > 1 => "account" \in held'[r]
             /\ step'[r] > 2 => Unused(r)'
  <2>1. CASE step[r] = 1 /\ NextLock(r) = "account"
    BY <1>1, <1>2, <1>4, <2>1, WantedLocks
  <2>2. CASE step[r] = 2 /\ NextLock(r) = "token"
    BY <1>1, <1>2, <1>4, <1>7, <2>2, WantedLocks DEF Footing, Passes, Usable, Unused, rows
  <2>3. CASE step[r] > 2
    BY <1>1, <1>2, <1>4, <1>7, <2>3 DEF Footing, Unused, rows
  <2> QED BY <1>1, <1>4, <1>7, <2>1, <2>2, <2>3, NextLocks
<1>8. ASSUME Op(r) = "resend"
      PROVE  /\ step'[r] > 1 => "user" \in held'[r] /\ Pending'
             /\ step'[r] = 2 => listed'[r] = Live(Links)'
             /\ step'[r] > 2 => Live(Links)' \subseteq held'[r]
  <2>1. CASE step[r] = 1 /\ NextLock(r) = "user"
    <3>1. Pending /\ ListedAfter(r) = Live(Links)
      BY <1>1, <1>8, <2>1 DEF Passes, Op, ListedAfter
    <3> QED BY <1>1, <1>2, <1>4, <2>1, <3>1, WantedLocks DEF rows, Pending, Live
  <2>2. CASE step[r] = 2 /\ NextLock(r) = "listed"
    BY <1>1, <1>2, <1>4, <1>8, <2>2, WantedLocks DEF Footing, rows, Pending, Live
  <2> QED BY <1>1, <1>4, <1>8, <2>1, <2>2, NextLocks
<1>9. ASSUME Op(r) = "change"
      PROVE  /\ step'[r] > 1 => "account" \in held'[r]
             /\ step'[r] > 2 /\ ~Outdated => request'[r].current = credential'.password
  <2>1. CASE step[r] = 1 /\ NextLock(r) = "account"
    BY <1>1, <1>2, <1>4, <2>1, WantedLocks
  <2>2. CASE step[r] = 2 /\ NextLock(r) = "session"
    <3>1. request[r].current = credential.password
      BY <1>1, <1>9, <2>2 DEF Passes, Op
    <3> QED BY <1>1, <1>2, <1>4, <1>9, <2>2, <3>1 DEF Footing, rows
  <2>3. CASE step[r] > 2
    BY <1>1, <1>2, <1>4, <1>9, <2>3 DEF Footing, rows
  <2> QED BY <1>1, <1>4, <1>9, <2>1, <2>2, <2>3, NextLocks
<1>10. ASSUME Op(r) \in {"reset_request", "change"}
       PROVE  (held'[r] \cup listed'[r]) \cap Links = {}
  <2>1. (held[r] \cup listed[r]) \cap Links = {}
    BY <1>4, <1>10 DEF Footing
  <2>2. Wanted(r) \cap Links = {}
    <3>1. Op(r) = "change" => request[r].session \in Sessions
      BY <1>3, InputParts DEF Op
    <3>2. \/ NextLock(r) \in {"listed", "account", "user", "credential"}
          \/ NextLock(r) = "session" /\ Op(r) = "change"
      <4>1. CASE Op(r) = "change"
        BY <1>1, <1>4, <4>1, NextLocks
      <4>2. CASE Op(r) = "reset_request"
        <5>1. NextLock(r) = "listed"
          BY <1>1, <1>4, <4>2, NextLocks
        <5> QED BY <5>1
      <4> QED BY <1>10, <4>1, <4>2
    <3>3. Links \subseteq Tokens
      BY DEF Tokens
    <3> QED BY <1>1, <1>4, <2>1, <3>1, <3>2, <3>3, WantedLocks, CredentialsAssumption
  <2>3. ListedAfter(r) \cap Links = {}
    <3>1. ListedAfter(r) \subseteq Resets \cup Sessions
      BY <1>10 DEF ListedAfter, Live, Issued
    <3> QED BY <3>1, CredentialsAssumption DEF Tokens
  <2> QED BY <1>2, <2>1, <2>2, <2>3
<1>11. Op(r) \in {"login", "logout"} => request'[r].session \in (Issued \cup {NoSession})'
  BY <1>1, <1>4 DEF Footing, rows, Issued
<1>12. read'[r].version <= user'.version /\ (~Outdated => ~read'[r].outdated)
  BY <1>1, <1>4 DEF Footing, rows
<1> QED
  BY <1>1, <1>3, <1>5, <1>6, <1>7, <1>8, <1>9, <1>10, <1>11, <1>12 DEF Footing

LEMMA TakeStep ==
    ASSUME IInv, NEW r \in Requests, Take(r)
    PROVE  LocalInv'
<1>1. /\ Running(r) /\ ~Done(r) /\ UNCHANGED <<request, read>> /\ UNCHANGED rows
      /\ held' = [held EXCEPT ![r] = @ \cup Wanted(r)]
      /\ listed' = [listed EXCEPT ![r] = ListedAfter(r)]
      /\ step' = [step EXCEPT ![r] = @ + 1]
  BY DEF Take
<1>2. TypeOK /\ step[r] \in 1 .. 6 /\ Wanted(r) \subseteq Locks
  BY <1>1, NextLocks, WantedLocks DEF IInv
<1>3. ListedAfter(r) \subseteq Tokens \cup Sessions
  BY DEF ListedAfter, Live, Issued, Tokens
<1>4. LocalTyped'
  <2>1. step' \in [Requests -> 0 .. 7]
    BY <1>1, <1>2 DEF TypeOK
  <2>2. held' \in [Requests -> SUBSET Locks]
    BY <1>1, <1>2 DEF TypeOK
  <2>3. listed' \in [Requests -> SUBSET (Tokens \cup Sessions)]
    BY <1>1, <1>2, <1>3 DEF TypeOK
  <2>4. ASSUME NEW q \in Requests, Op(q)' = "idle"
        PROVE  step'[q] = 0 /\ held'[q] = {}
    BY <1>1, <1>2, <2>4 DEF TypeOK, Op, Running
  <2> QED BY <1>1, <1>2, <2>1, <2>2, <2>3, <2>4 DEF LocalTyped, TypeOK
<1>5. OneHolder'
  <2>1. \A q \in Requests : q # r => Wanted(r) \cap held[q] = {}
    BY <1>1 DEF Take, WaitsFor
  <2> QED BY <1>1, <1>2, <2>1 DEF IInv, OneHolder, TypeOK
<1>6. ASSUME NEW q \in Requests, q # r
      PROVE  Footing(q)'
  BY <1>1, <1>2, <1>6, FootingKept DEF IInv, Same, TypeOK
<1> QED BY <1>4, <1>5, <1>6, TakeFooting DEF LocalInv

\* After its end a request holds and knows nothing; the others are as before.
LEMMA CloseStep ==
    ASSUME IInv, NEW r \in Requests, Close(r)
    PROVE  /\ LocalTyped' /\ OneHolder'
           /\ user' \in [status : {"pending_verification", "active"}, version : Nat]
                => Footing(r)'
           /\ \A q \in Requests \ {r} : Same(q)
<1>1. Idle.op = "idle" /\ NothingRead \in [version : Nat, outdated : BOOLEAN]
      /\ NothingRead.version = 0 /\ ~NothingRead.outdated
  BY DEF Idle, NothingRead
<1> USE DEF IInv, TypeOK, Close
<1>2. request'[r] = Idle /\ step'[r] = 0 /\ held'[r] = {} /\ listed'[r] = {}
      /\ read'[r] = NothingRead
  OBVIOUS
<1>3. \A q \in Requests \ {r} : Same(q)
  BY DEF Same
<1>4. LocalTyped'
  <2>1. /\ request' \in [Requests -> Inputs \cup {Idle}]
        /\ step' \in [Requests -> 0 .. 7]
        /\ held' \in [Requests -> SUBSET Locks]
        /\ listed' \in [Requests -> SUBSET (Tokens \cup Sessions)]
        /\ read' \in [Requests -> [version : Nat, outdated : BOOLEAN]]
    BY <1>1
  <2>2. ASSUME NEW q \in Requests, Op(q)' = "idle"
        PROVE  step'[q] = 0 /\ held'[q] = {}
    BY <1>2, <1>3, <2>2 DEF Same, Op
  <2> QED BY <2>1, <2>2 DEF LocalTyped
<1>5. OneHolder'
  BY <1>2, <1>3 DEF OneHolder, Same
<1>6. ASSUME user' \in [status : {"pending_verification", "active"}, version : Nat]
      PROVE  Footing(r)'
  BY <1>1, <1>2, <1>6 DEF Footing, Op
<1> QED BY <1>3, <1>4, <1>5, <1>6

LEMMA QuietStep ==
    ASSUME IInv, NEW r \in Requests, Close(r), UNCHANGED rows
    PROVE  LocalInv'
<1>1. \A q \in Requests \ {r} : Footing(q)'
  BY CloseStep, FootingKept DEF IInv
<1>2. Footing(r)'
  BY CloseStep DEF IInv, TypeOK, rows
<1> QED BY <1>1, <1>2, CloseStep DEF LocalInv
-----------------------------------------------------------------------------
(* The commits. *)

\* What a commit may change, given the locks that are held.
Covered(r) ==
    /\ \A t \in Tokens : token'[t] # token[t] =>
         \/ token[t] = "absent" /\ token'[t] = "live"
         \/ token[t] = "live" /\ t \in held[r]
    /\ \A l \in Links : token'[l] # token[l] => "user" \in held[r]
    /\ user'.status # user.status => "user" \in held[r]
    /\ ~Outdated /\ credential'.password # credential.password => "account" \in held[r]
    /\ user'.version >= user.version
    /\ Issued \subseteq Issued'

LEMMA FootingCovered ==
    ASSUME IInv, NEW r \in Requests, Covered(r), RowsTyped',
           NEW q \in Requests, q # r, Same(q)
    PROVE  Footing(q)'
<1> USE DEF Same
<1>1. Footing(q) /\ held[r] \cap held[q] = {} /\ TypeOK
  BY DEF IInv, OneHolder
<1>2. Op(q)' = Op(q)
  BY DEF Op
<1>3. ASSUME Unused(q), request[q].token \in Tokens
      PROVE  Unused(q)'
  BY <1>1, <1>3 DEF Unused, Covered
<1>4. request[q].token \in Tokens \/ Op(q) \notin {"verify", "reset"}
  <2>1. CASE Op(q) \in {"verify", "reset"}
    BY <1>1, <2>1, Busy, InputParts DEF Op
  <2> QED BY <2>1
<1>5. ASSUME "user" \in held[q]
      PROVE  /\ Pending' = Pending
             /\ Live(Links)' = Live(Links)
  BY <1>1, <1>5 DEF Covered, Pending, Live
<1>6. "account" \in held[q] /\ ~Outdated => credential'.password = credential.password
  BY <1>1 DEF Covered
<1>7. read[q].version <= user'.version
  BY <1>1 DEF Covered, Footing, TypeOK, RowsTyped
<1>8. Op(q) = "verify" => /\ step[q] > 1 => Unused(q)'
                          /\ step[q] > 2 => "user" \in held[q]
  BY <1>1, <1>3, <1>4 DEF Footing
<1>9. step[q] \in 0 .. 7
  BY <1>1 DEF TypeOK
<1>10. Op(q) = "reset" => /\ step[q] > 1 => "account" \in held[q]
                          /\ step[q] > 2 => Unused(q)'
  BY <1>1, <1>3, <1>4 DEF Footing
<1>11. Op(q) = "resend" => /\ step[q] > 1 => "user" \in held[q] /\ Pending'
                           /\ step[q] = 2 => listed[q] = Live(Links)'
                           /\ step[q] > 2 => Live(Links)' \subseteq held[q]
  BY <1>1, <1>5, <1>9 DEF Footing
<1>12. Op(q) = "change" => /\ step[q] > 1 => "account" \in held[q]
                           /\ step[q] > 2 /\ ~Outdated
                                => request[q].current = credential'.password
  BY <1>1, <1>6, <1>9 DEF Footing
<1>13. Op(q) \in {"login", "logout"} => request[q].session \in (Issued \cup {NoSession})'
  BY <1>1 DEF Footing, Covered
<1> QED
  BY <1>1, <1>2, <1>7, <1>8, <1>10, <1>11, <1>12, <1>13 DEF Footing

\* The invariants of the rows.
RowsInv == HashIsCurrent /\ VersionsGrow /\ DoomedAreOld /\ UsedAreConsumed /\ OneLink

LEMMA DoneFacts ==
    ASSUME IInv, NEW r \in Requests, NEW op, Ends(r, op)
    PROVE  /\ Close(r) /\ Op(r) = op /\ request[r] \in Inputs /\ request[r].op = op
           /\ Footing(r)
           /\ op = "resend" => "user" \in held[r] /\ Pending /\ Live(Links) \subseteq held[r]
           /\ op = "verify" => Unused(r) /\ "user" \in held[r] /\ request[r].token \in Links
           /\ op = "reset" => /\ Unused(r) /\ "account" \in held[r]
                              /\ request[r].token \in Resets
                              /\ request[r].new \in Passwords
           /\ op = "change" => /\ "account" \in held[r] /\ request[r].new \in Passwords
                               /\ ~Outdated => request[r].current = credential.password
           /\ op \in {"reset_request", "change"} => held[r] \cap Links = {}
<1>1. Close(r) /\ Op(r) = op /\ Done(r) /\ TypeOK /\ Footing(r)
  BY DEF Ends, IInv
<1>2. request[r] \in Inputs /\ request[r].op = op
  BY <1>1, AtTheEnd DEF Op
<1>3. op = "verify" => request[r].token \in Links
  BY <1>2, InputParts
<1>4. op = "reset" => request[r].token \in Resets /\ request[r].new \in Passwords
  BY <1>2, InputParts
<1>5. op = "change" => request[r].new \in Passwords
  BY <1>2, InputParts
<1>6. step[r] \in 1 .. 7
  BY <1>1, AtTheEnd
<1>7. op \in {"resend", "verify"} => step[r] > 2
  BY <1>1, AtTheEnd
<1>8. op = "reset" => step[r] > 5
  BY <1>1, AtTheEnd
<1>9. op = "change" => step[r] > 6
  BY <1>1, AtTheEnd
<1>10. op = "resend" => "user" \in held[r] /\ Pending /\ Live(Links) \subseteq held[r]
  BY <1>1, <1>6, <1>7 DEF Footing
<1>11. op = "verify" => Unused(r) /\ "user" \in held[r]
  BY <1>1, <1>6, <1>7 DEF Footing
<1>12. op = "reset" => Unused(r) /\ "account" \in held[r]
  BY <1>1, <1>6, <1>8 DEF Footing
<1>13. op = "change" => /\ "account" \in held[r]
                        /\ ~Outdated => request[r].current = credential.password
  BY <1>1, <1>6, <1>9 DEF Footing
<1>14. op \in {"reset_request", "change"} => held[r] \cap Links = {}
  BY <1>1 DEF Footing
<1> QED BY <1>1, <1>2, <1>3, <1>4, <1>5, <1>10, <1>11, <1>12, <1>13, <1>14

LEMMA LogInStep ==
    ASSUME IInv, NEW r \in Requests, LogIn(r)
    PROVE  RowsTyped' /\ Covered(r) /\ RowsInv'
<1>1. Ends(r, "login") /\ UNCHANGED <<user, token, uses>>
  BY DEF LogIn
<1>2. /\ Footing(r) /\ Op(r) = "login" /\ request[r].session \in Issued \cup {NoSession}
      /\ request[r].password \in Passwords
  BY <1>1, DoneFacts, InputParts DEF Footing
<1>3. TypeOK /\ read[r] \in [version : Nat, outdated : BOOLEAN]
      /\ read[r].version \in Nat /\ read[r].version <= user.version
      /\ (~Outdated => ~read[r].outdated)
  BY <1>2 DEF IInv, TypeOK, Footing
<1>4. PICK s \in Sessions \ Issued :
         /\ session' = [q \in Sessions |->
              IF q = s THEN [state |-> "live", version |-> read[r].version]
              ELSE IF q = request[r].session
                   THEN [session[q] EXCEPT !.state = "revoked"]
                   ELSE session[q]]
         /\ doomed' = doomed \cup ({request[r].session} \ {NoSession})
                             \cup (IF Overtaken(r) THEN {s} ELSE {})
  BY DEF LogIn, SessionVersion
<1>5. credential' \in [password : Passwords, outdated : BOOLEAN]
      /\ (~Outdated => credential' = credential)
  BY <1>2, <1>3 DEF LogIn, TypeOK
<1>6. \A q \in Sessions :
         LET row == [session[q] EXCEPT !.state = "revoked"]
         IN  /\ row \in [state : {"absent", "live", "revoked"}, version : Nat]
             /\ row.state = "revoked" /\ row.version = session[q].version
  BY <1>3 DEF TypeOK
<1>7. session' \in [Sessions -> [state : {"absent", "live", "revoked"}, version : Nat]]
  BY <1>3, <1>4, <1>6 DEF TypeOK
<1>8. request[r].session # NoSession => request[r].session \in Issued
  BY <1>2
<1>9. /\ session'[s].state = "live" /\ session'[s].version = read[r].version
      /\ \A q \in Sessions \ {s} : /\ session'[q].version = session[q].version
                                   /\ session'[q].state \in {session[q].state, "revoked"}
                                   /\ q = request[r].session => session'[q].state = "revoked"
  BY <1>4, <1>6
<1>10. RowsTyped'
  BY <1>1, <1>3, <1>4, <1>5, <1>7, <1>8 DEF RowsTyped, TypeOK, Issued
<1>11. Issued \subseteq Issued'
  BY <1>9 DEF Issued
<1>12. Covered(r)
  BY <1>1, <1>3, <1>5, <1>11 DEF Covered, TypeOK
<1>13. HashIsCurrent' /\ UsedAreConsumed' /\ OneLink'
  BY <1>1, <1>5 DEF IInv, HashIsCurrent, UsedAreConsumed, OneLink, Live, Pending
<1>14. VersionsGrow'
  BY <1>1, <1>3, <1>9 DEF IInv, VersionsGrow
<1>15. DoomedAreOld'
  <2>1. s \notin doomed
    BY DEF IInv, DoomedAreOld, Issued
  <2>2. ASSUME NEW q \in doomed', q # s
        PROVE  /\ session'[q].state # "absent"
               /\ session'[q].state = "revoked" \/ session'[q].version < user'.version
    <3>1. q \in Sessions
      BY <2>2, <1>10 DEF RowsTyped
    <3>2. CASE q \in doomed
      BY <1>1, <1>9, <2>2, <3>1, <3>2 DEF IInv, DoomedAreOld
    <3>3. CASE q = request[r].session
      BY <1>9, <2>2, <3>1, <3>3
    <3> QED BY <1>4, <2>2, <3>2, <3>3
  <2>3. ASSUME s \in doomed'
        PROVE  session'[s].version < user'.version
    <3>1. s # request[r].session
      BY <1>8, CredentialsAssumption
    <3>2. Overtaken(r)
      BY <1>4, <2>1, <2>3, <3>1
    <3>3. read[r].version < user.version
      <4>1. read[r].version \in Nat /\ user.version \in Nat
        BY <1>3 DEF TypeOK
      <4> QED BY <1>3, <3>2, <4>1 DEF Overtaken
    <3>4. user' = user
      BY <1>1
    <3> QED BY <1>9, <3>3, <3>4
  <2> QED BY <1>9, <2>2, <2>3 DEF DoomedAreOld
<1> QED BY <1>10, <1>12, <1>13, <1>14, <1>15 DEF RowsInv

LEMMA IssueStep ==
    ASSUME IInv, NEW r \in Requests, RequestPasswordReset(r) \/ ResendVerification(r)
    PROVE  RowsTyped' /\ Covered(r) /\ RowsInv'
<1> DEFINE S == IF RequestPasswordReset(r) THEN Resets ELSE Links
<1>1. PICK t \in S :
         /\ token[t] = "absent"
         /\ token' = [q \in Tokens |-> IF q = t THEN "live"
                                        ELSE IF q \in Replaced(r) THEN "replaced"
                                        ELSE token[q]]
  BY DEF RequestPasswordReset, ResendVerification, Issue
<1>2. UNCHANGED <<user, credential, session, history>>
  BY DEF RequestPasswordReset, ResendVerification, Issue
<1>3. t \in Tokens
  BY DEF Tokens
<1>4. \A q \in Tokens : /\ q = t => token[q] = "absent" /\ token'[q] = "live"
                        /\ q # t /\ q \in held[r] /\ token[q] = "live" => token'[q] = "replaced"
                        /\ q # t /\ ~(q \in held[r] /\ token[q] = "live") => token'[q] = token[q]
  BY <1>1 DEF Replaced, Live
<1>5. RowsTyped'
  BY <1>1, <1>2 DEF IInv, TypeOK, RowsTyped, history
<1>6. HashIsCurrent' /\ VersionsGrow' /\ DoomedAreOld'
  BY <1>2 DEF IInv, HashIsCurrent, VersionsGrow, DoomedAreOld, history
<1>7. UsedAreConsumed'
  BY <1>2, <1>3, <1>4 DEF IInv, UsedAreConsumed, history
<1>8. Links \subseteq Tokens
  BY DEF Tokens
<1>9. CASE RequestPasswordReset(r)
  <2>1. held[r] \cap Links = {} /\ t \notin Links
    BY <1>9, DoneFacts, CredentialsAssumption DEF RequestPasswordReset
  <2>2. \A l \in Links : token'[l] = token[l]
    BY <1>4, <1>8, <2>1
  <2>3. OneLink'
    BY <1>2, <2>2 DEF IInv, OneLink, Live, Pending
  <2>4. Covered(r)
    BY <1>2, <1>4, <2>2 DEF Covered, IInv, TypeOK, Issued
  <2> QED BY <1>5, <1>6, <1>7, <2>3, <2>4 DEF RowsInv
<1>10. CASE ~RequestPasswordReset(r)
  <2>1. "user" \in held[r] /\ Pending /\ Live(Links) \subseteq held[r] /\ t \in Links
    BY <1>10, DoneFacts DEF ResendVerification
  <2>2. Live(Links)' = {t}
    <3>1. t \in Live(Links)'
      BY <1>3, <1>4, <2>1 DEF Live
    <3>2. ASSUME NEW l \in Links, l # t
          PROVE  token'[l] # "live"
      BY <1>4, <1>8, <2>1, <3>2 DEF Live
    <3> QED BY <3>1, <3>2 DEF Live
  <2>3. OneLink'
    BY <1>2, <2>1, <2>2 DEF OneLink, Pending
  <2>4. Covered(r)
    BY <1>2, <1>4, <2>1 DEF Covered, IInv, TypeOK, Issued
  <2> QED BY <1>5, <1>6, <1>7, <2>3, <2>4 DEF RowsInv
<1> QED BY <1>9, <1>10

\* A token that is locked and unused is consumed.
LEMMA Consumed ==
    ASSUME IInv, NEW r \in Requests, Unused(r), request[r].token \in Tokens,
           token' = [token EXCEPT ![request[r].token] = "consumed"],
           uses' = [uses EXCEPT ![request[r].token] = @ + 1]
    PROVE  /\ token' \in [Tokens -> {"absent", "live", "consumed", "replaced"}]
           /\ uses' \in [Tokens -> Nat]
           /\ \A t \in Tokens : token'[t] # token[t] => token[t] = "live" /\ t \in held[r]
           /\ UsedAreConsumed'
<1>1. uses[request[r].token] = 0
  BY DEF IInv, UsedAreConsumed, Unused
<1> QED BY <1>1 DEF IInv, TypeOK, UsedAreConsumed, Unused

LEMMA VerifyStep ==
    ASSUME IInv, NEW r \in Requests, VerifyEmail(r)
    PROVE  RowsTyped' /\ Covered(r) /\ RowsInv'
<1> DEFINE l == request[r].token
<1>1. /\ Unused(r) /\ "user" \in held[r] /\ l \in Links /\ l \in Tokens
  BY DoneFacts DEF VerifyEmail, Tokens
<1>2. /\ token' = [token EXCEPT ![l] = "consumed"] /\ uses' = [uses EXCEPT ![l] = @ + 1]
      /\ user' = [user EXCEPT !.status = "active"]
      /\ UNCHANGED <<credential, session, doomed>>
  BY DEF VerifyEmail
<1>3. user' \in [status : {"pending_verification", "active"}, version : Nat]
      /\ user'.version = user.version /\ user'.status = "active"
  BY <1>2 DEF IInv, TypeOK
<1>4. RowsTyped'
  BY <1>1, <1>2, <1>3, Consumed DEF IInv, TypeOK, RowsTyped
<1>5. Covered(r)
  <2>1. \A t \in Tokens : token'[t] # token[t] => token[t] = "live" /\ t \in held[r]
    BY <1>1, <1>2, Consumed
  <2>2. user.version \in Nat
    BY DEF IInv, TypeOK
  <2>3. credential' = credential /\ Issued' = Issued
    BY <1>2 DEF Issued
  <2> QED BY <1>1, <1>3, <2>1, <2>2, <2>3 DEF Covered
<1>6. HashIsCurrent' /\ VersionsGrow' /\ DoomedAreOld'
  BY <1>2, <1>3 DEF IInv, HashIsCurrent, VersionsGrow, DoomedAreOld
<1>7. OneLink'
  <2>1. l \in Live(Links)
    BY <1>1 DEF Unused, Live
  <2>2. Live(Links) = {l}
    BY <2>1 DEF IInv, OneLink
  <2>3. Live(Links)' = {}
    <3>1. \A k \in Links : token'[k] = IF k = l THEN "consumed" ELSE token[k]
      BY <1>2 DEF IInv, TypeOK, Tokens
    <3> QED BY <2>2, <3>1 DEF Live
  <2> QED BY <1>3, <2>3 DEF OneLink, Pending
<1> QED BY <1>1, <1>2, <1>4, <1>5, <1>6, <1>7, Consumed DEF RowsInv

LEMMA RevokeAllStep ==
    ASSUME IInv, NEW r \in Requests, RevokeAll(r)
    PROVE  /\ user' \in [status : {"pending_verification", "active"}, version : Nat]
           /\ user'.status = user.status /\ user'.version >= user.version
           /\ session' \in [Sessions -> [state : {"absent", "live", "revoked"}, version : Nat]]
           /\ doomed' \subseteq Sessions
           /\ Issued \subseteq Issued'
           /\ VersionsGrow' /\ DoomedAreOld'
<1>1. /\ user' = [user EXCEPT !.version = @ + 1]
      /\ session' = [s \in Sessions |->
                       IF s \in held[r] THEN [session[s] EXCEPT !.state = "revoked"]
                       ELSE session[s]]
      /\ doomed' = doomed \cup Issued
  BY DEF RevokeAll
<1>2. user' \in [status : {"pending_verification", "active"}, version : Nat]
      /\ user'.status = user.status /\ user'.version = user.version + 1
      /\ user.version \in Nat
  BY <1>1 DEF IInv, TypeOK
<1>3. \A q \in Sessions :
         LET row == [session[q] EXCEPT !.state = "revoked"]
         IN  /\ row \in [state : {"absent", "live", "revoked"}, version : Nat]
             /\ row.state = "revoked" /\ row.version = session[q].version
  BY DEF IInv, TypeOK
<1>4. \A q \in Sessions : /\ session'[q].version = session[q].version
                          /\ session'[q].state \in {session[q].state, "revoked"}
                          /\ session[q].version \in Nat
  BY <1>1, <1>3 DEF IInv, TypeOK
<1>5. session' \in [Sessions -> [state : {"absent", "live", "revoked"}, version : Nat]]
  BY <1>1, <1>3 DEF IInv, TypeOK
<1>6. doomed' \subseteq Sessions
  BY <1>1 DEF IInv, TypeOK, Issued
<1>7. Issued \subseteq Issued'
  BY <1>4 DEF Issued
<1>8. VersionsGrow'
  BY <1>2, <1>4 DEF IInv, VersionsGrow
<1>9. DoomedAreOld'
  <2>1. ASSUME NEW s \in doomed'
        PROVE  session'[s].state # "absent" /\ session'[s].version < user'.version
    <3>1. s \in Sessions /\ session[s].state # "absent"
      BY <1>1, <1>6, <2>1 DEF IInv, DoomedAreOld, Issued
    <3>2. session[s].version <= user.version
      BY <3>1 DEF IInv, VersionsGrow
    <3> QED BY <1>2, <1>4, <3>1, <3>2
  <2> QED BY <2>1 DEF DoomedAreOld
<1> QED BY <1>2, <1>5, <1>6, <1>7, <1>8, <1>9

LEMMA SetPasswordStep ==
    ASSUME IInv, NEW r \in Requests, CompletePasswordReset(r) \/ ChangePassword(r)
    PROVE  RowsTyped' /\ Covered(r) /\ RowsInv'
<1>1. RevokeAll(r) /\ credential' = [password |-> request[r].new, outdated |-> FALSE]
  BY DEF CompletePasswordReset, ChangePassword, SetPassword
<1>2. "account" \in held[r] /\ request[r].new \in Passwords
  BY DoneFacts DEF CompletePasswordReset, ChangePassword
<1>3. /\ token' \in [Tokens -> {"absent", "live", "consumed", "replaced"}]
      /\ uses' \in [Tokens -> Nat]
      /\ \A t \in Tokens : token'[t] # token[t] => token[t] = "live" /\ t \in held[r]
      /\ \A l \in Links : token'[l] = token[l]
      /\ UsedAreConsumed'
  <2>1. CASE CompletePasswordReset(r)
    <3>1. Unused(r) /\ request[r].token \in Resets /\ request[r].token \in Tokens
      BY <2>1, DoneFacts DEF CompletePasswordReset, Tokens
    <3>2. /\ token' = [token EXCEPT ![request[r].token] = "consumed"]
          /\ uses' = [uses EXCEPT ![request[r].token] = @ + 1]
      BY <2>1 DEF CompletePasswordReset
    <3>3. \A l \in Links : token'[l] = token[l]
      BY <3>1, <3>2, CredentialsAssumption DEF IInv, TypeOK, Tokens
    <3> QED BY <3>1, <3>2, <3>3, Consumed
  <2>2. CASE ChangePassword(r)
    <3>1. held[r] \cap Links = {}
      BY <2>2, DoneFacts DEF ChangePassword
    <3>2. /\ token' = [t \in Tokens |-> IF t \in Replaced(r) THEN "replaced" ELSE token[t]]
          /\ uses' = uses
      BY <2>2 DEF ChangePassword
    <3>3. \A t \in Tokens : \/ token'[t] = token[t]
                            \/ /\ token[t] = "live" /\ t \in held[r]
                               /\ token'[t] = "replaced"
      BY <3>2 DEF Replaced, Live
    <3>4. token' \in [Tokens -> {"absent", "live", "consumed", "replaced"}]
      BY <3>2 DEF IInv, TypeOK
    <3>5. \A l \in Links : token'[l] = token[l]
      BY <3>1, <3>3 DEF Tokens
    <3>6. UsedAreConsumed'
      BY <3>2, <3>3 DEF IInv, UsedAreConsumed
    <3> QED BY <3>2, <3>3, <3>4, <3>5, <3>6 DEF IInv, TypeOK
  <2> QED BY <2>1, <2>2
<1>4. RowsTyped'
  BY <1>1, <1>2, <1>3, RevokeAllStep DEF RowsTyped
<1>5. Covered(r)
  BY <1>1, <1>2, <1>3, RevokeAllStep DEF Covered
<1>6. OneLink'
  BY <1>1, <1>3, RevokeAllStep DEF IInv, OneLink, Live, Pending
<1>7. HashIsCurrent'
  BY <1>1 DEF HashIsCurrent
<1> QED BY <1>1, <1>3, <1>4, <1>5, <1>6, <1>7, RevokeAllStep DEF RowsInv

LEMMA LogOutStep ==
    ASSUME IInv, NEW r \in Requests, LogOut(r)
    PROVE  RowsTyped' /\ Covered(r) /\ RowsInv'
<1> DEFINE s == request[r].session
           row == [session[s] EXCEPT !.state = "revoked"]
<1>1. s \in Sessions /\ s \in Issued
  <2>1. s \in Sessions /\ s \in Issued \cup {NoSession}
    BY DoneFacts, InputParts DEF LogOut, Footing
  <2> QED BY <2>1, CredentialsAssumption
<1>2. /\ session' = [session EXCEPT ![s] = row] /\ doomed' = doomed \cup {s}
      /\ UNCHANGED <<user, credential, token, uses>>
  BY DEF LogOut
<1>3. /\ row \in [state : {"absent", "live", "revoked"}, version : Nat]
      /\ row.state = "revoked" /\ row.version = session[s].version
  BY <1>1 DEF IInv, TypeOK
<1> HIDE DEF row, s
<1>4. RowsTyped'
  BY <1>1, <1>2, <1>3 DEF IInv, TypeOK, RowsTyped
<1>5. Covered(r)
  <2>1. Issued \subseteq Issued'
    BY <1>1, <1>2, <1>3 DEF IInv, TypeOK, Issued
  <2> QED BY <1>2, <2>1 DEF IInv, TypeOK, Covered
<1>6. HashIsCurrent' /\ UsedAreConsumed' /\ OneLink'
  BY <1>2 DEF IInv, HashIsCurrent, UsedAreConsumed, OneLink, Live, Pending
<1>7. VersionsGrow' /\ DoomedAreOld'
  BY <1>1, <1>2, <1>3 DEF IInv, TypeOK, VersionsGrow, DoomedAreOld
<1> QED BY <1>4, <1>5, <1>6, <1>7 DEF RowsInv

LEMMA LogOutAllStep ==
    ASSUME IInv, NEW r \in Requests, LogOutAll(r)
    PROVE  RowsTyped' /\ Covered(r) /\ RowsInv'
<1>1. RevokeAll(r) /\ UNCHANGED <<credential, token, uses>>
  BY DEF LogOutAll
<1>2. RowsTyped'
  BY <1>1, RevokeAllStep DEF IInv, TypeOK, RowsTyped
<1>3. Covered(r)
  BY <1>1, RevokeAllStep DEF Covered
<1>4. HashIsCurrent' /\ UsedAreConsumed' /\ OneLink'
  BY <1>1, RevokeAllStep DEF IInv, HashIsCurrent, UsedAreConsumed, OneLink, Live, Pending
<1> QED BY <1>1, <1>2, <1>3, <1>4, RevokeAllStep DEF RowsInv

LEMMA CommitStep ==
    ASSUME IInv, NEW r \in Requests, Commit(r)
    PROVE  IInv'
<1>1. Close(r)
  BY DEF Commit, LogIn, RequestPasswordReset, ResendVerification, VerifyEmail,
         CompletePasswordReset, ChangePassword, LogOut, LogOutAll, Ends
<1>2. RowsTyped' /\ Covered(r) /\ RowsInv'
  BY LogInStep, IssueStep, VerifyStep, SetPasswordStep, LogOutStep, LogOutAllStep
     DEF Commit
<1>3. \A q \in Requests \ {r} : Footing(q)'
  BY <1>1, <1>2, CloseStep, FootingCovered
<1>4. Footing(r)'
  BY <1>1, <1>2, CloseStep DEF RowsTyped
<1>5. TypeOK'
  BY <1>1, <1>2, CloseStep, TypeParts DEF TypeOK, RowsTyped, LocalTyped
<1> QED BY <1>1, <1>2, <1>3, <1>4, <1>5, CloseStep DEF IInv, RowsInv
-----------------------------------------------------------------------------
LEMMA InitInv == Init => IInv
<1> SUFFICES ASSUME Init PROVE IInv
  OBVIOUS
<1> USE CredentialsAssumption DEF Init
<1>1. TypeOK
  BY DEF TypeOK, Op, Idle, NothingRead, Tokens
<1>2. OneHolder
  BY DEF OneHolder
<1>3. ASSUME NEW r \in Requests
      PROVE  Footing(r)
  BY DEF Footing, Op, Idle, NothingRead
<1>4. HashIsCurrent /\ VersionsGrow /\ DoomedAreOld
  BY DEF HashIsCurrent, VersionsGrow, DoomedAreOld
<1>5. UsedAreConsumed
  BY DEF UsedAreConsumed
<1>6. OneLink
  <2>1. Live(Links) = {FirstLink}
    BY DEF Live, Tokens
  <2> QED BY <2>1 DEF OneLink, Pending
<1> QED BY <1>1, <1>2, <1>3, <1>4, <1>5, <1>6 DEF IInv

LEMMA NextInv == IInv /\ [Next]_vars => IInv'
<1> SUFFICES ASSUME IInv, [Next]_vars PROVE IInv'
  OBVIOUS
<1>1. ASSUME UNCHANGED <<rows, history>>, LocalInv'
      PROVE  IInv'
  <2>1. RowsTyped' /\ RowsInv'
    BY <1>1 DEF IInv, TypeOK, RowsTyped, RowsInv, rows, history, HashIsCurrent,
                VersionsGrow, DoomedAreOld, UsedAreConsumed, OneLink, Live, Pending
  <2>2. TypeOK'
    BY <1>1, <2>1 DEF LocalInv, TypeOK, RowsTyped, LocalTyped
  <2> QED BY <1>1, <2>1, <2>2 DEF LocalInv, RowsInv, IInv
<1>2. CASE UNCHANGED vars
  <2>1. UNCHANGED <<rows, history>> /\ UNCHANGED local
    BY <1>2 DEF vars
  <2>2. \A q \in Requests : Footing(q)'
    BY <2>1, FootingKept DEF IInv, local, Same
  <2>3. LocalInv'
    BY <2>1, <2>2 DEF IInv, LocalInv, LocalTyped, TypeOK, OneHolder, local, Op
  <2> QED BY <1>1, <2>1, <2>3
<1>3. ASSUME NEW r \in Requests, Send(r) \/ Begin(r) \/ Take(r)
      PROVE  IInv'
  <2>1. UNCHANGED <<rows, history>>
    BY <1>3 DEF Send, Begin, Take
  <2> QED BY <1>1, <1>3, <2>1, SendStep, BeginStep, TakeStep
<1>4. ASSUME NEW r \in Requests, Refuse(r) \/ Abandon(r) \/ BreakDeadlock(r)
      PROVE  IInv'
  <2>1. Close(r) /\ UNCHANGED <<rows, history>>
    BY <1>4 DEF Refuse, Abandon, BreakDeadlock
  <2> QED BY <1>1, <2>1, QuietStep
<1> QED BY <1>2, <1>3, <1>4, CommitStep DEF Next, Proceed

LEMMA AlwaysInv == Spec => []IInv
  BY InitInv, NextInv, PTL DEF Spec

\* Type correctness: rows, locks and local reads keep their types, and who is
\* not at work holds no lock.
THEOREM TypeCorrect == Spec => []TypeOK
<1>1. IInv => TypeOK
  BY DEF IInv
<1> QED BY <1>1, AlwaysInv, PTL

\* Whatever logins, resets, changes and logouts race, a session that was
\* ended, or opened with a password checked before the sessions were ended, is
\* never let in.
THEOREM EndedSessionsStayOut == Spec => []RevokedSessionsStayOut
<1>1. IInv => RevokedSessionsStayOut
  BY DEF IInv, TypeOK, DoomedAreOld, RevokedSessionsStayOut, Resolves
<1> QED BY <1>1, AlwaysInv, PTL

\* A mailed link takes effect at most once, and while the address is not
\* verified exactly one link is alive, for any number of requests and links.
THEOREM OneLinkWorks == Spec => []LinksWorkOnce
<1>1. IInv => LinksWorkOnce
  <2>1. IInv => \A t \in Tokens : uses[t] <= 1
    BY DEF IInv, UsedAreConsumed
  <2>2. IInv => Cardinality(Live(Links)) = IF Pending THEN 1 ELSE 0
    <3>1. \A l \in Links : Cardinality({l}) = 1
      BY FS_Singleton
    <3> QED BY <3>1, FS_EmptySet DEF IInv, OneLink
  <2> QED BY <2>1, <2>2 DEF LinksWorkOnce
<1> QED BY <1>1, AlwaysInv, PTL

\* Unless a login renews an outdated hash, a password is changed only by who
\* gave the one that is stored at the commit.
THEOREM ChangesAreProved == ~Outdated => (Spec => ChangesProveThePassword)
<1> DEFINE Proved == \A r \in Requests :
                        Done(r) /\ Op(r) = "change" /\ credential' # credential
                          => request[r].current = credential.password
<1> SUFFICES ASSUME ~Outdated PROVE Spec => ChangesProveThePassword
  OBVIOUS
<1>1. IInv => Proved
  <2> SUFFICES ASSUME IInv, NEW r \in Requests, Done(r), Op(r) = "change"
               PROVE  request[r].current = credential.password
    OBVIOUS
  <2>1. step[r] \in 1 .. 7 /\ step[r] > 6
    BY AtTheEnd DEF IInv
  <2> QED BY <2>1 DEF IInv, Footing
<1>2. IInv => [Proved]_vars
  BY <1>1
<1> HIDE DEF Proved
<1>3. Spec => [][Proved]_vars
  BY <1>2, AlwaysInv, PTL DEF Spec
<1> QED BY <1>3 DEF ChangesProveThePassword, Proved
=============================================================================
