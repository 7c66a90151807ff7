-------------------------- MODULE SalesDealsProofs --------------------------
(***************************************************************************)
(* Proofs about SalesDeals, for any members, companies, deals, stages and  *)
(* commands, and any number of requests.                                   *)
(*                                                                         *)
(* Knows says what a request that got so far in its plan has seen and is   *)
(* still so: the row of its deal, because it holds its lock; its actor,    *)
(* the company and the responsible member, because it holds the lock of    *)
(* the workspace, which whoever changes them needs.  The updates therefore *)
(* find the versions they ask for, and what is recorded fits the row.      *)
(* With that every commit is a step of DealBook.                           *)
(***************************************************************************)
EXTENDS SalesDeals, SequenceTheorems, TLAPS

Transitions == [from : Stages \cup {None}, to : Stages, version : Nat]

SeenRows == [receipt : BOOLEAN, deal : DealRows, company : BOOLEAN,
             responsible : BOOLEAN, member : MemberRows]

Typed ==
    /\ TypeOK
    /\ history \in [Deals -> Seq(Transitions)]
    /\ seen \in [Requests -> SeenRows]
    /\ held = [r \in Requests |-> held[r]]
    /\ \A d \in Deals : IF deal[d].life = "absent" THEN history[d] = << >>
                         ELSE deal[d].stage \in Stages
    /\ \A d \in Converted : d \in Deals /\ deal[d].life # "absent"

OneHolder == \A r, q \in Requests : r # q => held[r] \cap held[q] = {}

\* What request r has read and is still so.
Knows(r) ==
    Running(r) =>
      LET in == Cmd(r)
          got == seen[r] IN
      /\ in # NoCommand /\ step[r] > 0
      /\ step[r] = 1 => got = NothingSeen
      /\ step[r] > 1 => /\ <<"key", request[r]>> \in held[r]
                        /\ request[r] \in receipts => got.receipt
      /\ got.receipt => step[r] <= (IF in.op = "move" THEN 3 ELSE 2)
      /\ got.receipt /\ step[r] > 2 => /\ <<"workspace">> \in held[r]
                                       /\ got.deal = deal[in.deal]
                                       /\ got.member = member[in.actor]
      /\ ~got.receipt /\ step[r] > 2 /\ in.op # "create"
           => <<"deal", in.deal>> \in held[r] /\ got.deal = deal[in.deal]
      /\ ~got.receipt /\ step[r] > 3
           => <<"workspace">> \in held[r] /\ got.member = member[in.actor]
      /\ ~got.receipt /\ in.op \in {"create", "update"}
           => /\ step[r] > 4 => got.company = (company[in.company] = "active")
              /\ step[r] > 5 => got.responsible = member[in.responsible].active

\* Commands name deals that are there.
SentSound == \A k \in Keys : sent[k] # NoCommand /\ sent[k].op # "create"
                               => deal[sent[k].deal].life # "absent"

\* What a key's command did is in its receipt, or in the version of its deal.
EffectsTell ==
    \A k \in Keys :
      \/ effects[k] = 0
      \/ /\ sent[k] # NoCommand
         /\ IF sent[k].op = "create" THEN k \in receipts \cup lapsed
            ELSE effects[k] = 1 /\ deal[sent[k].deal].version > sent[k].version

IInv == /\ Typed
        /\ OneHolder
        /\ \A r \in Requests : Knows(r)
        /\ SentSound /\ EffectsTell /\ DealRowsAgree
-----------------------------------------------------------------------------
(* Commands and their plans. *)

LEMMA CommandParts ==
    ASSUME NEW in \in Commands
    PROVE  /\ in.op \in {"create", "update", "move", "archive", "restore"}
           /\ in.actor \in Members
           /\ in.op # "create" => in.deal \in Deals /\ in.version \in Nat
           /\ in.op \in {"create", "move"} => in.stage \in Stages
           /\ in.op \in {"create", "update"} => in.company \in Companies
                                               /\ in.responsible \in Members
  BY DEF Commands

LEMMA OfferedParts ==
    ASSUME Typed, NEW op \in Operations, NEW m \in Members, NEW in \in Offered(op, m)
    PROVE  in \in Commands /\ (in.op # "create" => deal[in.deal].life # "absent")
<1>1. /\ op \in {"create", "update", "move", "archive", "restore"}
      /\ OpenStages \subseteq Stages
  BY DealsAssumption DEF OpenStages
<1>2. \A d \in Deals : deal[d].version \in Nat
  BY DEF Typed, TypeOK, DealRows
<1>3. CASE op = "create"
  BY <1>1, <1>3 DEF Offered, Commands
<1>4. CASE op = "update"
  <2>1. PICK d \in Deals : /\ deal[d].life = "active"
          /\ in \in [op : {"update"}, actor : {a \in {m} : Manages(member[a])}, deal : {d},
                     version : {deal[d].version},
                     company : {c \in Companies : company[c] = "active"},
                     responsible : {a \in Members : member[a].active}]
    BY <1>4 DEF Offered
  <2> QED BY <1>2, <2>1 DEF Commands
<1>5. CASE op = "move"
  <2>1. PICK d \in Deals : /\ deal[d].life = "active"
          /\ in \in [op : {"move"}, deal : {d}, version : {deal[d].version}, stage : Stages,
                     actor : {a \in {m} : MayTransition(member[a], deal[d], a)}]
    BY <1>5 DEF Offered
  <2> QED BY <1>2, <2>1 DEF Commands
<1>6. CASE op = "archive"
  <2>1. PICK d \in Deals : /\ deal[d].life = "active"
          /\ in \in [op : {"archive"}, actor : {a \in {m} : Manages(member[a])}, deal : {d},
                     version : {deal[d].version}]
    BY <1>6 DEF Offered
  <2> QED BY <1>2, <2>1 DEF Commands
<1>7. CASE op = "restore"
  <2>1. PICK d \in Deals : /\ deal[d].life = "archived"
          /\ in \in [op : {"restore"}, actor : {a \in {m} : Manages(member[a])}, deal : {d},
                     version : {deal[d].version}]
    BY <1>7 DEF Offered
  <2> QED BY <1>2, <2>1 DEF Commands
<1> QED BY <1>1, <1>3, <1>4, <1>5, <1>6, <1>7

LEMMA OfferedActor ==
    ASSUME NEW op \in Operations, NEW m, NEW in \in Offered(op, m)
    PROVE  in.actor = m
<1>1. op \in {"create", "update", "move", "archive", "restore"}
  BY DealsAssumption
<1> QED BY <1>1 DEF Offered

\* A running request has a command of its key.
LEMMA Busy ==
    ASSUME Typed, NEW r \in Requests, Running(r), Knows(r)
    PROVE  /\ request[r] \in Keys /\ Cmd(r) \in Commands
           /\ step[r] \in 1 .. 6
  BY DEF Typed, TypeOK, Running, Knows, Cmd

\* Where a request stands that has not all its locks.
LEMMA NextLocks ==
    ASSUME Typed, NEW r \in Requests, Running(r), Knows(r), ~Done(r)
    PROVE  /\ step[r] \in 1 .. 5
           /\ step[r] = 1 => NextLock(r) = "key"
           /\ seen[r].receipt => step[r] <= (IF Cmd(r).op = "move" THEN 2 ELSE 1)
           /\ seen[r].receipt /\ step[r] = 2 => NextLock(r) = "actor"
           /\ ~seen[r].receipt =>
                /\ step[r] = 2 => NextLock(r) = IF Cmd(r).op = "create" THEN "pipeline" ELSE "deal"
                /\ step[r] = 3 => NextLock(r) = "actor"
                /\ Cmd(r).op \in {"create", "update"} =>
                     /\ step[r] = 4 => NextLock(r) = "company"
                     /\ step[r] = 5 => NextLock(r) = "responsible"
                /\ Cmd(r).op = "move" => /\ step[r] <= 4
                                         /\ step[r] = 4 => NextLock(r) = "pipeline"
                /\ Cmd(r).op \in {"archive", "restore"} => step[r] <= 3
<1> DEFINE n == step[r]
           op == Cmd(r).op
<1>1. n \in 1 .. 6 /\ op \in {"create", "update", "move", "archive", "restore"}
  BY Busy, CommandParts
<1>2. /\ Len(Plan(r)) \in Nat => n <= Len(Plan(r))
      /\ NextLock(r) = Plan(r)[n]
  BY <1>1 DEF Done, NextLock
<1>3. Plan(r) = IF seen[r].receipt
                THEN IF op = "move" THEN <<"key", "actor">> ELSE <<"key">>
                ELSE CASE op = "create" ->
                            <<"key", "pipeline", "actor", "company", "responsible">>
                       [] op = "update" ->
                            <<"key", "deal", "actor", "company", "responsible">>
                       [] op = "move" -> <<"key", "deal", "actor", "pipeline">>
                       [] OTHER -> <<"key", "deal", "actor">>
  BY DEF Plan
<1> HIDE DEF n, op
<1>4. CASE seen[r].receipt /\ op = "move"
  <2>1. Plan(r) = <<"key", "actor">>
    BY <1>3, <1>4
  <2> QED BY <1>1, <1>2, <1>4, <2>1 DEF n, op
<1>5. CASE seen[r].receipt /\ op # "move"
  <2>1. Plan(r) = <<"key">>
    BY <1>3, <1>5
  <2> QED BY <1>1, <1>2, <1>5, <2>1 DEF n, op
<1>6. CASE ~seen[r].receipt /\ op = "create"
  <2>1. Plan(r) = <<"key", "pipeline", "actor", "company", "responsible">>
    BY <1>3, <1>6
  <2> QED BY <1>1, <1>2, <1>6, <2>1 DEF n, op
<1>7. CASE ~seen[r].receipt /\ op = "update"
  <2>1. Plan(r) = <<"key", "deal", "actor", "company", "responsible">>
    BY <1>3, <1>7
  <2> QED BY <1>1, <1>2, <1>7, <2>1 DEF n, op
<1>8. CASE ~seen[r].receipt /\ op = "move"
  <2>1. Plan(r) = <<"key", "deal", "actor", "pipeline">>
    BY <1>3, <1>8
  <2> QED BY <1>1, <1>2, <1>8, <2>1 DEF n, op
<1>9. CASE ~seen[r].receipt /\ op \in {"archive", "restore"}
  <2>1. Plan(r) = <<"key", "deal", "actor">>
    BY <1>3, <1>9
  <2> QED BY <1>1, <1>2, <1>9, <2>1 DEF n, op
<1> QED BY <1>1, <1>4, <1>5, <1>6, <1>7, <1>8, <1>9

\* A request at the end of its plan has seen all it decides on.
LEMMA AtTheEnd ==
    ASSUME Typed, NEW r \in Requests, Knows(r), Done(r)
    PROVE  /\ Running(r) /\ step[r] \in 1 .. 6
           /\ seen[r].receipt => step[r] > (IF Cmd(r).op = "move" THEN 2 ELSE 1)
           /\ ~seen[r].receipt =>
                /\ step[r] > 3
                /\ Cmd(r).op \in {"create", "update"} => step[r] > 5
<1> DEFINE n == step[r]
           op == Cmd(r).op
<1>1. Running(r) /\ n \in 1 .. 6 /\ op \in {"create", "update", "move", "archive", "restore"}
  BY Busy, CommandParts DEF Done
<1>2. Len(Plan(r)) \in Nat => n > Len(Plan(r))
  BY DEF Done
<1>3. Plan(r) = IF seen[r].receipt
                THEN IF op = "move" THEN <<"key", "actor">> ELSE <<"key">>
                ELSE CASE op = "create" ->
                            <<"key", "pipeline", "actor", "company", "responsible">>
                       [] op = "update" ->
                            <<"key", "deal", "actor", "company", "responsible">>
                       [] op = "move" -> <<"key", "deal", "actor", "pipeline">>
                       [] OTHER -> <<"key", "deal", "actor">>
  BY DEF Plan
<1> HIDE DEF n, op
<1>4. seen[r].receipt => Len(Plan(r)) = IF op = "move" THEN 2 ELSE 1
  BY <1>3
<1>5. ~seen[r].receipt => /\ op \in {"create", "update"} => Len(Plan(r)) = 5
                          /\ op = "move" => Len(Plan(r)) = 4
                          /\ op \in {"archive", "restore"} => Len(Plan(r)) = 3
  BY <1>1, <1>3
<1>6. Len(Plan(r)) \in Nat /\ n > Len(Plan(r))
  BY <1>1, <1>2, <1>4, <1>5
<1>7. seen[r].receipt => n > (IF op = "move" THEN 2 ELSE 1)
  BY <1>4, <1>6
<1>8. ~seen[r].receipt => n > 3 /\ (op \in {"create", "update"} => n > 5)
  <2> SUFFICES ASSUME ~seen[r].receipt
               PROVE  n > 3 /\ (op \in {"create", "update"} => n > 5)
    OBVIOUS
  <2>1. CASE op \in {"create", "update"}
    <3>1. Len(Plan(r)) = 5
      BY <1>5, <2>1
    <3> QED BY <1>1, <1>6, <3>1
  <2>2. CASE op = "move"
    <3>1. Len(Plan(r)) = 4
      BY <1>5, <2>2
    <3> QED BY <1>1, <1>6, <2>2, <3>1
  <2>3. CASE op \in {"archive", "restore"}
    <3>1. Len(Plan(r)) = 3
      BY <1>5, <2>3
    <3> QED BY <1>1, <1>6, <2>3, <3>1
  <2> QED BY <1>1, <2>1, <2>2, <2>3
<1> QED BY <1>1, <1>7, <1>8 DEF n, op
-----------------------------------------------------------------------------
(* The steps that write no rows. *)

RowsTyped ==
    /\ deal \in [Deals -> DealRows]
    /\ \A d \in Deals : IF deal[d].life = "absent" THEN history[d] = << >>
                         ELSE deal[d].stage \in Stages
    /\ \A d \in Converted : d \in Deals /\ deal[d].life # "absent"
    /\ history \in [Deals -> Seq(Transitions)]
    /\ outcome \in [Converted -> {"open", "won", "lost"}]
    /\ company \in [Companies -> {"active", "archived"}]
    /\ member \in [Members -> MemberRows]
    /\ receipts \subseteq Keys /\ lapsed \subseteq Keys
    /\ effects \in [Keys -> Nat] /\ \A k \in Keys : effects[k] <= 1 \/ k \in lapsed

LocalTyped ==
    /\ request \in [Requests -> Keys \cup {None}]
    /\ step \in [Requests -> 0 .. 6]
    /\ held = [r \in Requests |-> held[r]]
    /\ seen \in [Requests -> SeenRows]
    /\ \A r \in Requests : ~Running(r) => held[r] = {} /\ seen[r] = NothingSeen

LEMMA TypeParts ==
    Typed => RowsTyped /\ LocalTyped /\ sent \in [Keys -> Commands \cup {NoCommand}]
  BY DEF Typed, TypeOK, RowsTyped, LocalTyped

LEMMA NewTypes ==
    ASSUME RowsTyped', LocalTyped', sent' \in [Keys -> Commands \cup {NoCommand}]
    PROVE  Typed'
<1>1. \A r \in Requests : seen'[r].deal \in DealRows /\ seen'[r].member \in MemberRows
  BY DEF LocalTyped, SeenRows
<1>2. \A d \in Deals : history'[d] \in Seq([from : Stages \cup {None}, to : Stages,
                                            version : Nat])
  BY DEF RowsTyped, Transitions
<1>3. TypeOK'
  BY <1>1, <1>2 DEF TypeOK, RowsTyped, LocalTyped, Running
<1> QED BY <1>3 DEF Typed, RowsTyped, LocalTyped

\* Nothing of request q changes.
Same(q) == /\ request'[q] = request[q] /\ step'[q] = step[q]
           /\ held'[q] = held[q] /\ seen'[q] = seen[q]

\* What a request knows stays so while nobody writes what it has locked.
LEMMA KnowsKept ==
    ASSUME Typed, SentSound, NEW q \in Requests, Knows(q), Same(q),
           Running(q) => /\ sent'[request[q]] = sent[request[q]]
                         /\ request[q] \in receipts' \ receipts
                              => <<"key", request[q]>> \notin held[q],
           \A d \in Deals : deal[d].life # "absent" /\ deal'[d] # deal[d]
             => <<"deal", d>> \notin held[q] /\ <<"workspace">> \notin held[q],
           <<"workspace">> \in held[q] => member' = member /\ company' = company
    PROVE  Knows(q)'
<1>1. CASE ~Running(q)
  BY <1>1 DEF Knows, Running, Same
<1>2. CASE Running(q)
  <2> DEFINE in == Cmd(q)
  <2>1. in \in Commands /\ request[q] \in Keys
    BY <1>2, Busy
  <2>2. in.op # "create" => in.deal \in Deals /\ deal[in.deal].life # "absent"
    BY <1>2, <2>1, CommandParts DEF SentSound, Cmd, Knows
  <2>3. Cmd(q)' = in /\ Running(q)'
    BY <1>2 DEF Same, Cmd, Running
  <2>4. in.op = "move" => in.op # "create"
    OBVIOUS
  <2> HIDE DEF in
  <2>5. /\ in # NoCommand /\ step[q] > 0
        /\ step[q] = 1 => seen[q] = NothingSeen
        /\ step[q] > 1 => /\ <<"key", request[q]>> \in held[q]
                          /\ request[q] \in receipts => seen[q].receipt
        /\ seen[q].receipt => step[q] <= (IF in.op = "move" THEN 3 ELSE 2)
        /\ seen[q].receipt /\ step[q] > 2 => /\ <<"workspace">> \in held[q]
                                             /\ seen[q].deal = deal[in.deal]
                                             /\ seen[q].member = member[in.actor]
        /\ ~seen[q].receipt /\ step[q] > 2 /\ in.op # "create"
             => <<"deal", in.deal>> \in held[q] /\ seen[q].deal = deal[in.deal]
        /\ ~seen[q].receipt /\ step[q] > 3
             => <<"workspace">> \in held[q] /\ seen[q].member = member[in.actor]
        /\ ~seen[q].receipt /\ in.op \in {"create", "update"}
             => /\ step[q] > 4 => seen[q].company = (company[in.company] = "active")
                /\ step[q] > 5 => seen[q].responsible = member[in.responsible].active
    BY <1>2 DEF Knows, in
  <2>6. step[q] \in 1 .. 6
    BY <1>2, Busy
  <2>7. request'[q] \in receipts' /\ step[q] > 1 => seen[q].receipt
    BY <1>2, <2>5 DEF Same
  <2>8. seen[q].receipt /\ step[q] > 2 => seen[q].deal = deal'[in.deal]
                                         /\ seen[q].member = member'[in.actor]
    <3>1. seen[q].receipt /\ step[q] > 2 => in.op = "move"
      BY <2>5, <2>6
    <3> QED BY <2>2, <2>5, <3>1
  <2>9. ~seen[q].receipt /\ step[q] > 2 /\ in.op # "create" => seen[q].deal = deal'[in.deal]
    BY <2>2, <2>5
  <2>10. ~seen[q].receipt /\ step[q] > 3 => /\ seen[q].member = member'[in.actor]
                                           /\ member' = member /\ company' = company
    BY <2>5
  <2>11. ~seen[q].receipt /\ in.op \in {"create", "update"}
           => /\ step[q] > 4 => seen[q].company = (company'[in.company] = "active")
              /\ step[q] > 5 => seen[q].responsible = member'[in.responsible].active
    BY <2>5, <2>6, <2>10
  <2>12. Same(q)
    OBVIOUS
  <2> QED BY <2>3, <2>5, <2>7, <2>8, <2>9, <2>10, <2>11, <2>12 DEF Knows, Same
<1> QED BY <1>1, <1>2

LocalInv == LocalTyped /\ OneHolder /\ \A q \in Requests : Knows(q)

\* Nothing is written but the requests' own state and the commands sent.
LEMMA NoRowsWritten ==
    ASSUME IInv, UNCHANGED <<tables, effects>>, LocalInv',
           sent' \in [Keys -> Commands \cup {NoCommand}],
           \A k \in Keys : \/ sent'[k] = sent[k]
                           \/ /\ sent[k] = NoCommand
                              /\ sent'[k].op # "create" => deal[sent'[k].deal].life # "absent"
    PROVE  IInv'
<1>1. RowsTyped'
  BY TypeParts DEF IInv, RowsTyped, tables
<1>2. Typed'
  BY <1>1, NewTypes DEF LocalInv
<1>3. SentSound' /\ EffectsTell'
  BY DEF IInv, SentSound, EffectsTell, tables
<1>4. DealRowsAgree'
  BY DEF IInv, DealRowsAgree, tables
<1> QED BY <1>2, <1>3, <1>4 DEF IInv, LocalInv

LEMMA Closed ==
    ASSUME IInv, NEW r \in Requests, Close(r)
    PROVE  /\ LocalTyped' /\ OneHolder' /\ Knows(r)'
           /\ \A q \in Requests \ {r} : Same(q)
<1>1. /\ request' = [request EXCEPT ![r] = None] /\ step' = [step EXCEPT ![r] = 0]
      /\ held' = [held EXCEPT ![r] = {}] /\ seen' = [seen EXCEPT ![r] = NothingSeen]
  BY DEF Close
<1>2. LocalTyped /\ OneHolder
  BY TypeParts DEF IInv
<1>3. NothingSeen \in SeenRows
  BY DEF NothingSeen, SeenRows, NoDeal, DealRows, MemberRows
<1>4. /\ request'[r] = None /\ held'[r] = {} /\ seen'[r] = NothingSeen
      /\ \A q \in Requests \ {r} : Same(q)
  BY <1>1, <1>2 DEF LocalTyped, Same
<1>5. LocalTyped'
  <2>1. /\ request' \in [Requests -> Keys \cup {None}] /\ step' \in [Requests -> 0 .. 6]
        /\ seen' \in [Requests -> SeenRows]
    BY <1>1, <1>2, <1>3 DEF LocalTyped
  <2>3. held' = [q \in Requests |-> held'[q]]
    <3>1. held = [q \in Requests |-> held[q]]
      BY <1>2 DEF LocalTyped
    <3>2. held' = [q \in Requests |-> IF q = r THEN {} ELSE held[q]]
      BY <1>1, <3>1
    <3> QED BY <3>2
  <2>2. ASSUME NEW q \in Requests, request'[q] = None
        PROVE  held'[q] = {} /\ seen'[q] = NothingSeen
    BY <1>2, <1>4, <2>2 DEF LocalTyped, Running, Same
  <2> QED BY <2>1, <2>2, <2>3 DEF LocalTyped, Running
<1>6. OneHolder'
  BY <1>2, <1>4 DEF OneHolder, Same
<1>7. Knows(r)'
  BY <1>4 DEF Knows, Running
<1> QED BY <1>4, <1>5, <1>6, <1>7

LEMMA CloseStep ==
    ASSUME IInv, NEW r \in Requests, Close(r), UNCHANGED <<tables, sent, effects>>
    PROVE  IInv'
<1>1. ASSUME NEW q \in Requests, q # r
      PROVE  Knows(q)'
  BY <1>1, Closed, KnowsKept DEF IInv, tables
<1>2. LocalInv'
  BY <1>1, Closed DEF LocalInv
<1> QED BY <1>2, NoRowsWritten DEF IInv, Typed, TypeOK
\* A request starts with a command that was made now or before.
LEMMA StartStep ==
    ASSUME IInv, NEW r \in Requests, NEW k \in Keys, request[r] = None,
           request' = [request EXCEPT ![r] = k], step' = [step EXCEPT ![r] = 1],
           UNCHANGED <<tables, held, seen, effects>>,
           sent' \in [Keys -> Commands \cup {NoCommand}], sent'[k] # NoCommand,
           \A j \in Keys : \/ sent'[j] = sent[j]
                           \/ /\ sent[j] = NoCommand
                              /\ sent'[j].op # "create" => deal[sent'[j].deal].life # "absent"
    PROVE  IInv'
<1>1. Typed /\ LocalTyped /\ OneHolder /\ SentSound
  BY TypeParts DEF IInv
<1>2. held[r] = {} /\ seen[r] = NothingSeen
  BY <1>1 DEF LocalTyped, Running
<1>3. LocalTyped'
  <2>1. /\ request' \in [Requests -> Keys \cup {None}] /\ step' \in [Requests -> 0 .. 6]
        /\ held' = [q \in Requests |-> held'[q]] /\ seen' \in [Requests -> SeenRows]
    BY <1>1 DEF LocalTyped
  <2>2. \A q \in Requests : request'[q] = None => held'[q] = {} /\ seen'[q] = NothingSeen
    BY <1>1, <1>2 DEF LocalTyped, Running
  <2> QED BY <2>1, <2>2 DEF LocalTyped, Running
<1>4. Knows(r)'
  <2>1. /\ request'[r] = k /\ step'[r] = 1 /\ held'[r] = {} /\ seen'[r] = NothingSeen
    BY <1>1, <1>2 DEF LocalTyped
  <2>2. Running(r)' => Cmd(r)' # NoCommand
    BY <2>1 DEF Cmd
  <2>3. seen'[r].receipt = FALSE
    BY <2>1 DEF NothingSeen
  <2> QED BY <2>1, <2>2, <2>3 DEF Knows
<1>5. ASSUME NEW q \in Requests, q # r
      PROVE  Knows(q)'
  <2>1. Same(q)
    BY <1>1, <1>5 DEF LocalTyped, Same
  <2>2. Running(q) => sent'[request[q]] = sent[request[q]]
    BY <1>1, Busy DEF IInv, Knows, Cmd
  <2> QED BY <1>1, <2>1, <2>2, KnowsKept DEF IInv, tables
<1>6. LocalInv'
  BY <1>1, <1>3, <1>4, <1>5 DEF LocalInv, OneHolder
<1> QED BY <1>6, NoRowsWritten

LEMMA SubmitStep ==
    ASSUME IInv, NEW r \in Requests, Submit(r) \/ Repeat(r)
    PROVE  IInv'
<1>1. Typed /\ sent \in [Keys -> Commands \cup {NoCommand}]
  BY TypeParts DEF IInv
<1>2. CASE Submit(r)
  <2>1. PICK k \in Keys, op \in Operations :
           \E in \in Offered(op, Client[k]) : /\ sent[k] = NoCommand
                                              /\ sent' = [sent EXCEPT ![k] = in]
                                              /\ request' = [request EXCEPT ![r] = k]
    BY <1>2 DEF Submit
  <2>2. PICK in \in Offered(op, Client[k]) : /\ sent[k] = NoCommand
                                             /\ sent' = [sent EXCEPT ![k] = in]
                                             /\ request' = [request EXCEPT ![r] = k]
    BY <2>1
  <2>3. in \in Commands /\ (in.op # "create" => deal[in.deal].life # "absent")
    BY <1>1, OfferedParts, DealsAssumption
  <2>4. in # NoCommand
    BY <2>3, CommandParts DEF NoCommand
  <2>5. /\ sent' \in [Keys -> Commands \cup {NoCommand}] /\ sent'[k] = in
        /\ \A j \in Keys : sent'[j] = sent[j] \/ j = k
    BY <1>1, <2>2, <2>3
  <2> QED BY <1>2, <2>2, <2>3, <2>4, <2>5, StartStep DEF Submit
<1>3. CASE Repeat(r)
  <2>1. PICK k \in Keys : sent[k] # NoCommand /\ request' = [request EXCEPT ![r] = k]
    BY <1>3 DEF Repeat
  <2> QED BY <1>1, <1>3, <2>1, StartStep DEF Repeat
<1> QED BY <1>2, <1>3

\* What a request reads with a lock is what the tables say.
LEMMA ReadingParts ==
    ASSUME Typed, SentSound, NEW r \in Requests, Running(r), Knows(r), ~Done(r)
    PROVE  LET got == Reading(r)
               in == Cmd(r)
               n == step[r] IN
           /\ got \in SeenRows
           /\ n = 1 => /\ got.receipt = (request[r] \in receipts)
                       /\ <<"key", request[r]>> \in Wanted(r)
           /\ n > 1 => got.receipt = seen[r].receipt
           /\ got.receipt /\ n = 2 => /\ <<"workspace">> \in Wanted(r)
                                      /\ got.deal = deal[in.deal]
                                      /\ got.member = member[in.actor]
           /\ ~got.receipt /\ n = 2 /\ in.op # "create" =>
                <<"deal", in.deal>> \in Wanted(r) /\ got.deal = deal[in.deal]
           /\ ~got.receipt /\ n = 3 => <<"workspace">> \in Wanted(r)
                                       /\ got.member = member[in.actor]
           /\ ~got.receipt /\ in.op \in {"create", "update"} =>
                /\ n = 4 => got.company = (company[in.company] = "active")
                /\ n = 5 => got.responsible = member[in.responsible].active
           /\ ~got.receipt =>
                /\ n > 2 => got.deal = seen[r].deal
                /\ n > 3 => got.member = seen[r].member
                /\ n > 4 => got.company = seen[r].company
<1> DEFINE in == Cmd(r)
           n == step[r]
           lock == NextLock(r)
           got == Reading(r)
<1>1. /\ in \in Commands /\ request[r] \in Keys /\ n \in 1 .. 5
      /\ seen[r] \in SeenRows
  BY Busy, NextLocks DEF Typed
<1>2. /\ in.actor \in Members
      /\ in.op # "create" => in.deal \in Deals
      /\ in.op \in {"create", "update"} => in.company \in Companies /\ in.responsible \in Members
      /\ in.op \in {"create", "update", "move", "archive", "restore"}
  BY <1>1, CommandParts
<1>3. /\ member[in.actor] \in MemberRows
      /\ in.op # "create" => deal[in.deal] \in DealRows
      /\ in.op \in {"create", "update"} => member[in.responsible].active \in BOOLEAN
  BY <1>2 DEF Typed, TypeOK, MemberRows
<1>4. CASE n = 1
  <2>1. lock = "key"
    BY <1>4, NextLocks
  <2>2. got = [seen[r] EXCEPT !.receipt = request[r] \in receipts]
        /\ Wanted(r) = {<<"key", request[r]>>}
    BY <2>1 DEF Reading, Wanted
  <2>3. got \in SeenRows /\ got.receipt = (request[r] \in receipts)
    <3> DEFINE stored == request[r] \in receipts
    <3>1. stored \in BOOLEAN /\ got = [seen[r] EXCEPT !.receipt = stored]
      BY <2>2
    <3> HIDE DEF stored
    <3>2. got \in SeenRows /\ got.receipt = stored
      BY <1>1, <3>1 DEF SeenRows
    <3> QED BY <3>2 DEF stored
  <2> QED BY <1>4, <2>2, <2>3
<1>5. CASE n = 2 /\ seen[r].receipt
  <2>1. lock = "actor" /\ in.op = "move"
    BY <1>5, NextLocks
  <2>2. got = [seen[r] EXCEPT !.member = member[in.actor], !.deal = deal[in.deal]]
        /\ Wanted(r) = {<<"workspace">>, <<"member", in.actor>>}
    BY <1>5, <2>1 DEF Reading, Wanted, ActorLocks
  <2>3. /\ got \in SeenRows /\ got.receipt = seen[r].receipt
        /\ got.deal = deal[in.deal] /\ got.member = member[in.actor]
    BY <1>1, <1>2, <1>3, <2>1, <2>2 DEF SeenRows
  <2>4. got.receipt /\ <<"workspace">> \in Wanted(r)
    BY <1>5, <2>2, <2>3
  <2> QED BY <1>5, <2>3, <2>4
<1>6. CASE n = 2 /\ ~seen[r].receipt
  <2>1. CASE in.op = "create"
    <3>1. got = seen[r]
      BY <1>6, <2>1, NextLocks DEF Reading
    <3> QED BY <1>1, <1>6, <2>1, <3>1
  <2>2. CASE in.op # "create"
    <3>1. lock = "deal"
      BY <1>6, <2>2, NextLocks
    <3>2. got = [seen[r] EXCEPT !.deal = deal[in.deal]] /\ Wanted(r) = {<<"deal", in.deal>>}
      BY <3>1 DEF Reading, Wanted, DealLocks
    <3> QED BY <1>1, <1>3, <1>6, <2>2, <3>2 DEF SeenRows
  <2> QED BY <2>1, <2>2
<1>7. CASE n > 2
  <2>1. ~seen[r].receipt
    BY <1>1, <1>7, NextLocks
  <2>2. CASE n = 3
    <3>1. lock = "actor"
      BY <2>1, <2>2, NextLocks
    <3>2. got = [seen[r] EXCEPT !.member = member[in.actor], !.deal = seen[r].deal]
          /\ Wanted(r) = {<<"workspace">>, <<"member", in.actor>>}
      BY <2>1, <3>1 DEF Reading, Wanted, ActorLocks
    <3>3. /\ got \in SeenRows /\ got.receipt = seen[r].receipt
          /\ got.deal = seen[r].deal /\ got.member = member[in.actor]
      BY <1>1, <1>3, <3>2 DEF SeenRows
    <3> QED BY <2>1, <2>2, <3>2, <3>3
  <2>3. CASE n = 4 /\ in.op \in {"create", "update"}
    <3>1. got = [seen[r] EXCEPT !.company = company[in.company] = "active"]
      BY <2>1, <2>3, NextLocks DEF Reading
    <3>2. /\ got \in SeenRows /\ got.receipt = seen[r].receipt
          /\ got.deal = seen[r].deal /\ got.member = seen[r].member
          /\ got.company = (company[in.company] = "active")
      BY <1>1, <3>1 DEF SeenRows
    <3> QED BY <2>1, <2>3, <3>2
  <2>4. CASE n = 4 /\ in.op = "move"
    <3>1. got = seen[r]
      BY <2>1, <2>4, NextLocks DEF Reading
    <3> QED BY <1>1, <2>1, <2>4, <3>1
  <2>5. CASE n = 5
    <3>1. in.op \in {"create", "update"}
      BY <1>2, <2>1, <2>5, NextLocks
    <3>2. got = [seen[r] EXCEPT !.responsible = member[in.responsible].active]
      BY <2>1, <2>5, <3>1, NextLocks DEF Reading
    <3> QED BY <1>1, <1>3, <2>1, <2>5, <3>1, <3>2 DEF SeenRows
  <2>6. /\ in.op \in {"archive", "restore"} => n <= 3
        /\ n \in {3, 4, 5}
    BY <1>1, <1>7, <2>1, NextLocks
  <2> QED BY <1>2, <2>2, <2>3, <2>4, <2>5, <2>6
<1> QED BY <1>1, <1>4, <1>5, <1>6, <1>7
\* A lock is granted to one request, which then knows one thing more.
LEMMA TakeStep ==
    ASSUME IInv, NEW r \in Requests, Take(r)
    PROVE  IInv'
<1> DEFINE in == Cmd(r)
           n == step[r]
           got == Reading(r)
<1>1. /\ Running(r) /\ ~Done(r) /\ \A q \in Requests : ~WaitsFor(r, q)
      /\ held' = [held EXCEPT ![r] = @ \cup Wanted(r)]
      /\ seen' = [seen EXCEPT ![r] = got]
      /\ step' = [step EXCEPT ![r] = n + 1]
      /\ UNCHANGED <<tables, sent, request, effects>>
  BY DEF Take
<1>2. /\ Typed /\ LocalTyped /\ OneHolder /\ SentSound /\ Knows(r)
      /\ sent \in [Keys -> Commands \cup {NoCommand}]
  BY TypeParts DEF IInv
<1>3. n \in 1 .. 5 /\ request[r] \in Keys /\ in \in Commands /\ got \in SeenRows
  BY <1>1, <1>2, Busy, NextLocks, ReadingParts
<1>4. /\ held'[r] = held[r] \cup Wanted(r) /\ seen'[r] = got /\ step'[r] = n + 1
      /\ request'[r] = request[r]
      /\ \A q \in Requests \ {r} : Same(q)
  BY <1>1, <1>2 DEF LocalTyped, Same
<1>5. LocalTyped'
  <2>1. /\ request' \in [Requests -> Keys \cup {None}] /\ step' \in [Requests -> 0 .. 6]
        /\ seen' \in [Requests -> SeenRows]
    BY <1>1, <1>2, <1>3 DEF LocalTyped
  <2>2. held' = [q \in Requests |-> held'[q]]
    <3>1. held = [q \in Requests |-> held[q]]
      BY <1>2 DEF LocalTyped
    <3>2. held' = [q \in Requests |-> IF q = r THEN held[r] \cup Wanted(r) ELSE held[q]]
      BY <1>1, <3>1
    <3> QED BY <3>2
  <2>3. ASSUME NEW q \in Requests, request'[q] = None
        PROVE  held'[q] = {} /\ seen'[q] = NothingSeen
    <3>1. q # r
      BY <1>1, <2>3 DEF Running
    <3> QED BY <1>2, <1>4, <2>3, <3>1 DEF LocalTyped, Running, Same
  <2> QED BY <2>1, <2>2, <2>3 DEF LocalTyped, Running
<1>6. OneHolder'
  <2>1. ASSUME NEW q \in Requests, q # r
        PROVE  Wanted(r) \cap held[q] = {}
    <3>1. CASE Running(q)
      BY <1>1, <2>1, <3>1 DEF WaitsFor
    <3>2. CASE ~Running(q)
      BY <1>2, <3>2 DEF LocalTyped
    <3> QED BY <3>1, <3>2
  <2>2. \A q \in Requests : held'[q] = IF q = r THEN held[r] \cup Wanted(r) ELSE held[q]
    BY <1>4 DEF Same
  <2> QED BY <1>2, <2>1, <2>2 DEF OneHolder
<1>7. Knows(r)'
  <2> HIDE DEF n, got
  <2>1. Cmd(r)' = in /\ UNCHANGED <<deal, member, company, receipts>>
    BY <1>1, <1>4 DEF Cmd, tables
  <2>2. /\ in # NoCommand
        /\ n > 1 => /\ <<"key", request[r]>> \in held[r]
                    /\ request[r] \in receipts => seen[r].receipt
        /\ ~seen[r].receipt /\ n > 2 /\ in.op # "create"
             => <<"deal", in.deal>> \in held[r] /\ seen[r].deal = deal[in.deal]
        /\ ~seen[r].receipt /\ n > 3
             => <<"workspace">> \in held[r] /\ seen[r].member = member[in.actor]
        /\ ~seen[r].receipt /\ in.op \in {"create", "update"}
             => (n > 4 => seen[r].company = (company[in.company] = "active"))
    BY <1>1, <1>2 DEF Knows, n
  <2>3. /\ n = 1 => /\ got.receipt = (request[r] \in receipts)
                    /\ <<"key", request[r]>> \in Wanted(r)
        /\ n > 1 => got.receipt = seen[r].receipt
        /\ got.receipt /\ n = 2 => /\ <<"workspace">> \in Wanted(r)
                                   /\ got.deal = deal[in.deal]
                                   /\ got.member = member[in.actor]
        /\ ~got.receipt /\ n = 2 /\ in.op # "create" =>
             <<"deal", in.deal>> \in Wanted(r) /\ got.deal = deal[in.deal]
        /\ ~got.receipt /\ n = 3 => <<"workspace">> \in Wanted(r)
                                    /\ got.member = member[in.actor]
        /\ ~got.receipt /\ in.op \in {"create", "update"} =>
             /\ n = 4 => got.company = (company[in.company] = "active")
             /\ n = 5 => got.responsible = member[in.responsible].active
        /\ ~got.receipt =>
             /\ n > 2 => got.deal = seen[r].deal
             /\ n > 3 => got.member = seen[r].member
             /\ n > 4 => got.company = seen[r].company
    BY <1>1, <1>2, ReadingParts DEF n, got
  <2>4. seen[r].receipt => n <= (IF in.op = "move" THEN 2 ELSE 1)
    BY <1>1, <1>2, NextLocks DEF n
  <2>5. /\ <<"key", request[r]>> \in held'[r]
        /\ request[r] \in receipts => got.receipt
    <3>1. CASE n = 1
      BY <1>4, <2>3, <3>1
    <3>2. CASE n > 1
      BY <1>4, <2>2, <2>3, <3>2
    <3> QED BY <1>3, <3>1, <3>2
  <2>6. ASSUME got.receipt
        PROVE  n <= 2 /\ (in.op # "move" => n <= 1)
    <3>1. CASE n = 1
      BY <3>1
    <3>2. CASE n > 1
      <4>1. seen[r].receipt
        BY <2>3, <2>6, <3>2
      <4> QED BY <1>3, <2>4, <4>1
    <3> QED BY <1>3, <3>1, <3>2
  <2>7. got.receipt /\ n > 1 => /\ <<"workspace">> \in held'[r]
                                /\ got.deal = deal[in.deal]
                                /\ got.member = member[in.actor]
    BY <1>3, <1>4, <2>3, <2>6
  <2>8. ~got.receipt /\ n > 1 /\ in.op # "create"
          => <<"deal", in.deal>> \in held'[r] /\ got.deal = deal[in.deal]
    BY <1>3, <1>4, <2>2, <2>3
  <2>9. ~got.receipt /\ n > 2
          => <<"workspace">> \in held'[r] /\ got.member = member[in.actor]
    BY <1>3, <1>4, <2>2, <2>3
  <2>10. ~got.receipt /\ in.op \in {"create", "update"}
           => /\ n > 3 => got.company = (company[in.company] = "active")
              /\ n > 4 => got.responsible = member[in.responsible].active
    BY <1>3, <2>2, <2>3
  <2>11. /\ step'[r] = n + 1 /\ seen'[r] = got /\ request'[r] = request[r] /\ n \in 1 .. 5
    BY <1>3, <1>4 DEF n
  <2> QED BY <2>1, <2>2, <2>5, <2>6, <2>7, <2>8, <2>9, <2>10, <2>11 DEF Knows
<1>8. ASSUME NEW q \in Requests, q # r
      PROVE  Knows(q)'
  BY <1>1, <1>2, <1>4, <1>8, KnowsKept DEF IInv, tables
<1>9. LocalInv'
  BY <1>5, <1>6, <1>7, <1>8 DEF LocalInv
<1> QED BY <1>1, <1>2, <1>9, NoRowsWritten
-----------------------------------------------------------------------------
(* The commits. *)

\* What a request that is at its commit has seen is so.
LEMMA AtCommit ==
    ASSUME IInv, NEW r \in Requests, Done(r), ~seen[r].receipt, Allowed(r)
    PROVE  LET k == request[r]
               in == Cmd(r)
               row == deal[in.deal] IN
           /\ k \in Keys /\ in \in Commands /\ in # NoCommand
           /\ <<"key", k>> \in held[r] /\ k \notin receipts
           /\ <<"workspace">> \in held[r]
           /\ \/ Manages(member[in.actor])
              \/ in.op = "move" /\ MayTransition(member[in.actor], row, in.actor)
           /\ in.op \in {"create", "update"} =>
                company[in.company] = "active" /\ member[in.responsible].active
           /\ in.op # "create" => /\ in.deal \in Deals /\ <<"deal", in.deal>> \in held[r]
                                  /\ seen[r].deal = row
                                  /\ row.life # "absent" /\ row.version = in.version
                                  /\ row \in DealRows /\ row.stage \in Stages
<1> DEFINE k == request[r]
           in == Cmd(r)
           row == deal[in.deal]
<1>1. /\ Typed /\ SentSound /\ Knows(r) /\ Running(r) /\ step[r] \in 1 .. 6
      /\ step[r] > 3 /\ (in.op \in {"create", "update"} => step[r] > 5)
  BY AtTheEnd DEF IInv
<1>2. k \in Keys /\ in \in Commands
  BY <1>1, Busy
<1>3. /\ in.op \in {"create", "update", "move", "archive", "restore"}
      /\ in.op # "create" => in.deal \in Deals
  BY <1>2, CommandParts
<1>4. /\ in # NoCommand
      /\ <<"key", k>> \in held[r] /\ k \notin receipts
      /\ in.op # "create" => <<"deal", in.deal>> \in held[r] /\ seen[r].deal = row
      /\ <<"workspace">> \in held[r] /\ seen[r].member = member[in.actor]
      /\ in.op \in {"create", "update"} =>
           /\ seen[r].company = (company[in.company] = "active")
           /\ seen[r].responsible = member[in.responsible].active
  BY <1>1 DEF Knows
<1>5. in.op # "create" => row.life # "absent" /\ row \in DealRows /\ row.stage \in Stages
  BY <1>1, <1>2, <1>3, <1>4 DEF SentSound, Typed, TypeOK, Cmd
<1>6. /\ \/ Manages(seen[r].member)
         \/ in.op = "move" /\ MayTransition(seen[r].member, seen[r].deal, in.actor)
      /\ in.op \in {"create", "update"} => seen[r].company /\ seen[r].responsible
      /\ in.op # "create" => in.version = seen[r].deal.version
  BY <1>3 DEF Allowed, MayCreate, MayUpdate, MayMove, MayChangeLife, PartiesAvailable,
              VersionMatches
<1> HIDE DEF k, in, row
<1>7. in.op \in {"create", "update"} =>
        company[in.company] = "active" /\ member[in.responsible].active
  BY <1>4, <1>6
<1>8. \/ Manages(member[in.actor])
      \/ in.op = "move" /\ MayTransition(member[in.actor], row, in.actor)
  <2>1. CASE Manages(seen[r].member)
    BY <1>4, <2>1
  <2>2. CASE in.op = "move" /\ MayTransition(seen[r].member, seen[r].deal, in.actor)
    <3>1. in.op # "create"
      BY <2>2
    <3>2. seen[r].deal = row /\ seen[r].member = member[in.actor]
      BY <1>4, <3>1
    <3> QED BY <2>2, <3>2
  <2> QED BY <1>6, <2>1, <2>2
<1>9. in.op # "create" => row.version = in.version
  BY <1>4, <1>6
<1> QED BY <1>2, <1>3, <1>4, <1>5, <1>7, <1>8, <1>9 DEF k, in, row

\* What a commit has to keep.
LEMMA CommitKeeps ==
    ASSUME IInv, NEW r \in Requests, NEW ops, Commit(r, ops),
           deal' \in [Deals -> DealRows],
           \A d \in Deals : IF deal'[d].life = "absent" THEN history'[d] = << >>
                            ELSE deal'[d].stage \in Stages,
           history' \in [Deals -> Seq(Transitions)],
           outcome' \in [Converted -> {"open", "won", "lost"}],
           \A d \in Deals : deal[d].life # "absent" =>
             /\ deal'[d].life # "absent" /\ deal'[d].version >= deal[d].version
             /\ deal'[d] # deal[d] => <<"deal", d>> \in held[r],
           \/ effects' = effects
           \/ /\ Counted(r)
              /\ Cmd(r).op # "create" => deal'[Cmd(r).deal].version > Cmd(r).version,
           DealRowsAgree'
    PROVE  IInv'
<1> DEFINE k == request[r]
           in == Cmd(r)
<1>1. /\ Done(r) /\ ~seen[r].receipt /\ Allowed(r)
      /\ receipts' = receipts \cup {k} /\ Close(r)
      /\ UNCHANGED <<company, member, lapsed, sent>>
  BY DEF Commit
<1>2. /\ k \in Keys /\ in \in Commands /\ in # NoCommand
      /\ <<"key", k>> \in held[r] /\ k \notin receipts /\ <<"workspace">> \in held[r]
      /\ in.op # "create" => in.deal \in Deals /\ deal[in.deal].version = in.version
  BY <1>1, AtCommit
<1>3. /\ Typed /\ RowsTyped /\ OneHolder /\ SentSound /\ EffectsTell
      /\ sent \in [Keys -> Commands \cup {NoCommand}]
  BY TypeParts DEF IInv
<1>4. ASSUME NEW q \in Requests, q # r
      PROVE  Knows(q)'
  <2>1. Same(q) /\ Knows(q)
    BY <1>1, <1>4, Closed DEF IInv
  <2>2. \A lock \in held[r] : lock \notin held[q]
    BY <1>3, <1>4 DEF OneHolder
  <2>3. request[q] \in receipts' \ receipts => <<"key", request[q]>> \notin held[q]
    BY <1>1, <1>2, <2>2
  <2>4. \A d \in Deals : deal[d].life # "absent" /\ deal'[d] # deal[d]
          => <<"deal", d>> \notin held[q] /\ <<"workspace">> \notin held[q]
    BY <1>2, <2>2
  <2>5. <<"workspace">> \notin held[q]
    BY <1>2, <2>2
  <2> QED BY <1>1, <1>3, <2>1, <2>3, <2>4, <2>5, KnowsKept
<1>5. SentSound'
  <2>1. ASSUME NEW j \in Keys, sent[j] # NoCommand, sent[j].op # "create"
        PROVE  deal'[sent[j].deal].life # "absent"
    <3>1. sent[j].deal \in Deals
      BY <1>3, <2>1, CommandParts
    <3> QED BY <1>3, <2>1, <3>1 DEF SentSound
  <2> QED BY <1>1, <2>1 DEF SentSound
<1>6. /\ effects' \in [Keys -> Nat]
      /\ \A j \in Keys : effects'[j] <= 1 \/ j \in lapsed'
      /\ EffectsTell'
  <2>1. sent[k] = in
    BY DEF Cmd
  <2>2. effects[k] \in Nat
    BY <1>2, <1>3 DEF RowsTyped
  <2>3. effects[k] = 0 \/ (in.op = "create" /\ k \in lapsed)
    <3>1. in.op # "create" => effects[k] = 0 \/ deal[in.deal].version > in.version
      BY <1>2, <1>3, <2>1 DEF EffectsTell
    <3>2. in.op # "create" => deal[in.deal].version \in Nat
      BY <1>2, <1>3 DEF RowsTyped, DealRows
    <3>3. in.op = "create" => effects[k] = 0 \/ k \in lapsed
      BY <1>2, <1>3, <2>1 DEF EffectsTell
    <3>4. CASE in.op # "create"
      <4>1. deal[in.deal].version = in.version /\ deal[in.deal].version \in Nat
        BY <1>2, <3>2, <3>4
      <4>2. ~(deal[in.deal].version > in.version)
        BY <4>1
      <4> QED BY <3>1, <3>4, <4>2
    <3> QED BY <3>3, <3>4
  <2>4. /\ \A j \in Keys \ {k} : effects'[j] = effects[j]
        /\ effects'[k] = effects[k] \/ effects'[k] = effects[k] + 1
        /\ effects' \in [Keys -> Nat]
    <3>1. effects \in [Keys -> Nat]
      BY <1>3 DEF RowsTyped
    <3>2. effects' = effects \/ effects' = [effects EXCEPT ![k] = effects[k] + 1]
      BY DEF Counted
    <3> QED BY <1>2, <2>2, <3>1, <3>2
  <2>5. \A j \in Keys : effects'[j] <= 1 \/ j \in lapsed
    BY <1>3, <2>2, <2>3, <2>4 DEF RowsTyped
  <2>6. ASSUME NEW j \in Keys, effects'[j] # 0
        PROVE  /\ sent[j] # NoCommand
               /\ IF sent[j].op = "create" THEN j \in receipts' \cup lapsed
                  ELSE effects'[j] = 1 /\ deal'[sent[j].deal].version > sent[j].version
    <3>1. CASE j = k /\ in.op = "create"
      BY <1>1, <1>2, <2>1, <3>1
    <3>2. CASE j = k /\ in.op # "create"
      <4>1. effects[k] = 0
        BY <2>3, <3>2
      <4>2. effects' # effects
        BY <2>6, <3>2, <4>1
      <4>3. Counted(r) /\ deal'[in.deal].version > in.version
        BY <3>2, <4>2
      <4>4. effects'[k] = 1
        BY <2>4, <2>6, <3>2, <4>1
      <4> QED BY <1>2, <2>1, <3>2, <4>3, <4>4
    <3>3. CASE j # k
      <4>1. effects[j] # 0 /\ effects'[j] = effects[j]
        BY <2>4, <2>6, <3>3
      <4>2. /\ sent[j] # NoCommand
            /\ IF sent[j].op = "create" THEN j \in receipts \cup lapsed
               ELSE effects[j] = 1 /\ deal[sent[j].deal].version > sent[j].version
        BY <1>3, <4>1 DEF EffectsTell
      <4>3. CASE sent[j].op = "create"
        BY <1>1, <4>2, <4>3
      <4>4. CASE sent[j].op # "create"
        <5>1. sent[j].deal \in Deals /\ sent[j].version \in Nat
              /\ deal[sent[j].deal].life # "absent"
          BY <1>3, <4>2, <4>4, CommandParts DEF SentSound
        <5>2. /\ deal[sent[j].deal].version \in Nat /\ deal'[sent[j].deal].version \in Nat
              /\ deal'[sent[j].deal].version >= deal[sent[j].deal].version
          BY <1>3, <5>1 DEF RowsTyped, DealRows
        <5> QED BY <4>1, <4>2, <4>4, <5>1, <5>2
      <4> QED BY <4>3, <4>4
    <3> QED BY <3>1, <3>2, <3>3
  <2> QED BY <1>1, <2>4, <2>5, <2>6 DEF EffectsTell
<1>7. RowsTyped'
  BY <1>1, <1>2, <1>3, <1>6 DEF RowsTyped
<1>8. LocalTyped' /\ OneHolder' /\ Knows(r)'
  BY <1>1, Closed
<1>9. Typed'
  BY <1>1, <1>3, <1>7, <1>8, NewTypes
<1> QED BY <1>4, <1>5, <1>6, <1>8, <1>9 DEF IInv
\* The part of DealRowsAgree about the history of one deal.
Explained(d) ==
    LET h == history[d] IN
    /\ h # << >> /\ h[1].from = None
    /\ \A i \in 2 .. Len(h) : /\ h[i].from = h[i - 1].to
                             /\ h[i].version > h[i - 1].version
    /\ h[Len(h)].to = deal[d].stage /\ h[Len(h)].version <= deal[d].version

LEMMA AgreeParts ==
    /\ DealRowsAgree <=> /\ \A d \in Deals : deal[d].life # "absent" => Explained(d)
                         /\ \A d \in Converted : outcome[d] = Class[deal[d].stage]
    /\ DealRowsAgree' <=> /\ \A d \in Deals : deal'[d].life # "absent" => Explained(d)'
                          /\ \A d \in Converted : outcome'[d] = Class[deal'[d].stage]
  BY DEF DealRowsAgree, Explained

\* A deal whose stage and history stay, and whose version does not fall, stays
\* explained.
LEMMA StageKept ==
    ASSUME Typed, NEW d \in Deals, deal[d].life # "absent", Explained(d),
           history'[d] = history[d], deal'[d] \in DealRows, deal'[d].stage = deal[d].stage,
           deal'[d].version >= deal[d].version
    PROVE  Explained(d)'
<1> DEFINE h == history[d]
<1>1. h \in Seq(Transitions) /\ h # << >>
  BY DEF Typed, Explained
<1>2. Len(h) \in 1 .. Len(h) /\ Len(h) \in Nat
  BY <1>1
<1>3. h[Len(h)].version \in Nat /\ deal[d].version \in Nat /\ deal'[d].version \in Nat
  <2>1. h[Len(h)] \in Transitions
    BY <1>1, <1>2, ElementOfSeq
  <2> QED BY <2>1 DEF Transitions, Typed, TypeOK, DealRows
<1>4. h[Len(h)].version <= deal'[d].version
  BY <1>3 DEF Explained
<1> QED BY <1>4 DEF Explained

\* A transition from the stage a deal has, under its next version, explains it.
LEMMA StageMoved ==
    ASSUME Typed, NEW d \in Deals, deal[d].life # "absent", Explained(d),
           NEW entry \in Transitions, history'[d] = Append(history[d], entry),
           entry.from = deal[d].stage, entry.version = deal[d].version + 1,
           deal'[d].stage = entry.to, deal'[d].version = entry.version
    PROVE  Explained(d)'
<1> DEFINE h == history[d]
           n == Len(h)
           g == Append(h, entry)
<1>1. h \in Seq(Transitions) /\ h # << >>
  BY DEF Typed, Explained
<1>2. n \in 1 .. n /\ n \in Nat
  BY <1>1
<1>3. /\ g \in Seq(Transitions) /\ Len(g) = n + 1 /\ g[n + 1] = entry
      /\ \A i \in 1 .. n : g[i] = h[i]
  BY <1>1, AppendProperties
<1>4. h[n].version \in Nat /\ deal[d].version \in Nat
  <2>1. h[n] \in Transitions
    BY <1>1, <1>2, ElementOfSeq
  <2> QED BY <2>1 DEF Transitions, Typed, TypeOK, DealRows
<1>5. h[n].to = entry.from /\ entry.version > h[n].version
  BY <1>4 DEF Explained
<1>6. ASSUME NEW i \in 2 .. n + 1
      PROVE  g[i].from = g[i - 1].to /\ g[i].version > g[i - 1].version
  <2>1. CASE i = n + 1
    <3>1. g[i] = entry /\ g[i - 1] = h[n]
      BY <1>2, <1>3, <2>1
    <3> QED BY <1>5, <3>1
  <2>2. CASE i \in 2 .. n
    <3>1. g[i] = h[i] /\ g[i - 1] = h[i - 1]
      BY <1>2, <1>3, <2>2
    <3> QED BY <2>2, <3>1 DEF Explained
  <2> QED BY <1>2, <2>1, <2>2
<1>7. g # << >> /\ g[1].from = None
  <2>1. g[1] = h[1]
    BY <1>2, <1>3
  <2> QED BY <1>1, <1>2, <1>3, <2>1 DEF Explained
<1>8. entry.version <= deal'[d].version
  BY <1>4
<1> HIDE DEF g
<1>9. history'[d] = g
  BY DEF g
<1> QED BY <1>3, <1>6, <1>7, <1>8, <1>9 DEF Explained

LEMMA CreateStep ==
    ASSUME IInv, NEW r \in Requests, Create(r)
    PROVE  IInv'
<1> DEFINE in == Cmd(r)
<1>1. Commit(r, {"create"}) /\ Counted(r) /\ UNCHANGED outcome
  BY DEF Create
<1>2. PICK d \in Deals :
         /\ deal[d].life = "absent"
         /\ deal' = [deal EXCEPT ![d] =
              [life |-> "active", stage |-> in.stage, version |-> 1,
               company |-> in.company, responsible |-> in.responsible]]
         /\ Recorded(d, Created(in.stage))
  BY DEF Create
<1>3. in.op = "create" /\ in \in Commands
  BY <1>1, AtCommit DEF Commit
<1>4. in.stage \in Stages /\ in.company \in Companies /\ in.responsible \in Members
  BY <1>3, CommandParts
<1>5. Typed /\ RowsTyped
  BY TypeParts DEF IInv
<1> HIDE DEF in
<1>6. /\ deal' \in [Deals -> DealRows] /\ \A e \in Deals \ {d} : deal'[e] = deal[e]
      /\ deal'[d].life = "active" /\ deal'[d].stage = in.stage /\ deal'[d].version = 1
  BY <1>2, <1>4, <1>5 DEF RowsTyped, DealRows
<1>7. Created(in.stage) \in Transitions
  BY <1>4 DEF Created, Transitions
<1>8. history[d] = << >>
  BY <1>2, <1>5 DEF RowsTyped
<1>9. /\ history' = [history EXCEPT ![d] = Append(@, Created(in.stage))]
      /\ Append(<< >>, Created(in.stage)) = <<Created(in.stage)>>
  BY <1>2 DEF Recorded
<1>10. /\ history'[d] = <<Created(in.stage)>>
       /\ history' \in [Deals -> Seq(Transitions)]
       /\ \A e \in Deals \ {d} : history'[e] = history[e]
  BY <1>5, <1>7, <1>8, <1>9 DEF RowsTyped
<1>11. Explained(d)'
  BY <1>6, <1>10 DEF Explained, Created
<1>12. ASSUME NEW e \in Deals, deal[e].life # "absent"
       PROVE  /\ e # d /\ deal'[e] = deal[e] /\ deal'[e].version >= deal[e].version
              /\ Explained(e)'
  <2>1. e # d /\ deal'[e] = deal[e] /\ history'[e] = history[e]
    BY <1>2, <1>6, <1>10, <1>12
  <2>2. deal[e] \in DealRows /\ deal[e].version \in Nat
    BY <1>5 DEF RowsTyped, DealRows
  <2>3. Explained(e)
    BY <1>12, AgreeParts DEF IInv
  <2> QED BY <1>5, <1>12, <2>1, <2>2, <2>3, StageKept
<1>13. DealRowsAgree'
  <2>1. \A e \in Deals : deal'[e].life # "absent" => Explained(e)'
    BY <1>6, <1>11, <1>12
  <2>2. \A e \in Converted : outcome'[e] = Class[deal'[e].stage]
    BY <1>1, <1>5, <1>12, AgreeParts DEF IInv, RowsTyped
  <2> QED BY <2>1, <2>2, AgreeParts
<1>14. \A e \in Deals : IF deal'[e].life = "absent" THEN history'[e] = << >>
                        ELSE deal'[e].stage \in Stages
  BY <1>4, <1>5, <1>6, <1>10 DEF RowsTyped
<1>15. outcome' \in [Converted -> {"open", "won", "lost"}]
  BY <1>1, <1>5 DEF RowsTyped
<1>16. Cmd(r).op = "create"
  BY <1>3 DEF in
<1> QED BY <1>1, <1>6, <1>10, <1>12, <1>13, <1>14, <1>15, <1>16, CommitKeeps

\* The commits that change a deal that is there: its row and, for a move, its
\* history and the outcome of its lead.
LEMMA WriteKeeps ==
    ASSUME IInv, NEW r \in Requests, NEW ops, Commit(r, ops), Cmd(r).op # "create",
           NEW d0, Cmd(r).deal = d0,
           NEW row \in DealRows, deal' = [deal EXCEPT ![d0] = row],
           row.life # "absent", row.stage \in Stages, row.version >= deal[d0].version,
           history' \in [Deals -> Seq(Transitions)],
           \A d \in Deals \ {d0} : history'[d] = history[d],
           outcome' \in [Converted -> {"open", "won", "lost"}],
           \A d \in Converted \ {d0} : outcome'[d] = outcome[d],
           Explained(d0)',
           d0 \in Converted => outcome'[d0] = Class[row.stage],
           \/ effects' = effects
           \/ Counted(r) /\ row.version > Cmd(r).version
    PROVE  IInv'
<1>1. d0 \in Deals /\ <<"deal", d0>> \in held[r]
  BY AtCommit DEF Commit
<1>2. Typed /\ RowsTyped
  BY TypeParts DEF IInv
<1>3. /\ deal' \in [Deals -> DealRows] /\ deal'[d0] = row
      /\ \A d \in Deals \ {d0} : deal'[d] = deal[d]
  BY <1>1, <1>2 DEF RowsTyped
<1>4. ASSUME NEW d \in Deals, d # d0, deal[d].life # "absent"
      PROVE  Explained(d)'
  <2>1. deal'[d] = deal[d] /\ history'[d] = history[d] /\ Explained(d)
    BY <1>3, <1>4, AgreeParts DEF IInv
  <2>2. deal[d] \in DealRows /\ deal[d].version \in Nat
    BY <1>2 DEF RowsTyped, DealRows
  <2> QED BY <1>2, <1>4, <2>1, <2>2, StageKept
<1>5. DealRowsAgree'
  <2>1. \A d \in Deals : deal'[d].life # "absent" => Explained(d)'
    BY <1>3, <1>4
  <2>2. \A d \in Converted : outcome'[d] = Class[deal'[d].stage]
    BY <1>2, <1>3, AgreeParts DEF IInv, RowsTyped
  <2> QED BY <2>1, <2>2, AgreeParts
<1>6. \A d \in Deals : /\ IF deal'[d].life = "absent" THEN history'[d] = << >>
                          ELSE deal'[d].stage \in Stages
                       /\ deal[d].life # "absent" =>
                            /\ deal'[d].life # "absent"
                            /\ deal'[d].version >= deal[d].version
                            /\ deal'[d] # deal[d] => <<"deal", d>> \in held[r]
  <2>1. \A d \in Deals : deal[d].version \in Nat
    BY <1>2 DEF RowsTyped, DealRows
  <2>2. ASSUME NEW d \in Deals
        PROVE  IF deal'[d].life = "absent" THEN history'[d] = << >>
               ELSE deal'[d].stage \in Stages
    <3>1. CASE d = d0
      BY <1>3, <3>1
    <3>2. CASE d # d0
      <4>1. deal'[d] = deal[d] /\ history'[d] = history[d]
        BY <1>3, <3>2
      <4>2. IF deal[d].life = "absent" THEN history[d] = << >> ELSE deal[d].stage \in Stages
        BY <1>2 DEF RowsTyped
      <4> QED BY <4>1, <4>2
    <3> QED BY <3>1, <3>2
  <2>3. ASSUME NEW d \in Deals, deal[d].life # "absent"
        PROVE  /\ deal'[d].life # "absent"
               /\ deal'[d].version >= deal[d].version
               /\ deal'[d] # deal[d] => <<"deal", d>> \in held[r]
    <3>1. CASE d = d0
      BY <1>1, <1>3, <3>1
    <3>2. CASE d # d0
      BY <1>3, <2>1, <2>3, <3>2
    <3> QED BY <3>1, <3>2
  <2> QED BY <2>2, <2>3
<1> QED BY <1>1, <1>3, <1>5, <1>6, CommitKeeps

\* The version a command asks for is that of the row, so the row is written.
LEMMA Writing ==
    ASSUME IInv, NEW r \in Requests, NEW ops, Commit(r, ops), Cmd(r).op # "create"
    PROVE  /\ Cmd(r).deal \in Deals /\ deal[Cmd(r).deal] \in DealRows
           /\ deal[Cmd(r).deal].version = Cmd(r).version /\ Cmd(r).version \in Nat
           /\ deal[Cmd(r).deal].life # "absent" /\ deal[Cmd(r).deal].stage \in Stages
           /\ seen[r].deal = deal[Cmd(r).deal]
           /\ Explained(Cmd(r).deal)
           /\ history \in [Deals -> Seq(Transitions)]
           /\ outcome \in [Converted -> {"open", "won", "lost"}]
           /\ \A d \in Converted : outcome[d] = Class[deal[d].stage]
           /\ \A row : Written(r, row) => deal' = [deal EXCEPT ![Cmd(r).deal] =
                                                     [row EXCEPT !.version = row.version + 1]]
<1>1. /\ Cmd(r).deal \in Deals /\ deal[Cmd(r).deal] \in DealRows
      /\ deal[Cmd(r).deal].version = Cmd(r).version
      /\ deal[Cmd(r).deal].life # "absent" /\ deal[Cmd(r).deal].stage \in Stages
      /\ seen[r].deal = deal[Cmd(r).deal]
  BY AtCommit DEF Commit
<1>2. deal[Cmd(r).deal].version \in Nat
  BY <1>1 DEF DealRows
<1>3. /\ Explained(Cmd(r).deal)
      /\ \A d \in Converted : outcome[d] = Class[deal[d].stage]
  BY <1>1, AgreeParts DEF IInv
<1>4. /\ history \in [Deals -> Seq(Transitions)]
      /\ outcome \in [Converted -> {"open", "won", "lost"}]
  BY TypeParts DEF IInv, RowsTyped
<1>5. \A row : Written(r, row) => deal' = [deal EXCEPT ![Cmd(r).deal] =
                                             [row EXCEPT !.version = row.version + 1]]
  BY <1>1 DEF Written
<1> QED BY <1>1, <1>2, <1>3, <1>4, <1>5

LEMMA RowVersioned ==
    ASSUME NEW row \in DealRows, NEW v \in Nat
    PROVE  LET new == [row EXCEPT !.version = v] IN
           /\ new \in DealRows
           /\ new.life = row.life /\ new.stage = row.stage /\ new.version = v
  BY DEF DealRows

LEMMA RowLife ==
    ASSUME NEW row \in DealRows, NEW l \in {"active", "archived"}
    PROVE  LET new == [row EXCEPT !.life = l] IN
           /\ new \in DealRows
           /\ new.life = l /\ new.stage = row.stage /\ new.version = row.version
  BY DEF DealRows

LEMMA RowStage ==
    ASSUME NEW row \in DealRows, NEW s \in Stages
    PROVE  LET new == [row EXCEPT !.stage = s] IN
           /\ new \in DealRows
           /\ new.life = row.life /\ new.stage = s /\ new.version = row.version
  BY DEF DealRows

LEMMA UpdateStep ==
    ASSUME IInv, NEW r \in Requests, Update(r)
    PROVE  IInv'
<1> DEFINE in == Cmd(r)
           d0 == in.deal
           old == deal[d0]
           row == [old EXCEPT !.company = in.company, !.responsible = in.responsible,
                              !.version = old.version + 1]
<1>1. Commit(r, {"update"}) /\ Counted(r) /\ UNCHANGED <<history, outcome>>
  BY DEF Update
<1>2. in.op = "update" /\ in \in Commands
  BY <1>1, AtCommit DEF Commit
<1>3. in.company \in Companies /\ in.responsible \in Members
  BY <1>2, CommandParts
<1>4. /\ d0 \in Deals /\ old \in DealRows /\ old.version = in.version /\ in.version \in Nat
      /\ old.life # "absent" /\ old.stage \in Stages /\ Explained(d0)
      /\ history \in [Deals -> Seq(Transitions)]
      /\ outcome \in [Converted -> {"open", "won", "lost"}]
      /\ \A d \in Converted : outcome[d] = Class[deal[d].stage]
  BY <1>1, <1>2, Writing
<1>5. deal \in [Deals -> DealRows]
  BY DEF IInv, Typed, TypeOK
<1>6. /\ row \in DealRows /\ row.version = in.version + 1
      /\ row.stage = old.stage /\ row.life = old.life
  <2>1. old.version + 1 \in Nat /\ old.version + 1 = in.version + 1
    BY <1>4
  <2>2. old \in DealRows
    BY <1>4
  <2> HIDE DEF old, in
  <2> HIDE DEF row
  <2>3. row = [old EXCEPT !.company = in.company, !.responsible = in.responsible,
                          !.version = old.version + 1]
    BY DEF row
  <2>4. row \in DealRows /\ row.life = old.life /\ row.stage = old.stage
        /\ row.version = old.version + 1
    BY <1>3, <2>1, <2>2, <2>3 DEF DealRows
  <2> QED BY <2>1, <2>4
<1>7. deal' = [deal EXCEPT ![d0] = row]
  BY <1>4, <1>5 DEF Update
<1> HIDE DEF row
<1>8. deal'[d0] = row
  BY <1>4, <1>7 DEF IInv, Typed, TypeOK
<1>9. PICK d : d = d0
  OBVIOUS
<1> HIDE DEF in
<1>10. row.life # "absent" /\ row.version >= old.version /\ row.version > in.version
  BY <1>4, <1>6
<1>11. Explained(d)'
  BY <1>1, <1>4, <1>6, <1>8, <1>9, <1>10, StageKept DEF IInv
<1>12. Cmd(r) = in
  BY DEF in
<1> QED BY <1>1, <1>2, <1>4, <1>6, <1>7, <1>9, <1>10, <1>11, <1>12, WriteKeeps

LEMMA ChangeLifeStep ==
    ASSUME IInv, NEW r \in Requests, ChangeLife(r)
    PROVE  IInv'
<1> DEFINE in == Cmd(r)
           d0 == in.deal
           old == deal[d0]
           life == IF in.op = "archive" THEN "archived" ELSE "active"
           changed == [old EXCEPT !.life = life]
           row == [changed EXCEPT !.version = changed.version + 1]
<1>1. /\ Commit(r, {"archive", "restore"}) /\ Counted(r) /\ UNCHANGED <<history, outcome>>
      /\ Written(r, [old EXCEPT !.life = life])
  BY DEF ChangeLife
<1>2. in.op # "create" /\ in \in Commands
  BY <1>1, AtCommit DEF Commit
<1>3. life \in {"archived", "active"}
  OBVIOUS
<1>4. /\ d0 \in Deals /\ old \in DealRows /\ old.version = in.version /\ in.version \in Nat
      /\ old.life # "absent" /\ old.stage \in Stages /\ Explained(d0)
      /\ history \in [Deals -> Seq(Transitions)]
      /\ outcome \in [Converted -> {"open", "won", "lost"}]
      /\ \A d \in Converted : outcome[d] = Class[deal[d].stage]
  BY <1>1, <1>2, Writing
<1> HIDE DEF life
<1>5. /\ changed \in DealRows /\ changed.life = life /\ changed.stage = old.stage
      /\ changed.version = old.version
  <2>1. old \in DealRows /\ life \in {"active", "archived"}
    BY <1>3, <1>4
  <2> HIDE DEF old, in
  <2> QED BY <2>1, RowLife
<1> HIDE DEF changed
<1>6. /\ row \in DealRows /\ row.version = in.version + 1
      /\ row.stage = old.stage /\ row.life = life
  <2>1. changed.version + 1 \in Nat /\ changed.version + 1 = in.version + 1
    BY <1>4, <1>5
  <2> QED BY <1>4, <1>5, <2>1, RowVersioned
<1>7. deal' = [deal EXCEPT ![d0] = row]
  BY <1>1, <1>2, Writing DEF changed
<1>8. deal'[d0] = row
  BY <1>4, <1>7 DEF IInv, Typed, TypeOK
<1>9. PICK d : d = d0
  OBVIOUS
<1> HIDE DEF row, in
<1>10. row.life # "absent" /\ row.version >= old.version /\ row.version > in.version
  BY <1>3, <1>4, <1>6
<1>11. Explained(d)'
  BY <1>1, <1>4, <1>6, <1>8, <1>9, <1>10, StageKept DEF IInv
<1>12. Cmd(r) = in
  BY DEF in
<1> QED BY <1>1, <1>2, <1>4, <1>6, <1>7, <1>9, <1>10, <1>11, <1>12, WriteKeeps

LEMMA MoveStep ==
    ASSUME IInv, NEW r \in Requests, Move(r)
    PROVE  IInv'
<1> DEFINE in == Cmd(r)
           d0 == in.deal
           old == deal[d0]
           changed == [old EXCEPT !.stage = in.stage]
           row == [changed EXCEPT !.version = changed.version + 1]
           entry == [from |-> old.stage, to |-> in.stage, version |-> old.version + 1]
<1>1. /\ Commit(r, {"move"}) /\ ~SameStage(r) /\ Counted(r)
      /\ Written(r, changed)
      /\ outcome' = Derived(d0, in.stage)
  BY DEF Move
<1>2. in.op = "move" /\ in.op # "create" /\ in \in Commands
  BY <1>1, AtCommit DEF Commit
<1>3. in.stage \in Stages
  BY <1>2, CommandParts
<1>4. /\ d0 \in Deals /\ old \in DealRows /\ old.version = in.version /\ in.version \in Nat
      /\ old.life # "absent" /\ old.stage \in Stages /\ Explained(d0)
      /\ history \in [Deals -> Seq(Transitions)]
      /\ outcome \in [Converted -> {"open", "won", "lost"}]
      /\ \A d \in Converted : outcome[d] = Class[deal[d].stage]
      /\ seen[r].deal = old
  BY <1>1, <1>2, Writing
<1>5. Class[old.stage] = "open"
  <2>1. MayMove(r)
    BY <1>1, <1>2 DEF Commit, Allowed
  <2> QED BY <1>1, <1>4, <2>1 DEF MayMove, Terminal
<1>6. /\ history' = [history EXCEPT ![d0] = Append(@, entry)]
      /\ entry \in Transitions
  <2>1. Recorded(d0, entry)
    BY <1>4 DEF Move
  <2>2. old.version + 1 \in Nat
    BY <1>4
  <2> QED BY <1>3, <1>4, <2>1, <2>2 DEF Recorded, Transitions
<1>7. /\ changed \in DealRows /\ changed.life = old.life /\ changed.stage = in.stage
      /\ changed.version = old.version
  <2>1. old \in DealRows
    BY <1>4
  <2> HIDE DEF old, in
  <2> QED BY <1>3, <2>1, RowStage
<1>8. /\ row \in DealRows /\ row.version = in.version + 1 /\ row.version = old.version + 1
      /\ row.stage = in.stage /\ row.life = old.life
  <2>1. changed.version + 1 \in Nat /\ changed.version + 1 = in.version + 1
    BY <1>4, <1>7
  <2>2. changed \in DealRows
    BY <1>7
  <2> HIDE DEF changed
  <2> QED BY <1>4, <1>7, <2>1, <2>2, RowVersioned
<1> HIDE DEF changed
<1>9. deal' = [deal EXCEPT ![d0] = row]
  BY <1>1, <1>2, Writing DEF changed
<1> HIDE DEF row
<1>10. deal'[d0] = row
  BY <1>4, <1>9 DEF IInv, Typed, TypeOK
<1>11. /\ history' \in [Deals -> Seq(Transitions)]
       /\ \A d \in Deals \ {d0} : history'[d] = history[d]
       /\ history'[d0] = Append(history[d0], entry)
  <2>1. Append(history[d0], entry) \in Seq(Transitions)
    BY <1>4, <1>6, AppendProperties
  <2> QED BY <1>4, <1>6, <2>1
<1>12. /\ outcome' \in [Converted -> {"open", "won", "lost"}]
       /\ \A d \in Converted \ {d0} : outcome'[d] = outcome[d]
       /\ d0 \in Converted => outcome'[d0] = Class[row.stage]
  <2>1. Class[in.stage] \in {"open", "won", "lost"}
    BY <1>3, DealsAssumption
  <2>2. CASE d0 \in Converted /\ Class[in.stage] # "open"
    <3>1. outcome' = [outcome EXCEPT ![d0] = Class[in.stage]]
      BY <1>1, <2>2 DEF Derived
    <3> QED BY <1>4, <1>8, <2>1, <2>2, <3>1
  <2>3. CASE ~(d0 \in Converted /\ Class[in.stage] # "open")
    <3>1. outcome' = outcome
      BY <1>1, <2>3 DEF Derived
    <3>2. d0 \in Converted => outcome[d0] = "open" /\ Class[in.stage] = "open"
      BY <1>4, <1>5, <2>3
    <3> QED BY <1>4, <1>8, <3>1, <3>2
  <2> QED BY <2>2, <2>3
<1>13. PICK d : d = d0
  OBVIOUS
<1>14. /\ entry.from = old.stage /\ entry.version = old.version + 1
       /\ row.stage = entry.to /\ row.version = entry.version
  BY <1>8
<1> HIDE DEF entry
<1>15. Typed /\ d \in Deals /\ deal[d] = old /\ deal'[d] = row
       /\ history'[d] = Append(history[d], entry) /\ entry \in Transitions
       /\ deal[d].life # "absent" /\ Explained(d)
  BY <1>4, <1>6, <1>10, <1>11, <1>13 DEF IInv
<1>16. Explained(d)'
  BY <1>14, <1>15, StageMoved
<1>17. row.life # "absent" /\ row.version >= old.version /\ row.version > in.version
       /\ row.stage \in Stages
  BY <1>3, <1>4, <1>8
<1> QED BY <1>1, <1>2, <1>8, <1>9, <1>11, <1>12, <1>13, <1>16, <1>17, WriteKeeps

LEMMA KeepStageStep ==
    ASSUME IInv, NEW r \in Requests, KeepStage(r)
    PROVE  IInv'
<1>1. Commit(r, {"move"}) /\ UNCHANGED <<deal, history, outcome, effects>>
  BY DEF KeepStage
<1>2. RowsTyped
  BY TypeParts DEF IInv
<1>3. DealRowsAgree'
  BY <1>1 DEF IInv, DealRowsAgree
<1>4. \A d \in Deals : deal[d].version \in Nat
  BY <1>2 DEF RowsTyped, DealRows
<1>5. /\ deal' \in [Deals -> DealRows]
      /\ \A d \in Deals : IF deal'[d].life = "absent" THEN history'[d] = << >>
                           ELSE deal'[d].stage \in Stages
      /\ history' \in [Deals -> Seq(Transitions)]
      /\ outcome' \in [Converted -> {"open", "won", "lost"}]
  BY <1>1, <1>2 DEF RowsTyped
<1>6. \A d \in Deals : deal[d].life # "absent" =>
        /\ deal'[d].life # "absent" /\ deal'[d].version >= deal[d].version
        /\ deal'[d] # deal[d] => <<"deal", d>> \in held[r]
  BY <1>1, <1>4
<1>7. effects' = effects
  BY <1>1
<1> QED BY <1>1, <1>3, <1>5, <1>6, <1>7, CommitKeeps
-----------------------------------------------------------------------------
(* What tenant administration, the customer graph and time do. *)

LEMMA SurroundingsStep ==
    ASSUME IInv,
           \/ \E m \in Members : MembershipChanges(m)
           \/ \E c \in Companies : CompanyChanges(c)
           \/ \E k \in Keys : ReceiptExpires(k)
    PROVE  IInv'
<1>1. /\ Typed /\ RowsTyped /\ LocalTyped /\ SentSound /\ EffectsTell /\ OneHolder
      /\ sent \in [Keys -> Commands \cup {NoCommand}]
  BY TypeParts DEF IInv
<1>2. UNCHANGED <<deal, history, outcome, sent, local, effects>>
  BY DEF MembershipChanges, CompanyChanges, ReceiptExpires
<1>3. /\ company' \in [Companies -> {"active", "archived"}]
      /\ member' \in [Members -> MemberRows]
      /\ \A r \in Requests : <<"workspace">> \in held[r] => member' = member /\ company' = company
  <2>1. ASSUME NEW m \in Members, MembershipChanges(m)
        PROVE  /\ company' \in [Companies -> {"active", "archived"}]
               /\ member' \in [Members -> MemberRows]
               /\ \A r \in Requests : <<"workspace">> \notin held[r]
    BY <1>1, <2>1, DealsAssumption DEF MembershipChanges, RowsTyped, Free
  <2>2. ASSUME NEW c \in Companies, CompanyChanges(c)
        PROVE  /\ company' \in [Companies -> {"active", "archived"}]
               /\ member' \in [Members -> MemberRows]
               /\ \A r \in Requests : <<"workspace">> \notin held[r]
    BY <1>1, <2>2 DEF CompanyChanges, RowsTyped, Free
  <2>3. ASSUME NEW k \in Keys, ReceiptExpires(k)
        PROVE  company' = company /\ member' = member
    BY <2>3 DEF ReceiptExpires
  <2> QED BY <1>1, <2>1, <2>2, <2>3 DEF RowsTyped
<1>4. /\ receipts' \subseteq receipts /\ lapsed \subseteq lapsed' /\ lapsed' \subseteq Keys
      /\ \A k \in Keys : k \in receipts \ receipts' /\ sent[k].op = "create" => k \in lapsed'
  <2>1. ASSUME NEW k \in Keys, ReceiptExpires(k)
        PROVE  /\ receipts' = receipts \ {k}
               /\ lapsed' = IF sent[k].op = "create" THEN lapsed \cup {k} ELSE lapsed
    BY <2>1 DEF ReceiptExpires
  <2>2. \/ receipts' = receipts /\ lapsed' = lapsed
        \/ \E k \in Keys : ReceiptExpires(k)
    BY DEF MembershipChanges, CompanyChanges
  <2> QED BY <1>1, <2>1, <2>2 DEF RowsTyped
<1>5. RowsTyped'
  BY <1>1, <1>2, <1>3, <1>4 DEF RowsTyped
<1>6. LocalTyped' /\ OneHolder'
  BY <1>1, <1>2 DEF local, LocalTyped, OneHolder, Running
<1>7. ASSUME NEW q \in Requests
      PROVE  Knows(q)'
  <2>1. Same(q) /\ Knows(q)
    BY <1>2 DEF local, Same, IInv
  <2> QED BY <1>1, <1>2, <1>3, <1>4, <2>1, KnowsKept
<1>8. SentSound' /\ EffectsTell'
  BY <1>1, <1>2, <1>4 DEF SentSound, EffectsTell
<1>9. DealRowsAgree'
  BY <1>2 DEF IInv, DealRowsAgree
<1>10. Typed'
  BY <1>1, <1>2, <1>5, <1>6, NewTypes
<1> QED BY <1>6, <1>7, <1>8, <1>9, <1>10 DEF IInv
-----------------------------------------------------------------------------
(* The inductive invariant and the theorems. *)

LEMMA InitInv == Init => IInv
<1> SUFFICES ASSUME Init PROVE IInv
  OBVIOUS
<1>1. /\ deal = Start
      /\ history = [d \in Deals |->
            IF Start[d].life = "absent" THEN << >> ELSE <<Created(Start[d].stage)>>]
      /\ outcome = [d \in Converted |-> Class[Start[d].stage]]
      /\ company = [c \in Companies |-> "active"]
      /\ member = [m \in Members |->
                     [active |-> TRUE, role |-> IF m = Owner THEN "owner" ELSE "member"]]
      /\ receipts = {} /\ lapsed = {}
      /\ sent = [k \in Keys |-> NoCommand]
      /\ request = [r \in Requests |-> None] /\ step = [r \in Requests |-> 0]
      /\ held = [r \in Requests |-> {}] /\ seen = [r \in Requests |-> NothingSeen]
      /\ effects = [k \in Keys |-> 0]
  BY DEF Init
<1>2. /\ Start \in [Deals -> DealRows]
      /\ \A d \in Deals : Start[d].life # "absent"
                            => Start[d].stage \in Stages /\ Start[d].version >= 1
      /\ \A d \in Converted : d \in Deals /\ Start[d].life # "absent"
      /\ Class \in [Stages -> {"open", "won", "lost"}]
  BY DealsAssumption
<1>3. NothingSeen \in SeenRows
  BY DEF NothingSeen, SeenRows, NoDeal, DealRows, MemberRows
<1>4. ASSUME NEW d \in Deals, Start[d].life # "absent"
      PROVE  history[d] \in Seq(Transitions) /\ Explained(d)
  <2>1. Created(Start[d].stage) \in Transitions
    BY <1>2, <1>4 DEF Created, Transitions
  <2>2. history[d] = <<Created(Start[d].stage)>>
    BY <1>1, <1>4
  <2> QED BY <1>1, <1>2, <1>4, <2>1, <2>2 DEF Explained, Created
<1>5. RowsTyped
  <2>1. \A d \in Deals : history[d] \in Seq(Transitions)
    <3>1. \A d \in Deals : Start[d].life = "absent" => history[d] = << >>
      BY <1>1
    <3>2. << >> \in Seq(Transitions)
      OBVIOUS
    <3> TAKE d \in Deals
    <3>3. CASE Start[d].life = "absent"
      BY <3>1, <3>2, <3>3
    <3>4. CASE Start[d].life # "absent"
      BY <1>4, <3>4
    <3> QED BY <3>3, <3>4
  <2>2. history \in [Deals -> Seq(Transitions)]
    BY <1>1, <2>1
  <2>3. member \in [Members -> MemberRows]
    BY <1>1 DEF MemberRows
  <2>4. outcome \in [Converted -> {"open", "won", "lost"}]
    BY <1>1, <1>2
  <2> QED BY <1>1, <1>2, <2>2, <2>3, <2>4 DEF RowsTyped
<1>6. LocalTyped
  BY <1>1, <1>3 DEF LocalTyped, Running
<1>7. TypeOK
  <2>1. \A r \in Requests : seen[r].deal \in DealRows /\ seen[r].member \in MemberRows
    BY <1>6 DEF LocalTyped, SeenRows
  <2>2. \A d \in Deals : history[d] \in Seq([from : Stages \cup {None}, to : Stages,
                                             version : Nat])
    BY <1>5 DEF RowsTyped, Transitions
  <2> QED BY <1>1, <1>5, <1>6, <2>1, <2>2 DEF TypeOK, RowsTyped, LocalTyped
<1>8. Typed
  BY <1>5, <1>6, <1>7 DEF Typed, RowsTyped, LocalTyped
<1>9. DealRowsAgree
  <2>1. \A d \in Converted : outcome[d] = Class[deal[d].stage]
    BY <1>1
  <2> QED BY <1>1, <1>4, <2>1, AgreeParts
<1>10. OneHolder /\ SentSound /\ EffectsTell
  BY <1>1 DEF OneHolder, SentSound, EffectsTell
<1>11. \A r \in Requests : Knows(r)
  BY <1>1 DEF Knows, Running
<1> QED BY <1>8, <1>9, <1>10, <1>11 DEF IInv

LEMMA NextInv == IInv /\ [Next]_vars => IInv'
<1> SUFFICES ASSUME IInv, [Next]_vars PROVE IInv'
  OBVIOUS
<1>1. CASE UNCHANGED vars
  <2>1. LocalTyped' /\ OneHolder'
    BY <1>1, TypeParts DEF vars, local, IInv, LocalTyped, Running, OneHolder
  <2>2. ASSUME NEW q \in Requests PROVE Knows(q)'
    BY <1>1, KnowsKept DEF vars, tables, local, IInv, Same
  <2>3. UNCHANGED <<tables, effects>> /\ LocalInv'
    BY <1>1, <2>1, <2>2 DEF vars, LocalInv
  <2>4. sent' \in [Keys -> Commands \cup {NoCommand}] /\ sent' = sent
    BY <1>1 DEF vars, IInv, Typed, TypeOK
  <2> QED BY <2>3, <2>4, NoRowsWritten
<1>2. ASSUME NEW r \in Requests, Submit(r) \/ Repeat(r)
      PROVE  IInv'
  BY <1>2, SubmitStep
<1>3. ASSUME NEW r \in Requests, Take(r)
      PROVE  IInv'
  BY <1>3, TakeStep
<1>4. ASSUME NEW r \in Requests, Replay(r) \/ Refuse(r) \/ Abandon(r) \/ BreakDeadlock(r)
      PROVE  IInv'
  BY <1>4, CloseStep DEF Replay, Refuse, Abandon, BreakDeadlock
<1>5. ASSUME NEW r \in Requests, Effect(r)
      PROVE  IInv'
  BY <1>5, CreateStep, UpdateStep, MoveStep, KeepStageStep, ChangeLifeStep DEF Effect
<1> QED BY <1>1, <1>2, <1>3, <1>4, <1>5, SurroundingsStep DEF Next

LEMMA AlwaysInv == Spec => []IInv
  BY InitInv, NextInv, PTL DEF Spec

\* Type correctness; and a command takes effect once, however often it is sent,
\* unless it is a creation whose stored outcome has expired.
THEOREM TypeCorrect == Spec => []TypeOK
<1>1. IInv => TypeOK
  BY DEF IInv, Typed
<1> QED BY <1>1, AlwaysInv, PTL

\* For any number of concurrent commands, the history of every deal leads to
\* its stage without a gap, and a converted lead has the outcome of its deal.
THEOREM RowsAlwaysAgree == Spec => []DealRowsAgree
<1>1. IInv => DealRowsAgree
  BY DEF IInv
<1> QED BY <1>1, AlwaysInv, PTL

\* What is committed, or told again, is the right of its actor at that moment,
\* and rests on parties that are active at that moment.
THEOREM ActsStayCurrent == Spec => ActsAreCurrent
<1> DEFINE Current ==
      \A r \in Requests :
         LET in == Cmd(r)
             m == member[in.actor] IN
         /\ Effect(r) => \/ Manages(m)
                         \/ in.op = "move" /\ MayTransition(m, deal[in.deal], in.actor)
         /\ Create(r) \/ Update(r) =>
              company[in.company] = "active" /\ member[in.responsible].active
         /\ Replay(r) /\ in.op = "move" =>
              /\ deal[in.deal].life = "active"
              /\ MayTransition(m, deal[in.deal], in.actor)
<1>1. IInv => Current
  <2> SUFFICES ASSUME IInv, NEW r \in Requests
               PROVE  LET in == Cmd(r)
                          m == member[in.actor] IN
         /\ Effect(r) => \/ Manages(m)
                         \/ in.op = "move" /\ MayTransition(m, deal[in.deal], in.actor)
         /\ Create(r) \/ Update(r) =>
              company[in.company] = "active" /\ member[in.responsible].active
         /\ Replay(r) /\ in.op = "move" =>
              /\ deal[in.deal].life = "active"
              /\ MayTransition(m, deal[in.deal], in.actor)
    OBVIOUS
  <2>1. Effect(r) => Done(r) /\ ~seen[r].receipt /\ Allowed(r)
    BY DEF Effect, Create, Update, Move, KeepStage, ChangeLife, Commit
  <2>2. Create(r) \/ Update(r) => Effect(r) /\ Cmd(r).op \in {"create", "update"}
    BY DEF Effect, Create, Update, Commit
  <2>3. ASSUME Replay(r), Cmd(r).op = "move"
        PROVE  /\ deal[Cmd(r).deal].life = "active"
               /\ MayTransition(member[Cmd(r).actor], deal[Cmd(r).deal], Cmd(r).actor)
    <3>1. Done(r) /\ seen[r].receipt /\ MayReplay(r)
      BY <2>3 DEF Replay
    <3>2. step[r] > 2 /\ step[r] \in 1 .. 6 /\ Running(r)
      BY <2>3, <3>1, AtTheEnd DEF IInv
    <3>3. seen[r].deal = deal[Cmd(r).deal] /\ seen[r].member = member[Cmd(r).actor]
      BY <3>1, <3>2 DEF IInv, Knows
    <3> QED BY <2>3, <3>1, <3>3 DEF MayReplay
  <2> QED BY <2>1, <2>2, <2>3, AtCommit
<1>2. IInv /\ [Next]_vars => [Current]_vars
  BY <1>1
<1> HIDE DEF Current
<1>3. Spec => [][Current]_vars
  BY <1>2, AlwaysInv, PTL DEF Spec
<1> QED BY <1>3 DEF Current, ActsAreCurrent
-----------------------------------------------------------------------------
(***************************************************************************)
(* The deals keep their book: what the locks, versions and receipts are    *)
(* for, once they have done their work.                                    *)
(***************************************************************************)

\* A command is that of the member whose key it has.
Owned == \A k \in Keys : sent[k] # NoCommand => sent[k].actor = Client[k]

LEMMA OwnedOn ==
    ASSUME IInv, Owned, [Next]_vars
    PROVE  Owned'
<1>1. sent \in [Keys -> Commands \cup {NoCommand}]
  BY DEF IInv, Typed, TypeOK
<1>2. ASSUME NEW r \in Requests, Submit(r)
      PROVE  Owned'
  <2>1. PICK k \in Keys :
          \E op \in Operations : \E in \in Offered(op, Client[k]) :
            sent' = [sent EXCEPT ![k] = in]
    BY <1>2 DEF Submit
  <2>2. PICK op \in Operations :
          \E in \in Offered(op, Client[k]) : sent' = [sent EXCEPT ![k] = in]
    BY <2>1
  <2>3. PICK in \in Offered(op, Client[k]) : sent' = [sent EXCEPT ![k] = in]
    BY <2>2
  <2>4. in.actor = Client[k]
    BY OfferedActor
  <2> QED BY <1>1, <2>3, <2>4 DEF Owned
<1>3. CASE UNCHANGED sent
  BY <1>3 DEF Owned
<1>4. ASSUME NEW r \in Requests, \/ Repeat(r) \/ Take(r) \/ Replay(r) \/ Refuse(r)
                                \/ Abandon(r) \/ BreakDeadlock(r) \/ Effect(r)
      PROVE  UNCHANGED sent
  BY <1>4 DEF Repeat, Take, Replay, Refuse, Abandon, BreakDeadlock, Effect, Create, Update,
              Move, KeepStage, ChangeLife, Commit
<1>5. ASSUME \/ \E m \in Members : MembershipChanges(m)
             \/ \E c \in Companies : CompanyChanges(c)
             \/ \E k \in Keys : ReceiptExpires(k)
      PROVE  UNCHANGED sent
  BY <1>5 DEF MembershipChanges, CompanyChanges, ReceiptExpires
<1> QED BY <1>2, <1>3, <1>4, <1>5 DEF Next, vars

LEMMA AlwaysOwned == Spec => []Owned
<1>1. Init => Owned
  BY DEF Init, Owned
<1> QED BY <1>1, OwnedOn, AlwaysInv, PTL DEF Spec

\* What a commit finds, in the words of the book.
LEMMA BookAtCommit ==
    ASSUME IInv, Owned, IInv', NEW r \in Requests, NEW ops, Commit(r, ops)
    PROVE  /\ request[r] \in Keys /\ Cmd(r) \in Commands /\ Cmd(r).op \in ops
           /\ outcome' = Book!Outcomes' /\ UNCHANGED Book!others
           /\ Cmd(r).op # "move" => Book!Manages(Client[request[r]])
           /\ Cmd(r).op = "move" => Book!Advances(Client[request[r]], Cmd(r).deal)
           /\ Cmd(r).op \in {"create", "update"} =>
                 Book!Available(Cmd(r).company, Cmd(r).responsible)
           /\ Cmd(r).op # "create" =>
                 /\ Cmd(r).deal \in Deals /\ seen[r].deal = deal[Cmd(r).deal]
                 /\ deal[Cmd(r).deal].version = Cmd(r).version
                 /\ effects[request[r]] = 0
<1> DEFINE in == Cmd(r)
           k == request[r]
<1>1. Done(r) /\ in.op \in ops /\ ~seen[r].receipt /\ Allowed(r) /\ UNCHANGED <<company, member>>
  BY DEF Commit
<1>2. /\ k \in Keys /\ in \in Commands /\ in # NoCommand
      /\ \/ Manages(member[in.actor])
         \/ in.op = "move" /\ MayTransition(member[in.actor], deal[in.deal], in.actor)
      /\ in.op \in {"create", "update"} =>
           company[in.company] = "active" /\ member[in.responsible].active
      /\ in.op # "create" => /\ in.deal \in Deals /\ seen[r].deal = deal[in.deal]
                             /\ deal[in.deal].version = in.version
  BY <1>1, AtCommit
<1>3. in.actor = Client[k]
  BY <1>2 DEF Owned, Cmd
<1>4. outcome' = Book!Outcomes'
  <2>1. /\ outcome' \in [Converted -> {"open", "won", "lost"}]
        /\ \A d \in Converted : outcome'[d] = Class[deal'[d].stage]
    BY DEF IInv, Typed, TypeOK, DealRowsAgree
  <2> QED BY <2>1 DEF Book!Outcomes
<1>5. UNCHANGED Book!others
  BY <1>1 DEF Book!others
<1>6. in.op # "create" => effects[k] = 0
  <2>1. in.op # "create" => deal[in.deal].version \in Nat
    BY <1>2 DEF IInv, Typed, TypeOK, DealRows
  <2>2. \/ effects[k] = 0
        \/ in.op = "create" \/ deal[in.deal].version > in.version
    BY <1>2 DEF IInv, EffectsTell, Cmd
  <2> HIDE DEF in
  <2> QED BY <1>2, <2>1, <2>2
<1> HIDE DEF in
<1>7. in.op # "move" => Book!Manages(Client[k])
  BY <1>2, <1>3 DEF Manages, Book!Manages
<1>8. in.op = "move" => Book!Advances(Client[k], in.deal)
  BY <1>2, <1>3 DEF Manages, MayTransition, Book!Manages, Book!Advances
<1> QED BY <1>1, <1>2, <1>4, <1>5, <1>6, <1>7, <1>8 DEF in, k, Book!Available

LEMMA CreateBooked ==
    ASSUME IInv, Owned, IInv', NEW r \in Requests, Create(r)
    PROVE  Book!Next
<1> DEFINE in == Cmd(r)
           k == request[r]
<1>1. Commit(r, {"create"})
  BY DEF Create
<1>2. /\ in \in Commands /\ in.op = "create"
      /\ outcome' = Book!Outcomes' /\ UNCHANGED Book!others
      /\ k \in Keys /\ Book!Manages(Client[k])
      /\ Book!Available(in.company, in.responsible)
  BY <1>1, BookAtCommit
<1>3. in.stage \in Stages /\ in.company \in Companies /\ in.responsible \in Members
  BY <1>2, CommandParts
<1>4. Class[in.stage] = "open"
  BY <1>1, <1>2 DEF Commit, Allowed, MayCreate
<1>5. PICK d \in Deals :
         /\ deal[d].life = "absent"
         /\ deal' = [deal EXCEPT ![d] =
              [life |-> "active", stage |-> in.stage, version |-> 1,
               company |-> in.company, responsible |-> in.responsible]]
         /\ history' = [history EXCEPT ![d] =
              Append(@, [from |-> None, to |-> in.stage, version |-> 1])]
  BY DEF Create, Recorded, Created
<1> HIDE DEF in, k
<1>6. effects' = [effects EXCEPT ![k] = @ + 1]
  BY DEF Create, Counted, k
<1>7. Book!CarriesOut(k) /\ Book!Open(k, d, in.stage, in.company, in.responsible)
  BY <1>2, <1>4, <1>5, <1>6 DEF Book!CarriesOut, Book!Open, Book!Becomes, Book!Notes, Book!Entry
<1> QED BY <1>2, <1>3, <1>7 DEF Book!Next, Book!Commands

LEMMA UpdateBooked ==
    ASSUME IInv, Owned, IInv', NEW r \in Requests, Update(r)
    PROVE  Book!Next
<1> DEFINE in == Cmd(r)
           k == request[r]
           old == deal[in.deal]
<1>1. Commit(r, {"update"})
  BY DEF Update
<1>2. /\ in \in Commands /\ in.op = "update"
      /\ outcome' = Book!Outcomes' /\ UNCHANGED Book!others
      /\ k \in Keys /\ Book!Manages(Client[k])
      /\ Book!Available(in.company, in.responsible)
      /\ in.deal \in Deals /\ seen[r].deal = old /\ old.version = in.version
      /\ effects[k] = 0
  BY <1>1, BookAtCommit
<1>3. in.company \in Companies /\ in.responsible \in Members
  BY <1>2, CommandParts
<1>4. old.life = "active"
  BY <1>1, <1>2 DEF Commit, Allowed, MayUpdate
<1>5. deal' = [deal EXCEPT ![in.deal] =
         [old EXCEPT !.company = in.company, !.responsible = in.responsible,
                     !.version = old.version + 1]]
  BY <1>2 DEF Update
<1>6. old \in DealRows
  BY <1>2 DEF IInv, Typed, TypeOK
<1>7. deal' = [deal EXCEPT ![in.deal] =
         [[old EXCEPT !.company = in.company, !.responsible = in.responsible]
            EXCEPT !.version = old.version + 1]]
  BY <1>5, <1>6 DEF DealRows
<1> HIDE DEF in, k
<1>8. UNCHANGED history /\ effects' = [effects EXCEPT ![k] = @ + 1]
  BY DEF Update, Counted, k
<1>9. Book!CarriesOut(k) /\ Book!Assign(k, in.deal, in.company, in.responsible)
  BY <1>2, <1>4, <1>7, <1>8
     DEF Book!CarriesOut, Book!Assign, Book!Active, Book!Changes, Book!Becomes
<1> QED BY <1>2, <1>3, <1>9 DEF Book!Next, Book!Commands

LEMMA MoveBooked ==
    ASSUME IInv, Owned, IInv', NEW r \in Requests, Move(r)
    PROVE  Book!Next
<1> DEFINE in == Cmd(r)
           k == request[r]
           old == deal[in.deal]
           changed == [old EXCEPT !.stage = in.stage]
<1>1. Commit(r, {"move"}) /\ ~SameStage(r) /\ Written(r, changed)
  BY DEF Move
<1>2. /\ in \in Commands /\ in.op = "move"
      /\ outcome' = Book!Outcomes' /\ UNCHANGED Book!others
      /\ k \in Keys /\ Book!Advances(Client[k], in.deal)
      /\ in.deal \in Deals /\ seen[r].deal = old /\ old.version = in.version
      /\ effects[k] = 0
  BY <1>1, BookAtCommit
<1>3. in.stage \in Stages
  BY <1>2, CommandParts
<1>4. old.life = "active" /\ Class[old.stage] = "open" /\ in.stage # old.stage
  BY <1>1, <1>2 DEF Commit, Allowed, MayMove, Terminal, SameStage
<1>5. changed.version = old.version
  BY <1>2 DEF IInv, Typed, TypeOK, DealRows
<1>6. deal' = [deal EXCEPT ![in.deal] = [changed EXCEPT !.version = old.version + 1]]
  BY <1>1, <1>2, <1>5 DEF Written
<1>7. history' = [history EXCEPT ![in.deal] =
         Append(@, [from |-> old.stage, to |-> in.stage, version |-> old.version + 1])]
  BY <1>2 DEF Move, Recorded
<1>8. effects' = [effects EXCEPT ![k] = @ + 1]
  BY DEF Move, Counted
<1> HIDE DEF in, k
<1>9. Book!CarriesOut(k) /\ Book!Advance(k, in.deal, in.stage)
  BY <1>2, <1>4, <1>6, <1>7, <1>8
     DEF Book!CarriesOut, Book!Advance, Book!Active, Book!Changes, Book!Becomes,
         Book!Notes, Book!Entry
<1> QED BY <1>2, <1>3, <1>9 DEF Book!Next, Book!Commands

LEMMA LifeBooked ==
    ASSUME IInv, Owned, IInv', NEW r \in Requests, ChangeLife(r)
    PROVE  Book!Next
<1> DEFINE in == Cmd(r)
           k == request[r]
           old == deal[in.deal]
           life == IF in.op = "archive" THEN "archived" ELSE "active"
           changed == [old EXCEPT !.life = life]
<1>1. Commit(r, {"archive", "restore"}) /\ Written(r, changed)
  BY DEF ChangeLife
<1>2. /\ in \in Commands /\ in.op \in {"archive", "restore"}
      /\ outcome' = Book!Outcomes' /\ UNCHANGED Book!others
      /\ k \in Keys /\ Book!Manages(Client[k])
      /\ in.deal \in Deals /\ seen[r].deal = old /\ old.version = in.version
      /\ effects[k] = 0
  BY <1>1, BookAtCommit
<1>3. old.life = IF in.op = "archive" THEN "active" ELSE "archived"
  BY <1>1, <1>2 DEF Commit, Allowed, MayChangeLife
<1>4. changed.version = old.version
  BY <1>2 DEF IInv, Typed, TypeOK, DealRows
<1>5. deal' = [deal EXCEPT ![in.deal] = [changed EXCEPT !.version = old.version + 1]]
  BY <1>1, <1>2, <1>4 DEF Written
<1>6. UNCHANGED history /\ effects' = [effects EXCEPT ![k] = @ + 1]
  BY DEF ChangeLife, Counted, k
<1> HIDE DEF in, k
<1>7. CASE in.op = "archive"
  <2>1. Book!CarriesOut(k) /\ Book!Shelve(k, in.deal)
    BY <1>2, <1>3, <1>5, <1>6, <1>7
       DEF Book!CarriesOut, Book!Shelve, Book!Active, Book!Changes, Book!Becomes
  <2> QED BY <1>2, <2>1 DEF Book!Next, Book!Commands
<1>8. CASE in.op = "restore"
  <2>1. Book!CarriesOut(k) /\ Book!Restore(k, in.deal)
    BY <1>2, <1>3, <1>5, <1>6, <1>8 DEF Book!CarriesOut, Book!Restore, Book!Changes, Book!Becomes
  <2> QED BY <1>2, <2>1 DEF Book!Next, Book!Commands
<1> QED BY <1>2, <1>7, <1>8

\* Every commit is a step of DealBook: a change is made at once, to the deal as
\* it is, by the member who sent the command and has the right at that moment; a
\* command other than a creation is carried out once; a closed deal keeps its
\* stage and its lead the outcome, and the history has every stage.  All other
\* steps of the commands leave the book alone.
THEOREM DealsKeepTheBook == Spec => BookSpec
<1>1. Init => Book!Init
  BY DEF Init, Book!Init, Book!Outcomes, Book!Entry, Created
<1>2. ASSUME IInv, Owned, IInv', [Next]_vars
      PROVE  [Book!Next]_(Book!vars)
  <2>1. ASSUME UNCHANGED <<deal, history, outcome, effects, company, member>>
        PROVE  UNCHANGED Book!vars
    BY <2>1 DEF Book!vars, Book!book, Book!others
  <2>2. CASE UNCHANGED vars
    BY <2>1, <2>2 DEF vars, tables
  <2>3. ASSUME NEW r \in Requests,
               \/ Submit(r) \/ Repeat(r) \/ Take(r) \/ Replay(r)
               \/ Refuse(r) \/ Abandon(r) \/ BreakDeadlock(r)
        PROVE  UNCHANGED Book!vars
    BY <2>1, <2>3 DEF Submit, Repeat, Take, Replay, Refuse, Abandon, BreakDeadlock, tables
  <2>4. ASSUME NEW r \in Requests, KeepStage(r)
        PROVE  UNCHANGED Book!vars
    BY <2>1, <2>4 DEF KeepStage, Commit
  <2>5. ASSUME NEW r \in Requests, Effect(r)
        PROVE  Book!Next \/ UNCHANGED Book!vars
    BY <1>2, <2>4, <2>5, CreateBooked, UpdateBooked, MoveBooked, LifeBooked DEF Effect
  <2>6. ASSUME NEW m \in Members, MembershipChanges(m)
        PROVE  Book!Next
    <3>1. Book!MemberChanges(m)
      BY <2>6 DEF MembershipChanges, Book!MemberChanges, Book!book
    <3> QED BY <3>1 DEF Book!Next
  <2>7. ASSUME NEW c \in Companies, CompanyChanges(c)
        PROVE  Book!Next
    <3>1. Book!CompanyChanges(c)
      BY <2>7 DEF CompanyChanges, Book!CompanyChanges, Book!book
    <3> QED BY <3>1 DEF Book!Next
  <2>8. ASSUME NEW k \in Keys, ReceiptExpires(k)
        PROVE  UNCHANGED Book!vars
    BY <2>1, <2>8 DEF ReceiptExpires
  <2> QED BY <1>2, <2>2, <2>3, <2>5, <2>6, <2>7, <2>8 DEF Next
<1> QED BY <1>1, <1>2, AlwaysInv, AlwaysOwned, PTL DEF Spec, BookSpec, Book!Spec
=============================================================================
